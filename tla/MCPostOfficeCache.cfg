CONSTANTS
    p1 = p1
    p2 = p2
    o1 = o1
    o2 = o2
    noId = noId
    t1 = t1
    t2 = t2
    odd = odd
    f1 = f1
    f2 = f2
    Code = {p1, p2}
    Office = {o1, o2}
    Unnamed = noId
    Text = {t1, t2, odd}
    Odd = {odd}
    Listing <- MCListing
    Form = {f1, f2}
    None = None
SPECIFICATION Spec
SYMMETRY Symmetry
INVARIANTS
    TypeOK
    GoneStaysGone
    DefaultHasOffices
    OfferStands
PROPERTIES
    ImplementsDirectory
