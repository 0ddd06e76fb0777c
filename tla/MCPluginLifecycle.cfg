SPECIFICATION Spec
CONSTANTS
    s1 = s1  s2 = s2  s3 = s3
    t1 = t1  t2 = t2
    k1 = k1  k2 = k2
    p1 = p1
    u1 = u1
    None = None
    State = {s1, s2, s3}
    Session = {t1, t2}
    Callback = {k1, k2}
    Post = {p1}
    Removal = {u1}
SYMMETRY Symmetry
INVARIANTS
    TypeOK
    QuietIsClean
    ReinstallIsAsked
