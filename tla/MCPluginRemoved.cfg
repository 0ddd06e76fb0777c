SPECIFICATION Spec
CONSTANTS
    s1 = s1
    t1 = t1
    k1 = k1
    p1 = p1
    u1 = u1
    None = None
    State = {s1}
    Session = {t1}
    Callback = {k1}
    Post = {p1}
    Removal = {u1}
INVARIANT NothingIsLeft
