SPECIFICATION Spec
CONSTANTS
    c1 = c1  c2 = c2
    t1 = t1  t2 = t2
    r1 = r1  r2 = r2
    s1 = s1
    k1 = k1
    u1 = u1
    None = None
    Client = {c1, c2}
    Store = c1
    Token = {t1, t2}
    Request = {r1, r2}
    Form = {r1}
    State = {s1}
    Callback = {k1}
    Removal = {u1}
    TTL = 0
    MaxTime = 1
SYMMETRY Symmetry
INVARIANTS
    NoNewSession
PROPERTIES
    ImplementsPlugin
