SPECIFICATION Spec
CONSTANTS
    c1 = c1  c2 = c2
    t1 = t1  t2 = t2  t3 = t3
    r1 = r1  r2 = r2
    None = None
    Client = {c1, c2}
    Token = {t1, t2, t3}
    Request = {r1, r2}
    TTL = 1
    MaxTime = 3
SYMMETRY Symmetry
INVARIANTS
    TypeOK
    SingleSession
    SpentOnce
    SessionKeepsStore
PROPERTIES
    ImplementsOneTime
