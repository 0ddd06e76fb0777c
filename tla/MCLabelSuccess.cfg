SPECIFICATION Spec
CONSTANTS
    r1 = r1
    i1 = i1
    l1 = l1
    s1 = s1  s2 = s2
    c1 = c1  c2 = c2
    f1 = f1
    None = None  NoInvoice = NoInvoice  Torn = Torn
    Rate = {r1}
    Invoice = {i1}
    Label = {l1}
    Shipment = {s1, s2}
    Call = {c1, c2}
    RefundCall = {f1}
INVARIANTS
    SuccessIsPersisted
