SPECIFICATION FairSpec
CONSTANTS
    Method = {m1, m2}
    Sync = {k1, k2}
    Attempts = 2
    OtherCode = {another}
    MaxEdits = 1
    None = None
INVARIANTS
    TypeOK
    SingleEntry
    SuccessHasEntry
PROPERTIES
    SyncsAdvance
    SyncsEnd
