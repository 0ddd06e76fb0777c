SPECIFICATION Spec
CONSTANTS
    None = None
    MaxFilled = 2
    MaxChanged = 2
    QuoteForms <- MCQuoteForms
    LabelForms <- MCLabelForms
INVARIANTS
    TypeOK
    SentIsLegal
    OneWayBack
    QuotedIsSent
    ChecksAgree
CHECK_DEADLOCK FALSE
