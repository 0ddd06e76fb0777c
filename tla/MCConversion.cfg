CONSTANTS
    q1 = q1
    None = None
    Currency = {"USD", "EUR"}
    Service = {"DOM", "USA"}
    VoiceServices = {"USA"}
    Call = {q1}
    Requests <- MCRequests
    Rates <- MCRates
    Answers <- MCAnswers
    Declared <- MCDeclared
    Width = 16
    Word = {"", "Sender", "Recipient", "S", "s", "R", "r"}
SPECIFICATION Spec
INVARIANT ConversionIsRate
