SPECIFICATION Spec
CONSTANTS
    None = None
    Exchanges <- MCExchanges
    MaxLogEntries = 1
    MaxResponses = 2
    MaxResets = 2
    MaxFailures = 1
INVARIANTS
    TypeOK
PROPERTIES
    NeverBackwards
    RateIsTrue
    EventuallyCurrent
    ButtonsComeBack
