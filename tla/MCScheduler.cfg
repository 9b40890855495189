SPECIFICATION Spec
CONSTANTS
    Environments <- MCEnvironments
    RetryBackoff <- MCRetryBackoff
CHECK_DEADLOCK FALSE
INVARIANTS
    TypeOK
    ConnectionScoped
    ExitIsEarned
    PromptStop
    ReadersAgree
PROPERTIES
    Paced
    SignalStops
    KeepsCollecting
