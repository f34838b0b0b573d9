CONSTANTS
    None = None
    Routes = {"direct", "absolute", "tunnel"}
    MaxRetries = 2
    Connect = None
    Pool = 2
    Read = None
    Totals = {None, 0, 2}
    Horizon = 6
SPECIFICATION FairSpec
INVARIANTS
    BodySentOnce
    ProcessedAgainOnlyIfDropped
    NoResponseStranded
    ConnectionGivenBack
    TotalRespected
    NoTransportStranded
PROPERTIES
    Terminates
