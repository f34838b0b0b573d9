CONSTANTS
    None = None
    Requests = {r1, r2, r3}
    MaxRedirects = 1
    Tasks <- Hops
    Conns = {c1, c2, c3}
    Shareable = {c3}
    MaxConns = 2
SPECIFICATION SessionSpec
INVARIANTS
    NothingLeftBehind
    ThrowawayClosed
PROPERTIES
    EveryRequestEnds
