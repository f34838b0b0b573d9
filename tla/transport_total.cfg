CONSTANTS
    None = None
    Routes = {"direct", "absolute", "tunnel"}
    MaxRetries = 2
    Connect = None
    Pool = None
    Read = None
    Totals = {None, 0, 2}
    Horizon = 6
SPECIFICATION Spec
INVARIANTS
    TotalCoversConnecting
