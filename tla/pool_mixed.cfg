CONSTANTS
    a1 = a1
    a2 = a2
    a3 = a3
    b1 = b1
    b2 = b2
    alpha = alpha
    beta = beta
    None = None
    Tasks = {t1, t2, t3}
    Conns = {a1, b1, b2}
    Origins = {alpha, beta}
    Multiplexed = {b1, b2}
    Protocols <- MixedProtocols
    MaxConns = 2
    MaxKeepAlive = 1
    Expiry = FALSE
    Interrupts = {"wait", "ready", "close"}
SYMMETRY Symmetry
SPECIFICATION Spec
INVARIANTS
    CapRespected
PROPERTIES
    ImplementsSlots
