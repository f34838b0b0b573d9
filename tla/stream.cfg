CONSTANTS
    Tasks = {t1, t2, t3}
    Chains = {k1, k2, k3}
    None = None
SPECIFICATION FairSpec
INVARIANTS
    KeptOnlyWhenWhole
    OnlyStraysRemain
PROPERTIES
    ImplementsExchange
