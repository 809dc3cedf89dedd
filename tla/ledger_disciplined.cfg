\* Uncertain effects are settled after their claimant is gone, one at a time.
SPECIFICATION FairSpec
CONSTANTS
    p1 = p1
    p2 = p2
    k1 = k1
    k2 = k2
    k3 = k3
    charge = charge
    deploy = deploy
    Procs = {p1, p2}
    Keys = {k1, k2}
    Kinds = {charge, deploy}
    KindOf <- TwoKinds
    Limit <- TwoAttempts
    KindTotal <- Unlimited
    Budgeted = {p1, p2}
    Probed = {charge, deploy}
    ExclusiveSettlement = TRUE
    MaxAttempts = 2
    MaxCrashes = 1
INVARIANTS
    AtMostOnce
    OutcomesAreTrue
PROPERTIES
    ImplementsEffectOnce
    UncertaintySettles
