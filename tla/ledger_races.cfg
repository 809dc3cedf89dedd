\* Anyone settles anything at any time, while claimants may still be running.
SPECIFICATION Spec
CONSTANTS
    p1 = p1
    p2 = p2
    k1 = k1
    k2 = k2
    k3 = k3
    charge = charge
    deploy = deploy
    Procs = {p1, p2}
    Keys = {k1, k2, k3}
    Kinds = {charge, deploy}
    KindOf <- ThreeKeys
    Limit <- OneDeploy
    KindTotal <- OneCharge
    Budgeted = {p1, p2}
    Probed = {charge}
    ExclusiveSettlement = FALSE
    MaxAttempts = 2
    MaxCrashes = 1
SYMMETRY Symmetry
INVARIANTS
    TypeOK
    RowIsReplay
    SkipIsTruthful
    EffectsCoveredByAttempts
    BudgetRespected
    RetryKeepsItsAllowance
