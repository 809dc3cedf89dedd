\* Pins and declarations are written while a check of the environment runs.
SPECIFICATION FairSpec
CONSTANTS
    fact = fact
    finding = finding
    decision = decision
    v1 = v1
    v2 = v2
    Missing = Missing
    Components = {fact, finding, decision}
    Values = {v1, v2}
    Pins <- MCPins
    Observations <- MCObservations
    Requirements <- MCRequirements
    MaxEvents = 4
INVARIANTS
    TypeOK
    StaleIsLeastClosure
    VerdictHasItsMoment
PROPERTY
    ChecksEnd
