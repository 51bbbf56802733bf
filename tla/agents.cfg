SPECIFICATION FairSpec
CONSTANTS
    c1 = c1
    c2 = c2
    c3 = c3
    Clients = {c1, c2, c3}
    None = None
    Topologies <- MCTopologies
    MaxTurns = 2
    MaxFaults = 1
CHECK_DEADLOCK FALSE
INVARIANTS TypeOK PipelineIntact AgreedEnd TurnsInStep ForgetsNobody
PROPERTIES ServerReturns LoneChainSucceeds
