CONSTANTS
    w1 = w1
    g1 = g1
    g2 = g2
    None = None
    Workers = {w1}
    Gateways = {g1, g2}
    MaxRuns = 2
    GatewayOf <- OneEach
SPECIFICATION FairSpec
PROPERTIES
    AnswerStays
    EveryRunEnds
CHECK_DEADLOCK FALSE
