SPECIFICATION Spec
CONSTANTS
    None = None
    TkCallers = {"a", "b"}
    TkProviders = {"p", "q"}
    TkMaxIssued = 2
    CfgClients = {"a"}
    CfgMaxVersion = 2
    DbProcs = {"a", "b"}
    DbLast = 3
    TdCallers = {"a", "b"}
    TdMax = 3
    SaCallers = {"x", "y"}
    SaAgents = {"y", "z"}
    SaMode = "hybrid"
    SaHorizon = 4
    SaMaxRows = 2
    SaBatches = {"i", "j"}
    SaRequests = 3
    SaParallel = 2
CONSTRAINT Undisturbed
INVARIANT CfgAllOrNothing
