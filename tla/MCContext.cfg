SPECIFICATION Spec
CONSTANTS
    None = None
    WinAgents = {"hybrid", "token_threshold"}
    WinSize = 4
    WinThreshold = 2
    WinPercent = 75
    WinMaxEntries = 2
    WinMaxMessages = 4
    ExMaxDepth = 64
    RuMaxDepth = 1
    RuMaxShown = 2
    RuThreshold = 50
    RuMaxEdits = 2
    LnCallers = {"turn", "listener"}
    LnMistakes = {"k", "l", "m"}
    LnTasks <- Tasks
    LnShort = {"go"}
    LnMistakeLimit = 2
    LnSuccessLimit = 1
    LnWarnAt = 2
    LnMax = 2
    IxBuilders = {"a", "b"}
    IxFiles = {"f"}
    IxMaxVersion = 2
    IxCount = 4
    IxDepths = {1, 2, 3}
    TrCrons = {"hourly", "daily"}
    TrTimes <- CronTimes
    TrListeners <- EventListeners
    TrMaxTime = 4
INVARIANTS WinKeepsWhatFits   RuKeepsGoing  LnTallies IxFresh IxImpact TrExactlyOnce
