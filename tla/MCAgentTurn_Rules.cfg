SPECIFICATION Spec
CONSTANTS
    s1 = s1
    coder = coder
    reviewer = reviewer
    read = read
    write = write
    admin = admin
    None = None
    t1 = t1
    t2 = t2
    t3 = t3
    t4 = t4
    p1 = p1
    home = home
    MaxRules = 1
    Sessions = {s1}
    Session = s1
    Agents = {coder, reviewer}
    ReplAgent = coder
    ReadOnlyAgents = {reviewer}
    Tools = {"shell"}
    Calls = {read, write}
    ToolOf <- MCToolOf
    AccessOf <- MCAccessOf
    Mode <- MCMode
    AgentTools <- MCAgentTools
    Patterns = {p1}
    Matches <- MCMatches
    ConfigPatterns <- MCConfigPatterns
    Dirs = {home}
    ConfigDirs = {}
    PathsOf <- MCPathsOf
    CacheMax = 1
    DenyWindow = 1
    MaxTime = 1
    Tasks = {t1, t2}
    NeedsSudo = {}
    Replies <- TwoCalls
    MaxRounds = 1
    MaxPerRound = 2
    MaxTotal = 2
    MayTimeOut = FALSE
    MayDrop = FALSE
    MaxRestarts = 0
    HistoryMax = 0
CONSTRAINT RulesBound
SYMMETRY TaskSymmetry
PROPERTY ImplementsGate
CHECK_DEADLOCK FALSE
