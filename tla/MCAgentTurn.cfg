SPECIFICATION Spec
CONSTANTS
    s1 = s1
    coder = coder
    reviewer = reviewer
    read = read
    write = write
    admin = admin
    None = None
    t1 = t1
    t2 = t2
    t3 = t3
    t4 = t4
    p1 = p1
    home = home
    MaxRules = 0
    Sessions = {s1}
    Session = s1
    Agents = {coder}
    ReplAgent = coder
    ReadOnlyAgents = {}
    Tools = {"shell"}
    Calls = {read, write, admin}
    ToolOf <- MCToolOf
    AccessOf <- MCAccessOf
    Mode <- MCMode
    AgentTools <- MCAgentTools
    Patterns = {}
    Matches <- MCMatches
    ConfigPatterns <- MCConfigPatterns
    Dirs = {home}
    ConfigDirs = {home}
    PathsOf <- MCPathsOf
    CacheMax = 2
    DenyWindow = 0
    MaxTime = 0
    Tasks = {t1, t2, t3}
    NeedsSudo = {admin}
    Replies <- WithSudo
    MaxRounds = 2
    MaxPerRound = 2
    MaxTotal = 3
    MayTimeOut = TRUE
    MayDrop = TRUE
    MaxRestarts = 1
    HistoryMax = 0
CONSTRAINT RulesBound
SYMMETRY TaskSymmetry
INVARIANTS TokenIsLive RepliesBounded ExecutionAuthorised
CHECK_DEADLOCK FALSE
