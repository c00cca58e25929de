SPECIFICATION PolicySpec
CONSTANTS
    s1 = s1
    s2 = s2
    writer = writer
    reader = reader
    fileCall = fileCall
    shellCall = shellCall
    p1 = p1
    home = home
    work = work
    Sessions = {s1, s2}
    Agents = {writer, reader}
    Tools = {"filesystem", "shell"}
    Calls = {fileCall, shellCall}
    ToolOf <- MCToolOf
    AccessOf <- MCAccessOf
    Mode <- MCMode
    ReadOnlyAgents = {reader}
    AgentTools <- MCAgentTools
    Patterns = {p1}
    Matches <- MCMatches
    ConfigPatterns <- MCConfigPatterns
    Dirs = {home, work}
    ConfigDirs = {work}
    PathsOf <- MCPathsOf
    CacheMax = 1
    DenyWindow = 1
    MaxTime = 2
    ShellMode = "Ask"
    MaxRules = 1
SYMMETRY SessionSymmetry
CONSTRAINT RulesBound
INVARIANTS CacheBounded AllowNeedsConsent
PROPERTIES DenialHolds PrivilegeGrowth
CHECK_DEADLOCK FALSE
