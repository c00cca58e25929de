SPECIFICATION Spec
CONSTANTS
    None = None
    a = a
    b = b
    SshCallers = {a, b}
    SshNames = {"web", "we_b", "db"}
    SshHosts = {"h1", "h2"}
    SshSocket <- MCSocket
    ShCallers = {a, b}
    ShSessions = {"s1", "s2"}
    ShPasswords = {"old", "new"}
    ShTtl = 1
    ShClock = 1
    ProcCallers = {a, b}
    ProcPids = {"p1", "p2"}
    DlVersions = {"v1", "v2"}
    DlLength <- MCLength
    DlMaxSize = 3
    DlFileMax = 5
    McpThreads = {a, b}
    McpQueue = 2
    LspCallers = {a, b}
    LspIds = {"ra"}
    LspHandles = {"h1", "h2"}
    LspRequests = 3
    WatchCallers = {a, b}
    WatchFiles = {"f", "g"}
    WatchPrints = {"x", "y"}
    WatchMaxChanges = 1
    FsPaths <- MCPaths
    FsContents = {"x", "y"}
    FsEdited <- MCEdited
    FsMaxEntries = 3
    GitBranches = {"main", "fix"}
    GitTags = {"v1"}
    GitTrees = {"x", "y"}
    GitMaxLog = 2
SYMMETRY CallerSymmetry
INVARIANTS  ShCacheProven ProcNoneLost    WatchReportsComplete FsMoveKeeps
PROPERTIES SshNotReplaced  GitCommitsKept
