SPECIFICATION FairSpec
CONSTANTS
    None = None
    outer = outer
    inner = inner
    check = check
    nest = nest
    tool = tool
    wait = wait
    merge = merge
    pick = pick
    back = back
    skill = skill
    ask = ask
    agent = agent
    Workflows = {outer, inner}
    Steps = {check, nest, tool, wait, merge, pick, back, skill, ask, agent}
    Def <- MCDef
    Flow <- MCFlow
    RetryCap = 1
    StackMax = 3
INVARIANTS RecursionBounded AttemptsBounded ResultMatchesLastStep
PROPERTIES RunsEnd ImplementsCalls
