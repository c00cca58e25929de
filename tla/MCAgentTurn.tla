----------------------------- MODULE MCAgentTurn -----------------------------
(* Small instances of AgentTurn: one session, an agent that may write and one *)
(* that may not, a read call, a write call and one that needs sudo, of a tool *)
(* in ask mode, and replies of up to two calls.                               *)
EXTENDS AgentTurn, TLC

CONSTANTS s1, coder, reviewer, read, write, admin, t1, t2, t3, t4, p1, home, MaxRules

MCToolOf == [c \in Calls |-> "shell"]
MCAccessOf == [c \in Calls |-> IF c \in {write, admin} THEN "Write" ELSE "Read"]
MCMode == [t \in Tools |-> "Ask"]
MCAgentTools == [a \in Agents |-> Tools]
MCMatches == [p \in Patterns |-> {read}]
MCConfigPatterns == [b \in Buckets |-> {}]
MCPathsOf == [c \in Calls |-> IF c = write THEN {{home}} ELSE {}]
TaskSymmetry == Permutations(Tasks)
OneCall == {<<>>, <<write>>}
TwoCalls == {<<>>, <<read>>, <<read, write>>}
WithSudo == {<<>>, <<read, write>>, <<admin>>}

\* At most MaxRules patterns and directories are added in a behaviour.
RulesBound ==
    Cardinality({<<sc, d>> \in Scopes \X Dirs : d \in dirs[sc]})
    + Cardinality({<<sc, b, p>> \in Scopes \X Buckets \X Patterns :
                       p \in patterns[sc][b]}) <= MaxRules
=============================================================================
