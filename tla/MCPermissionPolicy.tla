------------------------- MODULE MCPermissionPolicy -------------------------
(* Small instance of PermissionPolicy: two sessions, a writing and a         *)
(* read-only agent, a file call outside the configured directories and a     *)
(* shell call a pattern can match.                                           *)
EXTENDS PermissionPolicy, TLC

CONSTANTS s1, s2, writer, reader, fileCall, shellCall, p1, home, work,
          ShellMode, MaxRules

MCToolOf == [c \in Calls |-> IF c = fileCall THEN "filesystem" ELSE "shell"]
MCAccessOf == [c \in Calls |-> IF c = fileCall THEN "Write" ELSE "Read"]
MCMode == [t \in Tools |-> IF t = "shell" THEN ShellMode ELSE "Ask"]
MCAgentTools == [a \in Agents |-> Tools]
MCMatches == [p \in Patterns |-> {shellCall}]
MCConfigPatterns == [b \in Buckets |-> {}]
MCPathsOf == [c \in Calls |-> IF c = shellCall THEN {{home, work}} ELSE {{home}}]

\* At most MaxRules patterns and directories are added in a behaviour.
RulesBound ==
    Cardinality({<<sc, d>> \in Scopes \X Dirs : d \in dirs[sc]})
    + Cardinality({<<sc, b, p>> \in Scopes \X Buckets \X Patterns :
                       p \in patterns[sc][b]}) <= MaxRules

SessionSymmetry == Permutations(Sessions)
=============================================================================
