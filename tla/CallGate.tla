------------------------------ MODULE CallGate ------------------------------
(***************************************************************************)
(* What the permission machinery of a session promises, without saying how *)
(* questions travel: a runner (an agent task or the REPL) has at most one  *)
(* call under way, and starts one only if it is free to run or the user    *)
(* has approved it.                                                        *)
(***************************************************************************)
CONSTANTS Runners, Calls, Free

VARIABLES
    approved,   \* calls the user has approved
    running     \* pairs of a runner and the call it has under way

gateVars == <<approved, running>>

Resting(r) == \A c \in Calls : <<r, c>> \notin running

Start(r, c) ==
    /\ Resting(r)
    /\ c \in Free \cup approved
    /\ running' = running \cup {<<r, c>>}
    /\ UNCHANGED approved

Approve(c) == approved' = approved \cup {c} /\ UNCHANGED running

\* The answer starts the call at once.
ApproveAndStart(r, c) ==
    /\ Resting(r)
    /\ approved' = approved \cup {c}
    /\ running' = running \cup {<<r, c>>}

\* Calls return, fail or die with the process.
Finish == running' \subseteq running /\ UNCHANGED approved

Init == approved = {} /\ running = {}

Next ==
    \/ \E r \in Runners, c \in Calls : Start(r, c) \/ ApproveAndStart(r, c)
    \/ \E c \in Calls : Approve(c)
    \/ Finish

Spec == Init /\ [][Next]_gateVars
=============================================================================
