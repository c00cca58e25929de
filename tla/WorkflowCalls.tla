---------------------------- MODULE WorkflowCalls ----------------------------
(***************************************************************************)
(* What running workflows from within workflows promises, whatever their   *)
(* steps do.  The calls under way form a stack: the innermost ends and its *)
(* caller goes on.  A call is nested, made by a step of a workflow, or it  *)
(* starts afresh, made by a tool, an agent or the user.  A caller that     *)
(* runs out of patience takes with it every call made since, but only if   *)
(* it had called a tool.                                                   *)
(***************************************************************************)
EXTENDS Naturals, Sequences

CONSTANTS
    Workflows,
    MaxDepth,   \* workflow -> how deep it may be nested, if that is limited
    None

VARIABLES
    calls,      \* the calls under way, the outermost first
    answered    \* the call that was innermost has ended, its caller does not go on yet

callVars == <<calls, answered>>

\* Nested calls alone lead from the i-th call to the innermost.
LeadsOn(i) == \A k \in i + 1 .. Len(calls) : calls[k].nested

Start(w) ==
    /\ answered => calls = <<>>
    /\ calls' = Append(calls, [flow |-> w, nested |-> FALSE])
    /\ answered' = FALSE

\* None of those that led here is called again, and they are not too many.
Nest(w) ==
    /\ calls # <<>> /\ ~answered
    /\ \A i \in 1 .. Len(calls) : LeadsOn(i) =>
          /\ calls[i].flow # w
          /\ MaxDepth[w] # None => Len(calls) + 1 - i <= MaxDepth[w]
    /\ calls' = Append(calls, [flow |-> w, nested |-> TRUE])
    /\ UNCHANGED answered

GoOn == calls # <<>> /\ answered /\ answered' = FALSE /\ UNCHANGED calls

\* The caller may end at once when it gets its answer.
End ==
    /\ calls # <<>>
    /\ calls' = SubSeq(calls, 1, Len(calls) - 1)
    /\ answered' = TRUE

\* The n-th call waits for a tool no longer: it goes on, or ends.
Drop(n) ==
    /\ ~calls[n + 1].nested
    /\ \/ calls' = SubSeq(calls, 1, n) /\ answered' = FALSE
       \/ calls' = SubSeq(calls, 1, n - 1) /\ answered' = TRUE

Init == calls = <<>> /\ answered = FALSE

Next ==
    \/ \E w \in Workflows : Start(w) \/ Nest(w)
    \/ GoOn \/ End
    \/ \E n \in 1 .. Len(calls) - 1 : Drop(n)

Spec == Init /\ [][Next]_callVars
=============================================================================
