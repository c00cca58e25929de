---------------------------- MODULE MCWorkflowRun ----------------------------
(* Two workflows with steps of every kind.  The outer one branches, runs the  *)
(* inner one, as a step and through the workflow tool, and works on; the inner*)
(* one, without a limit on steps, loops back over a pattern of its switch and *)
(* tries to run the outer one.                                                *)
EXTENDS WorkflowRun, TLC

CONSTANTS outer, inner, check, nest, tool, wait, merge, pick, back, skill, ask, agent

Base ==
    [kind |-> "tool", next |-> None, onSuccess |-> None, onFailure |-> None,
     default |-> None, cases |-> {}, patterns |-> {}, callee |-> None, retries |-> 0,
     again |-> FALSE, route |-> FALSE, routeLate |-> FALSE, onError |-> "stop",
     timed |-> FALSE, polls |-> FALSE]

MCDef ==
    check :> [Base EXCEPT !.kind = "condition", !.onSuccess = nest, !.onFailure = wait,
                 !.again = TRUE, !.retries = 1, !.timed = TRUE]
    @@ nest :> [Base EXCEPT !.kind = "workflow", !.callee = inner, !.next = tool,
                 !.retries = 1, !.onError = "next_first"]
    @@ tool :> [Base EXCEPT !.callee = inner, !.onFailure = wait, !.retries = 1,
                 !.onError = "on_failure_first", !.route = TRUE, !.timed = TRUE,
                 !.routeLate = TRUE]
    @@ wait :> [Base EXCEPT !.kind = "wait", !.polls = TRUE, !.next = merge,
                 !.timed = TRUE]
    @@ merge :> [Base EXCEPT !.kind = "data"]
    @@ pick :> [Base EXCEPT !.kind = "switch", !.cases = {back, skill},
                 !.patterns = {pick}, !.retries = 1, !.again = TRUE, !.route = TRUE]
    @@ back :> [Base EXCEPT !.kind = "workflow", !.callee = outer, !.next = agent,
                 !.onError = "next_first", !.route = TRUE]
    @@ skill :> [Base EXCEPT !.kind = "skill", !.next = ask, !.timed = TRUE]
    @@ ask :> [Base EXCEPT !.kind = "condition", !.onSuccess = agent]
    @@ agent :> [Base EXCEPT !.kind = "agent", !.route = TRUE]

MCFlow ==
    outer :> [entry |-> check, maxSteps |-> 3, maxDepth |-> 1]
    @@ inner :> [entry |-> pick, maxSteps |-> None, maxDepth |-> None]
=============================================================================
