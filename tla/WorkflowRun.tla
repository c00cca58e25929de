----------------------------- MODULE WorkflowRun -----------------------------
(***************************************************************************)
(* The workflow executor (workflows/executor.rs): run_internal walks the   *)
(* steps of a definition accepted by the loader, retries the attempts of a *)
(* step, routes its result, and runs workflows from within a step, either  *)
(* as a step of kind "workflow" or because a tool step calls the workflow  *)
(* tool (tools/manager.rs).  The runs under way form a stack.              *)
(*                                                                         *)
(* Time passes as events: the timeout of a run, and that of a step, may    *)
(* elapse at any moment, and is noticed where the code looks at the clock. *)
(***************************************************************************)
EXTENDS Naturals, Sequences, FiniteSets

CONSTANTS
    Workflows,    \* the registry
    Steps,        \* step ids
    Def,          \* a step's definition, its effective configuration included
    Flow,         \* a workflow's entry step and limits
    RetryCap,     \* bound on retry_count (20 in the code)
    StackMax,     \* bound on the runs under way when a tool starts one, for TLC
    None

Kinds == {"tool", "skill", "agent", "workflow", "condition", "wait", "data", "switch"}

\* "data" stands for loop and merge.  again: retry_on_false, retry_on_no_match;
\* route, routeLate: execution_ and timeout_error_policy are "route_as_failure";
\* onError: continue_on_error and its routing; timed: step_timeout_seconds is set;
\* polls: a wait step with until_expression; callee: the workflow that is run, if
\* it exists.
StepDefs ==
    [kind : Kinds, next : Steps \cup {None}, onSuccess : Steps \cup {None},
     onFailure : Steps \cup {None}, default : Steps \cup {None},
     cases : SUBSET Steps, patterns : SUBSET Steps,
     callee : Workflows \cup {None}, retries : 0 .. RetryCap, again : BOOLEAN,
     route : BOOLEAN, routeLate : BOOLEAN,
     onError : {"stop", "next_first", "on_failure_first"},
     timed : BOOLEAN, polls : BOOLEAN]
FlowDefs ==
    [entry : Steps, maxSteps : Nat \cup {None}, maxDepth : Nat \cup {None}]

\* The edges has_cycle looks at: the targets of pattern_cases are not among them.
CheckedEdges(s) ==
    {Def[s].next, Def[s].onSuccess, Def[s].onFailure, Def[s].default}
    \cup Def[s].cases
Accepted == \A S \in SUBSET Steps \ {{}} : \E s \in S : CheckedEdges(s) \cap S = {}

ASSUME WorkflowConstants ==
    /\ RetryCap \in Nat /\ StackMax \in Nat
    /\ None \notin Steps \cup Workflows \cup Nat
    /\ Def \in [Steps -> StepDefs] /\ Flow \in [Workflows -> FlowDefs]
    /\ \A s \in Steps : Def[s].callee # None => Def[s].kind \in {"workflow", "tool"}
ASSUME Loaded == Accepted

VARIABLES
    stack,      \* the runs under way, the outermost first
    returned,   \* what the run that ended last returned, until it is used
    last        \* history: how the last attempt of a step came out

vars == <<stack, returned, last>>

-----------------------------------------------------------------------------
(* A run.  chain: workflow_stack with this run; depth: recursion_depth; late  *)
(* and over: the timeout of the run, of the step, has elapsed; count and made:*)
(* steps begun and attempts made, counted where max_steps_per_run is set.     *)

Run(w, chain, depth) ==
    [flow |-> w, step |-> Flow[w].entry, pc |-> "begin", tries |-> 0, count |-> 0,
     made |-> 0, late |-> FALSE, over |-> FALSE, chain |-> chain \cup {w},
     depth |-> depth]

Outermost(b) == b[Len(b)]
Top == Outermost(stack)
Step(b) == Def[Outermost(b).step]
Bounded(f) == Flow[f.flow].maxSteps # None
Tally(f, n) == IF Bounded(f) THEN n + 1 ELSE n

Below(b) == SubSeq(b, 1, Len(b) - 1)
Saw(b, outcome) == last' = [step |-> Outermost(b).step, outcome |-> outcome]

-----------------------------------------------------------------------------
(* Ending a run, and going on in it.  b is the stack up to the run concerned. *)

Return(b, result) == stack' = Below(b) /\ returned' = result

Jump(b, target) ==
    /\ stack' = [b EXCEPT ![Len(b)].step = target, ![Len(b)].pc = "begin"]
    /\ returned' = "none"

GoOn(b, target, good) ==
    \/ target # None /\ Jump(b, target)
    \/ target = None /\ Return(b, IF good THEN "success" ELSE "failure")

Or(x, y) == IF x # None THEN x ELSE y

\* next_step_for_result and process_condition_branch.
Target(d, good) ==
    CASE good -> Or(d.onSuccess, d.next)
      [] ~good /\ d.kind = "condition" -> Or(d.onFailure, d.next)
      [] ~good /\ d.kind # "condition" ->
            CASE d.onError = "stop" -> d.onFailure
              [] d.onError = "next_first" -> Or(d.next, d.onFailure)
              [] d.onError = "on_failure_first" -> Or(d.onFailure, d.next)

\* Faulty variant: a condition that ends the run succeeds, as a switch does.
Settle_ConditionEnds(b, good) ==
    \/ /\ Step(b).kind \in {"switch", "condition"}
       /\ Target(Step(b), good) = None \/ Step(b).kind = "switch"
       /\ Return(b, "success")
    \/ Step(b).kind # "switch" /\ GoOn(b, Target(Step(b), good), good)

\* The step has its result; a switch without a target ends the run well.
Settle(b, good) ==
    \/ Step(b).kind = "switch" /\ Return(b, "success")
    \/ Step(b).kind # "switch" /\ GoOn(b, Target(Step(b), good), good)

Abort(b) == Return(b, "error")

\* ensure_within_timeouts, when a timeout has elapsed.
OutOfTime(b) ==
    /\ \/ Outermost(b).late /\ Abort(b)
       \/ /\ Outermost(b).over /\ ~Outermost(b).late
          /\ \/ Step(b).routeLate /\ Settle(b, FALSE)
             \/ ~Step(b).routeLate /\ Abort(b)
    /\ Saw(b, "late")

InTime(b) == ~Outermost(b).late /\ ~Outermost(b).over

\* Faulty variant: the attempts are compared one too late.
TryAgain_OffByOne(b, outcome) ==
    /\ Outermost(b).tries <= Step(b).retries
    /\ InTime(b)
    /\ stack' = [b EXCEPT ![Len(b)].tries = @ + 1, ![Len(b)].pc = "run",
                          ![Len(b)].made = Tally(Outermost(b), @)]
    /\ returned' = "none"
    /\ Saw(b, outcome)

\* apply_retry_backoff: the clock is looked at before the pause.
TryAgain(b, outcome) ==
    /\ Outermost(b).tries < Step(b).retries
    /\ InTime(b)
    /\ stack' = [b EXCEPT ![Len(b)].tries = @ + 1, ![Len(b)].pc = "run",
                          ![Len(b)].made = Tally(Outermost(b), @)]
    /\ returned' = "none"
    /\ Saw(b, outcome)

GiveUp(b, outcome) ==
    /\ Outermost(b).tries >= Step(b).retries
    /\ \/ outcome = "err" /\ ~Step(b).route /\ Abort(b)
       \/ (outcome # "err" \/ Step(b).route) /\ Settle(b, FALSE)
    /\ Saw(b, outcome)

\* An attempt failed, "bad", or raised an error, "err".
Failed(b, outcome) ==
    \/ TryAgain(b, outcome)
    \/ Outermost(b).tries < Step(b).retries /\ ~InTime(b) /\ OutOfTime(b)
    \/ GiveUp(b, outcome)

-----------------------------------------------------------------------------
(* Attempts of the innermost run. *)

AtStep(kinds) ==
    stack # <<>> /\ returned = "none" /\ Top.pc = "run" /\ Def[Top.step].kind \in kinds

\* Faulty variant: the workflow's timeout is not looked at between steps.
BeginStep_NoClock ==
    /\ stack # <<>> /\ returned = "none" /\ Top.pc = "begin"
    /\ LET spent == Bounded(Top) /\ Top.count >= Flow[Top.flow].maxSteps
       IN  \/ spent /\ Abort(stack) /\ Saw(stack, "limit")
           \/ /\ ~spent
              /\ stack' = [stack EXCEPT ![Len(stack)] =
                    [Top EXCEPT !.pc = "run", !.tries = 0, !.over = FALSE,
                        !.count = Tally(Top, @), !.made = Tally(Top, @)]]
              /\ UNCHANGED <<returned, last>>

BeginStep ==
    /\ stack # <<>> /\ returned = "none" /\ Top.pc = "begin"
    /\ LET spent == Bounded(Top) /\ Top.count >= Flow[Top.flow].maxSteps
       IN  \/ (Top.late \/ spent) /\ Abort(stack) /\ Saw(stack, "limit")
           \/ /\ ~Top.late /\ ~spent
              /\ stack' = [stack EXCEPT ![Len(stack)] =
                    [Top EXCEPT !.pc = "run", !.tries = 0, !.over = FALSE,
                        !.count = Tally(Top, @), !.made = Tally(Top, @)]]
              /\ UNCHANGED <<returned, last>>

\* The attempt succeeds, the condition holds, the wait is over.
Works ==
    /\ AtStep({"tool", "skill", "agent", "condition", "wait", "data"})
    /\ Step(stack).callee = None
    /\ Settle(stack, TRUE) /\ Saw(stack, "good")

\* A tool or a skill reports failure, or a condition is false.
Fails ==
    \/ /\ AtStep({"tool", "skill"}) /\ Step(stack).callee = None
       /\ Failed(stack, "bad")
    \/ AtStep({"condition"}) /\ Step(stack).again /\ Failed(stack, "bad")
    \/ /\ AtStep({"condition"}) /\ ~Step(stack).again
       /\ Settle(stack, FALSE) /\ Saw(stack, "bad")

\* The attempt raises an error; a call that waits for the user counts as one.
Errs == AtStep({"tool", "skill", "agent", "condition", "switch"}) /\ Failed(stack, "err")

\* Errors that leave the run whatever the step's policy says: an argument that
\* cannot be rendered, an unknown skill or agent, the history of the session an
\* agent answered in, a loop, merge or wait step.
SetupErrs ==
    /\ \/ AtStep({"tool", "skill", "agent", "workflow"}) /\ Top.tries = 0
       \/ AtStep({"agent", "data"})
       \/ AtStep({"wait"}) /\ Step(stack).polls
    /\ Abort(stack) /\ Saw(stack, "setup")

\* resolve_switch_target: a case or a pattern, else the default, else next.
SwitchTargets(d) == (d.cases \cup d.patterns \cup {Or(d.default, d.next)}) \ {None}
MayMiss(d) == Or(d.default, d.next) = None

Choose ==
    /\ AtStep({"switch"})
    /\ LET d == Step(stack)
       IN  \/ \E t \in SwitchTargets(d) : Jump(stack, t) /\ Saw(stack, "good")
           \/ MayMiss(d) /\ d.again /\ Failed(stack, "bad")
           \/ MayMiss(d) /\ ~d.again /\ Settle(stack, FALSE) /\ Saw(stack, "bad")

\* A wait whose condition has not come true in its own time, or that finds at a
\* poll that the step's or the run's time is over.
WaitEnds ==
    /\ AtStep({"wait"})
    /\ \/ Step(stack).polls /\ Settle(stack, FALSE) /\ Saw(stack, "bad")
       \/ OutOfTime(stack)

TooDeep(w, depth) == Flow[w].maxDepth # None /\ depth > Flow[w].maxDepth

\* Faulty variant: the nested request carries the caller's own workflow_stack.
CallNested_StaleChain ==
    /\ AtStep({"workflow"})
    /\ LET w == Step(stack).callee
           passed == Top.chain \ {Top.flow}
           refused == w = None \/ w \in passed \/ TooDeep(w, Top.depth + 1)
       IN  \/ refused /\ Failed(stack, "err")
           \/ /\ ~refused
              /\ stack' = Append([stack EXCEPT ![Len(stack)].pc = "call"],
                                 Run(w, passed, Top.depth + 1))
              /\ UNCHANGED <<returned, last>>

\* A step of kind "workflow": validate_recursion_and_cycle of the nested run.
CallNested ==
    /\ AtStep({"workflow"})
    /\ LET w == Step(stack).callee
           refused == w = None \/ w \in Top.chain \/ TooDeep(w, Top.depth + 1)
       IN  \/ refused /\ Failed(stack, "err")
           \/ /\ ~refused
              /\ stack' = Append([stack EXCEPT ![Len(stack)].pc = "call"],
                                 Run(w, Top.chain, Top.depth + 1))
              /\ UNCHANGED <<returned, last>>

\* A tool step whose tool is "workflow": execute_workflow_call starts the run
\* with recursion_depth 0 and an empty workflow_stack.
CallTool ==
    /\ AtStep({"tool"}) /\ Step(stack).callee # None /\ Len(stack) < StackMax
    /\ stack' = Append([stack EXCEPT ![Len(stack)].pc = "call"],
                       Run(Step(stack).callee, {}, 0))
    /\ UNCHANGED <<returned, last>>

\* The caller gets the result of the run it waits for.
Receive ==
    /\ stack # <<>> /\ returned # "none"
    /\ \/ returned = "success" /\ Settle(stack, TRUE) /\ Saw(stack, "good")
       \/ returned = "failure" /\ Failed(stack, "bad")
       \/ returned = "error" /\ Failed(stack, "err")

\* The timer of a tool step fires: the call is dropped, and with it the runs it
\* has started.
Timer(i) ==
    LET b == SubSeq(stack, 1, i)
    IN  /\ stack[i].pc \in {"run", "call"}
        /\ Step(b).kind = "tool" /\ Step(b).timed
        /\ \/ Step(b).routeLate /\ Settle(b, FALSE)
           \/ ~Step(b).routeLate /\ Abort(b)
        /\ Saw(b, "late")

-----------------------------------------------------------------------------
Elapse(i) ==
    /\ ~stack[i].late
    /\ stack' = [stack EXCEPT ![i].late = TRUE]
    /\ UNCHANGED <<returned, last>>

StepElapse(i) ==
    /\ stack[i].pc # "begin" /\ Def[stack[i].step].timed /\ ~stack[i].over
    /\ stack' = [stack EXCEPT ![i].over = TRUE]
    /\ UNCHANGED <<returned, last>>

\* The user, a trigger or an agent's call of the workflow tool starts a run.
Start(w) ==
    /\ stack = <<>>
    /\ stack' = <<Run(w, {}, 0)>> /\ returned' = "none"
    /\ UNCHANGED last

Init ==
    /\ stack = <<>> /\ returned = "none"
    /\ last = [step |-> None, outcome |-> "none"]

RunStep ==
    \/ BeginStep \/ Works \/ Fails \/ Errs \/ SetupErrs \/ Choose \/ WaitEnds
    \/ CallNested \/ CallTool \/ Receive

Next ==
    \/ RunStep
    \/ \E w \in Workflows : Start(w)
    \/ \E i \in DOMAIN stack : Timer(i) \/ Elapse(i) \/ StepElapse(i)

Spec == Init /\ [][Next]_vars

\* Tools, skills, agents and expressions come to an end, and the clock goes on:
\* every run has a timeout, since default_timeout_seconds is never 0.
FairSpec ==
    /\ Spec /\ WF_vars(RunStep)
    /\ \A i \in 1 .. StackMax + Cardinality(Workflows) : WF_vars(i \in DOMAIN stack /\ Elapse(i))

-----------------------------------------------------------------------------
Runs ==
    [flow : Workflows, step : Steps, pc : {"begin", "run", "call"}, tries : Nat,
     count : Nat, made : Nat, late : BOOLEAN, over : BOOLEAN,
     chain : SUBSET Workflows, depth : Nat]
Outcomes == {"none", "good", "bad", "err", "late", "limit", "setup"}

TypeOK ==
    /\ stack \in Seq(Runs)
    /\ returned \in {"none", "success", "failure", "error"}
    /\ last \in [step : Steps \cup {None}, outcome : Outcomes]

\* A run that was started through the workflow tool, or by the user.
Fresh(i) == stack[i].depth = 0

\* As long as runs are nested by workflow steps only, no workflow runs inside
\* itself and none deeper than its max_recursion_depth: what each run knows of
\* its callers is what the stack really holds.
RecursionBounded ==
    /\ \A i, j \in DOMAIN stack :
          i < j /\ (\A k \in i + 1 .. j : ~Fresh(k)) => stack[i].flow # stack[j].flow
    /\ \A i \in DOMAIN stack :
          LET limit == Flow[stack[i].flow].maxDepth
          IN  limit # None => stack[i].depth <= limit

\* The limit on steps bounds the attempts too: a run with max_steps_per_run set
\* makes at most RetryCap + 1 attempts for each step, however steps are routed
\* back to, retried, timed out and nested.
AttemptsBounded ==
    \A i \in DOMAIN stack :
        LET limit == Flow[stack[i].flow].maxSteps
        IN  limit # None => stack[i].made <= limit * (RetryCap + 1)

\* What a run returns is what became of its last step: success only if that
\* step went well, an error only after a timeout, a limit, an error before the
\* first attempt or an error under the policy "abort".  A switch step that
\* cannot be evaluated is the exception: it ends its run well under any policy.
ResultMatchesLastStep ==
    LET d == Def[last.step]
    IN  /\ returned = "success" /\ d.kind # "switch" => last.outcome = "good"
        /\ returned = "failure" => last.outcome # "good"
        /\ returned = "error" =>
              \/ last.outcome \in {"late", "limit", "setup"}
              \/ last.outcome = "err" /\ ~d.route

\* What a run knows of its callers, workflow_stack and recursion_depth, and the timers of
\* the steps implement the calls of WorkflowCalls: the stack of the requests is the stack
\* of the calls, whatever fails, times out or is dropped.
UnderWay == [i \in 1 .. Len(stack) |-> [flow |-> stack[i].flow, nested |-> ~Fresh(i)]]
Calls == INSTANCE WorkflowCalls WITH
    MaxDepth <- [w \in Workflows |-> Flow[w].maxDepth],
    calls <- UnderWay, answered <- returned # "none"
ImplementsCalls == Calls!Spec

\* Every run ends, also one whose steps form a cycle through pattern_cases and
\* whose workflow has no limit on steps.
RunsEnd == stack # <<>> ~> stack = <<>>
=============================================================================
