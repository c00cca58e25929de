----------------------------- MODULE SubAgents -----------------------------
(***************************************************************************)
(* Calls of other agents (tools/sub_agent.rs, agents/coordinator.rs): the  *)
(* cache of their outputs, and batches of them that run as tasks of their  *)
(* own, a bounded number at a time.                                        *)
(***************************************************************************)
EXTENDS Common, Naturals, Sequences, FiniteSets

CONSTANTS SaCallers, SaAgents,   \* agents that call, and those that are called
          SaMode,        \* sub_agent_output_cache_mode
          SaHorizon,     \* bound on time; two units are a day
          SaMaxRows,     \* bound: outputs stored
          SaBatches,     \* batches that may overlap
          SaRequests,    \* requests of a batch
          SaParallel     \* sub_agent_max_parallel_tasks; 0 stands for as many as requests

ASSUME SaConstants == SaRequests \in Nat /\ SaParallel \in Nat

VARIABLES
    saNow,      \* the time
    saRows,     \* the table sub_agent_outputs, in the order stored
    saCall,     \* caller -> its call of one agent
    saTask,     \* batch -> request -> the state of its task
    saFinished, \* batch -> the requests in the order their tasks ended
    saResults   \* batch -> the results joined so far

saVars == <<saNow, saRows, saCall, saTask, saFinished, saResults>>
saCache == <<saNow, saRows, saCall>>
saBatch == <<saTask, saFinished, saResults>>

\* A task is what is asked, of a kind that infer_task_type finds in its words.
SaTasks == {"test one", "test two"}
SaKind(task) == "testing"
SaAsks == [target : SaAgents, task : SaTasks]
\* compute_task_key: the agent, the task and the number of messages.
SaKey(ask) == <<ask.target, ask.task>>
SaTtl == 1
SaIdle == [at |-> "idle", ask |-> None, row |-> None]

\* Expiry is compared as text, a date with a T after it to one with a blank: on the day
\* it is due an entry counts as live all day long.
SaDay(t) == t \div 2
SaLive(row) == SaDay(row.expires) >= SaDay(saNow)
SaNewest(found) ==
    IF found = {} THEN None ELSE saRows[CHOOSE i \in found : \A j \in found : j <= i]
SaExact(ask) ==
    SaNewest({i \in 1..Len(saRows) : saRows[i].key = SaKey(ask) /\ SaLive(saRows[i])})
\* The rows of a caller that answered a task of this kind.
SaAlike(c, ask) ==
    {i \in 1..Len(saRows) :
        saRows[i].kind = SaKind(ask.task) /\ saRows[i].caller = c /\ SaLive(saRows[i])}
SaSemantic_AnyTarget(c, ask) == SaNewest(SaAlike(c, ask))
SaSemantic(c, ask) == SaNewest({i \in SaAlike(c, ask) : saRows[i].target = ask.target})
SaFound(c, ask) ==
    IF SaExact(ask) # None \/ SaMode = "exact" THEN SaExact(ask) ELSE SaSemantic(c, ask)

\* stream_execute: the cache is asked before the coordinator is.
SaCallAgent(c, ask) ==
    /\ saCall[c].at \in {"idle", "served"}
    /\ saCall' = [saCall EXCEPT ![c] =
          IF SaFound(c, ask) # None THEN [at |-> "served", ask |-> ask, row |-> SaFound(c, ask)]
          ELSE [SaIdle EXCEPT !.at = "asks", !.ask = ask]]
    /\ UNCHANGED <<saNow, saRows, saBatch>>
\* run_sub_agent: not allowed to call, an agent that calls itself, at its depth limit.
SaMayRun(caller, target) == caller # target
SaRun(c) ==
    /\ saCall[c].at = "asks"
    /\ saCall' = [saCall EXCEPT ![c] = IF SaMayRun(c, @.ask.target) THEN [@ EXCEPT !.at = "runs"]
                                       ELSE SaIdle]
    /\ UNCHANGED <<saNow, saRows, saBatch>>
\* cache_output stores what the schema, if any, accepted; a failure to store is ignored.
SaRunEnds(c, stored) ==
    /\ saCall[c].at = "runs"
    /\ saRows' = IF ~stored \/ Len(saRows) = SaMaxRows THEN saRows
                 ELSE Append(saRows, [key |-> SaKey(saCall[c].ask), caller |-> c,
                                      target |-> saCall[c].ask.target,
                                      kind |-> SaKind(saCall[c].ask.task),
                                      expires |-> saNow + SaTtl])
    /\ saCall' = [saCall EXCEPT ![c] = SaIdle]
    /\ UNCHANGED <<saNow, saBatch>>
\* The time of what was served is that of the call: it is forgotten when time goes on.
SaTime ==
    /\ saNow < SaHorizon /\ saNow' = saNow + 1
    /\ saCall' = [c \in SaCallers |-> IF saCall[c].at = "served" THEN SaIdle ELSE saCall[c]]
    /\ UNCHANGED <<saRows, saBatch>>

(* run_parallel_sub_agents *)
SaPermits == IF SaParallel = 0 THEN SaRequests ELSE SaParallel
SaRunning(b) == {r \in DOMAIN saTask[b] : saTask[b][r] = "runs"}
SaAwaited(b) == Len(saResults[b]) + 1

SaBatchStarts(b) ==
    /\ saTask[b] = <<>>
    /\ saTask' = [saTask EXCEPT ![b] = [r \in 1..SaRequests |-> "waits"]]
    /\ UNCHANGED <<saFinished, saResults, saCache>>
\* The permit is held until the task ends.
SaHasPermit(b) == Cardinality(SaRunning(b)) < SaPermits
SaTaskRuns(b, r) ==
    /\ saTask[b] # <<>> /\ saTask[b][r] = "waits" /\ SaHasPermit(b)
    /\ saTask' = [saTask EXCEPT ![b][r] = "runs"]
    /\ UNCHANGED <<saFinished, saResults, saCache>>
\* With a result, an error or, joined as an error, a panic.
SaTaskEnds(b, r, outcome) ==
    /\ saTask[b] # <<>> /\ saTask[b][r] = "runs"
    /\ saTask' = [saTask EXCEPT ![b][r] = outcome]
    /\ saFinished' = [saFinished EXCEPT ![b] = Append(@, r)]
    /\ UNCHANGED <<saResults, saCache>>
\* The handles are awaited in the order of the requests.
SaJoined_AsFinished(b) ==
    IF SaAwaited(b) <= Len(saFinished[b]) THEN saFinished[b][SaAwaited(b)] ELSE None
SaJoined(b) ==
    IF saTask[b][SaAwaited(b)] \in {"ok", "failed"} THEN SaAwaited(b) ELSE None
SaJoin(b) ==
    /\ saTask[b] # <<>> /\ SaAwaited(b) <= SaRequests /\ SaJoined(b) # None
    /\ saResults' = [saResults EXCEPT ![b] =
                         Append(@, [of |-> SaJoined(b), outcome |-> saTask[b][SaJoined(b)]])]
    /\ UNCHANGED <<saTask, saFinished, saCache>>
\* The caller returns, or is cancelled: its tasks are not, and go on beside the next batch.
SaBatchReturns(b) ==
    /\ Len(saFinished[b]) = SaRequests
    /\ saTask' = [saTask EXCEPT ![b] = <<>>]
    /\ saFinished' = [saFinished EXCEPT ![b] = <<>>]
    /\ saResults' = [saResults EXCEPT ![b] = <<>>]
    /\ UNCHANGED saCache

SaInit ==
    /\ saNow = 0 /\ saRows = <<>>
    /\ saCall = [c \in SaCallers |-> SaIdle]
    /\ saTask = [b \in SaBatches |-> <<>>]
    /\ saFinished = [b \in SaBatches |-> <<>>] /\ saResults = [b \in SaBatches |-> <<>>]

SaCallNext ==
    \/ SaTime
    \/ \E c \in SaCallers :
        SaRun(c) \/ (\E ask \in SaAsks : SaCallAgent(c, ask)) \/ \E ok \in BOOLEAN : SaRunEnds(c, ok)
SaBatchNext ==
    \E b \in SaBatches :
        \/ SaBatchStarts(b) \/ SaJoin(b) \/ SaBatchReturns(b)
        \/ \E r \in 1..SaRequests :
              SaTaskRuns(b, r) \/ \E outcome \in {"ok", "failed"} : SaTaskEnds(b, r, outcome)
SaNext == SaCallNext \/ SaBatchNext

\* "Results are returned in the same order as requests" (coordinator.rs), in whatever
\* order the tasks end and whichever of them fail.
SaInOrder == \A b \in SaBatches : \A i \in 1..Len(saResults[b]) :
    saResults[b][i] = [of |-> i, outcome |-> saTask[b][i]]

\* Never do more agents of a batch work at once than its caller is configured for.
SaBounded == \A b \in SaBatches : Cardinality(SaRunning(b)) <= SaPermits

\* A batch gives its answers in order and keeps to its limit.
SaBatchHolds == SaInOrder /\ SaBounded

\* An answer from the cache was given by the agent that is asked now, also when it was
\* looked up by the kind of the task and answered another one.
SaOwnTarget ==
    \A c \in SaCallers : saCall[c].at = "served" => saCall[c].row.target = saCall[c].ask.target

SaSpec == SaInit /\ [][SaNext]_saVars
=============================================================================
