------------------------------ MODULE AgentTurn ------------------------------
(***************************************************************************)
(* One chat session of the REPL: the agent tasks that run its turns        *)
(* (agents/behavior.rs), the tool manager that puts their calls before the *)
(* permission policy (tools/manager.rs), the single row of pending_tools   *)
(* that survives a turn stopped by a question, the event channel, and the  *)
(* REPL (repl.rs), whose listener fills the question slots and whose main  *)
(* loop answers, runs the answered call and starts the task that resumes.  *)
(*                                                                         *)
(* A reply of the model is the sequence of calls parsed from it.  A task   *)
(* is used for one start_turn or one continue_after_tool.                  *)
(***************************************************************************)
EXTENDS PermissionPolicy, Sequences

CONSTANTS
    Session,        \* the session of this REPL
    Tasks,          \* identities of the spawned agent tasks (bounds them)
    ReplAgent,      \* the agent the REPL was started with
    NeedsSudo,      \* shell calls that require a sudo password
    Replies,        \* replies the model may give, each a sequence of calls
    MaxRounds,      \* effective_max_tool_rounds
    MaxPerRound,    \* effective_max_tools_per_round
    MaxTotal,       \* effective_max_total_tool_calls_per_turn
    MayTimeOut,     \* a duration budget is set for turns
    MayDrop,        \* the event channel can be full when a question is sent
    MaxRestarts,    \* bound on process restarts, for TLC
    HistoryMax,     \* bound on the counters asked and ran, for TLC
    None            \* no call, no row, no task

ASSUME TurnConstants ==
    /\ Session \in Sessions /\ ReplAgent \in Agents
    /\ NeedsSudo \subseteq Calls
    /\ Replies \subseteq Seq(Calls)
    /\ MaxRounds \in Nat \ {0} /\ MaxPerRound \in Nat \ {0} /\ MaxTotal \in Nat \ {0}
    /\ MayTimeOut \in BOOLEAN /\ MayDrop \in BOOLEAN
    /\ MaxRestarts \in Nat /\ HistoryMax \in Nat
    /\ None \notin Calls /\ None \notin Tasks

VARIABLES
    turn,       \* state of every task
    lastReply,  \* the last assistant message of the session history
    pending,    \* the session's row of pending_tools, or None
    requests,   \* questions in the event channel
    slot,       \* pending_permission of the REPL: a call or None
    sudoSlot,   \* pending_sudo of the REPL: a call or None
    repl,       \* what the REPL's main loop is doing
    token,      \* active_turn_tokens[session]: the task it cancels, or None
    cancelled,  \* tasks whose token is cancelled
    restarts,   \* process restarts so far
    asked, ran  \* history: times a call was requested by the model, and run

vars == <<policyVars, turn, lastReply, pending, requests, slot, sudoSlot, repl,
          token, cancelled, restarts, asked, ran>>

\* What a step of an agent task never changes.
othersUnchanged == UNCHANGED <<policyVars, slot, sudoSlot, repl, cancelled, restarts>>

-----------------------------------------------------------------------------
(* Task states.  mode: "turn" in run_assistant_tool_loop, "replay" while     *)
(* resume_from_pending_tool finishes the suspended round, "resume" in its    *)
(* later rounds.  row: the pending row being replayed, None once it is done. *)
(* replies: history, the model's replies in this turn and those it resumes.  *)

PCs == {"free", "continue", "take", "clear", "redo", "reload", "round", "reply",
        "call", "tool", "save", "end", "over"}

Idle == [pc |-> "free", agent |-> ReplAgent, mode |-> "turn", round |-> 0,
         todo |-> <<>>, call |-> None, msgs |-> 0, total |-> 0, row |-> None,
         replies |-> 0]

Live(t) == turn[t].pc \notin {"free", "over"}

Put(t, rec) == turn' = [turn EXCEPT ![t] = rec]
Goto(t, pc) == Put(t, [turn[t] EXCEPT !.pc = pc])

\* Counters for the history variables, up to HistoryMax.
Plus(n, k) == IF n + k > HistoryMax THEN HistoryMax ELSE n + k
Count(c, calls) == Cardinality({i \in DOMAIN calls : calls[i] = c})
Runs(c) == ran' = [ran EXCEPT ![c] = Plus(@, 1)]

FirstOf(calls, n) == SubSeq(calls, 1, IF Len(calls) > n THEN n ELSE Len(calls))

\* try_send: the question is lost when the channel is full.
Send(kind, c) ==
    \/ requests' = Append(requests, [kind |-> kind, call |-> c])
    \/ MayDrop /\ UNCHANGED requests

-----------------------------------------------------------------------------
(* execute_tool_with_cancel up to the start of the tool, for the task state  *)
(* rec whose call is being made: the tool starts, or the outcome is None and *)
(* the caller saves the call as pending.                                     *)
Dispatch(t, rec) ==
    LET c == rec.call
        decision == Check(rec.agent, Session, c)
    IN  \/ /\ decision = "Allow" /\ c \notin NeedsSudo
           /\ Put(t, [rec EXCEPT !.pc = "tool"])
           /\ Runs(c)
           /\ UNCHANGED requests
        \/ /\ decision = "Allow" /\ c \in NeedsSudo
           /\ Put(t, [rec EXCEPT !.pc = "save"])
           /\ Send("sudo", c)
           /\ UNCHANGED ran
        \/ /\ decision = "Ask"
           /\ Put(t, [rec EXCEPT !.pc = "save"])
           /\ Send("permission", c)
           /\ UNCHANGED ran
        \/ /\ decision = "Deny"
           /\ Put(t, [rec EXCEPT !.pc = "save"])
           /\ UNCHANGED <<requests, ran>>

Disallowed(rec) == ToolOf[rec.call] \notin AgentTools[rec.agent]

\* Where a task goes on once the tool message of its call is recorded.
AfterCall(rec) ==
    [rec EXCEPT !.pc = IF rec.row = None THEN "call" ELSE "reload", !.msgs = @ + 1]

\* Faulty variant: a replayed call counts as approved already.
MakeCall_TrustsRow(t, rec) ==
    \/ /\ rec.row # None
       /\ Put(t, [rec EXCEPT !.pc = "tool"])
       /\ Runs(rec.call)
       /\ UNCHANGED requests
    \/ rec.row = None /\ ~Disallowed(rec) /\ Dispatch(t, rec)

\* A call refused by the agent's own tool list, or put before the policy.
MakeCall(t, rec) ==
    \/ /\ Disallowed(rec)
       /\ Put(t, AfterCall(rec))
       /\ UNCHANGED <<requests, ran>>
    \/ ~Disallowed(rec) /\ Dispatch(t, rec)

-----------------------------------------------------------------------------
(* Rounds: for round_index in 0..max_rounds, for r in round_index+1..        *)

BeginRound(t) ==
    /\ turn[t].pc = "round"
    /\ \/ turn[t].round < MaxRounds /\ t \notin cancelled /\ Goto(t, "reply")
       \/ /\ turn[t].round >= MaxRounds \/ t \in cancelled \/ MayTimeOut
          /\ Goto(t, "end")
    /\ othersUnchanged /\ UNCHANGED <<lastReply, pending, requests, token, asked, ran>>

\* The provider's answer is appended to the history and its calls are parsed.
Reply(t, calls) ==
    /\ turn[t].pc = "reply"
    /\ lastReply' = calls
    /\ Put(t, [turn[t] EXCEPT !.pc = IF calls = <<>> THEN "end" ELSE "call",
                              !.todo = FirstOf(calls, MaxPerRound), !.msgs = 0,
                              !.replies = @ + 1])
    /\ asked' = [c \in Calls |-> Plus(asked[c], Count(c, FirstOf(calls, MaxPerRound)))]
    /\ othersUnchanged /\ UNCHANGED <<pending, requests, token, ran>>

\* Faulty variant: a failed request is repeated without counting the round.
ReplyFails_Retries(t) ==
    /\ turn[t].pc = "reply"
    /\ Goto(t, "round")
    /\ othersUnchanged /\ UNCHANGED <<lastReply, pending, requests, token, asked, ran>>

\* The provider failed or timed out, or the token was cancelled meanwhile.
ReplyFails(t) ==
    /\ turn[t].pc = "reply"
    /\ Goto(t, "end")
    /\ othersUnchanged /\ UNCHANGED <<lastReply, pending, requests, token, asked, ran>>

\* The next call of the round; only the loop of a fresh turn looks at the token.
NextCall(t) ==
    /\ turn[t].pc = "call" /\ turn[t].todo # <<>>
    /\ turn[t].mode = "turn" => t \notin cancelled
    /\ turn[t].total < MaxTotal
    /\ MakeCall(t, [turn[t] EXCEPT !.call = Head(turn[t].todo),
                                   !.todo = Tail(turn[t].todo), !.total = @ + 1])
    /\ othersUnchanged /\ UNCHANGED <<lastReply, pending, token, asked>>

\* The budget of calls is spent, the token cancelled or the time over: the task
\* ends, except that the replayed round only breaks out of its loop.
StopCalls(t) ==
    /\ turn[t].pc = "call" /\ turn[t].todo # <<>> /\ turn[t].mode # "replay"
    /\ \/ turn[t].total >= MaxTotal
       \/ turn[t].mode = "turn" /\ (t \in cancelled \/ MayTimeOut)
    /\ Goto(t, "end")
    /\ othersUnchanged /\ UNCHANGED <<lastReply, pending, requests, token, asked, ran>>

\* Faulty variant: a resumed turn goes on with the round it was suspended in.
EndRound_SameRound(t) ==
    /\ turn[t].pc = "call"
    /\ \/ turn[t].todo = <<>>
       \/ turn[t].mode = "replay" /\ turn[t].total >= MaxTotal
    /\ Put(t, [turn[t] EXCEPT !.pc = "round", !.todo = <<>>, !.call = None,
                  !.round = IF turn[t].mode = "replay" THEN @ ELSE @ + 1,
                  !.mode = IF @ = "turn" THEN "turn" ELSE "resume"])
    /\ othersUnchanged /\ UNCHANGED <<lastReply, pending, requests, token, asked, ran>>

EndRound(t) ==
    /\ turn[t].pc = "call"
    /\ \/ turn[t].todo = <<>>
       \/ turn[t].mode = "replay" /\ turn[t].total >= MaxTotal
    /\ Put(t, [turn[t] EXCEPT !.pc = "round", !.round = @ + 1, !.todo = <<>>,
                  !.call = None, !.mode = IF @ = "turn" THEN "turn" ELSE "resume"])
    /\ othersUnchanged /\ UNCHANGED <<lastReply, pending, requests, token, asked, ran>>

ToolReturns(t) ==
    /\ turn[t].pc = "tool"
    /\ Put(t, AfterCall(turn[t]))
    /\ othersUnchanged /\ UNCHANGED <<lastReply, pending, requests, token, asked, ran>>

\* The tool returned an error, or the turn's duration budget dropped it.
ToolFails(t) ==
    /\ turn[t].pc = "tool"
    /\ Goto(t, "end")
    /\ othersUnchanged /\ UNCHANGED <<lastReply, pending, requests, token, asked, ran>>

\* set_pending_tool: one row per session, whoever wrote it before.  rest is
\* what the round still had to do, boot the process that wrote the row.
SavePending(t) ==
    /\ turn[t].pc = "save"
    /\ pending' = [call |-> turn[t].call, round |-> turn[t].round,
                   msgs |-> turn[t].msgs + 1, boot |-> restarts,
                   replies |-> turn[t].replies,
                   rest |-> IF turn[t].row = None THEN turn[t].todo
                            ELSE turn[t].row.rest]
    /\ Goto(t, "end")
    /\ othersUnchanged /\ UNCHANGED <<lastReply, requests, token, asked, ran>>

\* Faulty variant: a resumption does not remove its token.
EndTask_ResumeKeeps(t) ==
    /\ turn[t].pc = "end"
    /\ Put(t, [Idle EXCEPT !.pc = "over"])
    /\ token' = IF turn[t].mode = "turn" THEN None ELSE token
    /\ cancelled' = cancelled \ {t}
    /\ UNCHANGED <<policyVars, lastReply, pending, requests, slot, sudoSlot, repl,
                   restarts, asked, ran>>

\* The spawned task removes whatever token the map holds for its session, and
\* its own token goes with it.
EndTask(t) ==
    /\ turn[t].pc = "end"
    /\ Put(t, [Idle EXCEPT !.pc = "over"])
    /\ token' = None /\ cancelled' = cancelled \ {t}
    /\ UNCHANGED <<policyVars, lastReply, pending, requests, slot, sudoSlot, repl,
                   restarts, asked, ran>>

-----------------------------------------------------------------------------
(* continue_after_tool and resume_from_pending_tool. *)

Continue(t) ==
    /\ turn[t].pc = "continue"
    /\ Goto(t, IF pending = None THEN "round" ELSE "take")
    /\ othersUnchanged /\ UNCHANGED <<lastReply, pending, requests, token, asked, ran>>

\* get_and_clear_pending_tool reads the row, then deletes the session's row.
TakePending(t) ==
    /\ turn[t].pc = "take"
    /\ IF pending = None THEN Goto(t, "end")
       ELSE Put(t, [turn[t] EXCEPT !.pc = "clear", !.row = pending])
    /\ othersUnchanged /\ UNCHANGED <<lastReply, pending, requests, token, asked, ran>>

ClearPending(t) ==
    /\ turn[t].pc = "clear"
    /\ pending' = None
    /\ Goto(t, "redo")
    /\ othersUnchanged /\ UNCHANGED <<lastReply, requests, token, asked, ran>>

Redo(t) ==
    /\ turn[t].pc = "redo"
    /\ MakeCall(t, [turn[t] EXCEPT !.mode = "replay", !.call = turn[t].row.call,
                        !.round = turn[t].row.round, !.msgs = turn[t].row.msgs,
                        !.replies = turn[t].row.replies, !.total = 1])
    /\ othersUnchanged /\ UNCHANGED <<lastReply, pending, token, asked>>

\* The calls of the last reply after index at, as many as the messages recorded
\* so far leave room for.
RemainingCalls(at, msgs) ==
    FirstOf(SubSeq(lastReply, at + 1, Len(lastReply)),
            IF msgs > MaxPerRound THEN 0 ELSE MaxPerRound - msgs)

\* The pending call is taken to be the first one of its tool, or the first.
ResumeIndex(call, at) ==
    LET same == {i \in DOMAIN lastReply : ToolOf[lastReply[i]] = ToolOf[call]}
    IN  IF same = {} THEN at = 1 ELSE at \in same /\ \A i \in same : at <= i

Reload(t) ==
    /\ turn[t].pc = "reload"
    /\ \/ lastReply = <<>> /\ Goto(t, "end")
       \/ \E at \in DOMAIN lastReply :
             /\ ResumeIndex(turn[t].call, at)
             /\ Put(t, [turn[t] EXCEPT !.pc = "call", !.row = None,
                           !.todo = RemainingCalls(at, turn[t].msgs)])
    /\ othersUnchanged /\ UNCHANGED <<lastReply, pending, requests, token, asked, ran>>

TaskStep(t) ==
    \/ BeginRound(t) \/ ReplyFails(t) \/ (\E calls \in Replies : Reply(t, calls))
    \/ NextCall(t) \/ StopCalls(t) \/ EndRound(t) \/ ToolReturns(t) \/ ToolFails(t)
    \/ SavePending(t) \/ EndTask(t) \/ Continue(t) \/ TakePending(t)
    \/ ClearPending(t) \/ Redo(t) \/ Reload(t)

-----------------------------------------------------------------------------
(* The REPL: the listener task, and the main loop at its prompt or busy with *)
(* the call it was told to run ("run") or about to drop the question         *)
(* ("clear").                                                                *)

AtPrompt == [pc |-> "prompt", kind |-> "permission", call |-> None]
Busy(pc, kind, c) == [pc |-> pc, kind |-> kind, call |-> c]

tasksUnchanged == UNCHANGED <<turn, lastReply, pending, restarts>>
rulesUnchanged == UNCHANGED <<patterns, dirs, now>>

\* The listener keeps one question of each kind, the latest.
Listen ==
    /\ requests # <<>>
    /\ requests' = Tail(requests)
    /\ IF Head(requests).kind = "permission"
       THEN slot' = Head(requests).call /\ UNCHANGED sudoSlot
       ELSE sudoSlot' = Head(requests).call /\ UNCHANGED slot
    /\ tasksUnchanged /\ UNCHANGED <<policyVars, repl, token, cancelled, asked, ran>>

\* A message of the user starts a turn of the agent it is routed to, whether or
\* not another turn is running or waiting for an answer.
StartTurn(t, a) ==
    /\ repl.pc = "prompt" /\ turn[t].pc = "free"
    /\ Put(t, [Idle EXCEPT !.pc = "round", !.agent = a])
    /\ token' = t
    /\ UNCHANGED <<policyVars, lastReply, pending, requests, slot, sudoSlot, repl,
                   cancelled, restarts, asked, ran>>

\* The user answers the question in the slot: resolve_permission records the
\* answer and, unless it is "deny", runs the tool without another check.
AnswerPermission(answer) ==
    /\ repl.pc = "prompt" /\ slot # None
    /\ \E t \in Tasks : turn[t].pc = "free"
    /\ Record(Session, slot, answer)
    /\ \/ /\ answer = "Deny"
          /\ repl' = Busy("clear", "permission", slot)
          /\ UNCHANGED <<requests, ran>>
       \/ /\ answer # "Deny" /\ slot \in NeedsSudo
          /\ repl' = Busy("clear", "permission", slot)
          /\ Send("sudo", slot)
          /\ UNCHANGED ran
       \/ /\ answer # "Deny" /\ slot \notin NeedsSudo
          /\ repl' = Busy("run", "permission", slot)
          /\ Runs(slot)
          /\ UNCHANGED requests
    /\ tasksUnchanged /\ UNCHANGED <<slot, sudoSlot, token, cancelled, asked>>

\* A password for the waiting sudo question runs its call.
AnswerSudo ==
    /\ repl.pc = "prompt" /\ sudoSlot # None
    /\ \E t \in Tasks : turn[t].pc = "free"
    /\ repl' = Busy("run", "sudo", sudoSlot)
    /\ Runs(sudoSlot)
    /\ tasksUnchanged
    /\ UNCHANGED <<policyVars, requests, slot, sudoSlot, token, cancelled, asked>>

\* An empty password, or a failing tool run with the password.
CancelSudo ==
    /\ \/ repl.pc = "prompt" /\ sudoSlot # None
       \/ repl.pc = "run" /\ repl.kind = "sudo"
    /\ sudoSlot' = None /\ repl' = AtPrompt
    /\ tasksUnchanged /\ UNCHANGED <<policyVars, requests, slot, token, cancelled, asked, ran>>

\* The answered call has run: its output is appended and a task is spawned to
\* go on from there.
SpawnContinue(t) ==
    /\ repl.pc = "run" /\ turn[t].pc = "free"
    /\ Put(t, [Idle EXCEPT !.pc = "continue"])
    /\ token' = t
    /\ repl' = [repl EXCEPT !.pc = "clear"]
    /\ UNCHANGED <<policyVars, lastReply, pending, requests, slot, sudoSlot,
                   cancelled, restarts, asked, ran>>

ClearSlot ==
    /\ repl.pc = "clear"
    /\ slot' = None
    /\ sudoSlot' = IF repl.kind = "sudo" THEN None ELSE sudoSlot
    /\ repl' = AtPrompt
    /\ tasksUnchanged /\ UNCHANGED <<policyVars, requests, token, cancelled, asked, ran>>

Interrupt ==
    /\ repl.pc = "prompt" /\ token # None
    /\ cancelled' = cancelled \cup {token}
    /\ token' = None
    /\ tasksUnchanged /\ UNCHANGED <<policyVars, requests, slot, sudoSlot, repl, asked, ran>>

\* The /perm commands, and time.
ChangeRules ==
    /\ repl.pc = "prompt"
    /\ \/ \E sc \in {"global", "project", Session}, b \in Buckets, p \in Patterns :
             AddPattern(sc, b, p)
       \/ \E sc \in {"global", "project", Session}, d \in Dirs : AddDir(sc, d)
    /\ tasksUnchanged
    /\ UNCHANGED <<requests, slot, sudoSlot, repl, token, cancelled, asked, ran>>

TimePasses ==
    /\ Tick /\ tasksUnchanged
    /\ UNCHANGED <<requests, slot, sudoSlot, repl, token, cancelled, asked, ran>>

\* The process exits (exit, a crash, or an error of the answered call, which
\* ends the REPL) and is started again on the same session: what is in memory is
\* gone, the history, the pending row and the persisted rules are not.
Restart ==
    /\ restarts < MaxRestarts
    /\ restarts' = restarts + 1
    /\ turn' = [t \in Tasks |-> IF Live(t) THEN [Idle EXCEPT !.pc = "over"] ELSE turn[t]]
    /\ requests' = <<>> /\ slot' = None /\ sudoSlot' = None /\ repl' = AtPrompt
    /\ token' = None /\ cancelled' = {}
    /\ allowed' = {} /\ denied' = [k \in {} |-> 0]
    /\ patterns' = [patterns EXCEPT ![Session] = [b \in Buckets |-> {}]]
    /\ dirs' = [dirs EXCEPT ![Session] = {}]
    /\ UNCHANGED <<now, consented, lastReply, pending, asked, ran>>

\* The cleanup thread started with the process deletes an old enough row, at
\* any time while the REPL is already running.
CleanStale ==
    /\ pending # None /\ pending.boot < restarts
    /\ pending' = None
    /\ UNCHANGED <<policyVars, turn, lastReply, requests, slot, sudoSlot, repl, token,
                   cancelled, restarts, asked, ran>>

-----------------------------------------------------------------------------
Init ==
    /\ PolicyInit
    /\ turn = [t \in Tasks |-> Idle]
    /\ lastReply = <<>> /\ pending = None /\ requests = <<>>
    /\ slot = None /\ sudoSlot = None /\ repl = AtPrompt
    /\ token = None /\ cancelled = {} /\ restarts = 0
    /\ asked = [c \in Calls |-> 0] /\ ran = [c \in Calls |-> 0]

ReplStep ==
    \/ Listen \/ AnswerSudo \/ CancelSudo \/ ClearSlot \/ Interrupt
    \/ \E answer \in Answers : AnswerPermission(answer)
    \/ \E t \in Tasks : SpawnContinue(t)

Next ==
    \/ \E t \in Tasks : TaskStep(t)
    \/ \E t \in Tasks, a \in Agents : StartTurn(t, a)
    \/ ReplStep \/ ChangeRules \/ TimePasses \/ Restart \/ CleanStale

Spec == Init /\ [][Next]_vars

\* Tokio goes on polling spawned tasks, providers and tools answer or fail, and
\* the REPL goes on with what it has begun; nobody has to answer or to type.
FairSpec ==
    /\ Spec
    /\ \A t \in Tasks : WF_vars(TaskStep(t))
    /\ WF_vars(ClearSlot) /\ WF_vars(Listen)
    /\ WF_vars(\E t \in Tasks : SpawnContinue(t))

-----------------------------------------------------------------------------
Rows == [call : Calls, round : 0 .. MaxRounds - 1, msgs : Nat, boot : 0 .. MaxRestarts,
         replies : Nat, rest : Seq(Calls)]

TurnStates ==
    [pc : PCs, agent : Agents, mode : {"turn", "replay", "resume"}, round : 0 .. MaxRounds,
     todo : Seq(Calls), call : Calls \cup {None}, msgs : Nat, total : 0 .. MaxTotal,
     row : Rows \cup {None}, replies : Nat]

TaskTypeOK ==
    /\ turn \in [Tasks -> TurnStates]
    /\ lastReply \in Seq(Calls)
    /\ pending \in Rows \cup {None}
    /\ restarts \in 0 .. MaxRestarts
    /\ asked \in [Calls -> 0 .. HistoryMax] /\ ran \in [Calls -> 0 .. HistoryMax]

Questions == [kind : {"permission", "sudo"}, call : Calls]

ReplTypeOK ==
    /\ requests \in Seq(Questions)
    /\ slot \in Calls \cup {None} /\ sudoSlot \in Calls \cup {None}
    /\ repl \in [pc : {"prompt", "run", "clear"}, kind : {"permission", "sudo"},
                 call : Calls \cup {None}]
    /\ token \in Tasks \cup {None} /\ cancelled \subseteq Tasks

TypeOK == PolicyTypeOK /\ TaskTypeOK /\ ReplTypeOK

\* A tool runs only if its mode is "allow" or the user said yes to the call, and
\* a task runs it only for an agent that may: whoever asked, whoever answered,
\* and whatever happened between the question, the answer and the run.
Authorised(c) == Mode[ToolOf[c]] = "Allow" \/ <<Session, c>> \in consented
ExecutionAuthorised ==
    /\ \A t \in Tasks : turn[t].pc = "tool" =>
          Authorised(turn[t].call) /\ ~Forbidden(turn[t].agent, turn[t].call)
    /\ repl.pc = "run" => Authorised(repl.call)

\* The model is asked at most MaxRounds times for a message of the user, however
\* often the turn is suspended by a question and resumed from the row.
RepliesBounded == \A t \in Tasks : turn[t].replies <= MaxRounds

\* A token left in active_turn_tokens belongs to a task that is still running,
\* so /interrupt never reports success on a turn that is already over.
TokenIsLive == token # None => Live(token)

\* Every turn and every resumption ends: no exchange of questions, replays and
\* rounds keeps a task running for ever.
TasksFinish == \A t \in Tasks : Live(t) ~> ~Live(t)

\* A call the model asked for once runs once: docs/DESIGN_GUIDE.md:277 offers
\* "allow once" as the answer to a question.
RunsAsOftenAsAsked == \A c \in Calls : ran[c] <= asked[c]

\* conversation/session_manager.rs:287-288: after the approval the agent resumes
\* exactly where it left off, with the calls of the round still to be made.
ResumesWhereItLeftOff ==
    [][\A t \in Tasks : turn[t].pc = "reload" /\ turn'[t].pc = "call" =>
          turn'[t].todo = turn[t].row.rest]_vars

-----------------------------------------------------------------------------
\* The REPL is the runner None.  The session implements CallGate: however
\* questions are queued, lost, overwritten, answered late or replayed, a call
\* under way was free to run or approved in this session.
UnderWay(r, c) ==
    IF r = None THEN repl.pc = "run" /\ repl.call = c
    ELSE turn[r].pc = "tool" /\ turn[r].call = c
Gate == INSTANCE CallGate WITH
    Runners <- Tasks \cup {None},
    Free <- {c \in Calls : Mode[ToolOf[c]] = "Allow"},
    approved <- {c \in Calls : <<Session, c>> \in consented},
    running <- {p \in (Tasks \cup {None}) \X Calls : UnderWay(p[1], p[2])}
ImplementsGate == Gate!Spec

-----------------------------------------------------------------------------
(* The inductive invariant behind the invariants above. *)

\* What the state of a task says about the round it is in and the row it holds.
TaskInv(r) ==
    /\ r.pc \in {"reply", "call", "tool", "save", "reload"} => r.round < MaxRounds
    /\ r.pc \in {"tool", "save", "reload"} => r.call # None
    /\ r.pc \in {"clear", "redo", "reload"} => r.row # None
    /\ r.pc \in {"free", "continue"} => r.replies = 0
    /\ r.pc \in {"round", "reply"} => r.replies <= r.round
    /\ r.pc \in {"call", "tool", "save", "reload"} => r.replies <= r.round + 1
    /\ r.replies <= MaxRounds
    /\ r.row # None => r.row.replies <= r.row.round + 1

\* A question for a password is asked only for a call that may run.
SudoQuestionsOK ==
    \A i \in DOMAIN requests :
        requests[i].kind = "sudo" => Authorised(requests[i].call)
SudoInv ==
    /\ SudoQuestionsOK
    /\ sudoSlot # None => Authorised(sudoSlot)

RowInv == pending # None => pending.replies <= pending.round + 1

IndInv ==
    /\ TypeOK /\ CacheBounded
    /\ allowed \subseteq consented
    /\ \A t \in Tasks : TaskInv(turn[t])
    /\ RowInv
    /\ SudoInv
    /\ ExecutionAuthorised
    /\ repl.pc = "run" => repl.call # None
=============================================================================
