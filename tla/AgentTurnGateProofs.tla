------------------------- MODULE AgentTurnGateProofs -------------------------
(* The token map never names a task that is over, and the session implements *)
(* CallGate, for any sessions, agents, calls, tasks and limits.              *)
EXTENDS AgentTurnProofs

(* What a task step does to its task: it is over only through EndTask, and   *)
(* in a tool afterwards only if it started it from outside one.              *)
StepEffect(t, rec) ==
    /\ Put(t, rec)
    /\ UNCHANGED <<policyVars, repl>>
    /\ \/ token' = None
       \/ UNCHANGED token /\ rec.pc \notin {"free", "over"}
    /\ rec.pc = "tool" => turn[t].pc # "tool" /\ rec.call \in Calls /\ Authorised(rec.call)

LEMMA GotoEffect ==
    ASSUME IndInv, NEW t \in Tasks, NEW pc, Goto(t, pc), othersUnchanged, UNCHANGED token,
           pc \notin {"free", "over", "tool"}
    PROVE  \E rec : StepEffect(t, rec)
<1> DEFINE rec == [turn[t] EXCEPT !.pc = pc]
<1>1. rec.pc = pc
  BY DEF IndInv, TypeOK, TaskTypeOK, TurnStates
<1>2. Put(t, rec) /\ UNCHANGED <<policyVars, repl>>
  BY DEF Goto, othersUnchanged
<1> HIDE DEF rec
<1>3. StepEffect(t, rec)
  BY <1>1, <1>2 DEF StepEffect
<1> QED BY <1>3

LEMMA MakeCallEffect ==
    ASSUME IndInv, NEW t \in Tasks, NEW rec \in TurnStates, rec.call \in Calls,
           turn[t].pc # "tool", MakeCall(t, rec), othersUnchanged, UNCHANGED token
    PROVE  \E new : StepEffect(t, new)
<1>1. UNCHANGED <<policyVars, repl>> /\ allowed \subseteq consented
  BY DEF othersUnchanged, IndInv
<1>2. CASE Disallowed(rec) /\ Put(t, AfterCall(rec))
  <2>1. AfterCall(rec).pc \in {"call", "reload"}
    BY DEF AfterCall, TurnStates
  <2>2. StepEffect(t, AfterCall(rec))
    BY <1>1, <1>2, <2>1 DEF StepEffect
  <2> QED BY <2>2
<1>3. CASE Check(rec.agent, Session, rec.call) = "Allow" /\ Put(t, [rec EXCEPT !.pc = "tool"])
  <2> DEFINE new == [rec EXCEPT !.pc = "tool"]
  <2>1. new.pc = "tool" /\ new.call = rec.call
    BY DEF TurnStates
  <2>2. Authorised(rec.call)
    BY <1>1, <1>3, AllowedIsAuthorised DEF TurnStates
  <2>3. Put(t, new)
    BY <1>3
  <2> HIDE DEF new
  <2>4. StepEffect(t, new)
    BY <1>1, <2>1, <2>2, <2>3 DEF StepEffect
  <2> QED BY <2>4
<1>4. CASE Put(t, [rec EXCEPT !.pc = "save"])
  <2> DEFINE new == [rec EXCEPT !.pc = "save"]
  <2>1. new.pc = "save"
    BY DEF TurnStates
  <2> HIDE DEF new
  <2>2. StepEffect(t, new)
    BY <1>1, <1>4, <2>1 DEF StepEffect, new
  <2> QED BY <2>2
<1> QED BY <1>2, <1>3, <1>4 DEF MakeCall, Dispatch

LEMMA TaskStepEffect ==
    ASSUME IndInv, NEW t \in Tasks, TaskStep(t)
    PROVE  \E rec : StepEffect(t, rec)
<1> DEFINE r == turn[t]
<1>0. r \in TurnStates /\ TaskInv(r) /\ pending \in Rows \cup {None}
  BY DEF IndInv, TypeOK, TaskTypeOK
<1>1. CASE BeginRound(t) \/ ReplyFails(t) \/ StopCalls(t) \/ ToolFails(t) \/ SavePending(t)
           \/ Continue(t) \/ ClearPending(t)
  <2>1. \E pc \in {"reply", "end", "round", "take", "redo"} : Goto(t, pc)
    BY <1>1 DEF BeginRound, ReplyFails, StopCalls, ToolFails, SavePending, Continue, ClearPending
  <2>2. othersUnchanged /\ UNCHANGED token
    BY <1>1 DEF BeginRound, ReplyFails, StopCalls, ToolFails, SavePending, Continue, ClearPending
  <2> QED BY <2>1, <2>2, GotoEffect
<1>2. ASSUME NEW rec, Put(t, rec), othersUnchanged, UNCHANGED token,
             rec.pc \in {"call", "end", "round", "reload", "clear"}
      PROVE  StepEffect(t, rec)
  BY <1>2 DEF StepEffect, othersUnchanged
<1>3. CASE \E calls \in Replies : Reply(t, calls)
  <2>1. PICK calls \in Replies : Reply(t, calls)
    BY <1>3
  <2> DEFINE rec == [r EXCEPT !.pc = IF calls = <<>> THEN "end" ELSE "call",
                        !.todo = FirstOf(calls, MaxPerRound), !.msgs = 0,
                        !.replies = @ + 1]
  <2>2. rec.pc \in {"call", "end"}
    BY <1>0 DEF TurnStates
  <2> HIDE DEF rec
  <2>3. Put(t, rec) /\ othersUnchanged /\ UNCHANGED token
    BY <2>1 DEF Reply, rec
  <2> QED BY <1>2, <2>2, <2>3
<1>4. CASE EndRound(t)
  <2> DEFINE rec == [r EXCEPT !.pc = "round", !.round = @ + 1, !.todo = <<>>,
                        !.call = None, !.mode = IF @ = "turn" THEN "turn" ELSE "resume"]
  <2>1. rec.pc = "round"
    BY <1>0 DEF TurnStates
  <2> HIDE DEF rec
  <2>2. Put(t, rec) /\ othersUnchanged /\ UNCHANGED token
    BY <1>4 DEF EndRound, rec
  <2> QED BY <1>2, <2>1, <2>2
<1>5. CASE ToolReturns(t)
  <2>1. AfterCall(r).pc \in {"call", "reload"}
    BY <1>0 DEF AfterCall, TurnStates
  <2> QED BY <1>2, <1>5, <2>1 DEF ToolReturns
<1>6. CASE EndTask(t)
  <2> DEFINE rec == [Idle EXCEPT !.pc = "over"]
  <2>1. rec.pc = "over"
    BY DEF Idle
  <2>2. StepEffect(t, rec)
    BY <1>6, <2>1 DEF EndTask, StepEffect
  <2> QED BY <2>2
<1>7. CASE TakePending(t)
  <2>1. CASE pending = None
    BY <1>7, <2>1, GotoEffect DEF TakePending
  <2>2. CASE pending # None
    <3>1. [r EXCEPT !.pc = "clear", !.row = pending].pc = "clear"
      BY <1>0 DEF TurnStates
    <3> QED BY <1>2, <1>7, <2>2, <3>1 DEF TakePending
  <2> QED BY <2>1, <2>2
<1>8. CASE Reload(t)
  <2>1. CASE Goto(t, "end")
    BY <1>8, <2>1, GotoEffect DEF Reload
  <2>2. ASSUME NEW at \in DOMAIN lastReply,
               Put(t, [r EXCEPT !.pc = "call", !.row = None,
                          !.todo = RemainingCalls(at, r.msgs)])
        PROVE  \E rec : StepEffect(t, rec)
    <3>1. [r EXCEPT !.pc = "call", !.row = None,
                    !.todo = RemainingCalls(at, r.msgs)].pc = "call"
      BY <1>0 DEF TurnStates
    <3> QED BY <1>2, <1>8, <2>2, <3>1 DEF Reload
  <2> QED BY <1>8, <2>1, <2>2 DEF Reload
<1>9. CASE NextCall(t)
  <2> DEFINE rec == [r EXCEPT !.call = Head(r.todo), !.todo = Tail(r.todo), !.total = @ + 1]
  <2>1. r.pc = "call" /\ r.todo \in Seq(Calls) /\ r.todo # <<>> /\ r.total + 1 \in 0 .. MaxTotal
    BY <1>0, <1>9, TurnConstants, SMTT(30) DEF NextCall, TurnStates
  <2>2. Head(r.todo) \in Calls /\ Tail(r.todo) \in Seq(Calls)
    BY <2>1, HeadTailProperties
  <2>3. rec \in TurnStates /\ rec.call \in Calls
    BY <1>0, <2>1, <2>2 DEF TurnStates
  <2> HIDE DEF rec
  <2>4. MakeCall(t, rec) /\ othersUnchanged /\ UNCHANGED token
    BY <1>9 DEF NextCall, rec
  <2> QED BY <2>1, <2>3, <2>4, MakeCallEffect
<1>10. CASE Redo(t)
  <2> DEFINE rec == [r EXCEPT !.mode = "replay", !.call = r.row.call,
                        !.round = r.row.round, !.msgs = r.row.msgs,
                        !.replies = r.row.replies, !.total = 1]
  <2>1. r.pc = "redo" /\ r.row \in Rows
    BY <1>0, <1>10 DEF Redo, TaskInv, TurnStates
  <2>2. /\ r.row.call \in Calls /\ r.row.round \in 0 .. MaxRounds
        /\ r.row.msgs \in Nat /\ r.row.replies \in Nat /\ 1 \in 0 .. MaxTotal
    <3>1. /\ r.row.call \in Calls /\ r.row.round \in 0 .. MaxRounds - 1
          /\ r.row.msgs \in Nat /\ r.row.replies \in Nat
      BY <2>1 DEF Rows
    <3> QED BY <3>1, TurnConstants
  <2>3. rec \in TurnStates /\ rec.call \in Calls
    BY <1>0, <2>2 DEF TurnStates
  <2> HIDE DEF rec
  <2>4. MakeCall(t, rec) /\ othersUnchanged /\ UNCHANGED token
    BY <1>10 DEF Redo, rec
  <2> QED BY <2>1, <2>3, <2>4, MakeCallEffect
<1> QED BY <1>1, <1>3, <1>4, <1>5, <1>6, <1>7, <1>8, <1>9, <1>10 DEF TaskStep

-----------------------------------------------------------------------------
(* While the map holds a token, its task has not ended: the steps of the     *)
(* task itself, of others, of the REPL and of a restart.                     *)
LEMMA TokenStep ==
    ASSUME IndInv, TokenIsLive, [Next]_vars
    PROVE  TokenIsLive'
<1>0. turn \in [Tasks -> TurnStates] /\ token \in Tasks \cup {None}
  BY DEF IndInv, TypeOK, TaskTypeOK, ReplTypeOK
<1>1. ASSUME NEW t \in Tasks, TaskStep(t)
      PROVE  TokenIsLive'
  <2>1. PICK rec : StepEffect(t, rec)
    BY <1>1, TaskStepEffect
  <2>2. \A u \in Tasks : turn'[u] = IF u = t THEN rec ELSE turn[u]
    BY <1>0, <2>1 DEF StepEffect, Put
  <2> QED BY <1>0, <2>1, <2>2 DEF StepEffect, TokenIsLive, Live
<1>2. ASSUME NEW t \in Tasks, NEW a \in Agents, StartTurn(t, a) \/ SpawnContinue(t)
      PROVE  TokenIsLive'
  <2>1. PICK pc \in {"round", "continue"} : turn'[t].pc = pc
    BY <1>0, <1>2 DEF StartTurn, SpawnContinue, Put, Idle
  <2>2. token' = t
    BY <1>2 DEF StartTurn, SpawnContinue
  <2> QED BY <2>1, <2>2 DEF TokenIsLive, Live
<1>3. CASE UNCHANGED turn /\ token' \in {token, None}
  BY <1>3 DEF TokenIsLive, Live
<1>4. CASE Restart
  BY <1>4 DEF Restart, TokenIsLive
<1>5. CASE Listen \/ AnswerSudo \/ CancelSudo \/ ClearSlot \/ Interrupt \/ ChangeRules
           \/ TimePasses \/ CleanStale \/ UNCHANGED vars
           \/ \E answer \in Answers : AnswerPermission(answer)
  <2>1. UNCHANGED turn /\ token' \in {token, None}
    BY <1>5 DEF Listen, AnswerSudo, CancelSudo, ClearSlot, Interrupt, ChangeRules,
                TimePasses, CleanStale, AnswerPermission, tasksUnchanged, vars
  <2> QED BY <1>3, <2>1
<1> QED BY <1>1, <1>2, <1>4, <1>5, TurnConstants DEF Next, ReplStep

(* /interrupt finds a token only while the task it would cancel is running   *)
(* (the spawned block of repl.rs removes it when the turn is over).          *)
THEOREM TokenIsLiveTheorem == Spec => []TokenIsLive
<1>1. Init => TokenIsLive
  BY DEF Init, TokenIsLive
<1> QED BY <1>1, TokenStep, IndInvAlways, PTL DEF Spec

-----------------------------------------------------------------------------
(* The refinement.  What the abstract variables stand for.                   *)
Runner == Tasks \cup {None}
FreeCalls == {c \in Calls : Mode[ToolOf[c]] = "Allow"}
ApprovedCalls == {c \in Calls : <<Session, c>> \in consented}
RunningCalls == {p \in Runner \X Calls : UnderWay(p[1], p[2])}

(* A step after which no runner has more under way.                          *)
LEMMA GateFinishes ==
    ASSUME UNCHANGED consented,
           \A r \in Runner, c \in Calls : UnderWay(r, c)' => UnderWay(r, c)
    PROVE  Gate!Next
<1>1. ApprovedCalls' = ApprovedCalls
  BY DEF ApprovedCalls
<1>2. RunningCalls' \subseteq RunningCalls
  BY DEF RunningCalls, Runner
<1>3. Gate!Finish
  BY <1>1, <1>2 DEF Gate!Finish, ApprovedCalls, RunningCalls, Runner
<1> QED BY <1>3 DEF Gate!Next

(* A step after which a resting runner has one more call under way.          *)
LEMMA GateStarts ==
    ASSUME NEW r \in Runner, NEW c \in Calls,
           \A x \in Calls : ~UnderWay(r, x),
           \A q \in Runner, x \in Calls :
              UnderWay(q, x)' <=> UnderWay(q, x) \/ (q = r /\ x = c),
           \/ UNCHANGED consented /\ Authorised(c)
           \/ consented' = consented \cup {<<Session, c>>}
    PROVE  Gate!Next
<1>1. RunningCalls' = RunningCalls \cup {<<r, c>>}
  BY DEF RunningCalls, Runner
<1>2. \A x \in Calls : <<r, x>> \notin RunningCalls
  BY DEF RunningCalls
<1>3. CASE UNCHANGED consented /\ Authorised(c)
  <2>1. ApprovedCalls' = ApprovedCalls /\ c \in FreeCalls \cup ApprovedCalls
    BY <1>3 DEF ApprovedCalls, FreeCalls, Authorised
  <2>2. Gate!Start(r, c)
    BY <1>1, <1>2, <2>1
    DEF Gate!Start, Gate!Resting, ApprovedCalls, FreeCalls, RunningCalls, Runner
  <2> QED BY <2>2 DEF Gate!Next, Runner
<1>4. CASE consented' = consented \cup {<<Session, c>>}
  <2>1. ApprovedCalls' = ApprovedCalls \cup {c}
    BY <1>4 DEF ApprovedCalls
  <2>2. Gate!ApproveAndStart(r, c)
    BY <1>1, <1>2, <2>1
    DEF Gate!ApproveAndStart, Gate!Resting, ApprovedCalls, RunningCalls, Runner
  <2> QED BY <2>2 DEF Gate!Next, Runner
<1> QED BY <1>3, <1>4

LEMMA TaskStepGate ==
    ASSUME IndInv, NEW t \in Tasks, TaskStep(t)
    PROVE  Gate!Next
<1>1. PICK rec : StepEffect(t, rec)
  BY TaskStepEffect
<1>2. turn \in [Tasks -> TurnStates]
  BY DEF IndInv, TypeOK, TaskTypeOK
<1>3. UNCHANGED <<consented, repl>>
      /\ \A u \in Tasks : turn'[u] = IF u = t THEN rec ELSE turn[u]
  BY <1>1, <1>2 DEF StepEffect, Put, policyVars
<1>4. CASE rec.pc = "tool"
  <2>1. turn[t].pc # "tool" /\ rec.call \in Calls /\ Authorised(rec.call) /\ t # None
    BY <1>1, <1>4, TurnConstants DEF StepEffect
  <2>2. \A x \in Calls : ~UnderWay(t, x)
    BY <2>1 DEF UnderWay
  <2>3. \A q \in Runner, x \in Calls :
            UnderWay(q, x)' <=> UnderWay(q, x) \/ (q = t /\ x = rec.call)
    BY <1>3, <1>4, <2>1 DEF UnderWay, Runner
  <2> QED BY <1>3, <2>1, <2>2, <2>3, GateStarts DEF Runner
<1>5. CASE rec.pc # "tool"
  <2>1. \A q \in Runner, x \in Calls : UnderWay(q, x)' => UnderWay(q, x)
    BY <1>3, <1>5 DEF UnderWay, Runner
  <2> QED BY <1>3, <2>1, GateFinishes
<1> QED BY <1>4, <1>5

LEMMA AnswerGate ==
    ASSUME IndInv, NEW answer \in Answers, AnswerPermission(answer)
    PROVE  Gate!Next
<1>1. /\ slot \in Calls /\ repl.pc = "prompt" /\ UNCHANGED turn
      /\ Record(Session, slot, answer)
  BY DEF IndInv, TypeOK, ReplTypeOK, AnswerPermission, tasksUnchanged
<1>2. CASE answer = "Deny"
  <2>1. UNCHANGED consented /\ repl'.pc = "clear"
    BY <1>1, <1>2 DEF Record, RecordDeny, AnswerPermission, Busy
  <2>2. \A r \in Runner, c \in Calls : UnderWay(r, c)' => UnderWay(r, c)
    BY <1>1, <2>1 DEF UnderWay
  <2> QED BY <2>1, <2>2, GateFinishes
<1>3. CASE answer # "Deny"
  <2>1. consented' = consented \cup {<<Session, slot>>}
    BY <1>1, <1>3 DEF Record, RecordAllow
  <2>2. CASE repl' = Busy("run", "permission", slot)
    <3>1. \A x \in Calls : ~UnderWay(None, x)
      BY <1>1 DEF UnderWay
    <3>2. \A q \in Runner, x \in Calls :
              UnderWay(q, x)' <=> UnderWay(q, x) \/ (q = None /\ x = slot)
      BY <1>1, <2>2 DEF UnderWay, Busy
    <3>3. None \in Runner
      BY DEF Runner
    <3> QED BY ONLY <1>1, <2>1, <3>1, <3>2, <3>3, GateStarts
  <2>3. CASE repl' = Busy("clear", "permission", slot)
    <3>1. ApprovedCalls' = ApprovedCalls \cup {slot}
      BY <1>1, <2>1 DEF ApprovedCalls
    <3>2. RunningCalls' = RunningCalls
      BY <1>1, <2>3 DEF RunningCalls, UnderWay, Busy
    <3>3. PICK c \in Calls : c = slot
      BY <1>1
    <3>4. Gate!Approve(c)
      BY <3>1, <3>2, <3>3 DEF Gate!Approve, ApprovedCalls, RunningCalls, Runner
    <3> QED BY <3>4 DEF Gate!Next
  <2> QED BY <1>3, <2>2, <2>3 DEF AnswerPermission
<1> QED BY <1>2, <1>3

LEMMA AnswerSudoGate ==
    ASSUME IndInv, AnswerSudo
    PROVE  Gate!Next
<1>1. /\ sudoSlot \in Calls /\ Authorised(sudoSlot) /\ repl.pc = "prompt"
      /\ UNCHANGED <<turn, consented>> /\ repl' = Busy("run", "sudo", sudoSlot)
  BY DEF IndInv, TypeOK, ReplTypeOK, SudoInv, AnswerSudo, tasksUnchanged, policyVars
<1>2. \A x \in Calls : ~UnderWay(None, x)
  BY <1>1 DEF UnderWay
<1>3. \A q \in Runner, x \in Calls :
          UnderWay(q, x)' <=> UnderWay(q, x) \/ (q = None /\ x = sudoSlot)
  BY <1>1 DEF UnderWay, Busy
<1> QED BY <1>1, <1>2, <1>3, GateStarts DEF Runner

LEMMA GateStep ==
    ASSUME IndInv, [Next]_vars
    PROVE  [Gate!Next]_(Gate!gateVars)
<1>0. turn \in [Tasks -> TurnStates]
  BY DEF IndInv, TypeOK, TaskTypeOK
<1>1. ASSUME UNCHANGED consented, repl'.pc = "run" => UNCHANGED repl,
             \A t \in Tasks : turn'[t].pc = "tool" => turn'[t] = turn[t]
      PROVE  Gate!Next
  BY <1>1, GateFinishes DEF UnderWay, Runner
<1>2. ASSUME NEW t \in Tasks, NEW a \in Agents, StartTurn(t, a) \/ SpawnContinue(t)
      PROVE  Gate!Next
  <2>1. PICK rec \in {[Idle EXCEPT !.pc = "round", !.agent = a], [Idle EXCEPT !.pc = "continue"]} :
            Put(t, rec) /\ rec.pc # "tool"
    BY <1>2 DEF StartTurn, SpawnContinue, Idle
  <2>2. UNCHANGED consented /\ (repl'.pc = "run" => UNCHANGED repl)
    BY <1>2 DEF StartTurn, SpawnContinue, policyVars, IndInv, TypeOK, ReplTypeOK
  <2>3. \A u \in Tasks : turn'[u] = IF u = t THEN rec ELSE turn[u]
    BY <1>0, <2>1 DEF Put
  <2> QED BY <1>1, <2>1, <2>2, <2>3
<1>3. CASE Listen \/ CancelSudo \/ ClearSlot \/ Interrupt \/ ChangeRules \/ TimePasses
           \/ CleanStale \/ UNCHANGED vars
  <2>1. UNCHANGED <<turn, consented>> /\ (repl'.pc = "run" => UNCHANGED repl)
    BY <1>3 DEF Listen, CancelSudo, ClearSlot, Interrupt, ChangeRules, TimePasses, AddPattern,
                AddDir, Tick, CleanStale, tasksUnchanged, vars, policyVars, AtPrompt
  <2> QED BY <1>1, <2>1
<1>4. CASE Restart
  <2>1. UNCHANGED consented /\ repl'.pc = "prompt"
    BY <1>4 DEF Restart, AtPrompt
  <2>2. \A t \in Tasks : turn'[t].pc # "tool"
    BY <1>4 DEF Restart, Live, Idle
  <2> QED BY <1>1, <2>1, <2>2
<1> QED BY <1>2, <1>3, <1>4, TaskStepGate, AnswerGate, AnswerSudoGate, TurnConstants
        DEF Next, ReplStep

(* Every behaviour of the session is one of CallGate: a runner starts a call *)
(* only while it has none under way, and only if the call is free to run or  *)
(* approved in this session.                                                 *)
THEOREM GateTheorem == Spec => ImplementsGate
<1>1. Init => Gate!Init
  BY DEF Init, PolicyInit, Gate!Init, UnderWay, AtPrompt, Idle
<1>2. IndInv /\ [Next]_vars => [Gate!Next]_(Gate!gateVars)
  BY GateStep
<1> QED BY <1>1, <1>2, IndInvAlways, PTL DEF Spec, ImplementsGate, Gate!Spec
=============================================================================
