--------------------------- MODULE AgentTurnProofs ---------------------------
(* Proofs about AgentTurn for any sessions, agents, calls, tasks and limits. *)
EXTENDS AgentTurn, PermissionPolicyProofs, SequenceTheorems

-----------------------------------------------------------------------------
(* Sequences of calls, and the counters. *)

LEMMA FirstOfType ==
    ASSUME NEW S, NEW calls \in Seq(S), NEW n \in Nat
    PROVE  FirstOf(calls, n) \in Seq(S)
<1> DEFINE m == IF Len(calls) > n THEN n ELSE Len(calls)
<1>1. m \in Int /\ \A i \in 1 .. m : calls[i] \in S
  BY LenProperties, ElementOfSeq
<1> QED BY <1>1, SubSeqProperties DEF FirstOf

LEMMA RemainingCallsType ==
    ASSUME lastReply \in Seq(Calls), NEW at \in DOMAIN lastReply, NEW n \in Nat
    PROVE  RemainingCalls(at, n) \in Seq(Calls)
<1>1. at \in Nat /\ \A i \in at + 1 .. Len(lastReply) : lastReply[i] \in Calls
  BY LenProperties, ElementOfSeq
<1>2. SubSeq(lastReply, at + 1, Len(lastReply)) \in Seq(Calls)
  BY <1>1, LenProperties, SubSeqProperties
<1>3. (IF n > MaxPerRound THEN 0 ELSE MaxPerRound - n) \in Nat
  BY TurnConstants
<1> QED BY <1>2, <1>3, FirstOfType DEF RemainingCalls

LEMMA PlusType ==
    ASSUME NEW n \in 0 .. HistoryMax, NEW k \in Nat
    PROVE  Plus(n, k) \in 0 .. HistoryMax
BY TurnConstants DEF Plus

LEMMA CountType ==
    ASSUME NEW calls \in Seq(Calls), NEW c \in Calls
    PROVE  Count(c, calls) \in Nat
<1>1. IsFiniteSet(DOMAIN calls)
  BY LenProperties, FS_Interval
<1>2. IsFiniteSet({i \in DOMAIN calls : calls[i] = c})
  BY <1>1, FS_Subset
<1> QED BY <1>2, FS_CardinalityType DEF Count

LEMMA RunsType ==
    ASSUME ran \in [Calls -> 0 .. HistoryMax], NEW c \in Calls, Runs(c)
    PROVE  ran' \in [Calls -> 0 .. HistoryMax]
BY PlusType DEF Runs

-----------------------------------------------------------------------------
(* A call the policy lets through is authorised and not forbidden.           *)
LEMMA AllowedIsAuthorised ==
    ASSUME allowed \subseteq consented, NEW a \in Agents, NEW c \in Calls,
           Check(a, Session, c) = "Allow"
    PROVE  Authorised(c) /\ ~Forbidden(a, c)
BY PolicyConstants DEF Check, Remembered, Authorised, Decisions

(* What is sent keeps the channel typed and password questions authorised.   *)
LEMMA SendKeeps ==
    ASSUME requests \in Seq(Questions), SudoQuestionsOK, UNCHANGED consented,
           NEW kind \in {"permission", "sudo"}, NEW c \in Calls,
           kind = "sudo" => Authorised(c), Send(kind, c)
    PROVE  requests' \in Seq(Questions) /\ SudoQuestionsOK'
<1> DEFINE q == [kind |-> kind, call |-> c]
<1>1. q \in Questions
  BY DEF Questions
<1>4. CASE requests' = Append(requests, q)
  <2>1. /\ requests' \in Seq(Questions)
        /\ Len(requests') = Len(requests) + 1
        /\ \A i \in 1 .. Len(requests) : requests'[i] = requests[i]
        /\ requests'[Len(requests) + 1] = q
    BY <1>1, <1>4, AppendProperties
  <2>2. DOMAIN requests = 1 .. Len(requests) /\ DOMAIN requests' = 1 .. Len(requests) + 1
        /\ Len(requests) \in Nat
    BY <2>1, LenProperties
  <2>3. ASSUME NEW i \in DOMAIN requests', requests'[i].kind = "sudo"
        PROVE  Authorised(requests[i].call)'
    <3>1. CASE i \in 1 .. Len(requests)
      <4>1. requests'[i] = requests[i] /\ i \in DOMAIN requests
        BY <2>1, <2>2, <3>1
      <4>2. Authorised(requests[i].call)
        BY <2>3, <4>1 DEF SudoQuestionsOK
      <4> QED BY <4>1, <4>2 DEF Authorised
    <3>2. CASE i = Len(requests) + 1
      <4>1. requests'[i].call = c /\ kind = "sudo"
        BY <2>1, <2>3, <3>2
      <4> QED BY <4>1 DEF Authorised
    <3> QED BY <2>2, <2>3, <3>1, <3>2
  <2> QED BY <2>1, <2>3 DEF SudoQuestionsOK
<1>5. CASE UNCHANGED requests
  BY <1>5 DEF SudoQuestionsOK, Authorised
<1> QED BY <1>4, <1>5 DEF Send

-----------------------------------------------------------------------------
(* What a step does to one task, to the row and to the channel is enough to  *)
(* conclude the invariant after it.                                          *)
MayRunTool(rec) ==
    rec.pc = "tool" => Authorised(rec.call) /\ ~Forbidden(rec.agent, rec.call)

LEMMA PutKeeps ==
    ASSUME IndInv, NEW t \in Tasks, NEW rec \in TurnStates, TaskInv(rec),
           MayRunTool(rec), Put(t, rec), UNCHANGED consented
    PROVE  /\ turn' \in [Tasks -> TurnStates]
           /\ \A u \in Tasks : TaskInv(turn'[u])
           /\ \A u \in Tasks : MayRunTool(turn[u])'
<1>1. turn' = [turn EXCEPT ![t] = rec]
  BY DEF Put
<1>2. turn \in [Tasks -> TurnStates]
  BY DEF IndInv, TypeOK, TaskTypeOK
<1>3. turn' \in [Tasks -> TurnStates] /\ \A u \in Tasks : turn'[u] = IF u = t THEN rec ELSE turn[u]
  BY <1>1, <1>2
<1>4. \A u \in Tasks : TaskInv(turn[u]) /\ MayRunTool(turn[u])
  BY DEF IndInv, ExecutionAuthorised, MayRunTool
<1>5. \A u \in Tasks : TaskInv(turn'[u])
  BY <1>3, <1>4
<1>6. \A u \in Tasks : MayRunTool(turn[u])'
  BY <1>3, <1>4 DEF MayRunTool, Authorised, Forbidden
<1> QED BY <1>3, <1>5, <1>6

LEMMA TaskStepKeeps ==
    ASSUME IndInv, NEW t \in Tasks, NEW rec \in TurnStates, TaskInv(rec),
           MayRunTool(rec), Put(t, rec),
           UNCHANGED <<policyVars, slot, sudoSlot, repl, restarts>>,
           cancelled' \subseteq Tasks, token' \in Tasks \cup {None},
           lastReply' \in Seq(Calls), pending' \in Rows \cup {None}, RowInv',
           requests' \in Seq(Questions), SudoQuestionsOK',
           asked' \in [Calls -> 0 .. HistoryMax], ran' \in [Calls -> 0 .. HistoryMax]
    PROVE  IndInv'
<1>1. UNCHANGED consented
  BY DEF policyVars
<1>2. /\ turn' \in [Tasks -> TurnStates]
      /\ \A u \in Tasks : TaskInv(turn[u])'
      /\ \A u \in Tasks : MayRunTool(turn[u])'
  BY <1>1, PutKeeps DEF TaskInv
<1>3. PolicyTypeOK' /\ CacheBounded' /\ (allowed \subseteq consented)'
  BY DEF IndInv, TypeOK, PolicyTypeOK, CacheBounded, policyVars
<1>4. TaskTypeOK'
  BY <1>2 DEF IndInv, TypeOK, TaskTypeOK
<1>5. ReplTypeOK'
  BY DEF IndInv, TypeOK, ReplTypeOK
<1>6. SudoInv'
  BY <1>1 DEF IndInv, SudoInv, Authorised
<1>7. ExecutionAuthorised'
  BY <1>1, <1>2 DEF IndInv, ExecutionAuthorised, MayRunTool, Authorised
<1>8. (repl.pc = "run" => repl.call # None)'
  BY DEF IndInv
<1> QED BY <1>2, <1>3, <1>4, <1>5, <1>6, <1>7, <1>8 DEF IndInv, TypeOK

(* The same for a step that touches nothing but its task.                    *)
LEMMA QuietStepKeeps ==
    ASSUME IndInv, NEW t \in Tasks, NEW rec \in TurnStates, TaskInv(rec),
           MayRunTool(rec), Put(t, rec), othersUnchanged,
           UNCHANGED <<lastReply, pending, requests, token, asked, ran>>
    PROVE  IndInv'
<1>1. UNCHANGED <<policyVars, slot, sudoSlot, repl, cancelled, restarts>>
  BY DEF othersUnchanged
<1>2. /\ cancelled' \subseteq Tasks /\ token' \in Tasks \cup {None}
      /\ lastReply' \in Seq(Calls) /\ pending' \in Rows \cup {None} /\ RowInv'
      /\ requests' \in Seq(Questions)
      /\ asked' \in [Calls -> 0 .. HistoryMax] /\ ran' \in [Calls -> 0 .. HistoryMax]
  BY <1>1 DEF IndInv, TypeOK, TaskTypeOK, ReplTypeOK, RowInv
<1>3. SudoQuestionsOK'
  BY <1>1 DEF IndInv, SudoInv, SudoQuestionsOK, Authorised, policyVars
<1> QED BY <1>1, <1>2, <1>3, TaskStepKeeps

-----------------------------------------------------------------------------
(* The steps that make a call. *)
LEMMA AfterCallType ==
    ASSUME NEW rec \in TurnStates
    PROVE  AfterCall(rec) \in TurnStates
<1> DEFINE p == IF rec.row = None THEN "call" ELSE "reload"
<1>1. \A q \in PCs, n \in Nat : [rec EXCEPT !.pc = q, !.msgs = n] \in TurnStates
  BY DEF TurnStates
<1>2. p \in PCs /\ rec.msgs + 1 \in Nat
  BY DEF TurnStates, PCs
<1>3. AfterCall(rec) = [rec EXCEPT !.pc = p, !.msgs = rec.msgs + 1]
  BY DEF AfterCall
<1> HIDE DEF p
<1> QED BY <1>1, <1>2, <1>3

LEMMA MakeCallKeeps ==
    ASSUME IndInv, NEW t \in Tasks, NEW rec \in TurnStates, TaskInv(rec),
           rec.call \in Calls, rec.round < MaxRounds, rec.replies <= rec.round + 1,
           MakeCall(t, rec), othersUnchanged,
           UNCHANGED <<lastReply, pending, token, asked>>
    PROVE  IndInv'
<1> DEFINE c == rec.call
<1>0. UNCHANGED <<policyVars, slot, sudoSlot, repl, cancelled, restarts>> /\ UNCHANGED consented
  BY DEF othersUnchanged, policyVars
<1>1. /\ cancelled' \subseteq Tasks /\ token' \in Tasks \cup {None}
      /\ lastReply' \in Seq(Calls) /\ pending' \in Rows \cup {None} /\ RowInv'
      /\ asked' \in [Calls -> 0 .. HistoryMax]
      /\ ran \in [Calls -> 0 .. HistoryMax] /\ requests \in Seq(Questions)
      /\ SudoQuestionsOK /\ allowed \subseteq consented
  BY <1>0 DEF IndInv, TypeOK, TaskTypeOK, ReplTypeOK, RowInv, SudoInv
<1>2. UNCHANGED requests => requests' \in Seq(Questions) /\ SudoQuestionsOK'
  BY <1>0, <1>1 DEF SudoQuestionsOK, Authorised
<1>3. CASE Disallowed(rec) /\ Put(t, AfterCall(rec)) /\ UNCHANGED <<requests, ran>>
  <2>1. /\ AfterCall(rec) \in TurnStates
        /\ TaskInv(AfterCall(rec)) /\ MayRunTool(AfterCall(rec))
    <3>1. AfterCall(rec) \in TurnStates
      BY AfterCallType
    <3> DEFINE next == AfterCall(rec)
    <3>2. /\ next.pc = IF rec.row = None THEN "call" ELSE "reload"
          /\ next.round = rec.round /\ next.call = rec.call /\ next.row = rec.row
          /\ next.replies = rec.replies
      BY DEF AfterCall, TurnStates
    <3>3. rec.call # None
      BY TurnConstants
    <3>4. TaskInv(next)
      BY <3>2, <3>3 DEF TaskInv
    <3> QED BY <3>1, <3>2, <3>4 DEF MayRunTool
  <2> QED BY <1>0, <1>1, <1>2, <1>3, <2>1, TaskStepKeeps
<1>4. ASSUME Check(rec.agent, Session, c) = "Allow",
             Put(t, [rec EXCEPT !.pc = "tool"]), Runs(c), UNCHANGED requests
      PROVE  IndInv'
  <2> DEFINE run == [rec EXCEPT !.pc = "tool"]
  <2>1. run \in TurnStates /\ TaskInv(run)
    BY TurnConstants DEF TurnStates, PCs, TaskInv
  <2>2. rec.agent \in Agents
    BY DEF TurnStates
  <2>3. MayRunTool(run)
    BY <1>1, <1>4, <2>2, AllowedIsAuthorised DEF MayRunTool, TurnStates
  <2>4. ran' \in [Calls -> 0 .. HistoryMax]
    BY <1>1, <1>4, RunsType
  <2> QED BY <1>0, <1>1, <1>2, <1>4, <2>1, <2>3, <2>4, TaskStepKeeps
<1>5. ASSUME Put(t, [rec EXCEPT !.pc = "save"]),
             requests' \in Seq(Questions) /\ SudoQuestionsOK', UNCHANGED ran
      PROVE  IndInv'
  <2> DEFINE stop == [rec EXCEPT !.pc = "save"]
  <2>1. stop \in TurnStates /\ TaskInv(stop) /\ MayRunTool(stop)
    BY TurnConstants DEF TurnStates, PCs, TaskInv, MayRunTool
  <2> QED BY <1>0, <1>1, <1>5, <2>1, TaskStepKeeps
<1>6. ASSUME Check(rec.agent, Session, c) = "Allow", Send("sudo", c)
      PROVE  requests' \in Seq(Questions) /\ SudoQuestionsOK'
  <2>1. Authorised(c)
    BY <1>1, <1>6, AllowedIsAuthorised DEF TurnStates
  <2> QED BY <1>0, <1>1, <1>6, <2>1, SendKeeps
<1>7. ASSUME Send("permission", c)
      PROVE  requests' \in Seq(Questions) /\ SudoQuestionsOK'
  BY <1>0, <1>1, <1>7, SendKeeps
<1> QED BY <1>2, <1>3, <1>4, <1>5, <1>6, <1>7 DEF MakeCall, Dispatch
(* A step that only moves the task on, not into a tool.                      *)
LEMMA GotoKeeps ==
    ASSUME IndInv, NEW t \in Tasks, NEW pc \in PCs \ {"tool"}, Goto(t, pc),
           TaskInv([turn[t] EXCEPT !.pc = pc]), othersUnchanged,
           UNCHANGED <<lastReply, pending, requests, token, asked, ran>>
    PROVE  IndInv'
<1> DEFINE rec == [turn[t] EXCEPT !.pc = pc]
<1>1. turn[t] \in TurnStates
  BY DEF IndInv, TypeOK, TaskTypeOK
<1>2. rec \in TurnStates /\ MayRunTool(rec)
  BY <1>1 DEF TurnStates, MayRunTool
<1> QED BY <1>2, QuietStepKeeps DEF Goto

-----------------------------------------------------------------------------
(* One lemma per kind of task step: rounds, calls, the row, the resumption.  *)
LEMMA RoundSteps ==
    ASSUME IndInv, NEW t \in Tasks,
           BeginRound(t) \/ ReplyFails(t) \/ StopCalls(t) \/ EndRound(t)
    PROVE  IndInv'
<1> DEFINE r == turn[t]
<1>0. r \in TurnStates /\ TaskInv(r)
  BY DEF IndInv, TypeOK, TaskTypeOK
<1>1. {"reply", "end"} \subseteq PCs \ {"tool"}
  BY DEF PCs
<1>2. TaskInv([r EXCEPT !.pc = "end"])
  BY <1>0 DEF TaskInv, TurnStates
<1>3. CASE BeginRound(t)
  <2>1. CASE r.round < MaxRounds /\ Goto(t, "reply")
    <3>1. TaskInv([r EXCEPT !.pc = "reply"])
      BY <1>0, <1>3, <2>1 DEF BeginRound, TaskInv, TurnStates
    <3> QED BY <1>1, <1>3, <2>1, <3>1, GotoKeeps DEF BeginRound
  <2>2. CASE Goto(t, "end")
    BY <1>1, <1>2, <1>3, <2>2, GotoKeeps DEF BeginRound
  <2> QED BY <1>3, <2>1, <2>2 DEF BeginRound
<1>4. CASE ReplyFails(t)
  BY <1>1, <1>2, <1>4, GotoKeeps DEF ReplyFails
<1>5. CASE StopCalls(t)
  BY <1>1, <1>2, <1>5, GotoKeeps DEF StopCalls
<1>6. CASE EndRound(t)
  <2> DEFINE mode == IF r.mode = "turn" THEN "turn" ELSE "resume"
             rec == [r EXCEPT !.pc = "round", !.round = @ + 1, !.todo = <<>>,
                        !.call = None, !.mode = IF @ = "turn" THEN "turn" ELSE "resume"]
  <2>1. r.round + 1 \in 0 .. MaxRounds /\ mode \in {"turn", "replay", "resume"}
        /\ <<>> \in Seq(Calls) /\ "round" \in PCs
    BY <1>0, <1>6, TurnConstants, EmptySeq DEF EndRound, TaskInv, TurnStates, PCs
  <2>2. rec \in TurnStates
    BY <1>0, <2>1 DEF TurnStates
  <2>3. /\ rec.pc = "round" /\ rec.round = r.round + 1 /\ rec.row = r.row
        /\ rec.replies = r.replies
    BY <1>0 DEF TurnStates
  <2>4. TaskInv(rec) /\ MayRunTool(rec)
    BY <1>0, <1>6, <2>3 DEF EndRound, TaskInv, MayRunTool
  <2> HIDE DEF rec
  <2>5. Put(t, rec) /\ othersUnchanged
        /\ UNCHANGED <<lastReply, pending, requests, token, asked, ran>>
    BY <1>6 DEF EndRound, rec
  <2> QED BY <2>2, <2>4, <2>5, QuietStepKeeps
<1> QED BY <1>3, <1>4, <1>5, <1>6

LEMMA ReplyStep ==
    ASSUME IndInv, NEW t \in Tasks, NEW calls \in Replies, Reply(t, calls)
    PROVE  IndInv'
<1> DEFINE r == turn[t]
           made == FirstOf(calls, MaxPerRound)
           pc == IF calls = <<>> THEN "end" ELSE "call"
           rec == [r EXCEPT !.pc = pc, !.todo = made, !.msgs = 0, !.replies = @ + 1]
<1>0. r \in TurnStates /\ TaskInv(r)
  BY DEF IndInv, TypeOK, TaskTypeOK
<1>1. calls \in Seq(Calls) /\ MaxPerRound \in Nat /\ made \in Seq(Calls)
  BY TurnConstants, FirstOfType
<1>2. asked' \in [Calls -> 0 .. HistoryMax]
  <2>1. asked \in [Calls -> 0 .. HistoryMax]
    BY DEF IndInv, TypeOK, TaskTypeOK
  <2>2. \A c \in Calls : Plus(asked[c], Count(c, made)) \in 0 .. HistoryMax
    BY <1>1, <2>1, CountType, PlusType
  <2>3. asked' = [c \in Calls |-> Plus(asked[c], Count(c, made))]
    BY DEF Reply
  <2> HIDE DEF made
  <2> QED BY <2>2, <2>3
<1>3. r.replies + 1 \in Nat /\ pc \in PCs
  BY <1>0 DEF TurnStates, PCs
<1> HIDE DEF made, pc
<1>4. rec \in TurnStates
  BY <1>0, <1>1, <1>3 DEF TurnStates
<1>5. /\ rec.pc = pc /\ rec.round = r.round /\ rec.row = r.row /\ rec.call = r.call
      /\ rec.replies = r.replies + 1
  BY <1>0 DEF TurnStates
<1>6. pc \in {"end", "call"} /\ r.pc = "reply"
  BY DEF pc, Reply
<1>7. TaskInv(rec) /\ MayRunTool(rec)
  <2>1. /\ r.round \in Int /\ r.replies \in Int /\ MaxRounds \in Int
        /\ r.round < MaxRounds /\ r.replies <= r.round
        /\ (r.row # None => r.row.replies <= r.row.round + 1)
    BY <1>0, <1>6, TurnConstants DEF TurnStates, TaskInv
  <2>2. rec.replies <= rec.round + 1 /\ rec.replies <= MaxRounds /\ rec.round < MaxRounds
    BY <1>5, <2>1
  <2> QED BY <1>5, <1>6, <2>1, <2>2 DEF TaskInv, MayRunTool
<1> HIDE DEF rec
<1>8. Put(t, rec) /\ othersUnchanged /\ lastReply' = calls
      /\ UNCHANGED <<pending, requests, token, ran>>
  BY DEF Reply, rec, made, pc
<1>9. UNCHANGED <<policyVars, slot, sudoSlot, repl, cancelled, restarts>>
  BY <1>8 DEF othersUnchanged
<1>10. /\ cancelled' \subseteq Tasks /\ token' \in Tasks \cup {None}
       /\ pending' \in Rows \cup {None} /\ RowInv' /\ requests' \in Seq(Questions)
       /\ ran' \in [Calls -> 0 .. HistoryMax]
  BY <1>8, <1>9 DEF IndInv, TypeOK, TaskTypeOK, ReplTypeOK, RowInv
<1>11. SudoQuestionsOK'
  BY <1>8, <1>9 DEF IndInv, SudoInv, SudoQuestionsOK, Authorised, policyVars
<1> QED BY <1>1, <1>2, <1>4, <1>7, <1>8, <1>9, <1>10, <1>11, TaskStepKeeps

(* A call of the round, and what follows it.                                 *)
LEMMA CallSteps ==
    ASSUME IndInv, NEW t \in Tasks, NextCall(t) \/ ToolReturns(t) \/ ToolFails(t)
    PROVE  IndInv'
<1> DEFINE r == turn[t]
<1>0. r \in TurnStates /\ TaskInv(r)
  BY DEF IndInv, TypeOK, TaskTypeOK
<1>1. CASE NextCall(t)
  <2> DEFINE rec == [r EXCEPT !.call = Head(r.todo), !.todo = Tail(r.todo), !.total = @ + 1]
  <2>1. r.pc = "call" /\ r.todo \in Seq(Calls) /\ r.todo # <<>> /\ r.total < MaxTotal
    BY <1>0, <1>1 DEF NextCall, TurnStates
  <2>2. Head(r.todo) \in Calls /\ Tail(r.todo) \in Seq(Calls)
    BY <2>1, HeadTailProperties
  <2>3. r.total + 1 \in 0 .. MaxTotal
    BY <1>0, <2>1, TurnConstants DEF TurnStates
  <2>4. rec \in TurnStates
    BY <1>0, <2>2, <2>3 DEF TurnStates
  <2>5. /\ rec.pc = "call" /\ rec.round = r.round /\ rec.row = r.row
        /\ rec.call = Head(r.todo) /\ rec.replies = r.replies
    BY <1>0, <2>1 DEF TurnStates
  <2>6. r.round < MaxRounds /\ r.replies <= r.round + 1
    BY <1>0, <2>1 DEF TaskInv
  <2>7. TaskInv(rec)
    BY <1>0, <2>1, <2>5 DEF TaskInv
  <2>8. MakeCall(t, rec) /\ othersUnchanged /\ UNCHANGED <<lastReply, pending, token, asked>>
    BY <1>1 DEF NextCall
  <2>9. rec.call \in Calls /\ rec.round < MaxRounds /\ rec.replies <= rec.round + 1
    BY <2>2, <2>5, <2>6
  <2> HIDE DEF rec
  <2> QED BY <2>4, <2>7, <2>8, <2>9, MakeCallKeeps
<1>2. CASE ToolReturns(t)
  <2> DEFINE rec == AfterCall(r)
  <2>1. r.pc = "tool" /\ r.round < MaxRounds /\ r.call # None /\ r.replies <= r.round + 1
    BY <1>0, <1>2 DEF ToolReturns, TaskInv
  <2>2. /\ rec.pc = IF r.row = None THEN "call" ELSE "reload"
        /\ rec.round = r.round /\ rec.call = r.call /\ rec.row = r.row
        /\ rec.replies = r.replies
    BY <1>0 DEF AfterCall, TurnStates
  <2>3. TaskInv(rec) /\ MayRunTool(rec)
    BY <1>0, <2>1, <2>2 DEF TaskInv, MayRunTool
  <2>4. rec \in TurnStates
    BY <1>0, AfterCallType
  <2> HIDE DEF rec
  <2>5. Put(t, rec)
    BY <1>2 DEF ToolReturns, rec
  <2> QED BY <1>2, <2>3, <2>4, <2>5, QuietStepKeeps DEF ToolReturns
<1>3. CASE ToolFails(t)
  <2>1. TaskInv([r EXCEPT !.pc = "end"]) /\ "end" \in PCs \ {"tool"}
    BY <1>0 DEF TaskInv, TurnStates, PCs
  <2> QED BY <1>3, <2>1, GotoKeeps DEF ToolFails
<1> QED BY <1>1, <1>2, <1>3

(* A task that has not been used, or is just being started.                  *)
LEMMA IdleType ==
    ASSUME NEW pc \in PCs, NEW a \in Agents
    PROVE  /\ Idle \in TurnStates /\ [Idle EXCEPT !.pc = pc] \in TurnStates
           /\ [Idle EXCEPT !.pc = pc, !.agent = a] \in TurnStates
<1>1. /\ "free" \in PCs /\ ReplAgent \in Agents /\ 0 \in 0 .. MaxRounds
      /\ 0 \in 0 .. MaxTotal /\ <<>> \in Seq(Calls) /\ 0 \in Nat
  BY TurnConstants, EmptySeq DEF PCs
<1>2. Idle \in TurnStates
  BY <1>1 DEF Idle, TurnStates
<1> QED BY <1>2 DEF TurnStates

(* The end of a task, with or without a call left in the row.                *)
LEMMA EndSteps ==
    ASSUME IndInv, NEW t \in Tasks, SavePending(t) \/ EndTask(t)
    PROVE  IndInv'
<1> DEFINE r == turn[t]
<1>0. r \in TurnStates /\ TaskInv(r)
  BY DEF IndInv, TypeOK, TaskTypeOK
<1>1. /\ cancelled \subseteq Tasks /\ token \in Tasks \cup {None}
      /\ lastReply \in Seq(Calls) /\ pending \in Rows \cup {None} /\ RowInv
      /\ requests \in Seq(Questions) /\ SudoQuestionsOK /\ restarts \in 0 .. MaxRestarts
      /\ asked \in [Calls -> 0 .. HistoryMax] /\ ran \in [Calls -> 0 .. HistoryMax]
  BY DEF IndInv, TypeOK, TaskTypeOK, ReplTypeOK, SudoInv
<1>2. CASE SavePending(t)
  <2> DEFINE rec == [r EXCEPT !.pc = "end"]
             row == [call |-> r.call, round |-> r.round, msgs |-> r.msgs + 1,
                     boot |-> restarts, replies |-> r.replies,
                     rest |-> IF r.row = None THEN r.todo ELSE r.row.rest]
  <2>1. r.round < MaxRounds /\ r.call # None /\ r.replies <= r.round + 1
    BY <1>0, <1>2 DEF SavePending, TaskInv
  <2>2. /\ r.call \in Calls /\ r.round \in 0 .. MaxRounds - 1 /\ r.msgs + 1 \in Nat
        /\ r.replies \in Nat
    BY <1>0, <2>1, TurnConstants DEF TurnStates
  <2>3. (IF r.row = None THEN r.todo ELSE r.row.rest) \in Seq(Calls)
    BY <1>0 DEF TurnStates, Rows
  <2>4. row \in Rows /\ row.replies <= row.round + 1
    BY <1>1, <2>1, <2>2, <2>3 DEF Rows
  <2> HIDE DEF row
  <2>5. pending' = row
    BY <1>2 DEF SavePending, row
  <2>6. pending' \in Rows \cup {None} /\ RowInv'
    BY <2>4, <2>5 DEF RowInv
  <2>7. rec \in TurnStates /\ TaskInv(rec) /\ MayRunTool(rec)
    BY <1>0 DEF TurnStates, PCs, TaskInv, MayRunTool
  <2>8. Put(t, rec) /\ othersUnchanged /\ UNCHANGED <<lastReply, requests, token, asked, ran>>
    BY <1>2 DEF SavePending, Goto
  <2> HIDE DEF rec
  <2>9. UNCHANGED <<policyVars, slot, sudoSlot, repl, cancelled, restarts>>
    BY <2>8 DEF othersUnchanged
  <2>10. SudoQuestionsOK'
    BY <1>1, <2>8, <2>9 DEF SudoQuestionsOK, Authorised, policyVars
  <2> QED BY <1>1, <2>6, <2>7, <2>8, <2>9, <2>10, TaskStepKeeps
<1>3. CASE EndTask(t)
  <2> DEFINE rec == [Idle EXCEPT !.pc = "over"]
  <2>1. rec \in TurnStates
    BY TurnConstants, IdleType DEF PCs
  <2>2. TaskInv(rec) /\ MayRunTool(rec)
    BY TurnConstants DEF Idle, TaskInv, MayRunTool
  <2> HIDE DEF rec
  <2>3. /\ Put(t, rec) /\ token' = None /\ cancelled' = cancelled \ {t}
        /\ UNCHANGED <<policyVars, lastReply, pending, requests, slot, sudoSlot, repl,
                       restarts, asked, ran>>
    BY <1>3 DEF EndTask, rec
  <2>4. SudoQuestionsOK' /\ RowInv'
    BY <1>1, <2>3 DEF SudoQuestionsOK, Authorised, RowInv, policyVars
  <2> QED BY <1>1, <2>1, <2>2, <2>3, <2>4, TaskStepKeeps
<1> QED BY <1>2, <1>3

(* A resumption: the row is taken and deleted, its call made again, and the  *)
(* rest of the round reloaded from the history.                              *)
LEMMA ResumeSteps ==
    ASSUME IndInv, NEW t \in Tasks,
           Continue(t) \/ TakePending(t) \/ ClearPending(t) \/ Redo(t) \/ Reload(t)
    PROVE  IndInv'
<1> DEFINE r == turn[t]
<1>0. r \in TurnStates /\ TaskInv(r)
  BY DEF IndInv, TypeOK, TaskTypeOK
<1>1. /\ cancelled \subseteq Tasks /\ token \in Tasks \cup {None}
      /\ lastReply \in Seq(Calls) /\ pending \in Rows \cup {None} /\ RowInv
      /\ requests \in Seq(Questions) /\ SudoQuestionsOK
      /\ asked \in [Calls -> 0 .. HistoryMax] /\ ran \in [Calls -> 0 .. HistoryMax]
  BY DEF IndInv, TypeOK, TaskTypeOK, ReplTypeOK, SudoInv
<1>2. TaskInv([r EXCEPT !.pc = "end"])
  BY <1>0 DEF TaskInv, TurnStates
<1>3. {"end", "round", "take"} \subseteq PCs \ {"tool"}
  BY DEF PCs
<1>4. CASE Continue(t)
  <2>1. r.pc = "continue" /\ r.replies = 0 /\ r.round \in Nat
    BY <1>0, <1>4, TurnConstants DEF Continue, TaskInv, TurnStates
  <2>2. \A pc \in {"round", "take"} : TaskInv([r EXCEPT !.pc = pc])
    BY <1>0, <2>1 DEF TaskInv, TurnStates
  <2>3. PICK pc \in {"round", "take"} : Goto(t, pc)
    BY <1>4 DEF Continue
  <2> QED BY <1>3, <1>4, <2>2, <2>3, GotoKeeps DEF Continue
<1>5. CASE TakePending(t)
  <2>1. CASE pending = None
    BY <1>2, <1>3, <1>5, <2>1, GotoKeeps DEF TakePending
  <2>2. CASE pending # None
    <3> DEFINE rec == [r EXCEPT !.pc = "clear", !.row = pending]
    <3>1. rec \in TurnStates
      BY <1>0, <1>1 DEF TurnStates, PCs
    <3>2. rec.pc = "clear" /\ rec.row = pending /\ rec.replies = r.replies
      BY <1>0 DEF TurnStates
    <3>3. TaskInv(rec) /\ MayRunTool(rec)
      BY <1>0, <1>1, <2>2, <3>2 DEF TaskInv, MayRunTool, RowInv
    <3> HIDE DEF rec
    <3>4. Put(t, rec)
      BY <1>5, <2>2 DEF TakePending, rec
    <3> QED BY <1>5, <3>1, <3>3, <3>4, QuietStepKeeps DEF TakePending
  <2> QED BY <2>1, <2>2
<1>6. CASE ClearPending(t)
  <2> DEFINE rec == [r EXCEPT !.pc = "redo"]
  <2>1. r.pc = "clear"
    BY <1>6 DEF ClearPending
  <2>2. rec \in TurnStates /\ TaskInv(rec) /\ MayRunTool(rec)
    BY <1>0, <2>1 DEF TurnStates, PCs, TaskInv, MayRunTool
  <2>3. /\ Put(t, rec) /\ pending' = None /\ othersUnchanged
        /\ UNCHANGED <<lastReply, requests, token, asked, ran>>
    BY <1>6 DEF ClearPending, Goto
  <2> HIDE DEF rec
  <2>4. UNCHANGED <<policyVars, slot, sudoSlot, repl, cancelled, restarts>>
    BY <2>3 DEF othersUnchanged
  <2>5. SudoQuestionsOK' /\ RowInv'
    BY <1>1, <2>3, <2>4 DEF SudoQuestionsOK, Authorised, RowInv, policyVars
  <2> QED BY <1>1, <2>2, <2>3, <2>4, <2>5, TaskStepKeeps
<1>7. CASE Redo(t)
  <2> DEFINE rec == [r EXCEPT !.mode = "replay", !.call = r.row.call,
                        !.round = r.row.round, !.msgs = r.row.msgs,
                        !.replies = r.row.replies, !.total = 1]
  <2>1. r.pc = "redo" /\ r.row # None /\ r.row.replies <= r.row.round + 1
    BY <1>0, <1>7 DEF Redo, TaskInv
  <2>2. r.row \in Rows
    BY <1>0, <2>1 DEF TurnStates
  <2>3. /\ r.row.call \in Calls /\ r.row.round \in 0 .. MaxRounds /\ r.row.round < MaxRounds
        /\ r.row.msgs \in Nat /\ r.row.replies \in Nat /\ 1 \in 0 .. MaxTotal
        /\ r.row.replies <= MaxRounds
    <3>1. /\ r.row.call \in Calls /\ r.row.round \in 0 .. MaxRounds - 1
          /\ r.row.msgs \in Nat /\ r.row.replies \in Nat
      BY <2>2 DEF Rows
    <3> QED BY <2>1, <3>1, TurnConstants, SMTT(30)
  <2>4. rec \in TurnStates
    BY <1>0, <2>3 DEF TurnStates
  <2>5. /\ rec.pc = "redo" /\ rec.round = r.row.round /\ rec.row = r.row
        /\ rec.call = r.row.call /\ rec.replies = r.row.replies
    BY <1>0, <2>1 DEF TurnStates
  <2>6. TaskInv(rec) /\ rec.call \in Calls /\ rec.round < MaxRounds
        /\ rec.replies <= rec.round + 1
    BY <2>1, <2>3, <2>5 DEF TaskInv
  <2>7. MakeCall(t, rec) /\ othersUnchanged /\ UNCHANGED <<lastReply, pending, token, asked>>
    BY <1>7 DEF Redo
  <2> HIDE DEF rec
  <2> QED BY <2>4, <2>6, <2>7, MakeCallKeeps
<1>8. CASE Reload(t)
  <2>1. CASE Goto(t, "end")
    BY <1>2, <1>3, <1>8, <2>1, GotoKeeps DEF Reload
  <2>2. ASSUME NEW at \in DOMAIN lastReply,
               Put(t, [r EXCEPT !.pc = "call", !.row = None,
                          !.todo = RemainingCalls(at, r.msgs)])
        PROVE  IndInv'
    <3> DEFINE todo == RemainingCalls(at, r.msgs)
               rec == [r EXCEPT !.pc = "call", !.row = None, !.todo = todo]
    <3>1. todo \in Seq(Calls)
      BY <1>0, <1>1, RemainingCallsType DEF TurnStates
    <3> HIDE DEF todo
    <3>2. rec \in TurnStates
      BY <1>0, <3>1 DEF TurnStates, PCs
    <3>3. rec.pc = "call" /\ rec.row = None /\ rec.round = r.round /\ rec.replies = r.replies
      BY <1>0 DEF TurnStates
    <3>4. TaskInv(rec) /\ MayRunTool(rec)
      BY <1>0, <1>8, <3>3 DEF Reload, TaskInv, MayRunTool
    <3> HIDE DEF rec
    <3>5. Put(t, rec)
      BY <2>2 DEF rec, todo
    <3> QED BY <1>8, <3>2, <3>4, <3>5, QuietStepKeeps DEF Reload
  <2> QED BY <1>8, <2>1, <2>2 DEF Reload
<1> QED BY <1>4, <1>5, <1>6, <1>7, <1>8

LEMMA TaskStepStep ==
    ASSUME IndInv, NEW t \in Tasks, TaskStep(t)
    PROVE  IndInv'
BY RoundSteps, ReplyStep, CallSteps, EndSteps, ResumeSteps DEF TaskStep

-----------------------------------------------------------------------------
(* The REPL, and changes of the rules.                                       *)

(* A step of the policy, or none, keeps its invariants and every consent.    *)
LEMMA PolicyStepKeeps ==
    ASSUME IndInv, [PolicyNext]_policyVars
    PROVE  /\ PolicyTypeOK' /\ CacheBounded' /\ allowed' \subseteq consented'
           /\ \A c : Authorised(c) => Authorised(c)'
<1>1. PolicyTypeOK /\ CacheBounded /\ ConsentInv
  BY DEF IndInv, TypeOK, ConsentInv
<1>2. PolicyTypeOK' /\ CacheBounded' /\ ConsentInv'
  BY <1>1, TypeAndBoundsStep, ConsentStep
<1>3. consented \subseteq consented'
  BY DEF PolicyNext, Record, RecordAllow, RecordDeny, AddPattern, AddDir, Tick, policyVars
<1> QED BY <1>2, <1>3 DEF ConsentInv, Authorised

(* A step that leaves the tasks alone has only its own state to answer for.  *)
LEMMA ReplStepKeeps ==
    ASSUME IndInv, [PolicyNext]_policyVars, tasksUnchanged, UNCHANGED asked,
           ReplTypeOK', SudoInv', ran' \in [Calls -> 0 .. HistoryMax],
           (repl.pc = "run" => repl.call # None /\ Authorised(repl.call))'
    PROVE  IndInv'
<1>1. /\ PolicyTypeOK' /\ CacheBounded' /\ allowed' \subseteq consented'
      /\ \A c : Authorised(c) => Authorised(c)'
  BY PolicyStepKeeps
<1>2. TaskTypeOK' /\ RowInv'
  BY DEF IndInv, TypeOK, TaskTypeOK, RowInv, tasksUnchanged
<1>3. \A t \in Tasks : TaskInv(turn[t])'
  BY DEF IndInv, tasksUnchanged, TaskInv
<1>4. ExecutionAuthorised'
  <2>1. \A t \in Tasks : turn[t].pc = "tool" =>
          Authorised(turn[t].call) /\ ~Forbidden(turn[t].agent, turn[t].call)
    BY DEF IndInv, ExecutionAuthorised
  <2>2. \A t \in Tasks : (turn[t].pc = "tool" =>
          Authorised(turn[t].call) /\ ~Forbidden(turn[t].agent, turn[t].call))'
    BY <1>1, <2>1 DEF tasksUnchanged, Forbidden, Authorised
  <2> QED BY <2>2 DEF ExecutionAuthorised
<1> QED BY <1>1, <1>2, <1>3, <1>4 DEF IndInv, TypeOK

LEMMA ListenStep ==
    ASSUME IndInv, Listen
    PROVE  IndInv'
<1> DEFINE q == Head(requests)
<1>1. /\ requests \in Seq(Questions) /\ requests # <<>> /\ SudoQuestionsOK
      /\ ReplTypeOK /\ SudoInv
  BY DEF IndInv, TypeOK, ReplTypeOK, SudoInv, Listen
<1>2. UNCHANGED <<policyVars, repl, token, cancelled, asked, ran>> /\ tasksUnchanged
      /\ requests' = Tail(requests)
  BY DEF Listen
<1>3. q \in Questions /\ q = requests[1] /\ 1 \in DOMAIN requests
      /\ Tail(requests) \in Seq(Questions)
  BY <1>1, HeadTailProperties, LenProperties, EmptySeq
<1>4. \A i \in DOMAIN requests' : i + 1 \in DOMAIN requests /\ requests'[i] = requests[i + 1]
  BY <1>1, <1>2, HeadTailProperties, LenProperties
<1>5. SudoQuestionsOK'
  BY <1>1, <1>2, <1>4 DEF SudoQuestionsOK, Authorised, policyVars
<1>6. q.kind # "permission" => Authorised(q.call)
  BY <1>1, <1>3 DEF SudoQuestionsOK, Questions
<1>7. /\ slot' \in {slot, q.call} /\ sudoSlot' \in {sudoSlot, q.call}
      /\ sudoSlot' # sudoSlot => Authorised(sudoSlot')
  BY <1>6 DEF Listen
<1>8. SudoInv'
  <2>1. sudoSlot' # None => Authorised(sudoSlot')
    BY <1>1, <1>7 DEF SudoInv
  <2> QED BY <1>2, <1>5, <2>1 DEF SudoInv, Authorised, policyVars
<1>9. ReplTypeOK'
  BY <1>1, <1>2, <1>3, <1>7 DEF ReplTypeOK, Questions
<1>10. (repl.pc = "run" => repl.call # None /\ Authorised(repl.call))'
  BY <1>2 DEF IndInv, ExecutionAuthorised, Authorised, policyVars
<1>11. ran' \in [Calls -> 0 .. HistoryMax]
  BY <1>2 DEF IndInv, TypeOK, TaskTypeOK
<1> QED BY <1>2, <1>8, <1>9, <1>10, <1>11, ReplStepKeeps

LEMMA AnswerPermissionStep ==
    ASSUME IndInv, NEW answer \in Answers, AnswerPermission(answer)
    PROVE  IndInv'
<1>1. /\ slot \in Calls /\ ReplTypeOK /\ requests \in Seq(Questions)
      /\ ran \in [Calls -> 0 .. HistoryMax] /\ SudoInv /\ PolicyTypeOK /\ CacheBounded
      /\ allowed \subseteq consented
  BY DEF IndInv, TypeOK, ReplTypeOK, TaskTypeOK, AnswerPermission
<1>2. /\ Record(Session, slot, answer) /\ tasksUnchanged
      /\ UNCHANGED <<slot, sudoSlot, token, cancelled, asked>>
  BY DEF AnswerPermission
<1>3. PolicyNext
  BY <1>1, <1>2, TurnConstants DEF PolicyNext
<1> DEFINE Cleared == {c \in Calls : Authorised(c)}
<1>4. Cleared \subseteq Cleared'
  BY <1>3, PolicyStepKeeps
<1>5. answer # "Deny" => slot \in Cleared'
  BY <1>1, <1>2 DEF Record, RecordAllow, Authorised
<1>6. /\ requests' \in Seq(Questions)
      /\ \A i \in DOMAIN requests' :
            requests'[i].kind = "sudo" => requests'[i].call \in Cleared'
  <2>1. \A i \in DOMAIN requests :
            requests[i].kind = "sudo" => requests[i].call \in Cleared'
    <3>1. \A i \in DOMAIN requests : requests[i] \in Questions
      BY <1>1, ElementOfSeq, LenProperties
    <3>2. \A i \in DOMAIN requests : requests[i].kind = "sudo" => requests[i].call \in Cleared
      BY <1>1, <3>1 DEF SudoInv, SudoQuestionsOK, Questions
    <3> QED BY <1>4, <3>2
  <2>2. CASE UNCHANGED requests
    BY <1>1, <2>1, <2>2
  <2>3. CASE answer # "Deny" /\ requests' = Append(requests, [kind |-> "sudo", call |-> slot])
    <3> DEFINE q == [kind |-> "sudo", call |-> slot]
    <3>1. q \in Questions
      BY <1>1 DEF Questions
    <3>2. /\ requests' \in Seq(Questions)
          /\ Len(requests') = Len(requests) + 1
          /\ \A i \in 1 .. Len(requests) : requests'[i] = requests[i]
          /\ requests'[Len(requests) + 1] = q
      BY <1>1, <2>3, <3>1, AppendProperties
    <3>3. DOMAIN requests = 1 .. Len(requests) /\ Len(requests) \in Nat
          /\ DOMAIN requests' = 1 .. Len(requests) + 1
      BY <1>1, <3>2, LenProperties
    <3>4. \A i \in DOMAIN requests' :
            \/ i \in DOMAIN requests /\ requests'[i] = requests[i]
            \/ requests'[i] = q
      BY <3>2, <3>3
    <3>5. q.call = slot
      OBVIOUS
    <3> HIDE DEF q, Cleared
    <3> QED BY <1>5, <2>1, <2>3, <3>2, <3>4, <3>5
  <2> QED BY <2>2, <2>3 DEF AnswerPermission, Send
<1>7. SudoInv'
  <2>1. SudoQuestionsOK'
    BY <1>6 DEF SudoQuestionsOK, Authorised
  <2>2. sudoSlot' # None => sudoSlot' \in Cleared'
    BY <1>1, <1>2, <1>4 DEF SudoInv, ReplTypeOK
  <2> QED BY <2>1, <2>2 DEF SudoInv, Authorised
<1>8. /\ repl' \in {Busy("clear", "permission", slot), Busy("run", "permission", slot)}
      /\ repl' = Busy("run", "permission", slot) => answer # "Deny"
  BY DEF AnswerPermission, Busy
<1>9. (repl.pc = "run" => repl.call # None /\ Authorised(repl.call))'
  <2>1. repl'.pc = "run" => answer # "Deny" /\ repl'.call = slot
    BY <1>8 DEF Busy
  <2>2. slot \in Cleared' => Authorised(slot)'
    BY <1>2 DEF Authorised
  <2>3. repl'.pc = "run" => repl'.call \in Calls /\ repl'.call \in Cleared'
    BY <1>1, <1>5, <2>1
  <2> QED BY <2>3, TurnConstants DEF Authorised
<1>10. ReplTypeOK'
  BY <1>1, <1>2, <1>6, <1>8 DEF ReplTypeOK, Busy
<1>11. ran' \in [Calls -> 0 .. HistoryMax]
  BY <1>1, RunsType DEF AnswerPermission
<1> QED BY <1>2, <1>3, <1>7, <1>9, <1>10, <1>11, ReplStepKeeps

LEMMA QuietReplSteps ==
    ASSUME IndInv, AnswerSudo \/ CancelSudo \/ ClearSlot \/ Interrupt
    PROVE  IndInv'
<1>1. /\ ReplTypeOK /\ SudoInv /\ ran \in [Calls -> 0 .. HistoryMax]
      /\ repl.pc = "run" => repl.call # None /\ Authorised(repl.call)
  BY DEF IndInv, TypeOK, TaskTypeOK, ExecutionAuthorised
<1>2. tasksUnchanged /\ UNCHANGED <<policyVars, requests, asked>>
  BY DEF AnswerSudo, CancelSudo, ClearSlot, Interrupt
<1>3. /\ slot' \in {slot, None} /\ sudoSlot' \in {sudoSlot, None}
      /\ token' \in {token, None} /\ cancelled' \subseteq cancelled \cup ({token} \ {None})
  BY DEF AnswerSudo, CancelSudo, ClearSlot, Interrupt
<1>4. \/ repl' = repl \/ repl' = AtPrompt
      \/ repl' = Busy("run", "sudo", sudoSlot) /\ sudoSlot \in Calls
  BY <1>1 DEF AnswerSudo, CancelSudo, ClearSlot, Interrupt, ReplTypeOK
<1>5. ReplTypeOK'
  BY <1>1, <1>2, <1>3, <1>4 DEF ReplTypeOK, AtPrompt, Busy
<1>6. SudoInv'
  BY <1>1, <1>2, <1>3 DEF SudoInv, SudoQuestionsOK, Authorised, policyVars
<1>7. (repl.pc = "run" => repl.call # None /\ Authorised(repl.call))'
  <2>1. repl'.pc = "run" => repl'.call # None /\ Authorised(repl'.call)
    BY <1>1, <1>4, TurnConstants DEF AtPrompt, Busy, SudoInv
  <2> QED BY <1>2, <2>1 DEF Authorised, policyVars
<1>8. ran' \in [Calls -> 0 .. HistoryMax]
  <2>1. CASE AnswerSudo
    BY <1>1, <2>1, RunsType DEF AnswerSudo, ReplTypeOK
  <2> QED BY <1>1, <2>1 DEF CancelSudo, ClearSlot, Interrupt
<1> QED BY <1>2, <1>5, <1>6, <1>7, <1>8, ReplStepKeeps

LEMMA RuleSteps ==
    ASSUME IndInv, ChangeRules \/ TimePasses
    PROVE  IndInv'
<1>1. [PolicyNext]_policyVars
  BY TurnConstants DEF ChangeRules, TimePasses, PolicyNext, Scopes
<1>2. /\ tasksUnchanged /\ UNCHANGED consented
      /\ UNCHANGED <<requests, slot, sudoSlot, repl, token, cancelled, asked, ran>>
  BY DEF ChangeRules, TimePasses, AddPattern, AddDir, Tick
<1>3. ReplTypeOK' /\ SudoInv' /\ ran' \in [Calls -> 0 .. HistoryMax]
  BY <1>2 DEF IndInv, TypeOK, ReplTypeOK, TaskTypeOK, SudoInv, SudoQuestionsOK, Authorised
<1>4. (repl.pc = "run" => repl.call # None /\ Authorised(repl.call))'
  BY <1>2 DEF IndInv, ExecutionAuthorised, Authorised
<1> QED BY <1>1, <1>2, <1>3, <1>4, ReplStepKeeps

(* A task is spawned, for a message or to go on after an answered call.      *)
LEMMA SpawnSteps ==
    ASSUME IndInv, NEW t \in Tasks, NEW a \in Agents, StartTurn(t, a) \/ SpawnContinue(t)
    PROVE  IndInv'
<1>1. PICK rec \in {[Idle EXCEPT !.pc = "round", !.agent = a], [Idle EXCEPT !.pc = "continue"]} :
          Put(t, rec)
  BY DEF StartTurn, SpawnContinue
<1>2. /\ rec \in TurnStates /\ TaskInv(rec) /\ MayRunTool(rec)
  <2>1. {"round", "continue"} \subseteq PCs
    BY DEF PCs
  <2>2. rec \in TurnStates
    <3>1. [Idle EXCEPT !.pc = "round", !.agent = a] \in TurnStates
      BY <2>1, IdleType
    <3>2. [Idle EXCEPT !.pc = "continue"] \in TurnStates
      BY <2>1, IdleType
    <3> QED BY <1>1, <3>1, <3>2
  <2>3. rec.pc \in {"round", "continue"} /\ rec.replies = 0 /\ rec.round = 0 /\ rec.row = None
    BY <1>1 DEF Idle
  <2> QED BY <2>2, <2>3, TurnConstants DEF TaskInv, MayRunTool
<1>3. /\ token' = t /\ repl' \in {repl, [repl EXCEPT !.pc = "clear"]}
      /\ UNCHANGED <<policyVars, lastReply, pending, requests, slot, sudoSlot,
                     cancelled, restarts, asked, ran>>
  BY DEF StartTurn, SpawnContinue
<1>4. UNCHANGED consented
  BY <1>3 DEF policyVars
<1>5. /\ turn' \in [Tasks -> TurnStates] /\ \A u \in Tasks : TaskInv(turn'[u])
      /\ \A u \in Tasks : MayRunTool(turn[u])'
  BY <1>1, <1>2, <1>4, PutKeeps
<1>6. TypeOK' /\ CacheBounded' /\ (allowed \subseteq consented)'
  <2>1. PolicyTypeOK' /\ CacheBounded' /\ (allowed \subseteq consented)'
    BY <1>3 DEF IndInv, TypeOK, PolicyTypeOK, CacheBounded, policyVars
  <2>2. TaskTypeOK'
    BY <1>3, <1>5 DEF IndInv, TypeOK, TaskTypeOK
  <2>3. ReplTypeOK'
    BY <1>3 DEF IndInv, TypeOK, ReplTypeOK
  <2> QED BY <2>1, <2>2, <2>3 DEF TypeOK
<1>7. RowInv' /\ SudoInv'
  BY <1>3, <1>4 DEF IndInv, RowInv, SudoInv, SudoQuestionsOK, Authorised
<1>8. repl'.pc = "run" => repl' = repl
  BY <1>3 DEF IndInv, TypeOK, ReplTypeOK
<1>9. (repl.pc = "run" => repl.call # None /\ Authorised(repl.call))'
  BY <1>4, <1>8 DEF IndInv, ExecutionAuthorised, Authorised
<1>10. ExecutionAuthorised'
  BY <1>5, <1>9 DEF ExecutionAuthorised, MayRunTool
<1> QED BY <1>5, <1>6, <1>7, <1>9, <1>10 DEF IndInv, TaskInv

LEMMA RestartStep ==
    ASSUME IndInv, Restart
    PROVE  IndInv'
<1> DEFINE gone == [Idle EXCEPT !.pc = "over"]
<1>1. TypeOK /\ CacheBounded /\ RowInv /\ \A t \in Tasks : TaskInv(turn[t])
  BY DEF IndInv
<1>2. /\ UNCHANGED <<now, consented, lastReply, pending, asked, ran>>
      /\ restarts' \in 0 .. MaxRestarts
      /\ requests' = <<>> /\ slot' = None /\ sudoSlot' = None /\ repl' = AtPrompt
      /\ token' = None /\ cancelled' = {} /\ allowed' = {} /\ DOMAIN denied' = {}
  BY <1>1, TurnConstants DEF Restart, TypeOK, TaskTypeOK
<1>3. gone \in TurnStates /\ TaskInv(gone)
  <2>1. gone \in TurnStates
    BY TurnConstants, IdleType DEF PCs
  <2>2. gone.pc = "over" /\ gone.replies = 0 /\ gone.row = None
    BY DEF Idle
  <2> QED BY <2>1, <2>2, TurnConstants DEF TaskInv
<1> HIDE DEF gone
<1>4. \A t \in Tasks : turn'[t] = IF Live(t) THEN gone ELSE turn[t]
  BY DEF Restart, gone
<1>5. turn' \in [Tasks -> TurnStates] /\ \A t \in Tasks : TaskInv(turn'[t])
  <2>1. \A t \in Tasks : turn'[t] \in TurnStates /\ TaskInv(turn'[t])
    BY <1>1, <1>3, <1>4 DEF TypeOK, TaskTypeOK
  <2>2. turn' = [t \in Tasks |-> turn'[t]]
    BY DEF Restart
  <2> QED BY <2>1, <2>2
<1>6. \A t \in Tasks : turn'[t].pc # "tool"
  <2>1. gone.pc = "over"
    BY DEF gone, Idle
  <2> QED BY <1>4, <2>1 DEF Live
<1>7. CacheBounded'
  BY <1>2, FS_EmptySet, PolicyConstants DEF CacheBounded
<1>8. PolicyTypeOK'
  <2>1. denied' \in [DOMAIN denied' -> Nat]
    BY DEF Restart
  <2>2. patterns' \in [Scopes -> [Buckets -> SUBSET Patterns]] /\ dirs' \in [Scopes -> SUBSET Dirs]
    BY <1>1 DEF Restart, TypeOK, PolicyTypeOK
  <2> QED BY <1>1, <1>2, <2>1, <2>2 DEF TypeOK, PolicyTypeOK
<1>9. TaskTypeOK' /\ ReplTypeOK'
  BY <1>1, <1>2, <1>5, EmptySeq DEF TypeOK, TaskTypeOK, ReplTypeOK, AtPrompt
<1>10. SudoInv' /\ RowInv' /\ ExecutionAuthorised'
  BY <1>1, <1>2, <1>6 DEF SudoInv, SudoQuestionsOK, RowInv, ExecutionAuthorised, AtPrompt
<1> QED BY <1>2, <1>5, <1>7, <1>8, <1>9, <1>10 DEF IndInv, TypeOK, TaskInv, AtPrompt

LEMMA CleanStaleStep ==
    ASSUME IndInv, CleanStale
    PROVE  IndInv'
<1>1. /\ pending' = None
      /\ UNCHANGED <<policyVars, turn, lastReply, requests, slot, sudoSlot, repl, token,
                     cancelled, restarts, asked, ran>>
  BY DEF CleanStale
<1>2. TypeOK' /\ CacheBounded' /\ RowInv' /\ (allowed \subseteq consented)'
  BY <1>1 DEF IndInv, TypeOK, PolicyTypeOK, TaskTypeOK, ReplTypeOK, CacheBounded, RowInv, policyVars
<1>3. SudoInv' /\ ExecutionAuthorised' /\ \A t \in Tasks : TaskInv(turn[t])'
  BY <1>1 DEF IndInv, SudoInv, SudoQuestionsOK, ExecutionAuthorised, Authorised, Forbidden,
              TaskInv, policyVars
<1> QED BY <1>1, <1>2, <1>3 DEF IndInv

-----------------------------------------------------------------------------
LEMMA IndInvInit == Init => IndInv
<1> SUFFICES ASSUME Init PROVE IndInv
  OBVIOUS
<1>1. PolicyTypeOK /\ CacheBounded /\ allowed \subseteq consented
  BY TypeAndBoundsInit DEF Init, PolicyInit
<1>2. \A t \in Tasks : turn[t] = Idle
  BY DEF Init
<1>3. Idle \in TurnStates /\ Idle.pc = "free" /\ Idle.replies = 0 /\ Idle.row = None
  BY TurnConstants, IdleType DEF Idle, PCs
<1>4. TaskTypeOK
  BY <1>3, TurnConstants, EmptySeq DEF Init, TaskTypeOK
<1>5. ReplTypeOK
  BY EmptySeq DEF Init, ReplTypeOK, AtPrompt
<1>6. \A t \in Tasks : TaskInv(turn[t])
  BY <1>2, <1>3, TurnConstants DEF TaskInv
<1>7. RowInv /\ SudoInv /\ ExecutionAuthorised /\ (repl.pc = "run" => repl.call # None)
  BY <1>2, <1>3 DEF Init, RowInv, SudoInv, SudoQuestionsOK, ExecutionAuthorised, AtPrompt
<1> QED BY <1>1, <1>4, <1>5, <1>6, <1>7 DEF IndInv, TypeOK

LEMMA StutterKeeps ==
    ASSUME IndInv, UNCHANGED vars
    PROVE  IndInv'
<1>1. TypeOK' /\ CacheBounded' /\ RowInv' /\ (allowed \subseteq consented)'
  BY DEF IndInv, TypeOK, PolicyTypeOK, TaskTypeOK, ReplTypeOK, CacheBounded, RowInv, vars, policyVars
<1>2. SudoInv' /\ ExecutionAuthorised' /\ \A t \in Tasks : TaskInv(turn[t])'
  BY DEF IndInv, SudoInv, SudoQuestionsOK, ExecutionAuthorised, Authorised, Forbidden,
         TaskInv, vars, policyVars
<1> QED BY <1>1, <1>2 DEF IndInv, vars

LEMMA IndInvStep ==
    ASSUME IndInv, [Next]_vars
    PROVE  IndInv'
<1>1. CASE \E t \in Tasks : TaskStep(t)
  BY <1>1, TaskStepStep
<1>2. CASE \E t \in Tasks, a \in Agents : StartTurn(t, a)
  BY <1>2, SpawnSteps
<1>3. CASE ReplStep
  <2>1. CASE \E answer \in Answers : AnswerPermission(answer)
    BY <2>1, AnswerPermissionStep
  <2>2. CASE \E t \in Tasks : SpawnContinue(t)
    BY <2>2, SpawnSteps, TurnConstants
  <2>3. CASE Listen
    BY <2>3, ListenStep
  <2> QED BY <1>3, <2>1, <2>2, <2>3, QuietReplSteps DEF ReplStep
<1>4. CASE ChangeRules \/ TimePasses
  BY <1>4, RuleSteps
<1>5. CASE Restart
  BY <1>5, RestartStep
<1>6. CASE CleanStale
  BY <1>6, CleanStaleStep
<1> QED BY <1>1, <1>2, <1>3, <1>4, <1>5, <1>6, StutterKeeps DEF Next

LEMMA IndInvAlways == Spec => []IndInv
BY IndInvInit, IndInvStep, PTL DEF Spec

(* The session's state is well typed in every reachable state: in particular *)
(* a resumed round and its counters stay within the turn's limits.           *)
THEOREM TurnTypeInvariant == Spec => []TypeOK
<1>1. IndInv => TypeOK
  BY DEF IndInv
<1> QED BY <1>1, IndInvAlways, PTL

(* No tool runs that is in ask or deny mode and that the user has not        *)
(* allowed, through a task, the REPL, a replay after a restart or a password *)
(* (execute_tool_with_cancel, resolve_permission, resolve_sudo_prompt).      *)
THEOREM ExecutionAuthorisedTheorem == Spec => []ExecutionAuthorised
<1>1. IndInv => ExecutionAuthorised
  BY DEF IndInv
<1> QED BY <1>1, IndInvAlways, PTL

(* The number of model replies spent on one message is at most the number of *)
(* rounds, across any number of suspensions (resume_from_pending_tool).      *)
THEOREM RepliesBoundedTheorem == Spec => []RepliesBounded
<1>1. IndInv => RepliesBounded
  BY DEF IndInv, TaskInv, RepliesBounded
<1> QED BY <1>1, IndInvAlways, PTL
=============================================================================
