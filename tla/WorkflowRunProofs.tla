-------------------------- MODULE WorkflowRunProofs --------------------------
(* Proofs about WorkflowRun, for every registry of workflows the loader      *)
(* accepts and every RetryCap and StackMax.  The invariants of the runs are  *)
(* not inductive: what is known of a run's attempts depends on where in a    *)
(* step it is, and what is known of its callers goes by way of its chain.    *)
EXTENDS WorkflowRun, SequenceTheorems, TLAPS

\* No run between the i-th and the j-th was started through the workflow tool.
Linked(i, j) == \A k \in i + 1 .. j : ~Fresh(k)

\* Attempts made before the present step are covered by the steps before it.
RunOK(r) ==
    LET f == Flow[r.flow]
    IN  /\ f.maxDepth # None => r.depth <= f.maxDepth
        /\ r.tries <= RetryCap
        /\ f.maxSteps # None =>
              /\ r.count <= f.maxSteps
              /\ r.pc = "begin" => r.made <= r.count * (RetryCap + 1)
              /\ r.pc # "begin" =>
                    /\ r.count >= 1
                    /\ r.made <= (r.count - 1) * (RetryCap + 1) + r.tries + 1

\* A run's chain names every caller that led to it by workflow steps alone.
Nested ==
    \A i, j \in 1 .. Len(stack) :
        i <= j /\ Linked(i, j) =>
            /\ stack[i].flow \in stack[j].chain
            /\ i < j => stack[i].flow # stack[j].flow

\* Every run but the innermost waits for a call; it, too, when one has returned.
Waiting ==
    /\ \A i \in 1 .. Len(stack) : i < Len(stack) => stack[i].pc = "call"
    /\ returned # "none" /\ stack # <<>> => stack[Len(stack)].pc = "call"

RunsOK == \A i \in 1 .. Len(stack) : RunOK(stack[i])

StackInv == TypeOK /\ RunsOK /\ Nested /\ Waiting
IInv == StackInv /\ ResultMatchesLastStep

\* b is the stack up to one of its runs.
Prefix(b) ==
    /\ b \in Seq(Runs) /\ b # <<>> /\ Len(b) <= Len(stack)
    /\ \A k \in 1 .. Len(b) : b[k] = stack[k]

\* The stack ends at its n-th run, which has changed.
CutAt(n) ==
    /\ stack' \in Seq(Runs) /\ Len(stack') = n
    /\ \A k \in 1 .. n - 1 : stack'[k] = stack[k]
    /\ n > 0 =>
          /\ stack'[n].flow = stack[n].flow /\ stack'[n].chain = stack[n].chain
          /\ stack'[n].depth = stack[n].depth
          /\ RunOK(stack'[n])
          /\ returned' # "none" => stack'[n].pc = "call"

HistoryTyped ==
    /\ returned \in {"none", "success", "failure", "error"}
    /\ last \in [step : Steps \cup {None}, outcome : Outcomes]

-----------------------------------------------------------------------------
(* Arithmetic, sequences and types. *)

\* One step more adds the attempts of one step.
LEMMA OneMore == \A c, m \in Nat : (c + 1) * m = c * m + m
  OBVIOUS

\* More steps allow more attempts.
LEMMA TimesMonotonic == \A c, d, m \in Nat : c <= d => c * m <= d * m
<1> SUFFICES ASSUME NEW c \in Nat, NEW d \in Nat, NEW m \in Nat, c <= d
             PROVE  c * m <= d * m
  OBVIOUS
<1> DEFINE e == d - c
<1>1. e \in Nat /\ d = c + e
  OBVIOUS
<1>2. (c + e) * m = c * m + e * m
  BY <1>1
<1>3. e * m >= 0 /\ c * m \in Nat /\ e * m \in Nat
  BY <1>1
<1> HIDE DEF e
<1> QED  BY <1>1, <1>2, <1>3

\* The stack up to run i.
LEMMA PrefixOf ==
  ASSUME TypeOK, NEW i \in 1 .. Len(stack)
  PROVE  Prefix(SubSeq(stack, 1, i)) /\ Len(SubSeq(stack, 1, i)) = i
<1>1. \A k \in 1 .. i : stack[k] \in Runs
  BY DEF TypeOK
<1>2. /\ SubSeq(stack, 1, i) \in Seq(Runs) /\ Len(SubSeq(stack, 1, i)) = i
      /\ \A k \in 1 .. i : SubSeq(stack, 1, i)[k] = stack[k]
  BY <1>1, SubSeqProperties DEF TypeOK
<1> QED  BY <1>2 DEF Prefix, TypeOK

LEMMA PrefixAll == TypeOK /\ stack # <<>> => Prefix(stack)
  BY DEF TypeOK, Prefix

\* What is above run n does not matter to the runs up to it.
LEMMA Cut ==
  ASSUME StackInv, NEW n \in 0 .. Len(stack), CutAt(n), HistoryTyped'
  PROVE  StackInv'
<1>1. TypeOK'
  BY DEF CutAt, HistoryTyped, TypeOK
<1>2. \A k \in 1 .. n : /\ stack'[k].flow = stack[k].flow
                        /\ stack'[k].chain = stack[k].chain
                        /\ stack'[k].depth = stack[k].depth
  BY DEF CutAt
<1>3. RunsOK'
  <2> SUFFICES ASSUME NEW k \in 1 .. n PROVE RunOK(stack'[k])
    BY DEF RunsOK, CutAt, RunOK
  <2>1. CASE k = n  BY <2>1 DEF CutAt
  <2>2. CASE k < n
    <3>1. stack'[k] = stack[k] /\ k \in 1 .. Len(stack)
      BY <2>2 DEF CutAt, StackInv, TypeOK
    <3> QED  BY <3>1 DEF StackInv, RunsOK
  <2> QED  BY <2>1, <2>2
<1>4. Nested'
  <2> SUFFICES ASSUME NEW i \in 1 .. n, NEW j \in 1 .. n, i <= j, Linked(i, j)'
               PROVE  /\ stack'[i].flow \in stack'[j].chain
                      /\ i < j => stack'[i].flow # stack'[j].flow
    BY DEF Nested, CutAt
  <2>1. Linked(i, j)
    BY <1>2 DEF Linked, Fresh
  <2>2. i \in 1 .. Len(stack) /\ j \in 1 .. Len(stack)
    BY DEF StackInv, TypeOK
  <2> QED  BY <1>2, <2>1, <2>2 DEF StackInv, Nested
<1>5. Waiting'
  <2>1. \A i \in 1 .. n : i < n => stack'[i].pc = "call"
    <3> SUFFICES ASSUME NEW i \in 1 .. n, i < n PROVE stack'[i].pc = "call"
      OBVIOUS
    <3>1. i \in 1 .. n - 1 /\ i \in 1 .. Len(stack) /\ i < Len(stack)
      BY DEF StackInv, TypeOK
    <3> QED  BY <3>1 DEF CutAt, StackInv, Waiting
  <2>2. stack' # <<>> => n > 0
    BY DEF CutAt
  <2> QED  BY <2>1, <2>2 DEF Waiting, CutAt
<1> QED  BY <1>1, <1>3, <1>4, <1>5 DEF StackInv

-----------------------------------------------------------------------------
(* What the operators that end a run or go on in it do to the stack. *)

\* The innermost run of a prefix is a run of the stack.
LEMMA TopOfPrefix ==
  ASSUME StackInv, NEW b, Prefix(b)
  PROVE  /\ Len(b) \in 1 .. Len(stack) /\ Outermost(b) = stack[Len(b)]
         /\ Outermost(b) \in Runs /\ RunOK(Outermost(b))
         /\ Step(b) \in StepDefs
<1>1. Len(b) \in 1 .. Len(stack) /\ Len(b) \in 1 .. Len(b)
  BY DEF Prefix, StackInv, TypeOK
<1>2. b[Len(b)] = stack[Len(b)] /\ b[Len(b)] \in Runs
  BY <1>1 DEF Prefix
<1>3. RunOK(stack[Len(b)])
  BY <1>1 DEF StackInv, RunsOK
<1>4. Def[b[Len(b)].step] \in StepDefs
  BY <1>2, WorkflowConstants DEF Runs
<1> QED  BY <1>1, <1>2, <1>3, <1>4 DEF Outermost, Step

\* A run that is over leaves a stack on which its caller still waits.
LEMMA ReturnInv ==
  ASSUME StackInv, NEW b, Prefix(b), NEW result \in {"success", "failure", "error"},
         Return(b, result), HistoryTyped'
  PROVE  StackInv'
<1> DEFINE n == Len(b) - 1
<1>1. n \in 0 .. Len(stack) /\ n < Len(stack) /\ n + 1 = Len(b)
  BY TopOfPrefix DEF StackInv, TypeOK
<1>2. \A k \in 1 .. n : b[k] = stack[k] /\ b[k] \in Runs
  BY <1>1 DEF Prefix
<1>3. /\ SubSeq(b, 1, n) \in Seq(Runs) /\ Len(SubSeq(b, 1, n)) = n
      /\ \A k \in 1 .. n : SubSeq(b, 1, n)[k] = stack[k]
  <2>1. 1 \in Int /\ n \in Int
    BY <1>1
  <2> HIDE DEF n
  <2>2. /\ SubSeq(b, 1, n) \in Seq(Runs)
        /\ Len(SubSeq(b, 1, n)) = IF 1 <= n THEN n - 1 + 1 ELSE 0
        /\ \A k \in 1 .. n - 1 + 1 : SubSeq(b, 1, n)[k] = b[1 + k - 1]
    BY <2>1, <1>2, SubSeqProperties
  <2> QED  BY <2>2, <1>1, <1>2
<1>4. stack' = SubSeq(b, 1, n) /\ returned' = result
  BY DEF Return, Below
<1> HIDE DEF n
<1>5. n > 0 => RunOK(stack[n]) /\ stack[n].pc = "call"
  BY <1>1 DEF StackInv, RunsOK, Waiting
<1>6. CutAt(n)
  BY <1>1, <1>3, <1>4, <1>5 DEF CutAt
<1> QED  BY <1>1, <1>6, Cut

\* A run on top of its prefix is replaced.
LEMMA ReplaceTop ==
  ASSUME StackInv, NEW b, Prefix(b), NEW r \in Runs,
         stack' = [b EXCEPT ![Len(b)] = r], RunOK(r), returned' = "none",
         r.flow = Outermost(b).flow, r.chain = Outermost(b).chain,
         r.depth = Outermost(b).depth, HistoryTyped'
  PROVE  StackInv'
<1> DEFINE n == Len(b)
<1>1. n \in 1 .. Len(stack) /\ n \in 0 .. Len(stack) /\ n > 0 /\ Outermost(b) = stack[n]
  BY TopOfPrefix DEF StackInv, TypeOK
<1>2. b \in Seq(Runs) /\ n \in 1 .. Len(b)
  BY <1>1 DEF Prefix
<1>3. /\ stack' \in Seq(Runs) /\ Len(stack') = n /\ stack'[n] = r
      /\ \A k \in 1 .. n - 1 : stack'[k] = b[k]
  BY <1>2, ExceptSeq
<1>4. \A k \in 1 .. n - 1 : b[k] = stack[k]
  BY <1>2 DEF Prefix
<1> HIDE DEF n
<1>5. CutAt(n)
  BY <1>1, <1>3, <1>4 DEF CutAt
<1> QED  BY <1>1, <1>5, Cut

\* A step is left: its attempts are then covered by the steps begun.
LEMMA JumpInv ==
  ASSUME StackInv, NEW b, Prefix(b), Outermost(b).pc # "begin",
         NEW target \in Steps, Jump(b, target), HistoryTyped'
  PROVE  StackInv'
<1> DEFINE f == Outermost(b)
           r == [f EXCEPT !.step = target, !.pc = "begin"]
           M == RetryCap + 1
<1>1. f \in Runs /\ RunOK(f) /\ Len(b) \in 1 .. Len(b)
  BY TopOfPrefix DEF StackInv, TypeOK
<1>2. r \in Runs
  BY <1>1 DEF Runs
<1>3. /\ r.flow = f.flow /\ r.chain = f.chain /\ r.depth = f.depth /\ r.tries = f.tries
      /\ r.count = f.count /\ r.made = f.made /\ r.pc = "begin"
  BY <1>1 DEF Runs
<1>4. RunOK(r)
  <2>1. f.made \in Nat /\ f.count \in Nat /\ f.tries \in Nat /\ M \in Nat /\ f.pc # "begin"
    BY <1>1, WorkflowConstants DEF Runs
  <2>2. Flow[f.flow].maxSteps # None => f.made <= f.count * M
    <3> SUFFICES ASSUME Flow[f.flow].maxSteps # None PROVE f.made <= f.count * M
      OBVIOUS
    <3> DEFINE c == f.count - 1
    <3>1. f.count >= 1 /\ f.made <= c * M + f.tries + 1 /\ f.tries <= RetryCap
      BY <1>1, <2>1 DEF RunOK
    <3>2. c \in Nat /\ c + 1 = f.count /\ c * M \in Nat
      BY <2>1, <3>1
    <3>3. (c + 1) * M = c * M + M
      BY <3>2, <2>1, OneMore
    <3> HIDE DEF c
    <3>4. f.made <= c * M + M
      BY <3>1, <3>2, <2>1, WorkflowConstants
    <3> QED  BY <3>2, <3>3, <3>4
  <2> QED  BY <1>1, <1>3, <2>1, <2>2 DEF RunOK
<1>5. stack' = [b EXCEPT ![Len(b)] = r] /\ returned' = "none"
  BY DEF Jump, Outermost
<1> HIDE DEF r
<1> QED  BY <1>1, <1>2, <1>3, <1>4, <1>5, ReplaceTop

\* A run goes on at a target, or ends for want of one.
LEMMA GoOnInv ==
  ASSUME StackInv, NEW b, Prefix(b), Outermost(b).pc # "begin",
         NEW target \in Steps \cup {None}, NEW good \in BOOLEAN,
         GoOn(b, target, good), HistoryTyped'
  PROVE  StackInv'
<1>1. CASE target # None /\ Jump(b, target)
  BY <1>1, JumpInv
<1>2. CASE target = None /\ Return(b, IF good THEN "success" ELSE "failure")
  BY <1>2, ReturnInv
<1> QED  BY <1>1, <1>2 DEF GoOn

\* The target of a result is a step, if there is one.
LEMMA TargetType ==
  ASSUME NEW d \in StepDefs, NEW good \in BOOLEAN
  PROVE  Target(d, good) \in Steps \cup {None}
BY DEF Target, Or, StepDefs

LEMMA SettleInv ==
  ASSUME StackInv, NEW b, Prefix(b), Outermost(b).pc # "begin",
         NEW good \in BOOLEAN, Settle(b, good), HistoryTyped'
  PROVE  StackInv'
<1>1. CASE Return(b, "success")
  BY <1>1, ReturnInv
<1>2. CASE GoOn(b, Target(Step(b), good), good)
  BY <1>2, TopOfPrefix, TargetType, GoOnInv
<1> QED  BY <1>1, <1>2 DEF Settle

LEMMA AbortInv ==
  ASSUME StackInv, NEW b, Prefix(b), Abort(b), HistoryTyped'
  PROVE  StackInv'
BY ReturnInv DEF Abort

LEMMA OutOfTimeInv ==
  ASSUME StackInv, NEW b, Prefix(b), Outermost(b).pc # "begin",
         OutOfTime(b), HistoryTyped'
  PROVE  StackInv'
BY AbortInv, SettleInv DEF OutOfTime

\* A run with its attempts counted on is a run.
LEMMA Retried ==
  ASSUME NEW f \in Runs, NEW t \in Nat, NEW m \in Nat
  PROVE  [f EXCEPT !.tries = t, !.pc = "run", !.made = m] \in Runs
BY DEF Runs

\* One attempt more for the present step, within its retries.
LEMMA TryAgainInv ==
  ASSUME StackInv, NEW b, Prefix(b), Outermost(b).pc # "begin",
         NEW outcome, TryAgain(b, outcome), HistoryTyped'
  PROVE  StackInv'
<1> DEFINE f == Outermost(b)
           r == [f EXCEPT !.tries = f.tries + 1, !.pc = "run", !.made = Tally(f, f.made)]
<1>1. f \in Runs /\ RunOK(f) /\ Step(b) \in StepDefs
  BY TopOfPrefix
<1>2. f.tries < RetryCap /\ f.tries \in Nat /\ f.made \in Nat /\ f.count \in Nat
  BY <1>1, WorkflowConstants DEF TryAgain, Runs, StepDefs
<1>3. Tally(f, f.made) \in Nat /\ Tally(f, f.made) <= f.made + 1
  BY <1>2 DEF Tally
<1>4. r \in Runs
  <2> HIDE DEF f
  <2>1. f.tries + 1 \in Nat
    BY <1>2
  <2> QED  BY <1>1, <1>3, <2>1, Retried
<1>5. /\ r.flow = f.flow /\ r.chain = f.chain /\ r.depth = f.depth
      /\ r.tries = f.tries + 1 /\ r.count = f.count /\ r.pc = "run"
      /\ r.made = Tally(f, f.made)
  BY <1>1 DEF Runs
<1>6. RunOK(r)
  <2>1. Flow[f.flow].maxSteps # None =>
          /\ f.count <= Flow[f.flow].maxSteps /\ f.count >= 1
          /\ f.made <= (f.count - 1) * (RetryCap + 1) + f.tries + 1
    BY <1>1 DEF RunOK
  <2>2. (f.count - 1) * (RetryCap + 1) \in Int
    BY <1>2, WorkflowConstants
  <2>3. Flow[f.flow].maxSteps # None =>
          r.made <= (f.count - 1) * (RetryCap + 1) + r.tries + 1
    BY <1>2, <1>3, <1>5, <2>1, <2>2
  <2> QED  BY <1>1, <1>2, <1>5, <2>1, <2>3, WorkflowConstants DEF RunOK
<1>7. stack' = [b EXCEPT ![Len(b)] = r] /\ returned' = "none"
  BY DEF TryAgain, Outermost
<1> HIDE DEF r
<1> QED  BY <1>1, <1>4, <1>5, <1>6, <1>7, ReplaceTop

LEMMA FailedInv ==
  ASSUME StackInv, NEW b, Prefix(b), Outermost(b).pc # "begin",
         NEW outcome \in {"bad", "err"}, Failed(b, outcome), HistoryTyped'
  PROVE  StackInv'
<1>1. CASE TryAgain(b, outcome)  BY <1>1, TryAgainInv
<1>2. CASE OutOfTime(b)          BY <1>2, OutOfTimeInv
<1>3. CASE GiveUp(b, outcome)    BY <1>3, AbortInv, SettleInv DEF GiveUp
<1> QED  BY <1>1, <1>2, <1>3 DEF Failed

-----------------------------------------------------------------------------
(* The actions. *)

LEMMA SawTyped ==
  ASSUME StackInv, NEW b, Prefix(b), NEW outcome \in Outcomes, Saw(b, outcome)
  PROVE  last' \in [step : Steps \cup {None}, outcome : Outcomes]
BY TopOfPrefix DEF Saw, Runs

LEMMA SettleTyped ==
  ASSUME StackInv, NEW b, Prefix(b), NEW good \in BOOLEAN, Settle(b, good),
         NEW outcome \in Outcomes, Saw(b, outcome)
  PROVE  HistoryTyped'
BY SawTyped DEF Settle, GoOn, Jump, Return, HistoryTyped

LEMMA AbortTyped ==
  ASSUME StackInv, NEW b, Prefix(b), Abort(b), NEW outcome \in Outcomes, Saw(b, outcome)
  PROVE  HistoryTyped'
BY SawTyped DEF Abort, Return, HistoryTyped

LEMMA OutOfTimeTyped ==
  ASSUME StackInv, NEW b, Prefix(b), OutOfTime(b)
  PROVE  HistoryTyped'
<1>1. Saw(b, "late") /\ "late" \in Outcomes
  BY DEF OutOfTime, Outcomes
<1> QED  BY <1>1, SettleTyped, AbortTyped DEF OutOfTime

LEMMA FailedTyped ==
  ASSUME StackInv, NEW b, Prefix(b), NEW outcome \in {"bad", "err"}, Failed(b, outcome)
  PROVE  HistoryTyped'
<1>1. outcome \in Outcomes
  BY DEF Outcomes
<1>2. CASE TryAgain(b, outcome)
  BY <1>1, <1>2, SawTyped DEF TryAgain, HistoryTyped
<1>3. CASE OutOfTime(b)
  BY <1>3, OutOfTimeTyped
<1>4. CASE GiveUp(b, outcome)
  BY <1>1, <1>4, SettleTyped, AbortTyped DEF GiveUp
<1> QED  BY <1>2, <1>3, <1>4 DEF Failed

\* Every way a step that is being run can come out, for the run on top of b.
Outcome(b) ==
    \/ Settle(b, TRUE) /\ Saw(b, "good")
    \/ \E o \in Outcomes \ {"good"} : Settle(b, FALSE) /\ Saw(b, o)
    \/ \E o \in {"late", "limit", "setup"} : Abort(b) /\ Saw(b, o)
    \/ OutOfTime(b)
    \/ \E o \in {"bad", "err"} : Failed(b, o)
    \/ \E t \in Steps, o \in Outcomes : Jump(b, t) /\ Saw(b, o)

LEMMA OutcomeStack ==
  ASSUME StackInv, NEW b, Prefix(b), Outermost(b).pc # "begin", Outcome(b)
  PROVE  StackInv'
<1>1. {"good", "late", "limit", "setup"} \subseteq Outcomes
  BY DEF Outcomes
<1>2. CASE Settle(b, TRUE) /\ Saw(b, "good")
  BY <1>1, <1>2, SettleInv, SettleTyped
<1>3. CASE \E o \in Outcomes \ {"good"} : Settle(b, FALSE) /\ Saw(b, o)
  BY <1>3, SettleInv, SettleTyped
<1>4. CASE \E o \in {"late", "limit", "setup"} : Abort(b) /\ Saw(b, o)
  BY <1>1, <1>4, AbortInv, AbortTyped
<1>5. CASE OutOfTime(b)
  BY <1>5, OutOfTimeInv, OutOfTimeTyped
<1>6. CASE \E o \in {"bad", "err"} : Failed(b, o)
  BY <1>6, FailedInv, FailedTyped
<1>7. CASE \E t \in Steps, o \in Outcomes : Jump(b, t) /\ Saw(b, o)
  <2>1. PICK t \in Steps, o \in Outcomes : Jump(b, t) /\ Saw(b, o)
    BY <1>7
  <2>2. HistoryTyped'
    BY <2>1, SawTyped DEF Jump, HistoryTyped
  <2> QED  BY <2>1, <2>2, JumpInv
<1> QED  BY <1>2, <1>3, <1>4, <1>5, <1>6, <1>7 DEF Outcome

\* A run that ends by a step returns what became of that step.
LEMMA OutcomeResult ==
  ASSUME NEW b, Outcome(b)
  PROVE  ResultMatchesLastStep'
<1>1. \A o : Saw(b, o) => /\ last'.outcome = o
                          /\ Def[last'.step] = Step(b)
  BY DEF Saw, Step
<1>2. CASE Settle(b, TRUE) /\ Saw(b, "good")
  BY <1>1, <1>2 DEF Settle, GoOn, Jump, Return, ResultMatchesLastStep
<1>3. ASSUME NEW o, o # "good", Settle(b, FALSE), Saw(b, o)
      PROVE  ResultMatchesLastStep'
  BY <1>1, <1>3 DEF Settle, GoOn, Jump, Return, ResultMatchesLastStep
<1>4. ASSUME NEW o \in {"late", "limit", "setup"}, Abort(b), Saw(b, o)
      PROVE  ResultMatchesLastStep'
  BY <1>1, <1>4 DEF Abort, Return, ResultMatchesLastStep
<1>5. CASE OutOfTime(b)
  BY <1>3, <1>4, <1>5 DEF OutOfTime
<1>6. ASSUME NEW o \in {"bad", "err"}, Failed(b, o)
      PROVE  ResultMatchesLastStep'
  <2>1. CASE TryAgain(b, o)
    BY <2>1 DEF TryAgain, ResultMatchesLastStep
  <2>2. CASE GiveUp(b, o) /\ Settle(b, FALSE)
    BY <1>3, <2>2 DEF GiveUp
  <2>3. CASE GiveUp(b, o) /\ ~Settle(b, FALSE)
    BY <1>1, <2>3 DEF GiveUp, Abort, Return, ResultMatchesLastStep
  <2> QED  BY <1>5, <1>6, <2>1, <2>2, <2>3 DEF Failed
<1>7. CASE \E t \in Steps, o \in Outcomes : Jump(b, t) /\ Saw(b, o)
  BY <1>7 DEF Jump, ResultMatchesLastStep
<1> QED  BY <1>2, <1>3, <1>4, <1>5, <1>6, <1>7 DEF Outcome

LEMMA OutcomeInv ==
  ASSUME StackInv, NEW b, Prefix(b), Outermost(b).pc # "begin", Outcome(b)
  PROVE  IInv'
BY OutcomeStack, OutcomeResult DEF IInv

\* The actions in which the innermost run's step comes out.
LEMMA AttemptInv ==
  ASSUME StackInv, Works \/ Fails \/ Errs \/ SetupErrs \/ Choose \/ WaitEnds
  PROVE  IInv'
<1>1. \A kinds : AtStep(kinds) => Prefix(stack) /\ Outermost(stack).pc # "begin"
  BY PrefixAll DEF AtStep, StackInv, Top, Outermost
<1>2. {"good", "bad", "err", "setup"} \subseteq Outcomes
  BY DEF Outcomes
<1>3. CASE Works      BY <1>1, <1>2, <1>3, OutcomeInv DEF Works, Outcome
<1>4. CASE Fails      BY <1>1, <1>2, <1>4, OutcomeInv DEF Fails, Outcome
<1>5. CASE Errs       BY <1>1, <1>5, OutcomeInv DEF Errs, Outcome
<1>6. CASE SetupErrs  BY <1>1, <1>2, <1>6, OutcomeInv DEF SetupErrs, Outcome
<1>7. CASE Choose
  <2>1. Prefix(stack) /\ Outermost(stack).pc # "begin"
    BY <1>1, <1>7 DEF Choose
  <2>2. SwitchTargets(Step(stack)) \subseteq Steps
    BY <2>1, TopOfPrefix DEF SwitchTargets, Or, StepDefs
  <2>3. Outcome(stack)
    BY <1>2, <1>7, <2>2 DEF Choose, Outcome
  <2> QED  BY <2>1, <2>3, OutcomeInv
<1>8. CASE WaitEnds   BY <1>1, <1>2, <1>8, OutcomeInv DEF WaitEnds, Outcome
<1> QED  BY <1>3, <1>4, <1>5, <1>6, <1>7, <1>8

LEMMA ReceiveInv == StackInv /\ Receive => IInv'
<1> SUFFICES ASSUME StackInv, Receive PROVE IInv'
  OBVIOUS
<1>1. Prefix(stack) /\ Outermost(stack).pc # "begin"
  BY PrefixAll DEF Receive, StackInv, Waiting, Outermost
<1>2. Outcome(stack)
  BY DEF Receive, Outcome, Outcomes
<1> QED  BY <1>1, <1>2, OutcomeInv

LEMMA TimerInv ==
  ASSUME StackInv, NEW i \in DOMAIN stack, Timer(i)
  PROVE  IInv'
<1> DEFINE b == SubSeq(stack, 1, i)
<1>1. i \in 1 .. Len(stack)
  BY DEF StackInv, TypeOK
<1>2. Prefix(b) /\ Len(b) = i
  BY <1>1, PrefixOf DEF StackInv
<1>3. Outermost(b).pc # "begin"
  BY <1>2, TopOfPrefix DEF Timer
<1>4. Outcome(b)
  BY DEF Timer, Outcome, Outcomes
<1> QED  BY <1>2, <1>3, <1>4, OutcomeInv

\* A step is begun: one step more, and its first attempt.
LEMMA BeginStepInv == IInv /\ BeginStep => IInv'
<1> SUFFICES ASSUME IInv, StackInv, BeginStep PROVE IInv'
  BY DEF IInv
<1> DEFINE f == Top
           n == Tally(f, f.count)
           m == Tally(f, f.made)
           r == [f EXCEPT !.pc = "run", !.tries = 0, !.over = FALSE, !.count = n, !.made = m]
<1>1. Prefix(stack) /\ Outermost(stack) = Top /\ Top.pc = "begin" /\ returned = "none"
  BY PrefixAll DEF BeginStep, StackInv, Top
<1>2. f \in Runs /\ RunOK(f)
  BY <1>1, TopOfPrefix
<1>3. CASE Abort(stack) /\ Saw(stack, "limit")
  <2>1. "limit" \in Outcomes
    BY DEF Outcomes
  <2>2. StackInv'
    BY <1>1, <1>3, <2>1, AbortInv, AbortTyped
  <2>3. Outcome(stack)
    BY <1>3 DEF Outcome
  <2> QED  BY <2>2, <2>3, OutcomeResult DEF IInv
<1>4. CASE /\ ~(Bounded(f) /\ f.count >= Flow[f.flow].maxSteps)
           /\ stack' = [stack EXCEPT ![Len(stack)] = r]
           /\ UNCHANGED <<returned, last>>
  <2>1. f.count \in Nat /\ f.made \in Nat /\ RetryCap + 1 \in Nat
    BY <1>2, WorkflowConstants DEF Runs
  <2>2. n \in Nat /\ m \in Nat /\ (Bounded(f) => n = f.count + 1 /\ m = f.made + 1)
    BY <2>1 DEF Tally
  <2> HIDE DEF n, m, f
  <2>3. /\ r \in Runs /\ r.flow = f.flow /\ r.chain = f.chain /\ r.depth = f.depth
        /\ r.tries = 0 /\ r.count = n /\ r.made = m /\ r.pc = "run"
    BY <1>2, <2>2 DEF Runs
  <2>4. Flow[f.flow] \in FlowDefs
    BY <1>2, WorkflowConstants DEF Runs
  <2>5. RunOK(r)
    <3>1. Flow[f.flow].maxSteps # None =>
            /\ f.count < Flow[f.flow].maxSteps
            /\ f.made <= f.count * (RetryCap + 1)
            /\ n = f.count + 1 /\ m = f.made + 1 /\ Flow[f.flow].maxSteps \in Nat
      BY <1>1, <1>2, <1>4, <2>1, <2>2, <2>4 DEF RunOK, Bounded, FlowDefs, f
    <3>2. f.count * (RetryCap + 1) \in Nat
      BY <2>1
    <3>3. Flow[f.flow].maxSteps # None =>
            /\ n <= Flow[f.flow].maxSteps /\ n >= 1 /\ n - 1 = f.count
            /\ m <= f.count * (RetryCap + 1) + 0 + 1
      BY <2>1, <3>1, <3>2
    <3> QED  BY <1>2, <2>3, <3>3, WorkflowConstants DEF RunOK
  <2>6. HistoryTyped'
    BY <1>4 DEF HistoryTyped, StackInv, TypeOK
  <2>7. ResultMatchesLastStep'
    BY <1>1, <1>4 DEF ResultMatchesLastStep
  <2> HIDE DEF r
  <2> QED  BY <1>1, <1>4, <2>3, <2>5, <2>6, <2>7, ReplaceTop DEF f, IInv
<1> QED  BY <1>3, <1>4 DEF BeginStep

\* A run is put on top of its caller: either it knows nothing of its callers, or
\* it is told of them all and is none of them.
LEMMA PushInv ==
  ASSUME StackInv, stack # <<>>, returned = "none", Top.pc # "begin",
         NEW w \in Workflows, NEW chain \in SUBSET Workflows, NEW depth \in Nat,
         depth # 0 => chain = Top.chain /\ w \notin chain,
         ~TooDeep(w, depth),
         stack' = Append([stack EXCEPT ![Len(stack)].pc = "call"], Run(w, chain, depth)),
         UNCHANGED <<returned, last>>
  PROVE  StackInv'
<1> DEFINE n == Len(stack)
           r == Run(w, chain, depth)
           c == [Top EXCEPT !.pc = "call"]
           s == [stack EXCEPT ![n] = c]
<1>1. n \in Nat /\ n >= 1 /\ n \in 1 .. Len(stack) /\ Top = stack[n] /\ Top \in Runs
  BY DEF StackInv, TypeOK, Top, Outermost
<1>2. r \in Runs
  BY WorkflowConstants DEF Run, Runs, FlowDefs
<1>3. /\ c \in Runs /\ c.flow = Top.flow /\ c.chain = Top.chain /\ c.depth = Top.depth
      /\ c.tries = Top.tries /\ c.count = Top.count /\ c.made = Top.made /\ c.pc = "call"
  BY <1>1 DEF Runs
<1>4. /\ s \in Seq(Runs) /\ Len(s) = n /\ s[n] = c
      /\ \A k \in 1 .. n : k # n => s[k] = stack[k]
  BY <1>1, <1>3, ExceptSeq DEF StackInv, TypeOK
<1>5. stack' = Append(s, r)
  BY DEF Top, Outermost
<1> HIDE DEF s, c
<1> HIDE DEF r, n
<1>6. /\ stack' \in Seq(Runs) /\ Len(stack') = n + 1 /\ stack'[n + 1] = r
      /\ \A k \in 1 .. n : stack'[k] = s[k]
  <2>1. /\ Append(s, r) \in Seq(Runs) /\ Len(Append(s, r)) = Len(s) + 1
        /\ \A k \in 1 .. Len(s) : Append(s, r)[k] = s[k]
        /\ Append(s, r)[Len(s) + 1] = r
    BY <1>2, <1>4, AppendProperties
  <2> QED  BY <1>4, <1>5, <2>1
<1>7. \A k \in 1 .. n : /\ stack'[k].flow = stack[k].flow
                        /\ stack'[k].chain = stack[k].chain
                        /\ stack'[k].depth = stack[k].depth
  BY <1>1, <1>3, <1>4, <1>6
<1>8. /\ r.flow = w /\ r.chain = chain \cup {w} /\ r.depth = depth
      /\ r.tries = 0 /\ r.count = 0 /\ r.made = 0 /\ r.pc = "begin"
  BY DEF Run, r
<1>9. TypeOK'
  BY <1>6 DEF StackInv, TypeOK
<1>10. RunsOK'
  <2>1. RunOK(r)
    <3>1. Flow[w].maxSteps # None => Flow[w].maxSteps \in Nat
      BY WorkflowConstants DEF FlowDefs
    <3>2. Flow[w].maxDepth # None => Flow[w].maxDepth \in Nat
      BY WorkflowConstants DEF FlowDefs
    <3>3. 0 * (RetryCap + 1) = 0
      BY WorkflowConstants
    <3> QED  BY <1>8, <3>1, <3>2, <3>3, WorkflowConstants DEF RunOK, TooDeep
  <2>2. RunOK(c)
    BY <1>1, <1>3 DEF RunOK, StackInv, RunsOK, n
  <2>3. \A k \in 1 .. n : k # n => RunOK(stack'[k])
    BY <1>1, <1>4, <1>6 DEF StackInv, RunsOK, n
  <2>4. \A k \in 1 .. n + 1 : RunOK(stack'[k])
    <3> SUFFICES ASSUME NEW k \in 1 .. n + 1 PROVE RunOK(stack'[k])
      OBVIOUS
    <3>1. CASE k = n + 1  BY <1>6, <2>1, <3>1
    <3>2. CASE k = n      BY <1>1, <1>4, <1>6, <2>2, <3>2, SMTT(30)
    <3>3. CASE k < n      BY <1>1, <2>3, <3>3
    <3> QED  BY <1>1, <3>1, <3>2, <3>3
  <2> QED  BY <1>6, <2>4 DEF RunsOK, RunOK
<1>11. Nested'
  <2> SUFFICES ASSUME NEW i \in 1 .. n + 1, NEW j \in 1 .. n + 1, i <= j, Linked(i, j)'
               PROVE  /\ stack'[i].flow \in stack'[j].chain
                      /\ i < j => stack'[i].flow # stack'[j].flow
    BY <1>6 DEF Nested
  <2>1. CASE j <= n
    <3>1. i \in 1 .. n /\ j \in 1 .. n
      BY <1>1, <2>1
    <3>2. Linked(i, j)
      BY <1>1, <1>7, <3>1 DEF Linked, Fresh
    <3> QED  BY <1>7, <3>1, <3>2 DEF StackInv, Nested, n
  <2>2. CASE j = n + 1 /\ i = n + 1
    BY <1>1, <1>6, <1>8, <2>2
  <2>3. CASE j = n + 1 /\ i <= n
    <3>1. i \in 1 .. n /\ n \in 1 .. n /\ i <= n
      BY <1>1, <2>3
    <3>2. depth # 0
      <4>1. \A k \in i + 1 .. j : stack'[k].depth # 0
        BY DEF Linked, Fresh
      <4> QED  BY <1>1, <1>6, <1>8, <2>3, <4>1
    <3>3. Linked(i, n)
      BY <1>1, <1>7, <2>3, <3>1 DEF Linked, Fresh
    <3>4. stack[i].flow \in stack[n].chain
      BY <3>1, <3>3 DEF StackInv, Nested, n
    <3> QED  BY <1>1, <1>6, <1>7, <1>8, <2>3, <3>1, <3>2, <3>4
  <2> QED  BY <1>1, <2>1, <2>2, <2>3
<1>12. Waiting'
  <2> SUFFICES ASSUME NEW i \in 1 .. n + 1, i < n + 1 PROVE stack'[i].pc = "call"
    BY <1>6 DEF Waiting
  <2>1. CASE i = n   BY <1>1, <1>3, <1>4, <1>6, <2>1
  <2>2. CASE i < n
    BY <1>1, <1>4, <1>6, <2>2 DEF StackInv, Waiting, n
  <2> QED  BY <1>1, <2>1, <2>2
<1> QED  BY <1>9, <1>10, <1>11, <1>12 DEF StackInv

LEMMA CallInv == IInv /\ (CallNested \/ CallTool) => IInv'
<1> SUFFICES ASSUME IInv, StackInv, CallNested \/ CallTool PROVE IInv'
  BY DEF IInv
<1>1. Prefix(stack) /\ stack # <<>> /\ returned = "none" /\ Top.pc = "run"
  BY PrefixAll DEF CallNested, CallTool, AtStep, StackInv
<1>2. Outermost(stack) = Top /\ Top \in Runs /\ Step(stack).callee \in Workflows \cup {None}
  BY <1>1, TopOfPrefix DEF Top, StepDefs
<1>3. CASE CallNested
  <2> DEFINE w == Step(stack).callee
  <2>1. CASE Failed(stack, "err")
    BY <1>1, <1>2, <2>1, OutcomeInv DEF Outcome
  <2>2. CASE /\ w # None /\ w \notin Top.chain /\ ~TooDeep(w, Top.depth + 1)
             /\ stack' = Append([stack EXCEPT ![Len(stack)].pc = "call"],
                                Run(w, Top.chain, Top.depth + 1))
             /\ UNCHANGED <<returned, last>>
    <3>1. w \in Workflows /\ Top.chain \in SUBSET Workflows
          /\ Top.depth + 1 \in Nat /\ Top.depth + 1 # 0
      BY <1>2, <2>2 DEF Runs
    <3> HIDE DEF w
    <3>2. ResultMatchesLastStep'
      BY <2>2 DEF IInv, ResultMatchesLastStep
    <3> QED  BY <1>1, <2>2, <3>1, <3>2, PushInv DEF IInv
  <2> QED  BY <1>3, <2>1, <2>2 DEF CallNested
<1>4. CASE CallTool
  <2> DEFINE w == Step(stack).callee
  <2>1. w \in Workflows
    BY <1>2, <1>4 DEF CallTool
  <2>2. /\ stack' = Append([stack EXCEPT ![Len(stack)].pc = "call"], Run(w, {}, 0))
        /\ UNCHANGED <<returned, last>>
    BY <1>4 DEF CallTool
  <2> HIDE DEF w
  <2>3. ~TooDeep(w, 0)
    <3>1. Flow[w].maxDepth \in Nat \cup {None}
      BY <2>1, WorkflowConstants DEF FlowDefs
    <3> QED  BY <3>1 DEF TooDeep
  <2>4. {} \in SUBSET Workflows /\ 0 \in Nat
    OBVIOUS
  <2>5. ResultMatchesLastStep'
    BY <2>2 DEF IInv, ResultMatchesLastStep
  <2> QED  BY <1>1, <2>1, <2>2, <2>3, <2>4, <2>5, PushInv DEF IInv
<1> QED  BY <1>3, <1>4

\* A first run has no caller.
LEMMA StartInv ==
  ASSUME StackInv, NEW w \in Workflows, Start(w)
  PROVE  StackInv'
<1> DEFINE r == Run(w, {}, 0)
<1>1. Flow[w] \in FlowDefs
  BY WorkflowConstants
<1>2. r \in Runs /\ RunOK(r) /\ r.flow \in r.chain
  <2>1. 0 * (RetryCap + 1) = 0
    BY WorkflowConstants
  <2> QED  BY <1>1, <2>1, WorkflowConstants DEF Run, Runs, RunOK, FlowDefs
<1>3. stack' = <<r>> /\ returned' = "none" /\ last' = last
  BY DEF Start
<1> HIDE DEF r
<1>4. stack' \in Seq(Runs) /\ Len(stack') = 1 /\ stack'[1] = r
  BY <1>2, <1>3
<1>5. TypeOK'
  BY <1>3, <1>4 DEF StackInv, TypeOK
<1>6. \A i \in 1 .. Len(stack') : i = 1
  BY <1>4
<1>7. RunsOK'
  BY <1>2, <1>4, <1>6 DEF RunsOK, RunOK
<1>8. Nested' /\ Waiting'
  BY <1>2, <1>3, <1>4, <1>6 DEF Nested, Waiting
<1> QED  BY <1>5, <1>7, <1>8 DEF StackInv

\* A timeout that elapses is noted in a run and changes nothing else.
LEMMA MarkInv ==
  ASSUME StackInv, NEW i \in 1 .. Len(stack), NEW r \in Runs,
         stack' = [stack EXCEPT ![i] = r], UNCHANGED <<returned, last>>,
         r.flow = stack[i].flow, r.chain = stack[i].chain, r.depth = stack[i].depth,
         r.tries = stack[i].tries, r.count = stack[i].count, r.made = stack[i].made,
         r.pc = stack[i].pc
  PROVE  StackInv'
<1>1. /\ stack' \in Seq(Runs) /\ Len(stack') = Len(stack) /\ stack'[i] = r
      /\ \A k \in 1 .. Len(stack) : k # i => stack'[k] = stack[k]
  BY ExceptSeq DEF StackInv, TypeOK
<1>2. \A k \in 1 .. Len(stack) :
        /\ stack'[k].flow = stack[k].flow /\ stack'[k].chain = stack[k].chain
        /\ stack'[k].depth = stack[k].depth /\ stack'[k].pc = stack[k].pc
        /\ stack'[k].tries = stack[k].tries /\ stack'[k].count = stack[k].count
        /\ stack'[k].made = stack[k].made
  BY <1>1
<1>3. TypeOK'
  BY <1>1 DEF StackInv, TypeOK
<1>4. RunsOK'
  <2> SUFFICES ASSUME NEW k \in 1 .. Len(stack) PROVE RunOK(stack'[k])
    BY <1>1 DEF RunsOK, RunOK
  <2>1. RunOK(stack[k])
    BY DEF StackInv, RunsOK
  <2> QED  BY <1>2, <2>1 DEF RunOK
<1>5. Nested'
  <2> SUFFICES ASSUME NEW h \in 1 .. Len(stack), NEW j \in 1 .. Len(stack),
                      h <= j, Linked(h, j)'
               PROVE  /\ stack'[h].flow \in stack'[j].chain
                      /\ h < j => stack'[h].flow # stack'[j].flow
    BY <1>1 DEF Nested
  <2>1. Linked(h, j)
    BY <1>2 DEF Linked, Fresh
  <2> QED  BY <1>2, <2>1 DEF StackInv, Nested
<1>6. Waiting'
  <2>1. \A k \in 1 .. Len(stack) : k < Len(stack) => stack'[k].pc = "call"
    BY <1>2 DEF StackInv, Waiting
  <2>2. stack # <<>> /\ Len(stack) \in 1 .. Len(stack)
    BY EmptySeq DEF StackInv, TypeOK
  <2>3. returned # "none" => stack'[Len(stack)].pc = "call"
    BY <1>2, <2>2 DEF StackInv, Waiting
  <2> QED  BY <1>1, <2>1, <2>3 DEF Waiting
<1> QED  BY <1>3, <1>4, <1>5, <1>6 DEF StackInv

LEMMA ElapseInv ==
  ASSUME StackInv, NEW i \in DOMAIN stack, Elapse(i) \/ StepElapse(i)
  PROVE  StackInv'
<1>1. i \in 1 .. Len(stack) /\ stack[i] \in Runs
  BY DEF StackInv, TypeOK
<1>2. CASE Elapse(i)
  <2> DEFINE r == [stack[i] EXCEPT !.late = TRUE]
  <2>1. stack' = [stack EXCEPT ![i] = r] /\ UNCHANGED <<returned, last>>
    BY <1>2 DEF Elapse
  <2>2. r \in Runs /\ r.flow = stack[i].flow /\ r.chain = stack[i].chain
        /\ r.depth = stack[i].depth /\ r.tries = stack[i].tries
        /\ r.count = stack[i].count /\ r.made = stack[i].made /\ r.pc = stack[i].pc
    BY <1>1 DEF Runs
  <2> HIDE DEF r
  <2> QED  BY <1>1, <2>1, <2>2, MarkInv
<1>3. CASE StepElapse(i)
  <2> DEFINE r == [stack[i] EXCEPT !.over = TRUE]
  <2>1. stack' = [stack EXCEPT ![i] = r] /\ UNCHANGED <<returned, last>>
    BY <1>3 DEF StepElapse
  <2>2. r \in Runs /\ r.flow = stack[i].flow /\ r.chain = stack[i].chain
        /\ r.depth = stack[i].depth /\ r.tries = stack[i].tries
        /\ r.count = stack[i].count /\ r.made = stack[i].made /\ r.pc = stack[i].pc
    BY <1>1 DEF Runs
  <2> HIDE DEF r
  <2> QED  BY <1>1, <2>1, <2>2, MarkInv
<1> QED  BY <1>2, <1>3

-----------------------------------------------------------------------------
(* The inductive invariant, and the theorems. *)

LEMMA InitInv == Init => IInv
<1> SUFFICES ASSUME Init PROVE IInv
  OBVIOUS
<1>1. stack = <<>> /\ returned = "none" /\ last = [step |-> None, outcome |-> "none"]
  BY DEF Init
<1>2. TypeOK
  BY <1>1 DEF TypeOK, Outcomes
<1>3. RunsOK /\ Nested /\ Waiting /\ ResultMatchesLastStep
  BY <1>1 DEF RunsOK, Nested, Waiting, ResultMatchesLastStep
<1> QED  BY <1>2, <1>3 DEF IInv, StackInv

LEMMA NextInv == IInv /\ [Next]_vars => IInv'
<1> SUFFICES ASSUME IInv, StackInv, [Next]_vars PROVE IInv'
  BY DEF IInv
<1>1. CASE UNCHANGED vars
  BY <1>1 DEF vars, IInv, StackInv, TypeOK, RunsOK, RunOK, Nested, Linked, Fresh, Waiting,
     ResultMatchesLastStep
<1>2. CASE Works \/ Fails \/ Errs \/ SetupErrs \/ Choose \/ WaitEnds
  BY <1>2, AttemptInv
<1>3. CASE BeginStep               BY <1>3, BeginStepInv
<1>4. CASE CallNested \/ CallTool  BY <1>4, CallInv
<1>5. CASE Receive                 BY <1>5, ReceiveInv
<1>6. ASSUME NEW w \in Workflows, Start(w) PROVE IInv'
  BY <1>6, StartInv DEF Start, IInv, ResultMatchesLastStep
<1>7. ASSUME NEW i \in DOMAIN stack, Timer(i) PROVE IInv'
  BY <1>7, TimerInv
<1>8. ASSUME NEW i \in DOMAIN stack, Elapse(i) \/ StepElapse(i) PROVE IInv'
  BY <1>8, ElapseInv DEF Elapse, StepElapse, IInv, ResultMatchesLastStep
<1> QED  BY <1>1, <1>2, <1>3, <1>4, <1>5, <1>6, <1>7, <1>8 DEF Next, RunStep

LEMMA Invariance == Spec => []IInv
BY InitInv, NextInv, PTL DEF Spec

\* Every reachable state of the executor is well typed: each run is at a step of
\* the registry, and a target that is missing ends the run.
THEOREM WorkflowTypeInvariant == Spec => []TypeOK
<1>1. IInv => TypeOK
  BY DEF IInv, StackInv
<1> QED  BY <1>1, Invariance, PTL

\* However workflow steps nest, retry and time out, no workflow runs inside itself
\* unless the workflow tool started it again, and none deeper than its limit.
THEOREM RecursionBoundedTheorem == Spec => []RecursionBounded
<1>1. IInv => RecursionBounded
  <2> SUFFICES ASSUME IInv PROVE RecursionBounded
    OBVIOUS
  <2>1. DOMAIN stack = 1 .. Len(stack)
    BY DEF IInv, StackInv, TypeOK
  <2>2. \A i, j \in 1 .. Len(stack) :
          i < j /\ (\A k \in i + 1 .. j : ~Fresh(k)) => stack[i].flow # stack[j].flow
    BY DEF IInv, StackInv, Nested, Linked
  <2>3. \A i \in 1 .. Len(stack) :
          Flow[stack[i].flow].maxDepth # None => stack[i].depth <= Flow[stack[i].flow].maxDepth
    BY DEF IInv, StackInv, RunsOK, RunOK
  <2> QED  BY <2>1, <2>2, <2>3 DEF RecursionBounded
<1> QED  BY <1>1, Invariance, PTL

\* max_steps_per_run bounds the attempts of a run, for every retry_count.
THEOREM AttemptsBoundedTheorem == Spec => []AttemptsBounded
<1>1. IInv => AttemptsBounded
  <2> SUFFICES ASSUME IInv, NEW i \in DOMAIN stack, Flow[stack[i].flow].maxSteps # None
               PROVE  stack[i].made <= Flow[stack[i].flow].maxSteps * (RetryCap + 1)
    BY DEF AttemptsBounded
  <2> DEFINE f == stack[i]
             limit == Flow[f.flow].maxSteps
             M == RetryCap + 1
  <2>1. f \in Runs /\ RunOK(f)
    BY DEF IInv, StackInv, TypeOK, RunsOK
  <2>2. f.count \in Nat /\ f.made \in Nat /\ f.tries \in Nat /\ M \in Nat /\ limit \in Nat
    BY <2>1, WorkflowConstants DEF Runs, FlowDefs
  <2>3. f.count <= limit /\ f.tries <= RetryCap
    BY <2>1 DEF RunOK
  <2>4. f.made <= f.count * M
    <3>1. CASE f.pc = "begin"
      BY <2>1, <3>1 DEF RunOK
    <3>2. CASE f.pc # "begin"
      <4> DEFINE c == f.count - 1
      <4>1. f.count >= 1 /\ f.made <= c * M + f.tries + 1
        BY <2>1, <3>2 DEF RunOK
      <4>2. c \in Nat /\ c + 1 = f.count /\ c * M \in Nat
        BY <2>2, <4>1
      <4>3. (c + 1) * M = c * M + M
        BY <2>2, <4>2, OneMore
      <4> HIDE DEF c
      <4>4. f.made <= c * M + M
        BY <2>2, <2>3, <4>1, <4>2, WorkflowConstants
      <4> QED  BY <4>2, <4>3, <4>4
    <3> QED  BY <3>1, <3>2
  <2>5. f.count * M <= limit * M /\ f.count * M \in Nat /\ limit * M \in Nat
    BY <2>2, <2>3, TimesMonotonic
  <2> HIDE DEF f, limit, M
  <2>6. f.made <= limit * M
    BY <2>2, <2>4, <2>5
  <2> QED  BY <2>6 DEF f, limit, M
<1> QED  BY <1>1, Invariance, PTL

\* A run that ends returns what became of the step it ended with.
THEOREM ResultMatchesLastStepTheorem == Spec => []ResultMatchesLastStep
<1>1. IInv => ResultMatchesLastStep
  BY DEF IInv
<1> QED  BY <1>1, Invariance, PTL

-----------------------------------------------------------------------------
(* The runs implement the calls of WorkflowCalls.  That needs more than the   *)
(* invariants: what is above a run with a timer was started by a tool, and a  *)
(* run's depth counts the callers that led to it by workflow steps alone.     *)

Numbered ==
    \A i, j \in 1 .. Len(stack) : i <= j /\ Linked(i, j) => j - i <= stack[j].depth
ToolsAfresh ==
    \A i \in 1 .. Len(stack) :
        i < Len(stack) /\ Def[stack[i].step].kind = "tool" => Fresh(i + 1)
CallsInv == Numbered /\ ToolsAfresh

\* The runs up to the n-th stay, and no other; only the last of them is at another step.
CutTo(n) ==
    /\ stack' \in Seq(Runs) /\ Len(stack') = n
    /\ \A k \in 1 .. n : stack'[k].flow = stack[k].flow /\ stack'[k].depth = stack[k].depth
    /\ \A k \in 1 .. n - 1 : stack'[k].step = stack[k].step

LEMMA ReturnCuts ==
  ASSUME StackInv, NEW b, Prefix(b), NEW result, Return(b, result)
  PROVE  CutTo(Len(b) - 1)
<1> DEFINE n == Len(b) - 1
<1>1. n \in 0 .. Len(stack) /\ n + 1 = Len(b)
  BY TopOfPrefix DEF StackInv, TypeOK
<1>2. \A k \in 1 .. n : b[k] = stack[k] /\ b[k] \in Runs
  BY <1>1 DEF Prefix
<1>3. /\ SubSeq(b, 1, n) \in Seq(Runs) /\ Len(SubSeq(b, 1, n)) = n
      /\ \A k \in 1 .. n : SubSeq(b, 1, n)[k] = stack[k]
  <2>1. 1 \in Int /\ n \in Int
    BY <1>1
  <2> HIDE DEF n
  <2>2. /\ SubSeq(b, 1, n) \in Seq(Runs)
        /\ Len(SubSeq(b, 1, n)) = IF 1 <= n THEN n - 1 + 1 ELSE 0
        /\ \A k \in 1 .. n - 1 + 1 : SubSeq(b, 1, n)[k] = b[1 + k - 1]
    BY <2>1, <1>2, SubSeqProperties
  <2> QED  BY <2>2, <1>1, <1>2
<1>4. stack' = SubSeq(b, 1, n)
  BY DEF Return, Below
<1> HIDE DEF n
<1>5. \A k \in 1 .. n - 1 : k \in 1 .. n
  BY <1>1
<1> QED  BY <1>3, <1>4, <1>5 DEF CutTo, n

LEMMA ReplaceCuts ==
  ASSUME StackInv, NEW b, Prefix(b), NEW r \in Runs,
         stack' = [b EXCEPT ![Len(b)] = r],
         r.flow = Outermost(b).flow, r.depth = Outermost(b).depth
  PROVE  CutTo(Len(b))
<1> DEFINE n == Len(b)
<1>1. n \in 1 .. Len(stack) /\ Outermost(b) = stack[n] /\ n \in Nat
  BY TopOfPrefix DEF StackInv, TypeOK
<1>2. b \in Seq(Runs) /\ n \in 1 .. Len(b)
  BY <1>1 DEF Prefix
<1>3. /\ stack' \in Seq(Runs) /\ Len(stack') = n /\ stack'[n] = r
      /\ \A k \in 1 .. n - 1 : stack'[k] = b[k]
  BY <1>2, ExceptSeq
<1>4. \A k \in 1 .. n - 1 : b[k] = stack[k]
  BY <1>2 DEF Prefix
<1> HIDE DEF n
<1>5. \A k \in 1 .. n : k = n \/ k \in 1 .. n - 1
  BY <1>1
<1> QED  BY <1>1, <1>3, <1>4, <1>5 DEF CutTo, n

\* A run that an attempt comes out in ends, or it goes on; what is above it is gone.
EndsOrGoesOn(b) ==
    \/ CutTo(Len(b) - 1) /\ returned' # "none"
    \/ CutTo(Len(b)) /\ returned' = "none"

LEMMA JumpGoesOn ==
  ASSUME StackInv, NEW b, Prefix(b), NEW target \in Steps, Jump(b, target)
  PROVE  EndsOrGoesOn(b)
<1> DEFINE f == Outermost(b)
           r == [f EXCEPT !.step = target, !.pc = "begin"]
<1>1. f \in Runs
  BY TopOfPrefix
<1>2. r \in Runs /\ r.flow = f.flow /\ r.depth = f.depth
  BY <1>1 DEF Runs
<1>3. stack' = [b EXCEPT ![Len(b)] = r] /\ returned' = "none"
  BY DEF Jump, Outermost
<1> HIDE DEF r
<1> QED  BY <1>2, <1>3, ReplaceCuts DEF EndsOrGoesOn

LEMMA SettleEndsOrGoesOn ==
  ASSUME StackInv, NEW b, Prefix(b), NEW good \in BOOLEAN, Settle(b, good)
  PROVE  EndsOrGoesOn(b)
<1>1. Target(Step(b), good) \in Steps \cup {None}
  BY TopOfPrefix, TargetType
<1>2. ASSUME NEW result \in {"success", "failure"}, Return(b, result) PROVE EndsOrGoesOn(b)
  BY <1>2, ReturnCuts DEF EndsOrGoesOn, Return
<1>3. ASSUME NEW target \in Steps, Jump(b, target) PROVE EndsOrGoesOn(b)
  BY <1>3, JumpGoesOn
<1> QED  BY <1>1, <1>2, <1>3 DEF Settle, GoOn

LEMMA AbortEnds ==
  ASSUME StackInv, NEW b, Prefix(b), Abort(b)
  PROVE  EndsOrGoesOn(b)
BY ReturnCuts DEF Abort, Return, EndsOrGoesOn

LEMMA TryAgainGoesOn ==
  ASSUME StackInv, NEW b, Prefix(b), NEW outcome, TryAgain(b, outcome)
  PROVE  EndsOrGoesOn(b)
<1> DEFINE f == Outermost(b)
           r == [f EXCEPT !.tries = f.tries + 1, !.pc = "run", !.made = Tally(f, f.made)]
<1>1. f \in Runs
  BY TopOfPrefix
<1>2. f.tries + 1 \in Nat /\ Tally(f, f.made) \in Nat
  BY <1>1 DEF Runs, Tally
<1>3. r \in Runs
  <2> HIDE DEF f
  <2> QED  BY <1>1, <1>2, Retried
<1>4. r.flow = f.flow /\ r.depth = f.depth
  BY <1>1 DEF Runs
<1>5. stack' = [b EXCEPT ![Len(b)] = r] /\ returned' = "none"
  BY DEF TryAgain, Outermost
<1> HIDE DEF r
<1> QED  BY <1>3, <1>4, <1>5, ReplaceCuts DEF EndsOrGoesOn

LEMMA OutcomeCuts ==
  ASSUME StackInv, NEW b, Prefix(b), Outcome(b)
  PROVE  EndsOrGoesOn(b)
<1>1. ASSUME NEW good \in BOOLEAN, Settle(b, good) PROVE EndsOrGoesOn(b)
  BY <1>1, SettleEndsOrGoesOn
<1>2. CASE Abort(b)
  BY <1>2, AbortEnds
<1>3. CASE OutOfTime(b)
  BY <1>1, <1>2, <1>3 DEF OutOfTime
<1>4. ASSUME NEW o, Failed(b, o) PROVE EndsOrGoesOn(b)
  BY <1>1, <1>2, <1>3, <1>4, TryAgainGoesOn DEF Failed, GiveUp
<1>5. ASSUME NEW t \in Steps, Jump(b, t) PROVE EndsOrGoesOn(b)
  BY <1>5, JumpGoesOn
<1> QED  BY <1>1, <1>2, <1>3, <1>4, <1>5 DEF Outcome

\* What the invariants say of the runs that stay, they still say.
LEMMA CutKeepsCalls ==
  ASSUME StackInv, CallsInv, NEW n \in 0 .. Len(stack), CutTo(n)
  PROVE  CallsInv'
<1>1. Len(stack) \in Nat /\ n \in Nat
  BY DEF StackInv, TypeOK
<1>2. \A k \in 1 .. n : k \in 1 .. Len(stack) /\ (Fresh(k)' <=> Fresh(k))
  BY <1>1 DEF CutTo, Fresh
<1>3. Numbered'
  <2> SUFFICES ASSUME NEW i \in 1 .. n, NEW j \in 1 .. n, i <= j, Linked(i, j)'
               PROVE  j - i <= stack'[j].depth
    BY DEF Numbered, CutTo
  <2>1. Linked(i, j)
    <3>1. \A k \in i + 1 .. j : k \in 1 .. n
      BY <1>1
    <3> QED  BY <1>2, <3>1 DEF Linked
  <2> QED  BY <1>2, <2>1 DEF CallsInv, Numbered, CutTo
<1>4. ToolsAfresh'
  <2> SUFFICES ASSUME NEW i \in 1 .. n, i < n, Def[stack'[i].step].kind = "tool"
               PROVE  Fresh(i + 1)'
    BY DEF ToolsAfresh, CutTo
  <2>1. i \in 1 .. n - 1 /\ i + 1 \in 1 .. n /\ i < Len(stack)
    BY <1>1
  <2> QED  BY <1>2, <2>1 DEF CallsInv, ToolsAfresh, CutTo
<1> QED  BY <1>3, <1>4 DEF CallsInv

\* The calls under way are those of the runs that stay.
CallRecords == [flow : Workflows, nested : BOOLEAN]
LEMMA UnderWayTyped ==
  StackInv => /\ UnderWay \in Seq(CallRecords) /\ Len(UnderWay) = Len(stack)
              /\ Len(stack) \in Nat
              /\ \A i \in 1 .. Len(stack) : /\ UnderWay[i].flow = stack[i].flow
                                            /\ UnderWay[i].nested = ~Fresh(i)
<1> SUFFICES ASSUME StackInv
             PROVE  /\ UnderWay \in Seq(CallRecords) /\ Len(UnderWay) = Len(stack)
                    /\ \A i \in 1 .. Len(stack) : /\ UnderWay[i].flow = stack[i].flow
                                                  /\ UnderWay[i].nested = ~Fresh(i)
  BY DEF StackInv, TypeOK
<1> DEFINE Record(i) == [flow |-> stack[i].flow, nested |-> ~Fresh(i)]
<1>1. PICK n \in Nat : n = Len(stack)
  BY DEF StackInv, TypeOK
<1>2. \A i \in 1 .. n : Record(i) \in CallRecords
  <2>1. \A i \in 1 .. n : stack[i] \in Runs
    BY <1>1 DEF StackInv, TypeOK
  <2>2. \A i \in 1 .. n : stack[i].flow \in Workflows /\ (~Fresh(i)) \in BOOLEAN
    BY <2>1 DEF Runs, Fresh
  <2> QED  BY <2>2 DEF CallRecords
<1>3. UnderWay = [i \in 1 .. n |-> Record(i)]
  BY <1>1 DEF UnderWay
<1>4. \A i \in 1 .. n : UnderWay[i].flow = stack[i].flow /\ UnderWay[i].nested = ~Fresh(i)
  BY <1>3
<1> HIDE DEF Record
<1>5. UnderWay \in Seq(CallRecords) /\ Len(UnderWay) = n
  <2> PICK u : u = [i \in 1 .. n |-> Record(i)]
    OBVIOUS
  <2>1. u = UnderWay /\ \A i \in 1 .. n : u[i] \in CallRecords
    BY <1>2, <1>3
  <2>2. u \in [1 .. n -> CallRecords]
    BY <2>1
  <2>3. u \in Seq(CallRecords)
    BY <2>2
  <2>4. Len(u) = n
    BY <2>2
  <2> QED  BY <2>1, <2>3, <2>4
<1> QED  BY <1>1, <1>4, <1>5

LEMMA CutUnderWay ==
  ASSUME StackInv, NEW n \in 0 .. Len(stack), CutTo(n)
  PROVE  UnderWay' = SubSeq(UnderWay, 1, n)
<1>1. /\ UnderWay \in Seq(CallRecords) /\ Len(UnderWay) = Len(stack) /\ Len(stack) \in Nat
      /\ n \in Nat /\ 1 \in Int /\ n \in Int
  BY UnderWayTyped
<1>2. \A i \in 1 .. n : UnderWay[i] \in CallRecords
  BY <1>1
<1>3. /\ SubSeq(UnderWay, 1, n) \in Seq(CallRecords)
      /\ Len(SubSeq(UnderWay, 1, n)) = IF 1 <= n THEN n - 1 + 1 ELSE 0
      /\ \A k \in 1 .. n - 1 + 1 : SubSeq(UnderWay, 1, n)[k] = UnderWay[1 + k - 1]
  BY <1>1, <1>2, SubSeqProperties
<1>4. SubSeq(UnderWay, 1, n) = [k \in 1 .. n |-> UnderWay[k]]
  BY <1>1, <1>3
<1>5. UnderWay' = [k \in 1 .. n |-> UnderWay'[k]]
  BY DEF UnderWay, CutTo
<1>6. \A k \in 1 .. n : UnderWay'[k] = UnderWay[k]
  BY DEF UnderWay, CutTo, Fresh
<1> QED  BY <1>4, <1>5, <1>6

LEMMA SameUnderWay ==
  ASSUME StackInv, CutTo(Len(stack))
  PROVE  UnderWay' = UnderWay
<1>1. Len(stack) \in 0 .. Len(stack) /\ Len(UnderWay) = Len(stack) /\ UnderWay \in Seq(CallRecords)
  BY UnderWayTyped
<1>2. UnderWay' = SubSeq(UnderWay, 1, Len(stack))
  BY <1>1, CutUnderWay
<1>3. SubSeq(UnderWay, 1, Len(UnderWay)) = UnderWay
  BY ONLY <1>1, SubSeqFull
<1> QED  BY <1>1, <1>2, <1>3

\* A run is put on top of its caller.
Pushed(w, depth) ==
    /\ stack' \in Seq(Runs) /\ Len(stack') = Len(stack) + 1
    /\ \A k \in 1 .. Len(stack) : /\ stack'[k].flow = stack[k].flow
                                  /\ stack'[k].depth = stack[k].depth
                                  /\ stack'[k].step = stack[k].step
    /\ stack'[Len(stack) + 1].flow = w /\ stack'[Len(stack) + 1].depth = depth

LEMMA CallPushes ==
  ASSUME StackInv, stack # <<>>,
         NEW w \in Workflows, NEW chain \in SUBSET Workflows, NEW depth \in Nat,
         stack' = Append([stack EXCEPT ![Len(stack)].pc = "call"], Run(w, chain, depth))
  PROVE  Pushed(w, depth)
<1> DEFINE n == Len(stack)
           r == Run(w, chain, depth)
           c == [Top EXCEPT !.pc = "call"]
           s == [stack EXCEPT ![n] = c]
<1>1. n \in Nat /\ n >= 1 /\ n \in 1 .. Len(stack) /\ Top = stack[n] /\ Top \in Runs
  BY DEF StackInv, TypeOK, Top, Outermost
<1>2. r \in Runs
  BY WorkflowConstants DEF Run, Runs, FlowDefs
<1>3. c \in Runs /\ c.flow = Top.flow /\ c.depth = Top.depth /\ c.step = Top.step
  BY <1>1 DEF Runs
<1>4. /\ s \in Seq(Runs) /\ Len(s) = n /\ s[n] = c
      /\ \A k \in 1 .. n : k # n => s[k] = stack[k]
  BY <1>1, <1>3, ExceptSeq DEF StackInv, TypeOK
<1>5. stack' = Append(s, r)
  BY DEF Top, Outermost
<1>6. r.flow = w /\ r.depth = depth
  BY DEF Run
<1> HIDE DEF s, c, r, n
<1>7. /\ stack' \in Seq(Runs) /\ Len(stack') = n + 1 /\ stack'[n + 1] = r
      /\ \A k \in 1 .. n : stack'[k] = s[k]
  <2>1. /\ Append(s, r) \in Seq(Runs) /\ Len(Append(s, r)) = Len(s) + 1
        /\ \A k \in 1 .. Len(s) : Append(s, r)[k] = s[k]
        /\ Append(s, r)[Len(s) + 1] = r
    BY <1>2, <1>4, AppendProperties
  <2> QED  BY <1>4, <1>5, <2>1
<1>8. \A k \in 1 .. n : /\ stack'[k].flow = stack[k].flow
                        /\ stack'[k].depth = stack[k].depth
                        /\ stack'[k].step = stack[k].step
  BY <1>1, <1>3, <1>4, <1>7
<1> QED  BY <1>6, <1>7, <1>8 DEF Pushed, n

LEMMA PushKeepsCalls ==
  ASSUME StackInv, CallsInv, stack # <<>>, NEW w, NEW depth \in Nat, Pushed(w, depth),
         depth # 0 => depth = Top.depth + 1, Def[Top.step].kind = "tool" => depth = 0
  PROVE  CallsInv'
<1> DEFINE n == Len(stack)
<1>1. n \in Nat /\ n >= 1 /\ n \in 1 .. Len(stack) /\ Top = stack[n] /\ Top.depth \in Nat
  <2>1. n \in Nat /\ n >= 1 /\ n \in 1 .. Len(stack) /\ Top = stack[n]
    BY DEF StackInv, TypeOK, Top, Outermost
  <2>2. Top \in Runs
    BY <2>1 DEF StackInv, TypeOK
  <2> QED  BY <2>1, <2>2 DEF Runs
<1>2. \A k \in 1 .. n : Fresh(k)' <=> Fresh(k)
  BY DEF Pushed, Fresh
<1>3. Numbered'
  <2> SUFFICES ASSUME NEW i \in 1 .. n + 1, NEW j \in 1 .. n + 1, i <= j, Linked(i, j)'
               PROVE  j - i <= stack'[j].depth
    BY DEF Numbered, Pushed
  <2>1. CASE j <= n
    <3>1. i \in 1 .. n /\ j \in 1 .. n /\ \A k \in i + 1 .. j : k \in 1 .. n
      BY <1>1, <2>1
    <3>2. Linked(i, j)
      BY <1>2, <3>1 DEF Linked
    <3> QED  BY <3>1, <3>2 DEF CallsInv, Numbered, Pushed
  <2>2. CASE j = n + 1 /\ i = n + 1
    <3>1. j - i = 0 /\ stack'[j].depth = depth
      BY <1>1, <2>2 DEF Pushed
    <3> QED  BY <3>1
  <2>3. CASE j = n + 1 /\ i <= n
    <3>1. /\ i \in 1 .. n /\ n + 1 \in i + 1 .. j
          /\ \A k \in i + 1 .. n : k \in i + 1 .. j /\ k \in 1 .. n
      BY <1>1, <2>3
    <3>2. stack'[n + 1].depth = depth
      BY DEF Pushed
    <3>3. depth # 0
      BY <3>1, <3>2 DEF Linked, Fresh
    <3>4. Linked(i, n)
      BY <1>2, <3>1 DEF Linked
    <3>5. n - i <= stack[n].depth
      BY <1>1, <2>3, <3>1, <3>4 DEF CallsInv, Numbered
    <3> HIDE DEF n
    <3> QED  BY <1>1, <2>3, <3>1, <3>2, <3>3, <3>5
  <2> QED  BY <1>1, <2>1, <2>2, <2>3
<1>4. ToolsAfresh'
  <2> SUFFICES ASSUME NEW i \in 1 .. n + 1, i < n + 1, Def[stack'[i].step].kind = "tool"
               PROVE  Fresh(i + 1)'
    BY DEF ToolsAfresh, Pushed
  <2>1. i \in 1 .. n /\ Def[stack[i].step].kind = "tool"
    BY <1>1 DEF Pushed
  <2>2. CASE i = n
    BY <1>1, <2>1, <2>2 DEF Pushed, Fresh
  <2>3. CASE i # n
    <3>1. i < n /\ i + 1 \in 1 .. n
      BY <1>1, <2>1, <2>3
    <3> QED  BY <1>2, <2>1, <3>1 DEF CallsInv, ToolsAfresh
  <2> QED  BY <2>2, <2>3
<1> QED  BY <1>3, <1>4 DEF CallsInv

LEMMA PushUnderWay ==
  ASSUME StackInv, NEW w \in Workflows, NEW depth, Pushed(w, depth)
  PROVE  UnderWay' = Append(UnderWay, [flow |-> w, nested |-> depth # 0])
<1> PICK n \in Nat : n = Len(stack)
  BY DEF StackInv, TypeOK
<1> PICK c : c = [flow |-> w, nested |-> depth # 0]
  OBVIOUS
<1>1. UnderWay \in Seq(CallRecords) /\ Len(UnderWay) = n /\ c \in CallRecords
  BY UnderWayTyped DEF CallRecords
<1>2. /\ Len(Append(UnderWay, c)) = n + 1 /\ Append(UnderWay, c)[n + 1] = c
      /\ \A i \in 1 .. n : Append(UnderWay, c)[i] = UnderWay[i]
      /\ Append(UnderWay, c) \in Seq(CallRecords)
  BY <1>1, AppendProperties
<1>3. Append(UnderWay, c) = [i \in 1 .. n + 1 |-> Append(UnderWay, c)[i]]
  BY <1>2
<1>4. UnderWay' = [i \in 1 .. n + 1 |-> UnderWay'[i]]
  BY DEF UnderWay, Pushed
<1>5. \A i \in 1 .. n : i \in 1 .. n + 1 /\ UnderWay'[i] = UnderWay[i]
  BY DEF UnderWay, Pushed, Fresh
<1>6. n + 1 \in 1 .. n + 1 /\ UnderWay'[n + 1] = c
  BY DEF UnderWay, Pushed, Fresh
<1>7. \A i \in 1 .. n + 1 : UnderWay'[i] = Append(UnderWay, c)[i]
  <2>1. \A i \in 1 .. n + 1 : i = n + 1 \/ i \in 1 .. n
    OBVIOUS
  <2> QED  BY <1>2, <1>5, <1>6, <2>1
<1>8. UnderWay' = Append(UnderWay, c)
  BY <1>3, <1>4, <1>7
<1> QED  BY <1>8

\* The attempts of the innermost run, and the timers of the runs that wait for a tool.
LEMMA OutcomeCalls ==
  ASSUME StackInv, CallsInv, NEW b, Prefix(b), Outcome(b),
         Len(b) < Len(stack) => Def[stack[Len(b)].step].kind = "tool"
  PROVE  CallsInv' /\ [Calls!Next]_(Calls!callVars)
<1> PICK n \in 1 .. Len(stack) : n = Len(b)
  BY TopOfPrefix
<1>1. /\ Len(stack) \in Nat /\ n \in 0 .. Len(stack) /\ n - 1 \in 0 .. Len(stack)
      /\ Len(UnderWay) = Len(stack) /\ UnderWay \in Seq(CallRecords) /\ UnderWay # <<>>
  BY UnderWayTyped
<1>2. n # Len(stack) => n \in 1 .. Len(UnderWay) - 1 /\ ~UnderWay[n + 1].nested
  <2> SUFFICES ASSUME n # Len(stack) PROVE n \in 1 .. Len(UnderWay) - 1 /\ ~UnderWay[n + 1].nested
    OBVIOUS
  <2>1. n < Len(stack) /\ n + 1 \in 1 .. Len(stack) /\ n \in 1 .. Len(UnderWay) - 1
    BY <1>1
  <2>2. Fresh(n + 1)
    BY <2>1 DEF CallsInv, ToolsAfresh
  <2> QED  BY <2>1, <2>2, UnderWayTyped
<1>3. CASE CutTo(n - 1) /\ returned' # "none"
  <2>1. CallsInv'
    BY <1>1, <1>3, CutKeepsCalls
  <2>2. UnderWay' = SubSeq(UnderWay, 1, n - 1)
    BY <1>1, <1>3, CutUnderWay
  <2>3. CASE n = Len(stack)
    <3>1. Calls!End
      BY <1>1, <1>3, <2>2, <2>3 DEF Calls!End
    <3> QED  BY <2>1, <3>1 DEF Calls!Next
  <2>4. CASE n # Len(stack)
    <3>1. Calls!Drop(n)
      BY <1>2, <1>3, <2>2, <2>4 DEF Calls!Drop
    <3> QED  BY <1>2, <2>1, <2>4, <3>1 DEF Calls!Next
  <2> QED  BY <2>3, <2>4
<1>4. CASE CutTo(n) /\ returned' = "none"
  <2>1. CallsInv'
    BY <1>1, <1>4, CutKeepsCalls
  <2>2. CASE n = Len(stack)
    <3>1. UnderWay' = UnderWay
      BY <1>4, <2>2, SameUnderWay
    <3>2. CASE returned = "none"
      BY <1>4, <2>1, <3>1, <3>2 DEF Calls!callVars
    <3>3. CASE returned # "none"
      <4>1. Calls!GoOn
        BY <1>1, <1>4, <3>1, <3>3 DEF Calls!GoOn
      <4> QED  BY <2>1, <4>1 DEF Calls!Next
    <3> QED  BY <3>2, <3>3
  <2>3. CASE n # Len(stack)
    <3>1. UnderWay' = SubSeq(UnderWay, 1, n)
      BY <1>1, <1>4, CutUnderWay
    <3>2. Calls!Drop(n)
      BY <1>2, <1>4, <2>3, <3>1 DEF Calls!Drop
    <3> QED  BY <1>2, <2>1, <2>3, <3>2 DEF Calls!Next
  <2> QED  BY <2>2, <2>3
<1>5. EndsOrGoesOn(b)
  BY OutcomeCuts
<1> QED  BY <1>3, <1>4, <1>5 DEF EndsOrGoesOn

LEMMA NestedCalls ==
  ASSUME StackInv, CallsInv, CallNested
  PROVE  CallsInv' /\ [Calls!Next]_(Calls!callVars)
<1> DEFINE w == Step(stack).callee
           n == Len(stack)
<1>1. Prefix(stack) /\ stack # <<>> /\ returned = "none"
  BY PrefixAll DEF CallNested, AtStep, StackInv
<1>2. Top = stack[n] /\ Top \in Runs /\ w \in Workflows \cup {None} /\ n \in Nat /\ n \in 1 .. n
  BY <1>1, TopOfPrefix DEF Top, Outermost, StepDefs
<1>3. CASE Failed(stack, "err")
  <2>1. Outcome(stack)
    BY <1>3 DEF Outcome
  <2> QED  BY <1>1, <2>1, OutcomeCalls
<1>4. CASE /\ w # None /\ w \notin Top.chain /\ ~TooDeep(w, Top.depth + 1)
           /\ stack' = Append([stack EXCEPT ![Len(stack)].pc = "call"],
                              Run(w, Top.chain, Top.depth + 1))
           /\ UNCHANGED <<returned, last>>
  <2>1. w \in Workflows /\ Top.chain \in SUBSET Workflows /\ Top.depth \in Nat
    BY <1>2, <1>4 DEF Runs
  <2>2. Top.depth + 1 \in Nat /\ Top.depth + 1 # 0
    BY <2>1
  <2>3. Def[Top.step].kind = "workflow"
    BY DEF CallNested, AtStep
  <2> HIDE DEF w
  <2>4. Pushed(w, Top.depth + 1)
    BY <1>1, <1>4, <2>1, <2>2, CallPushes
  <2>5. CallsInv'
    BY <1>1, <2>2, <2>3, <2>4, PushKeepsCalls
  <2>6. UnderWay' = Append(UnderWay, [flow |-> w, nested |-> TRUE])
    <3> PICK d : d = Top.depth + 1
      OBVIOUS
    <3>1. UnderWay' = Append(UnderWay, [flow |-> w, nested |-> d # 0])
      BY <2>1, <2>4, PushUnderWay
    <3>2. (d # 0) = TRUE
      BY <2>2
    <3> QED  BY <3>1, <3>2
  <2>7. ASSUME NEW i \in 1 .. Len(UnderWay), Calls!LeadsOn(i)
        PROVE  /\ UnderWay[i].flow # w
               /\ Flow[w].maxDepth # None => Len(UnderWay) + 1 - i <= Flow[w].maxDepth
    <3>1. Len(UnderWay) = n /\ i \in 1 .. n /\ i <= n /\ UnderWay[i].flow = stack[i].flow
      BY UnderWayTyped
    <3>2. Linked(i, n)
      <4>1. \A k \in i + 1 .. n : k \in 1 .. Len(stack) /\ UnderWay[k].nested
        BY <1>2, <2>7, <3>1 DEF Calls!LeadsOn
      <4> QED  BY <4>1, UnderWayTyped DEF Linked
    <3>3. stack[i].flow \in Top.chain
      BY <1>2, <3>1, <3>2 DEF StackInv, Nested
    <3>4. n - i <= Top.depth
      BY <1>2, <3>1, <3>2 DEF CallsInv, Numbered
    <3>5. Flow[w].maxDepth # None => Flow[w].maxDepth \in Nat /\ Top.depth + 1 <= Flow[w].maxDepth
      BY <1>4, <2>1, WorkflowConstants DEF TooDeep, FlowDefs
    <3> HIDE DEF n
    <3> QED  BY <1>2, <1>4, <2>1, <3>1, <3>3, <3>4, <3>5
  <2>8. Calls!Nest(w)
    <3>1. UnderWay # <<>>
      BY <1>2, UnderWayTyped
    <3> QED  BY <1>1, <1>4, <2>1, <2>6, <2>7, <3>1 DEF Calls!Nest
  <2> QED  BY <2>1, <2>5, <2>8 DEF Calls!Next
<1> QED  BY <1>3, <1>4 DEF CallNested

\* A run that is started afresh knows nothing of its callers.
LEMMA FreshCalls ==
  ASSUME StackInv, CallsInv, CallTool
  PROVE  CallsInv' /\ [Calls!Next]_(Calls!callVars)
<1> DEFINE w == Step(stack).callee
<1>1. Prefix(stack) /\ stack # <<>> /\ returned = "none"
  BY PrefixAll DEF CallTool, AtStep, StackInv
<1>2. w \in Workflows
  BY <1>1, TopOfPrefix DEF CallTool, StepDefs
<1>3. /\ stack' = Append([stack EXCEPT ![Len(stack)].pc = "call"], Run(w, {}, 0))
      /\ returned' = returned
  BY DEF CallTool
<1> HIDE DEF w
<1>4. Pushed(w, 0)
  <2>1. {} \in SUBSET Workflows /\ 0 \in Nat
    OBVIOUS
  <2> QED  BY <1>1, <1>2, <1>3, <2>1, CallPushes
<1>5. CallsInv'
  <2>1. 0 \in Nat
    OBVIOUS
  <2> QED  BY <1>1, <1>4, <2>1, PushKeepsCalls
<1>6. UnderWay' = Append(UnderWay, [flow |-> w, nested |-> FALSE])
  BY <1>2, <1>4, PushUnderWay
<1>7. Calls!Start(w)
  BY <1>1, <1>3, <1>6 DEF Calls!Start
<1> QED  BY <1>2, <1>5, <1>7 DEF Calls!Next

LEMMA StartCalls ==
  ASSUME StackInv, NEW w \in Workflows, Start(w)
  PROVE  CallsInv' /\ Calls!Next
<1> PICK r : r = Run(w, {}, 0)
  OBVIOUS
<1>1. r \in Runs /\ r.flow = w /\ r.depth = 0
  BY WorkflowConstants DEF Run, Runs, FlowDefs
<1>2. stack' = <<r>> /\ stack = <<>> /\ returned' = "none"
  BY DEF Start
<1>3. Len(stack') = 1 /\ stack'[1] = r /\ Len(stack) = 0 /\ \A i \in 1 .. 1 : i = 1
  BY <1>1, <1>2
<1>4. CallsInv'
  BY <1>1, <1>3 DEF CallsInv, Numbered, ToolsAfresh
<1>5. Pushed(w, 0)
  BY <1>1, <1>2, <1>3 DEF Pushed
<1>6. UnderWay' = Append(UnderWay, [flow |-> w, nested |-> FALSE])
  BY <1>5, PushUnderWay
<1>7. UnderWay = <<>>
  BY <1>3, UnderWayTyped
<1>8. Calls!Start(w)
  BY <1>2, <1>6, <1>7 DEF Calls!Start
<1> QED  BY <1>4, <1>8 DEF Calls!Next

\* What only marks a run leaves the calls as they are.
LEMMA MarkCalls ==
  ASSUME StackInv, CallsInv, CutTo(Len(stack)), returned' = returned
  PROVE  CallsInv' /\ UNCHANGED Calls!callVars
<1>1. Len(stack) \in 0 .. Len(stack)
  BY DEF StackInv, TypeOK
<1> QED  BY <1>1, CutKeepsCalls, SameUnderWay DEF Calls!callVars

LEMMA ElapseCalls ==
  ASSUME StackInv, CallsInv, NEW i \in DOMAIN stack, Elapse(i) \/ StepElapse(i)
  PROVE  CallsInv' /\ UNCHANGED Calls!callVars
<1>1. i \in 1 .. Len(stack) /\ stack[i] \in Runs
  BY DEF StackInv, TypeOK
<1>2. PICK r \in Runs : /\ stack' = [stack EXCEPT ![i] = r] /\ returned' = returned
                        /\ r.flow = stack[i].flow /\ r.depth = stack[i].depth
                        /\ r.step = stack[i].step
  <2>1. CASE Elapse(i)
    <3> DEFINE r == [stack[i] EXCEPT !.late = TRUE]
    <3>1. stack' = [stack EXCEPT ![i] = r] /\ returned' = returned
      BY <2>1 DEF Elapse
    <3>2. r \in Runs /\ r.flow = stack[i].flow /\ r.depth = stack[i].depth /\ r.step = stack[i].step
      BY <1>1 DEF Runs
    <3> QED  BY <3>1, <3>2
  <2>2. CASE StepElapse(i)
    <3> DEFINE r == [stack[i] EXCEPT !.over = TRUE]
    <3>1. stack' = [stack EXCEPT ![i] = r] /\ returned' = returned
      BY <2>2 DEF StepElapse
    <3>2. r \in Runs /\ r.flow = stack[i].flow /\ r.depth = stack[i].depth /\ r.step = stack[i].step
      BY <1>1 DEF Runs
    <3> QED  BY <3>1, <3>2
  <2> QED  BY <2>1, <2>2
<1>3. /\ stack' \in Seq(Runs) /\ Len(stack') = Len(stack) /\ stack'[i] = r
      /\ \A k \in 1 .. Len(stack) : k # i => stack'[k] = stack[k]
  BY <1>1, <1>2, ExceptSeq DEF StackInv, TypeOK
<1>4. CutTo(Len(stack))
  <2>1. \A k \in 1 .. Len(stack) : /\ stack'[k].flow = stack[k].flow
                                   /\ stack'[k].depth = stack[k].depth
                                   /\ stack'[k].step = stack[k].step
    BY <1>2, <1>3
  <2>2. \A k \in 1 .. Len(stack) - 1 : k \in 1 .. Len(stack)
    BY DEF StackInv, TypeOK
  <2> QED  BY <1>3, <2>1, <2>2 DEF CutTo
<1> QED  BY <1>2, <1>4, MarkCalls

LEMMA BeginStepCalls ==
  ASSUME StackInv, CallsInv, BeginStep
  PROVE  CallsInv' /\ [Calls!Next]_(Calls!callVars)
<1> DEFINE f == Top
           r == [f EXCEPT !.pc = "run", !.tries = 0, !.over = FALSE,
                          !.count = Tally(f, f.count), !.made = Tally(f, f.made)]
<1>1. Prefix(stack) /\ Outermost(stack) = f /\ f \in Runs
  BY PrefixAll, TopOfPrefix DEF BeginStep, StackInv, Top
<1>2. CASE Abort(stack) /\ Saw(stack, "limit")
  <2>1. Outcome(stack)
    BY <1>2 DEF Outcome
  <2> QED  BY <1>1, <2>1, OutcomeCalls
<1>3. CASE stack' = [stack EXCEPT ![Len(stack)] = r] /\ UNCHANGED <<returned, last>>
  <2>1. f.count \in Nat /\ f.made \in Nat
    BY <1>1 DEF Runs
  <2>2. Tally(f, f.count) \in Nat /\ Tally(f, f.made) \in Nat
    BY <2>1 DEF Tally
  <2>3. r \in Runs /\ r.flow = f.flow /\ r.depth = f.depth
    <3> HIDE DEF f
    <3> QED  BY <1>1, <2>2 DEF Runs
  <2> HIDE DEF r
  <2>4. CutTo(Len(stack))
    BY <1>1, <1>3, <2>3, ReplaceCuts
  <2> QED  BY <1>3, <2>4, MarkCalls
<1> QED  BY <1>2, <1>3 DEF BeginStep

LEMMA AttemptCalls ==
  ASSUME StackInv, CallsInv, Works \/ Fails \/ Errs \/ SetupErrs \/ Choose \/ WaitEnds \/ Receive
  PROVE  CallsInv' /\ [Calls!Next]_(Calls!callVars)
<1>1. \A kinds : AtStep(kinds) => Prefix(stack)
  BY PrefixAll DEF AtStep, StackInv
<1>2. Prefix(stack)
  BY <1>1, PrefixAll DEF Works, Fails, Errs, SetupErrs, Choose, WaitEnds, Receive, StackInv
<1>3. SwitchTargets(Step(stack)) \subseteq Steps
  BY <1>2, TopOfPrefix DEF SwitchTargets, Or, StepDefs
<1>4. {"good", "bad", "err", "setup"} \subseteq Outcomes
  BY DEF Outcomes
<1>5. Outcome(stack)
  <2>1. CASE Works      BY <1>4, <2>1 DEF Works, Outcome
  <2>2. CASE Fails      BY <1>4, <2>2 DEF Fails, Outcome
  <2>3. CASE Errs       BY <2>3 DEF Errs, Outcome
  <2>4. CASE SetupErrs  BY <2>4 DEF SetupErrs, Outcome
  <2>5. CASE Choose     BY <1>3, <1>4, <2>5 DEF Choose, Outcome
  <2>6. CASE WaitEnds   BY <1>4, <2>6 DEF WaitEnds, Outcome
  <2>7. CASE Receive    BY <1>4, <2>7 DEF Receive, Outcome
  <2> QED  BY <2>1, <2>2, <2>3, <2>4, <2>5, <2>6, <2>7
<1> QED  BY <1>2, <1>5, OutcomeCalls

LEMMA TimerCalls ==
  ASSUME StackInv, CallsInv, NEW i \in DOMAIN stack, Timer(i)
  PROVE  CallsInv' /\ [Calls!Next]_(Calls!callVars)
<1> DEFINE b == SubSeq(stack, 1, i)
<1>1. i \in 1 .. Len(stack)
  BY DEF StackInv, TypeOK
<1>2. Prefix(b) /\ Len(b) = i
  BY <1>1, PrefixOf DEF StackInv
<1>3. Step(b).kind = "tool" /\ Step(b) = Def[stack[i].step]
  BY <1>2, TopOfPrefix DEF Timer, Step
<1>4. Outcome(b)
  BY DEF Timer, Outcome, Outcomes
<1> HIDE DEF b
<1> QED  BY <1>2, <1>3, <1>4, OutcomeCalls

LEMMA CallsStep ==
  StackInv /\ CallsInv /\ [Next]_vars => CallsInv' /\ [Calls!Next]_(Calls!callVars)
<1> SUFFICES ASSUME StackInv, CallsInv, [Next]_vars
             PROVE  CallsInv' /\ [Calls!Next]_(Calls!callVars)
  OBVIOUS
<1>1. CASE UNCHANGED vars
  BY <1>1 DEF vars, CallsInv, Numbered, ToolsAfresh, Linked, Fresh, Calls!callVars, UnderWay
<1>2. CASE Works \/ Fails \/ Errs \/ SetupErrs \/ Choose \/ WaitEnds \/ Receive
  BY <1>2, AttemptCalls
<1>3. CASE BeginStep   BY <1>3, BeginStepCalls
<1>4. CASE CallNested  BY <1>4, NestedCalls
<1>5. CASE CallTool    BY <1>5, FreshCalls
<1>6. ASSUME NEW w \in Workflows, Start(w) PROVE CallsInv' /\ Calls!Next
  BY <1>6, StartCalls
<1>7. ASSUME NEW i \in DOMAIN stack, Timer(i)
      PROVE  CallsInv' /\ [Calls!Next]_(Calls!callVars)
  BY <1>7, TimerCalls
<1>8. ASSUME NEW i \in DOMAIN stack, Elapse(i) \/ StepElapse(i)
      PROVE  CallsInv' /\ UNCHANGED Calls!callVars
  BY <1>8, ElapseCalls
<1> QED  BY <1>1, <1>2, <1>3, <1>4, <1>5, <1>6, <1>7, <1>8 DEF Next, RunStep

\* The executor implements the calls of workflows: what a request says of its callers, the
\* order in which runs end, and the timers that drop them agree with the stack of the calls,
\* for any registry, any limits and any nesting.
THEOREM ExecutorImplementsCalls == Spec => ImplementsCalls
<1>1. Init => CallsInv /\ Calls!Init
  BY DEF Init, CallsInv, Numbered, ToolsAfresh, Calls!Init, UnderWay
<1>2. IInv => StackInv
  BY DEF IInv
<1> QED
  BY <1>1, <1>2, CallsStep, Invariance, PTL DEF Spec, ImplementsCalls, Calls!Spec

=============================================================================
