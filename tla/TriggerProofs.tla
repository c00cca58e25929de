--------------------------- MODULE TriggerProofs ---------------------------
(***************************************************************************)
(* Proof that a time of a cron trigger is run for exactly once.            *)
(***************************************************************************)
EXTENDS TriggerEngine, TLAPS

TrTypeOK ==
    /\ trNow \in Nat /\ trChecked \in Nat /\ trStart \in Nat
    /\ trRan \in [TrCrons -> [0..TrMaxTime -> Nat]]

\* What was due at the last check came after the start and up to that check.
TrForOK ==
    /\ trStart <= trChecked /\ trChecked <= trNow
    /\ \A x \in TrCrons : \A t \in trFor[x] : trStart < t /\ t <= trChecked

TrInv == TrTypeOK /\ TrForOK /\ TrExactlyOnce

LEMMA TrMatchesDiffer == \A x, y : (TrCron(x) = TrCron(y) => x = y) /\ TrCron(x) # TrEvent(y)
  BY DEF TrCron, TrEvent

LEMMA TrInitially == TrInit => TrInv
<1> SUFFICES ASSUME TrInit PROVE TrInv
  OBVIOUS
<1>1. TrTypeOK /\ TrForOK
  BY DEF TrInit, TrTypeOK, TrForOK, TrNoRuns, TrNothing
<1>2. TrExactlyOnce
  BY TrConstants DEF TrInit, TrExactlyOnce, TrNoRuns
<1> QED
  BY <1>1, <1>2 DEF TrInv

\* A check makes the times since the last one wait, and no other.
LEMMA TrCheckKeeps ==
  ASSUME TrInv, trDue = {}, TrDueCron, UNCHANGED <<trNow, trRan, trStart>>
  PROVE  TrInv'
<1>1. trChecked' = trNow /\ \A x \in TrCrons : trFor'[x] = {t \in TrTimes[x] : trChecked < t /\ t <= trNow}
  <2>1. \A x \in TrCrons : \A t \in TrTimes[x] : t \in Nat
    BY TrConstants
  <2>2. \A x \in TrCrons : TrDueFor(x) = {t \in TrTimes[x] : trChecked < t /\ t <= trNow}
    BY <2>1 DEF TrDueFor, TrAfter, TrInv, TrTypeOK
  <2> QED
    BY <2>2 DEF TrDueCron
<1>2. TrTypeOK' /\ TrForOK'
  <2>1. \A x \in TrCrons : \A t \in TrTimes[x] : t \in Nat
    BY TrConstants
  <2> QED
    BY <1>1, <2>1 DEF TrInv, TrTypeOK, TrForOK
<1>3. ASSUME NEW x \in TrCrons, NEW t \in TrTimes[x]
      PROVE  TrWaits(x, t)' <=> trChecked < t /\ t <= trNow
  <2>1. TrWaits(x, t)' => trChecked < t /\ t <= trNow
    BY <1>1 DEF TrWaits, TrStandsFor
  <2>2. ASSUME trChecked < t, t <= trNow PROVE TrWaits(x, t)'
    <3>1. TrCron(x) \in trDue'
      BY <1>1, <2>2 DEF TrDueCron
    <3> QED
      BY <1>1, <2>2, <3>1 DEF TrWaits, TrStandsFor
  <2> QED
    BY <2>1, <2>2
<1>4. ASSUME NEW x \in TrCrons, NEW t \in TrTimes[x]
      PROVE  trRan'[x][t] = IF trStart' < t /\ t <= trChecked' /\ ~TrWaits(x, t)' THEN 1 ELSE 0
  <2>1. t \in Nat /\ ~TrWaits(x, t)
    BY TrConstants DEF TrWaits
  <2>2. trRan[x][t] = IF trStart < t /\ t <= trChecked THEN 1 ELSE 0
    BY <2>1 DEF TrInv, TrExactlyOnce
  <2>3. trStart <= trChecked /\ trChecked <= trNow /\ trStart \in Nat
        /\ trChecked \in Nat /\ trNow \in Nat
    BY DEF TrInv, TrTypeOK, TrForOK
  <2> QED
    BY <1>1, <1>3, <2>1, <2>2, <2>3
<1> QED
  BY <1>2, <1>4 DEF TrInv, TrExactlyOnce

\* Steps that leave the checks, the runs and what waits for cron as they are.
LEMMA TrOtherKeeps ==
  ASSUME TrInv, UNCHANGED <<trChecked, trRan, trFor, trStart>>, trNow' \in Nat, trNow <= trNow',
         \A x \in TrCrons : TrCron(x) \in trDue' <=> TrCron(x) \in trDue
  PROVE  TrInv'
<1>1. TrTypeOK' /\ TrForOK'
  BY DEF TrInv, TrTypeOK, TrForOK
<1>2. \A x \in TrCrons : \A t \in TrTimes[x] : TrWaits(x, t)' <=> TrWaits(x, t)
  BY DEF TrWaits, TrStandsFor
<1> QED
  BY <1>1, <1>2 DEF TrInv, TrExactlyOnce

\* A run counts once for each of the times its match waits for.
LEMMA TrRunKeeps ==
  ASSUME TrInv, NEW match \in trDue, TrRuns(match)
  PROVE  TrInv'
<1>1. TrTypeOK' /\ TrForOK'
  <2>1. ASSUME NEW x \in TrCrons, NEW t \in 0..TrMaxTime
        PROVE  (IF TrStandsFor(match, x, t) THEN trRan[x][t] + 1 ELSE trRan[x][t]) \in Nat
    <3>1. trRan[x][t] \in Nat
      BY DEF TrInv, TrTypeOK
    <3> QED
      BY <3>1
  <2>2. trRan' \in [TrCrons -> [0..TrMaxTime -> Nat]]
    BY <2>1 DEF TrRuns
  <2> QED
    BY <2>2 DEF TrInv, TrTypeOK, TrForOK, TrRuns
<1>2. ASSUME NEW x \in TrCrons, NEW t \in TrTimes[x]
      PROVE  trRan'[x][t] = IF trStart' < t /\ t <= trChecked' /\ ~TrWaits(x, t)' THEN 1 ELSE 0
  <2>1. t \in 0..TrMaxTime
    BY TrConstants
  <2>2. trRan'[x][t] = IF TrStandsFor(match, x, t) THEN trRan[x][t] + 1 ELSE trRan[x][t]
    BY <2>1 DEF TrRuns
  <2>3. trRan[x][t] = IF trStart < t /\ t <= trChecked /\ ~TrWaits(x, t) THEN 1 ELSE 0
    BY DEF TrInv, TrExactlyOnce
  <2>4. UNCHANGED <<trFor, trStart, trChecked>> /\ trDue' = trDue \ {match}
    BY DEF TrRuns
  <2>5. CASE TrStandsFor(match, x, t)
    <3>1. TrWaits(x, t) /\ ~TrWaits(x, t)'
      BY <2>4, <2>5 DEF TrWaits, TrStandsFor
    <3>2. trStart < t /\ t <= trChecked
      BY <2>1, <2>5 DEF TrStandsFor, TrInv, TrTypeOK, TrForOK
    <3> QED
      BY <2>2, <2>3, <2>4, <2>5, <3>1, <3>2
  <2>6. CASE ~TrStandsFor(match, x, t)
    <3>1. TrWaits(x, t)' <=> TrWaits(x, t)
      BY <2>4, <2>6 DEF TrWaits, TrStandsFor
    <3> QED
      BY <2>2, <2>3, <2>4, <2>6, <3>1
  <2> QED
    BY <2>5, <2>6
<1> QED
  BY <1>1, <1>2 DEF TrInv, TrExactlyOnce

LEMMA TrRestartKeeps == TrInv /\ TrRestart => TrInv'
<1> SUFFICES ASSUME TrInv, TrRestart PROVE TrInv'
  OBVIOUS
<1>1. TrTypeOK' /\ TrForOK'
  BY DEF TrRestart, TrInv, TrTypeOK, TrForOK, TrNoRuns, TrNothing
<1>2. TrExactlyOnce'
  <2>1. \A x \in TrCrons : TrTimes[x] \subseteq 0..TrMaxTime
    BY TrConstants
  <2>2. trNow \in Nat /\ trChecked' = trNow /\ trStart' = trNow /\ trRan' = TrNoRuns
    BY DEF TrRestart, TrInv, TrTypeOK
  <2> QED
    BY <2>1, <2>2 DEF TrExactlyOnce, TrNoRuns
<1> QED
  BY <1>1, <1>2 DEF TrInv

\* Every time a cron expression names while the program is up is run for exactly once
\* when it has been checked, however checks, commands, lines and runs follow each other.
THEOREM TrExactlyOnceTheorem == TrSpec => []TrExactlyOnce
<1>1. TrInv /\ [TrNext]_trVars => TrInv'
  <2> SUFFICES ASSUME TrInv, [TrNext]_trVars PROVE TrInv'
    OBVIOUS
  <2>1. trNow \in Nat
    BY DEF TrInv, TrTypeOK
  <2>2. CASE TrHead
    <3>1. CASE trEnabled
      BY <2>2, <3>1, TrCheckKeeps DEF TrHead
    <3>2. CASE ~trEnabled
      BY <2>1, <2>2, <3>2, TrOtherKeeps DEF TrHead
    <3> QED
      BY <3>1, <3>2
  <2>3. CASE TrCronCommand
    BY <2>3, TrCheckKeeps DEF TrCronCommand, TrReads
  <2>4. CASE TrOtherLine \/ TrTick \/ UNCHANGED trVars
    BY <2>1, <2>4, TrOtherKeeps DEF TrOtherLine, TrTick, trVars
  <2>5. ASSUME NEW event \in DOMAIN TrListeners, TrEventCommand(event) PROVE TrInv'
    <3>1. \A x \in TrCrons : TrCron(x) \in trDue' <=> TrCron(x) \in trDue
      BY <2>5, TrMatchesDiffer DEF TrEventCommand, TrReads
    <3> QED
      BY <2>1, <2>5, <3>1, TrOtherKeeps DEF TrEventCommand
  <2> QED
    BY <2>2, <2>3, <2>4, <2>5, TrRunKeeps, TrRestartKeeps DEF TrNext
<1>2. TrInv => TrExactlyOnce
  BY DEF TrInv
<1> QED
  BY TrInitially, <1>1, <1>2, PTL DEF TrSpec
=============================================================================
