--------------------------- MODULE TriggerEngine ---------------------------
(***************************************************************************)
(* The triggers of workflows (workflows/trigger.rs) and the REPL that asks *)
(* for them: at the head of its loop, which then waits for a line, and by  *)
(* command.  What is due runs before the REPL goes on; time passes anyway, *)
(* and the wall clock is not set back.                                    *)
(***************************************************************************)
EXTENDS Naturals

CONSTANTS TrCrons,      \* cron expressions, each of an entrypoint
          TrTimes,      \* expression -> the times it names
          TrListeners,  \* event -> the entrypoints that list it
          TrMaxTime     \* bound: the wall clock

ASSUME TrConstants == TrTimes \in [TrCrons -> SUBSET (0..TrMaxTime)] /\ TrMaxTime \in Nat

VARIABLES
    trEnabled,  \* features.triggers_enabled
    trNow,      \* the wall clock
    trChecked,  \* last_cron_check
    trAt,       \* where the REPL is: the head of its loop, or waiting for a line
    trDue,      \* matches run_trigger_matches has not run yet
    trRan,      \* history: expression -> time -> runs for it, since the start
    trFor,      \* history: expression -> the times it was last found due for
    trStart     \* history: when the program started

trVars == <<trEnabled, trNow, trChecked, trAt, trDue, trRan, trFor, trStart>>

TrCron(x) == [by |-> "cron", for |-> x]
TrEvent(e) == [by |-> "event", for |-> e]

\* parsed.after(from).take(1): the first time after the last check has come if any has.
TrAfter_From(t) == t >= trChecked
TrAfter(t) == t > trChecked
TrDueFor(x) == {t \in TrTimes[x] : TrAfter(t) /\ t <= trNow}

\* due_cron; what it finds is run at once.
TrDueCron ==
    /\ trDue' = {TrCron(x) : x \in {y \in TrCrons : TrDueFor(y) # {}}}
    /\ trChecked' = trNow
    /\ trFor' = [x \in TrCrons |-> TrDueFor(x)]

\* The head of the loop, when no question is open.
TrHead ==
    /\ trAt = "head" /\ trDue = {}
    /\ trAt' = "input"
    /\ IF trEnabled THEN TrDueCron ELSE UNCHANGED <<trDue, trChecked, trFor>>
    /\ UNCHANGED <<trEnabled, trNow, trRan, trStart>>

TrReads == trAt = "input" /\ trDue = {} /\ trAt' = "head"
TrOtherLine ==
    /\ TrReads
    /\ UNCHANGED <<trEnabled, trNow, trChecked, trDue, trRan, trFor, trStart>>
\* /workflow trigger cron does not ask whether triggers are enabled.
TrCronCommand ==
    /\ TrReads /\ TrDueCron
    /\ UNCHANGED <<trEnabled, trNow, trRan, trStart>>
TrEventCommand(event) ==
    /\ TrReads
    /\ trDue' = {TrEvent(e) : e \in TrListeners[event]}
    /\ UNCHANGED <<trEnabled, trNow, trChecked, trRan, trFor, trStart>>

\* run_trigger_matches: a run that fails is reported and the next one starts.
TrStandsFor(match, x, t) == match = TrCron(x) /\ t \in trFor[x]
TrRuns(match) ==
    /\ match \in trDue
    /\ trDue' = trDue \ {match}
    /\ trRan' = [x \in TrCrons |-> [t \in 0..TrMaxTime |->
                    IF TrStandsFor(match, x, t) THEN trRan[x][t] + 1 ELSE trRan[x][t]]]
    /\ UNCHANGED <<trEnabled, trNow, trChecked, trAt, trFor, trStart>>

\* Time passes, at the prompt and during the runs.
TrTick ==
    /\ trNow < TrMaxTime /\ trNow' = trNow + 1
    /\ UNCHANGED <<trEnabled, trChecked, trAt, trDue, trRan, trFor, trStart>>

\* The program ends and starts: WorkflowTriggerEngine::new(now), so that what came while
\* it was down is not made up for.
TrNoRuns == [x \in TrCrons |-> [t \in 0..TrMaxTime |-> 0]]
TrNothing == [x \in TrCrons |-> {}]
TrRestart ==
    /\ trChecked' = trNow /\ trAt' = "head" /\ trDue' = {}
    /\ trRan' = TrNoRuns /\ trFor' = TrNothing /\ trStart' = trNow
    /\ UNCHANGED <<trEnabled, trNow>>

TrInit ==
    /\ trEnabled \in BOOLEAN /\ trNow = 0
    /\ trChecked = trNow /\ trAt = "head" /\ trDue = {}
    /\ trRan = TrNoRuns /\ trFor = TrNothing /\ trStart = trNow

TrNext ==
    \/ TrHead \/ TrOtherLine \/ TrCronCommand \/ TrTick \/ TrRestart
    \/ \E event \in DOMAIN TrListeners : TrEventCommand(event)
    \/ \E match \in trDue : TrRuns(match)

\* A time that a cron expression names is run for exactly once: times that come during
\* the runs, or while the REPL waits for a line, are neither lost nor run twice, and
\* checks by command and by the loop share them.  Several times of an expression in one
\* check are one run.
TrWaits(x, t) == \E match \in trDue : TrStandsFor(match, x, t)
TrExactlyOnce ==
    \A x \in TrCrons : \A t \in TrTimes[x] :
        trRan[x][t] = IF trStart < t /\ t <= trChecked /\ ~TrWaits(x, t) THEN 1 ELSE 0

TrSpec == TrInit /\ [][TrNext]_trVars
=============================================================================
