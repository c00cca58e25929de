------------------------------ MODULE Learning ------------------------------
(***************************************************************************)
(* What the program learns (learning/, its tables in storage/): how often  *)
(* a mistake was made, which tasks succeeded, what the user prefers.  Two  *)
(* callers record at the same time, the turn and the listener of its       *)
(* events; a counter is read with one statement and written with another.  *)
(* One agent, one session; the settings have learning on.                  *)
(***************************************************************************)
EXTENDS Common, Naturals, Sequences, FiniteSets

CONSTANTS LnCallers,
          LnMistakes,     \* a mistake: its type and what triggered it
          LnTasks,        \* what succeeds: a description, a sequence of words, and its category
          LnShort,        \* the words of less than three letters
          LnMistakeLimit, \* stands for the 256 mistakes a recording lists
          LnSuccessLimit, \* stands for the 32 successes a recording lists
          LnWarnAt,       \* warning_frequency_threshold
          LnMax           \* bound: recordings of a mistake, rows of successes

ASSUME LnConstants ==
    /\ IsFiniteSet(LnMistakes) /\ LnMistakeLimit \in Nat
    /\ \A w \in LnTasks : /\ w = [task |-> w.task, category |-> w.category]
                         /\ w.task \in Seq({w.task[i] : i \in DOMAIN w.task})

VARIABLES
    lnFrequency,  \* mistake -> the frequency of its row, 0 when it has none
    lnSuccess,    \* the rows of success_patterns, in the order they were inserted
    lnSession,    \* the rows below the session: feedback and preferences; None once it is deleted
    lnCall,       \* caller -> the recording it is in
    lnTold,       \* history: mistake -> the recordings of it that were stored
    lnUnsure,     \* history: mistakes recorded by two at once, or past the limit
    lnTwice       \* history: tasks recorded by two at once, or past the limit

lnVars == <<lnFrequency, lnSuccess, lnSession, lnCall, lnTold, lnUnsure, lnTwice>>

LnIdle == [at |-> "idle", what |-> None, read |-> 0, row |-> 0, feedback |-> FALSE]
LnGoes(c, call) == lnCall' = [lnCall EXCEPT ![c] = call]
\* Another caller is in a recording of the same thing.
LnOthers(c, recording, what) ==
    \E d \in LnCallers \ {c} : lnCall[d].at \in recording /\ lnCall[d].what = what

----------------------------------------------------------------------------
\* list_mistake_patterns: the rows of at least that frequency, the most frequent ones up
\* to the limit; which of equals are left out is a matter of when they were seen.
LnWhere_Warned(rows, least) == {k \in rows : lnFrequency[k] >= LnWarnAt}
LnWhere(rows, least) == {k \in rows : lnFrequency[k] >= least}
LnRows == {k \in LnMistakes : lnFrequency[k] > 0}
LnLists(listed, least, limit) ==
    LET rows == LnWhere(LnRows, least)
    IN /\ listed \in SUBSET rows
       /\ Cardinality(listed) = IF Cardinality(rows) < limit THEN Cardinality(rows) ELSE limit
       /\ \A k \in listed, l \in rows \ listed : lnFrequency[k] >= lnFrequency[l]

\* record_mistake: find the row among those listed, then store its frequency plus one; not
\* found is frequency 1, which replaces that of a row there is (ON CONFLICT).
LnMistakeRead(c, k, implicit) ==
    /\ lnCall[c].at = "idle" /\ lnTold[k] < LnMax
    /\ \E listed \in SUBSET LnMistakes :
        /\ LnLists(listed, 0, LnMistakeLimit)
        /\ LnGoes(c, [at |-> "mistake", what |-> k, row |-> 0, feedback |-> implicit,
                      read |-> IF k \in listed THEN lnFrequency[k] ELSE 0])
        /\ lnUnsure' = lnUnsure \cup
              IF \/ LnOthers(c, {"mistake", "feedback"}, k)
                 \/ k \in LnRows \ listed /\ Cardinality(LnRows) > LnMistakeLimit
              THEN {k} ELSE {}
    /\ UNCHANGED <<lnFrequency, lnSuccess, lnSession, lnTold, lnTwice>>
LnMistakeStored(c) ==
    /\ lnCall[c].at = "mistake"
    /\ lnFrequency' = [lnFrequency EXCEPT ![lnCall[c].what] = lnCall[c].read + 1]
    /\ lnTold' = [lnTold EXCEPT ![lnCall[c].what] = @ + 1]
    /\ LnGoes(c, IF lnCall[c].feedback THEN [lnCall[c] EXCEPT !.at = "feedback"] ELSE LnIdle)
    /\ UNCHANGED <<lnSuccess, lnSession, lnUnsure, lnTwice>>
\* record_implicit_event: the feedback follows; without its session it is refused.
LnImplicitStored(c) ==
    /\ lnCall[c].at = "feedback"
    /\ lnSession' = IF lnSession = None THEN None ELSE lnSession \cup {"feedback"}
    /\ LnGoes(c, LnIdle)
    /\ UNCHANGED <<lnFrequency, lnSuccess, lnTold, lnUnsure, lnTwice>>

\* emit_pattern_warnings: nothing is stored.
LnActive(k) == \E listed \in SUBSET LnMistakes : LnLists(listed, LnWarnAt, 5) /\ k \in listed
LnWarns == (\E k \in LnMistakes : LnActive(k)) /\ UNCHANGED lnVars

----------------------------------------------------------------------------
LnWords(t) == {t[i] : i \in DOMAIN t} \ LnShort
\* similarity, in parts of a hundred: the share of the words the two have in common.
LnSimilarity(s, t) ==
    IF LnWords(s) = {} \/ LnWords(t) = {} THEN 0
    ELSE (100 * Cardinality(LnWords(s) \cap LnWords(t))) \div Cardinality(LnWords(s) \cup LnWords(t))
\* LIKE '%task%' finds the text that contains the task word for word.
LnLike(text, task) ==
    \E i \in 0..(Len(text) - Len(task)) : SubSeq(text, i + 1, i + Len(task)) = task

LnRow(task, category) == [task |-> task, category |-> category, frequency |-> 1]
\* find_success_patterns: `said` are the rows whose template, a reply, holds the task.
LnWith(w, said) == {i \in DOMAIN lnSuccess : /\ lnSuccess[i].category = w.category
                                            /\ (LnLike(lnSuccess[i].task, w.task) \/ i \in said)}
LnFinds(found, w, said) ==
    /\ found \in SUBSET LnWith(w, said)
    /\ Cardinality(found) = IF Cardinality(LnWith(w, said)) < LnSuccessLimit
                            THEN Cardinality(LnWith(w, said)) ELSE LnSuccessLimit
    /\ \A i \in found, j \in LnWith(w, said) \ found :
          lnSuccess[i].frequency >= lnSuccess[j].frequency
\* The most similar of those found, the last of equals, when it is similar enough.
LnMatches(i, found, w) ==
    /\ i \in found /\ LnSimilarity(lnSuccess[i].task, w.task) >= 45
    /\ \A j \in found :
          LnSimilarity(lnSuccess[i].task, w.task) >= LnSimilarity(lnSuccess[j].task, w.task)

\* record_success: find a row to count this success in, then store it, or a new one.
LnSuccessRead(c, w) ==
    /\ lnCall[c].at = "idle"
    /\ \E said \in SUBSET DOMAIN lnSuccess : \E found \in SUBSET DOMAIN lnSuccess :
        /\ LnFinds(found, w, said)
        /\ \E i \in found \cup {0} :
            /\ IF i = 0 THEN \A j \in found : ~LnMatches(j, found, w) ELSE LnMatches(i, found, w)
            /\ LnGoes(c, [at |-> "success", what |-> w, row |-> i, feedback |-> FALSE,
                          read |-> IF i = 0 THEN 0 ELSE lnSuccess[i].frequency])
        /\ lnTwice' = lnTwice \cup
              IF LnOthers(c, {"success", "quality"}, w) \/ found # LnWith(w, said) THEN {w} ELSE {}
    /\ UNCHANGED <<lnFrequency, lnSuccess, lnSession, lnTold, lnUnsure>>
LnSuccessStored(c) ==
    /\ lnCall[c].at = "success"
    /\ \/ /\ lnCall[c].row = 0 /\ Len(lnSuccess) < LnMax
          /\ lnSuccess' = Append(lnSuccess, LnRow(lnCall[c].what.task, lnCall[c].what.category))
       \/ /\ lnCall[c].row # 0 /\ lnCall[c].read < LnMax
          /\ lnSuccess' = [lnSuccess EXCEPT ![lnCall[c].row].frequency = lnCall[c].read + 1]
    /\ LnGoes(c, [lnCall[c] EXCEPT !.at = "quality"])
    /\ UNCHANGED <<lnFrequency, lnSession, lnTold, lnUnsure, lnTwice>>
\* Then the quality of the task is a preference of the session; the turn fails without one.
LnQualityStored(c) ==
    /\ lnCall[c].at = "quality"
    /\ lnSession' = IF lnSession = None THEN None ELSE lnSession \cup {"task_quality"}
    /\ LnGoes(c, LnIdle)
    /\ UNCHANGED <<lnFrequency, lnSuccess, lnTold, lnUnsure, lnTwice>>

----------------------------------------------------------------------------
\* /feedback: the feedback, the rating and, of "prefer ...", the preferred approach.
LnFeedback(prefers) ==
    /\ lnSession # None
    /\ lnSession' = lnSession \cup {"feedback", "task_rating"}
                       \cup IF prefers THEN {"preferred_approach"} ELSE {}
    /\ UNCHANGED <<lnFrequency, lnSuccess, lnCall, lnTold, lnUnsure, lnTwice>>
\* maybe_apply_preferred_approach: a turn reads it.
LnPrefers ==
    /\ lnSession # None /\ "preferred_approach" \in lnSession
    /\ UNCHANGED lnVars

\* Deleting the session deletes what is below it; the patterns belong to the agent.
LnSessionDeleted ==
    /\ lnSession # None /\ lnSession' = None
    /\ UNCHANGED <<lnFrequency, lnSuccess, lnCall, lnTold, lnUnsure, lnTwice>>
LnSessionOpened ==
    /\ lnSession = None /\ lnSession' = {}
    /\ UNCHANGED <<lnFrequency, lnSuccess, lnCall, lnTold, lnUnsure, lnTwice>>
\* The program ends, or a statement fails.
LnDies(c) ==
    /\ lnCall[c].at # "idle" /\ LnGoes(c, LnIdle)
    /\ UNCHANGED <<lnFrequency, lnSuccess, lnSession, lnTold, lnUnsure, lnTwice>>

LnInit ==
    /\ lnFrequency = [k \in LnMistakes |-> 0]
    /\ lnSuccess = <<>>
    /\ lnSession = {}
    /\ lnCall = [c \in LnCallers |-> LnIdle]
    /\ lnTold = [k \in LnMistakes |-> 0]
    /\ lnUnsure = {}
    /\ lnTwice = {}

LnMistakeNext ==
    \/ LnWarns
    \/ \E c \in LnCallers :
        \/ \E k \in LnMistakes, implicit \in BOOLEAN : LnMistakeRead(c, k, implicit)
        \/ LnMistakeStored(c) \/ LnImplicitStored(c)
LnSuccessNext ==
    \E c \in LnCallers :
        \/ \E w \in LnTasks : LnSuccessRead(c, w)
        \/ LnSuccessStored(c) \/ LnQualityStored(c)
LnUserNext ==
    \/ LnPrefers
    \/ \E prefers \in BOOLEAN : LnFeedback(prefers)
LnSessionNext ==
    \/ LnSessionDeleted \/ LnSessionOpened
    \/ \E c \in LnCallers : LnDies(c)

----------------------------------------------------------------------------
\* However the recordings of a mistake mix, its frequency is never more than the times it
\* was recorded; and it is exactly that when they came one after the other and the row
\* was among those listed: a mistake made LnWarnAt times is warned of.
LnCounts ==
    \A k \in LnMistakes :
        /\ lnFrequency[k] <= lnTold[k]
        /\ k \notin lnUnsure => lnFrequency[k] = lnTold[k]

\* Successes at one task are counted in one row of its category: there are two only when
\* two were recorded at once, the row was past the limit, or the task has no word of three
\* letters, which is similar to nothing, itself included.
LnOneRow ==
    \A i \in DOMAIN lnSuccess : \A j \in DOMAIN lnSuccess \ {i} :
        LET w == [task |-> lnSuccess[i].task, category |-> lnSuccess[i].category]
        IN w = [task |-> lnSuccess[j].task, category |-> lnSuccess[j].category]
               => w \in lnTwice \/ LnWords(w.task) = {}

\* What was learned is counted once, and in one place.
LnTallies == LnCounts /\ LnOneRow

LnSpec == LnInit /\ [][LnMistakeNext \/ LnSuccessNext \/ LnUserNext \/ LnSessionNext]_lnVars
=============================================================================
