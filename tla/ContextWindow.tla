--------------------------- MODULE ContextWindow ---------------------------
(***************************************************************************)
(* What an agent and an agent it calls are shown of a session              *)
(* (agents/memory.rs, agents/context.rs, agents/coordinator.rs).  A text   *)
(* is the set of its words, each worth a token.                            *)
(***************************************************************************)
EXTENDS Common, Naturals, Sequences, FiniteSets, SequencesExt

CONSTANTS WinAgents,       \* agents, named by their trigger_mode
          WinSize,         \* tokens the system prompt leaves of context_window_size
          WinThreshold,    \* message_window_threshold
          WinPercent,      \* token_threshold_percent
          WinMaxEntries,   \* summary_cache_max_entries
          WinMaxMessages   \* bound: messages of the session

ASSUME WinConstants == WinMaxEntries \in Nat /\ WinSize \in Nat

VARIABLES
    winSession,  \* the messages of the session
    winOrder,    \* agent -> the keys of its summaries, oldest first
    winEntries   \* agent -> the summaries its cache holds

winVars == <<winSession, winOrder, winEntries>>

WinMessages ==
    {[role |-> "user", words |-> {"fix", "parser"}], [role |-> "user", words |-> {"plan"}],
     [role |-> "assistant", words |-> {"parser", "trace", "a"}],
     [role |-> "tool", words |-> {"log"}], [role |-> "assistant", words |-> {"error", "c"}]}
WinKeywords == {"parser", "plan", "trace", "error"}   \* words of four letters or more
WinTokens(m) == Cardinality(m.words)
\* What the messages at these places are worth.
WinSum(msgs, places) ==
    LET upTo[n \in 0..Len(msgs)] ==
            IF n = 0 THEN 0 ELSE upTo[n - 1] + (IF n \in places THEN WinTokens(msgs[n]) ELSE 0)
    IN upTo[Len(msgs)]

\* deduplicate: of equal messages the newest, which is seen first, stays.
WinDeduplicated(msgs) ==
    LET newest[n \in 0..Len(msgs)] ==
            IF n = 0 THEN <<>>
            ELSE LET m == msgs[Len(msgs) + 1 - n]
                     seen == newest[n - 1]
                 IN IF m \in Range(seen) THEN seen ELSE <<m>> \o seen
    IN newest[Len(msgs)]

WinLastUser(msgs) ==
    LET Users == {i \in 1..Len(msgs) : msgs[i].role = "user"}
    IN IF Users = {} THEN {} ELSE msgs[CHOOSE i \in Users : \A j \in Users : j <= i].words
WinProfile(msgs) ==
    IF WinLastUser(msgs) \cap {"debug", "fix", "error", "panic"} # {} THEN "debug"
    ELSE IF WinLastUser(msgs) \cap {"plan", "design", "roadmap"} # {} THEN "planning"
    ELSE "balanced"
WinScore(m, keywords, profile) ==
    IF m.role = "system" THEN 4
    ELSE IF m.role = "tool" \/ m.words \cap {"error", "failed", "permission"} # {} THEN 3
    ELSE IF profile = "debug" /\ m.words \cap {"trace", "panic"} # {} THEN 4
    ELSE IF \/ profile = "planning" /\ m.words \cap {"plan", "design"} # {}
            \/ m.words \cap keywords # {} THEN 3
    ELSE IF m.role \in {"user", "assistant"} THEN 2 ELSE 1

(* build_context_window: the important first, of them the newer, whatever still fits. *)
WinScored(session) ==
    LET msgs == WinDeduplicated(session)
    IN [i \in 1..Len(msgs) |->
           [role |-> msgs[i].role, words |-> msgs[i].words,
            score |-> WinScore(msgs[i], WinLastUser(session) \cap WinKeywords, WinProfile(session))]]
\* One importance: from the newest message to the oldest.
WinTaking_OldestFirst(msgs, budget, score, before) ==
    LET taken[n \in 0..Len(msgs)] ==
            IF n = 0 THEN before
            ELSE LET more == taken[n - 1] \cup {n}
                 IN IF msgs[n].score = score /\ WinSum(msgs, more) <= budget THEN more ELSE taken[n - 1]
    IN taken[Len(msgs)]
WinTaking(msgs, budget, score, before) ==
    LET taken[n \in 0..Len(msgs)] ==
            IF n = 0 THEN before
            ELSE LET i == Len(msgs) + 1 - n
                     more == taken[n - 1] \cup {i}
                 IN IF msgs[i].score = score /\ WinSum(msgs, more) <= budget THEN more ELSE taken[n - 1]
    IN taken[Len(msgs)]
WinSelected(msgs, budget) ==
    LET critical == WinTaking(msgs, budget, 4, {})
        high == WinTaking(msgs, budget, 3, critical)
        medium == WinTaking(msgs, budget, 2, high)
    IN WinTaking(msgs, budget, 1, medium)

(* get_or_create_summary of what is left out *)
WinOmitted(msgs, budget) ==
    LET omitted == SetToSortSeq(DOMAIN msgs \ WinSelected(msgs, budget), <)
    IN [k \in DOMAIN omitted |-> <<msgs[omitted[k]].role, msgs[omitted[k]].words>>]
WinSummarises(a, msgs, budget) ==
    LET omitted == Len(WinOmitted(msgs, budget))
        pressure == WinSum(msgs, WinSelected(msgs, budget)) * 100
    IN /\ omitted > 0
       /\ \/ a # "token_threshold" /\ omitted >= WinThreshold
          \/ a \in {"token_threshold", "hybrid"} /\ pressure >= WinPercent * budget
WinKept(order) == SubSeq(order, Len(order) - WinMaxEntries + 1, Len(order))
WinEvict_OrderOnly(order, entries) == entries
WinEvict(order, entries) == {e \in entries : e.key \in Range(WinKept(order))}

WinSays(m) ==
    /\ Len(winSession) < WinMaxMessages
    /\ winSession' = Append(winSession, m)
    /\ UNCHANGED <<winOrder, winEntries>>
\* A provider that fails or is late leaves the summary to the heuristic.
WinWriters == {"provider", "heuristic"}
WinSummary(a, key, writer) ==
    IF \E e \in winEntries[a] : e.key = key
    THEN UNCHANGED <<winOrder, winEntries>>
    ELSE LET order == Append(winOrder[a], key)
             entries == winEntries[a] \cup {[key |-> key, writer |-> writer]}
         IN IF Len(order) <= WinMaxEntries
            THEN /\ winOrder' = [winOrder EXCEPT ![a] = order]
                 /\ winEntries' = [winEntries EXCEPT ![a] = entries]
            ELSE /\ winOrder' = [winOrder EXCEPT ![a] = WinKept(order)]
                 /\ winEntries' = [winEntries EXCEPT ![a] = WinEvict(order, entries)]
WinTurn(a, writer) ==
    /\ LET msgs == WinScored(winSession)
       IN IF WinSummarises(a, msgs, WinSize)
          THEN WinSummary(a, WinOmitted(msgs, WinSize), writer)
          ELSE UNCHANGED <<winOrder, winEntries>>
    /\ UNCHANGED winSession

(* build_sub_agent_context *)
WinFilters ==
    [roles : {{"user", "assistant", "tool"}, {"user", "tool"}}, words : {{}, {"parser", "fix"}},
     all : BOOLEAN, tools : BOOLEAN, last : {1, 2}, workspace : BOOLEAN, budget : {0, 3}]
WinPasses(m, f) ==
    /\ m.role \in f.roles
    /\ f.words = {} \/ IF f.all THEN f.words \subseteq m.words ELSE f.words \cap m.words # {}
    /\ f.tools \/ m.role # "tool"
WinPassing(msgs, f) ==
    LET passing[n \in 0..Len(msgs)] ==
            IF n = 0 THEN <<>>
            ELSE IF WinPasses(msgs[n], f) THEN Append(passing[n - 1], msgs[n]) ELSE passing[n - 1]
    IN passing[Len(msgs)]
WinLast(msgs, f) ==
    LET passing == WinPassing(msgs, f)
    IN SubSeq(passing, IF f.last < Len(passing) THEN Len(passing) - f.last + 1 ELSE 1, Len(passing))
WinWorkspace == [role |-> "system", words |-> {"cwd"}]
WinSubTokens(m) == WinTokens(m) + IF m.role = "assistant" THEN 2 ELSE 1
WinSubTotal(msgs) == FoldLeft(LAMBDA n, m : n + WinSubTokens(m), 0, msgs)
\* trim_to_token_budget: what does not fit is skipped, older messages may still.
WinTrim(msgs, budget) ==
    IF budget = 0 THEN msgs
    ELSE FoldRight(LAMBDA m, taken : IF WinSubTotal(taken) + WinSubTokens(m) > budget THEN taken
                                     ELSE <<m>> \o taken,
                   msgs, <<>>)
WinSubContext(session, f) ==
    WinTrim((IF f.workspace THEN <<WinWorkspace>> ELSE <<>>) \o WinLast(session, f), f.budget)

WinInit ==
    /\ winSession = <<>>
    /\ winOrder = [a \in WinAgents |-> <<>>] /\ winEntries = [a \in WinAgents |-> {}]
WinNext ==
    \/ \E m \in WinMessages : WinSays(m)
    \/ \E a \in WinAgents, writer \in WinWriters : WinTurn(a, writer)

\* Whatever a window leaves out would not have fitted beside what goes before it: the
\* more important messages and, of the same importance, the newer ones.
WinNoneDisplaced == winSession # <<>> => \A budget \in 0..WinSize + 2 :
    LET msgs == WinScored(winSession)
        S == WinSelected(msgs, budget)
        Before(i) == {j \in S : \/ msgs[j].score > msgs[i].score
                                \/ msgs[j].score = msgs[i].score /\ j > i}
    IN \A i \in DOMAIN msgs \ S : WinSum(msgs, Before(i)) + WinTokens(msgs[i]) > budget

\* The cache of summaries is bounded, and every summary in it can still be evicted.
WinCacheBounded == \A a \in WinAgents :
    /\ Cardinality(winEntries[a]) = Len(winOrder[a]) /\ Len(winOrder[a]) <= WinMaxEntries
    /\ {e.key : e \in winEntries[a]} = Range(winOrder[a])

\* With no budget, an agent that is called is shown as many of the messages that pass its
\* filter as it asked for, if the session has them, wherever they are, besides the summary
\* of the workspace.
WinShownEnough == winSession # <<>> => \A f \in WinFilters :
    LET Passing == {i \in DOMAIN winSession : WinPasses(winSession[i], f)}
        shown == Len(WinSubContext(winSession, f)) - (IF f.workspace THEN 1 ELSE 0)
    IN f.budget = 0 => shown = IF f.last < Cardinality(Passing) THEN f.last ELSE Cardinality(Passing)

\* Windows and filters leave out only what they must.
WinKeepsWhatFits == WinNoneDisplaced /\ WinShownEnough

WinSpec == WinInit /\ [][WinNext]_winVars
=============================================================================
