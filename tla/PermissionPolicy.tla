-------------------------- MODULE PermissionPolicy --------------------------
(***************************************************************************)
(* The in-memory permission policy of rustic-ai-core                       *)
(* (permissions/configurable_policy.rs): every tool call is checked        *)
(* against the agent's mode and tool list, the shell command patterns, the *)
(* allowed directories, the mode configured for the tool and, for tools in *)
(* ask mode, two bounded caches of what the user answered before.          *)
(*                                                                         *)
(* A member of Calls is one (tool, arguments) pair: its cache key is the   *)
(* session it is made in and the call itself.  A pattern is the set of     *)
(* shell calls it matches, a path the set of directories it lies under.    *)
(***************************************************************************)
EXTENDS Integers, FiniteSets

CONSTANTS
    Sessions,        \* sessions that share the policy
    Agents,          \* agents that make calls
    Tools, Calls,    \* tools, and the calls that can be made to them
    ToolOf,          \* the tool of a call
    AccessOf,        \* "Read", "Write" or "Unknown": inferred access of a call
    Mode,            \* "Allow", "Ask" or "Deny": mode configured for a tool
    ReadOnlyAgents,  \* agents with permission_mode read_only
    AgentTools,      \* the tool list of an agent
    Patterns,        \* shell command patterns
    Matches,         \* the shell calls a pattern matches
    ConfigPatterns,  \* patterns of the configuration, per bucket
    Dirs,            \* directories that can be allowed
    ConfigDirs,      \* directories of the configuration, the project root too
    PathsOf,         \* a call's path operands, each a set of enclosing Dirs
    CacheMax,        \* permission_cache_max_entries
    DenyWindow,      \* remember_denied_duration_secs
    MaxTime          \* bound on the clock, for TLC

Buckets == {"allow", "ask", "deny"}
Answers == {"AllowOnce", "AllowInSession", "Deny"}
Decisions == {"Allow", "Ask", "Deny"}
Keys == Sessions \X Calls
Scopes == {"global", "project"} \cup Sessions

ASSUME PolicyConstants ==
    /\ ToolOf \in [Calls -> Tools]
    /\ AccessOf \in [Calls -> {"Read", "Write", "Unknown"}]
    /\ Mode \in [Tools -> Decisions]
    /\ ReadOnlyAgents \subseteq Agents
    /\ AgentTools \in [Agents -> SUBSET Tools]
    /\ Matches \in [Patterns -> SUBSET Calls]
    /\ ConfigPatterns \in [Buckets -> SUBSET Patterns]
    /\ ConfigDirs \subseteq Dirs
    /\ PathsOf \in [Calls -> SUBSET SUBSET Dirs]
    /\ CacheMax \in Nat /\ DenyWindow \in Nat /\ MaxTime \in Nat
    /\ {"global", "project"} \cap Sessions = {}

VARIABLES
    allowed,    \* allowed_cache: keys; every DecisionScope is honoured alike
    denied,     \* denied_cache: key -> expiry
    patterns,   \* patterns added at run time, per scope and bucket
    dirs,       \* directories added at run time, per scope
    now,        \* the clock, in seconds
    consented   \* history: keys the user has ever answered "allow" for

policyVars == <<allowed, denied, patterns, dirs, now, consented>>

-----------------------------------------------------------------------------
(* check_tool_permission *)

ScopesOf(s) == {"global", "project", s}

\* Faulty variant: an allow pattern overrules the other buckets.
PatternHit_AllowWins(b, s, c) ==
    LET hit(x) == \E p \in ConfigPatterns[x] \cup
                        UNION {patterns[sc][x] : sc \in ScopesOf(s)} : c \in Matches[p]
    IN  hit(b) /\ ~hit("allow")

PatternHit(b, s, c) ==
    \E p \in ConfigPatterns[b] \cup UNION {patterns[sc][b] : sc \in ScopesOf(s)} :
        c \in Matches[p]

PathsAllowed(s, c) ==
    \A path \in PathsOf[c] :
        path \cap (ConfigDirs \cup UNION {dirs[sc] : sc \in ScopesOf(s)}) # {}

Forbidden(a, c) ==
    \/ a \in ReadOnlyAgents /\ AccessOf[c] # "Read"
    \/ ToolOf[c] \notin AgentTools[a]

FreshDenial(k) == k \in DOMAIN denied /\ now < denied[k]

\* Faulty variant: the session is left out of the cache key.
Remembered_AnySession(k) ==
    IF FreshDenial(k) THEN "Deny"
    ELSE IF \E s \in Sessions : <<s, k[2]>> \in allowed THEN "Allow" ELSE "Ask"

\* Faulty variant: an expired denial counts as an answer that allows.
Remembered_ExpiredAllows(k) ==
    IF FreshDenial(k) THEN "Deny"
    ELSE IF k \in allowed \cup DOMAIN denied THEN "Allow" ELSE "Ask"

Remembered(k) ==
    IF FreshDenial(k) THEN "Deny" ELSE IF k \in allowed THEN "Allow" ELSE "Ask"

Check(a, s, c) ==
    IF Forbidden(a, c) \/ PatternHit("deny", s, c) THEN "Deny"
    ELSE IF PatternHit("ask", s, c) \/ ~PathsAllowed(s, c) THEN "Ask"
    ELSE IF Mode[ToolOf[c]] = "Ask" THEN Remembered(<<s, c>>)
    ELSE Mode[ToolOf[c]]

-----------------------------------------------------------------------------
(* record_permission and enforce_cache_bounds *)

\* Faulty variant: the bound is tested one entry too late.
Trims_OffByOne(S) ==
    {T \in SUBSET S : Cardinality(T) =
        IF Cardinality(S) > CacheMax + 1 THEN CacheMax ELSE Cardinality(S)}

\* The entries that survive: all of them, or any CacheMax of them (the victim
\* is whatever key the hash map yields first, the newest included).
Trims(S) ==
    {T \in SUBSET S : Cardinality(T) =
        IF Cardinality(S) > CacheMax THEN CacheMax ELSE Cardinality(S)}

DeniedWith(k) ==
    [x \in DOMAIN denied \cup {k} |-> IF x = k THEN now + DenyWindow ELSE denied[x]]

\* Faulty variant: an overflow of the allowed cache clears the denials.
RecordAllow_ClearsDenied(k) ==
    /\ allowed' \in Trims(allowed \cup {k})
    /\ denied' = IF Cardinality(allowed \cup {k}) > CacheMax
                 THEN [x \in {} |-> 0] ELSE denied
    /\ consented' = consented \cup {k}

RecordAllow(k) ==
    /\ allowed' \in Trims(allowed \cup {k})
    /\ \E T \in Trims(DOMAIN denied) : denied' = [x \in T |-> denied[x]]
    /\ consented' = consented \cup {k}

RecordDeny(k) ==
    /\ allowed' \in Trims(allowed)
    /\ \E T \in Trims(DOMAIN denied \cup {k}) :
          denied' = [x \in T |-> DeniedWith(k)[x]]
    /\ UNCHANGED consented

Record(s, c, answer) ==
    /\ IF answer = "Deny" THEN RecordDeny(<<s, c>>) ELSE RecordAllow(<<s, c>>)
    /\ UNCHANGED <<patterns, dirs, now>>

AddPattern(sc, b, p) ==
    /\ patterns' = [patterns EXCEPT ![sc][b] = @ \cup {p}]
    /\ UNCHANGED <<allowed, denied, dirs, now, consented>>

AddDir(sc, d) ==
    /\ dirs' = [dirs EXCEPT ![sc] = @ \cup {d}]
    /\ UNCHANGED <<allowed, denied, patterns, now, consented>>

Tick ==
    /\ now < MaxTime
    /\ now' = now + 1
    /\ UNCHANGED <<allowed, denied, patterns, dirs, consented>>

-----------------------------------------------------------------------------
PolicyInit ==
    /\ allowed = {}
    /\ denied = [k \in {} |-> 0]
    /\ patterns = [sc \in Scopes |-> [b \in Buckets |-> {}]]
    /\ dirs = [sc \in Scopes |-> {}]
    /\ now = 0
    /\ consented = {}

\* An answer may come long after the question: nothing checks that the policy
\* would still ask.
PolicyNext ==
    \/ \E s \in Sessions, c \in Calls, answer \in Answers : Record(s, c, answer)
    \/ \E sc \in Scopes, b \in Buckets, p \in Patterns : AddPattern(sc, b, p)
    \/ \E sc \in Scopes, d \in Dirs : AddDir(sc, d)
    \/ Tick

PolicySpec == PolicyInit /\ [][PolicyNext]_policyVars

-----------------------------------------------------------------------------
PolicyTypeOK ==
    /\ allowed \subseteq Keys
    /\ DOMAIN denied \subseteq Keys
    /\ denied \in [DOMAIN denied -> Nat]
    /\ patterns \in [Scopes -> [Buckets -> SUBSET Patterns]]
    /\ dirs \in [Scopes -> SUBSET Dirs]
    /\ now \in Nat
    /\ consented \subseteq Keys

\* The two caches never hold more than permission_cache_max_entries entries,
\* whatever the order of answers (enforce_cache_bounds).
CacheBounded ==
    /\ IsFiniteSet(allowed) /\ Cardinality(allowed) <= CacheMax
    /\ IsFiniteSet(DOMAIN denied) /\ Cardinality(DOMAIN denied) <= CacheMax

\* A call to a tool in ask mode is let through only in a session whose user
\* said yes to exactly this call: no other session's answer, no pattern, no
\* directory and no eviction stands in for that answer.
AllowNeedsConsent ==
    \A a \in Agents, s \in Sessions, c \in Calls :
        Mode[ToolOf[c]] = "Ask" /\ Check(a, s, c) = "Allow"
            => <<s, c>> \in consented

DenialLifted(k) == FreshDenial(k) /\ ~FreshDenial(k)'
EvictsDenial(k) ==
    /\ k \notin DOMAIN denied'
    /\ Cardinality(DOMAIN denied) = CacheMax
    /\ DOMAIN denied' \ DOMAIN denied # {}

\* A remembered denial is lifted by the clock, or by the answer "deny" given to
\* another call when the cache is full; never by an "allow" or a new rule.
DenialStep == \A k \in Keys :
    DenialLifted(k) => now' >= denied[k] \/ EvictsDenial(k)
DenialHolds == [][DenialStep]_policyVars

\* What a session may do without being asked grows only by an answer to that
\* very call, by a directory allowed in a scope the session sees, or because a
\* denial expired or was evicted: a new command pattern never widens anything
\* and nothing done for one session widens another.
GrowthStep == \A a \in Agents, s \in Sessions, c \in Calls :
    Check(a, s, c) # "Allow" /\ Check(a, s, c)' = "Allow" =>
        \/ <<s, c>> \in allowed' \ allowed
        \/ \E sc \in ScopesOf(s) : dirs'[sc] # dirs[sc]
        \/ DenialLifted(<<s, c>>)
PrivilegeGrowth == [][GrowthStep]_policyVars
=============================================================================
