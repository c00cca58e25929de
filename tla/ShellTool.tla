----------------------------- MODULE ShellTool -----------------------------
(***************************************************************************)
(* The shell tool (tools/shell.rs): one command per call, several calls at *)
(* a time, with a cache of sudo passwords per session.  The cache is read  *)
(* when a command starts and written when it ends, under a lock that is    *)
(* taken for each of these alone.                                          *)
(***************************************************************************)
EXTENDS Common, Naturals, FiniteSets

CONSTANTS
    ShCallers, ShSessions, ShPasswords,
    ShTtl,          \* sudo_cache_ttl_secs, in ticks
    ShClock         \* bound on the clock, for TLC

ASSUME ShConstants ==
    ShTtl \in Nat /\ ShClock \in Nat /\ None \notin ShPasswords \cup ShSessions

\* What a command is to the policy of the tool: sudo is command_requires_sudo,
\* denied and listed are its place in denied_commands and allowed_commands, writes
\* is a match with the patterns blocked in read_only mode.
ShCommands == [sudo : BOOLEAN, denied : BOOLEAN, listed : BOOLEAN, writes : BOOLEAN]

VARIABLES
    shNow,      \* the clock
    shReal,     \* the password sudo accepts
    shCache,    \* sudo_password_cache: a password and the time it expires at
    shCall,     \* each caller's command
    shProven    \* history: passwords that have worked, per session

shVars == <<shNow, shReal, shCache, shCall, shProven>>

ShEmpty == [pw |-> None, until |-> 0]
ShIdle == [pc |-> "idle", sess |-> None, sudo |-> FALSE, pw |-> None,
           cached |-> FALSE, until |-> 0]

\* cleanup_expired_sudo_passwords: entries that expire now go as well.
ShFresh(cache) == [s \in ShSessions |-> IF cache[s].until > shNow THEN cache[s] ELSE ShEmpty]

\* stream_execute: validate_command and enforce_agent_permission refuse before
\* anything is changed.
ShAllowed(cmd, readOnly) == ~cmd.denied /\ cmd.listed /\ ~(readOnly /\ cmd.writes)

\* stream_command begins: the cache is cleaned, and the working directory resolved
\* before the password is looked for.  given: the argument _sudo_password.
ShBegin(c, s, cmd, readOnly, given) ==
    /\ shCall[c].pc = "idle"
    /\ ShAllowed(cmd, readOnly)
    /\ shCache' = ShFresh(shCache)
    /\ shCall' = [shCall EXCEPT ![c] = [ShIdle EXCEPT
            !.pc = "resolve", !.sess = s, !.sudo = cmd.sudo,
            !.pw = IF cmd.sudo THEN given ELSE None]]
    /\ UNCHANGED <<shNow, shReal, shProven>>

\* The directory cannot be resolved.
ShNoDirectory(c) ==
    /\ shCall[c].pc = "resolve"
    /\ shCall' = [shCall EXCEPT ![c] = ShIdle]
    /\ UNCHANGED <<shNow, shReal, shCache, shProven>>

\* get_cached_password: cleans the cache again and reads it.
ShLookUp_NotCleaned == shCache
ShLookUp == ShFresh(shCache)

\* The command starts with the password that was given, or the cached one; a sudo
\* command that has neither is refused.
ShSpawn(c) ==
    /\ shCall[c].pc = "resolve"
    /\ LET k == shCall[c]
           asks == k.sudo /\ k.pw = None
           entry == ShLookUp[k.sess] IN
       /\ shCache' = IF asks THEN ShLookUp ELSE shCache
       /\ shCall' = [shCall EXCEPT ![c] =
            IF asks /\ entry.pw = None THEN ShIdle
            ELSE [k EXCEPT !.pc = "run", !.pw = IF asks THEN entry.pw ELSE k.pw,
                           !.cached = asks, !.until = IF asks THEN entry.until ELSE 0]]
    /\ UNCHANGED <<shNow, shReal, shProven>>

\* The command exits with 0, which needs a right password if sudo asks for one.
ShWorks(c) ==
    /\ shCall[c].pc = "run"
    /\ shCall[c].sudo => shCall[c].pw = shReal
    /\ shCall' = [shCall EXCEPT ![c].pc = "ok"]
    /\ shProven' = IF shCall[c].sudo
                   THEN [shProven EXCEPT ![shCall[c].sess] = @ \cup {shCall[c].pw}] ELSE shProven
    /\ UNCHANGED <<shNow, shReal, shCache>>

\* sudo refuses the password, or the command has an exit code of its own.
ShExits(c) ==
    /\ shCall[c].pc = "run"
    /\ shCall' = [shCall EXCEPT ![c].pc = "bad"]
    /\ UNCHANGED <<shNow, shReal, shCache, shProven>>

\* The end of a sudo command: success caches its password anew, failure clears the
\* session's, whichever it is by then.
ShStore_AnyExit(c) == TRUE
ShStore(c) == shCall[c].pc = "ok"
ShEnd(c) ==
    /\ shCall[c].pc \in {"ok", "bad"}
    /\ LET k == shCall[c] IN
       shCache' = IF ~k.sudo THEN shCache
                  ELSE [shCache EXCEPT ![k.sess] =
                        IF ShStore(c) THEN [pw |-> k.pw, until |-> shNow + ShTtl] ELSE ShEmpty]
    /\ shCall' = [shCall EXCEPT ![c] = ShIdle]
    /\ UNCHANGED <<shNow, shReal, shProven>>

\* The timeout, the cancellation token, or the caller going away: the child is
\* killed and the cache left alone.
ShKilled(c) ==
    /\ shCall[c].pc \in {"run", "ok", "bad"}
    /\ shCall' = [shCall EXCEPT ![c] = ShIdle]
    /\ UNCHANGED <<shNow, shReal, shCache, shProven>>

ShTick == shNow < ShClock /\ shNow' = shNow + 1 /\ UNCHANGED <<shReal, shCache, shCall, shProven>>

\* The password of the account is changed.
ShPasswordChanges ==
    /\ shReal' \in ShPasswords \ {shReal}
    /\ UNCHANGED <<shNow, shCache, shCall, shProven>>

ShInit ==
    /\ shNow = 0
    /\ shReal = CHOOSE p \in ShPasswords : TRUE
    /\ shCache = [s \in ShSessions |-> ShEmpty]
    /\ shCall = [c \in ShCallers |-> ShIdle]
    /\ shProven = [s \in ShSessions |-> {}]

ShStep(c) ==
    \/ /\ shCall[c].pc = "idle"
       /\ \E s \in ShSessions, cmd \in ShCommands, r \in BOOLEAN, p \in ShPasswords \cup {None} :
                ShBegin(c, s, cmd, r, p)
    \/ ShNoDirectory(c) \/ ShSpawn(c) \/ ShWorks(c) \/ ShExits(c) \/ ShEnd(c) \/ ShKilled(c)

ShNext == (\E c \in ShCallers : ShStep(c)) \/ ShTick \/ ShPasswordChanges

ShSpec == ShInit /\ [][ShNext]_shVars

-----------------------------------------------------------------------------
\* A password is offered to later commands of a session only if a sudo command of
\* that session has worked with it: commands that fail, are killed or end in
\* another order than they started never put theirs in the cache.
ShCacheProven ==
    \A s \in ShSessions : shCache[s].pw # None => shCache[s].pw \in shProven[s]

\* A command never starts with a cached password past its time: the cache is
\* cleaned again after the working directory is resolved, however long that took.
ShNeverExpired ==
    [][\A c \in ShCallers :
        shCall'[c].pc = "run" /\ shCall[c].pc = "resolve" /\ shCall'[c].cached
            => shCall'[c].until > shNow]_shVars
=============================================================================
