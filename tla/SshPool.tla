------------------------------ MODULE SshPool ------------------------------
(***************************************************************************)
(* The pool of persistent ssh sessions of tools/ssh.rs.  A session is a    *)
(* name in a map and a control master, an ssh process in the background    *)
(* reached through a socket whose path is made from the name.  The two are *)
(* changed by different steps: connect holds the map across the handshake, *)
(* the other operations lock it only to look up or to remove an entry.     *)
(***************************************************************************)
EXTENDS Common, Naturals, FiniteSets

CONSTANTS
    SshCallers, SshNames, SshHosts,
    SshSocket(_)      \* build_control_path: distinct names may share a path

SshPaths == {SshSocket(n) : n \in SshNames}

ASSUME SshConstants == None \notin SshNames \cup SshHosts \cup SshCallers \cup SshPaths

VARIABLES
    sshSessions,   \* sessions: the host of each name, or None
    sshLock,       \* the caller that holds the map over its handshake, or None
    sshMaster,     \* the host of the live master behind each path, or None
    sshCall,       \* each caller's operation
    sshTold        \* history: paths whose master outlived a call that failed

sshVars == <<sshSessions, sshLock, sshMaster, sshCall, sshTold>>

SshIdle == [op |-> "idle", name |-> None, host |-> None, todo |-> {}]

\* enforce_agent_permission: read_only mode allows only exec, list and download.
SshMay(readOnly, op) == readOnly => op \in {"exec", "list_sessions", "scp_download"}

SshExists(n) == sshSessions[n] # None

\* connect_session up to the handshake: the name is looked up under the lock,
\* which is kept.
SshUnused_NotLookedUp(n) == sshLock = None
SshUnused(n) == sshLock = None /\ ~SshExists(n)
SshHold_LookUpOnly(c) == UNCHANGED sshLock
SshHold(c) == sshLock' = c

SshConnect(c, n, h, ro) ==
    /\ sshCall[c].op = "idle" /\ SshMay(ro, "connect")
    /\ SshUnused(n)
    /\ SshHold(c)
    /\ sshCall' = [sshCall EXCEPT ![c] = [op |-> "connect", name |-> n, host |-> h, todo |-> {}]]
    /\ UNCHANGED <<sshSessions, sshMaster, sshTold>>

\* ssh -M -N -f: a master comes up behind the socket; when one is there already
\* the new connection goes without a socket, and the exit code is 0 as well.
SshMasterUp(p, h) == IF sshMaster[p] = None THEN [sshMaster EXCEPT ![p] = h] ELSE sshMaster

SshConnected(c) ==
    /\ sshCall[c].op = "connect"
    /\ sshMaster' = SshMasterUp(SshSocket(sshCall[c].name), sshCall[c].host)
    /\ sshSessions' = [sshSessions EXCEPT ![sshCall[c].name] = sshCall[c].host]
    /\ sshLock' = None
    /\ sshCall' = [sshCall EXCEPT ![c] = SshIdle]
    /\ UNCHANGED sshTold

\* The handshake fails, or times out and ssh is killed, or the caller drops the
\* call: ssh may have gone to the background by then.
SshConnectFails(c) ==
    /\ sshCall[c].op = "connect"
    /\ LET p == SshSocket(sshCall[c].name) IN
         \/ UNCHANGED <<sshMaster, sshTold>>
         \/ /\ sshMaster' = SshMasterUp(p, sshCall[c].host)
            /\ sshTold' = sshTold \cup {p}
    /\ sshLock' = None
    /\ sshCall' = [sshCall EXCEPT ![c] = SshIdle]
    /\ UNCHANGED sshSessions

\* exec_command, scp_upload, scp_download: the session is copied under the lock
\* and used after it.
SshUse(c, n, op, ro) ==
    /\ sshCall[c].op = "idle" /\ SshMay(ro, op)
    /\ sshLock = None /\ SshExists(n)
    /\ sshCall' = [sshCall EXCEPT ![c] = [op |-> "run", name |-> n, host |-> sshSessions[n], todo |-> {}]]
    /\ UNCHANGED <<sshSessions, sshLock, sshMaster, sshTold>>
SshExec(c, n, ro) == SshUse(c, n, "exec", ro)
SshUpload(c, n, ro) == SshUse(c, n, "scp_upload", ro)
SshDownload(c, n, ro) == SshUse(c, n, "scp_download", ro)

\* The command runs over the master, or over a connection of its own to the host
\* of the copy; it ends, fails or is killed.
SshExecEnds(c) ==
    /\ sshCall[c].op = "run"
    /\ sshCall' = [sshCall EXCEPT ![c] = SshIdle]
    /\ UNCHANGED <<sshSessions, sshLock, sshMaster, sshTold>>

\* disconnect_session forgets the session first, then tells its master to exit.
\* todo: what close_all has still to close.
SshForget(c, n, rest) ==
    /\ sshLock = None /\ SshExists(n)
    /\ sshSessions' = [sshSessions EXCEPT ![n] = None]
    /\ sshCall' = [sshCall EXCEPT ![c] =
            [op |-> "exit", name |-> n, host |-> sshSessions[n], todo |-> rest]]
    /\ UNCHANGED <<sshLock, sshMaster, sshTold>>

SshDisconnect(c, n, ro) ==
    /\ sshCall[c].op = "idle" /\ SshMay(ro, "disconnect")
    /\ SshForget(c, n, {})

SshExitWorks(c) ==
    /\ sshCall[c].op = "exit"
    /\ LET p == SshSocket(sshCall[c].name) IN
         /\ sshMaster[p] # None
         /\ sshMaster' = [sshMaster EXCEPT ![p] = None]
         /\ sshTold' = sshTold \ {p}
    /\ sshCall' = [sshCall EXCEPT ![c] =
            IF sshCall[c].todo = {} THEN SshIdle ELSE [SshIdle EXCEPT !.op = "close", !.todo = sshCall[c].todo]]
    /\ UNCHANGED <<sshSessions, sshLock>>

SshTell(c) ==
    LET p == SshSocket(sshCall[c].name) IN
    sshTold' = IF sshMaster[p] # None THEN sshTold \cup {p} ELSE sshTold

\* No master answers (ssh exits with a code), or the exit command times out or is
\* dropped with the call: the caller gets an error and close_all stops.
SshExitFails(c) ==
    /\ sshCall[c].op = "exit"
    /\ SshTell(c)
    /\ sshCall' = [sshCall EXCEPT ![c] = SshIdle]
    /\ UNCHANGED <<sshSessions, sshLock, sshMaster>>

\* close_all_sessions: a snapshot of the names, closed one after the other; a name
\* that somebody closed meanwhile is an error and ends it.
SshCloseAll(c, ro) ==
    /\ sshCall[c].op = "idle" /\ SshMay(ro, "close_all")
    /\ sshLock = None
    /\ LET names == {n \in SshNames : SshExists(n)} IN
         /\ names # {}
         /\ sshCall' = [sshCall EXCEPT ![c] = [SshIdle EXCEPT !.op = "close", !.todo = names]]
    /\ UNCHANGED <<sshSessions, sshLock, sshMaster, sshTold>>

SshCloseNext(c) ==
    /\ sshCall[c].op = "close"
    /\ \E n \in sshCall[c].todo :
         \/ SshForget(c, n, sshCall[c].todo \ {n})
         \/ /\ sshLock = None /\ ~SshExists(n)
            /\ sshCall' = [sshCall EXCEPT ![c] = SshIdle]
            /\ UNCHANGED <<sshSessions, sshLock, sshMaster, sshTold>>

\* A master goes: its connection is lost, or ControlPersist has run out.
SshMasterDies(p) ==
    /\ sshMaster[p] # None
    /\ sshMaster' = [sshMaster EXCEPT ![p] = None]
    /\ sshTold' = sshTold \ {p}
    /\ UNCHANGED <<sshSessions, sshLock, sshCall>>

SshInit ==
    /\ sshSessions = [n \in SshNames |-> None]
    /\ sshLock = None
    /\ sshMaster = [p \in SshPaths |-> None]
    /\ sshCall = [c \in SshCallers |-> SshIdle]
    /\ sshTold = {}

SshStep(c) ==
    \/ \E ro \in BOOLEAN :
        \/ \E n \in SshNames, h \in SshHosts : SshConnect(c, n, h, ro)
        \/ \E n \in SshNames :
              SshExec(c, n, ro) \/ SshUpload(c, n, ro) \/ SshDownload(c, n, ro) \/ SshDisconnect(c, n, ro)
        \/ SshCloseAll(c, ro)
    \/ SshConnected(c) \/ SshConnectFails(c) \/ SshExecEnds(c)
    \/ SshExitWorks(c) \/ SshExitFails(c) \/ SshCloseNext(c)

SshNext == (\E c \in SshCallers : SshStep(c)) \/ (\E p \in SshPaths : SshMasterDies(p))

SshSpec == SshInit /\ [][SshNext]_sshVars

-----------------------------------------------------------------------------
\* Paths some call is about to close, and paths a listed session uses.
SshClosing == {SshSocket(sshCall[c].name) : c \in {d \in SshCallers : sshCall[d].op = "exit"}}
SshListed == {SshSocket(n) : n \in {m \in SshNames : SshExists(m)}}

\* A master is never left running without a session that reaches it unless the
\* caller was told: the entry goes before the master does, so between the two the
\* master belongs to the call that closes it.
SshNoForgottenMaster ==
    \A p \in SshPaths : sshMaster[p] # None => p \in SshListed \cup SshClosing \cup sshTold

\* The master behind a session's socket belongs to the session's host, except in
\* the cases the code leaves open: another name shares the path, a call that
\* closes the previous session of that path is not done, or one has failed.
SshOwnHost ==
    \A n \in SshNames :
        LET p == SshSocket(n) IN
        SshExists(n) /\ sshMaster[p] # None =>
            \/ sshMaster[p] = sshSessions[n]
            \/ p \in SshClosing \cup sshTold
            \/ \E m \in SshNames \ {n} : SshSocket(m) = p

\* What the map of sessions says of the masters that run.
SshAgrees == SshNoForgottenMaster /\ SshOwnHost

\* A session that is listed is never replaced by another: two connects with one
\* name cannot both pass the check, because the map is held until the insert.
SshNotReplaced ==
    [][\A n \in SshNames : SshExists(n) => sshSessions'[n] \in {sshSessions[n], None}]_sshVars
=============================================================================
