---------------------------- MODULE ProcessTable ----------------------------
(***************************************************************************)
(* The process tool (tools/process.rs): a table of children, one for the   *)
(* whole program, under one lock.  A child is spawned before the table is  *)
(* locked, and stop takes it out of the table before killing it, with the  *)
(* lock held until it is dead.  Nothing kills a child whose handle is      *)
(* dropped.                                                                *)
(***************************************************************************)
EXTENDS Common, Naturals, FiniteSets

CONSTANTS ProcCallers, ProcPids

ASSUME ProcConstants == None \notin ProcCallers \cup ProcPids

VARIABLES
    procTable,    \* PROCESS_TABLE: "none", or the handle of each pid: "live", or
                  \* "done" when its child was reaped through it
    procState,    \* of each pid: "none", "running", or "exited" and not reaped
    procLock,     \* who holds the lock over an await, or None
    procCall,     \* each caller's action and the pid it is about
    procTold      \* history: running children given up by a call that failed

procVars == <<procTable, procState, procLock, procCall, procTold>>

ProcIdle == [op |-> "idle", pid |-> None]

\* Each action locks the table; enforce_write_permissions keeps start and stop from
\* a read-only agent.
ProcTakes(c, op, readOnly) ==
    /\ procCall[c].op = "idle" /\ procLock = None
    /\ op \in {"start", "stop"} => ~readOnly

\* start: the child is spawned (the system gives it a pid no process has) ...
ProcSpawn(c, pid, readOnly) ==
    /\ procCall[c].op = "idle" /\ ~readOnly
    /\ procState[pid] = "none"
    /\ procState' = [procState EXCEPT ![pid] = "running"]
    /\ procCall' = [procCall EXCEPT ![c] = [op |-> "start", pid |-> pid]]
    /\ UNCHANGED <<procTable, procLock, procTold>>

\* ... and put into the table when the lock is free, over the handle of an earlier
\* process with that pid if one is there.
ProcInsert(c) ==
    /\ procCall[c].op = "start" /\ procLock = None
    /\ procTable' = [procTable EXCEPT ![procCall[c].pid] = "live"]
    /\ procCall' = [procCall EXCEPT ![c] = ProcIdle]
    /\ UNCHANGED <<procState, procLock, procTold>>

\* The caller of start or stop goes away while it waits.
ProcDropped(c) ==
    /\ procCall[c].op # "idle"
    /\ procTold' = IF procState[procCall[c].pid] = "running"
                   THEN procTold \cup {procCall[c].pid} ELSE procTold
    /\ procLock' = IF procLock = c THEN None ELSE procLock
    /\ procCall' = [procCall EXCEPT ![c] = ProcIdle]
    /\ UNCHANGED <<procTable, procState>>

ProcKnown == {p \in ProcPids : procTable[p] # "none"}

\* try_wait on the handles of S reaps the children among them that have exited.
ProcEnded(S) == {p \in S : procTable[p] = "live" /\ procState[p] = "exited"}
ProcReap(S) == [p \in ProcPids |-> IF p \in ProcEnded(S) THEN "none" ELSE procState[p]]
ProcDone(S) == ProcEnded(S) \cup {p \in S : procTable[p] = "done"}
ProcForget_All(S) == [p \in ProcPids |-> IF p \in S THEN "none" ELSE procTable[p]]
ProcForget(S) == [p \in ProcPids |-> IF p \in ProcDone(S) THEN "none" ELSE procTable[p]]

ProcStatus(c, pid) ==
    /\ ProcTakes(c, "status", TRUE)
    /\ pid \in ProcKnown
    /\ procState' = ProcReap({pid}) /\ procTable' = ProcForget({pid})
    /\ UNCHANGED <<procLock, procCall, procTold>>

\* list asks one child after the other and forgets those that are done at the end;
\* an error on one leaves those asked before it reaped and in the table.
ProcList(c) ==
    /\ ProcTakes(c, "list", TRUE)
    /\ \/ procState' = ProcReap(ProcKnown) /\ procTable' = ProcForget(ProcKnown)
       \/ \E S \in SUBSET ProcKnown :
            /\ S # ProcKnown
            /\ procState' = ProcReap(S)
            /\ procTable' = [p \in ProcPids |-> IF p \in ProcEnded(S) THEN "done" ELSE procTable[p]]
    /\ UNCHANGED <<procLock, procCall, procTold>>

\* stop: the handle leaves the table; the lock is held while the child dies.
ProcStop(c, pid, readOnly) ==
    /\ ProcTakes(c, "stop", readOnly)
    /\ procTable[pid] = "live"
    /\ procTable' = [procTable EXCEPT ![pid] = "none"]
    /\ procLock' = c
    /\ procCall' = [procCall EXCEPT ![c] = [op |-> "stop", pid |-> pid]]
    /\ UNCHANGED <<procState, procTold>>

\* A handle that is done cannot be killed: the entry goes and the call fails.
ProcStopDone(c, pid, readOnly) ==
    /\ ProcTakes(c, "stop", readOnly)
    /\ procTable[pid] = "done"
    /\ procTable' = [procTable EXCEPT ![pid] = "none"]
    /\ UNCHANGED <<procState, procLock, procCall, procTold>>

\* kill().await has returned: the child is dead and reaped; the wait after it, the
\* one with a timeout, returns at once.
ProcStopped(c) ==
    /\ procCall[c].op = "stop"
    /\ procState' = [procState EXCEPT ![procCall[c].pid] = "none"]
    /\ procLock' = None
    /\ procCall' = [procCall EXCEPT ![c] = ProcIdle]
    /\ UNCHANGED <<procTable, procTold>>

\* The kill is refused: the handle is dropped all the same and the child runs on.
ProcStopFails(c) ==
    /\ procCall[c].op = "stop" /\ procState[procCall[c].pid] = "running"
    /\ procTold' = procTold \cup {procCall[c].pid}
    /\ procLock' = None
    /\ procCall' = [procCall EXCEPT ![c] = ProcIdle]
    /\ UNCHANGED <<procTable, procState>>

\* A child ends; one whose handle was dropped is reaped by the runtime.
ProcExits(pid) ==
    /\ procState[pid] = "running"
    /\ procState' = [procState EXCEPT ![pid] =
            IF procTable[pid] = "live" \/ \E c \in ProcCallers : procCall[c].pid = pid
            THEN "exited" ELSE "none"]
    /\ procTold' = procTold \ {pid}
    /\ UNCHANGED <<procTable, procLock, procCall>>

ProcInit ==
    /\ procTable = [p \in ProcPids |-> "none"] /\ procTold = {} /\ procLock = None
    /\ procState = [p \in ProcPids |-> "none"]
    /\ procCall = [c \in ProcCallers |-> ProcIdle]

ProcStep(c) ==
    \/ \E pid \in ProcPids, r \in BOOLEAN : 
            ProcSpawn(c, pid, r) \/ ProcStop(c, pid, r) \/ ProcStopDone(c, pid, r)
    \/ \E pid \in ProcPids : ProcStatus(c, pid)
    \/ ProcInsert(c) \/ ProcDropped(c) \/ ProcList(c) \/ ProcStopped(c) \/ ProcStopFails(c)

ProcNext == (\E c \in ProcCallers : ProcStep(c)) \/ (\E p \in ProcPids : ProcExits(p))

ProcSpec == ProcInit /\ [][ProcNext]_procVars

-----------------------------------------------------------------------------
\* Every running child can be stopped (its handle is in the table), is being started
\* or stopped right now, or was given up by a call that told its caller so: however
\* queries, failed queries and the ends of children mix, none is lost, and none is
\* hidden behind the handle of an earlier child with its pid.
ProcNoneLost ==
    \A p \in ProcPids : procState[p] = "running" =>
        \/ procTable[p] = "live"
        \/ p \in procTold
        \/ \E c \in ProcCallers : procCall[c].pid = p
=============================================================================
