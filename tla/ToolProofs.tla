----------------------------- MODULE ToolProofs -----------------------------
(***************************************************************************)
(* Proofs about the tools that keep state between calls.  Each tool has an *)
(* inductive invariant of its own, made of its types and of the relation   *)
(* its property rests on.                                                  *)
(***************************************************************************)
EXTENDS WatchTool, ShellTool, ProcessTable, LspPool, SshPool, McpCall, Download, GitRepo,
        FsTool, SequenceTheorems, TLAPS

(* The watch tool *)
WatchSnapshots == [WatchFiles -> WatchPrints \cup {None}]
WatchCalls ==
    [op : {"idle", "snapshot", "changes", "peek", "clear"}, left : SUBSET WatchFiles,
     scan : WatchSnapshots]

\* What the variables hold; a call that scans has a scan of files as they may be.
WatchTypeOK ==
    /\ watchDisk \in WatchSnapshots
    /\ watchBase \in WatchSnapshots \cup {None}
    /\ watchView \in WatchSnapshots
    /\ watchCut \in BOOLEAN
    /\ watchCall \in [WatchCallers -> WatchCalls]

WatchInv == WatchTypeOK /\ WatchReportsComplete

LEMMA WatchInitially == WatchInit => WatchInv
<1> SUFFICES ASSUME WatchInit PROVE WatchInv
  OBVIOUS
<1>1. WatchNothing \in WatchSnapshots
  BY DEF WatchNothing, WatchSnapshots
<1>2. WatchIdle \in WatchCalls
  BY <1>1 DEF WatchIdle, WatchCalls
<1>3. WatchTypeOK
  BY <1>1, <1>2 DEF WatchInit, WatchTypeOK
<1>4. WatchReportsComplete
  BY DEF WatchInit, WatchReportsComplete, WatchPrevious
<1> QED
  BY <1>3, <1>4 DEF WatchInv

LEMMA WatchTypesStay == WatchTypeOK /\ [WatchNext]_watchVars => WatchTypeOK'
<1> SUFFICES ASSUME WatchTypeOK, [WatchNext]_watchVars PROVE WatchTypeOK'
  OBVIOUS
<1> USE DEF WatchTypeOK, WatchCalls, WatchSnapshots, WatchNothing, WatchIdle
<1>1. ASSUME NEW c \in WatchCallers, NEW op \in {"snapshot", "changes", "peek", "clear"},
             WatchBegin(c, op)
      PROVE WatchTypeOK'
  BY <1>1 DEF WatchBegin
<1>2. ASSUME NEW c \in WatchCallers, NEW f \in WatchFiles, WatchVisit(c, f) PROVE WatchTypeOK'
  BY <1>2, ZenonT(60) DEF WatchVisit
<1>3. ASSUME NEW c \in WatchCallers, WatchSnapshot(c) PROVE WatchTypeOK'
  BY <1>3 DEF WatchSnapshot
<1>4. ASSUME NEW c \in WatchCallers, WatchChanges(c) PROVE WatchTypeOK'
  <2>1. watchCall[c].scan \in WatchSnapshots
    OBVIOUS
  <2>2. watchBase' \in WatchSnapshots /\ watchView' \in WatchSnapshots /\ watchCut' \in BOOLEAN
    BY <1>4, <2>1 DEF WatchChanges, WatchStore
  <2> QED
    BY <1>4, <2>2 DEF WatchChanges
<1>5. ASSUME NEW c \in WatchCallers, WatchPeek(c) PROVE WatchTypeOK'
  BY <1>5 DEF WatchPeek
<1>6. ASSUME NEW c \in WatchCallers, WatchClear(c) PROVE WatchTypeOK'
  BY <1>6 DEF WatchClear
<1>7. ASSUME NEW f \in WatchFiles, WatchWrite(f) PROVE WatchTypeOK'
  BY <1>7 DEF WatchWrite
<1>8. CASE UNCHANGED watchVars
  BY <1>8 DEF watchVars
<1> QED
  BY <1>1, <1>2, <1>3, <1>4, <1>5, <1>6, <1>7, <1>8 DEF WatchNext

\* A file in none of the three lists is the same in both snapshots.
LEMMA WatchListsAreComplete ==
  ASSUME NEW a \in WatchSnapshots, NEW b \in WatchSnapshots,
         NEW f \in WatchFiles, f \notin UNION WatchLists(a, b)
  PROVE a[f] = b[f]
<1>1. f \notin WatchCreated(a, b) /\ f \notin WatchDeleted(a, b) /\ f \notin WatchModified(a, b)
  BY DEF WatchLists
<1> QED
  BY <1>1 DEF WatchCreated, WatchDeleted, WatchModified

LEMMA WatchReportsStay ==
  WatchInv /\ WatchTypeOK' /\ [WatchNext]_watchVars => WatchReportsComplete'
<1> SUFFICES ASSUME WatchInv, WatchTypeOK', [WatchNext]_watchVars PROVE WatchReportsComplete'
  OBVIOUS
<1>1. CASE UNCHANGED <<watchBase, watchView, watchCut>>
  BY <1>1 DEF WatchInv, WatchReportsComplete, WatchPrevious
<1>2. ASSUME NEW c \in WatchCallers, WatchSnapshot(c) PROVE WatchReportsComplete'
  <2>1. watchCall[c].scan # None
    BY WatchConstants DEF WatchInv, WatchTypeOK, WatchCalls, WatchSnapshots
  <2> QED
    BY <1>2, <2>1 DEF WatchSnapshot, WatchReportsComplete, WatchPrevious
<1>3. ASSUME NEW c \in WatchCallers, WatchChanges(c) PROVE WatchReportsComplete'
  <2> DEFINE scan == watchCall[c].scan
  <2>1. scan \in WatchSnapshots /\ scan # None
    BY WatchConstants DEF WatchInv, WatchTypeOK, WatchCalls, WatchSnapshots
  <2>2. WatchPrevious \in WatchSnapshots
    BY DEF WatchInv, WatchTypeOK, WatchPrevious, WatchNothing, WatchSnapshots
  <2>3. WatchPrevious' = scan
    BY <1>3, <2>1 DEF WatchChanges, WatchStore, WatchPrevious
  <2>4. SUFFICES ASSUME ~watchCut' PROVE watchView' = scan
    BY <2>3 DEF WatchReportsComplete
  <2>5. watchView = WatchPrevious
    BY <1>3, <2>4 DEF WatchChanges, WatchInv, WatchReportsComplete
  <2>6. watchView' = [f \in WatchFiles |->
            IF f \in UNION WatchLists(WatchPrevious, scan) THEN scan[f] ELSE watchView[f]]
    BY <1>3 DEF WatchChanges
  <2>7. \A f \in WatchFiles : watchView'[f] = scan[f]
    BY <2>1, <2>2, <2>5, <2>6, WatchListsAreComplete
  <2> QED
    BY <2>1, <2>6, <2>7 DEF WatchSnapshots
<1>4. ASSUME NEW c \in WatchCallers, WatchClear(c) PROVE WatchReportsComplete'
  BY <1>4 DEF WatchClear, WatchReportsComplete, WatchPrevious
<1> QED
  BY <1>1, <1>2, <1>3, <1>4
     DEF WatchNext, watchVars, WatchBegin, WatchVisit, WatchPeek, WatchWrite

\* Whoever follows the reports of watch knows the files as the stored snapshot has
\* them, however many calls scan at once and in whatever order they store.
THEOREM WatchReportsCompleteTheorem == WatchSpec => []WatchReportsComplete
<1>1. WatchInv /\ [WatchNext]_watchVars => WatchInv'
  BY WatchTypesStay, WatchReportsStay DEF WatchInv
<1>2. WatchInv => WatchReportsComplete
  BY DEF WatchInv
<1> QED
  BY WatchInitially, <1>1, <1>2, PTL DEF WatchSpec

(* The shell tool *)
ShPws == ShPasswords \cup {None}
ShEntries == [pw : ShPws, until : Nat]
ShCalls ==
    [pc : {"idle", "resolve", "run", "ok", "bad"}, sess : ShSessions \cup {None}, sudo : BOOLEAN,
     pw : ShPws, cached : BOOLEAN, until : Nat]

\* What the variables hold; a command that was begun belongs to a session.
ShTypeOK ==
    /\ shNow \in Nat
    /\ shCache \in [ShSessions -> ShEntries]
    /\ shCall \in [ShCallers -> ShCalls]
    /\ shProven \in [ShSessions -> SUBSET ShPws]
    /\ \A c \in ShCallers : shCall[c].pc # "idle" => shCall[c].sess \in ShSessions

\* A sudo command that succeeded has shown that its password works.
ShSucceeded ==
    \A c \in ShCallers : shCall[c].pc = "ok" /\ shCall[c].sudo
                             => shCall[c].pw \in shProven[shCall[c].sess]

ShInv == ShTypeOK /\ ShSucceeded /\ ShCacheProven

LEMMA ShInitially == ShInit => ShInv
<1> SUFFICES ASSUME ShInit PROVE ShInv
  OBVIOUS
<1>1. ShEmpty \in ShEntries /\ ShIdle \in ShCalls
  BY DEF ShEmpty, ShIdle, ShEntries, ShCalls, ShPws
<1>2. ShTypeOK
  BY <1>1 DEF ShInit, ShTypeOK, ShIdle
<1>3. ShSucceeded /\ ShCacheProven
  BY DEF ShInit, ShSucceeded, ShCacheProven, ShIdle, ShEmpty
<1> QED
  BY <1>2, <1>3 DEF ShInv

\* Cleaning the cache only empties entries.
LEMMA ShFreshKeeps ==
  ASSUME ShTypeOK
  PROVE  /\ ShFresh(shCache) \in [ShSessions -> ShEntries]
         /\ \A s \in ShSessions :
               /\ ShFresh(shCache)[s].pw # None => ShFresh(shCache)[s] = shCache[s]
               /\ ShFresh(shCache)[s].pw # None => shCache[s].until > shNow
<1>1. ShEmpty \in ShEntries /\ ShEmpty.pw = None
  BY DEF ShEmpty, ShEntries, ShPws
<1> QED
  BY <1>1 DEF ShFresh, ShTypeOK

LEMMA ShStepKeeps ==
  ASSUME ShInv, NEW c \in ShCallers, ShStep(c)
  PROVE  ShInv'
<1> USE DEF ShInv
<1>1. ShEmpty \in ShEntries /\ ShEmpty.pw = None /\ ShIdle \in ShCalls /\ ShIdle.pc = "idle"
  BY DEF ShEmpty, ShIdle, ShEntries, ShCalls, ShPws
<1>2. ASSUME NEW s \in ShSessions, NEW cmd \in ShCommands, NEW r \in BOOLEAN,
             NEW p \in ShPasswords \cup {None}, ShBegin(c, s, cmd, r, p)
      PROVE  ShInv'
  <2> DEFINE call == [ShIdle EXCEPT !.pc = "resolve", !.sess = s, !.sudo = cmd.sudo,
                                    !.pw = IF cmd.sudo THEN p ELSE None]
  <2>1. call \in ShCalls /\ call.pc = "resolve" /\ call.sess = s
    BY DEF ShIdle, ShCalls, ShPws, ShCommands
  <2>2. shCall' = [shCall EXCEPT ![c] = call] /\ shCache' = ShFresh(shCache)
        /\ UNCHANGED <<shNow, shProven>>
    BY <1>2 DEF ShBegin
  <2> HIDE DEF call
  <2>3. ShTypeOK'
    BY <2>1, <2>2, ShFreshKeeps DEF ShTypeOK
  <2>4. ShSucceeded'
    BY <2>1, <2>2 DEF ShTypeOK, ShSucceeded
  <2>5. ShCacheProven'
    BY <2>2, ShFreshKeeps DEF ShCacheProven
  <2> QED
    BY <2>3, <2>4, <2>5
<1>3. CASE shCall' = [shCall EXCEPT ![c] = ShIdle] /\ UNCHANGED <<shNow, shCache, shProven>>
  BY <1>1, <1>3 DEF ShTypeOK, ShSucceeded, ShCacheProven
<1>4. ASSUME ShSpawn(c) PROVE ShInv'
  <2> DEFINE k == shCall[c]
             asks == k.sudo /\ k.pw = None
             entry == ShLookUp[k.sess]
             call == IF asks /\ entry.pw = None THEN ShIdle
                     ELSE [k EXCEPT !.pc = "run", !.pw = IF asks THEN entry.pw ELSE k.pw,
                                    !.cached = asks, !.until = IF asks THEN entry.until ELSE 0]
  <2>1. k \in ShCalls /\ k.sess \in ShSessions /\ entry \in ShEntries
    BY <1>4, ShFreshKeeps DEF ShTypeOK, ShSpawn, ShLookUp
  <2>2. call \in ShCalls /\ call.pc \in {"idle", "run"}
        /\ (call.pc # "idle" => call.sess \in ShSessions)
    <3> HIDE DEF entry, k
    <3> QED
      BY <1>1, <2>1 DEF ShCalls, ShEntries
  <2>3. shCall' = [shCall EXCEPT ![c] = call] /\ UNCHANGED <<shNow, shProven>>
        /\ (shCache' = ShFresh(shCache) \/ shCache' = shCache)
    BY <1>4 DEF ShSpawn, ShLookUp
  <2> HIDE DEF call
  <2>4. ShTypeOK'
    BY <2>2, <2>3, ShFreshKeeps DEF ShTypeOK
  <2>5. ShSucceeded'
    BY <2>2, <2>3 DEF ShTypeOK, ShSucceeded
  <2>6. ShCacheProven'
    BY <2>3, ShFreshKeeps DEF ShCacheProven
  <2> QED
    BY <2>4, <2>5, <2>6
<1>5. ASSUME ShWorks(c) PROVE ShInv'
  <2>1. shCall' = [shCall EXCEPT ![c].pc = "ok"] /\ UNCHANGED <<shNow, shCache>>
        /\ shCall[c] \in ShCalls /\ shCall[c].sess \in ShSessions
    BY <1>5 DEF ShWorks, ShTypeOK
  <2>2. /\ shProven' \in [ShSessions -> SUBSET ShPws]
        /\ \A s \in ShSessions : shProven[s] \subseteq shProven'[s]
        /\ shCall[c].sudo => shCall[c].pw \in shProven'[shCall[c].sess]
    BY <1>5, <2>1 DEF ShWorks, ShTypeOK, ShCalls
  <2>3. ShTypeOK'
    BY <2>1, <2>2 DEF ShTypeOK, ShCalls
  <2>4. ShSucceeded'
    BY <2>1, <2>2 DEF ShTypeOK, ShSucceeded, ShCalls
  <2>5. ShCacheProven'
    BY <2>1, <2>2 DEF ShCacheProven
  <2> QED
    BY <2>3, <2>4, <2>5
<1>6. ASSUME ShExits(c) PROVE ShInv'
  <2>1. shCall' = [shCall EXCEPT ![c].pc = "bad"] /\ UNCHANGED <<shNow, shCache, shProven>>
        /\ shCall[c] \in ShCalls /\ shCall[c].sess \in ShSessions
    BY <1>6 DEF ShExits, ShTypeOK
  <2> QED
    BY <2>1 DEF ShTypeOK, ShSucceeded, ShCacheProven, ShCalls
<1>7. ASSUME ShEnd(c) PROVE ShInv'
  <2> DEFINE k == shCall[c]
             entry == IF ShStore(c) THEN [pw |-> k.pw, until |-> shNow + ShTtl] ELSE ShEmpty
  <2>1. k \in ShCalls /\ k.sess \in ShSessions
    BY <1>7 DEF ShEnd, ShTypeOK
  <2>2. entry \in ShEntries
    BY <1>1, <2>1, ShConstants DEF ShTypeOK, ShCalls, ShEntries
  <2>3. k.sudo /\ entry.pw # None => entry.pw \in shProven[k.sess]
    BY <1>1, <2>1 DEF ShStore, ShSucceeded
  <2>4. shCall' = [shCall EXCEPT ![c] = ShIdle] /\ UNCHANGED <<shNow, shProven>>
        /\ shCache' = IF ~k.sudo THEN shCache ELSE [shCache EXCEPT ![k.sess] = entry]
    BY <1>7 DEF ShEnd
  <2> HIDE DEF entry
  <2>5. ShTypeOK'
    BY <1>1, <2>1, <2>2, <2>4 DEF ShTypeOK
  <2>6. ShSucceeded'
    BY <1>1, <2>4 DEF ShTypeOK, ShSucceeded
  <2>7. ShCacheProven'
    BY <2>1, <2>3, <2>4 DEF ShCacheProven, ShTypeOK
  <2> QED
    BY <2>5, <2>6, <2>7
<1> QED
  BY <1>2, <1>3, <1>4, <1>5, <1>6, <1>7 DEF ShStep, ShNoDirectory, ShKilled

LEMMA ShNextKeeps == ShInv /\ [ShNext]_shVars => ShInv'
<1> SUFFICES ASSUME ShInv, [ShNext]_shVars PROVE ShInv'
  OBVIOUS
<1>1. CASE ShTick
  BY <1>1 DEF ShTick, ShInv, ShTypeOK, ShSucceeded, ShCacheProven
<1>2. CASE UNCHANGED <<shNow, shCache, shCall, shProven>>
  BY <1>2 DEF ShInv, ShTypeOK, ShSucceeded, ShCacheProven
<1> QED
  BY <1>1, <1>2, ShStepKeeps DEF ShNext, ShPasswordChanges, shVars

\* Only a password that has worked in a session is offered to its later commands.
THEOREM ShCacheProvenTheorem == ShSpec => []ShCacheProven
<1>1. ShInv => ShCacheProven
  BY DEF ShInv
<1> QED
  BY ShInitially, ShNextKeeps, <1>1, PTL DEF ShSpec

\* No command starts with a cached password past its time, however long its directory
\* takes to resolve.
THEOREM ShNeverExpiredTheorem == ShSpec => ShNeverExpired
<1> DEFINE NeverExpired ==
      \A c \in ShCallers :
          shCall'[c].pc = "run" /\ shCall[c].pc = "resolve" /\ shCall'[c].cached
              => shCall'[c].until > shNow
<1>1. ASSUME ShInv, [ShNext]_shVars PROVE [NeverExpired]_shVars
  <2> SUFFICES ASSUME ShNext, NEW c \in ShCallers, shCall'[c].pc = "run",
                      shCall[c].pc = "resolve", shCall'[c].cached
               PROVE  shCall'[c].until > shNow
    BY <1>1
  <2> USE <1>1 DEF ShInv
  <2>1. shCall \in [ShCallers -> ShCalls] /\ ShIdle.pc = "idle"
    BY DEF ShTypeOK, ShIdle
  <2>2. ShSpawn(c)
    <3>1. shCall' # shCall
      BY <2>1
    <3>2. PICK d \in ShCallers : ShStep(d)
      BY <3>1 DEF ShNext, ShTick, ShPasswordChanges
    <3>3. d = c
      BY <2>1, <3>2 DEF ShStep, ShBegin, ShNoDirectory, ShSpawn, ShWorks, ShExits, ShEnd, ShKilled
    <3> QED
      BY <2>1, <3>2, <3>3 DEF ShStep, ShNoDirectory, ShWorks, ShExits, ShEnd, ShKilled
  <2> DEFINE k == shCall[c]
             entry == ShLookUp[k.sess]
  <2>3. k \in ShCalls /\ k.sess \in ShSessions
    BY DEF ShTypeOK
  <2>4. shCall'[c] = IF (k.sudo /\ k.pw = None) /\ entry.pw = None THEN ShIdle
            ELSE [k EXCEPT !.pc = "run", !.pw = IF k.sudo /\ k.pw = None THEN entry.pw ELSE k.pw,
                           !.cached = (k.sudo /\ k.pw = None),
                           !.until = IF k.sudo /\ k.pw = None THEN entry.until ELSE 0]
    BY <2>1, <2>2 DEF ShSpawn
  <2>5. k.sudo /\ k.pw = None /\ entry.pw # None /\ shCall'[c].until = entry.until
    <3> HIDE DEF entry, k
    <3> QED
      BY <2>1, <2>3, <2>4 DEF ShCalls
  <2>6. entry = shCache[k.sess] /\ shCache[k.sess].until > shNow
    BY <2>3, <2>5, ShFreshKeeps DEF ShLookUp
  <2> QED
    BY <2>5, <2>6
<1> QED
  BY ShInitially, ShNextKeeps, <1>1, PTL DEF ShSpec, ShNeverExpired

(* The process tool *)
ProcBusy == [op : {"start", "stop"}, pid : ProcPids]

\* What the variables hold; a caller that is idle is about no child.
ProcTypeOK ==
    /\ procTable \in [ProcPids -> {"none", "live", "done"}]
    /\ procState \in [ProcPids -> {"none", "running", "exited"}]
    /\ procCall \in [ProcCallers -> ProcBusy \cup {ProcIdle}]

ProcInv == ProcTypeOK /\ ProcNoneLost

\* An action leaves nobody's child behind: told, or with a caller, before and after.
LEMMA ProcStepKeeps ==
  ASSUME ProcInv, NEW c \in ProcCallers, ProcStep(c)
  PROVE  ProcInv'
<1> USE DEF ProcInv
<1>1. ProcIdle \notin ProcBusy /\ ProcIdle.op = "idle" /\ ProcIdle.pid \notin ProcPids
  BY ProcConstants DEF ProcIdle, ProcBusy
<1>2. procCall[c].op = "idle" => procCall[c] = ProcIdle
  BY DEF ProcTypeOK, ProcBusy
<1>3. procCall[c].op # "idle" => procCall[c].pid \in ProcPids
  BY <1>1 DEF ProcTypeOK, ProcBusy
<1>4. ASSUME NEW pid \in ProcPids, NEW r \in BOOLEAN, ProcSpawn(c, pid, r) PROVE ProcInv'
  <2>1. procCall[c] = ProcIdle
    BY <1>2, <1>4 DEF ProcSpawn
  <2>2. ProcTypeOK'
    BY <1>4 DEF ProcSpawn, ProcTypeOK, ProcBusy
  <2>3. ProcNoneLost'
    BY <1>1, <1>4, <2>1 DEF ProcSpawn, ProcTypeOK, ProcNoneLost
  <2> QED
    BY <2>2, <2>3
<1>5. ASSUME NEW pid \in ProcPids, NEW r \in BOOLEAN, ProcStop(c, pid, r) PROVE ProcInv'
  <2>1. procCall[c] = ProcIdle
    BY <1>2, <1>5 DEF ProcStop, ProcTakes
  <2>2. ProcTypeOK'
    BY <1>5 DEF ProcStop, ProcTypeOK, ProcBusy
  <2>3. ProcNoneLost'
    BY <1>1, <1>5, <2>1 DEF ProcStop, ProcTypeOK, ProcNoneLost
  <2> QED
    BY <2>2, <2>3
<1>6. ASSUME NEW pid \in ProcPids, NEW r \in BOOLEAN, ProcStopDone(c, pid, r) PROVE ProcInv'
  BY <1>6 DEF ProcStopDone, ProcTypeOK, ProcNoneLost
<1>7. ASSUME NEW S \in SUBSET ProcPids, procState' = ProcReap(S), UNCHANGED <<procCall, procTold>>,
             \/ procTable' = ProcForget(S)
             \/ procTable' = [p \in ProcPids |-> IF p \in ProcEnded(S) THEN "done" ELSE procTable[p]]
      PROVE  ProcInv'
  <2>1. ProcTypeOK'
    BY <1>7 DEF ProcTypeOK, ProcReap, ProcForget
  <2>2. ASSUME NEW p \in ProcPids, procState'[p] = "running"
        PROVE  procState[p] = "running" /\ (procTable[p] = "live" => procTable'[p] = "live")
    <3>1. p \notin ProcEnded(S) /\ procState[p] = "running"
      BY <1>7, <2>2 DEF ProcReap, ProcTypeOK
    <3>2. procTable[p] = "live" => p \notin ProcDone(S)
      BY <3>1 DEF ProcDone
    <3> QED
      BY <1>7, <3>1, <3>2 DEF ProcForget
  <2>3. ProcNoneLost'
    BY <1>7, <2>2 DEF ProcNoneLost
  <2> QED
    BY <2>1, <2>3
<1>8. ASSUME NEW pid \in ProcPids, ProcStatus(c, pid) PROVE ProcInv'
  BY <1>7, <1>8 DEF ProcStatus
<1>9. CASE ProcList(c)
  <2>1. ProcKnown \in SUBSET ProcPids
    BY DEF ProcKnown
  <2> QED
    BY <1>7, <1>9, <2>1 DEF ProcList
<1>10. CASE ProcInsert(c)
  <2>1. procCall[c].pid \in ProcPids
    BY <1>3, <1>10 DEF ProcInsert
  <2>2. ProcTypeOK'
    BY <1>10, <2>1 DEF ProcInsert, ProcTypeOK
  <2>3. ProcNoneLost'
    BY <1>10, <2>1 DEF ProcInsert, ProcTypeOK, ProcNoneLost
  <2> QED
    BY <2>2, <2>3
<1>11. ASSUME procCall' = [procCall EXCEPT ![c] = ProcIdle], procTable' = procTable,
              procState' = procState, procTold \subseteq procTold',
              procState[procCall[c].pid] = "running" => procCall[c].pid \in procTold'
       PROVE  ProcInv'
  <2>1. ProcTypeOK'
    BY <1>11 DEF ProcTypeOK
  <2>2. ProcNoneLost'
    BY <1>11 DEF ProcTypeOK, ProcNoneLost
  <2> QED
    BY <2>1, <2>2
<1>12. CASE ProcDropped(c)
  BY <1>11, <1>12 DEF ProcDropped
<1>13. CASE ProcStopFails(c)
  BY <1>11, <1>13 DEF ProcStopFails
<1>14. CASE ProcStopped(c)
  <2>1. procCall[c].pid \in ProcPids
    BY <1>3, <1>14 DEF ProcStopped
  <2>2. ProcTypeOK'
    BY <1>14, <2>1 DEF ProcStopped, ProcTypeOK
  <2>3. ProcNoneLost'
    BY <1>14, <2>1 DEF ProcStopped, ProcTypeOK, ProcNoneLost
  <2> QED
    BY <2>2, <2>3
<1> QED
  BY <1>4, <1>5, <1>6, <1>8, <1>9, <1>10, <1>12, <1>13, <1>14 DEF ProcStep

\* A child that is started can be stopped until it ends, unless a call failed on it
\* and said so: no query, failure or reused pid loses one.
THEOREM ProcNoneLostTheorem == ProcSpec => []ProcNoneLost
<1>1. ProcInit => ProcInv
  BY DEF ProcInit, ProcInv, ProcTypeOK, ProcNoneLost
<1>2. ASSUME ProcInv, NEW pid \in ProcPids, ProcExits(pid) PROVE ProcInv'
  BY <1>2 DEF ProcInv, ProcExits, ProcTypeOK, ProcNoneLost
<1>3. ASSUME ProcInv, UNCHANGED procVars PROVE ProcInv'
  BY <1>3 DEF ProcInv, procVars, ProcTypeOK, ProcNoneLost
<1>4. ProcInv /\ [ProcNext]_procVars => ProcInv'
  BY <1>2, <1>3, ProcStepKeeps DEF ProcNext
<1>5. ProcInv => ProcNoneLost
  BY DEF ProcInv
<1> QED
  BY <1>1, <1>4, <1>5, PTL DEF ProcSpec

(* The language servers *)

\* A request and its answer carry an id that is the number of the request.
LspMessages == {m \in [id : Nat, serial : Nat] : m.id = m.serial}
LspHandleStates ==
    {h \in [proc : {"none", "up", "gone"}, lock : LspCallers \cup {None}, next : Nat, count : Nat,
            pipe : Seq(LspMessages), owed : SUBSET LspMessages, torn : BOOLEAN] :
        h.next = h.count + 1}

\* An operation under way has a server; it waits for the id of its own request, and
\* what it got is that request's answer.
LspCallStates ==
    {k \in [pc : {"idle", "init", "started", "look", "got", "locked", "wait", "done", "stop"},
            id : LspIds \cup {None}, h : LspHandles \cup {None}, req : Nat, serial : Nat,
            got : Nat, only : BOOLEAN] :
        /\ k.pc # "idle" => k.h \in LspHandles /\ k.id \in LspIds
        /\ k.pc \in {"init", "wait"} => k.req = k.serial
        /\ k.pc \in {"done", "started"} => k.got = k.serial}

LspInv ==
    /\ lspServers \in [LspIds -> LspHandles \cup {None}]
    /\ lspHandle \in [LspHandles -> LspHandleStates]
    /\ lspCall \in [LspCallers -> LspCallStates]

LEMMA LspIdleOK == LspIdle \in LspCallStates /\ LspNoHandle \in LspHandleStates
<1>1. LspIdle \in LspCallStates
  BY DEF LspIdle, LspCallStates
<1>2. <<>> \in Seq(LspMessages)
  OBVIOUS
<1>3. LspNoHandle \in LspHandleStates
  BY <1>2 DEF LspNoHandle, LspHandleStates
<1> QED
  BY <1>1, <1>3

\* Sending keeps the numbers in step.
LEMMA LspSentKeeps ==
  ASSUME NEW h \in LspHandleStates
  PROVE  LspSent(h) \in LspHandleStates /\ h.next = h.count + 1
<1> DEFINE m == [id |-> h.next, serial |-> h.count + 1]
           owed == h.owed \cup {m}
<1>1. h.next \in Nat /\ h.count \in Nat /\ h.next = h.count + 1 /\ h.owed \in SUBSET LspMessages
  BY DEF LspHandleStates
<1>2. owed \in SUBSET LspMessages
  BY <1>1 DEF LspMessages
<1>3. LspSent(h) = [h EXCEPT !.next = h.next + 1, !.count = h.count + 1, !.owed = owed]
  BY Zenon DEF LspSent, LspNextId
<1> DEFINE next == h.next + 1
           count == h.count + 1
<1>4. next \in Nat /\ count \in Nat /\ next = count + 1
  BY <1>1
<1> HIDE DEF owed, next, count
<1>5. [h EXCEPT !.next = next, !.count = count, !.owed = owed] \in LspHandleStates
  BY <1>2, <1>4 DEF LspHandleStates
<1> QED
  BY <1>1, <1>3, <1>5 DEF next, count

\* Letting go of a lock, and the end of a server, leave the rest alone.
LEMMA LspHandleKeeps ==
  ASSUME NEW h \in LspHandleStates
  PROVE  /\ \A c \in LspCallers \cup {None} : [h EXCEPT !.lock = c] \in LspHandleStates
         /\ [h EXCEPT !.proc = "gone", !.owed = {}] \in LspHandleStates
         /\ \A t \in BOOLEAN : [h EXCEPT !.lock = None, !.torn = t] \in LspHandleStates
         /\ \A c \in LspCallers \cup {None} :
              h.pipe # <<>> => [h EXCEPT !.pipe = Tail(h.pipe), !.lock = c] \in LspHandleStates
         /\ h.pipe # <<>> => [h EXCEPT !.pipe = Tail(h.pipe)] \in LspHandleStates
         /\ h.pipe # <<>> => Head(h.pipe) \in LspMessages
         /\ \A m \in h.owed : [h EXCEPT !.pipe = Append(h.pipe, m), !.owed = h.owed \ {m}]
                                  \in LspHandleStates
<1>1. h.pipe \in Seq(LspMessages) /\ h.owed \subseteq LspMessages
  BY DEF LspHandleStates
<1>2. h.pipe # <<>> => Tail(h.pipe) \in Seq(LspMessages) /\ Head(h.pipe) \in LspMessages
  BY <1>1
<1>3. \A m \in h.owed : Append(h.pipe, m) \in Seq(LspMessages)
  BY <1>1
<1> QED
  BY <1>1, <1>2, <1>3 DEF LspHandleStates

LEMMA LspStepKeeps ==
  ASSUME LspInv, NEW c \in LspCallers, LspStep(c)
  PROVE  LspInv'
<1> DEFINE k == lspCall[c]
<1> USE DEF LspInv
<1>1. k \in LspCallStates
  OBVIOUS
<1>2. k.pc # "idle" => k.h \in LspHandles /\ k.id \in LspIds /\ lspHandle[k.h] \in LspHandleStates
  BY <1>1 DEF LspCallStates
<1>3. ASSUME NEW i \in LspIds, LspGet(c, i) PROVE LspInv'
  <2>1. lspServers[i] # None => [LspIdle EXCEPT !.pc = "got", !.id = i, !.h = lspServers[i]]
                                     \in LspCallStates
    BY DEF LspIdle, LspCallStates
  <2> QED
    BY <1>3, <2>1, LspIdleOK DEF LspGet, LspGiveUp
<1>4. ASSUME NEW i \in LspIds, LspStop(c, i) PROVE LspInv'
  <2>1. lspServers[i] # None => [LspIdle EXCEPT !.pc = "stop", !.id = i, !.h = lspServers[i]]
                                     \in LspCallStates
    BY DEF LspIdle, LspCallStates
  <2> QED
    BY <1>4, <2>1 DEF LspStop
<1>5. ASSUME NEW i \in LspIds, NEW only \in BOOLEAN, LspStart(c, i, only) PROVE LspInv'
  <2>1. lspServers[i] # None => [LspIdle EXCEPT !.pc = "got", !.id = i, !.h = lspServers[i]]
                                     \in LspCallStates
    BY DEF LspIdle, LspCallStates
  <2>2. [LspNoHandle EXCEPT !.proc = "up", !.lock = c] \in LspHandleStates
    BY LspIdleOK DEF LspHandleStates
  <2>3. \A h \in LspHandles : [LspIdle EXCEPT !.pc = "init", !.id = i, !.h = h, !.req = 1,
                                              !.serial = 1, !.only = only] \in LspCallStates
    BY DEF LspIdle, LspCallStates
  <2> QED
    BY <1>5, <2>1, <2>2, <2>3, LspSentKeeps DEF LspStart
<1>6. CASE LspInsert(c)
  <2>1. k.pc = "started" /\ k.h \in LspHandles /\ k.id \in LspIds
    BY <1>2, <1>6 DEF LspInsert
  <2>2. [k EXCEPT !.pc = "look"] \in LspCallStates
    BY <1>1, <2>1 DEF LspCallStates
  <2>3. lspCall' \in [LspCallers -> LspCallStates]
    BY <1>6, <2>2, LspIdleOK DEF LspInsert, LspGiveUp, LspGo
  <2>4. lspHandle' \in [LspHandles -> LspHandleStates]
    BY <1>6, <2>1, LspHandleKeeps DEF LspInsert, LspFree
  <2> QED
    BY <1>6, <2>1, <2>3, <2>4 DEF LspInsert
<1>7. CASE LspLock(c)
  <2>1. k.pc = "got" /\ [k EXCEPT !.pc = "locked"] \in LspCallStates
    BY <1>1, <1>7 DEF LspLock, LspCallStates
  <2> QED
    BY <1>2, <1>7, <2>1, LspHandleKeeps DEF LspLock, LspGo
<1>8. CASE LspNoRequest(c)
  BY <1>2, <1>8, LspIdleOK, LspHandleKeeps DEF LspNoRequest, LspFree, LspGiveUp
<1>9. CASE LspAsk(c)
  <2> DEFINE h == lspHandle[k.h]
  <2>1. k.pc = "locked" /\ h \in LspHandleStates /\ k.h \in LspHandles
    BY <1>2, <1>9 DEF LspAsk
  <2>2. LspSent(h) \in LspHandleStates /\ h.next = h.count + 1 /\ h.next \in Nat
    BY <2>1, LspSentKeeps DEF LspHandleStates
  <2>3. [k EXCEPT !.pc = "wait", !.req = h.next, !.serial = h.count + 1] \in LspCallStates
    <3> HIDE DEF h
    <3> QED
      BY <1>1, <2>1, <2>2 DEF LspCallStates
  <2> QED
    BY <1>9, <2>1, <2>2, <2>3 DEF LspAsk
<1>10. CASE LspSkip(c)
  BY <1>2, <1>10, LspHandleKeeps DEF LspSkip, LspReads
<1>11. CASE LspAnswered(c)
  <2> DEFINE h == lspHandle[k.h]
             m == Head(h.pipe)
             lock == IF k.pc = "init" THEN h.lock ELSE None
  <2>1. k.pc \in {"init", "wait"} /\ k.h \in LspHandles /\ h \in LspHandleStates /\ h.pipe # <<>>
    BY <1>2, <1>11 DEF LspAnswered, LspReads
  <2>2. m \in LspMessages /\ m.id = k.req
    BY <1>11, <2>1, LspHandleKeeps DEF LspAnswered, LspMessage
  <2>3. m.serial = k.serial /\ m.serial \in Nat
    BY <1>1, <2>1, <2>2 DEF LspCallStates, LspMessages
  <2>4. [k EXCEPT !.got = m.serial, !.pc = IF k.pc = "init" THEN "started" ELSE "done"]
             \in LspCallStates
    <3> HIDE DEF m
    <3> QED
      BY <1>1, <2>1, <2>3 DEF LspCallStates
  <2>5. lock \in LspCallers \cup {None}
    BY <2>1 DEF LspHandleStates
  <2>6. [h EXCEPT !.pipe = Tail(h.pipe), !.lock = lock] \in LspHandleStates
    BY <2>1, <2>5, LspHandleKeeps
  <2>7. lspHandle' = [lspHandle EXCEPT ![k.h] = [h EXCEPT !.pipe = Tail(h.pipe), !.lock = lock]]
    BY <1>11, <2>1 DEF LspAnswered
  <2>8. lspCall' = [lspCall EXCEPT ![c] = [k EXCEPT !.got = m.serial,
                        !.pc = IF k.pc = "init" THEN "started" ELSE "done"]]
    BY <1>11 DEF LspAnswered, LspMessage
  <2>9. lspServers' = lspServers
    BY <1>11 DEF LspAnswered
  <2> HIDE DEF k, h, m, lock
  <2>10. lspHandle' \in [LspHandles -> LspHandleStates]
    BY <2>1, <2>6, <2>7
  <2>11. lspCall' \in [LspCallers -> LspCallStates]
    BY <2>4, <2>8
  <2> QED
    BY <2>9, <2>10, <2>11
<1>12. CASE LspReturn(c)
  BY <1>12, LspIdleOK DEF LspReturn, LspGiveUp
<1>13. CASE LspFails(c)
  <2>1. k.pc \in {"init", "started", "look", "got", "wait"} /\ k.h \in LspHandles
        /\ lspHandle[k.h] \in LspHandleStates
    BY <1>2, <1>13 DEF LspFails
  <2>2. [LspNoHandle EXCEPT !.proc = "gone"] \in LspHandleStates
    BY LspIdleOK DEF LspHandleStates
  <2>3. lspHandle[k.h].torn \in BOOLEAN
    BY <2>1 DEF LspHandleStates
  <2>4. CASE k.pc \in {"init", "started"}
    BY <1>13, <2>1, <2>2, <2>4, LspIdleOK DEF LspFails, LspGiveUp
  <2>5. CASE k.pc = "wait"
    <3>1. lspHandle' = [lspHandle EXCEPT ![k.h] = [lspHandle[k.h] EXCEPT !.lock = None,
                            !.torn = (lspHandle[k.h].torn \/ lspHandle[k.h].pipe # <<>>)]]
      BY <1>13, <2>1, <2>5 DEF LspFails
    <3>2. (lspHandle[k.h].torn \/ lspHandle[k.h].pipe # <<>>) \in BOOLEAN
      OBVIOUS
    <3> QED
      BY <1>13, <2>1, <3>1, <3>2, LspIdleOK, LspHandleKeeps, ZenonT(60) DEF LspFails, LspGiveUp
  <2>6. CASE k.pc \in {"look", "got"}
    BY <1>13, <2>6, LspIdleOK DEF LspFails, LspGiveUp
  <2> QED
    BY <2>1, <2>4, <2>5, <2>6
<1>14. CASE LspTimesOut(c)
  BY <1>2, <1>14, LspIdleOK, LspHandleKeeps DEF LspTimesOut, LspFree, LspGiveUp
<1>15. CASE LspStopped(c)
  BY <1>2, <1>15, LspIdleOK, LspHandleKeeps DEF LspStopped, LspGiveUp
<1> QED
  BY <1>3, <1>4, <1>5, <1>6, <1>7, <1>8, <1>9, <1>10, <1>11, <1>12, <1>13, <1>14, <1>15
     DEF LspStep

\* The answer that is returned is that of the request that was made, however many
\* requests timed out before it and were answered since.
THEOREM LspOwnAnswerTheorem == LspSpec => []LspOwnAnswer
<1>1. LspInit => LspInv
  BY LspIdleOK DEF LspInit, LspInv
<1>2. ASSUME LspInv, NEW h \in LspHandles, LspServerSays(h) PROVE LspInv'
  <2>1. PICK m \in lspHandle[h].owed :
            lspHandle' = [lspHandle EXCEPT ![h] = [lspHandle[h] EXCEPT
                             !.pipe = Append(lspHandle[h].pipe, m), !.owed = lspHandle[h].owed \ {m}]]
    BY <1>2 DEF LspServerSays
  <2>2. lspHandle[h] \in LspHandleStates
    BY <1>2 DEF LspInv
  <2> QED
    BY <1>2, <2>1, <2>2, LspHandleKeeps DEF LspInv, LspServerSays
<1>3. ASSUME LspInv, NEW h \in LspHandles, LspServerDies(h) PROVE LspInv'
  BY <1>3, LspHandleKeeps DEF LspInv, LspServerDies
<1>4. ASSUME LspInv, UNCHANGED lspVars PROVE LspInv'
  BY <1>4 DEF LspInv, lspVars
<1>5. LspInv /\ [LspNext]_lspVars => LspInv'
  BY <1>2, <1>3, <1>4, LspStepKeeps DEF LspNext
<1>6. LspInv => LspOwnAnswer
  BY DEF LspInv, LspOwnAnswer, LspCallStates
<1> QED
  BY <1>1, <1>5, <1>6, PTL DEF LspSpec

-----------------------------------------------------------------------------
(* The ssh tool *)
SshCalls ==
    [op : {"idle", "connect", "run", "exit", "close"}, name : SshNames \cup {None},
     host : SshHosts \cup {None}, todo : SUBSET SshNames]

SshTypeOK ==
    /\ sshSessions \in [SshNames -> SshHosts \cup {None}]
    /\ sshMaster \in [SshPaths -> SshHosts \cup {None}]
    /\ sshTold \subseteq SshPaths
    /\ sshCall \in [SshCallers -> SshCalls]
    /\ \A c \in SshCallers :
          /\ sshCall[c].op \in {"connect", "run", "exit"} => sshCall[c].name \in SshNames
          /\ sshCall[c].op = "connect" => sshCall[c].host \in SshHosts

\* The map is held by the call that connects, and by no other: while it is, the name
\* it looked up is not in the map.
SshHeld ==
    \A c \in SshCallers : sshCall[c].op = "connect" => sshLock = c /\ ~SshExists(sshCall[c].name)

SshInv == SshTypeOK /\ SshHeld /\ SshAgrees

\* At first there is no session, no master and no call.
LEMMA SshInitially == SshInit => SshInv
<1> SUFFICES ASSUME SshInit PROVE SshInv
  OBVIOUS
<1>1. SshIdle \in SshCalls /\ SshIdle.op = "idle"
  BY DEF SshIdle, SshCalls
<1>2. SshTypeOK
  BY <1>1 DEF SshInit, SshTypeOK
<1>3. SshHeld
  BY <1>1 DEF SshInit, SshHeld
<1>4. SshAgrees
  <2>1. \A p \in SshPaths : sshMaster[p] = None
    BY DEF SshInit
  <2>2. \A n \in SshNames : SshSocket(n) \in SshPaths
    BY DEF SshPaths
  <2>3. QED
    BY <2>1, <2>2 DEF SshAgrees, SshNoForgottenMaster, SshOwnHost
<1>5. QED
  BY <1>2, <1>3, <1>4 DEF SshInv

\* A path is about to be closed when some call has forgotten a session behind it.
LEMMA SshClosingMember ==
    ASSUME NEW p
    PROVE p \in SshClosing <=> \E c \in SshCallers : sshCall[c].op = "exit" /\ SshSocket(sshCall[c].name) = p
BY DEF SshClosing

\* A path is listed when some session is behind it.
LEMMA SshListedMember ==
    ASSUME NEW p
    PROVE p \in SshListed <=> \E n \in SshNames : SshExists(n) /\ SshSocket(n) = p
BY DEF SshListed

\* Nothing that is closing or listed is lost by a step that leaves the map alone and
\* changes one call that does not close.
LEMMA SshQuietCall ==
    ASSUME SshInv, NEW c \in SshCallers, NEW new \in SshCalls,
           sshCall[c].op # "exit",
           sshCall' = [sshCall EXCEPT ![c] = new],
           new.op \in {"idle", "run", "close"},
           new.op = "run" => new.name \in SshNames,
           UNCHANGED <<sshSessions, sshMaster, sshTold, sshLock>>
    PROVE SshInv'
<1>1. \A d \in SshCallers : sshCall'[d] = IF d = c THEN new ELSE sshCall[d]
  BY DEF SshInv, SshTypeOK
<1>2. SshTypeOK'
  BY <1>1 DEF SshInv, SshTypeOK
<1>3. SshHeld'
  BY <1>1 DEF SshInv, SshHeld, SshExists
<1>4. \A p : p \in SshClosing => p \in SshClosing'
  BY <1>1, SshClosingMember DEF SshClosing
<1>5. SshListed' = SshListed
  BY DEF SshListed, SshExists
<1>6. SshAgrees'
  BY <1>4, <1>5 DEF SshInv, SshAgrees, SshNoForgottenMaster, SshOwnHost, SshExists
<1>7. QED
  BY <1>2, <1>3, <1>6 DEF SshInv

\* The call that connects takes the map; nothing else changes.
LEMMA SshConnectStep ==
    ASSUME SshInv, NEW c \in SshCallers, NEW n \in SshNames, NEW h \in SshHosts, NEW ro,
           SshConnect(c, n, h, ro)
    PROVE SshInv'
<1> DEFINE new == [op |-> "connect", name |-> n, host |-> h, todo |-> {}]
<1>1. \A d \in SshCallers : sshCall'[d] = IF d = c THEN new ELSE sshCall[d]
  BY DEF SshConnect, SshInv, SshTypeOK
<1>2. sshCall[c].op = "idle" /\ sshLock = None /\ ~SshExists(n) /\ sshLock' = c
      /\ UNCHANGED <<sshSessions, sshMaster, sshTold>>
  BY DEF SshConnect, SshUnused, SshHold
<1>3. SshTypeOK'
  BY <1>1, <1>2 DEF SshInv, SshTypeOK, SshCalls, SshConnect
<1>4. SshHeld'
  <2>1. \A d \in SshCallers : sshCall[d].op # "connect"
    BY <1>2, SshConstants DEF SshInv, SshHeld
  <2>2. QED
    BY <1>1, <1>2, <2>1 DEF SshHeld, SshExists
<1>5. \A p : p \in SshClosing => p \in SshClosing'
  BY <1>1, <1>2, SshClosingMember DEF SshClosing
<1>6. SshListed' = SshListed
  BY <1>2 DEF SshListed, SshExists
<1>7. SshAgrees'
  BY <1>2, <1>5, <1>6 DEF SshInv, SshAgrees, SshNoForgottenMaster, SshOwnHost, SshExists
<1>8. QED
  BY <1>3, <1>4, <1>7 DEF SshInv

\* The handshake ends well: the name is not in the map, so that a master that was
\* there already is closing, was reported, or belongs to another name of this path.
LEMMA SshConnectedStep ==
    ASSUME SshInv, NEW c \in SshCallers, SshConnected(c)
    PROVE SshInv'
<1> DEFINE n == sshCall[c].name
           h == sshCall[c].host
           q == SshSocket(n)
<1>1. n \in SshNames /\ h \in SshHosts /\ q \in SshPaths /\ sshLock = c /\ ~SshExists(n)
      /\ h # None /\ c # None
  BY SshConstants DEF SshConnected, SshInv, SshTypeOK, SshHeld, SshPaths
<1>2. \A d \in SshCallers : sshCall'[d] = IF d = c THEN SshIdle ELSE sshCall[d]
  BY DEF SshConnected, SshInv, SshTypeOK
<1>3. \A m \in SshNames : sshSessions'[m] = IF m = n THEN h ELSE sshSessions[m]
  BY DEF SshConnected, SshInv, SshTypeOK
<1>4. \A p \in SshPaths : sshMaster'[p] = IF p = q /\ sshMaster[p] = None THEN h ELSE sshMaster[p]
  BY <1>1 DEF SshConnected, SshMasterUp, SshInv, SshTypeOK
<1>5. sshTold' = sshTold /\ sshLock' = None /\ sshCall[c].op = "connect"
  BY DEF SshConnected
<1>6. SshIdle \in SshCalls /\ SshIdle.op = "idle"
  BY DEF SshIdle, SshCalls
<1>7. SshTypeOK'
  <2>1. sshSessions' \in [SshNames -> SshHosts \cup {None}] /\ sshMaster' \in [SshPaths -> SshHosts \cup {None}]
    BY <1>1 DEF SshConnected, SshMasterUp, SshInv, SshTypeOK
  <2>2. sshCall' \in [SshCallers -> SshCalls]
    BY <1>6 DEF SshConnected, SshInv, SshTypeOK
  <2>3. QED
    BY <2>1, <2>2, <1>2, <1>5, <1>6 DEF SshInv, SshTypeOK
<1>8. SshHeld'
  <2>1. \A d \in SshCallers : sshCall[d].op = "connect" => d = c
    BY <1>1 DEF SshInv, SshHeld
  <2>2. \A d \in SshCallers : sshCall'[d].op # "connect"
    BY <2>1, <1>2, <1>6
  <2>3. QED
    BY <2>2 DEF SshHeld
<1> HIDE DEF n, h, q
<1>9. \A p : p \in SshClosing => p \in SshClosing'
  BY <1>2, <1>5, SshClosingMember DEF SshClosing
<1>10. \A p : p \in SshListed => p \in SshListed'
  BY <1>1, <1>3, SshListedMember DEF SshListed, SshExists
<1>11. q \in SshListed'
  BY <1>1, <1>3 DEF SshListed, SshExists, q
<1>12. SshNoForgottenMaster'
  BY <1>4, <1>5, <1>9, <1>10, <1>11 DEF SshInv, SshAgrees, SshNoForgottenMaster
<1>13. SshOwnHost'
  <2> SUFFICES ASSUME NEW m \in SshNames, SshExists(m)', sshMaster'[SshSocket(m)] # None,
                      sshMaster'[SshSocket(m)] # sshSessions'[m],
                      SshSocket(m) \notin SshClosing' \cup sshTold'
               PROVE \E o \in SshNames \ {m} : SshSocket(o) = SshSocket(m)
    BY DEF SshOwnHost
  <2>1. SshSocket(m) \notin SshClosing \cup sshTold /\ SshSocket(m) \in SshPaths
    BY <1>9, <1>5 DEF SshPaths
  <2>2. CASE m = n
    <3>1. sshMaster[q] # None
      BY <2>2, <1>1, <1>3, <1>4 DEF q
    <3>2. q \in SshListed
      BY <2>1, <2>2, <3>1, <1>1 DEF SshInv, SshAgrees, SshNoForgottenMaster, q
    <3>3. QED
      BY <3>2, <2>2, <1>1, SshListedMember DEF q
  <2>3. CASE m # n /\ SshSocket(m) = q
    BY <2>3, <1>1 DEF q
  <2>4. CASE m # n /\ SshSocket(m) # q
    <3>1. sshSessions'[m] = sshSessions[m] /\ sshMaster'[SshSocket(m)] = sshMaster[SshSocket(m)]
      BY <2>1, <2>4, <1>3, <1>4
    <3>2. QED
      BY <2>1, <3>1 DEF SshInv, SshAgrees, SshOwnHost, SshExists
  <2>5. QED
    BY <2>2, <2>3, <2>4
<1>14. QED
  BY <1>7, <1>8, <1>12, <1>13 DEF SshInv, SshAgrees

\* A handshake that fails leaves the map as it was.
LEMMA SshConnectFailsStep ==
    ASSUME SshInv, NEW c \in SshCallers, SshConnectFails(c)
    PROVE SshInv'
<1> DEFINE n == sshCall[c].name
           h == sshCall[c].host
           q == SshSocket(n)
<1>1. n \in SshNames /\ h \in SshHosts /\ q \in SshPaths /\ sshLock = c
  BY DEF SshConnectFails, SshInv, SshTypeOK, SshHeld, SshPaths
<1>2. \A d \in SshCallers : sshCall'[d] = IF d = c THEN SshIdle ELSE sshCall[d]
  BY DEF SshConnectFails, SshInv, SshTypeOK
<1>3. /\ \/ sshTold' = sshTold /\ sshMaster' = sshMaster
         \/ /\ sshTold' = sshTold \cup {q}
            /\ \A p \in SshPaths : p # q => sshMaster'[p] = sshMaster[p]
      /\ sshMaster' \in [SshPaths -> SshHosts \cup {None}]
  BY <1>1 DEF SshConnectFails, SshMasterUp, SshInv, SshTypeOK
<1>4. sshSessions' = sshSessions /\ sshLock' = None /\ sshCall[c].op = "connect"
  BY DEF SshConnectFails
<1>5. SshIdle \in SshCalls /\ SshIdle.op = "idle"
  BY DEF SshIdle, SshCalls
<1>6. SshTypeOK'
  <2>1. sshCall' \in [SshCallers -> SshCalls]
    BY <1>5 DEF SshConnectFails, SshInv, SshTypeOK
  <2>2. QED
    BY <2>1, <1>1, <1>2, <1>3, <1>4, <1>5 DEF SshInv, SshTypeOK
<1>7. SshHeld'
  <2>1. \A d \in SshCallers : sshCall[d].op = "connect" => d = c
    BY <1>1 DEF SshInv, SshHeld
  <2>2. \A d \in SshCallers : sshCall'[d].op # "connect"
    BY <2>1, <1>2, <1>5
  <2>3. QED
    BY <2>2 DEF SshHeld
<1> HIDE DEF n, h, q
<1>8. \A p : p \in SshClosing => p \in SshClosing'
  BY <1>2, <1>4, SshClosingMember DEF SshClosing
<1>9. SshListed' = SshListed
  BY <1>4 DEF SshListed, SshExists
<1>10. SshNoForgottenMaster'
  BY <1>3, <1>8, <1>9 DEF SshInv, SshAgrees, SshNoForgottenMaster
<1>11. SshOwnHost'
  <2>1. \A m \in SshNames : SshSocket(m) \in SshPaths
    BY DEF SshPaths
  <2>2. QED
    BY <1>3, <1>4, <1>8, <2>1 DEF SshInv, SshAgrees, SshOwnHost, SshExists
<1>12. QED
  BY <1>6, <1>7, <1>10, <1>11 DEF SshInv, SshAgrees

\* A session is forgotten: its path is closing from then on.
LEMMA SshForgetStep ==
    ASSUME SshInv, NEW c \in SshCallers, NEW n \in SshNames, NEW rest \in SUBSET SshNames,
           sshCall[c].op \in {"idle", "close"}, SshForget(c, n, rest)
    PROVE SshInv'
<1> DEFINE new == [op |-> "exit", name |-> n, host |-> sshSessions[n], todo |-> rest]
<1>1. \A d \in SshCallers : sshCall'[d] = IF d = c THEN new ELSE sshCall[d]
  BY DEF SshForget, SshInv, SshTypeOK
<1>2. \A m \in SshNames : sshSessions'[m] = IF m = n THEN None ELSE sshSessions[m]
  BY DEF SshForget, SshInv, SshTypeOK
<1>3. sshLock = None /\ UNCHANGED <<sshLock, sshMaster, sshTold>>
  BY DEF SshForget
<1>4. SshTypeOK'
  <2>1. new \in SshCalls
    BY DEF SshCalls, SshInv, SshTypeOK
  <2>2. sshCall' \in [SshCallers -> SshCalls] /\ sshSessions' \in [SshNames -> SshHosts \cup {None}]
    BY <2>1 DEF SshForget, SshInv, SshTypeOK
  <2>3. QED
    BY <2>2, <1>1, <1>3 DEF SshInv, SshTypeOK
<1>5. SshHeld'
  BY <1>1, <1>3, SshConstants DEF SshInv, SshHeld
<1>6. \A p : p \in SshClosing \cup {SshSocket(n)} => p \in SshClosing'
  BY <1>1, SshClosingMember DEF SshClosing
<1>7. \A p : p \in SshListed => p \in SshListed' \cup {SshSocket(n)}
  BY <1>2, SshListedMember DEF SshListed, SshExists
<1>8. SshNoForgottenMaster'
  BY <1>3, <1>6, <1>7 DEF SshInv, SshAgrees, SshNoForgottenMaster
<1>9. SshOwnHost'
  BY <1>2, <1>3, <1>6 DEF SshInv, SshAgrees, SshOwnHost, SshExists
<1>10. QED
  BY <1>4, <1>5, <1>8, <1>9 DEF SshInv, SshAgrees

\* The call that closes is done with a path: its master is gone, or the caller is told.
LEMMA SshExitStep ==
    ASSUME SshInv, NEW c \in SshCallers, SshExitWorks(c) \/ SshExitFails(c)
    PROVE SshInv'
<1> DEFINE n == sshCall[c].name
           q == SshSocket(n)
           new == sshCall'[c]
<1>1. n \in SshNames /\ q \in SshPaths /\ sshCall[c].op = "exit"
  BY DEF SshExitWorks, SshExitFails, SshInv, SshTypeOK, SshPaths
<1>2. new \in SshCalls /\ new.op \in {"idle", "close"} /\ sshCall' \in [SshCallers -> SshCalls]
  <2> DEFINE after == [SshIdle EXCEPT !.op = "close", !.todo = sshCall[c].todo]
  <2>1. sshCall[c].todo \in SUBSET SshNames
    BY DEF SshInv, SshTypeOK, SshCalls
  <2>2. /\ SshIdle \in SshCalls /\ SshIdle.op = "idle"
        /\ after \in SshCalls /\ after.op = "close"
    BY <2>1 DEF SshIdle, SshCalls
  <2>3. sshCall' = [sshCall EXCEPT ![c] = SshIdle] \/ sshCall' = [sshCall EXCEPT ![c] = after]
    <3>1. CASE SshExitFails(c)
      BY <3>1 DEF SshExitFails
    <3>2. CASE SshExitWorks(c) /\ sshCall[c].todo = {}
      BY <3>2 DEF SshExitWorks
    <3>3. CASE SshExitWorks(c) /\ sshCall[c].todo # {}
      BY <3>3 DEF SshExitWorks
    <3>4. QED
      BY <3>1, <3>2, <3>3
  <2> HIDE DEF after
  <2>4. QED
    BY <2>2, <2>3 DEF SshInv, SshTypeOK
<1>3. \A d \in SshCallers \ {c} : sshCall'[d] = sshCall[d]
  BY DEF SshExitWorks, SshExitFails, SshInv, SshTypeOK
<1>4. UNCHANGED <<sshSessions, sshLock>>
  BY DEF SshExitWorks, SshExitFails
<1>5. \A p \in SshPaths \ {q} : sshMaster'[p] = sshMaster[p] /\ (p \in sshTold <=> p \in sshTold')
  BY <1>1 DEF SshExitWorks, SshExitFails, SshTell, SshInv, SshTypeOK
<1>6. sshMaster'[q] = None \/ q \in sshTold'
  BY <1>1 DEF SshExitWorks, SshExitFails, SshTell, SshInv, SshTypeOK
<1>7. SshTypeOK'
  <2>1. sshMaster' \in [SshPaths -> SshHosts \cup {None}] /\ sshTold' \subseteq SshPaths
    BY <1>1 DEF SshExitWorks, SshExitFails, SshTell, SshInv, SshTypeOK
  <2>2. QED
    BY <2>1, <1>2, <1>3, <1>4 DEF SshInv, SshTypeOK
<1>8. SshHeld'
  BY <1>2, <1>3, <1>4 DEF SshInv, SshHeld, SshExists
<1> HIDE DEF n, new, q
<1>9. \A p : p \in SshClosing => p \in SshClosing' \cup {q}
  BY <1>3, SshClosingMember DEF SshClosing, q, n
<1>10. SshListed' = SshListed
  BY <1>4 DEF SshListed, SshExists
<1>11. SshNoForgottenMaster'
  BY <1>5, <1>6, <1>9, <1>10 DEF SshInv, SshAgrees, SshNoForgottenMaster
<1>12. SshOwnHost'
  <2>1. \A m \in SshNames : SshSocket(m) \in SshPaths
    BY DEF SshPaths
  <2>2. QED
    BY <2>1, <1>4, <1>5, <1>6, <1>9 DEF SshInv, SshAgrees, SshOwnHost, SshExists
<1>13. QED
  BY <1>7, <1>8, <1>11, <1>12 DEF SshInv, SshAgrees

\* A master that dies is no longer behind any path.
LEMMA SshDiesStep ==
    ASSUME SshInv, NEW q \in SshPaths, SshMasterDies(q)
    PROVE SshInv'
<1>1. \A p \in SshPaths : sshMaster'[p] = IF p = q THEN None ELSE sshMaster[p]
  BY DEF SshMasterDies, SshInv, SshTypeOK
<1>2. \A p \in SshPaths \ {q} : p \in sshTold => p \in sshTold'
  BY DEF SshMasterDies
<1>3. UNCHANGED <<sshSessions, sshLock, sshCall>>
  BY DEF SshMasterDies
<1>4. SshTypeOK' /\ SshHeld'
  BY <1>3 DEF SshMasterDies, SshInv, SshTypeOK, SshHeld, SshExists
<1>5. SshClosing' = SshClosing /\ SshListed' = SshListed
  BY <1>3 DEF SshClosing, SshListed, SshExists
<1>6. SshNoForgottenMaster'
  BY <1>1, <1>2, <1>5 DEF SshInv, SshAgrees, SshNoForgottenMaster
<1>7. SshOwnHost'
  <2>1. \A m \in SshNames : SshSocket(m) \in SshPaths
    BY DEF SshPaths
  <2>2. QED
    BY <2>1, <1>1, <1>2, <1>3, <1>5 DEF SshInv, SshAgrees, SshOwnHost, SshExists
<1>8. QED
  BY <1>4, <1>6, <1>7 DEF SshInv, SshAgrees

\* The other steps of a call, each by its lemma.
LEMMA SshCallStep ==
    ASSUME SshInv, NEW c \in SshCallers, SshStep(c)
    PROVE SshInv'
<1>1. ASSUME NEW n \in SshNames, NEW op, NEW ro, SshUse(c, n, op, ro) PROVE SshInv'
  <2>1. [op |-> "run", name |-> n, host |-> sshSessions[n], todo |-> {}] \in SshCalls
    BY DEF SshCalls, SshInv, SshTypeOK
  <2>2. QED
    BY <1>1, <2>1, SshQuietCall DEF SshUse
<1>2. ASSUME NEW ro, SshCloseAll(c, ro) PROVE SshInv'
  <2> DEFINE names == {n \in SshNames : SshExists(n)}
             new == [SshIdle EXCEPT !.op = "close", !.todo = names]
  <2>1. new \in SshCalls /\ new.op = "close"
    BY DEF SshIdle, SshCalls
  <2>2. QED
    BY <1>2, <2>1, SshQuietCall DEF SshCloseAll
<1>3. SshIdle \in SshCalls /\ SshIdle.op = "idle"
  BY DEF SshIdle, SshCalls
<1>4. CASE SshExecEnds(c)
  BY <1>3, <1>4, SshQuietCall DEF SshExecEnds
<1>5. CASE SshCloseNext(c)
  <2>1. PICK n \in sshCall[c].todo :
            \/ SshForget(c, n, sshCall[c].todo \ {n})
            \/ sshCall' = [sshCall EXCEPT ![c] = SshIdle]
               /\ UNCHANGED <<sshSessions, sshLock, sshMaster, sshTold>>
    BY <1>5 DEF SshCloseNext
  <2>2. n \in SshNames /\ sshCall[c].todo \ {n} \in SUBSET SshNames /\ sshCall[c].op = "close"
    BY <1>5 DEF SshCloseNext, SshInv, SshTypeOK, SshCalls
  <2>3. QED
    BY <1>3, <2>1, <2>2, SshForgetStep, SshQuietCall
<1>6. ASSUME NEW n \in SshNames, NEW ro, SshDisconnect(c, n, ro) PROVE SshInv'
  BY <1>6, SshForgetStep DEF SshDisconnect
<1>7. QED
  BY <1>1, <1>2, <1>4, <1>5, <1>6, SshConnectStep, SshConnectedStep, SshConnectFailsStep, SshExitStep
     DEF SshStep, SshExec, SshUpload, SshDownload

\* Every step of the pool keeps the invariant.
LEMMA SshNextStep == SshInv /\ [SshNext]_sshVars => SshInv'
<1> SUFFICES ASSUME SshInv, [SshNext]_sshVars PROVE SshInv'
  OBVIOUS
<1>1. CASE UNCHANGED sshVars
  BY <1>1 DEF sshVars, SshInv, SshTypeOK, SshHeld, SshAgrees, SshNoForgottenMaster, SshOwnHost,
              SshExists, SshListed, SshClosing
<1>2. QED
  BY <1>1, SshCallStep, SshDiesStep DEF SshNext

\* The map of the sessions and the masters that run agree: a master without a session
\* is about to be closed or its caller was told, and a session whose path is its own
\* is served by a master of its host (tools/ssh.rs, for any number of callers).
THEOREM SshPoolAgrees == SshSpec => []SshAgrees
<1>1. SshInv => SshAgrees
  BY DEF SshInv
<1>2. QED
  BY <1>1, SshInitially, SshNextStep, PTL DEF SshSpec

\* Only connect writes an entry, and it holds the map from its look-up on.
LEMMA SshKeepsSession ==
    SshInv /\ [SshNext]_sshVars =>
        \A n \in SshNames : SshExists(n) => sshSessions'[n] \in {sshSessions[n], None}
<1> SUFFICES ASSUME SshInv, [SshNext]_sshVars, NEW n \in SshNames, SshExists(n)
             PROVE sshSessions'[n] \in {sshSessions[n], None}
  OBVIOUS
<1>1. ASSUME NEW c \in SshCallers, SshConnected(c) PROVE sshSessions'[n] = sshSessions[n]
  BY <1>1 DEF SshConnected, SshInv, SshHeld, SshTypeOK
<1>2. ASSUME NEW c \in SshCallers, NEW m, NEW rest, SshForget(c, m, rest)
      PROVE sshSessions'[n] \in {sshSessions[n], None}
  BY <1>2 DEF SshForget, SshInv, SshTypeOK
<1>3. QED
  BY <1>1, <1>2, ZenonT(60)
     DEF SshNext, SshStep, SshConnect, SshConnectFails, SshExec, SshUpload, SshDownload, SshUse,
         SshExecEnds, SshDisconnect, SshExitWorks, SshExitFails, SshCloseAll, SshCloseNext,
         SshMasterDies, sshVars

\* A session in the map is never replaced by that of another connect, because the map
\* is held over the handshake (connect_session in tools/ssh.rs).
THEOREM SshSessionsNotReplaced == SshSpec => SshNotReplaced
BY SshInitially, SshNextStep, SshKeepsSession, PTL DEF SshSpec, SshNotReplaced

-----------------------------------------------------------------------------
(* The mcp tool *)
McpOps == {"list_tools", "call_tool"}

\* What a thread is: idle, or at a point of the call for one of the operations.
McpThreadOK(k) ==
    /\ k = [f \in {"pc", "op", "answer"} |-> k[f]]
    /\ k.pc \in {"idle", "spawn", "init", "wait", "ok", "err"}
    /\ k.pc # "idle" => k.op \in McpOps

\* A thread that ended well holds the answer to the request of its operation.
McpThreadsOwn ==
    /\ mcpThread = [t \in McpThreads |-> mcpThread[t]]
    /\ \A t \in McpThreads : McpThreadOK(mcpThread[t])
    /\ McpOwnAnswer

\* At first no thread has a call.
LEMMA McpInitially == McpInit => McpThreadsOwn
<1> SUFFICES ASSUME McpInit PROVE McpThreadsOwn
  OBVIOUS
<1>1. McpIdle.pc = "idle" /\ McpThreadOK(McpIdle)
  BY DEF McpIdle, McpThreadOK
<1>2. \A t \in McpThreads : mcpThread[t] = McpIdle
  BY DEF McpInit
<1>3. QED
  BY <1>1, <1>2 DEF McpInit, McpThreadsOwn, McpOwnAnswer

\* A thread that is moved to a point other than the good end stays well formed.
LEMMA McpMoved ==
    ASSUME McpThreadsOwn, NEW t \in McpThreads, NEW pc \in {"init", "wait", "err"},
           mcpThread[t].pc # "idle", McpMove(t, pc)
    PROVE McpThreadsOwn'
<1>1. mcpThread'[t] = [mcpThread[t] EXCEPT !.pc = pc]
  BY DEF McpMove, McpThreadsOwn
<1>2. \A u \in McpThreads \ {t} : mcpThread'[u] = mcpThread[u]
  BY DEF McpMove, McpThreadsOwn
<1>3. McpThreadOK(mcpThread'[t]) /\ mcpThread'[t].pc # "ok"
  BY <1>1 DEF McpThreadsOwn, McpThreadOK
<1>4. mcpThread' = [u \in McpThreads |-> mcpThread'[u]]
  BY DEF McpMove, McpThreadsOwn
<1>5. QED
  BY <1>2, <1>3, <1>4 DEF McpThreadsOwn, McpOwnAnswer

\* Every step of a thread, of the server and of the reader keeps it.
LEMMA McpStep == McpThreadsOwn /\ [McpNext]_mcpVars => McpThreadsOwn'
<1> SUFFICES ASSUME McpThreadsOwn, [McpNext]_mcpVars PROVE McpThreadsOwn'
  OBVIOUS
<1>1. CASE UNCHANGED mcpThread
  BY <1>1 DEF McpThreadsOwn, McpOwnAnswer
<1>2. ASSUME NEW t \in McpThreads, NEW op \in McpOps, McpBegin(t, op) PROVE McpThreadsOwn'
  <2>1. mcpThread'[t] = [pc |-> "spawn", op |-> op, answer |-> None]
    BY <1>2 DEF McpBegin, McpIdle, McpThreadsOwn
  <2>2. McpThreadOK(mcpThread'[t]) /\ mcpThread'[t].pc # "ok"
    BY <2>1 DEF McpThreadOK
  <2>3. QED
    BY <1>2, <2>2 DEF McpBegin, McpThreadsOwn, McpOwnAnswer
<1>3. ASSUME NEW t \in McpThreads, McpSpawn(t) PROVE McpThreadsOwn'
  BY <1>3, McpMoved DEF McpSpawn
<1>4. ASSUME NEW t \in McpThreads, McpInitialized(t) PROVE McpThreadsOwn'
  BY <1>4, McpMoved DEF McpInitialized
<1>5. ASSUME NEW t \in McpThreads, McpAnswered(t) PROVE McpThreadsOwn'
  <2>1. PICK m : /\ m = Head(mcpPipe[t])
                 /\ m.id = McpId(mcpThread[t].op)
                 /\ mcpThread' = [mcpThread EXCEPT ![t].pc = IF m.error THEN "err" ELSE "ok",
                                                   ![t].answer = m.id]
    BY <1>5 DEF McpAnswered, McpIsAnswer
  <2>2. mcpThread[t].pc = "wait"
    BY <1>5 DEF McpAnswered
  <2>3. /\ mcpThread'[t].op = mcpThread[t].op
        /\ mcpThread'[t].pc \in {"ok", "err"}
        /\ mcpThread'[t].answer = McpId(mcpThread[t].op)
        /\ mcpThread'[t] = [f \in {"pc", "op", "answer"} |-> mcpThread'[t][f]]
    <3>1. PICK k : k = mcpThread[t]
      OBVIOUS
    <3>2. PICK pc \in {"ok", "err"} : pc = IF m.error THEN "err" ELSE "ok"
      OBVIOUS
    <3>3. k = [f \in {"pc", "op", "answer"} |-> k[f]]
      BY <3>1 DEF McpThreadsOwn, McpThreadOK
    <3>4. mcpThread'[t] = [k EXCEPT !.pc = pc, !.answer = m.id]
      BY <2>1, <3>1, <3>2 DEF McpThreadsOwn
    <3>5. mcpThread'[t] = [f \in {"pc", "op", "answer"} |-> mcpThread'[t][f]]
      BY <3>3, <3>4
    <3>6. /\ mcpThread'[t].op = k.op /\ mcpThread'[t].pc = pc
          /\ mcpThread'[t].answer = m.id
      BY <3>3, <3>4
    <3>7. QED
      BY <2>1, <3>1, <3>2, <3>5, <3>6
  <2>4. McpThreadOK(mcpThread'[t])
    BY <2>2, <2>3 DEF McpThreadsOwn, McpThreadOK
  <2>5. \A u \in McpThreads \ {t} : mcpThread'[u] = mcpThread[u]
    BY <2>1 DEF McpThreadsOwn
  <2>6. mcpThread' = [u \in McpThreads |-> mcpThread'[u]]
    BY <2>1 DEF McpThreadsOwn
  <2>7. QED
    BY <2>3, <2>4, <2>5, <2>6 DEF McpThreadsOwn, McpOwnAnswer
<1>6. ASSUME NEW t \in McpThreads, McpBroken(t) PROVE McpThreadsOwn'
  BY <1>6, McpMoved DEF McpBroken
<1>7. ASSUME NEW t \in McpThreads, McpJoin(t) PROVE McpThreadsOwn'
  BY <1>7 DEF McpJoin, McpReset, McpIdle, McpThreadsOwn, McpThreadOK, McpOwnAnswer
<1>8. QED
  BY <1>1, <1>2, <1>3, <1>4, <1>5, <1>6, <1>7
     DEF McpNext, mcpVars, McpOps, McpServerSays, McpSkip, McpTimeout, McpServerExits

\* What an mcp call returns as the result is the answer to its own request, whatever
\* the server sends before it (read_response_for_id in tools/mcp.rs).
THEOREM McpReturnsOwnAnswer == McpSpec => []McpOwnAnswer
<1>1. McpThreadsOwn => McpOwnAnswer
  BY DEF McpThreadsOwn
<1>2. QED
  BY <1>1, McpInitially, McpStep, PTL DEF McpSpec

(* The download tool *)
\* A download under way has nothing verified; one that is done has what it says.
DlInv ==
    /\ dlCall = [f \in {"pc", "resume", "sha", "from", "body", "got"} |-> dlCall[f]]
    /\ DlVerified

\* A call that has ended claims nothing.
LEMMA DlIdles == ASSUME dlCall' = DlIdle PROVE DlInv'
BY DEF DlIdle, DlInv, DlVerified

\* The steps of the download, of the hash and of what else may write the file.
LEMMA DlStep == DlInv /\ [DlNext]_dlVars => DlInv'
<1> SUFFICES ASSUME DlInv, [DlNext]_dlVars PROVE DlInv'
  OBVIOUS
<1>1. ASSUME NEW r \in BOOLEAN, NEW v \in DlVersions \cup {None}, DlBegin(r, v) PROVE DlInv'
  BY <1>1 DEF DlBegin, DlIdle, DlInv, DlVerified
<1>2. ASSUME NEW st \in {200, 206, 416}, NEW z \in BOOLEAN, DlAnswered(st, z) PROVE DlInv'
  <2> DEFINE all == DlBlocks(dlServer)
             body == SubSeq(all, IF st = 206 THEN dlCall.from + 1 ELSE 1, Len(all))
  <2>1. \/ dlCall' = [dlCall EXCEPT !.pc = "body", !.body = body]
        \/ dlCall' = DlIdle
    BY <1>2 DEF DlAnswered
  <2> HIDE DEF body
  <2>2. CASE dlCall' = [dlCall EXCEPT !.pc = "body", !.body = body]
    BY <2>2 DEF DlInv, DlVerified
  <2>3. QED
    BY <2>1, <2>2, DlIdles
<1>3. CASE DlChunk
  <2>1. PICK k : /\ k = [dlCall EXCEPT !.body = Tail(@), !.got = @ + 1]
                 /\ dlCall' = IF DlOver(k) THEN DlIdle ELSE k
    BY <1>3 DEF DlChunk
  <2>2. dlCall.pc = "body"
    BY <1>3 DEF DlChunk
  <2>3. k.pc = "body" /\ k = [f \in {"pc", "resume", "sha", "from", "body", "got"} |-> k[f]]
    BY <2>1, <2>2 DEF DlInv
  <2>4. CASE dlCall' = k
    BY <2>3, <2>4 DEF DlInv, DlVerified
  <2>5. QED
    BY <2>1, <2>4, DlIdles
<1>4. CASE DlEnd
  <2>1. CASE DlMatches(dlCall)
    BY <1>4, <2>1 DEF DlEnd, DlMatches, DlInv, DlVerified
  <2>2. CASE ~DlMatches(dlCall)
    BY <1>4, <2>2, DlIdles DEF DlEnd
  <2>3. QED
    BY <2>1, <2>2
<1>5. CASE DlReturn \/ DlCut
  BY <1>5, DlIdles DEF DlReturn, DlCut
<1>6. CASE DlPublish \/ UNCHANGED dlVars
  BY <1>6 DEF DlPublish, dlVars, DlInv, DlVerified
<1>7. QED
  BY <1>1, <1>2, <1>3, <1>4, <1>5, <1>6 DEF DlNext

\* A download that succeeds with a checksum leaves the whole of the version of that
\* checksum, whatever was in the file before (execute_download in tools/download.rs).
THEOREM DownloadsVerified == DlSpec => []DlVerified
<1>1. DlInit => DlInv
  BY DEF DlInit, DlIdle, DlInv, DlVerified
<1>2. DlInv => DlVerified
  BY DEF DlInv
<1>3. QED
  BY <1>1, <1>2, DlStep, PTL DEF DlSpec

-----------------------------------------------------------------------------
(* The git tool *)
\* A history has a commit; what is not cloned has no branch and no tree.
GitHistories == Seq(GitTrees) \ {<<>>}
GitRefs(names) == [names -> GitHistories \cup {None}]
GitInv ==
    /\ gitHeads \in GitRefs(GitBranches) /\ gitTags \in GitRefs(GitTags)
    /\ gitTracked \in GitRefs(GitBranches) /\ gitRemote \in GitRefs(GitBranches)
    /\ gitHead \in GitBranches \cup {None}
    /\ gitHead = None => \A b \in GitBranches : gitHeads[b] = None
    /\ gitHead # None => gitIndex \in GitTrees /\ gitWork \in GitTrees

\* What a history reaches, one that continues it reaches.
LEMMA GitPrefixReaches ==
    ASSUME NEW c \in Seq(GitTrees), NEW d \in Seq(GitTrees), IsPrefix(c, d), NEW n \in 1..Len(c)
    PROVE n \in 1..Len(d) /\ SubSeq(c, 1, n) = SubSeq(d, 1, n)
<1>1. /\ Len(c) \in Nat /\ Len(d) \in Nat /\ Len(c) <= Len(d)
      /\ SubSeq(c, 1, Len(c)) = SubSeq(d, 1, Len(c))
  BY DEF IsPrefix
<1>2. n \in 1..Len(d)
  BY <1>1
<1>3. \A i \in 1..Len(c) : c[i] = d[i]
  <2>1. \A i \in 1..Len(c) : SubSeq(c, 1, Len(c))[i] = c[i] /\ SubSeq(d, 1, Len(c))[i] = d[i]
    BY <1>1
  <2>2. QED
    BY <1>1, <2>1
<1>4. SubSeq(c, 1, n) = SubSeq(d, 1, n)
  <2>1. /\ SubSeq(c, 1, n) = [i \in 1..n |-> c[i]]
        /\ SubSeq(d, 1, n) = [i \in 1..n |-> d[i]]
    BY <1>1
  <2>2. QED
    BY <1>1, <1>3, <2>1
<1>5. QED
  BY <1>2, <1>4

\* Nothing is forgotten when branches stay or go forward and tags stay.
LEMMA GitReachesOn ==
    ASSUME NEW heads \in GitRefs(GitBranches), NEW tags \in GitRefs(GitTags),
           NEW heads2 \in GitRefs(GitBranches), NEW tags2 \in GitRefs(GitTags),
           \A b \in GitBranches : heads[b] # None =>
              heads2[b] # None /\ (heads2[b] = heads[b] \/ IsPrefix(heads[b], heads2[b])),
           \A t \in GitTags : tags[t] # None => tags2[t] = tags[t]
    PROVE GitReachable(heads, tags) \subseteq GitReachable(heads2, tags2)
<1> SUFFICES ASSUME NEW x \in GitReachable(heads, tags) PROVE x \in GitReachable(heads2, tags2)
  OBVIOUS
<1>1. PICK c \in GitCommits(heads) \cup GitCommits(tags) : \E n \in 1..Len(c) : x = SubSeq(c, 1, n)
  BY DEF GitReachable
<1>2. PICK n \in 1..Len(c) : x = SubSeq(c, 1, n)
  BY <1>1
<1>3. ASSUME NEW d \in GitCommits(heads2) \cup GitCommits(tags2), NEW m \in 1..Len(d),
             x = SubSeq(d, 1, m)
      PROVE x \in GitReachable(heads2, tags2)
  BY <1>3 DEF GitReachable
<1>4. CASE c \in GitCommits(heads)
  <2>1. PICK b \in GitBranches : c = heads[b] /\ heads[b] # None
    BY <1>4 DEF GitCommits, GitRefs
  <2>2. heads2[b] \in GitCommits(heads2)
    BY <2>1 DEF GitCommits, GitRefs
  <2>3. c \in Seq(GitTrees) /\ heads2[b] \in Seq(GitTrees)
    BY <2>1 DEF GitRefs, GitHistories
  <2>4. n \in 1..Len(heads2[b]) /\ x = SubSeq(heads2[b], 1, n)
    BY <1>2, <2>1, <2>3, GitPrefixReaches
  <2>5. QED
    BY <1>3, <2>2, <2>4
<1>5. CASE c \in GitCommits(tags)
  <2>1. PICK t \in GitTags : c = tags[t] /\ tags[t] # None
    BY <1>5 DEF GitCommits, GitRefs
  <2>2. c \in GitCommits(tags2)
    BY <2>1 DEF GitCommits, GitRefs
  <2>3. QED
    BY <1>2, <1>3, <2>2
<1>6. QED
  BY <1>1, <1>4, <1>5

\* What is known is made of histories.
LEMMA GitKnownHistories == ASSUME GitInv PROVE GitKnown \subseteq GitHistories
BY DEF GitInv, GitKnown, GitCommits, GitRefs

\* A repository goes from state to state, and with it what is reached.
LEMMA GitInvariant == GitSpec => []GitInv
<1>1. GitInit => GitInv
  BY GitConstants DEF GitInit, GitInv, GitNoRefs, GitRefs, GitHistories
<1>2. GitInv /\ [GitNext]_gitVars => GitInv'
  <2> SUFFICES ASSUME GitInv, [GitNext]_gitVars PROVE GitInv'
    OBVIOUS
  <2>1. \A h \in GitHistories : Last(h) \in GitTrees /\ h # None
    BY GitConstants DEF GitHistories, Last
  <2>2. ASSUME NEW ro \in BOOLEAN, GitClone(ro) PROVE GitInv'
    BY <2>1, <2>2, GitConstants DEF GitClone, GitInv, GitRefs
  <2>3. ASSUME NEW ro \in BOOLEAN, NEW stages \in BOOLEAN, GitCommit(stages, ro) PROVE GitInv'
    <3> DEFINE past == IF GitTip = None THEN <<>> ELSE GitTip
    <3>1. gitHead \in GitBranches /\ gitIndex' \in GitTrees
      BY <2>3 DEF GitCommit, GitBegins, GitInv
    <3>2. past \in Seq(GitTrees)
      BY <3>1 DEF GitTip, GitInv, GitRefs, GitHistories
    <3> HIDE DEF past
    <3>3. Append(past, gitIndex') \in GitHistories
      BY <3>1, <3>2 DEF GitHistories
    <3>4. gitHeads' = [gitHeads EXCEPT ![gitHead] = Append(past, gitIndex')]
      BY <2>3 DEF GitCommit, past
    <3>5. /\ UNCHANGED <<gitHead, gitTags, gitTracked, gitRemote, gitWork>>
          /\ gitHead # None
      BY <2>3, <3>1, GitConstants DEF GitCommit
    <3>6. gitHeads' \in GitRefs(GitBranches)
      BY <3>3, <3>4 DEF GitInv, GitRefs
    <3>7. QED
      BY <3>1, <3>5, <3>6 DEF GitInv
  <2>4. ASSUME NEW ro \in BOOLEAN, NEW b \in GitBranches, NEW create \in BOOLEAN,
               GitCheckout(b, create, ro)
        PROVE GitInv'
    BY <2>4, GitKnownHistories, GitConstants DEF GitCheckout, GitBegins, GitCreates, GitInv, GitRefs
  <2>5. ASSUME NEW ro \in BOOLEAN, NEW b \in GitBranches, GitDeleteBranch(b, ro) PROVE GitInv'
    BY <2>5, GitConstants DEF GitDeleteBranch, GitBegins, GitInv, GitRefs
  <2>6. ASSUME NEW ro \in BOOLEAN, NEW b \in GitBranches, GitPull(b, ro) PROVE GitInv'
    BY <2>6, GitConstants DEF GitPull, GitBegins, GitInv, GitRefs
  <2>7. ASSUME NEW ro \in BOOLEAN, NEW b \in GitBranches, GitPush(b, ro) PROVE GitInv'
    BY <2>7, GitConstants DEF GitPush, GitBegins, GitInv, GitRefs
  <2>8. ASSUME NEW ro \in BOOLEAN, NEW b \in GitBranches, NEW c \in GitKnown,
               GitCreateBranch(b, c, ro)
        PROVE GitInv'
    BY <2>8, GitKnownHistories, GitConstants DEF GitCreateBranch, GitBegins, GitInv, GitRefs
  <2>9. ASSUME NEW ro \in BOOLEAN, NEW t \in GitTags, NEW c \in GitKnown, NEW force \in BOOLEAN,
               GitTag(t, c, force, ro)
        PROVE GitInv'
    BY <2>9, GitKnownHistories, GitConstants DEF GitTag, GitInv, GitRefs
  <2>10. ASSUME NEW ro \in BOOLEAN, NEW t \in GitTags, GitDeleteTag(t, ro) PROVE GitInv'
    BY <2>10, GitConstants DEF GitDeleteTag, GitInv, GitRefs
  <2>11. CASE GitOthersPush
    <3>1. PICK b \in GitBranches, v \in GitTrees :
              gitRemote' = [gitRemote EXCEPT ![b] = IF gitRemote[b] = None THEN <<v>>
                                                    ELSE Append(gitRemote[b], v)]
      BY <2>11 DEF GitOthersPush
    <3> DEFINE new == IF gitRemote[b] = None THEN <<v>> ELSE Append(gitRemote[b], v)
    <3>2. new \in GitHistories
      BY DEF GitInv, GitRefs, GitHistories
    <3>3. gitRemote' = [gitRemote EXCEPT ![b] = new]
      BY <3>1
    <3> HIDE DEF new
    <3>4. QED
      BY <2>11, <3>2, <3>3 DEF GitOthersPush, GitInv, GitRefs
  <2>12. CASE GitEdit \/ (\E ro \in BOOLEAN : GitRead(ro)) \/ UNCHANGED gitVars
    BY <2>12 DEF GitEdit, GitRead, gitVars, GitInv
  <2>13. QED
    BY <2>2, <2>3, <2>4, <2>5, <2>6, <2>7, <2>8, <2>9, <2>10, <2>11, <2>12 DEF GitNext
<1>3. QED
  BY <1>1, <1>2, PTL DEF GitSpec

\* No checkout, commit, push or pull of the branch HEAD is on forgets a commit that a
\* branch or a tag reaches, of any length of history and any branches of the remote.
THEOREM GitCommitsKeptTheorem == GitSpec => GitCommitsKept
<1>1. GitInv /\ GitInv' /\ [GitNext]_gitVars =>
        [gitDid' = "keeps" =>
            GitReachable(gitHeads, gitTags) \subseteq GitReachable(gitHeads', gitTags')]_gitVars
  <2> SUFFICES ASSUME GitInv, GitInv', GitNext, gitDid' = "keeps"
               PROVE GitReachable(gitHeads, gitTags) \subseteq GitReachable(gitHeads', gitTags')
    BY DEF gitVars
  <2>1. /\ gitHeads \in GitRefs(GitBranches) /\ gitHeads' \in GitRefs(GitBranches)
        /\ gitTags \in GitRefs(GitTags) /\ gitTags' \in GitRefs(GitTags)
    BY DEF GitInv, GitRefs
  <2> DEFINE HeadsOn == \A b \in GitBranches : gitHeads[b] # None =>
                 gitHeads'[b] # None /\ (gitHeads'[b] = gitHeads[b] \/ IsPrefix(gitHeads[b], gitHeads'[b]))
             TagsOn == \A t \in GitTags : gitTags[t] # None => gitTags'[t] = gitTags[t]
  <2>2. ASSUME NEW ro \in BOOLEAN, GitClone(ro) PROVE HeadsOn /\ TagsOn
    BY <2>2 DEF GitClone, GitInv
  <2>3. ASSUME NEW ro \in BOOLEAN, NEW stages \in BOOLEAN, GitCommit(stages, ro)
        PROVE HeadsOn /\ TagsOn
    <3>1. gitHead \in GitBranches /\ gitIndex' \in GitTrees
      BY <2>3 DEF GitCommit, GitBegins, GitInv
    <3>2. ASSUME GitTip # None
          PROVE /\ Append(GitTip, gitIndex') # None
                /\ IsPrefix(GitTip, Append(GitTip, gitIndex'))
      <4>1. GitTip \in Seq(GitTrees)
        BY <3>1, <3>2 DEF GitTip, GitInv, GitRefs, GitHistories
      <4>2. \A s \in Seq(GitTrees), v \in GitTrees :
               Append(s, v) \in Seq(GitTrees) /\ IsPrefix(s, Append(s, v))
        <5> SUFFICES ASSUME NEW s \in Seq(GitTrees), NEW v \in GitTrees
                     PROVE Append(s, v) \in Seq(GitTrees) /\ IsPrefix(s, Append(s, v))
          OBVIOUS
        <5>1. Len(s) \in Nat /\ Len(Append(s, v)) = Len(s) + 1 /\ Append(s, v) \in Seq(GitTrees)
          OBVIOUS
        <5>2. /\ SubSeq(s, 1, Len(s)) = [i \in 1..Len(s) |-> s[i]]
              /\ SubSeq(Append(s, v), 1, Len(s)) = [i \in 1..Len(s) |-> Append(s, v)[i]]
          BY <5>1
        <5>3. \A i \in 1..Len(s) : Append(s, v)[i] = s[i]
          BY <5>1
        <5>4. QED
          BY <5>1, <5>2, <5>3 DEF IsPrefix
      <4>3. QED
        BY <3>1, <4>1, <4>2, GitConstants
    <3>3. GitTip # None => gitHeads' = [gitHeads EXCEPT ![gitHead] = Append(GitTip, gitIndex')]
      BY <2>3 DEF GitCommit
    <3>4. \A b \in GitBranches : b # gitHead => gitHeads'[b] = gitHeads[b]
      BY <2>3, <3>1 DEF GitCommit, GitInv, GitRefs
    <3>5. GitTip # None => gitHeads'[gitHead] = Append(GitTip, gitIndex')
      BY <3>1, <3>3 DEF GitInv, GitRefs
    <3>6. HeadsOn
      <4> SUFFICES ASSUME NEW b \in GitBranches, gitHeads[b] # None
                   PROVE /\ gitHeads'[b] # None
                         /\ gitHeads'[b] = gitHeads[b] \/ IsPrefix(gitHeads[b], gitHeads'[b])
        OBVIOUS
      <4>1. CASE b = gitHead
        <5>1. GitTip = gitHeads[b] /\ gitHeads'[b] = Append(gitHeads[b], gitIndex')
          BY <3>5, <4>1 DEF GitTip
        <5>2. QED
          BY <3>2, <5>1
      <4>2. QED
        BY <3>4, <4>1
    <3>7. QED
      BY <2>3, <3>6 DEF GitCommit
  <2>4. ASSUME NEW ro \in BOOLEAN, NEW b \in GitBranches, NEW create \in BOOLEAN,
               GitCheckout(b, create, ro)
        PROVE HeadsOn /\ TagsOn
    BY <2>4 DEF GitCheckout, GitCreates, GitInv, GitRefs
  <2>5. ASSUME NEW ro \in BOOLEAN, NEW b \in GitBranches, GitPull(b, ro) PROVE HeadsOn /\ TagsOn
    <3>1. CASE ~GitUpToDate(gitRemote[b]) /\ GitForwards(gitRemote[b])
      <4>1. b = gitHead /\ gitHeads' = [gitHeads EXCEPT ![b] = gitRemote[b]] /\ UNCHANGED gitTags
        BY <2>5, <3>1 DEF GitPull
      <4>2. gitRemote[b] # None /\ (gitHeads[b] = None \/ IsPrefix(gitHeads[b], gitRemote[b]))
        BY <2>5, <3>1, <4>1 DEF GitPull, GitForwards, GitTip
      <4>3. QED
        BY <4>1, <4>2 DEF GitInv, GitRefs
    <3>2. QED
      BY <2>5, <3>1 DEF GitPull
  <2>6. ASSUME NEW ro \in BOOLEAN, NEW b \in GitBranches, NEW c \in GitKnown,
               GitCreateBranch(b, c, ro)
        PROVE HeadsOn /\ TagsOn
    BY <2>6 DEF GitCreateBranch, GitCreates, GitInv, GitRefs
  <2>7. ASSUME NEW ro \in BOOLEAN, NEW t \in GitTags, NEW c \in GitKnown, NEW force \in BOOLEAN,
               GitTag(t, c, force, ro)
        PROVE HeadsOn /\ TagsOn
    BY <2>7 DEF GitTag, GitInv, GitRefs
  <2>8. ASSUME NEW ro \in BOOLEAN, \/ \E b \in GitBranches : GitDeleteBranch(b, ro)
                                   \/ \E t \in GitTags : GitDeleteTag(t, ro)
        PROVE FALSE
    BY <2>8 DEF GitDeleteBranch, GitDeleteTag
  <2>9. ASSUME NEW ro \in BOOLEAN, NEW b \in GitBranches, GitPush(b, ro) PROVE HeadsOn /\ TagsOn
    BY <2>9 DEF GitPush
  <2>10. ASSUME GitOthersPush \/ GitEdit \/ \E ro \in BOOLEAN : GitRead(ro)
         PROVE HeadsOn /\ TagsOn
    BY <2>10 DEF GitOthersPush, GitEdit, GitRead
  <2>11. HeadsOn /\ TagsOn
    <3> HIDE DEF HeadsOn, TagsOn
    <3>1. CASE GitOthersPush \/ GitEdit \/ \E ro \in BOOLEAN : GitRead(ro)
      BY <2>10, <3>1
    <3>2. ASSUME NEW ro \in BOOLEAN,
                 \/ GitClone(ro)
                 \/ \E stages \in BOOLEAN : GitCommit(stages, ro)
                 \/ \E b \in GitBranches : GitCheckout(b, TRUE, ro) \/ GitCheckout(b, FALSE, ro)
          PROVE HeadsOn /\ TagsOn
      BY <2>2, <2>3, <2>4, <3>2
    <3>3. ASSUME NEW ro \in BOOLEAN,
                 \/ \E b \in GitBranches : GitDeleteBranch(b, ro)
                 \/ \E b \in GitBranches : GitPull(b, ro) \/ GitPush(b, ro)
                 \/ \E b \in GitBranches, c \in GitKnown : GitCreateBranch(b, c, ro)
          PROVE HeadsOn /\ TagsOn
      BY <2>5, <2>6, <2>8, <2>9, <3>3
    <3>4. ASSUME NEW ro \in BOOLEAN,
                 \/ \E t \in GitTags, c \in GitKnown, force \in BOOLEAN : GitTag(t, c, force, ro)
                 \/ \E t \in GitTags : GitDeleteTag(t, ro)
          PROVE HeadsOn /\ TagsOn
      BY <2>7, <2>8, <3>4
    <3>5. QED
      BY <3>1, <3>2, <3>3, <3>4 DEF GitNext
  <2>12. QED
    BY <2>1, <2>11, GitReachesOn
<1>2. QED
  BY <1>1, GitInvariant, PTL DEF GitSpec, GitCommitsKept

-----------------------------------------------------------------------------
(* The filesystem tool *)
\* A path is told from its length and its names.
LEMMA FsPrefix ==
    ASSUME NEW p \in Seq(FsNames), NEW q \in Seq(FsNames)
    PROVE IsPrefix(p, q) <=> Len(p) <= Len(q) /\ \A i \in 1..Len(p) : p[i] = q[i]
<1>1. Len(p) \in Nat /\ Len(q) \in Nat
  OBVIOUS
<1>2. CASE Len(p) <= Len(q)
  <2>1. /\ SubSeq(p, 1, Len(p)) = [i \in 1..Len(p) |-> p[i]]
        /\ SubSeq(q, 1, Len(p)) = [i \in 1..Len(p) |-> q[i]]
    BY <1>1, <1>2
  <2>2. (\A i \in 1..Len(p) : p[i] = q[i]) => IsPrefix(p, q)
    BY <1>2, <2>1 DEF IsPrefix
  <2>3. ASSUME IsPrefix(p, q), NEW i \in 1..Len(p) PROVE p[i] = q[i]
    <3>1. SubSeq(p, 1, Len(p))[i] = SubSeq(q, 1, Len(p))[i]
      BY <2>3 DEF IsPrefix
    <3>2. QED
      BY <2>1, <3>1
  <2>4. QED
    BY <1>2, <2>2, <2>3
<1>3. QED
  BY <1>2 DEF IsPrefix

\* Paths with the same names are the same.
LEMMA FsSamePath ==
    ASSUME NEW p \in Seq(FsNames), NEW q \in Seq(FsNames), Len(p) = Len(q),
           \A i \in 1..Len(p) : p[i] = q[i]
    PROVE p = q
<1>1. p = [i \in 1..Len(p) |-> p[i]] /\ q = [i \in 1..Len(q) |-> q[i]]
  OBVIOUS
<1>2. QED
  BY <1>1

\* A path is a sequence of names.
LEMMA FsPathIs == ASSUME NEW p \in FsPaths PROVE p \in Seq(FsNames) /\ Len(p) \in Nat
<1>1. p \in Seq(FsNames)
  BY FsConstants
<1>2. QED
  BY <1>1

\* The paths below one another are ordered, and those above one path are in line.
LEMMA FsPrefixOrder ==
    ASSUME NEW p \in FsPaths, NEW q \in FsPaths, NEW r \in FsPaths
    PROVE /\ IsPrefix(p, p)
          /\ IsPrefix(p, q) /\ IsPrefix(q, r) => IsPrefix(p, r)
          /\ IsPrefix(p, q) /\ IsPrefix(q, p) => p = q
          /\ IsPrefix(p, r) /\ IsPrefix(q, r) => IsPrefix(p, q) \/ IsPrefix(q, p)
<1>1. /\ p \in Seq(FsNames) /\ q \in Seq(FsNames) /\ r \in Seq(FsNames)
      /\ Len(p) \in Nat /\ Len(q) \in Nat /\ Len(r) \in Nat
  BY FsPathIs
<1>2. IsPrefix(p, p)
  BY <1>1, FsPrefix
<1>3. IsPrefix(p, q) /\ IsPrefix(q, r) => IsPrefix(p, r)
  <2> SUFFICES ASSUME IsPrefix(p, q), IsPrefix(q, r) PROVE IsPrefix(p, r)
    OBVIOUS
  <2>1. /\ Len(p) <= Len(q) /\ \A i \in 1..Len(p) : p[i] = q[i]
        /\ Len(q) <= Len(r) /\ \A i \in 1..Len(q) : q[i] = r[i]
    BY <1>1, FsPrefix
  <2>2. Len(p) <= Len(r) /\ \A i \in 1..Len(p) : p[i] = r[i]
    BY <1>1, <2>1
  <2>3. QED
    BY <1>1, <2>2, FsPrefix
<1>4. IsPrefix(p, q) /\ IsPrefix(q, p) => p = q
  <2> SUFFICES ASSUME IsPrefix(p, q), IsPrefix(q, p) PROVE p = q
    OBVIOUS
  <2>1. Len(p) = Len(q) /\ \A i \in 1..Len(p) : p[i] = q[i]
    <3>1. Len(p) <= Len(q) /\ Len(q) <= Len(p) /\ \A i \in 1..Len(p) : p[i] = q[i]
      BY <1>1, FsPrefix
    <3>2. QED
      BY <1>1, <3>1
  <2>2. QED
    BY <1>1, <2>1, FsSamePath
<1>5. IsPrefix(p, r) /\ IsPrefix(q, r) => IsPrefix(p, q) \/ IsPrefix(q, p)
  <2> SUFFICES ASSUME IsPrefix(p, r), IsPrefix(q, r) PROVE IsPrefix(p, q) \/ IsPrefix(q, p)
    OBVIOUS
  <2>1. /\ \A i \in 1..Len(p) : p[i] = r[i]
        /\ \A i \in 1..Len(q) : q[i] = r[i]
    BY <1>1, FsPrefix
  <2>2. CASE Len(p) <= Len(q)
    <3>1. \A i \in 1..Len(p) : p[i] = q[i]
      BY <1>1, <2>1, <2>2
    <3>2. QED
      BY <1>1, <2>2, <3>1, FsPrefix
  <2>3. CASE Len(q) <= Len(p)
    <3>1. \A i \in 1..Len(q) : q[i] = p[i]
      BY <1>1, <2>1, <2>3
    <3>2. QED
      BY <1>1, <2>3, <3>1, FsPrefix
  <2>4. QED
    BY <1>1, <2>2, <2>3
<1>6. QED
  BY <1>2, <1>3, <1>4, <1>5

\* What is above a path is above its directory, or is that.
LEMMA FsFront ==
    ASSUME NEW p \in FsPaths, p # <<>>
    PROVE /\ Front(p) \in FsPaths /\ Len(Front(p)) = Len(p) - 1 /\ IsPrefix(Front(p), p)
          /\ \A x \in FsPaths : IsPrefix(x, p) /\ x # p => IsPrefix(x, Front(p))
<1>1. p \in Seq(FsNames) /\ Len(p) \in Nat /\ Len(p) # 0
  BY FsPathIs
<1> DEFINE f == Front(p)
<1>2. f = SubSeq(p, 1, Len(p) - 1)
  BY DEF Front
<1>3. f \in FsPaths
  <2>1. Len(p) - 1 \in 0..Len(p)
    BY <1>1
  <2>2. SubSeq(p, 1, Len(p) - 1) \in FsPaths
    BY <2>1, FsConstants
  <2>3. QED
    BY <1>2, <2>2
<1>4. f \in Seq(FsNames) /\ Len(f) = Len(p) - 1 /\ \A i \in 1..Len(f) : f[i] = p[i]
  <2>1. \A i \in 1..Len(p) - 1 : p[i] \in FsNames
    BY <1>1
  <2>2. PICK n \in Nat : n = Len(p) - 1 /\ n >= 0
    BY <1>1
  <2>3. /\ SubSeq(p, 1, n) \in Seq(FsNames)
        /\ Len(SubSeq(p, 1, n)) = IF 1 <= n THEN n - 1 + 1 ELSE 0
        /\ \A i \in 1..n - 1 + 1 : SubSeq(p, 1, n)[i] = p[1 + i - 1]
    BY <2>1, <2>2, SubSeqProperties
  <2>4. Len(SubSeq(p, 1, n)) = n /\ \A i \in 1..n : SubSeq(p, 1, n)[i] = p[i]
    BY <2>2, <2>3
  <2>5. QED
    BY <1>2, <2>2, <2>3, <2>4
<1> HIDE DEF f
<1>5. IsPrefix(f, p)
  BY <1>1, <1>4, FsPrefix
<1>6. ASSUME NEW x \in FsPaths, IsPrefix(x, p), x # p PROVE IsPrefix(x, f)
  <2>1. x \in Seq(FsNames) /\ Len(x) \in Nat
    BY FsPathIs
  <2>2. Len(x) <= Len(p) /\ \A i \in 1..Len(x) : x[i] = p[i]
    BY <1>1, <1>6, <2>1, FsPrefix
  <2>3. Len(x) # Len(p)
    BY <1>1, <1>6, <2>1, <2>2, FsSamePath
  <2>4. Len(x) <= Len(f) /\ \A i \in 1..Len(x) : x[i] = f[i]
    BY <1>1, <1>4, <2>1, <2>2, <2>3
  <2>5. QED
    BY <1>4, <2>1, <2>4, FsPrefix
<1>7. QED
  BY <1>3, <1>4, <1>5, <1>6 DEF f

\* The place of what lies below src at dst: its names, and that it is below dst.
LEMMA FsToIs ==
    ASSUME NEW src \in FsPaths, NEW dst \in FsPaths, NEW q \in FsPaths, IsPrefix(src, q)
    PROVE /\ FsTo(src, dst, q) \in Seq(FsNames)
          /\ Len(FsTo(src, dst, q)) = Len(dst) + (Len(q) - Len(src))
          /\ \A i \in 1..Len(dst) : FsTo(src, dst, q)[i] = dst[i]
          /\ \A i \in 1..Len(q) - Len(src) : FsTo(src, dst, q)[Len(dst) + i] = q[Len(src) + i]
<1>1. /\ src \in Seq(FsNames) /\ dst \in Seq(FsNames) /\ q \in Seq(FsNames)
      /\ Len(src) \in Nat /\ Len(dst) \in Nat /\ Len(q) \in Nat
  BY FsPathIs
<1>2. Len(src) <= Len(q)
  BY <1>1, FsPrefix
<1> DEFINE rest == SubSeq(q, Len(src) + 1, Len(q))
<1>3. /\ rest \in Seq(FsNames) /\ Len(rest) = Len(q) - Len(src)
      /\ \A i \in 1..Len(q) - Len(src) : rest[i] = q[Len(src) + i]
  BY <1>1, <1>2
<1> HIDE DEF rest
<1>4. /\ dst \o rest \in Seq(FsNames) /\ Len(dst \o rest) = Len(dst) + Len(rest)
      /\ \A i \in 1..Len(dst) : (dst \o rest)[i] = dst[i]
      /\ \A i \in 1..Len(rest) : (dst \o rest)[Len(dst) + i] = rest[i]
  <2>1. Len(rest) \in Nat /\ rest \in Seq(FsNames) /\ dst \in Seq(FsNames)
    BY <1>1, <1>3
  <2>2. /\ dst \o rest \in Seq(FsNames) /\ Len(dst \o rest) = Len(dst) + Len(rest)
        /\ \A i \in 1..Len(dst) + Len(rest) :
               (dst \o rest)[i] = IF i <= Len(dst) THEN dst[i] ELSE rest[i - Len(dst)]
    BY <2>1, ConcatProperties
  <2>3. \A i \in 1..Len(dst) : (dst \o rest)[i] = dst[i]
    BY <1>1, <2>1, <2>2
  <2>4. ASSUME NEW i \in 1..Len(rest) PROVE (dst \o rest)[Len(dst) + i] = rest[i]
    <3>1. PICK k \in 1..Len(dst) + Len(rest) : k = Len(dst) + i /\ k > Len(dst) /\ k - Len(dst) = i
      <4>1. /\ Len(dst) + i \in 1..Len(dst) + Len(rest)
            /\ Len(dst) + i > Len(dst) /\ Len(dst) + i - Len(dst) = i
        BY <1>1, <2>1
      <4>2. QED
        BY <4>1
    <3>2. (dst \o rest)[k] = rest[k - Len(dst)]
      BY <1>1, <2>2, <3>1
    <3>3. QED
      BY <3>1, <3>2
  <2>5. QED
    BY <2>2, <2>3, <2>4
<1>5. FsTo(src, dst, q) = dst \o rest
  BY DEF FsTo, rest
<1>6. QED
  BY <1>3, <1>4, <1>5

\* No two paths have the same place.
LEMMA FsToInjective ==
    ASSUME NEW src \in FsPaths, NEW dst \in FsPaths, NEW q \in FsPaths, NEW r \in FsPaths,
           IsPrefix(src, q), IsPrefix(src, r), FsTo(src, dst, q) = FsTo(src, dst, r)
    PROVE q = r
<1>1. /\ src \in Seq(FsNames) /\ q \in Seq(FsNames) /\ r \in Seq(FsNames)
      /\ Len(src) \in Nat /\ Len(dst) \in Nat /\ Len(q) \in Nat /\ Len(r) \in Nat
  BY FsPathIs
<1>2. Len(q) = Len(r)
  <2>1. Len(FsTo(src, dst, q)) = Len(dst) + (Len(q) - Len(src))
    BY FsToIs
  <2>2. Len(FsTo(src, dst, r)) = Len(dst) + (Len(r) - Len(src))
    BY FsToIs
  <2>3. QED
    BY <1>1, <2>1, <2>2
<1>3. /\ Len(src) <= Len(q) /\ \A i \in 1..Len(src) : src[i] = q[i]
      /\ \A i \in 1..Len(src) : src[i] = r[i]
  BY <1>1, FsPrefix
<1>4. ASSUME NEW i \in 1..Len(q) PROVE q[i] = r[i]
  <2>1. CASE i <= Len(src)
    BY <1>1, <1>3, <2>1
  <2>2. CASE i > Len(src)
    <3>1. PICK j \in 1..Len(q) - Len(src) : i = Len(src) + j
      <4>1. i - Len(src) \in 1..Len(q) - Len(src) /\ i = Len(src) + (i - Len(src))
        BY <1>1, <1>3, <2>2
      <4>2. QED
        BY <4>1
    <3>2. FsTo(src, dst, q)[Len(dst) + j] = q[Len(src) + j]
      BY <3>1, FsToIs, ZenonT(60)
    <3>3. FsTo(src, dst, r)[Len(dst) + j] = r[Len(src) + j]
      <4>1. j \in 1..Len(r) - Len(src)
        BY <1>2, <3>1
      <4>2. QED
        BY <4>1, FsToIs, ZenonT(60)
    <3>4. QED
      BY <3>1, <3>2, <3>3
  <2>3. QED
    BY <1>1, <2>1, <2>2
<1>5. QED
  BY <1>1, <1>2, <1>4, FsSamePath

\* The first names of a path are a path above it.
LEMMA FsCut ==
    ASSUME NEW q \in FsPaths, NEW n \in 0..Len(q)
    PROVE \E r \in FsPaths : /\ Len(r) = n /\ IsPrefix(r, q)
                             /\ \A p \in FsPaths : IsPrefix(p, q) /\ Len(p) <= n => IsPrefix(p, r)
<1>1. q \in Seq(FsNames) /\ Len(q) \in Nat /\ n \in Nat /\ n <= Len(q)
  BY FsPathIs
<1> DEFINE r == SubSeq(q, 1, n)
<1>2. r \in FsPaths
  BY FsConstants
<1>3. r \in Seq(FsNames) /\ Len(r) = n /\ \A i \in 1..n : r[i] = q[i]
  BY <1>1
<1> HIDE DEF r
<1>4. IsPrefix(r, q)
  BY <1>1, <1>3, FsPrefix
<1>5. ASSUME NEW p \in FsPaths, IsPrefix(p, q), Len(p) <= n PROVE IsPrefix(p, r)
  <2>1. p \in Seq(FsNames) /\ Len(p) \in Nat
    BY FsPathIs
  <2>2. \A i \in 1..Len(p) : p[i] = q[i]
    BY <1>1, <1>5, <2>1, FsPrefix
  <2>3. \A i \in 1..Len(p) : p[i] = r[i]
    BY <1>1, <1>3, <1>5, <2>1, <2>2
  <2>4. QED
    BY <1>3, <1>5, <2>1, <2>3, FsPrefix
<1>6. QED
  BY <1>2, <1>3, <1>4, <1>5

\* Below src and below dst paths are above one another alike.
LEMMA FsToKeepsPrefix ==
    ASSUME NEW src \in FsPaths, NEW dst \in FsPaths, NEW r \in FsPaths, NEW q \in FsPaths,
           IsPrefix(src, r), IsPrefix(r, q)
    PROVE IsPrefix(dst, FsTo(src, dst, r)) /\ IsPrefix(FsTo(src, dst, r), FsTo(src, dst, q))
<1>1. /\ src \in Seq(FsNames) /\ dst \in Seq(FsNames) /\ q \in Seq(FsNames) /\ r \in Seq(FsNames)
      /\ Len(src) \in Nat /\ Len(dst) \in Nat /\ Len(q) \in Nat /\ Len(r) \in Nat
  BY FsPathIs
<1>2. IsPrefix(src, q)
  BY FsPrefixOrder
<1> DEFINE s == FsTo(src, dst, r)
           t == FsTo(src, dst, q)
<1>3. /\ s \in Seq(FsNames) /\ Len(s) = Len(dst) + (Len(r) - Len(src))
      /\ \A i \in 1..Len(dst) : s[i] = dst[i]
      /\ \A i \in 1..Len(r) - Len(src) : s[Len(dst) + i] = r[Len(src) + i]
  BY FsToIs, ZenonT(60)
<1>4. /\ t \in Seq(FsNames) /\ Len(t) = Len(dst) + (Len(q) - Len(src))
      /\ \A i \in 1..Len(dst) : t[i] = dst[i]
      /\ \A i \in 1..Len(q) - Len(src) : t[Len(dst) + i] = q[Len(src) + i]
  BY <1>2, FsToIs, ZenonT(60)
<1> HIDE DEF s, t
<1>5. /\ Len(src) <= Len(r) /\ Len(r) <= Len(q) /\ \A i \in 1..Len(r) : r[i] = q[i]
  BY <1>1, FsPrefix
<1>6. IsPrefix(dst, s)
  BY <1>1, <1>3, <1>5, FsPrefix
<1>7. ASSUME NEW i \in 1..Len(s) PROVE s[i] = t[i]
  <2>1. CASE i <= Len(dst)
    BY <1>1, <1>3, <1>4, <2>1
  <2>2. CASE i > Len(dst)
    <3>1. PICK j \in 1..Len(r) - Len(src) : i = Len(dst) + j
      <4>1. i - Len(dst) \in 1..Len(r) - Len(src) /\ i = Len(dst) + (i - Len(dst))
        BY <1>1, <1>3, <1>5, <2>2
      <4>2. QED
        BY <4>1
    <3>2. j \in 1..Len(q) - Len(src) /\ Len(src) + j \in 1..Len(r)
      BY <1>1, <1>5, <3>1
    <3>3. s[Len(dst) + j] = r[Len(src) + j] /\ t[Len(dst) + j] = q[Len(src) + j]
      BY <1>3, <1>4, <3>1, <3>2
    <3>4. QED
      BY <1>5, <3>1, <3>2, <3>3
  <2>3. QED
    BY <1>1, <1>3, <1>5, <2>1, <2>2
<1>8. IsPrefix(s, t)
  <2>1. Len(s) <= Len(t)
    BY <1>1, <1>3, <1>4, <1>5
  <2>2. QED
    BY <1>3, <1>4, <1>7, <2>1, FsPrefix
<1>9. QED
  BY <1>6, <1>8 DEF s, t

\* The place of the source itself is the destination.
LEMMA FsToOwn ==
    ASSUME NEW src \in FsPaths, NEW dst \in FsPaths
    PROVE FsTo(src, dst, src) = dst
<1>1. /\ src \in Seq(FsNames) /\ dst \in Seq(FsNames) /\ Len(src) \in Nat /\ Len(dst) \in Nat
  BY FsPathIs
<1>2. IsPrefix(src, src)
  BY FsPrefixOrder
<1>3. /\ FsTo(src, dst, src) \in Seq(FsNames)
      /\ Len(FsTo(src, dst, src)) = Len(dst)
      /\ \A i \in 1..Len(dst) : FsTo(src, dst, src)[i] = dst[i]
  BY <1>1, <1>2, FsToIs
<1>4. QED
  BY <1>1, <1>3, FsSamePath

\* What lies between dst and the place of q is the place of a path above q, and the
\* directory of the place of the next one.
LEMMA FsToAbove ==
    ASSUME NEW src \in FsPaths, NEW dst \in FsPaths, NEW q \in FsPaths, NEW x \in FsPaths,
           IsPrefix(src, q), FsTo(src, dst, q) \in FsPaths,
           IsPrefix(x, FsTo(src, dst, q)), x # FsTo(src, dst, q), IsPrefix(dst, x)
    PROVE \E r \in FsPaths, next \in FsPaths :
              /\ IsPrefix(src, r) /\ IsPrefix(r, q) /\ r # q /\ x = FsTo(src, dst, r)
              /\ IsPrefix(src, next) /\ next # src /\ IsPrefix(next, q)
              /\ Front(FsTo(src, dst, next)) = x
<1>1. /\ src \in Seq(FsNames) /\ dst \in Seq(FsNames) /\ q \in Seq(FsNames) /\ x \in Seq(FsNames)
      /\ Len(src) \in Nat /\ Len(dst) \in Nat /\ Len(q) \in Nat /\ Len(x) \in Nat
  BY FsPathIs
<1>2. PICK to \in FsPaths : to = FsTo(src, dst, q)
  OBVIOUS
<1>3. to \in Seq(FsNames) /\ Len(to) = Len(dst) + (Len(q) - Len(src)) /\ Len(to) \in Nat
  BY <1>2, FsToIs, FsPathIs
<1>4. Len(src) <= Len(q) /\ Len(dst) <= Len(x)
  BY <1>1, FsPrefix
<1>5. Len(x) < Len(to)
  <2>1. Len(x) <= Len(to) /\ \A i \in 1..Len(x) : x[i] = to[i]
    BY <1>1, <1>2, <1>3, FsPrefix
  <2>2. Len(x) # Len(to)
    BY <1>1, <1>2, <1>3, <2>1, FsSamePath
  <2>3. Len(x) \in Nat /\ Len(to) \in Nat /\ Len(x) <= Len(to)
    BY <1>1, <1>3, <2>1
  <2>4. QED
    BY <2>2, <2>3
<1>6. PICK n \in 0..Len(q) : /\ n = Len(src) + (Len(x) - Len(dst)) /\ n < Len(q)
                             /\ n + 1 \in 0..Len(q) /\ Len(src) <= n
  <2>1. /\ Len(src) + (Len(x) - Len(dst)) \in 0..Len(q)
        /\ Len(src) + (Len(x) - Len(dst)) < Len(q)
        /\ Len(src) + (Len(x) - Len(dst)) + 1 \in 0..Len(q)
        /\ Len(src) <= Len(src) + (Len(x) - Len(dst))
    BY <1>1, <1>3, <1>4, <1>5
  <2>2. QED
    BY <2>1
<1>7. PICK r \in FsPaths : Len(r) = n /\ IsPrefix(r, q) /\ IsPrefix(src, r)
  BY <1>1, <1>6, FsCut
<1>8. PICK next \in FsPaths : Len(next) = n + 1 /\ IsPrefix(next, q) /\ IsPrefix(src, next)
  <2>1. Len(src) <= n + 1
    BY <1>1, <1>6
  <2>2. QED
    BY <1>6, <2>1, FsCut
<1>9. /\ FsTo(src, dst, r) \in Seq(FsNames) /\ Len(FsTo(src, dst, r)) = Len(x)
      /\ IsPrefix(FsTo(src, dst, r), to)
  <2>1. /\ FsTo(src, dst, r) \in Seq(FsNames)
        /\ Len(FsTo(src, dst, r)) = Len(dst) + (Len(r) - Len(src))
    BY <1>7, FsToIs
  <2>2. IsPrefix(FsTo(src, dst, r), to)
    BY <1>2, <1>7, FsToKeepsPrefix
  <2>3. QED
    BY <1>1, <1>6, <1>7, <2>1, <2>2
<1>10. x = FsTo(src, dst, r)
  <2>1. /\ \A i \in 1..Len(x) : x[i] = to[i]
        /\ \A i \in 1..Len(x) : FsTo(src, dst, r)[i] = to[i]
    BY <1>1, <1>2, <1>3, <1>9, FsPrefix
  <2>2. QED
    BY <1>1, <1>9, <2>1, FsSamePath
<1>11. Front(FsTo(src, dst, next)) = x
  <2>1. PICK s : s = FsTo(src, dst, next)
    OBVIOUS
  <2>2. s \in Seq(FsNames) /\ Len(s) = Len(dst) + (Len(next) - Len(src))
    <3>1. IsPrefix(src, next)
      BY <1>8
    <3>2. /\ FsTo(src, dst, next) \in Seq(FsNames)
          /\ Len(FsTo(src, dst, next)) = Len(dst) + (Len(next) - Len(src))
      BY <3>1, FsToIs
    <3>3. QED
      BY <2>1, <3>2
  <2>3. Len(s) = Len(x) + 1 /\ Len(s) - 1 = Len(x) /\ Len(s) \in Nat
    <3>1. Len(next) = Len(src) + (Len(x) - Len(dst)) + 1
      BY <1>6, <1>8
    <3>2. Len(s) = Len(dst) + (Len(next) - Len(src)) /\ Len(s) \in Nat
      BY <2>2
    <3>3. Len(src) \in Nat /\ Len(dst) \in Nat /\ Len(x) \in Nat
      BY <1>1
    <3>4. QED
      BY <3>1, <3>2, <3>3
  <2>4. IsPrefix(r, next)
    BY <1>6, <1>7, <1>8, FsPrefix, FsPathIs, SMTT(30)
  <2>5. IsPrefix(x, s)
    BY <1>7, <1>10, <2>1, <2>4, FsToKeepsPrefix
  <2>6. SubSeq(s, 1, Len(x)) = SubSeq(x, 1, Len(x))
    BY <2>5 DEF IsPrefix
  <2>7. SubSeq(x, 1, Len(x)) = x
    BY <1>1
  <2>8. QED
    BY <2>1, <2>3, <2>6, <2>7 DEF Front
<1>12. r # q /\ next # src
  BY <1>1, <1>6, <1>7, <1>8
<1>13. QED
  BY <1>7, <1>8, <1>10, <1>11, <1>12

\* A tree: what is at each path, with directories above whatever there is.
FsKinds == {None, "dir"} \cup FsContents
FsTreeOK(T) ==
    /\ T \in [FsPaths -> FsKinds]
    /\ \A p, q \in FsPaths : IsPrefix(p, q) /\ p # q /\ T[q] # None => T[p] = "dir"

\* The kinds the guards of the operations ask for.
LEMMA FsIsKind ==
    ASSUME NEW p \in FsPaths
    PROVE /\ FsIs(p, "none") <=> fsTree[p] = None
          /\ FsIs(p, "dir") <=> fsTree[p] = "dir"
          /\ FsIs(p, "file") <=> fsTree[p] \in FsContents
BY DEF FsIs

\* Nothing, a directory and a file are told apart.
LEMMA FsTold == None # "dir" /\ None \notin FsContents /\ "dir" \notin FsContents
BY FsConstants

\* Below a path that is no directory there is nothing.
LEMMA FsOnlyDirsHold ==
    ASSUME FsTreeOK(fsTree), NEW p \in FsPaths, fsTree[p] # "dir"
    PROVE FsBelow(p) = {}
BY DEF FsTreeOK, FsBelow

\* create_dir_all leaves a tree, keeps what there is, and the directories are there.
LEMMA FsDirsMade ==
    ASSUME FsTreeOK(fsTree), NEW p \in FsPaths, FsCanMakeDirs(FsUp(p)),
           NEW D, D = FsUp(p) \/ D = FsUp(p) \cup {p}
    PROVE /\ FsTreeOK(FsWithDirs(fsTree, D))
          /\ \A q \in FsPaths : fsTree[q] # None => FsWithDirs(fsTree, D)[q] = fsTree[q]
          /\ \A q \in FsPaths \ D : FsWithDirs(fsTree, D)[q] = fsTree[q]
          /\ \A q \in FsUp(p) : FsWithDirs(fsTree, D)[q] = "dir"
          /\ \A q \in D : FsWithDirs(fsTree, D)[q] # None
<1> DEFINE W == FsWithDirs(fsTree, D)
<1>1. W = [q \in FsPaths |-> IF q \in D /\ fsTree[q] = None THEN "dir" ELSE fsTree[q]]
  BY DEF FsWithDirs
<1> HIDE DEF W
<1>2. \A q \in FsPaths : W[q] = IF q \in D /\ fsTree[q] = None THEN "dir" ELSE fsTree[q]
  BY <1>1
<1>3. /\ fsTree \in [FsPaths -> FsKinds]
      /\ \A a, b \in FsPaths : IsPrefix(a, b) /\ a # b /\ fsTree[b] # None => fsTree[a] = "dir"
  BY DEF FsTreeOK
<1>4. W \in [FsPaths -> FsKinds]
  <2>1. \A q \in FsPaths : W[q] \in FsKinds
    BY <1>2, <1>3 DEF FsKinds
  <2>2. QED
    BY <1>1, <2>1
<1>5. ASSUME NEW q \in FsUp(p) PROVE q \in FsPaths /\ W[q] = "dir"
  <2>1. q \in FsPaths /\ q \in D
    BY DEF FsUp
  <2>2. fsTree[q] \notin FsContents
    BY <2>1, FsIsKind DEF FsCanMakeDirs
  <2>3. fsTree[q] \in FsKinds
    BY <1>3, <2>1
  <2>4. fsTree[q] = None \/ fsTree[q] = "dir"
    BY <2>2, <2>3 DEF FsKinds
  <2>5. QED
    BY <1>2, <2>1, <2>4
<1>6. ASSUME NEW a \in FsPaths, NEW b \in FsPaths, IsPrefix(a, b), a # b, W[b] # None PROVE W[a] = "dir"
  <2>1. CASE fsTree[b] # None
    <3>1. fsTree[a] = "dir"
      BY <1>3, <1>6, <2>1
    <3>2. QED
      BY <1>2, <3>1, FsTold
  <2>2. CASE fsTree[b] = None
    <3>1. b \in D
      BY <1>2, <1>6, <2>2
    <3>2. IsPrefix(b, p)
      BY <3>1, FsPrefixOrder DEF FsUp
    <3>3. IsPrefix(a, p) /\ a # p
      BY <1>6, <3>2, FsPrefixOrder
    <3>4. QED
      BY <1>5, <3>3 DEF FsUp
  <2>3. QED
    BY <2>1, <2>2
<1>7. FsTreeOK(W)
  BY <1>4, <1>6 DEF FsTreeOK
<1>8. \A q \in D : q \in FsPaths /\ W[q] # None
  BY <1>2, FsTold DEF FsUp
<1>9. QED
  BY <1>2, <1>5, <1>7, <1>8 DEF W

\* A file that replaces no directory leaves a tree, if what is above it are directories.
LEMMA FsFilePut ==
    ASSUME NEW T, FsTreeOK(T), NEW p \in FsPaths, NEW v \in FsContents, T[p] # "dir",
           \A x \in FsUp(p) : T[x] = "dir"
    PROVE FsTreeOK([T EXCEPT ![p] = v])
<1> DEFINE W == [T EXCEPT ![p] = v]
<1>1. /\ T \in [FsPaths -> FsKinds]
      /\ \A a, b \in FsPaths : IsPrefix(a, b) /\ a # b /\ T[b] # None => T[a] = "dir"
  BY DEF FsTreeOK
<1>2. W \in [FsPaths -> FsKinds] /\ \A q \in FsPaths : W[q] = IF q = p THEN v ELSE T[q]
  BY <1>1 DEF FsKinds
<1> HIDE DEF W
<1>3. ASSUME NEW a \in FsPaths, NEW b \in FsPaths, IsPrefix(a, b), a # b, W[b] # None PROVE W[a] = "dir"
  <2>1. CASE b = p
    <3>1. a \in FsUp(p)
      BY <1>3, <2>1 DEF FsUp
    <3>2. QED
      BY <1>2, <1>3, <2>1, <3>1
  <2>2. CASE b # p
    <3>1. T[a] = "dir"
      BY <1>1, <1>2, <1>3, <2>2
    <3>2. QED
      BY <1>2, <3>1
  <2>3. QED
    BY <2>1, <2>2
<1>4. QED
  BY <1>2, <1>3 DEF FsTreeOK, W

\* The directory of a path that is there has directories above it.
LEMMA FsFrontDir ==
    ASSUME FsTreeOK(fsTree), NEW p \in FsPaths, p # <<>>, FsIs(Front(p), "dir")
    PROVE FsCanMakeDirs(FsUp(p))
<1>1. Front(p) \in FsPaths /\ fsTree[Front(p)] = "dir"
  BY FsFront, FsIsKind
<1>2. ASSUME NEW x \in FsUp(p) PROVE ~FsIs(x, "file")
  <2>1. x \in FsPaths /\ IsPrefix(x, Front(p))
    BY FsFront DEF FsUp
  <2>2. fsTree[x] = "dir"
    BY <1>1, <2>1, FsTold DEF FsTreeOK
  <2>3. QED
    BY <2>1, <2>2, FsIsKind, FsTold
<1>3. QED
  BY <1>2 DEF FsCanMakeDirs

\* Removing takes with an entry what is below it, so what is left is a tree.
LEMMA FsRemoved ==
    ASSUME FsTreeOK(fsTree), NEW p \in FsPaths, NEW S \in FsRemovals(p)
    PROVE FsTreeOK(FsWithout(S))
<1> DEFINE W == FsWithout(S)
<1>1. /\ fsTree \in [FsPaths -> FsKinds]
      /\ \A a, b \in FsPaths : IsPrefix(a, b) /\ a # b /\ fsTree[b] # None => fsTree[a] = "dir"
  BY DEF FsTreeOK
<1>2. W \in [FsPaths -> FsKinds] /\ \A q \in FsPaths : W[q] = IF q \in S THEN None ELSE fsTree[q]
  BY <1>1 DEF FsKinds, FsWithout
<1> HIDE DEF W
<1>3. ASSUME NEW a \in FsPaths, NEW b \in FsPaths, IsPrefix(a, b), a # b, W[b] # None PROVE W[a] = "dir"
  <2>1. b \notin S /\ fsTree[b] # None /\ fsTree[a] = "dir"
    BY <1>1, <1>2, <1>3
  <2>2. b \in FsBelow(a)
    BY <1>3, <2>1 DEF FsBelow
  <2>3. a \notin S
    BY <2>1, <2>2 DEF FsRemovals
  <2>4. QED
    BY <1>2, <2>1, <2>3
<1>4. QED
  BY <1>2, <1>3 DEF FsTreeOK, W

\* The entries copied keep to what FsCopies asks of them.
FsCopiable(src, dst, S) ==
    /\ FsTreeOK(fsTree) /\ FsCanMakeDirs(FsUp(dst))
    /\ S \subseteq FsBelow(src) /\ FsFits(src, dst, S)
    /\ \A q \in S : FsUp(q) \cap FsBelow(src) \subseteq S

\* What a copy leaves at a path: what was made there, or what was copied to it.
LEMMA FsCopiedAt ==
    ASSUME NEW src \in FsPaths, NEW dst \in FsPaths, NEW S, FsCopiable(src, dst, S),
           NEW made, made = FsWithDirs(fsTree, FsUp(dst) \cup {dst})
    PROVE /\ \A r \in FsPaths : (\A q \in S : r # FsTo(src, dst, q)) => FsCopied(src, dst, S)[r] = made[r]
          /\ \A q \in S : /\ q \in FsPaths /\ FsTo(src, dst, q) \in FsPaths
                          /\ FsCopied(src, dst, S)[FsTo(src, dst, q)] =
                                 IF made[FsTo(src, dst, q)] # None /\ fsTree[q] = "dir"
                                 THEN made[FsTo(src, dst, q)] ELSE fsTree[q]
          /\ FsCopied(src, dst, S) \in [FsPaths -> FsKinds]
<1> DEFINE C == FsCopied(src, dst, S)
           from(r) == {q \in S : r = FsTo(src, dst, q)}
<1>1. C = [r \in FsPaths |->
               IF from(r) = {} \/ (made[r] # None /\ fsTree[CHOOSE q \in from(r) : TRUE] = "dir")
               THEN made[r] ELSE fsTree[CHOOSE q \in from(r) : TRUE]]
  BY DEF FsCopied
<1> HIDE DEF C
<1>2. \A q \in S : /\ q \in FsPaths /\ IsPrefix(src, q) /\ q # src
                   /\ FsTo(src, dst, q) \in FsPaths
  BY DEF FsCopiable, FsBelow, FsFits
<1>3. ASSUME NEW r \in FsPaths, \A q \in S : r # FsTo(src, dst, q) PROVE C[r] = made[r]
  <2>1. from(r) = {}
    BY <1>3
  <2>2. QED
    BY <1>1, <2>1
<1>4. ASSUME NEW q \in S
      PROVE C[FsTo(src, dst, q)] = IF made[FsTo(src, dst, q)] # None /\ fsTree[q] = "dir"
                                   THEN made[FsTo(src, dst, q)] ELSE fsTree[q]
  <2>1. PICK to \in FsPaths : to = FsTo(src, dst, q)
    BY <1>2
  <2>2. \A x \in from(to) : x = q
    <3>1. ASSUME NEW x \in from(to) PROVE x = q
      <4>1. x \in FsPaths /\ IsPrefix(src, x) /\ FsTo(src, dst, x) = FsTo(src, dst, q)
        BY <1>2, <2>1
      <4>2. q \in FsPaths /\ IsPrefix(src, q)
        BY <1>2
      <4>3. QED
        BY <4>1, <4>2, FsToInjective
    <3>2. QED
      BY <3>1
  <2>3. q \in from(to)
    BY <2>1
  <2>4. (CHOOSE x \in from(to) : TRUE) = q /\ from(to) # {}
    <3>1. (CHOOSE x \in from(to) : TRUE) \in from(to)
      BY <2>3
    <3>2. QED
      BY <2>2, <2>3, <3>1
  <2>5. C[to] = IF made[to] # None /\ fsTree[q] = "dir" THEN made[to] ELSE fsTree[q]
    BY <1>1, <2>4
  <2>6. QED
    BY <2>1, <2>5
<1>5. made \in [FsPaths -> FsKinds] /\ fsTree \in [FsPaths -> FsKinds]
  BY FsDirsMade DEF FsCopiable, FsTreeOK
<1>6. C \in [FsPaths -> FsKinds]
  <2>1. ASSUME NEW r \in FsPaths PROVE C[r] \in FsKinds
    <3>1. CASE \A q \in S : r # FsTo(src, dst, q)
      BY <1>3, <1>5, <3>1
    <3>2. CASE \E q \in S : r = FsTo(src, dst, q)
      BY <1>2, <1>4, <1>5, <3>2
    <3>3. QED
      BY <3>1, <3>2
  <2>2. QED
    BY <1>1, <2>1
<1>7. QED
  BY <1>2, <1>3, <1>4, <1>6 DEF C

\* A copy leaves a tree: its files are at their places, and what is not below dst stays.
LEMMA FsCopyMakes ==
    ASSUME NEW src \in FsPaths, NEW dst \in FsPaths, NEW S, FsCopiable(src, dst, S)
    PROVE /\ FsTreeOK(FsCopied(src, dst, S))
          /\ \A q \in S : fsTree[q] \in FsContents =>
                 FsTo(src, dst, q) \in FsPaths /\ FsCopied(src, dst, S)[FsTo(src, dst, q)] = fsTree[q]
          /\ \A r \in FsPaths : fsTree[r] # None /\ ~IsPrefix(dst, r) => FsCopied(src, dst, S)[r] = fsTree[r]
          /\ \A r \in FsPaths : fsTree[r] = None /\ ~IsPrefix(dst, r) /\ ~IsPrefix(r, dst) =>
                 FsCopied(src, dst, S)[r] = None
          /\ FsCopied(src, dst, S)[dst] # None
<1> DEFINE C == FsCopied(src, dst, S)
<1>1. PICK D : D = FsUp(dst) \cup {dst}
  OBVIOUS
<1>2. PICK made : made = FsWithDirs(fsTree, D)
  OBVIOUS
<1>3. /\ FsTreeOK(made)
      /\ \A q \in FsPaths : fsTree[q] # None => made[q] = fsTree[q]
      /\ \A q \in FsPaths \ D : made[q] = fsTree[q]
      /\ \A q \in FsUp(dst) : made[q] = "dir"
      /\ made[dst] # None
  BY <1>1, <1>2, FsDirsMade DEF FsCopiable
<1>4. /\ \A r \in FsPaths : (\A q \in S : r # FsTo(src, dst, q)) => C[r] = made[r]
      /\ \A q \in S : C[FsTo(src, dst, q)] =
             IF made[FsTo(src, dst, q)] # None /\ fsTree[q] = "dir"
             THEN made[FsTo(src, dst, q)] ELSE fsTree[q]
      /\ C \in [FsPaths -> FsKinds]
  BY <1>1, <1>2, FsCopiedAt
<1> HIDE DEF C
<1>5. ASSUME NEW q \in S
      PROVE /\ q \in FsPaths /\ IsPrefix(src, q) /\ q # src /\ fsTree[q] # None
            /\ FsTo(src, dst, q) \in FsPaths /\ IsPrefix(dst, FsTo(src, dst, q)) /\ FsTo(src, dst, q) # dst
            /\ ~FsIs(Front(FsTo(src, dst, q)), "file")
            /\ fsTree[q] \in FsContents => fsTree[FsTo(src, dst, q)] # "dir"
  <2>1. q \in FsPaths /\ IsPrefix(src, q) /\ q # src /\ fsTree[q] # None
    BY DEF FsCopiable, FsBelow
  <2>2. /\ FsTo(src, dst, q) \in FsPaths /\ ~FsIs(Front(FsTo(src, dst, q)), "file")
        /\ FsIs(q, "file") => ~FsIs(FsTo(src, dst, q), "dir")
    BY DEF FsCopiable, FsFits
  <2>3. IsPrefix(dst, FsTo(src, dst, q))
    BY <2>1, FsPrefixOrder, FsToKeepsPrefix
  <2>4. FsTo(src, dst, q) # dst
    BY <2>1, FsPrefixOrder, FsToOwn, FsToInjective
  <2>5. fsTree[q] \in FsContents => fsTree[FsTo(src, dst, q)] # "dir"
    BY <2>1, <2>2, FsIsKind
  <2>6. QED
    BY <2>1, <2>2, <2>3, <2>4, <2>5
<1>6. /\ fsTree \in [FsPaths -> FsKinds]
      /\ \A a, b \in FsPaths : IsPrefix(a, b) /\ a # b /\ fsTree[b] # None => fsTree[a] = "dir"
      /\ made \in [FsPaths -> FsKinds]
      /\ \A a, b \in FsPaths : IsPrefix(a, b) /\ a # b /\ made[b] # None => made[a] = "dir"
  BY <1>3 DEF FsCopiable, FsTreeOK
\* What is not below dst is as it was made.
<1>7. \A r \in FsPaths : ~IsPrefix(dst, r) \/ r = dst => C[r] = made[r]
  BY <1>4, <1>5
\* A directory made stays one: no file is copied over it.
<1>8. ASSUME NEW a \in FsPaths, made[a] = "dir" PROVE C[a] = "dir"
  <2>1. ASSUME NEW q \in S, a = FsTo(src, dst, q) PROVE C[a] = "dir"
    <3>1. CASE fsTree[q] = "dir"
      BY <1>4, <1>8, <2>1, <3>1
    <3>2. CASE fsTree[q] # "dir"
      <4>1. fsTree[q] \in FsContents
        BY <1>5, <1>6, <2>1, <3>2 DEF FsKinds
      <4>2. fsTree[a] # "dir"
        BY <1>5, <2>1, <4>1
      <4>3. a \in D
        BY <1>3, <1>8, <4>2
      <4>4. IsPrefix(dst, a) /\ a # dst
        BY <1>5, <2>1
      <4>5. QED
        BY <1>1, <4>3, <4>4, FsPrefixOrder DEF FsUp
    <3>3. QED
      BY <3>1, <3>2
  <2>2. CASE \A q \in S : a # FsTo(src, dst, q)
    BY <1>4, <1>8, <2>2
  <2>3. QED
    BY <2>1, <2>2
\* The directories above the place of an entry copied are there.
<1>9. ASSUME NEW q \in S, NEW a \in FsPaths, IsPrefix(a, FsTo(src, dst, q)), a # FsTo(src, dst, q)
      PROVE C[a] = "dir"
  <2>1. CASE IsPrefix(dst, a)
    <3>1. PICK r \in FsPaths, next \in FsPaths :
              /\ IsPrefix(src, r) /\ IsPrefix(r, q) /\ r # q /\ a = FsTo(src, dst, r)
              /\ IsPrefix(src, next) /\ next # src /\ IsPrefix(next, q)
              /\ Front(FsTo(src, dst, next)) = a
      BY <1>5, <1>9, <2>1, FsToAbove
    <3>2. \A x \in FsPaths : IsPrefix(src, x) /\ x # src /\ IsPrefix(x, q) => x \in S
      <4>1. ASSUME NEW x \in FsPaths, IsPrefix(src, x), x # src, IsPrefix(x, q), x # q PROVE x \in S
        <5>1. x \in FsUp(q)
          BY <4>1 DEF FsUp
        <5>2. fsTree[x] # None
          BY <1>5, <1>6, <4>1, FsTold
        <5>3. x \in FsBelow(src)
          BY <4>1, <5>2 DEF FsBelow
        <5>4. QED
          BY <5>1, <5>3 DEF FsCopiable
      <4>2. QED
        BY <4>1
    <3>3. ~FsIs(a, "file")
      BY <1>5, <3>1, <3>2
    <3>4. fsTree[a] = None \/ fsTree[a] = "dir"
      BY <1>6, <3>3, FsIsKind DEF FsKinds
    <3>5. CASE r = src
      <4>1. a = dst
        BY <3>1, <3>5, FsToOwn
      <4>2. made[a] = "dir"
        BY <1>1, <1>2, <3>4, <4>1 DEF FsWithDirs
      <4>3. QED
        BY <1>8, <4>2
    <3>6. CASE r # src
      <4>1. r \in S /\ fsTree[r] = "dir"
        BY <1>5, <1>6, <3>1, <3>2, <3>6
      <4>2. made[a] = None \/ made[a] = "dir"
        BY <1>1, <1>2, <3>4 DEF FsWithDirs
      <4>3. CASE made[a] = "dir"
        BY <1>8, <4>3
      <4>4. CASE made[a] = None
        BY <1>4, <3>1, <4>1, <4>4
      <4>5. QED
        BY <4>2, <4>3, <4>4
    <3>7. QED
      BY <3>5, <3>6
  <2>2. CASE ~IsPrefix(dst, a)
    <3>1. IsPrefix(a, dst) /\ a # dst
      BY <1>5, <1>9, <2>2, FsPrefixOrder
    <3>2. made[a] = "dir"
      BY <1>3, <3>1 DEF FsUp
    <3>3. QED
      BY <1>8, <3>2
  <2>3. QED
    BY <2>1, <2>2
<1>10. ASSUME NEW a \in FsPaths, NEW b \in FsPaths, IsPrefix(a, b), a # b, C[b] # None PROVE C[a] = "dir"
  <2>1. CASE \E q \in S : b = FsTo(src, dst, q)
    BY <1>9, <1>10, <2>1
  <2>2. CASE \A q \in S : b # FsTo(src, dst, q)
    <3>1. made[b] # None
      BY <1>4, <1>10, <2>2
    <3>2. QED
      BY <1>6, <1>8, <1>10, <3>1
  <2>3. QED
    BY <2>1, <2>2
<1>11. FsTreeOK(C)
  BY <1>4, <1>10 DEF FsTreeOK
<1>12. \A q \in S : fsTree[q] \in FsContents => C[FsTo(src, dst, q)] = fsTree[q]
  BY <1>4, FsTold
<1>13. \A r \in FsPaths : fsTree[r] # None /\ ~IsPrefix(dst, r) => C[r] = fsTree[r]
  BY <1>3, <1>7
<1>14. \A r \in FsPaths : fsTree[r] = None /\ ~IsPrefix(dst, r) /\ ~IsPrefix(r, dst) => C[r] = None
  <2>1. \A r \in FsPaths : ~IsPrefix(dst, r) /\ ~IsPrefix(r, dst) => r \notin D
    BY <1>1, FsPrefixOrder DEF FsUp
  <2>2. QED
    BY <1>3, <1>7, <2>1
<1>15. C[dst] # None
  BY <1>3, <1>7
<1>16. QED
  BY <1>5, <1>11, <1>12, <1>13, <1>14, <1>15 DEF C

\* rename: the source and the destination are not below one another, so that the copy
\* of what is below the source and its removal do not meet.
LEMMA FsRenamed ==
    ASSUME FsTreeOK(fsTree), NEW src \in FsPaths, NEW dst \in FsPaths, NEW ro, FsRename(src, dst, ro)
    PROVE /\ FsTreeOK(fsTree')
          /\ \A q \in FsBelow(src) \cup {src} : fsTree[q] \in FsContents =>
                 FsTo(src, dst, q) \in FsPaths /\ fsTree'[FsTo(src, dst, q)] = fsTree[q]
<1> PICK B : B = FsBelow(src)
  OBVIOUS
<1>1. /\ fsTree \in [FsPaths -> FsKinds]
      /\ \A a, b \in FsPaths : IsPrefix(a, b) /\ a # b /\ fsTree[b] # None => fsTree[a] = "dir"
  BY DEF FsTreeOK
<1>2. /\ fsTree[src] # None /\ ~IsPrefix(src, dst)
      /\ fsTree[src] = "dir" => fsTree[dst] \notin FsContents /\ FsBelow(dst) = {} /\ FsFits(src, dst, B)
      /\ fsTree[src] \in FsContents => fsTree[dst] # "dir" /\ B = {}
  <2>1. /\ ~FsIs(src, "none") /\ ~IsPrefix(src, dst)
        /\ FsIs(src, "dir") => ~FsIs(dst, "file") /\ FsBelow(dst) = {} /\ FsFits(src, dst, FsBelow(src))
        /\ FsIs(src, "file") => ~FsIs(dst, "dir")
    BY DEF FsRename
  <2>2. fsTree[src] \in FsContents => B = {}
    BY FsOnlyDirsHold, FsTold
  <2>3. QED
    BY <2>1, <2>2, FsIsKind
<1>3. src # dst /\ ~IsPrefix(dst, src)
  <2>1. src # dst
    BY <1>2, FsPrefixOrder
  <2>2. ASSUME IsPrefix(dst, src) PROVE FALSE
    <3>1. fsTree[dst] = "dir" /\ src \in FsBelow(dst)
      BY <1>1, <1>2, <2>1, <2>2 DEF FsBelow
    <3>2. fsTree[src] \in FsKinds
      BY <1>1
    <3>3. QED
      BY <1>2, <3>1, <3>2 DEF FsKinds
  <2>3. QED
    BY <2>1, <2>2
<1>4. FsCopiable(src, dst, B)
  <2>1. FsCanMakeDirs(FsUp(dst))
    BY DEF FsRename
  <2>2. FsFits(src, dst, B)
    <3>1. fsTree[src] \in FsKinds
      BY <1>1
    <3>2. CASE B = {}
      BY <3>2 DEF FsFits
    <3>3. QED
      BY <1>2, <3>1, <3>2 DEF FsKinds
  <2>3. QED
    BY <2>1, <2>2 DEF FsCopiable
<1> PICK moved : moved = FsCopied(src, dst, B)
  OBVIOUS
<1>5. /\ FsTreeOK(moved)
      /\ \A q \in B : fsTree[q] \in FsContents =>
             FsTo(src, dst, q) \in FsPaths /\ moved[FsTo(src, dst, q)] = fsTree[q]
      /\ \A r \in FsPaths : fsTree[r] = None /\ ~IsPrefix(dst, r) /\ ~IsPrefix(r, dst) => moved[r] = None
      /\ moved[dst] # None
      /\ \A r \in FsPaths : fsTree[r] # None /\ ~IsPrefix(dst, r) => moved[r] = fsTree[r]
  BY <1>4, FsCopyMakes
<1>6. fsTree' = [q \in FsPaths |-> IF q \in B \cup {src} THEN None
                                   ELSE IF q = dst THEN fsTree[src] ELSE moved[q]]
  BY DEF FsRename
<1> PICK T : T = fsTree'
  OBVIOUS
<1>7. /\ \A q \in FsPaths : T[q] = IF q \in B \cup {src} THEN None
                                   ELSE IF q = dst THEN fsTree[src] ELSE moved[q]
      /\ T \in [FsPaths -> FsKinds]
  <2>1. \A q \in FsPaths : (IF q \in B \cup {src} THEN None
                            ELSE IF q = dst THEN fsTree[src] ELSE moved[q]) \in FsKinds
    BY <1>1, <1>5 DEF FsTreeOK, FsKinds
  <2>2. QED
    BY <1>6, <2>1
\* Nothing is left at or below the source.
<1>8. ASSUME NEW q \in FsPaths, IsPrefix(src, q) PROVE T[q] = None
  <2>1. CASE q \in B \cup {src}
    BY <1>7, <2>1
  <2>2. CASE q \notin B \cup {src}
    <3>1. fsTree[q] = None
      BY <1>8, <2>2 DEF FsBelow
    <3>2. ~IsPrefix(dst, q) /\ ~IsPrefix(q, dst)
      BY <1>2, <1>3, <1>8, FsPrefixOrder
    <3>3. moved[q] = None /\ q # dst
      BY <1>2, <1>5, <1>8, <3>1, <3>2
    <3>4. QED
      BY <1>7, <2>2, <3>3
  <2>3. QED
    BY <2>1, <2>2
<1>9. \A q \in FsPaths : ~IsPrefix(src, q) => q \notin B \cup {src}
  BY FsPrefixOrder DEF FsBelow
<1>10. T[dst] = fsTree[src]
  BY <1>2, <1>7, <1>9
<1>11. ASSUME NEW a \in FsPaths, NEW b \in FsPaths, IsPrefix(a, b), a # b, T[b] # None PROVE T[a] = "dir"
  <2>1. ~IsPrefix(src, b) /\ ~IsPrefix(src, a)
    BY <1>8, <1>11, FsPrefixOrder
  <2>2. moved[b] # None
    BY <1>5, <1>7, <1>9, <1>11, <2>1
  <2>3. moved[a] = "dir"
    BY <1>5, <1>11, <2>2 DEF FsTreeOK
  <2>4. CASE a # dst
    BY <1>7, <1>9, <2>1, <2>3, <2>4
  <2>5. CASE a = dst
    <3>1. CASE fsTree[src] = "dir"
      BY <1>10, <2>5, <3>1
    <3>2. CASE fsTree[src] \in FsContents
      <4>1. B = {} /\ fsTree[dst] # "dir"
        BY <1>2, <3>2
      <4>2. fsTree[b] = None
        BY <1>1, <1>11, <2>5, <4>1
      <4>3. PICK made : made = FsWithDirs(fsTree, FsUp(dst) \cup {dst})
        OBVIOUS
      <4>4. moved[b] = made[b]
        BY <1>4, <4>1, <4>3, FsCopiedAt
      <4>5. b \notin FsUp(dst) \cup {dst}
        BY <1>11, <2>5, FsPrefixOrder DEF FsUp
      <4>6. made[b] = None
        BY <4>2, <4>3, <4>5 DEF FsWithDirs
      <4>7. QED
        BY <2>2, <4>4, <4>6
    <3>3. fsTree[src] \in FsKinds
      BY <1>1
    <3>4. QED
      BY <1>2, <3>1, <3>2, <3>3 DEF FsKinds
  <2>6. QED
    BY <2>4, <2>5
<1>12. FsTreeOK(T)
  BY <1>7, <1>11 DEF FsTreeOK
<1>13. ASSUME NEW q \in B \cup {src}, fsTree[q] \in FsContents
       PROVE FsTo(src, dst, q) \in FsPaths /\ T[FsTo(src, dst, q)] = fsTree[q]
  <2>1. CASE q = src
    BY <1>10, <2>1, FsToOwn
  <2>2. CASE q \in B
    <3>1. q \in FsPaths /\ IsPrefix(src, q) /\ q # src
      BY <2>2 DEF FsBelow
    <3>2. FsTo(src, dst, q) \in FsPaths /\ moved[FsTo(src, dst, q)] = fsTree[q]
      BY <1>5, <1>13, <2>2
    <3>3. IsPrefix(dst, FsTo(src, dst, q))
      BY <3>1, FsPrefixOrder, FsToKeepsPrefix
    <3>4. FsTo(src, dst, q) # dst
      BY <3>1, FsPrefixOrder, FsToOwn, FsToInjective
    <3>5. ~IsPrefix(src, FsTo(src, dst, q))
      BY <1>2, <1>3, <3>2, <3>3, FsPrefixOrder
    <3>6. QED
      BY <1>7, <1>9, <3>2, <3>4, <3>5
  <2>3. QED
    BY <2>1, <2>2
<1>14. QED
  BY <1>12, <1>13

\* While a move has its source still to remove, every file it found has its copy, where
\* the removal does not reach (but for files below the destination).
FsCopiesMade ==
    fsCall # None =>
        /\ fsMoved.src = fsCall
        /\ \A q \in DOMAIN fsMoved.files : ~IsPrefix(fsMoved.dst, q) =>
               LET to == FsTo(fsMoved.src, fsMoved.dst, q) IN
               to \in FsPaths /\ fsTree[to] = fsMoved.files[q] /\ ~IsPrefix(fsMoved.src, to)
FsInv ==
    /\ FsTreeOK(fsTree)
    /\ fsCall \in FsPaths \cup {None}
    /\ FsMoveKeeps
    /\ FsCopiesMade

\* The working directory is empty at first.
LEMMA FsInvInit == FsInit => FsInv
<1> SUFFICES ASSUME FsInit PROVE FsInv
  OBVIOUS
<1>1. fsTree = [p \in FsPaths |-> IF p = <<>> THEN "dir" ELSE None] /\ fsCall = None
  BY DEF FsInit
<1>2. fsTree \in [FsPaths -> FsKinds]
  BY <1>1 DEF FsKinds
<1>3. ASSUME NEW p \in FsPaths, NEW q \in FsPaths, IsPrefix(p, q), p # q, fsTree[q] # None PROVE FALSE
  <2>1. q = <<>>
    BY <1>1, <1>3
  <2>2. p \in Seq(FsNames) /\ q \in Seq(FsNames) /\ Len(p) \in Nat /\ Len(q) \in Nat
    BY FsPathIs
  <2>3. Len(q) = 0
    BY <2>1
  <2>4. Len(p) <= Len(q)
    BY <1>3, <2>2, FsPrefix
  <2>5. Len(p) = 0
    BY <2>2, <2>3, <2>4
  <2>6. p = <<>>
    BY <2>2, <2>5
  <2>7. QED
    BY <1>3, <2>1, <2>6
<1>4. FsTreeOK(fsTree)
  BY <1>2, <1>3 DEF FsTreeOK
<1>5. DOMAIN fsMoved.files = {}
  BY DEF FsInit, FsNoMove
<1>6. QED
  BY <1>1, <1>4, <1>5 DEF FsInv, FsMoveKeeps, FsCopiesMade

\* A call that is no move notes none.
LEMMA FsEnds ==
    ASSUME FsTreeOK(fsTree'), FsEnd
    PROVE FsInv'
<1>1. fsCall' = None /\ DOMAIN fsMoved'.files = {}
  BY DEF FsEnd, FsNoMove
<1>2. QED
  BY <1>1 DEF FsInv, FsMoveKeeps, FsCopiesMade

\* A file copied to dst leaves a tree.
LEMMA FsFileCopied ==
    ASSUME FsTreeOK(fsTree), NEW src \in FsPaths, NEW dst \in FsPaths, FsCopyFile(src, dst)
    PROVE /\ FsTreeOK(fsTree') /\ fsTree'[dst] = fsTree[src]
          /\ fsTree[src] \in FsContents /\ FsBelow(src) = {}
          /\ src # dst => ~IsPrefix(src, dst)
<1>1. /\ fsTree[src] \in FsContents /\ fsTree[dst] # "dir" /\ FsCanMakeDirs(FsUp(dst))
      /\ fsTree' = [FsWithDirs(fsTree, FsUp(dst)) EXCEPT ![dst] = fsTree[src]]
  BY FsIsKind DEF FsCopyFile
<1> PICK W : W = FsWithDirs(fsTree, FsUp(dst))
  OBVIOUS
<1>2. /\ FsTreeOK(W) /\ W[dst] = fsTree[dst]
      /\ \A q \in FsUp(dst) : W[q] = "dir"
  <2>1. dst \notin FsUp(dst)
    BY DEF FsUp
  <2>2. QED
    BY <1>1, <2>1, FsDirsMade
<1>3. FsTreeOK([W EXCEPT ![dst] = fsTree[src]])
  BY <1>1, <1>2, FsFilePut
<1>4. fsTree'[dst] = fsTree[src]
  BY <1>1, <1>2 DEF FsTreeOK
<1>5. FsBelow(src) = {}
  BY <1>1, FsOnlyDirsHold, FsTold
<1>6. ASSUME src # dst, IsPrefix(src, dst) PROVE FALSE
  <2>1. src \in FsUp(dst)
    BY <1>6 DEF FsUp
  <2>2. QED
    BY <1>1, <2>1, FsIsKind DEF FsCanMakeDirs
<1>7. QED
  BY <1>1, <1>3, <1>4, <1>5, <1>6

\* FsCopies has what can be copied so.
LEMMA FsCopiesFit ==
    ASSUME FsTreeOK(fsTree), NEW src \in FsPaths, NEW dst \in FsPaths,
           FsCanMakeDirs(FsUp(dst)), NEW S \in FsCopies(src, dst)
    PROVE FsCopiable(src, dst, S)
BY DEF FsCopies, FsCopiable

\* Every operation keeps it.
LEMMA FsStep == FsInv /\ [FsNext]_fsVars => FsInv'
<1> SUFFICES ASSUME FsInv, [FsNext]_fsVars PROVE FsInv'
  OBVIOUS
<1>1. FsTreeOK(fsTree)
  BY DEF FsInv
<1>2. CASE UNCHANGED fsVars
  BY <1>2 DEF FsInv, FsTreeOK, FsMoveKeeps, FsCopiesMade, fsVars
<1>3. ASSUME NEW p \in FsPaths \ {<<>>}, NEW ro, FsRead(p, ro) \/ FsList(p, ro) \/ FsLook(p, ro)
      PROVE FsInv'
  <2>1. FsEnd /\ fsTree' = fsTree
    BY <1>3 DEF FsRead, FsList, FsLook
  <2>2. QED
    BY <1>1, <2>1, FsEnds
<1>4. ASSUME NEW p \in FsPaths \ {<<>>}, NEW v \in FsContents, NEW b, NEW d, NEW ro, FsWrite(p, v, b, d, ro)
      PROVE FsInv'
  <2>1. /\ fsTree[p] # "dir" /\ FsCanMakeDirs(FsUp(p)) /\ FsEnd
        /\ fsTree' = [FsWithDirs(fsTree, FsUp(p)) EXCEPT ![p] = v]
    BY <1>1, <1>4, FsFrontDir, FsIsKind DEF FsWrite
  <2>2. PICK W : W = FsWithDirs(fsTree, FsUp(p))
    OBVIOUS
  <2>3. p \notin FsUp(p)
    BY DEF FsUp
  <2>4. FsTreeOK(W) /\ W[p] # "dir" /\ \A q \in FsUp(p) : W[q] = "dir"
    BY <1>1, <2>1, <2>2, <2>3, FsDirsMade
  <2>5. FsTreeOK(fsTree')
    BY <2>1, <2>2, <2>4, FsFilePut
  <2>6. QED
    BY <2>1, <2>5, FsEnds
<1>5. ASSUME NEW p \in FsPaths \ {<<>>}, NEW ro, FsEdit(p, ro) PROVE FsInv'
  <2>1. /\ fsTree[p] \in FsContents /\ FsEdited(fsTree[p]) # None /\ FsEnd
        /\ fsTree' = [fsTree EXCEPT ![p] = FsEdited(fsTree[p])]
    BY <1>5, FsIsKind DEF FsEdit
  <2>2. FsEdited(fsTree[p]) \in FsContents
    BY <2>1, FsConstants
  <2>3. fsTree[p] # "dir" /\ \A x \in FsUp(p) : fsTree[x] = "dir"
    BY <1>1, <2>1, FsTold DEF FsTreeOK, FsUp
  <2>4. FsTreeOK(fsTree')
    BY <1>1, <2>1, <2>2, <2>3, FsFilePut
  <2>5. QED
    BY <2>1, <2>4, FsEnds
<1>6. ASSUME NEW p \in FsPaths \ {<<>>}, NEW b, NEW ro, FsMkdir(p, b, ro) PROVE FsInv'
  <2>1. fsTree' = FsWithDirs(fsTree, FsUp(p) \cup {p}) /\ FsEnd
    BY <1>6 DEF FsMkdir
  <2>2. FsCanMakeDirs(FsUp(p))
    BY <1>1, <1>6, FsFrontDir DEF FsMkdir, FsCanMakeDirs
  <2>3. FsTreeOK(fsTree')
    BY <1>1, <2>1, <2>2, FsDirsMade
  <2>4. QED
    BY <2>1, <2>3, FsEnds
<1>7. ASSUME NEW p \in FsPaths, NEW b, NEW ro, FsDelete(p, b, ro) PROVE FsInv'
  <2>1. FsEnd /\ \E S \in FsRemovals(p) : fsTree' = FsWithout(S)
    BY <1>7 DEF FsDelete
  <2>2. FsTreeOK(fsTree')
    BY <1>1, <2>1, FsRemoved
  <2>3. QED
    BY <2>1, <2>2, FsEnds
<1>8. ASSUME NEW p \in FsPaths \ {<<>>}, NEW q \in FsPaths \ {<<>>}, NEW b, NEW ro, FsCopy(p, q, b, ro)
      PROVE FsInv'
  <2>1. FsEnd
    BY <1>8 DEF FsCopy
  <2>2. CASE FsCopyFile(p, q)
    BY <1>1, <2>1, <2>2, FsFileCopied, FsEnds
  <2>3. CASE FsCanMakeDirs(FsUp(q)) /\ \E S \in FsCopies(p, q) : fsTree' = FsCopied(p, q, S)
    <3>1. PICK S \in FsCopies(p, q) : fsTree' = FsCopied(p, q, S)
      BY <2>3
    <3>2. FsTreeOK(fsTree')
      BY <1>1, <2>3, <3>1, FsCopiesFit, FsCopyMakes
    <3>3. QED
      BY <2>1, <3>2, FsEnds
  <2>4. QED
    BY <1>8, <2>2, <2>3 DEF FsCopy
<1>9. ASSUME NEW src \in FsPaths \ {<<>>}, NEW dst \in FsPaths \ {<<>>}, NEW ro, FsRename(src, dst, ro)
      PROVE FsInv'
  <2>1. /\ FsTreeOK(fsTree')
        /\ \A q \in FsBelow(src) \cup {src} : fsTree[q] \in FsContents =>
               FsTo(src, dst, q) \in FsPaths /\ fsTree'[FsTo(src, dst, q)] = fsTree[q]
    BY <1>1, <1>9, FsRenamed
  <2>2. fsCall' = None /\ fsMoved' = [src |-> src, dst |-> dst, files |-> FsFilesAt(src)]
    BY <1>9 DEF FsRename, FsBegins, FsNote
  <2>3. \A q \in DOMAIN FsFilesAt(src) : /\ q \in FsBelow(src) \cup {src} /\ fsTree[q] \in FsContents
                                         /\ FsFilesAt(src)[q] = fsTree[q]
    BY FsIsKind DEF FsFilesAt, FsBelow
  <2>4. FsMoveKeeps'
    BY <2>1, <2>2, <2>3 DEF FsMoveKeeps
  <2>5. QED
    BY <2>1, <2>2, <2>4 DEF FsInv, FsCopiesMade
<1>10. ASSUME NEW src \in FsPaths \ {<<>>}, NEW dst \in FsPaths \ {<<>>}, NEW ro, FsMoveCopies(src, dst, ro)
       PROVE FsInv'
  <2>1. /\ fsMoved' = [src |-> src, dst |-> dst, files |-> FsFilesAt(src)]
        /\ src # dst /\ FsCanMakeDirs(FsUp(dst))
    BY <1>10 DEF FsMoveCopies, FsNote
  <2>2. \A q \in DOMAIN FsFilesAt(src) : /\ q \in FsPaths /\ IsPrefix(src, q)
                                         /\ q \in FsBelow(src) \cup {src} /\ fsTree[q] \in FsContents
                                         /\ FsFilesAt(src)[q] = fsTree[q]
    BY FsIsKind, FsPrefixOrder DEF FsFilesAt, FsBelow
  <2>3. CASE FsCopyFile(src, dst) /\ fsCall' = src
    <3>1. /\ FsTreeOK(fsTree') /\ fsTree'[dst] = fsTree[src] /\ FsBelow(src) = {} /\ ~IsPrefix(src, dst)
      BY <1>1, <2>1, <2>3, FsFileCopied
    <3>2. FsTo(src, dst, src) = dst
      BY FsToOwn
    <3>3. \A q \in DOMAIN FsFilesAt(src) :
              /\ FsTo(src, dst, q) \in FsPaths /\ fsTree'[FsTo(src, dst, q)] = FsFilesAt(src)[q]
              /\ ~IsPrefix(src, FsTo(src, dst, q))
      BY <2>2, <3>1, <3>2
    <3>4. FsMoveKeeps'
      BY <2>1, <3>3 DEF FsMoveKeeps
    <3>5. FsCopiesMade'
      BY <2>1, <2>3, <3>3 DEF FsCopiesMade
    <3>6. QED
      BY <2>3, <3>1, <3>4, <3>5 DEF FsInv
  <2>4. ASSUME FsIs(src, "dir"), NEW S \in FsCopies(src, dst), fsTree' = FsCopied(src, dst, S),
               fsCall' = IF FsGoesOn(src, dst, S) THEN src ELSE None
        PROVE FsInv'
    <3>1. /\ FsTreeOK(fsTree')
          /\ \A q \in S : fsTree[q] \in FsContents =>
                 FsTo(src, dst, q) \in FsPaths /\ fsTree'[FsTo(src, dst, q)] = fsTree[q]
          /\ \A r \in FsPaths : fsTree[r] # None /\ ~IsPrefix(dst, r) => fsTree'[r] = fsTree[r]
      BY <1>1, <2>1, <2>4, FsCopiesFit, FsCopyMakes
    <3>2. FsMoveKeeps'
      <4>1. \A q \in DOMAIN FsFilesAt(src) : IsPrefix(dst, q) \/ fsTree'[q] = FsFilesAt(src)[q]
        BY <2>2, <3>1, FsTold
      <4>2. QED
        BY <2>1, <4>1 DEF FsMoveKeeps
    <3>3. ASSUME fsCall' # None PROVE fsCall' = src /\ S = FsBelow(src) /\ ~IsPrefix(src, dst)
      BY <2>4, <3>3 DEF FsGoesOn, FsWhole
    <3>4. ASSUME fsCall' # None, NEW q \in DOMAIN FsFilesAt(src), ~IsPrefix(dst, q)
          PROVE /\ FsTo(src, dst, q) \in FsPaths /\ fsTree'[FsTo(src, dst, q)] = FsFilesAt(src)[q]
                /\ ~IsPrefix(src, FsTo(src, dst, q))
      <4>1. q # src
        BY <2>2, <2>4, FsIsKind, FsTold
      <4>2. FsTo(src, dst, q) \in FsPaths /\ fsTree'[FsTo(src, dst, q)] = FsFilesAt(src)[q]
        BY <2>2, <3>1, <3>3, <3>4, <4>1
      <4>3. IsPrefix(dst, FsTo(src, dst, q))
        BY <2>2, FsPrefixOrder, FsToKeepsPrefix
      <4>4. ~IsPrefix(src, FsTo(src, dst, q))
        BY <2>2, <3>3, <3>4, <4>2, <4>3, FsPrefixOrder
      <4>5. QED
        BY <4>2, <4>4
    <3>5. FsCopiesMade'
      BY <2>1, <3>3, <3>4 DEF FsCopiesMade
    <3>6. fsCall' \in FsPaths \cup {None}
      BY <2>4
    <3>7. QED
      BY <3>1, <3>2, <3>5, <3>6 DEF FsInv
  <2>5. QED
    BY <1>10, <2>3, <2>4 DEF FsMoveCopies
<1>11. CASE FsMoveRemoves
  <2>1. PICK S \in FsRemovals(fsCall) : fsTree' = FsWithout(S)
    BY <1>11 DEF FsMoveRemoves
  <2>2. fsCall # None /\ fsCall' = None /\ fsMoved' = fsMoved /\ fsCall \in FsPaths /\ fsMoved.src = fsCall
    BY <1>11 DEF FsMoveRemoves, FsInv, FsCopiesMade
  <2>3. FsTreeOK(fsTree')
    BY <1>1, <2>1, <2>2, FsRemoved
  <2>4. \A x \in S : IsPrefix(fsMoved.src, x)
    BY <2>2, FsPrefixOrder DEF FsRemovals, FsBelow
  <2>5. ASSUME NEW q \in DOMAIN fsMoved.files, ~IsPrefix(fsMoved.dst, q)
        PROVE LET to == FsTo(fsMoved.src, fsMoved.dst, q) IN
              to \in FsPaths /\ fsTree'[to] = fsMoved.files[q]
    <3>1. LET to == FsTo(fsMoved.src, fsMoved.dst, q) IN
          to \in FsPaths /\ fsTree[to] = fsMoved.files[q] /\ ~IsPrefix(fsMoved.src, to)
      BY <2>2, <2>5 DEF FsInv, FsCopiesMade
    <3>2. PICK to \in FsPaths : to = FsTo(fsMoved.src, fsMoved.dst, q)
      BY <3>1
    <3>3. to \notin S /\ fsTree[to] = fsMoved.files[q]
      BY <2>4, <3>1, <3>2
    <3>4. fsTree'[to] = fsTree[to]
      BY <2>1, <3>3 DEF FsWithout
    <3>5. QED
      BY <3>2, <3>3, <3>4
  <2>6. FsMoveKeeps'
    BY <2>2, <2>5 DEF FsMoveKeeps
  <2>7. QED
    BY <2>2, <2>3, <2>6 DEF FsInv, FsCopiesMade
<1>12. QED
  BY <1>2, <1>3, <1>4, <1>5, <1>6, <1>7, <1>8, <1>9, <1>10, <1>11 DEF FsNext, FsOther

\* The move theorem.
THEOREM FsMoveKeepsTheorem == FsSpec => []FsMoveKeeps
<1>1. FsInv => FsMoveKeeps
  BY DEF FsInv
<1>2. QED
  BY <1>1, FsInvInit, FsStep, PTL DEF FsSpec
=============================================================================
