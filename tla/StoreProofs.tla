---------------------------- MODULE StoreProofs ----------------------------
(***************************************************************************)
(* Proofs about what is kept between turns: the configuration, batches of  *)
(* sub-agents and the cache of their answers, the migrations of the        *)
(* database, the credential file, the todos of a session.                  *)
(***************************************************************************)
EXTENDS ConfigStore, SubAgents, StorageInit, TokenStore, TodoTree, FiniteSetTheorems,
        WellFoundedInduction, TLAPS

(* The configuration *)

\* What a client read is of a version no newer than the one in effect, and of the same
\* configuration if of the same version.
CfgReadBefore(c) ==
    cfgUp /\ cfgSeen[c] # None =>
        /\ cfgSeen[c].version \in Nat /\ cfgSeen[c].version <= cfgVersion
        /\ cfgSeen[c].version = cfgVersion => cfgSeen[c].config = cfgEffective

CfgInv ==
    /\ cfgVersion \in Nat
    /\ cfgSeen = [c \in CfgClients |-> cfgSeen[c]]
    /\ \A c \in CfgClients : CfgReadBefore(c)
    /\ CfgEffectiveValid

\* A new configuration comes with a new version, and an old one without.
LEMMA CfgVersionRises ==
  ASSUME CfgInv, cfgSeen' = cfgSeen, cfgUp' = cfgUp,
         \/ cfgVersion' = cfgVersion + 1 /\ CfgValid(cfgEffective')
         \/ UNCHANGED <<cfgVersion, cfgEffective>>
  PROVE  CfgInv'
<1>1. CASE cfgVersion' = cfgVersion + 1 /\ CfgValid(cfgEffective')
  <2>1. cfgVersion' \in Nat /\ CfgEffectiveValid'
    BY <1>1 DEF CfgInv, CfgEffectiveValid
  <2>2. ASSUME NEW c \in CfgClients PROVE CfgReadBefore(c)'
    BY <1>1, <2>2 DEF CfgInv, CfgReadBefore
  <2> QED
    BY <2>1, <2>2 DEF CfgInv
<1>2. CASE UNCHANGED <<cfgVersion, cfgEffective>>
  BY <1>2 DEF CfgInv, CfgReadBefore, CfgEffectiveValid
<1> QED
  BY <1>1, <1>2

LEMMA CfgCommitRises ==
  ASSUME NEW raw, NEW dirty, NEW should, CfgCommit(raw, dirty, should)
  PROVE  \/ cfgVersion' = cfgVersion + 1 /\ CfgValid(cfgEffective')
         \/ UNCHANGED <<cfgVersion, cfgEffective>>
  BY Zenon DEF CfgCommit, CfgTakesEffect, CfgNextVersion

LEMMA CfgStepKeeps == CfgInv /\ [CfgNext]_cfgVars => CfgInv'
<1> SUFFICES ASSUME CfgInv, [CfgNext]_cfgVars PROVE CfgInv'
  OBVIOUS
<1>1. CASE CfgLoad
  <2>1. cfgVersion' = 1 /\ cfgSeen' = [c \in CfgClients |-> None] /\ CfgEffectiveValid'
    BY <1>1 DEF CfgLoad, CfgLoaded, CfgEffectiveValid
  <2> QED
    BY <2>1 DEF CfgInv, CfgReadBefore
<1>2. CASE CfgReload
  <2>1. \/ cfgVersion' = cfgVersion + 1 /\ CfgValid(cfgEffective')
        \/ UNCHANGED <<cfgVersion, cfgEffective>>
    BY <1>2 DEF CfgReload, CfgLoaded, CfgNextVersion
  <2> QED
    BY <1>2, <2>1, CfgVersionRises DEF CfgReload
<1>3. CASE CfgEnds
  BY <1>3 DEF CfgEnds, CfgInv, CfgReadBefore, CfgEffectiveValid
<1>4. CASE CfgEdited
  BY <1>4, CfgVersionRises DEF CfgEdited
<1>5. ASSUME NEW path \in CfgPaths, CfgGet(path) PROVE CfgInv'
  BY <1>5, CfgVersionRises DEF CfgGet, cfgVars
<1>6. ASSUME NEW c \in CfgClients, CfgSnapshot(c) PROVE CfgInv'
  <2> DEFINE read == [version |-> cfgVersion, config |-> cfgEffective]
  <2>1. cfgSeen' = [cfgSeen EXCEPT ![c] = read]
        /\ UNCHANGED <<cfgVersion, cfgEffective, cfgUp>>
    BY <1>6 DEF CfgSnapshot
  <2>2. \A d \in CfgClients : CfgReadBefore(d)'
    BY <2>1 DEF CfgInv, CfgReadBefore
  <2> QED
    BY <2>1, <2>2 DEF CfgInv, CfgEffectiveValid
<1>7. ASSUME NEW c \in CfgClients, NEW checked \in BOOLEAN, NEW x \in CfgChanges,
             NEW y \in CfgChanges, CfgPatch(c, {x, y}, checked)
      PROVE  CfgInv'
  BY <1>7, CfgCommitRises, CfgVersionRises DEF CfgPatch
<1>8. ASSUME NEW c \in CfgClients, NEW checked \in BOOLEAN, NEW s \in {"project", "global"},
             NEW p \in CfgPaths, CfgUnsetValue(c, s, p, checked)
      PROVE  CfgInv'
  BY <1>8, CfgCommitRises, CfgVersionRises DEF CfgUnsetValue
<1>9. ASSUME NEW c \in CfgClients, NEW checked \in BOOLEAN, CfgUnsetNothing(c, checked)
      PROVE  CfgInv'
  BY <1>9, CfgVersionRises DEF CfgUnsetNothing
<1>10. CASE UNCHANGED cfgVars
  BY <1>10, CfgVersionRises DEF cfgVars
<1> QED
  BY <1>1, <1>2, <1>3, <1>4, <1>5, <1>6, <1>7, <1>8, <1>9, <1>10 DEF CfgNext

\* What is in effect has been validated, and while its version is the one a client has
\* read it is what the client has read, whatever was refused, failed or reloaded.
THEOREM CfgHoldsTheorem == CfgSpec => []CfgHolds
<1>1. CfgInit => CfgInv
  <2> SUFFICES ASSUME CfgInit PROVE CfgInv
    OBVIOUS
  <2>1. cfgVersion = 1 /\ ~cfgUp /\ cfgSeen = [c \in CfgClients |-> None]
    BY DEF CfgInit
  <2> QED
    BY <2>1 DEF CfgInv, CfgReadBefore, CfgEffectiveValid
<1>2. CfgInv => CfgHolds
  BY DEF CfgInv, CfgHolds, CfgVersionTells, CfgReadBefore
<1> QED
  BY <1>1, <1>2, CfgStepKeeps, PTL DEF CfgSpec

(* Batches of sub-agents *)
SaStates == {"waits", "runs", "ok", "failed"}
SaBatchTasks == [1..SaRequests -> SaStates]
SaOutcomes == [of : Nat, outcome : SaStates]

SaTypeOK ==
    /\ saTask \in [SaBatches -> SaBatchTasks \cup {<<>>}]
    /\ saResults \in [SaBatches -> Seq(SaOutcomes)]

\* Only tasks that have ended are joined, one after the other; there is no result of a
\* batch that has not started.
SaJoinedHaveEnded ==
    \A b \in SaBatches :
        /\ Len(saResults[b]) <= SaRequests
        /\ saTask[b] = <<>> => saResults[b] = <<>>
        /\ \A i \in 1..Len(saResults[b]) : saTask[b][i] \in {"ok", "failed"}

SaInv == SaTypeOK /\ SaJoinedHaveEnded /\ SaBatchHolds

LEMMA SaPermitsNat == SaPermits \in Nat
  BY SaConstants DEF SaPermits

LEMMA SaRunningFinite ==
  ASSUME SaTypeOK, NEW b \in SaBatches
  PROVE  IsFiniteSet(SaRunning(b)) /\ Cardinality(SaRunning(b)) \in Nat
<1>1. CASE saTask[b] \in SaBatchTasks
  <2>1. SaRunning(b) \subseteq 1..SaRequests
    BY <1>1 DEF SaRunning, SaBatchTasks
  <2>2. IsFiniteSet(1..SaRequests)
    BY SaConstants, FS_Interval
  <2> QED
    BY <2>1, <2>2, FS_Subset, FS_CardinalityType
<1>2. CASE saTask[b] = <<>>
  <2>1. SaRunning(b) = {}
    BY <1>2 DEF SaRunning
  <2> QED
    BY <2>1, FS_EmptySet
<1> QED
  BY <1>1, <1>2 DEF SaTypeOK

LEMMA SaInitially == SaInit => SaInv
<1> SUFFICES ASSUME SaInit PROVE SaInv
  OBVIOUS
<1>1. SaTypeOK
  BY DEF SaInit, SaTypeOK
<1>2. SaJoinedHaveEnded /\ SaInOrder
  BY SaConstants DEF SaInit, SaJoinedHaveEnded, SaInOrder
<1>3. \A b \in SaBatches : SaRunning(b) = {}
  BY DEF SaInit, SaRunning
<1>4. SaBounded
  BY <1>3, SaPermitsNat, FS_EmptySet DEF SaBounded
<1> QED
  BY <1>1, <1>2, <1>4 DEF SaInv, SaBatchHolds

\* A task that does not concern what was joined: it waits or works.
LEMMA SaTaskKeeps ==
  ASSUME SaInv, NEW b \in SaBatches, NEW r \in 1..SaRequests, NEW state \in SaStates,
         saTask[b] # <<>>, saTask[b][r] \in {"waits", "runs"},
         saTask' = [saTask EXCEPT ![b][r] = state], saResults' = saResults
  PROVE  SaTypeOK' /\ SaJoinedHaveEnded' /\ SaInOrder'
<1>1. saTask[b] \in SaBatchTasks
  BY DEF SaInv, SaTypeOK
<1>2. SaTypeOK' /\ saTask'[b] # <<>>
  BY <1>1, SaConstants DEF SaInv, SaTypeOK, SaBatchTasks
<1>3. \A d \in SaBatches : \A i \in 1..Len(saResults[d]) : saTask'[d][i] = saTask[d][i]
  <2>1. ASSUME NEW i \in 1..Len(saResults[b]) PROVE saTask'[b][i] = saTask[b][i]
    <3>1. saTask[b][i] \in {"ok", "failed"}
      BY DEF SaInv, SaJoinedHaveEnded
    <3>2. i # r
      BY <3>1
    <3> QED
      BY <1>1, <3>2 DEF SaInv, SaTypeOK, SaBatchTasks
  <2>2. \A d \in SaBatches \ {b} : saTask'[d] = saTask[d]
    BY DEF SaInv, SaTypeOK
  <2> QED
    BY <2>1, <2>2
<1>4. SaJoinedHaveEnded'
  BY <1>2, <1>3 DEF SaInv, SaTypeOK, SaJoinedHaveEnded
<1>5. SaInOrder'
  BY <1>3 DEF SaInv, SaBatchHolds, SaInOrder
<1> QED
  BY <1>2, <1>4, <1>5

LEMMA SaBatchStepKeeps ==
  ASSUME SaInv, NEW b \in SaBatches,
         \/ SaBatchStarts(b) \/ SaJoin(b) \/ SaBatchReturns(b)
         \/ \E r \in 1..SaRequests :
               SaTaskRuns(b, r) \/ \E outcome \in {"ok", "failed"} : SaTaskEnds(b, r, outcome)
  PROVE  SaInv'
<1> USE DEF SaInv, SaBatchHolds
<1>1. \A d \in SaBatches : Cardinality(SaRunning(d)) \in Nat
  BY SaRunningFinite
<1>2. CASE SaBatchStarts(b)
  <2> DEFINE new == [r \in 1..SaRequests |-> "waits"]
  <2>1. new \in SaBatchTasks /\ saTask' = [saTask EXCEPT ![b] = new] /\ saResults' = saResults
        /\ saResults[b] = <<>>
    BY <1>2 DEF SaBatchStarts, SaBatchTasks, SaStates, SaJoinedHaveEnded
  <2>2. SaTypeOK' /\ SaJoinedHaveEnded' /\ SaInOrder'
    BY <2>1 DEF SaTypeOK, SaJoinedHaveEnded, SaInOrder
  <2>3. SaRunning(b)' = {}
    BY <2>1 DEF SaRunning, SaTypeOK
  <2>4. \A d \in SaBatches \ {b} : SaRunning(d)' = SaRunning(d)
    BY <2>1 DEF SaRunning, SaTypeOK
  <2>5. SaBounded'
    BY <2>3, <2>4, SaPermitsNat, FS_EmptySet DEF SaBounded, SaPermits
  <2> QED
    BY <2>2, <2>5
<1>3. CASE SaJoin(b)
  <2> DEFINE n == Len(saResults[b]) + 1
             result == [of |-> n, outcome |-> saTask[b][n]]
  <2>1. /\ saTask' = saTask /\ saTask[b] # <<>> /\ n <= SaRequests
        /\ saTask[b][n] \in {"ok", "failed"}
        /\ saResults' = [saResults EXCEPT ![b] = Append(saResults[b], result)]
    BY <1>3 DEF SaJoin, SaJoined, SaAwaited
  <2>2. result \in SaOutcomes /\ saResults[b] \in Seq(SaOutcomes)
    BY <2>1 DEF SaOutcomes, SaStates, SaTypeOK
  <2>3. SaTypeOK'
    BY <2>1, <2>2 DEF SaTypeOK
  <2>4. Len(saResults'[b]) = n /\ saResults'[b][n] = result
        /\ \A i \in 1..n - 1 : saResults'[b][i] = saResults[b][i]
    BY <2>1, <2>2 DEF SaTypeOK
  <2>5. \A d \in SaBatches \ {b} : saResults'[d] = saResults[d]
    BY <2>1 DEF SaTypeOK
  <2> HIDE DEF result
  <2>6. SaJoinedHaveEnded'
    BY <2>1, <2>2, <2>4, <2>5, SaConstants DEF SaJoinedHaveEnded
  <2>7. SaInOrder'
    BY <2>1, <2>2, <2>4, <2>5 DEF SaInOrder, result
  <2>8. SaBounded'
    BY <2>1 DEF SaBounded, SaRunning, SaPermits
  <2> QED
    BY <2>3, <2>6, <2>7, <2>8
<1>4. CASE SaBatchReturns(b)
  <2>1. saTask' = [saTask EXCEPT ![b] = <<>>] /\ saResults' = [saResults EXCEPT ![b] = <<>>]
    BY <1>4 DEF SaBatchReturns
  <2>2. SaTypeOK' /\ SaJoinedHaveEnded' /\ SaInOrder'
    BY <2>1, SaConstants DEF SaTypeOK, SaJoinedHaveEnded, SaInOrder
  <2>3. SaRunning(b)' = {}
    BY <2>1 DEF SaRunning, SaTypeOK
  <2>4. \A d \in SaBatches \ {b} : SaRunning(d)' = SaRunning(d)
    BY <2>1 DEF SaRunning, SaTypeOK
  <2>5. SaBounded'
    BY <2>3, <2>4, SaPermitsNat, FS_EmptySet DEF SaBounded, SaPermits
  <2> QED
    BY <2>2, <2>5
<1>5. ASSUME NEW r \in 1..SaRequests, SaTaskRuns(b, r) PROVE SaInv'
  <2>1. saTask[b] # <<>> /\ saTask[b][r] = "waits" /\ saResults' = saResults
        /\ saTask' = [saTask EXCEPT ![b][r] = "runs"] /\ saTask[b] \in SaBatchTasks
    BY <1>5 DEF SaTaskRuns, SaTypeOK
  <2>2. SaTypeOK' /\ SaJoinedHaveEnded' /\ SaInOrder'
    BY <2>1, SaTaskKeeps DEF SaStates
  <2>3. SaRunning(b)' = SaRunning(b) \cup {r} /\ r \notin SaRunning(b)
    BY <2>1 DEF SaRunning, SaTypeOK, SaBatchTasks
  <2>4. \A d \in SaBatches \ {b} : SaRunning(d)' = SaRunning(d)
    BY <2>1 DEF SaRunning, SaTypeOK
  <2>5. Cardinality(SaRunning(b)') = Cardinality(SaRunning(b)) + 1
    BY <2>3, SaRunningFinite, FS_AddElement
  <2>6. Cardinality(SaRunning(b)) < SaPermits
    BY <1>5 DEF SaTaskRuns, SaHasPermit
  <2>7. SaBounded'
    BY <1>1, <2>4, <2>5, <2>6, SaPermitsNat DEF SaBounded, SaPermits
  <2> QED
    BY <2>2, <2>7
<1>6. ASSUME NEW r \in 1..SaRequests, NEW outcome \in {"ok", "failed"}, SaTaskEnds(b, r, outcome)
      PROVE  SaInv'
  <2>1. saTask[b] # <<>> /\ saTask[b][r] = "runs" /\ saResults' = saResults
        /\ saTask' = [saTask EXCEPT ![b][r] = outcome] /\ saTask[b] \in SaBatchTasks
    BY <1>6 DEF SaTaskEnds, SaTypeOK
  <2>2. SaTypeOK' /\ SaJoinedHaveEnded' /\ SaInOrder'
    BY <2>1, SaTaskKeeps DEF SaStates
  <2>3. SaRunning(b)' = SaRunning(b) \ {r} /\ r \in SaRunning(b)
    BY <2>1 DEF SaRunning, SaTypeOK, SaBatchTasks
  <2>4. \A d \in SaBatches \ {b} : SaRunning(d)' = SaRunning(d)
    BY <2>1 DEF SaRunning, SaTypeOK
  <2>5. Cardinality(SaRunning(b)') = Cardinality(SaRunning(b)) - 1
    BY <2>3, SaRunningFinite, FS_RemoveElement
  <2>6. SaBounded'
    BY <1>1, <2>4, <2>5, SaPermitsNat DEF SaBounded, SaPermits
  <2> QED
    BY <2>2, <2>6
<1> QED
  BY <1>2, <1>3, <1>4, <1>5, <1>6

\* A batch of any size gives its answers in the order of its requests, in whatever order
\* its tasks end, and never has more of them at work than its limit.
THEOREM SaBatchHoldsTheorem == SaSpec => []SaBatchHolds
<1>1. ASSUME SaInv, saTask' = saTask, saResults' = saResults PROVE SaInv'
  BY <1>1 DEF SaInv, SaTypeOK, SaJoinedHaveEnded, SaBatchHolds, SaInOrder, SaBounded, SaRunning,
     SaPermits
<1>2. SaInv /\ [SaNext]_saVars => SaInv'
  <2> SUFFICES ASSUME SaInv, [SaNext]_saVars PROVE SaInv'
    OBVIOUS
  <2>1. CASE SaCallNext
    BY <1>1, <2>1 DEF SaCallNext, SaTime, SaRun, SaCallAgent, SaRunEnds, saBatch
  <2>2. CASE SaBatchNext
    BY <2>2, SaBatchStepKeeps DEF SaBatchNext
  <2>3. CASE UNCHANGED saVars
    BY <1>1, <2>3 DEF saVars
  <2> QED
    BY <2>1, <2>2, <2>3 DEF SaNext
<1>3. SaInv => SaBatchHolds
  BY DEF SaInv
<1> QED
  BY SaInitially, <1>2, <1>3, PTL DEF SaSpec

(* The migrations of the database *)

LEMMA LeastOfNaturals ==
  ASSUME NEW S, S \subseteq Nat, S # {}
  PROVE  \E n \in S : \A m \in S : n <= m
<1>1. PICK n \in S : \A m \in S : ~(<<m, n>> \in OpToRel(<, Nat))
  BY NatLessThanWellFounded, WFMin
<1>2. \A m \in S : ~(m < n)
  BY <1>1 DEF OpToRel
<1> QED
  BY <1>2

\* The place in the statements of a migration; past "create" its tables are there.
DbPlaces == {[at |-> "migrates", m |-> m, next |-> i] : m \in 1..DbLast, i \in 1..4}
DbPlaceOK(place) == place.m = 1 \/ place.next <= 2
DbHasCreated(place) == IF place.m = 1 THEN place.next = 4 ELSE place.next = 2

DbTypeOK ==
    /\ dbMade \subseteq 1..DbLast
    /\ dbRows \subseteq 0..DbLast
    /\ dbProc \in [DbProcs -> DbPlaces \cup {DbReady, DbClosed}]

\* What a version or the place of a process stands for has been made.
DbProcOK(p) ==
    /\ dbProc[p].at = "ready" => 1..DbLast \subseteq dbMade
    /\ dbProc[p].at = "migrates" =>
          /\ DbPlaceOK(dbProc[p])
          /\ 1..dbProc[p].m - 1 \subseteq dbMade
          /\ DbHasCreated(dbProc[p]) => dbProc[p].m \in dbMade
DbInv ==
    /\ DbTypeOK
    /\ \A v \in dbRows : 1..v \subseteq dbMade
    /\ \A p \in DbProcs : DbProcOK(p)

LEMMA DbInitially == DbInit => DbInv
<1> SUFFICES ASSUME DbInit PROVE DbInv
  OBVIOUS
<1>1. DbClosed \in DbPlaces \cup {DbReady, DbClosed} /\ DbClosed.at = "closed"
  BY DEF DbClosed
<1>2. PICK start \in {[t |-> FALSE, v |-> {}, m |-> 0], [t |-> TRUE, v |-> {}, m |-> 0],
                      [t |-> TRUE, v |-> {1}, m |-> 1]} :
          dbRows = start.v /\ dbMade = 1..start.m
  BY DEF DbInit
<1>3. (dbRows = {} /\ dbMade = {}) \/ (dbRows = {1} /\ dbMade = 1..1)
  BY <1>2
<1>4. dbProc = [p \in DbProcs |-> DbClosed]
  BY DEF DbInit
<1> QED
  BY <1>1, <1>3, <1>4, DbConstants DEF DbInv, DbTypeOK, DbProcOK

\* More tables never hurt, nor does a process that is closed.
LEMMA DbProcMoves ==
  ASSUME DbInv, NEW p \in DbProcs, NEW place, dbProc' = [dbProc EXCEPT ![p] = place],
         place \in DbPlaces \cup {DbReady, DbClosed}, DbProcOK(p)',
         dbMade' \subseteq 1..DbLast, dbMade \subseteq dbMade', dbRows' \subseteq 0..DbLast,
         \A v \in dbRows' : 1..v \subseteq dbMade'
  PROVE  DbInv'
<1>1. DbTypeOK'
  BY DEF DbInv, DbTypeOK
<1>2. ASSUME NEW q \in DbProcs PROVE DbProcOK(q)'
  <2>1. CASE q = p
    BY <2>1
  <2>2. CASE q # p
    <3>1. dbProc'[q] = dbProc[q] /\ DbProcOK(q)
      BY <2>2 DEF DbInv, DbTypeOK
    <3> QED
      BY <3>1 DEF DbProcOK
  <2> QED
    BY <2>1, <2>2
<1> QED
  BY <1>1, <1>2 DEF DbInv

LEMMA DbMigrateOK ==
  ASSUME DbInv, NEW p \in DbProcs, NEW m \in 1..DbLast + 1, DbMigrate(p, m),
         1..m - 1 \subseteq dbMade', dbMade' \subseteq 1..DbLast
  PROVE  /\ DbProcOK(p)'
         /\ \E place \in DbPlaces \cup {DbReady} : dbProc' = [dbProc EXCEPT ![p] = place]
<1> DEFINE place == [at |-> "migrates", m |-> m, next |-> 1]
<1>1. CASE m > DbLast
  <2>1. dbProc' = [dbProc EXCEPT ![p] = DbReady] /\ DbReady.at = "ready"
    BY <1>1 DEF DbMigrate, DbReady
  <2>2. m - 1 = DbLast
    BY <1>1, DbConstants
  <2>3. dbProc'[p] = DbReady
    BY <2>1 DEF DbInv, DbTypeOK
  <2>4. DbProcOK(p)'
    BY <2>1, <2>2, <2>3 DEF DbProcOK
  <2> QED
    BY <2>1, <2>4
<1>2. CASE ~(m > DbLast)
  <2>1. dbProc' = [dbProc EXCEPT ![p] = place]
    BY <1>2 DEF DbMigrate
  <2>2. m \in 1..DbLast
    BY <1>2, DbConstants
  <2>3. place \in DbPlaces
    BY <2>2 DEF DbPlaces
  <2>4. dbProc'[p] = place
    BY <2>1 DEF DbInv, DbTypeOK
  <2>5. place.at = "migrates" /\ place.m = m /\ DbPlaceOK(place) /\ ~DbHasCreated(place)
    BY DEF DbPlaceOK, DbHasCreated
  <2> HIDE DEF place
  <2>6. DbProcOK(p)'
    BY <2>4, <2>5 DEF DbProcOK
  <2> QED
    BY <2>1, <2>3, <2>6
<1> QED
  BY <1>1, <1>2

LEMMA DbSelectKeeps ==
  ASSUME DbInv, NEW p \in DbProcs, DbSelect(p)
  PROVE  DbInv'
<1>1. CASE ~dbTable
  <2>1. dbProc' = [dbProc EXCEPT ![p] = DbClosed] /\ UNCHANGED <<dbRows, dbMade>>
    BY <1>1 DEF DbSelect, DbFails
  <2>2. DbProcOK(p)'
    BY <2>1 DEF DbProcOK, DbClosed, DbInv, DbTypeOK
  <2> QED
    BY <2>1, <2>2, DbProcMoves DEF DbInv, DbTypeOK
<1>2. CASE dbTable
  <2>1. DbMigrate(p, DbVersion + 1) /\ UNCHANGED <<dbRows, dbMade>>
    BY <1>2 DEF DbSelect
  <2>2. DbVersion \in 0..DbLast /\ 1..DbVersion \subseteq dbMade
    <3>1. CASE dbRows = {}
      BY <3>1, DbConstants DEF DbVersion
    <3>2. CASE dbRows # {}
      <4>1. \E v \in dbRows : \A w \in dbRows : v <= w
        <5>1. dbRows \subseteq Nat
          BY DbConstants DEF DbInv, DbTypeOK
        <5> QED
          BY <3>2, <5>1, LeastOfNaturals
      <4>2. DbVersion \in dbRows
        BY <3>2, <4>1 DEF DbVersion
      <4> QED
        BY <4>2 DEF DbInv, DbTypeOK
    <3> QED
      BY <3>1, <3>2
  <2> DEFINE m == DbVersion + 1
  <2>3. m \in 1..DbLast + 1 /\ m - 1 = DbVersion
    BY <2>2, DbConstants
  <2>4. DbProcOK(p)' /\ \E place \in DbPlaces \cup {DbReady} : dbProc' = [dbProc EXCEPT ![p] = place]
    <3>1. DbMigrate(p, m) /\ 1..m - 1 \subseteq dbMade' /\ dbMade' \subseteq 1..DbLast
      BY <2>1, <2>2, <2>3 DEF DbInv, DbTypeOK
    <3> HIDE DEF m
    <3> QED
      BY <2>3, <3>1, DbMigrateOK
  <2> QED
    BY <2>1, <2>4, DbProcMoves DEF DbInv, DbTypeOK
<1> QED
  BY <1>1, <1>2

\* A statement that is not the last moves the process on by one.
LEMMA DbStatementKeeps ==
  ASSUME DbInv, NEW p \in DbProcs, dbProc[p].at = "migrates", DbGoesOn(p),
         dbMade' \subseteq 1..DbLast, dbMade \subseteq dbMade', dbRows' \subseteq 0..DbLast,
         \A v \in dbRows' : 1..v \subseteq dbMade',
         DbStatement(p) = "create" => dbProc[p].m \in dbMade'
  PROVE  DbInv'
<1> DEFINE m == dbProc[p].m
           i == dbProc[p].next
<1>1. m \in 1..DbLast /\ i \in 1..4 /\ dbProc[p] = [at |-> "migrates", m |-> m, next |-> i]
      /\ DbPlaceOK(dbProc[p]) /\ DbProcOK(p)
  BY DEF DbInv, DbTypeOK, DbPlaces, DbReady, DbClosed, DbProcOK
<1>2. CASE i < Len(DbStatements(m))
  <2> DEFINE place == [at |-> "migrates", m |-> m, next |-> i + 1]
  <2>1. dbProc' = [dbProc EXCEPT ![p] = place]
    <3>1. dbProc' = [dbProc EXCEPT ![p] = [dbProc[p] EXCEPT !.next = i + 1]]
      BY <1>2 DEF DbGoesOn
    <3>2. [dbProc[p] EXCEPT !.next = i + 1] = place
      BY <1>1
    <3> QED
      BY <3>1, <3>2
  <2>2. (m = 1 /\ i \in 1..3) \/ (m # 1 /\ i = 1)
    BY <1>1, <1>2 DEF DbStatements
  <2>3. place \in DbPlaces
    BY <1>1, <2>2 DEF DbPlaces
  <2>4. dbProc'[p] = place
    BY <2>1 DEF DbInv, DbTypeOK
  <2>5. DbPlaceOK(place)
    BY <2>2 DEF DbPlaceOK
  <2>6. DbHasCreated(place) => DbStatement(p) = "create"
    BY <1>1, <2>2 DEF DbHasCreated, DbStatement, DbStatements
  <2>7. 1..m - 1 \subseteq dbMade'
    BY <1>1 DEF DbProcOK
  <2>8. DbProcOK(p)'
    BY <2>4, <2>5, <2>6, <2>7 DEF DbProcOK
  <2> HIDE DEF place
  <2> QED
    BY <2>1, <2>3, <2>8, DbProcMoves
<1>3. CASE ~(i < Len(DbStatements(m)))
  <2>1. (m = 1 /\ i = 4) \/ (m # 1 /\ i >= 2)
    BY <1>1, <1>3 DEF DbStatements
  <2>2. DbHasCreated(dbProc[p])
    BY <1>1, <2>1 DEF DbHasCreated, DbPlaceOK
  <2>3. 1..m \subseteq dbMade'
    BY <1>1, <2>2, DbConstants DEF DbProcOK
  <2>4. DbMigrate(p, m + 1) /\ m + 1 \in 1..DbLast + 1 /\ (m + 1) - 1 = m
    BY <1>1, <1>3, DbConstants DEF DbGoesOn
  <2> DEFINE n == m + 1
  <2>5. DbProcOK(p)' /\ \E place \in DbPlaces \cup {DbReady} : dbProc' = [dbProc EXCEPT ![p] = place]
    <3>1. DbMigrate(p, n) /\ n \in 1..DbLast + 1 /\ 1..n - 1 \subseteq dbMade'
      BY <2>3, <2>4
    <3> HIDE DEF n
    <3> QED
      BY <3>1, DbMigrateOK
  <2> QED
    BY <2>5, DbProcMoves
<1> QED
  BY <1>2, <1>3

\* Whatever processes migrate at the same time and wherever they are cut, one that is
\* ready finds all the tables.
THEOREM DbReadyIsMigratedTheorem == DbSpec => []DbReadyIsMigrated
<1>1. ASSUME DbInv, NEW p \in DbProcs, DbCreateTable(p) \/ DbInsertRow(p) PROVE DbInv'
  <2>1. DbGoesOn(p) /\ dbProc[p].at = "migrates" /\ DbStatement(p) # "create"
        /\ dbMade' = dbMade /\ dbRows' \in {dbRows, dbRows \cup {0}}
    BY <1>1 DEF DbCreateTable, DbInsertRow, DbGoesOn
  <2>2. dbRows' \subseteq 0..DbLast /\ \A v \in dbRows' : 1..v \subseteq dbMade'
    BY <1>1, <2>1, DbConstants DEF DbInv, DbTypeOK
  <2> QED
    BY <1>1, <2>1, <2>2, DbStatementKeeps DEF DbInv, DbTypeOK
<1>2. ASSUME DbInv, NEW p \in DbProcs, DbCreate(p) PROVE DbInv'
  <2>1. dbProc[p].m \in 1..DbLast
    BY <1>2 DEF DbCreate, DbGoesOn, DbInv, DbTypeOK, DbPlaces, DbReady, DbClosed
  <2>2. DbGoesOn(p) /\ dbProc[p].at = "migrates" /\ dbMade' = dbMade \cup {dbProc[p].m}
        /\ dbRows' = dbRows
    BY <1>2 DEF DbCreate, DbGoesOn
  <2>3. dbMade' \subseteq 1..DbLast /\ dbRows' \subseteq 0..DbLast
        /\ \A v \in dbRows' : 1..v \subseteq dbMade'
    BY <1>2, <2>1, <2>2 DEF DbInv, DbTypeOK
  <2> QED
    BY <1>2, <2>2, <2>3, DbStatementKeeps
<1>3. ASSUME DbInv, NEW p \in DbProcs, DbBump(p) PROVE DbInv'
  <2> DEFINE m == dbProc[p].m
             i == dbProc[p].next
  <2>1. DbGoesOn(p) /\ dbProc[p].at = "migrates" /\ dbMade' = dbMade /\ DbStatement(p) = "bump"
        /\ dbRows' \subseteq {m}
    BY <1>3 DEF DbBump, DbGoesOn
  <2>2. m \in 1..DbLast /\ i \in 1..4 /\ DbPlaceOK(dbProc[p]) /\ DbProcOK(p)
    BY <1>3, <2>1 DEF DbInv, DbTypeOK, DbPlaces, DbReady, DbClosed, DbProcOK
  <2>3. DbHasCreated(dbProc[p])
    BY <2>1, <2>2 DEF DbStatement, DbStatements, DbPlaceOK, DbHasCreated
  <2>4. 1..m \subseteq dbMade
    BY <2>1, <2>2, <2>3 DEF DbProcOK
  <2>5. dbRows' \subseteq 0..DbLast /\ \A v \in dbRows' : 1..v \subseteq dbMade'
    BY <2>1, <2>2, <2>4
  <2> QED
    BY <1>3, <2>1, <2>5, DbStatementKeeps DEF DbInv, DbTypeOK
<1>4. ASSUME DbInv, NEW p \in DbProcs, dbProc' = [dbProc EXCEPT ![p] = DbClosed],
             UNCHANGED <<dbRows, dbMade>>
      PROVE  DbInv'
  <2>1. DbProcOK(p)'
    BY <1>4 DEF DbProcOK, DbClosed, DbInv, DbTypeOK
  <2> QED
    BY <1>4, <2>1, DbProcMoves DEF DbInv, DbTypeOK
<1>5. ASSUME DbInv, NEW p \in DbProcs, DbBumpFails(p) \/ DbDies(p) PROVE DbInv'
  BY <1>4, <1>5 DEF DbBumpFails, DbFails, DbDies
<1>6. ASSUME DbInv, UNCHANGED dbVars PROVE DbInv'
  BY <1>6 DEF DbInv, DbTypeOK, DbProcOK, dbVars
<1>7. DbInv /\ [DbNext]_dbVars => DbInv'
  BY <1>1, <1>2, <1>3, <1>5, <1>6, DbSelectKeeps DEF DbNext
<1>8. DbInv => DbReadyIsMigrated
  BY DEF DbInv, DbTypeOK, DbProcOK, DbReadyIsMigrated
<1> QED
  BY DbInitially, <1>7, <1>8, PTL DEF DbSpec

(* The credential file *)

\* A call has the fields of TkIdle.
TkCalls(call) == call = [f \in {"at", "for", "cred", "read"} |-> call[f]]

\* As long as no write was overlapped or cut: one writer at most, which has read what is
\* stored, and only an emptied file differs from it.
TkWriterOK(c) ==
    TkWriting(c) => /\ tkCall[c].read = tkStored
                    /\ \A d \in TkCallers : TkWriting(d) => d = c
TkInv ==
    /\ tkCall = [c \in TkCallers |-> tkCall[c]]
    /\ \A c \in TkCallers : TkCalls(tkCall[c])
    /\ tkStored # None =>
          /\ \A c \in TkCallers : TkWriterOK(c)
          /\ tkTruncated => \E c \in TkCallers : tkCall[c].at = "fill"
          /\ ~tkTruncated => tkFile = tkStored

LEMMA TkIdleExcept ==
  ASSUME NEW at, NEW p, NEW cred
  PROVE  LET call == [TkIdle EXCEPT !.at = at, !.for = p, !.cred = cred]
         IN TkCalls(call) /\ call.at = at
  BY DEF TkCalls, TkIdle

LEMMA TkCallExcept ==
  ASSUME NEW call, TkCalls(call), NEW read
  PROVE  LET new == [call EXCEPT !.at = "save", !.read = read]
         IN TkCalls(new) /\ new.at = "save" /\ new.read = read
  BY DEF TkCalls

LEMMA TkInitially == TkInit => TkInv
<1> SUFFICES ASSUME TkInit PROVE TkInv
  OBVIOUS
<1>1. TkCalls(TkIdle) /\ TkIdle.at = "idle"
  BY DEF TkCalls, TkIdle
<1>2. \A c \in TkCallers : tkCall[c] = TkIdle
  BY DEF TkInit
<1>3. tkCall = [c \in TkCallers |-> tkCall[c]] /\ ~tkTruncated /\ tkFile = tkStored
  BY DEF TkInit
<1> QED
  BY <1>1, <1>2, <1>3 DEF TkInv, TkWriterOK, TkWriting

\* A step of a caller that writes neither before nor after it.
LEMMA TkReaderKeeps ==
  ASSUME TkInv, NEW c \in TkCallers, NEW call, TkGoes(c, call), TkCalls(call),
         call.at \notin {"save", "fill"}, tkCall[c].at # "fill",
         UNCHANGED <<tkFile, tkTruncated, tkStored>>
  PROVE  TkInv'
<1>1. tkCall' = [d \in TkCallers |-> tkCall'[d]]
      /\ \A d \in TkCallers : tkCall'[d] = IF d = c THEN call ELSE tkCall[d]
  BY DEF TkInv, TkGoes
<1>2. \A d \in TkCallers : TkWriting(d)' => TkWriting(d) /\ tkCall'[d] = tkCall[d]
  BY <1>1 DEF TkWriting
<1>3. ASSUME tkStored' # None, NEW d \in TkCallers PROVE TkWriterOK(d)'
  BY <1>2, <1>3 DEF TkInv, TkWriterOK
<1>4. ASSUME NEW d \in TkCallers, tkCall[d].at = "fill" PROVE tkCall'[d].at = "fill"
  BY <1>1, <1>4
<1>5. \A d \in TkCallers : TkCalls(tkCall'[d])
  BY <1>1 DEF TkInv
<1> QED
  BY <1>1, <1>3, <1>4, <1>5 DEF TkInv

LEMMA TkReturnKeeps ==
  ASSUME TkInv, NEW c \in TkCallers, TkReturns(c), tkCall[c].at # "fill",
         UNCHANGED <<tkFile, tkTruncated, tkStored>>
  PROVE  TkInv'
<1>1. TkCalls(TkIdle) /\ TkIdle.at \notin {"save", "fill"}
  BY DEF TkCalls, TkIdle
<1> QED
  BY <1>1, TkReaderKeeps DEF TkReturns

LEMMA TkIssueKeeps ==
  ASSUME TkInv, NEW c \in TkCallers, NEW p, TkIssues(c, p),
         tkCall[c].at # "fill", UNCHANGED <<tkFile, tkTruncated, tkStored>>
  PROVE  TkInv'
<1>1. PICK cred : TkGoes(c, [TkIdle EXCEPT !.at = "load", !.for = p, !.cred = cred])
  BY DEF TkIssues
<1> DEFINE call == [TkIdle EXCEPT !.at = "load", !.for = p, !.cred = cred]
<1>2. TkCalls(call) /\ call.at = "load"
  BY TkIdleExcept
<1>3. TkGoes(c, call)
  BY <1>1
<1> HIDE DEF call
<1> QED
  BY <1>2, <1>3, TkReaderKeeps

\* The steps that begin a call.
LEMMA TkBeginKeeps ==
  ASSUME TkInv, NEW c \in TkCallers, NEW p \in TkProviders,
         TkEnsure(c, p) \/ TkBrowser(c, p) \/ TkDevice(c, p) \/ TkRemove(c, p)
  PROVE  TkInv'
<1>1. tkCall[c].at # "fill" /\ UNCHANGED <<tkFile, tkTruncated, tkStored>>
  BY DEF TkEnsure, TkBrowser, TkDevice, TkRemove, TkBegins
<1>2. TkReturns(c) \/ \E call : TkGoes(c, call) /\ TkCalls(call) /\ call.at \notin {"save", "fill"}
  <2>1. CASE TkEnsure(c, p)
    <3> DEFINE call == [TkIdle EXCEPT !.at = "refresh", !.for = p, !.cred = TkLoad[p]]
    <3>1. TkReturns(c) \/ TkGoes(c, call)
      BY <2>1 DEF TkEnsure
    <3>2. TkCalls(call) /\ call.at = "refresh"
      BY TkIdleExcept
    <3> QED
      BY <3>1, <3>2
  <2>2. CASE TkBrowser(c, p) \/ TkDevice(c, p) \/ TkRemove(c, p)
    <3> DEFINE call(at) == [TkIdle EXCEPT !.at = at, !.for = p]
    <3>1. \E at \in {"callback", "poll", "load"} : TkGoes(c, call(at))
      BY <2>2 DEF TkBrowser, TkDevice, TkRemove
    <3>2. \A at : TkCalls(call(at)) /\ call(at).at = at
      BY DEF TkCalls, TkIdle
    <3> HIDE DEF call
    <3> QED
      BY <3>1, <3>2
  <2> QED
    BY <2>1, <2>2
<1>3. CASE TkReturns(c)
  BY <1>1, <1>3, TkReturnKeeps
<1> QED
  BY <1>1, <1>2, <1>3, TkReaderKeeps

\* The read of a change, which is of what is stored unless another writes as well.
LEMMA TkLoadsKeeps ==
  ASSUME TkInv, NEW c \in TkCallers, TkUpsertLoads(c)
  PROVE  TkInv'
<1> DEFINE call == [tkCall[c] EXCEPT !.at = "save", !.read = TkLoad]
<1>1. TkCalls(call) /\ call.at = "save" /\ call.read = TkLoad
  BY TkCallExcept DEF TkInv
<1>2. TkGoes(c, call) /\ UNCHANGED <<tkFile, tkTruncated>>
  BY DEF TkUpsertLoads
<1> HIDE DEF call
<1>3. tkCall' = [d \in TkCallers |-> tkCall'[d]]
      /\ \A d \in TkCallers : tkCall'[d] = IF d = c THEN call ELSE tkCall[d]
  BY <1>2 DEF TkInv, TkGoes
<1>4. \A d \in TkCallers : TkCalls(tkCall'[d])
  BY <1>1, <1>3 DEF TkInv
<1>5. CASE tkStored' = None
  BY <1>3, <1>4, <1>5 DEF TkInv
<1>6. CASE tkStored' # None
  <2>1. tkStored' = tkStored /\ \A d \in TkCallers : ~TkWriting(d)
    <3>1. \A d \in TkCallers \ {c} : ~TkWriting(d)
      BY <1>6 DEF TkUpsertLoads
    <3> QED
      BY <1>6, <3>1 DEF TkUpsertLoads, TkWriting
  <2>2. ~tkTruncated /\ TkLoad = tkStored
    BY <1>6, <2>1 DEF TkInv, TkWriting, TkLoad
  <2>3. \A d \in TkCallers : TkWriting(d)' => d = c /\ tkCall'[d] = call
    BY <1>3, <2>1 DEF TkWriting
  <2>4. \A d \in TkCallers : TkWriterOK(d)'
    BY <1>1, <2>1, <2>2, <2>3 DEF TkWriterOK
  <2> QED
    BY <1>2, <1>3, <1>4, <1>6, <2>1, <2>2, <2>4 DEF TkInv
<1> QED
  BY <1>5, <1>6

LEMMA TkEmptiesKeeps ==
  ASSUME TkInv, NEW c \in TkCallers, TkUpsertEmpties(c)
  PROVE  TkInv'
<1> DEFINE call == [tkCall[c] EXCEPT !.at = "fill"]
<1>1. TkCalls(call) /\ call.at = "fill" /\ call.read = tkCall[c].read
  BY DEF TkInv, TkCalls
<1>2. TkGoes(c, call) /\ tkTruncated' = TRUE /\ tkStored' = tkStored /\ tkCall[c].at = "save"
  BY DEF TkUpsertEmpties
<1> HIDE DEF call
<1>3. tkCall' = [d \in TkCallers |-> tkCall'[d]]
      /\ \A d \in TkCallers : tkCall'[d] = IF d = c THEN call ELSE tkCall[d]
  BY <1>2 DEF TkInv, TkGoes
<1>4. \A d \in TkCallers : TkCalls(tkCall'[d])
  BY <1>1, <1>3 DEF TkInv
<1>5. \A d \in TkCallers : TkWriting(d)' => TkWriting(d) /\ tkCall'[d].read = tkCall[d].read
  BY <1>1, <1>2, <1>3 DEF TkWriting
<1>6. ASSUME tkStored' # None, NEW d \in TkCallers PROVE TkWriterOK(d)'
  BY <1>2, <1>5, <1>6 DEF TkInv, TkWriterOK
<1> QED
  BY <1>1, <1>2, <1>3, <1>4, <1>6 DEF TkInv

\* The write itself: a lone writer leaves in the file what is then stored.
LEMMA TkFillsKeeps ==
  ASSUME TkInv, NEW c \in TkCallers, TkUpsertFills(c)
  PROVE  TkInv'
<1>1. TkReturns(c) /\ tkTruncated' = FALSE /\ TkWriting(c)
  BY DEF TkUpsertFills, TkWriting
<1>2. TkCalls(TkIdle) /\ TkIdle.at = "idle"
  BY DEF TkCalls, TkIdle
<1>3. tkCall' = [d \in TkCallers |-> tkCall'[d]]
      /\ \A d \in TkCallers : tkCall'[d] = IF d = c THEN TkIdle ELSE tkCall[d]
  BY <1>1 DEF TkInv, TkReturns, TkGoes
<1>4. \A d \in TkCallers : TkCalls(tkCall'[d])
  BY <1>2, <1>3 DEF TkInv
<1>5. CASE tkStored = None
  <2>1. tkStored' = None
    BY <1>5 DEF TkUpsertFills
  <2> QED
    BY <1>3, <1>4, <2>1 DEF TkInv
<1>6. CASE tkStored # None
  <2>1. tkFile' = tkStored'
    BY <1>1, <1>6 DEF TkInv, TkWriterOK, TkUpsertFills, TkRead
  <2>2. \A d \in TkCallers : ~TkWriting(d)'
    BY <1>1, <1>2, <1>3, <1>6 DEF TkInv, TkWriterOK, TkWriting
  <2> QED
    BY <1>1, <1>3, <1>4, <2>1, <2>2 DEF TkInv, TkWriterOK
<1> QED
  BY <1>5, <1>6

LEMMA TkDiesKeeps ==
  ASSUME TkInv, NEW c \in TkCallers, TkDies(c)
  PROVE  TkInv'
<1>1. CASE tkCall[c].at # "fill"
  BY <1>1, TkReturnKeeps DEF TkDies
<1>2. CASE tkCall[c].at = "fill"
  <2>1. TkReturns(c) /\ tkStored' = None
    BY <1>2 DEF TkDies
  <2>2. TkCalls(TkIdle)
    BY DEF TkCalls, TkIdle
  <2>3. tkCall' = [d \in TkCallers |-> tkCall'[d]]
        /\ \A d \in TkCallers : tkCall'[d] = IF d = c THEN TkIdle ELSE tkCall[d]
    BY <2>1 DEF TkInv, TkReturns, TkGoes
  <2> QED
    BY <2>1, <2>2, <2>3 DEF TkInv
<1> QED
  BY <1>1, <1>2

\* A server that answers, or does not, whoever waits for it.
LEMMA TkAnswerKeeps ==
  ASSUME TkInv, NEW c \in TkCallers, tkCall[c].at # "fill",
         UNCHANGED <<tkFile, tkTruncated, tkStored>>,
         TkReturns(c) \/ TkIssues(c, tkCall[c].for)
  PROVE  TkInv'
<1>1. CASE TkReturns(c)
  BY <1>1, TkReturnKeeps
<1>2. CASE TkIssues(c, tkCall[c].for)
  BY <1>2, TkIssueKeeps
<1> QED
  BY <1>1, <1>2

\* The credential of one provider is never lost to the change of another's, as long as
\* no two writers overlap and none is cut while it writes.
THEOREM TkNoneLostTheorem == TkSpec => []TkNoneLost
<1>1. ASSUME TkInv, NEW c \in TkCallers,
             TkRefresh(c) \/ TkLoginFails(c) \/ TkPoll(c) \/ \E own \in BOOLEAN : TkCallback(c, own)
      PROVE  TkInv'
  <2>1. tkCall[c].at # "fill" /\ UNCHANGED <<tkFile, tkTruncated, tkStored>>
    BY <1>1 DEF TkRefresh, TkLoginFails, TkPoll, TkCallback
  <2>2. TkReturns(c) \/ TkIssues(c, tkCall[c].for)
    BY <1>1 DEF TkRefresh, TkLoginFails, TkPoll, TkCallback
  <2> QED
    BY <1>1, <2>1, <2>2, TkAnswerKeeps
<1>2. TkInv /\ [TkNext]_tkVars => TkInv'
  <2> SUFFICES ASSUME TkInv, [TkNext]_tkVars PROVE TkInv'
    OBVIOUS
  <2>1. CASE \E p \in TkProviders : TkExpires(p)
    BY <2>1 DEF TkExpires, TkInv, TkWriterOK, TkWriting
  <2>2. CASE UNCHANGED tkVars
    BY <2>2 DEF tkVars, TkInv, TkWriterOK, TkWriting
  <2> QED
    BY <1>1, <2>1, <2>2, TkBeginKeeps, TkLoadsKeeps, TkEmptiesKeeps, TkFillsKeeps, TkDiesKeeps
       DEF TkNext
<1>3. TkInv => TkNoneLost
  BY DEF TkInv, TkNoneLost
<1> QED
  BY TkInitially, <1>2, <1>3, PTL DEF TkSpec

-----------------------------------------------------------------------------
(* The cache of sub-agent outputs *)
\* A row is stored under the agent that gave the answer.
SaRowSet ==
    {row \in [key : SaAgents \X SaTasks, caller : SaCallers, target : SaAgents,
              kind : {"testing"}, expires : Nat] : row.key[1] = row.target}
SaCallSet ==
    [at : {"idle", "asks", "runs", "served"}, ask : SaAsks \cup {None},
     row : SaRowSet \cup {None}]

SaCacheInv ==
    /\ saNow \in Nat
    /\ saRows \in Seq(SaRowSet)
    /\ saCall \in [SaCallers -> SaCallSet]
    /\ \A c \in SaCallers : saCall[c].at \in {"asks", "runs"} => saCall[c].ask \in SaAsks
    /\ SaOwnTarget

\* A bounded set of numbers has a last one.
LEMMA GreatestOfBounded ==
    ASSUME NEW n \in Nat, NEW S, S \subseteq 1..n, S # {}
    PROVE \E i \in S : \A j \in S : j <= i
<1> DEFINE D == {n - i : i \in S}
<1>1. D \subseteq Nat /\ D # {}
  <2>1. \A i \in S : n - i \in Nat
    OBVIOUS
  <2>2. D \subseteq Nat
    BY <2>1
  <2>3. PICK i \in S : TRUE
    OBVIOUS
  <2>4. n - i \in D
    OBVIOUS
  <2>5. QED
    BY <2>2, <2>4
<1> HIDE DEF D
<1>2. \E d \in D : \A e \in D : d <= e
  BY <1>1, LeastOfNaturals
<1> USE DEF D
<1>3. \E i \in S : \A j \in S : n - i <= n - j
  BY <1>2
<1>4. QED
  BY <1>3

\* The newest of some rows, if there is one, is one of them.
LEMMA SaNewestIsFound ==
    ASSUME saRows \in Seq(SaRowSet), NEW found, found \subseteq 1..Len(saRows),
           SaNewest(found) # None
    PROVE \E i \in found : SaNewest(found) = saRows[i]
<1>1. found # {}
  BY DEF SaNewest
<1>2. Len(saRows) \in Nat
  OBVIOUS
<1>3. \E i \in found : \A j \in found : j <= i
  BY <1>1, <1>2, GreatestOfBounded
<1> DEFINE last == CHOOSE i \in found : \A j \in found : j <= i
<1>4. last \in found
  BY <1>3
<1>5. SaNewest(found) = saRows[last]
  BY <1>1 DEF SaNewest
<1>6. QED
  BY <1>4, <1>5

\* What the cache finds for a question was answered by the agent asked.
LEMMA SaFoundIsOwn ==
    ASSUME SaCacheInv, NEW c \in SaCallers, NEW ask \in SaAsks, SaFound(c, ask) # None
    PROVE SaFound(c, ask) \in SaRowSet /\ SaFound(c, ask).target = ask.target
<1> DEFINE exact == {i \in 1..Len(saRows) : saRows[i].key = SaKey(ask) /\ SaLive(saRows[i])}
           alike == {i \in SaAlike(c, ask) : saRows[i].target = ask.target}
<1>1. saRows \in Seq(SaRowSet) /\ ask.target \in SaAgents
  BY DEF SaCacheInv, SaAsks
<1>2. \A i \in 1..Len(saRows) : saRows[i] \in SaRowSet
  BY <1>1
<1>3. alike \subseteq 1..Len(saRows)
  BY DEF SaAlike
<1>4. CASE SaFound(c, ask) = SaNewest(exact)
  <2>1. PICK i \in exact : SaNewest(exact) = saRows[i]
    BY <1>1, <1>4, SaNewestIsFound
  <2>2. saRows[i] \in SaRowSet /\ saRows[i].key = <<ask.target, ask.task>>
    BY <1>2, <2>1 DEF SaKey
  <2>3. saRows[i].target = ask.target
    BY <2>2 DEF SaRowSet
  <2>4. QED
    BY <1>4, <2>1, <2>2, <2>3
<1>5. CASE SaFound(c, ask) = SaNewest(alike)
  <2>1. PICK i \in alike : SaNewest(alike) = saRows[i]
    BY <1>1, <1>3, <1>5, SaNewestIsFound
  <2>2. QED
    BY <1>2, <1>3, <1>5, <2>1
<1>6. QED
  BY <1>4, <1>5 DEF SaFound, SaExact, SaSemantic

\* Every step of the cache keeps it.
LEMMA SaCacheStep == SaCacheInv /\ [SaNext]_saVars => SaCacheInv'
<1> SUFFICES ASSUME SaCacheInv, [SaNext]_saVars PROVE SaCacheInv'
  OBVIOUS
<1>1. SaIdle \in SaCallSet /\ SaIdle.at = "idle"
  BY DEF SaIdle, SaCallSet
<1>2. ASSUME NEW c \in SaCallers, NEW k \in SaCallSet,
             k.at \in {"asks", "runs"} => k.ask \in SaAsks,
             k.at = "served" => k.row.target = k.ask.target,
             saCall' = [saCall EXCEPT ![c] = k], saNow' = saNow, saRows' \in Seq(SaRowSet)
      PROVE SaCacheInv'
  BY <1>2 DEF SaCacheInv, SaOwnTarget
<1>3. CASE SaTime
  <2>1. saNow' \in Nat /\ saRows' = saRows
    BY <1>3 DEF SaTime, SaCacheInv
  <2>2. \A c \in SaCallers : saCall'[c] = IF saCall[c].at = "served" THEN SaIdle ELSE saCall[c]
    BY <1>3 DEF SaTime
  <2>3. saCall' \in [SaCallers -> SaCallSet]
    BY <1>1, <1>3 DEF SaTime, SaCacheInv
  <2>4. QED
    BY <1>1, <2>1, <2>2, <2>3 DEF SaCacheInv, SaOwnTarget
<1>4. ASSUME NEW c \in SaCallers, NEW ask \in SaAsks, SaCallAgent(c, ask) PROVE SaCacheInv'
  <2> DEFINE found == [at |-> "served", ask |-> ask, row |-> SaFound(c, ask)]
             asks == [SaIdle EXCEPT !.at = "asks", !.ask = ask]
  <2>1. CASE SaFound(c, ask) # None
    <3>1. found \in SaCallSet /\ found.at = "served" /\ found.row.target = found.ask.target
      BY <2>1, SaFoundIsOwn DEF SaCallSet
    <3>2. saCall' = [saCall EXCEPT ![c] = found]
      BY <1>4, <2>1 DEF SaCallAgent
    <3> HIDE DEF found
    <3>3. QED
      BY <1>2, <1>4, <3>1, <3>2 DEF SaCallAgent, SaCacheInv
  <2>2. CASE SaFound(c, ask) = None
    <3>1. asks \in SaCallSet /\ asks.at = "asks" /\ asks.ask \in SaAsks
      BY DEF SaCallSet, SaIdle
    <3>2. saCall' = [saCall EXCEPT ![c] = asks]
      BY <1>4, <2>2 DEF SaCallAgent
    <3> HIDE DEF asks
    <3>3. QED
      BY <1>2, <1>4, <3>1, <3>2 DEF SaCallAgent, SaCacheInv
  <2>3. QED
    BY <2>1, <2>2
<1>5. ASSUME NEW c \in SaCallers, SaRun(c) PROVE SaCacheInv'
  <2> DEFINE runs == [saCall[c] EXCEPT !.at = "runs"]
  <2>1. runs \in SaCallSet /\ runs.at = "runs" /\ runs.ask \in SaAsks
    BY <1>5 DEF SaRun, SaCacheInv, SaCallSet
  <2>2. saCall' = [saCall EXCEPT ![c] = runs] \/ saCall' = [saCall EXCEPT ![c] = SaIdle]
    BY <1>5 DEF SaRun
  <2> HIDE DEF runs
  <2>3. QED
    BY <1>1, <1>2, <1>5, <2>1, <2>2 DEF SaRun, SaCacheInv
<1>6. ASSUME NEW c \in SaCallers, NEW stored \in BOOLEAN, SaRunEnds(c, stored) PROVE SaCacheInv'
  <2> DEFINE row == [key |-> SaKey(saCall[c].ask), caller |-> c, target |-> saCall[c].ask.target,
                     kind |-> SaKind(saCall[c].ask.task), expires |-> saNow + SaTtl]
  <2>1. saCall[c].ask \in SaAsks
    BY <1>6 DEF SaRunEnds, SaCacheInv
  <2>2. row \in SaRowSet
    <3>1. saCall[c].ask.target \in SaAgents /\ saCall[c].ask.task \in SaTasks
      BY <2>1 DEF SaAsks
    <3>2. SaKey(saCall[c].ask) \in SaAgents \X SaTasks /\ SaKey(saCall[c].ask)[1] = saCall[c].ask.target
      BY <3>1 DEF SaKey
    <3>3. SaKind(saCall[c].ask.task) = "testing"
      BY DEF SaKind
    <3>4. saNow + SaTtl \in Nat
      BY DEF SaTtl, SaCacheInv
    <3>5. QED
      BY <3>1, <3>2, <3>3, <3>4 DEF SaRowSet
  <2>3. saRows' = saRows \/ saRows' = Append(saRows, row)
    BY <1>6 DEF SaRunEnds
  <2> HIDE DEF row
  <2>4. saRows' \in Seq(SaRowSet)
    BY <2>2, <2>3 DEF SaCacheInv
  <2>5. QED
    BY <1>1, <1>2, <1>6, <2>4 DEF SaRunEnds
<1>7. CASE UNCHANGED saCache
  BY <1>7 DEF saCache, SaCacheInv, SaOwnTarget
<1>8. QED
  BY <1>3, <1>4, <1>5, <1>6, <1>7
     DEF SaNext, SaCallNext, SaBatchNext, SaBatchStarts, SaJoin, SaBatchReturns, SaTaskRuns,
         SaTaskEnds, saVars, saCache

\* An answer from the cache was given by the agent that is asked now, whatever mode of
\* look-up found it (sub_agent.rs).
THEOREM SaOwnTargetTheorem == SaSpec => []SaOwnTarget
<1>1. SaInit => SaCacheInv
  <2> SUFFICES ASSUME SaInit PROVE SaCacheInv
    OBVIOUS
  <2>1. SaIdle \in SaCallSet /\ SaIdle.at = "idle"
    BY DEF SaIdle, SaCallSet
  <2>2. QED
    BY <2>1 DEF SaInit, SaCacheInv, SaOwnTarget
<1>2. SaCacheInv => SaOwnTarget
  BY DEF SaCacheInv
<1>3. QED
  BY <1>1, <1>2, SaCacheStep, PTL DEF SaSpec

-----------------------------------------------------------------------------
(* The todos of a session *)
TdStatuses == {"open", "completed"}
TdTodos == [parent : TdParents, status : TdStatuses]
TdGiven == 1..tdNext - 1
TdFields == {"at", "on", "parent", "own", "batch", "left", "failed"}
TdChaining == {"get", "set", "list"}

\* Where a caller is: a chain is on a todo that has been created, and past its first
\* statement it remembers the parent that todo has.
TdCallOK(k) ==
    /\ k = [x \in TdFields |-> k[x]]
    /\ k.on \in TdGiven \cup {None} /\ k.parent \in TdGiven \cup {None}
    /\ k.own \in TdGiven \cup {None} /\ k.batch \in TdGiven \cup {None}
    /\ k.left \subseteq TdGiven
    /\ k.at \in {"files", "join"} => k.batch \in TdGiven
    /\ k.at \in TdChaining => k.on \in TdGiven
    /\ k.at \in {"set", "list"} /\ tdTodo[k.on] # None => k.parent = tdTodo[k.on].parent

TdTypeOK ==
    /\ tdNext \in 1..TdMax + 1
    /\ tdTodo \in [TdIds -> TdTodos \cup {None}]
    /\ \A id \in TdIds : tdTodo[id] # None =>
          id < tdNext /\ (tdTodo[id].parent # None => tdTodo[id].parent < id)
    /\ tdCall = [c \in TdCallers |-> tdCall[c]]
    /\ \A c \in TdCallers : TdCallOK(tdCall[c])

\* All the children of a todo are completed, and it is not: a chain has to come to it.
TdIsDue(p) ==
    /\ TdThere(p) /\ TdKids(p) # {} /\ ~TdCompleted(p)
    /\ \A id \in TdKids(p) : TdCompleted(id)
\* It is on its way: it is at the todo, or about to look at the children.
TdComes(k, p) == (k.at \in {"get", "set"} /\ k.on = p) \/ (k.at = "list" /\ k.parent = p)
TdChainsCome ==
    \A p \in TdIds \ tdByHand : TdIsDue(p) => \E c \in TdCallers : TdComes(tdCall[c], p)

TdInv == TdTypeOK /\ TdChainsCome

\* At first there are no todos and no calls.
LEMMA TdInitially == TdInit => TdInv
<1> SUFFICES ASSUME TdInit PROVE TdInv
  OBVIOUS
<1>1. TdCallOK(TdIdle)
  BY DEF TdIdle, TdCallOK, TdFields, TdChaining
<1>2. TdTypeOK
  BY <1>1, TdConstants DEF TdInit, TdTypeOK, TdIds
<1>3. \A p \in TdIds : ~TdThere(p)
  BY DEF TdInit, TdThere
<1>4. QED
  BY <1>2, <1>3 DEF TdInv, TdChainsCome, TdIsDue

\* Types stay when calls move as they should, todos keep their parents, and what is
\* created gets the next id and an older parent.
LEMMA TdTypesStay ==
    ASSUME TdInv,
           tdCall' = [d \in TdCallers |-> tdCall'[d]],
           \A d \in TdCallers : tdCall'[d] = tdCall[d] \/ TdCallOK(tdCall[d])',
           tdNext' = tdNext \/ (tdNext' = tdNext + 1 /\ tdNext <= TdMax),
           tdTodo' \in [TdIds -> TdTodos \cup {None}],
           \A id \in TdIds : tdTodo'[id] # None =>
              \/ tdTodo[id] # None /\ tdTodo'[id].parent = tdTodo[id].parent
              \/ /\ id = tdNext /\ tdNext' = tdNext + 1
                 /\ tdTodo'[id].parent # None => tdTodo'[id].parent < id
    PROVE TdTypeOK'
<1>1. /\ TdGiven \subseteq TdIds /\ TdGiven \subseteq TdGiven' /\ tdNext \notin TdGiven
      /\ tdNext' \in 1..TdMax + 1
  BY TdConstants DEF TdGiven, TdIds, TdInv, TdTypeOK
<1>2. ASSUME NEW d \in TdCallers PROVE TdCallOK(tdCall[d])'
  <2>1. CASE tdCall'[d] = tdCall[d]
    <3>1. TdCallOK(tdCall[d])
      BY DEF TdInv, TdTypeOK
    <3>2. tdCall[d].at \in {"set", "list"} => tdCall[d].on \in TdIds /\ tdCall[d].on # tdNext
      BY <1>1, <3>1 DEF TdCallOK, TdChaining
    <3>3. QED
      BY <1>1, <2>1, <3>1, <3>2 DEF TdCallOK
  <2>2. QED
    BY <2>1
<1>3. \A id \in TdIds : tdTodo'[id] # None =>
          id < tdNext' /\ (tdTodo'[id].parent # None => tdTodo'[id].parent < id)
  BY TdConstants DEF TdInv, TdTypeOK, TdIds
<1>4. QED
  BY <1>1, <1>2, <1>3 DEF TdTypeOK

\* Nothing is due but what was, and what some chain comes to.
LEMMA TdChainsStay ==
    ASSUME TdInv, TdTypeOK',
           tdByHand \subseteq tdByHand',
           \A p \in TdIds \ tdByHand' : TdIsDue(p)' =>
              \/ TdIsDue(p) /\ \A d \in TdCallers : TdComes(tdCall[d], p) => TdComes(tdCall[d], p)'
              \/ \E d \in TdCallers : TdComes(tdCall[d], p)'
    PROVE TdInv'
BY DEF TdInv, TdChainsCome

\* A todo that is due is told from its own record and those of its children.
LEMMA TdDueAlike ==
    ASSUME NEW p \in TdIds,
           \A id \in TdIds : id = p \/ id \in TdKids(p) \/ id \in TdKids(p)' => tdTodo'[id] = tdTodo[id],
           TdIsDue(p)'
    PROVE TdIsDue(p)
<1>1. TdKids(p)' = TdKids(p)
  BY DEF TdKids, TdThere
<1>2. \A id \in TdKids(p) : id \in TdIds
  BY DEF TdKids
<1>3. QED
  BY <1>1, <1>2 DEF TdIsDue, TdThere, TdCompleted

\* A call that is not in a chain is moved; the todos are left alone.
LEMMA TdMoves ==
    ASSUME TdInv, NEW c \in TdCallers, tdCall[c].at \notin TdChaining,
           NEW k, TdCallOK(k), tdCall' = [tdCall EXCEPT ![c] = k],
           UNCHANGED <<tdTodo, tdNext, tdByHand>>
    PROVE TdInv'
<1>1. \A d \in TdCallers : tdCall'[d] = IF d = c THEN k ELSE tdCall[d]
  BY DEF TdInv, TdTypeOK
<1>2. TdCallOK(tdCall[c])'
  BY <1>1 DEF TdCallOK, TdGiven
<1>3. tdCall' = [d \in TdCallers |-> tdCall'[d]]
  BY DEF TdInv, TdTypeOK
<1>4. TdTypeOK'
  BY <1>1, <1>2, <1>3, TdTypesStay DEF TdInv, TdTypeOK
<1>5. \A p : ~TdComes(tdCall[c], p)
  BY DEF TdComes, TdChaining
<1>6. \A p \in TdIds : TdIsDue(p)' =>
          TdIsDue(p) /\ \A d \in TdCallers : TdComes(tdCall[d], p) => TdComes(tdCall[d], p)'
  BY <1>1, <1>5 DEF TdIsDue, TdThere, TdKids, TdCompleted, TdComes
<1>7. QED
  BY <1>4, <1>6, TdChainsStay

\* A todo is created open: its parent is not due, and it has no children.
LEMMA TdCreatesKeeps ==
    ASSUME TdInv, NEW parent \in TdParents, TdCreates(parent, "open"),
           tdCall' = [d \in TdCallers |-> tdCall'[d]],
           \A d \in TdCallers :
              tdCall'[d] = tdCall[d] \/ (tdCall[d].at \notin TdChaining /\ TdCallOK(tdCall[d])')
    PROVE TdInv'
<1>1. tdNext \in TdIds /\ tdNext' = tdNext + 1 /\ tdByHand' = tdByHand
  BY TdConstants DEF TdCreates, TdIds, TdInv, TdTypeOK
<1>2. tdTodo[tdNext] = None
  BY <1>1, TdConstants DEF TdInv, TdTypeOK, TdIds
<1> DEFINE new == TdTodo(parent, "open")
<1>3. /\ new \in TdTodos /\ new.parent = parent /\ new.status = "open" /\ new # None
  BY TdConstants DEF TdTodo, TdTodos, TdStatuses
<1>4. \/ tdTodo' = tdTodo
      \/ tdTodo' = [tdTodo EXCEPT ![tdNext] = new] /\ (parent # None => TdThere(parent))
  BY DEF TdCreates
<1> HIDE DEF new
<1>5. CASE tdTodo' = tdTodo
  <2>1. TdTypeOK'
    BY <1>1, <1>5, TdTypesStay DEF TdInv, TdTypeOK, TdCreates
  <2>2. \A p \in TdIds : TdIsDue(p)' =>
            TdIsDue(p) /\ \A d \in TdCallers : TdComes(tdCall[d], p) => TdComes(tdCall[d], p)'
    BY <1>5 DEF TdIsDue, TdThere, TdKids, TdCompleted, TdComes, TdChaining
  <2>3. QED
    BY <1>1, <2>1, <2>2, TdChainsStay
<1>6. CASE tdTodo' = [tdTodo EXCEPT ![tdNext] = new] /\ (parent # None => TdThere(parent))
  <2>1. \A id \in TdIds : tdTodo'[id] = IF id = tdNext THEN new ELSE tdTodo[id]
    BY <1>1, <1>6 DEF TdInv, TdTypeOK
  <2>2. parent # None => parent < tdNext
    BY <1>6 DEF TdParents, TdIds, TdThere, TdInv, TdTypeOK
  <2>3. TdTypeOK'
    <3>1. tdTodo' \in [TdIds -> TdTodos \cup {None}]
      BY <1>3, <1>6 DEF TdInv, TdTypeOK
    <3>2. \A id \in TdIds : tdTodo'[id] # None =>
              \/ tdTodo[id] # None /\ tdTodo'[id].parent = tdTodo[id].parent
              \/ /\ id = tdNext /\ tdNext' = tdNext + 1
                 /\ tdTodo'[id].parent # None => tdTodo'[id].parent < id
      BY <1>1, <1>3, <2>1, <2>2
    <3>3. QED
      BY <1>1, <3>1, <3>2, TdTypesStay DEF TdCreates
  <2>4. ASSUME NEW p \in TdIds, TdIsDue(p)' PROVE TdIsDue(p)
    <3> PICK n \in TdIds : n = tdNext
      BY <1>1
    <3>1. tdTodo'[n] = new /\ n # None
      BY <2>1, TdConstants DEF TdIds
    <3>2. p # parent
      <4> SUFFICES ASSUME p = parent PROVE FALSE
        OBVIOUS
      <4>1. n \in TdKids(p)'
        BY <1>3, <3>1 DEF TdKids, TdThere
      <4>2. QED
        BY <1>3, <2>4, <3>1, <4>1 DEF TdIsDue, TdCompleted
    <3>3. p # tdNext
      <4> SUFFICES ASSUME p = tdNext PROVE FALSE
        OBVIOUS
      <4>1. PICK id \in TdIds : tdTodo'[id] # None /\ tdTodo'[id].parent = p
        BY <2>4 DEF TdIsDue, TdKids, TdThere
      <4>2. p < id /\ id < tdNext'
        BY <2>3, <4>1, TdConstants DEF TdTypeOK, TdIds
      <4>3. QED
        BY <1>1, <4>2 DEF TdIds
    <3>4. n \notin TdKids(p) /\ n \notin TdKids(p)'
      BY <1>2, <1>3, <3>1, <3>2 DEF TdKids, TdThere
    <3>5. QED
      BY <2>1, <2>4, <3>3, <3>4, TdDueAlike
  <2>5. \A p \in TdIds : TdIsDue(p)' =>
            TdIsDue(p) /\ \A d \in TdCallers : TdComes(tdCall[d], p) => TdComes(tdCall[d], p)'
    BY <2>4 DEF TdComes, TdChaining
  <2>6. QED
    BY <1>1, <2>3, <2>5, TdChainsStay
<1>7. QED
  BY <1>4, <1>5, <1>6

\* A plain update: the parent of what it completes, and what it opens, is noted.
LEMMA TdUpdatesKeeps ==
    ASSUME TdInv, NEW id \in TdIds \cup {None}, NEW status \in TdStatuses, TdUpdates(id, status),
           tdCall' = [d \in TdCallers |-> tdCall'[d]],
           \A d \in TdCallers :
              tdCall'[d] = tdCall[d] \/ (tdCall[d].at \notin TdChaining /\ TdCallOK(tdCall[d])')
    PROVE TdInv'
<1>1. tdNext' = tdNext /\ tdByHand \subseteq tdByHand'
  BY DEF TdUpdates
<1>2. CASE ~TdThere(id)
  <2>1. tdTodo' = tdTodo
    BY <1>2 DEF TdUpdates
  <2>2. TdTypeOK'
    BY <1>1, <2>1, TdTypesStay DEF TdInv, TdTypeOK
  <2>3. \A p \in TdIds : TdIsDue(p)' =>
            TdIsDue(p) /\ \A d \in TdCallers : TdComes(tdCall[d], p) => TdComes(tdCall[d], p)'
    BY <2>1 DEF TdIsDue, TdThere, TdKids, TdCompleted, TdComes, TdChaining
  <2>4. QED
    BY <1>1, <2>2, <2>3, TdChainsStay
<1>3. CASE TdThere(id)
  <2>1. id \in TdIds /\ tdTodo[id] \in TdTodos
    BY <1>3, TdConstants DEF TdThere, TdInv, TdTypeOK, TdIds
  <2> DEFINE new == [tdTodo[id] EXCEPT !.status = status]
  <2>2. new \in TdTodos /\ new.parent = tdTodo[id].parent /\ new.status = status
    BY <2>1 DEF TdTodos
  <2>3. tdTodo' = [tdTodo EXCEPT ![id] = new]
    BY <1>3 DEF TdUpdates
  <2>4. tdByHand' = tdByHand \cup (IF status = "open" THEN {id} ELSE {tdTodo[id].parent})
    BY <1>3 DEF TdUpdates
  <2> HIDE DEF new
  <2>5. \A i \in TdIds : tdTodo'[i] = IF i = id THEN new ELSE tdTodo[i]
    BY <2>1, <2>3 DEF TdInv, TdTypeOK
  <2>6. tdTodo' \in [TdIds -> TdTodos \cup {None}]
    BY <2>2, <2>3 DEF TdInv, TdTypeOK
  <2>7. TdTypeOK'
    BY <1>1, <1>3, <2>2, <2>5, <2>6, TdTypesStay DEF TdThere
  <2>8. new # None /\ id # None
    BY <1>3, <2>2, TdConstants DEF TdTodos, TdStatuses, TdThere
  <2>9. ASSUME NEW p \in TdIds \ tdByHand', TdIsDue(p)' PROVE TdIsDue(p)
    <3>1. TdKids(p)' = TdKids(p) /\ (TdThere(p)' <=> TdThere(p))
      BY <1>3, <2>2, <2>5, <2>8 DEF TdKids, TdThere
    <3>2. CASE status = "open"
      <4>1. p # id
        BY <2>4, <2>9, <3>2
      <4>2. id \notin TdKids(p)
        BY <2>1, <2>2, <2>5, <2>9, <3>1, <3>2 DEF TdIsDue, TdCompleted
      <4>3. QED
        BY <2>5, <2>9, <3>1, <4>1, <4>2, TdDueAlike
    <3>3. CASE status # "open"
      <4>1. status = "completed"
        BY <3>3 DEF TdStatuses
      <4>2. p # id
        BY <2>1, <2>2, <2>5, <2>9, <4>1 DEF TdIsDue, TdCompleted
      <4>3. id \notin TdKids(p)
        BY <2>4, <2>9, <3>3 DEF TdKids
      <4>4. QED
        BY <2>5, <2>9, <3>1, <4>2, <4>3, TdDueAlike
    <3>4. QED
      BY <3>2, <3>3
  <2>10. \A p \in TdIds \ tdByHand' : TdIsDue(p)' =>
            TdIsDue(p) /\ \A d \in TdCallers : TdComes(tdCall[d], p) => TdComes(tdCall[d], p)'
    BY <2>9 DEF TdComes, TdChaining
  <2>11. QED
    BY <1>1, <2>7, <2>10, TdChainsStay
<1>4. QED
  BY <1>2, <1>3

\* With a todo its children go, and theirs: of what stays, only the parent of what was
\* asked for has lost a child.
LEMMA TdBelowClosed ==
    ASSUME TdInv, NEW id \in TdIds, NEW x \in TdBelow(id), x # id, TdThere(x)
    PROVE tdTodo[x].parent \in TdBelow(id)
<1> DEFINE q == tdTodo[x].parent
<1>1. x \in TdIds
  BY DEF TdBelow
<1>2. ASSUME NEW S \in SUBSET TdIds, id \in S, \A p \in S : TdKids(p) \subseteq S PROVE q \in S
  <2> SUFFICES ASSUME q \notin S PROVE FALSE
    OBVIOUS
  <2>1. \A p \in S \ {x} : TdKids(p) \subseteq S \ {x}
    BY <1>2 DEF TdKids
  <2>2. id \in S \ {x} /\ S \ {x} \in SUBSET TdIds
    BY <1>2
  <2>3. x \in S \ {x}
    BY <2>1, <2>2 DEF TdBelow
  <2>4. QED
    BY <2>3
<1>3. q \in TdIds
  BY <1>2 DEF TdBelow, TdKids, TdIds
<1>4. QED
  BY <1>2, <1>3 DEF TdBelow

\* A todo is deleted with all below it; the call that deleted it goes on.
LEMMA TdDeleteKeeps ==
    ASSUME TdInv, NEW id \in TdIds, TdDelete(id)
    PROVE TdInv'
<1>1. /\ \A i \in TdIds : tdTodo'[i] = IF i \in TdBelow(id) THEN None ELSE tdTodo[i]
      /\ tdTodo' \in [TdIds -> TdTodos \cup {None}]
      /\ tdByHand' = tdByHand \cup {tdTodo[id].parent}
      /\ UNCHANGED <<tdNext, tdCall>>
  BY DEF TdDelete, TdInv, TdTypeOK
<1>2. TdTypeOK'
  BY <1>1, TdTypesStay DEF TdInv, TdTypeOK
<1>3. ASSUME NEW p \in TdIds \ tdByHand', TdIsDue(p)' PROVE TdIsDue(p)
  <2>1. TdThere(p)' /\ p \notin TdBelow(id)
    BY <1>1, <1>3 DEF TdIsDue, TdThere
  <2>2. \A x \in TdKids(p) : x \notin TdBelow(id)
    BY <1>1, <1>3, <2>1, TdBelowClosed DEF TdKids
  <2>3. \A x \in TdKids(p)' : x \notin TdBelow(id)
    BY <1>1 DEF TdKids, TdThere
  <2>4. QED
    BY <1>1, <1>3, <2>1, <2>2, <2>3, TdDueAlike
<1>4. \A p \in TdIds \ tdByHand' : TdIsDue(p)' =>
          TdIsDue(p) /\ \A d \in TdCallers : TdComes(tdCall[d], p) => TdComes(tdCall[d], p)'
  BY <1>1, <1>3 DEF TdComes
<1>5. QED
  BY <1>1, <1>2, <1>4, TdChainsStay

\* A caller in a chain is moved to k; the todos are left alone.
LEMMA TdChainMoves ==
    ASSUME TdInv, NEW c \in TdCallers, NEW k, TdCallOK(k),
           tdCall' = [tdCall EXCEPT ![c] = k], UNCHANGED <<tdTodo, tdNext>>,
           tdByHand \subseteq tdByHand',
           \A p \in TdIds \ tdByHand' : TdIsDue(p) /\ TdComes(tdCall[c], p) => TdComes(k, p)
    PROVE TdInv'
<1>1. \A d \in TdCallers : tdCall'[d] = IF d = c THEN k ELSE tdCall[d]
  BY DEF TdInv, TdTypeOK
<1>2. TdCallOK(tdCall[c])'
  BY <1>1 DEF TdCallOK, TdGiven
<1>3. tdCall' = [d \in TdCallers |-> tdCall'[d]]
  BY DEF TdInv, TdTypeOK
<1>4. TdTypeOK'
  BY <1>1, <1>2, <1>3, TdTypesStay DEF TdInv, TdTypeOK
<1>5. ASSUME NEW p \in TdIds \ tdByHand', TdIsDue(p)'
      PROVE TdIsDue(p) /\ \A d \in TdCallers : TdComes(tdCall[d], p) => TdComes(tdCall[d], p)'
  <2>1. TdIsDue(p)
    BY <1>5 DEF TdIsDue, TdThere, TdKids, TdCompleted
  <2>2. \A d \in TdCallers : TdComes(tdCall[d], p) => TdComes(tdCall'[d], p)
    BY <1>1, <2>1
  <2>3. QED
    BY <2>1, <2>2 DEF TdComes
<1>6. QED
  BY <1>4, <1>5, TdChainsStay

\* The newest todo has been created; the first of some ids is one of them.
LEMMA TdLatestGiven ==
    ASSUME TdInv
    PROVE TdLatest \in TdGiven \cup {None} /\ TdLatest \in TdParents
<1> DEFINE there == {id \in TdIds : TdThere(id)}
<1>1. there \subseteq 1..TdMax /\ there \subseteq TdGiven
  BY TdConstants DEF TdIds, TdThere, TdInv, TdTypeOK, TdGiven
<1>2. CASE there = {}
  BY <1>2 DEF TdLatest, TdParents
<1>3. CASE there # {}
  <2>1. PICK m \in there : \A j \in there : j <= m
    BY <1>1, <1>3, TdConstants, GreatestOfBounded
  <2>2. TdLatest \in there
    BY <1>3, <2>1 DEF TdLatest
  <2>3. QED
    BY <1>1, <2>2 DEF TdParents
<1>4. QED
  BY <1>2, <1>3

\* The first of some ids is one of them.
LEMMA TdFirstIn ==
    ASSUME NEW ids, ids \subseteq TdGiven, ids # {}
    PROVE TdFirst(ids) \in ids
<1>1. ids \subseteq Nat
  BY DEF TdGiven
<1>2. PICK m \in ids : \A j \in ids : m <= j
  BY <1>1, LeastOfNaturals
<1>3. QED
  BY <1>2 DEF TdFirst

\* The records the calls become.
LEMMA TdChainCall ==
    ASSUME TdInv, NEW k, TdCallOK(k), NEW id \in TdGiven
    PROVE TdCallOK(TdChain(k, id)) /\ TdChain(k, id).at = "get" /\ TdChain(k, id).on = id
BY DEF TdChain, TdCallOK, TdFields, TdChaining

\* An idle call is none of the calls in a chain.
LEMMA TdIdleCall == TdCallOK(TdIdle) /\ TdIdle.at = "idle"
BY DEF TdIdle, TdCallOK, TdFields, TdChaining

\* A call that goes from outside a chain to k, as the lemmas on statements take it.
LEMMA TdGoesOn ==
    ASSUME TdInv, NEW c \in TdCallers, NEW k, TdGoes(c, k), TdCallOK(k)',
           tdCall[c].at \notin TdChaining
    PROVE /\ tdCall' = [d \in TdCallers |-> tdCall'[d]]
          /\ \A d \in TdCallers :
                tdCall'[d] = tdCall[d] \/ (tdCall[d].at \notin TdChaining /\ TdCallOK(tdCall[d])')
<1>1. \A d \in TdCallers : tdCall'[d] = IF d = c THEN k ELSE tdCall[d]
  BY DEF TdInv, TdTypeOK, TdGoes
<1>2. TdCallOK(tdCall[c])'
  BY <1>1 DEF TdCallOK, TdGiven
<1>3. QED
  BY <1>1, <1>2 DEF TdInv, TdTypeOK, TdGoes

\* The steps of a chain.
LEMMA TdChainKeeps ==
    ASSUME TdInv, NEW c \in TdCallers, TdChainGet(c) \/ TdChainList(c) \/ TdDies(c)
    PROVE TdInv'
<1> DEFINE k == tdCall[c]
<1>1. TdCallOK(k)
  BY DEF TdInv, TdTypeOK
<1> DEFINE ends == IF k.batch = None THEN TdIdle
                   ELSE [k EXCEPT !.at = "join", !.on = None, !.parent = None]
<1>2. TdCallOK(ends)
  <2> DEFINE joins == [k EXCEPT !.at = "join", !.on = None, !.parent = None]
  <2>1. /\ joins.at = "join" /\ joins.on = None /\ joins.parent = None
        /\ joins.own = k.own /\ joins.batch = k.batch /\ joins.left = k.left
        /\ joins = [x \in TdFields |-> joins[x]]
    BY <1>1 DEF TdCallOK, TdFields
  <2> HIDE DEF joins
  <2>2. k.batch # None => TdCallOK(joins)
    BY <1>1, <2>1 DEF TdCallOK, TdChaining
  <2>3. QED
    BY <2>2, TdIdleCall DEF joins
<1>3. k.on \in TdIds \/ k.on = None
  BY <1>1, TdConstants DEF TdCallOK, TdGiven, TdIds, TdInv, TdTypeOK
<1>4. \A p : ~TdIsDue(None) /\ (p \in TdIds => p # None)
  BY TdConstants DEF TdIsDue, TdThere, TdIds
<1>5. CASE TdChainGet(c)
  <2>1. k.at = "get" /\ UNCHANGED <<tdTodo, tdNext, tdByHand>>
    BY <1>5 DEF TdChainGet
  <2>2. CASE TdThere(k.on)
    <3> DEFINE new == [k EXCEPT !.at = "set", !.parent = tdTodo[k.on].parent]
    <3>1. tdCall' = [tdCall EXCEPT ![c] = new]
      BY <1>5, <2>2 DEF TdChainGet, TdGoes
    <3>2. k.on \in TdIds /\ k.on < tdNext /\ tdTodo[k.on] \in TdTodos
      BY <1>3, <2>2 DEF TdThere, TdInv, TdTypeOK
    <3>3. tdTodo[k.on].parent \in TdGiven \cup {None}
      BY <2>2, <3>2, TdConstants DEF TdThere, TdInv, TdTypeOK, TdGiven, TdTodos, TdParents, TdIds
    <3>4. /\ new.at = "set" /\ new.on = k.on /\ new.parent = tdTodo[k.on].parent
          /\ new.own = k.own /\ new.batch = k.batch /\ new.left = k.left
          /\ new = [x \in TdFields |-> new[x]]
      BY <1>1 DEF TdCallOK, TdFields
    <3> HIDE DEF new
    <3>5. TdCallOK(new)
      BY <1>1, <2>1, <3>3, <3>4 DEF TdCallOK, TdChaining
    <3>6. \A p \in TdIds : TdComes(k, p) => TdComes(new, p)
      BY <2>1, <3>4 DEF TdComes
    <3>7. QED
      BY <2>1, <3>1, <3>5, <3>6, TdChainMoves
  <2>3. CASE ~TdThere(k.on)
    <3>1. tdCall' = [tdCall EXCEPT ![c] = ends]
      BY <1>5, <2>3 DEF TdChainGet, TdGoes, TdChainEnds
    <3>2. \A p \in TdIds : ~(TdIsDue(p) /\ TdComes(k, p))
      BY <2>1, <2>3 DEF TdComes, TdIsDue
    <3>3. QED
      BY <1>2, <2>1, <3>1, <3>2, TdChainMoves
  <2>4. QED
    BY <2>2, <2>3
<1>6. CASE TdChainList(c)
  <2>1. k.at = "list" /\ UNCHANGED <<tdTodo, tdNext, tdByHand>>
    BY <1>6 DEF TdChainList
  <2>2. CASE k.parent # None /\ TdAllDone(k.parent)
    <3> DEFINE new == TdChain(k, k.parent)
    <3>1. tdCall' = [tdCall EXCEPT ![c] = new]
      BY <1>6, <2>2 DEF TdChainList, TdGoes
    <3>2. k.parent \in TdGiven
      BY <1>1, <2>2 DEF TdCallOK
    <3>3. TdCallOK(new) /\ new.at = "get" /\ new.on = k.parent
      BY <1>1, <3>2, TdChainCall
    <3> HIDE DEF new
    <3>4. \A p \in TdIds : TdComes(k, p) => TdComes(new, p)
      BY <2>1, <3>3 DEF TdComes
    <3>5. QED
      BY <2>1, <3>1, <3>3, <3>4, TdChainMoves
  <2>3. CASE ~(k.parent # None /\ TdAllDone(k.parent))
    <3>1. tdCall' = [tdCall EXCEPT ![c] = ends]
      BY <1>6, <2>3 DEF TdChainList, TdGoes, TdChainEnds
    <3>2. \A p \in TdIds : ~(TdIsDue(p) /\ TdComes(k, p))
      BY <1>4, <2>1, <2>3 DEF TdComes, TdIsDue, TdAllDone
    <3>3. QED
      BY <1>2, <2>1, <3>1, <3>2, TdChainMoves
  <2>4. QED
    BY <2>2, <2>3
<1>7. CASE TdDies(c)
  <2>1. /\ tdCall' = [tdCall EXCEPT ![c] = TdIdle] /\ UNCHANGED <<tdTodo, tdNext>>
        /\ tdByHand' = tdByHand \cup {k.on, k.parent}
    BY <1>7 DEF TdDies, TdGoes
  <2>2. \A p \in TdIds \ tdByHand' : ~TdComes(k, p)
    BY <2>1 DEF TdComes
  <2>3. QED
    BY <2>1, <2>2, TdIdleCall, TdChainMoves
<1>8. QED
  BY <1>5, <1>6, <1>7

\* The statement that completes a todo: if its parent is due now, this chain comes to it.
LEMMA TdSetKeeps ==
    ASSUME TdInv, NEW c \in TdCallers, TdChainSet(c)
    PROVE TdInv'
<1> DEFINE k == tdCall[c]
           new == [k EXCEPT !.at = "list"]
<1>1. TdCallOK(k) /\ k.at = "set" /\ tdCall' = [tdCall EXCEPT ![c] = new]
      /\ UNCHANGED <<tdNext, tdByHand>>
  BY DEF TdInv, TdTypeOK, TdChainSet, TdGoes
<1>2. /\ new.at = "list" /\ new.on = k.on /\ new.parent = k.parent
      /\ new.own = k.own /\ new.batch = k.batch /\ new.left = k.left
      /\ new = [x \in TdFields |-> new[x]]
  BY <1>1 DEF TdCallOK, TdFields
<1> HIDE DEF new
<1>3. PICK o : o = k.on
  OBVIOUS
<1>4. o \in TdIds /\ o # None /\ o \in TdGiven
  BY <1>1, <1>3, TdConstants DEF TdCallOK, TdChaining, TdGiven, TdIds, TdInv, TdTypeOK
<1>5. TdCallOK(new)
  BY <1>1, <1>2 DEF TdCallOK, TdChaining
<1>6. \A d \in TdCallers : tdCall'[d] = IF d = c THEN new ELSE tdCall[d]
  BY <1>1 DEF TdInv, TdTypeOK
<1>7. tdCall' = [d \in TdCallers |-> tdCall'[d]]
  BY <1>1 DEF TdInv, TdTypeOK
<1>8. CASE ~TdThere(o)
  <2>1. tdTodo' = tdTodo
    BY <1>3, <1>8 DEF TdChainSet
  <2>2. \A p \in TdIds \ tdByHand : ~(TdIsDue(p) /\ TdComes(k, p))
    BY <1>1, <1>3, <1>8 DEF TdComes, TdIsDue
  <2>3. QED
    BY <1>1, <1>5, <2>1, <2>2, TdChainMoves
<1>9. CASE TdThere(o)
  <2>1. tdTodo[o] \in TdTodos
    BY <1>4, <1>9 DEF TdThere, TdInv, TdTypeOK
  <2> DEFINE done == [tdTodo[o] EXCEPT !.status = "completed"]
  <2>2. done \in TdTodos /\ done.parent = tdTodo[o].parent /\ done.status = "completed"
    BY <2>1 DEF TdTodos, TdStatuses
  <2>3. tdTodo' = [tdTodo EXCEPT ![o] = done]
    BY <1>3, <1>9 DEF TdChainSet
  <2>4. done # None
    BY <2>2, TdConstants DEF TdTodos, TdStatuses
  <2> HIDE DEF done
  <2>5. \A i \in TdIds : tdTodo'[i] = IF i = o THEN done ELSE tdTodo[i]
    BY <1>4, <2>3 DEF TdInv, TdTypeOK
  <2>6. tdTodo' \in [TdIds -> TdTodos \cup {None}]
    BY <2>2, <2>3 DEF TdInv, TdTypeOK
  <2>7. k.parent = done.parent
    BY <1>1, <1>3, <1>9, <2>2 DEF TdCallOK, TdThere
  <2>8. TdCallOK(tdCall[c])'
    <3>1. tdCall'[c] = new /\ tdTodo'[o] = done /\ TdGiven' = TdGiven
      BY <1>1, <1>4, <1>6, <2>5 DEF TdGiven
    <3>2. QED
      BY <1>2, <1>3, <1>5, <2>7, <3>1 DEF TdCallOK
  <2>9. TdTypeOK'
    <3>1. \A i \in TdIds : tdTodo'[i] # None => tdTodo[i] # None /\ tdTodo'[i].parent = tdTodo[i].parent
      BY <1>9, <2>2, <2>5 DEF TdThere
    <3>2. QED
      BY <1>1, <1>6, <1>7, <2>6, <2>8, <3>1, TdTypesStay
  <2>10. ASSUME NEW p \in TdIds \ tdByHand', TdIsDue(p)'
        PROVE \/ TdIsDue(p) /\ \A d \in TdCallers : TdComes(tdCall[d], p) => TdComes(tdCall[d], p)'
              \/ \E d \in TdCallers : TdComes(tdCall[d], p)'
    <3>1. p # o
      BY <1>4, <2>2, <2>5, <2>10 DEF TdIsDue, TdCompleted
    <3>2. CASE p = k.parent
      <4>1. TdComes(new, p)
        BY <1>2, <3>2 DEF TdComes
      <4>2. TdComes(tdCall[c], p)'
        BY <1>6, <4>1 DEF TdComes
      <4>3. QED
        BY <4>2
    <3>3. CASE p # k.parent
      <4>1. o \notin TdKids(p) /\ o \notin TdKids(p)'
        BY <1>4, <2>2, <2>5, <2>7, <3>3 DEF TdKids
      <4>2. TdIsDue(p)
        BY <2>5, <2>10, <3>1, <4>1, TdDueAlike
      <4>3. ~TdComes(k, p)
        BY <1>1, <1>3, <3>1 DEF TdComes
      <4>4. \A d \in TdCallers : TdComes(tdCall[d], p) => TdComes(tdCall'[d], p)
        BY <1>6, <4>3
      <4>5. QED
        BY <4>2, <4>4 DEF TdComes
    <3>4. QED
      BY <3>2, <3>3
  <2>11. QED
    BY <1>1, <2>9, <2>10, TdChainsStay
<1>10. QED
  BY <1>8, <1>9

\* The steps that begin a chain, or go on with a batch.
LEMMA TdBeginsKeeps ==
    ASSUME TdInv, NEW c \in TdCallers,
           \/ \E id \in TdIds : TdComplete(c, id)
           \/ TdBatchRuns(c) \/ TdJoinSucceeds(c) \/ TdSubAgentRefused(c)
           \/ TdBatchEnds(c) /\ ~tdCall[c].failed
    PROVE TdInv'
<1> DEFINE k == tdCall[c]
<1>1. TdCallOK(k)
  BY DEF TdInv, TdTypeOK
<1>2. \A id \in TdIds : TdThere(id) => id \in TdGiven
  BY TdConstants DEF TdThere, TdGiven, TdIds, TdInv, TdTypeOK
<1>3. ASSUME NEW id \in TdIds, TdComplete(c, id) PROVE TdInv'
  <2>1. TdCallOK(TdChain(TdIdle, id))
    BY <1>2, <1>3, TdIdleCall, TdChainCall DEF TdComplete
  <2>2. QED
    BY <1>3, <2>1, TdMoves DEF TdComplete, TdGoes, TdChaining
<1>4. CASE TdBatchRuns(c)
  <2> DEFINE new == [k EXCEPT !.at = "join"]
  <2>1. /\ new.at = "join" /\ new.on = k.on /\ new.parent = k.parent
        /\ new.own = k.own /\ new.batch = k.batch /\ new.left = k.left
        /\ new = [x \in TdFields |-> new[x]]
    BY <1>1 DEF TdCallOK, TdFields
  <2> HIDE DEF new
  <2>2. TdCallOK(new)
    BY <1>1, <1>4, <2>1 DEF TdCallOK, TdChaining, TdBatchRuns
  <2>3. QED
    BY <1>4, <2>2, TdMoves DEF TdBatchRuns, TdGoes, TdChaining, new
<1>5. CASE TdJoinSucceeds(c)
  <2> DEFINE first == TdFirst(k.left)
             rest == [k EXCEPT !.left = @ \ {TdFirst(@)}]
  <2>1. first \in TdGiven
    BY <1>1, <1>5, TdFirstIn DEF TdCallOK, TdJoinSucceeds
  <2>2. TdCallOK(rest)
    BY <1>1 DEF TdCallOK, TdFields
  <2>3. TdCallOK(TdChain(rest, first))
    BY <2>1, <2>2, TdChainCall
  <2>4. tdCall' = [tdCall EXCEPT ![c] = TdChain(rest, first)]
    BY <1>5 DEF TdJoinSucceeds, TdGoes
  <2>5. QED
    BY <1>5, <2>3, <2>4, TdMoves DEF TdJoinSucceeds, TdChaining
<1>6. CASE TdSubAgentRefused(c)
  BY <1>6, TdIdleCall, TdMoves DEF TdSubAgentRefused, TdGoes, TdChaining
<1>7. CASE TdBatchEnds(c) /\ ~tdCall[c].failed
  \* A batch has filed a todo of its own.
  <2>1. k.batch \in TdGiven
    BY <1>1, <1>7 DEF TdCallOK, TdBatchEnds
  <2>2. TdCallOK(TdChain(TdIdle, k.batch))
    BY <2>1, TdIdleCall, TdChainCall
  <2>3. QED
    BY <1>7, <2>2, TdMoves DEF TdBatchEnds, TdGoes, TdChaining
<1>8. QED
  BY <1>3, <1>4, <1>5, <1>6, <1>7

\* The steps that create or update a todo and move a call of sub_agent.
LEMMA TdFilesKeeps ==
    ASSUME TdInv, NEW c \in TdCallers, TdSubAgent(c) \/ TdBatch(c) \/ TdBatchFiles(c)
    PROVE TdInv'
<1> DEFINE k == tdCall[c]
<1>1. TdCallOK(k) /\ k.at \notin TdChaining
  BY DEF TdInv, TdTypeOK, TdSubAgent, TdBatch, TdBatchFiles, TdChaining
<1>2. tdNext \in TdGiven' /\ TdGiven \subseteq TdGiven'
  BY DEF TdGiven, TdSubAgent, TdBatch, TdBatchFiles, TdCreates, TdInv, TdTypeOK
<1>3. CASE TdSubAgent(c)
  <2> PICK new : new = [TdIdle EXCEPT !.at = "runs", !.own = tdNext]
    OBVIOUS
  <2>1. TdCallOK(new)'
    BY <1>2 DEF TdCallOK, TdIdle, TdFields, TdChaining
  <2>2. QED
    BY <1>1, <1>3, <2>1, TdGoesOn, TdLatestGiven, TdCreatesKeeps DEF TdSubAgent
<1>4. CASE TdBatch(c)
  <2> PICK new : new = [k EXCEPT !.at = "files", !.batch = tdNext]
    OBVIOUS
  <2>1. TdCallOK(new)'
    BY <1>1, <1>2 DEF TdCallOK, TdFields, TdChaining
  <2>2. QED
    BY <1>1, <1>4, <2>1, TdGoesOn, TdLatestGiven, TdCreatesKeeps DEF TdBatch
<1>5. CASE TdBatchFiles(c)
  <2> PICK new : new = [k EXCEPT !.left = @ \cup {tdNext}]
    OBVIOUS
  <2>1. TdCallOK(new)'
    BY <1>1, <1>2 DEF TdCallOK, TdFields, TdChaining
  <2>2. k.batch \in TdParents
    BY <1>1, TdConstants DEF TdCallOK, TdGiven, TdParents, TdInv, TdTypeOK
  <2>3. QED
    BY <1>1, <1>5, <2>1, <2>2, TdGoesOn, TdCreatesKeeps DEF TdBatchFiles
<1>6. QED
  BY <1>3, <1>4, <1>5

\* The steps of a report that change no todo.
LEMMA TdReportsKeeps ==
    ASSUME TdInv, NEW c \in TdCallers,
           \/ TdJoinFails(c)
           \/ TdBatchEnds(c) /\ tdCall[c].failed
           \/ \E s \in TdStatuses : TdSubAgentEnds(c, s)
    PROVE TdInv'
<1> DEFINE k == tdCall[c]
<1>1. TdCallOK(k) /\ k.at \notin TdChaining
  BY DEF TdInv, TdTypeOK, TdJoinFails, TdBatchEnds, TdSubAgentEnds, TdChaining
<1>2. TdGiven \subseteq TdIds
  BY TdConstants DEF TdGiven, TdIds, TdInv, TdTypeOK
<1>3. CASE TdJoinFails(c)
  <2> PICK new : new = [k EXCEPT !.left = @ \ {TdFirst(@)}, !.failed = TRUE]
    OBVIOUS
  <2>1. TdFirst(k.left) \in TdIds
    BY <1>1, <1>2, <1>3, TdFirstIn DEF TdCallOK, TdJoinFails
  <2>2. tdNext' = tdNext
    BY <1>3 DEF TdJoinFails, TdUpdates
  <2>3. TdCallOK(new)'
    BY <1>1, <2>2 DEF TdCallOK, TdFields, TdChaining, TdGiven
  <2>4. QED
    BY <1>1, <1>3, <2>1, <2>3, TdGoesOn, TdUpdatesKeeps DEF TdJoinFails, TdStatuses
<1>4. TdCallOK(TdIdle)'
  BY DEF TdIdle, TdCallOK, TdFields, TdChaining
<1>5. CASE TdBatchEnds(c) /\ tdCall[c].failed
  <2>1. k.batch \in TdIds \cup {None}
    BY <1>1, <1>2 DEF TdCallOK
  <2>2. QED
    BY <1>1, <1>4, <1>5, <2>1, TdGoesOn, TdUpdatesKeeps DEF TdBatchEnds, TdStatuses
<1>6. ASSUME NEW s \in TdStatuses, TdSubAgentEnds(c, s) PROVE TdInv'
  <2>1. k.own \in TdIds \cup {None}
    BY <1>1, <1>2 DEF TdCallOK
  <2>2. QED
    BY <1>1, <1>4, <1>6, <2>1, TdGoesOn, TdUpdatesKeeps DEF TdSubAgentEnds
<1>7. QED
  BY <1>3, <1>5, <1>6

\* However the chains that complete the children of a todo, deletes, updates by hand and
\* calls of sub_agent interleave, no todo is left open under completed children without
\* a chain on its way to it or one of the causes noted in tdByHand.
THEOREM TdChainsReachTheorem == TdSpec => []TdChainsReach
<1>1. TdInit => TdInv
  BY TdInitially
<1>2. TdInv /\ [TdNext]_tdVars => TdInv'
  <2> SUFFICES ASSUME TdInv, [TdNext]_tdVars PROVE TdInv'
    OBVIOUS
  <2>1. CASE TdList \/ UNCHANGED tdVars
    BY <2>1 DEF TdList, tdVars, TdInv, TdTypeOK, TdCallOK, TdGiven, TdChainsCome, TdIsDue,
                TdComes, TdThere, TdKids, TdCompleted
  <2>2. ASSUME NEW parent \in TdIds \cup {None}, TdCreate(parent) PROVE TdInv'
    BY <2>2, TdCreatesKeeps DEF TdCreate, TdParents, TdIds, TdInv, TdTypeOK
  <2>3. ASSUME NEW id \in TdIds, TdDelete(id) PROVE TdInv'
    BY <2>3, TdDeleteKeeps
  <2>4. ASSUME NEW id \in TdIds, NEW s \in TdStatuses, TdUpdate(id, s) PROVE TdInv'
    BY <2>4, TdUpdatesKeeps DEF TdUpdate, TdInv, TdTypeOK
  <2>5. ASSUME NEW c \in TdCallers,
               \/ TdChainGet(c) \/ TdChainSet(c) \/ TdChainList(c)
               \/ TdSubAgent(c) \/ TdSubAgentRefused(c) \/ TdBatch(c) \/ TdBatchFiles(c)
               \/ TdBatchRuns(c) \/ TdJoinSucceeds(c) \/ TdJoinFails(c) \/ TdBatchEnds(c)
               \/ TdDies(c)
               \/ \E id \in TdIds : TdComplete(c, id)
               \/ \E s \in TdStatuses : TdSubAgentEnds(c, s)
        PROVE TdInv'
    <3>1. CASE TdBatchEnds(c)
      BY <3>1, TdBeginsKeeps, TdReportsKeeps
    <3>2. CASE TdChainSet(c) \/ TdChainGet(c) \/ TdChainList(c) \/ TdDies(c)
      BY <3>2, TdChainKeeps, TdSetKeeps
    <3>3. CASE \/ \E id \in TdIds : TdComplete(c, id)
               \/ TdBatchRuns(c) \/ TdJoinSucceeds(c) \/ TdSubAgentRefused(c)
      BY <3>3, TdBeginsKeeps
    <3>4. CASE TdSubAgent(c) \/ TdBatch(c) \/ TdBatchFiles(c)
      BY <3>4, TdFilesKeeps
    <3>5. CASE TdJoinFails(c)
      BY <3>5, TdReportsKeeps
    <3>6. CASE \E s \in TdStatuses : TdSubAgentEnds(c, s)
      BY <3>6, TdReportsKeeps
    <3>7. QED
      BY <2>5, <3>1, <3>2, <3>3, <3>4, <3>5, <3>6
  <2>6. QED
    BY <2>1, <2>2, <2>3, <2>4, <2>5 DEF TdNext, TdStatuses
<1>3. TdInv => TdChainsReach
  <2> SUFFICES ASSUME TdInv, \A c \in TdCallers : tdCall[c].at \notin {"get", "set", "list"},
                      NEW p \in TdIds \ tdByHand, TdThere(p), TdKids(p) # {},
                      \A id \in TdKids(p) : TdCompleted(id), ~TdCompleted(p)
               PROVE FALSE
    BY DEF TdChainsReach
  <2>1. TdIsDue(p)
    BY DEF TdIsDue
  <2>2. QED
    BY <2>1 DEF TdInv, TdChainsCome, TdComes
<1>4. QED
  BY <1>1, <1>2, <1>3, PTL DEF TdSpec
=============================================================================
