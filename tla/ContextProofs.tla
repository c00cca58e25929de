--------------------------- MODULE ContextProofs ---------------------------
(***************************************************************************)
(* Proofs about what a turn reads: the index of the code, what is learned, *)
(* the window of a session and the cache of its summaries, and the rules.  *)
(***************************************************************************)
EXTENDS CodeIndex, Learning, ContextWindow, RuleGlobs, SequenceTheorems, FiniteSetTheorems,
        WellFoundedInduction, TLAPS

(* The index of the code *)
\* What is stored of a file in a table is what is on the disk.
IxTold(t, f) == ixStored[t][f] = ixDisk[f]

\* The tables a builder has stored the file in hand in, before it is at a table.
IxBefore(at) ==
    CASE at = "files" -> {}
      [] at = "symbols" -> {"files"}
      [] at = "edges" -> {"files", "symbols"}
      [] at = "vectors" -> {"files", "symbols", "edges"}
      [] OTHER -> {}

IxBuildOK(k) ==
    /\ k = [x \in {"at", "left", "file", "read"} |-> k[x]]
    /\ k.at \in {"idle", "walk"} \cup IxTables
    /\ k.left \subseteq IxFiles
    /\ k.at \in IxTables => k.file \in IxFiles \ k.left
    /\ k.at \in {"idle", "walk"} => k.file = None

IxTypeOK ==
    /\ ixDisk = [f \in IxFiles |-> ixDisk[f]]
    /\ ixStored = [t \in IxTables |-> ixStored[t]]
    /\ \A t \in IxTables : ixStored[t] = [f \in IxFiles |-> ixStored[t][f]]
    /\ ixBuild = [b \in IxBuilders |-> ixBuild[b]]
    /\ \A b \in IxBuilders : IxBuildOK(ixBuild[b])
    /\ ixDirty = [b \in IxBuilders |-> ixDirty[b]]
    /\ ixBuilt # None => ixBuilt \subseteq IxFiles

\* What a builder has done with the files nobody else has touched since it started:
\* those it has left behind are told of in every table, the one in hand in those it
\* has been through, and what it read of it is still on the disk.
IxBehind(b, f) ==
    f \notin ixBuild[b].left /\ f # ixBuild[b].file /\ ixDisk[f] # None =>
        \A t \in IxTables : IxTold(t, f)
IxInHand(b, f) ==
    f = ixBuild[b].file =>
        /\ ixBuild[b].read = ixDisk[f]
        /\ \A t \in IxBefore(ixBuild[b].at) : IxTold(t, f)
IxClean(b) == IF ixBuild[b].at = "idle" THEN {} ELSE IxFiles \ ixDirty[b]
IxBuildersTell ==
    \A b \in IxBuilders : \A f \in IxClean(b) : IxBehind(b, f) /\ IxInHand(b, f)

IxInv == IxTypeOK /\ IxBuildersTell /\ IxFresh

\* At first nothing is indexed and no builder works.
LEMMA IxInitially == IxInit => IxInv
<1> SUFFICES ASSUME IxInit PROVE IxInv
  OBVIOUS
<1>1. IxBuildOK(IxIdle) /\ IxIdle.at = "idle"
  BY DEF IxIdle, IxBuildOK, IxTables
<1>2. IxTypeOK
  BY <1>1 DEF IxInit, IxTypeOK
<1>3. QED
  BY <1>1, <1>2 DEF IxInit, IxInv, IxBuildersTell, IxClean, IxFresh

\* A builder that is moved and stores nothing: the others and the tables are as before.
LEMMA IxBuilderMoves ==
    ASSUME IxInv, NEW b \in IxBuilders, NEW k, IxBuildOK(k),
           ixBuild' = [ixBuild EXCEPT ![b] = k],
           ixDirty' = [c \in IxBuilders |-> ixDirty'[c]],
           \A c \in IxBuilders \ {b} : ixDirty'[c] = ixDirty[c],
           UNCHANGED <<ixDisk, ixStored>>,
           \A f \in IxClean(b)' : (IxBehind(b, f) /\ IxInHand(b, f))',
           ixBuilt' # None => ixBuilt' \subseteq IxFiles,
           IxFresh'
    PROVE IxInv'
<1>1. \A c \in IxBuilders : ixBuild'[c] = IF c = b THEN k ELSE ixBuild[c]
  BY DEF IxInv, IxTypeOK
<1>2. IxTypeOK'
  BY <1>1 DEF IxInv, IxTypeOK
<1>3. ASSUME NEW c \in IxBuilders \ {b}, NEW f \in IxClean(c)' PROVE (IxBehind(c, f) /\ IxInHand(c, f))'
  <2>1. ixBuild'[c] = ixBuild[c] /\ f \in IxClean(c)
    BY <1>1, <1>3 DEF IxClean
  <2>2. IxBehind(c, f) /\ IxInHand(c, f)
    BY <2>1 DEF IxInv, IxBuildersTell
  <2>3. QED
    BY <2>1, <2>2 DEF IxBehind, IxInHand, IxTold
<1>4. QED
  BY <1>2, <1>3 DEF IxInv, IxBuildersTell

\* Every step of a builder, of the files and of the impact report keeps it.
LEMMA IxStepKeeps == IxInv /\ [IxIndexNext \/ IxImpactNext]_ixVars => IxInv'
<1> SUFFICES ASSUME IxInv, [IxIndexNext \/ IxImpactNext]_ixVars PROVE IxInv'
  OBVIOUS
<1> DEFINE index == <<ixDisk, ixStored, ixBuild, ixDirty, ixBuilt>>
<1>1. CASE UNCHANGED index
  BY <1>1, ZenonT(60) DEF IxInv, IxTypeOK, IxBuildersTell, IxClean, IxBehind, IxInHand, IxTold, IxFresh
<1>2. IxBuildOK(IxIdle) /\ IxIdle.at = "idle"
  BY DEF IxIdle, IxBuildOK, IxTables
<1>3. ASSUME NEW f \in IxFiles, IxEdited(f) PROVE IxInv'
  <2>1. /\ \A g \in IxFiles \ {f} : ixDisk'[g] = ixDisk[g]
        /\ ixDisk' = [g \in IxFiles |-> ixDisk'[g]]
        /\ UNCHANGED <<ixStored, ixBuild>>
    BY <1>3 DEF IxEdited, IxInv, IxTypeOK
  <2>2. /\ \A c \in IxBuilders : ixBuild[c].at # "idle" => ixDirty'[c] = ixDirty[c] \cup {f}
        /\ ixDirty' = [c \in IxBuilders |-> ixDirty'[c]]
        /\ ixBuilt' = IF ixBuilt = None THEN None ELSE ixBuilt \ {f}
    BY <1>3, IxConstants DEF IxEdited, IxSoils
  <2>3. IxTypeOK'
    BY <2>1, <2>2 DEF IxInv, IxTypeOK
  <2>4. ASSUME NEW c \in IxBuilders, NEW g \in IxClean(c)' PROVE (IxBehind(c, g) /\ IxInHand(c, g))'
    <3>1. g \in IxClean(c) /\ g # f
      BY <2>1, <2>2, <2>4 DEF IxClean
    <3>2. IxBehind(c, g) /\ IxInHand(c, g)
      BY <3>1 DEF IxInv, IxBuildersTell
    <3>3. g \in IxFiles
      BY <3>1 DEF IxClean
    <3>4. QED
      BY <2>1, <3>1, <3>2, <3>3 DEF IxBehind, IxInHand, IxTold
  <2>5. IxFresh'
    BY <2>1, <2>2 DEF IxInv, IxFresh, IxTypeOK
  <2>6. QED
    BY <2>3, <2>4, <2>5 DEF IxInv, IxBuildersTell
<1>4. ASSUME NEW b \in IxBuilders, IxBuildIndex(b) PROVE IxInv'
  <2> DEFINE k == [IxIdle EXCEPT !.at = "walk", !.left = IxFiles]
  <2>1. IxBuildOK(k) /\ k.left = IxFiles /\ k.file = None
    BY DEF IxBuildOK, IxIdle, IxTables
  <2>2. ixBuild' = [ixBuild EXCEPT ![b] = k]
    BY <1>4 DEF IxBuildIndex, IxGoes
  <2> HIDE DEF k
  <2>3. \A f \in IxClean(b)' : (IxBehind(b, f) /\ IxInHand(b, f))'
    BY <2>1, <2>2, IxConstants DEF IxClean, IxBehind, IxInHand, IxInv, IxTypeOK
  <2>4. QED
    BY <1>4, <2>1, <2>2, <2>3, IxBuilderMoves DEF IxBuildIndex, IxInv, IxTypeOK, IxFresh
<1>5. ASSUME NEW b \in IxBuilders, NEW f \in IxFiles, IxRebuildFile(b, f) PROVE IxInv'
  <2> DEFINE k == [at |-> "files", left |-> {}, file |-> f, read |-> ixDisk[f]]
  <2>1. IxBuildOK(k)
    BY DEF IxBuildOK, IxTables
  <2>2. ixBuild' = [ixBuild EXCEPT ![b] = k] /\ ixDirty' = [ixDirty EXCEPT ![b] = IxFiles]
    BY <1>5 DEF IxRebuildFile, IxGoes
  <2> HIDE DEF k
  <2>3. IxClean(b)' = {}
    BY <2>2 DEF IxClean, IxInv, IxTypeOK
  <2>4. QED
    BY <1>5, <2>1, <2>2, <2>3, IxBuilderMoves DEF IxRebuildFile, IxInv, IxTypeOK, IxFresh
<1>6. ASSUME NEW b \in IxBuilders, NEW f \in IxFiles, IxReads(b, f) PROVE IxInv'
  <2> DEFINE k == [at |-> IF ixDisk[f] = None THEN "walk" ELSE "files",
                   left |-> ixBuild[b].left \ {f}, read |-> ixDisk[f],
                   file |-> IF ixDisk[f] = None THEN None ELSE f]
  <2>1. ixBuild[b].at = "walk" /\ ixBuild[b].file = None /\ f \in ixBuild[b].left
        /\ ixBuild[b].left \subseteq IxFiles
    BY <1>6 DEF IxReads, IxInv, IxTypeOK, IxBuildOK
  <2>2. /\ k.at = IF ixDisk[f] = None THEN "walk" ELSE "files"
        /\ k.left = ixBuild[b].left \ {f} /\ k.read = ixDisk[f]
        /\ k.file = IF ixDisk[f] = None THEN None ELSE f
        /\ k = [x \in {"at", "left", "file", "read"} |-> k[x]]
    OBVIOUS
  <2>3. ixBuild' = [ixBuild EXCEPT ![b] = k]
    BY <1>6 DEF IxReads, IxGoes
  <2> HIDE DEF k
  <2>4. IxBuildOK(k)
    BY <2>1, <2>2 DEF IxBuildOK, IxTables
  <2>5. UNCHANGED <<ixDisk, ixStored, ixDirty, ixBuilt>>
    BY <1>6 DEF IxReads
  <2>6. ASSUME NEW g \in IxClean(b)' PROVE (IxBehind(b, g) /\ IxInHand(b, g))'
    <3>1. ixBuild'[b] = k
      BY <2>3 DEF IxInv, IxTypeOK
    <3>2. g \in IxClean(b) /\ g \in IxFiles
      BY <2>1, <2>5, <2>6 DEF IxClean
    <3>3. IxBehind(b, g)
      BY <3>2 DEF IxInv, IxBuildersTell
    <3>4. IxBehind(b, g)'
      BY <2>1, <2>2, <2>5, <3>1, <3>2, <3>3, IxConstants DEF IxBehind, IxTold
    <3>5. IxInHand(b, g)'
      BY <2>2, <2>5, <3>1, <3>2, IxConstants DEF IxInHand, IxBefore
    <3>6. QED
      BY <3>4, <3>5
  <2>7. QED
    BY <2>3, <2>4, <2>5, <2>6, IxBuilderMoves DEF IxInv, IxTypeOK, IxFresh
<1>7. ASSUME NEW b \in IxBuilders, NEW t \in IxTables, IxStores(b, t) PROVE IxInv'
  <2>0. PICK f : f = ixBuild[b].file
    OBVIOUS
  <2> DEFINE k == IF IxAfter[t] = "walk"
                  THEN [ixBuild[b] EXCEPT !.at = "walk", !.file = None, !.read = None]
                  ELSE [ixBuild[b] EXCEPT !.at = IxAfter[t]]
  <2>1. ixBuild[b].at = t /\ f \in IxFiles \ ixBuild[b].left /\ IxBuildOK(ixBuild[b])
    BY <1>7, <2>0 DEF IxStores, IxInv, IxTypeOK, IxBuildOK
  <2>2. \/ /\ t = "vectors" /\ IxAfter[t] = "walk" /\ k.at = "walk" /\ k.file = None
           /\ k.left = ixBuild[b].left /\ k = [x \in {"at", "left", "file", "read"} |-> k[x]]
        \/ /\ t # "vectors" /\ IxAfter[t] \in IxTables /\ IxBefore(IxAfter[t]) = IxBefore(t) \cup {t}
           /\ k.at = IxAfter[t] /\ k.file = f /\ k.read = ixBuild[b].read
           /\ k.left = ixBuild[b].left /\ k = [x \in {"at", "left", "file", "read"} |-> k[x]]
    <3>1. CASE t = "vectors"
      <4>1. IxAfter[t] = "walk"
        BY <3>1 DEF IxAfter
      <4>2. k = [ixBuild[b] EXCEPT !.at = "walk", !.file = None, !.read = None]
        BY <4>1
      <4>3. QED
        BY <2>1, <3>1, <4>1, <4>2 DEF IxBuildOK
    <3>2. CASE t # "vectors"
      <4>1. IxAfter[t] \in IxTables /\ IxAfter[t] # "walk" /\ IxBefore(IxAfter[t]) = IxBefore(t) \cup {t}
        BY <3>2 DEF IxAfter, IxTables, IxBefore
      <4>2. k = [ixBuild[b] EXCEPT !.at = IxAfter[t]]
        BY <4>1
      <4>3. QED
        BY <2>0, <2>1, <3>2, <4>1, <4>2 DEF IxBuildOK
    <3>3. QED
      BY <3>1, <3>2
  <2>3. ixBuild' = [ixBuild EXCEPT ![b] = k] /\ UNCHANGED ixDisk
    BY <1>7 DEF IxStores, IxGoes
  <2>4. /\ ixStored' = [ixStored EXCEPT ![t][f] = ixBuild[b].read]
        /\ IxSoils(f, b)
    BY <1>7, <2>0 DEF IxStores, IxReplaced
  <2> HIDE DEF k
  <2>5. \A u \in IxTables, g \in IxFiles :
            ixStored'[u][g] = IF u = t /\ g = f THEN ixBuild[b].read ELSE ixStored[u][g]
    BY <2>4 DEF IxInv, IxTypeOK
  <2>6. /\ ixStored' = [u \in IxTables |-> ixStored'[u]]
        /\ \A u \in IxTables : ixStored'[u] = [g \in IxFiles |-> ixStored'[u][g]]
    BY <2>4 DEF IxInv, IxTypeOK
  <2>7. /\ ixDirty' = [c \in IxBuilders |-> ixDirty'[c]] /\ ixDirty'[b] = ixDirty[b]
        /\ \A c \in IxBuilders \ {b} : ixBuild[c].at # "idle" => ixDirty'[c] = ixDirty[c] \cup {f}
        /\ ixBuilt' = IF ixBuilt = None THEN None ELSE ixBuilt \ {f}
    BY <2>4 DEF IxSoils
  <2>8. IxBuildOK(k)
    BY <2>1, <2>2 DEF IxBuildOK, IxTables
  <2>9. \A c \in IxBuilders : ixBuild'[c] = IF c = b THEN k ELSE ixBuild[c]
    BY <2>3 DEF IxInv, IxTypeOK
  <2>10. IxTypeOK'
    BY <2>3, <2>6, <2>7, <2>8, <2>9 DEF IxInv, IxTypeOK
  <2>11. ASSUME NEW g \in IxClean(b)' PROVE (IxBehind(b, g) /\ IxInHand(b, g))'
    <3>1. g \in IxClean(b) /\ g \in IxFiles
      BY <2>1, <2>7, <2>11 DEF IxClean, IxTables
    <3>2. IxBehind(b, g) /\ IxInHand(b, g)
      BY <3>1 DEF IxInv, IxBuildersTell
    <3>3. CASE g # f
      BY <2>0, <2>1, <2>2, <2>3, <2>5, <2>9, <3>1, <3>2, <3>3, IxConstants DEF IxBehind, IxInHand, IxTold
    <3>4. CASE g = f
      <4>1. ixBuild[b].read = ixDisk[f] /\ \A u \in IxBefore(t) \cup {t} : (IxTold(u, f))'
        BY <2>0, <2>1, <2>3, <2>5, <3>2, <3>4 DEF IxInHand, IxTold, IxBefore, IxTables
      <4>2. CASE t = "vectors"
        <5>1. \A u \in IxTables : (IxTold(u, f))'
          BY <4>1, <4>2 DEF IxBefore, IxTables
        <5>2. QED
          BY <2>2, <2>9, <3>4, <3>1, <4>2, <5>1, IxConstants DEF IxBehind, IxInHand
      <4>3. CASE t # "vectors"
        BY <2>2, <2>3, <2>9, <3>4, <4>1, <4>3 DEF IxBehind, IxInHand
      <4>4. QED
        BY <4>2, <4>3
    <3>5. QED
      BY <3>3, <3>4
  <2>12. ASSUME NEW c \in IxBuilders \ {b}, NEW g \in IxClean(c)'
         PROVE (IxBehind(c, g) /\ IxInHand(c, g))'
    <3>1. g \in IxClean(c) /\ g # f /\ g \in IxFiles
      BY <2>7, <2>9, <2>12 DEF IxClean
    <3>2. IxBehind(c, g) /\ IxInHand(c, g)
      BY <3>1 DEF IxInv, IxBuildersTell
    <3>3. IxBefore(ixBuild[c].at) \subseteq IxTables
      BY DEF IxBefore, IxTables
    <3>4. QED
      BY <2>3, <2>5, <2>9, <3>1, <3>2, <3>3 DEF IxBehind, IxInHand, IxTold
  <2>13. IxFresh'
    <3> SUFFICES ASSUME ixBuilt' # None, NEW g \in ixBuilt', ixDisk'[g] # None, NEW u \in IxTables
                 PROVE ixStored'[u][g] = ixDisk'[g]
      BY DEF IxFresh
    <3>1. ixBuilt # None /\ g \in ixBuilt /\ g # f
      BY <2>7
    <3>2. g \in IxFiles /\ ixStored[u][g] = ixDisk[g]
      BY <2>3, <3>1 DEF IxInv, IxFresh, IxTypeOK
    <3>3. QED
      BY <2>3, <2>5, <3>1, <3>2
  <2>14. QED
    BY <2>10, <2>11, <2>12, <2>13 DEF IxInv, IxBuildersTell
<1>8. ASSUME NEW b \in IxBuilders, IxBuiltAll(b) PROVE IxInv'
  <2>1. ixBuild[b].at = "walk" /\ ixBuild[b].left = {} /\ ixBuild[b].file = None
    BY <1>8 DEF IxBuiltAll, IxInv, IxTypeOK, IxBuildOK
  <2>2. \A f \in IxFiles \ ixDirty[b] : ixDisk[f] # None => \A t \in IxTables : IxTold(t, f)
    BY <2>1, IxConstants DEF IxInv, IxBuildersTell, IxClean, IxBehind
  <2>3. ixBuilt' = (IxFiles \ ixDirty[b]) \cup IF ixBuilt = None THEN {} ELSE ixBuilt
    BY <1>8 DEF IxBuiltAll
  <2>4. IxFresh' /\ (ixBuilt' # None => ixBuilt' \subseteq IxFiles)
    BY <1>8, <2>2, <2>3 DEF IxBuiltAll, IxFresh, IxTold, IxInv, IxTypeOK
  <2>5. ixBuild' = [ixBuild EXCEPT ![b] = IxIdle]
    BY <1>8 DEF IxBuiltAll, IxGoes
  <2>6. IxClean(b)' = {}
    BY <1>2, <2>5 DEF IxClean, IxInv, IxTypeOK
  <2>7. QED
    BY <1>2, <1>8, <2>4, <2>5, <2>6, IxBuilderMoves DEF IxBuiltAll, IxInv, IxTypeOK
<1>9. ASSUME NEW b \in IxBuilders, IxFails(b) PROVE IxInv'
  <2>1. ixBuild' = [ixBuild EXCEPT ![b] = IxIdle]
    BY <1>9 DEF IxFails, IxGoes
  <2>2. IxClean(b)' = {}
    BY <1>2, <2>1 DEF IxClean, IxInv, IxTypeOK
  <2>3. QED
    BY <1>2, <1>9, <2>1, <2>2, IxBuilderMoves DEF IxFails, IxInv, IxTypeOK, IxFresh
<1>10. QED
  BY <1>1, <1>3, <1>4, <1>5, <1>6, <1>7, <1>8, <1>9
     DEF IxIndexNext, IxImpactNext, IxRetrieves, IxVisits, IxReported, IxAnalyses, ixVars

\* Once a build has been through, the four tables tell of every file what is on the disk,
\* unless somebody edited it or stored something of it since that build started
\* (build_index in indexing/), for any number of builders and files.
THEOREM IxFreshTheorem == IxSpec => []IxFresh
<1>1. IxInv => IxFresh
  BY DEF IxInv
<1>2. QED
  BY <1>1, IxInitially, IxStepKeeps, PTL DEF IxSpec

(* The analysis of impact *)
\* A set of numbers has a least one.
LEMMA IxLeast ==
    ASSUME NEW S, S \subseteq Nat, S # {}
    PROVE \E n \in S : \A m \in S : n <= m
<1>1. PICK n \in S : \A m \in S : ~(<<m, n>> \in OpToRel(<, Nat))
  BY NatLessThanWellFounded, WFMin
<1>2. \A m \in S : ~(m < n)
  BY <1>1 DEF OpToRel
<1>3. QED
  BY <1>2

\* What holds of 0, and of each number after one it holds of, holds of every number.
LEMMA ByCounting ==
    ASSUME NEW S, 0 \in S, \A n \in Nat : n \in S => n + 1 \in S
    PROVE Nat \subseteq S
<1> DEFINE Rest == Nat \ S
<1> SUFFICES ASSUME Rest # {} PROVE FALSE
  OBVIOUS
<1>1. PICK n \in Rest : \A m \in Rest : n <= m
  BY IxLeast
<1>2. n # 0 /\ n - 1 \in Nat /\ n - 1 \notin Rest
  BY <1>1
<1> QED
  BY <1>2

\* g begins with first and goes on as Next1 says.
Recurs(g, N, X, first, Next1) ==
    g \in [0..N -> X] /\ g[0] = first /\ \A n \in 1..N : g[n] = Next1[<<n, g[n - 1]>>]

\* A recursion over an interval has a solution.
LEMMA Recursion ==
    ASSUME NEW N \in Nat, NEW X, NEW first \in X, NEW Next1,
           \A n \in 1..N, x \in X : Next1[<<n, x>>] \in X
    PROVE \E g : Recurs(g, N, X, first, Next1)
<1> DEFINE Solves(g, k) == g[0] = first /\ \A n \in 1..k : g[n] = Next1[<<n, g[n - 1]>>]
           S == {k \in Nat : k <= N => \E g \in [0..k -> X] : Solves(g, k)}
<1>1. 0 \in S
  <2>1. [n \in 0..0 |-> first] \in [0..0 -> X] /\ Solves([n \in 0..0 |-> first], 0)
    OBVIOUS
  <2> QED
    BY <2>1
<1>2. ASSUME NEW k \in Nat, k \in S PROVE k + 1 \in S
  <2> SUFFICES ASSUME k + 1 <= N PROVE \E g \in [0..k + 1 -> X] : Solves(g, k + 1)
    OBVIOUS
  <2>1. PICK g \in [0..k -> X] : Solves(g, k)
    BY <1>2
  <2>2. k + 1 \in 1..N /\ g[k] \in X /\ Next1[<<k + 1, g[k]>>] \in X
    OBVIOUS
  <2> DEFINE h == [n \in 0..k + 1 |-> IF n = k + 1 THEN Next1[<<k + 1, g[k]>>] ELSE g[n]]
  <2>3. h \in [0..k + 1 -> X]
    BY <2>2
  <2>4. h[0] = first
    BY <2>1
  <2>5. ASSUME NEW n \in 1..k + 1 PROVE h[n] = Next1[<<n, h[n - 1]>>]
    <3>1. CASE n = k + 1
      <4>1. n - 1 = k /\ n - 1 \in 0..k + 1 /\ n \in 0..k + 1 /\ k # k + 1
        BY <3>1
      <4>2. h[n] = Next1[<<k + 1, g[k]>>] /\ h[n - 1] = g[k]
        BY <3>1, <4>1
      <4> QED
        BY <3>1, <4>2
    <3>2. CASE n # k + 1
      <4>1. n \in 1..k /\ n \in 0..k + 1 /\ n - 1 \in 0..k + 1 /\ n - 1 # k + 1
        BY <3>2
      <4>2. h[n] = g[n] /\ h[n - 1] = g[n - 1]
        BY <3>2, <4>1
      <4> QED
        BY <2>1, <4>1, <4>2
    <3> QED
      BY <3>1, <3>2
  <2> QED
    BY <2>3, <2>4, <2>5
<1>3. N \in S
  <2> HIDE DEF S
  <2> QED
    BY <1>1, <1>2, ByCounting
<1> QED
  BY <1>3 DEF Recurs

\* However the members of a finite set are listed, each of them is.
LEMMA ListsAll ==
    ASSUME NEW S, IsFiniteSet(S), NEW list \in SetToSeqs(S)
    PROVE /\ Cardinality(S) \in Nat /\ list \in [1..Cardinality(S) -> S]
          /\ \A c \in S : \E i \in 1..Cardinality(S) : list[i] = c
<1>1. Cardinality(S) \in Nat
  BY FS_CardinalityType
<1> PICK n \in Nat : n = Cardinality(S)
  BY <1>1
<1>2. list \in [1..n -> S] /\ \A i, j \in 1..n : i # j => list[i] # list[j]
  BY DEF SetToSeqs
<1>3. ASSUME NEW c \in S, \A i \in 1..n : list[i] # c PROVE FALSE
  <2>1. list \in [1..n -> S \ {c}]
    BY <1>2, <1>3
  <2>2. IsFiniteSet(S \ {c}) /\ Cardinality(S \ {c}) = n - 1
    BY FS_RemoveElement
  <2>3. IsFiniteSet(1..n) /\ Cardinality(1..n) = n
    BY FS_Interval
  <2>4. Cardinality(S \ {c}) < Cardinality(1..n)
    BY <2>2, <2>3
  <2>5. \E i, j \in 1..n : i # j /\ list[i] = list[j]
    BY <2>1, <2>2, <2>3, <2>4, FS_PigeonHole
  <2> QED
    BY <1>2, <2>5
<1> QED
  BY <1>2, <1>3

\* However the callers are listed, each of them is.
LEMMA IxListsAll ==
    ASSUME NEW S, S \subseteq IxSymbols, NEW callers \in SetToSeqs(S)
    PROVE callers \in Seq(S) /\ \A c \in S : \E i \in 1..Len(callers) : callers[i] = c
<1>1. IsFiniteSet(S)
  <2>1. 1 \in Int /\ IxCount \in Int
    BY IxConstants
  <2>2. IsFiniteSet(IxSymbols)
    BY <2>1, FS_Interval DEF IxSymbols
  <2>3. QED
    BY <2>2, FS_Subset
<1> PICK n : n = Cardinality(S)
  OBVIOUS
<1>2. n \in Nat /\ callers \in [1..n -> S] /\ \A c \in S : \E i \in 1..n : callers[i] = c
  BY <1>1, ListsAll
<1>3. QED
  BY <1>2

\* The symbol asked for reaches itself; a caller is one call further; and the start of
\* a way is a way.
LEMMA IxReachesStart ==
    ASSUME NEW calls
    PROVE IxReaches(calls, 0, 1) /\ 1 \in IxSymbols
<1>1. 1 \in IxSymbols
  BY IxConstants DEF IxSymbols
<1> DEFINE way == [i \in 0..0 |-> 1]
<1>2. way \in [0..0 -> IxSymbols] /\ way[0] = 1 /\ \A i \in 1..0 : <<way[i], way[i - 1]>> \in calls
  BY <1>1
<1>3. QED
  BY <1>1, <1>2 DEF IxReaches

LEMMA IxReachesOn ==
    ASSUME NEW calls, NEW n \in Nat, NEW v, IxReaches(calls, n, v),
           NEW c \in IxSymbols, <<c, v>> \in calls
    PROVE IxReaches(calls, n + 1, c)
<1>1. PICK way \in [0..n -> IxSymbols] :
          way[0] = 1 /\ way[n] = v /\ \A i \in 1..n : <<way[i], way[i - 1]>> \in calls
  BY DEF IxReaches
<1> DEFINE on == [i \in 0..n + 1 |-> IF i = n + 1 THEN c ELSE way[i]]
<1>2. on \in [0..n + 1 -> IxSymbols]
  <2>1. \A i \in 0..n + 1 : i # n + 1 => i \in 0..n
    OBVIOUS
  <2>2. QED
    BY <1>1, <2>1
<1>3. \A i \in 0..n : on[i] = way[i]
  OBVIOUS
<1>4. on[n + 1] = c
  OBVIOUS
<1> HIDE DEF on
<1>5. ASSUME NEW i \in 1..n + 1 PROVE <<on[i], on[i - 1]>> \in calls
  <2>1. CASE i = n + 1
    <3>1. n \in 0..n /\ i - 1 = n
      BY <2>1
    <3>2. on[i] = c /\ on[i - 1] = v
      BY <1>1, <1>3, <1>4, <2>1, <3>1
    <3>3. QED
      BY <3>2
  <2>2. CASE i # n + 1
    <3>1. i \in 1..n /\ i \in 0..n /\ i - 1 \in 0..n
      BY <2>2
    <3>2. on[i] = way[i] /\ on[i - 1] = way[i - 1]
      BY <1>3, <3>1
    <3>3. QED
      BY <1>1, <3>1, <3>2
  <2>3. QED
    BY <2>1, <2>2
<1>6. on[0] = 1
  BY <1>1, <1>3
<1>7. QED
  BY <1>2, <1>4, <1>5, <1>6 DEF IxReaches

LEMMA IxReachesPart ==
    ASSUME NEW calls, NEW n \in Nat, NEW way \in [0..n -> IxSymbols], way[0] = 1,
           \A i \in 1..n : <<way[i], way[i - 1]>> \in calls, NEW k \in 0..n
    PROVE IxReaches(calls, k, way[k])
<1> DEFINE part == [i \in 0..k |-> way[i]]
<1>1. \A i \in 0..k : i \in 0..n
  OBVIOUS
<1>2. part \in [0..k -> IxSymbols]
  BY <1>1
<1>3. \A i \in 0..k : part[i] = way[i]
  OBVIOUS
<1> HIDE DEF part
<1>4. ASSUME NEW i \in 1..k PROVE <<part[i], part[i - 1]>> \in calls
  <2>1. i \in 0..k /\ i - 1 \in 0..k /\ i \in 1..n
    OBVIOUS
  <2>2. QED
    BY <1>3, <2>1
<1>5. part[0] = 1 /\ part[k] = way[k]
  BY <1>3
<1>6. QED
  BY <1>2, <1>4, <1>5 DEF IxReaches

\* The analysis: what is in the queue and what is visited is reached, the queue is in
\* the order of its depths, which differ by one at most, and the callers of what is
\* visited are visited or in the queue, no deeper than one call further.
IxDue(r, c, n) == \E i \in 1..Len(r.queue) : r.queue[i][1] = c /\ r.queue[i][2] <= n
IxAnalysis(r) ==
    /\ r = [f \in {"calls", "depth", "visited", "queue"} |-> r[f]]
    /\ r.depth \in Nat /\ r.visited \subseteq IxSymbols /\ r.queue \in Seq(IxSymbols \X Nat)
IxSound(r) ==
    /\ \A i \in 1..Len(r.queue) :
          r.queue[i][2] <= r.depth /\ IxReaches(r.calls, r.queue[i][2], r.queue[i][1])
    /\ \A v \in r.visited : \E n \in 0..r.depth : IxReaches(r.calls, n, v)
IxInOrder(r) ==
    \A i, j \in 1..Len(r.queue) : i < j =>
        r.queue[i][2] <= r.queue[j][2] /\ r.queue[j][2] <= r.queue[i][2] + 1
IxComplete(r) ==
    /\ 1 \in r.visited \/ IxDue(r, 1, 0)
    /\ \A v \in r.visited : \A n \in 0..r.depth : n < r.depth /\ IxReaches(r.calls, n, v) =>
           \A c \in IxSymbols : <<c, v>> \in r.calls => c \in r.visited \/ IxDue(r, c, n + 1)
IxImpactOK(r) == IxAnalysis(r) /\ IxSound(r) /\ IxInOrder(r) /\ IxComplete(r)

\* What is reached by fewer calls than any entry of the queue tells is visited.
LEMMA IxNearVisited ==
    ASSUME NEW r, IxImpactOK(r), NEW n \in 0..r.depth,
           \A i \in 1..Len(r.queue) : r.queue[i][2] > n,
           NEW c, IxReaches(r.calls, n, c)
    PROVE c \in r.visited
<1>1. n \in Nat /\ r.depth \in Nat /\ n <= r.depth
  BY DEF IxImpactOK, IxAnalysis
<1>2. PICK way \in [0..n -> IxSymbols] :
          way[0] = 1 /\ way[n] = c /\ \A i \in 1..n : <<way[i], way[i - 1]>> \in r.calls
  BY DEF IxReaches
<1> SUFFICES ASSUME c \notin r.visited PROVE FALSE
  OBVIOUS
<1> DEFINE missing == {i \in 0..n : way[i] \notin r.visited}
<1>3. missing \subseteq Nat /\ n \in missing
  BY <1>1, <1>2
<1>4. PICK k \in missing : \A m \in missing : k <= m
  BY <1>3, IxLeast
<1>5. k \in 0..n /\ way[k] \notin r.visited
  OBVIOUS
<1>6. \A m \in 0..n : m < k => way[m] \in r.visited
  BY <1>4
<1> HIDE DEF missing
<1>7. \A d \in 0..n : ~IxDue(r, way[k], d)
  <2>1. \A i \in 1..Len(r.queue) : r.queue[i] \in IxSymbols \X Nat
    BY DEF IxImpactOK, IxAnalysis
  <2>2. QED
    BY <1>1, <2>1 DEF IxDue
<1>8. CASE k = 0
  <2>1. IxDue(r, 1, 0)
    BY <1>2, <1>5, <1>8 DEF IxImpactOK, IxComplete
  <2>2. QED
    BY <1>1, <1>2, <1>7, <1>8, <2>1
<1>9. CASE k # 0
  <2>1. k - 1 \in 0..n /\ k \in 1..n /\ k - 1 < k /\ k - 1 \in 0..r.depth /\ k - 1 < r.depth /\ k - 1 + 1 = k
    BY <1>1, <1>5, <1>9
  <2>2. way[k - 1] \in r.visited /\ <<way[k], way[k - 1]>> \in r.calls /\ way[k] \in IxSymbols
    BY <1>2, <1>5, <1>6, <2>1
  <2>3. IxReaches(r.calls, k - 1, way[k - 1])
    BY <1>1, <1>2, <2>1, IxReachesPart
  <2>4. IxDue(r, way[k], k - 1 + 1)
    BY <1>5, <2>1, <2>2, <2>3 DEF IxImpactOK, IxComplete
  <2>5. QED
    BY <1>5, <1>7, <2>1, <2>4
<1>10. QED
  BY <1>8, <1>9

\* An analysis that has begun, and one that is done.
LEMMA IxBegins ==
    ASSUME NEW calls, NEW depth \in Nat
    PROVE IxImpactOK([calls |-> calls, depth |-> depth, visited |-> {}, queue |-> <<<<1, 0>>>>])
<1> DEFINE r == [calls |-> calls, depth |-> depth, visited |-> {}, queue |-> <<<<1, 0>>>>]
<1>1. /\ r = [f \in {"calls", "depth", "visited", "queue"} |-> r[f]]
      /\ r.calls = calls /\ r.depth = depth /\ r.visited = {}
  OBVIOUS
<1>2. 1 \in IxSymbols /\ IxReaches(calls, 0, 1)
  BY IxReachesStart
<1>3. /\ r.queue \in Seq(IxSymbols \X Nat) /\ Len(r.queue) = 1
      /\ r.queue[1][1] = 1 /\ r.queue[1][2] = 0
  BY <1>2
<1> HIDE DEF r
<1>4. \A i \in 1..Len(r.queue) : i = 1
  BY <1>3
<1>5. 1 \in 1..Len(r.queue)
  BY <1>3
<1>6. IxAnalysis(r)
  BY <1>1, <1>3 DEF IxAnalysis
<1>7. IxSound(r)
  BY <1>1, <1>2, <1>3, <1>4 DEF IxSound
<1>8. IxInOrder(r)
  BY <1>4 DEF IxInOrder
<1>9. IxComplete(r)
  BY <1>1, <1>3, <1>5 DEF IxComplete, IxDue
<1>10. QED
  BY <1>6, <1>7, <1>8, <1>9 DEF IxImpactOK, r

LEMMA IxEnds ==
    ASSUME NEW r, IxImpactOK(r), r.queue = <<>>
    PROVE r.visited = {c \in IxSymbols : \E n \in 0..r.depth : IxReaches(r.calls, n, c)}
<1>1. \A v \in r.visited : v \in IxSymbols /\ \E n \in 0..r.depth : IxReaches(r.calls, n, v)
  BY DEF IxImpactOK, IxAnalysis, IxSound
<1>2. \A i \in 1..Len(r.queue) : FALSE
  OBVIOUS
<1>3. \A n \in 0..r.depth : \A c \in IxSymbols : IxReaches(r.calls, n, c) => c \in r.visited
  BY <1>2, IxNearVisited
<1>4. QED
  BY <1>1, <1>3

\* A queue after a removal at the front and additions at the end: what its entries are,
\* and where the old and the new ones are.
IxMoved(q, more, next, last, size) ==
    /\ \A i \in 1..last + size :
          \/ i <= last /\ i + 1 \in 1..Len(q) /\ next[i] = q[i + 1]
          \/ i > last /\ \E k \in 1..size : next[i] = more[k]
    /\ \A i \in 1..Len(q) : i # 1 => \E j \in 1..last + size : next[j] = q[i]
    /\ \A k \in 1..size : \E j \in 1..last + size : next[j] = more[k]

LEMMA IxQueueMoves ==
    ASSUME NEW E, NEW q \in Seq(E), q # <<>>, NEW more \in Seq(E), NEW last \in Nat, Len(q) = last + 1,
           NEW size \in Nat, Len(more) = size
    PROVE /\ Tail(q) \o more \in Seq(E) /\ Len(Tail(q) \o more) = last + size
          /\ IxMoved(q, more, Tail(q) \o more, last, size)
<1> PICK t : t = Tail(q)
  OBVIOUS
<1>1. t \in Seq(E) /\ Len(t) = last /\ \A i \in 1..last : t[i] = q[i + 1]
  <2>1. t \in Seq(E) /\ Len(t) = Len(q) - 1 /\ \A i \in 1..Len(t) : t[i] = q[i + 1]
    BY HeadTailProperties
  <2>2. QED
    BY <2>1
<1> PICK next : next = t \o more
  OBVIOUS
<1>2. /\ next \in Seq(E) /\ Len(next) = last + size
      /\ \A i \in 1..last + size : next[i] = IF i <= last THEN t[i] ELSE more[i - last]
  <2>1. /\ t \o more \in Seq(E) /\ Len(t \o more) = Len(t) + Len(more)
        /\ \A i \in 1..Len(t) + Len(more) : (t \o more)[i] = IF i <= Len(t) THEN t[i] ELSE more[i - Len(t)]
    BY <1>1, ConcatProperties
  <2>2. QED
    BY <1>1, <2>1
<1>3. ASSUME NEW i \in 1..last + size
      PROVE \/ i <= last /\ i + 1 \in 1..Len(q) /\ next[i] = q[i + 1]
            \/ i > last /\ \E k \in 1..size : next[i] = more[k]
  <2>1. CASE i <= last
    <3>1. i \in 1..last /\ i + 1 \in 1..last + 1
      BY <2>1
    <3>2. next[i] = t[i]
      BY <1>2, <2>1
    <3>3. QED
      BY <1>1, <2>1, <3>1, <3>2
  <2>2. CASE i > last
    <3>1. PICK k \in 1..size : k = i - last
      <4>1. i - last \in 1..size
        BY <2>2
      <4>2. QED
        BY <4>1
    <3>2. ~(i <= last)
      BY <2>2
    <3>3. next[i] = more[k]
      BY <1>2, <3>1, <3>2
    <3>4. QED
      BY <2>2, <3>3
  <2>3. QED
    BY <2>1, <2>2
<1>4. ASSUME NEW i \in 1..Len(q), i # 1 PROVE \E j \in 1..last + size : next[j] = q[i]
  <2>1. PICK j \in 1..last : j + 1 = i
    <3>1. i - 1 \in 1..last /\ i - 1 + 1 = i
      BY <1>4
    <3>2. QED
      BY <3>1
  <2>2. j \in 1..last + size /\ j <= last
    OBVIOUS
  <2>3. next[j] = t[j] /\ t[j] = q[i]
    BY <1>1, <1>2, <2>1, <2>2
  <2>4. QED
    BY <2>2, <2>3
<1>5. ASSUME NEW k \in 1..size PROVE \E j \in 1..last + size : next[j] = more[k]
  <2>1. PICK j \in 1..last + size : j = last + k /\ ~(j <= last) /\ j - last = k
    <3>1. last + k \in 1..last + size /\ ~(last + k <= last) /\ last + k - last = k
      OBVIOUS
    <3>2. QED
      BY <3>1
  <2>2. next[j] = more[k]
    BY <1>2, <2>1
  <2>3. QED
    BY <2>2
<1>6. QED
  BY <1>2, <1>3, <1>4, <1>5 DEF IxMoved

\* A symbol is visited: what is in the queue no deeper than it has been visited or goes
\* on waiting, and its callers go last.
IxAsked(r, current, depth) ==
    IF current \in r.visited \/ depth >= r.depth THEN {} ELSE IxCallers(r.calls, current)
IxEntries(callers, depth) == [i \in DOMAIN callers |-> <<callers[i], depth + 1>>]
IxVisited(r, current, more) ==
    [r EXCEPT !.visited = @ \cup {current}, !.queue = IxQueued(Tail(@), more)]

LEMMA IxVisitKeeps ==
    ASSUME NEW r, IxImpactOK(r), r.queue # <<>>, NEW current, NEW depth, Head(r.queue) = <<current, depth>>,
           NEW callers, callers \in SetToSeqs(IxAsked(r, current, depth))
    PROVE IxImpactOK(IxVisited(r, current, IxEntries(callers, depth)))
<1> PICK more : more = IxEntries(callers, depth)
  OBVIOUS
<1> PICK new : new = IxVisited(r, current, more)
  OBVIOUS
<1> SUFFICES IxImpactOK(new)
  OBVIOUS
<1> DEFINE open == ~(current \in r.visited \/ depth >= r.depth)
           q == r.queue
           next == new.queue
<1>1. /\ new.calls = r.calls /\ new.depth = r.depth /\ new.visited = r.visited \cup {current}
      /\ next = Tail(q) \o more
      /\ new = [f \in {"calls", "depth", "visited", "queue"} |-> new[f]]
  BY DEF IxImpactOK, IxAnalysis, IxQueued, IxVisited
<1>2. /\ q \in Seq(IxSymbols \X Nat) /\ r.depth \in Nat /\ r.visited \subseteq IxSymbols
      /\ \A i \in 1..Len(q) : q[i][2] <= r.depth /\ IxReaches(r.calls, q[i][2], q[i][1])
  BY DEF IxImpactOK, IxAnalysis, IxSound
<1> PICK last \in Nat : last = Len(q) - 1 /\ Len(q) = last + 1
  <2>1. Len(q) \in Nat /\ Len(q) # 0
    BY <1>2
  <2>2. Len(q) - 1 \in Nat /\ Len(q) = Len(q) - 1 + 1
    BY <2>1
  <2>3. QED
    BY <2>2
<1>3. /\ q[1] = <<current, depth>> /\ current \in IxSymbols /\ depth \in Nat
      /\ Tail(q) \in Seq(IxSymbols \X Nat) /\ Len(Tail(q)) = last
      /\ \A i \in 1..last : Tail(q)[i] = q[i + 1]
  <2>1. q[1] = Head(q) /\ q[1] \in IxSymbols \X Nat
    BY <1>2
  <2>2. QED
    BY <1>2, <2>1, HeadTailProperties
<1>4. depth <= r.depth /\ IxReaches(r.calls, depth, current)
  <2>1. 1 \in 1..Len(q)
    OBVIOUS
  <2>2. q[1][1] = current /\ q[1][2] = depth
    BY <1>3
  <2>3. QED
    BY <1>2, <2>1, <2>2
<1> PICK listed : listed = IF open THEN IxCallers(r.calls, current) ELSE {}
  OBVIOUS
<1>5. /\ callers \in Seq(listed) /\ \A c \in listed : \E i \in 1..Len(callers) : callers[i] = c
      /\ listed \subseteq IxSymbols
  <2>1. listed \subseteq IxSymbols
    BY DEF IxCallers
  <2>2. callers \in SetToSeqs(listed)
    BY Zenon DEF IxAsked
  <2>3. QED
    BY <2>1, <2>2, IxListsAll
<1> PICK size \in Nat : size = Len(callers)
  BY <1>5
<1>6. /\ more \in Seq(IxSymbols \X Nat) /\ Len(more) = size
      /\ \A i \in 1..size : callers[i] \in listed /\ more[i] = <<callers[i], depth + 1>>
  <2>1. DOMAIN callers = 1..size /\ \A i \in 1..size : callers[i] \in listed
    BY <1>5
  <2>2. more = [i \in 1..size |-> <<callers[i], depth + 1>>]
    BY <2>1 DEF IxEntries
  <2>3. \A i \in 1..size : <<callers[i], depth + 1>> \in IxSymbols \X Nat
    BY <1>3, <1>5, <2>1
  <2>4. QED
    BY <2>1, <2>2, <2>3
<1>7. /\ next \in Seq(IxSymbols \X Nat) /\ Len(next) = last + size
      /\ \A i \in 1..last + size :
            \/ i <= last /\ i + 1 \in 1..Len(q) /\ next[i] = q[i + 1]
            \/ i > last /\ \E k \in 1..size : next[i] = more[k]
      /\ \A i \in 1..Len(q) : i # 1 => \E j \in 1..last + size : next[j] = q[i]
      /\ \A k \in 1..size : \E j \in 1..last + size : next[j] = more[k]
  <2>1. PICK u : u = more
    OBVIOUS
  <2>2. PICK E : E = IxSymbols \X Nat
    OBVIOUS
  <2>3. PICK old : old = q
    OBVIOUS
  <2>4. u \in Seq(E) /\ Len(u) = size /\ old \in Seq(E) /\ old # <<>> /\ Len(old) = last + 1
    BY <1>2, <1>6, <2>1, <2>2, <2>3
  <2>5. /\ Tail(old) \o u \in Seq(E) /\ Len(Tail(old) \o u) = last + size
        /\ IxMoved(old, u, Tail(old) \o u, last, size)
    BY ONLY <2>4, last \in Nat, size \in Nat, IxQueueMoves
  <2>6. next = Tail(old) \o u
    BY <1>1, <2>1, <2>3
  <2> HIDE DEF q, next
  <2>7. next \in Seq(E) /\ Len(next) = last + size /\ IxMoved(old, u, next, last, size)
    BY ONLY <2>5, <2>6
  <2>8. next \in Seq(IxSymbols \X Nat) /\ Len(next) = last + size /\ IxMoved(q, more, next, last, size)
    BY <2>1, <2>2, <2>3, <2>7
  <2>9. QED
    BY <2>8 DEF IxMoved
<1> HIDE DEF q, next
\* What an entry of the new queue is, and where those of the old one and the callers are.
<1>8. ASSUME NEW i \in 1..last + size
      PROVE \/ i <= last /\ i + 1 \in 1..Len(q) /\ next[i] = q[i + 1]
            \/ i > last /\ next[i][1] \in listed /\ next[i][2] = depth + 1
  <2>1. CASE i <= last /\ i + 1 \in 1..Len(q) /\ next[i] = q[i + 1]
    BY <2>1
  <2>2. CASE i > last /\ \E k \in 1..size : next[i] = more[k]
    <3>1. PICK k \in 1..size : next[i] = more[k]
      BY <2>2
    <3>2. next[i] = <<callers[k], depth + 1>> /\ callers[k] \in listed
      BY <1>6, <3>1
    <3>3. QED
      BY <2>2, <3>2
  <2>3. QED
    BY <1>7, <2>1, <2>2
<1>9. \A i \in 1..Len(q) : i # 1 => \E j \in 1..last + size : next[j] = q[i]
  BY <1>7
<1>10. \A c \in listed : \E j \in 1..last + size : next[j] = <<c, depth + 1>>
  <2>1. ASSUME NEW c \in listed PROVE \E j \in 1..last + size : next[j] = <<c, depth + 1>>
    <3>1. PICK k \in 1..size : callers[k] = c
      BY <1>5
    <3>2. PICK j \in 1..last + size : next[j] = more[k]
      BY <1>7
    <3>3. QED
      BY <1>6, <3>1, <3>2
  <2>2. QED
    BY <2>1
<1>11. listed # {} => open /\ depth < r.depth /\ listed = IxCallers(r.calls, current)
  BY <1>2, <1>3
<1>12. IxAnalysis(new)
  BY <1>1, <1>2, <1>3, <1>7 DEF IxAnalysis, next
<1>13. IxSound(new)
  <2>1. ASSUME NEW i \in 1..last + size
        PROVE next[i][2] <= r.depth /\ IxReaches(r.calls, next[i][2], next[i][1])
    <3>1. CASE i + 1 \in 1..Len(q) /\ next[i] = q[i + 1]
      BY <1>2, <3>1 DEF q
    <3>2. CASE next[i][1] \in listed /\ next[i][2] = depth + 1
      <4>1. depth < r.depth /\ next[i][1] \in IxSymbols /\ <<next[i][1], current>> \in r.calls
        BY <1>11, <3>2 DEF IxCallers
      <4>2. IxReaches(r.calls, depth + 1, next[i][1])
        BY <1>3, <1>4, <4>1, IxReachesOn
      <4>3. QED
        BY <1>2, <1>3, <3>2, <4>1, <4>2
    <3>3. QED
      BY <1>8, <3>1, <3>2
  <2>2. \A v \in new.visited : \E n \in 0..r.depth : IxReaches(r.calls, n, v)
    <3>1. depth \in 0..r.depth
      BY <1>2, <1>3, <1>4
    <3>2. \A v \in r.visited : \E n \in 0..r.depth : IxReaches(r.calls, n, v)
      BY DEF IxImpactOK, IxSound
    <3>3. QED
      BY <1>1, <1>4, <3>1, <3>2
  <2>3. QED
    BY <1>1, <1>7, <2>1, <2>2 DEF IxSound, next
<1>14. \A i, j \in 1..Len(q) : /\ q[i][2] \in Nat
                               /\ i < j => q[i][2] <= q[j][2] /\ q[j][2] <= q[i][2] + 1
  <2>1. \A i, j \in 1..Len(q) : i < j => q[i][2] <= q[j][2] /\ q[j][2] <= q[i][2] + 1
    BY DEF IxImpactOK, IxInOrder, q
  <2>2. \A i \in 1..Len(q) : q[i] \in IxSymbols \X Nat
    BY <1>2 DEF q
  <2>3. QED
    BY <2>1, <2>2
<1>15. \A i \in 1..Len(q) : depth <= q[i][2] /\ q[i][2] <= depth + 1
  <2>1. q[1][2] = depth /\ 1 \in 1..Len(q)
    BY <1>3 DEF q
  <2>2. ASSUME NEW i \in 1..Len(q) PROVE depth <= q[i][2] /\ q[i][2] <= depth + 1
    <3>1. CASE i = 1
      BY <1>3, <2>1, <3>1
    <3>2. CASE i # 1
      <4>1. 1 < i
        BY <3>2
      <4>2. QED
        BY <1>14, <2>1, <4>1
    <3>3. QED
      BY <3>1, <3>2
  <2>3. QED
    BY <2>2
<1>16. IxInOrder(new)
  <2>1. ASSUME NEW i \in 1..last + size, NEW j \in 1..last + size, i < j
        PROVE next[i][2] <= next[j][2] /\ next[j][2] <= next[i][2] + 1
    <3>1. CASE j <= last
      <4>1. i + 1 \in 1..Len(q) /\ next[i] = q[i + 1] /\ j + 1 \in 1..Len(q) /\ next[j] = q[j + 1]
        BY <1>8, <2>1, <3>1
      <4>2. i + 1 < j + 1
        BY <2>1
      <4>3. QED
        BY <1>14, <4>1, <4>2
    <3>2. CASE j > last
      <4>1. next[j][2] = depth + 1
        BY <1>8, <3>2
      <4>2. CASE i <= last
        <5>1. i + 1 \in 1..Len(q) /\ next[i] = q[i + 1]
          BY <1>8, <4>2
        <5>2. next[i][2] \in Nat /\ depth <= next[i][2] /\ next[i][2] <= depth + 1
          BY <1>14, <1>15, <5>1
        <5>3. QED
          BY <1>3, <4>1, <5>2, SMTT(30)
      <4>3. CASE i > last
        <5>1. next[i][2] = depth + 1
          BY <1>8, <4>3
        <5>2. QED
          BY <1>3, <4>1, <5>1
      <4>4. QED
        BY <4>2, <4>3
    <3>3. QED
      BY <3>1, <3>2
  <2>2. QED
    BY <1>7, <2>1 DEF IxInOrder, next
\* What was due is due still, or was visited now.
<1>17. ASSUME NEW c, NEW n, IxDue(r, c, n) PROVE c \in new.visited \/ IxDue(new, c, n)
  <2>1. PICK i \in 1..Len(q) : q[i][1] = c /\ q[i][2] <= n
    BY <1>17 DEF IxDue, q
  <2>2. CASE i = 1
    BY <1>1, <1>3, <2>1, <2>2 DEF q
  <2>3. CASE i # 1
    <3>1. PICK j \in 1..last + size : next[j] = q[i]
      BY <1>9, <2>3
    <3>2. QED
      BY <1>7, <2>1, <3>1 DEF IxDue, next
  <2>4. QED
    BY <2>2, <2>3
<1>18. IxComplete(new)
  <2>1. 1 \in new.visited \/ IxDue(new, 1, 0)
    BY <1>1, <1>17 DEF IxImpactOK, IxComplete
  <2>2. ASSUME NEW v \in new.visited, NEW n \in 0..r.depth, n < r.depth, IxReaches(r.calls, n, v),
               NEW c \in IxSymbols, <<c, v>> \in r.calls
        PROVE c \in new.visited \/ IxDue(new, c, n + 1)
    <3>1. CASE v \in r.visited
      <4>1. c \in r.visited \/ IxDue(r, c, n + 1)
        BY <2>2, <3>1 DEF IxImpactOK, IxComplete
      <4>2. QED
        BY <1>1, <1>17, <4>1
    <3>2. CASE v \notin r.visited
      <4>1. v = current
        BY <1>1, <3>2
      <4>2. depth <= n
        <5> SUFFICES ASSUME n < depth PROVE FALSE
          BY <1>2, <1>3
        <5>1. \A i \in 1..Len(q) : q[i][2] > n
          BY <1>2, <1>3, <1>14, <1>15
        <5>2. QED
          BY <2>2, <3>2, <5>1, IxNearVisited DEF q
      <4>3. depth < r.depth
        BY <1>2, <1>3, <2>2, <4>2
      <4>4. open
        BY <1>2, <1>3, <3>2, <4>1, <4>3
      <4>5. c \in listed
        BY <2>2, <4>1, <4>4 DEF IxCallers
      <4>6. PICK j \in 1..last + size : next[j] = <<c, depth + 1>>
        BY <1>10, <4>5
      <4>7. next[j][1] = c /\ next[j][2] <= n + 1
        BY <1>2, <1>3, <4>2, <4>6
      <4>8. QED
        BY <1>7, <4>7 DEF IxDue, next
    <3>3. QED
      BY <3>1, <3>2
  <2>3. QED
    BY <1>1, <2>1, <2>2 DEF IxComplete
<1>19. QED
  BY <1>12, <1>13, <1>16, <1>18 DEF IxImpactOK

\* Every analysis there is keeps it; the builders do not touch the analysis.
IxImpactInv == ixImpact = None \/ IxImpactOK(ixImpact)

LEMMA IxImpactStep == IxImpactInv /\ [IxIndexNext \/ IxImpactNext]_ixVars => IxImpactInv'
<1> SUFFICES ASSUME IxImpactInv, [IxIndexNext \/ IxImpactNext]_ixVars PROVE IxImpactInv'
  OBVIOUS
<1>1. CASE UNCHANGED ixImpact
  BY <1>1 DEF IxImpactInv
<1>2. CASE IxVisits
  <2>1. ixImpact # None /\ ixImpact.queue # <<>> /\ IxImpactOK(ixImpact)
    BY <1>2 DEF IxVisits, IxImpactInv
  <2>2. PICK current, depth : current = Head(ixImpact.queue)[1] /\ depth = Head(ixImpact.queue)[2]
    OBVIOUS
  <2>3. Head(ixImpact.queue) = <<current, depth>>
    <3>1. ixImpact.queue \in Seq(IxSymbols \X Nat) /\ ixImpact.queue # <<>>
      BY <2>1 DEF IxImpactOK, IxAnalysis
    <3>2. Head(ixImpact.queue) \in IxSymbols \X Nat
      BY <3>1
    <3>3. QED
      BY <2>2, <3>2
  <2>4. PICK callers \in SetToSeqs(IxAsked(ixImpact, current, depth)) :
            ixImpact' = IxVisited(ixImpact, current, IxEntries(callers, depth))
    BY <1>2, <2>2, Zenon DEF IxVisits, IxAsked, IxVisited, IxEntries
  <2>5. IxImpactOK(ixImpact')
    BY <2>1, <2>3, <2>4, IxVisitKeeps
  <2>6. QED
    BY <2>5 DEF IxImpactInv
<1>3. CASE IxReported
  BY <1>3 DEF IxReported, IxImpactInv
<1>4. ASSUME NEW calls, NEW depth \in IxDepths, IxAnalyses(calls, depth) PROVE IxImpactInv'
  <2>1. depth \in Nat
    BY IxConstants
  <2>2. QED
    BY <1>4, <2>1, IxBegins DEF IxAnalyses, IxImpactInv
<1>5. CASE IxIndexNext
  <2>1. UNCHANGED ixImpact
    BY <1>5 DEF IxIndexNext, IxRetrieves, ixVars, IxEdited, IxBuildIndex, IxBuiltAll, IxFails,
                IxRebuildFile, IxReads, IxStores
  <2>2. QED
    BY <1>1, <2>1
<1>6. CASE IxImpactNext
  BY <1>2, <1>3, <1>4, <1>6 DEF IxImpactNext
<1>7. QED
  BY <1>1, <1>5, <1>6 DEF ixVars

\* The analysis of impact reports the callers within the depth asked for, all of them
\* and no other: analyze_impact, whatever the calls in the index, cycles included, in
\* whatever order they are stored.
THEOREM IxImpactTheorem == IxSpec => []IxImpact
<1>1. IxInit => IxImpactInv
  BY DEF IxInit, IxImpactInv
<1>2. IxImpactInv => IxImpact
  BY IxEnds DEF IxImpactInv, IxImpact
<1>3. QED
  BY <1>1, <1>2, IxImpactStep, PTL DEF IxSpec

-----------------------------------------------------------------------------
(* What is learned *)
LnCalls ==
    [at : {"idle", "mistake", "feedback", "success", "quality"},
     what : {None} \cup LnMistakes \cup LnTasks, read : Nat, row : Nat, feedback : BOOLEAN]
LnCallOK(k) ==
    /\ k \in LnCalls
    /\ k.at \in {"mistake", "feedback"} => k.what \in LnMistakes
    /\ k.at \in {"success", "quality"} => k.what \in LnTasks /\ k.row \in 0..Len(lnSuccess)
LnTaskOf(row) == [task |-> row.task, category |-> row.category]
LnRowOK(row) == LnTaskOf(row) \in LnTasks /\ row.frequency \in Nat
LnSuccessRows == {row \in [task : {w.task : w \in LnTasks}, category : {w.category : w \in LnTasks},
                           frequency : Nat] : LnTaskOf(row) \in LnTasks}
LnTypeOK ==
    /\ lnFrequency \in [LnMistakes -> Nat] /\ lnTold \in [LnMistakes -> Nat]
    /\ lnSuccess \in Seq(LnSuccessRows)
    /\ lnCall = [c \in LnCallers |-> lnCall[c]]
    /\ \A c \in LnCallers : LnCallOK(lnCall[c])

\* A recording of a mistake that is under way has read no more than was told; when it is
\* the only one, and the row was listed, it has read what was told.
LnCounting ==
    \A c \in LnCallers : lnCall[c].at = "mistake" =>
        /\ lnCall[c].read <= lnTold[lnCall[c].what]
        /\ lnCall[c].what \notin lnUnsure =>
              /\ lnCall[c].read = lnTold[lnCall[c].what]
              /\ ~LnOthers(c, {"mistake"}, lnCall[c].what)
\* One that is about to insert a row for its task is the only one, and there is no row.
LnHasRow(w) == \E i \in DOMAIN lnSuccess : LnTaskOf(lnSuccess[i]) = w
LnInserting ==
    \A c \in LnCallers : LET w == lnCall[c].what IN
        lnCall[c].at = "success" /\ w \notin lnTwice =>
            /\ ~LnOthers(c, {"success"}, w)
            /\ lnCall[c].row = 0 /\ LnWords(w.task) # {} => ~LnHasRow(w)

LnMistakeInv == LnCounts /\ LnCounting
LnSuccessInv == LnOneRow /\ LnInserting
LnInv == LnTypeOK /\ LnMistakeInv /\ LnSuccessInv

\* The share of a part, in hundreds.
LEMMA HundredShare ==
    ASSUME NEW n \in Nat, NEW m \in Nat, n <= m, m > 0
    PROVE (100 * n) \div m <= 100 /\ (100 * n) \div m \in Nat /\ (n = m => (100 * n) \div m = 100)
OBVIOUS

\* A text of some words is similar to itself, and to no other text more.
LEMMA LnMostSimilar ==
    ASSUME NEW s, NEW t, IsFiniteSet(LnWords(s)), IsFiniteSet(LnWords(t)), LnWords(t) # {}
    PROVE LnSimilarity(t, t) = 100 /\ LnSimilarity(s, t) \in Nat /\ LnSimilarity(s, t) <= 100
<1> DEFINE A == LnWords(s)
           B == LnWords(t)
<1>1. Cardinality(B) \in Nat \ {0}
  BY FS_CardinalityType, FS_EmptySet
<1>2. LnSimilarity(t, t) = 100
  <2>1. B \cap B = B /\ B \cup B = B
    OBVIOUS
  <2>2. PICK n \in Nat : n > 0 /\ n = Cardinality(B)
    BY <1>1
  <2>3. LnSimilarity(t, t) = (100 * Cardinality(B)) \div Cardinality(B)
    BY <2>1 DEF LnSimilarity
  <2>4. LnSimilarity(t, t) = (100 * n) \div n
    BY <2>2, <2>3, Zenon
  <2>5. (100 * n) \div n = 100
    BY <2>2, HundredShare
  <2>6. QED
    BY <2>4, <2>5
<1>3. LnSimilarity(s, t) \in Nat /\ LnSimilarity(s, t) <= 100
  <2>1. CASE A = {}
    BY <2>1 DEF LnSimilarity
  <2>2. CASE A # {}
    <3>1. IsFiniteSet(A \cup B)
      BY FS_Union
    <3>2. A \cap B \in SUBSET (A \cup B)
      OBVIOUS
    <3>3. IsFiniteSet(A \cap B) /\ Cardinality(A \cap B) <= Cardinality(A \cup B)
      BY <3>1, <3>2, FS_Subset
    <3>4. Cardinality(A \cap B) \in Nat /\ Cardinality(A \cup B) \in Nat
      BY <3>1, <3>3, FS_CardinalityType
    <3>5. Cardinality(A \cup B) # 0
      BY <2>2, <3>1, FS_EmptySet
    <3>6. PICK n \in Nat, m \in Nat :
              n <= m /\ m > 0 /\ n = Cardinality(A \cap B) /\ m = Cardinality(A \cup B)
      BY <3>3, <3>4, <3>5
    <3>7. LnSimilarity(s, t) = (100 * n) \div m
      <4>1. LnSimilarity(s, t) = (100 * Cardinality(A \cap B)) \div Cardinality(A \cup B)
        BY <2>2 DEF LnSimilarity
      <4>2. QED
        BY <3>6, <4>1, Zenon
    <3>8. (100 * n) \div m <= 100 /\ (100 * n) \div m \in Nat
      BY <3>6, HundredShare
    <3>9. QED
      BY <3>7, <3>8
  <2>3. QED
    BY <2>1, <2>2
<1>4. QED
  BY <1>2, <1>3

\* A task has finitely many words.
LEMMA LnWordsFinite ==
    ASSUME NEW w \in LnTasks
    PROVE IsFiniteSet(LnWords(w.task))
<1> DEFINE all == {w.task[i] : i \in DOMAIN w.task}
<1>1. w.task \in Seq(all)
  BY LnConstants
<1>2. \A x \in all : \E n \in 1..Len(w.task) : w.task[n] = x
  BY <1>1
<1>3. IsFiniteSet(all)
  BY <1>1, <1>2 DEF IsFiniteSet
<1>4. LnWords(w.task) \in SUBSET all
  BY DEF LnWords
<1>5. QED
  BY <1>3, <1>4, FS_Subset

\* A task with a row has it found, when nothing is left out: no new row is inserted.
LEMMA LnFindsOwnRow ==
    ASSUME LnTypeOK, NEW w \in LnTasks, NEW said, LnHasRow(w), LnWords(w.task) # {}
    PROVE \E i \in LnWith(w, said) : LnMatches(i, LnWith(w, said), w)
<1>1. PICK i \in DOMAIN lnSuccess : LnTaskOf(lnSuccess[i]) = w
  BY DEF LnHasRow
<1>2. lnSuccess[i].task = w.task /\ lnSuccess[i].category = w.category
  BY <1>1 DEF LnTaskOf
<1>3. LnLike(w.task, w.task)
  <2>1. w.task \in Seq({w.task[j] : j \in DOMAIN w.task})
    BY LnConstants
  <2>2. Len(w.task) \in Nat /\ SubSeq(w.task, 1, Len(w.task)) = w.task
    BY <2>1
  <2>3. 0 \in 0..(Len(w.task) - Len(w.task)) /\ SubSeq(w.task, 0 + 1, 0 + Len(w.task)) = w.task
    BY <2>2
  <2>4. QED
    BY <2>3 DEF LnLike
<1>4. i \in LnWith(w, said)
  BY <1>2, <1>3 DEF LnWith
<1>5. ASSUME NEW j \in LnWith(w, said)
      PROVE LnSimilarity(lnSuccess[j].task, w.task) \in Nat
            /\ LnSimilarity(lnSuccess[j].task, w.task) <= 100
  <2>1. lnSuccess[j] \in LnSuccessRows
    BY DEF LnWith, LnTypeOK
  <2>2. LnTaskOf(lnSuccess[j]) \in LnTasks /\ LnTaskOf(lnSuccess[j]).task = lnSuccess[j].task
    BY <2>1 DEF LnSuccessRows, LnTaskOf
  <2>3. IsFiniteSet(LnWords(lnSuccess[j].task)) /\ IsFiniteSet(LnWords(w.task))
    BY <2>2, LnWordsFinite
  <2>4. QED
    BY <2>3, LnMostSimilar
<1>6. LnSimilarity(w.task, w.task) = 100
  BY LnWordsFinite, LnMostSimilar
<1>7. LnMatches(i, LnWith(w, said), w)
  BY <1>2, <1>4, <1>5, <1>6 DEF LnMatches
<1>8. QED
  BY <1>4, <1>7

\* All the rows there are are listed when they are no more than the limit.
LEMMA LnListsAll ==
    ASSUME LnTypeOK, NEW listed, LnLists(listed, 0, LnMistakeLimit),
           ~(Cardinality(LnRows) > LnMistakeLimit)
    PROVE listed = LnRows
<1>1. LnWhere(LnRows, 0) = LnRows
  BY DEF LnWhere, LnRows, LnTypeOK
<1>2. LnRows \in SUBSET LnMistakes
  BY DEF LnRows
<1>3. IsFiniteSet(LnRows)
  BY <1>2, LnConstants, FS_Subset
<1>4. Cardinality(LnRows) \in Nat
  BY <1>3, FS_CardinalityType
<1>5. /\ listed \in SUBSET LnRows
      /\ Cardinality(listed) = IF Cardinality(LnRows) < LnMistakeLimit THEN Cardinality(LnRows)
                               ELSE LnMistakeLimit
  BY <1>1 DEF LnLists
<1>6. Cardinality(listed) = Cardinality(LnRows)
  BY <1>4, <1>5, LnConstants
<1>7. QED
  BY <1>3, <1>5, <1>6, FS_Subset

\* At first there is no row and no recording.
LEMMA LnInitially == LnInit => LnInv
<1> SUFFICES ASSUME LnInit PROVE LnInv
  OBVIOUS
<1>1. /\ LnIdle.at = "idle" /\ LnIdle \in LnCalls
  BY DEF LnIdle, LnCalls
<1>2. LnTypeOK
  BY <1>1 DEF LnInit, LnTypeOK, LnCallOK
<1>3. \A c \in LnCallers : lnCall[c].at = "idle"
  BY <1>1 DEF LnInit
<1>4. LnCounts /\ LnOneRow
  BY DEF LnInit, LnCounts, LnOneRow
<1>5. QED
  BY <1>2, <1>3, <1>4 DEF LnInv, LnMistakeInv, LnSuccessInv, LnCounting, LnInserting

\* One caller moves to k.
LEMMA LnGoesTypes ==
    ASSUME LnInv, NEW c \in LnCallers, NEW k, LnGoes(c, k), LnCallOK(k)',
           Len(lnSuccess) <= Len(lnSuccess')
    PROVE /\ lnCall' = [d \in LnCallers |-> lnCall'[d]]
          /\ \A d \in LnCallers : lnCall'[d] = IF d = c THEN k ELSE lnCall[d]
          /\ \A d \in LnCallers : LnCallOK(lnCall[d])'
<1>1. \A d \in LnCallers : lnCall'[d] = IF d = c THEN k ELSE lnCall[d]
  BY DEF LnInv, LnTypeOK, LnGoes
<1>2. ASSUME NEW d \in LnCallers PROVE LnCallOK(lnCall[d])'
  <2>1. CASE d = c
    BY <1>1, <2>1 DEF LnCallOK
  <2>2. CASE d # c
    <3>1. LnCallOK(lnCall[d]) /\ lnCall'[d] = lnCall[d]
      BY <1>1, <2>2 DEF LnInv, LnTypeOK
    <3>2. QED
      BY <3>1 DEF LnCallOK
  <2>3. QED
    BY <2>1, <2>2
<1>3. QED
  BY <1>1, <1>2 DEF LnInv, LnTypeOK, LnGoes

\* A recording of a success says nothing of mistakes, and the other way round.
LEMMA LnMistakesStay ==
    ASSUME LnInv, NEW c \in LnCallers, NEW k, k.at # "mistake",
           \A d \in LnCallers : lnCall'[d] = IF d = c THEN k ELSE lnCall[d],
           UNCHANGED <<lnFrequency, lnTold, lnUnsure>>
    PROVE LnMistakeInv'
<1>1. LnCounts'
  BY DEF LnInv, LnMistakeInv, LnCounts
<1>2. LnCounting'
  BY DEF LnInv, LnMistakeInv, LnCounting, LnOthers
<1>3. QED
  BY <1>1, <1>2 DEF LnMistakeInv

\* What is said of successes stays when their rows do.
LEMMA LnSuccessesStay ==
    ASSUME LnInv, NEW c \in LnCallers, NEW k, k.at # "success",
           \A d \in LnCallers : lnCall'[d] = IF d = c THEN k ELSE lnCall[d],
           UNCHANGED <<lnSuccess, lnTwice>>
    PROVE LnSuccessInv'
<1>1. LnOneRow'
  BY DEF LnInv, LnSuccessInv, LnOneRow
<1>2. LnInserting'
  BY DEF LnInv, LnSuccessInv, LnInserting, LnOthers, LnHasRow, LnTaskOf
<1>3. QED
  BY <1>1, <1>2 DEF LnSuccessInv

\* The recordings of a mistake: what is read, and what is stored.
LEMMA LnMistakeReadKeeps ==
    ASSUME LnInv, NEW c \in LnCallers, NEW k \in LnMistakes, NEW implicit \in BOOLEAN,
           LnMistakeRead(c, k, implicit)
    PROVE LnInv'
<1>1. PICK listed :
          /\ LnLists(listed, 0, LnMistakeLimit)
          /\ LnGoes(c, [at |-> "mistake", what |-> k, row |-> 0, feedback |-> implicit,
                        read |-> IF k \in listed THEN lnFrequency[k] ELSE 0])
          /\ lnUnsure' = lnUnsure \cup
                IF \/ LnOthers(c, {"mistake", "feedback"}, k)
                   \/ k \in LnRows \ listed /\ Cardinality(LnRows) > LnMistakeLimit
                THEN {k} ELSE {}
  BY DEF LnMistakeRead
<1>2. UNCHANGED <<lnFrequency, lnSuccess, lnTold, lnTwice>>
  BY DEF LnMistakeRead
<1>3. PICK n \in Nat : n = IF k \in listed THEN lnFrequency[k] ELSE 0
  BY DEF LnInv, LnTypeOK
<1>4. PICK call : call = [at |-> "mistake", what |-> k, row |-> 0, feedback |-> implicit, read |-> n]
  OBVIOUS
<1>5. LnGoes(c, call) /\ LnCallOK(call)'
  BY <1>1, <1>3, <1>4 DEF LnCallOK, LnCalls
<1>6. /\ lnCall' = [d \in LnCallers |-> lnCall'[d]]
      /\ \A d \in LnCallers : lnCall'[d] = IF d = c THEN call ELSE lnCall[d]
      /\ \A d \in LnCallers : LnCallOK(lnCall[d])'
  <2>1. Len(lnSuccess) <= Len(lnSuccess')
    BY <1>2 DEF LnInv, LnTypeOK
  <2>2. QED
    BY <1>5, <2>1, LnGoesTypes
<1>7. LnTypeOK'
  BY <1>2, <1>6 DEF LnInv, LnTypeOK
<1>8. LnSuccessInv'
  BY <1>2, <1>4, <1>6, LnSuccessesStay
<1>9. LnCounts'
  BY <1>1, <1>2 DEF LnInv, LnMistakeInv, LnCounts
<1>10. n <= lnTold[k] /\ lnFrequency[k] \in Nat /\ lnTold[k] \in Nat
  BY <1>3 DEF LnInv, LnTypeOK, LnMistakeInv, LnCounts
<1>11. k \notin lnUnsure' => n = lnTold[k] /\ ~LnOthers(c, {"mistake", "feedback"}, k)
  <2> SUFFICES ASSUME k \notin lnUnsure'
               PROVE n = lnTold[k] /\ ~LnOthers(c, {"mistake", "feedback"}, k)
    OBVIOUS
  <2>1. /\ k \notin lnUnsure /\ ~LnOthers(c, {"mistake", "feedback"}, k)
        /\ ~(k \in LnRows \ listed /\ Cardinality(LnRows) > LnMistakeLimit)
    BY <1>1
  <2>2. lnFrequency[k] = lnTold[k]
    BY <2>1 DEF LnInv, LnMistakeInv, LnCounts
  <2>3. k \in LnRows => k \in listed
    BY <1>1, <2>1, LnListsAll DEF LnInv
  <2>4. k \notin LnRows => lnFrequency[k] = 0
    BY <1>10 DEF LnRows
  <2>5. QED
    BY <1>3, <2>1, <2>2, <2>3, <2>4
<1>12. ASSUME NEW d \in LnCallers, lnCall'[d].at = "mistake"
       PROVE /\ lnCall'[d].read <= lnTold'[lnCall'[d].what]
             /\ lnCall'[d].what \notin lnUnsure' =>
                   /\ lnCall'[d].read = lnTold'[lnCall'[d].what]
                   /\ \A e \in LnCallers \ {d} :
                         ~(lnCall'[e].at = "mistake" /\ lnCall'[e].what = lnCall'[d].what)
  <2>1. CASE d = c
    BY <1>2, <1>4, <1>6, <1>10, <1>11, <2>1 DEF LnOthers
  <2>2. CASE d # c
    <3>1. lnCall'[d] = lnCall[d] /\ lnUnsure \subseteq lnUnsure'
      BY <1>1, <1>6, <2>2
    <3>2. /\ lnCall[d].read <= lnTold[lnCall[d].what]
          /\ lnCall[d].what \notin lnUnsure =>
                 /\ lnCall[d].read = lnTold[lnCall[d].what]
                 /\ ~LnOthers(d, {"mistake"}, lnCall[d].what)
      BY <1>12, <3>1 DEF LnInv, LnMistakeInv, LnCounting
    <3>3. lnCall[d].what = k => LnOthers(c, {"mistake", "feedback"}, k)
      BY <1>12, <2>2, <3>1 DEF LnOthers
    <3>4. QED
      BY <1>2, <1>4, <1>6, <1>11, <3>1, <3>2, <3>3 DEF LnOthers
  <2>3. QED
    BY <2>1, <2>2
<1>13. LnCounting'
  BY <1>12 DEF LnCounting, LnOthers
<1>14. QED
  BY <1>7, <1>8, <1>9, <1>13 DEF LnInv, LnMistakeInv

\* A mistake is stored: its row is counted up, or inserted.
LEMMA LnMistakeStoredKeeps ==
    ASSUME LnInv, NEW c \in LnCallers, LnMistakeStored(c)
    PROVE LnInv'
<1> DEFINE call == lnCall[c]
           k == lnCall[c].what
<1>1. /\ call.at = "mistake" /\ k \in LnMistakes /\ call.read \in Nat /\ LnCallOK(call)
  BY DEF LnMistakeStored, LnInv, LnTypeOK, LnCallOK, LnCalls
<1>2. PICK m, n, next :
          /\ m = k /\ n = call.read
          /\ next = IF call.feedback THEN [call EXCEPT !.at = "feedback"] ELSE LnIdle
  OBVIOUS
<1>3. /\ lnFrequency' = [lnFrequency EXCEPT ![m] = n + 1]
      /\ lnTold' = [lnTold EXCEPT ![m] = @ + 1]
      /\ LnGoes(c, next)
      /\ UNCHANGED <<lnSuccess, lnUnsure, lnTwice>>
  BY <1>2 DEF LnMistakeStored
<1>4. next.at # "mistake" /\ next.at # "success" /\ LnCallOK(next)'
  <2>1. CASE call.feedback
    <3>1. next = [call EXCEPT !.at = "feedback"]
      BY <1>2, <2>1
    <3>2. next \in LnCalls /\ next.at = "feedback" /\ next.what = k
      BY <1>1, <3>1 DEF LnCallOK, LnCalls
    <3>3. QED
      BY <1>1, <3>2 DEF LnCallOK
  <2>2. CASE ~call.feedback
    BY <1>2, <2>2 DEF LnIdle, LnCallOK, LnCalls
  <2>3. QED
    BY <2>1, <2>2
<1>5. /\ lnCall' = [d \in LnCallers |-> lnCall'[d]]
      /\ \A d \in LnCallers : lnCall'[d] = IF d = c THEN next ELSE lnCall[d]
      /\ \A d \in LnCallers : LnCallOK(lnCall[d])'
  <2>1. Len(lnSuccess) <= Len(lnSuccess')
    BY <1>3 DEF LnInv, LnTypeOK
  <2>2. QED
    BY <1>3, <1>4, <2>1, LnGoesTypes
<1>6. m \in LnMistakes /\ n \in Nat
  BY <1>1, <1>2
<1>7. /\ \A j \in LnMistakes : lnFrequency'[j] = IF j = m THEN n + 1 ELSE lnFrequency[j]
      /\ \A j \in LnMistakes : lnTold'[j] = IF j = m THEN lnTold[m] + 1 ELSE lnTold[j]
      /\ lnFrequency' \in [LnMistakes -> Nat] /\ lnTold' \in [LnMistakes -> Nat]
  BY <1>3, <1>6 DEF LnInv, LnTypeOK
<1>8. LnTypeOK'
  BY <1>3, <1>5, <1>7 DEF LnInv, LnTypeOK
<1>9. LnSuccessInv'
  BY <1>3, <1>4, <1>5, LnSuccessesStay
<1>10. /\ n <= lnTold[m] /\ lnTold[m] \in Nat
       /\ m \notin lnUnsure => n = lnTold[m] /\ ~LnOthers(c, {"mistake"}, m)
  <2>1. /\ call.read <= lnTold[k]
        /\ k \notin lnUnsure => call.read = lnTold[k] /\ ~LnOthers(c, {"mistake"}, k)
    BY <1>1 DEF LnInv, LnMistakeInv, LnCounting
  <2>2. lnTold[m] \in Nat
    BY <1>6 DEF LnInv, LnTypeOK
  <2>3. QED
    BY <1>2, <2>1, <2>2
<1>11. LnCounts'
  <2> SUFFICES ASSUME NEW j \in LnMistakes
               PROVE /\ lnFrequency'[j] <= lnTold'[j]
                     /\ j \notin lnUnsure => lnFrequency'[j] = lnTold'[j]
    BY <1>3 DEF LnCounts
  <2>1. CASE j = m
    <3>1. lnFrequency'[j] = n + 1 /\ lnTold'[j] = lnTold[m] + 1
      BY <1>7, <2>1
    <3>2. QED
      BY <1>6, <1>10, <2>1, <3>1
  <2>2. CASE j # m
    BY <1>7, <2>2 DEF LnInv, LnMistakeInv, LnCounts
  <2>3. QED
    BY <2>1, <2>2
<1>12. ASSUME NEW d \in LnCallers, lnCall'[d].at = "mistake"
       PROVE /\ lnCall'[d].read <= lnTold'[lnCall'[d].what]
             /\ lnCall'[d].what \notin lnUnsure' =>
                   /\ lnCall'[d].read = lnTold'[lnCall'[d].what]
                   /\ \A e \in LnCallers \ {d} :
                         ~(lnCall'[e].at = "mistake" /\ lnCall'[e].what = lnCall'[d].what)
  <2>1. d # c /\ lnCall'[d] = lnCall[d] /\ lnCall[d].at = "mistake"
    BY <1>4, <1>5, <1>12
  <2>2. /\ lnCall[d].what \in LnMistakes /\ lnCall[d].read \in Nat
        /\ lnTold[lnCall[d].what] \in Nat
    BY <2>1 DEF LnInv, LnTypeOK, LnCallOK, LnCalls
  <2>3. /\ lnCall[d].read <= lnTold[lnCall[d].what]
        /\ lnCall[d].what \notin lnUnsure =>
               /\ lnCall[d].read = lnTold[lnCall[d].what]
               /\ ~LnOthers(d, {"mistake"}, lnCall[d].what)
    BY <2>1 DEF LnInv, LnMistakeInv, LnCounting
  <2>4. lnCall[d].what \notin lnUnsure => lnCall[d].what # m
    BY <1>1, <1>2, <2>1, <2>3 DEF LnOthers
  <2>5. lnTold'[lnCall[d].what] = IF lnCall[d].what = m THEN lnTold[m] + 1 ELSE lnTold[lnCall[d].what]
    BY <1>7, <2>2
  <2>6. lnCall[d].read <= lnTold'[lnCall[d].what]
    BY <1>10, <2>2, <2>3, <2>5
  <2>7. lnCall[d].what \notin lnUnsure => lnCall[d].read = lnTold'[lnCall[d].what]
    BY <2>3, <2>4, <2>5
  <2>8. \A e \in LnCallers \ {d} : lnCall'[e].at = "mistake" => lnCall'[e] = lnCall[e]
    BY <1>4, <1>5
  <2>9. QED
    BY <1>3, <2>1, <2>3, <2>6, <2>7, <2>8 DEF LnOthers
<1>13. LnCounting'
  BY <1>12 DEF LnCounting, LnOthers
<1>14. QED
  BY <1>8, <1>9, <1>11, <1>13 DEF LnInv, LnMistakeInv

\* A caller is done, or its program ends.
LEMMA LnIdleKeeps ==
    ASSUME LnInv, NEW c \in LnCallers, LnGoes(c, LnIdle),
           UNCHANGED <<lnFrequency, lnSuccess, lnTold, lnUnsure, lnTwice>>
    PROVE LnInv'
<1>1. LnCallOK(LnIdle)' /\ LnIdle.at = "idle"
  BY DEF LnIdle, LnCallOK, LnCalls
<1>2. Len(lnSuccess) <= Len(lnSuccess')
  BY DEF LnInv, LnTypeOK
<1>3. /\ lnCall' = [d \in LnCallers |-> lnCall'[d]]
      /\ \A d \in LnCallers : lnCall'[d] = IF d = c THEN LnIdle ELSE lnCall[d]
      /\ \A d \in LnCallers : LnCallOK(lnCall[d])'
  BY <1>1, <1>2, LnGoesTypes
<1>4. LnTypeOK'
  BY <1>3 DEF LnInv, LnTypeOK
<1>5. QED
  BY <1>1, <1>3, <1>4, LnMistakesStay, LnSuccessesStay DEF LnInv

\* The recordings of a success.
LEMMA LnSuccessReadKeeps ==
    ASSUME LnInv, NEW c \in LnCallers, NEW w \in LnTasks, LnSuccessRead(c, w)
    PROVE LnInv'
<1>1. PICK said \in SUBSET DOMAIN lnSuccess, found \in SUBSET DOMAIN lnSuccess :
          /\ LnFinds(found, w, said)
          /\ \E i \in found \cup {0} :
              /\ IF i = 0 THEN \A j \in found : ~LnMatches(j, found, w) ELSE LnMatches(i, found, w)
              /\ LnGoes(c, [at |-> "success", what |-> w, row |-> i, feedback |-> FALSE,
                            read |-> IF i = 0 THEN 0 ELSE lnSuccess[i].frequency])
          /\ lnTwice' = lnTwice \cup
                IF LnOthers(c, {"success", "quality"}, w) \/ found # LnWith(w, said)
                THEN {w} ELSE {}
  BY DEF LnSuccessRead
<1>2. PICK i \in found \cup {0} :
          /\ IF i = 0 THEN \A j \in found : ~LnMatches(j, found, w) ELSE LnMatches(i, found, w)
          /\ LnGoes(c, [at |-> "success", what |-> w, row |-> i, feedback |-> FALSE,
                        read |-> IF i = 0 THEN 0 ELSE lnSuccess[i].frequency])
  BY <1>1
<1>3. UNCHANGED <<lnFrequency, lnSuccess, lnTold, lnUnsure>>
  BY DEF LnSuccessRead
<1>4. i \in 0..Len(lnSuccess) /\ Len(lnSuccess) \in Nat
  BY DEF LnInv, LnTypeOK
<1>5. PICK n \in Nat : n = IF i = 0 THEN 0 ELSE lnSuccess[i].frequency
  BY <1>4 DEF LnInv, LnTypeOK, LnSuccessRows
<1>6. PICK call : call = [at |-> "success", what |-> w, row |-> i, feedback |-> FALSE, read |-> n]
  OBVIOUS
<1>7. LnGoes(c, call) /\ LnCallOK(call)'
  BY <1>2, <1>3, <1>4, <1>5, <1>6 DEF LnCallOK, LnCalls
<1>8. /\ lnCall' = [d \in LnCallers |-> lnCall'[d]]
      /\ \A d \in LnCallers : lnCall'[d] = IF d = c THEN call ELSE lnCall[d]
      /\ \A d \in LnCallers : LnCallOK(lnCall[d])'
  <2>1. Len(lnSuccess) <= Len(lnSuccess')
    BY <1>3, <1>4
  <2>2. QED
    BY <1>7, <2>1, LnGoesTypes
<1>9. LnTypeOK'
  BY <1>3, <1>8 DEF LnInv, LnTypeOK
<1>10. LnMistakeInv'
  BY <1>3, <1>6, <1>8, LnMistakesStay
<1>11. LnOneRow'
  BY <1>1, <1>3 DEF LnInv, LnSuccessInv, LnOneRow
<1>12. w \notin lnTwice' =>
          /\ ~LnOthers(c, {"success", "quality"}, w)
          /\ i = 0 /\ LnWords(w.task) # {} => ~LnHasRow(w)
  <2> SUFFICES ASSUME w \notin lnTwice'
               PROVE /\ ~LnOthers(c, {"success", "quality"}, w)
                     /\ i = 0 /\ LnWords(w.task) # {} => ~LnHasRow(w)
    OBVIOUS
  <2>1. ~LnOthers(c, {"success", "quality"}, w) /\ found = LnWith(w, said)
    BY <1>1
  <2>2. i = 0 => \A j \in LnWith(w, said) : ~LnMatches(j, LnWith(w, said), w)
    BY <1>2, <2>1
  <2>3. QED
    BY <2>1, <2>2, LnFindsOwnRow DEF LnInv
<1>13. \A v : LnHasRow(v)' <=> LnHasRow(v)
  BY <1>3 DEF LnHasRow, LnTaskOf
<1>14. ASSUME NEW d \in LnCallers, lnCall'[d].at = "success", lnCall'[d].what \notin lnTwice'
       PROVE /\ \A e \in LnCallers \ {d} :
                   ~(lnCall'[e].at = "success" /\ lnCall'[e].what = lnCall'[d].what)
             /\ lnCall'[d].row = 0 /\ LnWords(lnCall'[d].what.task) # {} => ~LnHasRow(lnCall'[d].what)
  <2>1. CASE d = c
    BY <1>6, <1>8, <1>12, <1>14, <2>1 DEF LnOthers
  <2>2. CASE d # c
    <3>1. lnCall'[d] = lnCall[d] /\ lnCall[d].what \notin lnTwice
      BY <1>1, <1>8, <1>14, <2>2
    <3>2. /\ ~LnOthers(d, {"success"}, lnCall[d].what)
          /\ lnCall[d].row = 0 /\ LnWords(lnCall[d].what.task) # {} => ~LnHasRow(lnCall[d].what)
      BY <1>14, <3>1 DEF LnInv, LnSuccessInv, LnInserting
    <3>3. lnCall[d].what # w
      BY <1>12, <1>14, <2>2, <3>1 DEF LnOthers
    <3>4. QED
      BY <1>6, <1>8, <3>1, <3>2, <3>3 DEF LnOthers
  <2>3. QED
    BY <2>1, <2>2
<1>15. LnInserting'
  BY <1>13, <1>14 DEF LnInserting, LnOthers
<1>16. QED
  BY <1>9, <1>10, <1>11, <1>15 DEF LnInv, LnSuccessInv

\* A success is stored: the row found is counted up, or one is inserted.
LEMMA LnSuccessStoredKeeps ==
    ASSUME LnInv, NEW c \in LnCallers, LnSuccessStored(c)
    PROVE LnInv'
<1>1. PICK call, next, w : call = lnCall[c] /\ next = [call EXCEPT !.at = "quality"] /\ w = call.what
  OBVIOUS
<1>2. /\ call.at = "success" /\ LnGoes(c, next)
      /\ UNCHANGED <<lnFrequency, lnTold, lnUnsure, lnTwice>>
  BY <1>1 DEF LnSuccessStored
<1>3. /\ w \in LnTasks /\ call.row \in 0..Len(lnSuccess) /\ call.read \in Nat /\ call \in LnCalls
      /\ Len(lnSuccess) \in Nat /\ lnSuccess \in Seq(LnSuccessRows)
  BY <1>1, <1>2 DEF LnInv, LnTypeOK, LnCallOK, LnCalls
<1>4. w = [task |-> w.task, category |-> w.category]
  BY <1>3, LnConstants
\* The rows keep their tasks, and there is one more at the most, of task w.
<1>5. /\ lnSuccess' \in Seq(LnSuccessRows) /\ Len(lnSuccess) <= Len(lnSuccess')
      /\ \A i \in DOMAIN lnSuccess : i \in DOMAIN lnSuccess' /\ LnTaskOf(lnSuccess'[i]) = LnTaskOf(lnSuccess[i])
      /\ \A i \in DOMAIN lnSuccess' \ DOMAIN lnSuccess :
             i = Len(lnSuccess) + 1 /\ call.row = 0 /\ LnTaskOf(lnSuccess'[i]) = w
  <2>1. CASE call.row = 0
    <3>1. PICK row : row = LnRow(w.task, w.category)
      OBVIOUS
    <3>2. row \in LnSuccessRows /\ LnTaskOf(row) = w
      BY <1>3, <1>4, <3>1 DEF LnRow, LnSuccessRows, LnTaskOf
    <3>3. lnSuccess' = Append(lnSuccess, row)
      BY <1>1, <2>1, <3>1 DEF LnSuccessStored
    <3>4. /\ lnSuccess' \in Seq(LnSuccessRows) /\ Len(lnSuccess') = Len(lnSuccess) + 1
          /\ \A i \in 1..Len(lnSuccess) : lnSuccess'[i] = lnSuccess[i]
          /\ lnSuccess'[Len(lnSuccess) + 1] = row
      BY <1>3, <3>2, <3>3
    <3>5. DOMAIN lnSuccess = 1..Len(lnSuccess) /\ DOMAIN lnSuccess' = 1..Len(lnSuccess) + 1
      BY <1>3, <3>4
    <3>6. QED
      BY <1>3, <2>1, <3>2, <3>4, <3>5
  <2>2. CASE call.row # 0
    <3>1. PICK n \in Nat, r \in DOMAIN lnSuccess : n = call.read + 1 /\ r = call.row
      BY <1>3, <2>2
    <3>2. PICK row : row = [lnSuccess[r] EXCEPT !.frequency = n]
      OBVIOUS
    <3>3. lnSuccess' = [lnSuccess EXCEPT ![r] = row]
      BY <1>1, <2>2, <3>1, <3>2 DEF LnSuccessStored
    <3>4. lnSuccess[r] \in LnSuccessRows
      BY <1>3
    <3>5. LnTaskOf(row) = LnTaskOf(lnSuccess[r]) /\ row \in LnSuccessRows
      BY <3>2, <3>4 DEF LnTaskOf, LnSuccessRows
    <3>6. lnSuccess' \in Seq(LnSuccessRows) /\ DOMAIN lnSuccess' = DOMAIN lnSuccess
          /\ Len(lnSuccess') = Len(lnSuccess)
      BY <1>3, <3>3, <3>5
    <3>7. \A i \in DOMAIN lnSuccess : lnSuccess'[i] = IF i = r THEN row ELSE lnSuccess[i]
      BY <1>3, <3>3
    <3>8. QED
      BY <1>3, <3>5, <3>6, <3>7
  <2>3. QED
    BY <2>1, <2>2
<1>6. next.at = "quality" /\ LnCallOK(next)'
  <2>1. /\ next \in LnCalls /\ next.at = "quality" /\ next.what = w /\ next.row = call.row
    BY <1>1, <1>3 DEF LnCalls
  <2>2. next.row \in 0..Len(lnSuccess')
    BY <1>3, <1>5, <2>1
  <2>3. QED
    BY <1>3, <2>1, <2>2 DEF LnCallOK
<1>7. /\ lnCall' = [d \in LnCallers |-> lnCall'[d]]
      /\ \A d \in LnCallers : lnCall'[d] = IF d = c THEN next ELSE lnCall[d]
      /\ \A d \in LnCallers : LnCallOK(lnCall[d])'
  BY <1>2, <1>5, <1>6, LnGoesTypes
<1>8. LnTypeOK'
  BY <1>2, <1>5, <1>7 DEF LnInv, LnTypeOK
<1>9. LnMistakeInv'
  BY <1>2, <1>6, <1>7, LnMistakesStay
<1>10. w \notin lnTwice =>
          /\ ~LnOthers(c, {"success"}, w)
          /\ call.row = 0 /\ LnWords(w.task) # {} => ~LnHasRow(w)
  BY <1>1, <1>2 DEF LnInv, LnSuccessInv, LnInserting
<1>11. ASSUME NEW i \in DOMAIN lnSuccess', NEW j \in DOMAIN lnSuccess' \ {i},
              LnTaskOf(lnSuccess'[i]) = LnTaskOf(lnSuccess'[j])
       PROVE LnTaskOf(lnSuccess'[i]) \in lnTwice \/ LnWords(lnSuccess'[i].task) = {}
  <2>0. lnSuccess'[i].task = LnTaskOf(lnSuccess'[i]).task
    BY DEF LnTaskOf
  <2>1. CASE i \in DOMAIN lnSuccess /\ j \in DOMAIN lnSuccess
    <3>1. LnTaskOf(lnSuccess[i]) = LnTaskOf(lnSuccess[j])
      BY <1>5, <1>11, <2>1
    <3>2. LnTaskOf(lnSuccess[i]) \in lnTwice \/ LnWords(LnTaskOf(lnSuccess[i]).task) = {}
      BY <2>1, <3>1 DEF LnInv, LnSuccessInv, LnOneRow, LnTaskOf
    <3>3. QED
      BY <1>5, <2>0, <2>1, <3>2
  <2>2. CASE i \notin DOMAIN lnSuccess
    <3>1. LnTaskOf(lnSuccess'[i]) = w /\ call.row = 0 /\ j \in DOMAIN lnSuccess
      BY <1>5, <2>2
    <3>2. LnHasRow(w)
      BY <1>5, <1>11, <3>1 DEF LnHasRow
    <3>3. QED
      BY <1>10, <2>0, <3>1, <3>2
  <2>3. CASE j \notin DOMAIN lnSuccess
    <3>1. LnTaskOf(lnSuccess'[j]) = w /\ call.row = 0 /\ i \in DOMAIN lnSuccess
      BY <1>5, <2>3
    <3>2. LnHasRow(w)
      BY <1>5, <1>11, <3>1 DEF LnHasRow
    <3>3. QED
      BY <1>10, <1>11, <2>0, <3>1, <3>2
  <2>4. QED
    BY <2>1, <2>2, <2>3
<1>12. LnOneRow'
  BY <1>2, <1>11 DEF LnOneRow, LnTaskOf
<1>13. \A v : LnHasRow(v)' => LnHasRow(v) \/ v = w
  BY <1>5 DEF LnHasRow
<1>14. ASSUME NEW d \in LnCallers, lnCall'[d].at = "success", lnCall'[d].what \notin lnTwice'
       PROVE /\ \A e \in LnCallers \ {d} :
                   ~(lnCall'[e].at = "success" /\ lnCall'[e].what = lnCall'[d].what)
             /\ lnCall'[d].row = 0 /\ LnWords(lnCall'[d].what.task) # {} =>
                   lnCall'[d].what # w /\ ~LnHasRow(lnCall'[d].what)
  <2>1. d # c /\ lnCall'[d] = lnCall[d] /\ lnCall[d].what \notin lnTwice
    BY <1>2, <1>6, <1>7, <1>14
  <2>2. /\ ~LnOthers(d, {"success"}, lnCall[d].what)
        /\ lnCall[d].row = 0 /\ LnWords(lnCall[d].what.task) # {} => ~LnHasRow(lnCall[d].what)
    BY <1>14, <2>1 DEF LnInv, LnSuccessInv, LnInserting
  <2>3. lnCall[d].what # w
    BY <1>1, <1>2, <2>1, <2>2 DEF LnOthers
  <2>4. \A e \in LnCallers \ {d} : lnCall'[e].at = "success" => lnCall'[e] = lnCall[e]
    BY <1>6, <1>7
  <2>5. QED
    BY <2>1, <2>2, <2>3, <2>4 DEF LnOthers
<1>15. LnInserting'
  <2> SUFFICES ASSUME NEW d \in LnCallers, lnCall'[d].at = "success", lnCall'[d].what \notin lnTwice'
               PROVE /\ ~LnOthers(d, {"success"}, lnCall[d].what)'
                     /\ lnCall'[d].row = 0 /\ LnWords(lnCall'[d].what.task) # {} =>
                           ~LnHasRow(lnCall[d].what)'
    BY DEF LnInserting
  <2>1. PICK v : v = lnCall'[d].what
    OBVIOUS
  <2>2. v # w /\ ~LnHasRow(v) => ~LnHasRow(v)'
    BY <1>13
  <2>3. ~LnHasRow(v)' => ~LnHasRow(lnCall[d].what)'
    BY <2>1 DEF LnHasRow
  <2>4. QED
    BY <1>14, <2>1, <2>2, <2>3 DEF LnOthers
<1>16. QED
  BY <1>8, <1>9, <1>12, <1>15 DEF LnInv, LnSuccessInv

\* However two callers record, a mistake is counted no more often than it was made, and
\* exactly as often when they came one after the other; and a task that succeeds again is
\* counted in its row, for any number of callers, tasks, rows and any limits.
THEOREM LnTalliesTheorem == LnSpec => []LnTallies
<1>1. LnInit => LnInv
  BY LnInitially
<1>2. LnInv /\ [LnMistakeNext \/ LnSuccessNext \/ LnUserNext \/ LnSessionNext]_lnVars => LnInv'
  <2> SUFFICES ASSUME LnInv, [LnMistakeNext \/ LnSuccessNext \/ LnUserNext \/ LnSessionNext]_lnVars
               PROVE LnInv'
    OBVIOUS
  <2>1. CASE UNCHANGED <<lnFrequency, lnSuccess, lnCall, lnTold, lnUnsure, lnTwice>>
    BY <2>1 DEF LnInv, LnTypeOK, LnCallOK, LnMistakeInv, LnSuccessInv, LnCounts, LnCounting,
                LnOneRow, LnInserting, LnOthers, LnHasRow, LnTaskOf
  <2>2. CASE LnMistakeNext
    BY <2>1, <2>2, LnMistakeReadKeeps, LnMistakeStoredKeeps, LnIdleKeeps
       DEF LnMistakeNext, LnWarns, lnVars, LnImplicitStored
  <2>3. CASE LnSuccessNext
    BY <2>3, LnSuccessReadKeeps, LnSuccessStoredKeeps, LnIdleKeeps DEF LnSuccessNext, LnQualityStored
  <2>4. CASE LnUserNext
    BY <2>1, <2>4 DEF LnUserNext, LnPrefers, LnFeedback, lnVars
  <2>5. CASE LnSessionNext
    BY <2>1, <2>5, LnIdleKeeps DEF LnSessionNext, LnSessionDeleted, LnSessionOpened, LnDies
  <2>6. QED
    BY <2>1, <2>2, <2>3, <2>4, <2>5 DEF lnVars
<1>3. LnInv => LnTallies
  BY DEF LnInv, LnMistakeInv, LnSuccessInv, LnTallies
<1>4. QED
  BY <1>1, <1>2, <1>3, PTL DEF LnSpec

-----------------------------------------------------------------------------
(* The summaries of a session *)
\* The keys are distinct, and each of them has one summary.
WinCacheOK(order, entries) ==
    /\ order \in Seq(Range(order)) /\ IsFiniteSet(entries)
    /\ \A i, j \in DOMAIN order : order[i] = order[j] => i = j
    /\ \A e, f \in entries : e.key = f.key => e = f
    /\ {e.key : e \in entries} = Range(order)
    /\ Cardinality(entries) = Len(order)
WinInv ==
    /\ winOrder = [a \in WinAgents |-> winOrder[a]]
    /\ winEntries = [a \in WinAgents |-> winEntries[a]]
    /\ \A a \in WinAgents :
          WinCacheOK(winOrder[a], winEntries[a]) /\ Len(winOrder[a]) <= WinMaxEntries

\* A sequence is one of its own elements.
LEMMA WinOfItsOwn ==
    ASSUME NEW S, NEW s \in Seq(S)
    PROVE s \in Seq(Range(s))
<1>1. Len(s) \in Nat /\ DOMAIN s = 1..Len(s) /\ s = [i \in 1..Len(s) |-> s[i]]
  OBVIOUS
<1>2. \A i \in 1..Len(s) : s[i] \in Range(s)
  BY <1>1 DEF Range
<1>3. s \in [1..Len(s) -> Range(s)]
  BY <1>1, <1>2
<1>4. QED
  BY <1>1, <1>3

\* A key that is new goes last, with its summary.
LEMMA WinAdds ==
    ASSUME NEW order, NEW entries, WinCacheOK(order, entries), NEW e, e.key \notin Range(order)
    PROVE /\ WinCacheOK(Append(order, e.key), entries \cup {e})
          /\ Len(Append(order, e.key)) = Len(order) + 1
<1> DEFINE new == Append(order, e.key)
           all == Range(order) \cup {e.key}
<1>1. order \in Seq(all) /\ Len(order) \in Nat
  BY DEF WinCacheOK, Range
<1>2. /\ new \in Seq(all) /\ Len(new) = Len(order) + 1 /\ DOMAIN new = 1..Len(order) + 1
      /\ DOMAIN order = 1..Len(order)
      /\ \A i \in 1..Len(order) : new[i] = order[i]
      /\ new[Len(order) + 1] = e.key
  BY <1>1
<1> HIDE DEF new
<1>3. Range(new) = all
  BY <1>1, <1>2 DEF Range
<1>4. \A i \in 1..Len(order) : order[i] # e.key
  BY <1>2 DEF Range
<1>5. \A i, j \in DOMAIN new : new[i] = new[j] => i = j
  BY <1>1, <1>2, <1>4 DEF WinCacheOK
<1>6. \A f \in entries : f.key # e.key
  BY DEF WinCacheOK
<1>7. /\ IsFiniteSet(entries \cup {e}) /\ Cardinality(entries \cup {e}) = Len(new)
  BY <1>2, <1>6, FS_AddElement DEF WinCacheOK
<1>8. {f.key : f \in entries \cup {e}} = Range(new)
  BY <1>3 DEF WinCacheOK
<1>9. WinCacheOK(new, entries \cup {e})
  BY <1>2, <1>3, <1>5, <1>6, <1>7, <1>8 DEF WinCacheOK
<1>10. QED
  BY <1>2, <1>9 DEF new

\* Over the limit the oldest key goes, and its summary with it.
LEMMA WinEvicts ==
    ASSUME NEW order, NEW entries, WinCacheOK(order, entries), Len(order) = WinMaxEntries + 1
    PROVE WinCacheOK(WinKept(order), WinEvict(order, entries)) /\ Len(WinKept(order)) = WinMaxEntries
<1> DEFINE new == WinKept(order)
           n == WinMaxEntries
<1>1. n \in Nat /\ Len(order) = n + 1 /\ order \in Seq(Range(order)) /\ DOMAIN order = 1..n + 1
  BY WinConstants DEF WinCacheOK
<1>2. /\ new \in Seq(Range(order)) /\ Len(new) = n /\ DOMAIN new = 1..n
      /\ \A i \in 1..n : new[i] = order[i + 1]
  <2>1. new = SubSeq(order, 2, n + 1)
    BY <1>1 DEF WinKept
  <2>2. QED
    BY <1>1, <2>1
<1> HIDE DEF new
<1>3. Range(new) = Range(order) \ {order[1]}
  <2>1. ASSUME NEW i \in 1..n PROVE new[i] \in Range(order) /\ new[i] # order[1]
    <3>1. i + 1 \in DOMAIN order /\ 1 \in DOMAIN order /\ i + 1 # 1 /\ new[i] = order[i + 1]
      BY <1>1, <1>2
    <3>2. QED
      BY <3>1 DEF WinCacheOK, Range
  <2>2. ASSUME NEW k \in Range(order) \ {order[1]} PROVE k \in Range(new)
    <3>1. PICK i \in 1..n + 1 : order[i] = k /\ i # 1
      BY <1>1 DEF Range
    <3>2. i - 1 \in 1..n /\ new[i - 1] = k
      BY <1>1, <1>2, <3>1
    <3>3. QED
      BY <1>2, <3>2 DEF Range
  <2>3. Range(new) = {new[i] : i \in 1..n}
    BY <1>2 DEF Range
  <2>4. Range(new) \subseteq Range(order) \ {order[1]}
    BY <2>1, <2>3
  <2>5. QED
    BY <2>2, <2>4
<1>4. \A i, j \in DOMAIN new : new[i] = new[j] => i = j
  <2> SUFFICES ASSUME NEW i \in 1..n, NEW j \in 1..n, new[i] = new[j] PROVE i = j
    BY <1>2
  <2>1. order[i + 1] = order[j + 1] /\ i + 1 \in 1..n + 1 /\ j + 1 \in 1..n + 1
    BY <1>1, <1>2
  <2>2. i + 1 = j + 1
    BY <1>1, <2>1 DEF WinCacheOK
  <2>3. QED
    BY <1>1, <2>2
<1>5. PICK old \in entries : old.key = order[1]
  <2>1. order[1] \in Range(order)
    BY <1>1 DEF Range
  <2>2. QED
    BY <2>1 DEF WinCacheOK
<1>6. WinEvict(order, entries) = entries \ {old}
  <2>1. WinEvict(order, entries) = {e \in entries : e.key \in Range(order) \ {order[1]}}
    BY <1>3 DEF WinEvict, new
  <2>2. \A e \in entries : e.key \in Range(order) /\ (e.key = order[1] => e = old)
    BY <1>5 DEF WinCacheOK
  <2>3. QED
    BY <1>5, <2>1, <2>2
<1>7. IsFiniteSet(entries \ {old}) /\ Cardinality(entries \ {old}) = n
  <2>1. Cardinality(entries) = n + 1 /\ IsFiniteSet(entries)
    BY <1>1 DEF WinCacheOK
  <2>2. /\ IsFiniteSet(entries \ {old})
        /\ Cardinality(entries \ {old}) = Cardinality(entries) - 1
    BY <1>5, <2>1, FS_RemoveElement
  <2>3. QED
    BY <1>1, <2>1, <2>2
<1>8. {e.key : e \in entries \ {old}} = Range(new)
  BY <1>3, <1>5 DEF WinCacheOK
<1>9. new \in Seq(Range(new))
  BY <1>2, WinOfItsOwn
<1>10. WinCacheOK(new, entries \ {old})
  BY <1>2, <1>4, <1>7, <1>8, <1>9 DEF WinCacheOK
<1>11. QED
  BY <1>2, <1>6, <1>10 DEF new

\* For any sessions, agents and limit, a cache holds no more summaries than its limit, and
\* each is under one of its keys: none is left behind that no key would evict.
THEOREM WinCacheBoundedTheorem == WinSpec => []WinCacheBounded
<1>1. WinInit => WinInv
  <2>1. Range(<<>>) = {} /\ <<>> \in Seq({}) /\ Len(<<>>) = 0 /\ DOMAIN <<>> = {}
    BY DEF Range
  <2>2. IsFiniteSet({}) /\ Cardinality({}) = 0
    BY FS_EmptySet
  <2>3. WinCacheOK(<<>>, {})
    BY <2>1, <2>2 DEF WinCacheOK
  <2>4. QED
    BY <2>1, <2>3, WinConstants DEF WinInit, WinInv
<1>2. WinInv /\ [WinNext]_winVars => WinInv'
  <2> SUFFICES ASSUME WinInv, [WinNext]_winVars PROVE WinInv'
    OBVIOUS
  <2>1. CASE UNCHANGED <<winOrder, winEntries>>
    BY <2>1 DEF WinInv
  <2>2. ASSUME NEW a \in WinAgents, NEW key, NEW writer, WinSummary(a, key, writer) PROVE WinInv'
    <3> PICK e : e = [key |-> key, writer |-> writer]
      OBVIOUS
    <3> DEFINE order == Append(winOrder[a], key)
               entries == winEntries[a] \cup {e}
    <3>1. e.key = key
      OBVIOUS
    <3>2. CASE \E f \in winEntries[a] : f.key = key
      BY <2>1, <2>2, <3>2 DEF WinSummary
    <3>3. CASE ~\E f \in winEntries[a] : f.key = key
      <4>1. key \notin Range(winOrder[a]) /\ WinCacheOK(winOrder[a], winEntries[a])
            /\ Len(winOrder[a]) <= WinMaxEntries /\ Len(winOrder[a]) \in Nat
        <5>1. WinCacheOK(winOrder[a], winEntries[a]) /\ Len(winOrder[a]) <= WinMaxEntries
          BY DEF WinInv
        <5>2. {f.key : f \in winEntries[a]} = Range(winOrder[a])
          BY <5>1 DEF WinCacheOK
        <5>3. winOrder[a] \in Seq(Range(winOrder[a]))
          BY <5>1 DEF WinCacheOK
        <5>4. Len(winOrder[a]) \in Nat
          BY <5>3
        <5>5. key \notin Range(winOrder[a])
          BY <3>3, <5>2
        <5>6. QED
          BY <5>1, <5>4, <5>5
      <4>2. WinCacheOK(order, entries) /\ Len(order) = Len(winOrder[a]) + 1
        BY <3>1, <4>1, WinAdds
      <4>3. PICK newOrder, newEntries :
                /\ newOrder = IF Len(order) <= WinMaxEntries THEN order ELSE WinKept(order)
                /\ newEntries = IF Len(order) <= WinMaxEntries THEN entries ELSE WinEvict(order, entries)
        OBVIOUS
      <4>4. WinCacheOK(newOrder, newEntries) /\ Len(newOrder) <= WinMaxEntries
        <5>1. CASE Len(order) <= WinMaxEntries
          BY <4>2, <4>3, <5>1
        <5>2. CASE ~(Len(order) <= WinMaxEntries)
          <6>1. Len(order) = WinMaxEntries + 1
            BY <4>1, <4>2, <5>2, WinConstants
          <6>2. newOrder = WinKept(order) /\ newEntries = WinEvict(order, entries)
            BY <4>3, <5>2
          <6>3. WinCacheOK(WinKept(order), WinEvict(order, entries)) /\ Len(WinKept(order)) = WinMaxEntries
            BY <4>2, <6>1, WinEvicts
          <6>4. QED
            BY <6>2, <6>3, WinConstants
        <5>3. QED
          BY <5>1, <5>2
      <4>5. /\ winOrder' = [winOrder EXCEPT ![a] = newOrder]
            /\ winEntries' = [winEntries EXCEPT ![a] = newEntries]
        BY <2>2, <3>3, <4>3 DEF WinSummary
      <4>6. QED
        BY <4>4, <4>5 DEF WinInv
    <3>4. QED
      BY <3>2, <3>3
  <2>3. ASSUME NEW a \in WinAgents, NEW writer \in WinWriters, WinTurn(a, writer) PROVE WinInv'
    BY <2>1, <2>2, <2>3 DEF WinTurn
  <2>4. CASE UNCHANGED winVars \/ \E m \in WinMessages : WinSays(m)
    BY <2>1, <2>4 DEF winVars, WinSays
  <2>5. QED
    BY <2>3, <2>4 DEF WinNext
<1>3. WinInv => WinCacheBounded
  BY DEF WinInv, WinCacheOK, WinCacheBounded
<1>4. QED
  BY <1>1, <1>2, <1>3, PTL DEF WinSpec

-----------------------------------------------------------------------------
(* What a window keeps of a session *)

\* Messages with a finite number of words.
WinTexts(msgs) ==
    /\ Len(msgs) \in Nat
    /\ \A i \in 1..Len(msgs) : IsFiniteSet(msgs[i].words)

\* What the messages up to the n-th are worth, as a function of n.
WinUpTo(msgs, places, upTo) ==
    /\ upTo \in [0..Len(msgs) -> Nat] /\ upTo[0] = 0
    /\ \A n \in 1..Len(msgs) :
          upTo[n] = upTo[n - 1] + (IF n \in places THEN WinTokens(msgs[n]) ELSE 0)

LEMMA WinTokensTyped ==
    ASSUME NEW msgs, WinTexts(msgs)
    PROVE \A i \in 1..Len(msgs) : WinTokens(msgs[i]) \in Nat
  BY FS_CardinalityType DEF WinTexts, WinTokens

LEMMA WinSumBegins ==
    ASSUME NEW msgs, WinTexts(msgs), NEW places
    PROVE \E upTo : WinUpTo(msgs, places, upTo) /\ WinSum(msgs, places) = upTo[Len(msgs)]
<1> DEFINE N == Len(msgs)
           After(n, x) == x + (IF n \in places THEN WinTokens(msgs[n]) ELSE 0)
           Body(b) == [n \in 0..N |-> IF n = 0 THEN 0 ELSE After(n, b[n - 1])]
           Next1 == [q \in (1..N) \X Nat |-> After(q[1], q[2])]
<1>1. N \in Nat
  BY DEF WinTexts
<1>2. \A n \in 1..N, x \in Nat : After(n, x) \in Nat
  BY WinTokensTyped
<1>3. \A n \in 1..N, x \in Nat : Next1[<<n, x>>] = After(n, x)
  <2> SUFFICES ASSUME NEW n \in 1..N, NEW x \in Nat PROVE Next1[<<n, x>>] = After(n, x)
    OBVIOUS
  <2>1. <<n, x>> \in (1..N) \X Nat /\ <<n, x>>[1] = n /\ <<n, x>>[2] = x
    OBVIOUS
  <2> HIDE DEF After, N
  <2> QED
    BY <2>1
<1>4. \E g : Recurs(g, N, Nat, 0, Next1)
  <2>1. 0 \in Nat /\ \A n \in 1..N, x \in Nat : Next1[<<n, x>>] \in Nat
    <3> HIDE DEF After, Next1, N
    <3> QED
      BY <1>2, <1>3
  <2> HIDE DEF N, Next1
  <2> QED
    BY ONLY <1>1, <2>1, Recursion
<1> PICK g : Recurs(g, N, Nat, 0, Next1)
  BY <1>4
<1>5. /\ g \in [0..N -> Nat] /\ g[0] = 0
      /\ \A n \in 1..N : g[n - 1] \in Nat /\ n - 1 \in 0..N /\ g[n] = After(n, g[n - 1])
  <2>1. g \in [0..N -> Nat] /\ g[0] = 0 /\ \A n \in 1..N : g[n] = Next1[<<n, g[n - 1]>>]
    BY DEF Recurs
  <2>2. \A n \in 1..N : g[n - 1] \in Nat /\ n - 1 \in 0..N
    <3> HIDE DEF N
    <3> QED
      BY <1>1, <2>1
  <2> HIDE DEF After, Next1, N
  <2> QED
    BY <1>3, <2>1, <2>2
<1>6. g = Body(g)
  <2> HIDE DEF After, N
  <2> QED
    BY <1>1, <1>5
<1> DEFINE upTo == CHOOSE b : b = Body(b)
<1>7. upTo = Body(upTo)
  <2> HIDE DEF Body
  <2> QED
    BY <1>6
<1>8. upTo[0] = 0 /\ \A n \in 1..N : upTo[n] = After(n, upTo[n - 1])
  <2> HIDE DEF upTo, After
  <2>1. upTo[0] = 0
    BY <1>1, <1>7
  <2>2. ASSUME NEW n \in 1..N PROVE upTo[n] = After(n, upTo[n - 1])
    <3>1. n \in 0..N /\ n # 0
      BY <1>1
    <3> HIDE DEF N
    <3> QED
      BY <1>7, <3>1
  <2> QED
    BY <2>1, <2>2
<1>9. upTo \in [0..N -> Nat]
  <2> DEFINE S == {n \in Nat : n <= N => upTo[n] \in Nat}
  <2> HIDE DEF upTo, After, N
  <2>1. 0 \in S
    BY <1>8
  <2>2. \A n \in Nat : n \in S => n + 1 \in S
    <3> SUFFICES ASSUME NEW n \in Nat, n \in S, n + 1 <= N PROVE upTo[n + 1] \in Nat
      OBVIOUS
    <3>1. n + 1 \in 1..N /\ upTo[n] \in Nat /\ n + 1 - 1 = n
      BY <1>1
    <3> QED
      BY <1>2, <1>8, <3>1
  <2>3. Nat \subseteq S
    <3> HIDE DEF S
    <3> QED
      BY <2>1, <2>2, ByCounting
  <2>4. \A n \in 0..N : upTo[n] \in Nat
    BY <1>1, <2>3
  <2>5. upTo = [n \in 0..N |-> upTo[n]]
    BY <1>7
  <2> HIDE DEF S
  <2> QED
    BY <2>4, <2>5
<1>10. WinUpTo(msgs, places, upTo)
  <2> HIDE DEF upTo
  <2> QED
    BY <1>8, <1>9 DEF WinUpTo
<1>11. WinSum(msgs, places) = upTo[Len(msgs)]
  BY DEF WinSum
<1> QED
  BY <1>10, <1>11

LEMMA WinSumTyped ==
    ASSUME NEW msgs, WinTexts(msgs), NEW places
    PROVE WinSum(msgs, places) \in Nat
<1>1. PICK upTo : WinUpTo(msgs, places, upTo) /\ WinSum(msgs, places) = upTo[Len(msgs)]
  BY WinSumBegins
<1>2. upTo \in [0..Len(msgs) -> Nat]
  BY <1>1 DEF WinUpTo
<1>3. Len(msgs) \in 0..Len(msgs)
  BY DEF WinTexts
<1> QED
  BY <1>1, <1>2, <1>3

\* A message more adds what it is worth.
LEMMA WinSumMore ==
    ASSUME NEW msgs, WinTexts(msgs), NEW places, NEW i \in 1..Len(msgs), i \notin places
    PROVE WinSum(msgs, places \cup {i}) = WinSum(msgs, places) + WinTokens(msgs[i])
<1> DEFINE N == Len(msgs)
           w == WinTokens(msgs[i])
           more == places \cup {i}
<1>1. N \in Nat /\ w \in Nat
  BY WinTokensTyped DEF WinTexts
<1>2. PICK u : WinUpTo(msgs, places, u) /\ WinSum(msgs, places) = u[N]
  BY WinSumBegins
<1>3. PICK v : WinUpTo(msgs, more, v) /\ WinSum(msgs, more) = v[N]
  BY WinSumBegins
<1> DEFINE S == {n \in Nat : n <= N => v[n] = u[n] + (IF i <= n THEN w ELSE 0)}
<1>4. 0 \in S
  BY <1>1, <1>2, <1>3 DEF WinUpTo
<1>5. ASSUME NEW n \in Nat, n \in S PROVE n + 1 \in S
  <2> SUFFICES ASSUME n + 1 <= N PROVE v[n + 1] = u[n + 1] + (IF i <= n + 1 THEN w ELSE 0)
    OBVIOUS
  <2>1. n + 1 \in 1..N /\ n + 1 - 1 = n /\ n \in 0..N /\ i \in Nat
    BY <1>1
  <2>2. u[n] \in Nat /\ v[n] \in Nat /\ WinTokens(msgs[n + 1]) \in Nat
    BY <1>2, <1>3, <2>1, WinTokensTyped DEF WinUpTo
  <2>3. /\ u[n + 1] = u[n] + (IF n + 1 \in places THEN WinTokens(msgs[n + 1]) ELSE 0)
        /\ v[n + 1] = v[n] + (IF n + 1 \in more THEN WinTokens(msgs[n + 1]) ELSE 0)
    BY <1>2, <1>3, <2>1 DEF WinUpTo
  <2>4. v[n] = u[n] + (IF i <= n THEN w ELSE 0)
    BY <1>5, <2>1
  <2>5. CASE i = n + 1
    <3>1. n + 1 \in more /\ n + 1 \notin places /\ ~(i <= n) /\ i <= n + 1 /\ w = WinTokens(msgs[n + 1])
      BY <2>1, <2>5
    <3> HIDE DEF w, more
    <3> QED
      BY <2>2, <2>3, <2>4, <3>1
  <2>6. CASE i # n + 1
    <3>1. (n + 1 \in more <=> n + 1 \in places) /\ (i <= n <=> i <= n + 1)
      BY <2>1, <2>6
    <3> HIDE DEF w, more
    <3> QED
      BY <1>1, <2>2, <2>3, <2>4, <3>1
  <2> QED
    BY <2>5, <2>6
<1>6. N \in S
  <2> HIDE DEF S
  <2> QED
    BY <1>1, <1>4, <1>5, ByCounting
<1> HIDE DEF N, w, more
<1>7. v[N] = u[N] + (IF i <= N THEN w ELSE 0)
  BY <1>1, <1>6
<1>8. i <= N
  BY DEF N, WinTexts
<1> QED
  BY <1>2, <1>3, <1>7, <1>8 DEF w, more

\* What is taken of one importance after n messages, as a function of n.
WinPlaces(msgs) == 1..Len(msgs)
WinMore(msgs, budget, score, n, S) ==
    LET i == Len(msgs) + 1 - n
    IN IF msgs[i].score = score /\ WinSum(msgs, S \cup {i}) <= budget THEN S \cup {i} ELSE S
WinTakes(msgs, budget, score, before, taken) ==
    /\ taken \in [0..Len(msgs) -> SUBSET WinPlaces(msgs)] /\ taken[0] = before
    /\ \A n \in 1..Len(msgs) : taken[n] = WinMore(msgs, budget, score, n, taken[n - 1])

LEMMA WinTakingBegins ==
    ASSUME NEW msgs, WinTexts(msgs), NEW budget, NEW score, NEW before \in SUBSET WinPlaces(msgs)
    PROVE \E taken : /\ WinTakes(msgs, budget, score, before, taken)
                     /\ WinTaking(msgs, budget, score, before) = taken[Len(msgs)]
<1> DEFINE N == Len(msgs)
           X == SUBSET WinPlaces(msgs)
           After(n, S) == WinMore(msgs, budget, score, n, S)
           Body(b) == [n \in 0..N |-> IF n = 0 THEN before ELSE After(n, b[n - 1])]
           Next1 == [q \in (1..N) \X X |-> After(q[1], q[2])]
<1>1. N \in Nat /\ before \in X
  BY DEF WinTexts
<1>2. \A n \in 1..N, S \in X : After(n, S) \in X
  <2> SUFFICES ASSUME NEW n \in 1..N, NEW S \in X PROVE After(n, S) \in X
    OBVIOUS
  <2>1. Len(msgs) + 1 - n \in WinPlaces(msgs)
    BY <1>1 DEF WinPlaces
  <2> QED
    BY <2>1 DEF WinMore
<1>3. \A n \in 1..N, S \in X : Next1[<<n, S>>] = After(n, S)
  <2> SUFFICES ASSUME NEW n \in 1..N, NEW S \in X PROVE Next1[<<n, S>>] = After(n, S)
    OBVIOUS
  <2>1. <<n, S>> \in (1..N) \X X /\ <<n, S>>[1] = n /\ <<n, S>>[2] = S
    OBVIOUS
  <2> HIDE DEF After, N, X
  <2> QED
    BY <2>1
<1>4. \E g : Recurs(g, N, X, before, Next1)
  <2>1. \A n \in 1..N, S \in X : Next1[<<n, S>>] \in X
    <3> HIDE DEF After, Next1, N, X
    <3> QED
      BY <1>2, <1>3
  <2> HIDE DEF N, Next1, X
  <2> QED
    BY ONLY <1>1, <2>1, Recursion
<1> PICK g : Recurs(g, N, X, before, Next1)
  BY <1>4
<1>5. /\ g \in [0..N -> X] /\ g[0] = before
      /\ \A n \in 1..N : g[n] = After(n, g[n - 1])
  <2>1. g \in [0..N -> X] /\ g[0] = before /\ \A n \in 1..N : g[n] = Next1[<<n, g[n - 1]>>]
    BY DEF Recurs
  <2>2. \A n \in 1..N : g[n - 1] \in X
    <3> HIDE DEF N, X
    <3> QED
      BY <1>1, <2>1
  <2> HIDE DEF After, Next1, N, X
  <2> QED
    BY <1>3, <2>1, <2>2
<1>6. g = Body(g)
  <2> HIDE DEF After, N, X
  <2> QED
    BY <1>1, <1>5
<1> DEFINE taken == CHOOSE b : b = Body(b)
<1>7. taken = Body(taken)
  <2> HIDE DEF Body
  <2> QED
    BY <1>6
<1>8. taken[0] = before /\ \A n \in 1..N : taken[n] = After(n, taken[n - 1])
  <2> HIDE DEF taken, After
  <2>1. taken[0] = before
    BY <1>1, <1>7
  <2>2. ASSUME NEW n \in 1..N PROVE taken[n] = After(n, taken[n - 1])
    <3>1. n \in 0..N /\ n # 0
      BY <1>1
    <3> HIDE DEF N
    <3> QED
      BY <1>7, <3>1
  <2> QED
    BY <2>1, <2>2
<1>9. taken \in [0..N -> X]
  <2> DEFINE S == {n \in Nat : n <= N => taken[n] \in X}
  <2> HIDE DEF taken, After, N, X
  <2>1. 0 \in S
    BY <1>1, <1>8
  <2>2. \A n \in Nat : n \in S => n + 1 \in S
    <3> SUFFICES ASSUME NEW n \in Nat, n \in S, n + 1 <= N PROVE taken[n + 1] \in X
      OBVIOUS
    <3>1. n + 1 \in 1..N /\ taken[n] \in X /\ n + 1 - 1 = n
      BY <1>1
    <3> QED
      BY <1>2, <1>8, <3>1
  <2>3. Nat \subseteq S
    <3> HIDE DEF S
    <3> QED
      BY <2>1, <2>2, ByCounting
  <2>4. \A n \in 0..N : taken[n] \in X
    BY <1>1, <2>3
  <2>5. taken = [n \in 0..N |-> taken[n]]
    BY <1>7
  <2> HIDE DEF S
  <2> QED
    BY <2>4, <2>5
<1>10. WinTakes(msgs, budget, score, before, taken)
  <2> HIDE DEF taken
  <2> QED
    BY <1>8, <1>9 DEF WinTakes
<1>11. WinTaking(msgs, budget, score, before) = taken[Len(msgs)]
  BY DEF WinTaking, WinMore
<1> QED
  BY <1>10, <1>11

\* After n messages: what was taken is of this importance and among the n newest, and
\* what was not would not have fitted beside what was taken before it.
WinPassed(msgs, budget, score, before, n, S) ==
    /\ S \subseteq WinPlaces(msgs) /\ before \subseteq S
    /\ \A j \in S \ before : msgs[j].score = score /\ j > Len(msgs) - n
    /\ \A i \in WinPlaces(msgs) \ S :
          i > Len(msgs) - n /\ msgs[i].score = score =>
              WinSum(msgs, {j \in S : j \in before \/ j > i}) + WinTokens(msgs[i]) > budget

LEMMA WinPassedOn ==
    ASSUME NEW msgs, WinTexts(msgs), NEW budget \in Nat, NEW score, NEW before,
           \A j \in before : msgs[j].score # score,
           NEW n \in 1..Len(msgs), NEW S, WinPassed(msgs, budget, score, before, n - 1, S)
    PROVE WinPassed(msgs, budget, score, before, n, WinMore(msgs, budget, score, n, S))
<1> DEFINE i == Len(msgs) + 1 - n
           more == S \cup {i}
<1>1. /\ Len(msgs) \in Nat /\ n \in Nat /\ n - 1 \in Nat /\ i \in WinPlaces(msgs)
      /\ Len(msgs) - n = i - 1 /\ Len(msgs) - (n - 1) = i /\ i \in Nat
      /\ \A j \in WinPlaces(msgs) : j \in Nat
  BY DEF WinPlaces, WinTexts
<1>2. S \subseteq WinPlaces(msgs) /\ before \subseteq S
  BY DEF WinPassed
<1>3. \A j \in S \ before : msgs[j].score = score /\ j > i
  BY <1>1 DEF WinPassed
<1>4. \A k \in WinPlaces(msgs) \ S : k > i /\ msgs[k].score = score =>
          WinSum(msgs, {j \in S : j \in before \/ j > k}) + WinTokens(msgs[k]) > budget
  BY <1>1 DEF WinPassed
<1>5. msgs[i].score = score => i \notin S
  <2>1. ~(i > i)
    BY <1>1
  <2> HIDE DEF i
  <2> QED
    BY <1>3, <2>1
<1>6. CASE msgs[i].score = score /\ WinSum(msgs, more) <= budget
  <2>1. WinMore(msgs, budget, score, n, S) = more
    BY <1>6 DEF WinMore
  <2> HIDE DEF i
  <2>2. more \subseteq WinPlaces(msgs) /\ before \subseteq more
    BY <1>1, <1>2
  <2>3. \A j \in more \ before : msgs[j].score = score /\ j > i - 1
    BY <1>1, <1>2, <1>3, <1>6
  <2>4. ASSUME NEW k \in WinPlaces(msgs) \ more, k > i - 1, msgs[k].score = score
        PROVE WinSum(msgs, {j \in more : j \in before \/ j > k}) + WinTokens(msgs[k]) > budget
    <3>1. k \in WinPlaces(msgs) \ S /\ k > i
      BY <1>1, <2>4
    <3>2. i \notin before /\ ~(i > k)
      BY <1>1, <1>2, <1>5, <1>6, <3>1
    <3>3. {j \in more : j \in before \/ j > k} = {j \in S : j \in before \/ j > k}
      BY <3>2
    <3> QED
      BY <1>4, <2>4, <3>1, <3>3
  <2> HIDE DEF more
  <2> QED
    BY <1>1, <2>1, <2>2, <2>3, <2>4 DEF WinPassed
<1>7. CASE ~(msgs[i].score = score /\ WinSum(msgs, more) <= budget)
  <2>1. WinMore(msgs, budget, score, n, S) = S
    BY <1>7 DEF WinMore
  <2>2. \A j \in S \ before : msgs[j].score = score /\ j > i - 1
    <3> HIDE DEF i
    <3> QED
      BY <1>1, <1>2, <1>3
  <2>3. ASSUME NEW k \in WinPlaces(msgs) \ S, k > i - 1, msgs[k].score = score
        PROVE WinSum(msgs, {j \in S : j \in before \/ j > k}) + WinTokens(msgs[k]) > budget
    <3>1. CASE k = i
      <4>1. {j \in S : j \in before \/ j > k} = S
        <5>1. \A j \in S : j \in before \/ j > k
          <6> HIDE DEF i
          <6> QED
            BY <1>3, <3>1
        <5> HIDE DEF i
        <5> QED
          BY <5>1
      <4>2. i \in 1..Len(msgs) /\ i \notin S
        BY <1>1, <1>5, <2>3, <3>1 DEF WinPlaces
      <4> HIDE DEF i
      <4>3. WinSum(msgs, more) = WinSum(msgs, S) + WinTokens(msgs[i])
        BY <4>2, WinSumMore
      <4>4. WinSum(msgs, S) \in Nat /\ WinTokens(msgs[i]) \in Nat
        BY <4>2, WinSumTyped, WinTokensTyped
      <4>5. ~(WinSum(msgs, more) <= budget)
        BY <1>7, <2>3, <3>1
      <4> HIDE DEF more
      <4>6. WinSum(msgs, S) + WinTokens(msgs[i]) > budget
        BY <4>3, <4>4, <4>5
      <4>7. WinTokens(msgs[i]) = WinTokens(msgs[k])
        BY <3>1
      <4> QED
        BY <4>1, <4>6, <4>7
    <3>2. CASE k # i
      <4>1. k > i
        BY <1>1, <2>3, <3>2
      <4> QED
        BY <1>4, <2>3, <4>1
    <3> QED
      BY <3>1, <3>2
  <2> HIDE DEF i, more
  <2> QED
    BY <1>1, <1>2, <2>1, <2>2, <2>3 DEF WinPassed
<1> QED
  BY <1>6, <1>7

LEMMA WinTakingPasses ==
    ASSUME NEW msgs, WinTexts(msgs), NEW budget \in Nat, NEW score,
           NEW before \in SUBSET WinPlaces(msgs), \A j \in before : msgs[j].score # score
    PROVE WinPassed(msgs, budget, score, before, Len(msgs), WinTaking(msgs, budget, score, before))
<1> DEFINE N == Len(msgs)
<1>1. N \in Nat
  BY DEF WinTexts
<1>2. PICK taken : /\ WinTakes(msgs, budget, score, before, taken)
                   /\ WinTaking(msgs, budget, score, before) = taken[N]
  BY WinTakingBegins
<1> DEFINE S == {n \in Nat : n <= N => WinPassed(msgs, budget, score, before, n, taken[n])}
<1>3. 0 \in S
  <2>1. taken[0] = before
    BY <1>2 DEF WinTakes
  <2>2. \A i \in WinPlaces(msgs) : ~(i > N - 0)
    BY <1>1 DEF WinPlaces
  <2> QED
    BY <2>1, <2>2 DEF WinPassed
<1>4. ASSUME NEW n \in Nat, n \in S PROVE n + 1 \in S
  <2> SUFFICES ASSUME n + 1 <= N PROVE WinPassed(msgs, budget, score, before, n + 1, taken[n + 1])
    OBVIOUS
  <2> DEFINE k == n + 1
  <2>1. k \in 1..N /\ k - 1 = n
    BY <1>1
  <2>2. WinPassed(msgs, budget, score, before, k - 1, taken[k - 1])
    BY <1>1, <1>4, <2>1
  <2> HIDE DEF k
  <2>3. taken[k] = WinMore(msgs, budget, score, k, taken[k - 1])
    BY <1>2, <2>1 DEF WinTakes
  <2>4. WinPassed(msgs, budget, score, before, k, taken[k])
    BY <2>1, <2>2, <2>3, WinPassedOn
  <2> QED
    BY <2>4 DEF k
<1>5. N \in S
  <2> HIDE DEF S
  <2> QED
    BY <1>1, <1>3, <1>4, ByCounting
<1> QED
  BY <1>1, <1>2, <1>5

\* The messages of a window, each with its importance.
WinGraded(msgs) == WinTexts(msgs) /\ \A i \in WinPlaces(msgs) : msgs[i].score \in 1..4

\* What was taken down to an importance: nothing below it, and what was left out of it or
\* above it would not have fitted beside what goes before it.
WinBefore(msgs, S, i) ==
    {j \in S : msgs[j].score > msgs[i].score \/ (msgs[j].score = msgs[i].score /\ j > i)}
WinTakenDownTo(msgs, budget, score, S) ==
    /\ S \subseteq WinPlaces(msgs)
    /\ \A j \in S : msgs[j].score >= score
    /\ \A i \in WinPlaces(msgs) \ S :
          msgs[i].score >= score => WinSum(msgs, WinBefore(msgs, S, i)) + WinTokens(msgs[i]) > budget

LEMMA WinTakingOn ==
    ASSUME NEW msgs, WinGraded(msgs), NEW budget \in Nat, NEW score \in 1..4,
           NEW before, WinTakenDownTo(msgs, budget, score + 1, before)
    PROVE WinTakenDownTo(msgs, budget, score, WinTaking(msgs, budget, score, before))
<1> DEFINE S == WinTaking(msgs, budget, score, before)
<1>1. /\ Len(msgs) \in Nat /\ WinTexts(msgs) /\ score \in Nat
      /\ \A i \in WinPlaces(msgs) : i \in Nat /\ i > Len(msgs) - Len(msgs) /\ msgs[i].score \in Nat
  BY DEF WinGraded, WinTexts, WinPlaces
<1>2. before \in SUBSET WinPlaces(msgs) /\ \A j \in before : msgs[j].score > score
  BY <1>1 DEF WinTakenDownTo
<1>3. WinPassed(msgs, budget, score, before, Len(msgs), S)
  <2>1. \A j \in before : msgs[j].score # score
    BY <1>1, <1>2
  <2> HIDE DEF S
  <2> QED
    BY <1>1, <1>2, <2>1, WinTakingPasses DEF S
<1> HIDE DEF S
<1>4. S \subseteq WinPlaces(msgs) /\ before \subseteq S /\ \A j \in S \ before : msgs[j].score = score
  BY <1>3 DEF WinPassed
<1>5. \A j \in S : msgs[j].score >= score
  BY <1>1, <1>2, <1>4
<1>6. ASSUME NEW i \in WinPlaces(msgs) \ S, msgs[i].score >= score
      PROVE WinSum(msgs, WinBefore(msgs, S, i)) + WinTokens(msgs[i]) > budget
  <2>1. CASE msgs[i].score = score
    <3>1. {j \in S : j \in before \/ j > i} = WinBefore(msgs, S, i)
      <4>1. ASSUME NEW j \in S
            PROVE (j \in before \/ j > i) <=>
                  msgs[j].score > msgs[i].score \/ (msgs[j].score = msgs[i].score /\ j > i)
        <5>1. j \in WinPlaces(msgs) /\ j \in Nat /\ i \in Nat /\ msgs[j].score \in Nat
          BY <1>1, <1>4
        <5>2. CASE j \in before
          <6>1. msgs[j].score > score
            BY <1>2, <5>2
          <6> QED
            BY <2>1, <5>2, <6>1
        <5>3. CASE j \notin before
          <6>1. msgs[j].score = score
            BY <1>4, <5>3
          <6>2. ~(score > score)
            BY <1>1
          <6>3. ~(msgs[j].score > msgs[i].score) /\ msgs[j].score = msgs[i].score
            BY <2>1, <6>1, <6>2
          <6> QED
            BY <5>3, <6>3
        <5> QED
          BY <5>2, <5>3
      <4> QED
        BY <4>1 DEF WinBefore
    <3>2. WinSum(msgs, {j \in S : j \in before \/ j > i}) + WinTokens(msgs[i]) > budget
      BY <1>1, <1>3, <2>1 DEF WinPassed
    <3> QED
      BY <3>1, <3>2
  <2>2. CASE msgs[i].score # score
    <3>1. i \in WinPlaces(msgs) \ before /\ msgs[i].score >= score + 1
      BY <1>1, <1>4, <1>6, <2>2
    <3>2. WinBefore(msgs, S, i) = WinBefore(msgs, before, i)
      <4>1. ASSUME NEW j \in S, j \notin before
            PROVE ~(msgs[j].score > msgs[i].score \/ (msgs[j].score = msgs[i].score /\ j > i))
        <5>1. msgs[j].score = score
          BY <1>4, <4>1
        <5> QED
          BY <1>1, <3>1, <5>1
      <4> QED
        BY <1>4, <4>1 DEF WinBefore
    <3>3. WinSum(msgs, WinBefore(msgs, before, i)) + WinTokens(msgs[i]) > budget
      BY <3>1 DEF WinTakenDownTo
    <3> QED
      BY <3>2, <3>3
  <2> QED
    BY <2>1, <2>2
<1> QED
  BY <1>4, <1>5, <1>6 DEF WinTakenDownTo, S

\* Of any messages: what the window leaves out would not have fitted.
LEMMA WinSelectedFits ==
    ASSUME NEW msgs, WinGraded(msgs), NEW budget \in Nat
    PROVE WinTakenDownTo(msgs, budget, 1, WinSelected(msgs, budget))
<1> DEFINE critical == WinTaking(msgs, budget, 4, {})
           high == WinTaking(msgs, budget, 3, critical)
           medium == WinTaking(msgs, budget, 2, high)
<1>1. WinTakenDownTo(msgs, budget, 5, {})
  BY DEF WinGraded, WinTakenDownTo
<1>2. WinTakenDownTo(msgs, budget, 4, critical)
  <2>1. 4 \in 1..4 /\ WinTakenDownTo(msgs, budget, 4 + 1, {})
    BY <1>1
  <2> QED
    BY ONLY WinGraded(msgs), budget \in Nat, <2>1, WinTakingOn
<1> HIDE DEF critical
<1>3. WinTakenDownTo(msgs, budget, 3, high)
  <2>1. 3 \in 1..4 /\ WinTakenDownTo(msgs, budget, 3 + 1, critical)
    BY <1>2
  <2> QED
    BY ONLY WinGraded(msgs), budget \in Nat, <2>1, WinTakingOn
<1> HIDE DEF high
<1>4. WinTakenDownTo(msgs, budget, 2, medium)
  <2>1. 2 \in 1..4 /\ WinTakenDownTo(msgs, budget, 2 + 1, high)
    BY <1>3
  <2> QED
    BY ONLY WinGraded(msgs), budget \in Nat, <2>1, WinTakingOn
<1> HIDE DEF medium
<1>5. WinTakenDownTo(msgs, budget, 1, WinTaking(msgs, budget, 1, medium))
  <2>1. 1 \in 1..4 /\ WinTakenDownTo(msgs, budget, 1 + 1, medium)
    BY <1>4
  <2> QED
    BY ONLY WinGraded(msgs), budget \in Nat, <2>1, WinTakingOn
<1> QED
  BY <1>5 DEF WinSelected, critical, high, medium

\* Without its repetitions a session is a sequence of its messages.
WinNewest(msgs, n, seen) ==
    LET m == msgs[Len(msgs) + 1 - n] IN IF m \in Range(seen) THEN seen ELSE <<m>> \o seen

LEMMA WinDeduplicatedTyped ==
    ASSUME NEW M, NEW msgs \in Seq(M)
    PROVE WinDeduplicated(msgs) \in Seq(M)
<1> DEFINE N == Len(msgs)
           X == Seq(M)
           After(n, seen) == WinNewest(msgs, n, seen)
           Body(b) == [n \in 0..N |-> IF n = 0 THEN <<>> ELSE After(n, b[n - 1])]
           Next1 == [q \in (1..N) \X X |-> After(q[1], q[2])]
           start == <<>>
<1>1. N \in Nat /\ start \in X
  OBVIOUS
<1>2. \A n \in 1..N, seen \in X : After(n, seen) \in X
  <2> SUFFICES ASSUME NEW n \in 1..N, NEW seen \in X PROVE After(n, seen) \in X
    OBVIOUS
  <2> DEFINE m == msgs[Len(msgs) + 1 - n]
  <2>1. m \in M
    <3>1. Len(msgs) + 1 - n \in 1..Len(msgs)
      BY <1>1
    <3> QED
      BY <3>1
  <2> HIDE DEF m
  <2>2. <<m>> \in Seq(M)
    BY <2>1
  <2>3. <<m>> \o seen \in Seq(M)
    BY <2>2
  <2> QED
    BY <2>3 DEF WinNewest, m
<1>3. \A n \in 1..N, seen \in X : Next1[<<n, seen>>] = After(n, seen)
  <2> SUFFICES ASSUME NEW n \in 1..N, NEW seen \in X PROVE Next1[<<n, seen>>] = After(n, seen)
    OBVIOUS
  <2>1. <<n, seen>> \in (1..N) \X X /\ <<n, seen>>[1] = n /\ <<n, seen>>[2] = seen
    OBVIOUS
  <2> HIDE DEF After, N, X
  <2> QED
    BY <2>1
<1>4. \E g : Recurs(g, N, X, start, Next1)
  <2>1. \A n \in 1..N, seen \in X : Next1[<<n, seen>>] \in X
    <3> HIDE DEF After, Next1, N, X
    <3> QED
      BY <1>2, <1>3
  <2> HIDE DEF N, Next1, X, start
  <2> QED
    BY ONLY <1>1, <2>1, Recursion
<1> PICK g : Recurs(g, N, X, start, Next1)
  BY <1>4
<1>5. /\ g \in [0..N -> X] /\ g[0] = <<>>
      /\ \A n \in 1..N : g[n] = After(n, g[n - 1])
  <2>1. g \in [0..N -> X] /\ g[0] = start /\ \A n \in 1..N : g[n] = Next1[<<n, g[n - 1]>>]
    BY DEF Recurs
  <2>2. \A n \in 1..N : g[n - 1] \in X
    <3> HIDE DEF N, X
    <3> QED
      BY <1>1, <2>1
  <2> HIDE DEF After, Next1, N, X
  <2> QED
    BY <1>3, <2>1, <2>2
<1>6. g = Body(g)
  <2> HIDE DEF After, N, X
  <2> QED
    BY <1>1, <1>5
<1> DEFINE newest == CHOOSE b : b = Body(b)
<1>7. newest = Body(newest)
  <2> HIDE DEF Body
  <2> QED
    BY <1>6
<1>8. newest[0] = start /\ \A n \in 1..N : newest[n] = After(n, newest[n - 1])
  <2> HIDE DEF newest, After
  <2>1. newest[0] = <<>>
    BY <1>1, <1>7
  <2>2. ASSUME NEW n \in 1..N PROVE newest[n] = After(n, newest[n - 1])
    <3>1. n \in 0..N /\ n # 0
      BY <1>1
    <3> HIDE DEF N
    <3> QED
      BY <1>7, <3>1
  <2> QED
    BY <2>1, <2>2
<1>9. newest[N] \in X
  <2> DEFINE S == {n \in Nat : n <= N => newest[n] \in X}
  <2> HIDE DEF newest, After, N, X, start
  <2>1. 0 \in S
    BY <1>1, <1>8
  <2>2. \A n \in Nat : n \in S => n + 1 \in S
    <3> SUFFICES ASSUME NEW n \in Nat, n \in S, n + 1 <= N PROVE newest[n + 1] \in X
      OBVIOUS
    <3>1. n + 1 \in 1..N /\ newest[n] \in X /\ n + 1 - 1 = n
      BY <1>1
    <3> QED
      BY <1>2, <1>8, <3>1
  <2>3. Nat \subseteq S
    <3> HIDE DEF S
    <3> QED
      BY <2>1, <2>2, ByCounting
  <2> QED
    BY <1>1, <2>3
<1>10. WinDeduplicated(msgs) = newest[N]
  BY DEF WinDeduplicated, WinNewest
<1> QED
  BY <1>9, <1>10

\* Up to three words are a finite set.
LEMMA WordsFinite ==
    ASSUME NEW a, NEW b, NEW c
    PROVE IsFiniteSet({a}) /\ IsFiniteSet({a, b}) /\ IsFiniteSet({a, b, c})
<1>1. IsFiniteSet({} \cup {a})
  BY FS_EmptySet, FS_AddElement
<1>2. IsFiniteSet(({} \cup {a}) \cup {b})
  <2> QED
    BY <1>1, FS_AddElement
<1>3. IsFiniteSet((({} \cup {a}) \cup {b}) \cup {c})
  BY <1>2, FS_AddElement
<1>4. {} \cup {a} = {a} /\ ({} \cup {a}) \cup {b} = {a, b} /\ (({} \cup {a}) \cup {b}) \cup {c} = {a, b, c}
  OBVIOUS
<1> QED
  BY <1>1, <1>2, <1>3, <1>4

\* The messages of a session are graded.
LEMMA WinScoredGraded ==
    ASSUME winSession \in Seq(WinMessages)
    PROVE WinGraded(WinScored(winSession)) /\ DOMAIN WinScored(winSession) = WinPlaces(WinScored(winSession))
<1> PICK msgs : msgs = WinDeduplicated(winSession)
  OBVIOUS
<1> DEFINE keywords == WinLastUser(winSession) \cap WinKeywords
           profile == WinProfile(winSession)
           Scored(i) == [role |-> msgs[i].role, words |-> msgs[i].words,
                         score |-> WinScore(msgs[i], keywords, profile)]
           scored == [i \in 1..Len(msgs) |-> Scored(i)]
<1>1. msgs \in Seq(WinMessages)
  BY WinDeduplicatedTyped
<1>2. WinScored(winSession) = scored
  BY DEF WinScored
<1>3. Len(msgs) \in Nat /\ DOMAIN scored = 1..Len(msgs) /\ Len(scored) = Len(msgs)
  <2>1. Len(msgs) \in Nat
    BY <1>1
  <2> HIDE DEF Scored
  <2> QED
    BY <2>1
<1>4. ASSUME NEW m \in WinMessages PROVE IsFiniteSet(m.words)
  <2>1. \/ m.words = {"fix", "parser"} \/ m.words = {"plan"} \/ m.words = {"parser", "trace", "a"}
        \/ m.words = {"log"} \/ m.words = {"error", "c"}
    BY DEF WinMessages
  <2>2. IsFiniteSet({"fix", "parser"}) /\ IsFiniteSet({"plan"}) /\ IsFiniteSet({"parser", "trace", "a"})
    BY WordsFinite
  <2>3. IsFiniteSet({"log"}) /\ IsFiniteSet({"error", "c"})
    BY WordsFinite
  <2> QED
    BY ONLY <2>1, <2>2, <2>3
<1>5. \A m : WinScore(m, keywords, profile) \in 1..4
  BY DEF WinScore
<1>6. \A i \in 1..Len(msgs) : msgs[i] \in WinMessages
  BY <1>1
<1>7. \A i \in 1..Len(msgs) : scored[i].words = msgs[i].words /\ scored[i].score \in 1..4
  <2> HIDE DEF keywords, profile
  <2> QED
    BY <1>5
<1> HIDE DEF scored
<1> QED
  BY <1>2, <1>3, <1>4, <1>6, <1>7 DEF WinGraded, WinTexts, WinPlaces

LEMMA WinNothingDisplaced ==
    ASSUME winSession \in Seq(WinMessages)
    PROVE WinNoneDisplaced
<1> PICK msgs : msgs = WinScored(winSession)
  OBVIOUS
<1>1. WinGraded(msgs) /\ DOMAIN msgs = WinPlaces(msgs)
  BY WinScoredGraded
<1> SUFFICES ASSUME NEW budget \in 0..WinSize + 2,
                    NEW i \in DOMAIN msgs \ WinSelected(msgs, budget)
             PROVE WinSum(msgs, WinBefore(msgs, WinSelected(msgs, budget), i)) + WinTokens(msgs[i]) > budget
  BY DEF WinNoneDisplaced, WinBefore
<1>2. budget \in Nat
  BY WinConstants
<1>3. WinTakenDownTo(msgs, budget, 1, WinSelected(msgs, budget))
  BY <1>1, <1>2, WinSelectedFits
<1>4. i \in WinPlaces(msgs) \ WinSelected(msgs, budget) /\ msgs[i].score >= 1
  BY <1>1 DEF WinGraded
<1> QED
  BY <1>3, <1>4 DEF WinTakenDownTo

\* What passes the filter, counted.
WinPassedBy(msgs, f, n) == {i \in 1..n : WinPasses(msgs[i], f)}
WinFiltered(msgs, f, n, passing) ==
    IF WinPasses(msgs[n], f) THEN Append(passing, msgs[n]) ELSE passing

LEMMA WinPassedByOne ==
    ASSUME NEW msgs, NEW f, NEW n \in Nat, IsFiniteSet(WinPassedBy(msgs, f, n))
    PROVE /\ IsFiniteSet(WinPassedBy(msgs, f, n + 1))
          /\ Cardinality(WinPassedBy(msgs, f, n + 1)) =
                 Cardinality(WinPassedBy(msgs, f, n)) + (IF WinPasses(msgs[n + 1], f) THEN 1 ELSE 0)
<1> DEFINE A == WinPassedBy(msgs, f, n)
           B == WinPassedBy(msgs, f, n + 1)
<1>1. n + 1 \notin A /\ Cardinality(A) \in Nat
  BY FS_CardinalityType DEF WinPassedBy
<1>2. CASE WinPasses(msgs[n + 1], f)
  <2>1. B = A \cup {n + 1}
    BY <1>2 DEF WinPassedBy
  <2> HIDE DEF A, B
  <2>2. IsFiniteSet(A)
    BY DEF A
  <2>3. IsFiniteSet(B) /\ Cardinality(B) = Cardinality(A) + 1
    BY <1>1, <2>1, <2>2, FS_AddElement
  <2> QED
    BY <1>2, <2>3 DEF A, B
<1>3. CASE ~WinPasses(msgs[n + 1], f)
  <2>1. B = A
    BY <1>3 DEF WinPassedBy
  <2> QED
    BY <1>1, <1>3, <2>1
<1> QED
  BY <1>2, <1>3

LEMMA WinPassingCounted ==
    ASSUME NEW M, NEW msgs \in Seq(M), NEW f
    PROVE /\ WinPassing(msgs, f) \in Seq(M)
          /\ Len(WinPassing(msgs, f)) = Cardinality(WinPassedBy(msgs, f, Len(msgs)))
          /\ IsFiniteSet(WinPassedBy(msgs, f, Len(msgs)))
<1> DEFINE N == Len(msgs)
           X == Seq(M)
           After(n, seen) == WinFiltered(msgs, f, n, seen)
           Body(b) == [n \in 0..N |-> IF n = 0 THEN <<>> ELSE After(n, b[n - 1])]
           Next1 == [q \in (1..N) \X X |-> After(q[1], q[2])]
           start == <<>>
<1>1. N \in Nat /\ start \in X
  OBVIOUS
<1>2. \A n \in 1..N, seen \in X : /\ After(n, seen) \in X
                                  /\ Len(After(n, seen)) = Len(seen) + (IF WinPasses(msgs[n], f) THEN 1 ELSE 0)
  <2> SUFFICES ASSUME NEW n \in 1..N, NEW seen \in X
               PROVE /\ After(n, seen) \in X
                     /\ Len(After(n, seen)) = Len(seen) + (IF WinPasses(msgs[n], f) THEN 1 ELSE 0)
    OBVIOUS
  <2>1. msgs[n] \in M
    BY <1>1
  <2>2. /\ Append(seen, msgs[n]) \in Seq(M) /\ Len(Append(seen, msgs[n])) = Len(seen) + 1
        /\ Len(seen) + 0 = Len(seen)
    BY <2>1
  <2> QED
    BY <2>2 DEF WinFiltered
<1>3. \A n \in 1..N, seen \in X : Next1[<<n, seen>>] = After(n, seen)
  <2> SUFFICES ASSUME NEW n \in 1..N, NEW seen \in X PROVE Next1[<<n, seen>>] = After(n, seen)
    OBVIOUS
  <2>1. <<n, seen>> \in (1..N) \X X /\ <<n, seen>>[1] = n /\ <<n, seen>>[2] = seen
    OBVIOUS
  <2> HIDE DEF After, N, X
  <2> QED
    BY <2>1
<1>4. \E g : Recurs(g, N, X, start, Next1)
  <2>1. \A n \in 1..N, seen \in X : Next1[<<n, seen>>] \in X
    <3> HIDE DEF After, Next1, N, X
    <3> QED
      BY <1>2, <1>3
  <2> HIDE DEF N, Next1, X, start
  <2> QED
    BY ONLY <1>1, <2>1, Recursion
<1> PICK g : Recurs(g, N, X, start, Next1)
  BY <1>4
<1>5. /\ g \in [0..N -> X] /\ g[0] = <<>>
      /\ \A n \in 1..N : g[n] = After(n, g[n - 1])
  <2>1. g \in [0..N -> X] /\ g[0] = start /\ \A n \in 1..N : g[n] = Next1[<<n, g[n - 1]>>]
    BY DEF Recurs
  <2>2. \A n \in 1..N : g[n - 1] \in X
    <3> HIDE DEF N, X
    <3> QED
      BY <1>1, <2>1
  <2> HIDE DEF After, Next1, N, X
  <2> QED
    BY <1>3, <2>1, <2>2
<1>6. g = Body(g)
  <2> HIDE DEF After, N, X
  <2> QED
    BY <1>1, <1>5
<1> DEFINE passing == CHOOSE b : b = Body(b)
<1>7. passing = Body(passing)
  <2> HIDE DEF Body
  <2> QED
    BY <1>6
<1>8. passing[0] = start /\ \A n \in 1..N : passing[n] = After(n, passing[n - 1])
  <2> HIDE DEF passing, After
  <2>1. passing[0] = <<>>
    BY <1>1, <1>7
  <2>2. ASSUME NEW n \in 1..N PROVE passing[n] = After(n, passing[n - 1])
    <3>1. n \in 0..N /\ n # 0
      BY <1>1
    <3> HIDE DEF N
    <3> QED
      BY <1>7, <3>1
  <2> QED
    BY <2>1, <2>2
<1>9. /\ passing[N] \in X /\ Len(passing[N]) = Cardinality(WinPassedBy(msgs, f, N))
      /\ IsFiniteSet(WinPassedBy(msgs, f, N))
  <2> DEFINE Counted(n) == /\ passing[n] \in X /\ Len(passing[n]) = Cardinality(WinPassedBy(msgs, f, n))
                           /\ IsFiniteSet(WinPassedBy(msgs, f, n))
             S == {n \in Nat : n <= N => Counted(n)}
  <2> HIDE DEF passing, After, N
  <2>1. 0 \in S
    <3>1. WinPassedBy(msgs, f, 0) = {}
      BY DEF WinPassedBy
    <3>2. Len(start) = 0
      OBVIOUS
    <3> QED
      BY <1>1, <1>8, <3>1, <3>2, FS_EmptySet
  <2>2. \A n \in Nat : n \in S => n + 1 \in S
    <3> SUFFICES ASSUME NEW n \in Nat, n \in S, n + 1 <= N PROVE Counted(n + 1)
      OBVIOUS
    <3>1. n + 1 \in 1..N /\ Counted(n) /\ n + 1 - 1 = n
      BY <1>1
    <3>2. passing[n + 1] = After(n + 1, passing[n])
      BY <1>8, <3>1
    <3>3. /\ After(n + 1, passing[n]) \in X
          /\ Len(After(n + 1, passing[n])) = Len(passing[n]) + (IF WinPasses(msgs[n + 1], f) THEN 1 ELSE 0)
      <4> HIDE DEF X
      <4> QED
        BY <1>2, <3>1
    <3>4. IsFiniteSet(WinPassedBy(msgs, f, n))
      BY <3>1
    <3>5. /\ IsFiniteSet(WinPassedBy(msgs, f, n + 1))
          /\ Cardinality(WinPassedBy(msgs, f, n + 1)) =
                 Cardinality(WinPassedBy(msgs, f, n)) + (IF WinPasses(msgs[n + 1], f) THEN 1 ELSE 0)
      BY <3>4, WinPassedByOne
    <3> HIDE DEF X, After
    <3>6. passing[n + 1] \in X
      BY <3>2, <3>3
    <3>7. Len(passing[n + 1]) = Cardinality(WinPassedBy(msgs, f, n + 1))
      BY <3>1, <3>2, <3>3, <3>5
    <3> QED
      BY <3>5, <3>6, <3>7
  <2>3. Nat \subseteq S
    <3> HIDE DEF S
    <3> QED
      BY <2>1, <2>2, ByCounting
  <2> QED
    BY <1>1, <2>3
<1>10. WinPassing(msgs, f) = passing[N]
  BY DEF WinPassing, WinFiltered
<1> QED
  BY <1>9, <1>10

LEMMA WinShowsEnough ==
    ASSUME winSession \in Seq(WinMessages)
    PROVE WinShownEnough
<1> SUFFICES ASSUME NEW f \in WinFilters, f.budget = 0
             PROVE LET Passing == {i \in DOMAIN winSession : WinPasses(winSession[i], f)}
                       shown == Len(WinSubContext(winSession, f)) - (IF f.workspace THEN 1 ELSE 0)
                   IN shown = IF f.last < Cardinality(Passing) THEN f.last ELSE Cardinality(Passing)
  BY DEF WinShownEnough
<1> DEFINE passing == WinPassing(winSession, f)
           front == IF f.workspace THEN <<WinWorkspace>> ELSE <<>>
           Passing == {i \in DOMAIN winSession : WinPasses(winSession[i], f)}
           n == Len(passing)
           All == WinMessages \cup {WinWorkspace}
<1>1. passing \in Seq(WinMessages) /\ n = Cardinality(Passing)
  <2>1. Passing = WinPassedBy(winSession, f, Len(winSession))
    BY DEF WinPassedBy
  <2> HIDE DEF Passing
  <2> QED
    BY <2>1, WinPassingCounted
<1>2. n \in Nat /\ f.last \in Nat /\ f.last # 0 /\ f.workspace \in BOOLEAN
  BY <1>1 DEF WinFilters
<1> HIDE DEF passing
<1>3. WinLast(winSession, f) \in Seq(All)
      /\ Len(WinLast(winSession, f)) = IF f.last < n THEN f.last ELSE n
  <2> DEFINE from == IF f.last < n THEN n - f.last + 1 ELSE 1
  <2>1. WinLast(winSession, f) = SubSeq(passing, from, n)
    BY DEF WinLast, passing
  <2>2. from \in 1..n + 1 /\ n - from + 1 = IF f.last < n THEN f.last ELSE n
    BY <1>2
  <2>3. SubSeq(passing, from, n) \in Seq(All) /\ Len(SubSeq(passing, from, n)) = n - from + 1
    <3>1. from \in 1..Len(passing) + 1 /\ n \in 0..Len(passing)
      BY <1>2, <2>2
    <3> HIDE DEF from
    <3> PICK a, b : a = from /\ b = n
      OBVIOUS
    <3>2. a \in Int /\ b \in Int /\ \A i \in a..b : passing[i] \in All
      <4>1. \A i \in 1..Len(passing) : passing[i] \in All
        BY <1>1
      <4>2. a \in Int /\ b \in Int /\ \A i \in a..b : i \in 1..Len(passing)
        BY <1>2, <3>1
      <4> HIDE DEF All
      <4> QED
        BY <3>1, <4>1, <4>2
    <3>3. /\ SubSeq(passing, a, b) \in Seq(All)
          /\ Len(SubSeq(passing, a, b)) = IF a <= b THEN b - a + 1 ELSE 0
      BY ONLY <3>2, SubSeqProperties
    <3>4. a \in Nat /\ b \in Nat /\ a <= b + 1 /\ a = from /\ b = n
      BY <1>2, <2>2
    <3> QED
      BY <3>3, <3>4
  <2> HIDE DEF from
  <2> QED
    BY <2>1, <2>2, <2>3
<1>4. WinSubContext(winSession, f) = front \o WinLast(winSession, f)
  BY DEF WinSubContext, WinTrim
<1>5. Len(front \o WinLast(winSession, f)) = (IF f.workspace THEN 1 ELSE 0) + Len(WinLast(winSession, f))
  <2>1. front \in Seq(All) /\ Len(front) = (IF f.workspace THEN 1 ELSE 0)
    <3>1. WinWorkspace \in All
      OBVIOUS
    <3> HIDE DEF All
    <3>2. <<WinWorkspace>> \in Seq(All) /\ Len(<<WinWorkspace>>) = 1 /\ <<>> \in Seq(All) /\ Len(<<>>) = 0
      BY <3>1
    <3> QED
      BY <3>2
  <2> HIDE DEF All, front
  <2> PICK x, y : x = front /\ y = WinLast(winSession, f)
    OBVIOUS
  <2>2. x \in Seq(All) /\ y \in Seq(All)
    BY <1>3, <2>1
  <2>3. Len(x \o y) = Len(x) + Len(y)
    BY ONLY <2>2, ConcatProperties
  <2> QED
    BY <2>1, <2>3
<1> HIDE DEF front, Passing
<1>6. Len(WinSubContext(winSession, f)) - (IF f.workspace THEN 1 ELSE 0) = IF f.last < n THEN f.last ELSE n
  <2>1. Len(WinLast(winSession, f)) \in Nat
    BY <1>3
  <2> QED
    BY <1>2, <1>3, <1>4, <1>5, <2>1
<1> QED
  BY <1>1, <1>6 DEF Passing

\* The session is a sequence of messages, in every state.
WinSessionTyped == winSession \in Seq(WinMessages)

\* What a context window leaves out would not have fitted, and an agent that is called is shown
\* as many messages as it asked for (build_context_window, build_sub_agent_context), for every
\* number of agents, budget, length of the session and size of the cache.
THEOREM WinKeepsWhatFitsTheorem == WinSpec => []WinKeepsWhatFits
<1>1. WinInit => WinSessionTyped
  BY DEF WinInit, WinSessionTyped
<1>2. WinSessionTyped /\ [WinNext]_winVars => WinSessionTyped'
  <2> SUFFICES ASSUME WinSessionTyped, [WinNext]_winVars PROVE WinSessionTyped'
    OBVIOUS
  <2>1. CASE UNCHANGED winVars
    BY <2>1 DEF winVars, WinSessionTyped
  <2>2. ASSUME NEW m \in WinMessages, WinSays(m) PROVE WinSessionTyped'
    BY <2>2 DEF WinSays, WinSessionTyped
  <2>3. ASSUME NEW a \in WinAgents, NEW writer \in WinWriters, WinTurn(a, writer) PROVE WinSessionTyped'
    BY <2>3 DEF WinTurn, WinSessionTyped
  <2> QED
    BY <2>1, <2>2, <2>3 DEF WinNext
<1>3. WinSessionTyped => WinKeepsWhatFits
  BY WinNothingDisplaced, WinShowsEnough DEF WinSessionTyped, WinKeepsWhatFits
<1> QED
  BY <1>1, <1>2, <1>3, PTL DEF WinSpec

-----------------------------------------------------------------------------
(* The rules *)
\* What a turn that did not fail has loaded is in the table, and the rules are files.
RuInv ==
    /\ ruFiles = [path \in RuPaths |-> ruFiles[path]]
    /\ ruCache = [path \in RuPaths |-> ruCache[path]]
    /\ ruTurn = [f \in {"failed", "shown"} |-> ruTurn[f]]
    /\ ruRules # None => DOMAIN ruRules \subseteq Nat /\ \A i \in DOMAIN ruRules : ruRules[i] \in RuPaths
    /\ \A path \in ruEver : path \in RuPaths /\ ruCache[path] # None
    /\ RuKeepsGoing

LEMMA RuInitially == RuInit => RuInv
<1> SUFFICES ASSUME RuInit PROVE RuInv
  OBVIOUS
<1>1. /\ ruFiles = [path \in RuPaths |-> ruFiles[path]]
      /\ ruCache = [path \in RuPaths |-> ruCache[path]]
  BY DEF RuInit
<1>2. ruTurn = [f \in {"failed", "shown"} |-> ruTurn[f]] /\ ruTurn.failed = FALSE
  BY DEF RuInit
<1>3. ruRules = None /\ ruEver = {}
  BY DEF RuInit
<1>4. QED
  BY <1>1, <1>2, <1>3 DEF RuInv, RuKeepsGoing

\* Whatever the order of precedence makes of the files found, it lists files.
LEMMA RuSortedLists ==
    ASSUME NEW rules \in RuSorted(RuFound)
    PROVE DOMAIN rules \subseteq Nat /\ \A i \in DOMAIN rules : rules[i] \in RuPaths
<1> PICK n : n = Cardinality(RuFound)
  OBVIOUS
<1>1. rules \in [1..n -> RuFound]
  BY DEF RuSorted, SetToSeqs
<1>2. RuFound \subseteq RuPaths
  <2>1. RuGlobal \in RuPaths
    BY DEF RuPaths
  <2>2. RuScanned \subseteq RuPaths
    BY DEF RuScanned
  <2>3. QED
    BY <2>1, <2>2 DEF RuFound, RuThere
<1>3. 1..n \subseteq Nat
  OBVIOUS
<1>4. DOMAIN rules = 1..n
  BY <1>1
<1>5. QED
  BY <1>1, <1>2, <1>3, <1>4

\* A turn fails over a rule whose file is gone and that is in no table; one that does not
\* has every rule that applies in the table when it is over.
LEMMA RuTurnKeeps == RuInv /\ RuTurns => RuInv'
<1> SUFFICES ASSUME RuInv, RuTurns PROVE RuInv'
  OBVIOUS
<1> PICK places : places = RuApplicable(ruStored, None, {})
  OBVIOUS
<1> PICK ready : ready = {i \in places : \A k \in places : k <= i => RuLoads(ruRules[k]) # None}
  OBVIOUS
<1> PICK fails : fails = (RuAt(ready) # RuAt(places))
  OBVIOUS
<1>1. /\ ruRules # None /\ UNCHANGED <<ruFiles, ruRules>>
      /\ \E shown : ruTurn' = [failed |-> fails, shown |-> shown]
      /\ ruEver' = IF fails THEN ruEver ELSE ruEver \cup RuAt(places)
      /\ ruCache' = RuCached(RuAt(ready))
  BY DEF RuTurns, RuRead
<1>2. /\ \A i \in places : i \in Nat /\ ruRules[i] \in RuPaths
      /\ \A i \in ready : i \in places /\ RuLoads(ruRules[i]) # None
  <2>1. places \subseteq DOMAIN ruRules
    BY DEF RuApplicable
  <2>2. DOMAIN ruRules \subseteq Nat /\ \A i \in DOMAIN ruRules : ruRules[i] \in RuPaths
    BY <1>1 DEF RuInv
  <2>3. \A i \in places : i <= i
    BY <2>1, <2>2
  <2>4. QED
    BY <2>1, <2>2, <2>3
<1>3. /\ \A path \in RuPaths : ruCache'[path] = IF path \in RuAt(ready) THEN RuLoads(path) ELSE ruCache[path]
      /\ ruCache' = [path \in RuPaths |-> ruCache'[path]]
  BY <1>1 DEF RuCached
<1>4. \A path \in RuPaths : ruCache[path] # None => ruCache'[path] # None
  BY <1>3 DEF RuLoads
<1>5. \A path \in RuAt(ready) : path \in RuPaths /\ ruCache'[path] # None
  BY <1>2, <1>3 DEF RuAt
<1>6. \A path \in ruEver' : path \in RuPaths /\ ruCache'[path] # None
  BY <1>1, <1>4, <1>5 DEF RuInv
<1>7. ruTurn' = [f \in {"failed", "shown"} |-> ruTurn'[f]] /\ ruTurn'.failed = fails
  BY <1>1
<1>8. RuKeepsGoing'
  <2> SUFFICES ASSUME fails PROVE \E path \in RuPaths : ruFiles'[path] = None /\ path \notin ruEver'
    BY <1>7 DEF RuKeepsGoing
  <2>1. PICK i \in places : i \notin ready
    BY <1>2 DEF RuAt
  <2>2. PICK k \in places : RuLoads(ruRules[k]) = None
    BY <2>1
  <2>3. ruRules[k] \in RuPaths /\ ruCache[ruRules[k]] = None /\ ruFiles[ruRules[k]] = None
    BY <1>2, <2>2 DEF RuLoads
  <2>4. ruRules[k] \notin ruEver
    BY <2>3 DEF RuInv
  <2>5. QED
    BY <1>1, <2>3, <2>4
<1>9. QED
  BY <1>1, <1>3, <1>6, <1>7, <1>8 DEF RuInv

LEMMA RuStepKeeps == RuInv /\ [RuNext]_ruVars => RuInv'
<1> SUFFICES ASSUME RuInv, [RuNext]_ruVars PROVE RuInv'
  OBVIOUS
<1>1. CASE UNCHANGED <<ruFiles, ruRules, ruCache, ruTurn, ruEver>>
  BY <1>1 DEF RuInv, RuKeepsGoing
<1>2. CASE RuStarts
  <2>1. ruRules' = None \/ ruRules' \in RuSorted(RuFound)
    BY <1>2 DEF RuStarts
  <2>2. ruRules' # None => DOMAIN ruRules' \subseteq Nat /\ \A i \in DOMAIN ruRules' : ruRules'[i] \in RuPaths
    BY <2>1, RuSortedLists
  <2>3. UNCHANGED <<ruFiles, ruCache, ruTurn, ruEver>>
    BY <1>2 DEF RuStarts
  <2>4. QED
    BY <2>2, <2>3 DEF RuInv, RuKeepsGoing
<1>3. CASE RuStops
  BY <1>3 DEF RuStops, RuInv, RuKeepsGoing
<1>4. CASE RuTurns
  BY <1>4, RuTurnKeeps
<1>5. ASSUME NEW path \in RuPaths, NEW content, RuFileEdited(path, content) PROVE RuInv'
  <2>1. /\ ruFiles' = [ruFiles EXCEPT ![path] = content]
        /\ ruTurn' = [ruTurn EXCEPT !.failed = FALSE]
        /\ UNCHANGED <<ruRules, ruCache, ruEver>>
    BY <1>5 DEF RuFileEdited
  <2>2. ruFiles' = [p \in RuPaths |-> ruFiles'[p]]
    BY <2>1 DEF RuInv
  <2>3. ruTurn' = [f \in {"failed", "shown"} |-> ruTurn'[f]] /\ ruTurn'.failed = FALSE
    BY <2>1 DEF RuInv
  <2>4. QED
    BY <2>1, <2>2, <2>3 DEF RuInv, RuKeepsGoing
<1>6. QED
  BY <1>1, <1>2, <1>3, <1>4, <1>5
     DEF RuNext, RuTime, RuRefreshes, RuIgnoreEdited, ruVars

\* A rule that was loaded once does not make a later turn fail, whatever becomes of its
\* file (get_applicable_rules in conversation/session_manager.rs with the table
\* context_files), however many files are edited and rules are ignored.
THEOREM RuKeepsGoingTheorem == RuSpec => []RuKeepsGoing
<1>1. RuInv => RuKeepsGoing
  BY DEF RuInv
<1>2. QED
  BY <1>1, RuInitially, RuStepKeeps, PTL DEF RuSpec

\* Order and completeness of what is found need that, as long as nobody edits, the files
\* are there and no line of .gitignore leaves one out.
RuUntouched ==
    /\ ruEdits \in Nat
    /\ ruEdits = 0 => ruIgnored = <<>> /\ ruFiles = [path \in RuPaths |-> "v1"]
RuOrderInv == RuUntouched /\ RuFoundOnce

LEMMA RuPathsFinite == IsFiniteSet(RuPaths)
<1>1. RuPaths = (((({} \cup {RuGlobal}) \cup {<<"top.md">>})
                      \cup {<<".agents", "sub", "db.md">>}) \cup {<<".agents", "near.md">>})
  BY DEF RuPaths
<1> QED
  BY <1>1, FS_EmptySet, FS_AddElement

\* What is below a folder is found from it.
LEMMA RuPrefixOne ==
    ASSUME NEW Names, NEW folder \in Seq(Names), Len(folder) = 1,
           NEW path \in Seq(Names), Len(path) > 1, path[1] = folder[1]
    PROVE IsPrefix(folder, path)
<1>1. Len(path) \in Nat /\ 1 \in 1..Len(folder) + 1 /\ 1 \in 1..Len(path) + 1 /\ 1 \in 0..Len(path)
  OBVIOUS
<1> PICK a : a = SubSeq(folder, 1, 1)
  OBVIOUS
<1> PICK b : b = SubSeq(path, 1, 1)
  OBVIOUS
<1>2. a \in Seq(Names) /\ Len(a) = 1 /\ a[1] = folder[1]
  BY <1>1, SubSeqProperties
<1>3. b \in Seq(Names) /\ Len(b) = 1 /\ b[1] = path[1]
  BY <1>1, SubSeqProperties
<1>4. a = b
  <2>1. Len(a) = Len(b) /\ \A i \in 1..Len(a) : a[i] = b[i]
    BY <1>2, <1>3
  <2> QED
    BY <1>2, <1>3, <2>1, SeqEqual
<1> QED
  BY <1>1, <1>4 DEF IsPrefix

LEMMA RuAllFound ==
    ASSUME RuUntouched, ruEdits = 0
    PROVE RuFound = RuPaths
<1> DEFINE Names == {".agents", "near.md", "sub", "db.md"}
           folder == <<".agents">>
           near == <<".agents", "near.md">>
           db == <<".agents", "sub", "db.md">>
<1>1. \A path, isDir : ~RuIsIgnored(path, isDir)
  BY DEF RuUntouched, RuIsIgnored
<1>2. \A root, path : RuScans(root, path) <=> IsPrefix(root, path) /\ Len(path) - Len(root) - 1 <= RuMaxDepth
  BY <1>1 DEF RuScans
<1>3. RuScans(<<>>, <<"top.md">>)
  <2>1. IsPrefix(<<>>, <<"top.md">>) /\ Len(<<"top.md">>) - Len(<<>>) - 1 = 0
    BY DEF IsPrefix
  <2> QED
    BY <1>2, <2>1, RuConstants
<1>4. folder \in Seq(Names) /\ Len(folder) = 1 /\ folder[1] = ".agents"
  OBVIOUS
<1>5. near \in Seq(Names) /\ Len(near) = 2 /\ near[1] = ".agents"
  OBVIOUS
<1>6. db \in Seq(Names) /\ Len(db) = 3 /\ db[1] = ".agents"
  OBVIOUS
<1>7. RuScans(folder, near) /\ RuScans(folder, db)
  <2> HIDE DEF folder, near, db, Names
  <2>1. IsPrefix(folder, near)
    BY <1>4, <1>5, RuPrefixOne
  <2>2. IsPrefix(folder, db)
    BY <1>4, <1>6, RuPrefixOne
  <2>3. Len(near) - Len(folder) - 1 <= RuMaxDepth /\ Len(db) - Len(folder) - 1 <= RuMaxDepth
    BY <1>4, <1>5, <1>6, RuConstants
  <2> QED
    BY <1>2, <2>1, <2>2, <2>3
<1>8. RuScanned \cup {RuGlobal} = RuPaths
  <2>1. \A path \in RuPaths \ {RuGlobal} : path \in RuScanned
    <3>1. RuScans(<<>>, <<"top.md">>) /\ RuScans(<<".agents">>, <<".agents", "near.md">>)
          /\ RuScans(<<".agents">>, <<".agents", "sub", "db.md">>)
      BY <1>3, <1>7
    <3> QED
      BY <3>1, Zenon DEF RuScanned, RuRoots, RuPaths
  <2>2. RuScanned \subseteq RuPaths /\ RuGlobal \in RuPaths
    BY DEF RuScanned, RuPaths
  <2> QED
    BY <2>1, <2>2
<1>9. \A path \in RuPaths : ruFiles[path] # None
  BY RuConstants DEF RuUntouched
<1> QED
  BY <1>8, <1>9 DEF RuFound, RuThere

LEMMA RuStartFinds ==
    ASSUME RuOrderInv, RuStarts
    PROVE RuFoundOnce'
<1> SUFFICES ASSUME ruRules' # None
             PROVE /\ \A i, j \in DOMAIN ruRules' : i < j => RuBefore(ruRules'[i], ruRules'[j])
                   /\ ruEdits' = 0 => Range(ruRules') = RuPaths
  BY DEF RuFoundOnce
<1>1. ruRules' \in RuSorted(RuFound) /\ ruEdits' = ruEdits
  BY DEF RuStarts
<1>2. ruRules' \in SetToSeqs(RuFound)
  BY <1>1 DEF RuSorted
<1>3. \A i, j \in DOMAIN ruRules' : i < j => RuBefore(ruRules'[i], ruRules'[j])
  BY <1>1 DEF RuSorted
<1>4. ASSUME ruEdits = 0 PROVE Range(ruRules') = RuPaths
  <2>1. RuFound = RuPaths
    BY <1>4, RuAllFound DEF RuOrderInv
  <2>2. /\ ruRules' \in [1..Cardinality(RuPaths) -> RuPaths]
        /\ \A c \in RuPaths : \E i \in 1..Cardinality(RuPaths) : ruRules'[i] = c
    BY <1>2, <2>1, RuPathsFinite, ListsAll
  <2> QED
    BY <2>2 DEF Range
<1> QED
  BY <1>1, <1>3, <1>4

\* Every step of the rules keeps them.
LEMMA RuOrderKept == RuOrderInv /\ [RuNext]_ruVars => RuOrderInv'
<1> SUFFICES ASSUME RuOrderInv, [RuNext]_ruVars PROVE RuOrderInv'
  OBVIOUS
<1>1. CASE UNCHANGED <<ruFiles, ruIgnored, ruEdits, ruRules>>
  BY <1>1 DEF RuOrderInv, RuUntouched, RuFoundOnce
<1>2. CASE RuStarts
  <2>1. UNCHANGED <<ruFiles, ruIgnored, ruEdits>>
    BY <1>2 DEF RuStarts
  <2>2. RuUntouched'
    BY <2>1 DEF RuOrderInv, RuUntouched
  <2> QED
    BY <1>2, <2>2, RuStartFinds DEF RuOrderInv
<1>3. CASE RuStops
  BY <1>3 DEF RuStops, RuOrderInv, RuUntouched, RuFoundOnce
<1>4. ASSUME ruEdits' = ruEdits + 1, ruRules' = ruRules PROVE RuOrderInv'
  <2>1. ruEdits' \in Nat /\ ruEdits' # 0
    BY <1>4 DEF RuOrderInv, RuUntouched
  <2> QED
    BY <1>4, <2>1 DEF RuOrderInv, RuUntouched, RuFoundOnce
<1>5. ASSUME NEW path, NEW content, RuFileEdited(path, content) PROVE RuOrderInv'
  BY <1>4, <1>5 DEF RuFileEdited
<1>6. ASSUME NEW lines, RuIgnoreEdited(lines) PROVE RuOrderInv'
  BY <1>4, <1>6 DEF RuIgnoreEdited
<1> QED
  BY <1>1, <1>2, <1>3, <1>5, <1>6 DEF RuNext, RuTime, RuRefreshes, RuTurns, ruVars
(* The patterns of files *)
\* An item matches as what it stands for.
LEMMA RuItemIsPiece ==
    ASSUME NEW Chars, NEW t \in Seq(Chars), NEW c, NEW i \in 1..Len(t) + 1, NEW rest, rest \subseteq 1..Len(t) + 1
    PROVE RuGlobItem(c, t, i, rest) <=> \E j \in rest : RuPiece(c, t, i, j)
<1>1. Len(t) \in Nat /\ \A j \in rest : j \in 1..Len(t) + 1
  OBVIOUS
<1>2. CASE c = "**"
  BY <1>1, <1>2 DEF RuGlobItem, RuPiece
<1>3. CASE c = "*"
  BY <1>1, <1>3 DEF RuGlobItem, RuPiece
<1>4. CASE c \notin {"*", "**"}
  BY <1>1, <1>4 DEF RuGlobItem, RuPiece
<1> QED
  BY <1>2, <1>3, <1>4

\* The places where the last n items of a pattern can begin, as a function of n.
RuBegins(p, t, begins) ==
    /\ begins \in [0..Len(p) -> SUBSET (1..Len(t) + 1)]
    /\ begins[0] = {Len(t) + 1}
    /\ \A n \in 1..Len(p) : begins[n] =
          {i \in 1..Len(t) + 1 : RuGlobItem(p[Len(p) + 1 - n], t, i, begins[n - 1])}

LEMMA RuGlobBegins ==
    ASSUME NEW Items, NEW p \in Seq(Items), NEW Chars, NEW t \in Seq(Chars)
    PROVE \E begins : RuBegins(p, t, begins) /\ (RuGlob(p, t) <=> 1 \in begins[Len(p)])
<1> DEFINE N == Len(p)
           Places == 1..Len(t) + 1
           Before(n, S) == {i \in Places : RuGlobItem(p[N + 1 - n], t, i, S)}
           Body(b) == [n \in 0..N |-> IF n = 0 THEN {Len(t) + 1} ELSE Before(n, b[n - 1])]
           Next1 == [q \in (1..N) \X SUBSET Places |-> Before(q[1], q[2])]
<1>1. N \in Nat /\ Len(t) \in Nat
  OBVIOUS
<1>2. {Len(t) + 1} \in SUBSET Places
  BY <1>1
<1>3. \A n \in 1..N, S \in SUBSET Places : Next1[<<n, S>>] = Before(n, S) /\ Before(n, S) \in SUBSET Places
  <2> SUFFICES ASSUME NEW n \in 1..N, NEW S \in SUBSET Places PROVE Next1[<<n, S>>] = Before(n, S)
    OBVIOUS
  <2>1. <<n, S>> \in (1..N) \X SUBSET Places /\ <<n, S>>[1] = n /\ <<n, S>>[2] = S
    OBVIOUS
  <2> HIDE DEF Before, Places, N
  <2> QED
    BY <2>1
<1> DEFINE end == {Len(t) + 1}
<1>4. \E g \in [0..N -> SUBSET Places] :
          g[0] = end /\ \A n \in 1..N : g[n] = Next1[<<n, g[n - 1]>>]
  <2> DEFINE X == SUBSET Places
  <2>1. N \in Nat /\ end \in X /\ \A n \in 1..N, S \in X : Next1[<<n, S>>] \in X
    BY <1>1, <1>2, <1>3
  <2> HIDE DEF N, X, Next1, end
  <2>2. \E g : Recurs(g, N, X, end, Next1)
    BY ONLY <2>1, Recursion
  <2> QED
    BY <2>2 DEF X, Recurs
<1> PICK g \in [0..N -> SUBSET Places] :
          g[0] = end /\ \A n \in 1..N : g[n] = Next1[<<n, g[n - 1]>>]
  BY <1>4
<1>5. \A n \in 1..N : g[n - 1] \in SUBSET Places /\ n - 1 \in 0..N /\ g[n] = Before(n, g[n - 1])
  <2> SUFFICES ASSUME NEW n \in 1..N PROVE g[n - 1] \in SUBSET Places /\ n - 1 \in 0..N
    BY <1>3
  <2> HIDE DEF Places, Next1, end
  <2> QED
    BY <1>1
<1>6. g = Body(g)
  <2> HIDE DEF Places, Next1, Before, N, end
  <2> QED
    BY <1>1, <1>5 DEF end
<1> DEFINE begins == CHOOSE b : b = Body(b)
<1>7. begins = Body(begins)
  <2> HIDE DEF Body
  <2> QED
    BY <1>6
<1>8. begins[0] = {Len(t) + 1} /\ \A n \in 1..N : begins[n] = Before(n, begins[n - 1])
  <2> HIDE DEF begins, Before
  <2>1. begins[0] = {Len(t) + 1}
    BY <1>1, <1>7
  <2>2. ASSUME NEW n \in 1..N PROVE begins[n] = Before(n, begins[n - 1])
    <3>1. n \in 0..N /\ n # 0
      BY <1>1
    <3> HIDE DEF N
    <3> QED
      BY <1>7, <3>1
  <2> QED
    BY <2>1, <2>2
<1>9. begins \in [0..N -> SUBSET Places]
  <2>1. \A n \in 0..N : begins[n] \in SUBSET Places
    <3> SUFFICES ASSUME NEW n \in 0..N PROVE begins[n] \in SUBSET Places
      OBVIOUS
    <3>1. n = 0 \/ n \in 1..N
      BY <1>1
    <3>2. \A k \in 1..N : Before(k, begins[k - 1]) \in SUBSET Places
      OBVIOUS
    <3> HIDE DEF Before, begins, Places, N
    <3> QED
      BY <1>2, <1>8, <3>1, <3>2
  <2>2. begins = [n \in 0..N |-> begins[n]]
    <3> HIDE DEF begins, Before
    <3> QED
      BY <1>7
  <2> HIDE DEF begins, Places, N
  <2> QED
    BY <2>1, <2>2
<1>10. RuBegins(p, t, begins)
  <2> HIDE DEF begins
  <2> QED
    BY <1>8, <1>9 DEF RuBegins
<1>11. RuGlob(p, t) <=> 1 \in begins[Len(p)]
  BY DEF RuGlob
<1> QED
  BY <1>10, <1>11

\* A way to cut the text from its i-th character on into pieces for the last n items.
RuCut(p, t, n, i, cut) ==
    /\ cut \in [0..n -> 1..Len(t) + 1] /\ cut[0] = i /\ cut[n] = Len(t) + 1
    /\ \A m \in 1..n : RuPiece(p[Len(p) - n + m], t, cut[m - 1], cut[m])

\* The cuts for one item more.
LEMMA RuCutLonger ==
    ASSUME NEW Items, NEW p \in Seq(Items), NEW Chars, NEW t \in Seq(Chars),
           NEW n \in 1..Len(p), NEW i \in 1..Len(t) + 1
    PROVE (\E cut : RuCut(p, t, n, i, cut)) <=>
          \E j \in 1..Len(t) + 1 : /\ RuPiece(p[Len(p) + 1 - n], t, i, j)
                                   /\ \E cut : RuCut(p, t, n - 1, j, cut)
<1>1. Len(p) \in Nat /\ Len(t) \in Nat /\ n \in Nat /\ n >= 1 /\ n <= Len(p)
  OBVIOUS
<1>2. ASSUME NEW cut, RuCut(p, t, n, i, cut)
      PROVE \E j \in 1..Len(t) + 1 : /\ RuPiece(p[Len(p) + 1 - n], t, i, j)
                                     /\ \E c : RuCut(p, t, n - 1, j, c)
  <2> DEFINE rest == [m \in 0..n - 1 |-> cut[m + 1]]
  <2>1. /\ cut[1] \in 1..Len(t) + 1 /\ RuPiece(p[Len(p) - n + 1], t, cut[0], cut[1])
        /\ Len(p) - n + 1 = Len(p) + 1 - n
    BY <1>1, <1>2 DEF RuCut
  <2>2. rest \in [0..n - 1 -> 1..Len(t) + 1] /\ rest[0] = cut[1] /\ rest[n - 1] = Len(t) + 1
    BY <1>1, <1>2 DEF RuCut
  <2>3. ASSUME NEW m \in 1..n - 1
        PROVE RuPiece(p[Len(p) - (n - 1) + m], t, rest[m - 1], rest[m])
    <3>1. /\ m + 1 \in 1..n /\ Len(p) - n + (m + 1) = Len(p) - (n - 1) + m
          /\ rest[m - 1] = cut[m + 1 - 1] /\ rest[m] = cut[m + 1]
      BY <1>1
    <3>2. RuPiece(p[Len(p) - n + (m + 1)], t, cut[m + 1 - 1], cut[m + 1])
      BY <1>2, <3>1 DEF RuCut
    <3> QED
      BY <3>1, <3>2
  <2>4. RuCut(p, t, n - 1, cut[1], rest)
    BY <2>2, <2>3 DEF RuCut
  <2> QED
    BY <1>2, <2>1, <2>4 DEF RuCut
<1>3. ASSUME NEW j \in 1..Len(t) + 1, RuPiece(p[Len(p) + 1 - n], t, i, j),
             NEW cut, RuCut(p, t, n - 1, j, cut)
      PROVE \E c : RuCut(p, t, n, i, c)
  <2> DEFINE longer == [m \in 0..n |-> IF m = 0 THEN i ELSE cut[m - 1]]
  <2>1. longer \in [0..n -> 1..Len(t) + 1] /\ longer[0] = i /\ longer[n] = Len(t) + 1
    BY <1>1, <1>3 DEF RuCut
  <2>2. ASSUME NEW m \in 1..n
        PROVE RuPiece(p[Len(p) - n + m], t, longer[m - 1], longer[m])
    <3>1. CASE m = 1
      <4>1. Len(p) - n + m = Len(p) + 1 - n /\ longer[m - 1] = i /\ longer[m] = j
        BY <1>1, <1>3, <3>1 DEF RuCut
      <4> QED
        BY <1>3, <4>1
    <3>2. CASE m # 1
      <4>1. /\ m - 1 \in 1..n - 1 /\ Len(p) - (n - 1) + (m - 1) = Len(p) - n + m
            /\ longer[m - 1] = cut[m - 1 - 1] /\ longer[m] = cut[m - 1]
        BY <1>1, <3>2
      <4>2. RuPiece(p[Len(p) - (n - 1) + (m - 1)], t, cut[m - 1 - 1], cut[m - 1])
        BY <1>3, <4>1 DEF RuCut
      <4> QED
        BY <4>1, <4>2
    <3> QED
      BY <3>1, <3>2
  <2>3. RuCut(p, t, n, i, longer)
    BY <2>1, <2>2 DEF RuCut
  <2> QED
    BY <2>3
<1> QED
  BY <1>2, <1>3

\* A pattern matches the texts that can be cut into what its items stand for.
THEOREM RuGlobMeaning ==
    ASSUME NEW Items, NEW p \in Seq(Items), NEW Chars, NEW t \in Seq(Chars)
    PROVE RuGlob(p, t) <=> RuMeans(p, t)
<1> DEFINE Places == 1..Len(t) + 1
<1>1. Len(p) \in Nat /\ Len(t) \in Nat
  OBVIOUS
<1>2. PICK begins : RuBegins(p, t, begins) /\ (RuGlob(p, t) <=> 1 \in begins[Len(p)])
  BY RuGlobBegins
<1> DEFINE Agrees(n) == \A i \in Places : i \in begins[n] <=> \E cut : RuCut(p, t, n, i, cut)
           S == {n \in Nat : n <= Len(p) => Agrees(n)}
<1>3. Agrees(0)
  <2> SUFFICES ASSUME NEW i \in Places PROVE i = Len(t) + 1 <=> \E cut : RuCut(p, t, 0, i, cut)
    BY <1>2 DEF RuBegins
  <2>1. ASSUME i = Len(t) + 1 PROVE RuCut(p, t, 0, i, [n \in 0..0 |-> i])
    BY <2>1 DEF RuCut
  <2>2. ASSUME NEW cut, RuCut(p, t, 0, i, cut) PROVE i = Len(t) + 1
    BY <2>2 DEF RuCut
  <2> QED
    BY <2>1, <2>2
<1>4. ASSUME NEW n \in Nat, n + 1 <= Len(p), Agrees(n) PROVE Agrees(n + 1)
  <2> SUFFICES ASSUME NEW i \in Places
               PROVE i \in begins[n + 1] <=> \E cut : RuCut(p, t, n + 1, i, cut)
    OBVIOUS
  <2>1. n + 1 \in 1..Len(p) /\ n + 1 - 1 = n /\ n \in 0..Len(p)
    BY <1>1, <1>4
  <2>2. begins[n] \subseteq Places
    BY <1>2, <2>1 DEF RuBegins
  <2>3. i \in begins[n + 1] <=> RuGlobItem(p[Len(p) + 1 - (n + 1)], t, i, begins[n])
    BY <1>2, <2>1 DEF RuBegins
  <2>4. i \in begins[n + 1] <=> \E j \in begins[n] : RuPiece(p[Len(p) + 1 - (n + 1)], t, i, j)
    BY <2>2, <2>3, RuItemIsPiece
  <2>5. (\E cut : RuCut(p, t, n + 1, i, cut)) <=>
        \E j \in Places : /\ RuPiece(p[Len(p) + 1 - (n + 1)], t, i, j)
                          /\ \E cut : RuCut(p, t, n, j, cut)
    <3> DEFINE k == n + 1
    <3>1. k \in 1..Len(p) /\ n = k - 1 /\ i \in 1..Len(t) + 1
      BY <2>1
    <3> HIDE DEF k
    <3>2. (\E cut : RuCut(p, t, k, i, cut)) <=>
          \E j \in 1..Len(t) + 1 : RuPiece(p[Len(p) + 1 - k], t, i, j) /\ \E cut : RuCut(p, t, k - 1, j, cut)
      BY <3>1, RuCutLonger
    <3> QED
      BY <3>1, <3>2 DEF k
  <2> QED
    BY <1>4, <2>2, <2>4, <2>5
<1>5. Len(p) \in S
  <2>1. 0 \in S
    BY <1>3
  <2>2. \A n \in Nat : n \in S => n + 1 \in S
    <3> HIDE DEF Agrees
    <3> QED
      BY <1>1, <1>4
  <2> HIDE DEF S
  <2> QED
    BY <1>1, <2>1, <2>2, ByCounting
<1>6. 1 \in Places /\ (1 \in begins[Len(p)] <=> \E cut : RuCut(p, t, Len(p), 1, cut))
  BY <1>1, <1>5
<1>7. (\E cut : RuCut(p, t, Len(p), 1, cut)) <=> RuMeans(p, t)
  <2>1. Len(p) - Len(p) = 0 /\ \A m \in 1..Len(p) : Len(p) - Len(p) + m = m
    BY <1>1
  <2> QED
    BY <2>1 DEF RuCut, RuMeans
<1> QED
  BY <1>2, <1>6, <1>7

\* The rules are found once each, all of them and in their order of precedence
\* (discovery.rs, precedence.rs in rules/), whatever max_discovery_depth is in effect, and
\* a pattern selects the files it means (glob_match_impl).
THEOREM RuFindsTheorem == RuSpec => []RuFinds
<1>1. RuInit => RuOrderInv
  BY DEF RuInit, RuOrderInv, RuUntouched, RuFoundOnce
<1>2. RuGlobMatches
  <2> DEFINE P == {"a", "/", "*", "**", "?"}
             T == {"a", "b", "/"}
  <2> SUFFICES ASSUME NEW p \in UNION {[1..n -> P] : n \in 0..3}, NEW t \in UNION {[1..n -> T] : n \in 0..3}
               PROVE RuGlob(p, t) <=> RuMeans(p, t)
    BY DEF RuGlobMatches
  <2>1. p \in Seq(P) /\ t \in Seq(T)
    <3> HIDE DEF P, T
    <3>1. PICK n \in 0..3 : p \in [1..n -> P]
      OBVIOUS
    <3>2. PICK m \in 0..3 : t \in [1..m -> T]
      OBVIOUS
    <3>3. p \in Seq(P)
      BY <3>1
    <3> QED
      BY <3>2, <3>3
  <2> HIDE DEF P, T
  <2> QED
    BY <2>1, RuGlobMeaning
<1>3. RuOrderInv /\ RuGlobMatches => RuFinds
  BY DEF RuOrderInv, RuFinds
<1>4. QED
  BY <1>1, <1>2, <1>3, RuOrderKept, PTL DEF RuSpec
=============================================================================
