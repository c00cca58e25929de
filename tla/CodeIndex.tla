----------------------------- MODULE CodeIndex -----------------------------
(***************************************************************************)
(* The index of the code of a workspace (indexing/, vector/, rag/, its     *)
(* tables in storage/): builders walk the files and store what they read   *)
(* of each in four tables, one statement or transaction at a time, while   *)
(* the files change under them; and what the calls in the index tell of    *)
(* the impact of changing a symbol.                                        *)
(***************************************************************************)
EXTENDS Common, Naturals, Sequences, FiniteSets, SequencesExt

CONSTANTS IxBuilders,
          IxFiles,
          IxMaxVersion,   \* bound: how often a file is edited
          IxCount,        \* the symbols of an impact analysis: 1 to IxCount, and 1 is asked for
          IxDepths        \* the depths it is asked for

ASSUME IxConstants ==
    /\ None \notin IxFiles /\ None \notin IxBuilders
    /\ IxCount \in Nat \ {0} /\ IxDepths \subseteq Nat

VARIABLES
    ixDisk,     \* file -> the version of its contents, None when there is no such file
    ixStored,   \* table -> file -> the version its rows were made of, None without rows
    ixBuild,    \* builder -> where it is, the files left to walk, the one in hand, what it read
    ixDirty,    \* history: builder -> files edited, or stored by another, since it started
    ixBuilt,    \* history: files the last build left alone, see IxFresh; None before it
    ixImpact    \* the analysis of impact: calls, depth, queue and visited

ixVars == <<ixDisk, ixStored, ixBuild, ixDirty, ixBuilt, ixImpact>>

IxTables == {"files", "symbols", "edges", "vectors"}
IxIdle == [at |-> "idle", left |-> {}, file |-> None, read |-> None]
IxGoes(b, build) == ixBuild' = [ixBuild EXCEPT ![b] = build]
\* What is edited or stored is new to every build that is on.
IxSoils(f, by) ==
    /\ ixDirty' = [b \in IxBuilders |->
                      IF b = by \/ ixBuild[b].at = "idle" THEN ixDirty[b] ELSE ixDirty[b] \cup {f}]
    /\ ixBuilt' = IF ixBuilt = None THEN None ELSE ixBuilt \ {f}

\* build_index: walk the workspace; a file in no known language is not among IxFiles.
IxBuildIndex(b) ==
    /\ ixBuild[b].at = "idle"
    /\ IxGoes(b, [IxIdle EXCEPT !.at = "walk", !.left = IxFiles])
    /\ ixDirty' = [ixDirty EXCEPT ![b] =
                      {f \in IxFiles : \E c \in IxBuilders : ixBuild[c].file = f}]
    /\ UNCHANGED <<ixDisk, ixStored, ixBuilt, ixImpact>>
\* rebuild_file: the same of one file; it must be readable.
IxRebuildFile(b, f) ==
    /\ ixBuild[b].at = "idle" /\ ixDisk[f] # None
    /\ IxGoes(b, [at |-> "files", left |-> {}, file |-> f, read |-> ixDisk[f]])
    /\ ixDirty' = [ixDirty EXCEPT ![b] = IxFiles]
    /\ UNCHANGED <<ixDisk, ixStored, ixBuilt, ixImpact>>
\* A file that cannot be read is passed over: what is stored of it stays.
IxReads(b, f) ==
    /\ ixBuild[b].at = "walk" /\ f \in ixBuild[b].left
    /\ IxGoes(b, [at |-> IF ixDisk[f] = None THEN "walk" ELSE "files",
                  left |-> ixBuild[b].left \ {f}, read |-> ixDisk[f],
                  file |-> IF ixDisk[f] = None THEN None ELSE f])
    /\ UNCHANGED <<ixDisk, ixStored, ixDirty, ixBuilt, ixImpact>>

\* upsert_code_file_index, replace_code_symbols_for_file, replace_code_call_edges_for_file
\* and upsert_embedding, in this order.
IxAfter == [files |-> "symbols", symbols |-> "edges", edges |-> "vectors", vectors |-> "walk"]
IxReplaced_Kept(t, f, v) == IF t = "edges" /\ ixStored[t][f] # None THEN ixStored[t][f] ELSE v
IxReplaced(t, f, v) == v
IxStores(b, t) ==
    /\ ixBuild[b].at = t
    /\ LET f == ixBuild[b].file
           next == IF IxAfter[t] = "walk" THEN [ixBuild[b] EXCEPT !.at = "walk", !.file = None,
                                                                !.read = None]
                   ELSE [ixBuild[b] EXCEPT !.at = IxAfter[t]]
       IN /\ ixStored' = [ixStored EXCEPT ![t][f] = IxReplaced(t, f, ixBuild[b].read)]
          /\ IxGoes(b, next)
          /\ IxSoils(f, b)
    /\ UNCHANGED <<ixDisk, ixImpact>>
\* upsert_code_index_metadata; the rows of files that are gone stay.
IxBuiltAll(b) ==
    /\ ixBuild[b].at = "walk" /\ ixBuild[b].left = {}
    /\ IxGoes(b, IxIdle)
    /\ ixBuilt' = (IxFiles \ ixDirty[b]) \cup IF ixBuilt = None THEN {} ELSE ixBuilt
    /\ ixDirty' = [ixDirty EXCEPT ![b] = {}]
    /\ UNCHANGED <<ixDisk, ixStored, ixImpact>>
\* The embedding request or a statement fails, or the program ends.
IxFails(b) ==
    /\ ixBuild[b].at # "idle"
    /\ IxGoes(b, IxIdle)
    /\ ixDirty' = [ixDirty EXCEPT ![b] = {}]
    /\ UNCHANGED <<ixDisk, ixStored, ixBuilt, ixImpact>>

\* The user writes a file anew, or removes it.
IxEdited(f) ==
    /\ \E v \in (1..IxMaxVersion) \cup {None} :
        /\ v # ixDisk[f] /\ (v # None /\ ixDisk[f] # None => v > ixDisk[f])
        /\ ixDisk' = [ixDisk EXCEPT ![f] = v]
    /\ IxSoils(f, None)
    /\ UNCHANGED <<ixStored, ixBuild, ixImpact>>

\* load_index_snapshot, search_symbols and retrieve: nothing is stored.
IxSearched == {f \in IxFiles : ixStored["symbols"][f] # None}
IxRetrieves ==
    /\ IxSearched # {} \/ \E f \in IxFiles : ixStored["vectors"][f] # None
    /\ UNCHANGED ixVars

----------------------------------------------------------------------------
\* analyze_impact: from the symbol to its callers, to their callers, breadth first.
IxSymbols == 1..IxCount
IxCallers(calls, callee) == {c \in IxSymbols : <<c, callee>> \in calls}
IxAnalyses(calls, depth) ==
    /\ ixImpact = None
    /\ ixImpact' = [calls |-> calls, depth |-> depth, visited |-> {},
                    queue |-> <<<<1, 0>>>>]
    /\ UNCHANGED <<ixDisk, ixStored, ixBuild, ixDirty, ixBuilt>>
IxQueued_First(queue, more) == more \o queue
IxQueued(queue, more) == queue \o more
\* The callers of a symbol are listed in the order of the calls in the index.
IxVisits ==
    /\ ixImpact # None /\ ixImpact.queue # <<>>
    /\ LET current == Head(ixImpact.queue)[1]
           depth == Head(ixImpact.queue)[2]
           seen == current \in ixImpact.visited \/ depth >= ixImpact.depth
       IN \E callers \in SetToSeqs(IF seen THEN {} ELSE IxCallers(ixImpact.calls, current)) :
              ixImpact' = [ixImpact EXCEPT
                  !.visited = @ \cup {current},
                  !.queue = IxQueued(Tail(@), [i \in DOMAIN callers |-> <<callers[i], depth + 1>>])]
    /\ UNCHANGED <<ixDisk, ixStored, ixBuild, ixDirty, ixBuilt>>
IxReported ==
    /\ ixImpact # None /\ ixImpact.queue = <<>>
    /\ ixImpact' = None
    /\ UNCHANGED <<ixDisk, ixStored, ixBuild, ixDirty, ixBuilt>>

IxInit ==
    /\ ixDisk = [f \in IxFiles |-> 1]
    /\ ixStored = [t \in IxTables |-> [f \in IxFiles |-> None]]
    /\ ixBuild = [b \in IxBuilders |-> IxIdle]
    /\ ixDirty = [b \in IxBuilders |-> {}]
    /\ ixBuilt = None
    /\ ixImpact = None

IxIndexNext ==
    \/ IxRetrieves
    \/ \E f \in IxFiles : IxEdited(f)
    \/ \E b \in IxBuilders :
        \/ IxBuildIndex(b) \/ IxBuiltAll(b) \/ IxFails(b)
        \/ \E f \in IxFiles : IxRebuildFile(b, f) \/ IxReads(b, f)
        \/ \E t \in IxTables : IxStores(b, t)
IxImpactNext ==
    \/ IxVisits \/ IxReported
    \/ /\ ixImpact = None
       /\ \E calls \in SUBSET {p \in IxSymbols \X IxSymbols : p[1] # p[2]}, depth \in IxDepths :
             IxAnalyses(calls, depth)

----------------------------------------------------------------------------
\* Once a build has been through, the four tables tell of a file what is on the disk,
\* provided nobody edited it, or stored anything of it, since that build started.
IxFresh ==
    ixBuilt # None =>
        \A f \in ixBuilt : ixDisk[f] # None =>
            \A t \in IxTables : ixStored[t][f] = ixDisk[f]

\* The analysis reports the symbols from which the one asked for is reached by at most
\* `depth` calls: no cycle keeps it going, no longer way hides a shorter one.
IxReaches(calls, n, c) ==
    \E way \in [0..n -> IxSymbols] :
        way[0] = 1 /\ way[n] = c /\ \A i \in 1..n : <<way[i], way[i - 1]>> \in calls
IxImpact ==
    ixImpact # None /\ ixImpact.queue = <<>> =>
        ixImpact.visited = {c \in IxSymbols : \E n \in 0..ixImpact.depth : IxReaches(ixImpact.calls, n, c)}

IxSpec == IxInit /\ [][IxIndexNext \/ IxImpactNext]_ixVars
=============================================================================
