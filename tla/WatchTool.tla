----------------------------- MODULE WatchTool -----------------------------
(***************************************************************************)
(* The watch tool (tools/watch.rs): a call first scans the files, one      *)
(* after the other and without a lock, then locks the snapshots and stores *)
(* the scan, or reports what differs from the stored one.                  *)
(***************************************************************************)
EXTENDS Common, Naturals, FiniteSets

CONSTANTS
    WatchCallers, WatchFiles,
    WatchPrints,       \* fingerprints: size and time of modification
    WatchMaxChanges    \* max_changes

ASSUME WatchConstants ==
    /\ WatchMaxChanges \in Nat /\ None \notin WatchPrints
    /\ None \notin [WatchFiles -> WatchPrints \cup {None}]

VARIABLES
    watchDisk,    \* the fingerprint of each file, or None
    watchBase,    \* snapshots: the one stored under the key, or None
    watchCall,    \* each caller's scan
    watchView,    \* history: the files as somebody knows them from the reports
    watchCut      \* history: a report left something out

watchVars == <<watchDisk, watchBase, watchCall, watchView, watchCut>>

WatchNothing == [f \in WatchFiles |-> None]
WatchIdle == [op |-> "idle", left |-> {}, scan |-> WatchNothing]
WatchPrevious == IF watchBase = None THEN WatchNothing ELSE watchBase

WatchBegin(c, op) ==
    /\ watchCall[c].op = "idle"
    /\ watchCall' = [watchCall EXCEPT ![c] =
            [op |-> op, left |-> WatchFiles, scan |-> WatchNothing]]
    /\ UNCHANGED <<watchDisk, watchBase, watchView, watchCut>>

\* collect_snapshot comes to the next file; one that cannot be read is left out.
WatchVisit(c, f) ==
    /\ f \in watchCall[c].left
    /\ watchCall' = [watchCall EXCEPT ![c].left = @ \ {f}, ![c].scan[f] = watchDisk[f]]
    /\ UNCHANGED <<watchDisk, watchBase, watchView, watchCut>>

WatchScanned(c, op) == watchCall[c].op = op /\ watchCall[c].left = {}

WatchSnapshot(c) ==
    /\ WatchScanned(c, "snapshot")
    /\ watchBase' = watchCall[c].scan
    /\ watchView' = watchCall[c].scan /\ watchCut' = FALSE
    /\ watchCall' = [watchCall EXCEPT ![c] = WatchIdle]
    /\ UNCHANGED watchDisk

\* diff_snapshots, each list limited to max_changes.
WatchCreated(a, b) == {f \in WatchFiles : a[f] = None /\ b[f] # None}
WatchDeleted(a, b) == {f \in WatchFiles : a[f] # None /\ b[f] = None}
WatchModified(a, b) == {f \in WatchFiles : a[f] # None /\ b[f] # None /\ a[f] # b[f]}
WatchLists(a, b) == {WatchCreated(a, b), WatchDeleted(a, b), WatchModified(a, b)}
WatchStore_Merged(c) == [f \in WatchFiles |->
    IF watchCall[c].scan[f] = None THEN WatchPrevious[f] ELSE watchCall[c].scan[f]]
WatchStore(c) == watchCall[c].scan

\* "changes" with update_snapshot; without it only a report is made.
WatchChanges(c) ==
    /\ WatchScanned(c, "changes")
    /\ LET scan == watchCall[c].scan
           lists == WatchLists(WatchPrevious, scan) IN
       /\ watchBase' = WatchStore(c)
       /\ watchCut' = (watchCut \/ \E l \in lists : Cardinality(l) > WatchMaxChanges)
       /\ watchView' = [f \in WatchFiles |-> IF f \in UNION lists THEN scan[f] ELSE watchView[f]]
    /\ watchCall' = [watchCall EXCEPT ![c] = WatchIdle]
    /\ UNCHANGED watchDisk

WatchPeek(c) ==
    /\ WatchScanned(c, "peek")
    /\ watchCall' = [watchCall EXCEPT ![c] = WatchIdle]
    /\ UNCHANGED <<watchDisk, watchBase, watchView, watchCut>>

WatchClear(c) ==
    /\ WatchScanned(c, "clear")
    /\ watchBase' = None
    /\ watchView' = WatchNothing /\ watchCut' = FALSE
    /\ watchCall' = [watchCall EXCEPT ![c] = WatchIdle]
    /\ UNCHANGED watchDisk

WatchWrite(f) ==
    /\ \E p \in (WatchPrints \cup {None}) \ {watchDisk[f]} : watchDisk' = [watchDisk EXCEPT ![f] = p]
    /\ UNCHANGED <<watchBase, watchCall, watchView, watchCut>>

WatchInit ==
    /\ watchDisk = WatchNothing /\ watchBase = None /\ watchView = WatchNothing /\ watchCut = FALSE
    /\ watchCall = [c \in WatchCallers |-> WatchIdle]

WatchNext ==
    \/ \E c \in WatchCallers :
        \/ \E op \in {"snapshot", "changes", "peek", "clear"} : WatchBegin(c, op)
        \/ \E f \in WatchFiles : WatchVisit(c, f)
        \/ WatchSnapshot(c) \/ WatchChanges(c) \/ WatchPeek(c) \/ WatchClear(c)
    \/ \E f \in WatchFiles : WatchWrite(f)

WatchSpec == WatchInit /\ [][WatchNext]_watchVars

-----------------------------------------------------------------------------
\* Whoever follows the reports of calls that update the snapshot knows the files as
\* the stored snapshot has them, unless a report was cut: scans that overlap, or end
\* in another order than they began, never leave a change unreported, because each
\* is compared with the snapshot it replaces.
WatchReportsComplete == watchCut \/ watchView = WatchPrevious
=============================================================================
