------------------------------ MODULE Download ------------------------------
(***************************************************************************)
(* The download tool (tools/download.rs): downloads of one url to one      *)
(* file, one after the other, each with a limit on the size, an optional   *)
(* checksum, and optionally resuming what is there.  The file holds blocks *)
(* of the versions the server has published; a download may be cut short   *)
(* at any await, and what it has written stays.                            *)
(***************************************************************************)
EXTENDS Common, Naturals, Sequences

CONSTANTS
    DlVersions,      \* versions the server publishes
    DlLength(_),     \* their lengths in blocks
    DlMaxSize,       \* max_size, in blocks; a chunk of the stream is one block
    DlFileMax        \* bound on the file's blocks, for TLC

ASSUME DlConstants == DlMaxSize \in Nat /\ None \notin DlVersions

VARIABLES
    dlFile,      \* the file: its blocks, or None when it does not exist
    dlServer,    \* the version the server gives out
    dlCall       \* the download under way

dlVars == <<dlFile, dlServer, dlCall>>

DlBlocks(v) == [i \in 1 .. DlLength(v) |-> <<v, i>>]
DlIdle == [pc |-> "idle", resume |-> FALSE, sha |-> None, from |-> 0,
           body |-> <<>>, got |-> 0]
DlSize == IF dlFile = None THEN 0 ELSE Len(dlFile)

\* execute_download: resume_from is the length of the file that is there.
DlBegin(resume, sha) ==
    /\ dlCall.pc = "idle"
    /\ dlCall' = [DlIdle EXCEPT !.pc = "asked", !.resume = resume, !.sha = sha,
                                !.from = IF resume THEN DlSize ELSE 0]
    /\ UNCHANGED <<dlFile, dlServer>>

\* A non-success status (416 for a range that is past the end), an answer to a range
\* that is not 206, or a Content-Length over the limit end the call before the file
\* is opened.  sized: the answer has a Content-Length.
DlAccept(status, sized, body) ==
    /\ status \in {200, 206}
    /\ dlCall.from > 0 => status = 206
    /\ sized => Len(body) + dlCall.from <= DlMaxSize

\* 206 appends to the file that is there, 200 cuts it to nothing.
DlOpen(status) == IF status = 206 THEN dlFile ELSE <<>>

DlAnswered(status, sized) ==
    /\ dlCall.pc = "asked"
    /\ LET all == DlBlocks(dlServer)
           body == SubSeq(all, IF status = 206 THEN dlCall.from + 1 ELSE 1, Len(all)) IN
       /\ status = 206 => 0 < dlCall.from /\ dlCall.from < Len(all)
       /\ IF DlAccept(status, sized, body)
          THEN /\ dlFile' = DlOpen(status)
               /\ dlCall' = [dlCall EXCEPT !.pc = "body", !.body = body]
          ELSE UNCHANGED dlFile /\ dlCall' = DlIdle
    /\ UNCHANGED dlServer

\* A chunk is written before the total is compared with the limit.
DlOver(k) == k.from + k.got > DlMaxSize
DlChunk ==
    /\ dlCall.pc = "body" /\ dlCall.body # <<>>
    /\ DlSize < DlFileMax
    /\ dlFile' = Append(dlFile, Head(dlCall.body))
    /\ LET k == [dlCall EXCEPT !.body = Tail(@), !.got = @ + 1] IN
       dlCall' = IF DlOver(k) THEN DlIdle ELSE k
    /\ UNCHANGED dlServer

\* The end of the stream: the checksum is that of the whole file.
DlMatches_FreshOnly(k) == k.sha = None \/ k.from > 0 \/ dlFile = DlBlocks(k.sha)
DlMatches(k) == k.sha = None \/ dlFile = DlBlocks(k.sha)
DlEnd ==
    /\ dlCall.pc = "body" /\ dlCall.body = <<>>
    /\ dlCall' = IF DlMatches(dlCall) THEN [dlCall EXCEPT !.pc = "ok"] ELSE DlIdle
    /\ UNCHANGED <<dlFile, dlServer>>

DlReturn == dlCall.pc = "ok" /\ dlCall' = DlIdle /\ UNCHANGED <<dlFile, dlServer>>

\* run_with_controls: the timeout or the token drops the download where it is; a
\* request or a stream that fails ends it as well.
DlCut ==
    /\ dlCall.pc \in {"asked", "body"}
    /\ dlCall' = DlIdle
    /\ UNCHANGED <<dlFile, dlServer>>

DlPublish ==
    /\ dlServer' \in DlVersions \ {dlServer}
    /\ UNCHANGED <<dlFile, dlCall>>

DlInit == dlFile = None /\ dlServer = (CHOOSE v \in DlVersions : TRUE) /\ dlCall = DlIdle

DlNext ==
    \/ \E r \in BOOLEAN, v \in DlVersions \cup {None} : DlBegin(r, v)
    \/ \E st \in {200, 206, 416}, z \in BOOLEAN : DlAnswered(st, z)
    \/ DlChunk \/ DlEnd \/ DlReturn \/ DlCut \/ DlPublish

DlSpec == DlInit /\ [][DlNext]_dlVars

-----------------------------------------------------------------------------
\* A download that succeeds with a checksum leaves the whole of the version that has
\* this checksum, whatever calls that were cut, mixed versions or went over the
\* limit have left in the file before.
DlVerified == dlCall.pc = "ok" /\ dlCall.sha # None => dlFile = DlBlocks(dlCall.sha)
=============================================================================
