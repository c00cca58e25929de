------------------------------- MODULE FsTool -------------------------------
(***************************************************************************)
(* The filesystem tool (tools/filesystem.rs) on the tree below its working *)
(* directory, one call at a time.  An operation that fails leaves what it  *)
(* has done: copying and removing a directory go entry by entry.           *)
(***************************************************************************)
EXTENDS Common, Naturals, Sequences, FiniteSets, SequencesExt

CONSTANTS
    FsPaths,         \* paths, as sequences of names; <<>> is the working directory
    FsContents,      \* contents of files
    FsEdited(_),     \* what edit makes of a content (None: the text is not found)
    FsMaxEntries     \* MAX_COPY_ENTRIES, MAX_DELETE_ENTRIES

FsNames == UNION {Range(p) : p \in FsPaths}
ASSUME FsConstants ==
    /\ <<>> \in FsPaths /\ FsPaths \subseteq Seq(FsNames) /\ None \notin FsPaths
    /\ \A p \in FsPaths : \A n \in 0..Len(p) : SubSeq(p, 1, n) \in FsPaths
    /\ None # "dir" /\ {None, "dir"} \cap FsContents = {}
    /\ \A v \in FsContents : FsEdited(v) \in FsContents \cup {None}
    /\ FsMaxEntries \in Nat

VARIABLES
    fsTree,    \* what is at each path: None, "dir", or a content
    fsCall,    \* None, or the source a move still has to remove
    fsMoved    \* history: the last call, if a move: its paths, the files it found at src

fsVars == <<fsTree, fsCall, fsMoved>>

FsIs(p, kind) == CASE kind = "none" -> fsTree[p] = None
                   [] kind = "dir" -> fsTree[p] = "dir"
                   [] kind = "file" -> fsTree[p] \in FsContents
FsBelow(p) == {q \in FsPaths : IsPrefix(p, q) /\ q # p /\ fsTree[q] # None}
FsUp(p) == {q \in FsPaths : IsPrefix(q, p) /\ q # p}

\* enforce_agent_permission; checked_path sees to it that a path names one place.
FsReads == {"read", "list", "info", "glob", "hash"}
FsMay(readOnly, op) == readOnly => op \in FsReads
FsBegins(readOnly, op) == fsCall = None /\ FsMay(readOnly, op)

FsFilesAt(p) == [q \in {r \in FsBelow(p) \cup {p} : FsIs(r, "file")} |-> fsTree[q]]
FsNote(src, dst) == fsMoved' = [src |-> src, dst |-> dst, files |-> FsFilesAt(src)]
FsNoMove == [src |-> <<>>, dst |-> <<>>, files |-> <<>>]
FsEnd == fsCall' = None /\ fsMoved' = FsNoMove

\* create_dir_all: a file on the way is an error.
FsCanMakeDirs(D) == \A q \in D : ~FsIs(q, "file")
FsWithDirs(tree, D) == [q \in FsPaths |-> IF q \in D /\ tree[q] = None THEN "dir" ELSE tree[q]]

\* Reading changes nothing: "read"; "list"; and "info", "glob" and "hash".
FsRead(p, ro) == FsBegins(ro, "read") /\ FsIs(p, "file") /\ FsEnd /\ UNCHANGED fsTree
FsList(p, ro) == FsBegins(ro, "list") /\ FsIs(p, "dir") /\ FsEnd /\ UNCHANGED fsTree
FsLook(p, ro) ==
    /\ \E op \in {"info", "glob", "hash"} : FsBegins(ro, op)
    /\ ~FsIs(p, "none") /\ FsEnd /\ UNCHANGED fsTree

FsWrite(p, v, overwrite, createDirs, ro) ==
    /\ FsBegins(ro, "write")
    /\ ~FsIs(p, "dir") /\ (FsIs(p, "file") => overwrite)
    /\ FsIs(Front(p), "dir") \/ (createDirs /\ FsCanMakeDirs(FsUp(p)))
    /\ fsTree' = [FsWithDirs(fsTree, FsUp(p)) EXCEPT ![p] = v]
    /\ FsEnd

FsEdit(p, ro) ==
    /\ FsBegins(ro, "edit") /\ FsIs(p, "file")
    /\ FsEdited(fsTree[p]) # None
    /\ fsTree' = [fsTree EXCEPT ![p] = FsEdited(fsTree[p])]
    /\ FsEnd

FsMkdir(p, recursive, ro) ==
    /\ FsBegins(ro, "mkdir")
    /\ IF recursive THEN FsCanMakeDirs(FsUp(p) \cup {p})
                    ELSE FsIs(p, "none") /\ FsIs(Front(p), "dir")
    /\ fsTree' = FsWithDirs(fsTree, FsUp(p) \cup {p})
    /\ FsEnd

\* remove_dir_all: everything, or, when it fails, entries whose own entries are gone.
FsRemovals(p) == {S \in SUBSET (FsBelow(p) \cup {p}) : \A q \in S : FsBelow(q) \subseteq S}
FsWithout(S) == [q \in FsPaths |-> IF q \in S THEN None ELSE fsTree[q]]

\* The working directory itself is never deleted; enforce_recursive_delete_limits
\* counts the entries before anything is removed.
FsDelete(p, recursive, ro) ==
    /\ FsBegins(ro, "delete")
    /\ p # <<>> /\ ~FsIs(p, "none")
    /\ IF recursive THEN Cardinality(FsBelow(p)) + 1 <= FsMaxEntries ELSE FsBelow(p) = {}
    /\ \E S \in FsRemovals(p) : fsTree' = FsWithout(S)
    /\ FsEnd

\* copy_directory_recursive: the entries of S have been copied.  A file never replaces
\* a directory and nothing goes below a file; a directory leaves what it meets there.
FsTo(src, dst, q) == dst \o SubSeq(q, Len(src) + 1, Len(q))
FsFits(src, dst, S) ==
    \A q \in S : LET to == FsTo(src, dst, q) IN
        /\ to \in FsPaths
        /\ ~FsIs(Front(to), "file")
        /\ FsIs(q, "file") => ~FsIs(to, "dir")
FsCopies(src, dst) ==
    {S \in SUBSET FsBelow(src) :
        /\ Cardinality(S) <= FsMaxEntries /\ FsFits(src, dst, S)
        /\ \A q \in S : FsUp(q) \cap FsBelow(src) \subseteq S}
FsCopied(src, dst, S) ==
    [r \in FsPaths |->
        LET from == {q \in S : r = FsTo(src, dst, q)}
            made == FsWithDirs(fsTree, FsUp(dst) \cup {dst})[r] IN
        IF from = {} \/ (made # None /\ fsTree[CHOOSE q \in from : TRUE] = "dir") THEN made
        ELSE fsTree[CHOOSE q \in from : TRUE]]
\* A copy into the source itself never ends but for the limit of depth, an error.
FsWhole(src, dst, S) == S = FsBelow(src) /\ ~IsPrefix(src, dst)

FsCopyFile(src, dst) ==
    /\ FsIs(src, "file") /\ ~FsIs(dst, "dir") /\ FsCanMakeDirs(FsUp(dst))
    /\ fsTree' = [FsWithDirs(fsTree, FsUp(dst)) EXCEPT ![dst] = fsTree[src]]

FsCopy(src, dst, recursive, ro) ==
    /\ FsBegins(ro, "copy")
    /\ \/ FsCopyFile(src, dst)
       \/ /\ FsIs(src, "dir") /\ recursive /\ FsCanMakeDirs(FsUp(dst))
          /\ \E S \in FsCopies(src, dst) : fsTree' = FsCopied(src, dst, S)
    /\ FsEnd

\* move: rename, which replaces a file by a file and an empty directory by one.
FsRename(src, dst, ro) ==
    /\ FsBegins(ro, "move")
    /\ src # <<>> /\ ~FsIs(src, "none") /\ FsCanMakeDirs(FsUp(dst))
    /\ ~IsPrefix(src, dst)
    /\ FsIs(src, "dir") => ~FsIs(dst, "file") /\ FsBelow(dst) = {} /\ FsFits(src, dst, FsBelow(src))
    /\ FsIs(src, "file") => ~FsIs(dst, "dir")
    /\ LET moved == FsCopied(src, dst, FsBelow(src)) IN
       fsTree' = [q \in FsPaths |-> IF q \in FsBelow(src) \cup {src} THEN None
                                    ELSE IF q = dst THEN fsTree[src] ELSE moved[q]]
    /\ FsNote(src, dst)
    /\ UNCHANGED fsCall

\* When rename fails, for whatever reason, the source is copied and then removed; an
\* error of the copy ends the call before that.
FsGoesOn_Always(src, dst, S) == TRUE
FsGoesOn(src, dst, S) == FsWhole(src, dst, S)
FsMoveCopies(src, dst, ro) ==
    /\ FsBegins(ro, "move")
    /\ src # <<>> /\ src # dst /\ FsCanMakeDirs(FsUp(dst))
    /\ \/ FsCopyFile(src, dst) /\ fsCall' = src
       \/ /\ FsIs(src, "dir")
          /\ \E S \in FsCopies(src, dst) :
                /\ fsTree' = FsCopied(src, dst, S)
                /\ fsCall' = IF FsGoesOn(src, dst, S) THEN src ELSE None
    /\ FsNote(src, dst)

FsMoveRemoves ==
    /\ fsCall # None
    /\ \E S \in FsRemovals(fsCall) : fsTree' = FsWithout(S)
    /\ fsCall' = None
    /\ UNCHANGED fsMoved

FsInit ==
    /\ fsTree = [p \in FsPaths |-> IF p = <<>> THEN "dir" ELSE None]
    /\ fsCall = None
    /\ fsMoved = FsNoMove

FsOther ==
    \/ \E p \in FsPaths \ {<<>>}, ro, b, d \in BOOLEAN, v \in FsContents :
        FsRead(p, ro) \/ FsList(p, ro) \/ FsLook(p, ro) \/ FsWrite(p, v, b, d, ro) \/ FsEdit(p, ro) \/ FsMkdir(p, b, ro)
    \/ \E p \in FsPaths, ro, b \in BOOLEAN : FsDelete(p, b, ro)
    \/ \E p, q \in FsPaths \ {<<>>}, ro, b \in BOOLEAN : FsCopy(p, q, b, ro)
FsNext ==
    \/ FsOther
    \/ \E p, q \in FsPaths \ {<<>>}, ro \in BOOLEAN : FsRename(p, q, ro) \/ FsMoveCopies(p, q, ro)
    \/ FsMoveRemoves

\* A move never loses a file, whether rename does it or the copy and the removal that
\* stand in for it, and wherever these fail: until the next call every file that was
\* at or below the source is there still, or at its place at the destination, with
\* its content.  (Not so for what lies below the destination: where that is in the source,
\* copies replace files there, and where the source is in it, copies go with the source.)
FsMoveKeeps ==
    \A q \in DOMAIN fsMoved.files :
        \/ IsPrefix(fsMoved.dst, q)
        \/ fsTree[q] = fsMoved.files[q]
        \/ LET to == FsTo(fsMoved.src, fsMoved.dst, q) IN
           to \in FsPaths /\ fsTree[to] = fsMoved.files[q]

FsSpec == FsInit /\ [][FsNext]_fsVars
=============================================================================
