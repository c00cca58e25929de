------------------------------- MODULE Rules -------------------------------
(***************************************************************************)
(* Rule files (rules/, conversation/session_manager.rs): found when the    *)
(* program starts, chosen by the topics of a session, and read once.       *)
(***************************************************************************)
EXTENDS Common, Naturals, Sequences, FiniteSets, SequencesExt

CONSTANTS RuMaxDepth,   \* max_discovery_depth
          RuMaxShown,   \* the rules a turn shows at most (8)
          RuThreshold,  \* topic_similarity_threshold, in percent
          RuMaxEdits    \* bound: changes of files

\* A depth of 0 is replaced by the default when the configuration is loaded.
ASSUME RuConstants == RuMaxDepth \in Nat \ {0} /\ None \notin {"v1", "v2", "bad"}

VARIABLES
    ruFiles,    \* path -> what is in the file: "v1", "v2", "bad" front matter, or None
    ruIgnored,  \* the lines of .gitignore
    ruRules,    \* the rules found by the running program, by precedence; None: not running
    ruCache,    \* path -> the content in the table context_files
    ruStored,   \* the topics of the session in the table session_topics
    ruTracker,  \* the topics the TopicTracker holds
    ruDue,      \* should_reinfer: never updated, or the interval is over
    ruTurn,     \* the last turn: what it showed, or that it failed
    ruEver,     \* history: the rules some turn that did not fail has loaded
    ruEdits

ruVars == <<ruFiles, ruIgnored, ruRules, ruCache, ruStored, ruTracker, ruDue, ruTurn, ruEver, ruEdits>>

(* Discovery *)
RuGlobal == <<"~", "all.md">>
RuPaths == {RuGlobal, <<"top.md">>, <<".agents", "sub", "db.md">>, <<".agents", "near.md">>}
RuPlain == [always |-> FALSE, topics |-> {}, globs |-> {}, scope |-> None, priority |-> 0]
RuMeta(path) ==
    CASE path = RuGlobal -> [RuPlain EXCEPT !.globs = {"*.rs"}]
      [] path = <<"top.md">> -> RuPlain
      [] path = <<".agents", "near.md">> -> [RuPlain EXCEPT !.always = TRUE]
      [] OTHER -> [RuPlain EXCEPT !.topics = {"db"}, !.scope = "topic"]
RuRoots == {<<>>, <<".agents">>}
\* is_ignored: the last line that matches decides.
RuMatches(line, path, isDir) ==
    /\ line.dirOnly => isDir
    /\ IF line.anchored THEN path = <<line.name>> ELSE line.name \in Range(path)
RuIsIgnored(path, isDir) ==
    \E i \in DOMAIN ruIgnored :
        /\ RuMatches(ruIgnored[i], path, isDir) /\ ~ruIgnored[i].negated
        /\ \A k \in i + 1..Len(ruIgnored) : ~RuMatches(ruIgnored[k], path, isDir)
\* scan_rules_dir: what is below a directory that is left out is never looked at.
RuScans(root, path) ==
    /\ IsPrefix(root, path) /\ Len(path) - Len(root) - 1 <= RuMaxDepth
    /\ \A n \in Len(root) + 1..Len(path) - 1 : ~RuIsIgnored(SubSeq(path, 1, n), TRUE)
    /\ ~RuIsIgnored(path, FALSE)
RuScanned == {path \in RuPaths \ {RuGlobal} : \E root \in RuRoots : RuScans(root, path)}
RuThere(paths) == {path \in paths : ruFiles[path] # None}
RuScope(path) ==
    CASE RuMeta(path).scope # None -> RuMeta(path).scope
      [] path = RuGlobal -> "global"
      [] OTHER -> "project"
\* sort_rule_files_by_precedence
RuRank(path) ==
    <<IF RuMeta(path).always THEN 0 ELSE 1,
      CASE RuScope(path) = "global" -> 0 [] RuScope(path) = "project" -> 1 [] OTHER -> 2,
      IF path = RuGlobal THEN 9 ELSE Len(path), 9 - RuMeta(path).priority>>
RuBefore(p, q) ==
    \E n \in 1..4 : RuRank(p)[n] < RuRank(q)[n] /\ \A k \in 1..n - 1 : RuRank(p)[k] = RuRank(q)[k]
\* dedup_rules: .agents is scanned from the work directory, too.
RuFound == RuThere(RuScanned \cup {RuGlobal})
RuSorted(found) ==
    {rules \in SetToSeqs(found) : \A i, j \in DOMAIN rules : i < j => RuBefore(rules[i], rules[j])}

\* A rule with bad front matter ends the start.
RuStarts ==
    /\ ruRules = None
    /\ IF \E path \in RuFound : ruFiles[path] = "bad" THEN ruRules' = None
       ELSE ruRules' \in RuSorted(RuFound)
    /\ ruTracker' = {} /\ ruDue' = TRUE
    /\ UNCHANGED <<ruFiles, ruIgnored, ruCache, ruStored, ruTurn, ruEver, ruEdits>>
RuStops ==
    /\ ruRules # None /\ ruRules' = None
    /\ UNCHANGED <<ruFiles, ruIgnored, ruCache, ruStored, ruTracker, ruDue, ruTurn, ruEver, ruEdits>>

(* maybe_refresh_topics *)
RuSimilar(old, new) ==
    IF old \cup new = {} THEN TRUE
    ELSE Cardinality(old \cap new) * 100 > RuThreshold * Cardinality(old \cup new)
RuAvailable == UNION {RuMeta(path).topics : path \in Range(ruRules)}
\* infer_topics: any list of words; an answer that is none changes nothing.
RuInferred == {{}, {"db"}, {"db", "ui"}}
RuStores(topics, stores) == IF stores THEN topics ELSE ruStored
\* The tracker moves on also when the topics cannot be stored.
RuRefreshes(inferred, stores) ==
    /\ ruRules # None /\ ruDue /\ RuAvailable # {} /\ ~RuSimilar(ruTracker, inferred)
    /\ ruTracker' = inferred /\ ruDue' = FALSE
    /\ ruStored' = RuStores(inferred, stores)
    /\ UNCHANGED <<ruFiles, ruIgnored, ruRules, ruCache, ruTurn, ruEver, ruEdits>>
RuTime ==
    /\ ruRules # None /\ ~ruDue /\ ruDue' = TRUE
    /\ UNCHANGED <<ruFiles, ruIgnored, ruRules, ruCache, ruStored, ruTracker, ruTurn, ruEver, ruEdits>>

(* get_applicable_rules *)
RuApplies(path, topics, file, named) ==
    \/ path \in named
    \/ /\ \/ RuMeta(path).always \/ RuMeta(path).topics = {}
          \/ RuMeta(path).topics \cap topics # {}
       /\ RuMeta(path).globs = {} \/ file \in RuMeta(path).globs
\* The places of the rules that apply; they are read and shown in the order of the rules.
RuApplicable(topics, file, named) ==
    {i \in DOMAIN ruRules : RuApplies(ruRules[i], topics, file, named)}
RuAt(places) == {ruRules[i] : i \in places}
\* load_rule_content: what is in the table is not read again.
RuLoads(path) == IF ruCache[path] # None THEN ruCache[path] ELSE ruFiles[path]
RuCached_None(paths) == ruCache
RuCached(paths) == [path \in RuPaths |-> IF path \in paths THEN RuLoads(path) ELSE ruCache[path]]
\* Up to the first that cannot be read.
RuRead(places) ==
    RuAt({i \in places : \A k \in places : k <= i => RuLoads(ruRules[k]) # None})
\* load_context_window_from_session: neither the file nor the message is passed on,
\* so no rule is selected by its patterns or because the message names it.
RuTurns ==
    /\ ruRules # None
    /\ LET places == RuApplicable(ruStored, None, {})
           shown == {i \in places : Cardinality({k \in places : k <= i}) <= RuMaxShown}
           fails == RuRead(places) # RuAt(places)
       IN /\ ruTurn' = [failed |-> fails, shown |-> IF fails THEN {} ELSE RuAt(shown)]
          /\ ruEver' = IF fails THEN ruEver ELSE ruEver \cup RuAt(places)
          /\ ruCache' = RuCached(RuRead(places))
    /\ UNCHANGED <<ruFiles, ruIgnored, ruRules, ruStored, ruTracker, ruDue, ruEdits>>

RuFileEdited(path, content) ==
    /\ ruEdits < RuMaxEdits /\ ruEdits' = ruEdits + 1 /\ ruFiles[path] # content
    /\ ruFiles' = [ruFiles EXCEPT ![path] = content]
    /\ ruTurn' = [ruTurn EXCEPT !.failed = FALSE]
    /\ UNCHANGED <<ruIgnored, ruRules, ruCache, ruStored, ruTracker, ruDue, ruEver>>
RuLine(name, negated, dirOnly, anchored) ==
    [name |-> name, negated |-> negated, dirOnly |-> dirOnly, anchored |-> anchored]
RuIgnoreFiles ==
    {<<>>, <<RuLine(".agents", FALSE, TRUE, FALSE)>>, <<RuLine("sub", FALSE, FALSE, FALSE)>>,
     <<RuLine("top.md", FALSE, FALSE, TRUE), RuLine("top.md", TRUE, FALSE, FALSE)>>}
RuIgnoreEdited(lines) ==
    /\ ruRules = None /\ ruEdits < RuMaxEdits /\ ruEdits' = ruEdits + 1 /\ ruIgnored' = lines
    /\ UNCHANGED <<ruFiles, ruRules, ruCache, ruStored, ruTracker, ruDue, ruTurn, ruEver>>

RuInit ==
    /\ ruFiles = [path \in RuPaths |-> "v1"] /\ ruIgnored = <<>> /\ ruRules = None
    /\ ruCache = [path \in RuPaths |-> None] /\ ruStored = {} /\ ruTracker = {} /\ ruDue = TRUE
    /\ ruTurn = [failed |-> FALSE, shown |-> {}] /\ ruEver = {} /\ ruEdits = 0

RuNext ==
    \/ RuStarts \/ RuStops \/ RuTime \/ RuTurns
    \/ \E inferred \in RuInferred, stores \in BOOLEAN : RuRefreshes(inferred, stores)
    \/ \E path \in RuPaths, content \in {"v2", "bad", None} : RuFileEdited(path, content)
    \/ \E lines \in RuIgnoreFiles : RuIgnoreEdited(lines)

\* A rule that was shown once does not make a later turn fail, whatever becomes of its file.
RuKeepsGoing ==
    ruTurn.failed => \E path \in RuPaths : ruFiles[path] = None /\ path \notin ruEver

\* The rules of the project folder are found down to the depth below that folder, each
\* rule once, those of wider scope before those of narrower scope.
RuFoundOnce ==
    ruRules # None =>
        /\ \A i, j \in DOMAIN ruRules : i < j => RuBefore(ruRules[i], ruRules[j])
        /\ ruEdits = 0 => Range(ruRules) = RuPaths

RuSpec == RuInit /\ [][RuNext]_ruVars
=============================================================================
