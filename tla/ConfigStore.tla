---------------------------- MODULE ConfigStore ----------------------------
(***************************************************************************)
(* ConfigManager (config/manager.rs): two files of settings, the global    *)
(* one and the project's over it, kept in memory with their merge and a    *)
(* version.  Its write lock makes each operation one step; what can fail   *)
(* in it is validation and, one after the other, the two writes.           *)
(***************************************************************************)
EXTENDS Common, Naturals, FiniteSets

CONSTANTS CfgClients,
          CfgMaxVersion   \* bound on the version

VARIABLES
    cfgFile,       \* what the files hold; global None: there is no such file
    cfgRaw,        \* project_raw and global_raw
    cfgEffective,  \* effective_config: the merge of both when it was last accepted
    cfgVersion,
    cfgUp,         \* the manager has been loaded
    cfgSeen,       \* history: client -> the version and configuration it last read
    cfgShould      \* history: the files as the operations that succeeded should leave them

cfgVars == <<cfgFile, cfgRaw, cfgEffective, cfgVersion, cfgUp, cfgSeen, cfgShould>>

\* Three paths stand for all: the backend, the url it needs when it is postgres, and a
\* field of a provider, "listed" when the provider is there without the field.
CfgPaths == {"backend", "url", "model"}
CfgValues(path) == CASE path = "backend" -> {"postgres"}
                     [] path = "url" -> {"u"}
                     [] path = "model" -> {"m"}
CfgEmpty == [p \in CfgPaths |-> None]
CfgChanges ==
    UNION {[scope : {"project", "global"}, path : {p}, value : CfgValues(p)] : p \in CfgPaths}

\* merge_json: the project's value hides the global one, an array as a whole.
CfgOr(layer) == IF layer = None THEN CfgEmpty ELSE layer
CfgMerged(raw) ==
    [p \in CfgPaths |-> IF raw.project[p] # None THEN raw.project[p] ELSE CfgOr(raw.global)[p]]
\* validate_config, of what the three paths decide.
CfgHasProvider(config) == config["model"] # None
CfgBackendReady(config) == config["backend"] = "postgres" => config["url"] # None
CfgValid(config) == CfgHasProvider(config) /\ CfgBackendReady(config)

\* set_raw_value and unset_raw_value: the field of a provider the layer does not list
\* cannot be set; removing it leaves the provider listed.
CfgCanSet(layer, path) == path = "model" => CfgOr(layer)[path] # None
CfgSet(layer, path, value) == [CfgOr(layer) EXCEPT ![path] = value]
CfgIsSet(layer, path) == CfgOr(layer)[path] \notin {None, "listed"}
CfgUnset(layer, path) == CfgSet(layer, path, IF path = "model" THEN "listed" ELSE None)

CfgLoaded(files) ==
    /\ cfgRaw' = files
    /\ CfgValid(CfgMerged(files))
    /\ cfgEffective' = CfgMerged(files)

CfgLoad ==
    /\ ~cfgUp /\ CfgLoaded(cfgFile)
    /\ cfgUp' = TRUE /\ cfgVersion' = 1
    /\ cfgSeen' = [c \in CfgClients |-> None]
    /\ UNCHANGED <<cfgFile, cfgShould>>

CfgSnapshot(c) ==
    /\ cfgUp
    /\ cfgSeen' = [cfgSeen EXCEPT ![c] = [version |-> cfgVersion, config |-> cfgEffective]]
    /\ UNCHANGED <<cfgFile, cfgRaw, cfgEffective, cfgVersion, cfgUp, cfgShould>>

\* get_value, get_effective_value_with_source: where a value comes from.
CfgSource(path) == IF cfgRaw.project[path] # None THEN "project"
                   ELSE IF CfgOr(cfgRaw.global)[path] # None THEN "global" ELSE "default"
CfgGet(path) == cfgUp /\ CfgSource(path) \in {"project", "global", "default"} /\ UNCHANGED cfgVars

\* The outcomes of commit_state with the raw layers at raw: refused by validation; a
\* write that fails, of the global file or, after that one, of the project's; success.
CfgWrites(raw, dirty) ==
    [project |-> IF "project" \in dirty THEN raw.project ELSE cfgFile.project,
     global |-> IF "global" \in dirty THEN raw.global ELSE cfgFile.global]
CfgNextVersion_Kept(version) == version
CfgNextVersion(version) == version + 1
CfgTakesEffect(raw) == CfgValid(CfgMerged(raw)) /\ cfgEffective' = CfgMerged(raw)
CfgCommit(raw, dirty, should) ==
    /\ cfgRaw' = raw
    /\ \/ /\ CfgTakesEffect(raw)
          /\ cfgFile' = CfgWrites(raw, dirty)
          /\ cfgVersion < CfgMaxVersion /\ cfgVersion' = CfgNextVersion(cfgVersion)
          /\ cfgShould' = should
       \/ /\ ~CfgValid(CfgMerged(raw))
          /\ UNCHANGED <<cfgFile, cfgEffective, cfgVersion, cfgShould>>
       \/ /\ CfgValid(CfgMerged(raw))
          /\ cfgFile' \in {cfgFile, CfgWrites(raw, dirty \ {"project"})}
          /\ cfgShould' = cfgFile' /\ UNCHANGED <<cfgEffective, cfgVersion>>

\* ensure_expected_version, when the client names the version it read.
CfgExpected(c, checked) ==
    /\ cfgUp
    /\ checked => cfgSeen[c] # None /\ cfgSeen[c].version = cfgVersion

\* patch: the changes are made to a copy, which becomes the raw layers before it is
\* validated.  unset changes the raw layer itself; a path not set is an error.
CfgPatched(raw, changes) ==
    [s \in {"project", "global"} |->
        LET mine == {x \in changes : x.scope = s} IN
        IF mine = {} THEN raw[s]
        ELSE [p \in CfgPaths |->
                 IF \E x \in mine : x.path = p THEN (CHOOSE x \in mine : x.path = p).value
                 ELSE CfgOr(raw[s])[p]]]
CfgPatch(c, changes, checked) ==
    /\ CfgExpected(c, checked)
    /\ \A x \in changes : CfgCanSet(cfgRaw[x.scope], x.path)
    /\ CfgCommit(CfgPatched(cfgRaw, changes), {x.scope : x \in changes},
                 CfgPatched(cfgShould, changes))
    /\ UNCHANGED <<cfgUp, cfgSeen>>

CfgUnsetValue(c, scope, path, checked) ==
    /\ CfgExpected(c, checked)
    /\ CfgIsSet(cfgRaw[scope], path)
    /\ CfgCommit([cfgRaw EXCEPT ![scope] = CfgUnset(@, path)], {scope},
                 [cfgShould EXCEPT ![scope] = CfgUnset(@, path)])
    /\ UNCHANGED <<cfgUp, cfgSeen>>
\* The path was not set: the global layer is there all the same from now on.
CfgUnsetNothing(c, checked) ==
    /\ CfgExpected(c, checked)
    /\ cfgRaw' = [cfgRaw EXCEPT !.global = CfgOr(@)]
    /\ UNCHANGED <<cfgFile, cfgEffective, cfgVersion, cfgUp, cfgSeen, cfgShould>>

\* reload takes what the files hold; what is not valid stays in the raw layers.
CfgReload ==
    /\ cfgUp
    /\ \/ CfgLoaded(cfgFile) /\ cfgVersion < CfgMaxVersion /\ cfgVersion' = CfgNextVersion(cfgVersion)
       \/ /\ ~CfgValid(CfgMerged(cfgFile))
          /\ cfgRaw' = cfgFile
          /\ UNCHANGED <<cfgEffective, cfgVersion>>
    /\ cfgShould' = cfgFile
    /\ UNCHANGED <<cfgFile, cfgUp, cfgSeen>>

\* The process ends, between the two writes at worst: CfgCommit's last case, then this.
CfgEnds ==
    /\ cfgUp /\ cfgUp' = FALSE
    /\ UNCHANGED <<cfgFile, cfgRaw, cfgEffective, cfgVersion, cfgSeen, cfgShould>>

\* Files a failure between the writes left do not load until someone edits them.
CfgStart == [project |-> [CfgEmpty EXCEPT !["model"] = "listed"], global |-> None]
CfgEdited ==
    /\ ~cfgUp /\ ~CfgValid(CfgMerged(cfgFile))
    /\ cfgFile' = CfgStart /\ cfgShould' = CfgStart
    /\ UNCHANGED <<cfgRaw, cfgEffective, cfgVersion, cfgUp, cfgSeen>>

CfgInit ==
    /\ cfgFile = CfgStart
    /\ cfgRaw = cfgFile /\ cfgEffective = CfgMerged(cfgFile)
    /\ cfgVersion = 1 /\ cfgUp = FALSE
    /\ cfgSeen = [c \in CfgClients |-> None]
    /\ cfgShould = cfgFile

CfgNext ==
    \/ CfgLoad \/ CfgReload \/ CfgEnds \/ CfgEdited
    \/ \E path \in CfgPaths : CfgGet(path)
    \/ \E c \in CfgClients : CfgSnapshot(c)
    \/ \E c \in CfgClients, checked \in BOOLEAN :
        \/ \E x, y \in CfgChanges :
              (x = y \/ x.scope # y.scope \/ x.path # y.path) /\ CfgPatch(c, {x, y}, checked)
        \/ \E s \in {"project", "global"}, p \in CfgPaths : CfgUnsetValue(c, s, p, checked)
        \/ CfgUnsetNothing(c, checked)

\* The version tells a client whether the configuration it read is still the one in
\* effect: while the version is the one it read, so is the configuration, whatever
\* was refused, failed or reloaded meanwhile.  The check of expected_version rests on it.
CfgVersionTells ==
    \A c \in CfgClients : cfgUp /\ cfgSeen[c] # None /\ cfgSeen[c].version = cfgVersion
                             => cfgSeen[c].config = cfgEffective

\* What is in effect has passed validation, after any sequence of refused changes,
\* failed writes and reloads.
CfgEffectiveValid == cfgUp => CfgValid(cfgEffective)

\* What is in effect is valid, and its version tells it from every other.
CfgHolds == CfgVersionTells /\ CfgEffectiveValid

\* ADR-0016: a list of changes is applied all or nothing.  The files hold what the
\* changes that succeeded put there, and nothing of one that was refused.
CfgAllOrNothing == cfgFile = cfgShould

CfgSpec == CfgInit /\ [][CfgNext]_cfgVars
=============================================================================
