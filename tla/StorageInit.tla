---------------------------- MODULE StorageInit ----------------------------
(***************************************************************************)
(* The schema of the database (ensure_initialized in storage/sqlite and    *)
(* storage/postgres): every operation starts with it, every process of the *)
(* program runs it once, and its statements are not in a transaction.      *)
(***************************************************************************)
EXTENDS Common, Naturals, FiniteSets, Sequences

CONSTANTS DbProcs,      \* processes that open the database
          DbLast        \* the newest migration

ASSUME DbConstants == DbLast \in Nat \ {0}

VARIABLES
    dbTable,   \* the table schema_version exists
    dbRows,    \* its rows, whose only column is the version, the primary key
    dbMade,    \* migrations whose tables exist
    dbProc,    \* process -> where it is in ensure_initialized
    dbOpened   \* history: outcomes of the attempts to initialise

dbVars == <<dbTable, dbRows, dbMade, dbProc, dbOpened>>

DbReady == [at |-> "ready", m |-> 0, next |-> 0]
DbClosed == [at |-> "closed", m |-> 0, next |-> 0]

\* SCHEMA_V1 also makes the table and its row; each migration ends with its number.
DbStatements_BumpFirst(m) == <<"bump", "create">>
DbStatements(m) == IF m = 1 THEN <<"table", "row", "create", "bump">> ELSE <<"create", "bump">>

\* Continue with migration m, when there is one.
DbMigrate(p, m) ==
    dbProc' = [dbProc EXCEPT ![p] = IF m > DbLast THEN DbReady
                                    ELSE [at |-> "migrates", m |-> m, next |-> 1]]
\* An error ends the attempt; the OnceCell stays empty and the next operation tries again.
DbFails(p) ==
    /\ dbProc' = [dbProc EXCEPT ![p] = DbClosed]
    /\ dbOpened' = dbOpened \cup {"failed"}
    /\ UNCHANGED <<dbTable, dbRows, dbMade>>

\* SELECT version FROM schema_version LIMIT 1: the lowest row comes first; without a
\* row the version is 0; without the table the statement is an error.
DbVersion == IF dbRows = {} THEN 0 ELSE CHOOSE v \in dbRows : \A w \in dbRows : v <= w
DbSelect(p) ==
    /\ dbProc[p].at = "closed"
    /\ IF ~dbTable THEN DbFails(p)
       ELSE DbMigrate(p, DbVersion + 1) /\ UNCHANGED <<dbTable, dbRows, dbMade, dbOpened>>

DbStatement(p) == DbStatements(dbProc[p].m)[dbProc[p].next]
DbGoesOn(p) ==
    /\ dbProc[p].at = "migrates"
    /\ IF dbProc[p].next < Len(DbStatements(dbProc[p].m))
       THEN dbProc' = [dbProc EXCEPT ![p].next = @ + 1]
       ELSE DbMigrate(p, dbProc[p].m + 1)
    /\ dbOpened' = dbOpened \cup (IF dbProc'[p].at = "ready" THEN {"ready"} ELSE {})

DbCreateTable(p) ==
    /\ DbGoesOn(p) /\ DbStatement(p) = "table"
    /\ dbTable' = TRUE
    /\ UNCHANGED <<dbRows, dbMade>>
DbInsertRow(p) ==
    /\ DbGoesOn(p) /\ DbStatement(p) = "row"
    /\ dbRows' = dbRows \cup {0}
    /\ UNCHANGED <<dbTable, dbMade>>
DbCreate(p) ==
    /\ DbGoesOn(p) /\ DbStatement(p) = "create"
    /\ dbMade' = dbMade \cup {dbProc[p].m}
    /\ UNCHANGED <<dbTable, dbRows>>
\* UPDATE schema_version changes every row: two rows cannot become the same key.
DbBump(p) ==
    /\ DbGoesOn(p) /\ DbStatement(p) = "bump" /\ Cardinality(dbRows) < 2
    /\ dbRows' = IF dbRows = {} THEN {} ELSE {dbProc[p].m}
    /\ UNCHANGED <<dbTable, dbMade>>
DbBumpFails(p) ==
    /\ dbProc[p].at = "migrates" /\ DbStatement(p) = "bump"
    /\ Cardinality(dbRows) > 1
    /\ DbFails(p)

\* The process ends, in the middle of the statements or later.
DbDies(p) ==
    /\ dbProc[p].at # "closed"
    /\ dbProc' = [dbProc EXCEPT ![p] = DbClosed]
    /\ UNCHANGED <<dbTable, dbRows, dbMade, dbOpened>>

\* A new database; one whose version table somebody made; one of an earlier release.
DbInit ==
    /\ \E start \in {[t |-> FALSE, v |-> {}, m |-> 0], [t |-> TRUE, v |-> {}, m |-> 0],
                     [t |-> TRUE, v |-> {1}, m |-> 1]} :
          dbTable = start.t /\ dbRows = start.v /\ dbMade = 1..start.m
    /\ dbProc = [p \in DbProcs |-> DbClosed]
    /\ dbOpened = {}

DbNext ==
    \E p \in DbProcs :
        \/ DbSelect(p) \/ DbCreateTable(p) \/ DbInsertRow(p) \/ DbCreate(p) \/ DbBump(p)
        \/ DbBumpFails(p) \/ DbDies(p)

\* A process that got through ensure_initialized finds the tables of every migration,
\* whatever processes migrated beside it and wherever earlier ones were cut, although
\* no transaction holds the statements together.
DbReadyIsMigrated == \A p \in DbProcs : dbProc[p].at = "ready" => dbMade = 1..DbLast

\* DESIGN_GUIDE: "Schema migrations are mandatory" and the version is stored in the
\* database.  The first operation on a new database brings it to the newest version.
DbOpens == "failed" \notin dbOpened

DbSpec == DbInit /\ [][DbNext]_dbVars
=============================================================================
