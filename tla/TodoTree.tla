------------------------------ MODULE TodoTree ------------------------------
(***************************************************************************)
(* The todos of a session (storage/sqlite/backend.rs) and who changes them *)
(* at the same time: the todo command, the router, the extractor and the   *)
(* sub_agent tool, which files a todo for every call.  Statements of the   *)
(* storage are single; complete_todo_chain is several of them.             *)
(***************************************************************************)
EXTENDS Common, Naturals, FiniteSets

CONSTANTS TdCallers,
          TdMax      \* bound: todos created

TdParents == (1..TdMax) \cup {None}
ASSUME TdConstants ==
    /\ TdMax \in Nat /\ None \notin 1..TdMax
    /\ None \notin [parent : TdParents, status : {"open", "completed"}]

VARIABLES
    tdTodo,    \* id -> the todo, None when there is none; ids are given in the order created
    tdNext,    \* the id of the next one
    tdCall,    \* caller -> the chain or the call of sub_agent it is in
    tdByHand   \* history: todos that lack a completion no chain was there to pass on

tdVars == <<tdTodo, tdNext, tdCall, tdByHand>>

TdIds == 1..TdMax
\* Todo, InProgress, Blocked and Cancelled are alike to the chain: open.
TdTodo(parent, status) == [parent |-> parent, status |-> status]
TdThere(id) == id # None /\ tdTodo[id] # None
TdKids(p) == {id \in TdIds : TdThere(id) /\ tdTodo[id].parent = p}
TdCompleted(id) == tdTodo[id].status = "completed"

TdIdle == [at |-> "idle", on |-> None, parent |-> None, own |-> None, batch |-> None,
           left |-> {}, failed |-> FALSE]
TdGoes(c, call) == tdCall' = [tdCall EXCEPT ![c] = call]

\* create_todo: the foreign key refuses a todo whose parent is gone.
TdCreates(parent, status) ==
    /\ tdNext <= TdMax
    /\ tdNext' = tdNext + 1
    /\ tdTodo' = IF parent # None /\ ~TdThere(parent) THEN tdTodo
                 ELSE [tdTodo EXCEPT ![tdNext] = TdTodo(parent, status)]
    /\ UNCHANGED tdByHand
\* update_todo: no row, no effect.
TdUpdates(id, status) ==
    /\ tdTodo' = IF TdThere(id) THEN [tdTodo EXCEPT ![id].status = status] ELSE tdTodo
    /\ tdByHand' = tdByHand \cup
          IF ~TdThere(id) THEN {} ELSE IF status = "open" THEN {id} ELSE {tdTodo[id].parent}
    /\ UNCHANGED tdNext

\* The todo command, the router (no parent) and the extractor (a parent and its items).
TdCreate(parent) ==
    /\ parent = None \/ TdThere(parent)
    /\ TdCreates(parent, "open") /\ UNCHANGED tdCall
TdUpdate(id, status) == TdThere(id) /\ TdUpdates(id, status) /\ UNCHANGED tdCall

\* list_todos, get_todo: what the todo command shows.
TdList == tdNext > 1 /\ UNCHANGED tdVars

\* delete_todo: the foreign key deletes what is below as well, the least set that has
\* the todo and with every todo its children.
TdBelow(id) ==
    {i \in TdIds : \A S \in SUBSET TdIds :
        id \in S /\ (\A p \in S : TdKids(p) \subseteq S) => i \in S}
TdDelete(id) ==
    /\ TdThere(id)
    /\ tdTodo' = [i \in TdIds |-> IF i \in TdBelow(id) THEN None ELSE tdTodo[i]]
    /\ tdByHand' = tdByHand \cup {tdTodo[id].parent}
    /\ UNCHANGED <<tdNext, tdCall>>

\* complete_todo_chain: get the todo, complete it, list its siblings, go on to the parent
\* when all of them, a sibling that failed included, are completed.
TdChain(call, id) == [call EXCEPT !.at = "get", !.on = id, !.parent = None]
TdChainEnds(c) ==
    TdGoes(c, IF tdCall[c].batch = None THEN TdIdle
              ELSE [tdCall[c] EXCEPT !.at = "join", !.on = None, !.parent = None])
TdComplete(c, id) ==
    /\ tdCall[c].at = "idle" /\ TdThere(id)
    /\ TdGoes(c, TdChain(TdIdle, id))
    /\ UNCHANGED <<tdTodo, tdNext, tdByHand>>
TdChainGet(c) ==
    /\ tdCall[c].at = "get"
    /\ IF TdThere(tdCall[c].on)
       THEN TdGoes(c, [tdCall[c] EXCEPT !.at = "set", !.parent = tdTodo[tdCall[c].on].parent])
       ELSE TdChainEnds(c)
    /\ UNCHANGED <<tdTodo, tdNext, tdByHand>>
TdChainSet(c) ==
    /\ tdCall[c].at = "set"
    /\ tdTodo' = IF TdThere(tdCall[c].on)
                 THEN [tdTodo EXCEPT ![tdCall[c].on].status = "completed"] ELSE tdTodo
    /\ TdGoes(c, [tdCall[c] EXCEPT !.at = "list"])
    /\ UNCHANGED <<tdNext, tdByHand>>
TdAllDone_NotOne(p) == Cardinality(TdKids(p)) # 1 /\ \A id \in TdKids(p) : TdCompleted(id)
TdAllDone(p) == \A id \in TdKids(p) : TdCompleted(id)
TdChainList(c) ==
    /\ tdCall[c].at = "list"
    /\ IF tdCall[c].parent # None /\ TdAllDone(tdCall[c].parent)
       THEN TdGoes(c, TdChain(tdCall[c], tdCall[c].parent))
       ELSE TdChainEnds(c)
    /\ UNCHANGED <<tdTodo, tdNext, tdByHand>>

\* find_latest_routing_todo_link: list_todos does not look at the tags it is given, so
\* that the link is the newest todo of the session whatever it is.
TdLatest == IF \E id \in TdIds : TdThere(id)
            THEN CHOOSE id \in TdIds : TdThere(id) /\ \A j \in TdIds : TdThere(j) => j <= id
            ELSE None

\* A call of sub_agent (auto_create_todos) files its todo.  A call whose work is done,
\* or found in the cache, completes it with a plain update, one that failed blocks it,
\* and an output its schema refuses leaves it as it is.
TdSubAgent(c) ==
    /\ tdCall[c].at = "idle"
    /\ TdCreates(TdLatest, "open")
    /\ TdGoes(c, [TdIdle EXCEPT !.at = "runs", !.own = tdNext])
TdSubAgentEnds(c, status) ==
    /\ tdCall[c].at = "runs"
    /\ TdUpdates(tdCall[c].own, status)
    /\ TdGoes(c, TdIdle)
TdSubAgentRefused(c) ==
    /\ tdCall[c].at = "runs" /\ TdGoes(c, TdIdle)
    /\ UNCHANGED <<tdTodo, tdNext, tdByHand>>

\* execute_parallel_requests: a todo for the batch, one for each request, then the
\* outcomes in order: a chain for a success, an update for a failure, and the batch.
TdBatch(c) ==
    /\ tdCall[c].at = "runs"
    /\ TdCreates(TdLatest, "open")
    /\ TdGoes(c, [tdCall[c] EXCEPT !.at = "files", !.batch = tdNext])
TdBatchFiles(c) ==
    /\ tdCall[c].at = "files" /\ Cardinality(tdCall[c].left) < 2
    /\ TdCreates(tdCall[c].batch, "open")
    /\ TdGoes(c, [tdCall[c] EXCEPT !.left = @ \cup {tdNext}])
TdBatchRuns(c) ==
    /\ tdCall[c].at = "files" /\ tdCall[c].left # {}
    /\ TdGoes(c, [tdCall[c] EXCEPT !.at = "join"])
    /\ UNCHANGED <<tdTodo, tdNext, tdByHand>>
TdFirst(ids) == CHOOSE id \in ids : \A j \in ids : id <= j
TdJoinSucceeds(c) ==
    /\ tdCall[c].at = "join" /\ tdCall[c].left # {}
    /\ TdGoes(c, TdChain([tdCall[c] EXCEPT !.left = @ \ {TdFirst(@)}], TdFirst(tdCall[c].left)))
    /\ UNCHANGED <<tdTodo, tdNext, tdByHand>>
TdJoinFails(c) ==
    /\ tdCall[c].at = "join" /\ tdCall[c].left # {}
    /\ TdUpdates(TdFirst(tdCall[c].left), "open")
    /\ TdGoes(c, [tdCall[c] EXCEPT !.left = @ \ {TdFirst(@)}, !.failed = TRUE])
TdBatchEnds(c) ==
    /\ tdCall[c].at = "join" /\ tdCall[c].left = {}
    /\ IF tdCall[c].failed
       THEN TdUpdates(tdCall[c].batch, "open") /\ TdGoes(c, TdIdle)
       ELSE /\ TdGoes(c, TdChain(TdIdle, tdCall[c].batch))
            /\ UNCHANGED <<tdTodo, tdNext, tdByHand>>

\* The process ends, the turn is cancelled, or a statement fails: a chain stops short.
TdDies(c) ==
    /\ tdCall[c].at # "idle" /\ TdGoes(c, TdIdle)
    /\ tdByHand' = tdByHand \cup {tdCall[c].on, tdCall[c].parent}
    /\ UNCHANGED <<tdTodo, tdNext>>

TdInit ==
    /\ tdTodo = [id \in TdIds |-> None]
    /\ tdNext = 1
    /\ tdCall = [c \in TdCallers |-> TdIdle]
    /\ tdByHand = {}

TdNext ==
    \/ TdList
    \/ \E parent \in TdIds \cup {None} : TdCreate(parent)
    \/ \E id \in TdIds : TdDelete(id) \/ \E s \in {"open", "completed"} : TdUpdate(id, s)
    \/ \E c \in TdCallers :
        \/ TdChainGet(c) \/ TdChainSet(c) \/ TdChainList(c)
        \/ TdSubAgent(c) \/ TdSubAgentRefused(c) \/ TdBatch(c) \/ TdBatchFiles(c)
        \/ TdBatchRuns(c) \/ TdJoinSucceeds(c) \/ TdJoinFails(c) \/ TdBatchEnds(c)
        \/ TdDies(c)
        \/ \E id \in TdIds : TdComplete(c, id)
        \/ \E s \in {"open", "completed"} : TdSubAgentEnds(c, s)

\* Chains that complete the children of one todo at the same time do not both leave it
\* to the other: once no chain is running, a todo whose children are all completed is
\* completed too, unless one of them was completed, or it reopened, or a chain cut,
\* by something else.
TdChainsReach ==
    (\A c \in TdCallers : tdCall[c].at \notin {"get", "set", "list"}) =>
        \A p \in TdIds \ tdByHand :
            TdThere(p) /\ TdKids(p) # {} /\ (\A id \in TdKids(p) : TdCompleted(id))
                => TdCompleted(p)

TdSpec == TdInit /\ [][TdNext]_tdVars
=============================================================================
