------------------------------ MODULE LspPool ------------------------------
(***************************************************************************)
(* The language servers of tools/lsp.rs: a map from a server's id (command *)
(* and workspace) to a handle, each handle under a lock of its own that an *)
(* operation holds across its request and the answer.  The map is locked   *)
(* to look up, insert and remove only.  An answer that comes after its     *)
(* request has timed out stays in the pipe for the next reader.            *)
(***************************************************************************)
EXTENDS Common, Naturals, Sequences, FiniteSets

CONSTANTS
    LspCallers, LspIds,
    LspHandles,       \* handles there can be, for TLC
    LspRequests       \* bound on the requests of a handle, for TLC

ASSUME LspConstants ==
    /\ LspRequests \in Nat
    /\ None \notin LspCallers \cup LspHandles

VARIABLES
    lspServers,   \* servers: the handle of each id, or None
    lspHandle,    \* each handle: its process, lock, next id, pipe and open requests
    lspCall       \* each caller's operation

lspVars == <<lspServers, lspHandle, lspCall>>

\* proc: "none", "up", "gone"; pipe: answers the server has written; owed: requests
\* it has not answered; torn: a message was read in part.
LspNoHandle == [proc |-> "none", lock |-> None, next |-> 1, count |-> 0,
                pipe |-> <<>>, owed |-> {}, torn |-> FALSE]
\* req: the json-rpc id that is waited for; serial: the request it was sent with.
LspIdle == [pc |-> "idle", id |-> None, h |-> None, req |-> 0, serial |-> 0, got |-> 0, only |-> FALSE]

LspGo(c, pc) == lspCall' = [lspCall EXCEPT ![c].pc = pc]
LspGiveUp(c) == lspCall' = [lspCall EXCEPT ![c] = LspIdle]
LspFree(h) == [lspHandle EXCEPT ![h].lock = None]

\* send_request: the id is taken and counted up before the message is written.
LspNextId_Kept(h) == h.next
LspNextId(h) == h.next + 1
LspSent(h) == [h EXCEPT !.next = LspNextId(h), !.count = @ + 1,
                        !.owed = @ \cup {[id |-> h.next, serial |-> h.count + 1]}]

\* A new handle: one that nobody refers to.
LspUnused(h) ==
    /\ \A i \in LspIds : lspServers[i] # h
    /\ \A c \in LspCallers : lspCall[c].h # h

\* start_server_internal: the id is looked up and the lock let go before the server
\* is spawned and asked to initialize.  only: the operation is start_server.
LspStart(c, i, only) ==
    /\ lspCall[c].pc = "idle"
    /\ IF lspServers[i] # None
       THEN /\ ~only
            /\ lspCall' = [lspCall EXCEPT ![c] = [LspIdle EXCEPT !.pc = "got", !.id = i, !.h = lspServers[i]]]
            /\ UNCHANGED lspHandle
       ELSE \E h \in LspHandles :
            /\ LspUnused(h)
            /\ lspHandle' = [lspHandle EXCEPT ![h] = LspSent([LspNoHandle EXCEPT !.proc = "up", !.lock = c])]
            /\ lspCall' = [lspCall EXCEPT ![c] = [LspIdle EXCEPT
                    !.pc = "init", !.id = i, !.h = h, !.req = 1, !.serial = 1, !.only = only]]
    /\ UNCHANGED lspServers

\* The handle is put into the map, over that of a start that was faster.
LspInsert(c) ==
    /\ lspCall[c].pc = "started"
    /\ lspServers' = [lspServers EXCEPT ![lspCall[c].id] = lspCall[c].h]
    /\ lspHandle' = LspFree(lspCall[c].h)
    /\ IF lspCall[c].only THEN LspGiveUp(c) ELSE LspGo(c, "look")

\* get_handle_for_operation: by server_id, or after the start, when the map is
\* looked at again.
LspGet(c, i) ==
    /\ lspCall[c].pc = "idle" \/ (lspCall[c].pc = "look" /\ lspCall[c].id = i)
    /\ IF lspServers[i] = None
       THEN lspCall[c].pc = "look" /\ LspGiveUp(c)
       ELSE lspCall' = [lspCall EXCEPT ![c] = [LspIdle EXCEPT !.pc = "got", !.id = i, !.h = lspServers[i]]]
    /\ UNCHANGED <<lspServers, lspHandle>>

LspLock(c) ==
    /\ lspCall[c].pc = "got" /\ lspHandle[lspCall[c].h].lock = None
    /\ lspHandle' = [lspHandle EXCEPT ![lspCall[c].h].lock = c]
    /\ LspGo(c, "locked")
    /\ UNCHANGED lspServers

\* symbol_search finds its query in the cache, or did_open_document cannot read the
\* file, or the message cannot be written: no request is made.
LspNoRequest(c) ==
    /\ lspCall[c].pc = "locked"
    /\ lspHandle' = LspFree(lspCall[c].h)
    /\ LspGiveUp(c)
    /\ UNCHANGED lspServers

LspAsk(c) ==
    /\ lspCall[c].pc = "locked"
    /\ LET h == lspHandle[lspCall[c].h] IN
       /\ h.proc = "up" /\ h.count < LspRequests
       /\ lspHandle' = [lspHandle EXCEPT ![lspCall[c].h] = LspSent(h)]
       /\ lspCall' = [lspCall EXCEPT ![c].pc = "wait", ![c].req = h.next, ![c].serial = h.count + 1]
    /\ UNCHANGED lspServers

\* The server answers its requests in any order, and says other things.
LspServerSays(h) ==
    /\ lspHandle[h].proc = "up"
    /\ \E m \in lspHandle[h].owed :
         lspHandle' = [lspHandle EXCEPT ![h].pipe = Append(@, m), ![h].owed = @ \ {m}]
    /\ UNCHANGED <<lspServers, lspCall>>

LspReads(c) ==
    /\ lspCall[c].pc \in {"init", "wait"}
    /\ lspHandle[lspCall[c].h].pipe # <<>> /\ ~lspHandle[lspCall[c].h].torn
LspMessage(c) == Head(lspHandle[lspCall[c].h].pipe)

\* A message with another id is read and forgotten, and the timeout starts anew.
LspSkip(c) ==
    /\ LspReads(c) /\ LspMessage(c).id # lspCall[c].req
    /\ lspHandle' = [lspHandle EXCEPT ![lspCall[c].h].pipe = Tail(@)]
    /\ UNCHANGED <<lspServers, lspCall>>

\* The answer, a result or an error; the lock is let go with it, but a server that
\* is being started is still known to its caller alone.
LspAnswered(c) ==
    /\ LspReads(c) /\ LspMessage(c).id = lspCall[c].req
    /\ lspHandle' = [lspHandle EXCEPT ![lspCall[c].h].pipe = Tail(@),
            ![lspCall[c].h].lock = IF lspCall[c].pc = "init" THEN @ ELSE None]
    /\ lspCall' = [lspCall EXCEPT ![c].got = LspMessage(c).serial,
            ![c].pc = IF @ = "init" THEN "started" ELSE "done"]
    /\ UNCHANGED lspServers

LspReturn(c) == lspCall[c].pc = "done" /\ LspGiveUp(c) /\ UNCHANGED <<lspServers, lspHandle>>

\* The timeout of a read, the end of the pipe, an error, or the caller going away,
\* at any await.  A read that is cut within a message leaves its rest to be taken for
\* a header, and every later read fails.  A handle nobody has put into the map goes
\* with its call; dropping it closes the server's stdin.
LspFails(c) ==
    /\ lspCall[c].pc \in {"init", "started", "look", "got", "wait"}
    /\ LET h == lspCall[c].h IN
       lspHandle' = CASE lspCall[c].pc \in {"init", "started"} -> [lspHandle EXCEPT ![h] = [LspNoHandle EXCEPT !.proc = "gone"]]
                      [] lspCall[c].pc = "wait" -> [lspHandle EXCEPT ![h].lock = None,
                              ![h].torn = @ \/ lspHandle[h].pipe # <<>>]
                      [] OTHER -> lspHandle
    /\ LspGiveUp(c)
    /\ UNCHANGED lspServers

LspTimesOut(c) ==
    /\ lspCall[c].pc = "wait"
    /\ lspHandle' = LspFree(lspCall[c].h)
    /\ LspGiveUp(c)
    /\ UNCHANGED lspServers

\* stop_server_internal: the id goes first; then the lock is waited for, and the
\* server is asked to end and killed.
LspStop(c, i) ==
    /\ lspCall[c].pc = "idle" /\ lspServers[i] # None
    /\ lspServers' = [lspServers EXCEPT ![i] = None]
    /\ lspCall' = [lspCall EXCEPT ![c] = [LspIdle EXCEPT !.pc = "stop", !.id = i, !.h = lspServers[i]]]
    /\ UNCHANGED lspHandle

LspStopped(c) ==
    /\ lspCall[c].pc = "stop" /\ lspHandle[lspCall[c].h].lock = None
    /\ lspHandle' = [lspHandle EXCEPT ![lspCall[c].h].proc = "gone", ![lspCall[c].h].owed = {}]
    /\ LspGiveUp(c)
    /\ UNCHANGED lspServers

LspServerDies(h) ==
    /\ lspHandle[h].proc = "up"
    /\ lspHandle' = [lspHandle EXCEPT ![h].proc = "gone", ![h].owed = {}]
    /\ UNCHANGED <<lspServers, lspCall>>

LspInit ==
    /\ lspServers = [i \in LspIds |-> None]
    /\ lspHandle = [h \in LspHandles |-> LspNoHandle]
    /\ lspCall = [c \in LspCallers |-> LspIdle]

LspStep(c) ==
    \/ \E i \in LspIds : LspGet(c, i) \/ LspStop(c, i) \/ \E only \in BOOLEAN : LspStart(c, i, only)
    \/ LspInsert(c) \/ LspLock(c) \/ LspNoRequest(c) \/ LspAsk(c) \/ LspSkip(c) \/ LspAnswered(c)
    \/ LspReturn(c) \/ LspFails(c) \/ LspTimesOut(c) \/ LspStopped(c)

LspNext ==
    \/ \E c \in LspCallers : LspStep(c)
    \/ \E h \in LspHandles : LspServerSays(h) \/ LspServerDies(h)

LspSpec == LspInit /\ [][LspNext]_lspVars

-----------------------------------------------------------------------------
\* An operation returns the answer to its own request, never that of an earlier one
\* which timed out and was answered late, by whichever caller it was made.
LspOwnAnswer ==
    \A c \in LspCallers : lspCall[c].pc \in {"done", "started"} => lspCall[c].got = lspCall[c].serial
=============================================================================
