------------------------------ MODULE McpCall ------------------------------
(***************************************************************************)
(* The mcp tool (tools/mcp.rs): each call starts a server process of its   *)
(* own on a blocking thread, talks json-rpc with it over pipes and kills   *)
(* it.  The caller waits for the thread with a timeout; a thread whose     *)
(* caller has given up goes on.  Servers are taken to send answers and     *)
(* notifications only, as the client declares no capabilities.             *)
(***************************************************************************)
EXTENDS Common, Naturals, Sequences

CONSTANTS McpThreads, McpQueue      \* McpQueue: bound on the messages in a pipe

ASSUME McpConstants == None \notin McpThreads /\ McpQueue \in Nat

McpInitId == 1
McpId(op) == IF op = "list_tools" THEN 2 ELSE 3

VARIABLES
    mcpWaits,     \* the thread the caller waits for, or None
    mcpThread,    \* each thread: where it is, its operation, what it returns
    mcpServer,    \* each thread's server: "none", "up", "closed" (its stdin is), "dead"
    mcpPipe,      \* what the server has written and nobody has read
    mcpOwed       \* requests the server has read and not answered

mcpVars == <<mcpWaits, mcpThread, mcpServer, mcpPipe, mcpOwed>>

McpIdle == [pc |-> "idle", op |-> None, answer |-> None]
McpNote == [id |-> None, error |-> FALSE]
McpDone == {"ok", "err"}

\* list_tools_for_server, call_tool_on_server: the server is configured.
McpBegin(t, op) ==
    /\ mcpWaits = None /\ mcpThread[t].pc = "idle"
    /\ mcpWaits' = t
    /\ mcpThread' = [mcpThread EXCEPT ![t] = [McpIdle EXCEPT !.pc = "spawn", !.op = op]]
    /\ UNCHANGED <<mcpServer, mcpPipe, mcpOwed>>

McpMove(t, pc) == mcpThread' = [mcpThread EXCEPT ![t].pc = pc]

\* spawn_server_process, and the initialize request.
McpSpawn(t) ==
    /\ mcpThread[t].pc = "spawn"
    /\ \/ /\ McpMove(t, "init")
          /\ mcpServer' = [mcpServer EXCEPT ![t] = "up"]
          /\ mcpPipe' = [mcpPipe EXCEPT ![t] = <<>>]
          /\ mcpOwed' = [mcpOwed EXCEPT ![t] = {McpInitId}]
       \/ McpMove(t, "err") /\ UNCHANGED <<mcpServer, mcpPipe, mcpOwed>>
    /\ UNCHANGED mcpWaits

McpServerSays(t) ==
    /\ mcpServer[t] = "up" /\ Len(mcpPipe[t]) < McpQueue
    /\ \/ /\ mcpPipe' = [mcpPipe EXCEPT ![t] = Append(@, McpNote)]
          /\ UNCHANGED mcpOwed
       \/ \E i \in mcpOwed[t], e \in BOOLEAN :
            /\ mcpPipe' = [mcpPipe EXCEPT ![t] = Append(@, [id |-> i, error |-> e])]
            /\ mcpOwed' = [mcpOwed EXCEPT ![t] = @ \ {i}]
    /\ UNCHANGED <<mcpWaits, mcpThread, mcpServer>>

\* read_response_for_id: a message with another id, or none, is read and forgotten.
McpIsAnswer_Any(t, m, id) == TRUE
McpIsAnswer(t, m, id) == m.id = id

McpExpected(t) == IF mcpThread[t].pc = "init" THEN McpInitId ELSE McpId(mcpThread[t].op)
McpReads(t) == mcpThread[t].pc \in {"init", "wait"} /\ mcpPipe[t] # <<>>
McpTake(t) == mcpPipe' = [mcpPipe EXCEPT ![t] = Tail(@)]

McpSkip(t) ==
    /\ McpReads(t) /\ ~McpIsAnswer(t, Head(mcpPipe[t]), McpExpected(t))
    /\ McpTake(t)
    /\ UNCHANGED <<mcpWaits, mcpThread, mcpServer, mcpOwed>>

\* initialize_and_open after the first answer, then the request of the operation: an
\* error kills the server, otherwise the notification and the request follow.
McpInitialized(t) ==
    /\ McpReads(t) /\ mcpThread[t].pc = "init"
    /\ LET m == Head(mcpPipe[t]) IN
       /\ McpIsAnswer(t, m, McpInitId)
       /\ McpTake(t)
       /\ IF m.error
          THEN /\ McpMove(t, "err")
               /\ mcpServer' = [mcpServer EXCEPT ![t] = "dead"]
               /\ UNCHANGED mcpOwed
          ELSE /\ McpMove(t, "wait")
               /\ mcpOwed' = [mcpOwed EXCEPT ![t] = @ \cup {McpId(mcpThread[t].op)}]
               /\ UNCHANGED mcpServer
    /\ UNCHANGED mcpWaits

\* list_tools_blocking, call_tool_blocking: the answer; the server is killed.
McpAnswered(t) ==
    /\ McpReads(t) /\ mcpThread[t].pc = "wait"
    /\ LET m == Head(mcpPipe[t]) IN
       /\ McpIsAnswer(t, m, McpId(mcpThread[t].op))
       /\ McpTake(t)
       /\ mcpThread' = [mcpThread EXCEPT ![t].pc = IF m.error THEN "err" ELSE "ok",
                                         ![t].answer = m.id]
    /\ mcpServer' = [mcpServer EXCEPT ![t] = "dead"]
    /\ UNCHANGED <<mcpWaits, mcpOwed>>

\* The pipe breaks, or what comes is no frame: the error drops the handles of the
\* server, which closes its stdin and does not kill it.
McpBroken(t) ==
    /\ mcpThread[t].pc \in {"init", "wait"}
    /\ McpMove(t, "err")
    /\ mcpServer' = [mcpServer EXCEPT ![t] = IF @ = "up" THEN "closed" ELSE @]
    /\ UNCHANGED <<mcpWaits, mcpPipe, mcpOwed>>

McpReset(t) ==
    /\ mcpThread' = [mcpThread EXCEPT ![t] = McpIdle]
    /\ mcpServer' = [mcpServer EXCEPT ![t] = "none"]
    /\ mcpPipe' = [mcpPipe EXCEPT ![t] = <<>>]
    /\ mcpOwed' = [mcpOwed EXCEPT ![t] = {}]

\* The thread is joined in time, or ends with nobody waiting.
McpJoin(t) ==
    /\ mcpThread[t].pc \in McpDone
    /\ mcpWaits' = IF mcpWaits = t THEN None ELSE mcpWaits
    /\ McpReset(t)

\* startup_timeout_seconds is over, or the caller is dropped: only the waiting ends.
McpTimeout(t) ==
    /\ mcpWaits = t /\ mcpThread[t].pc \notin McpDone
    /\ mcpWaits' = None
    /\ UNCHANGED <<mcpThread, mcpServer, mcpPipe, mcpOwed>>

McpServerExits(t) ==
    /\ mcpServer[t] \in {"up", "closed"}
    /\ mcpServer' = [mcpServer EXCEPT ![t] = "dead"]
    /\ UNCHANGED <<mcpWaits, mcpThread, mcpPipe, mcpOwed>>

McpInit ==
    /\ mcpWaits = None
    /\ mcpThread = [t \in McpThreads |-> McpIdle]
    /\ mcpServer = [t \in McpThreads |-> "none"]
    /\ mcpPipe = [t \in McpThreads |-> <<>>]
    /\ mcpOwed = [t \in McpThreads |-> {}]

McpNext ==
    \E t \in McpThreads :
        \/ \E op \in {"list_tools", "call_tool"} : McpBegin(t, op)
        \/ McpSpawn(t) \/ McpServerSays(t) \/ McpSkip(t) \/ McpInitialized(t)
        \/ McpAnswered(t) \/ McpBroken(t) \/ McpJoin(t) \/ McpTimeout(t) \/ McpServerExits(t)

McpSpec == McpInit /\ [][McpNext]_mcpVars

-----------------------------------------------------------------------------
\* What a call returns as the server's result is the answer to its own request,
\* made after the server accepted initialize: notifications and other answers that
\* come before it are not taken for it.
McpOwnAnswer ==
    \A t \in McpThreads : mcpThread[t].pc = "ok" => mcpThread[t].answer = McpId(mcpThread[t].op)
=============================================================================
