------------------------------ MODULE MCTools ------------------------------
(***************************************************************************)
(* The tools that keep state between calls.  They share no variable, so    *)
(* each behaviour moves one of them (part) and leaves the others in their  *)
(* initial state: what holds of every part alone holds of all together.    *)
(***************************************************************************)
EXTENDS SshPool, ShellTool, ProcessTable, Download, McpCall, LspPool, WatchTool, FsTool, GitRepo, TLC

CONSTANTS a, b

VARIABLE part

MCSocket(n) == IF n \in {"web", "we_b"} THEN "web.sock" ELSE n
MCPaths == {<<>>, <<"a">>, <<"b">>, <<"a", "a">>, <<"a", "b">>, <<"b", "a">>, <<"a", "b", "a">>}
MCEdited(v) == IF v = "x" THEN "y" ELSE None
MCLength(v) == IF v = "v1" THEN 3 ELSE 2

\* The callers of a tool, the threads of an MCP client, are alike.
CallerSymmetry == Permutations({a, b})

Others(p) ==
    /\ p # "ssh" => UNCHANGED sshVars
    /\ p # "shell" => UNCHANGED shVars
    /\ p # "process" => UNCHANGED procVars
    /\ p # "download" => UNCHANGED dlVars
    /\ p # "mcp" => UNCHANGED mcpVars
    /\ p # "lsp" => UNCHANGED lspVars
    /\ p # "watch" => UNCHANGED watchVars
    /\ p # "fs" => UNCHANGED fsVars
    /\ p # "git" => UNCHANGED gitVars

Init ==
    /\ part \in {"ssh", "shell", "process", "download", "mcp", "lsp", "watch", "fs", "git"}
    /\ SshInit /\ ShInit /\ ProcInit /\ DlInit
    /\ McpInit /\ LspInit /\ WatchInit /\ FsInit /\ GitInit

Next ==
    /\ part' = part /\ Others(part)
    /\ \/ part = "ssh" /\ SshNext
       \/ part = "shell" /\ ShNext
       \/ part = "process" /\ ProcNext
       \/ part = "download" /\ DlNext
       \/ part = "mcp" /\ McpNext
       \/ part = "lsp" /\ LspNext
       \/ part = "watch" /\ WatchNext
       \/ part = "fs" /\ FsNext
       \/ part = "git" /\ GitNext

Spec == Init /\ [][Next]_<<part, sshVars, shVars, procVars, dlVars, mcpVars, lspVars, watchVars, fsVars,
                           gitVars>>
=============================================================================
