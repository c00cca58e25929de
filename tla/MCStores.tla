----------------------------- MODULE MCStores -----------------------------
(***************************************************************************)
(* What the program keeps on disk and in memory between turns.  As in      *)
(* MCTools each behaviour moves one part and leaves the others alone.      *)
(***************************************************************************)
EXTENDS TokenStore, ConfigStore, StorageInit, TodoTree, SubAgents

VARIABLE part

Others(p) ==
    /\ p # "token" => UNCHANGED tkVars
    /\ p # "config" => UNCHANGED cfgVars
    /\ p # "init" => UNCHANGED dbVars
    /\ p # "todo" => UNCHANGED tdVars
    /\ p # "calls" => UNCHANGED saCache
    /\ p # "batch" => UNCHANGED saBatch

Init ==
    /\ part \in {"token", "config", "init", "todo", "calls", "batch"}
    /\ TkInit /\ CfgInit /\ DbInit /\ TdInit /\ SaInit
    /\ part # "init" => ~dbTable

Next ==
    /\ part' = part /\ Others(part)
    /\ \/ part = "token" /\ TkNext
       \/ part = "config" /\ CfgNext
       \/ part = "init" /\ DbNext
       \/ part = "todo" /\ TdNext
       \/ part = "calls" /\ SaCallNext
       \/ part = "batch" /\ SaBatchNext

\* Nothing is said of the file once writers overlapped: these states are not followed.
Undisturbed == tkStored # None

Spec == Init /\ [][Next]_<<part, tkVars, cfgVars, dbVars, tdVars, saVars>>
=============================================================================
