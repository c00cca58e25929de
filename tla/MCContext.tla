----------------------------- MODULE MCContext -----------------------------
(***************************************************************************)
(* What the program works out from a session, files, texts and a clock.   *)
(* As in MCTools each behaviour moves one part and leaves the others alone.*)
(***************************************************************************)
EXTENDS ContextWindow, Expressions, RuleGlobs, Learning, CodeIndex, TriggerEngine

VARIABLE part

Others(p) ==
    /\ p # "window" => UNCHANGED winVars
    /\ p # "expr" => UNCHANGED exVars
    /\ p # "rules" => UNCHANGED ruVars
    /\ p \notin {"mistakes", "successes", "user"} => UNCHANGED lnVars
    /\ p \notin {"index", "impact"} => UNCHANGED ixVars
    /\ p # "triggers" => UNCHANGED trVars

Init ==
    /\ part \in {"window", "expr", "rules", "mistakes", "successes", "user", "index", "impact",
                "triggers"}
    /\ WinInit /\ ExInit /\ RuInit /\ LnInit /\ IxInit /\ TrInit
    /\ part # "triggers" => trEnabled

Next ==
    /\ part' = part /\ Others(part)
    /\ \/ part = "window" /\ WinNext
       \/ part = "expr" /\ ExNext
       \/ part = "rules" /\ RuNext
       \/ part = "mistakes" /\ (LnMistakeNext \/ LnSessionNext)
       \/ part = "successes" /\ (LnSuccessNext \/ LnSessionNext)
       \/ part = "user" /\ (LnUserNext \/ LnSessionNext)
       \/ part = "index" /\ IxIndexNext
       \/ part = "impact" /\ IxImpactNext
       \/ part = "triggers" /\ TrNext

\* What the user asks for, in words; "go" is a short one.
Tasks ==
    {[task |-> <<"run", "tests">>, category |-> "testing"],
     [task |-> <<"run", "tests", "now">>, category |-> "testing"],
     [task |-> <<"run", "tests">>, category |-> "other"],
     [task |-> <<"go">>, category |-> "other"]}

CronTimes == [hourly |-> {1, 2, 3, 4}, daily |-> {2, 4}]
EventListeners == [saved |-> {"lint", "test"}]

Spec == Init /\ [][Next]_<<part, winVars, exVars, ruVars, lnVars, ixVars, trVars>>
=============================================================================
