------------------------------ MODULE RuleGlobs ------------------------------
(***************************************************************************)
(* The patterns of files by which a rule is selected, and what they mean.  *)
(* Pattern and text are sequences of characters; ** is one of them, for    *)
(* any number of stars from two on.                                        *)
(***************************************************************************)
EXTENDS Rules

(* glob_match_impl *)
\* c matches from the i-th character on, and the rest of the pattern from one of rest on.
RuGlobItem_Crossing(c, t, i, rest) ==
    \/ c \in {"*", "**"} /\ \E j \in i..Len(t) + 1 : j \in rest
    \/ /\ c \notin {"*", "**"} /\ i <= Len(t) /\ i + 1 \in rest
       /\ IF c = "?" THEN t[i] # "/" ELSE t[i] = c
RuGlobItem(c, t, i, rest) ==
    \/ c = "**" /\ \E j \in i..Len(t) + 1 : j \in rest
    \/ c = "*" /\ \E j \in i..Len(t) + 1 : j \in rest /\ \A k \in i..j - 1 : t[k] # "/"
    \/ /\ c \notin {"*", "**"} /\ i <= Len(t) /\ i + 1 \in rest
       /\ IF c = "?" THEN t[i] # "/" ELSE t[i] = c
\* Where in the text the last n items of the pattern can begin.
RuGlob(p, t) ==
    LET begins[n \in 0..Len(p)] ==
            IF n = 0 THEN {Len(t) + 1}
            ELSE {i \in 1..Len(t) + 1 : RuGlobItem(p[Len(p) + 1 - n], t, i, begins[n - 1])}
    IN 1 \in begins[Len(p)]

\* What an item stands for: the characters from the i-th to the one before the j-th.
RuPiece(c, t, i, j) ==
    /\ i <= j
    /\ CASE c = "**" -> TRUE
         [] c = "*" -> \A k \in i..j - 1 : t[k] # "/"
         [] c = "?" -> j = i + 1 /\ t[i] # "/"
         [] OTHER -> j = i + 1 /\ t[i] = c
\* The text can be cut into pieces, one for each item.
RuMeans(p, t) ==
    \E cut \in [0..Len(p) -> 1..Len(t) + 1] :
        /\ cut[0] = 1 /\ cut[Len(p)] = Len(t) + 1
        /\ \A n \in 1..Len(p) : RuPiece(p[n], t, cut[n - 1], cut[n])

\* ** matches anything, * anything within one name, ? one character of a name.
RuGlobMatches ==
    ruRules # None /\ ruEdits = 0 /\ ruEver = {} /\ ruTracker = {} /\ ruStored = {} =>
        \A p \in UNION {[1..n -> {"a", "/", "*", "**", "?"}] : n \in 0..3},
           t \in UNION {[1..n -> {"a", "b", "/"}] : n \in 0..3} : RuGlob(p, t) <=> RuMeans(p, t)

\* The rules there are are found, in order, and a pattern selects the files it means.
RuFinds == RuFoundOnce /\ RuGlobMatches
==============================================================================
