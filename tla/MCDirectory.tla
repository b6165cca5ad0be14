---------------------------- MODULE MCDirectory -----------------------------
(* Directory on small instances: the cfg files choose the model values.    *)
EXTENDS Directory, TLC

Symmetry == Permutations(Host) \cup Permutations(Reader) \cup
            Permutations(Challenge)

(* The automatch search, and a search for listed games with a filter.      *)
Search == {[automatch |-> TRUE, filter |-> Keys]}
FilteredSearch == {[automatch |-> FALSE, filter |-> Open]}

(* Before a drain.                                                         *)
Serving == Init /\ [][Next /\ drain' = drain]_vars
=============================================================================
