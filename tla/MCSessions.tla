------------------------------ MODULE MCSessions ------------------------------
(* Small instances of Sessions for TLC. *)
EXTENDS Sessions, TLC

\* Pages are interchangeable, and so are peer connections (safety runs only).
Symmetry == Permutations(Ids) \union Permutations(Pcs)

\* The bound of the liveness run: at most one connection is lost, by whichever
\* states on the way.  That one, and the first page to be opened, have a name of
\* their own, which loses no behaviour but for the names.
FirstOf(S) == CHOOSE x \in S : TRUE
Bounded ==
    /\ \A p \in Pcs \ {FirstOf(Pcs)} : pcState'[p] \notin Down
    /\ loaded' # {} => FirstOf(Ids) \in loaded'

LiveSpec == Init /\ [][Next /\ Bounded]_vars /\ Fairness
===============================================================================
