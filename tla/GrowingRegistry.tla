---------------------------- MODULE GrowingRegistry ----------------------------
(***************************************************************************)
(* What the metric registry promises to everything that stores a metric    *)
(* id: the definitions only grow, an id keeps its meaning forever, ids are *)
(* dense and no two ids share a name.                                      *)
(***************************************************************************)
EXTENDS Integers

VARIABLE known    \* known[id] is the definition of the metric id

UniqueNames(k) == \A i, j \in DOMAIN k : k[i].name = k[j].name => i = j
DenseIds(k) == \A i \in DOMAIN k : i \in Nat /\ 0..i \subseteq DOMAIN k

Good(k) == UniqueNames(k) /\ DenseIds(k)

Init == Good(known)

\* More definitions, none of the old ones changed.
Grow ==
    /\ Good(known')
    /\ DOMAIN known \subseteq DOMAIN known'
    /\ \A id \in DOMAIN known : known'[id] = known[id]

Spec == Init /\ [][Grow]_known
================================================================================
