---- MODULE MCBoundLease ----
(* Instances of BoundLease for TLC: the constants come from the cfg files. *)
EXTENDS BoundLease, TLC

Symmetry == Permutations(Ids) \cup Permutations(Bounds)
====
