----------------------------- MODULE MCInterlink -----------------------------
(* Instances of Interlink for TLC: the constants come from the cfg files.      *)
EXTENDS Interlink
=============================================================================
