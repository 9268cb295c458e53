---------------------------- MODULE MCEntityQuery ----------------------------
(* Instances of EntityQuery for TLC: the constants come from the cfg files.    *)
EXTENDS EntityQuery
=============================================================================
