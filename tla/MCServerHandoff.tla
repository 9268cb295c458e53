--------------------------- MODULE MCServerHandoff ---------------------------
(***************************************************************************)
(* The timed handoff and what it leaves in the internal database, for TLC: *)
(* a behaviour runs the handoff of the entities, the transfer records of   *)
(* one entity, or the lease of one connection.                             *)
(***************************************************************************)
EXTENDS ServerHandoff, TransferRecords, HandoffLease

VARIABLE part  \* what this behaviour runs

MCInit ==
    /\ part \in {"handoff", "records", "lease"}
    /\ Init /\ RecordsInit /\ LeaseInit

MCNext ==
    /\ UNCHANGED part
    /\ \/ part = "handoff" /\ Next /\ UNCHANGED <<recordsVars, leaseVars>>
       \/ part = "records" /\ RecordsNext /\ UNCHANGED <<vars, leaseVars>>
       \/ part = "lease" /\ LeaseNext /\ UNCHANGED <<vars, recordsVars>>

MCSpec == MCInit /\ [][MCNext]_<<part, vars, recordsVars, leaseVars>>
=============================================================================
