------------------------------ MODULE OwnerToken ------------------------------
(***************************************************************************)
(* What the first handoff version promises about the authority over its    *)
(* test entity, as a token.  Nobody holds it at first; then the bootstrap  *)
(* owner gets it, and from then on only a holder that has stopped acting   *)
(* passes it on, to another shard.  Only the holder starts to act.  The    *)
(* promise ends when the bootstrap owner is put in place of a holder: the  *)
(* token is never lost after that, but nobody knows who acts.              *)
(***************************************************************************)
CONSTANTS Shards, Nobody, First

VARIABLES
    holder,   \* the shard that has the token, or Nobody
    acting,   \* the shards that simulate the entity with authority
    broken    \* "yes" once a holder has been replaced

Boot == holder = Nobody /\ holder' = First /\ UNCHANGED <<acting, broken>>

Pass ==
    /\ broken = "no" /\ acting = {}
    /\ holder \in Shards /\ holder' \in Shards \ {holder}
    /\ UNCHANGED <<acting, broken>>

Act == broken = "no" /\ acting' \subseteq {holder} /\ UNCHANGED <<holder, broken>>

Replace ==
    /\ holder \notin {Nobody, First} /\ holder' = First
    /\ broken' = "yes"
    /\ UNCHANGED acting

Anything ==
    /\ broken = "yes" /\ broken' = "yes"
    /\ holder' \in Shards /\ acting' \subseteq Shards

Init == holder = Nobody /\ acting = {} /\ broken = "no"

Next == Boot \/ Pass \/ Act \/ Replace \/ Anything

Spec == Init /\ [][Next]_<<holder, acting, broken>>
=============================================================================
