--------------------------- MODULE EntityAuthority ---------------------------
(***************************************************************************)
(* What the handoff of entities between shards promises.  An entity is in  *)
(* one place: with a shard, or sent to one.  A shard may take what is sent *)
(* to it and send what it has to another shard.  An entity that something  *)
(* has broken, a crash or a closed connection, may be lost; it never comes *)
(* back, and no other entity is ever lost.                                 *)
(***************************************************************************)
CONSTANTS Shards, Entities, Owner

VARIABLES
    where,   \* the place of each entity
    broken   \* entities that a fault may have hit

Unseeded == [is |-> "unseeded", shard |-> Owner]
Lost == [is |-> "lost", shard |-> Owner]
With(s) == [is |-> "with", shard |-> s]
SentTo(s) == [is |-> "sent", shard |-> s]

\* Where a step of shard s may take an entity from a place.
Reachable(s, place) ==
    IF place \in {With(s), SentTo(s)} \/ (place = Unseeded /\ s = Owner)
    THEN {With(s)} \cup {SentTo(r) : r \in Shards \ {s}}
    ELSE {}

Step(s) ==
    /\ broken \subseteq broken' /\ broken' \subseteq Entities
    /\ \A e \in Entities :
           \/ where'[e] = where[e]
           \/ where'[e] \in Reachable(s, where[e])
           \/ where'[e] = Lost /\ where[e] # Unseeded /\ e \in broken'
    /\ DOMAIN where' = Entities

Spec ==
    /\ where = [e \in Entities |-> Unseeded] /\ broken = {}
    /\ [][\E s \in Shards : Step(s)]_<<where, broken>>
=============================================================================
