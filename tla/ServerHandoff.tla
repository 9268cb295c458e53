---------------------------- MODULE ServerHandoff ----------------------------
(***************************************************************************)
(* The timed handoff of entities between shards (EntityHandoff,            *)
(* ServerHandoff): the source fixes a transfer time, sends the entity and  *)
(* goes on simulating it; at that time, each by its own clock, the target  *)
(* adopts the entity and the source drops it.                              *)
(*                                                                         *)
(* A Tick of the runtime is one step: what it shares with other shards is  *)
(* the network, on which it only sends, and a packet that arrives during a *)
(* Tick acts as one that arrives after it.  A Tick reads its shard's clock *)
(* once; the clocks of two shards are not related.  Movement is free: each *)
(* Tick places each entity it simulates in any shard's bound or in none.   *)
(* The election of the owner (OwnershipElection) is over; the transfer     *)
(* records and the telemetry that a Tick writes to the database take no    *)
(* part in the handoff and are left out.                                   *)
(***************************************************************************)
EXTENDS Integers, FiniteSets

CONSTANTS
    Shards,      \* shards, each with a claimed bound and a registry entry
    Entities,    \* test entities
    Owner,       \* the shard that wins the election and seeds them
    NoShard,     \* no passing target; a position in no bound
    Never,       \* no time
    Delay,       \* handoffDelay
    MaxTickGap,  \* longest time between two Ticks of a shard
    Timeout,     \* inactivityTimeout of a handoff connection
    MaxTime,     \* bound on the clocks
    MaxCrashes   \* bound on crashes

ASSUME HandoffAssumption ==
    /\ Owner \in Shards
    /\ NoShard \notin Shards
    /\ Never \notin Nat
    /\ Delay \in Nat /\ MaxTickGap \in Nat /\ Timeout \in Nat
    /\ MaxTime \in Nat /\ MaxCrashes \in Nat

VARIABLES
    up,        \* shards that run
    clock,     \* the time each shard's last Tick read
    sim,       \* entities in each shard's simulator, and so in its tracker
    passing,   \* the tracker's passingTo of each entity; NoShard: authoritative
    outgoing,  \* pendingOutgoingByEntityId of all shards
    incoming,  \* pendingIncomingByEntityId of all shards
    net,       \* handoff packets on their way
    heard,     \* lastActivityByPeer
    seeded,    \* "yes" once the owner has seeded the entities
    dropped,   \* history: entities whose handoff packet a closed connection lost
    crashes    \* crashes so far

vars == <<up, clock, sim, passing, outgoing, incoming, net, heard, seeded, dropped, crashes>>

Handoffs == [from : Shards, to : Shards, entity : Entities, time : Nat]
Regions == Shards \cup {NoShard}

Init ==
    /\ up = Shards
    /\ clock = [s \in Shards |-> 0]
    /\ sim = [s \in Shards |-> {}]
    /\ passing = [s \in Shards |-> [e \in Entities |-> NoShard]]
    /\ outgoing = {}
    /\ incoming = {}
    /\ net = {}
    /\ heard = [s \in Shards |-> [r \in Shards |-> Never]]
    /\ seeded = "no"
    /\ dropped = {}
    /\ crashes = 0

-----------------------------------------------------------------------------
(* The parts of a Tick of shard s that reads time t and moves each entity e  *)
(* to region[e].                                                             *)

\* ReapInactiveConnections: peers that have sent nothing for the timeout.
Reaped(s, t) == {r \in Shards : heard[s][r] # Never /\ t - heard[s][r] >= Timeout}

\* CloseConnectionTo discards what is on its way in either direction.
Closed(s, t) ==
    {h \in net : \/ h.from = s /\ h.to \in Reaped(s, t)
                 \/ h.to = s /\ h.from \in Reaped(s, t)}

\* AdoptIncomingIfDue.
Adopted(s, t) == {h \in incoming : h.to = s /\ h.time <= t}

\* The simulator after the adoptions and, on the owner's first Tick, the seeding.
Held(s, t) ==
    sim[s] \cup {h.entity : h \in Adopted(s, t)}
           \cup (IF s = Owner /\ seeded = "no" THEN Entities ELSE {})

\* SetOwnedEntities: a tracked entity keeps its state, a new one is authoritative.
Tracked_Fresh(s, e) == NoShard
Tracked(s, e) == IF e \in sim[s] THEN passing[s][e] ELSE NoShard

\* PlanAndSendAll: authoritative entities found in the bound of another shard.
Handed(s, t, region) ==
    {e \in Held(s, t) : Tracked(s, e) = NoShard /\ region[e] \notin {s, NoShard}}

TransferTime(t) == t + Delay

Sent(s, t, region) ==
    {[from |-> s, to |-> region[e], entity |-> e, time |-> TransferTime(t)] :
        e \in Handed(s, t, region)}

Target(s, t, region, e) == IF e \in Handed(s, t, region) THEN region[e] ELSE Tracked(s, e)

\* AddPendingOutgoing: one entry per entity.
Pending(s, t, region) ==
    {h \in outgoing : h.from = s => h.entity \notin Handed(s, t, region)} \cup Sent(s, t, region)

\* CommitOutgoingIfDue: due entries go; their entity goes too unless the tracker no
\* longer passes it to that target.
Due(s, t, region) == {h \in Pending(s, t, region) : h.from = s /\ h.time <= t}

Committed(s, t, region) ==
    {e \in Entities : \E h \in Due(s, t, region) :
        h.entity = e /\ e \in Held(s, t) /\ Target(s, t, region, e) = h.to}

\* The entries that a Tick leaves in pendingOutgoingByEntityId.
Waiting_Unsaved(s, t, region) == outgoing \ Due(s, t, region)
Waiting(s, t, region) == Pending(s, t, region) \ Due(s, t, region)

Tick(s, t, region) ==
    /\ s \in up
    /\ clock' = [clock EXCEPT ![s] = t]
    /\ heard' = [heard EXCEPT ![s] = [r \in Shards |->
                    IF r \in Reaped(s, t) THEN Never ELSE heard[s][r]]]
    /\ dropped' = dropped \cup {h.entity : h \in Closed(s, t)}
    /\ incoming' = incoming \ Adopted(s, t)
    /\ seeded' = IF s = Owner THEN "yes" ELSE seeded
    /\ net' = (net \ Closed(s, t)) \cup Sent(s, t, region)
    /\ outgoing' = Waiting(s, t, region)
    /\ sim' = [sim EXCEPT ![s] = Held(s, t) \ Committed(s, t, region)]
    /\ passing' = [passing EXCEPT ![s] = [e \in Entities |->
                    IF e \in Held(s, t) \ Committed(s, t, region)
                    THEN Target(s, t, region, e) ELSE NoShard]]
    /\ UNCHANGED <<up, crashes>>

-----------------------------------------------------------------------------
\* QueueIncoming: the last handoff of an entity is the pending one.
Queued_InTime(h) == IF h.time < clock[h.to] THEN incoming ELSE incoming \cup {h}
Queued(h) ==
    {i \in incoming : i.to = h.to => i.entity # h.entity} \cup {h}

\* OnGenericEntityPacket marks the peer's activity and queues the handoff.
OnGenericEntityPacket(h) ==
    /\ h \in net
    /\ h.to \in up
    /\ net' = net \ {h}
    /\ heard' = [heard EXCEPT ![h.to][h.from] = clock[h.to]]
    /\ incoming' = Queued(h)
    /\ UNCHANGED <<up, clock, sim, passing, outgoing, seeded, dropped, crashes>>

\* A shard crashes with everything it holds.  Its claim and its registry entry
\* stay, and its successor has another identity.
Crash(s) ==
    /\ crashes < MaxCrashes
    /\ s \in up
    /\ up' = up \ {s}
    /\ crashes' = crashes + 1
    /\ sim' = [sim EXCEPT ![s] = {}]
    /\ passing' = [passing EXCEPT ![s] = [e \in Entities |-> NoShard]]
    /\ outgoing' = {h \in outgoing : h.from # s}
    /\ incoming' = {h \in incoming : h.to # s}
    /\ heard' = [heard EXCEPT ![s] = [r \in Shards |-> Never]]
    /\ UNCHANGED <<clock, net, seeded, dropped>>

Next ==
    \/ \E s \in Shards, gap \in 0..MaxTickGap, region \in [Entities -> Regions] :
           clock[s] + gap <= MaxTime /\ Tick(s, clock[s] + gap, region)
    \/ \E h \in net : OnGenericEntityPacket(h)
    \/ \E s \in Shards : Crash(s)

Spec == Init /\ [][Next]_vars

-----------------------------------------------------------------------------
\* Every variable stays in its type: no transfer time is negative.
TypeOK ==
    /\ up \subseteq Shards
    /\ clock \in [Shards -> Nat]
    /\ sim \in [Shards -> SUBSET Entities]
    /\ passing \in [Shards -> [Entities -> Regions]]
    /\ outgoing \subseteq Handoffs
    /\ incoming \subseteq Handoffs
    /\ net \subseteq Handoffs
    /\ heard \in [Shards -> [Shards -> Nat \cup {Never}]]
    /\ seeded \in {"yes", "no"}
    /\ dropped \subseteq Entities
    /\ crashes \in Nat

HasAuthority(s, e) == e \in sim[s] /\ passing[s][e] = NoShard
OnTheWay == net \cup incoming

\* At most one shard has authority over an entity, and none while its one handoff is
\* on the way: the other shards that simulate it are passing it on.  Crashes, clocks
\* that disagree, late packets and closed connections do not change that.
OneAuthority ==
    /\ \A e \in Entities, s, r \in Shards : HasAuthority(s, e) /\ HasAuthority(r, e) => s = r
    /\ \A g, h \in OnTheWay : g.entity = h.entity => g = h
    /\ \A h \in OnTheWay, s \in Shards : ~HasAuthority(s, h.entity)

\* Without crashes and lost packets no entity vanishes, provided that a shard never
\* goes longer than the handoff delay without a Tick: a shard that gets an entity
\* back has dropped its old copy before.
NeverLost ==
    seeded = "yes" /\ crashes = 0 /\ MaxTickGap <= Delay =>
        \A e \in Entities \ dropped :
            \/ \E s \in Shards : HasAuthority(s, e)
            \/ \E h \in OnTheWay : h.entity = e

\* A shard passes an entity exactly while its mailbox holds the outgoing handoff to
\* that target, so no transfer is ever cancelled and no copy stays for ever.
PassingIsPending ==
    /\ \A o \in outgoing : passing[o.from][o.entity] = o.to
    /\ \A s \in Shards, e \in Entities :
           passing[s][e] # NoShard => \E o \in outgoing : o.from = s /\ o.entity = e

\* The rest of the inductive invariant.  A shard waits for a transfer time that its
\* clock has not reached, never hands an entity to itself, and has one outgoing
\* handoff per entity; a handoff arrives once; nothing exists before the seeding.
MailboxInv ==
    /\ \A o \in outgoing : clock[o.from] < o.time
    /\ \A h \in outgoing \cup OnTheWay : h.from # h.to
    /\ \A o, p \in outgoing : o.from = p.from /\ o.entity = p.entity => o = p
    /\ \A h \in net : h \notin incoming
    /\ \A s \in Shards, e \in Entities : passing[s][e] # NoShard => e \in sim[s]
    /\ seeded = "no" => /\ outgoing = {} /\ net = {} /\ incoming = {}
                        /\ \A s \in Shards : sim[s] = {}

\* While a shard waits to drop its copy, the entity is in the handoff it waits for,
\* or with an authority that took it after that transfer time, or in a later handoff,
\* which is due a whole delay later.
ChainInv ==
    \A o \in outgoing :
        /\ \A h \in OnTheWay : h.entity = o.entity => h = o \/ h.time >= o.time + Delay
        /\ \A s \in Shards : HasAuthority(s, o.entity) => clock[s] >= o.time

HandoffInv ==
    TypeOK /\ OneAuthority /\ NeverLost /\ PassingIsPending /\ MailboxInv /\ ChainInv

\* The place of an entity: its handoff on the way, or else its authority.
PlaceOf(e) ==
    IF seeded = "no" THEN [is |-> "unseeded", shard |-> Owner]
    ELSE IF \E h \in OnTheWay : h.entity = e
         THEN [is |-> "sent", shard |-> (CHOOSE h \in OnTheWay : h.entity = e).to]
    ELSE IF \E s \in Shards : HasAuthority(s, e)
         THEN [is |-> "with", shard |-> CHOOSE s \in Shards : HasAuthority(s, e)]
    ELSE [is |-> "lost", shard |-> Owner]

Authority ==
    INSTANCE EntityAuthority WITH
        where <- [e \in Entities |-> PlaceOf(e)],
        broken <- IF crashes > 0 THEN Entities ELSE dropped

\* The timed handoff implements EntityAuthority, if a shard never goes longer than the
\* handoff delay without a Tick: every Tick and every packet moves an entity from the one
\* place where it is to another one, only a crash or a closed connection loses it, and a
\* copy that waits to be dropped never brings it back.
ImplementsAuthority == Authority!Spec
=============================================================================
