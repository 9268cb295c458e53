---------------------------- MODULE NaiveHandoff ----------------------------
(***************************************************************************)
(* The first version of the handoff (EntityHandoff, NaiveHandoff), of one  *)
(* test entity.  The shard that the owner key names simulates the entity,  *)
(* seeding one when it has none; a shard that sees the entity in another's *)
(* bound sends it, sets the key to the target and drops its copy.          *)
(*                                                                         *)
(* A Tick is two to four steps, one per use of the owner key, and Ticks of *)
(* several shards interleave.  Every shard counts its own Ticks, so what a *)
(* transfer tick of the sender means to the target is any number of Ticks: *)
(* pending handoffs carry the Ticks that are left.  The shards registered  *)
(* and claimed their bounds before; a position is in the bound of one of   *)
(* them or in none.  What a Tick publishes is in AuthorityTelemetry, the   *)
(* connection lease in HandoffLease.                                       *)
(***************************************************************************)
EXTENDS Naturals, FiniteSetsExt

CONSTANTS
    NHShards,       \* shards: numbers, ordered as their identities are
    NHNone,         \* no shard, no entity, no pending handoff
    NHLeadTicks,    \* kHandoffLeadTicks
    NHMaxWait,      \* bound on the Ticks that a target waits
    NHMaxHandoffs   \* bound on handoffs

ASSUME NaiveAssumption == NHShards \subseteq Nat /\ NHNone \notin NHShards

VARIABLES
    nhKey,        \* kTestOwnerKey in the database
    nhOwner,      \* isTestEntityOwner
    nhEvaluated,  \* ownershipEvaluated
    nhPc,         \* where each shard is in its Tick
    nhEntity,     \* the entity of simulator and tracker: none, with authority (itself) or passing to
    nhIncoming,   \* pendingIncomingEntity: Ticks left until it is due
    nhOutgoing,   \* pendingOutgoingHandoff: Ticks left until it is due
    nhNet,        \* handoff packets on their way
    nhHeard,      \* peers in lastActivityByPeer
    nhHandoffs,   \* handoffs so far
    nhLate        \* history: "yes" once a bootstrap write replaced a newer owner

nhVars == <<nhKey, nhOwner, nhEvaluated, nhPc, nhEntity, nhIncoming, nhOutgoing, nhNet,
            nhHeard, nhHandoffs, nhLate>>

NHInit ==
    /\ nhKey = NHNone
    /\ nhOwner = [s \in NHShards |-> "no"]
    /\ nhEvaluated = [s \in NHShards |-> "no"]
    /\ nhPc = [s \in NHShards |-> "idle"]
    /\ nhEntity = [s \in NHShards |-> NHNone]
    /\ nhIncoming = [s \in NHShards |-> NHNone]
    /\ nhOutgoing = [s \in NHShards |-> NHNone]
    /\ nhNet = {}
    /\ nhHeard = [s \in NHShards |-> {}]
    /\ nhHandoffs = 0
    /\ nhLate = "no"

-----------------------------------------------------------------------------
\* ++localAuthorityTick: a pending handoff is one Tick nearer.
OneTick(left) == IF left \in {0, NHNone} THEN left ELSE left - 1

\* NH_HandoffConnectionManager::Tick closes connections that have been silent for too
\* long, and with them goes what is on its way.
NHClosed(s, silent) ==
    {p \in nhNet : (p.from = s /\ p.to \in silent) \/ (p.to = s /\ p.from \in silent)}

\* The start of a Tick, up to the read of the owner key.  The answer of an evaluation
\* stands until the interval is over or a handoff makes it void.
NHTick(s, silent, evaluate) ==
    /\ nhPc[s] = "idle"
    /\ silent \subseteq nhHeard[s]
    /\ nhEvaluated[s] = "no" => evaluate
    /\ nhNet' = nhNet \ NHClosed(s, silent)
    /\ nhHeard' = [nhHeard EXCEPT ![s] = @ \ silent]
    /\ nhIncoming' = [nhIncoming EXCEPT ![s] = OneTick(@)]
    /\ nhOutgoing' = [nhOutgoing EXCEPT ![s] = OneTick(@)]
    /\ nhEvaluated' = [nhEvaluated EXCEPT ![s] = "yes"]
    /\ nhPc' = [nhPc EXCEPT ![s] = IF evaluate /\ nhKey = NHNone THEN "write" ELSE "act"]
    /\ nhOwner' = [nhOwner EXCEPT ![s] =
           IF ~evaluate \/ nhKey = NHNone THEN @ ELSE IF nhKey = s THEN "yes" ELSE "no"]
    /\ UNCHANGED <<nhKey, nhEntity, nhHandoffs, nhLate>>

\* SelectBootstrapOwner: the smallest shard, written whatever the key says by now.
BootstrapOwner == Min(NHShards)
NHBootstrap(s) ==
    /\ nhPc[s] = "write"
    /\ nhKey' = BootstrapOwner
    /\ nhLate' = IF nhKey \in {NHNone, BootstrapOwner} THEN nhLate ELSE "yes"
    /\ nhOwner' = [nhOwner EXCEPT ![s] = IF BootstrapOwner = s THEN "yes" ELSE "no"]
    /\ nhPc' = [nhPc EXCEPT ![s] = "act"]
    /\ UNCHANGED <<nhEvaluated, nhEntity, nhIncoming, nhOutgoing, nhNet, nhHeard, nhHandoffs>>

\* AdoptSingleEntity or SeedEntities, then SetOwnedEntities: a tracked entity keeps
\* its state, a new one is authoritative.
NHTracked(s) == IF nhEntity[s] = NHNone THEN s ELSE nhEntity[s]
AfterAdoption(s) == [nhIncoming EXCEPT ![s] = IF @ = 0 THEN NHNone ELSE @]

\* EvaluateHeuristicPositionTriggers without a handoff: MarkAuthoritative in the own
\* bound, nothing outside every bound or on the way to that target.
Marked(s, region) == IF region = s THEN s ELSE NHTracked(s)

\* ProcessOutgoingHandoffCommit.
NHDue(s) == nhOutgoing[s] = 0

\* The rest of a Tick that hands nothing over, on the owner.
NHKeep(s, region) ==
    /\ nhPc[s] = "act"
    /\ nhOwner[s] = "yes"
    /\ region \in {s, NHNone, NHTracked(s)}
    /\ nhIncoming' = AfterAdoption(s)
    /\ nhEntity' = [nhEntity EXCEPT ![s] = IF NHDue(s) THEN NHNone ELSE Marked(s, region)]
    /\ nhOutgoing' = [nhOutgoing EXCEPT ![s] = IF NHDue(s) THEN NHNone ELSE @]
    /\ nhOwner' = [nhOwner EXCEPT ![s] = IF NHDue(s) THEN "no" ELSE @]
    /\ nhEvaluated' = [nhEvaluated EXCEPT ![s] = IF NHDue(s) THEN "no" ELSE @]
    /\ nhPc' = [nhPc EXCEPT ![s] = "idle"]
    /\ UNCHANGED <<nhKey, nhNet, nhHeard, nhHandoffs, nhLate>>

\* SelectTargetClaimKeyForPosition and ResolveIdentityFromClaimKey: another shard whose
\* bound has the position.
OtherShards(s) == NHShards \ {s}

\* MarkPassing: an entity is not sent again to the shard it is passing to.
IsPassingTo(s, q) == q # s /\ NHTracked(s) = q
HandoffTargets(s) == {q \in OtherShards(s) : ~IsPassingTo(s, q)}

\* SendEntityHandoff.
EntityHandoff(s, r) == [from |-> s, to |-> r, number |-> nhHandoffs]

\* The owner sees the entity in the bound of another shard and sends it ...
NHSend(s, r) ==
    /\ nhHandoffs < NHMaxHandoffs
    /\ nhPc[s] = "act"
    /\ nhOwner[s] = "yes"
    /\ r \in HandoffTargets(s)
    /\ nhHandoffs' = nhHandoffs + 1
    /\ nhIncoming' = AfterAdoption(s)
    /\ nhEntity' = [nhEntity EXCEPT ![s] = r]
    /\ nhNet' = nhNet \cup {EntityHandoff(s, r)}
    /\ nhPc' = [nhPc EXCEPT ![s] = "switch"]
    /\ UNCHANGED <<nhKey, nhOwner, nhEvaluated, nhOutgoing, nhHeard, nhLate>>

\* ... then the owner key names the target, and the answer of the evaluation is void.
Voided_Kept(s) == nhEvaluated
Voided(s) == [nhEvaluated EXCEPT ![s] = "no"]
NHSwitchOwner(s) ==
    /\ nhPc[s] = "switch"
    /\ nhKey' = nhEntity[s]
    /\ nhOutgoing' = [nhOutgoing EXCEPT ![s] = NHLeadTicks]
    /\ nhEvaluated' = Voided(s)
    /\ nhPc' = [nhPc EXCEPT ![s] = "idle"]
    /\ UNCHANGED <<nhOwner, nhEntity, nhIncoming, nhNet, nhHeard, nhHandoffs, nhLate>>

\* The rest of a Tick of a shard that is not the owner: everything is dropped.
Remaining_Kept(s) == nhEntity[s]
Remaining(s) == NHNone
NHDrop(s) ==
    /\ nhPc[s] = "act"
    /\ nhOwner[s] = "no"
    /\ nhEntity' = [nhEntity EXCEPT ![s] = Remaining(s)]
    /\ nhOutgoing' = [nhOutgoing EXCEPT ![s] = NHNone]
    /\ nhPc' = [nhPc EXCEPT ![s] = "idle"]
    /\ UNCHANGED <<nhKey, nhOwner, nhEvaluated, nhIncoming, nhNet, nhHeard, nhHandoffs, nhLate>>

\* OnIncomingHandoffEntityAtTick overwrites the only pending slot.
PendingAfter(s, wait) == [nhIncoming EXCEPT ![s] = wait]

\* OnGenericEntityPacket.  Packets of one connection arrive in order.
NHReceive(p, wait) ==
    /\ \A q \in nhNet : q.from = p.from /\ q.to = p.to => p.number <= q.number
    /\ nhNet' = nhNet \ {p}
    /\ nhIncoming' = PendingAfter(p.to, wait)
    /\ nhEvaluated' = [nhEvaluated EXCEPT ![p.to] = "no"]
    /\ nhHeard' = [nhHeard EXCEPT ![p.to] = @ \cup {p.from}]
    /\ UNCHANGED <<nhKey, nhOwner, nhPc, nhEntity, nhOutgoing, nhHandoffs, nhLate>>

NHTickStep(s) ==
    \/ \E silent \in SUBSET nhHeard[s], evaluate \in BOOLEAN : NHTick(s, silent, evaluate)
    \/ NHBootstrap(s)
    \/ \E region \in NHShards \cup {NHNone} : NHKeep(s, region)
    \/ \E r \in NHShards : NHSend(s, r)
    \/ NHSwitchOwner(s)
    \/ NHDrop(s)

NHNext ==
    \/ \E s \in NHShards : NHTickStep(s)
    \/ \E p \in nhNet, wait \in 0..NHMaxWait : NHReceive(p, wait)

NHSpec == NHInit /\ [][NHNext]_nhVars

\* A Tick whose ownership interval is over.
NHEvaluation(s) ==
    \E silent \in SUBSET nhHeard[s] : NHTick(s, silent, TRUE)

-----------------------------------------------------------------------------
\* At most one shard simulates the entity with authority, the one that the owner key
\* names, however slowly the others find out that they lost it, unless a shard that
\* found the key empty wrote the bootstrap owner after a handoff.
NHOneAuthority ==
    nhLate = "no" => \A s \in NHShards : nhEntity[s] = s => nhKey = s

\* The inductive invariant behind it: a shard that acts on the answer "owner" in its Tick,
\* and one whose answer still stands for its next Tick, is named by the key, and an owner
\* in the middle of a handoff has marked the entity as passing to another shard.
NaiveInv ==
    /\ nhKey \in NHShards \cup {NHNone}
    /\ nhOwner \in [NHShards -> {"yes", "no"}]
    /\ nhEvaluated \in [NHShards -> {"yes", "no"}]
    /\ nhPc \in [NHShards -> {"idle", "write", "act", "switch"}]
    /\ nhEntity \in [NHShards -> NHShards \cup {NHNone}]
    /\ nhLate \in {"yes", "no"}
    /\ nhLate = "yes" => nhKey # NHNone
    /\ \A p \in nhNet : p.from \in NHShards /\ p.to \in NHShards
    /\ \A s \in NHShards : nhPc[s] = "switch" =>
           nhOwner[s] = "yes" /\ nhEntity[s] \in NHShards \ {s}
    /\ nhLate = "no" => \A s \in NHShards :
           /\ nhPc[s] \in {"act", "switch"} /\ nhOwner[s] = "yes" => nhKey = s
           /\ nhPc[s] = "idle" /\ nhEvaluated[s] = "yes" /\ nhOwner[s] = "yes" => nhKey = s
    /\ NHOneAuthority

\* The authority is a token (OwnerToken): the owner key never changes while a shard
\* simulates the entity with authority, but by a late bootstrap write, and only the shard
\* that the key names starts to, however the Ticks and commands of the shards interleave.
NHActing == {s \in NHShards : nhEntity[s] = s}
Token == INSTANCE OwnerToken WITH
    Shards <- NHShards, Nobody <- NHNone, First <- BootstrapOwner,
    holder <- nhKey, acting <- NHActing, broken <- nhLate
NHImplementsToken == Token!Spec

\* Exactly one shard simulates the entity, the one that the key names.
OneSimulates ==
    \E s \in NHShards : nhKey = s /\ {r \in NHShards : nhEntity[r] # NHNone} = {s}
=============================================================================
