----------------------------- MODULE BoundLease -----------------------------
(***************************************************************************)
(* The bound lease protocol of AtlasNet: the WatchDog computes the bounds  *)
(* and stores them as pending in a Redis document, scales the shard        *)
(* service to one replica per bound, and each shard process pops one       *)
(* pending bound and becomes its owner.  Every process refreshes an entry  *)
(* of the health table; the WatchDog polls that table and handles the      *)
(* entries that have expired.                                              *)
(*                                                                         *)
(* One step of the model is one Redis command (or one Lua script), so the  *)
(* steps of the WatchDog's two threads and of the shards interleave        *)
(* wherever the code lets them.  A shard identity is a UUID drawn at       *)
(* process start, so a restarted shard is a new member of Ids.             *)
(***************************************************************************)
EXTENDS Integers, Sequences, FiniteSets

CONSTANTS
    Bounds,             \* the BoundsIDs GridHeuristic::Compute produces
    Ids,                \* shard identities, one per process start (bounds restarts)
    NoBound,            \* BoundLeaser without a ClaimedBound
    NoId,               \* no health entry is being handled
    MaxWatchdogStarts,  \* bound on WatchDog process starts
    MaxShardCrashes     \* bound on shard crashes that are not ASSERTs

ASSUME BoundsAssumption == IsFiniteSet(Bounds) /\ Bounds # {} /\ NoBound \notin Bounds
ASSUME IdsAssumption == IsFiniteSet(Ids) /\ NoId \notin Ids
ASSUME LimitsAssumption == MaxWatchdogStarts \in Nat /\ MaxShardCrashes \in Nat

VARIABLES
    heuristic,    \* what the document holds: "none", "typed" or "pushed"
    pendingType,  \* JSON type of the document's Pending entry, "missing" before it is made
    pending,      \* the Pending array: bounds nobody has claimed
    claimed,      \* the Claimed array: entries [ID, owner]
    claimedHash,  \* hash {Heuristic_Bounds}:Claimed_NID2BID, owner -> bound
    pendingHash,  \* hash {Heuristic_Bounds}:Pending, a set of bounds
    ping,         \* Health_Ping: identity -> "absent", "fresh" or "expired"
    replicas,     \* replicas Docker keeps running of the shard service
    wpc,          \* WatchDog main thread: where ComputeHeuristic is
    known,        \* pending_count + claimed_count read so far
    todo,         \* bounds StorePendingBoundsFromByteWriters has still to insert
    inserting,    \* bound between the check and the append of the insert
    starts,       \* WatchDog process starts so far
    expiredPings, \* health check thread: keys still to handle
    failing,      \* health check thread: key whose failure is being handled
    spc,          \* shard -> where BoundLeaser::LoopEntry is
    lease,        \* shard -> ClaimedBoundID
    crashes,      \* shard crashes so far
    asserted      \* the ASSERTs that have aborted a process

docVars    == <<heuristic, pendingType, pending, claimed, claimedHash, pendingHash>>
mainVars   == <<wpc, known, todo, inserting, starts>>
healthVars == <<expiredPings, failing>>
shardVars  == <<spc, lease, crashes>>
vars == <<docVars, ping, replicas, mainVars, healthVars, shardVars, asserted>>

WatchdogPCs == {"down", "init", "typed", "count", "count2", "compare",
                "store", "scale", "run"}
ShardPCs == {"unused", "looping", "leased", "bound", "verified", "dead"}
Asserts == {"InsertPendingBound", "ClaimBoundNull", "BoundIDFromShard"}
Entries == [ID : Bounds, owner : Ids]

-----------------------------------------------------------------------------
(* State helpers. *)

WatchdogUp == wpc # "down"
Running(s) == spc[s] \notin {"unused", "dead"}
RunningShards == {s \in Ids : Running(s)}

\* BoundIDFromShard's JSONPath query: the Claimed entries of one owner.
EntriesOf(s) == {i \in 1..Len(claimed) : claimed[i].owner = s}

\* GetPendingBoundsCount and GetClaimedBoundsCount count the members of a JSON
\* object; both entries of the document are arrays, so the is_object() test
\* fails and the answer is 0.
CountOf(seq) == 0

\* Internal_InsertPendingBound's query: is there a pending bound with this ID?
HasPending(b) == \E i \in 1..Len(pending) : pending[i] = b

\* GetClaimedBound's query: is there a Claimed entry with this ID?
HasClaim(b) == \E i \in 1..Len(claimed) : claimed[i].ID = b

\* LoopEntry claims while there is no ClaimedBound.
NeedsBound(s) == spc[s] = "looping"

\* The claim script's JSON.ARRPOP of the first pending bound.
PoppedPending_Kept == pending
PoppedPending == Tail(pending)

\* ComputeHeuristic asks for as many replicas as it serialized bounds.
WantedReplicas_OneMore == Cardinality(Bounds) + 1
WantedReplicas_OneLess == Cardinality(Bounds) - 1
WantedReplicas == Cardinality(Bounds)

Abort(a) == asserted' = asserted \cup {a}

\* A WatchDog process that ends, by a crash or by an uncaught exception, takes
\* both of its threads with it; the document survives in Redis.
StopWatchdog ==
    /\ wpc' = "down"
    /\ known' = 0
    /\ todo' = {}
    /\ inserting' = NoBound
    /\ expiredPings' = {}
    /\ failing' = NoId

-----------------------------------------------------------------------------
Init ==
    /\ heuristic = "none"
    /\ pendingType = "missing"
    /\ pending = <<>>
    /\ claimed = <<>>
    /\ claimedHash = [s \in Ids |-> NoBound]
    /\ pendingHash = {}
    /\ ping = [s \in Ids |-> "absent"]
    /\ replicas = 0
    /\ wpc = "down"
    /\ known = 0
    /\ todo = {}
    /\ inserting = NoBound
    /\ starts = 0
    /\ expiredPings = {}
    /\ failing = NoId
    /\ spc = [s \in Ids |-> "unused"]
    /\ lease = [s \in Ids |-> NoBound]
    /\ crashes = 0
    /\ asserted = {}

-----------------------------------------------------------------------------
(* WatchDog, main thread. *)

\* WatchDog::Init up to SwitchHeuristic: the health check thread now runs.
WatchdogStart ==
    /\ wpc = "down"
    /\ starts < MaxWatchdogStarts
    /\ wpc' = "init"
    /\ starts' = starts + 1
    /\ UNCHANGED <<docVars, ping, replicas, known, todo, inserting,
                   healthVars, shardVars, asserted>>

\* PushHeuristic, first command: Internal_SetActiveHeuristicType.
PushHeuristicType ==
    /\ wpc = "init"
    /\ wpc' = "typed"
    /\ heuristic' = IF heuristic = "none" THEN "typed" ELSE heuristic
    /\ UNCHANGED <<pendingType, pending, claimed, claimedHash, pendingHash, ping,
                   replicas, known, todo, inserting, starts, healthVars,
                   shardVars, asserted>>

\* PushHeuristic, second command: the serialized heuristic.
PushHeuristicData ==
    /\ wpc = "typed"
    /\ wpc' = "count"
    /\ heuristic' = "pushed"
    /\ UNCHANGED <<pendingType, pending, claimed, claimedHash, pendingHash, ping,
                   replicas, known, todo, inserting, starts, healthVars,
                   shardVars, asserted>>

GetPendingBoundsCount ==
    /\ wpc = "count"
    /\ wpc' = "count2"
    /\ known' = CountOf(pending)
    /\ UNCHANGED <<docVars, ping, replicas, todo, inserting, starts, healthVars,
                   shardVars, asserted>>

GetClaimedBoundsCount ==
    /\ wpc = "count2"
    /\ wpc' = "compare"
    /\ known' = known + CountOf(claimed)
    /\ UNCHANGED <<docVars, ping, replicas, todo, inserting, starts, healthVars,
                   shardVars, asserted>>

\* ComputeHeuristic: refresh the pending bounds only when fewer are known than
\* the heuristic has.
CompareCounts ==
    /\ wpc = "compare"
    /\ \/ known < Cardinality(Bounds) /\ wpc' = "store" /\ todo' = Bounds
       \/ known >= Cardinality(Bounds) /\ wpc' = "scale" /\ todo' = todo
    /\ UNCHANGED <<docVars, ping, replicas, known, inserting, starts,
                   healthVars, shardVars, asserted>>

\* Internal_InsertPendingBound, up to the check: the array is made when it is
\* missing, and a bound that is already pending aborts the WatchDog.
InsertPendingCheck(b) ==
    /\ wpc = "store"
    /\ inserting = NoBound
    /\ b \in todo
    /\ pendingType' = "array"
    /\ \/ /\ ~HasPending(b)
          /\ inserting' = b
          /\ todo' = todo \ {b}
          /\ UNCHANGED <<wpc, known, healthVars, asserted>>
       \/ /\ HasPending(b)
          /\ Abort("InsertPendingBound")
          /\ StopWatchdog
    /\ UNCHANGED <<heuristic, pending, claimed, claimedHash, pendingHash, ping,
                   replicas, starts, shardVars>>

\* Internal_InsertPendingBound: JSON.ARRAPPEND.
InsertPendingAppend ==
    /\ wpc = "store"
    /\ inserting # NoBound
    /\ pending' = Append(pending, inserting)
    /\ inserting' = NoBound
    /\ UNCHANGED <<heuristic, pendingType, claimed, claimedHash, pendingHash,
                   ping, replicas, wpc, known, todo, starts, healthVars,
                   shardVars, asserted>>

StoreDone_Early ==
    /\ wpc = "store"
    /\ wpc' = "scale"
    /\ UNCHANGED <<docVars, ping, replicas, known, todo, inserting, starts,
                   healthVars, shardVars, asserted>>

StoreDone ==
    /\ wpc = "store"
    /\ inserting = NoBound
    /\ todo = {}
    /\ wpc' = "scale"
    /\ UNCHANGED <<docVars, ping, replicas, known, todo, inserting, starts,
                   healthVars, shardVars, asserted>>

\* SetShardCount(bws.size()): Docker keeps that many shard processes running.
SetShardCount ==
    /\ wpc = "scale"
    /\ wpc' = "run"
    /\ replicas' = WantedReplicas
    /\ UNCHANGED <<docVars, ping, known, todo, inserting, starts, healthVars,
                   shardVars, asserted>>

\* The process ends; SetShardCount throwing when Docker refuses is one way.
WatchdogCrash ==
    /\ WatchdogUp
    /\ starts < MaxWatchdogStarts
    /\ StopWatchdog
    /\ UNCHANGED <<docVars, ping, replicas, starts, shardVars, asserted>>

-----------------------------------------------------------------------------
(* WatchDog, health check thread. *)

\* GetExpiredPings: a snapshot of the keys whose time stamp has passed.
GetExpiredPings ==
    /\ WatchdogUp
    /\ expiredPings = {}
    /\ failing = NoId
    /\ expiredPings' = {s \in Ids : ping[s] = "expired"}
    /\ UNCHANGED <<docVars, ping, replicas, mainVars, failing, shardVars, asserted>>

RequeueClaimedBound_Document(s) ==
    /\ WatchdogUp
    /\ failing = NoId
    /\ s \in expiredPings
    /\ expiredPings' = expiredPings \ {s}
    /\ failing' = s
    /\ claimed' = SelectSeq(claimed, LAMBDA e : e.owner # s)
    /\ pending' = pending \o [i \in 1..Cardinality(EntriesOf(s)) |-> lease[s]]
    /\ UNCHANGED <<heuristic, pendingType, claimedHash, pendingHash, ping, replicas,
                   mainVars, shardVars, asserted>>

\* onHealthCheckFail, first half: the Lua script of RequeueClaimedBound, which
\* moves the owner's value from one hash to the other when it is there.
RequeueClaimedBound(s) ==
    /\ WatchdogUp
    /\ failing = NoId
    /\ s \in expiredPings
    /\ expiredPings' = expiredPings \ {s}
    /\ failing' = s
    /\ \/ claimedHash[s] = NoBound /\ UNCHANGED <<claimedHash, pendingHash>>
       \/ /\ claimedHash[s] # NoBound
          /\ pendingHash' = pendingHash \cup {claimedHash[s]}
          /\ claimedHash' = [claimedHash EXCEPT ![s] = NoBound]
    /\ UNCHANGED <<heuristic, pendingType, pending, claimed, ping, replicas,
                   mainVars, shardVars, asserted>>

\* onHealthCheckFail, second half: RemovePing.
RemovePing ==
    /\ WatchdogUp
    /\ failing # NoId
    /\ ping' = [ping EXCEPT ![failing] = "absent"]
    /\ failing' = NoId
    /\ UNCHANGED <<docVars, replicas, mainVars, expiredPings, shardVars, asserted>>

-----------------------------------------------------------------------------
(* Shards. *)

\* Docker starts a replica; AtlasNetServer::Initialize draws a fresh identity.
ShardStart(s) ==
    /\ spc[s] = "unused"
    /\ Cardinality(RunningShards) < replicas
    /\ spc' = [spc EXCEPT ![s] = "looping"]
    /\ UNCHANGED <<docVars, ping, replicas, mainVars, healthVars, lease, crashes,
                   asserted>>

\* HealthUpdate, every _HEALTH_PING_INTERVAL_MS.
HealthUpdate(s) ==
    /\ Running(s)
    /\ ping[s] # "fresh"
    /\ ping' = [ping EXCEPT ![s] = "fresh"]
    /\ UNCHANGED <<docVars, replicas, mainVars, healthVars, shardVars, asserted>>

\* Time: the stamp of an entry passes (_HEALTH_PING_TIMESTAMP_LIFE_MS); the
\* process may be dead or merely late.
PingExpires(s) ==
    /\ ping[s] = "fresh"
    /\ ping' = [ping EXCEPT ![s] = "expired"]
    /\ UNCHANGED <<docVars, replicas, mainVars, healthVars, shardVars, asserted>>

\* ClaimNextPendingBound's Lua script: pop the first pending bound and append it
\* to Claimed with its owner.  Without a Pending array the script is an error,
\* which nothing catches; without a pending bound it answers nil and
\* BoundLeaser::ClaimBound aborts.
ClaimNextPendingBound(s) ==
    /\ NeedsBound(s)
    /\ \/ /\ pendingType = "array"
          /\ pending # <<>>
          /\ claimed' = Append(claimed, [ID |-> Head(pending), owner |-> s])
          /\ pending' = PoppedPending
          /\ lease' = [lease EXCEPT ![s] = Head(pending)]
          /\ spc' = [spc EXCEPT ![s] = "leased"]
          /\ UNCHANGED asserted
       \/ /\ pendingType = "array"
          /\ pending = <<>>
          /\ Abort("ClaimBoundNull")
          /\ spc' = [spc EXCEPT ![s] = "dead"]
          /\ UNCHANGED <<claimed, pending, lease>>
       \/ /\ pendingType = "missing"
          /\ spc' = [spc EXCEPT ![s] = "dead"]
          /\ UNCHANGED <<claimed, pending, lease, asserted>>
    /\ UNCHANGED <<heuristic, pendingType, claimedHash, pendingHash, ping,
                   replicas, mainVars, healthVars, crashes>>

\* ClaimNextPendingBound after the script: GetClaimedBound by ID, then the
\* shape is built and published as ClaimedBound.
GetClaimedBound(s) ==
    /\ spc[s] = "leased"
    /\ HasClaim(lease[s])
    /\ spc' = [spc EXCEPT ![s] = "bound"]
    /\ UNCHANGED <<docVars, ping, replicas, mainVars, healthVars, lease, crashes,
                   asserted>>

\* The last ASSERT of ClaimBound and the ones inside BoundIDFromShard: exactly
\* one Claimed entry has this owner and it is the leased bound.
BoundIDFromShard(s) ==
    /\ spc[s] = "bound"
    /\ \/ /\ Cardinality(EntriesOf(s)) = 1
          /\ \A i \in EntriesOf(s) : claimed[i].ID = lease[s]
          /\ spc' = [spc EXCEPT ![s] = "verified"]
          /\ UNCHANGED asserted
       \/ /\ \/ Cardinality(EntriesOf(s)) # 1
             \/ \E i \in EntriesOf(s) : claimed[i].ID # lease[s]
          /\ Abort("BoundIDFromShard")
          /\ spc' = [spc EXCEPT ![s] = "dead"]
    /\ UNCHANGED <<docVars, ping, replicas, mainVars, healthVars, lease, crashes>>

ShardCrash(s) ==
    /\ Running(s)
    /\ crashes < MaxShardCrashes
    /\ crashes' = crashes + 1
    /\ spc' = [spc EXCEPT ![s] = "dead"]
    /\ UNCHANGED <<docVars, ping, replicas, mainVars, healthVars, lease, asserted>>

-----------------------------------------------------------------------------
WatchdogMain ==
    \/ WatchdogStart
    \/ PushHeuristicType
    \/ PushHeuristicData
    \/ GetPendingBoundsCount
    \/ GetClaimedBoundsCount
    \/ CompareCounts
    \/ \E b \in Bounds : InsertPendingCheck(b)
    \/ InsertPendingAppend
    \/ StoreDone
    \/ SetShardCount

HealthCheck ==
    \/ GetExpiredPings
    \/ \E s \in Ids : RequeueClaimedBound(s)
    \/ RemovePing

Leaser(s) ==
    \/ ClaimNextPendingBound(s)
    \/ GetClaimedBound(s)
    \/ BoundIDFromShard(s)

Next ==
    \/ WatchdogMain
    \/ WatchdogCrash
    \/ HealthCheck
    \/ \E s \in Ids :
          \/ ShardStart(s)
          \/ HealthUpdate(s)
          \/ PingExpires(s)
          \/ Leaser(s)
          \/ ShardCrash(s)

Spec == Init /\ [][Next]_vars

\* Docker restarts replicas, every thread's loop is only slowed by a sleep: no
\* step that stays enabled waits for ever.  Crashes and clock steps are not fair.
Fairness ==
    /\ WF_vars(WatchdogMain)
    /\ WF_vars(GetExpiredPings)
    /\ \A s \in Ids : WF_vars(RequeueClaimedBound(s))
    /\ WF_vars(RemovePing)
    /\ \A s \in Ids : WF_vars(Leaser(s)) /\ WF_vars(HealthUpdate(s))
    /\ WF_vars(\E s \in Ids : ShardStart(s))

FairSpec == Spec /\ Fairness

-----------------------------------------------------------------------------
(* Invariants. *)

\* Every variable stays in its type.
TypeOK ==
    /\ heuristic \in {"none", "typed", "pushed"}
    /\ pendingType \in {"missing", "array"}
    /\ pending \in Seq(Bounds)
    /\ claimed \in Seq(Entries)
    /\ claimedHash \in [Ids -> Bounds \cup {NoBound}]
    /\ pendingHash \in SUBSET Bounds
    /\ ping \in [Ids -> {"absent", "fresh", "expired"}]
    /\ replicas \in {0, Cardinality(Bounds)}
    /\ wpc \in WatchdogPCs
    /\ known \in Nat
    /\ todo \in SUBSET Bounds
    /\ inserting \in Bounds \cup {NoBound}
    /\ starts \in 0..MaxWatchdogStarts
    /\ expiredPings \in SUBSET Ids
    /\ failing \in Ids \cup {NoId}
    /\ spc \in [Ids -> ShardPCs]
    /\ lease \in [Ids -> Bounds \cup {NoBound}]
    /\ crashes \in 0..MaxShardCrashes
    /\ asserted \in SUBSET Asserts

\* The Pending array never lists a bound twice, whatever the WatchDog's restarts
\* and the shards' pops do between the check and the append of an insert.
PendingUnique ==
    \A i, j \in 1..Len(pending) : pending[i] = pending[j] => i = j

\* A shard identity owns at most one Claimed entry, the ASSERT "This should
\* never occur" of BoundIDFromShard.
OneClaimPerShard ==
    \A i, j \in 1..Len(claimed) : claimed[i].owner = claimed[j].owner => i = j

\* A shard that has a bound in memory is the recorded owner of that bound:
\* what BoundLeaser serves to the entity ledger is what the manifest tells the
\* proxies.
HolderIsRecorded ==
    \A s \in Ids : spc[s] \in {"leased", "bound", "verified"} =>
        \E i \in 1..Len(claimed) : claimed[i] = [ID |-> lease[s], owner |-> s]

\* Pending and Claimed are consistent with each other's use, through restarts, crashes
\* and late health checks: the check and the append of an insert, the pop and the
\* append of a claim, and what a shard then believes never come apart.
ClaimsConsistent == PendingUnique /\ OneClaimPerShard /\ HolderIsRecorded

\* As long as the WatchDog has started only once, a bound has one owner and no
\* claimed bound is pending again, so no two shards serve the same region.
ExclusiveLease ==
    starts <= 1 =>
        /\ \A i, j \in 1..Len(claimed) : claimed[i].ID = claimed[j].ID => i = j
        /\ \A i \in 1..Len(pending), j \in 1..Len(claimed) : pending[i] # claimed[j].ID

\* No shard process runs before every bound has been stored: Docker is asked for
\* replicas after StorePendingBoundsFromByteWriters, so the claim script always
\* finds its array and no bound of the heuristic is missing from the document.
ShardsFindAllBounds ==
    RunningShards # {} =>
        /\ pendingType = "array"
        /\ heuristic = "pushed"
        /\ \A b \in Bounds : HasPending(b) \/ HasClaim(b)

\* One replica per bound: a shard is refused a bound (and aborts) only after some
\* shard has died with its bound.
EnoughBounds ==
    "ClaimBoundNull" \in asserted => crashes > 0

\* Both: a shard that starts finds all bounds stored, and while no shard has died there is
\* one for it (the WatchDog's order of storing bounds and asking Docker for replicas).
ShardsFindBounds == ShardsFindAllBounds /\ EnoughBounds

-----------------------------------------------------------------------------
(* Liveness. *)

\* Without crashes every bound ends up served by a running shard that has
\* verified its claim, and stays so.
AllBoundsServed ==
    <>[](\A b \in Bounds : \E s \in Ids : spc[s] = "verified" /\ lease[s] = b)

-----------------------------------------------------------------------------
(* What an ASSERT of the code says, and the code does not do. *)

\* The ASSERT of Internal_PullClaimedBound: "This should never occur".
OneOwnerPerBound ==
    \A i, j \in 1..Len(claimed) : claimed[i].ID = claimed[j].ID => i = j
=============================================================================
