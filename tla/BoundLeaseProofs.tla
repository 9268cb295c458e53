-------------------------- MODULE BoundLeaseProofs --------------------------
(***************************************************************************)
(* Theorems about BoundLease for every set of bounds, every set of shard   *)
(* identities and every number of restarts and crashes.                    *)
(***************************************************************************)
EXTENDS BoundLease, TLAPS, FiniteSetTheorems, SequenceTheorems

-----------------------------------------------------------------------------
(* Type correctness. *)

\* Every variable of the lease protocol keeps its type, whatever the WatchDog,
\* its health check thread, the shards and their crashes do.
THEOREM TypeCorrect == Spec => []TypeOK
<1>1. Init => TypeOK
  BY BoundsAssumption, IdsAssumption, LimitsAssumption
     DEF Init, TypeOK, WatchdogPCs, ShardPCs
<1>2. TypeOK /\ [Next]_vars => TypeOK'
  <2> SUFFICES ASSUME TypeOK, [Next]_vars
               PROVE  TypeOK'
    OBVIOUS
  <2> USE DEF TypeOK, docVars, mainVars, healthVars, shardVars
  <2>1. CASE WatchdogStart
    BY <2>1, LimitsAssumption DEF WatchdogStart, WatchdogPCs
  <2>2. CASE PushHeuristicType \/ PushHeuristicData
    BY <2>2 DEF PushHeuristicType, PushHeuristicData, WatchdogPCs
  <2>3. CASE GetPendingBoundsCount \/ GetClaimedBoundsCount
    BY <2>3 DEF GetPendingBoundsCount, GetClaimedBoundsCount, CountOf, WatchdogPCs
  <2>4. CASE CompareCounts
    BY <2>4 DEF CompareCounts, WatchdogPCs
  <2>5. ASSUME NEW b \in Bounds, InsertPendingCheck(b)
        PROVE  TypeOK'
    <3>1. CASE HasPending(b)
      <4>1. StopWatchdog /\ Abort("InsertPendingBound")
        BY <2>5, <3>1 DEF InsertPendingCheck
      <4>2. asserted' \in SUBSET Asserts
        BY <4>1 DEF Abort, Asserts
      <4> QED
        BY <2>5, <4>1, <4>2 DEF InsertPendingCheck, StopWatchdog, WatchdogPCs
    <3>2. CASE ~HasPending(b)
      BY <2>5, <3>2 DEF InsertPendingCheck
    <3> QED
      BY <3>1, <3>2
  <2>6. CASE InsertPendingAppend
    BY <2>6 DEF InsertPendingAppend
  <2>7. CASE StoreDone \/ SetShardCount
    BY <2>7 DEF StoreDone, SetShardCount, WantedReplicas, WatchdogPCs
  <2>8. CASE WatchdogCrash
    BY <2>8 DEF WatchdogCrash, StopWatchdog, WatchdogPCs
  <2>9. CASE GetExpiredPings
    BY <2>9 DEF GetExpiredPings
  <2>10. ASSUME NEW s \in Ids, RequeueClaimedBound(s)
         PROVE  TypeOK'
    BY <2>10 DEF RequeueClaimedBound
  <2>11. CASE RemovePing
    BY <2>11 DEF RemovePing
  <2>12. ASSUME NEW s \in Ids, ShardStart(s) \/ HealthUpdate(s) \/ PingExpires(s)
                               \/ GetClaimedBound(s) \/ ShardCrash(s)
         PROVE  TypeOK'
    BY <2>12, LimitsAssumption
       DEF ShardStart, HealthUpdate, PingExpires, GetClaimedBound, ShardCrash, ShardPCs
  <2>13. ASSUME NEW s \in Ids, ClaimNextPendingBound(s)
         PROVE  TypeOK'
    <3>1. CASE pendingType = "array" /\ pending # <<>>
      <4>1. Head(pending) \in Bounds /\ Tail(pending) \in Seq(Bounds)
        BY <3>1, HeadTailProperties
      <4>2. [ID |-> Head(pending), owner |-> s] \in Entries
        BY <4>1 DEF Entries
      <4>3. Append(claimed, [ID |-> Head(pending), owner |-> s]) \in Seq(Entries)
        BY <4>2, AppendProperties
      <4>4. pending' \in Seq(Bounds) /\ claimed' \in Seq(Entries)
        BY <2>13, <3>1, <4>1, <4>3 DEF ClaimNextPendingBound, PoppedPending
      <4>5. spc' \in [Ids -> ShardPCs] /\ lease' \in [Ids -> Bounds \cup {NoBound}]
        <5>1. lease' = [lease EXCEPT ![s] = Head(pending)] /\ spc' = [spc EXCEPT ![s] = "leased"]
          BY <2>13, <3>1 DEF ClaimNextPendingBound
        <5>2. spc \in [Ids -> ShardPCs] /\ lease \in [Ids -> Bounds \cup {NoBound}]
          OBVIOUS
        <5>3. "leased" \in ShardPCs /\ Head(pending) \in Bounds \cup {NoBound}
          BY <4>1 DEF ShardPCs
        <5> QED
          BY ONLY <5>1, <5>2, <5>3
      <4> QED
        BY <2>13, <3>1, <4>4, <4>5 DEF ClaimNextPendingBound
    <3>2. CASE ~(pendingType = "array" /\ pending # <<>>)
      BY <2>13, <3>2 DEF ClaimNextPendingBound, Abort, Asserts, ShardPCs
    <3> QED
      BY <3>1, <3>2
  <2>14. ASSUME NEW s \in Ids, BoundIDFromShard(s)
         PROVE  TypeOK'
    BY <2>14 DEF BoundIDFromShard, Abort, Asserts, ShardPCs
  <2>15. CASE UNCHANGED vars
    BY <2>15 DEF vars
  <2> QED
    BY <2>1, <2>2, <2>3, <2>4, <2>5, <2>6, <2>7, <2>8, <2>9, <2>10, <2>11, <2>12,
       <2>13, <2>14, <2>15
       DEF Next, WatchdogMain, HealthCheck, Leaser
<1> QED
  BY <1>1, <1>2, PTL DEF Spec

-----------------------------------------------------------------------------
(* The inductive invariant. *)

\* ComputeHeuristic is past this point only in a store loop, and the bound
\* between its check and its append is still not pending: only the WatchDog
\* appends.
InsertInv ==
    /\ known = 0
    /\ todo # {} => wpc = "store"
    /\ inserting # NoBound => /\ wpc = "store"
                              /\ inserting \notin todo
                              /\ ~HasPending(inserting)

\* The owner of an entry has left the loop that claims.
OwnersInv ==
    \A i \in 1..Len(claimed) : spc[claimed[i].owner] \notin {"unused", "looping"}

\* During the first start nothing has been stored before the store loop, and
\* what the loop has still to insert is neither pending nor claimed.
FirstStartInv ==
    starts <= 1 =>
        /\ starts = 0 => wpc = "down" /\ pending = <<>> /\ claimed = <<>>
        /\ wpc \in {"init", "typed", "count", "count2", "compare"} =>
              pending = <<>> /\ claimed = <<>>
        /\ \A b \in todo : ~HasPending(b) /\ ~HasClaim(b)
        /\ inserting # NoBound => ~HasClaim(inserting)

\* Every bound is in the document once the store loop has ended, and replicas
\* are asked for only then.
Stored == \A b \in Bounds : HasPending(b) \/ HasClaim(b)
StoredInv ==
    /\ \A s \in Ids : Running(s) => replicas # 0
    /\ wpc \in {"count", "count2", "compare", "store", "scale", "run"} => heuristic = "pushed"
    /\ wpc = "store" => \A b \in Bounds :
          b \in todo \/ (pendingType = "array" /\ (b = inserting \/ HasPending(b) \/ HasClaim(b)))
    /\ replicas # 0 \/ wpc \in {"scale", "run"} =>
          pendingType = "array" /\ heuristic = "pushed" /\ Stored

LeaseInv ==
    /\ PendingUnique
    /\ OneClaimPerShard
    /\ HolderIsRecorded
    /\ ExclusiveLease
    /\ InsertInv
    /\ OwnersInv
    /\ FirstStartInv
    /\ StoredInv

\* The empty document and the processes that have not started satisfy it.
LEMMA LeaseInvInit == Init => LeaseInv
BY DEF Init, LeaseInv, PendingUnique, OneClaimPerShard, HolderIsRecorded, ExclusiveLease,
       InsertInv, OwnersInv, FirstStartInv, StoredInv, HasPending, HasClaim, Running

\* A step that changes neither the two arrays nor the shards nor the store loop
\* preserves it.
LEMMA LeaseInvFrame ==
    ASSUME TypeOK, LeaseInv,
           UNCHANGED <<heuristic, pendingType, pending, claimed, replicas,
                       mainVars, spc, lease>>
    PROVE  LeaseInv'
<1>1. PendingUnique' /\ OneClaimPerShard' /\ HolderIsRecorded'
  BY DEF LeaseInv, PendingUnique, OneClaimPerShard, HolderIsRecorded
<1>2. ExclusiveLease' /\ InsertInv'
  BY DEF LeaseInv, ExclusiveLease, InsertInv, HasPending, HasClaim, mainVars
<1>3. OwnersInv'
  BY DEF LeaseInv, OwnersInv
<1>4. FirstStartInv' /\ StoredInv'
  BY DEF LeaseInv, FirstStartInv, StoredInv, Stored, HasPending, HasClaim, Running, mainVars
<1> QED
  BY <1>1, <1>2, <1>3, <1>4 DEF LeaseInv

\* The main thread's steps up to the store loop, and its end.
LEMMA LeaseInvMain ==
    ASSUME TypeOK, LeaseInv,
           \/ WatchdogStart \/ PushHeuristicType \/ PushHeuristicData
           \/ GetPendingBoundsCount \/ GetClaimedBoundsCount \/ CompareCounts
           \/ StoreDone \/ SetShardCount \/ WatchdogCrash
    PROVE  LeaseInv'
<1> USE DEF LeaseInv, TypeOK, docVars, mainVars, shardVars, healthVars
<1>1. Cardinality(Bounds) \in Nat /\ Cardinality(Bounds) # 0
  BY BoundsAssumption, FS_CardinalityType, FS_EmptySet
<1>2. UNCHANGED <<pending, claimed, spc, lease>>
  BY DEF WatchdogStart, PushHeuristicType, PushHeuristicData, GetPendingBoundsCount,
         GetClaimedBoundsCount, CompareCounts, StoreDone, SetShardCount, WatchdogCrash
<1>3. PendingUnique' /\ OneClaimPerShard' /\ HolderIsRecorded' /\ OwnersInv'
  <2>1. PendingUnique' /\ OneClaimPerShard'
    BY <1>2 DEF PendingUnique, OneClaimPerShard
  <2>2. HolderIsRecorded'
    BY <1>2 DEF HolderIsRecorded
  <2>3. OwnersInv'
    BY <1>2 DEF OwnersInv
  <2> QED
    BY <2>1, <2>2, <2>3
<1>4. (\A b : HasPending(b)' <=> HasPending(b)) /\ (\A b : HasClaim(b)' <=> HasClaim(b))
  BY <1>2 DEF HasPending, HasClaim
<1>5. ASSUME starts' = starts PROVE ExclusiveLease'
  BY <1>2, <1>5 DEF ExclusiveLease
<1>6. (Stored' <=> Stored) /\ \A s \in Ids : Running(s)' <=> Running(s)
  BY <1>2, <1>4 DEF Stored, Running
<1>7. CASE WatchdogStart
  <2>1. ExclusiveLease'
    BY <1>2, <1>7 DEF WatchdogStart, ExclusiveLease, FirstStartInv
  <2>2. InsertInv' /\ FirstStartInv' /\ StoredInv'
    BY <1>2, <1>4, <1>6, <1>7 DEF WatchdogStart, InsertInv, FirstStartInv, StoredInv
  <2> QED
    BY <1>3, <2>1, <2>2
<1>8. CASE PushHeuristicType \/ PushHeuristicData \/ GetPendingBoundsCount
           \/ GetClaimedBoundsCount
  BY <1>2, <1>3, <1>4, <1>5, <1>6, <1>8
     DEF PushHeuristicType, PushHeuristicData, GetPendingBoundsCount,
         GetClaimedBoundsCount, CountOf, InsertInv, FirstStartInv, StoredInv
<1>9. CASE CompareCounts
  <2>1. wpc = "compare" /\ wpc' = "store" /\ todo' = Bounds /\ inserting = NoBound
    BY <1>1, <1>9 DEF CompareCounts, InsertInv
  <2>2. InsertInv' /\ FirstStartInv' /\ StoredInv'
    BY <1>2, <1>4, <1>6, <1>9, <2>1
       DEF CompareCounts, InsertInv, FirstStartInv, StoredInv, HasPending, HasClaim
  <2> QED
    BY <1>3, <1>5, <1>9, <2>2 DEF CompareCounts
<1>10. CASE StoreDone
  <2>1. StoredInv'
    BY <1>4, <1>6, <1>10, BoundsAssumption DEF StoreDone, StoredInv, Stored
  <2>2. InsertInv' /\ FirstStartInv'
    BY <1>2, <1>4, <1>10 DEF StoreDone, InsertInv, FirstStartInv
  <2> QED
    BY <1>3, <1>5, <1>10, <2>1, <2>2 DEF StoreDone
<1>11. CASE SetShardCount
  BY <1>1, <1>2, <1>3, <1>4, <1>5, <1>6, <1>11
     DEF SetShardCount, WantedReplicas, InsertInv, FirstStartInv, StoredInv
<1>12. CASE WatchdogCrash
  <2>1. InsertInv' /\ FirstStartInv' /\ StoredInv'
    BY <1>2, <1>4, <1>6, <1>12
       DEF WatchdogCrash, StopWatchdog, InsertInv, FirstStartInv, StoredInv
  <2> QED
    BY <1>3, <1>5, <1>12, <2>1 DEF WatchdogCrash
<1> QED
  BY <1>7, <1>8, <1>9, <1>10, <1>11, <1>12

\* Internal_InsertPendingBound: the check and the append, between which shards
\* may pop any number of pending bounds.
LEMMA LeaseInvInsert ==
    ASSUME TypeOK, LeaseInv,
           (\E b \in Bounds : InsertPendingCheck(b)) \/ InsertPendingAppend
    PROVE  LeaseInv'
<1> USE DEF LeaseInv, TypeOK, docVars, mainVars, shardVars, healthVars
<1>1. UNCHANGED <<claimed, spc, lease, starts, replicas, heuristic>>
  BY DEF InsertPendingCheck, InsertPendingAppend
<1>2. OneClaimPerShard' /\ HolderIsRecorded' /\ OwnersInv'
  BY <1>1 DEF OneClaimPerShard, HolderIsRecorded, OwnersInv
<1>3. (\A b : HasClaim(b)' <=> HasClaim(b)) /\ \A s \in Ids : Running(s)' <=> Running(s)
  BY <1>1 DEF HasClaim, Running
<1>4. ASSUME NEW b \in Bounds, InsertPendingCheck(b)
      PROVE  LeaseInv'
  <2>1. UNCHANGED pending /\ wpc = "store" /\ pendingType' = "array"
    BY <1>4 DEF InsertPendingCheck
  <2>2. \A c : HasPending(c)' <=> HasPending(c)
    BY <2>1 DEF HasPending
  <2>3. PendingUnique' /\ ExclusiveLease' /\ (Stored' <=> Stored)
    BY <1>1, <1>3, <2>1, <2>2 DEF PendingUnique, ExclusiveLease, Stored
  <2>4. CASE HasPending(b)
    <3>1. StopWatchdog
      BY <1>4, <2>4 DEF InsertPendingCheck
    <3>2. InsertInv' /\ FirstStartInv' /\ StoredInv'
      BY <1>1, <1>3, <2>1, <2>2, <2>3, <3>1
         DEF StopWatchdog, InsertInv, FirstStartInv, StoredInv
    <3> QED
      BY <1>2, <2>3, <3>2
  <2>5. CASE ~HasPending(b)
    <3>1. inserting = NoBound /\ b \in todo /\ inserting' = b /\ todo' = todo \ {b} /\ wpc' = wpc
          /\ known' = known
      BY <1>4, <2>5 DEF InsertPendingCheck
    <3>2. InsertInv' /\ FirstStartInv'
      BY <1>1, <1>3, <2>1, <2>2, <2>5, <3>1 DEF InsertInv, FirstStartInv
    <3>3. \A c \in Bounds : c \in todo' \/ c = inserting' \/ HasPending(c)' \/ HasClaim(c)'
      BY <1>3, <2>1, <2>2, <3>1, BoundsAssumption DEF StoredInv
    <3>4. StoredInv'
      BY <1>1, <1>3, <2>1, <2>3, <3>1, <3>3 DEF StoredInv
    <3> QED
      BY <1>2, <2>3, <3>2, <3>4
  <2> QED
    BY <2>4, <2>5
<1>5. CASE InsertPendingAppend
  <2>1. /\ pending' = Append(pending, inserting) /\ inserting \in Bounds /\ inserting' = NoBound
        /\ wpc = "store" /\ ~HasPending(inserting)
        /\ UNCHANGED <<wpc, todo, known, pendingType>>
    BY <1>5 DEF InsertPendingAppend, InsertInv
  <2>2. /\ Len(pending') = Len(pending) + 1 /\ Len(pending) \in Nat
        /\ \A i \in 1..Len(pending) : pending'[i] = pending[i]
        /\ pending'[Len(pending) + 1] = inserting
    BY <2>1, AppendProperties, LenProperties
  <2>3. \A c : HasPending(c)' <=> HasPending(c) \/ c = inserting
    <3> SUFFICES ASSUME NEW c
                 PROVE  HasPending(c)' <=> HasPending(c) \/ c = inserting
      OBVIOUS
    <3>1. Len(pending) + 1 \in 1..Len(pending') /\ 1..Len(pending) \subseteq 1..Len(pending')
          /\ \A i \in 1..Len(pending') : i \in 1..Len(pending) \/ i = Len(pending) + 1
      BY <2>2
    <3> QED
      BY <2>2, <3>1 DEF HasPending
  <2>4. PendingUnique'
    BY <2>1, <2>2 DEF PendingUnique, HasPending
  <2>5. ExclusiveLease'
    <3> SUFFICES ASSUME starts <= 1 PROVE ExclusiveLease'
      BY <1>1 DEF ExclusiveLease
    <3>1. \A j \in 1..Len(claimed) : claimed[j].ID # inserting
      BY <2>1, BoundsAssumption DEF FirstStartInv, HasClaim
    <3>2. \A i \in 1..Len(pending') : pending'[i] = inserting \/ (i \in 1..Len(pending) /\ pending'[i] = pending[i])
      BY <2>2
    <3> QED
      BY <1>1, <3>1, <3>2 DEF ExclusiveLease
  <2>6. InsertInv' /\ FirstStartInv'
    BY <1>1, <1>3, <2>1, <2>3, BoundsAssumption DEF InsertInv, FirstStartInv
  <2>7. StoredInv'
    BY <1>1, <1>3, <2>1, <2>3 DEF StoredInv, Stored
  <2> QED
    BY <1>2, <2>4, <2>5, <2>6, <2>7
<1> QED
  BY <1>4, <1>5

\* ClaimNextPendingBound: one script moves the oldest pending bound to Claimed.
LEMMA LeaseInvClaim ==
    ASSUME TypeOK, LeaseInv, NEW s \in Ids, ClaimNextPendingBound(s)
    PROVE  LeaseInv'
<1> USE DEF docVars, mainVars, shardVars, healthVars
<1>t. /\ pending \in Seq(Bounds) /\ claimed \in Seq(Entries) /\ spc \in [Ids -> ShardPCs]
      /\ lease \in [Ids -> Bounds \cup {NoBound}]
      /\ \A i \in 1..Len(claimed) : claimed[i] \in Entries
  BY DEF TypeOK
<1>i. /\ PendingUnique /\ OneClaimPerShard /\ HolderIsRecorded /\ ExclusiveLease
      /\ InsertInv /\ OwnersInv /\ FirstStartInv /\ StoredInv
  BY DEF LeaseInv
<1>1. CASE pendingType = "array" /\ pending # <<>>
  <2> DEFINE e == [ID |-> Head(pending), owner |-> s]
  <2>1. /\ claimed' = Append(claimed, e) /\ pending' = Tail(pending)
        /\ lease' = [lease EXCEPT ![s] = Head(pending)]
        /\ spc' = [spc EXCEPT ![s] = "leased"] /\ spc[s] = "looping"
        /\ UNCHANGED <<heuristic, pendingType, replicas, mainVars>>
    BY <1>1 DEF ClaimNextPendingBound, PoppedPending, NeedsBound
  <2>2. /\ Head(pending) = pending[1] /\ Head(pending) \in Bounds
        /\ Len(pending) \in Nat /\ Len(pending) > 0 /\ Len(pending') = Len(pending) - 1
        /\ \A i \in 1..Len(pending') : pending'[i] = pending[i + 1]
    BY <1>1, <1>t, <2>1, HeadTailProperties, EmptySeq
  <2>3. /\ Len(claimed') = Len(claimed) + 1 /\ Len(claimed) \in Nat
        /\ \A i \in 1..Len(claimed) : claimed'[i] = claimed[i]
        /\ claimed'[Len(claimed) + 1] = e
    <3>1. e \in Entries
      BY <2>2 DEF Entries
    <3> QED
      BY <1>t, <2>1, <3>1, AppendProperties, LenProperties
  <2>4. /\ \A i \in 1..Len(claimed) : claimed[i].owner # s
        /\ \A i \in 1..Len(claimed) : claimed[i].owner \in Ids
    BY <1>t, <1>i, <2>1 DEF OwnersInv, Entries
  <2>5. \A b : HasClaim(b)' <=> HasClaim(b) \/ b = Head(pending)
    <3> SUFFICES ASSUME NEW b
                 PROVE  HasClaim(b)' <=> HasClaim(b) \/ b = Head(pending)
      OBVIOUS
    <3>1. /\ Len(claimed) + 1 \in 1..Len(claimed') /\ 1..Len(claimed) \subseteq 1..Len(claimed')
          /\ \A i \in 1..Len(claimed') : i \in 1..Len(claimed) \/ i = Len(claimed) + 1
          /\ claimed'[Len(claimed) + 1].ID = Head(pending)
      BY <2>3
    <3> QED
      BY <2>3, <3>1 DEF HasClaim
  <2>6. \A i \in 1..Len(pending) : i = 1 \/ (i - 1 \in 1..Len(pending') /\ pending'[i - 1] = pending[i])
    BY <2>2
  <2>7. /\ \A b : HasPending(b) => HasPending(b)' \/ b = Head(pending)
        /\ \A b : HasPending(b)' => HasPending(b)
    <3>1. ASSUME NEW b, HasPending(b), b # Head(pending) PROVE HasPending(b)'
      BY <2>2, <2>6, <3>1 DEF HasPending
    <3>2. \A i \in 1..Len(pending') : i + 1 \in 1..Len(pending) /\ pending[i + 1] = pending'[i]
      BY <2>2
    <3>3. ASSUME NEW b, HasPending(b)' PROVE HasPending(b)
      BY <3>2, <3>3 DEF HasPending
    <3> QED
      BY <3>1, <3>3
  <2>8. PendingUnique'
    BY <1>i, <2>2 DEF PendingUnique
  <2>9. OneClaimPerShard' /\ OwnersInv'
    <3>1. OneClaimPerShard'
      <4>1. \A i \in 1..Len(claimed') : \/ i \in 1..Len(claimed) /\ claimed'[i].owner = claimed[i].owner
                                        \/ i = Len(claimed) + 1 /\ claimed'[i].owner = s
        BY <2>3
      <4> QED
        BY <1>i, <2>4, <4>1 DEF OneClaimPerShard
    <3>2. OwnersInv'
      BY <1>t, <1>i, <2>1, <2>3, <2>4 DEF OwnersInv
    <3> QED
      BY <3>1, <3>2
  <2>10. HolderIsRecorded'
    BY <1>t, <1>i, <2>1, <2>3 DEF HolderIsRecorded
  <2>11. ExclusiveLease'
    <3> SUFFICES ASSUME starts <= 1 PROVE ExclusiveLease'
      BY <2>1 DEF ExclusiveLease
    <3>1. \A j \in 1..Len(claimed) : claimed[j].ID # Head(pending)
      BY <1>i, <2>2 DEF ExclusiveLease
    <3>2. \A i \in 1..Len(pending') : pending'[i] # Head(pending)
      BY <1>i, <2>2 DEF PendingUnique
    <3>3. \A i \in 1..Len(pending'), j \in 1..Len(claimed) : pending'[i] # claimed[j].ID
      BY <1>i, <2>2 DEF ExclusiveLease
    <3>4. \A i \in 1..Len(claimed') : \/ i \in 1..Len(claimed) /\ claimed'[i].ID = claimed[i].ID
                                      \/ i = Len(claimed) + 1 /\ claimed'[i].ID = Head(pending)
      BY <2>3
    <3>5. \A i, j \in 1..Len(claimed) : claimed[i].ID = claimed[j].ID => i = j
      BY <1>i DEF ExclusiveLease
    <3>6. \A i, j \in 1..Len(claimed') : claimed'[i].ID = claimed'[j].ID => i = j
      BY <3>1, <3>4, <3>5
    <3>7. \A i \in 1..Len(pending'), j \in 1..Len(claimed') : pending'[i] # claimed'[j].ID
      BY <3>2, <3>3, <3>4
    <3> QED
      BY <3>6, <3>7 DEF ExclusiveLease
  <2>12. InsertInv'
    BY <1>i, <2>1, <2>7 DEF InsertInv
  <2>13. HasPending(Head(pending))
    BY <2>2 DEF HasPending
  <2>14. FirstStartInv'
    BY <1>i, <1>1, <2>1, <2>5, <2>7, <2>13 DEF FirstStartInv, InsertInv
  <2>15. StoredInv'
    <3>1. replicas # 0
      BY <1>i, <2>1 DEF StoredInv, Running
    <3>2. \A b \in Bounds : HasPending(b) \/ HasClaim(b) => HasPending(b)' \/ HasClaim(b)'
      BY <2>5, <2>7
    <3>3. Stored'
      BY <1>i, <3>1, <3>2 DEF StoredInv, Stored
    <3> QED
      <4>1. \A t \in Ids : Running(t)' => replicas' # 0
        BY <2>1, <3>1
      <4> QED
        BY <1>i, <2>1, <3>1, <3>2, <3>3, <4>1 DEF StoredInv
  <2> QED
    BY <2>8, <2>9, <2>10, <2>11, <2>12, <2>14, <2>15 DEF LeaseInv
<1>2. CASE ~(pendingType = "array" /\ pending # <<>>)
  <2>1. /\ spc' = [spc EXCEPT ![s] = "dead"]
        /\ UNCHANGED <<heuristic, pendingType, pending, claimed, replicas, mainVars, lease>>
    BY <1>2 DEF ClaimNextPendingBound
  <2>2. PendingUnique' /\ OneClaimPerShard' /\ ExclusiveLease' /\ InsertInv' /\ FirstStartInv'
    BY <1>i, <2>1 DEF PendingUnique, OneClaimPerShard, ExclusiveLease, InsertInv,
                      FirstStartInv, HasPending, HasClaim
  <2>3. HolderIsRecorded' /\ OwnersInv'
    BY <1>t, <1>i, <2>1 DEF HolderIsRecorded, OwnersInv, Entries
  <2>4. StoredInv'
    BY <1>t, <1>i, <2>1 DEF StoredInv, Stored, HasPending, HasClaim, Running
  <2> QED
    BY <2>2, <2>3, <2>4 DEF LeaseInv
<1> QED
  BY <1>1, <1>2

\* The shards' other steps move one program counter.
LEMMA LeaseInvShard ==
    ASSUME TypeOK, LeaseInv, NEW s \in Ids,
           ShardStart(s) \/ GetClaimedBound(s) \/ BoundIDFromShard(s) \/ ShardCrash(s)
    PROVE  LeaseInv'
<1> USE DEF LeaseInv, TypeOK, docVars, mainVars, shardVars, healthVars
<1>1. UNCHANGED <<heuristic, pendingType, pending, claimed, replicas, mainVars, lease>>
  BY DEF ShardStart, GetClaimedBound, BoundIDFromShard, ShardCrash
<1>2. PendingUnique' /\ OneClaimPerShard' /\ ExclusiveLease' /\ InsertInv' /\ FirstStartInv'
  BY <1>1 DEF PendingUnique, OneClaimPerShard, ExclusiveLease, InsertInv, FirstStartInv,
              HasPending, HasClaim
<1>3. Stored' <=> Stored
  BY <1>1 DEF Stored, HasPending, HasClaim
<1>4. \A b : (HasPending(b)' <=> HasPending(b)) /\ (HasClaim(b)' <=> HasClaim(b))
  BY <1>1 DEF HasPending, HasClaim
<1>5. CASE ShardStart(s)
  <2>1. Cardinality(RunningShards) \in Nat
    <3>1. RunningShards \subseteq Ids
      BY DEF RunningShards
    <3> QED
      BY <3>1, IdsAssumption, FS_Subset, FS_CardinalityType
  <2>2. Cardinality(Bounds) \in Nat
    BY BoundsAssumption, FS_CardinalityType
  <2>3. replicas # 0 /\ spc[s] = "unused" /\ spc' = [spc EXCEPT ![s] = "looping"]
    BY <1>5, <2>1, <2>2 DEF ShardStart
  <2>4. HolderIsRecorded' /\ OwnersInv'
    BY <1>1, <2>3 DEF HolderIsRecorded, OwnersInv, Entries
  <2>5. StoredInv'
    BY <1>1, <1>3, <1>4, <2>3 DEF StoredInv
  <2> QED
    BY <1>2, <2>4, <2>5
<1>6. CASE GetClaimedBound(s) \/ BoundIDFromShard(s) \/ ShardCrash(s)
  <2>1. \/ spc[s] \in {"leased", "bound"} /\ spc' = [spc EXCEPT ![s] = "bound"]
        \/ spc[s] = "bound" /\ spc' = [spc EXCEPT ![s] = "verified"]
        \/ Running(s) /\ spc' = [spc EXCEPT ![s] = "dead"]
    BY <1>6 DEF GetClaimedBound, BoundIDFromShard, ShardCrash, Running
  <2>2. HolderIsRecorded' /\ OwnersInv'
    <3>1. \A i \in 1..Len(claimed) : claimed[i].owner \in Ids
      <4>1. \A i \in 1..Len(claimed) : claimed[i] \in Entries
        OBVIOUS
      <4> QED
        BY <4>1 DEF Entries
    <3>2. \A t \in Ids : /\ spc'[t] \in {"unused", "looping"} => spc[t] \in {"unused", "looping"}
                         /\ spc'[t] \in {"leased", "bound", "verified"} =>
                               spc[t] \in {"leased", "bound", "verified"}
      BY <2>1
    <3>3. OwnersInv'
      BY <1>1, <3>1, <3>2 DEF OwnersInv
    <3>4. HolderIsRecorded'
      BY <1>1, <3>2 DEF HolderIsRecorded
    <3> QED
      BY <3>3, <3>4
  <2>3. \A t \in Ids : Running(t)' => Running(t)
    BY <2>1 DEF Running
  <2>4. StoredInv'
    BY <1>1, <1>3, <1>4, <2>3 DEF StoredInv
  <2> QED
    BY <1>2, <2>2, <2>4
<1> QED
  BY <1>5, <1>6

\* The lease invariant holds in every reachable state.
THEOREM LeaseInvariant == Spec => []LeaseInv
<1>1. TypeOK /\ LeaseInv /\ [Next]_vars => LeaseInv'
  <2> SUFFICES ASSUME TypeOK, LeaseInv, [Next]_vars
               PROVE  LeaseInv'
    OBVIOUS
  <2>1. CASE WatchdogMain \/ WatchdogCrash
    BY <2>1, LeaseInvMain, LeaseInvInsert DEF WatchdogMain
  <2>2. CASE HealthCheck
    BY <2>2, LeaseInvFrame
       DEF HealthCheck, GetExpiredPings, RequeueClaimedBound, RemovePing, docVars, shardVars
  <2>3. ASSUME NEW s \in Ids, HealthUpdate(s) \/ PingExpires(s)
        PROVE  LeaseInv'
    BY <2>3, LeaseInvFrame DEF HealthUpdate, PingExpires, docVars, shardVars
  <2>4. CASE UNCHANGED vars
    BY <2>4, LeaseInvFrame DEF vars, docVars, shardVars
  <2> QED
    BY <2>1, <2>2, <2>3, <2>4, LeaseInvClaim, LeaseInvShard DEF Next, Leaser
<1> QED
  BY <1>1, LeaseInvInit, TypeCorrect, PTL DEF Spec

-----------------------------------------------------------------------------
(* The properties the runs check. *)

\* Before the WatchDog is restarted, no two shards hold the same bound and no
\* claimed bound is pending.
THEOREM LeasesExclusive == Spec => []ExclusiveLease
BY LeaseInvariant, PTL DEF LeaseInv

\* The Pending array lists no bound twice, restarts of the WatchDog included.
THEOREM PendingStaysUnique == Spec => []PendingUnique
BY LeaseInvariant, PTL DEF LeaseInv

\* A shard owns at most one Claimed entry: BoundIDFromShard's ASSERT holds.
THEOREM ShardsClaimOnce == Spec => []OneClaimPerShard
BY LeaseInvariant, PTL DEF LeaseInv

\* What a shard serves is what the manifest records for it.
THEOREM HoldersRecorded == Spec => []HolderIsRecorded
BY LeaseInvariant, PTL DEF LeaseInv

\* The three together: Pending, Claimed and what the shards believe stay consistent
\* through restarts of the WatchDog, crashes of shards and late health checks.
THEOREM ClaimsStayConsistent == Spec => []ClaimsConsistent
BY PendingStaysUnique, ShardsClaimOnce, HoldersRecorded, PTL DEF ClaimsConsistent

\* No shard process runs before every bound is in the document.
THEOREM ShardsStartAfterStore == Spec => []ShardsFindAllBounds
<1>1. TypeOK /\ LeaseInv => ShardsFindAllBounds
  BY DEF LeaseInv, StoredInv, Stored, ShardsFindAllBounds, RunningShards, TypeOK
<1> QED
  BY <1>1, LeaseInvariant, TypeCorrect, PTL

-----------------------------------------------------------------------------
(* Enough bounds for the replicas. *)

\* Docker runs no more shards than it was asked for, and without a crash every shard that
\* was started runs.
ReplicasInv ==
    /\ Cardinality(RunningShards) <= replicas
    /\ crashes = 0 => /\ \A s \in Ids : spc[s] # "dead"
                      /\ "ClaimBoundNull" \notin asserted

\* The running shards are finitely many.
LEMMA RunningFinite ==
    /\ IsFiniteSet(RunningShards) /\ Cardinality(RunningShards) \in Nat
    /\ Cardinality(Bounds) \in Nat
<1>1. RunningShards \in SUBSET Ids
  BY DEF RunningShards
<1> QED
  BY <1>1, IdsAssumption, BoundsAssumption, FS_Subset, FS_CardinalityType

\* A shard that runs and has no bound finds one pending when no shard has died: else every
\* bound would have an owner that runs as well, one more shard than there are replicas.
LEMMA SomeBoundPending ==
    ASSUME TypeOK, LeaseInv, ReplicasInv, crashes = 0, NEW s \in Ids, spc[s] = "looping"
    PROVE  pendingType = "array" /\ pending # <<>>
<1>1. s \in RunningShards
  BY DEF RunningShards, Running
<1>2. replicas = Cardinality(Bounds) /\ pendingType = "array" /\ Stored
  BY <1>1 DEF TypeOK, LeaseInv, StoredInv, RunningShards
<1> SUFFICES ASSUME pending = <<>> PROVE FALSE
  BY <1>2
<1> DEFINE R == RunningShards \ {s}
<1>3. \A i \in 1..Len(claimed) : claimed[i].owner \in R
  <2>1. \A i \in 1..Len(claimed) : claimed[i].owner \in Ids
    <3>1. \A i \in 1..Len(claimed) : claimed[i] \in Entries
      BY DEF TypeOK
    <3> QED
      BY <3>1 DEF Entries
  <2>2. \A i \in 1..Len(claimed) : spc[claimed[i].owner] \notin {"unused", "looping", "dead"}
    BY <2>1 DEF LeaseInv, OwnersInv, ReplicasInv
  <2> QED
    BY <2>1, <2>2 DEF RunningShards, Running
<1>4. \A b \in Bounds : \E i \in 1..Len(claimed) : claimed[i].ID = b
  BY <1>2 DEF Stored, HasPending, HasClaim
<1> DEFINE f == [b \in Bounds |-> CHOOSE o \in R :
                    \E i \in 1..Len(claimed) : claimed[i].ID = b /\ claimed[i].owner = o]
<1>5. \A b \in Bounds : f[b] \in R /\
          \E i \in 1..Len(claimed) : claimed[i].ID = b /\ claimed[i].owner = f[b]
  <2> SUFFICES ASSUME NEW b \in Bounds
               PROVE  f[b] \in R /\
                      \E i \in 1..Len(claimed) : claimed[i].ID = b /\ claimed[i].owner = f[b]
    OBVIOUS
  <2>1. \E o \in R : \E i \in 1..Len(claimed) : claimed[i].ID = b /\ claimed[i].owner = o
    BY <1>3, <1>4
  <2> HIDE DEF R
  <2> QED
    BY <2>1
<1>6. f \in [Bounds -> R]
  BY <1>5
<1> HIDE DEF f
<1>7. \A a, b \in Bounds : f[a] = f[b] => a = b
  BY <1>5 DEF LeaseInv, OneClaimPerShard
<1>8. IsFiniteSet(R) /\ Cardinality(R) = Cardinality(RunningShards) - 1
  BY <1>1, RunningFinite, FS_RemoveElement
<1>9. Cardinality(R) < Cardinality(Bounds)
  BY <1>2, <1>8, RunningFinite DEF ReplicasInv
<1> HIDE DEF R
<1>10. \E a, b \in Bounds : a # b /\ f[a] = f[b]
  BY <1>6, <1>8, <1>9, BoundsAssumption, FS_PigeonHole
<1> QED
  BY <1>7, <1>10

\* The claim a shard made is its only one: the ASSERTs of BoundIDFromShard hold.
LEMMA ClaimVerified ==
    ASSUME TypeOK, LeaseInv, NEW s \in Ids, spc[s] = "bound"
    PROVE  Cardinality(EntriesOf(s)) = 1 /\ \A i \in EntriesOf(s) : claimed[i].ID = lease[s]
<1>1. PICK i \in 1..Len(claimed) : claimed[i] = [ID |-> lease[s], owner |-> s]
  BY DEF LeaseInv, HolderIsRecorded
<1>2. claimed[i].owner = s /\ claimed[i].ID = lease[s]
  BY <1>1
<1>3. EntriesOf(s) = {i}
  BY <1>2 DEF EntriesOf, LeaseInv, OneClaimPerShard
<1>4. Cardinality({i}) = 1
  BY FS_Singleton
<1> QED
  BY <1>2, <1>3, <1>4

\* Every step keeps the number of replicas.
LEMMA NextReplicas == TypeOK /\ LeaseInv /\ ReplicasInv /\ [Next]_vars => ReplicasInv'
<1> SUFFICES ASSUME TypeOK, LeaseInv, ReplicasInv, [Next]_vars PROVE ReplicasInv'
  OBVIOUS
<1>1. ASSUME UNCHANGED <<spc, crashes>>, replicas' \in {replicas, Cardinality(Bounds)},
             asserted' \subseteq asserted \cup {"InsertPendingBound"}
      PROVE  ReplicasInv'
  <2>1. RunningShards' = RunningShards
    BY <1>1 DEF RunningShards, Running
  <2>2. Cardinality(RunningShards) <= replicas'
    BY <1>1, RunningFinite DEF ReplicasInv, TypeOK
  <2> QED
    BY <1>1, <2>1, <2>2 DEF ReplicasInv
<1>2. CASE WatchdogMain \/ WatchdogCrash \/ HealthCheck \/ UNCHANGED vars
    BY <1>1, <1>2 DEF WatchdogMain, WatchdogCrash, HealthCheck, WatchdogStart, PushHeuristicType,
       PushHeuristicData, GetPendingBoundsCount, GetClaimedBoundsCount, CompareCounts,
       InsertPendingCheck, InsertPendingAppend, StoreDone, SetShardCount, WantedReplicas, Abort,
       GetExpiredPings, RequeueClaimedBound, RemovePing, vars, shardVars
<1>3. ASSUME NEW s \in Ids, HealthUpdate(s) \/ PingExpires(s) PROVE ReplicasInv'
  BY <1>1, <1>3 DEF HealthUpdate, PingExpires, shardVars
<1>4. ASSUME NEW s \in Ids, ShardStart(s) PROVE ReplicasInv'
  <2>1. /\ spc[s] = "unused" /\ spc' = [spc EXCEPT ![s] = "looping"]
        /\ Cardinality(RunningShards) < replicas
        /\ UNCHANGED <<replicas, crashes, asserted>>
    BY <1>4 DEF ShardStart
  <2>2. RunningShards' = RunningShards \cup {s} /\ s \notin RunningShards
    BY <2>1 DEF RunningShards, Running, TypeOK
  <2>3. Cardinality(RunningShards') = Cardinality(RunningShards) + 1
    BY <2>2, RunningFinite, FS_AddElement
  <2>4. replicas \in Nat
    BY RunningFinite DEF TypeOK
  <2>5. Cardinality(RunningShards') <= replicas'
    BY <2>1, <2>3, <2>4, RunningFinite
  <2>6. \A t \in Ids : spc'[t] = "dead" => spc[t] = "dead"
    BY <2>1 DEF TypeOK
  <2> QED
    BY <2>1, <2>5, <2>6 DEF ReplicasInv
<1>5. ASSUME NEW s \in Ids, Running(s), NEW x \in {"leased", "bound", "verified"},
             spc' = [spc EXCEPT ![s] = x], UNCHANGED <<replicas, crashes, asserted>>
      PROVE  ReplicasInv'
  <2>1. RunningShards' = RunningShards
    BY <1>5 DEF RunningShards, Running, TypeOK
  <2>2. \A t \in Ids : spc'[t] = "dead" => spc[t] = "dead"
    BY <1>5 DEF TypeOK
  <2> QED
    BY <1>5, <2>1, <2>2 DEF ReplicasInv
<1>6. ASSUME NEW s \in Ids, spc' = [spc EXCEPT ![s] = "dead"], UNCHANGED replicas, crashes' > 0
      PROVE  ReplicasInv'
  <2>1. RunningShards' \in SUBSET RunningShards
    BY <1>6 DEF RunningShards, Running, TypeOK
  <2>2. IsFiniteSet(RunningShards') /\ Cardinality(RunningShards') <= Cardinality(RunningShards)
    BY <2>1, RunningFinite, FS_Subset
  <2>3. Cardinality(RunningShards') \in Nat /\ replicas \in Nat
    BY <2>2, RunningFinite, FS_CardinalityType DEF TypeOK
  <2>4. Cardinality(RunningShards') <= replicas'
    BY <1>6, <2>2, <2>3, RunningFinite DEF ReplicasInv
  <2>5. crashes' # 0
    BY <1>6
  <2> QED
    BY <2>4, <2>5 DEF ReplicasInv
<1>7. crashes \in Nat
  BY LimitsAssumption DEF TypeOK
<1>8. ASSUME NEW s \in Ids, ShardCrash(s) PROVE ReplicasInv'
  <2>1. crashes' > 0
    BY <1>7, <1>8 DEF ShardCrash
  <2> QED
    BY <1>6, <1>8, <2>1 DEF ShardCrash
<1>9. ASSUME NEW s \in Ids, GetClaimedBound(s) PROVE ReplicasInv'
  BY <1>5, <1>9 DEF GetClaimedBound, Running
<1>10. ASSUME NEW s \in Ids, BoundIDFromShard(s) PROVE ReplicasInv'
  <2>1. spc' = [spc EXCEPT ![s] = "verified"] /\ UNCHANGED asserted
    BY <1>10, ClaimVerified DEF BoundIDFromShard
  <2> QED
    BY <1>5, <1>10, <2>1 DEF BoundIDFromShard, Running
<1>11. ASSUME NEW s \in Ids, ClaimNextPendingBound(s) PROVE ReplicasInv'
  <2>1. spc[s] = "looping" /\ UNCHANGED <<replicas, crashes>>
    BY <1>11 DEF ClaimNextPendingBound, NeedsBound
  <2>2. CASE spc' = [spc EXCEPT ![s] = "leased"] /\ UNCHANGED asserted
    BY <1>5, <2>1, <2>2 DEF Running
  <2>3. CASE spc' = [spc EXCEPT ![s] = "dead"] /\ ~(pendingType = "array" /\ pending # <<>>)
    <3>1. crashes # 0
      BY <2>1, <2>3, SomeBoundPending
    <3>2. crashes' > 0
      BY <1>7, <2>1, <3>1
    <3> QED
      BY <1>6, <2>1, <2>3, <3>2
  <2> QED
    BY <1>11, <2>2, <2>3 DEF ClaimNextPendingBound
<1> QED
  BY <1>2, <1>3, <1>4, <1>8, <1>9, <1>10, <1>11 DEF Next, Leaser

\* A shard finds no pending bound, and aborts, only after some shard has died with its
\* bound: Docker is asked for exactly one replica per bound, through all restarts of the
\* WatchDog.
THEOREM BoundsSuffice == Spec => []EnoughBounds
<1>1. Init => ReplicasInv
  <2> SUFFICES ASSUME Init PROVE ReplicasInv
    OBVIOUS
  <2>1. RunningShards = {}
    BY DEF Init, RunningShards, Running
  <2>2. Cardinality(RunningShards) = 0
    BY <2>1, FS_EmptySet
  <2> QED
    BY <2>2 DEF Init, ReplicasInv
<1>2. TypeOK /\ ReplicasInv => EnoughBounds
  BY LimitsAssumption DEF TypeOK, ReplicasInv, EnoughBounds
<1> QED
  BY <1>1, <1>2, NextReplicas, LeaseInvariant, TypeCorrect, PTL DEF Spec

\* The bounds are there when a shard starts, and there are enough of them.
THEOREM BoundsAreFound == Spec => []ShardsFindBounds
BY ShardsStartAfterStore, BoundsSuffice, PTL DEF ShardsFindBounds
=============================================================================
