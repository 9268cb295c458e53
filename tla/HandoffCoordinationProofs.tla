---------------------- MODULE HandoffCoordinationProofs ----------------------
(***************************************************************************)
(* What the handoffs keep in the database, for any number of shards,       *)
(* handoffs and crashes: a settled election stays settled                  *)
(* (OwnershipElection), the first handoff leaves at most one shard with    *)
(* authority (NaiveHandoff), and the transfer record, its holders          *)
(* (TransferRecords) and the lease of the connection (HandoffLease) stay   *)
(* right.                                                                  *)
(***************************************************************************)
EXTENDS OwnershipElection, NaiveHandoff, TransferRecords, HandoffLease, AuthorityTelemetry,
        SequenceTheorems, WellFoundedInduction, TLAPS

-----------------------------------------------------------------------------
(* The owner key. *)

\* Every shard that an evaluation knows or selects, and the one in the key, is in the
\* registry, which never loses an entry; an evaluation knows its own shard.
ElectionInv ==
    /\ registry \subseteq Shards
    /\ up \subseteq registry
    /\ ownerKey \in registry \cup {NoShard}
    /\ pc \in [Shards -> {"idle", "key", "write"}]
    /\ servers \in [Shards -> SUBSET Shards]
    /\ selected \in [Shards -> Shards \cup {NoShard}]
    /\ \A s \in Shards : servers[s] \subseteq registry
    /\ \A s \in Shards : pc[s] = "key" => s \in servers[s]
    /\ \A s \in Shards : pc[s] = "write" => selected[s] \in registry

\* A set of numbers that is not empty has its minimum.
LEMMA MinIsIn ==
    ASSUME NEW S \in SUBSET Nat, S # {}
    PROVE  Min(S) \in S
<1> DEFINE R == OpToRel(<, Nat)
<1>1. \A x, y \in Nat : <<y, x>> \in R <=> y < x
    BY DEF OpToRel
<1>2. IsWellFoundedOn(R, Nat)
    BY NatLessThanWellFounded
<1> HIDE DEF R
<1>3. \E x \in S : \A y \in S : ~ (<<y, x>> \in R)
    BY <1>2, WFMin
<1>4. \E x \in S : \A y \in S : x =< y
    <2>1. PICK x \in S : \A y \in S : ~ (<<y, x>> \in R)
        BY <1>3
    <2>2. ASSUME NEW y \in S PROVE x =< y
        <3>1. x \in Nat /\ y \in Nat
            OBVIOUS
        <3>2. ~ (y < x)
            BY <1>1, <2>1, <3>1, Zenon
        <3> QED BY <3>1, <3>2
    <2> QED BY <2>2
<1> QED BY <1>4 DEF Min

\* SelectBootstrapOwner returns a shard of the servers it is given.
LEMMA BootstrapIsKnown ==
    ASSUME NEW known \in SUBSET Shards, known # {}
    PROVE  SelectBootstrapOwner(known) \in known
<1>1. known \in SUBSET Nat
    BY ElectionAssumption
<1> QED BY <1>1, MinIsIn DEF SelectBootstrapOwner

\* Initially nobody is registered.
LEMMA InitElection == Init => ElectionInv
BY DEF Init, ElectionInv

\* Every step preserves the invariant.
LEMMA NextElection == ElectionInv /\ [Next]_vars => ElectionInv'
<1> SUFFICES ASSUME ElectionInv, [Next]_vars PROVE ElectionInv'
    OBVIOUS
<1> USE ElectionAssumption
<1>1. ASSUME NEW s \in Shards, Register(s) PROVE ElectionInv'
    BY <1>1 DEF ElectionInv, Register
<1>2. ASSUME NEW s \in Shards, ReadServers(s) PROVE ElectionInv'
    BY <1>2 DEF ElectionInv, ReadServers
<1>3. ASSUME NEW s \in Shards, AcceptKey(s) PROVE ElectionInv'
    BY <1>3 DEF ElectionInv, AcceptKey
<1>4. ASSUME NEW s \in Shards, SelectOwner(s) PROVE ElectionInv'
    <2>1. SelectBootstrapOwner(servers[s]) \in servers[s]
        BY <1>4, BootstrapIsKnown DEF ElectionInv, SelectOwner
    <2> QED BY <1>4, <2>1 DEF ElectionInv, SelectOwner
<1>5. ASSUME NEW s \in Shards, WriteKey(s) PROVE ElectionInv'
    BY <1>5 DEF ElectionInv, WriteKey
<1>6. ASSUME NEW s \in Shards, Crash(s) PROVE ElectionInv'
    BY <1>6 DEF ElectionInv, Crash
<1>7. CASE UNCHANGED vars
    BY <1>7 DEF ElectionInv, vars
<1> QED BY <1>1, <1>2, <1>3, <1>4, <1>5, <1>6, <1>7 DEF Next, Evaluate

\* A step of a settled election leaves it settled with the same owner key: the only
\* step that could change the key belongs to an evaluation that does not know the owner.
LEMMA SettledStep ==
    ASSUME ElectionInv, [Next]_vars, Settled
    PROVE  Settled' /\ ownerKey' = ownerKey
<1> USE ElectionAssumption
<1>1. ASSUME NEW s \in Shards, Register(s) PROVE Settled' /\ ownerKey' = ownerKey
    BY <1>1 DEF Settled, Register
<1>2. ASSUME NEW s \in Shards, ReadServers(s) PROVE Settled' /\ ownerKey' = ownerKey
    BY <1>2 DEF ElectionInv, Settled, ReadServers
<1>3. ASSUME NEW s \in Shards, AcceptKey(s) PROVE Settled' /\ ownerKey' = ownerKey
    BY <1>3 DEF ElectionInv, Settled, AcceptKey
<1>4. ASSUME NEW s \in Shards, SelectOwner(s) PROVE FALSE
    BY <1>4 DEF Settled, SelectOwner, NeedsOwner
<1>5. ASSUME NEW s \in Shards, WriteKey(s) PROVE FALSE
    BY <1>5 DEF Settled, WriteKey
<1>6. ASSUME NEW s \in Shards, Crash(s) PROVE Settled' /\ ownerKey' = ownerKey
    BY <1>6 DEF ElectionInv, Settled, Crash
<1>7. CASE UNCHANGED vars
    BY <1>7 DEF Settled, vars
<1> QED BY <1>1, <1>2, <1>3, <1>4, <1>5, <1>6, <1>7 DEF Next, Evaluate

\* Once no evaluation is about to replace it, Evaluate never changes the owner key again,
\* however many shards join or crash.
THEOREM OwnerKeyStays == Spec => SettledStays
<1>1. Spec => []ElectionInv
    BY InitElection, NextElection, PTL DEF Spec
<1>2. ElectionInv /\ [Next]_vars => [Settled => Settled' /\ ownerKey' = ownerKey]_vars
    BY SettledStep
<1> QED BY <1>1, <1>2, PTL DEF Spec, SettledStays

-----------------------------------------------------------------------------
(* NaiveHandoff *)

\* The bootstrap owner is a shard.
LEMMA BootstrapIsShard ==
    ASSUME NEW s \in NHShards
    PROVE  BootstrapOwner \in NHShards
<1>1. NHShards \in SUBSET Nat /\ NHShards # {}
    BY NaiveAssumption
<1> QED BY <1>1, MinIsIn DEF BootstrapOwner

\* Initially the key is empty and no shard is the owner.
LEMMA NaiveInit == NHInit => NaiveInv
BY NaiveAssumption DEF NHInit, NaiveInv, NHOneAuthority

\* A Tick keeps an answer only as long as it stands, and takes a new one from the key.
LEMMA NaiveTick ==
    ASSUME NaiveInv, NEW s \in NHShards, NEW silent, NEW evaluate \in BOOLEAN,
           NHTick(s, silent, evaluate)
    PROVE  NaiveInv'
BY NaiveAssumption DEF NaiveInv, NHOneAuthority, NHTick, NHClosed

\* The bootstrap write replaces no owner but an empty key, or it is late.
LEMMA NaiveBootstrap ==
    ASSUME NaiveInv, NEW s \in NHShards, NHBootstrap(s)
    PROVE  NaiveInv'
<1>1. BootstrapOwner \in NHShards
    BY BootstrapIsShard
<1> QED BY <1>1, NaiveAssumption DEF NaiveInv, NHOneAuthority, NHBootstrap

\* A shard that seeds, adopts or marks the entity is the owner that the key names.
LEMMA NaiveKeep ==
    ASSUME NaiveInv, NEW s \in NHShards, NEW region, NHKeep(s, region)
    PROVE  NaiveInv'
BY NaiveAssumption DEF NaiveInv, NHOneAuthority, NHKeep, Marked, NHTracked, NHDue

\* The sender gives its authority up before the key changes.
LEMMA NaiveSend ==
    ASSUME NaiveInv, NEW s \in NHShards, NEW r \in NHShards, NHSend(s, r)
    PROVE  NaiveInv'
BY NaiveAssumption DEF NaiveInv, NHOneAuthority, NHSend, HandoffTargets, OtherShards, EntityHandoff

\* Only the shard that the key names changes it, and its own answer is void from then on.
LEMMA NaiveSwitch ==
    ASSUME NaiveInv, NEW s \in NHShards, NHSwitchOwner(s)
    PROVE  NaiveInv'
BY NaiveAssumption DEF NaiveInv, NHOneAuthority, NHSwitchOwner, Voided

\* A shard that is not the owner has no entity after its Tick.
LEMMA NaiveDrop ==
    ASSUME NaiveInv, NEW s \in NHShards, NHDrop(s)
    PROVE  NaiveInv'
BY NaiveAssumption DEF NaiveInv, NHOneAuthority, NHDrop, Remaining

\* A packet makes the answer of its target void and gives no authority.
LEMMA NaiveReceive ==
    ASSUME NaiveInv, NEW p \in nhNet, NEW wait, NHReceive(p, wait)
    PROVE  NaiveInv'
BY NaiveAssumption DEF NaiveInv, NHOneAuthority, NHReceive

\* NaiveInv holds in every reachable state.
THEOREM NaiveInvariant == NHSpec => []NaiveInv
<1>1. NaiveInv /\ [NHNext]_nhVars => NaiveInv'
    <2> SUFFICES ASSUME NaiveInv, [NHNext]_nhVars PROVE NaiveInv'
        OBVIOUS
    <2>1. ASSUME NEW s \in NHShards, NHTickStep(s) PROVE NaiveInv'
        BY <2>1, NaiveTick, NaiveBootstrap, NaiveKeep, NaiveSend, NaiveSwitch, NaiveDrop DEF NHTickStep
    <2>2. ASSUME NEW p \in nhNet, NEW wait, NHReceive(p, wait) PROVE NaiveInv'
        BY <2>2, NaiveReceive
    <2>3. CASE UNCHANGED nhVars
        BY <2>3 DEF NaiveInv, NHOneAuthority, nhVars
    <2> QED BY <2>1, <2>2, <2>3 DEF NHNext
<1> QED BY NaiveInit, <1>1, PTL DEF NHSpec

\* At most one shard simulates the entity with authority, the one that the owner key
\* names, for any number of shards and handoffs and any loss of packets, unless a
\* bootstrap write came after a handoff.
THEOREM NaiveOneAuthority == NHSpec => []NHOneAuthority
<1>1. NaiveInv => NHOneAuthority
    BY DEF NaiveInv
<1> QED BY <1>1, NaiveInvariant, PTL

\* It is what the token promises: whoever implements OwnerToken has at most one authority.
THEOREM TokenHasOneAuthority == NHImplementsToken => []NHOneAuthority
<1>1. Token!Init => NHOneAuthority
    BY DEF Token!Init, NHOneAuthority, NHActing
<1>2. NHOneAuthority /\ [Token!Next]_<<nhKey, NHActing, nhLate>> => NHOneAuthority'
    <2> SUFFICES ASSUME NHOneAuthority, [Token!Next]_<<nhKey, NHActing, nhLate>>, nhLate' = "no"
                 PROVE  NHActing' \subseteq {nhKey'}
        BY DEF NHOneAuthority, NHActing
    <2>1. nhLate = "no" => NHActing \subseteq {nhKey}
        BY DEF NHOneAuthority, NHActing
    <2>2. NHActing \subseteq NHShards /\ NHNone \notin NHShards
        BY NaiveAssumption DEF NHActing
    <2> QED BY <2>1, <2>2
            DEF Token!Next, Token!Boot, Token!Pass, Token!Act, Token!Replace, Token!Anything
<1> QED BY <1>1, <1>2, PTL DEF NHImplementsToken, Token!Spec

\* A bootstrap write boots the token, leaves it, or replaces its holder.
LEMMA TokenBootstrap ==
    ASSUME NaiveInv, NEW s \in NHShards, NHBootstrap(s)
    PROVE  [Token!Next]_<<nhKey, NHActing, nhLate>>
<1>1. UNCHANGED NHActing
    BY DEF NHBootstrap, NHActing
<1>2. nhKey' = BootstrapOwner /\ nhLate \in {"yes", "no"}
    BY DEF NHBootstrap, NaiveInv
<1>3. CASE nhKey = NHNone
    <2>1. nhLate' = nhLate
        BY <1>3 DEF NHBootstrap
    <2> QED BY <1>1, <1>2, <1>3, <2>1 DEF Token!Next, Token!Boot
<1>4. CASE nhKey = BootstrapOwner
    <2>1. nhLate' = nhLate
        BY <1>4 DEF NHBootstrap
    <2> QED BY <1>1, <1>2, <1>4, <2>1
<1>5. CASE nhKey \notin {NHNone, BootstrapOwner}
    <2>1. nhLate' = "yes"
        BY <1>5 DEF NHBootstrap
    <2> QED BY <1>1, <1>2, <1>5, <2>1 DEF Token!Next, Token!Replace
<1> QED BY <1>3, <1>4, <1>5

\* A step that leaves the key alone lets only the holder act.
LEMMA TokenAct ==
    ASSUME NaiveInv, NaiveInv',
           nhKey' = nhKey, nhLate' = nhLate
    PROVE  [Token!Next]_<<nhKey, NHActing, nhLate>>
<1>1. CASE nhLate = "no"
    <2>1. NHActing' \subseteq {nhKey}
        BY <1>1 DEF NaiveInv, NHOneAuthority, NHActing
    <2> QED BY <1>1, <2>1 DEF Token!Next, Token!Act
<1>2. CASE nhLate = "yes"
    <2>1. nhKey' \in NHShards /\ NHActing' \subseteq NHShards
        BY <1>2 DEF NaiveInv, NHActing
    <2> QED BY <1>2, <2>1 DEF Token!Next, Token!Anything
<1> QED BY <1>1, <1>2 DEF NaiveInv

\* The key is switched by its holder, when nobody acts.
LEMMA TokenPass ==
    ASSUME NaiveInv, NaiveInv', NEW s \in NHShards, NHSwitchOwner(s)
    PROVE  [Token!Next]_<<nhKey, NHActing, nhLate>>
<1>1. nhEntity[s] \in NHShards \ {s} /\ nhKey' = nhEntity[s]
    BY DEF NaiveInv, NHSwitchOwner
<1>2. UNCHANGED <<NHActing, nhLate>>
    BY DEF NHSwitchOwner, NHActing
<1>3. CASE nhLate = "no"
    <2>1. nhKey = s
        BY <1>3 DEF NaiveInv, NHSwitchOwner
    <2>2. NHActing = {}
        BY <1>1, <1>3, <2>1 DEF NaiveInv, NHOneAuthority, NHActing
    <2> QED BY <1>1, <1>2, <1>3, <2>1, <2>2 DEF Token!Next, Token!Pass
<1>4. CASE nhLate = "yes"
    <2>1. nhKey' \in NHShards /\ NHActing' \subseteq NHShards
        BY <1>1 DEF NHActing
    <2> QED BY <1>2, <1>4, <2>1 DEF Token!Next, Token!Anything
<1> QED BY <1>3, <1>4 DEF NaiveInv

\* NaiveHandoff implements OwnerToken: the owner key changes hands only between Ticks in
\* which no shard simulates the entity with authority, and only its holder starts to,
\* for any number of shards and handoffs, until a late bootstrap write.
THEOREM NaiveIsToken == NHSpec => NHImplementsToken
<1>1. NHInit => Token!Init
    BY NaiveAssumption DEF NHInit, Token!Init, NHActing
<1>2. NaiveInv /\ NaiveInv' /\ [NHNext]_nhVars => [Token!Next]_<<nhKey, NHActing, nhLate>>
    <2> SUFFICES ASSUME NaiveInv, NaiveInv', [NHNext]_nhVars
                 PROVE  [Token!Next]_<<nhKey, NHActing, nhLate>>
        OBVIOUS
    <2>1. ASSUME NEW s \in NHShards, NHTickStep(s)
          PROVE  [Token!Next]_<<nhKey, NHActing, nhLate>>
        <3>1. CASE NHBootstrap(s)
            BY <3>1, TokenBootstrap
        <3>2. CASE NHSwitchOwner(s)
            BY <3>2, TokenPass
        <3>3. CASE nhKey' = nhKey /\ nhLate' = nhLate
            BY <3>3, TokenAct
        <3> QED
            BY <2>1, <3>1, <3>2, <3>3 DEF NHTickStep, NHTick, NHKeep, NHSend, NHDrop
    <2>2. ASSUME NEW p \in nhNet, NEW wait, NHReceive(p, wait)
          PROVE  [Token!Next]_<<nhKey, NHActing, nhLate>>
        BY <2>2 DEF NHReceive, NHActing
    <2>3. CASE UNCHANGED nhVars
        BY <2>3 DEF nhVars, NHActing
    <2> QED BY <2>1, <2>2, <2>3 DEF NHNext
<1> QED BY <1>1, <1>2, NaiveInvariant, PTL DEF NHSpec, NHImplementsToken, Token!Spec

-----------------------------------------------------------------------------
(* The commands on the keys of one entity. *)

\* HSET of the record leaves the holders alone.
LEMMA WritesRecord ==
    ASSUME NEW d, StoreOK(d), NEW r \in Record
    PROVE  /\ StoreOK(HSet(d, Active, Entity, r))
           /\ SMembers(HSet(d, Active, Entity, r), Holders) = SMembers(d, Holders)
           /\ HExists(HSet(d, Active, Entity, r), Active, Entity)
BY DEF StoreOK, HSet, Put, HGetAll, HExists, SMembers, Exists, Active, Holders

\* SADD adds a holder and leaves the record alone.
LEMMA AddsHolder ==
    ASSUME NEW d, StoreOK(d), NEW s \in Recorders
    PROVE  /\ StoreOK(SAdd(d, Holders, {s}))
           /\ SMembers(SAdd(d, Holders, {s}), Holders) = SMembers(d, Holders) \cup {s}
           /\ HExists(SAdd(d, Holders, {s}), Active, Entity) <=> HExists(d, Active, Entity)
BY DEF StoreOK, SAdd, Put, HGetAll, HExists, SMembers, Exists, Active, Holders

\* SREM takes one out, and the key goes with the last.
LEMMA RemovesHolder ==
    ASSUME NEW d, StoreOK(d), NEW s \in Recorders
    PROVE  /\ StoreOK(SRem(d, Holders, {s}))
           /\ SMembers(SRem(d, Holders, {s}), Holders) = SMembers(d, Holders) \ {s}
           /\ HExists(SRem(d, Holders, {s}), Active, Entity) <=> HExists(d, Active, Entity)
BY DEF StoreOK, SRem, Put, DelKey, HGetAll, HExists, SMembers, Exists, Active, Holders

\* HDEL of the entity deletes the record, and with it the hash.
LEMMA DeletesRecord ==
    ASSUME NEW d, StoreOK(d)
    PROVE  /\ StoreOK(HDel(d, Active, {Entity}))
           /\ SMembers(HDel(d, Active, {Entity}), Holders) = SMembers(d, Holders)
           /\ ~HExists(HDel(d, Active, {Entity}), Active, Entity)
<1>1. DOMAIN HGetAll(d, Active) \subseteq {Entity}
    BY DEF StoreOK, HGetAll, Exists
<1>2. HDel(d, Active, {Entity}) = DelKey(d, Active)
    BY <1>1 DEF HDel, PutUnlessEmpty
<1> QED BY <1>2 DEF StoreOK, DelKey, HGetAll, HExists, SMembers, Exists, Active, Holders

\* DEL of the holders, or the end of their time to live.
LEMMA DeletesHolders ==
    ASSUME NEW d, StoreOK(d)
    PROVE  /\ StoreOK(DelKey(d, Holders))
           /\ SMembers(DelKey(d, Holders), Holders) = {}
           /\ HExists(DelKey(d, Holders), Active, Entity) <=> HExists(d, Active, Entity)
BY DEF StoreOK, DelKey, HGetAll, HExists, SMembers, Exists, Active, Holders

\* The holders are shards, and the key exists exactly when there is one; what HGET finds
\* is a record.
LEMMA StoreContents ==
    ASSUME NEW d, StoreOK(d)
    PROVE  /\ SMembers(d, Holders) \subseteq Recorders
           /\ Exists(d, Holders) <=> SMembers(d, Holders) # {}
           /\ HExists(d, Active, Entity) => HGet(d, Active, Entity) \in Record
BY DEF StoreOK, HGet, HGetAll, HExists, SMembers, Exists, Active, Holders

-----------------------------------------------------------------------------
(* The records: types, and who runs which procedure. *)

\* Initially the seeder holds the entity and the database knows nothing of it.
LEMMA RecordsStart == RecordsInit => RecordsInv
<1> SUFFICES ASSUME RecordsInit PROVE RecordsInv
    OBVIOUS
<1> USE RecordsAssumption DEF RecordsInit
<1>1. StoreOK(db) /\ SMembers(db, Holders) = {} /\ ~HExists(db, Active, Entity)
    BY DEF StoreOK, SMembers, HExists, HGetAll, Exists
<1>2. Len(transfers) = 0
    OBVIOUS
<1>3. Idle \in Tasks /\ Idle.at \in StepsOf(Idle.op) /\ Idle.op = "idle"
    BY DEF Idle, Task, Tasks, Steps, StepsOf
<1>4. \A s \in Recorders : TaskOK(s)
    BY <1>3 DEF TaskOK, Idle, Task
<1>5. RecordsOK
    BY <1>1, <1>2, <1>4 DEF RecordsOK
<1>6. NoPhantomHolder
    BY <1>1 DEF NoPhantomHolder
<1>7. Calm /\ CalmStore
    BY <1>1, <1>2, <1>3 DEF Calm, CalmStore
<1> QED BY <1>5, <1>6, <1>7 DEF RecordsInv

\* A shard that goes on with its procedure, or ends it, keeps every type.
LEMMA TaskMoves ==
    ASSUME RecordsOK, StoreOK(db'), UNCHANGED <<held, transfers>>,
           NEW s \in Recorders, NEW t, task' = [task EXCEPT ![s] = t],
           \/ t = Idle
           \/ /\ t \in Tasks /\ t.op = task[s].op /\ t.k = task[s].k
              /\ t.op \in {"start", "adopt", "commit"} /\ t.at \in StepsOf(t.op)
    PROVE  RecordsOK'
<1>1. Idle \in Tasks /\ Idle.at \in StepsOf(Idle.op) /\ Idle.op = "idle" /\ Idle = Task("idle", 0, "end")
    BY DEF Idle, Task, Tasks, Steps, StepsOf
<1>2. task'[s] = t /\ \A q \in Recorders : q # s => task'[q] = task[q]
    BY DEF RecordsOK
<1>3. TaskOK(s)'
    BY <1>1, <1>2 DEF TaskOK, RecordsOK, Transfer
<1>4. \A q \in Recorders : q # s => TaskOK(q)'
    BY <1>2 DEF TaskOK, RecordsOK, Transfer
<1> QED BY <1>3, <1>4 DEF RecordsOK, Transfer

\* The step that a shard in a procedure takes next, and what it leaves behind.
LEMMA ManifestSteps ==
    ASSUME RecordsOK, NEW s \in Recorders, ManifestStep(s)
    PROVE  /\ RecordsOK'
           /\ UNCHANGED <<held, transfers, disturbed>>
           /\ task[s].op \in {"start", "adopt", "commit"}
           /\ task'[s].op \in {"idle", task[s].op}
           /\ task'[s].op # "idle" => task'[s].k = task[s].k
           /\ \A q \in Recorders : q # s => task'[q] = task[q]
           /\ \/ /\ task[s].at = "read" /\ task'[s].at = "write"
                 /\ db' = db
              \/ /\ task[s].at = "write" /\ task'[s].at = "holders"
                 /\ SMembers(db', Holders) = SMembers(db, Holders) /\ HExists(db', Active, Entity)
              \/ /\ task[s].at = "holders" /\ task[s].op # "commit" /\ task'[s].at = "expire"
                 /\ SMembers(db', Holders) = SMembers(db, Holders) \cup {s}
                 /\ HExists(db', Active, Entity) <=> HExists(db, Active, Entity)
              \/ /\ task[s].at = "holders" /\ task[s].op = "commit" /\ task'[s].at = "finalize"
                 /\ SMembers(db', Holders) = SMembers(db, Holders) \ {s}
                 /\ HExists(db', Active, Entity) <=> HExists(db, Active, Entity)
              \/ /\ task[s].at = "expire"
                 /\ IF task[s].op = "start" THEN task'[s] = Idle ELSE task'[s].at = "finalize"
                 /\ db' = db
              \/ /\ task[s].at = "finalize"
                 /\ IF Converged(task[s].k) THEN task'[s].at = "clear" ELSE task'[s] = Idle
                 /\ db' = db
              \/ /\ task[s].at = "clear" /\ task'[s].at = "clearHolders"
                 /\ SMembers(db', Holders) = SMembers(db, Holders) /\ ~HExists(db', Active, Entity)
              \/ /\ task[s].at = "clearHolders" /\ task'[s] = Idle
                 /\ SMembers(db', Holders) = {}
                 /\ HExists(db', Active, Entity) <=> HExists(db, Active, Entity)
           /\ task'[s].op = "idle" => task'[s] = Idle
<1> DEFINE x == task[s]
<1>1. /\ x \in Tasks /\ x.op \in {"start", "adopt", "commit"} /\ x.at \in StepsOf(x.op)
      /\ x.k \in 1..Len(transfers) /\ StoreOK(db) /\ Idle.op = "idle"
      /\ task = [q \in Recorders |-> task[q]]
    <2>1. TaskOK(s) /\ StoreOK(db) /\ task = [q \in Recorders |-> task[q]]
        BY DEF RecordsOK
    <2>2. x.op \in {"start", "adopt", "commit"}
        BY DEF ManifestStep, InManifest, TryGet, Upsert, UpdateHolders, Expire, TryFinalize,
               ClearRecord, ClearHolders
    <2> QED BY <2>1, <2>2 DEF TaskOK, Idle, Task
<1>2. \A at \in Steps : /\ [x EXCEPT !.at = at] \in Tasks /\ [x EXCEPT !.at = at].op = x.op
                        /\ [x EXCEPT !.at = at].k = x.k /\ [x EXCEPT !.at = at].at = at
    BY <1>1 DEF Tasks
<1>3. /\ x.op = "start" => x.at \in {"write", "holders", "expire"}
      /\ \A op \in {"adopt", "commit"}, at \in {"write", "holders", "finalize", "clear", "clearHolders"} :
             at \in StepsOf(op)
      /\ \A at \in {"holders", "expire"} : at \in StepsOf("start") /\ at \in StepsOf("adopt")
    BY <1>1 DEF StepsOf
<1>4. CASE TryGet(s)
    <2> DEFINE found == IF HExists(db, Active, Entity) THEN {HGet(db, Active, Entity)} ELSE {}
    <2>1. found \in SUBSET Record
        BY <1>1, StoreContents
    <2> HIDE DEF found
    <2> DEFINE t == [x EXCEPT !.at = "write", !.seen = found]
    <2>2. t \in Tasks /\ t.op = x.op /\ t.k = x.k /\ t.at = "write"
        BY <1>1, <2>1 DEF Tasks, Steps
    <2>3. /\ task' = [task EXCEPT ![s] = t] /\ x.at = "read"
          /\ UNCHANGED <<db, held, transfers, disturbed>>
        BY <1>4 DEF TryGet, InManifest, found
    <2> HIDE DEF t
    <2>4. RecordsOK'
        BY <1>1, <1>3, <2>2, <2>3, TaskMoves
    <2> QED BY <1>1, <2>2, <2>3, <2>4
<1>5. ASSUME NEW d, NEW at \in Steps \ {"end"}, Command(s, d, at), StoreOK(d), at \in StepsOf(x.op)
      PROVE  /\ RecordsOK' /\ UNCHANGED <<held, transfers, disturbed>> /\ db' = d
             /\ task'[s].op = x.op /\ task'[s].k = x.k /\ task'[s].at = at
             /\ \A q \in Recorders : q # s => task'[q] = task[q]
    <2> DEFINE t == [x EXCEPT !.at = at]
    <2>1. task' = [task EXCEPT ![s] = t] /\ UNCHANGED <<held, transfers, disturbed>> /\ db' = d
        BY <1>5 DEF Command, Steps
    <2>2. t \in Tasks /\ t.op = x.op /\ t.k = x.k /\ t.at = at
        BY <1>2, <1>5
    <2> HIDE DEF t
    <2>3. RecordsOK'
        BY <1>1, <1>5, <2>1, <2>2, TaskMoves
    <2> QED BY <1>1, <2>1, <2>2, <2>3
<1>6. ASSUME NEW d, Command(s, d, "end"), StoreOK(d)
      PROVE  /\ RecordsOK' /\ UNCHANGED <<held, transfers, disturbed>> /\ db' = d
             /\ task'[s] = Idle
             /\ \A q \in Recorders : q # s => task'[q] = task[q]
    <2>1. task' = [task EXCEPT ![s] = Idle] /\ UNCHANGED <<held, transfers, disturbed>> /\ db' = d
        BY <1>6 DEF Command
    <2>2. RecordsOK'
        BY <1>1, <1>6, <2>1, TaskMoves
    <2> QED BY <1>1, <2>1, <2>2
<1>7. CASE Upsert(s)
    <2>1. x.at = "write" /\ Command(s, HSet(db, Active, Entity, Written(s)), "holders")
        BY <1>7 DEF Upsert, InManifest
    <2>2. Transfer(x.k).from \in Recorders /\ Transfer(x.k).to \in Recorders
        <3>1. transfers \in Seq(Handovers)
            BY DEF RecordsOK
        <3>2. transfers[x.k] \in Handovers
            BY <1>1, <3>1, ElementOfSeq
        <3> QED BY <3>2 DEF Handovers, Transfer
    <2>3. Started(x.k) \in Record
        BY <2>2 DEF Started, Record
    <2>4. Read(s) \in Record
        BY <1>1, <2>3 DEF Read, Tasks
    <2>5. Written(s) \in Record
        BY <2>2, <2>3, <2>4 DEF Written, Record
    <2> QED BY <1>1, <1>3, <1>5, <2>1, <2>5, WritesRecord DEF Steps
<1>8. CASE UpdateHolders(s)
    <2>1. x.at = "holders" /\ Command(s, NewHolders(s), AfterHolders(s))
        BY <1>8 DEF UpdateHolders, InManifest
    <2>2. CASE x.op = "commit"
        BY <1>1, <1>3, <1>5, <2>1, <2>2, RemovesHolder DEF NewHolders, AfterHolders, Steps
    <2>3. CASE x.op # "commit"
        BY <1>1, <1>3, <1>5, <2>1, <2>3, AddsHolder DEF NewHolders, AfterHolders, Steps
    <2> QED BY <2>2, <2>3
<1>9. CASE Expire(s)
    <2>1. /\ x.at = "expire" /\ UNCHANGED <<db, held, transfers, disturbed>>
          /\ task' = [task EXCEPT ![s] = AfterExpire(s)]
        BY <1>9 DEF Expire, InManifest
    <2>2. CASE x.op = "start"
        <3>1. AfterExpire(s) = Idle
            BY <2>2 DEF AfterExpire
        <3>2. RecordsOK'
            BY <1>1, <2>1, <3>1, TaskMoves
        <3> QED BY <1>1, <2>1, <2>2, <3>1, <3>2
    <2>3. CASE x.op # "start"
        <3>1. AfterExpire(s) = [x EXCEPT !.at = "finalize"]
            BY <2>3 DEF AfterExpire
        <3>2. /\ AfterExpire(s) \in Tasks /\ AfterExpire(s).op = x.op /\ AfterExpire(s).k = x.k
              /\ AfterExpire(s).at = "finalize"
            BY <1>2, <3>1 DEF Steps
        <3>3. RecordsOK'
            BY <1>1, <1>3, <2>1, <2>3, <3>2, TaskMoves
        <3> QED BY <1>1, <2>1, <2>3, <3>2, <3>3
    <2> QED BY <2>2, <2>3
<1>10. CASE TryFinalize(s)
    <2>1. x.at = "finalize" /\ x.op # "start"
        BY <1>1, <1>3, <1>10 DEF TryFinalize, InManifest
    <2>2. CASE Converged(x.k)
        BY <1>1, <1>3, <1>5, <1>10, <2>1, <2>2 DEF TryFinalize, Steps
    <2>3. CASE ~Converged(x.k)
        BY <1>1, <1>6, <1>10, <2>1, <2>3 DEF TryFinalize
    <2> QED BY <2>2, <2>3
<1>11. CASE ClearRecord(s)
    <2>1. x.at = "clear" /\ x.op # "start" /\ Command(s, HDel(db, Active, {Entity}), "clearHolders")
        BY <1>1, <1>3, <1>11 DEF ClearRecord, InManifest
    <2> DEFINE d == HDel(db, Active, {Entity})
    <2>2. StoreOK(d) /\ SMembers(d, Holders) = SMembers(db, Holders) /\ ~HExists(d, Active, Entity)
        BY <1>1, DeletesRecord
    <2> HIDE DEF d
    <2> QED BY <1>1, <1>3, <1>5, <2>1, <2>2 DEF Steps, d
<1>12. CASE ClearHolders(s)
    <2>1. x.at = "clearHolders" /\ Command(s, DelKey(db, Holders), "end")
        BY <1>12 DEF ClearHolders, InManifest
    <2> QED BY <1>1, <1>6, <2>1, DeletesHolders
<1> QED BY <1>4, <1>7, <1>8, <1>9, <1>10, <1>11, <1>12 DEF ManifestStep

\* A step of a procedure keeps the holders real, and an undisturbed transfer on its way.
LEMMA ManifestInv ==
    ASSUME RecordsInv, NEW s \in Recorders, ManifestStep(s)
    PROVE  RecordsInv'
<1>1. RecordsOK /\ NoPhantomHolder
    BY DEF RecordsInv
<1> USE ManifestSteps
<1>2. TaskOK(s) /\ Idle.op = "idle" /\ Idle.at = "end" /\ Crashed.op = "crashed" /\ StoreOK(db)
    BY <1>1 DEF RecordsOK, Idle, Crashed, Task
<1>3. SMembers(db, Holders) \subseteq Recorders
    BY <1>2, StoreContents
<1>4. NoPhantomHolder'
    <2> SUFFICES ASSUME NEW q \in SMembers(db', Holders)
                 PROVE  \/ task'[q] = Crashed
                        \/ q \in held
                        \/ task'[q].op = "commit" /\ task'[q].at \in {"read", "write", "holders"}
        BY <1>1 DEF NoPhantomHolder
    <2>1. q \in SMembers(db, Holders) \/ q = s
        BY <1>1
    <2>2. CASE q # s
        BY <1>1, <1>3, <2>1, <2>2 DEF NoPhantomHolder
    <2>3. CASE q = s
        BY <1>1, <1>2, <2>3 DEF NoPhantomHolder, TaskOK
    <2> QED BY <2>2, <2>3
<1>5. ASSUME disturbed' = {} PROVE (Calm /\ CalmStore)'
    <2>1. Calm /\ CalmStore /\ disturbed = {}
        BY <1>1, <1>5 DEF RecordsInv
    <2>2. UNCHANGED <<held, transfers>> /\ Last' = Last
        BY <1>1 DEF Last, Transfer
    <2>3. Calm'
        BY <1>1, <2>1, <2>2 DEF Calm, Transfer
    <2>4. transfers # <<>> /\ Len(transfers) \in Nat /\ Len(transfers) # 0
        BY <1>1, <1>2, EmptySeq, LenProperties DEF TaskOK, RecordsOK
    <2>5. Last.from \in Recorders /\ Last.to \in Recorders /\ Last.from # Last.to
        <3>1. transfers \in Seq(Handovers)
            BY <1>1 DEF RecordsOK
        <3>2. transfers[Len(transfers)] \in Handovers
            BY <2>4, <3>1, ElementOfSeq
        <3> QED BY <1>1, <2>4, <3>2 DEF Handovers, Last, Transfer, RecordsOK
    <2>6. s = IF task[s].op = "adopt" THEN Last.to ELSE Last.from
        BY <1>1, <1>2, <2>1 DEF TaskOK, Calm, Last
    <2>7. CalmStore'
        <3>1. SMembers(db', Holders) \subseteq {Last.from, Last.to}
            BY <1>1, <1>2, <2>1, <2>2, <2>4, <2>5, <2>6
               DEF CalmStore, Calm, Added, Removed, Before, SIsMember, Converged, Last, TaskOK, StepsOf
        <3>2. SIsMember(db', Holders, Last.from) <=> ~Removed' /\ ~Before(Last.from, "start")'
            BY <1>1, <1>2, <2>1, <2>2, <2>4, <2>5, <2>6
               DEF CalmStore, Calm, Added, Removed, Before, SIsMember, Converged, Last, TaskOK, StepsOf
        <3>3. SIsMember(db', Holders, Last.to) => Added'
            BY <1>1, <1>2, <2>1, <2>2, <2>4, <2>5, <2>6
               DEF CalmStore, Calm, Added, Removed, Before, SIsMember, Converged, Last, TaskOK, StepsOf
        <3>4. Added' /\ ~SIsMember(db', Holders, Last.to) => Removed' /\ ~HExists(db', Active, Entity)
            BY <1>1, <1>2, <2>1, <2>2, <2>4, <2>5, <2>6
               DEF CalmStore, Calm, Added, Removed, Before, SIsMember, Converged, Last, TaskOK, StepsOf
        <3>5. ~HExists(db', Active, Entity) =>
                 (Added' /\ Removed') \/ (task'[Last.from].op = "start" /\ task'[Last.from].at = "write")
            BY <1>1, <1>2, <2>1, <2>2, <2>4, <2>5, <2>6
               DEF CalmStore, Calm, Added, Removed, Before, SIsMember, Converged, Last, TaskOK, StepsOf
        <3>6. \A q \in Recorders :
                 /\ task'[q].at \in {"clear", "clearHolders"} => Added' /\ Removed'
                 /\ task'[q].at = "clearHolders" => ~HExists(db', Active, Entity)
            BY <1>1, <1>2, <2>1, <2>2, <2>4, <2>5, <2>6
               DEF CalmStore, Calm, Added, Removed, Before, SIsMember, Converged, Last, TaskOK, StepsOf
        <3>7. Added' /\ Removed' /\ SIsMember(db', Holders, Last.to) =>
                 \E q \in Recorders : task'[q].at \in {"expire", "finalize", "clear", "clearHolders"}
            BY <1>1, <1>2, <2>1, <2>2, <2>4, <2>5, <2>6
               DEF CalmStore, Calm, Added, Removed, Before, SIsMember, Converged, Last, TaskOK, StepsOf
        <3> QED BY <2>2, <2>4, <3>1, <3>2, <3>3, <3>4, <3>5, <3>6, <3>7 DEF CalmStore
    <2> QED BY <2>3, <2>7
<1> QED BY <1>1, <1>4, <1>5 DEF RecordsInv

\* A transfer that begins undisturbed finds the one before it over and cleared.
LEMMA BeginInv ==
    ASSUME RecordsInv, NEW s \in Recorders, NEW r \in Recorders, Begin(s, r)
    PROVE  RecordsInv'
<1> DEFINE n == Len(transfers)
           new == [from |-> s, to |-> r, adopted |-> "no", committed |-> "no"]
<1>1. RecordsOK /\ NoPhantomHolder
    BY DEF RecordsInv
<1>2. transfers \in Seq(Handovers) /\ n \in Nat
    BY <1>1, LenProperties DEF RecordsOK
<1>3. /\ task[s] = Idle /\ s \in held /\ r # s /\ transfers' = Append(transfers, new)
      /\ task' = [task EXCEPT ![s] = Task("start", n + 1, "write")]
      /\ UNCHANGED <<db, held>>
    BY DEF Begin
<1>4. /\ \A q \in Recorders : q # s => task'[q] = task[q]
      /\ task'[s] \in Tasks /\ task'[s].op = "start" /\ task'[s].k = n + 1
      /\ task'[s].at = "write" /\ task'[s].at \in StepsOf("start")
      /\ task' = [q \in Recorders |-> task'[q]]
    <2>1. n + 1 \in Nat /\ "write" \in Steps /\ "write" \in StepsOf("start")
        BY <1>2 DEF Steps, StepsOf
    <2>2. task = [q \in Recorders |-> task[q]]
        BY <1>1 DEF RecordsOK
    <2> QED BY <1>3, <2>1, <2>2 DEF Task, Tasks
<1>5. new \in Handovers
    BY DEF Handovers
<1>6. /\ transfers' \in Seq(Handovers) /\ Len(transfers') = n + 1
      /\ transfers'[n + 1] = new /\ \A k \in 1..n : transfers'[k] = transfers[k]
    BY <1>2, <1>3, <1>5, AppendProperties
<1> HIDE DEF n
<1>7. Idle.op = "idle" /\ Idle.at = "end" /\ Crashed.op = "crashed"
    BY DEF Idle, Crashed, Task
<1>8. RecordsOK'
    <2>1. TaskOK(s)'
        BY <1>2, <1>3, <1>4, <1>6 DEF TaskOK, Transfer
    <2>2. ASSUME NEW q \in Recorders, q # s PROVE TaskOK(q)'
        BY <1>1, <1>2, <1>3, <1>4, <1>6, <2>2 DEF TaskOK, Transfer, RecordsOK, n
    <2>3. \A k \in 1..Len(transfers') : transfers'[k].from # transfers'[k].to
        BY <1>1, <1>2, <1>3, <1>6 DEF RecordsOK, Transfer, n
    <2> QED BY <1>1, <1>3, <1>4, <1>6, <2>1, <2>2, <2>3 DEF RecordsOK, Transfer
<1>9. NoPhantomHolder'
    BY <1>1, <1>3, <1>4, StoreContents DEF NoPhantomHolder, RecordsOK
<1>10. ASSUME disturbed' = {} PROVE (Calm /\ CalmStore)'
    <2>1. /\ disturbed = {} /\ \A k \in 1..n : Transfer(k).committed = "yes"
          /\ \A k \in 1..n : \A q \in Recorders : ~(task[q].op = "commit" /\ task[q].k = k)
        <3>1. DOMAIN transfers = 1..n
            BY <1>2, LenProperties DEF n
        <3>2. \A k \in 1..n : transfers[k] \in Handovers
            BY <1>2, ElementOfSeq DEF n
        <3>3. \A k \in 1..n : Transfer(k).committed \in {"yes", "no"}
            BY <3>2 DEF Handovers, Transfer
        <3> QED BY <1>10, <3>1, <3>3 DEF Begin
    <2>2. Calm /\ CalmStore
        BY <2>1 DEF RecordsInv
    <2>3. \A q \in Recorders : task[q].op = "idle"
        <3> SUFFICES ASSUME NEW q \in Recorders, task[q].op # "idle" PROVE FALSE
            OBVIOUS
        <3>1. TaskOK(q)
            BY <1>1 DEF RecordsOK
        <3>2. task[q].op \in {"start", "adopt", "commit"} /\ task[q].k = n
            BY <2>2, <3>1 DEF Calm, TaskOK, Tasks, n
        <3>3. n \in 1..n /\ Last.committed = "yes"
            BY <2>1, <3>1, <3>2 DEF TaskOK, Last, n
        <3>4. task[q].op = "adopt"
            BY <2>1, <2>2, <3>2, <3>3 DEF Calm
        <3>5. q = Last.to /\ held = {Last.to}
            BY <2>2, <3>1, <3>2, <3>3, <3>4, <1>2, EmptySeq DEF Calm, TaskOK, Last, n
        <3> QED BY <1>3, <1>7, <3>2, <3>4, <3>5
    <2>4. SMembers(db, Holders) = {} /\ ~HExists(db, Active, Entity)
        <3>1. CASE transfers = <<>>
            BY <2>2, <3>1 DEF CalmStore
        <3>2. CASE transfers # <<>>
            <4>1. n \in 1..n
                BY <1>2, <3>2, EmptySeq DEF n
            <4>2. Last.committed = "yes"
                BY <2>1, <4>1 DEF Last, n
            <4>3. Last.adopted = "yes"
                BY <1>3, <2>2, <3>2, <4>2 DEF Calm
            <4>4. transfers[n] \in Handovers
                BY <1>2, <4>1, ElementOfSeq DEF n
            <4>5. Last.from \in Recorders /\ Last.to \in Recorders
                BY <4>4 DEF Handovers, Last, Transfer, n
            <4>6. Added /\ Removed
                BY <2>3, <4>2, <4>3, <4>5 DEF Added, Removed, Before
            <4>7. \A q \in Recorders : task[q].at = "end"
                BY <1>1, <2>3 DEF RecordsOK, TaskOK, Task
            <4> QED BY <2>2, <3>2, <4>6, <4>7 DEF CalmStore, SIsMember
        <3> QED BY <3>1, <3>2
    <2>5. Last' = new /\ transfers' # <<>>
        BY <1>2, <1>6, EmptySeq DEF Last, Transfer, n
    <2>6. \A k \in 1..n : Transfer(k).adopted = "yes" /\ Transfer(k).committed = "yes"
        <3>1. n \in 1..n => Last.adopted = "yes"
            BY <1>2, <1>3, <2>1, <2>2, EmptySeq DEF Calm, Last, n
        <3> QED BY <1>2, <2>1, <2>2, <3>1 DEF Calm, Last, n
    <2>7. Calm'
        <3>1. held = {s}
            <4>1. CASE transfers = <<>>
                BY <1>3, <2>2, <4>1 DEF Calm
            <4>2. CASE transfers # <<>>
                <5>1. n \in 1..n
                    BY <1>2, <4>2, EmptySeq DEF n
                <5>2. Last.committed = "yes"
                    BY <2>1, <5>1 DEF Last, n
                <5> QED BY <1>3, <2>2, <4>2, <5>2 DEF Calm
            <4> QED BY <4>1, <4>2
        <3>2. \A k \in 1..(Len(transfers') - 1) :
                  transfers'[k].adopted = "yes" /\ transfers'[k].committed = "yes"
            BY <1>2, <1>6, <2>6 DEF Transfer
        <3> QED BY <1>2, <1>3, <1>4, <1>6, <2>3, <2>5, <3>1, <3>2 DEF Calm, Transfer
    <2>8. \A q \in Recorders : q # s => task'[q].op = "idle" /\ task'[q].at = "end"
        BY <1>1, <1>4, <2>3 DEF RecordsOK, TaskOK, Task
    <2>9. CalmStore'
        BY <1>3, <1>4, <2>4, <2>5, <2>8 DEF CalmStore, Added, Removed, Before, SIsMember
    <2> QED BY <2>7, <2>9
<1> QED BY <1>8, <1>9, <1>10 DEF RecordsInv

\* The target adopts the last transfer when nothing was disturbed.
LEMMA AdoptInv ==
    ASSUME RecordsInv, NEW k \in DOMAIN transfers, Adopt(k)
    PROVE  RecordsInv'
<1> DEFINE n == Len(transfers)
<1>0. PICK r : r = Transfer(k).to
    OBVIOUS
<1>1. RecordsOK /\ NoPhantomHolder
    BY DEF RecordsInv
<1>2. transfers \in Seq(Handovers) /\ n \in Nat /\ k \in 1..n /\ DOMAIN transfers = 1..n
    BY <1>1, LenProperties DEF RecordsOK
<1>3. /\ \A j \in 1..n : transfers[j] \in Handovers
      /\ r \in Recorders /\ Transfer(k).from \in Recorders /\ Transfer(k).from # r
    <2>1. \A j \in 1..n : transfers[j] \in Handovers
        BY <1>2, ElementOfSeq
    <2> QED BY <1>0, <1>1, <1>2, <2>1 DEF Handovers, Transfer, RecordsOK
<1>4. /\ task[r] = Idle /\ Transfer(k).adopted = "no" /\ held' = held \cup {r}
      /\ transfers' = [transfers EXCEPT ![k].adopted = "yes"]
      /\ task' = [task EXCEPT ![r] = Task("adopt", k, "read")]
      /\ UNCHANGED db
    BY <1>0 DEF Adopt
<1>5. /\ \A q \in Recorders : q # r => task'[q] = task[q]
      /\ task'[r] \in Tasks /\ task'[r].op = "adopt" /\ task'[r].k = k
      /\ task'[r].at = "read" /\ task'[r].at \in StepsOf("adopt")
      /\ task' = [q \in Recorders |-> task'[q]]
    <2>1. k \in Nat /\ "read" \in Steps /\ "read" \in StepsOf("adopt")
        BY <1>2 DEF Steps, StepsOf
    <2>2. task = [q \in Recorders |-> task[q]]
        BY <1>1 DEF RecordsOK
    <2> QED BY <1>3, <1>4, <2>1, <2>2 DEF Task, Tasks
<1>6. /\ transfers' \in Seq(Handovers) /\ Len(transfers') = n
      /\ transfers'[k].adopted = "yes" /\ transfers'[k].committed = Transfer(k).committed
      /\ transfers'[k].from = Transfer(k).from /\ transfers'[k].to = r
      /\ \A j \in 1..n : j # k => transfers'[j] = transfers[j]
    <2> DEFINE h == [transfers[k] EXCEPT !.adopted = "yes"]
    <2>1. h \in Handovers /\ h.adopted = "yes" /\ h.committed = Transfer(k).committed
          /\ h.from = Transfer(k).from /\ h.to = r
        BY <1>0, <1>2, <1>3 DEF Handovers, Transfer
    <2>2. transfers' = [transfers EXCEPT ![k] = h]
        BY <1>4
    <2> HIDE DEF h
    <2> QED BY <1>2, <1>3, <2>1, <2>2, ExceptSeq
<1> HIDE DEF n
<1>7. Idle.op = "idle" /\ Idle.at = "end" /\ Crashed.op = "crashed"
    BY DEF Idle, Crashed, Task
<1>8. RecordsOK'
    <2>1. \A j \in 1..n : transfers'[j].from = Transfer(j).from /\ transfers'[j].to = Transfer(j).to
        BY <1>0, <1>6 DEF Transfer
    <2>2. TaskOK(r)'
        BY <1>2, <1>3, <1>4, <1>5, <1>6 DEF TaskOK, Transfer
    <2>3. ASSUME NEW q \in Recorders, q # r PROVE TaskOK(q)'
        BY <1>1, <1>4, <1>5, <1>6, <2>1, <2>3 DEF TaskOK, Transfer, RecordsOK, n
    <2> QED BY <1>1, <1>3, <1>4, <1>5, <1>6, <2>1, <2>2, <2>3 DEF RecordsOK, Transfer, n
<1>9. NoPhantomHolder'
    BY <1>1, <1>4, <1>5, <1>7, StoreContents DEF NoPhantomHolder, RecordsOK
<1>10. ASSUME disturbed' = {} PROVE (Calm /\ CalmStore)'
    <2>1. disturbed = {} /\ ~Starting(k)
        BY <1>10 DEF Adopt
    <2>2. Calm /\ CalmStore
        BY <2>1 DEF RecordsInv
    <2>3. k = n /\ transfers # <<>> /\ transfers' # <<>>
        BY <1>2, <1>4, <1>6, <2>2, EmptySeq DEF Calm, n
    <2>4. /\ Last = Transfer(k) /\ Last'.from = Last.from /\ Last'.to = r /\ Last.to = r
          /\ Last'.adopted = "yes" /\ Last'.committed = Last.committed /\ Last.adopted = "no"
        BY <1>0, <1>4, <1>6, <2>3 DEF Last, Transfer, n
    <2>5. \A q \in Recorders : task[q].op = "start" => FALSE
        <3> SUFFICES ASSUME NEW q \in Recorders, task[q].op = "start" PROVE FALSE
            OBVIOUS
        <3>1. task[q].k = k /\ q = Transfer(k).from
            BY <1>1, <2>2, <2>3 DEF Calm, RecordsOK, TaskOK, n
        <3> QED BY <2>1, <3>1 DEF Starting
    <2>6. Calm'
        <3>1. \A j \in 1..(Len(transfers') - 1) :
                  transfers'[j].adopted = "yes" /\ transfers'[j].committed = "yes"
            <4>1. Len(transfers') - 1 = n - 1 /\ \A j \in 1..(n - 1) : j \in 1..n /\ j # k
                BY <1>2, <1>6, <2>2, <2>3
            <4>2. \A j \in 1..(n - 1) : transfers[j].adopted = "yes" /\ transfers[j].committed = "yes"
                BY <2>2 DEF Calm, Transfer, n
            <4>3. \A j \in 1..(n - 1) : transfers'[j] = transfers[j]
                BY <1>6, <4>1 DEF Transfer
            <4> QED BY <4>1, <4>2, <4>3
        <3> QED BY <1>3, <1>4, <1>5, <1>6, <2>2, <2>3, <2>4, <2>5, <3>1 DEF Calm, Transfer, n
    <2>7. CalmStore'
        BY <1>3, <1>4, <1>5, <1>7, <2>2, <2>3, <2>4, <2>5
           DEF CalmStore, Added, Removed, Before, SIsMember
    <2> QED BY <2>6, <2>7
<1> QED BY <1>8, <1>9, <1>10 DEF RecordsInv

\* The source commits: it is still a holder, and about to take itself out.
LEMMA CommitInv ==
    ASSUME RecordsInv, NEW k \in DOMAIN transfers, Commit(k)
    PROVE  RecordsInv'
<1> DEFINE n == Len(transfers)
<1>0. PICK s : s = Transfer(k).from
    OBVIOUS
<1>1. RecordsOK /\ NoPhantomHolder
    BY DEF RecordsInv
<1>2. transfers \in Seq(Handovers) /\ n \in Nat /\ k \in 1..n /\ DOMAIN transfers = 1..n
    BY <1>1, LenProperties DEF RecordsOK
<1>3. /\ \A j \in 1..n : transfers[j] \in Handovers
      /\ s \in Recorders /\ Transfer(k).to \in Recorders /\ Transfer(k).to # s
    <2>1. \A j \in 1..n : transfers[j] \in Handovers
        BY <1>2, ElementOfSeq
    <2> QED BY <1>0, <1>1, <1>2, <2>1 DEF Handovers, Transfer, RecordsOK
<1>4. /\ task[s] = Idle /\ Transfer(k).committed = "no" /\ held' = held \ {s}
      /\ transfers' = [transfers EXCEPT ![k].committed = "yes"]
      /\ task' = [task EXCEPT ![s] = Task("commit", k, "read")]
      /\ UNCHANGED <<db, disturbed>>
    BY <1>0 DEF Commit
<1>5. /\ \A q \in Recorders : q # s => task'[q] = task[q]
      /\ task'[s] \in Tasks /\ task'[s].op = "commit" /\ task'[s].k = k
      /\ task'[s].at = "read" /\ task'[s].at \in StepsOf("commit")
      /\ task' = [q \in Recorders |-> task'[q]]
    <2>1. k \in Nat /\ "read" \in Steps /\ "read" \in StepsOf("commit")
        BY <1>2 DEF Steps, StepsOf
    <2>2. task = [q \in Recorders |-> task[q]]
        BY <1>1 DEF RecordsOK
    <2> QED BY <1>3, <1>4, <2>1, <2>2 DEF Task, Tasks
<1>6. /\ transfers' \in Seq(Handovers) /\ Len(transfers') = n
      /\ transfers'[k].committed = "yes" /\ transfers'[k].adopted = Transfer(k).adopted
      /\ transfers'[k].from = s /\ transfers'[k].to = Transfer(k).to
      /\ \A j \in 1..n : j # k => transfers'[j] = transfers[j]
    <2> DEFINE h == [transfers[k] EXCEPT !.committed = "yes"]
    <2>1. h \in Handovers /\ h.committed = "yes" /\ h.adopted = Transfer(k).adopted
          /\ h.from = s /\ h.to = Transfer(k).to
        BY <1>0, <1>2, <1>3 DEF Handovers, Transfer
    <2>2. transfers' = [transfers EXCEPT ![k] = h]
        BY <1>4
    <2> HIDE DEF h
    <2> QED BY <1>2, <1>3, <2>1, <2>2, ExceptSeq
<1> HIDE DEF n
<1>7. Idle.op = "idle" /\ Idle.at = "end" /\ Crashed.op = "crashed"
    BY DEF Idle, Crashed, Task
<1>8. RecordsOK'
    <2>1. \A j \in 1..n : transfers'[j].from = Transfer(j).from /\ transfers'[j].to = Transfer(j).to
        BY <1>0, <1>6 DEF Transfer
    <2>2. TaskOK(s)'
        BY <1>2, <1>3, <1>4, <1>5, <1>6 DEF TaskOK, Transfer
    <2>3. ASSUME NEW q \in Recorders, q # s PROVE TaskOK(q)'
        BY <1>1, <1>4, <1>5, <1>6, <2>1, <2>3 DEF TaskOK, Transfer, RecordsOK, n
    <2> QED BY <1>1, <1>3, <1>4, <1>5, <1>6, <2>1, <2>2, <2>3 DEF RecordsOK, Transfer, n
<1>9. NoPhantomHolder'
    BY <1>1, <1>4, <1>5, <1>7, StoreContents DEF NoPhantomHolder, RecordsOK
<1>10. ASSUME disturbed' = {} PROVE (Calm /\ CalmStore)'
    <2>1. Calm /\ CalmStore
        BY <1>4, <1>10 DEF RecordsInv
    <2>2. k = n /\ transfers # <<>> /\ transfers' # <<>>
        BY <1>2, <1>4, <1>6, <2>1, EmptySeq DEF Calm, n
    <2>3. /\ Last = Transfer(k) /\ Last'.from = s /\ Last.from = s /\ Last'.to = Last.to
          /\ Last'.committed = "yes" /\ Last'.adopted = Last.adopted /\ Last.committed = "no"
        BY <1>0, <1>4, <1>6, <2>2 DEF Last, Transfer, n
    <2>4. \A q \in Recorders : task[q].op = "start" => FALSE
        <3> SUFFICES ASSUME NEW q \in Recorders, task[q].op = "start" PROVE FALSE
            OBVIOUS
        <3>1. task[q].k = k /\ q = s
            BY <1>0, <1>1, <2>1, <2>2 DEF Calm, RecordsOK, TaskOK, n
        <3> QED BY <1>4, <1>7, <3>1
    <2>5. Calm'
        <3>1. \A j \in 1..(Len(transfers') - 1) :
                  transfers'[j].adopted = "yes" /\ transfers'[j].committed = "yes"
            <4>1. Len(transfers') - 1 = n - 1 /\ \A j \in 1..(n - 1) : j \in 1..n /\ j # k
                BY <1>2, <1>6, <2>1, <2>2
            <4>2. \A j \in 1..(n - 1) : transfers[j].adopted = "yes" /\ transfers[j].committed = "yes"
                BY <2>1 DEF Calm, Transfer, n
            <4>3. \A j \in 1..(n - 1) : transfers'[j] = transfers[j]
                BY <1>6, <4>1 DEF Transfer
            <4> QED BY <4>1, <4>2, <4>3
        <3>2. held' = IF Last.adopted = "yes" THEN {Last.to} ELSE {}
            BY <1>3, <1>4, <2>1, <2>2, <2>3 DEF Calm
        <3> QED BY <1>3, <1>5, <1>6, <2>1, <2>2, <2>3, <2>4, <3>1, <3>2 DEF Calm, Transfer, n
    <2>6. CalmStore'
        BY <1>3, <1>4, <1>5, <1>7, <2>1, <2>2, <2>3, <2>4
           DEF CalmStore, Added, Removed, Before, SIsMember
    <2> QED BY <2>5, <2>6
<1> QED BY <1>8, <1>9, <1>10 DEF RecordsInv

\* The end of the holders' time to live makes nobody a holder, a crash nobody but a
\* crashed shard a stale one; both disturb the bookkeeping.
LEMMA FaultInv ==
    ASSUME RecordsInv, HoldersExpire \/ \E s \in Recorders : RecorderCrash(s)
    PROVE  RecordsInv'
<1>1. RecordsOK /\ NoPhantomHolder
    BY DEF RecordsInv
<1>2. CASE HoldersExpire
    <2>1. db' = DelKey(db, Holders) /\ UNCHANGED <<held, transfers, task>> /\ disturbed' # {}
        BY <1>2 DEF HoldersExpire
    <2>2. StoreOK(db') /\ SMembers(db', Holders) = {}
        BY <1>1, <2>1, DeletesHolders DEF RecordsOK
    <2>3. RecordsOK'
        BY <1>1, <2>1, <2>2 DEF RecordsOK, TaskOK, Transfer
    <2> QED BY <2>1, <2>2, <2>3 DEF RecordsInv, NoPhantomHolder
<1>3. ASSUME NEW s \in Recorders, RecorderCrash(s) PROVE RecordsInv'
    <2>1. /\ task' = [task EXCEPT ![s] = Crashed] /\ held' = held \ {s}
          /\ UNCHANGED <<db, transfers>> /\ disturbed' # {}
        BY <1>3 DEF RecorderCrash
    <2>2. /\ Crashed \in Tasks /\ Crashed.op = "crashed" /\ Crashed.at \in StepsOf(Crashed.op)
          /\ Crashed = Task("crashed", 0, "end")
        BY DEF Crashed, Task, Tasks, Steps, StepsOf
    <2>3. /\ task' = [q \in Recorders |-> task'[q]] /\ task'[s] = Crashed
          /\ \A q \in Recorders : q # s => task'[q] = task[q]
        BY <1>1, <2>1 DEF RecordsOK
    <2>4. RecordsOK'
        BY <1>1, <2>1, <2>2, <2>3 DEF RecordsOK, TaskOK, Transfer
    <2>5. NoPhantomHolder'
        BY <1>1, <2>1, <2>3, StoreContents DEF NoPhantomHolder, RecordsOK
    <2> QED BY <2>1, <2>4, <2>5 DEF RecordsInv
<1> QED BY <1>2, <1>3

\* RecordsInv holds in every reachable state.
THEOREM RecordsInvariant == RecordsSpec => []RecordsInv
<1>1. RecordsInv /\ [RecordsNext]_recordsVars => RecordsInv'
    <2> SUFFICES ASSUME RecordsInv, [RecordsNext]_recordsVars PROVE RecordsInv'
        OBVIOUS
    <2>1. CASE UNCHANGED recordsVars
        <3>1. RecordsOK'
            BY <2>1 DEF recordsVars, RecordsInv, RecordsOK, TaskOK, Transfer
        <3>2. NoPhantomHolder'
            BY <2>1 DEF recordsVars, RecordsInv, NoPhantomHolder
        <3>3. disturbed' = {} => (Calm /\ CalmStore)'
            <4>1. Calm => Calm'
                BY <2>1 DEF recordsVars, Calm, Last, Transfer
            <4>2. CalmStore => CalmStore'
                <5>1. UNCHANGED <<db, transfers, task>> /\ Last' = Last
                    BY <2>1 DEF recordsVars, Last, Transfer
                <5>2. Added' = Added /\ Removed' = Removed
                    BY <5>1 DEF Added, Removed, Before
                <5>3. Before(Last.from, "start")' = Before(Last.from, "start")
                    BY <5>1 DEF Before
                <5> QED BY <5>1, <5>2, <5>3 DEF CalmStore
            <4>3. disturbed' = disturbed
                BY <2>1 DEF recordsVars
            <4> QED BY <4>1, <4>2, <4>3 DEF RecordsInv
        <3> QED BY <3>1, <3>2, <3>3 DEF RecordsInv
    <2> QED BY <2>1, ManifestInv, BeginInv, AdoptInv, CommitInv, FaultInv DEF RecordsNext
<1> QED BY RecordsStart, <1>1, PTL DEF RecordsSpec

\* Every live shard in the set of holders simulates the entity or is about to take itself
\* out, for any number of shards, overlapping transfers, expirations and crashes.
THEOREM HoldersAreReal == RecordsSpec => []NoPhantomHolder
<1>1. RecordsInv => NoPhantomHolder
    BY DEF RecordsInv
<1> QED BY <1>1, RecordsInvariant, PTL

\* The record of a transfer lives exactly as long as the transfer, through any number of
\* them, while none overlaps the next, none is adopted early, nothing expires or crashes.
THEOREM RecordsLiveAsLong == RecordsSpec => []RecordLifetime
<1>1. RecordsInv => RecordLifetime
    <2> SUFFICES ASSUME RecordsOK, disturbed = {}, Calm, CalmStore
                 PROVE  RecordLifetime
        BY DEF RecordsInv, RecordLifetime, RecordKept, ClearedWhenCalm
    <2> DEFINE n == Len(transfers)
    <2>1. /\ transfers \in Seq(Handovers) /\ n \in Nat /\ DOMAIN transfers = 1..n
          /\ transfers = <<>> <=> n = 0
        BY LenProperties, EmptySeq DEF RecordsOK
    <2> HIDE DEF n
    <2>2. RecordKept
        <3> SUFFICES ASSUME NEW k \in 1..n, Transfer(k).adopted = "no" \/ Transfer(k).committed = "no",
                            ~Starting(k)
                     PROVE  HExists(db, Active, Entity)
            BY <2>1 DEF RecordKept
        <3>1. k = n /\ Last = Transfer(k) /\ transfers # <<>>
            <4>1. k \notin 1..(n - 1)
                BY DEF Calm, n
            <4>2. k = n /\ n # 0
                BY <2>1, <4>1
            <4> QED BY <2>1, <4>2 DEF Last, n
        <3>2. ~(Added /\ Removed)
            BY <3>1 DEF Added, Removed
        <3>3. transfers[n] \in Handovers
            BY <2>1, <3>1, ElementOfSeq DEF n
        <3>4. Last.from \in Recorders
            BY <3>1, <3>3 DEF Handovers, Transfer
        <3>5. task[Last.from].op = "start" => task[Last.from].k = k
            BY <3>1, <3>4 DEF Calm, n
        <3> QED BY <3>1, <3>2, <3>5 DEF CalmStore, Starting
    <2>3. ClearedWhenCalm
        <3> SUFFICES ASSUME \A s \in Recorders : task[s] = Idle,
                            \A k \in 1..n : Transfer(k).adopted = "yes" /\ Transfer(k).committed = "yes"
                     PROVE  ~HExists(db, Active, Entity) /\ ~Exists(db, Holders)
            BY <2>1 DEF ClearedWhenCalm
        <3>1. SMembers(db, Holders) = {} /\ ~HExists(db, Active, Entity)
            <4>1. CASE n = 0
                BY <2>1, <4>1 DEF CalmStore
            <4>2. CASE n # 0
                <5>1. n \in 1..n /\ transfers # <<>> /\ Last = Transfer(n)
                    BY <2>1, <4>2 DEF Last, n
                <5>2. transfers[n] \in Handovers
                    BY <2>1, <5>1, ElementOfSeq DEF n
                <5>3. Last.from \in Recorders /\ Last.to \in Recorders
                    BY <5>1, <5>2 DEF Handovers, Transfer
                <5>4. Idle.op = "idle" /\ Idle.at = "end"
                    BY DEF Idle, Task
                <5>5. Added /\ Removed
                    BY <5>1, <5>3, <5>4 DEF Added, Removed, Before
                <5> QED BY <5>1, <5>4, <5>5 DEF CalmStore, SIsMember
            <4> QED BY <4>1, <4>2
        <3> QED BY <3>1, StoreContents DEF RecordsOK
    <2> QED BY <2>2, <2>3 DEF RecordLifetime
<1> QED BY <1>1, RecordsInvariant, PTL

-----------------------------------------------------------------------------
(* The lease *)

\* Whoever takes the time to live from the lease is about to give it back.
THEOREM LeasesRunOut == LeaseSpec => []LeaseRunsOut
<1>1. LeaseInit => LeaseInv
    BY DEF LeaseInit, LeaseInv, LeaseRunsOut
<1>2. LeaseInv /\ [LeaseNext]_leaseVars => LeaseInv'
    <2> SUFFICES ASSUME LeaseInv, [LeaseNext]_leaseVars PROVE LeaseInv'
        OBVIOUS
    <2> USE DEF LeaseInv, LeaseRunsOut, PacketGoes, TickGoes
    <2>1. ASSUME NEW s \in Peers, MarkActivity(s) PROVE LeaseInv'
        BY <2>1 DEF MarkActivity
    <2>2. ASSUME NEW s \in Peers, AcquireStep(s) PROVE LeaseInv'
        BY <2>2 DEF AcquireStep, AcquireGet, AcquireSet, AcquireExpire, TimedLease
    <2>3. ASSUME NEW s \in Peers, ReapPeer(s) \/ ReleaseStep(s) PROVE LeaseInv'
        BY <2>3 DEF ReapPeer, ReleaseStep, ReleaseGet, ReleaseDel, ErasePeer
    <2>4. ASSUME NEW s \in Peers, PeerCrash(s) PROVE LeaseInv'
        BY <2>4 DEF PeerCrash
    <2>5. CASE LeaseExpires
        BY <2>5 DEF LeaseExpires
    <2>6. CASE UNCHANGED leaseVars
        BY <2>6 DEF leaseVars
    <2> QED BY <2>1, <2>2, <2>3, <2>4, <2>5, <2>6 DEF LeaseNext
<1>3. LeaseInv => LeaseRunsOut
    BY DEF LeaseInv
<1> QED BY <1>1, <1>2, <1>3, PTL DEF LeaseSpec
-----------------------------------------------------------------------------
(* AuthorityTelemetry *)

\* What HSET leaves in its hash and in the others.
LEMMA HSetReads ==
    ASSUME NEW d, NEW key, NEW field, NEW value
    PROVE  /\ HGetAll(HSet(d, key, field, value), key)[field] = value
           /\ \A other : other # key =>
                  HGetAll(HSet(d, key, field, value), other) = HGetAll(d, other)
<1> DEFINE h == [f \in DOMAIN HGetAll(d, key) \cup {field} |->
                   IF f = field THEN value ELSE HGetAll(d, key)[f]]
<1>1. HSet(d, key, field, value) = Put(d, key, h)
    BY DEF HSet
<1>2. h[field] = value
    OBVIOUS
<1> HIDE DEF h
<1>3. HGetAll(Put(d, key, h), key) = h
    BY DEF Put, HGetAll, Exists
<1>4. ASSUME NEW other, other # key
      PROVE  HGetAll(Put(d, key, h), other) = HGetAll(d, other)
    BY <1>4 DEF Put, HGetAll, Exists
<1> QED BY <1>1, <1>2, <1>3, <1>4

\* A command of a publication writes one table and moves on.
LEMMA TableWritten ==
    ASSUME TelemetryInv, NEW s \in Publishers, NEW table, NEW value,
           NEW next \in {"snapshot", "meta", "idle"}, publish[s].at \notin {"idle", "dead"},
           WriteTable(s, table, value, next)
    PROVE  TelemetryInv'
<1>1. s \in tracking /\ tracking' = tracking
    BY DEF TelemetryInv, WriteTable
<1> DEFINE p == IF next = "idle" THEN NoProcedure ELSE [publish[s] EXCEPT !.at = next]
<1>2. p = [f \in DOMAIN p |-> p[f]] /\ "at" \in DOMAIN p
    <2>1. publish[s] = [f \in DOMAIN publish[s] |-> publish[s][f]] /\ "at" \in DOMAIN publish[s]
        BY DEF TelemetryInv
    <2>2. CASE next = "idle"
        BY <2>2 DEF NoProcedure
    <2>3. CASE next # "idle"
        BY <2>1, <2>3
    <2> QED BY <2>2, <2>3
<1>3. publish' = [publish EXCEPT ![s] = p]
    BY DEF WriteTable
<1> HIDE DEF p
<1> QED BY <1>1, <1>2, <1>3 DEF TelemetryInv

\* Every step preserves the invariant: a shard adopts and commits between publications.
LEMMA TelemetryStep == TelemetryInv /\ [TelemetryNext]_telemetryVars => TelemetryInv'
<1> SUFFICES ASSUME TelemetryInv, [TelemetryNext]_telemetryVars PROVE TelemetryInv'
    OBVIOUS
<1>1. ASSUME NEW s \in Publishers, NEW r \in Publishers, StartMove(s, r) PROVE TelemetryInv'
    BY <1>1 DEF StartMove, TelemetryInv
<1>2. ASSUME NEW m \in moving, FinishMove(m) PROVE TelemetryInv'
    <2>1. /\ publish[Mover(m)].at = "idle" /\ publish' = publish
          /\ tracking \ {Mover(m)} \subseteq tracking'
        BY <1>2 DEF FinishMove, NoProcedure
    <2> QED BY <2>1 DEF TelemetryInv
<1>3. ASSUME NEW s \in Publishers, PublishFromTracker(s) PROVE TelemetryInv'
    BY <1>3 DEF PublishFromTracker, CollectTelemetryRows, TelemetryInv
<1>4. ASSUME NEW s \in Publishers, ReadPrevious(s) PROVE TelemetryInv'
    <2>1. s \in tracking /\ tracking' = tracking
        BY <1>4 DEF ReadPrevious, TelemetryInv
    <2>2. PICK last : publish' = [publish EXCEPT ![s] = [at |-> "row", last |-> last]]
        BY <1>4 DEF ReadPrevious
    <2> QED BY <2>1, <2>2 DEF TelemetryInv
<1>5. ASSUME NEW s \in Publishers, WriteRow(s) \/ WriteSnapshot(s) \/ WriteMeta(s)
      PROVE  TelemetryInv'
    BY <1>5, TableWritten DEF WriteRow, WriteSnapshot, WriteMeta
<1>6. ASSUME NEW s \in Publishers, Death(s) PROVE TelemetryInv'
    BY <1>6 DEF Death, TelemetryInv
<1>7. CASE UNCHANGED telemetryVars
    BY <1>7 DEF telemetryVars, TelemetryInv
<1> QED BY <1>1, <1>2, <1>3, <1>4, <1>5, <1>6, <1>7 DEF TelemetryNext, TelemetryUpdate

\* What a step does to the rows and the snapshots, it does as a shard that has the entity.
LEMMA TrackerPublishes ==
    ASSUME TelemetryInv, TelemetryNext, NEW t \in {Rows, Snapshots},
           HGetAll(tables', t) # HGetAll(tables, t)
    PROVE  \E s \in tracking : HGet(tables', t, TracedEntity) = s
<1>1. tables' # tables
    OBVIOUS
<1>2. PICK s \in Publishers : WriteRow(s) \/ WriteSnapshot(s) \/ WriteMeta(s)
    BY <1>1 DEF TelemetryNext, TelemetryUpdate, StartMove, FinishMove, PublishFromTracker,
                ReadPrevious, Death
<1>3. s \in tracking
    BY <1>2 DEF TelemetryInv, WriteRow, WriteSnapshot, WriteMeta
<1>4. CASE WriteMeta(s)
    <2>1. PICK v : tables' = HSet(tables, Meta, TracedEntity, v)
        BY <1>4 DEF WriteMeta, WriteTable
    <2>2. t # Meta
        BY DEF Rows, Snapshots, Meta
    <2> QED BY <2>1, <2>2, HSetReads
<1>5. CASE WriteRow(s) \/ WriteSnapshot(s)
    <2>1. PICK u \in {Rows, Snapshots} : tables' = HSet(tables, u, TracedEntity, s)
        BY <1>5 DEF WriteRow, WriteSnapshot, WriteTable
    <2>2. u = t
        BY <2>1, HSetReads
    <2>3. HGetAll(tables', t)[TracedEntity] = s
        BY <2>1, <2>2, HSetReads
    <2> QED BY <1>3, <2>3 DEF HGet
<1> QED BY <1>2, <1>4, <1>5

\* A row or a snapshot changes only to one of a shard that has the entity, for any number
\* of shards, handoffs and crashes and any interleaving of their commands.
THEOREM RowsAreTrackers == TelemetrySpec => PublishedByTracker
<1>1. TelemetryInit => TelemetryInv
    BY DEF TelemetryInit, TelemetryInv, NoProcedure
<1>2. TelemetryInv /\ [TelemetryNext]_telemetryVars =>
          [\A t \in {Rows, Snapshots} :
               HGetAll(tables', t) # HGetAll(tables, t)
                   => \E s \in tracking : HGet(tables', t, TracedEntity) = s]_telemetryVars
    BY TrackerPublishes
<1> QED BY <1>1, <1>2, TelemetryStep, PTL DEF TelemetrySpec, PublishedByTracker

=============================================================================
