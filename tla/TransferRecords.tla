--------------------------- MODULE TransferRecords ---------------------------
(***************************************************************************)
(* What a handoff of ServerHandoff leaves in the database, command by      *)
(* command: the record of the active transfer and the set of its holders   *)
(* (HandoffTransferManifest).  Records of different entities do not meet,  *)
(* so the model follows one entity.                                        *)
(*                                                                         *)
(* A shard is single threaded: it runs one procedure of the manifests at a *)
(* time and a step is one command.  The packet leaves before the record is *)
(* written, and a target adopts and a source commits by its own clock, so  *)
(* their procedures interleave freely, save that a shard which gets the    *)
(* entity back has committed its own handoff of it before (ChainInv of     *)
(* ServerHandoff, with a Tick at least once per handoff delay).            *)
(***************************************************************************)
EXTENDS RedisStore, Sequences

CONSTANTS
    Recorders,         \* shards
    Seeder,            \* the shard that seeded the entity
    Entity,            \* the entity, as a hash field
    MaxTransfers,      \* bound on handoffs
    MaxExpiries,       \* bound on expirations of the holders key
    MaxRecordCrashes   \* bound on crashes

ASSUME RecordsAssumption == Seeder \in Recorders

VARIABLES
    db,        \* the key space
    volatile,  \* keys that have a time to live
    held,      \* shards whose simulator holds the entity
    transfers, \* the handoffs so far, in order
    task,      \* what each shard is doing
    disturbed, \* history: what has upset the bookkeeping so far
    expiries, recordCrashes

recordsVars == <<db, volatile, held, transfers, task, disturbed, expiries, recordCrashes>>

\* kActiveTransferTable and HoldersKey.
Active == "TransferActive"
Holders == "TransferHolders"

\* A procedure for transfer k about to do step at, with the record that TryGet found.
Task(op, k, at) == [op |-> op, k |-> k, at |-> at, seen |-> {}]
Idle == Task("idle", 0, "end")
Crashed == Task("crashed", 0, "end")
Transfer(k) == transfers[k]
Starting(k) == task[Transfer(k).from].op = "start" /\ task[Transfer(k).from].k = k
InManifest(s, step) == task[s].op \in {"start", "adopt", "commit"} /\ task[s].at = step

RecordsInit ==
    /\ db = [k \in {} |-> k]
    /\ volatile = {}
    /\ held = {Seeder}
    /\ transfers = <<>>
    /\ task = [s \in Recorders |-> Idle]
    /\ disturbed = {}
    /\ expiries = 0
    /\ recordCrashes = 0

\* One command: the database becomes d, shard s goes on with step at, or is idle.
Command(s, d, at) ==
    /\ db' = d
    /\ volatile' = volatile \cap DOMAIN d
    /\ task' = [task EXCEPT ![s] = IF at = "end" THEN Idle ELSE [@ EXCEPT !.at = at]]
    /\ UNCHANGED <<held, transfers, disturbed, expiries, recordCrashes>>

-----------------------------------------------------------------------------
\* Which record a procedure writes: MarkTransferStarted a new one; the others the one
\* they read, or one of their own when they found none.
Started(k) == [source |-> Transfer(k).from, target |-> Transfer(k).to,
               lastAuthority |-> Transfer(k).from, state |-> "started"]
Read(s) ==
    IF task[s].seen # {} THEN CHOOSE r \in task[s].seen : TRUE
    ELSE Started(task[s].k)
Written(s) ==
    IF task[s].op = "start" THEN Started(task[s].k)
    ELSE [Read(s) EXCEPT !.lastAuthority = Transfer(task[s].k).to,
                         !.state = IF task[s].op = "adopt" THEN "adopted" ELSE "committed"]

\* PlanAndSendAll: the authority hands the entity to r and goes on to MarkTransferStarted.
Begin(s, r) ==
    /\ Len(transfers) < MaxTransfers
    /\ task[s] = Idle
    /\ s \in held
    /\ r # s
    /\ \A k \in DOMAIN transfers : Transfer(k).from = s => Transfer(k).committed = "yes"
    /\ transfers' = Append(transfers, [from |-> s, to |-> r, adopted |-> "no", committed |-> "no"])
    /\ task' = [task EXCEPT ![s] = Task("start", Len(transfers) + 1, "write")]
    /\ disturbed' = disturbed \cup
           (IF \E k \in DOMAIN transfers : \E q \in Recorders :
                  Transfer(k).committed = "no" \/ (task[q].op = "commit" /\ task[q].k = k)
            THEN {"overlap"} ELSE {})
    /\ UNCHANGED <<db, volatile, held, expiries, recordCrashes>>

\* AdoptIncomingIfDue: the target holds the entity, then calls MarkIncomingAdopted.
Adopt(k) ==
    LET r == Transfer(k).to IN
    /\ task[r] = Idle
    /\ Transfer(k).adopted = "no"
    /\ \A j \in 1..(k - 1) : Transfer(j).from = r => Transfer(j).committed = "yes"
    /\ held' = held \cup {r}
    /\ transfers' = [transfers EXCEPT ![k].adopted = "yes"]
    /\ task' = [task EXCEPT ![r] = Task("adopt", k, "read")]
    /\ disturbed' = disturbed \cup
           (IF Starting(k) THEN {"early"} ELSE {})
    /\ UNCHANGED <<db, volatile, expiries, recordCrashes>>

\* CommitOutgoingIfDue: the source drops its copy, then calls MarkOutgoingCommitted.
Commit(k) ==
    LET s == Transfer(k).from IN
    /\ task[s] = Idle
    /\ Transfer(k).committed = "no"
    /\ held' = held \ {s}
    /\ transfers' = [transfers EXCEPT ![k].committed = "yes"]
    /\ task' = [task EXCEPT ![s] = Task("commit", k, "read")]
    /\ UNCHANGED <<db, volatile, disturbed, expiries, recordCrashes>>

\* TryGet.
TryGet(s) ==
    /\ InManifest(s, "read")
    /\ task' = [task EXCEPT ![s] =
           [@ EXCEPT !.at = "write",
                     !.seen = IF HExists(db, Active, Entity) THEN {HGet(db, Active, Entity)} ELSE {}]]
    /\ UNCHANGED <<db, volatile, held, transfers, disturbed, expiries, recordCrashes>>

\* Upsert.
Upsert(s) ==
    /\ InManifest(s, "write")
    /\ Command(s, HSet(db, Active, Entity, Written(s)), "holders")

\* SADD of the source or of the target, SREM of the source that committed.
NewHolders_NoRemoval(s) == SAdd(db, Holders, {s})
NewHolders(s) ==
    IF task[s].op = "commit" THEN SRem(db, Holders, {s}) ELSE SAdd(db, Holders, {s})
AfterHolders(s) == IF task[s].op = "commit" THEN "finalize" ELSE "expire"
UpdateHolders(s) ==
    /\ InManifest(s, "holders")
    /\ Command(s, NewHolders(s), AfterHolders(s))

\* EXPIRE of kHolderKeyTtl: false, and nothing, when the key is gone.  The target goes
\* on to finalize, as the source does when it commits.
AfterExpire(s) == IF task[s].op = "start" THEN Idle ELSE [task[s] EXCEPT !.at = "finalize"]
Expire(s) ==
    /\ InManifest(s, "expire")
    /\ volatile' = volatile \cup ({Holders} \cap DOMAIN db)
    /\ task' = [task EXCEPT ![s] = AfterExpire(s)]
    /\ UNCHANGED <<db, held, transfers, disturbed, expiries, recordCrashes>>

\* TryFinalize: the target is a holder and the source no longer is.
Converged_AnyTarget(k) == SIsMember(db, Holders, Transfer(k).to)
Converged(k) ==
    SIsMember(db, Holders, Transfer(k).to) /\ ~SIsMember(db, Holders, Transfer(k).from)
TryFinalize(s) ==
    /\ InManifest(s, "finalize")
    /\ Command(s, db, IF Converged(task[s].k) THEN "clear" ELSE "end")

\* ClearTransfer, in two commands.
ClearRecord(s) == InManifest(s, "clear") /\ Command(s, HDel(db, Active, {Entity}), "clearHolders")
ClearHolders(s) == InManifest(s, "clearHolders") /\ Command(s, DelKey(db, Holders), "end")

-----------------------------------------------------------------------------
\* The holders key runs out: nobody renewed it for kHolderKeyTtl.
HoldersExpire ==
    /\ expiries < MaxExpiries
    /\ Holders \in volatile
    /\ db' = DelKey(db, Holders)
    /\ volatile' = volatile \ {Holders}
    /\ expiries' = expiries + 1
    /\ disturbed' = disturbed \cup {"expired"}
    /\ UNCHANGED <<held, transfers, task, recordCrashes>>

\* A shard's process ends between two commands.
RecorderCrash(s) ==
    /\ recordCrashes < MaxRecordCrashes
    /\ task[s] # Crashed
    /\ task' = [task EXCEPT ![s] = Crashed]
    /\ held' = held \ {s}
    /\ recordCrashes' = recordCrashes + 1
    /\ disturbed' = disturbed \cup {"crash"}
    /\ UNCHANGED <<db, volatile, transfers, expiries>>

ManifestStep(s) ==
    TryGet(s) \/ Upsert(s) \/ UpdateHolders(s) \/ Expire(s) \/ TryFinalize(s)
        \/ ClearRecord(s) \/ ClearHolders(s)

RecordsNext ==
    \/ \E s \in Recorders : ManifestStep(s) \/ RecorderCrash(s)
    \/ \E s, r \in Recorders : Begin(s, r)
    \/ \E k \in DOMAIN transfers : Adopt(k) \/ Commit(k)
    \/ HoldersExpire

RecordsSpec == RecordsInit /\ [][RecordsNext]_recordsVars

-----------------------------------------------------------------------------
\* The holders that a watchdog counts are real: a live shard in the set simulates the
\* entity, or is about to take itself out of the set, whatever the interleaving of
\* overlapping transfers, expirations and crashes of others.
NoPhantomHolder ==
    \A s \in SMembers(db, Holders) :
        \/ task[s] = Crashed
        \/ s \in held
        \/ task[s].op = "commit" /\ task[s].at \in {"read", "write", "holders"}

\* A transfer that is not over keeps its record, as long as handoffs do not overlap
\* and the delay covers the source's writes: TryFinalize, run by both sides, never
\* clears it while one side has yet to act.
RecordKept ==
    disturbed = {} =>
        \A k \in DOMAIN transfers :
            (Transfer(k).adopted = "no" \/ Transfer(k).committed = "no") /\ ~Starting(k)
                => HExists(db, Active, Entity)

\* And when such a transfer is over on both sides nothing of it is left: whichever of
\* the two procedures is last sees the other's change of the holders.
ClearedWhenCalm ==
    /\ disturbed = {}
    /\ \A s \in Recorders : task[s] = Idle
    /\ \A k \in DOMAIN transfers : Transfer(k).adopted = "yes" /\ Transfer(k).committed = "yes"
    => ~HExists(db, Active, Entity) /\ ~Exists(db, Holders)

\* A record lives as long as its transfer, no longer and no shorter.
RecordLifetime == RecordKept /\ ClearedWhenCalm

-----------------------------------------------------------------------------
(* The inductive invariant behind both. *)

\* The keys of the entity and what they hold: the set of holders is never empty.
Record == [source : Recorders, target : Recorders, lastAuthority : Recorders,
           state : {"started", "adopted", "committed"}]
StoreOK(d) ==
    /\ DOMAIN d \subseteq {Active, Holders}
    /\ Active \in DOMAIN d => d[Active] \in [{Entity} -> Record]
    /\ Holders \in DOMAIN d => d[Holders] \subseteq Recorders /\ d[Holders] # {}

\* The steps of each procedure, and the shard that runs it.
StepsOf(op) ==
    CASE op = "start" -> {"write", "holders", "expire"}
      [] op = "adopt" -> {"read", "write", "holders", "expire", "finalize", "clear", "clearHolders"}
      [] op = "commit" -> {"read", "write", "holders", "finalize", "clear", "clearHolders"}
      [] OTHER -> {"end"}
Steps == {"read", "write", "holders", "expire", "finalize", "clear", "clearHolders", "end"}
Tasks == [op : {"idle", "crashed", "start", "adopt", "commit"}, k : Nat, at : Steps,
          seen : SUBSET Record]
TaskOK(s) ==
    /\ task[s] \in Tasks
    /\ task[s].at \in StepsOf(task[s].op)
    /\ task[s].op \in {"idle", "crashed"} => task[s] = Task(task[s].op, 0, "end")
    /\ task[s].op \in {"start", "adopt", "commit"} =>
           /\ task[s].k \in 1..Len(transfers)
           /\ s = IF task[s].op = "adopt" THEN Transfer(task[s].k).to ELSE Transfer(task[s].k).from
    /\ task[s].op \in {"start", "adopt"} => s \in held

Handovers == [from : Recorders, to : Recorders, adopted : {"yes", "no"}, committed : {"yes", "no"}]

RecordsOK ==
    /\ StoreOK(db)
    /\ held \subseteq Recorders
    /\ transfers \in Seq(Handovers)
    /\ \A k \in 1..Len(transfers) : Transfer(k).from # Transfer(k).to
    /\ task = [s \in Recorders |-> task[s]]
    /\ \A s \in Recorders : TaskOK(s)

\* Undisturbed, only the last transfer is in progress: who holds the entity and who
\* runs a procedure follows from how far its two sides have come.
Last == Transfer(Len(transfers))
Calm ==
    /\ \A k \in 1..(Len(transfers) - 1) :
           Transfer(k).adopted = "yes" /\ Transfer(k).committed = "yes"
    /\ transfers = <<>> => held = {Seeder}
    /\ transfers # <<>> =>
           held = (IF Last.committed = "no" THEN {Last.from} ELSE {})
                      \cup (IF Last.adopted = "yes" THEN {Last.to} ELSE {})
    /\ \A s \in Recorders : task[s].op # "crashed"
    /\ \A s \in Recorders : task[s].op # "idle" => task[s].k = Len(transfers)
    /\ \A s \in Recorders :
           /\ task[s].op = "start" => Last.adopted = "no" /\ Last.committed = "no"
           /\ task[s].op = "adopt" => Last.adopted = "yes"
           /\ task[s].op = "commit" => Last.committed = "yes"

\* The target has added itself to the holders; the source has taken itself out.
Before(s, op) == task[s].op = op /\ task[s].at \in {"read", "write", "holders"}
Added == Last.adopted = "yes" /\ ~Before(Last.to, "adopt")
Removed == Last.committed = "yes" /\ ~Before(Last.from, "commit")

\* Undisturbed, the holders are those that the two sides have made of them, the record is
\* there from the first write until both sides are through, and as long as the holders
\* are there somebody has yet to look at them.
CalmStore ==
    /\ transfers = <<>> => SMembers(db, Holders) = {} /\ ~HExists(db, Active, Entity)
    /\ transfers # <<>> =>
           /\ SMembers(db, Holders) \subseteq {Last.from, Last.to}
           /\ SIsMember(db, Holders, Last.from) <=> ~Removed /\ ~Before(Last.from, "start")
           /\ SIsMember(db, Holders, Last.to) => Added
           /\ Added /\ ~SIsMember(db, Holders, Last.to) => Removed /\ ~HExists(db, Active, Entity)
           /\ ~HExists(db, Active, Entity) =>
                  (Added /\ Removed) \/ (task[Last.from].op = "start" /\ task[Last.from].at = "write")
           /\ \A s \in Recorders :
                  /\ task[s].at \in {"clear", "clearHolders"} => Added /\ Removed
                  /\ task[s].at = "clearHolders" => ~HExists(db, Active, Entity)
           /\ Added /\ Removed /\ SIsMember(db, Holders, Last.to) =>
                  \E s \in Recorders : task[s].at \in {"expire", "finalize", "clear", "clearHolders"}

RecordsInv == RecordsOK /\ NoPhantomHolder /\ (disturbed = {} => Calm /\ CalmStore)
=============================================================================
