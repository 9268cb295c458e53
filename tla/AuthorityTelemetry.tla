-------------------------- MODULE AuthorityTelemetry --------------------------
(***************************************************************************)
(* What the shards publish about one entity (AuthorityManifest, called     *)
(* through SH_TelemetryPublisher): a row, a snapshot and the authority     *)
(* before.  A shard that publishes collects the rows of its tracker, where *)
(* an entity it is passing on still is, then reads the row and writes the  *)
(* three fields, one command each.  During a handoff two shards, or none,  *)
(* track the entity, and their commands interleave.                        *)
(***************************************************************************)
EXTENDS RedisStore, FiniteSetsExt

CONSTANTS
    Publishers,   \* shards
    FirstTracker, \* the shard that seeded the entity
    TracedEntity, \* the entity, as a hash field
    MaxMoves,     \* bound on handoffs
    MaxDeaths     \* bound on crashes

VARIABLES
    tables,      \* the key space
    tracking,    \* shards whose tracker has the entity
    moving,      \* handoffs under way: who has yet to adopt and to commit
    publish,     \* where each shard is in TelemetryUpdate
    moves, deaths

telemetryVars == <<tables, tracking, moving, publish, moves, deaths>>

\* kAuthorityTelemetryTable, kAuthorityEntitySnapshotTable, kAuthorityEntityMetaTable.
Rows == "Authority_Telemetry"
Snapshots == "Authority_EntitySnapshots"
Meta == "Authority_EntityMeta"

NoProcedure == [at |-> "idle"]
Running == {s \in Publishers : publish[s].at # "dead"}

TelemetryInit ==
    /\ tables = [k \in {} |-> k]
    /\ tracking = {FirstTracker}
    /\ moving = {}
    /\ publish = [s \in Publishers |-> NoProcedure]
    /\ moves = 0
    /\ deaths = 0

-----------------------------------------------------------------------------
\* A handoff starts; the target, if it runs, adopts and the source commits, each at its
\* own time, between two publications.
StartMove(s, r) ==
    /\ moves < MaxMoves
    /\ s \in tracking /\ moving = {} /\ r # s
    /\ publish[s] = NoProcedure
    /\ moves' = moves + 1
    /\ moving' = {[adopt |-> q] : q \in {r} \cap Running} \cup {[commit |-> s]}
    /\ UNCHANGED <<tables, tracking, publish, deaths>>

Mover(m) == IF "adopt" \in DOMAIN m THEN m.adopt ELSE m.commit
FinishMove(m) ==
    /\ publish[Mover(m)] = NoProcedure
    /\ moving' = moving \ {m}
    /\ tracking' = IF "adopt" \in DOMAIN m THEN tracking \cup {Mover(m)} ELSE tracking \ {Mover(m)}
    /\ UNCHANGED <<tables, publish, moves, deaths>>

\* PublishFromTracker: CollectTelemetryRows, whatever the state of the entity.
CollectTelemetryRows_Stale(s) == s \in tracking \/ HExists(tables, Rows, TracedEntity)
CollectTelemetryRows(s) == s \in tracking
PublishFromTracker(s) ==
    /\ publish[s] = NoProcedure
    /\ CollectTelemetryRows(s)
    /\ publish' = [publish EXCEPT ![s] = [at |-> "read"]]
    /\ UNCHANGED <<tables, tracking, moving, moves, deaths>>

\* TelemetryUpdate: the owner of the row as it is, or the shard itself without one ...
ReadPrevious(s) ==
    /\ publish[s].at = "read"
    /\ publish' = [publish EXCEPT ![s] =
           [at |-> "row",
            last |-> IF HExists(tables, Rows, TracedEntity)
                     THEN HGet(tables, Rows, TracedEntity) ELSE s]]
    /\ UNCHANGED <<tables, tracking, moving, moves, deaths>>

\* ... then a row and a snapshot of its own, and the owner that it read.
WriteTable(s, table, value, next) ==
    /\ tables' = HSet(tables, table, TracedEntity, value)
    /\ publish' = [publish EXCEPT ![s] = IF next = "idle" THEN NoProcedure ELSE [@ EXCEPT !.at = next]]
    /\ UNCHANGED <<tracking, moving, moves, deaths>>

WriteRow(s) == publish[s].at = "row" /\ WriteTable(s, Rows, s, "snapshot")
WriteSnapshot(s) == publish[s].at = "snapshot" /\ WriteTable(s, Snapshots, s, "meta")
WriteMeta(s) == publish[s].at = "meta" /\ WriteTable(s, Meta, publish[s].last, "idle")

\* A shard's process ends; nobody deletes what it published.
Death(s) ==
    /\ deaths < MaxDeaths
    /\ s \in Running
    /\ deaths' = deaths + 1
    /\ publish' = [publish EXCEPT ![s] = [at |-> "dead"]]
    /\ tracking' = tracking \ {s}
    /\ moving' = {m \in moving : Mover(m) # s}
    /\ UNCHANGED <<tables, moves>>

TelemetryUpdate(s) == ReadPrevious(s) \/ WriteRow(s) \/ WriteSnapshot(s) \/ WriteMeta(s)

TelemetryNext ==
    \/ \E s, r \in Publishers : StartMove(s, r)
    \/ \E m \in moving : FinishMove(m)
    \/ \E s \in Publishers : PublishFromTracker(s) \/ TelemetryUpdate(s) \/ Death(s)

TelemetrySpec == TelemetryInit /\ [][TelemetryNext]_telemetryVars

-----------------------------------------------------------------------------
Published(table, s) == HExists(tables, table, TracedEntity) /\ HGet(tables, table, TracedEntity) = s

\* A row or a snapshot changes only to one of a shard that has the entity at that moment
\* (TelemetryUpdate, between ticks that adopt and commit): once a handoff is over, the shard
\* that gave the entity away never again says that it has it, however late its commands are.
PublishedByTracker ==
    [][\A t \in {Rows, Snapshots} :
           HGetAll(tables', t) # HGetAll(tables, t)
               => \E s \in tracking : HGet(tables', t, TracedEntity) = s]_telemetryVars

\* The inductive invariant behind it: a shard in the middle of a publication has the entity.
TelemetryInv ==
    /\ DOMAIN publish = Publishers
    /\ \A s \in Publishers :
           /\ publish[s] = [f \in DOMAIN publish[s] |-> publish[s][f]]
           /\ "at" \in DOMAIN publish[s]
           /\ publish[s].at \notin {"idle", "dead"} => s \in tracking

\* Row, snapshot and authority before name every shard that tracks the entity.
AllNameTracker ==
    \A s \in tracking : Published(Rows, s) /\ Published(Snapshots, s) /\ Published(Meta, s)
=============================================================================
