------------------------------ MODULE OutlierFlow ------------------------------
(***************************************************************************)
(* The runtime of the exc directories: God (class WatchDog) divides the    *)
(* unit square into shapes and gives them to the partitions; a partition   *)
(* reports the entities outside its shape in the database (EntityManifest) *)
(* and by messages, and God works the reports off.                         *)
(*                                                                         *)
(* The manifests read a field with HGet(...).value(), which throws when    *)
(* the field is missing; outside of a try block that ends the process.     *)
(* HSET answers 0 when it overwrites, which StoreOutliers takes for a      *)
(* failure.                                                                *)
(***************************************************************************)
EXTENDS Naturals, Sequences, Functions, RedisStore

CONSTANTS
    Partitions,   \* partition processes, in the order of their ids: 1..n
    Entities,     \* entities the game server creates
    Shapes,       \* number of shapes the heuristic computes
    MaxEvents,    \* bound on packets of the game server and restarts of God, together
    MaxMessages   \* bound on a partition's messages waiting for God

ASSUME OutlierAssumption ==
    /\ Partitions \subseteq Nat
    /\ IsFiniteSet(Entities)
    /\ {Shapes, MaxEvents, MaxMessages} \subseteq Nat

VARIABLES
    db,          \* the internal database: outliers and grid shapes
    registered,  \* shards in the ServerRegistry
    god,         \* what God does next, or down
    endedIn,     \* history: what God was doing when it ended, none so far
    assigned,    \* assignedPartitions and partitionToShapeIndex: shapes of partitions
    valid,       \* shapeCache.isValid
    existing,    \* partitions that processExistingOutliers has yet to check
    toGod,       \* number of OutliersDetected messages of each partition on their way
    toPartition, \* messages to each partition
    loop,        \* what a partition does next: check, notify, tick; off or down
    shape,       \* partitionGridShape: the index of the shape, 0 when there is none
    managed,     \* managedEntities: entities with the region of their position
    reported,    \* reportedOutliers
    sinceNotice, \* time since lastOutlierNotification: recent, due (30 s) or overdue (60 s)
    updates,     \* packets of the game server so far
    restarts     \* restarts of God so far

godVars == <<god, endedIn, assigned, valid, existing>>
partitionVars == <<loop, shape, managed, reported, sinceNotice, updates>>
outlierVars == <<db, registered, godVars, toGod, toPartition, partitionVars, restarts>>

Outliers == "entity_outliers"
GridCells == "PartitionGridCellManifest"

\* The region of a position: the shape that contains it, or 0 outside of [0, 1].
Regions == 0..Shapes
Nothing == [e \in {} |-> 0]

\* Entities with their regions, and the entries of such a list at some of its places, in
\* their order.
Positions == Entities \X Regions
At(list, places) ==
    {[i \in DOMAIN f |-> list[f[i]]] :
        f \in {g \in [1..Cardinality(places) -> places] :
                  \A i, j \in DOMAIN g : i < j => g[i] < g[j]}}

OutlierInit ==
    /\ db = [k \in {} |-> Nothing]
    /\ registered = {}
    /\ god = "clear" /\ endedIn = "none"
    /\ assigned = Nothing
    /\ valid = "no"
    /\ existing = {}
    /\ toGod = [p \in Partitions |-> 0]
    /\ toPartition = [p \in Partitions |-> <<>>]
    /\ loop = [p \in Partitions |-> "off"]
    /\ shape = [p \in Partitions |-> 0]
    /\ managed = [p \in Partitions |-> <<>>]
    /\ reported = [p \in Partitions |-> {}]
    /\ sinceNotice = [p \in Partitions |-> "recent"]
    /\ updates = 0
    /\ restarts = 0

-----------------------------------------------------------------------------
(* God. *)

\* ClearAllDatabaseState, before the Interlink is up.
ClearAllDatabaseState ==
    /\ god = "clear"
    /\ db' = DelKey(DelKey(db, GridCells), Outliers)
    /\ assigned' = Nothing
    /\ valid' = "no"
    /\ god' = "loop0"
    /\ UNCHANGED <<registered, endedIn, existing, toGod, toPartition, partitionVars, restarts>>

\* computeAndStorePartitions reads the registry and, for every shard, its outliers: a
\* missing field is an exception that it catches, to return false ...
FetchAllEntities ==
    /\ god = "loop0"
    /\ god' = IF \A p \in registered : HExists(db, Outliers, p) THEN "assign" ELSE "notify"
    /\ UNCHANGED <<db, registered, endedIn, assigned, valid, existing, toGod, toPartition,
                   partitionVars, restarts>>

\* ... then reads the registry again and gives the shapes to the shards, in order.
RankOf(p) == Cardinality({q \in registered : q <= p})

AssignShapes ==
    LET given == {p \in registered : RankOf(p) <= Shapes}
    IN  /\ god = "assign"
        /\ assigned' = [p \in given |-> RankOf(p)]
        /\ db' = IF given = {} THEN db ELSE Put(db, GridCells, assigned')
        /\ valid' = "yes"
        /\ god' = "notify"
        /\ UNCHANGED <<registered, endedIn, existing, toGod, toPartition, partitionVars, restarts>>

\* notifyPartitionsToFetchShapes; processExistingOutliers starts with the shards that are
\* registered by then.
NotifyPartitions ==
    /\ god = "notify"
    /\ toPartition' = [p \in Partitions |->
                        IF p \in DOMAIN assigned THEN Append(toPartition[p], "FetchGridShape")
                        ELSE toPartition[p]]
    /\ god' = IF valid = "yes" THEN "existing" ELSE "loop"
    /\ existing' = registered
    /\ UNCHANGED <<db, registered, endedIn, assigned, valid, toGod, partitionVars, restarts>>

\* What processOutliersForPartition does with the list of outliers of p: the entities
\* outside of [0, 1] stay; all others leave the list, with every entry they have, and for
\* those that belong to another partition a text is sent whose first byte is no header
\* the partition knows.  A list that becomes empty is an empty string: the field stays.
Kept(list) ==
    At(list, {i \in 1..Len(list) : \A y \in Range(list) : y[1] = list[i][1] => y[2] = 0})
Elsewhere(p, list) ==
    {x \in Range(list) : \E q \in DOMAIN assigned : q # p /\ assigned[q] = x[2]}
RemoveFromOutliers_Field(d, p, list) ==
    IF list = <<>> THEN HDel(d, Outliers, {p}) ELSE HSet(d, Outliers, p, list)
RemoveFromOutliers(d, p, list) == HSet(d, Outliers, p, list)

ProcessOutliers(p) ==
    LET list == HGet(db, Outliers, p) IN
    /\ \E kept \in Kept(list) : db' = RemoveFromOutliers(db, p, kept)
    /\ toPartition' = [toPartition EXCEPT ![p] =
                        @ \o [x \in 1..Cardinality(Elsewhere(p, list)) |-> "RemoveEntity"]]

GodEnds(where) == god' = "down" /\ endedIn' = where

\* processExistingOutliers, for the next partition.
ExistingOutliers(p) ==
    /\ god = "existing"
    /\ p \in existing
    /\ existing' = existing \ {p}
    /\ \/ HExists(db, Outliers, p) /\ ProcessOutliers(p) /\ UNCHANGED <<god, endedIn>>
       \/ ~HExists(db, Outliers, p) /\ GodEnds("existing") /\ UNCHANGED <<db, toPartition>>
    /\ UNCHANGED <<registered, assigned, valid, toGod, partitionVars, restarts>>

ExistingDone ==
    /\ god = "existing"
    /\ existing = {}
    /\ god' = "loop"
    /\ UNCHANGED <<db, registered, endedIn, assigned, valid, existing, toGod, toPartition,
                   partitionVars, restarts>>

\* handleOutliersDetectedMessage, from Tick in God's loop, before or after the shapes.
HandleOutliersDetected(p) ==
    /\ god \in {"loop0", "loop"}
    /\ toGod[p] > 0
    /\ toGod' = [toGod EXCEPT ![p] = @ - 1]
    /\ \/ valid = "no" /\ UNCHANGED <<db, toPartition, god, endedIn>>
       \/ valid = "yes" /\ HExists(db, Outliers, p) /\ ProcessOutliers(p) /\ UNCHANGED <<god, endedIn>>
       \/ valid = "yes" /\ ~HExists(db, Outliers, p) /\ GodEnds("message") /\ UNCHANGED <<db, toPartition>>
    /\ UNCHANGED <<registered, assigned, valid, existing, partitionVars, restarts>>

\* The container is started again, after a crash or by an operator: connections are lost.
GodRestart ==
    /\ restarts + updates < MaxEvents
    /\ restarts' = restarts + 1
    /\ god' = "clear"
    /\ toGod' = [p \in Partitions |-> 0]
    /\ assigned' = Nothing
    /\ valid' = "no"
    /\ existing' = {}
    /\ UNCHANGED <<db, registered, endedIn, toPartition, partitionVars>>

-----------------------------------------------------------------------------
(* A partition. *)

StartPartition(p) ==
    /\ loop[p] = "off"
    /\ registered' = registered \cup {p}
    /\ loop' = [loop EXCEPT ![p] = "check"]
    /\ UNCHANGED <<db, godVars, toGod, toPartition, shape, managed, reported, sinceNotice, updates, restarts>>

\* checkForOutliersAndNotifyGod: the entities outside the shape that were not reported yet
\* replace the partition's list in the database.
CheckEntity(p, checked, x) ==
    CASE x[2] = shape[p] -> [checked EXCEPT !.reported = @ \ {x[1]}]
      [] x[2] # shape[p] /\ x[1] \in checked.reported -> checked
      [] x[2] # shape[p] /\ x[1] \notin checked.reported ->
            [reported |-> checked.reported \cup {x[1]}, outliers |-> Append(checked.outliers, x)]
CheckLoop(p) ==
    LET checked[i \in 0..Len(managed[p])] ==
            IF i = 0 THEN [reported |-> reported[p], outliers |-> <<>>]
            ELSE CheckEntity(p, checked[i - 1], managed[p][i])
    IN  checked
Checked(p) == CheckLoop(p)[Len(managed[p])]
\* StoreOutliers is true when HSET added the field: the first report of a partition.
Stored(p) == ~HExists(db, Outliers, p)

CheckForOutliers(p) ==
    /\ loop[p] = "check"
    /\ loop' = [loop EXCEPT ![p] = "notify"]
    /\ IF shape[p] = 0 \/ managed[p] = <<>>
       THEN UNCHANGED <<db, toGod, reported, sinceNotice>>
       ELSE /\ reported' = [reported EXCEPT ![p] = Checked(p).reported]
            /\ IF Checked(p).outliers = <<>>
               THEN UNCHANGED <<db, toGod, sinceNotice>>
               ELSE /\ db' = HSet(db, Outliers, p, Checked(p).outliers)
                    /\ IF Stored(p)
                       THEN /\ toGod' = [toGod EXCEPT ![p] = @ + 1]
                            /\ sinceNotice' = [sinceNotice EXCEPT ![p] = "recent"]
                       ELSE UNCHANGED <<toGod, sinceNotice>>
    /\ UNCHANGED <<registered, godVars, toPartition, shape, managed, updates, restarts>>

\* notifyGodAboutOutliers: every 30 seconds, with a second message after 60.
Notices(p) == IF sinceNotice[p] = "overdue" THEN 2 ELSE 1
MayNotify(p) == reported[p] # {} /\ sinceNotice[p] # "recent"

NotifyGod(p) ==
    /\ loop[p] = "notify"
    /\ IF ~MayNotify(p)
       THEN loop' = [loop EXCEPT ![p] = "tick"] /\ UNCHANGED <<toGod, sinceNotice>>
       ELSE IF ~HExists(db, Outliers, p)
       THEN loop' = [loop EXCEPT ![p] = "down"] /\ UNCHANGED <<toGod, sinceNotice>>
       ELSE /\ loop' = [loop EXCEPT ![p] = "tick"]
            /\ IF HGet(db, Outliers, p) = <<>>
               THEN UNCHANGED <<toGod, sinceNotice>>
               ELSE /\ toGod' = [toGod EXCEPT ![p] = @ + Notices(p)]
                    /\ sinceNotice' = [sinceNotice EXCEPT ![p] = "recent"]
    /\ toGod'[p] <= MaxMessages
    /\ UNCHANGED <<db, registered, godVars, toPartition, shape, managed, reported, updates, restarts>>

\* MessageArrived: FetchGridShape reads the partition's shape, text is ignored.
FetchGridShape(p) ==
    /\ loop[p] = "tick"
    /\ toPartition[p] # <<>>
    /\ toPartition' = [toPartition EXCEPT ![p] = Tail(@)]
    /\ \/ /\ Head(toPartition[p]) = "FetchGridShape" /\ HExists(db, GridCells, p)
          /\ shape' = [shape EXCEPT ![p] = HGet(db, GridCells, p)]
          /\ reported' = [reported EXCEPT ![p] = {}]
          /\ loop' = [loop EXCEPT ![p] = "check"]
       \/ /\ Head(toPartition[p]) = "FetchGridShape" /\ ~HExists(db, GridCells, p)
          /\ loop' = [loop EXCEPT ![p] = "down"]
          /\ UNCHANGED <<shape, reported>>
       \/ /\ Head(toPartition[p]) = "RemoveEntity"
          /\ loop' = [loop EXCEPT ![p] = "check"]
          /\ UNCHANGED <<shape, reported>>
    /\ UNCHANGED <<db, registered, godVars, toGod, managed, sinceNotice, updates, restarts>>

\* MessageArrived: an entity packet of the game server.  EntityUpdate replaces the list,
\* EntityIncoming adds to it and EntityOutgoing removes.
Received(p, header, es) ==
    CASE header = "EntityUpdate" -> {es}
      [] header = "EntityIncoming" -> {managed[p] \o es}
      [] header = "EntityOutgoing" ->
            At(managed[p], {i \in 1..Len(managed[p]) : \A y \in Range(es) : y[1] # managed[p][i][1]})

EntityPacket(p, header, es) ==
    /\ loop[p] = "tick"
    /\ updates + restarts < MaxEvents
    /\ updates' = updates + 1
    /\ \E list \in Received(p, header, es) : managed' = [managed EXCEPT ![p] = list]
    /\ loop' = [loop EXCEPT ![p] = "check"]
    /\ UNCHANGED <<db, registered, godVars, toGod, toPartition, shape, reported, sinceNotice, restarts>>

IdleTick(p) ==
    /\ loop[p] = "tick"
    /\ toPartition[p] = <<>>
    /\ loop' = [loop EXCEPT ![p] = "check"]
    /\ UNCHANGED <<db, registered, godVars, toGod, toPartition, shape, managed, reported, sinceNotice,
                   updates, restarts>>

\* Time passes: it matters only while there is something to report.
ThirtySeconds(p) ==
    /\ loop[p] \in {"check", "notify", "tick"}
    /\ reported[p] # {}
    /\ sinceNotice[p] # "overdue"
    /\ sinceNotice' = [sinceNotice EXCEPT ![p] = IF @ = "recent" THEN "due" ELSE "overdue"]
    /\ UNCHANGED <<db, registered, godVars, toGod, toPartition, loop, shape, managed, reported,
                   updates, restarts>>

GodStep ==
    \/ ClearAllDatabaseState \/ FetchAllEntities \/ AssignShapes \/ NotifyPartitions
    \/ (\E p \in Partitions : ExistingOutliers(p)) \/ ExistingDone

OutlierNext ==
    \/ GodStep \/ GodRestart
    \/ \E p \in Partitions :
        \/ HandleOutliersDetected(p) \/ StartPartition(p) \/ CheckForOutliers(p) \/ NotifyGod(p) \/ FetchGridShape(p)
        \/ IdleTick(p) \/ ThirtySeconds(p)
        \/ \E x \in Entities \X Regions, h \in {"EntityUpdate", "EntityIncoming", "EntityOutgoing"} :
                EntityPacket(p, h, <<x>>)

OutlierSpec == OutlierInit /\ [][OutlierNext]_outlierVars

-----------------------------------------------------------------------------
\* Nobody ends because a field it reads is missing.  A partition does not lose its list of
\* outliers under God's work on it while God is not restarted, and God finds the list of
\* the partition whose message it handles, whatever was sent before or after a restart;
\* only processExistingOutliers can end it.
PartitionsSurvive ==
    /\ restarts = 0 => \A p \in Partitions : loop[p] # "down"
    /\ endedIn # "message"

-----------------------------------------------------------------------------
(* The inductive invariant behind it. *)

ListsOK(d) == \A p \in DOMAIN HGetAll(d, Outliers) : HGet(d, Outliers, p) \in Seq(Positions)

OutlierTypeOK ==
    /\ registered \subseteq Partitions
    /\ god \in {"clear", "loop0", "assign", "notify", "existing", "loop", "down"}
    /\ valid \in {"yes", "no"}
    /\ DOMAIN assigned \subseteq Partitions
    /\ toGod \in [Partitions -> Nat]
    /\ toPartition \in [Partitions -> Seq({"FetchGridShape", "RemoveEntity"})]
    /\ loop \in [Partitions -> {"off", "check", "notify", "tick", "down"}]
    /\ DOMAIN shape = Partitions
    /\ managed \in [Partitions -> Seq(Positions)]
    /\ reported \in [Partitions -> SUBSET Entities]
    /\ restarts \in Nat
    /\ ListsOK(db)

\* A message of a partition that God would work on is about a list that is there: messages
\* come from registered partitions, and God gives shapes out only when all of these have
\* reported since it cleared the database.
MessagesInv ==
    /\ \A p \in Partitions : loop[p] = "off" <=> p \notin registered
    /\ \A p \in Partitions \ registered : toGod[p] = 0
    /\ \A p \in Partitions :
           toGod[p] > 0 /\ (valid = "yes" \/ god = "assign") => HExists(db, Outliers, p)

\* God's first run: before it notifies the partitions none of them has a shape or reports,
\* and from then on nothing they read goes.
Fetches(messages) == \E i \in 1..Len(messages) : messages[i] = "FetchGridShape"

FirstRunInv ==
    /\ god \in {"clear", "loop0", "assign"} => DOMAIN assigned = {} /\ valid = "no"
    /\ god \in {"clear", "loop0", "assign", "notify"} =>
           \A p \in Partitions : toPartition[p] = <<>> /\ shape[p] = 0 /\ reported[p] = {}
    /\ \A p \in DOMAIN assigned : HExists(db, GridCells, p)
    /\ \A p \in Partitions : Fetches(toPartition[p]) => HExists(db, GridCells, p)
    /\ \A p \in Partitions : reported[p] # {} => HExists(db, Outliers, p)

OutlierInv ==
    /\ OutlierTypeOK /\ MessagesInv
    /\ restarts = 0 => FirstRunInv
    /\ PartitionsSurvive

-----------------------------------------------------------------------------
\* The list of a partition that has an entity outside of its shape is worked off in the
\* end: StoreOutliers reports a failure, and sends no message, for every list but the
\* first, and the periodic notification makes up for it.
WorkedOff(p) ==
    god = "loop" /\ valid = "yes" /\ loop[p] # "down" /\ reported[p] # {} /\ HExists(db, Outliers, p)
        => \A x \in Range(HGet(db, Outliers, p)) : x[2] = 0
=============================================================================
