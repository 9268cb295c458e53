-------------------------- MODULE OutlierFlowProofs --------------------------
(***************************************************************************)
(* God and the partitions for any number of partitions, entities, shapes,  *)
(* packets and restarts: nobody ends because a field that it reads is      *)
(* missing.  And debug entities at any speed in a world of any size: none  *)
(* leaves it.                                                              *)
(***************************************************************************)
EXTENDS OutlierFlow, BounceSimulator, FiniteSetTheorems, SequenceTheorems, WellFoundedInduction,
        TLAPS

-----------------------------------------------------------------------------
(* The commands of the database. *)

\* SET of a key, or a hash written whole, is what is read back, and leaves other keys alone.
LEMMA PutReads ==
    ASSUME NEW d, NEW k, NEW v
    PROVE  /\ HGetAll(Put(d, k, v), k) = v
           /\ \A l : l # k => HGetAll(Put(d, k, v), l) = HGetAll(d, l)
BY DEF HGetAll, Put, Exists

\* DEL leaves other keys alone.
LEMMA DelReads ==
    ASSUME NEW d, NEW k
    PROVE  /\ DOMAIN HGetAll(DelKey(d, k), k) = {}
           /\ \A l : l # k => HGetAll(DelKey(d, k), l) = HGetAll(d, l)
BY DEF HGetAll, DelKey, Exists

-----------------------------------------------------------------------------
(* Lists, and the loop over the entities of a partition. *)

\* The entries of a list at some of its places are a list again.
LEMMA AtIsAList ==
    ASSUME NEW S, NEW list \in Seq(S), NEW places \in SUBSET (1..Len(list)), NEW x \in At(list, places)
    PROVE  x \in Seq(S)
<1> DEFINE n == Cardinality(places)
<1>1. n \in Nat
    <2>1. Len(list) \in Nat
        BY LenProperties
    <2>2. IsFiniteSet(1..Len(list))
        BY <2>1, FS_Interval
    <2> QED BY <2>2, FS_Subset, FS_CardinalityType
<1>2. PICK f \in [1..n -> places] : x = [i \in DOMAIN f |-> list[f[i]]]
    BY DEF At
<1> HIDE DEF n
<1>3. x = [i \in 1..n |-> list[f[i]]]
    BY <1>2
<1>4. \A i \in 1..n : list[f[i]] \in S
    <2>1. \A i \in 1..n : f[i] \in 1..Len(list)
        BY <1>2
    <2> QED BY <2>1, ElementOfSeq
<1> QED BY <1>1, <1>3, <1>4, IsASeq

\* A set of numbers that is not empty has a least one.
LEMMA LeastPlace ==
    ASSUME NEW S \in SUBSET Nat, S # {}
    PROVE  \E x \in S : \A y \in S : x <= y
<1> DEFINE R == OpToRel(<, Nat)
<1>1. \A x, y \in Nat : <<y, x>> \in R <=> y < x
    BY DEF OpToRel
<1>2. IsWellFoundedOn(R, Nat)
    BY NatLessThanWellFounded
<1> HIDE DEF R
<1>3. PICK x \in S : \A y \in S : ~ (<<y, x>> \in R)
    BY <1>2, WFMin
<1>4. ASSUME NEW y \in S PROVE x <= y
    <2>1. x \in Nat /\ y \in Nat
        OBVIOUS
    <2>2. ~ (y < x)
        BY <1>1, <1>3, <2>1, Zenon
    <2> QED BY <2>1, <2>2
<1> QED BY <1>4

\* The loop of checkForOutliersAndNotifyGod does what its definition says, one entity after
\* the other: were there a first number of entities for which it does not, it would for one
\* entity less.
LEMMA LoopSteps ==
    ASSUME NEW p, Len(managed[p]) \in Nat
    PROVE  /\ CheckLoop(p)[0] = [reported |-> reported[p], outliers |-> <<>>]
           /\ \A i \in 1..Len(managed[p]) :
                  CheckLoop(p)[i] = CheckEntity(p, CheckLoop(p)[i - 1], managed[p][i])
<1> DEFINE n == Len(managed[p])
           base == [reported |-> reported[p], outliers |-> <<>>]
           Runs(f, k) == f = [i \in 0..k |-> IF i = 0 THEN base
                                             ELSE CheckEntity(p, f[i - 1], managed[p][i])]
           S == {k \in Nat : ~\E f : Runs(f, k)}
<1>1. S = {}
    <2> SUFFICES ASSUME S # {} PROVE FALSE
        OBVIOUS
    <2>1. PICK k \in S : \A y \in S : k <= y
        BY LeastPlace
    <2>2. CASE k = 0
        <3>1. PICK f : f = [i \in 0..0 |-> base]
            OBVIOUS
        <3>2. Runs(f, 0)
            <4>1. \A i \in 0..0 : i = 0
                OBVIOUS
            <4> HIDE DEF base
            <4> QED BY <3>1, <4>1
        <3> QED BY <2>2, <3>2
    <2>3. CASE k # 0
        <3>1. k - 1 \in Nat /\ k \in Nat
            BY <2>3
        <3>2. k - 1 \notin S
            BY <2>1, <3>1
        <3>3. PICK g : Runs(g, k - 1)
            BY <3>1, <3>2
        <3>4. PICK f : f = [i \in 0..k |-> IF i = k THEN CheckEntity(p, g[k - 1], managed[p][k])
                                           ELSE g[i]]
            OBVIOUS
        <3> HIDE DEF base
        <3>5. \A i \in 0..(k - 1) : f[i] = g[i]
            <4>1. \A i \in 0..(k - 1) : i \in 0..k /\ i # k
                BY <3>1
            <4> QED BY <3>4, <4>1
        <3>6. \A i \in 0..k : f[i] = IF i = 0 THEN base ELSE CheckEntity(p, f[i - 1], managed[p][i])
            <4> SUFFICES ASSUME NEW i \in 0..k
                         PROVE  f[i] = IF i = 0 THEN base ELSE CheckEntity(p, f[i - 1], managed[p][i])
                OBVIOUS
            <4>1. CASE i = 0
                <5>1. 0 \in 0..(k - 1)
                    BY <3>1
                <5>2. g[0] = base
                    BY <3>3, <5>1
                <5> QED BY <3>5, <4>1, <5>1, <5>2
            <4>2. CASE i = k
                <5>1. k - 1 \in 0..(k - 1) /\ k \in 0..k
                    BY <3>1
                <5>2. f[k] = CheckEntity(p, g[k - 1], managed[p][k])
                    BY <3>4, <5>1
                <5> QED BY <2>3, <3>5, <4>2, <5>1, <5>2
            <4>3. CASE i # 0 /\ i # k
                <5>1. i \in 0..(k - 1) /\ i - 1 \in 0..(k - 1)
                    BY <3>1, <4>3
                <5>2. g[i] = CheckEntity(p, g[i - 1], managed[p][i])
                    BY <3>3, <4>3, <5>1
                <5> QED BY <3>5, <4>3, <5>1, <5>2
            <4> QED BY <4>1, <4>2, <4>3
        <3>7. DOMAIN f = 0..k
            BY <3>4
        <3>8. f = [i \in 0..k |-> f[i]]
            BY <3>4
        <3>9. Runs(f, k)
            BY <3>6, <3>8
        <3> QED BY <3>9
    <2> QED BY <2>2, <2>3
<1>2. \E f : Runs(f, n)
    BY <1>1
<1>3. CheckLoop(p) = CHOOSE f : Runs(f, n)
    BY DEF CheckLoop
<1> HIDE DEF base
<1>4. Runs(CheckLoop(p), n)
    <2> HIDE DEF Runs
    <2> QED BY <1>2, <1>3
<1> HIDE DEF n
<1>5. 0 \in 0..n /\ \A i \in 1..n : i \in 0..n /\ i # 0
    BY DEF n
<1>6. CheckLoop(p)[0] = base
    BY <1>4, <1>5
<1>7. \A i \in 1..n : CheckLoop(p)[i] = CheckEntity(p, CheckLoop(p)[i - 1], managed[p][i])
    BY <1>4, <1>5
<1> QED BY <1>6, <1>7 DEF base, n

\* What the loop finds are entities of the partition, and an entity that was not reported
\* before is in the list.
LEMMA CheckedFinds ==
    ASSUME NEW p \in Partitions, OutlierTypeOK
    PROVE  /\ Checked(p).outliers \in Seq(Positions)
           /\ Checked(p).reported \subseteq Entities
           /\ Checked(p).outliers = <<>> => Checked(p).reported \subseteq reported[p]
<1> DEFINE c == CheckLoop(p)
           Good(r) == /\ r \in [reported : SUBSET Entities, outliers : Seq(Positions)]
                      /\ r.outliers = <<>> => r.reported \subseteq reported[p]
           n == Len(managed[p])
           S == {i \in 0..n : ~Good(c[i])}
<1>1. n \in Nat /\ \A i \in 1..n : managed[p][i] \in Positions
    BY DEF OutlierTypeOK
<1>2. /\ c[0] = [reported |-> reported[p], outliers |-> <<>>]
      /\ \A i \in 1..n : c[i] = CheckEntity(p, c[i - 1], managed[p][i])
    BY <1>1, LoopSteps
<1> HIDE DEF c
<1>3. ASSUME NEW r, NEW x \in Positions, Good(r)
      PROVE  Good(CheckEntity(p, r, x))
    <2>1. x[1] \in Entities
        BY DEF Positions
    <2>2. CASE x[2] = shape[p]
        <3>1. CheckEntity(p, r, x) = [r EXCEPT !.reported = @ \ {x[1]}]
            BY <2>2 DEF CheckEntity
        <3> QED BY <1>3, <3>1
    <2>3. CASE x[2] # shape[p] /\ x[1] \in r.reported
        <3>1. CheckEntity(p, r, x) = r
            BY <2>3 DEF CheckEntity
        <3> QED BY <1>3, <3>1
    <2>4. CASE x[2] # shape[p] /\ x[1] \notin r.reported
        <3>1. PICK o : o = Append(r.outliers, x)
            OBVIOUS
        <3>2. CheckEntity(p, r, x) = [reported |-> r.reported \cup {x[1]}, outliers |-> o]
            BY <2>4, <3>1 DEF CheckEntity
        <3>3. r.outliers \in Seq(Positions) /\ r.reported \subseteq Entities
            BY <1>3
        <3>4. o \in Seq(Positions) /\ o # <<>>
            BY <3>1, <3>3, AppendProperties
        <3> QED BY <2>1, <3>2, <3>3, <3>4
    <2> QED BY <2>2, <2>3, <2>4
<1>4. S = {}
    <2> SUFFICES ASSUME S # {} PROVE FALSE
        OBVIOUS
    <2>1. PICK k \in S : \A y \in S : k <= y
        <3>1. S \in SUBSET Nat
            OBVIOUS
        <3> HIDE DEF S
        <3> QED BY <3>1, LeastPlace
    <2>2. CASE k = 0
        <3>1. reported[p] \subseteq Entities /\ <<>> \in Seq(Positions)
            BY DEF OutlierTypeOK
        <3>2. Good(c[0])
            BY <1>2, <3>1
        <3> QED BY <2>2, <3>2
    <2>3. CASE k # 0
        <3>1. k \in 1..n /\ k - 1 \in 0..n /\ ~ (k <= k - 1)
            BY <1>1, <2>3
        <3>2. Good(c[k - 1])
            BY <2>1, <3>1
        <3>3. Good(c[k])
            <4> HIDE DEF Good
            <4> QED BY <1>1, <1>2, <1>3, <3>1, <3>2
        <3> QED BY <3>3
    <2> QED BY <2>2, <2>3
<1>5. n \in 0..n
    BY <1>1
<1> QED BY <1>4, <1>5 DEF Checked, c

-----------------------------------------------------------------------------
(* What the steps do to the database and to the messages. *)

\* A report of outliers adds the field of its partition and leaves the shapes alone.
LEMMA ReportStored ==
    ASSUME NEW d, NEW p, NEW list
    PROVE  /\ \A q : HExists(HSet(d, Outliers, p, list), Outliers, q) <=> q = p \/ HExists(d, Outliers, q)
           /\ \A q : HExists(HSet(d, Outliers, p, list), GridCells, q) <=> HExists(d, GridCells, q)
           /\ ListsOK(d) /\ list \in Seq(Positions) => ListsOK(HSet(d, Outliers, p, list))
<1> DEFINE e == HSet(d, Outliers, p, list)
<1>1. Outliers # GridCells
    BY DEF Outliers, GridCells
<1>2. /\ DOMAIN HGetAll(e, Outliers) = DOMAIN HGetAll(d, Outliers) \cup {p}
      /\ HGetAll(e, Outliers)[p] = list
      /\ \A q \in DOMAIN HGetAll(d, Outliers) : q # p => HGetAll(e, Outliers)[q] = HGetAll(d, Outliers)[q]
      /\ HGetAll(e, GridCells) = HGetAll(d, GridCells)
    <2>1. PICK k : k = Outliers
        OBVIOUS
    <2> DEFINE h == [q \in DOMAIN HGetAll(d, k) \cup {p} |-> IF q = p THEN list ELSE HGetAll(d, k)[q]]
    <2>2. e = Put(d, k, h)
        BY <2>1 DEF HSet
    <2> HIDE DEF e, h
    <2>3. HGetAll(e, k) = h /\ \A l : l # k => HGetAll(e, l) = HGetAll(d, l)
        BY <2>2, PutReads
    <2> QED BY <1>1, <2>1, <2>3 DEF h
<1> HIDE DEF e
<1>3. \A q : HExists(e, Outliers, q) <=> q = p \/ HExists(d, Outliers, q)
    BY <1>2 DEF HExists
<1>4. \A q : HExists(e, GridCells, q) <=> HExists(d, GridCells, q)
    BY <1>2 DEF HExists
<1>5. ASSUME ListsOK(d), list \in Seq(Positions) PROVE ListsOK(e)
    BY <1>2, <1>5 DEF ListsOK, HGet
<1> QED BY <1>3, <1>4, <1>5 DEF e

\* Messages that are appended or taken ask for a shape only where God sent such a message.
LEMMA MessagesMove ==
    ASSUME NEW m \in Seq({"FetchGridShape", "RemoveEntity"})
    PROVE  /\ ~Fetches(<<>>)
           /\ m # <<>> => /\ Tail(m) \in Seq({"FetchGridShape", "RemoveEntity"})
                          /\ Fetches(Tail(m)) => Fetches(m)
                          /\ Head(m) = "FetchGridShape" => Fetches(m)
                          /\ Head(m) \in {"FetchGridShape", "RemoveEntity"}
           /\ \A n \in Nat : LET l == m \o [x \in 1..n |-> "RemoveEntity"] IN
                /\ l \in Seq({"FetchGridShape", "RemoveEntity"})
                /\ Fetches(l) => Fetches(m)
<1> DEFINE M == {"FetchGridShape", "RemoveEntity"}
<1>1. ~Fetches(<<>>)
    BY DEF Fetches
<1>2. ASSUME m # <<>>
      PROVE  /\ Tail(m) \in Seq(M)
             /\ Fetches(Tail(m)) => Fetches(m)
             /\ Head(m) = "FetchGridShape" => Fetches(m)
             /\ Head(m) \in M
    <2> HIDE DEF M
    <2>0. m \in Seq(M)
        BY DEF M
    <2>1. /\ Tail(m) \in Seq(M) /\ Head(m) \in M /\ Len(m) \in Nat /\ Len(m) # 0
          /\ Head(m) = m[1]
          /\ Len(Tail(m)) = Len(m) - 1
          /\ \A i \in 1..Len(Tail(m)) : Tail(m)[i] = m[i + 1]
        BY <1>2, <2>0, HeadTailProperties, EmptySeq, LenProperties
    <2>2. \A i \in 1..Len(Tail(m)) : i + 1 \in 1..Len(m)
        BY <2>1
    <2>3. 1 \in 1..Len(m)
        BY <2>1
    <2> QED BY <2>1, <2>2, <2>3 DEF Fetches
<1>3. ASSUME NEW n \in Nat
      PROVE  LET l == m \o [x \in 1..n |-> "RemoveEntity"] IN
             l \in Seq(M) /\ (Fetches(l) => Fetches(m))
    <2>1. PICK s : s = [x \in 1..n |-> "RemoveEntity"]
        OBVIOUS
    <2>2. s \in Seq(M) /\ Len(s) = n /\ \A i \in 1..n : s[i] = "RemoveEntity"
        BY <2>1, IsASeq
    <2> HIDE DEF M
    <2>3. m \in Seq(M) /\ Len(m) \in Nat
        BY LenProperties DEF M
    <2>4. /\ m \o s \in Seq(M)
          /\ Len(m \o s) = Len(m) + Len(s)
          /\ \A i \in 1 .. Len(m) + Len(s) :
                (m \o s)[i] = IF i <= Len(m) THEN m[i] ELSE s[i - Len(m)]
        BY <2>2, <2>3, ConcatProperties
    <2>5. ASSUME NEW i \in 1..Len(m \o s), (m \o s)[i] = "FetchGridShape"
          PROVE  i \in 1..Len(m) /\ m[i] = "FetchGridShape"
        <3>1. CASE i <= Len(m)
            BY <2>2, <2>3, <2>4, <2>5, <3>1
        <3>2. CASE ~ (i <= Len(m))
            <4>1. i - Len(m) \in 1..n
                BY <2>2, <2>3, <2>4, <3>2
            <4>2. (m \o s)[i] = "RemoveEntity"
                BY <2>2, <2>3, <2>4, <3>2, <4>1
            <4> QED BY <2>5, <4>2
        <3> QED BY <3>1, <3>2
    <2>6. Fetches(m \o s) => Fetches(m)
        BY <2>5 DEF Fetches
    <2> QED BY <2>1, <2>4, <2>6
<1> QED BY <1>1, <1>2, <1>3

\* Working a list off keeps the list, shorter, sends texts and asks for no shape.
LEMMA ListWorkedOff ==
    ASSUME OutlierTypeOK, NEW p \in Partitions, HExists(db, Outliers, p), ProcessOutliers(p)
    PROVE  /\ ListsOK(db')
           /\ \A q : HExists(db', Outliers, q) <=> HExists(db, Outliers, q)
           /\ \A q : HExists(db', GridCells, q) <=> HExists(db, GridCells, q)
           /\ toPartition' \in [Partitions -> Seq({"FetchGridShape", "RemoveEntity"})]
           /\ \A q \in Partitions : Fetches(toPartition'[q]) => Fetches(toPartition[q])
<1>1. PICK list : list = HGet(db, Outliers, p)
    OBVIOUS
<1>2. list \in Seq(Positions)
    BY <1>1 DEF OutlierTypeOK, ListsOK, HExists
<1>3. PICK kept \in Kept(list) : db' = RemoveFromOutliers(db, p, kept)
    BY <1>1 DEF ProcessOutliers
<1>4. kept \in Seq(Positions)
    <2>1. PICK places : places = {i \in 1..Len(list) : \A y \in Range(list) : y[1] = list[i][1] => y[2] = 0}
        OBVIOUS
    <2>2. places \in SUBSET (1..Len(list)) /\ kept \in At(list, places)
        BY <1>3, <2>1 DEF Kept
    <2> QED BY <1>2, <2>2, AtIsAList
<1>5. PICK n : n = Cardinality(Elsewhere(p, list))
    OBVIOUS
<1>6. n \in Nat
    <2>1. IsFiniteSet(Regions)
        BY OutlierAssumption, FS_Interval DEF Regions
    <2>2. IsFiniteSet(Positions)
        BY <2>1, OutlierAssumption, FS_Product DEF Positions
    <2>3. Range(list) \subseteq Positions
        <3>1. \A i \in DOMAIN list : list[i] \in Positions
            BY <1>2
        <3> QED BY <3>1 DEF Range
    <2>4. Elsewhere(p, list) \in SUBSET Positions
        BY <2>3 DEF Elsewhere
    <2> QED BY <1>5, <2>2, <2>4, FS_Subset, FS_CardinalityType
<1>7. toPartition' = [toPartition EXCEPT ![p] = @ \o [x \in 1..n |-> "RemoveEntity"]]
    BY <1>1, <1>5 DEF ProcessOutliers
<1>8. PICK m : m = toPartition[p] \o [x \in 1..n |-> "RemoveEntity"]
    OBVIOUS
<1>9. m \in Seq({"FetchGridShape", "RemoveEntity"}) /\ (Fetches(m) => Fetches(toPartition[p]))
    <2>1. toPartition[p] \in Seq({"FetchGridShape", "RemoveEntity"})
        BY DEF OutlierTypeOK
    <2> QED BY <1>6, <1>8, <2>1, MessagesMove
<1>10. toPartition' = [toPartition EXCEPT ![p] = m]
    BY <1>7, <1>8
<1>11. toPartition \in [Partitions -> Seq({"FetchGridShape", "RemoveEntity"})]
    BY DEF OutlierTypeOK
<1>12. /\ toPartition' \in [Partitions -> Seq({"FetchGridShape", "RemoveEntity"})]
       /\ \A q \in Partitions : Fetches(toPartition'[q]) => Fetches(toPartition[q])
    BY <1>9, <1>10, <1>11
<1>13. db' = HSet(db, Outliers, p, kept)
    BY <1>3 DEF RemoveFromOutliers
<1>14. PICK e : e = db'
    OBVIOUS
<1>15. /\ ListsOK(e)
       /\ \A q : HExists(e, Outliers, q) <=> q = p \/ HExists(db, Outliers, q)
       /\ \A q : HExists(e, GridCells, q) <=> HExists(db, GridCells, q)
    <2>1. ListsOK(db)
        BY DEF OutlierTypeOK
    <2> QED BY <1>4, <1>13, <1>14, <2>1, ReportStored
<1> QED BY <1>12, <1>14, <1>15

-----------------------------------------------------------------------------
(* The invariant. *)

\* Before anything runs, nobody is registered and nothing is sent.
LEMMA InitOutlier == OutlierInit => OutlierInv
<1> SUFFICES ASSUME OutlierInit PROVE OutlierInv
    OBVIOUS
<1>1. HGetAll(db, Outliers) = [f \in {} |-> f]
    BY DEF OutlierInit, HGetAll, Exists
<1>2. ListsOK(db)
    BY <1>1 DEF ListsOK
<1>3. OutlierTypeOK
    BY <1>2 DEF OutlierTypeOK, OutlierInit, Nothing
<1>4. MessagesInv
    BY DEF MessagesInv, OutlierInit
<1>5. FirstRunInv
    <2>1. \A p \in Partitions : ~Fetches(toPartition[p])
        BY DEF Fetches, OutlierInit
    <2> QED BY <2>1 DEF FirstRunInv, OutlierInit, Nothing
<1> QED BY <1>3, <1>4, <1>5 DEF OutlierInv, PartitionsSurvive, OutlierInit

\* God's steps keep the invariant: it clears the database before it has given a shape out,
\* and gives shapes out when every registered partition has reported.
LEMMA GodKeeps == OutlierInv /\ GodStep => OutlierInv'
<1> SUFFICES ASSUME OutlierInv, GodStep PROVE OutlierInv'
    OBVIOUS
<1> USE DEF OutlierInv
<1>1. CASE ClearAllDatabaseState
    <2> USE <1>1 DEF ClearAllDatabaseState, partitionVars
    <2>1. DOMAIN HGetAll(db', Outliers) = {}
        BY DelReads
    <2>2. ListsOK(db')
        BY <2>1 DEF ListsOK
    <2>3. OutlierTypeOK'
        BY <2>2 DEF OutlierTypeOK, Nothing
    <2>4. MessagesInv'
        BY DEF MessagesInv
    <2>5. restarts' = 0 => FirstRunInv'
        <3>1. \A p \in Partitions : toPartition[p] = <<>> => ~Fetches(toPartition[p])
            BY DEF Fetches
        <3> QED BY <3>1 DEF FirstRunInv, Nothing
    <2>6. PartitionsSurvive'
        BY DEF PartitionsSurvive
    <2> QED BY <2>3, <2>4, <2>5, <2>6
<1>2. CASE FetchAllEntities
    <2> USE <1>2 DEF FetchAllEntities, partitionVars
    <2>1. OutlierTypeOK'
        BY DEF OutlierTypeOK
    <2>2. MessagesInv'
        BY DEF MessagesInv, OutlierTypeOK
    <2>3. restarts' = 0 => FirstRunInv'
        BY DEF FirstRunInv
    <2>4. PartitionsSurvive'
        BY DEF PartitionsSurvive
    <2> QED BY <2>1, <2>2, <2>3, <2>4
<1>3. CASE AssignShapes
    <2>1. PICK given : given = {p \in registered : RankOf(p) <= Shapes}
        OBVIOUS
    <2>2. /\ DOMAIN assigned' = given
          /\ db' = IF given = {} THEN db ELSE Put(db, GridCells, assigned')
          /\ god = "assign" /\ god' = "notify" /\ valid' = "yes"
          /\ UNCHANGED <<registered, endedIn, existing, toGod, toPartition, partitionVars, restarts>>
        BY <1>3, <2>1 DEF AssignShapes
    <2>3. HGetAll(db', Outliers) = HGetAll(db, Outliers)
        BY <2>2, PutReads DEF Outliers, GridCells
    <2>4. \A p \in given : HExists(db', GridCells, p)
        BY <2>2, PutReads DEF HExists
    <2>5. \A p : HExists(db', Outliers, p) <=> HExists(db, Outliers, p)
        BY <2>3 DEF HExists
    <2>6. ListsOK(db')
        BY <2>3 DEF ListsOK, HGet, OutlierTypeOK
    <2> USE <2>2 DEF partitionVars
    <2>7. OutlierTypeOK'
        BY <2>1, <2>6 DEF OutlierTypeOK
    <2>8. MessagesInv'
        BY <2>5 DEF MessagesInv
    <2>9. restarts' = 0 => FirstRunInv'
        <3>1. \A p \in Partitions : toPartition[p] = <<>> => ~Fetches(toPartition[p])
            BY DEF Fetches
        <3> QED BY <2>4, <3>1 DEF FirstRunInv
    <2>10. PartitionsSurvive'
        BY DEF PartitionsSurvive
    <2> QED BY <2>7, <2>8, <2>9, <2>10
<1>4. CASE NotifyPartitions
    <2> USE <1>4 DEF NotifyPartitions, partitionVars
    <2>1. toPartition' \in [Partitions -> Seq({"FetchGridShape", "RemoveEntity"})]
        <3>1. \A p \in Partitions : toPartition[p] \in Seq({"FetchGridShape", "RemoveEntity"})
            BY DEF OutlierTypeOK
        <3>2. \A p \in Partitions :
                 Append(toPartition[p], "FetchGridShape") \in Seq({"FetchGridShape", "RemoveEntity"})
            BY <3>1, AppendProperties
        <3> QED BY <3>1, <3>2
    <2>2. \A p \in Partitions : p \notin DOMAIN assigned => toPartition'[p] = toPartition[p]
        OBVIOUS
    <2> HIDE <1>4
    <2>3. /\ god = "notify" /\ god' \in {"existing", "loop"}
          /\ UNCHANGED <<db, registered, endedIn, assigned, valid, toGod, partitionVars, restarts>>
        BY <1>4
    <2>4. OutlierTypeOK'
        BY <2>1, <2>3 DEF OutlierTypeOK
    <2>5. MessagesInv'
        BY <2>3 DEF MessagesInv
    <2>6. restarts' = 0 => FirstRunInv'
        BY <2>2, <2>3 DEF FirstRunInv
    <2>7. PartitionsSurvive'
        BY <2>3 DEF PartitionsSurvive
    <2> QED BY <2>4, <2>5, <2>6, <2>7
<1>5. ASSUME NEW p \in Partitions, ExistingOutliers(p) PROVE OutlierInv'
    <2> USE DEF partitionVars
    <2>1. /\ god = "existing"
          /\ UNCHANGED <<registered, assigned, valid, toGod, partitionVars, restarts>>
        BY <1>5 DEF ExistingOutliers
    <2>2. CASE HExists(db, Outliers, p)
        <3>1. ProcessOutliers(p) /\ UNCHANGED <<god, endedIn>>
            BY <1>5, <2>2 DEF ExistingOutliers
        <3>2. /\ ListsOK(db')
              /\ \A q : HExists(db', Outliers, q) <=> HExists(db, Outliers, q)
              /\ \A q : HExists(db', GridCells, q) <=> HExists(db, GridCells, q)
              /\ toPartition' \in [Partitions -> Seq({"FetchGridShape", "RemoveEntity"})]
              /\ \A q \in Partitions : Fetches(toPartition'[q]) => Fetches(toPartition[q])
            BY <2>2, <3>1, ListWorkedOff
        <3>3. OutlierTypeOK'
            BY <2>1, <3>1, <3>2 DEF OutlierTypeOK
        <3>4. MessagesInv'
            BY <2>1, <3>1, <3>2 DEF MessagesInv
        <3>5. restarts' = 0 => FirstRunInv'
            BY <2>1, <3>1, <3>2 DEF FirstRunInv
        <3>6. PartitionsSurvive'
            BY <2>1, <3>1 DEF PartitionsSurvive
        <3> QED BY <3>3, <3>4, <3>5, <3>6
    <2>3. CASE ~HExists(db, Outliers, p)
        <3>1. god' = "down" /\ endedIn' = "existing" /\ UNCHANGED <<db, toPartition>>
            BY <1>5, <2>3 DEF ExistingOutliers, GodEnds
        <3>2. OutlierTypeOK'
            BY <2>1, <3>1 DEF OutlierTypeOK
        <3>3. MessagesInv'
            BY <2>1, <3>1 DEF MessagesInv
        <3>4. restarts' = 0 => FirstRunInv'
            BY <2>1, <3>1 DEF FirstRunInv
        <3>5. PartitionsSurvive'
            BY <2>1, <3>1 DEF PartitionsSurvive
        <3> QED BY <3>2, <3>3, <3>4, <3>5
    <2> QED BY <2>2, <2>3
<1>6. CASE ExistingDone
    <2> USE <1>6 DEF ExistingDone, partitionVars
    <2>1. OutlierTypeOK'
        BY DEF OutlierTypeOK
    <2>2. MessagesInv'
        BY DEF MessagesInv
    <2>3. restarts' = 0 => FirstRunInv'
        BY DEF FirstRunInv
    <2>4. PartitionsSurvive'
        BY DEF PartitionsSurvive
    <2> QED BY <2>1, <2>2, <2>3, <2>4
<1> QED BY <1>1, <1>2, <1>3, <1>4, <1>5, <1>6 DEF GodStep

\* A restarted God starts over: messages to it are lost, and what it gave out is forgotten.
LEMMA RestartKeeps == OutlierInv /\ GodRestart => OutlierInv'
<1> SUFFICES ASSUME OutlierInv, GodRestart PROVE OutlierInv'
    OBVIOUS
<1> USE DEF OutlierInv, GodRestart, partitionVars
<1>1. OutlierTypeOK'
    BY DEF OutlierTypeOK, Nothing
<1>2. MessagesInv'
    BY DEF MessagesInv
<1>3. restarts' # 0
    BY DEF OutlierTypeOK
<1>4. PartitionsSurvive'
    BY <1>3 DEF PartitionsSurvive
<1> QED BY <1>1, <1>2, <1>3, <1>4

\* A message that God handles with its shapes valid finds its list (MessagesInv), which is
\* kept.
LEMMA MessageKeeps ==
    ASSUME OutlierInv, NEW p \in Partitions, HandleOutliersDetected(p)
    PROVE  OutlierInv'
<1> USE DEF OutlierInv, partitionVars
<1>1. /\ god \in {"loop0", "loop"} /\ toGod[p] > 0
      /\ toGod' = [toGod EXCEPT ![p] = @ - 1]
      /\ UNCHANGED <<registered, assigned, valid, existing, partitionVars, restarts>>
    BY DEF HandleOutliersDetected
<1>2. /\ toGod' \in [Partitions -> Nat]
      /\ \A q \in Partitions : toGod'[q] > 0 => toGod[q] > 0
      /\ \A q \in Partitions : toGod[q] = 0 => toGod'[q] = 0
    <2>1. toGod \in [Partitions -> Nat]
        BY DEF OutlierTypeOK
    <2> QED BY <1>1, <2>1
<1>3. /\ UNCHANGED <<god, endedIn>>
      /\ ListsOK(db')
      /\ \A q : HExists(db', Outliers, q) <=> HExists(db, Outliers, q)
      /\ \A q : HExists(db', GridCells, q) <=> HExists(db, GridCells, q)
      /\ toPartition' \in [Partitions -> Seq({"FetchGridShape", "RemoveEntity"})]
      /\ \A q \in Partitions : Fetches(toPartition'[q]) => Fetches(toPartition[q])
      /\ valid = "no" => UNCHANGED toPartition
    <2>1. CASE valid = "no"
        <3>1. UNCHANGED <<db, toPartition, god, endedIn>>
            BY <2>1 DEF HandleOutliersDetected
        <3> QED BY <3>1 DEF OutlierTypeOK
    <2>2. CASE valid = "yes"
        <3>1. HExists(db, Outliers, p)
            BY <1>1, <2>2 DEF MessagesInv
        <3>2. ProcessOutliers(p) /\ UNCHANGED <<god, endedIn>>
            BY <2>2, <3>1 DEF HandleOutliersDetected
        <3> QED BY <2>2, <3>1, <3>2, ListWorkedOff
    <2> QED BY <2>1, <2>2 DEF OutlierTypeOK
<1>4. OutlierTypeOK'
    BY <1>1, <1>2, <1>3 DEF OutlierTypeOK
<1>5. MessagesInv'
    BY <1>1, <1>2, <1>3 DEF MessagesInv
<1>6. restarts' = 0 => FirstRunInv'
    BY <1>1, <1>3 DEF FirstRunInv
<1>7. PartitionsSurvive'
    BY <1>1, <1>3 DEF PartitionsSurvive
<1> QED BY <1>4, <1>5, <1>6, <1>7

\* A partition that checks its entities reports only those it then finds in the database.
LEMMA CheckKeeps ==
    ASSUME OutlierInv, NEW p \in Partitions, CheckForOutliers(p)
    PROVE  OutlierInv'
<1> USE DEF OutlierInv, godVars
<1>1. /\ loop[p] = "check" /\ loop' = [loop EXCEPT ![p] = "notify"]
      /\ UNCHANGED <<registered, godVars, toPartition, shape, managed, updates, restarts>>
    BY DEF CheckForOutliers
<1>2. PICK r, o : r = Checked(p).reported /\ o = Checked(p).outliers
    OBVIOUS
<1>3. o \in Seq(Positions) /\ r \subseteq Entities /\ (o = <<>> => r \subseteq reported[p])
    BY <1>2, CheckedFinds
<1>4. /\ loop' \in [Partitions -> {"off", "check", "notify", "tick", "down"}]
      /\ \A q \in Partitions : loop'[q] = "off" <=> loop[q] = "off"
      /\ \A q \in Partitions : loop'[q] = "down" => loop[q] = "down"
      /\ p \in registered
    BY <1>1 DEF OutlierTypeOK, MessagesInv
<1>5. /\ ListsOK(db')
      /\ \A q : HExists(db, Outliers, q) => HExists(db', Outliers, q)
      /\ \A q : HExists(db', GridCells, q) <=> HExists(db, GridCells, q)
      /\ toGod' \in [Partitions -> Nat]
      /\ \A q \in Partitions : toGod'[q] # toGod[q] => q = p /\ HExists(db', Outliers, q)
      /\ reported' \in [Partitions -> SUBSET Entities]
      /\ shape[p] = 0 => reported' = reported
      /\ \A q \in Partitions : q # p => reported'[q] = reported[q]
      /\ reported'[p] # {} => reported[p] # {} \/ HExists(db', Outliers, p)
    <2>1. CASE shape[p] = 0 \/ managed[p] = <<>>
        <3>1. UNCHANGED <<db, toGod, reported>>
            BY <2>1 DEF CheckForOutliers
        <3> QED BY <3>1 DEF OutlierTypeOK
    <2>2. CASE ~ (shape[p] = 0 \/ managed[p] = <<>>)
        <3>1. reported' = [reported EXCEPT ![p] = r]
            BY <1>2, <2>2 DEF CheckForOutliers
        <3>2. /\ reported' \in [Partitions -> SUBSET Entities]
              /\ \A q \in Partitions : q # p => reported'[q] = reported[q]
              /\ reported'[p] = r
            BY <1>3, <3>1 DEF OutlierTypeOK
        <3>3. CASE o = <<>>
            <4>1. UNCHANGED <<db, toGod>>
                BY <1>2, <2>2, <3>3 DEF CheckForOutliers
            <4> QED BY <1>3, <2>2, <3>2, <3>3, <4>1 DEF OutlierTypeOK
        <3>4. CASE o # <<>>
            <4>1. /\ db' = HSet(db, Outliers, p, o)
                  /\ toGod' = [toGod EXCEPT ![p] = @ + 1] \/ toGod' = toGod
                BY <1>2, <2>2, <3>4 DEF CheckForOutliers
            <4>2. PICK e : e = db'
                OBVIOUS
            <4>3. /\ ListsOK(e)
                  /\ \A q : HExists(e, Outliers, q) <=> q = p \/ HExists(db, Outliers, q)
                  /\ \A q : HExists(e, GridCells, q) <=> HExists(db, GridCells, q)
                <5>1. ListsOK(db)
                    BY DEF OutlierTypeOK
                <5> QED BY <1>3, <4>1, <4>2, <5>1, ReportStored
            <4>4. /\ toGod' \in [Partitions -> Nat]
                  /\ \A q \in Partitions : toGod'[q] # toGod[q] => q = p
                <5>1. toGod \in [Partitions -> Nat]
                    BY DEF OutlierTypeOK
                <5>2. CASE toGod' = toGod
                    BY <5>1, <5>2
                <5>3. CASE toGod' = [toGod EXCEPT ![p] = @ + 1]
                    BY <5>1, <5>3
                <5> QED BY <4>1, <5>2, <5>3
            <4> QED BY <2>2, <3>2, <4>2, <4>3, <4>4
        <3> QED BY <3>3, <3>4
    <2> QED BY <2>1, <2>2
<1>6. OutlierTypeOK'
    BY <1>1, <1>4, <1>5 DEF OutlierTypeOK
<1>7. MessagesInv'
    <2>1. \A q \in Partitions \ registered' : toGod'[q] = 0
        BY <1>1, <1>4, <1>5 DEF MessagesInv
    <2>2. \A q \in Partitions :
              toGod'[q] > 0 /\ (valid' = "yes" \/ god' = "assign") => HExists(db', Outliers, q)
        BY <1>1, <1>5 DEF MessagesInv
    <2>3. \A q \in Partitions : loop'[q] = "off" <=> q \notin registered'
        BY <1>1, <1>4 DEF MessagesInv
    <2> QED BY <2>1, <2>2, <2>3 DEF MessagesInv
<1>8. ASSUME restarts' = 0 PROVE FirstRunInv'
    <2>1. FirstRunInv
        BY <1>1, <1>8
    <2>2. \A q \in Partitions : reported'[q] # {} => HExists(db', Outliers, q)
        BY <1>5, <2>1 DEF FirstRunInv
    <2>3. god' \in {"clear", "loop0", "assign", "notify"} =>
             \A q \in Partitions : toPartition'[q] = <<>> /\ shape'[q] = 0 /\ reported'[q] = {}
        BY <1>1, <1>5, <2>1 DEF FirstRunInv
    <2> QED BY <1>1, <1>5, <2>1, <2>2, <2>3 DEF FirstRunInv
<1>9. PartitionsSurvive'
    BY <1>1, <1>4 DEF PartitionsSurvive
<1> QED BY <1>6, <1>7, <1>8, <1>9

\* A partition that reminds God reads a list that is there, while God is not restarted.
LEMMA NotifyKeeps ==
    ASSUME OutlierInv, NEW p \in Partitions, NotifyGod(p)
    PROVE  OutlierInv'
<1> USE DEF OutlierInv, godVars
<1>1. /\ loop[p] = "notify"
      /\ UNCHANGED <<db, registered, godVars, toPartition, shape, managed, reported, updates, restarts>>
    BY DEF NotifyGod
<1>2. loop' = [loop EXCEPT ![p] = "tick"] \/ loop' = [loop EXCEPT ![p] = "down"]
    BY DEF NotifyGod
<1>3. restarts = 0 => loop' = [loop EXCEPT ![p] = "tick"]
    BY DEF NotifyGod, MayNotify, FirstRunInv
<1>4. \/ toGod' = toGod
      \/ toGod' = [toGod EXCEPT ![p] = @ + Notices(p)] /\ HExists(db, Outliers, p)
    BY DEF NotifyGod
<1>5. /\ toGod' \in [Partitions -> Nat]
      /\ \A q \in Partitions : toGod'[q] # toGod[q] => q = p /\ HExists(db, Outliers, q)
    <2>1. PICK n : n = Notices(p)
        OBVIOUS
    <2>2. n \in Nat
        BY <2>1 DEF Notices
    <2>3. toGod' = toGod \/ (toGod' = [toGod EXCEPT ![p] = @ + n] /\ HExists(db, Outliers, p))
        BY <1>4, <2>1
    <2>4. toGod \in [Partitions -> Nat]
        BY DEF OutlierTypeOK
    <2> QED BY <2>2, <2>3, <2>4
<1>6. /\ loop' \in [Partitions -> {"off", "check", "notify", "tick", "down"}]
      /\ \A q \in Partitions : loop'[q] = "off" <=> loop[q] = "off"
      /\ p \in registered
    BY <1>1, <1>2 DEF OutlierTypeOK, MessagesInv
<1>7. OutlierTypeOK'
    BY <1>1, <1>5, <1>6 DEF OutlierTypeOK
<1>8. MessagesInv'
    BY <1>1, <1>5, <1>6 DEF MessagesInv
<1>9. restarts' = 0 => FirstRunInv'
    BY <1>1 DEF FirstRunInv
<1>10. PartitionsSurvive'
    BY <1>1, <1>3 DEF PartitionsSurvive, OutlierTypeOK
<1> QED BY <1>7, <1>8, <1>9, <1>10

\* A partition that is told to fetch its shape finds it, while God is not restarted.
LEMMA FetchKeeps ==
    ASSUME OutlierInv, NEW p \in Partitions, FetchGridShape(p)
    PROVE  OutlierInv'
<1> USE DEF OutlierInv, godVars
<1>1. /\ loop[p] = "tick" /\ toPartition[p] # <<>>
      /\ toPartition' = [toPartition EXCEPT ![p] = Tail(@)]
      /\ UNCHANGED <<db, registered, godVars, toGod, managed, sinceNotice, updates, restarts>>
    BY DEF FetchGridShape
<1>2. PICK m : m = toPartition[p]
    OBVIOUS
<1>3. /\ Tail(m) \in Seq({"FetchGridShape", "RemoveEntity"})
      /\ Fetches(Tail(m)) => Fetches(m)
      /\ Head(m) = "FetchGridShape" => Fetches(m)
    <2>1. m \in Seq({"FetchGridShape", "RemoveEntity"}) /\ m # <<>>
        BY <1>1, <1>2 DEF OutlierTypeOK
    <2> QED BY <2>1, MessagesMove
<1>4. /\ toPartition' \in [Partitions -> Seq({"FetchGridShape", "RemoveEntity"})]
      /\ \A q \in Partitions : Fetches(toPartition'[q]) => Fetches(toPartition[q])
    <2>1. PICK u : u = Tail(m)
        OBVIOUS
    <2>2. toPartition' = [toPartition EXCEPT ![p] = u]
        BY <1>1, <1>2, <2>1
    <2> QED BY <1>2, <1>3, <2>1, <2>2 DEF OutlierTypeOK
<1>5. loop' = [loop EXCEPT ![p] = "check"] \/ loop' = [loop EXCEPT ![p] = "down"]
    BY DEF FetchGridShape
<1>6. restarts = 0 => loop' = [loop EXCEPT ![p] = "check"]
    BY <1>2, <1>3 DEF FetchGridShape, FirstRunInv
<1>7. /\ reported' \in [Partitions -> SUBSET Entities]
      /\ \A q \in Partitions : reported'[q] # {} => reported[q] # {}
      /\ DOMAIN shape' = Partitions
    <2>1. reported' = reported \/ reported' = [reported EXCEPT ![p] = {}]
        BY DEF FetchGridShape
    <2>2. DOMAIN shape' = DOMAIN shape
        BY DEF FetchGridShape
    <2> QED BY <2>1, <2>2 DEF OutlierTypeOK
<1>8. /\ loop' \in [Partitions -> {"off", "check", "notify", "tick", "down"}]
      /\ \A q \in Partitions : loop'[q] = "off" <=> loop[q] = "off"
    BY <1>1, <1>5 DEF OutlierTypeOK
<1>9. OutlierTypeOK'
    BY <1>1, <1>4, <1>7, <1>8 DEF OutlierTypeOK
<1>10. MessagesInv'
    BY <1>1, <1>8 DEF MessagesInv
<1>11. restarts' = 0 => FirstRunInv'
    BY <1>1, <1>4, <1>7 DEF FirstRunInv
<1>12. PartitionsSurvive'
    BY <1>1, <1>6 DEF PartitionsSurvive, OutlierTypeOK
<1> QED BY <1>9, <1>10, <1>11, <1>12

\* Packets of the game server change the entities of a partition to a list of entities.
LEMMA PacketKeeps ==
    ASSUME OutlierInv, NEW p \in Partitions, NEW x \in Positions,
           NEW h \in {"EntityUpdate", "EntityIncoming", "EntityOutgoing"}, EntityPacket(p, h, <<x>>)
    PROVE  OutlierInv'
<1> USE DEF OutlierInv, godVars
<1>1. PICK es : es = <<x>>
    OBVIOUS
<1>2. es \in Seq(Positions) /\ managed[p] \in Seq(Positions)
    BY <1>1 DEF OutlierTypeOK
<1>3. /\ loop[p] = "tick" /\ loop' = [loop EXCEPT ![p] = "check"]
      /\ UNCHANGED <<db, registered, godVars, toGod, toPartition, shape, reported, sinceNotice, restarts>>
    BY DEF EntityPacket
<1>4. PICK list \in Received(p, h, es) : managed' = [managed EXCEPT ![p] = list]
    BY <1>1 DEF EntityPacket
<1>5. list \in Seq(Positions)
    <2>1. CASE h = "EntityUpdate"
        BY <1>2, <1>4, <2>1 DEF Received
    <2>2. CASE h = "EntityIncoming"
        <3>1. list = managed[p] \o es
            BY <1>4, <2>2 DEF Received
        <3> QED BY <1>2, <3>1, ConcatProperties
    <2>3. CASE h = "EntityOutgoing"
        <3>1. PICK places : places = {i \in 1..Len(managed[p]) : \A y \in Range(es) : y[1] # managed[p][i][1]}
            OBVIOUS
        <3>2. places \in SUBSET (1..Len(managed[p])) /\ list \in At(managed[p], places)
            BY <1>4, <2>3, <3>1 DEF Received
        <3> QED BY <1>2, <3>2, AtIsAList
    <2> QED BY <2>1, <2>2, <2>3
<1>6. managed' \in [Partitions -> Seq(Positions)]
    BY <1>4, <1>5 DEF OutlierTypeOK
<1>7. /\ loop' \in [Partitions -> {"off", "check", "notify", "tick", "down"}]
      /\ \A q \in Partitions : loop'[q] = "off" <=> loop[q] = "off"
      /\ \A q \in Partitions : loop'[q] = "down" => loop[q] = "down"
    BY <1>3 DEF OutlierTypeOK
<1>8. OutlierTypeOK'
    BY <1>3, <1>6, <1>7 DEF OutlierTypeOK
<1>9. MessagesInv'
    BY <1>3, <1>7 DEF MessagesInv
<1>10. restarts' = 0 => FirstRunInv'
    BY <1>3 DEF FirstRunInv
<1>11. PartitionsSurvive'
    BY <1>3, <1>7 DEF PartitionsSurvive
<1> QED BY <1>8, <1>9, <1>10, <1>11

\* A partition that starts, ticks or waits changes nothing that anyone reads.
LEMMA QuietKeeps ==
    ASSUME OutlierInv, NEW p \in Partitions, StartPartition(p) \/ IdleTick(p) \/ ThirtySeconds(p)
    PROVE  OutlierInv'
<1> USE DEF OutlierInv, godVars
<1>1. UNCHANGED <<db, godVars, toGod, toPartition, shape, managed, reported, updates, restarts>>
    BY DEF StartPartition, IdleTick, ThirtySeconds
<1>2. \/ loop' = loop /\ registered' = registered
      \/ /\ loop' = [loop EXCEPT ![p] = "check"] /\ registered' = registered \cup {p}
    <2>1. CASE StartPartition(p)
        BY <2>1 DEF StartPartition
    <2>2. CASE IdleTick(p)
        <3>1. loop[p] # "off" /\ loop' = [loop EXCEPT ![p] = "check"] /\ registered' = registered
            BY <2>2 DEF IdleTick
        <3>2. p \in registered
            BY <3>1 DEF MessagesInv
        <3> QED BY <3>1, <3>2
    <2>3. CASE ThirtySeconds(p)
        BY <2>3 DEF ThirtySeconds
    <2> QED BY <2>1, <2>2, <2>3
<1>3. OutlierTypeOK'
    BY <1>1, <1>2 DEF OutlierTypeOK
<1>4. MessagesInv'
    BY <1>1, <1>2 DEF MessagesInv, OutlierTypeOK
<1>5. restarts' = 0 => FirstRunInv'
    BY <1>1 DEF FirstRunInv
<1>6. PartitionsSurvive'
    BY <1>1, <1>2 DEF PartitionsSurvive, OutlierTypeOK
<1> QED BY <1>3, <1>4, <1>5, <1>6

\* Every step keeps the invariant.
LEMMA NextOutlier == OutlierInv /\ [OutlierNext]_outlierVars => OutlierInv'
<1> SUFFICES ASSUME OutlierInv, [OutlierNext]_outlierVars PROVE OutlierInv'
    OBVIOUS
<1>1. CASE UNCHANGED outlierVars
    <2> USE <1>1 DEF outlierVars, godVars, partitionVars
    <2>1. OutlierTypeOK'
        BY DEF OutlierInv, OutlierTypeOK
    <2>2. MessagesInv'
        BY DEF OutlierInv, MessagesInv
    <2>3. restarts' = 0 => FirstRunInv'
        BY DEF OutlierInv, FirstRunInv
    <2>4. PartitionsSurvive'
        BY DEF OutlierInv, PartitionsSurvive
    <2> QED BY <2>1, <2>2, <2>3, <2>4 DEF OutlierInv
<1>2. CASE OutlierNext
    BY <1>2, GodKeeps, RestartKeeps, MessageKeeps, CheckKeeps, NotifyKeeps, FetchKeeps, PacketKeeps,
       QuietKeeps DEF OutlierNext, Positions
<1> QED BY <1>1, <1>2

\* What God and the partitions know of each other (OutlierInv) holds throughout.
THEOREM OutlierInvariant == OutlierSpec => []OutlierInv
BY InitOutlier, NextOutlier, PTL DEF OutlierSpec

\* No partition ends before God is restarted because a field that it reads is missing
\* (FetchShape, notifyGodAboutOutliers), and God never ends in the handler of a partition's
\* message (handleOutliersDetectedMessage), restarted or not.
THEOREM FieldsAreFound == OutlierSpec => []PartitionsSurvive
<1>1. OutlierInv => PartitionsSurvive
    BY DEF OutlierInv
<1> QED BY <1>1, OutlierInvariant, PTL

-----------------------------------------------------------------------------
(* Debug entities and the perimeter of the world. *)

\* A quad is in the world, as wide as it is said to be, and begins at its edge or at the axis.
LEMMA QuadPlace ==
    ASSUME NEW i \in Quads
    PROVE  LET b == QuadBox(i) IN
           /\ b.minX \in {-2 * QuadHalf, 0} /\ b.maxX = b.minX + 2 * QuadHalf
           /\ b.minY \in {-2 * QuadHalf, 0} /\ b.maxY = b.minY + 2 * QuadHalf
<1>1. QuadHalf \in Nat
    BY BounceAssumption
<1>2. PICK b : b = QuadBox(i)
    OBVIOUS
<1>3. PICK x, y : /\ x = QuadHalf * (IF i % 2 = 1 THEN 1 ELSE -1)
                  /\ y = QuadHalf * (IF i \div 2 = 1 THEN 1 ELSE -1)
    OBVIOUS
<1>4. x \in {QuadHalf, -QuadHalf}
    <2>1. CASE i % 2 = 1
        BY <1>1, <1>3, <2>1
    <2>2. CASE i % 2 # 1
        BY <1>1, <1>3, <2>2
    <2> QED BY <2>1, <2>2
<1>5. y \in {QuadHalf, -QuadHalf}
    <2>1. CASE i \div 2 = 1
        BY <1>1, <1>3, <2>1
    <2>2. CASE i \div 2 # 1
        BY <1>1, <1>3, <2>2
    <2> QED BY <2>1, <2>2
<1>6. /\ b.minX = x - QuadHalf /\ b.maxX = x + QuadHalf
      /\ b.minY = y - QuadHalf /\ b.maxY = y + QuadHalf
    BY <1>2, <1>3 DEF QuadBox, FromCenterExtents, Box
<1> QED BY <1>1, <1>2, <1>4, <1>5, <1>6

\* The least and the greatest of numbers of which there are two at most.
LEMMA LeastOfTwo ==
    ASSUME NEW a \in Int, NEW b \in Int, NEW S \in SUBSET {a, b}, S # {}
    PROVE  /\ Min(S) \in S /\ \A s \in S : Min(S) <= s
           /\ Max(S) \in S /\ \A s \in S : s <= Max(S)
<1>1. S \subseteq Int
    OBVIOUS
<1>2. /\ \E x \in S : \A s \in S : x <= s
      /\ \E x \in S : \A s \in S : x >= s
    <2>1. CASE S = {a}
        BY <2>1
    <2>2. CASE S = {b}
        BY <2>2
    <2>3. CASE S = {a, b}
        <3>1. CASE a <= b
            BY <2>3, <3>1
        <3>2. CASE b <= a
            BY <2>3, <3>2
        <3> QED BY <3>1, <3>2
    <2> QED BY <2>1, <2>2, <2>3
<1>4. Min(S) \in S /\ \A s \in S : Min(S) <= s
    <2>1. PICK x : x = Min(S)
        OBVIOUS
    <2>2. x = CHOOSE y \in S : \A s \in S : y <= s
        BY <2>1 DEF Min
    <2> QED BY <1>2, <2>1, <2>2
<1>5. Max(S) \in S /\ \A s \in S : Max(S) >= s
    <2>1. PICK x : x = Max(S)
        OBVIOUS
    <2>2. x = CHOOSE y \in S : \A s \in S : y >= s
        BY <2>1 DEF Max
    <2> QED BY <1>2, <2>1, <2>2
<1> QED BY <1>1, <1>4, <1>5

\* Whatever bounds are read, the perimeter around them is in the world and a quad wide.
LEMMA PerimeterIsWide ==
    ASSUME NEW read \in SUBSET Quads
    PROVE  Wide(Combined(read))
<1>1. QuadHalf \in Nat
    BY BounceAssumption
<1>2. CASE read = {}
    <2>1. PICK b : b = Combined(read)
        OBVIOUS
    <2>2. /\ b.minX = -QuadHalf /\ b.maxX = QuadHalf
          /\ b.minY = -QuadHalf /\ b.maxY = QuadHalf
        BY <1>1, <1>2, <2>1 DEF Combined, FromCenterExtents, Box
    <2> QED BY <1>1, <2>1, <2>2 DEF Wide, World
<1>3. CASE read # {}
    <2>1. PICK c : c = Combined(read)
        OBVIOUS
    <2>2. PICK boxes : boxes = {QuadBox(i) : i \in read}
        OBVIOUS
    <2>3. PICK q \in boxes : TRUE
        BY <1>3, <2>2
    <2>4. \A b \in boxes :
             /\ b.minX \in {-2 * QuadHalf, 0} /\ b.maxX = b.minX + 2 * QuadHalf
             /\ b.minY \in {-2 * QuadHalf, 0} /\ b.maxY = b.minY + 2 * QuadHalf
        BY <2>2, QuadPlace
    <2>5. PICK lx, ly, hx, hy :
             /\ lx = {b.minX : b \in boxes} /\ ly = {b.minY : b \in boxes}
             /\ hx = {b.maxX : b \in boxes} /\ hy = {b.maxY : b \in boxes}
        OBVIOUS
    <2>6. c = Box(Min(lx), Min(ly), Max(hx), Max(hy))
        BY <1>3, <2>1, <2>2, <2>5 DEF Combined
    <2>7. /\ lx \in SUBSET {-2 * QuadHalf, 0} /\ ly \in SUBSET {-2 * QuadHalf, 0}
          /\ hx \in SUBSET {0, 2 * QuadHalf} /\ hy \in SUBSET {0, 2 * QuadHalf}
        BY <1>1, <2>4, <2>5
    <2>8. q.minX \in lx /\ q.minY \in ly /\ q.maxX \in hx /\ q.maxY \in hy
        BY <2>3, <2>5
    <2>9. -2 * QuadHalf \in Int /\ 2 * QuadHalf \in Int /\ 0 \in Int
        BY <1>1
    <2>10. PICK h \in Int : h = 2 * QuadHalf
        BY <2>9
    <2>11. Min(lx) \in lx /\ Min(lx) <= q.minX /\ Min(ly) \in ly /\ Min(ly) <= q.minY
        BY <2>7, <2>8, <2>9, LeastOfTwo
    <2>12. Max(hx) \in hx /\ q.maxX <= Max(hx)
        <3>1. hx \in SUBSET {0, h} /\ hx # {} /\ q.maxX \in hx
            BY <2>7, <2>8, <2>10
        <3> QED BY ONLY <3>1, h \in Int, 0 \in Int, LeastOfTwo
    <2>13. Max(hy) \in hy /\ q.maxY <= Max(hy)
        <3>1. hy \in SUBSET {0, h} /\ hy # {} /\ q.maxY \in hy
            BY <2>7, <2>8, <2>10
        <3> QED BY ONLY <3>1, h \in Int, 0 \in Int, LeastOfTwo
    <2>14. PICK a1, a2, b1, b2 : a1 = Min(lx) /\ a2 = Min(ly) /\ b1 = Max(hx) /\ b2 = Max(hy)
        OBVIOUS
    <2>15. c.minX = a1 /\ c.minY = a2 /\ c.maxX = b1 /\ c.maxY = b2
        BY <2>6, <2>14 DEF Box
    <2>16. /\ a1 \in {-2 * QuadHalf, 0} /\ a2 \in {-2 * QuadHalf, 0}
           /\ b1 \in {0, 2 * QuadHalf} /\ b2 \in {0, 2 * QuadHalf}
        BY <2>7, <2>11, <2>12, <2>13, <2>14
    <2>17. a1 + 2 * QuadHalf <= b1
        BY <1>1, <2>3, <2>4, <2>11, <2>12, <2>14, <2>16
    <2>18. a2 + 2 * QuadHalf <= b2
        BY <1>1, <2>3, <2>4, <2>11, <2>13, <2>14, <2>16
    <2> QED BY <1>1, <2>1, <2>15, <2>16, <2>17, <2>18 DEF Wide, World
<1> QED BY <1>2, <1>3

\* Wherever they were, bounced entities are inside of a wide perimeter, and so in the world.
LEMMA BouncedInside ==
    ASSUME NEW box, Wide(box), NEW entities \in SUBSET [at : Int \X Int, v : Int \X Int]
    PROVE  ReflectOnPerimeter(entities, box) \subseteq [at : World \X World, v : Int \X Int]
<1> DEFINE E == [at : Int \X Int, v : Int \X Int]
<1>1. QuadHalf \in Nat /\ HalfExtent \in Nat /\ HalfExtent < QuadHalf
    BY BounceAssumption
<1>2. PICK in : in = Inner(box)
    OBVIOUS
<1>3. PICK lx, ly, hx, hy : lx = in.minX /\ ly = in.minY /\ hx = in.maxX /\ hy = in.maxY
    OBVIOUS
<1>4. /\ box.minX \in World /\ box.minY \in World /\ box.maxX \in World /\ box.maxY \in World
      /\ box.minX + 2 * QuadHalf <= box.maxX /\ box.minY + 2 * QuadHalf <= box.maxY
    BY DEF Wide
<1>5. /\ lx = box.minX + HalfExtent /\ hx = box.maxX - HalfExtent
      /\ ly = box.minY + HalfExtent /\ hy = box.maxY - HalfExtent
    BY <1>2, <1>3 DEF Inner, Box
<1>6. lx \in World /\ hx \in World /\ lx <= hx
    BY <1>1, <1>4, <1>5 DEF World
<1>7. ly \in World /\ hy \in World /\ ly <= hy
    BY <1>1, <1>4, <1>5 DEF World
<1>8. World \subseteq Int
    BY <1>1 DEF World
<1>9. ASSUME NEW p \in Int, NEW lo \in World, NEW hi \in World, lo <= hi
      PROVE  Clamp(p, lo, hi) \in World
    <2>1. p < lo \/ p > hi \/ p \in lo..hi
        BY <1>8
    <2>2. p \in lo..hi => p \in World
        BY <1>1 DEF World
    <2> QED BY <1>8, <2>1, <2>2 DEF Clamp
<1>10. ASSUME NEW p \in Int, NEW v \in Int, NEW lo \in World, NEW hi \in World, lo <= hi
       PROVE  Bounce(p, v, lo, hi) \in Int \X Int
    <2>1. PICK c : c = Clamp(p, lo, hi)
        OBVIOUS
    <2>2. c \in Int
        BY <1>8, <1>9, <1>10, <2>1
    <2>3. PICK w : w = IF p < lo THEN Abs(v) ELSE IF p > hi THEN -Abs(v) ELSE v
        OBVIOUS
    <2>4. w \in Int
        BY <2>3 DEF Abs
    <2>5. Bounce(p, v, lo, hi) = <<2 * c - p, w>>
        BY <1>8, <1>10, <2>1, <2>3 DEF Bounce
    <2> QED BY <2>2, <2>4, <2>5
<1>11. ASSUME NEW S \in SUBSET E PROVE Bounced(S, in) \in SUBSET E
    <2> SUFFICES ASSUME NEW f \in Bounced(S, in) PROVE f \in E
        OBVIOUS
    <2>1. PICK e \in S : f = LET x == Bounce(e.at[1], e.v[1], in.minX, in.maxX)
                                 y == Bounce(e.at[2], e.v[2], in.minY, in.maxY)
                             IN  [at |-> <<x[1], y[1]>>, v |-> <<x[2], y[2]>>]
        BY DEF Bounced
    <2>2. PICK x, y : x = Bounce(e.at[1], e.v[1], lx, hx) /\ y = Bounce(e.at[2], e.v[2], ly, hy)
        OBVIOUS
    <2>3. e.at[1] \in Int /\ e.at[2] \in Int /\ e.v[1] \in Int /\ e.v[2] \in Int
        OBVIOUS
    <2>4. x \in Int \X Int
        BY <1>6, <1>10, <2>2, <2>3
    <2>5. y \in Int \X Int
        BY <1>7, <1>10, <2>2, <2>3
    <2>6. f = [at |-> <<x[1], y[1]>>, v |-> <<x[2], y[2]>>]
        BY <1>3, <2>1, <2>2
    <2> QED BY <2>4, <2>5, <2>6
<1>12. ASSUME NEW S \in SUBSET E PROVE Clamped(S, in) \subseteq [at : World \X World, v : Int \X Int]
    <2> SUFFICES ASSUME NEW f \in Clamped(S, in) PROVE f \in [at : World \X World, v : Int \X Int]
        OBVIOUS
    <2>1. PICK e \in S : f = [e EXCEPT !.at = <<Clamp(@[1], in.minX, in.maxX), Clamp(@[2], in.minY, in.maxY)>>]
        BY DEF Clamped
    <2>2. PICK x, y : x = Clamp(e.at[1], lx, hx) /\ y = Clamp(e.at[2], ly, hy)
        OBVIOUS
    <2>3. e.at[1] \in Int /\ e.at[2] \in Int /\ e \in E
        OBVIOUS
    <2>4. x \in World /\ y \in World
        BY <1>6, <1>7, <1>9, <2>2, <2>3
    <2>5. f = [e EXCEPT !.at = <<x, y>>]
        BY <1>3, <2>1, <2>2
    <2> QED BY <2>3, <2>4, <2>5
<1>13. PICK s1, s2, s3, s4 : /\ s1 = Bounced(entities, in) /\ s2 = Bounced(s1, in)
                             /\ s3 = Bounced(s2, in) /\ s4 = Bounced(s3, in)
    OBVIOUS
<1> HIDE DEF E
<1>14. s4 \in SUBSET E
    <2>1. entities \in SUBSET E
        BY DEF E
    <2>2. s1 \in SUBSET E
        BY <1>11, <1>13, <2>1
    <2>3. s2 \in SUBSET E
        BY <1>11, <1>13, <2>2
    <2>4. s3 \in SUBSET E
        BY <1>11, <1>13, <2>3
    <2> QED BY <1>11, <1>13, <2>4
<1>15. ReflectOnPerimeter(entities, box) = Clamped(s4, in)
    BY <1>2, <1>13 DEF ReflectOnPerimeter
<1> QED BY <1>12, <1>14, <1>15

\* The grid has a quad for every position in the world.
LEMMA WorldIsCovered ==
    ASSUME NEW p \in World \X World
    PROVE  QueryPosition(p) # {}
<1>1. QuadHalf \in Nat
    BY BounceAssumption
<1>2. p[1] \in World /\ p[2] \in World
    OBVIOUS
<1>3. PICK i \in Quads : /\ i % 2 = (IF p[1] >= 0 THEN 1 ELSE 0)
                         /\ i \div 2 = (IF p[2] >= 0 THEN 1 ELSE 0)
    <2>1. /\ 0 \in Quads /\ 1 \in Quads /\ 2 \in Quads /\ 3 \in Quads
          /\ 0 % 2 = 0 /\ 0 \div 2 = 0 /\ 1 % 2 = 1 /\ 1 \div 2 = 0
          /\ 2 % 2 = 0 /\ 2 \div 2 = 1 /\ 3 % 2 = 1 /\ 3 \div 2 = 1
        BY DEF Quads
    <2>2. CASE p[1] >= 0 /\ p[2] >= 0
        BY <2>1, <2>2
    <2>3. CASE p[1] >= 0 /\ ~ (p[2] >= 0)
        BY <2>1, <2>3
    <2>4. CASE ~ (p[1] >= 0) /\ p[2] >= 0
        BY <2>1, <2>4
    <2>5. CASE ~ (p[1] >= 0) /\ ~ (p[2] >= 0)
        BY <2>1, <2>5
    <2> QED BY <2>2, <2>3, <2>4, <2>5
<1>4. PICK b : b = QuadBox(i)
    OBVIOUS
<1>5. /\ b.minX = IF p[1] >= 0 THEN 0 ELSE -2 * QuadHalf
      /\ b.maxX = IF p[1] >= 0 THEN 2 * QuadHalf ELSE 0
    <2>1. CASE p[1] >= 0
        BY <1>1, <1>3, <1>4, <2>1 DEF QuadBox, FromCenterExtents, Box
    <2>2. CASE ~ (p[1] >= 0)
        BY <1>1, <1>3, <1>4, <2>2 DEF QuadBox, FromCenterExtents, Box
    <2> QED BY <2>1, <2>2
<1>6. /\ b.minY = IF p[2] >= 0 THEN 0 ELSE -2 * QuadHalf
      /\ b.maxY = IF p[2] >= 0 THEN 2 * QuadHalf ELSE 0
    <2>1. CASE p[2] >= 0
        BY <1>1, <1>3, <1>4, <2>1 DEF QuadBox, FromCenterExtents, Box
    <2>2. CASE ~ (p[2] >= 0)
        BY <1>1, <1>3, <1>4, <2>2 DEF QuadBox, FromCenterExtents, Box
    <2> QED BY <2>1, <2>2
<1>7. p[1] \in b.minX..b.maxX
    BY <1>1, <1>2, <1>5 DEF World
<1>8. p[2] \in b.minY..b.maxY
    BY <1>1, <1>2, <1>6 DEF World
<1>9. BoxContains(QuadBox(i), p)
    BY <1>4, <1>7, <1>8 DEF BoxContains
<1> QED BY <1>9 DEF QueryPosition

\* Before anything is simulated there is no entity and no perimeter.
LEMMA InitBounce == BounceInit => BounceInv
BY DEF BounceInit, BounceInv, NoRebuild

\* Every step keeps the entities in the world.
LEMMA NextBounce == BounceInv /\ [BounceNext]_bounceVars => BounceInv'
<1> SUFFICES ASSUME BounceInv, [BounceNext]_bounceVars PROVE BounceInv'
    OBVIOUS
<1> DEFINE Inside == [at : World \X World, v : Int \X Int]
           E == [at : Int \X Int, v : Int \X Int]
<1>0. World \subseteq Int
    BY BounceAssumption DEF World
<1>1. ASSUME NEW i \in Quads, PublishBound(i) \/ MoveBound(i) PROVE BounceInv'
    BY <1>1 DEF PublishBound, MoveBound, BounceInv
<1>2. CASE TickBegins \/ SeedBegins
    <2>1. PICK call \in {"tick", "seed"} : ReadClaimed(call)
        BY <1>2 DEF TickBegins, SeedBegins
    <2>2. rebuild'.claimed \subseteq Quads /\ rebuild' # NoRebuild
        BY <2>1 DEF ReadClaimed, NoRebuild, Claimed
    <2> QED BY <2>1, <2>2 DEF ReadClaimed, BounceInv, Claimed
<1>3. ASSUME NEW call, ReadPending(call)
      PROVE  /\ Wide(perimeter') /\ perimeterValid' = "yes" /\ rebuild'.claimed \subseteq Quads
    <2>1. PICK read : read = rebuild.claimed \cup Pending \cup ConfiguredWorld
        OBVIOUS
    <2>2. read \in SUBSET Quads
        BY <2>1 DEF BounceInv, Pending, ConfiguredWorld
    <2>3. PICK box : box = Combined(read)
        OBVIOUS
    <2>4. Wide(box)
        BY <2>2, <2>3, PerimeterIsWide
    <2>5. perimeter' = box /\ perimeterValid' = "yes" /\ rebuild' = NoRebuild
        BY <1>3, <2>1, <2>3 DEF ReadPending
    <2> QED BY <2>4, <2>5 DEF NoRebuild
<1>4. ASSUME NEW step \in 0..1 PROVE Moved(entitiesById, step) \in SUBSET E
    <2> SUFFICES ASSUME NEW f \in Moved(entitiesById, step) PROVE f \in E
        OBVIOUS
    <2>1. PICK e \in entitiesById : f = [e EXCEPT !.at = <<@[1] + step * e.v[1], @[2] + step * e.v[2]>>]
        BY DEF Moved
    <2>2. e \in Inside
        BY DEF BounceInv
    <2>3. /\ e.at[1] \in Int /\ e.at[2] \in Int /\ e.v[1] \in Int /\ e.v[2] \in Int
          /\ e.v \in Int \X Int
        BY <1>0, <2>2
    <2>4. PICK x, y : x = e.at[1] + step * e.v[1] /\ y = e.at[2] + step * e.v[2]
        OBVIOUS
    <2>5. x \in Int /\ y \in Int
        <3>1. CASE step = 0
            BY <2>3, <2>4, <3>1
        <3>2. CASE step = 1
            BY <2>3, <2>4, <3>2
        <3> QED BY <3>1, <3>2
    <2>6. f = [e EXCEPT !.at = <<x, y>>]
        BY <2>1, <2>4
    <2> QED BY <2>2, <2>3, <2>5, <2>6
<1>5. ASSUME NEW step \in 0..1, TickMoves(step) PROVE BounceInv'
    <2>1. Wide(perimeter') /\ perimeterValid' = "yes" /\ rebuild'.claimed \subseteq Quads
        BY <1>3, <1>5 DEF TickMoves
    <2>2. PICK box, moved : box = perimeter' /\ moved = Moved(entitiesById, step)
        OBVIOUS
    <2>3. moved \in SUBSET E /\ Wide(box)
        BY <1>4, <2>1, <2>2
    <2>4. ReflectOnPerimeter(moved, box) \subseteq Inside
        BY <2>3, BouncedInside
    <2>5. entitiesById' = ReflectOnPerimeter(moved, box)
        BY <1>5, <2>2 DEF TickMoves
    <2> QED BY <2>1, <2>4, <2>5 DEF BounceInv
<1>6. ASSUME NEW step \in 0..1, TickWithin(step) PROVE BounceInv'
    <2>1. perimeterValid = "yes" /\ Wide(perimeter)
        BY <1>6 DEF TickWithin, BounceInv
    <2>2. PICK box, moved : box = perimeter /\ moved = Moved(entitiesById, step)
        OBVIOUS
    <2>3. moved \in SUBSET E /\ Wide(box)
        BY <1>4, <2>1, <2>2
    <2>4. ReflectOnPerimeter(moved, box) \subseteq Inside
        BY <2>3, BouncedInside
    <2>5. entitiesById' = ReflectOnPerimeter(moved, box)
        BY <1>6, <2>1, <2>2 DEF TickWithin
    <2> QED BY <1>6, <2>4, <2>5 DEF BounceInv, TickWithin
<1>7. ASSUME NEW v \in Velocities, SeedEntities(v) PROVE BounceInv'
    <2>1. Wide(perimeter') /\ perimeterValid' = "yes" /\ rebuild'.claimed \subseteq Quads
        BY <1>3, <1>7 DEF SeedEntities
    <2>2. PICK box : box = perimeter'
        OBVIOUS
    <2>3. PICK p \in SpawnPositions(box) : entitiesById' = {[at |-> p, v |-> v]}
        BY <1>7, <2>2 DEF SeedEntities
    <2>4. p \in World \X World
        <3>1. QuadHalf \in Nat /\ HalfExtent \in Nat /\ HalfExtent < QuadHalf
            BY BounceAssumption
        <3>2. /\ box.minX \in World /\ box.minY \in World /\ box.maxX \in World /\ box.maxY \in World
              /\ box.minX + 2 * QuadHalf <= box.maxX /\ box.minY + 2 * QuadHalf <= box.maxY
            BY <2>1, <2>2 DEF Wide
        <3>3. /\ box.minX + HalfExtent \in World /\ box.maxX - HalfExtent \in World
              /\ box.minY + HalfExtent \in World /\ box.maxY - HalfExtent \in World
              /\ 0 \in World
            BY <3>1, <3>2 DEF World
        <3> QED BY <2>3, <3>3 DEF SpawnPositions
    <2>5. v \in Int \X Int
        BY BounceAssumption
    <2> QED BY <2>1, <2>3, <2>4, <2>5 DEF BounceInv
<1>8. ASSUME NEW v \in Velocities, NEW p \in AdoptPositions, AdoptSingleEntity(p, v) PROVE BounceInv'
    <2>1. v \in Int \X Int /\ p \in World \X World
        BY BounceAssumption DEF World
    <2> QED BY <1>8, <2>1 DEF AdoptSingleEntity, BounceInv
<1>9. CASE RemoveEntity \/ Reset
    BY <1>9 DEF RemoveEntity, Reset, BounceInv
<1>10. CASE UNCHANGED bounceVars
    BY <1>10 DEF bounceVars, BounceInv
<1> QED BY <1>1, <1>2, <1>5, <1>6, <1>7, <1>8, <1>9, <1>10 DEF BounceNext

\* Wherever a debug entity moves, is seeded or adopted, the grid has a bound for it, although
\* the perimeter it bounces at is built from two reads between which bounds move
\* (RebuildPerimeterBounds, ReflectOnPerimeter).
THEOREM EntitiesStayInTheWorld == BounceSpec => []EntitiesFindABound
<1>1. BounceInv => EntitiesFindABound
    <2> SUFFICES ASSUME BounceInv, NEW e \in entitiesById PROVE QueryPosition(e.at) # {}
        BY DEF EntitiesFindABound
    <2>1. e.at \in World \X World
        BY DEF BounceInv
    <2> QED BY <2>1, WorldIsCovered
<1> QED BY <1>1, InitBounce, NextBounce, PTL DEF BounceSpec
=============================================================================
