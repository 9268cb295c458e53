-------------------------- MODULE EntityQueryProofs --------------------------
(***************************************************************************)
(* Theorems about EntityQuery for every number of shards, entities, calls  *)
(* and crashes, and for every counter wider than the number of shards.     *)
(***************************************************************************)
EXTENDS EntityQuery, TLAPS, FiniteSetTheorems, SequenceTheorems

\* The shards still to be heard are finitely many, fewer than the counter's range.
LEMMA OutstandingBounded ==
    ASSUME TypeOK
    PROVE  /\ Outstanding \subseteq Shards
           /\ IsFiniteSet(Outstanding)
           /\ Cardinality(Outstanding) \in 0..(CounterRange - 1)
<1>1. Outstanding \in SUBSET Shards
  BY DEF TypeOK, Outstanding, Answers
<1>2. IsFiniteSet(Outstanding) /\ Cardinality(Outstanding) <= Cardinality(Shards)
  BY <1>1, QueryAssumption, FS_Subset
<1>3. Cardinality(Outstanding) \in Nat /\ Cardinality(Shards) \in Nat
  BY <1>2, QueryAssumption, FS_CardinalityType
<1> QED
  BY <1>1, <1>2, <1>3, QueryAssumption

\* Decrementing and incrementing keep the counter in its range.
LEMMA CounterInRange ==
    ASSUME NEW n \in 0..(CounterRange - 1)
    PROVE  /\ Decremented(n) \in 0..(CounterRange - 1)
           /\ Incremented(n) \in 0..(CounterRange - 1)
BY QueryAssumption DEF Decremented, Incremented

-----------------------------------------------------------------------------
(* How each step changes the set of shards still to be heard. *)

\* A shard that turns the query into an answer is outstanding still.
LEMMA AnsweringKeepsOutstanding ==
    ASSUME NEW s \in Shards, NEW es, Answered(s, es)
    PROVE  Outstanding' = Outstanding
<1> DEFINE b == [shard |-> s, entities |-> es]
<1>1. b.shard = s /\ s \in queries
  BY DEF Answered
<1>2. queries' = queries \ {s} /\ answers' = answers \cup {b} /\ lost' = lost
  BY DEF Answered
<1>3. ASSUME NEW t
      PROVE  t \in Outstanding' <=> t \in Outstanding
  <2>1. t \in Outstanding' <=> \/ t \in (queries \ {s}) \cup lost
                               \/ \E a \in answers \cup {b} : t = a.shard
    BY <1>2 DEF Outstanding
  <2>2. t \in Outstanding <=> t \in queries \cup lost \/ \E a \in answers : t = a.shard
    BY DEF Outstanding
  <2> HIDE DEF b
  <2> QED
    BY <1>1, <2>1, <2>2
<1> QED
  BY <1>3

\* A shard whose query or answer is lost stays outstanding for ever, and the other
\* steps of a shard leave the messages alone.
LEMMA ShardStepKeepsOutstanding ==
    ASSUME NEW s \in Shards, ShardStep(s)
    PROVE  Outstanding' = Outstanding
<1>1. CASE \E es : Answered(s, es)
  BY <1>1, AnsweringKeepsOutstanding
<1>2. CASE ConnectionBreaks(s) \/ QueryIgnored(s)
  BY <1>2 DEF ConnectionBreaks, QueryIgnored, Outstanding
<1>3. CASE UNCHANGED netVars
  BY <1>3 DEF netVars, Outstanding
<1> QED
  BY <1>1, <1>2, <1>3 DEF ShardStep, ShardStart, LedgerInit, ShardClaims, ShardCrash,
     RegisterNewEntity, OnLocalEntityListRequest, RacedAnswer

\* A heard shard is no longer outstanding: it had one answer and no query.
LEMMA HearingShrinksOutstanding ==
    ASSUME HeardOnce, NEW a \in answers, OnLocalEntityListRequestPacket(a)
    PROVE  /\ a.shard \in Outstanding
           /\ Outstanding' = Outstanding \ {a.shard}
BY DEF HeardOnce, OnLocalEntityListRequestPacket, Outstanding

\* A shard is asked only when it is not outstanding.
LEMMA AskingGrowsOutstanding ==
    ASSUME AskedInv, NEW s \in Shards, SendQuery(s)
    PROVE  /\ s \notin Outstanding
           /\ Outstanding' = Outstanding \cup {s}
BY DEF AskedInv, SendQuery, Outstanding

-----------------------------------------------------------------------------
\* Every variable keeps its type: the counter RequestsUnanswered stays within its
\* width although an answer may be counted before its request.
THEOREM TypeCorrect == Spec => []TypeOK
<1>1. Init => TypeOK
  <2>1. CounterRange \in Nat /\ CounterRange > 0
    BY QueryAssumption, FS_CardinalityType
  <2> QED
    BY <2>1 DEF Init, TypeOK
<1>2. TypeOK /\ [Next]_vars => TypeOK'
  <2> SUFFICES ASSUME TypeOK, [Next]_vars
               PROVE  TypeOK'
    OBVIOUS
  <2>0. Cardinality(Shards) \in Nat /\ CounterRange \in Nat /\ CounterRange > 0
    BY QueryAssumption, FS_CardinalityType
  <2> USE <2>0 DEF TypeOK, viewVars, netVars, shardVars
  <2>1. ASSUME NEW s \in Shards, ShardStep(s)
        PROVE  TypeOK'
    <3>1. CASE ShardStart(s) \/ LedgerInit(s) \/ ShardClaims(s) \/ ShardCrash(s)
      BY <3>1 DEF ShardStart, LedgerInit, ShardClaims, ShardCrash
    <3>2. CASE OnLocalEntityListRequest(s)
      BY <3>2 DEF OnLocalEntityListRequest, Answered, Answers
    <3>3. ASSUME NEW e \in Entities, RegisterNewEntity(s, e)
          PROVE  TypeOK'
      BY <3>3 DEF RegisterNewEntity
    <3>4. CASE ConnectionBreaks(s) \/ QueryIgnored(s)
      BY <3>4 DEF ConnectionBreaks, QueryIgnored
    <3>5. ASSUME NEW e \in Entities, NEW es \in SUBSET Entities, RacedAnswer(s, e, es)
          PROVE  TypeOK'
      BY <3>5 DEF RacedAnswer, Answered, Answers
    <3> QED
      BY <2>1, <3>1, <3>2, <3>3, <3>4, <3>5 DEF ShardStep
  <2>2. ASSUME NEW a \in answers, OnLocalEntityListRequestPacket(a)
        PROVE  TypeOK'
    <3>1. unanswered' \in 0..(CounterRange - 1)
      BY <2>2, CounterInRange DEF OnLocalEntityListRequestPacket, CountAnswer
    <3>2. responses' \in Seq(Answers)
      BY <2>2, AppendProperties DEF OnLocalEntityListRequestPacket
    <3> QED
      BY <2>2, <3>1, <3>2 DEF OnLocalEntityListRequestPacket
  <2>3. CASE GetEntityLists
    <3>1. <<>> \in Seq(Answers)
      BY EmptySeq
    <3>2. owed' \subseteq Shards \X Entities
      BY <2>3 DEF GetEntityLists
    <3> QED
      BY <2>3, <3>1, <3>2 DEF GetEntityLists
  <2>4. ASSUME NEW s \in Shards, SendQuery(s)
        PROVE  TypeOK'
    BY <2>4 DEF SendQuery
  <2>5. CASE CountQuery
    <3>1. unanswered' \in 0..(CounterRange - 1)
      BY <2>5, CounterInRange DEF CountQuery
    <3> QED
      BY <2>5, <3>1 DEF CountQuery
  <2>6. CASE EndOfList \/ WaitForAnswers
    BY <2>6 DEF EndOfList, WaitForAnswers
  <2>8. CASE TakeResponses
    <3>1. <<>> \in Seq(Answers)
      BY EmptySeq
    <3> QED
      BY <2>8, <3>1 DEF TakeResponses
  <2>7. CASE UNCHANGED vars
    BY <2>7 DEF vars
  <2> QED
    BY <2>1, <2>2, <2>3, <2>4, <2>5, <2>6, <2>7, <2>8 DEF Next, ViewStep
<1> QED
  BY <1>1, <1>2, PTL DEF Spec

-----------------------------------------------------------------------------
(* The counter. *)

\* The counter follows the set of outstanding shards through every step, also
\* when an answer overtakes the fetch_add of its request.
LEMMA CounterStep ==
    ASSUME QueryInv, [Next]_vars
    PROVE  CounterExact'
<1> DEFINE n == Cardinality(Outstanding)
<1>0. /\ IsFiniteSet(Outstanding)
      /\ n \in 0..(CounterRange - 1)
      /\ CounterRange \in Nat
      /\ TypeOK /\ CounterExact /\ NoSharedAccess /\ HeardOnce /\ AskedInv
  BY OutstandingBounded, QueryAssumption DEF QueryInv
<1>1. ASSUME NEW s \in Shards, ShardStep(s)
      PROVE  CounterExact'
  <2>1. Outstanding' = Outstanding
    BY <1>1, ShardStepKeepsOutstanding
  <2>2. UNCHANGED <<unanswered, vpc>>
    BY <1>1 DEF ShardStep, ShardStart, LedgerInit, ShardClaims, ShardCrash, ConnectionBreaks,
                QueryIgnored, OnLocalEntityListRequest, RacedAnswer, Answered,
                RegisterNewEntity, viewVars
  <2> QED
    BY <1>0, <2>1, <2>2 DEF CounterExact
<1>2. ASSUME NEW a \in answers, OnLocalEntityListRequestPacket(a)
      PROVE  CounterExact'
  <2>1. /\ a.shard \in Outstanding
        /\ Outstanding' = Outstanding \ {a.shard}
    BY <1>0, <1>2, HearingShrinksOutstanding
  <2>2. Cardinality(Outstanding') = n - 1
    BY <1>0, <2>1, FS_RemoveElement
  <2>3. n # 0
    BY <1>0, <2>1, FS_EmptySet
  <2>4. vpc' = vpc /\ unanswered' = Decremented(unanswered)
    BY <1>2 DEF OnLocalEntityListRequestPacket, CountAnswer, viewVars
  <2> QED
    BY <1>0, <2>2, <2>3, <2>4 DEF CounterExact, Decremented
<1>3. CASE GetEntityLists
  <2>1. Outstanding' = Outstanding /\ unanswered' = unanswered
    BY <1>3 DEF GetEntityLists, netVars, Outstanding
  <2>2. vpc = "idle" /\ vpc' = "send"
    BY <1>3 DEF GetEntityLists
  <2> QED
    BY <1>0, <2>1, <2>2 DEF CounterExact
<1>4. ASSUME NEW s \in Shards, SendQuery(s)
      PROVE  CounterExact'
  <2>1. /\ s \notin Outstanding
        /\ Outstanding' = Outstanding \cup {s}
    BY <1>0, <1>4, AskingGrowsOutstanding
  <2>2. Cardinality(Outstanding') = n + 1
    BY <1>0, <2>1, FS_AddElement
  <2>3. vpc = "send" /\ vpc' = "count" /\ unanswered' = unanswered
    BY <1>4 DEF SendQuery
  <2> QED
    BY <1>0, <2>2, <2>3 DEF CounterExact, Decremented
<1>5. CASE CountQuery
  <2>1. Outstanding' = Outstanding
    BY <1>5 DEF CountQuery, netVars, Outstanding
  <2>2. vpc = "count" /\ vpc' = "send" /\ unanswered' = Incremented(unanswered)
    BY <1>5 DEF CountQuery
  <2>3. Incremented(Decremented(n)) = n
    BY <1>0 DEF Incremented, Decremented
  <2> QED
    BY <1>0, <2>1, <2>2, <2>3 DEF CounterExact
<1>6. CASE EndOfList \/ WaitForAnswers \/ TakeResponses
  <2>1. Outstanding' = Outstanding
    BY <1>6 DEF EndOfList, WaitForAnswers, TakeResponses, netVars, Outstanding
  <2>2. vpc # "count" /\ vpc' # "count" /\ unanswered' = unanswered
    BY <1>6 DEF EndOfList, WaitForAnswers, WaitOver, TakeResponses
  <2> QED
    BY <1>0, <2>1, <2>2 DEF CounterExact
<1>7. CASE UNCHANGED vars
  BY <1>0, <1>7 DEF vars, viewVars, netVars, CounterExact, Outstanding
<1> QED
  BY <1>1, <1>2, <1>3, <1>4, <1>5, <1>6, <1>7 DEF Next, ViewStep

-----------------------------------------------------------------------------
(* Who has been asked and heard. *)

\* No step asks a shard twice in a call, and the vector is left alone while an
\* answer is under way.
LEMMA AskedStep ==
    ASSUME QueryInv, [Next]_vars
    PROVE  AskedInv' /\ NoSharedAccess'
<1>0. /\ IsFiniteSet(Outstanding)
      /\ TypeOK /\ CounterExact /\ NoSharedAccess /\ HeardOnce /\ AskedInv
  BY OutstandingBounded DEF QueryInv
<1>1. ASSUME NEW s \in Shards, ShardStep(s)
      PROVE  AskedInv' /\ NoSharedAccess'
  <2>1. Outstanding' = Outstanding
    BY <1>1, ShardStepKeepsOutstanding
  <2>2. UNCHANGED <<asked, toAsk, vpc>>
    BY <1>1 DEF ShardStep, ShardStart, LedgerInit, ShardClaims, ShardCrash, ConnectionBreaks,
                QueryIgnored, OnLocalEntityListRequest, RacedAnswer, Answered,
                RegisterNewEntity, viewVars
  <2> QED
    BY <1>0, <2>1, <2>2 DEF AskedInv, NoSharedAccess
<1>2. ASSUME NEW a \in answers, OnLocalEntityListRequestPacket(a)
      PROVE  AskedInv' /\ NoSharedAccess'
  <2>1. Outstanding' = Outstanding \ {a.shard}
    BY <1>0, <1>2, HearingShrinksOutstanding
  <2>2. UNCHANGED <<asked, toAsk, vpc>>
    BY <1>2 DEF OnLocalEntityListRequestPacket, viewVars
  <2> QED
    BY <1>0, <2>1, <2>2 DEF AskedInv, NoSharedAccess
<1>3. CASE GetEntityLists
  <2>1. Outstanding' = Outstanding
    BY <1>3 DEF GetEntityLists, netVars, Outstanding
  <2> QED
    BY <1>0, <1>3, <2>1 DEF GetEntityLists, AskedInv, NoSharedAccess
<1>4. ASSUME NEW s \in Shards, SendQuery(s)
      PROVE  AskedInv' /\ NoSharedAccess'
  <2>1. Outstanding' = Outstanding \cup {s}
    BY <1>0, <1>4, AskingGrowsOutstanding
  <2> QED
    BY <1>0, <1>4, <2>1 DEF SendQuery, AskedInv, NoSharedAccess
<1>5. CASE CountQuery \/ EndOfList \/ TakeResponses
  <2>1. Outstanding' = Outstanding
    BY <1>5 DEF CountQuery, EndOfList, TakeResponses, netVars, Outstanding
  <2> QED
    BY <1>0, <1>5, <2>1 DEF CountQuery, EndOfList, TakeResponses, AskedInv, NoSharedAccess
<1>6. CASE WaitForAnswers
  <2>1. Outstanding' = Outstanding
    BY <1>6 DEF WaitForAnswers, netVars, Outstanding
  <2>2. Cardinality(Outstanding) = 0
    BY <1>0, <1>6 DEF WaitForAnswers, WaitOver, CounterExact
  <2>3. Outstanding = {}
    BY <1>0, <2>2, FS_EmptySet
  <2> QED
    BY <1>0, <1>6, <2>1, <2>3 DEF WaitForAnswers, WaitOver, AskedInv, NoSharedAccess
<1>7. CASE UNCHANGED vars
  BY <1>0, <1>7 DEF vars, viewVars, netVars, AskedInv, NoSharedAccess, Outstanding
<1> QED
  BY <1>1, <1>2, <1>3, <1>4, <1>5, <1>6, <1>7 DEF Next, ViewStep

\* No step makes a second answer of a shard, or stores one twice.
LEMMA HeardStep ==
    ASSUME QueryInv, [Next]_vars
    PROVE  HeardOnce'
<1>0. TypeOK /\ HeardOnce /\ AskedInv /\ NoSharedAccess
  BY DEF QueryInv
<1>1. ASSUME NEW s \in Shards, ShardStep(s),
             NEW es, Answered(s, es) \/ ConnectionBreaks(s) \/ QueryIgnored(s)
      PROVE  HeardOnce'
  <2>1. Outstanding' = Outstanding
    BY <1>1, ShardStepKeepsOutstanding
  <2>2. \A i, j \in 1..Len(responses) : responses[i].shard = responses[j].shard => i = j
    BY <1>0 DEF HeardOnce
  <2>3. \A i \in 1..Len(responses) : responses[i].shard \in asked \ Outstanding
    BY <1>0 DEF HeardOnce
  <2>4. /\ \A a, b \in answers' : a.shard = b.shard => a = b
        /\ \A a \in answers' : a.shard \notin queries' \cup lost'
        /\ queries' \cap lost' = {}
    <3>1. CASE Answered(s, es)
      BY <1>0, <3>1 DEF HeardOnce, Answered
    <3>2. CASE ConnectionBreaks(s) \/ QueryIgnored(s)
      BY <1>0, <3>2 DEF HeardOnce, ConnectionBreaks, QueryIgnored
    <3> QED
      BY <1>1, <3>1, <3>2
  <2>5. UNCHANGED <<responses, asked>>
    BY <1>1 DEF Answered, ConnectionBreaks, QueryIgnored, viewVars
  <2> QED
    BY <2>1, <2>2, <2>3, <2>4, <2>5 DEF HeardOnce
<1>2. ASSUME NEW a \in answers, OnLocalEntityListRequestPacket(a)
      PROVE  HeardOnce'
  <2>1. /\ a.shard \in Outstanding
        /\ Outstanding' = Outstanding \ {a.shard}
    BY <1>0, <1>2, HearingShrinksOutstanding
  <2>2. answers' = answers \ {a} /\ UNCHANGED <<queries, lost, asked>>
    BY <1>2 DEF OnLocalEntityListRequestPacket, viewVars
  <2>3. /\ \A x, y \in answers' : x.shard = y.shard => x = y
        /\ \A x \in answers' : x.shard \notin queries' \cup lost'
        /\ queries' \cap lost' = {}
    BY <1>0, <2>2 DEF HeardOnce
  <2>4. /\ \A i, j \in 1..Len(responses) : responses[i].shard = responses[j].shard => i = j
        /\ \A i \in 1..Len(responses) : responses[i].shard \in asked \ Outstanding
    BY <1>0 DEF HeardOnce
  <2>5. a.shard \in asked
    BY <1>0, <2>1 DEF AskedInv
  <2>6. CASE responses' = responses
    BY <2>1, <2>2, <2>3, <2>4, <2>6 DEF HeardOnce
  <2>7. CASE responses' = Append(responses, a)
    <3>1. /\ Len(responses') = Len(responses) + 1
          /\ \A i \in 1..Len(responses) : responses'[i] = responses[i]
          /\ responses'[Len(responses) + 1] = a
          /\ Len(responses) \in Nat
      BY <1>0, <2>7, AppendProperties, LenProperties DEF TypeOK
    <3>2. \A i \in 1..Len(responses') : responses'[i].shard \in asked' \ Outstanding'
      BY <2>1, <2>2, <2>4, <2>5, <3>1
    <3>3. \A i, j \in 1..Len(responses') : responses'[i].shard = responses'[j].shard => i = j
      BY <2>1, <2>4, <3>1
    <3> QED
      BY <2>3, <3>2, <3>3 DEF HeardOnce
  <2> QED
    BY <1>2, <2>6, <2>7 DEF OnLocalEntityListRequestPacket
<1>3. CASE GetEntityLists \/ TakeResponses
  <2>1. responses' = <<>> /\ UNCHANGED <<queries, answers, lost>>
    BY <1>3 DEF GetEntityLists, TakeResponses, netVars
  <2>2. Len(responses') = 0
    BY <2>1
  <2> QED
    BY <1>0, <2>1, <2>2 DEF HeardOnce
<1>4. ASSUME NEW s \in Shards, SendQuery(s)
      PROVE  HeardOnce'
  <2>1. /\ s \notin Outstanding
        /\ Outstanding' = Outstanding \cup {s}
    BY <1>0, <1>4, AskingGrowsOutstanding
  <2>2. /\ UNCHANGED <<answers, lost, responses>>
        /\ queries' = queries \cup {s}
        /\ asked' = asked \cup {s} /\ s \notin asked
    BY <1>0, <1>4 DEF SendQuery, AskedInv
  <2>3. s \notin lost /\ \A a \in answers : a.shard # s
    BY <2>1 DEF Outstanding
  <2>4. /\ \A a, b \in answers' : a.shard = b.shard => a = b
        /\ \A a \in answers' : a.shard \notin queries' \cup lost'
        /\ queries' \cap lost' = {}
    BY <1>0, <2>2, <2>3 DEF HeardOnce
  <2>5. \A i \in 1..Len(responses) : responses[i].shard \in asked' \ Outstanding'
    BY <1>0, <2>1, <2>2 DEF HeardOnce
  <2>6. \A i, j \in 1..Len(responses) : responses[i].shard = responses[j].shard => i = j
    BY <1>0 DEF HeardOnce
  <2> QED
    BY <2>2, <2>4, <2>5, <2>6 DEF HeardOnce
<1>5. CASE UNCHANGED <<queries, answers, lost, responses, asked>>
  <2>1. Outstanding' = Outstanding
    BY <1>5 DEF Outstanding
  <2> QED
    BY <1>0, <1>5, <2>1 DEF HeardOnce
<1> QED
  <2>1. ASSUME NEW s \in Shards, ShardStep(s), ~ConnectionBreaks(s), ~QueryIgnored(s),
               ~\E es : Answered(s, es)
        PROVE  UNCHANGED <<queries, answers, lost, responses, asked>>
    BY <2>1 DEF ShardStep, ShardStart, LedgerInit, ShardClaims, ShardCrash, RegisterNewEntity,
                OnLocalEntityListRequest, RacedAnswer, netVars, viewVars
  <2>2. CountQuery \/ EndOfList \/ WaitForAnswers =>
            UNCHANGED <<queries, answers, lost, responses, asked>>
    BY DEF CountQuery, EndOfList, WaitForAnswers, netVars
  <2>3. UNCHANGED vars => UNCHANGED <<queries, answers, lost, responses, asked>>
    BY DEF vars, viewVars, netVars
  <2> QED
    BY <1>1, <1>2, <1>3, <1>4, <1>5, <2>1, <2>2, <2>3 DEF Next, ViewStep

-----------------------------------------------------------------------------
(* What a call owes. *)

\* An owed entity moves from the ledger to the answer to the responses, and no
\* step of the shards, the tick thread or the view loses it on the way.
LEMMA OwedStep ==
    ASSUME QueryInv, [Next]_vars
    PROVE  OwedInv'
<1>0. TypeOK /\ HeardOnce /\ AskedInv /\ NoSharedAccess /\ OwedInv
  BY DEF QueryInv
<1>1. ASSUME NEW s \in Shards, ShardStep(s), ~\E es : Answered(s, es)
      PROVE  OwedInv'
  <2>1. UNCHANGED <<vpc, owed, toAsk, asked, responses, raced>>
    BY <1>1 DEF ShardStep, ShardStart, LedgerInit, ShardClaims, ShardCrash, RegisterNewEntity,
                ConnectionBreaks, QueryIgnored, OnLocalEntityListRequest, RacedAnswer, viewVars
  <2>2. /\ bound \subseteq bound'
        /\ queries' \subseteq queries
        /\ answers' \subseteq answers
        /\ Outstanding' = Outstanding
    <3>1. Outstanding' = Outstanding
      BY <1>1, ShardStepKeepsOutstanding
    <3> QED
      BY <1>1, <3>1 DEF ShardStep, ShardStart, LedgerInit, ShardClaims, ShardCrash,
         RegisterNewEntity, ConnectionBreaks, QueryIgnored, OnLocalEntityListRequest,
         RacedAnswer, netVars, shardVars
  <2>3. \A t \in bound : t \in up' => t \in up /\ ledger[t] \subseteq ledger'[t]
    <3>1. CASE ShardStart(s) \/ LedgerInit(s) \/ ShardClaims(s)
      BY <1>0, <3>1 DEF ShardStart, LedgerInit, ShardClaims, TypeOK
    <3>2. CASE ShardCrash(s)
      BY <1>0, <3>2 DEF ShardCrash, TypeOK
    <3>3. ASSUME NEW e \in Entities, RegisterNewEntity(s, e)
          PROVE  \A t \in bound : t \in up' => t \in up /\ ledger[t] \subseteq ledger'[t]
      BY <1>0, <3>3 DEF RegisterNewEntity, TypeOK
    <3>4. CASE ConnectionBreaks(s) \/ QueryIgnored(s)
      BY <3>4 DEF ConnectionBreaks, QueryIgnored, shardVars
    <3> QED
      BY <1>1, <3>1, <3>2, <3>3, <3>4 DEF ShardStep, OnLocalEntityListRequest, RacedAnswer
  <2> SUFFICES ASSUME vpc' # "idle", NEW x \in owed', x[1] \notin raced'
               PROVE  /\ x[1] \in bound' \cap (toAsk' \cup asked')
                      /\ x[1] \in up' \cap (toAsk' \cup queries') => x[2] \in ledger'[x[1]]
                      /\ \A a \in answers' : a.shard = x[1] => x[2] \in a.entities
                      /\ x[1] \in asked' \ Outstanding' => \E i \in 1..Len(responses') :
                             responses'[i].shard = x[1] /\ x[2] \in responses'[i].entities
    BY DEF OwedInv
  <2> QED
    BY <1>0, <2>1, <2>2, <2>3 DEF OwedInv
<1>2. ASSUME NEW s \in Shards, NEW es, Answered(s, es),
             \/ UNCHANGED <<shardVars, raced>> /\ es = ledger[s]
             \/ \E e \in Entities : RacedAnswer(s, e, es)
      PROVE  OwedInv'
  <2> DEFINE b == [shard |-> s, entities |-> es]
  <2>1. Outstanding' = Outstanding
    BY <1>2, AnsweringKeepsOutstanding
  <2>2. /\ UNCHANGED <<vpc, owed, toAsk, asked, responses, bound, up>>
        /\ s \in ready \cap queries
        /\ queries' = queries \ {s}
        /\ answers' = answers \cup {b}
    BY <1>2 DEF RacedAnswer, Answered, viewVars, shardVars
  <2>3. b.shard = s /\ b.entities = es
    OBVIOUS
  <2>4. /\ raced \subseteq raced'
        /\ \A t \in Shards : ledger[t] \subseteq ledger'[t]
        /\ s \in raced' \/ ledger[s] \subseteq es
    <3>1. CASE UNCHANGED <<shardVars, raced>> /\ es = ledger[s]
      BY <3>1 DEF shardVars
    <3>2. ASSUME NEW e \in Entities, RacedAnswer(s, e, es)
          PROVE  /\ raced \subseteq raced'
                 /\ \A t \in Shards : ledger[t] \subseteq ledger'[t]
                 /\ s \in raced' \/ ledger[s] \subseteq es
      BY <1>0, <3>2 DEF RacedAnswer, TypeOK
    <3> QED
      BY <1>2, <3>1, <3>2
  <2> HIDE DEF b
  <2> SUFFICES ASSUME vpc # "idle", NEW x \in owed, x[1] \notin raced'
               PROVE  /\ x[1] \in bound \cap (toAsk \cup asked)
                      /\ x[1] \in up \cap (toAsk \cup queries') => x[2] \in ledger'[x[1]]
                      /\ \A a \in answers' : a.shard = x[1] => x[2] \in a.entities
                      /\ x[1] \in asked \ Outstanding => \E i \in 1..Len(responses) :
                             responses[i].shard = x[1] /\ x[2] \in responses[i].entities
    BY <2>1, <2>2 DEF OwedInv
  <2>5. x[1] \in Shards /\ s \in up
    BY <1>0, <2>2 DEF TypeOK
  <2> QED
    BY <1>0, <2>2, <2>3, <2>4, <2>5 DEF OwedInv
<1>3. ASSUME NEW a \in answers, OnLocalEntityListRequestPacket(a)
      PROVE  OwedInv'
  <2>1. Outstanding' = Outstanding \ {a.shard}
    BY <1>0, <1>3, HearingShrinksOutstanding
  <2>2. /\ UNCHANGED <<vpc, owed, toAsk, asked, queries, bound, up, ledger, raced>>
        /\ answers' = answers \ {a}
        /\ responses' = IF a.shard \in bound THEN Append(responses, a) ELSE responses
    BY <1>3 DEF OnLocalEntityListRequestPacket, viewVars, shardVars
  <2> SUFFICES ASSUME vpc # "idle", NEW x \in owed, x[1] \notin raced
               PROVE  x[1] \in asked \ Outstanding' => \E i \in 1..Len(responses') :
                          responses'[i].shard = x[1] /\ x[2] \in responses'[i].entities
    BY <1>0, <2>2 DEF OwedInv
  <2>3. /\ \A i \in 1..Len(responses) : i \in 1..Len(responses') /\ responses'[i] = responses[i]
        /\ a.shard \in bound => /\ Len(responses') \in 1..Len(responses')
                                /\ responses'[Len(responses')] = a
    <3>1. CASE a.shard \notin bound
      BY <2>2, <3>1
    <3>2. CASE a.shard \in bound
      <4>1. /\ Len(responses') = Len(responses) + 1
            /\ \A i \in 1..Len(responses) : responses'[i] = responses[i]
            /\ responses'[Len(responses) + 1] = a
            /\ Len(responses) \in Nat
        BY <1>0, <2>2, <3>2, AppendProperties, LenProperties DEF TypeOK
      <4> QED
        BY <4>1
    <3> QED
      BY <3>1, <3>2
  <2>4. CASE x[1] = a.shard
    BY <1>0, <2>3, <2>4 DEF OwedInv
  <2>5. CASE x[1] # a.shard
    <3>1. x[1] \in asked \ Outstanding' => x[1] \in asked \ Outstanding
      BY <2>1, <2>5
    <3> QED
      BY <1>0, <2>3, <3>1 DEF OwedInv
  <2> QED
    BY <2>4, <2>5
<1>4. CASE GetEntityLists
  <2>1. Outstanding = {} /\ answers = {}
    BY <1>0, <1>4 DEF GetEntityLists, NoSharedAccess, Outstanding
  <2>2. /\ toAsk' = registered /\ asked' = {}
        /\ UNCHANGED <<answers, bound, ledger>>
        /\ owed' = {x \in bound \X Entities : x[2] \in ledger[x[1]]}
    BY <1>4 DEF GetEntityLists, netVars, shardVars
  <2>3. \A x \in owed' : x[1] \in bound /\ x[1] \in registered /\ x[2] \in ledger[x[1]]
    BY <1>0, <2>2 DEF TypeOK
  <2> QED
    BY <2>1, <2>2, <2>3 DEF OwedInv
<1>5. ASSUME NEW s \in Shards, SendQuery(s)
      PROVE  OwedInv'
  <2>1. Outstanding' = Outstanding \cup {s}
    BY <1>0, <1>5, AskingGrowsOutstanding
  <2>2. /\ UNCHANGED <<owed, answers, responses, bound, up, ledger, raced>>
        /\ vpc # "idle" /\ s \in toAsk
        /\ queries' = queries \cup {s}
        /\ toAsk' = toAsk \ {s}
        /\ asked' = asked \cup {s}
    BY <1>5 DEF SendQuery, shardVars
  <2> SUFFICES ASSUME NEW x \in owed, x[1] \notin raced
               PROVE  /\ x[1] \in bound \cap (toAsk' \cup asked')
                      /\ x[1] \in up \cap (toAsk' \cup queries') => x[2] \in ledger[x[1]]
                      /\ \A a \in answers : a.shard = x[1] => x[2] \in a.entities
                      /\ x[1] \in asked' \ Outstanding' => \E i \in 1..Len(responses) :
                             responses[i].shard = x[1] /\ x[2] \in responses[i].entities
    BY <2>2 DEF OwedInv
  <2> QED
    BY <1>0, <2>1, <2>2 DEF OwedInv
<1>6. CASE CountQuery \/ EndOfList \/ WaitForAnswers \/ UNCHANGED vars
  <2>1. UNCHANGED <<owed, toAsk, asked, queries, answers, lost, responses, bound, up, ledger,
                    raced>>
    BY <1>6 DEF CountQuery, EndOfList, WaitForAnswers, vars, viewVars, netVars, shardVars
  <2>2. vpc' # "idle" => vpc # "idle"
    BY <1>6 DEF CountQuery, EndOfList, WaitForAnswers, WaitOver, vars, viewVars
  <2>3. Outstanding' = Outstanding
    BY <2>1 DEF Outstanding
  <2> QED
    BY <1>0, <2>1, <2>2, <2>3 DEF OwedInv
<1>7. CASE TakeResponses
  BY <1>7 DEF TakeResponses, OwedInv
<1>8. ASSUME NEW s \in Shards, ShardStep(s)
      PROVE  OwedInv'
  <2>1. CASE ~\E es : Answered(s, es)
    BY <1>1, <1>8, <2>1
  <2>2. CASE OnLocalEntityListRequest(s)
    BY <1>2, <2>2 DEF OnLocalEntityListRequest
  <2>3. CASE \E e \in Entities, es \in SUBSET Entities : RacedAnswer(s, e, es)
    BY <1>2, <2>3 DEF RacedAnswer
  <2>4. ASSUME NEW es, Answered(s, es)
        PROVE  OnLocalEntityListRequest(s)
               \/ \E e \in Entities, fs \in SUBSET Entities : RacedAnswer(s, e, fs)
    <3>1. queries' # queries /\ lost' = lost /\ s \notin lost
      BY <1>0, <2>4 DEF Answered, HeardOnce
    <3>2. ~QueryIgnored(s) /\ ~ConnectionBreaks(s)
      BY <3>1 DEF QueryIgnored, ConnectionBreaks
    <3> QED
      BY <1>8, <3>1, <3>2 DEF ShardStep, ShardStart, LedgerInit, ShardClaims, ShardCrash,
         RegisterNewEntity, netVars
  <2> QED
    BY <2>1, <2>2, <2>3, <2>4
<1> QED
  BY <1>1, <1>2, <1>3, <1>4, <1>5, <1>6, <1>7, <1>8 DEF Next, ViewStep

-----------------------------------------------------------------------------
\* The inductive invariant of the query holds in every reachable state.
THEOREM QueryInvariant == Spec => []QueryInv
<1>1. Init => CounterExact /\ NoSharedAccess /\ HeardOnce /\ AskedInv /\ OwedInv
  <2> SUFFICES ASSUME Init
               PROVE  CounterExact /\ NoSharedAccess /\ HeardOnce /\ AskedInv /\ OwedInv
    OBVIOUS
  <2>1. Outstanding = {} /\ Len(responses) = 0
    BY DEF Init, Outstanding
  <2>2. Cardinality(Outstanding) = 0
    BY <2>1, FS_EmptySet
  <2> QED
    BY <2>1, <2>2 DEF Init, CounterExact, NoSharedAccess, HeardOnce, AskedInv, OwedInv
<1>2. QueryInv /\ [Next]_vars =>
          CounterExact' /\ NoSharedAccess' /\ HeardOnce' /\ AskedInv' /\ OwedInv'
  BY CounterStep, AskedStep, HeardStep, OwedStep
<1> QED
  BY <1>1, <1>2, TypeCorrect, PTL DEF Spec, QueryInv

\* RequestsUnanswered is exactly the number of shards still to be heard, whatever
\* the order of the fetch_add and the fetch_sub of a request.
THEOREM CounterAlwaysExact == Spec => []CounterExact
<1>1. QueryInv => CounterExact
  BY DEF QueryInv
<1> QED
  BY <1>1, QueryInvariant, PTL

\* EntityListResponses is never touched by both threads at once: no answer is
\* under way when GetEntityLists clears it or moves from it.
THEOREM ResponsesNotShared == Spec => []NoSharedAccess
<1>1. QueryInv => NoSharedAccess
  BY DEF QueryInv
<1> QED
  BY <1>1, QueryInvariant, PTL

\* No shard is heard twice in a call of GetEntityLists.
THEOREM ShardsHeardOnce == Spec => []HeardOnce
<1>1. QueryInv => HeardOnce
  BY DEF QueryInv
<1> QED
  BY <1>1, QueryInvariant, PTL

\* A call of GetEntityLists that returns misses no entity that a shard with a
\* bound held when the call began, however many shards crash meanwhile, unless the
\* shard's answer raced with an insertion.
THEOREM ResultsComplete == Spec => []ResultComplete
<1>1. QueryInv => ResultComplete
  <2> SUFFICES ASSUME QueryInv, vpc = "take", NEW x \in owed, x[1] \notin raced
               PROVE  \E i \in 1..Len(responses) :
                          responses[i].shard = x[1] /\ x[2] \in responses[i].entities
    BY DEF ResultComplete
  <2>1. x[1] \in asked \ Outstanding
    BY DEF QueryInv, OwedInv, AskedInv, NoSharedAccess
  <2> QED
    BY <2>1 DEF QueryInv, OwedInv
<1> QED
  BY <1>1, QueryInvariant, PTL
=============================================================================
