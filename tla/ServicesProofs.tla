---------------------------- MODULE ServicesProofs ----------------------------
(***************************************************************************)
(* The services around the shards, for any number of clients, proxies,     *)
(* subscribers and entities: a client is in the manifest before anybody    *)
(* hears of it (ClientSessions), a process that subscribes once receives   *)
(* every event in order (EventSystem), an entity that has left its shard's *)
(* bound is handed over once (LedgerTransfers), and a packet is read back  *)
(* as it was written, for bytes of any number of bits (WirePackets).       *)
(***************************************************************************)
EXTENDS ClientSessions, LedgerTransfers, WirePackets, SequenceTheorems, WellFoundedInduction, TLAPS

-----------------------------------------------------------------------------
(* Sequences *)

\* The members of a sequence, after Append and before Tail.
LEMMA ToSetOfAppend ==
    ASSUME NEW S, NEW seq \in Seq(S), NEW e \in S
    PROVE  ToSet(Append(seq, e)) = ToSet(seq) \cup {e}
<1>1. DOMAIN seq = 1..Len(seq) /\ Len(seq) \in Nat
    BY LenProperties
<1>2. /\ Append(seq, e) \in Seq(S) /\ Len(Append(seq, e)) = Len(seq) + 1
      /\ \A i \in 1..Len(seq) : Append(seq, e)[i] = seq[i]
      /\ Append(seq, e)[Len(seq) + 1] = e
    BY AppendProperties
<1>3. DOMAIN Append(seq, e) = 1..(Len(seq) + 1)
    BY <1>2, LenProperties
<1> QED BY <1>1, <1>2, <1>3 DEF ToSet

\* A sequence has its Head and the members of its Tail.
LEMMA ToSetOfTail ==
    ASSUME NEW S, NEW seq \in Seq(S), seq # <<>>
    PROVE  ToSet(seq) = ToSet(Tail(seq)) \cup {Head(seq)}
<1>1. DOMAIN seq = 1..Len(seq) /\ Len(seq) \in Nat \ {0} /\ Head(seq) = seq[1]
    BY LenProperties, EmptySeq
<1>2. /\ Tail(seq) \in Seq(S) /\ Len(Tail(seq)) = Len(seq) - 1
      /\ \A i \in 1..Len(Tail(seq)) : Tail(seq)[i] = seq[i + 1]
    BY HeadTailProperties
<1>3. DOMAIN Tail(seq) = 1..(Len(seq) - 1)
    BY <1>2, LenProperties
<1>4. ToSet(Tail(seq)) = {seq[i + 1] : i \in 1..(Len(seq) - 1)}
    BY <1>2, <1>3 DEF ToSet
<1>5. ASSUME NEW y \in ToSet(seq) PROVE y \in ToSet(Tail(seq)) \cup {Head(seq)}
    <2>1. PICK i \in 1..Len(seq) : y = seq[i]
        BY <1>1 DEF ToSet
    <2>2. CASE i = 1
        BY <1>1, <2>1, <2>2
    <2>3. CASE i # 1
        <3>1. i - 1 \in 1..(Len(seq) - 1) /\ (i - 1) + 1 = i
            BY <1>1, <2>3
        <3> QED BY <1>4, <2>1, <3>1
    <2> QED BY <2>2, <2>3
<1>6. ASSUME NEW y \in ToSet(Tail(seq)) \cup {Head(seq)} PROVE y \in ToSet(seq)
    <2>1. CASE y = Head(seq)
        BY <1>1, <2>1 DEF ToSet
    <2>2. CASE y \in ToSet(Tail(seq))
        <3>1. PICK i \in 1..(Len(seq) - 1) : y = seq[i + 1]
            BY <1>4, <2>2
        <3>2. i + 1 \in 1..Len(seq)
            BY <1>1
        <3> QED BY <1>1, <3>1, <3>2 DEF ToSet
    <2> QED BY <1>6, <2>1, <2>2
<1> QED BY <1>5, <1>6

\* A member moves from the head of one sequence to the end of the one before it.
LEMMA ConcatShift ==
    ASSUME NEW S, NEW s \in Seq(S), NEW t \in Seq(S), t # <<>>
    PROVE  Append(s, Head(t)) \o Tail(t) = s \o t
<1>1. Head(t) \in S /\ Tail(t) \in Seq(S) /\ Len(Tail(t)) = Len(t) - 1 /\ Head(t) = t[1]
      /\ \A i \in 1..Len(Tail(t)) : Tail(t)[i] = t[i + 1]
    BY HeadTailProperties
<1>2. Len(s) \in Nat /\ Len(t) \in Nat /\ Len(t) # 0
    BY LenProperties, EmptySeq
<1> DEFINE a == Append(s, Head(t))
<1>3. /\ a \in Seq(S) /\ Len(a) = Len(s) + 1
      /\ \A i \in 1..Len(s) : a[i] = s[i]
      /\ a[Len(s) + 1] = t[1]
    BY <1>1, AppendProperties
<1> HIDE DEF a
<1>4. /\ a \o Tail(t) \in Seq(S) /\ Len(a \o Tail(t)) = Len(s) + Len(t)
      /\ \A i \in 1..(Len(s) + Len(t)) :
             (a \o Tail(t))[i] = IF i <= Len(s) + 1 THEN a[i] ELSE Tail(t)[i - (Len(s) + 1)]
    <2>1. /\ a \o Tail(t) \in Seq(S) /\ Len(a \o Tail(t)) = Len(a) + Len(Tail(t))
          /\ \A i \in 1..(Len(a) + Len(Tail(t))) :
                 (a \o Tail(t))[i] = IF i <= Len(a) THEN a[i] ELSE Tail(t)[i - Len(a)]
        BY <1>1, <1>3, ConcatProperties
    <2>2. Len(a) + Len(Tail(t)) = Len(s) + Len(t)
        BY <1>1, <1>2, <1>3
    <2> QED BY <1>3, <2>1, <2>2
<1>5. /\ s \o t \in Seq(S) /\ Len(s \o t) = Len(s) + Len(t)
      /\ \A i \in 1..(Len(s) + Len(t)) :
             (s \o t)[i] = IF i <= Len(s) THEN s[i] ELSE t[i - Len(s)]
    BY ConcatProperties
<1>6. ASSUME NEW i \in 1..(Len(s) + Len(t)) PROVE (a \o Tail(t))[i] = (s \o t)[i]
    <2>1. CASE i <= Len(s)
        BY <1>2, <1>3, <1>4, <1>5, <2>1
    <2>2. CASE i = Len(s) + 1
        BY <1>2, <1>3, <1>4, <1>5, <2>2
    <2>3. CASE i > Len(s) + 1
        <3>1. /\ i - (Len(s) + 1) \in 1..Len(Tail(t)) /\ (i - (Len(s) + 1)) + 1 = i - Len(s)
              /\ ~(i <= Len(s) + 1) /\ ~(i <= Len(s))
            BY <1>1, <1>2, <2>3
        <3>2. (a \o Tail(t))[i] = Tail(t)[i - (Len(s) + 1)] /\ (s \o t)[i] = t[i - Len(s)]
            BY <1>4, <1>5, <3>1
        <3> QED BY <1>1, <3>1, <3>2
    <2>4. i <= Len(s) \/ i = Len(s) + 1 \/ i > Len(s) + 1
        BY <1>2
    <2> QED BY <2>1, <2>2, <2>3, <2>4
<1> QED BY <1>4, <1>5, <1>6, SeqEqual DEF a

\* A member appended to the second of two sequences is appended to both.
LEMMA ConcatAppend ==
    ASSUME NEW S, NEW s \in Seq(S), NEW t \in Seq(S), NEW e \in S
    PROVE  s \o Append(t, e) = Append(s \o t, e)
<1>1. Len(s) \in Nat /\ Len(t) \in Nat
    BY LenProperties
<1>2. /\ Append(t, e) \in Seq(S) /\ Len(Append(t, e)) = Len(t) + 1
      /\ \A i \in 1..Len(t) : Append(t, e)[i] = t[i]
      /\ Append(t, e)[Len(t) + 1] = e
    BY AppendProperties
<1>3. /\ s \o t \in Seq(S) /\ Len(s \o t) = Len(s) + Len(t)
      /\ \A i \in 1..(Len(s) + Len(t)) : (s \o t)[i] = IF i <= Len(s) THEN s[i] ELSE t[i - Len(s)]
    BY ConcatProperties
<1> DEFINE left == s \o Append(t, e)
           right == Append(s \o t, e)
<1>4. /\ left \in Seq(S) /\ Len(left) = Len(s) + Len(t) + 1
      /\ \A i \in 1..(Len(s) + Len(t) + 1) :
             left[i] = IF i <= Len(s) THEN s[i] ELSE Append(t, e)[i - Len(s)]
    <2>1. /\ left \in Seq(S) /\ Len(left) = Len(s) + Len(Append(t, e))
          /\ \A i \in 1..(Len(s) + Len(Append(t, e))) :
                 left[i] = IF i <= Len(s) THEN s[i] ELSE Append(t, e)[i - Len(s)]
        BY <1>2, ConcatProperties
    <2>2. Len(s) + Len(Append(t, e)) = Len(s) + Len(t) + 1
        BY <1>1, <1>2
    <2> QED BY <2>1, <2>2
<1>5. /\ right \in Seq(S) /\ Len(right) = Len(s) + Len(t) + 1
      /\ \A i \in 1..(Len(s) + Len(t)) : right[i] = (s \o t)[i]
      /\ right[Len(s) + Len(t) + 1] = e
    BY <1>3, AppendProperties
<1> HIDE DEF left, right
<1>6. ASSUME NEW i \in 1..(Len(s) + Len(t) + 1) PROVE left[i] = right[i]
    <2>1. CASE i <= Len(s)
        <3>1. i \in 1..(Len(s) + Len(t))
            BY <1>1, <2>1
        <3> QED BY <1>3, <1>4, <1>5, <2>1, <3>1
    <2>2. CASE i > Len(s) /\ i <= Len(s) + Len(t)
        <3>1. i - Len(s) \in 1..Len(t) /\ i \in 1..(Len(s) + Len(t)) /\ ~(i <= Len(s))
            BY <1>1, <2>2
        <3> QED BY <1>2, <1>3, <1>4, <1>5, <3>1
    <2>3. CASE i = Len(s) + Len(t) + 1
        <3>1. i - Len(s) = Len(t) + 1 /\ ~(i <= Len(s))
            BY <1>1, <2>3
        <3> QED BY <1>2, <1>4, <1>5, <2>3, <3>1
    <2>4. i <= Len(s) \/ (i > Len(s) /\ i <= Len(s) + Len(t)) \/ i = Len(s) + Len(t) + 1
        BY <1>1
    <2> QED BY <2>1, <2>2, <2>3, <2>4
<1> QED BY <1>4, <1>5, <1>6, SeqEqual DEF left, right

-----------------------------------------------------------------------------
(* The keys of the manifest *)

\* HSET changes one field of one hash.
LEMMA HSetEffect ==
    ASSUME NEW m, NEW key, NEW field, NEW value
    PROVE  /\ \A k, f : HExists(HSet(m, key, field, value), k, f) <=>
                            HExists(m, k, f) \/ (k = key /\ f = field)
           /\ \A k, f : HExists(m, k, f) /\ ~(k = key /\ f = field) =>
                            HGet(HSet(m, key, field, value), k, f) = HGet(m, k, f)
           /\ HGet(HSet(m, key, field, value), key, field) = value
           /\ \A k : k # key => SMembers(HSet(m, key, field, value), k) = SMembers(m, k)
BY DEF HSet, HGet, HExists, HGetAll, Put, Exists, SMembers

\* SADD changes one set.
LEMMA SAddEffect ==
    ASSUME NEW m, NEW key, NEW ids, ids # {}
    PROVE  /\ \A k : k # key =>
                  /\ HGetAll(SAdd(m, key, ids), k) = HGetAll(m, k)
                  /\ SMembers(SAdd(m, key, ids), k) = SMembers(m, k)
           /\ SMembers(SAdd(m, key, ids), key) = SMembers(m, key) \cup ids
BY DEF SAdd, HGetAll, Put, Exists, SMembers

-----------------------------------------------------------------------------
(* Events *)

\* What the properties of events say of one process.
Survives(p) ==
    stored[p] + (IF subscribing[p].at = "store" THEN 1 ELSE 0) <= 1 => consumer[p] # "thrown"
InOrder(p) ==
    consumer[p] # "thrown" =>
        /\ stored[p] = 1 => handled[p] \o inHand[p] \o inbox[p] = delivered[p]
        /\ inHand[p] = <<>> => \A e \in ToSet(delivered[p]) \ ToSet(inbox[p]) : e \in ToSet(handled[p])
ProcessInv(p) == ConsumerInv(p) /\ Survives(p) /\ InOrder(p)

\* The invariant is one of each process.
LEMMA ByProcess == EventsInv(Events) <=> EventTypeOK(Events) /\ \A p \in Subscribers : ProcessInv(p)
BY DEF EventsInv, ProcessInv, ConsumerSurvives, EventsInOrder, Survives, InOrder

\* ... and holds after a step when it does for each.
LEMMA FromProcesses ==
    ASSUME EventTypeOK(Events)', \A p \in Subscribers : ProcessInv(p)'
    PROVE  EventsInv(Events)'
BY DEF EventsInv, ProcessInv, ConsumerSurvives, EventsInOrder, Survives, InOrder

\* Initially nobody has subscribed and nothing was delivered.
LEMMA EventsStart == EventInit => EventsInv(Events)
<1> SUFFICES ASSUME EventInit PROVE EventsInv(Events)
    OBVIOUS
<1>1. EventTypeOK(Events)
    BY EmptySeq DEF EventInit, EventTypeOK
<1>2. ASSUME NEW p \in Subscribers PROVE ProcessInv(p)
    <2>1. ToSet(<<>>) = {}
        BY DEF ToSet
    <2> QED BY <2>1 DEF EventInit, ProcessInv, ConsumerInv, Survives, InOrder, NoSubscribe
<1> QED BY <1>1, <1>2, ByProcess

\* A process of whose state nothing changes keeps its part.
LEMMA ProcessStays ==
    ASSUME NEW p \in Subscribers, ProcessInv(p), eventInit'[p] = eventInit[p],
           channels'[p] = channels[p], subscriptions'[p] = subscriptions[p], stored'[p] = stored[p],
           subscribing'[p] = subscribing[p], hasSubscription'[p] = hasSubscription[p],
           consumer'[p] = consumer[p], inbox'[p] = inbox[p], inHand'[p] = inHand[p],
           handled'[p] = handled[p], delivered'[p] = delivered[p]
    PROVE  ProcessInv(p)'
BY DEF ProcessInv, ConsumerInv, Survives, InOrder

\* The steps of Init and Subscribe, and the release of the consuming thread: nothing is
\* consumed in them, and a callback stored under a message in hand is a second one.
LEMMA SubscribeStepInv ==
    ASSUME EventsInv(Events), NEW p \in Subscribers,
           \/ StartEvents(p) \/ (\E t \in EventTypes : SubscribeChannel(p, t))
           \/ StoreCallback(p) \/ SetHasSubscription(p) \/ StartConsuming(p)
    PROVE  EventsInv(Events)'
<1>1. EventTypeOK(Events) /\ \A q \in Subscribers : ProcessInv(q)
    BY ByProcess
<1>2. UNCHANGED <<inbox, inHand, handled, delivered>>
    BY DEF StartEvents, SubscribeChannel, StoreCallback, SetHasSubscription, StartConsuming
<1>3. EventTypeOK(Events)'
    <2> USE <1>1, <1>2 DEF EventTypeOK, NoSubscribe
    <2>1. CASE StartEvents(p)
        BY <2>1 DEF StartEvents
    <2>2. ASSUME NEW t \in EventTypes, SubscribeChannel(p, t) PROVE EventTypeOK(Events)'
        BY <2>2 DEF SubscribeChannel
    <2>3. CASE StoreCallback(p)
        <3>1. subscribing[p].at = "store" /\ subscribing[p] \in [at : {"store", "flag"}, type : EventTypes]
            BY <2>3 DEF StoreCallback
        <3>2. /\ [subscribing[p] EXCEPT !.at = "flag"] \in [at : {"store", "flag"}, type : EventTypes]
              /\ subscribing[p].type \in EventTypes
            BY <3>1
        <3>3. subscribing' = [subscribing EXCEPT ![p] = [subscribing[p] EXCEPT !.at = "flag"]]
            BY <2>3 DEF StoreCallback
        <3>4. subscribing' \in [Subscribers -> {NoSubscribe} \cup [at : {"store", "flag"}, type : EventTypes]]
            BY <3>2, <3>3
        <3>5. subscriptions' \in [Subscribers -> [EventTypes -> Nat]] /\ stored' \in [Subscribers -> Nat]
            BY <2>3, <3>2 DEF StoreCallback
        <3>6. consumer' \in [Subscribers -> {"none", "waiting", "consuming", "thrown"}]
            BY <2>3 DEF StoreCallback
        <3>7. UNCHANGED <<eventInit, channels, hasSubscription>>
            BY <2>3 DEF StoreCallback
        <3> QED BY <3>4, <3>5, <3>6, <3>7
    <2>4. CASE SetHasSubscription(p)
        BY <2>4 DEF SetHasSubscription
    <2>5. CASE StartConsuming(p)
        BY <2>5 DEF StartConsuming
    <2> QED BY <2>1, <2>2, <2>3, <2>4, <2>5
<1>4. ASSUME NEW q \in Subscribers, q # p PROVE ProcessInv(q)'
    <2>1. /\ eventInit'[q] = eventInit[q] /\ channels'[q] = channels[q] /\ subscriptions'[q] = subscriptions[q] /\ stored'[q] = stored[q]
          /\ subscribing'[q] = subscribing[q] /\ hasSubscription'[q] = hasSubscription[q]
          /\ consumer'[q] = consumer[q]
        BY <1>1, <1>4 DEF EventTypeOK, StartEvents, SubscribeChannel, StoreCallback,
                          SetHasSubscription, StartConsuming
    <2> QED BY <1>1, <1>2, <2>1, ProcessStays
<1>5. ProcessInv(p)'
    <2> USE <1>1, <1>2 DEF EventTypeOK, ProcessInv, ConsumerInv, Survives, InOrder, NoSubscribe
    <2>1. CASE StartEvents(p)
        BY <2>1 DEF StartEvents
    <2>2. ASSUME NEW t \in EventTypes, SubscribeChannel(p, t) PROVE ProcessInv(p)'
        BY <2>2 DEF SubscribeChannel
    <2>3. CASE StoreCallback(p)
        <3>1. PICK t \in EventTypes : subscribing[p] = [at |-> "store", type |-> t]
            BY <2>3 DEF StoreCallback
        <3>2. /\ subscriptions'[p] = [subscriptions[p] EXCEPT ![t] = subscriptions[p][t] + 1]
              /\ stored'[p] = stored[p] + 1 /\ subscribing'[p].at = "flag"
              /\ UNCHANGED <<eventInit, channels, hasSubscription>>
              /\ consumer[p] # "thrown"
              /\ consumer'[p] = consumer[p] \/ (consumer'[p] = "thrown" /\ inHand[p] # <<>>)
            BY <2>3, <3>1 DEF StoreCallback
        <3>3. \A u \in EventTypes : subscriptions'[p][u] = IF u = t THEN subscriptions[p][t] + 1
                                                          ELSE subscriptions[p][u]
            BY <3>2
        <3>4. stored[p] \in Nat /\ stored'[p] # 0
            BY <3>2
        <3>5. \A u \in EventTypes : subscriptions'[p][u] <= stored'[p]
            BY <3>2, <3>3
        <3>6. \A u \in channels[p] : subscriptions'[p][u] # 0
            <4>1. \A u \in channels[p] : u \in EventTypes /\ (subscriptions[p][u] # 0 \/ u = t)
                BY <3>1
            <4>2. subscriptions[p][t] \in Nat /\ subscriptions[p][t] + 1 # 0
                OBVIOUS
            <4>3. ASSUME NEW u \in channels[p] PROVE subscriptions'[p][u] # 0
                <5>1. CASE u = t
                    BY <3>3, <4>2, <5>1
                <5>2. CASE u # t
                    BY <3>3, <4>1, <5>2
                <5> QED BY <5>1, <5>2
            <4> QED BY <4>3
        <3>7. eventInit[p] # "no"
            BY <3>1
        <3>8. ConsumerInv(p)'
            BY <3>1, <3>2, <3>4, <3>5, <3>6, <3>7
        <3>9. Survives(p)' /\ InOrder(p)'
            BY <3>1, <3>2
        <3> QED BY <3>8, <3>9
    <2>4. CASE SetHasSubscription(p)
        BY <2>4 DEF SetHasSubscription
    <2>5. CASE StartConsuming(p)
        BY <2>5 DEF StartConsuming, MayConsume
    <2> QED BY <2>1, <2>2, <2>3, <2>4, <2>5
<1> QED BY <1>3, <1>4, <1>5, FromProcesses

\* A message is taken up: it has callbacks when there was only one Subscribe.
LEMMA ConsumeInv ==
    ASSUME EventsInv(Events), NEW p \in Subscribers, Consume(p)
    PROVE  EventsInv(Events)'
<1> DEFINE e == Head(inbox[p])
           n == subscriptions[p][e.type]
           hand == [i \in 1..n |-> e]
<1>1. EventTypeOK(Events) /\ \A q \in Subscribers : ProcessInv(q)
    BY ByProcess
<1>2. /\ consumer[p] = "consuming" /\ inHand[p] = <<>> /\ inbox[p] # <<>>
      /\ inbox' = [inbox EXCEPT ![p] = Tail(inbox[p])]
      /\ inHand' = [inHand EXCEPT ![p] = hand]
      /\ consumer' = [consumer EXCEPT ![p] = IF n = 0 THEN "thrown" ELSE consumer[p]]
      /\ UNCHANGED <<eventInit, channels, subscriptions, stored, subscribing, hasSubscription,
                     handled, delivered>>
    BY DEF Consume, Throws
<1>3. inbox[p] \in Seq(Events) /\ handled[p] \in Seq(Events)
    BY <1>1 DEF EventTypeOK
<1>4. e \in Events /\ Tail(inbox[p]) \in Seq(Events) /\ ToSet(inbox[p]) = ToSet(Tail(inbox[p])) \cup {e}
    BY <1>2, <1>3, HeadTailProperties, ToSetOfTail
<1>5. e.type \in channels[p] /\ e.type \in EventTypes /\ n \in Nat
    <2>1. e.type \in channels[p]
        BY <1>1, <1>4 DEF ProcessInv, ConsumerInv
    <2> QED BY <1>1, <2>1 DEF EventTypeOK
<1> HIDE DEF e, n
<1>6. hand \in Seq(Events) /\ (n # 0 => ToSet(hand) = {e}) /\ (n = 1 => hand = <<e>>)
    <2>1. hand \in Seq(Events)
        BY <1>4, <1>5
    <2>2. n # 0 => ToSet(hand) = {e}
        <3>1. DOMAIN hand = 1..n
            OBVIOUS
        <3>2. n # 0 => 1 \in 1..n
            BY <1>5
        <3> QED BY <3>1, <3>2 DEF ToSet
    <2>3. n = 1 => hand = <<e>>
        OBVIOUS
    <2> QED BY <2>1, <2>2, <2>3
<1> HIDE DEF hand
<1>7. EventTypeOK(Events)'
    BY <1>1, <1>2, <1>4, <1>6 DEF EventTypeOK
<1>8. ASSUME NEW q \in Subscribers, q # p PROVE ProcessInv(q)'
    <2>1. inbox'[q] = inbox[q] /\ inHand'[q] = inHand[q] /\ consumer'[q] = consumer[q]
        BY <1>1, <1>2, <1>8 DEF EventTypeOK
    <2> QED BY <1>1, <1>2, <2>1, ProcessStays
<1>9. ProcessInv(p)'
    <2>1. inbox'[p] = Tail(inbox[p]) /\ inHand'[p] = hand /\ consumer'[p] = IF n = 0 THEN "thrown" ELSE "consuming"
        BY <1>1, <1>2 DEF EventTypeOK
    <2>2. stored[p] # 0 /\ stored[p] \in Nat /\ n <= stored[p]
        BY <1>1, <1>2, <1>5 DEF ProcessInv, ConsumerInv, EventTypeOK, n
    <2>3. ConsumerInv(p)'
        <3>1. n # 0 => ToSet(handled[p]) \cup ToSet(hand) \cup ToSet(Tail(inbox[p]))
                           = ToSet(handled[p]) \cup ToSet(inHand[p]) \cup ToSet(inbox[p])
            <4>1. ToSet(inHand[p]) = {}
                BY <1>2 DEF ToSet
            <4> QED BY <1>4, <1>6, <4>1
        <3> QED BY <1>1, <1>2, <1>4, <2>1, <2>2, <3>1 DEF ProcessInv, ConsumerInv
    <2>4. Survives(p)'
        BY <1>1, <1>2, <1>5, <2>1, <2>2 DEF ProcessInv, ConsumerInv, Survives, n
    <2>5. InOrder(p)'
        <3> SUFFICES ASSUME n # 0
                     PROVE  /\ stored[p] = 1 => handled[p] \o hand \o Tail(inbox[p]) = delivered[p]
                            /\ hand # <<>>
            BY <1>2, <2>1 DEF InOrder
        <3>1. hand # <<>>
            BY <1>5 DEF hand
        <3>2. ASSUME stored[p] = 1 PROVE handled[p] \o hand \o Tail(inbox[p]) = delivered[p]
            <4>1. n = 1 /\ hand = <<e>>
                BY <1>5, <1>6, <2>2, <3>2
            <4>2. handled[p] \o <<e>> = Append(handled[p], e)
                BY <1>3, <1>4, AppendIsConcat
            <4>3. Append(handled[p], e) \o Tail(inbox[p]) = handled[p] \o inbox[p]
                BY <1>2, <1>3, ConcatShift DEF e
            <4>4. handled[p] \o inHand[p] = handled[p]
                BY <1>2, <1>3, ConcatEmptySeq
            <4>5. handled[p] \o inHand[p] \o inbox[p] = delivered[p]
                BY <1>1, <1>2, <3>2 DEF ProcessInv, InOrder
            <4> QED BY <4>1, <4>2, <4>3, <4>4, <4>5
        <3> QED BY <3>1, <3>2
    <2> QED BY <2>3, <2>4, <2>5 DEF ProcessInv
<1> QED BY <1>7, <1>8, <1>9, FromProcesses

\* A callback is called: the event moves from the messages in hand to those handled.
LEMMA CallCallbackInv ==
    ASSUME EventsInv(Events), NEW p \in Subscribers, CallCallback(p)
    PROVE  EventsInv(Events)'
<1> DEFINE e == Head(inHand[p])
<1>1. EventTypeOK(Events) /\ \A q \in Subscribers : ProcessInv(q)
    BY ByProcess
<1>2. /\ consumer[p] = "consuming" /\ inHand[p] # <<>>
      /\ handled' = [handled EXCEPT ![p] = Append(handled[p], e)]
      /\ inHand' = [inHand EXCEPT ![p] = Tail(inHand[p])]
      /\ UNCHANGED <<eventInit, channels, subscriptions, stored, subscribing, hasSubscription,
                     consumer, inbox, delivered>>
    BY DEF CallCallback
<1>3. inHand[p] \in Seq(Events) /\ handled[p] \in Seq(Events)
    BY <1>1 DEF EventTypeOK
<1>4. /\ e \in Events /\ Tail(inHand[p]) \in Seq(Events)
      /\ ToSet(inHand[p]) = ToSet(Tail(inHand[p])) \cup {e}
      /\ Append(handled[p], e) \o Tail(inHand[p]) = handled[p] \o inHand[p]
    BY <1>2, <1>3, HeadTailProperties, ToSetOfTail, ConcatShift
<1> HIDE DEF e
<1>5. Append(handled[p], e) \in Seq(Events) /\ ToSet(Append(handled[p], e)) = ToSet(handled[p]) \cup {e}
    BY <1>3, <1>4, AppendProperties, ToSetOfAppend
<1>6. EventTypeOK(Events)'
    BY <1>1, <1>2, <1>4, <1>5 DEF EventTypeOK
<1>7. ASSUME NEW q \in Subscribers, q # p PROVE ProcessInv(q)'
    <2>1. handled'[q] = handled[q] /\ inHand'[q] = inHand[q]
        BY <1>1, <1>2, <1>7 DEF EventTypeOK
    <2> QED BY <1>1, <1>2, <2>1, ProcessStays
<1>8. ProcessInv(p)'
    <2>1. handled'[p] = Append(handled[p], e) /\ inHand'[p] = Tail(inHand[p])
        BY <1>1, <1>2 DEF EventTypeOK
    <2>2. stored[p] # 0
        BY <1>1, <1>2 DEF ProcessInv, ConsumerInv
    <2>3. ToSet(handled'[p]) \cup ToSet(inHand'[p]) = ToSet(handled[p]) \cup ToSet(inHand[p])
        BY <1>4, <1>5, <2>1
    <2>4. ConsumerInv(p)'
        BY <1>1, <1>2, <2>2, <2>3 DEF ProcessInv, ConsumerInv
    <2>5. Survives(p)'
        BY <1>1, <1>2 DEF ProcessInv, Survives
    <2>6. handled'[p] \o inHand'[p] = handled[p] \o inHand[p]
        BY <1>4, <2>1
    <2>7. InOrder(p)'
        <3>1. inHand'[p] = <<>> => ToSet(inHand'[p]) = {}
            BY DEF ToSet
        <3> QED BY <1>1, <1>2, <2>3, <2>6, <3>1 DEF ProcessInv, ConsumerInv, InOrder
    <2> QED BY <2>4, <2>5, <2>7 DEF ProcessInv
<1> QED BY <1>6, <1>7, <1>8, FromProcesses

\* An event is appended to what was delivered and to what is unread alike.
LEMMA DispatchInv ==
    ASSUME EventsInv(Events), NEW e \in Events, DispatchEvent(e)
    PROVE  EventsInv(Events)'
<1>1. EventTypeOK(Events) /\ \A q \in Subscribers : ProcessInv(q)
    BY ByProcess
<1>2. UNCHANGED <<eventInit, channels, subscriptions, stored, subscribing, hasSubscription,
                  consumer, inHand, handled>>
    BY DEF DispatchEvent
<1>3. inbox' = WithEvent(inbox, e) /\ delivered' = WithEvent(delivered, e)
    BY DEF DispatchEvent
<1>4. ASSUME NEW q \in Subscribers
      PROVE  /\ inbox[q] \in Seq(Events) /\ delivered[q] \in Seq(Events)
             /\ Append(inbox[q], e) \in Seq(Events) /\ Append(delivered[q], e) \in Seq(Events)
             /\ inbox'[q] = IF q \in ReachedBy(e) THEN Append(inbox[q], e) ELSE inbox[q]
             /\ delivered'[q] = IF q \in ReachedBy(e) THEN Append(delivered[q], e) ELSE delivered[q]
    <2>1. inbox[q] \in Seq(Events) /\ delivered[q] \in Seq(Events)
        BY <1>1 DEF EventTypeOK
    <2>2. Append(inbox[q], e) \in Seq(Events) /\ Append(delivered[q], e) \in Seq(Events)
        BY <2>1, AppendProperties
    <2> QED BY <1>3, <2>1, <2>2 DEF WithEvent
<1>5. EventTypeOK(Events)'
    <2>1. inbox' \in [Subscribers -> Seq(Events)] /\ delivered' \in [Subscribers -> Seq(Events)]
        BY <1>3, <1>4 DEF WithEvent
    <2> QED BY <1>1, <1>2, <2>1 DEF EventTypeOK
<1>6. ASSUME NEW q \in Subscribers PROVE ProcessInv(q)'
    <2>1. CASE q \notin ReachedBy(e)
        BY <1>1, <1>2, <1>4, <2>1, ProcessStays
    <2>2. CASE q \in ReachedBy(e)
        <3>1. /\ e.type \in channels[q] /\ consumer[q] # "thrown"
              /\ inbox'[q] = Append(inbox[q], e) /\ delivered'[q] = Append(delivered[q], e)
            BY <1>4, <2>2 DEF ReachedBy
        <3>2. /\ ToSet(inbox'[q]) = ToSet(inbox[q]) \cup {e}
              /\ ToSet(delivered'[q]) = ToSet(delivered[q]) \cup {e}
            BY <1>4, <3>1, ToSetOfAppend
        <3>3. ConsumerInv(q)'
            BY <1>1, <1>2, <3>1, <3>2 DEF ProcessInv, ConsumerInv
        <3>4. Survives(q)'
            BY <1>1, <1>2 DEF ProcessInv, Survives
        <3>5. handled[q] \o inHand[q] \o inbox[q] = delivered[q] =>
                  handled[q] \o inHand[q] \o inbox'[q] = delivered'[q]
            <4>1. handled[q] \o inHand[q] \in Seq(Events)
                BY <1>1, ConcatProperties DEF EventTypeOK
            <4>2. PICK d, ib : d = handled[q] \o inHand[q] /\ ib = inbox[q]
                OBVIOUS
            <4>3. d \in Seq(Events) /\ ib \in Seq(Events) /\ e \in Events
                BY <1>4, <4>1, <4>2
            <4>4. d \o Append(ib, e) = Append(d \o ib, e)
                BY ONLY <4>3, ConcatAppend
            <4> QED BY <3>1, <4>2, <4>4
        <3>6. InOrder(q)'
            BY <1>1, <1>2, <3>1, <3>2, <3>5 DEF ProcessInv, InOrder
        <3> QED BY <3>3, <3>4, <3>6 DEF ProcessInv
    <2> QED BY <2>1, <2>2
<1> QED BY <1>5, <1>6, FromProcesses

-----------------------------------------------------------------------------
(* Clients *)

\* Initially no client is connected and the manifest is empty.
LEMMA ClientsStart == ClientsInit /\ EventInit => ClientsInv
<1> SUFFICES ASSUME ClientsInit, EventInit PROVE ClientsInv
    OBVIOUS
<1>1. ClientsTypeOK
    BY DEF ClientsInit, ClientsTypeOK, Offline
<1>2. RegistrationInv
    BY DEF ClientsInit, RegistrationInv, HExists, HGetAll, Exists
<1>3. ConnectionInv
    BY DEF ClientsInit, ConnectionInv, Offline
<1>4. ManifestBeforeEvent
    BY DEF EventInit, ManifestBeforeEvent, ToSet
<1> QED BY <1>1, <1>2, <1>3, <1>4, EventsStart DEF ClientsInv

\* What a command of OnClientConnected does to the manifest, which is to write what is
\* missing of the id that the proxy is registering.
LEMMA ManifestEffect ==
    ASSUME ClientsTypeOK, RegistrationInv, NEW x \in Proxies, ManifestStep(x)
    PROVE  LET id == accepting[x].id
               at == accepting[x].at
           IN  /\ accepting[x] # Idle /\ Running(x) /\ at # "dispatch"
               /\ accepting' = [accepting EXCEPT ![x] = [at |-> Following(at), id |-> id]]
               /\ Following(at) \in {"getProxy", "setProxy", "addClient", "dispatch"}
               /\ at = "register" <=> Following(at) = "getProxy"
               /\ at = "getProxy" <=> Following(at) = "setProxy"
               /\ at = "setProxy" <=> Following(at) = "addClient"
               /\ at = "addClient" <=> Following(at) = "dispatch"
               /\ UNCHANGED <<proxy, link, linkRow, waiting, clientIds, identity>>
               /\ \A f : HExists(manifest', IPs, f) <=>
                             HExists(manifest, IPs, f) \/ (at = "register" /\ f = id)
               /\ \A f : HExists(manifest', ProxyOf, f) <=>
                             HExists(manifest, ProxyOf, f) \/ (at = "setProxy" /\ f = id)
               /\ \A f : HExists(manifest, ProxyOf, f) =>
                             HGet(manifest', ProxyOf, f) = HGet(manifest, ProxyOf, f)
               /\ at = "setProxy" => HGet(manifest', ProxyOf, id) = x
               /\ \A f : SIsMember(manifest', ClientSet, f) <=>
                             SIsMember(manifest, ClientSet, f) \/ (at = "addClient" /\ f = id)
<1> DEFINE id == accepting[x].id
           at == accepting[x].at
<1>1. \E now \in {"register", "getProxy", "setProxy", "addClient"} : Command(x, now)
    BY DEF ManifestStep, RegisterClient, LeaveProxy, ClientSetProxy, ProxyAddClient
<1>2. Running(x) /\ at \in {"register", "getProxy", "setProxy", "addClient"} /\ Command(x, at)
    BY <1>1 DEF Command
<1>3. accepting[x] # Idle /\ accepting[x] = [at |-> at, id |-> id]
    BY <1>2 DEF ClientsTypeOK, Idle
<1>4. /\ Following(at) \in {"getProxy", "setProxy", "addClient", "dispatch"}
      /\ at = "register" <=> Following(at) = "getProxy"
      /\ at = "getProxy" <=> Following(at) = "setProxy"
      /\ at = "setProxy" <=> Following(at) = "addClient"
      /\ at = "addClient" <=> Following(at) = "dispatch"
    BY <1>2 DEF Following
<1>5. /\ accepting' = [accepting EXCEPT ![x] = [at |-> Following(at), id |-> id]]
      /\ UNCHANGED <<link, linkRow, waiting, clientIds, identity>>
    <2>1. [accepting[x] EXCEPT !.at = Following(at)] = [at |-> Following(at), id |-> id]
        BY <1>3
    <2> QED BY <1>2, <1>4, <2>1 DEF Command
<1>6. UNCHANGED proxy
    BY DEF ManifestStep, RegisterClient, LeaveProxy, ClientSetProxy, ProxyAddClient
<1>7. IPs # ProxyOf /\ IPs # ClientSet /\ ProxyOf # ClientSet
    BY DEF IPs, ProxyOf, ClientSet
<1>8. CASE at = "register"
    <2>1. manifest' = HSet(manifest, IPs, id, "address")
        BY <1>8 DEF ManifestStep, RegisterClient, LeaveProxy, ClientSetProxy, ProxyAddClient, Command
    <2> QED BY <1>2, <1>3, <1>4, <1>5, <1>6, <1>7, <1>8, <2>1, HSetEffect DEF SIsMember
<1>9. CASE at = "getProxy"
    <2>1. ~HExists(manifest, ProxyOf, id)
        BY <1>3, <1>9 DEF RegistrationInv
    <2>2. manifest' = manifest
        BY <1>9, <2>1 DEF ManifestStep, RegisterClient, LeaveProxy, ClientSetProxy, ProxyAddClient, Command
    <2> QED BY <1>2, <1>3, <1>4, <1>5, <1>6, <1>9, <2>2
<1>10. CASE at = "setProxy"
    <2>1. ~HExists(manifest, ProxyOf, id)
        BY <1>3, <1>10 DEF RegistrationInv
    <2>2. manifest' = HSet(manifest, ProxyOf, id, x)
        BY <1>10 DEF ManifestStep, RegisterClient, LeaveProxy, ClientSetProxy, ProxyAddClient, Command
    <2> QED BY <1>2, <1>3, <1>4, <1>5, <1>6, <1>7, <1>10, <2>1, <2>2, HSetEffect DEF SIsMember
<1>11. CASE at = "addClient"
    <2> DEFINE ids == {id}
    <2>1. manifest' = SAdd(manifest, ClientSet, ids) /\ ids # {}
        BY <1>11 DEF ManifestStep, RegisterClient, LeaveProxy, ClientSetProxy, ProxyAddClient, Command
    <2> HIDE DEF ids
    <2>2. /\ \A f : HExists(manifest', IPs, f) <=> HExists(manifest, IPs, f)
          /\ \A f : HExists(manifest', ProxyOf, f) <=> HExists(manifest, ProxyOf, f)
          /\ \A f : HGet(manifest', ProxyOf, f) = HGet(manifest, ProxyOf, f)
        BY <1>7, <2>1, SAddEffect DEF HExists, HGet
    <2>3. SMembers(manifest', ClientSet) = SMembers(manifest, ClientSet) \cup {id}
        BY <2>1, SAddEffect DEF ids
    <2> QED BY <1>2, <1>3, <1>4, <1>5, <1>6, <1>11, <2>2, <2>3 DEF SIsMember
<1> QED BY <1>2, <1>8, <1>9, <1>10, <1>11

\* A client that is listed stays so: nobody writes the entry of an id again.
LEMMA ListedStays ==
    ASSUME ClientsTypeOK, RegistrationInv, NEW x \in Proxies, ManifestStep(x), NEW id, NEW y, Listed(id, y)
    PROVE  Listed(id, y)'
BY ManifestEffect DEF Listed

\* Events that were delivered name clients that stay listed.
LEMMA AnnouncedStays ==
    ASSUME ManifestBeforeEvent, UNCHANGED delivered,
           \A id, y : Listed(id, y) => Listed(id, y)'
    PROVE  ManifestBeforeEvent'
BY DEF ManifestBeforeEvent

\* EventsInv is about the variables of the event system alone.
LEMMA EventsStay ==
    ASSUME EventsInv(Events), UNCHANGED eventVars
    PROVE  EventsInv(Events)'
<1>1. EventTypeOK(Events) /\ \A q \in Subscribers : ProcessInv(q)
    BY ByProcess
<1>2. EventTypeOK(Events)'
    BY <1>1 DEF eventVars, EventTypeOK
<1>3. \A q \in Subscribers : ProcessInv(q)'
    BY <1>1, ProcessStays DEF eventVars
<1> QED BY <1>2, <1>3, FromProcesses

\* A proxy writes the next part of the entry it is registering.
LEMMA ManifestStepInv ==
    ASSUME ClientsInv, NEW x \in Proxies, ManifestStep(x), UNCHANGED eventVars
    PROVE  ClientsInv'
<1>1. ClientsTypeOK /\ RegistrationInv /\ ConnectionInv /\ ManifestBeforeEvent /\ EventsInv(Events)
    BY DEF ClientsInv
<1> DEFINE id == accepting[x].id
           at == accepting[x].at
<1>2. /\ accepting[x] # Idle /\ id \in Nat /\ id <= clientIds
    BY <1>1, ManifestEffect DEF RegistrationInv, ClientsTypeOK
<1>3. /\ accepting'[x] = [at |-> Following(at), id |-> id] /\ accepting'[x] # Idle
      /\ \A y \in Proxies : y # x => accepting'[y] = accepting[y]
      /\ UNCHANGED <<proxy, link, linkRow, waiting, clientIds, identity>>
    BY <1>1, ManifestEffect DEF ClientsTypeOK, Idle
<1>4. ClientsTypeOK'
    BY <1>1, <1>2, <1>3, ManifestEffect DEF ClientsTypeOK
<1>5. RegistrationInv'
    <2>1. \A y \in Proxies : accepting'[y] # Idle =>
              accepting[y] # Idle /\ accepting'[y].id = accepting[y].id
        BY <1>2, <1>3
    <2>2. \A f \in Nat : HExists(manifest', ProxyOf, f) => f <= clientIds'
        BY <1>1, <1>2, <1>3, ManifestEffect DEF RegistrationInv
    <2>3. ASSUME NEW y \in Proxies, accepting'[y] # Idle
          PROVE  /\ accepting'[y].at # "register" => HExists(manifest', IPs, accepting'[y].id)
                 /\ accepting'[y].at \in {"register", "getProxy", "setProxy"} =>
                        ~HExists(manifest', ProxyOf, accepting'[y].id)
                 /\ accepting'[y].at \in {"addClient", "dispatch"} =>
                        /\ HExists(manifest', ProxyOf, accepting'[y].id)
                        /\ HGet(manifest', ProxyOf, accepting'[y].id) = y
                 /\ accepting'[y].at = "dispatch" => SIsMember(manifest', ClientSet, accepting'[y].id)
        <3>1. CASE y = x
            BY <1>1, <1>2, <1>3, <3>1, ManifestEffect DEF RegistrationInv
        <3>2. CASE y # x
            <4>1. accepting'[y] = accepting[y] /\ accepting[y] # Idle /\ accepting[y].id # id
                BY <1>1, <1>2, <1>3, <2>3, <3>2 DEF RegistrationInv
            <4> QED BY <1>1, <4>1, ManifestEffect DEF RegistrationInv
        <3> QED BY <3>1, <3>2
    <2> QED BY <1>1, <1>3, <2>1, <2>2, <2>3 DEF RegistrationInv
<1>6. \A f, y : Listed(f, y) => Listed(f, y)'
    BY <1>1, ListedStays
<1>7. ConnectionInv'
    BY <1>1, <1>2, <1>3, <1>6 DEF ConnectionInv, Running, ClientsTypeOK
<1>8. ManifestBeforeEvent'
    BY <1>1, <1>6, AnnouncedStays DEF eventVars
<1> QED BY <1>1, <1>4, <1>5, <1>7, <1>8, EventsStay DEF ClientsInv

\* A client gets an id that nobody has had, from the proxy it is connected to.
LEMMA AssignIdInv ==
    ASSUME ClientsInv, NEW x \in Proxies, NEW c \in Clients, AssignId(x, c), UNCHANGED eventVars
    PROVE  ClientsInv'
<1>1. ClientsTypeOK /\ RegistrationInv /\ ConnectionInv /\ ManifestBeforeEvent /\ EventsInv(Events)
    BY DEF ClientsInv
<1>2. /\ accepting[x] = Idle /\ Running(x) /\ c \in waiting[x]
      /\ clientIds' = clientIds + 1 /\ clientIds \in Nat
      /\ waiting' = [waiting EXCEPT ![x] = @ \ {c}]
      /\ identity' = [identity EXCEPT ![c] = clientIds + 1]
      /\ accepting' = [accepting EXCEPT ![x] = [at |-> "register", id |-> clientIds + 1]]
      /\ UNCHANGED <<proxy, link, linkRow, manifest>>
    BY <1>1 DEF AssignId, NewId, ClientsTypeOK
<1>3. ClientsTypeOK'
    BY <1>1, <1>2 DEF ClientsTypeOK
<1>4. /\ accepting'[x] = [at |-> "register", id |-> clientIds + 1] /\ accepting'[x] # Idle
      /\ \A y \in Proxies : y # x => accepting'[y] = accepting[y]
    BY <1>1, <1>2 DEF ClientsTypeOK, Idle
<1>5. \A y \in Proxies : accepting[y] # Idle => accepting[y].id \in Nat /\ accepting[y].id <= clientIds
    BY <1>1 DEF RegistrationInv, ClientsTypeOK
<1>6. ~HExists(manifest, ProxyOf, clientIds + 1)
    BY <1>1, <1>2 DEF RegistrationInv
<1>7. RegistrationInv'
    <2>1. \A y \in Proxies : accepting'[y] # Idle => accepting'[y].id <= clientIds'
        BY <1>2, <1>4, <1>5
    <2>2. \A y, z \in Proxies :
              accepting'[y] # Idle /\ accepting'[z] # Idle /\ accepting'[y].id = accepting'[z].id => y = z
        BY <1>1, <1>2, <1>4, <1>5 DEF RegistrationInv
    <2>3. \A f \in Nat : HExists(manifest', ProxyOf, f) => f <= clientIds'
        BY <1>1, <1>2 DEF RegistrationInv
    <2> QED BY <1>1, <1>2, <1>4, <1>6, <2>1, <2>2, <2>3 DEF RegistrationInv
<1>8. \A f, y : Listed(f, y) => Listed(f, y)'
    BY <1>2 DEF Listed
<1>9. ConnectionInv'
    <2>1. link[c].proxy = x
        BY <1>1, <1>2 DEF ConnectionInv
    <2> QED BY <1>1, <1>2, <1>4, <1>8, <2>1 DEF ConnectionInv, Running, ClientsTypeOK
<1>10. ManifestBeforeEvent'
    BY <1>1, <1>8, AnnouncedStays DEF eventVars
<1> QED BY <1>1, <1>3, <1>7, <1>9, <1>10, EventsStay DEF ClientsInv

\* The steps that neither register a client nor announce it.
LEMMA ConnectionStepInv ==
    ASSUME ClientsInv, UNCHANGED eventVars,
           \/ \E x \in Proxies : ProxyReady(x) \/ ProxyCrash(x)
           \/ \E x \in Proxies, c \in Clients : ConnectToAtlasNet(c, x)
           \/ \E c \in Clients : ClientStep(c)
    PROVE  ClientsInv'
<1>1. ClientsTypeOK /\ RegistrationInv /\ ConnectionInv /\ ManifestBeforeEvent /\ EventsInv(Events)
    BY DEF ClientsInv
<1>2. UNCHANGED <<accepting, clientIds, manifest>>
    BY DEF ProxyReady, ProxyCrash, ConnectToAtlasNet, ClientStep, InsertRow, ClientOnConnected,
           LinkLost, LinkDropped
<1>3. RegistrationInv'
    BY <1>1, <1>2 DEF RegistrationInv
<1>4. \A f, y : Listed(f, y) <=> Listed(f, y)'
    BY <1>2 DEF Listed
<1>5. ManifestBeforeEvent'
    BY <1>1, <1>4, AnnouncedStays DEF eventVars
<1>6. ClientsTypeOK' /\ ConnectionInv'
    <2>1. ASSUME NEW x \in Proxies, ProxyReady(x) \/ ProxyCrash(x) PROVE ClientsTypeOK' /\ ConnectionInv'
        <3>1. \A y \in Proxies : Running(y)' => Running(y)
            BY <1>1, <2>1 DEF ProxyReady, ProxyCrash, Running, ClientsTypeOK
        <3>2. UNCHANGED <<link, waiting, identity>>
            BY <2>1 DEF ProxyReady, ProxyCrash
        <3>3. ClientsTypeOK'
            BY <1>1, <1>2, <2>1 DEF ProxyReady, ProxyCrash, ClientsTypeOK
        <3> QED BY <1>1, <1>2, <1>4, <3>1, <3>2, <3>3 DEF ConnectionInv, ClientsTypeOK
    <2>2. ASSUME NEW x \in Proxies, NEW c \in Clients, ConnectToAtlasNet(c, x)
          PROVE  ClientsTypeOK' /\ ConnectionInv'
        BY <1>1, <1>2, <1>4, <2>2 DEF ConnectToAtlasNet, Running, ClientsTypeOK, ConnectionInv
    <2>3. ASSUME NEW c \in Clients, InsertRow(c) PROVE ClientsTypeOK' /\ ConnectionInv'
        BY <1>1, <1>2, <1>4, <2>3 DEF InsertRow, Running, ClientsTypeOK, ConnectionInv
    <2>4. ASSUME NEW c \in Clients, ClientOnConnected(c) PROVE ClientsTypeOK' /\ ConnectionInv'
        <3>1. PICK to \in {"connected", "down"} : link' = [link EXCEPT ![c].at = to]
            BY <2>4 DEF ClientOnConnected
        <3>2. /\ link'[c].at = to /\ link'[c].proxy = link[c].proxy
              /\ \A d \in Clients : d # c => link'[d] = link[d]
            BY <1>1, <3>1 DEF ClientsTypeOK
        <3>3. UNCHANGED <<proxy, waiting, identity>> /\ link[c].at = "connecting"
            BY <2>4 DEF ClientOnConnected
        <3>4. ClientsTypeOK'
            BY <1>1, <1>2, <3>1, <3>2, <3>3 DEF ClientsTypeOK
        <3>5. \A d \in Clients : link'[d].proxy = link[d].proxy
            BY <3>2
        <3>6. \A d \in Clients :
                  /\ link'[d].at = "none" => link[d].at = "none"
                  /\ link'[d].at \in {"connecting", "connected"} => link[d].at \in {"connecting", "connected"}
            BY <3>2, <3>3
        <3>7. \A y : Running(y)' <=> Running(y)
            BY <3>3 DEF Running
        <3>8. ConnectionInv'
            BY <1>1, <1>2, <1>4, <3>3, <3>5, <3>6, <3>7 DEF ConnectionInv, ClientsTypeOK
        <3> QED BY <3>4, <3>8
    <2>5. ASSUME NEW c \in Clients, LinkLost(c) PROVE ClientsTypeOK' /\ ConnectionInv'
        BY <1>1, <1>2, <1>4, <2>5, ClientsAssumption
           DEF LinkLost, Offline, Running, ClientsTypeOK, ConnectionInv
    <2>6. ASSUME NEW c \in Clients, LinkDropped(c) PROVE ClientsTypeOK' /\ ConnectionInv'
        BY <1>1, <1>2, <1>4, <2>6, ClientsAssumption
           DEF LinkDropped, Offline, Running, ClientsTypeOK, ConnectionInv
    <2> QED BY <2>1, <2>2, <2>3, <2>4, <2>5, <2>6 DEF ClientStep
<1> QED BY <1>1, <1>3, <1>5, <1>6, EventsStay DEF ClientsInv

\* The event is dispatched when the entry is complete.
LEMMA AnnounceInv ==
    ASSUME ClientsInv, NEW x \in Proxies, AnnounceClient(x)
    PROVE  ClientsInv'
<1>1. ClientsTypeOK /\ RegistrationInv /\ ConnectionInv /\ ManifestBeforeEvent /\ EventsInv(Events)
    BY DEF ClientsInv
<1>2. PICK id \in Nat : accepting[x] = [at |-> "dispatch", id |-> id]
    BY <1>1 DEF AnnounceClient, Command, ClientsTypeOK, Idle
<1>3. PICK e : e = [type |-> "ClientConnectEvent", client |-> id, proxy |-> x]
    OBVIOUS
<1>4. e \in Events /\ e.client = id /\ e.proxy = x
    BY <1>2, <1>3 DEF Events
<1>5. /\ accepting' = [accepting EXCEPT ![x] = Idle] /\ UNCHANGED manifest /\ Running(x)
      /\ UNCHANGED <<link, linkRow, waiting, clientIds, identity>>
    BY <1>2 DEF AnnounceClient, Command, Following
<1>6. \/ DispatchEvent(e) /\ UNCHANGED proxy
      \/ UNCHANGED eventVars /\ proxy' = [proxy EXCEPT ![x] = "aborted"]
    BY <1>2, <1>3 DEF AnnounceClient
<1>7. Listed(id, x)
    BY <1>1, <1>2 DEF RegistrationInv, Listed, Idle
<1>8. \A f, y : Listed(f, y) <=> Listed(f, y)'
    BY <1>5 DEF Listed
<1>9. ClientsTypeOK'
    BY <1>1, <1>5, <1>6 DEF ClientsTypeOK
<1>10. /\ accepting'[x] = Idle
       /\ \A y \in Proxies : y # x => accepting'[y] = accepting[y]
       /\ \A y \in Proxies : Running(y)' => Running(y)
    BY <1>1, <1>5, <1>6 DEF ClientsTypeOK, Running
<1>11. RegistrationInv'
    BY <1>1, <1>5, <1>10 DEF RegistrationInv
<1>12. ConnectionInv'
    BY <1>1, <1>2, <1>5, <1>7, <1>8, <1>10 DEF ConnectionInv, ClientsTypeOK
<1>13. EventsInv(Events)'
    BY <1>1, <1>4, <1>6, DispatchInv, EventsStay
<1>14. ManifestBeforeEvent'
    <2>1. CASE UNCHANGED eventVars
        BY <1>1, <1>8, <2>1, AnnouncedStays DEF eventVars
    <2>2. CASE DispatchEvent(e)
        <3> SUFFICES ASSUME NEW p \in Subscribers, NEW g \in ToSet(delivered'[p])
                     PROVE  Listed(g.client, g.proxy)
            BY <1>8 DEF ManifestBeforeEvent
        <3>1. delivered[p] \in Seq(Events)
            BY <1>1 DEF EventsInv, EventTypeOK
        <3>2. delivered'[p] = IF p \in ReachedBy(e) THEN Append(delivered[p], e) ELSE delivered[p]
            BY <2>2 DEF DispatchEvent, WithEvent
        <3>3. g \in ToSet(delivered[p]) \/ g = e
            BY <1>4, <3>1, <3>2, ToSetOfAppend
        <3> QED BY <1>1, <1>4, <1>7, <3>3 DEF ManifestBeforeEvent
    <2> QED BY <1>6, <2>1, <2>2
<1> QED BY <1>9, <1>11, <1>12, <1>13, <1>14 DEF ClientsInv

\* A step of a subscriber touches neither clients nor manifest, and delivers nothing.
LEMMA SubscriberInv ==
    ASSUME ClientsInv, EventNext, UNCHANGED clientVars
    PROVE  ClientsInv'
<1>1. ClientsTypeOK /\ RegistrationInv /\ ConnectionInv /\ ManifestBeforeEvent /\ EventsInv(Events)
    BY DEF ClientsInv
<1>2. EventsInv(Events)'
    BY <1>1, SubscribeStepInv, ConsumeInv, CallCallbackInv DEF EventNext, EventStep
<1>3. UNCHANGED delivered
    BY DEF EventNext, EventStep, StartEvents, SubscribeChannel, StoreCallback, SetHasSubscription,
           StartConsuming, Consume, CallCallback
<1>4. ClientsTypeOK' /\ RegistrationInv' /\ ConnectionInv'
    BY <1>1 DEF clientVars, ClientsTypeOK, RegistrationInv, ConnectionInv, Running, Listed
<1>5. ManifestBeforeEvent'
    BY <1>1, <1>3 DEF ManifestBeforeEvent, Listed, clientVars
<1> QED BY <1>2, <1>4, <1>5 DEF ClientsInv

\* ClientsInv holds in every reachable state.
THEOREM ServicesInvariant == ClientsSpec => []ClientsInv
<1>1. ClientsInv /\ [ClientsNext]_<<clientVars, eventVars>> => ClientsInv'
    <2> SUFFICES ASSUME ClientsInv, [ClientsNext]_<<clientVars, eventVars>> PROVE ClientsInv'
        OBVIOUS
    <2>1. CASE UNCHANGED <<clientVars, eventVars>>
        <3>1. ClientsTypeOK' /\ RegistrationInv' /\ ConnectionInv'
            BY <2>1 DEF ClientsInv, clientVars, ClientsTypeOK, RegistrationInv, ConnectionInv, Running, Listed
        <3>2. ManifestBeforeEvent'
            BY <2>1 DEF ClientsInv, ManifestBeforeEvent, Listed, clientVars, eventVars
        <3> QED BY <2>1, <3>1, <3>2, EventsStay DEF ClientsInv
    <2> QED BY <2>1, AnnounceInv, ManifestStepInv, AssignIdInv, ConnectionStepInv, SubscriberInv
            DEF ClientsNext
<1> QED BY ClientsStart, <1>1, PTL DEF ClientsSpec

\* Whoever learns of a client by its event finds it in the manifest, for any number of
\* proxies that register clients at the same time and crash between any two commands.
THEOREM ListedBeforeAnnounced == ClientsSpec => []ManifestBeforeEvent
<1>1. ClientsInv => ManifestBeforeEvent
    BY DEF ClientsInv
<1> QED BY <1>1, ServicesInvariant, PTL

\* A connected client that its proxy has dealt with is in the manifest under its id, for any
\* number of clients that connect, lose their connection and connect elsewhere.
THEOREM ConnectedAreListed == ClientsSpec => []ConnectedIsListed
<1>1. ClientsInv => ConnectedIsListed
    BY DEF ClientsInv, ConnectionInv, ConnectedIsListed, Running
<1> QED BY <1>1, ServicesInvariant, PTL

\* The manifest knows the clients that are announced and those that are connected.
THEOREM ClientsStayListed == ClientsSpec => []ClientsAreListed
BY ListedBeforeAnnounced, ConnectedAreListed, PTL DEF ClientsAreListed

\* The consuming thread of a process that calls Subscribe once never throws, whenever the
\* events come.
THEOREM OneSubscriptionSurvives == ClientsSpec => []ConsumerSurvives
<1>1. ClientsInv => ConsumerSurvives
    BY DEF ClientsInv, EventsInv
<1> QED BY <1>1, ServicesInvariant, PTL

\* A process that has not ended has handled, holds or has yet to read every event it was
\* sent; with one subscription, in the order of delivery.
THEOREM EventsStayInOrder == ClientsSpec => []EventsInOrder
<1>1. ClientsInv => EventsInOrder
    BY DEF ClientsInv, EventsInv
<1> QED BY <1>1, ServicesInvariant, PTL
-----------------------------------------------------------------------------
(* LedgerTransfers *)

\* The places of an entity, one by one.
LEMMA PlaceIs ==
    ASSUME NEW e, NEW p
    PROVE  p \in TransferPlaces(e) <=>
               \/ \E k \in DOMAIN newlyOut : newlyOut[k] = e /\ p = <<"walk", k>>
               \/ \E k \in DOMAIN entityTransfers : e \in entityTransfers[k] /\ p = <<"entity", k>>
               \/ \E k \in DOMAIN clientTransfers : e \in clientTransfers[k] /\ p = <<"client", k>>
BY DEF TransferPlaces

\* Append adds one place to a sequence.
LEMMA AppendPlaces ==
    ASSUME NEW S, NEW seq \in Seq(S), NEW x \in S
    PROVE  /\ Append(seq, x) \in Seq(S)
           /\ DOMAIN Append(seq, x) = DOMAIN seq \cup {Len(seq) + 1}
           /\ Len(seq) + 1 \notin DOMAIN seq
           /\ \A k \in DOMAIN seq : Append(seq, x)[k] = seq[k]
           /\ Append(seq, x)[Len(seq) + 1] = x
<1>1. DOMAIN seq = 1..Len(seq) /\ Len(seq) \in Nat
    BY LenProperties
<1>2. /\ Append(seq, x) \in Seq(S) /\ Len(Append(seq, x)) = Len(seq) + 1
      /\ \A i \in 1..Len(seq) : Append(seq, x)[i] = seq[i]
      /\ Append(seq, x)[Len(seq) + 1] = x
    BY AppendProperties
<1>3. DOMAIN Append(seq, x) = 1..(Len(seq) + 1)
    BY <1>2, LenProperties
<1> QED BY <1>1, <1>2, <1>3

\* Registering, moving and starting a walk change no place.
LEMMA LedgerOthers ==
    ASSUME LedgerInv,
           \/ BoundClaimed \/ StartWalk \/ UNCHANGED ledgerVars
           \/ \E e \in LedgerEntities : RegisterNewEntity(e) \/ MoveEntity(e)
    PROVE  LedgerInv'
<1>1. UNCHANGED <<marked, newlyOut, entityTransfers, clientTransfers>> /\ entities \subseteq entities'
    BY DEF LedgerInv, BoundClaimed, StartWalk, RegisterNewEntity, MoveEntity, ledgerVars
<1>2. \A e : TransferPlaces(e)' = TransferPlaces(e)
    BY <1>1 DEF TransferPlaces
<1>3. TransferredOnce'
    BY <1>1, <1>2 DEF LedgerInv, TransferredOnce
<1>4. entities' \subseteq LedgerEntities /\ toVisit' \subseteq entities'
    BY DEF LedgerInv, BoundClaimed, StartWalk, RegisterNewEntity, MoveEntity, ledgerVars
<1>5. scan' = "asleep" => newlyOut' = <<>>
    BY <1>1 DEF LedgerInv, BoundClaimed, StartWalk, RegisterNewEntity, MoveEntity, ledgerVars
<1> QED BY <1>1, <1>3, <1>4, <1>5 DEF LedgerInv

\* An entity that is marked had no place and gets one, at the end of the batch.
LEMMA LedgerVisit ==
    ASSUME LedgerInv, NEW x \in LedgerEntities, VisitEntity(x)
    PROVE  LedgerInv'
<1>1. UNCHANGED <<entities, scan, entityTransfers, clientTransfers>> /\ scan = "walking"
      /\ toVisit' \subseteq toVisit /\ x \in entities
    BY DEF VisitEntity, LedgerInv
<1>2. CASE ~ToMark(x)
    <2>1. UNCHANGED <<newlyOut, marked>>
        BY <1>2 DEF VisitEntity
    <2>2. \A e : TransferPlaces(e)' = TransferPlaces(e)
        BY <1>1, <2>1 DEF TransferPlaces
    <2>3. TransferredOnce'
        BY <1>1, <2>1, <2>2 DEF LedgerInv, TransferredOnce
    <2> QED BY <1>1, <2>1, <2>3 DEF LedgerInv
<1>3. CASE ToMark(x)
    <2>1. newlyOut' = Append(newlyOut, x) /\ marked' = marked \cup {x} /\ x \notin marked
        BY <1>3 DEF VisitEntity, ToMark
    <2>2. newlyOut \in Seq(LedgerEntities)
        BY DEF LedgerInv
    <2>3. PICK n : /\ newlyOut' \in Seq(LedgerEntities)
                   /\ DOMAIN newlyOut' = DOMAIN newlyOut \cup {n} /\ n \notin DOMAIN newlyOut
                   /\ \A k \in DOMAIN newlyOut : newlyOut'[k] = newlyOut[k]
                   /\ newlyOut'[n] = x
        BY <2>1, <2>2, AppendPlaces
    <2>4. TransferPlaces(x) = {}
        BY <2>1 DEF LedgerInv, TransferredOnce
    <2>5. TransferPlaces(x)' = {<<"walk", n>>}
        <3>1. /\ \A k \in DOMAIN newlyOut : newlyOut[k] # x
              /\ \A k \in DOMAIN entityTransfers : x \notin entityTransfers[k]
              /\ \A k \in DOMAIN clientTransfers : x \notin clientTransfers[k]
            BY <2>4 DEF TransferPlaces
        <3>2. {i \in DOMAIN newlyOut' : newlyOut'[i] = x} = {n}
            BY <2>3, <3>1
        <3> QED BY <1>1, <3>1, <3>2 DEF TransferPlaces
    <2>6. ASSUME NEW e, e # x PROVE TransferPlaces(e)' = TransferPlaces(e)
        <3>1. {i \in DOMAIN newlyOut' : newlyOut'[i] = e} = {i \in DOMAIN newlyOut : newlyOut[i] = e}
            BY <2>3, <2>6
        <3> QED BY <1>1, <3>1 DEF TransferPlaces
    <2>7. ASSUME NEW e \in LedgerEntities
          PROVE  /\ e \in marked' <=> TransferPlaces(e)' # {}
                 /\ \A p, q \in TransferPlaces(e)' : p = q
        <3>1. CASE e = x
            BY <2>1, <2>5, <3>1
        <3>2. CASE e # x
            BY <2>1, <2>6, <3>2 DEF LedgerInv, TransferredOnce
        <3> QED BY <3>1, <3>2
    <2>8. TransferredOnce'
        BY <1>1, <2>1, <2>7 DEF LedgerInv, TransferredOnce
    <2> QED BY <1>1, <2>3, <2>8 DEF LedgerInv
<1> QED BY <1>2, <1>3

\* What WithTransfer adds to the transfers.
LEMMA TransferAdded ==
    ASSUME NEW seq \in Seq(SUBSET LedgerEntities), NEW batch \in SUBSET LedgerEntities
    PROVE  /\ WithTransfer(seq, batch) \in Seq(SUBSET LedgerEntities)
           /\ Len(seq) + 1 \notin DOMAIN seq
           /\ \A e : {k \in DOMAIN WithTransfer(seq, batch) : e \in WithTransfer(seq, batch)[k]}
                        = {k \in DOMAIN seq : e \in seq[k]}
                              \cup {k \in {Len(seq) + 1} : e \in batch}
<1>1. /\ Append(seq, batch) \in Seq(SUBSET LedgerEntities)
      /\ DOMAIN Append(seq, batch) = DOMAIN seq \cup {Len(seq) + 1}
      /\ Len(seq) + 1 \notin DOMAIN seq
      /\ \A k \in DOMAIN seq : Append(seq, batch)[k] = seq[k]
      /\ Append(seq, batch)[Len(seq) + 1] = batch
    BY AppendPlaces
<1>2. CASE batch = {}
    BY <1>1, <1>2 DEF WithTransfer
<1>3. CASE batch # {}
    BY <1>1, <1>3 DEF WithTransfer
<1> QED BY <1>2, <1>3

\* The batch becomes transfers: an entity of it moves from its place there to one of them.
LEMMA LedgerMark ==
    ASSUME LedgerInv, MarkEntitiesForTransfer
    PROVE  LedgerInv'
<1>1. /\ UNCHANGED <<entities, toVisit, marked>> /\ newlyOut' = <<>>
      /\ clientTransfers' = WithTransfer(clientTransfers, ToSet(newlyOut) \cap ClientEntities)
      /\ entityTransfers' = WithTransfer(entityTransfers, ToSet(newlyOut) \ ClientEntities)
    BY DEF MarkEntitiesForTransfer
<1>2. /\ clientTransfers \in Seq(SUBSET LedgerEntities)
      /\ entityTransfers \in Seq(SUBSET LedgerEntities)
      /\ newlyOut \in Seq(LedgerEntities)
    BY DEF LedgerInv
<1>3. ToSet(newlyOut) \subseteq LedgerEntities
    BY <1>2, ElementOfSeq, LenProperties DEF ToSet
<1> DEFINE c == Len(clientTransfers) + 1
           n == Len(entityTransfers) + 1
<1>4. /\ clientTransfers' \in Seq(SUBSET LedgerEntities) /\ c \notin DOMAIN clientTransfers
      /\ \A e : {k \in DOMAIN clientTransfers' : e \in clientTransfers'[k]}
                   = {k \in DOMAIN clientTransfers : e \in clientTransfers[k]}
                         \cup {k \in {c} : e \in ToSet(newlyOut) \cap ClientEntities}
    <2>1. PICK b \in SUBSET LedgerEntities : b = ToSet(newlyOut) \cap ClientEntities
        BY <1>3
    <2>2. clientTransfers' = WithTransfer(clientTransfers, b)
        BY <1>1, <2>1
    <2>3. /\ WithTransfer(clientTransfers, b) \in Seq(SUBSET LedgerEntities) /\ c \notin DOMAIN clientTransfers
          /\ \A e : {k \in DOMAIN WithTransfer(clientTransfers, b) : e \in WithTransfer(clientTransfers, b)[k]}
                       = {k \in DOMAIN clientTransfers : e \in clientTransfers[k]}
                             \cup {k \in {c} : e \in b}
        BY <1>2, TransferAdded
    <2> HIDE DEF c
    <2>4. \A e : e \in b <=> e \in ToSet(newlyOut) \cap ClientEntities
        BY <2>1
    <2>5. \A e : {k \in {c} : e \in b} = {k \in {c} : e \in ToSet(newlyOut) \cap ClientEntities}
        BY <2>4
    <2> QED BY <2>2, <2>3, <2>5
<1>5. /\ entityTransfers' \in Seq(SUBSET LedgerEntities) /\ n \notin DOMAIN entityTransfers
      /\ \A e : {k \in DOMAIN entityTransfers' : e \in entityTransfers'[k]}
                   = {k \in DOMAIN entityTransfers : e \in entityTransfers[k]}
                         \cup {k \in {n} : e \in ToSet(newlyOut) \ ClientEntities}
    <2>1. PICK b \in SUBSET LedgerEntities : b = ToSet(newlyOut) \ ClientEntities
        BY <1>3
    <2>2. entityTransfers' = WithTransfer(entityTransfers, b)
        BY <1>1, <2>1
    <2>3. /\ WithTransfer(entityTransfers, b) \in Seq(SUBSET LedgerEntities) /\ n \notin DOMAIN entityTransfers
          /\ \A e : {k \in DOMAIN WithTransfer(entityTransfers, b) : e \in WithTransfer(entityTransfers, b)[k]}
                       = {k \in DOMAIN entityTransfers : e \in entityTransfers[k]}
                             \cup {k \in {n} : e \in b}
        BY <1>2, TransferAdded
    <2> HIDE DEF n
    <2>4. \A e : e \in b <=> e \in ToSet(newlyOut) \ ClientEntities
        BY <2>1
    <2>5. \A e : {k \in {n} : e \in b} = {k \in {n} : e \in ToSet(newlyOut) \ ClientEntities}
        BY <2>4
    <2> QED BY <2>2, <2>3, <2>5
<1> HIDE DEF c, n
<1>6. DOMAIN newlyOut' = {}
    BY <1>1
<1>7. ASSUME NEW e
      PROVE  TransferPlaces(e)' =
                 {<<"entity", k>> : k \in {i \in DOMAIN entityTransfers : e \in entityTransfers[i]}
                                        \cup {i \in {n} : e \in ToSet(newlyOut) \ ClientEntities}}
                 \cup {<<"client", k>> : k \in {i \in DOMAIN clientTransfers : e \in clientTransfers[i]}
                                        \cup {i \in {c} : e \in ToSet(newlyOut) \cap ClientEntities}}
    <2>1. {i \in DOMAIN entityTransfers' : e \in entityTransfers'[i]}
              = {i \in DOMAIN entityTransfers : e \in entityTransfers[i]}
                    \cup {i \in {n} : e \in ToSet(newlyOut) \ ClientEntities}
        BY <1>5
    <2>2. {i \in DOMAIN clientTransfers' : e \in clientTransfers'[i]}
              = {i \in DOMAIN clientTransfers : e \in clientTransfers[i]}
                    \cup {i \in {c} : e \in ToSet(newlyOut) \cap ClientEntities}
        BY <1>4
    <2>3. {<<"walk", k>> : k \in {i \in DOMAIN newlyOut' : newlyOut'[i] = e}} = {}
        BY <1>6
    <2> QED BY <2>1, <2>2, <2>3 DEF TransferPlaces
<1>8. ASSUME NEW e \in LedgerEntities
      PROVE  /\ e \in marked' <=> TransferPlaces(e)' # {}
             /\ \A p, q \in TransferPlaces(e)' : p = q
    <2>1. /\ e \in marked <=> TransferPlaces(e) # {}
          /\ \A p, q \in TransferPlaces(e) : p = q
        BY DEF LedgerInv, TransferredOnce
    <2>2. CASE e \notin ToSet(newlyOut)
        <3>1. {i \in DOMAIN newlyOut : newlyOut[i] = e} = {}
            BY <2>2 DEF ToSet
        <3>2. TransferPlaces(e)' = TransferPlaces(e)
            BY <1>7, <2>2, <3>1 DEF TransferPlaces
        <3> QED BY <1>1, <2>1, <3>2
    <2>3. CASE e \in ToSet(newlyOut)
        <3>1. PICK j \in DOMAIN newlyOut : newlyOut[j] = e
            BY <2>3 DEF ToSet
        <3>2. <<"walk", j>> \in TransferPlaces(e)
            BY <3>1 DEF TransferPlaces
        <3>3. \A k : <<"entity", k>> \notin TransferPlaces(e) /\ <<"client", k>> \notin TransferPlaces(e)
            BY <2>1, <3>2
        <3>4. {i \in DOMAIN entityTransfers : e \in entityTransfers[i]} = {}
            BY <3>3, PlaceIs
        <3>5. {i \in DOMAIN clientTransfers : e \in clientTransfers[i]} = {}
            BY <3>3, PlaceIs
        <3>6. TransferPlaces(e)' = {IF e \in ClientEntities THEN <<"client", c>> ELSE <<"entity", n>>}
            BY <1>7, <2>3, <3>4, <3>5
        <3> QED BY <1>1, <2>1, <3>2, <3>6
    <2> QED BY <2>2, <2>3
<1>9. \A k \in DOMAIN clientTransfers' : clientTransfers'[k] \subseteq ClientEntities
    BY <1>4 DEF LedgerInv, TransferredOnce
<1>10. \A k \in DOMAIN entityTransfers' : entityTransfers'[k] \cap ClientEntities = {}
    BY <1>5 DEF LedgerInv, TransferredOnce
<1>11. marked' \subseteq entities'
    BY <1>1 DEF LedgerInv, TransferredOnce
<1>12. TransferredOnce'
    BY <1>8, <1>9, <1>10, <1>11 DEF TransferredOnce
<1>13. newlyOut' \in Seq(LedgerEntities)
    BY <1>1
<1>14. entities' \subseteq LedgerEntities /\ toVisit' \subseteq entities'
    BY <1>1 DEF LedgerInv
<1> QED BY <1>1, <1>4, <1>5, <1>12, <1>13, <1>14 DEF LedgerInv

\* LoopThreadEntry hands every entity that it marks over exactly once and to the right kind
\* of transfer, for any number of entities and walks and any interleaving with the game.
THEOREM LedgerHandsOverOnce == LedgerSpec => []TransferredOnce
<1>1. LedgerInit => LedgerInv
    <2> SUFFICES ASSUME LedgerInit PROVE LedgerInv
        OBVIOUS
    <2>1. newlyOut = <<>> /\ entityTransfers = <<>> /\ clientTransfers = <<>>
        BY DEF LedgerInit
    <2>2. \A e : TransferPlaces(e) = {}
        BY <2>1 DEF TransferPlaces
    <2> QED BY <2>1, <2>2 DEF LedgerInit, LedgerInv, TransferredOnce
<1>2. LedgerInv /\ [LedgerNext]_ledgerVars => LedgerInv'
    BY LedgerOthers, LedgerVisit, LedgerMark DEF LedgerNext
<1>3. LedgerInv => TransferredOnce
    BY DEF LedgerInv
<1> QED BY <1>1, <1>2, <1>3, PTL DEF LedgerSpec

-----------------------------------------------------------------------------
(* WirePackets: packets are read back as they were written *)

\* Induction, over a set of numbers.
LEMMA InductionOnNat ==
    ASSUME NEW S, 0 \in S, \A n \in Nat : n \in S => n + 1 \in S
    PROVE  Nat \subseteq S
<1> SUFFICES ASSUME NEW m \in Nat, m \notin S PROVE FALSE
    OBVIOUS
<1> DEFINE T == {n \in Nat : n \notin S}
           R == OpToRel(<, Nat)
<1>1. \A x, y \in Nat : <<y, x>> \in R <=> y < x
    BY DEF OpToRel
<1>2. IsWellFoundedOn(R, Nat)
    BY NatLessThanWellFounded
<1>3. T \in SUBSET Nat /\ T # {}
    OBVIOUS
<1> HIDE DEF R
<1>4. PICK x \in T : \A y \in T : ~ (<<y, x>> \in R)
    <2> HIDE DEF T
    <2> QED BY <1>2, <1>3, WFMin
<1>5. x \in Nat \ {0} /\ x - 1 \in Nat /\ (x - 1) + 1 = x
    OBVIOUS
<1>6. x - 1 \notin T
    <2>1. <<x - 1, x>> \in R
        BY <1>1, <1>5
    <2> QED BY <1>4, <2>1
<1> QED BY <1>5, <1>6

\* Power unfolds, and is a natural number.
LEMMA PowerUnfolds ==
    ASSUME NEW b \in Nat
    PROVE  /\ Power(b, 0) = 1
           /\ \A n \in Nat : Power(b, n) \in Nat /\ Power(b, n + 1) = b * Power(b, n)
<1> DEFINE Is(p, n) == p = [k \in 0..n |-> IF k = 0 THEN 1 ELSE b * p[k - 1]]
           E == {n \in Nat : \E p : Is(p, n)}
<1>1. 0 \in E
    <2>1. Is([k \in 0..0 |-> 1], 0)
        OBVIOUS
    <2> QED BY <2>1
<1>2. ASSUME NEW n \in Nat, n \in E PROVE n + 1 \in E
    <2>1. PICK p : Is(p, n)
        BY <1>2
    <2> DEFINE q == [k \in 0..(n + 1) |-> IF k <= n THEN p[k] ELSE b * p[n]]
    <2>2. ASSUME NEW k \in 0..(n + 1) PROVE q[k] = IF k = 0 THEN 1 ELSE b * q[k - 1]
        <3>1. CASE k = 0
            BY <2>1, <3>1
        <3>2. CASE k \in 1..n
            BY <2>1, <3>2
        <3>3. CASE k = n + 1
            BY <2>1, <3>3
        <3> QED BY <3>1, <3>2, <3>3
    <2>3. Is(q, n + 1)
        BY <2>2
    <2> HIDE DEF q
    <2> QED BY <2>3
<1>3. \A n \in Nat : \E p : Is(p, n)
    <2>1. Nat \subseteq E
        <3> HIDE DEF E
        <3> QED BY <1>1, <1>2, InductionOnNat
    <2> QED BY <2>1
<1> DEFINE P(n) == CHOOSE p : Is(p, n)
<1>4. \A n \in Nat : Is(P(n), n)
    BY <1>3
<1>5. ASSUME NEW n \in Nat PROVE Power(b, n) = P(n)[n]
    BY DEF Power
<1> HIDE DEF P
<1>6. \A n \in Nat : /\ P(n)[0] = 1
                     /\ \A k \in 0..n : k > 0 => P(n)[k] = b * P(n)[k - 1]
    BY <1>4
<1>7. ASSUME NEW n \in Nat PROVE \A k \in 0..n : P(n)[k] = P(n + 1)[k] /\ P(n)[k] \in Nat
    <2> DEFINE A == {k \in Nat : k <= n => P(n)[k] = P(n + 1)[k] /\ P(n)[k] \in Nat}
    <2>1. 0 \in A
        BY <1>6
    <2>2. ASSUME NEW k \in Nat, k \in A PROVE k + 1 \in A
        <3>1. CASE k + 1 <= n
            <4>1. P(n)[k + 1] = b * P(n)[k] /\ P(n + 1)[k + 1] = b * P(n + 1)[k]
                <5>1. k + 1 \in 0..n /\ k + 1 \in 0..(n + 1) /\ (k + 1) - 1 = k /\ k + 1 > 0
                    BY <3>1
                <5> QED BY <1>6, <5>1
            <4>2. P(n)[k] = P(n + 1)[k] /\ P(n)[k] \in Nat
                BY <2>2, <3>1
            <4> QED BY <4>1, <4>2
        <3> QED BY <3>1
    <2>3. Nat \subseteq A
        <3> HIDE DEF A
        <3> QED BY <2>1, <2>2, InductionOnNat
    <2> QED BY <2>3
<1>8. ASSUME NEW n \in Nat PROVE Power(b, n) \in Nat /\ Power(b, n + 1) = b * Power(b, n)
    <2>1. P(n + 1)[n + 1] = b * P(n + 1)[n]
        <3>1. n + 1 \in Nat /\ n + 1 \in 0..(n + 1) /\ (n + 1) - 1 = n /\ n + 1 > 0
            OBVIOUS
        <3> QED BY <1>6, <3>1
    <2>2. P(n)[n] = P(n + 1)[n] /\ P(n)[n] \in Nat
        BY <1>7
    <2> QED BY <1>5, <2>1, <2>2
<1>9. Power(b, 0) = 1
    BY <1>5, <1>6
<1> QED BY <1>8, <1>9

\* Quotient and remainder are unique.
LEMMA DivMod ==
    ASSUME NEW v \in Nat, NEW m \in Nat, m > 0
    PROVE  /\ v \div m \in Nat /\ v % m \in Nat /\ v % m < m
           /\ v = (v \div m) * m + (v % m)
           /\ \A q, r \in Nat : r < m /\ v = q * m + r => v \div m = q /\ v % m = r
<1>1. /\ v \div m \in Nat /\ v % m \in Nat /\ v % m < m
      /\ v = (v \div m) * m + (v % m)
    OBVIOUS
<1>2. ASSUME NEW q \in Nat, NEW r \in Nat, r < m, v = q * m + r PROVE v \div m = q /\ v % m = r
    BY <1>2
<1> QED BY <1>1, <1>2

\* Two divisions are one.
LEMMA DivDiv ==
    ASSUME NEW v \in Nat, NEW m \in Nat, m > 0, NEW b \in Nat, b > 0
    PROVE  (v \div m) \div b = v \div (b * m)
<1>1. PICK q, r \in Nat : r < m /\ v = q * m + r /\ v \div m = q
    BY DivMod
<1>2. PICK p, s \in Nat : s < b /\ q = p * b + s /\ q \div b = p
    BY DivMod
<1>3. v = p * (b * m) + (s * m + r)
    <2>1. q * m = p * (b * m) + s * m
        BY <1>2
    <2> QED BY <1>1, <2>1
<1>4. b * m \in Nat /\ b * m > 0 /\ s * m + r \in Nat
    OBVIOUS
<1>5. s * m + r < b * m
    <2>1. PICK d \in Nat : b = s + 1 + d
        BY <1>2
    <2>2. b * m = s * m + m + d * m
        BY <2>1
    <2>3. d * m \in Nat
        OBVIOUS
    <2> QED BY <1>1, <2>2, <2>3
<1>6. v \div (b * m) = p
    <2>1. PICK n \in Nat : n = b * m /\ n > 0
        BY <1>4
    <2>2. PICK t \in Nat : t = s * m + r /\ t < n
        BY <1>4, <1>5, <2>1
    <2> QED BY <1>3, <2>1, <2>2, DivMod
<1> QED BY <1>1, <1>2, <1>6

\* Powers of a positive number are positive.
LEMMA PowerPositive ==
    ASSUME NEW b \in Nat, b > 0, NEW n \in Nat
    PROVE  Power(b, n) > 0
<1> DEFINE S == {k \in Nat : Power(b, k) > 0}
<1>1. 0 \in S
    BY PowerUnfolds
<1>2. ASSUME NEW k \in Nat, k \in S PROVE k + 1 \in S
    <2>1. Power(b, k) \in Nat /\ Power(b, k + 1) = b * Power(b, k) /\ Power(b, k) > 0
        BY <1>2, PowerUnfolds
    <2>2. PICK m \in Nat : m = Power(b, k) /\ m > 0
        BY <2>1
    <2>3. b * m > 0
        BY <2>2
    <2> QED BY <2>1, <2>2, <2>3
<1>3. Nat \subseteq S
    <2> HIDE DEF S
    <2> QED BY <1>1, <1>2, InductionOnNat
<1> QED BY <1>3

\* A division by the next power is a division more.
LEMMA DivPower ==
    ASSUME NEW b \in Nat, b > 0, NEW v \in Nat, NEW n \in Nat
    PROVE  /\ v \div Power(b, n) \in Nat
           /\ v \div Power(b, n) = (v \div Power(b, n + 1)) * b + ((v \div Power(b, n)) % b)
           /\ v \div Power(b, 0) = v
<1>1. PICK m \in Nat : m = Power(b, n) /\ m > 0 /\ Power(b, n + 1) = b * m
    BY PowerUnfolds, PowerPositive
<1>2. v \div m \in Nat
    BY <1>1, DivMod
<1>3. v \div m = ((v \div m) \div b) * b + ((v \div m) % b)
    BY <1>2, DivMod
<1>4. (v \div m) \div b = v \div (b * m)
    BY <1>1, DivDiv
<1>5. Power(b, 0) = 1 /\ v \div 1 = v
    BY PowerUnfolds
<1> QED BY <1>1, <1>2, <1>3, <1>4, <1>5

\* Below a power nothing is left.
LEMMA DivBelow ==
    ASSUME NEW v \in Nat, NEW m \in Nat, v < m
    PROVE  v \div m = 0 /\ v % m = v
<1>1. m > 0 /\ v = 0 * m + v
    OBVIOUS
<1> QED BY <1>1, DivMod

\* A byte has at least four values, half of them without the highest bit.
LEMMA BaseIs ==
    /\ Base \in Nat /\ Half \in Nat /\ Half >= 2 /\ Base = 2 * Half
    /\ U32 \in Nat /\ U32 > 0
<1>1. PICK n \in Nat : ByteBits = (n + 1) + 1
    <2>1. ByteBits - 2 \in Nat /\ ByteBits = ((ByteBits - 2) + 1) + 1
        BY StreamAssumption
    <2> QED BY <2>1
<1>2. PICK m \in Nat : m = Power(2, n) /\ m > 0
    BY PowerUnfolds, PowerPositive
<1>3. Power(2, n + 1) = 2 * m
    BY <1>2, PowerUnfolds
<1>4. Base = 2 * (2 * m)
    BY <1>1, <1>3, StreamAssumption, PowerUnfolds
<1>5. Half = 2 * m
    BY <1>2, <1>4 DEF Half
<1>6. Base \in Nat /\ Base > 0
    BY <1>2, <1>4
<1>7. U32 \in Nat /\ U32 > 0
    BY <1>6, PowerUnfolds, PowerPositive DEF U32
<1> QED BY <1>2, <1>4, <1>5, <1>6, <1>7

\* What push_be appends.
LEMMA PushBeIs ==
    ASSUME NEW w \in Nat, NEW v \in Nat
    PROVE  /\ PushBe(w, v) \in Seq(Nat) /\ Len(PushBe(w, v)) = w
           /\ \A k \in 1..w : PushBe(w, v)[k] = (v \div Power(Base, w - k)) % Base
<1>1. ASSUME NEW k \in 1..w PROVE (v \div Power(Base, w - k)) % Base \in Nat
    <2>1. w - k \in Nat /\ Base \in Nat /\ Base > 0
        BY BaseIs
    <2>2. v \div Power(Base, w - k) \in Nat
        BY <2>1, DivPower
    <2> QED BY <2>1, <2>2, DivMod
<1>2. PushBe(w, v) \in Seq(Nat)
    BY <1>1, IsASeq DEF PushBe
<1>3. Len(PushBe(w, v)) = w
    BY <1>2, LenProperties DEF PushBe
<1> QED BY <1>2, <1>3 DEF PushBe

\* read_be gives back what push_be has written, of any width that holds it.
LEMMA IntReadBack ==
    ASSUME NEW w \in Nat, NEW v \in Nat, v < Power(Base, w)
    PROVE  FromBytes(PushBe(w, v)) = v
<1>1. Base \in Nat /\ Base > 0
    BY BaseIs
<1> DEFINE b == PushBe(w, v)
           shifted == [k \in 0..w |-> v \div Power(Base, w - k)]
           Is(f) == f = [k \in 0..Len(b) |-> IF k = 0 THEN 0 ELSE f[k - 1] * Base + b[k]]
<1>2. Len(b) = w /\ \A k \in 1..w : b[k] = (v \div Power(Base, w - k)) % Base
    BY PushBeIs
<1>3. shifted[0] = 0
    <2>1. Power(Base, w) \in Nat
        BY <1>1, PowerUnfolds
    <2> QED BY <2>1, DivBelow
<1>4. ASSUME NEW k \in 1..w PROVE shifted[k] = shifted[k - 1] * Base + b[k]
    <2>1. w - k \in Nat /\ (w - k) + 1 = w - (k - 1) /\ k \in 0..w /\ k - 1 \in 0..w
        OBVIOUS
    <2>2. v \div Power(Base, w - k) = (v \div Power(Base, (w - k) + 1)) * Base + ((v \div Power(Base, w - k)) % Base)
        BY <1>1, <2>1, DivPower
    <2> QED BY <1>2, <2>1, <2>2
<1>5. shifted[w] = v
    BY <1>1, DivPower
<1> HIDE DEF b
<1>6. Is(shifted)
    <2>1. shifted = [k \in 0..w |-> shifted[k]]
        OBVIOUS
    <2> HIDE DEF shifted
    <2>2. ASSUME NEW k \in 0..w PROVE shifted[k] = IF k = 0 THEN 0 ELSE shifted[k - 1] * Base + b[k]
        <3>1. CASE k = 0
            BY <1>3, <3>1
        <3>2. CASE k # 0
            BY <1>4, <3>2
        <3> QED BY <3>1, <3>2
    <2> QED BY <1>2, <2>1, <2>2
<1> HIDE DEF shifted
<1>7. PICK f : Is(f) /\ FromBytes(b) = f[w]
    <2>1. Is(CHOOSE f : Is(f))
        BY <1>6
    <2>2. FromBytes(b) = (CHOOSE f : Is(f))[Len(b)]
        BY DEF FromBytes
    <2> QED BY <1>2, <2>1, <2>2
<1>8. f[0] = 0 /\ \A k \in 1..w : f[k] = f[k - 1] * Base + b[k]
    BY <1>2, <1>7
<1> DEFINE S == {k \in Nat : k <= w => f[k] = shifted[k]}
<1>9. 0 \in S
    BY <1>3, <1>8
<1>10. ASSUME NEW k \in Nat, k \in S PROVE k + 1 \in S
    <2>1. CASE k + 1 <= w
        <3>1. k + 1 \in 1..w /\ (k + 1) - 1 = k /\ f[k] = shifted[k]
            BY <1>10, <2>1
        <3> QED BY <1>4, <1>8, <3>1
    <2> QED BY <2>1
<1>11. Nat \subseteq S
    <2> HIDE DEF S
    <2> QED BY <1>9, <1>10, InductionOnNat
<1>12. f[w] = v
    BY <1>5, <1>11
<1> QED BY <1>7, <1>12 DEF b

-----------------------------------------------------------------------------
\* Powers grow.
LEMMA PowerGrows ==
    ASSUME NEW b \in Nat, b > 0, NEW n \in Nat, NEW m \in Nat, n <= m
    PROVE  Power(b, n) <= Power(b, m)
<1> DEFINE S == {d \in Nat : Power(b, n) <= Power(b, n + d)}
<1>1. 0 \in S
    BY PowerUnfolds
<1>2. ASSUME NEW d \in Nat, d \in S PROVE d + 1 \in S
    <2>1. PICK p \in Nat : p = Power(b, n)
        BY PowerUnfolds
    <2>2. PICK q \in Nat : q = Power(b, n + d) /\ p <= q
        <3>1. n + d \in Nat /\ Power(b, n) <= Power(b, n + d)
            BY <1>2
        <3> QED BY <2>1, <3>1, PowerUnfolds
    <2>3. Power(b, (n + d) + 1) = b * q
        BY <2>2, PowerUnfolds
    <2>4. p <= b * q
        <3>1. PICK c \in Nat : b = c + 1
            <4>1. b - 1 \in Nat /\ b = (b - 1) + 1
                OBVIOUS
            <4> QED BY <4>1
        <3>2. b * q = c * q + q /\ c * q \in Nat
            BY <3>1
        <3> QED BY <2>2, <3>2
    <2>5. n + (d + 1) = (n + d) + 1
        OBVIOUS
    <2> QED BY <2>1, <2>3, <2>4, <2>5
<1>3. Nat \subseteq S
    <2> HIDE DEF S
    <2> QED BY <1>1, <1>2, InductionOnNat
<1>4. m - n \in Nat /\ n + (m - n) = m
    OBVIOUS
<1> QED BY <1>3, <1>4

\* A uint32_t has a number of groups, and no more than a reader accepts.
LEMMA GroupsIs ==
    ASSUME NEW v \in Nat, v < U32
    PROVE  /\ Groups(v) \in 1..MaxGroups
           /\ v < Power(Half, Groups(v))
<1>1. Half \in Nat /\ Half > 0 /\ U32 \in Nat
    BY BaseIs
<1>2. MaxGroups \in 1..32 /\ U32 <= Power(Half, MaxGroups) /\ Power(Half, MaxGroups) \in Nat
    <2>1. MaxGroups \in 1..32 /\ U32 <= Power(Half, MaxGroups) /\ MaxGroups \in Nat
        BY StreamAssumption
    <2> QED BY <1>1, <2>1, PowerUnfolds
<1> DEFINE T == {n \in Nat : v < Power(Half, n + 1)}
<1>3. MaxGroups - 1 \in T
    <2>1. MaxGroups - 1 \in Nat /\ (MaxGroups - 1) + 1 = MaxGroups
        BY <1>2
    <2> QED BY <1>1, <1>2, <2>1
<1>4. PICK n \in T : \A k \in T : n <= k
    <2> SUFFICES ASSUME \A n \in T : \E k \in T : k < n PROVE FALSE
        BY DEF T
    <2> DEFINE S == {n \in Nat : \A k \in 0..n : k \notin T}
    <2>0. T \subseteq Nat
        OBVIOUS
    <2> HIDE DEF T
    <2>1. 0 \in S
        BY <2>0
    <2>2. ASSUME NEW n \in Nat, n \in S PROVE n + 1 \in S
        <3>1. n + 1 \notin T
            BY <2>0, <2>2
        <3> QED BY <2>2, <3>1
    <2>3. Nat \subseteq S
        <3> HIDE DEF S
        <3> QED BY <2>1, <2>2, InductionOnNat
    <2>4. PICK m \in Nat : m \in T
        BY <1>3, <2>0
    <2>5. m \in S /\ m \in 0..m
        BY <2>3
    <2> QED BY <2>4, <2>5
<1>5. n + 1 \in 1..MaxGroups /\ v < Power(Half, n + 1)
    BY <1>2, <1>3, <1>4
<1>6. n + 1 > 1 => v >= Power(Half, (n + 1) - 1)
    <2>1. CASE n > 0
        <3>1. n - 1 \in Nat /\ (n - 1) + 1 = n /\ (n + 1) - 1 = n /\ n - 1 \notin T
            BY <1>4, <2>1
        <3>2. Power(Half, n) \in Nat
            BY <1>1, PowerUnfolds
        <3> QED BY <3>1, <3>2
    <2> QED BY <2>1
<1> DEFINE G == CHOOSE g \in 1..32 : v < Power(Half, g) /\ (g > 1 => v >= Power(Half, g - 1))
<1>7. G \in 1..32 /\ v < Power(Half, G) /\ (G > 1 => v >= Power(Half, G - 1))
    <2>1. n + 1 \in 1..32
        BY <1>2, <1>5
    <2>2. \E g \in 1..32 : v < Power(Half, g) /\ (g > 1 => v >= Power(Half, g - 1))
        BY <1>5, <1>6, <2>1
    <2> QED BY <2>2
<1>8. Groups(v) = G
    BY DEF Groups
<1> HIDE DEF G
<1>9. G <= MaxGroups
    <2> SUFFICES ASSUME G > MaxGroups PROVE FALSE
        BY <1>2, <1>7
    <2>1. G - 1 \in Nat /\ MaxGroups <= G - 1 /\ MaxGroups \in Nat /\ G > 1
        BY <1>2, <1>7
    <2>2. Power(Half, MaxGroups) <= Power(Half, G - 1) /\ Power(Half, G - 1) \in Nat
        BY <1>1, <2>1, PowerGrows, PowerUnfolds
    <2> QED BY <1>1, <1>2, <1>7, <2>1, <2>2
<1> QED BY <1>2, <1>7, <1>8, <1>9

\* What var_u32 appends: only the last byte is below Half.
LEMMA VarU32Is ==
    ASSUME NEW v \in Nat, v < U32
    PROVE  /\ VarU32(v) \in Seq(Nat) /\ Len(VarU32(v)) = Groups(v)
           /\ \A k \in 1..Groups(v) :
                  /\ VarU32(v)[k] % Half = (v \div Power(Half, k - 1)) % Half
                  /\ VarU32(v)[k] < Half <=> k = Groups(v)
<1>1. Half \in Nat /\ Half > 0
    BY BaseIs
<1>2. PICK g \in 1..MaxGroups : g = Groups(v)
    BY GroupsIs
<1>3. g \in Nat /\ g >= 1
    BY <1>2, StreamAssumption
<1> DEFINE d(k) == (v \div Power(Half, k - 1)) % Half
           b == [k \in 1..g |-> d(k) + (IF k < g THEN Half ELSE 0)]
<1>4. VarU32(v) = b
    BY <1>2 DEF VarU32
<1>5. ASSUME NEW k \in 1..g PROVE d(k) \in Nat /\ d(k) < Half
    <2>1. k - 1 \in Nat
        BY <1>3
    <2>2. v \div Power(Half, k - 1) \in Nat
        BY <1>1, <2>1, DivPower
    <2> QED BY <1>1, <2>2, DivMod
<1> HIDE DEF d
<1>6. b \in Seq(Nat)
    BY <1>1, <1>3, <1>5, IsASeq
<1>7. Len(b) = g
    BY <1>3, <1>6, LenProperties
<1>8. ASSUME NEW k \in 1..g PROVE b[k] % Half = d(k) /\ (b[k] < Half <=> k = g)
    <2>1. PICK x \in Nat : x = d(k) /\ x < Half
        BY <1>5
    <2>2. CASE k < g
        <3>1. b[k] = x + Half
            BY <2>1, <2>2
        <3>2. x + Half = 1 * Half + x /\ x + Half \in Nat
            BY <1>1
        <3>3. (x + Half) % Half = x
            BY <1>1, <2>1, <3>2, DivMod
        <3> QED BY <1>1, <1>3, <2>1, <2>2, <3>1, <3>3
    <2>3. CASE k = g
        <3>1. b[k] = x + 0
            BY <1>3, <2>1, <2>3
        <3> QED BY <1>1, <2>1, <2>3, <3>1, DivBelow
    <2> QED BY <1>3, <2>2, <2>3
<1> HIDE DEF b
<1> QED BY <1>2, <1>4, <1>6, <1>7, <1>8 DEF d

\* var_u32 gives back what var_u32 has written.
LEMMA GroupsReadBack ==
    ASSUME NEW v \in Nat, v < U32
    PROVE  FromGroups(VarU32(v)) = v
<1>1. Half \in Nat /\ Half > 0
    BY BaseIs
<1>2. PICK g \in 1..MaxGroups : g = Groups(v) /\ v < Power(Half, g)
    BY GroupsIs
<1>3. g \in Nat /\ g >= 1
    BY <1>2, StreamAssumption
<1> DEFINE b == VarU32(v)
           shifted == [k \in 1..(g + 1) |-> v \div Power(Half, k - 1)]
           Is(f) == f = [k \in 1..(Len(b) + 1) |-> IF k > Len(b) THEN 0 ELSE f[k + 1] * Half + (b[k] % Half)]
<1>4. Len(b) = g /\ \A k \in 1..g : b[k] % Half = (v \div Power(Half, k - 1)) % Half
    BY <1>2, VarU32Is
<1>5. shifted[g + 1] = 0
    <2>1. Power(Half, g) \in Nat /\ (g + 1) - 1 = g /\ g + 1 \in 1..(g + 1)
        <3>1. Power(Half, g) \in Nat
            BY <1>1, <1>3, PowerUnfolds
        <3> QED BY <1>3, <3>1
    <2>2. shifted[g + 1] = v \div Power(Half, g)
        BY <2>1
    <2> QED BY <1>2, <2>1, <2>2, DivBelow
<1>6. ASSUME NEW k \in 1..g PROVE shifted[k] = shifted[k + 1] * Half + (b[k] % Half)
    <2>1. k - 1 \in Nat /\ (k - 1) + 1 = (k + 1) - 1 /\ k \in 1..(g + 1) /\ k + 1 \in 1..(g + 1)
        BY <1>3
    <2>2. v \div Power(Half, k - 1) = (v \div Power(Half, (k - 1) + 1)) * Half + ((v \div Power(Half, k - 1)) % Half)
        BY <1>1, <2>1, DivPower
    <2> QED BY <1>4, <2>1, <2>2
<1>7. shifted[1] = v
    <2>1. 1 \in 1..(g + 1) /\ 1 - 1 = 0
        BY <1>3
    <2>2. shifted[1] = v \div Power(Half, 0)
        BY <2>1
    <2> QED BY <1>1, <2>2, DivPower
<1> HIDE DEF b
<1>8. Is(shifted)
    <2>1. shifted = [k \in 1..(g + 1) |-> shifted[k]]
        OBVIOUS
    <2> HIDE DEF shifted
    <2>2. ASSUME NEW k \in 1..(g + 1)
          PROVE  shifted[k] = IF k > g THEN 0 ELSE shifted[k + 1] * Half + (b[k] % Half)
        <3>1. CASE k > g
            <4>1. k = g + 1
                BY <1>3, <3>1
            <4> QED BY <1>5, <3>1, <4>1
        <3>2. CASE ~(k > g)
            <4>1. k \in 1..g
                BY <1>3, <3>2
            <4> QED BY <1>6, <3>2, <4>1
        <3> QED BY <3>1, <3>2
    <2> QED BY <1>4, <2>1, <2>2
<1> HIDE DEF shifted
<1>9. PICK f : Is(f) /\ FromGroups(b) = f[1]
    <2>1. Is(CHOOSE f : Is(f))
        BY <1>8
    <2> QED BY <2>1 DEF FromGroups
<1>10. f[g + 1] = 0 /\ \A k \in 1..g : f[k] = f[k + 1] * Half + (b[k] % Half)
    <2>1. g + 1 \in 1..(g + 1) /\ g + 1 > g
        BY <1>3
    <2>2. \A k \in 1..g : k \in 1..(g + 1) /\ ~(k > g)
        BY <1>3
    <2> QED BY <1>4, <1>9, <2>1, <2>2
<1> DEFINE S == {d \in Nat : d <= g => f[(g + 1) - d] = shifted[(g + 1) - d]}
<1>11. 0 \in S
    BY <1>3, <1>5, <1>10
<1>12. ASSUME NEW d \in Nat, d \in S PROVE d + 1 \in S
    <2>1. CASE d + 1 <= g
        <3>1. PICK k \in 1..g : k = (g + 1) - (d + 1) /\ k + 1 = (g + 1) - d
            BY <1>3, <2>1
        <3>2. f[k + 1] = shifted[k + 1]
            BY <1>12, <2>1, <3>1
        <3> QED BY <1>6, <1>10, <3>1, <3>2
    <2> QED BY <2>1
<1>13. Nat \subseteq S
    <2> HIDE DEF S
    <2> QED BY <1>11, <1>12, InductionOnNat
<1>14. f[1] = v
    <2>1. g \in S /\ (g + 1) - g = 1
        BY <1>3, <1>13
    <2> QED BY <1>7, <2>1
<1> QED BY <1>9, <1>14 DEF b

-----------------------------------------------------------------------------
\* A reader.
IsReader(r) ==
    /\ r = [source |-> r.source, i |-> r.i, ok |-> r.ok, v |-> r.v,
            bitBuffer |-> r.bitBuffer, bitPos |-> r.bitPos]
    /\ r.source \in Seq(Nat) /\ r.i \in Nat \ {0} /\ r.ok \in {"yes", "no"}
    /\ r.ok = "yes" => r.i <= Len(r.source) + 1

\* The bytes from i on are those of w, as far as there are any.
Continues(source, i, w) ==
    \A k \in 1..Len(w) : (i + k) - 1 <= Len(source) => source[(i + k) - 1] = w[k]
Ready(r, w) == IsReader(r) /\ w \in Seq(Nat) /\ (r.ok = "yes" => Continues(r.source, r.i, w))

\* Reader x is r after it has read w, or has thrown because w is not all there.
Moved(r, x, w) ==
    /\ IsReader(x) /\ x.source = r.source
    /\ x.ok = "yes" <=> r.ok = "yes" /\ (r.i + Len(w)) - 1 <= Len(r.source)
    /\ x.ok = "yes" => x.i = r.i + Len(w)

\* A reader that is ready for two sequences is ready for the first ...
LEMMA ReadyFirst ==
    ASSUME NEW r, NEW a \in Seq(Nat), NEW b \in Seq(Nat), Ready(r, a \o b)
    PROVE  Ready(r, a)
<1>1. /\ Len(a) \in Nat /\ Len(b) \in Nat /\ Len(a \o b) = Len(a) + Len(b)
      /\ \A k \in 1..Len(a) : (a \o b)[k] = a[k]
    BY ConcatProperties, LenProperties
<1>2. \A k \in 1..Len(a) : k \in 1..Len(a \o b)
    BY <1>1
<1> QED BY <1>1, <1>2 DEF Ready, Continues

\* ... and, when it has read that, for the second.
LEMMA ReadyNext ==
    ASSUME NEW r, NEW a \in Seq(Nat), NEW b \in Seq(Nat), Ready(r, a \o b),
           NEW x, Moved(r, x, a)
    PROVE  Ready(x, b)
<1>1. /\ Len(a) \in Nat /\ Len(b) \in Nat /\ Len(a \o b) = Len(a) + Len(b)
      /\ \A k \in 1..(Len(a) + Len(b)) : (a \o b)[k] = IF k <= Len(a) THEN a[k] ELSE b[k - Len(a)]
    BY ConcatProperties, LenProperties
<1>2. IsReader(x) /\ x.source = r.source
    BY DEF Moved
<1>3. ASSUME x.ok = "yes", NEW k \in 1..Len(b), (x.i + k) - 1 <= Len(x.source)
      PROVE  x.source[(x.i + k) - 1] = b[k]
    <2>1. r.ok = "yes" /\ x.i = r.i + Len(a) /\ r.i \in Nat
        BY <1>3 DEF Moved, Ready, IsReader
    <2>2. PICK j \in 1..(Len(a) + Len(b)) : j = Len(a) + k
        BY <1>1
    <2>3. ~(j <= Len(a)) /\ j - Len(a) = k /\ (r.i + j) - 1 = (x.i + k) - 1
        BY SMTT(30), <1>1, <2>1, <2>2
    <2>4. (a \o b)[j] = b[k]
        BY <1>1, <2>3
    <2>5. r.source[(r.i + j) - 1] = (a \o b)[j]
        BY <1>1, <1>2, <1>3, <2>1, <2>3 DEF Ready, Continues
    <2> QED BY <1>2, <2>3, <2>4, <2>5
<1> QED BY <1>2, <1>3 DEF Ready, Continues

\* Reading one sequence and then another is reading both.
LEMMA MovedBoth ==
    ASSUME NEW r, NEW a \in Seq(Nat), NEW b \in Seq(Nat), IsReader(r),
           NEW x, Moved(r, x, a), NEW y, Moved(x, y, b)
    PROVE  Moved(r, y, a \o b)
<1>1. /\ Len(a) \in Nat /\ Len(b) \in Nat /\ Len(a \o b) = Len(a) + Len(b)
    BY ConcatProperties, LenProperties
<1>2. r.i \in Nat /\ Len(r.source) \in Nat
    BY LenProperties DEF IsReader
<1>3. IsReader(y) /\ y.source = r.source
    BY DEF Moved
<1>4. y.ok = "yes" <=> x.ok = "yes" /\ (x.i + Len(b)) - 1 <= Len(r.source)
    BY DEF Moved
<1>5. x.ok = "yes" <=> r.ok = "yes" /\ (r.i + Len(a)) - 1 <= Len(r.source)
    BY DEF Moved
<1>6. x.ok = "yes" => x.i = r.i + Len(a)
    BY DEF Moved
<1>7. y.ok = "yes" => y.i = x.i + Len(b)
    BY DEF Moved
<1>8. y.ok = "yes" <=> r.ok = "yes" /\ (r.i + (Len(a) + Len(b))) - 1 <= Len(r.source)
    BY <1>1, <1>2, <1>4, <1>5, <1>6
<1>9. y.ok = "yes" => y.i = r.i + (Len(a) + Len(b))
    BY <1>1, <1>2, <1>4, <1>6, <1>7
<1> QED BY <1>1, <1>3, <1>8, <1>9 DEF Moved

\* A reader that throws has moved over anything that is not all there.
LEMMA ThrowIs ==
    ASSUME NEW r, IsReader(r)
    PROVE  IsReader(Throw(r)) /\ Throw(r).source = r.source /\ Throw(r).ok = "no"
BY DEF IsReader, Throw

\* A piece of a sequence.
LEMMA PieceIs ==
    ASSUME NEW src \in Seq(Nat), NEW i \in Nat \ {0}, NEW n \in Nat, (i + n) - 1 <= Len(src)
    PROVE  LET piece == SubSeq(src, i, i + n - 1) IN
           /\ piece \in Seq(Nat) /\ Len(piece) = n
           /\ \A k \in 1..n : piece[k] = src[(i + k) - 1]
<1>1. Len(src) \in Nat
    BY LenProperties
<1>2. PICK m \in Int : m = i + n - 1
    OBVIOUS
<1>3. CASE n = 0
    <2>1. SubSeq(src, i, m) = <<>>
        BY <1>2, <1>3
    <2> QED BY <1>2, <1>3, <2>1
<1>4. CASE n # 0
    <2>1. i \in 1..Len(src) /\ m \in i..Len(src)
        BY <1>1, <1>2, <1>4
    <2>2. SubSeq(src, i, m) \in Seq(Nat) /\ Len(SubSeq(src, i, m)) = m - i + 1
        BY <1>1, <2>1, SubSeqProperties
    <2>3. ASSUME NEW k \in 1..n PROVE SubSeq(src, i, m)[k] = src[(i + k) - 1]
        <3>1. k \in 1..(m - i + 1)
            BY <1>1, <1>2, <2>1
        <3> QED BY <1>1, <2>1, <3>1, SubSeqProperties
    <2> QED BY <1>1, <1>2, <2>1, <2>2, <2>3
<1> QED BY <1>3, <1>4

\* read and its checks.
LEMMA RawRead ==
    ASSUME NEW r, NEW w, Ready(r, w)
    PROVE  /\ Moved(r, ReadRaw(r, Len(w)), w)
           /\ ReadRaw(r, Len(w)).ok = "yes" => ReadRaw(r, Len(w)).v = w
<1>1. IsReader(r) /\ w \in Seq(Nat)
    BY DEF Ready
<1>2. r.source \in Seq(Nat) /\ Len(r.source) \in Nat /\ r.i \in Nat \ {0} /\ Len(w) \in Nat
    BY <1>1, LenProperties DEF IsReader
<1>3. Remaining(r) < Len(w) <=> ~((r.i + Len(w)) - 1 <= Len(r.source))
    BY <1>2 DEF Remaining
<1>4. CASE r.ok = "no" \/ Remaining(r) < Len(w)
    <2>1. ReadRaw(r, Len(w)) = Throw(r)
        BY <1>4 DEF ReadRaw
    <2> QED BY <1>1, <1>3, <1>4, <2>1, ThrowIs DEF Moved
<1>5. CASE ~(r.ok = "no" \/ Remaining(r) < Len(w))
    <2> DEFINE seq == SubSeq(r.source, r.i, r.i + Len(w) - 1)
    <2>1. ReadRaw(r, Len(w)) = [r EXCEPT !.i = @ + Len(w), !.v = seq]
        BY <1>5 DEF ReadRaw
    <2>2. r.ok = "yes" /\ (r.i + Len(w)) - 1 <= Len(r.source)
        BY <1>1, <1>3, <1>5 DEF IsReader
    <2>3. seq = w
        <3>1. /\ seq \in Seq(Nat) /\ Len(seq) = Len(w)
              /\ \A k \in 1..Len(w) : seq[k] = r.source[(r.i + k) - 1]
            BY <1>2, <2>2, PieceIs
        <3>2. \A k \in 1..Len(w) : (r.i + k) - 1 <= Len(r.source)
            BY <1>2, <2>2
        <3>3. \A k \in 1..Len(w) : r.source[(r.i + k) - 1] = w[k]
            BY <2>2, <3>2 DEF Ready, Continues
        <3> QED BY <1>1, <3>1, <3>3, SeqEqual
    <2>4. PICK j \in Nat \ {0} : j = r.i + Len(w) /\ j <= Len(r.source) + 1
        BY <1>2, <2>2
    <2>5. ReadRaw(r, Len(w)) = [source |-> r.source, i |-> j, ok |-> r.ok, v |-> w,
                                bitBuffer |-> r.bitBuffer, bitPos |-> r.bitPos]
        BY <1>1, <2>1, <2>3, <2>4 DEF IsReader
    <2>6. IsReader(ReadRaw(r, Len(w)))
        BY <1>2, <2>2, <2>4, <2>5 DEF IsReader
    <2> QED BY <2>2, <2>4, <2>5, <2>6 DEF Moved
<1> QED BY <1>4, <1>5

\* The value that a reader has read does not matter to where it is.
LEMMA WithValue ==
    ASSUME NEW r, NEW w, NEW x, Moved(r, x, w), NEW u
    PROVE  /\ Moved(r, [x EXCEPT !.v = u], w)
           /\ [x EXCEPT !.v = u].v = u /\ [x EXCEPT !.v = u].ok = x.ok
<1> DEFINE y == [x EXCEPT !.v = u]
<1>1. IsReader(x)
    BY DEF Moved
<1>2. y = [source |-> x.source, i |-> x.i, ok |-> x.ok, v |-> u,
           bitBuffer |-> x.bitBuffer, bitPos |-> x.bitPos]
    BY <1>1 DEF IsReader
<1> HIDE DEF y
<1>3. y.source = x.source /\ y.i = x.i /\ y.ok = x.ok /\ y.v = u
    BY <1>2
<1>4. IsReader(y)
    BY <1>1, <1>2 DEF IsReader
<1>5. Moved(r, y, w)
    BY <1>3, <1>4 DEF Moved
<1> QED BY <1>3, <1>5 DEF y

\* Integers of any width.
LEMMA IntRead ==
    ASSUME NEW w \in Nat, NEW v \in Nat, v < Power(Base, w), NEW r, Ready(r, PushBe(w, v))
    PROVE  /\ Moved(r, ReadInt(r, w), PushBe(w, v))
           /\ ReadInt(r, w).ok = "yes" => ReadInt(r, w).v = v
<1> DEFINE raw == ReadRaw(r, w)
<1>1. Len(PushBe(w, v)) = w
    BY PushBeIs
<1>2. Moved(r, raw, PushBe(w, v)) /\ (raw.ok = "yes" => raw.v = PushBe(w, v))
    BY <1>1, RawRead
<1>3. ReadInt(r, w) = IF raw.ok = "no" THEN raw ELSE [raw EXCEPT !.v = FromBytes(raw.v)]
    BY DEF ReadInt
<1> HIDE DEF raw
<1>4. raw.ok \in {"yes", "no"}
    BY <1>2 DEF Moved, IsReader
<1>5. CASE raw.ok = "no"
    BY <1>2, <1>3, <1>5
<1>6. CASE raw.ok = "yes"
    <2>1. FromBytes(raw.v) = v
        BY <1>2, <1>6, IntReadBack
    <2>2. ReadInt(r, w) = [raw EXCEPT !.v = v]
        BY <1>3, <1>6, <2>1
    <2> QED BY <1>2, <2>2, WithValue
<1> QED BY <1>4, <1>5, <1>6

\* A varint is read up to its end, and an unfinished one throws.
LEMMA VarRead ==
    ASSUME NEW v \in Nat, v < U32, NEW r, Ready(r, VarU32(v))
    PROVE  /\ Moved(r, ReadVarU32(r), VarU32(v))
           /\ ReadVarU32(r).ok = "yes" => ReadVarU32(r).v = v
<1>1. PICK b \in Seq(Nat) : b = VarU32(v)
    BY VarU32Is
<1>2. PICK g \in 1..MaxGroups : g = Len(b) /\ \A k \in 1..g : b[k] < Half <=> k = g
    <2>1. Groups(v) \in 1..MaxGroups
        BY GroupsIs
    <2> QED BY <1>1, <2>1, VarU32Is
<1>3. IsReader(r) /\ Half \in Nat /\ g \in Nat /\ g >= 1 /\ MaxGroups \in Nat
    BY <1>2, BaseIs, StreamAssumption DEF Ready
<1>4. r.source \in Seq(Nat) /\ Len(r.source) \in Nat /\ r.i \in Nat \ {0} /\ r.ok \in {"yes", "no"}
    BY <1>3, LenProperties DEF IsReader
<1> DEFINE rem == Len(r.source) - r.i + 1
           last == {n \in 1..rem : r.source[r.i + n - 1] < Half}
           end == CHOOSE n \in last : \A x \in last : n <= x
           raw == ReadRaw(r, end)
<1>5. ReadVarU32(r) = IF r.ok = "no" \/ last = {} THEN Throw(r)
                      ELSE IF end > MaxGroups THEN Throw(r)
                      ELSE [raw EXCEPT !.v = FromGroups(raw.v) % U32]
    BY DEF ReadVarU32, Remaining
<1>6. CASE r.ok = "no"
    <2>1. ReadVarU32(r) = Throw(r)
        BY <1>5, <1>6
    <2> QED BY <1>1, <1>3, <1>6, <2>1, ThrowIs DEF Moved
<1>7. CASE r.ok = "yes"
    <2>1. rem \in Int /\ (rem >= g <=> (r.i + g) - 1 <= Len(r.source))
        BY <1>3, <1>4
    <2>2. ASSUME NEW n \in 1..g, n <= rem PROVE r.source[r.i + n - 1] = b[n]
        <3>1. (r.i + n) - 1 <= Len(r.source)
            BY <1>3, <1>4, <2>2
        <3>2. Continues(r.source, r.i, b)
            BY <1>1, <1>7 DEF Ready
        <3>3. n \in 1..Len(b)
            BY <1>2
        <3>4. r.source[(r.i + n) - 1] = b[n]
            BY <3>1, <3>2, <3>3 DEF Continues
        <3>5. r.i + n - 1 = (r.i + n) - 1
            BY <1>3, <1>4
        <3> QED BY <3>4, <3>5
    <2>3. ASSUME NEW n \in 1..g, n <= rem PROVE n \in last <=> n = g
        <3>1. n \in 1..rem
            BY <1>3, <2>1, <2>3
        <3>2. n \in last <=> r.source[r.i + n - 1] < Half
            BY <3>1
        <3> QED BY <1>2, <2>2, <2>3, <3>2
    <2>4. CASE rem < g
        <3>1. last = {}
            BY <1>3, <2>1, <2>3, <2>4
        <3>2. ReadVarU32(r) = Throw(r)
            BY <1>5, <3>1
        <3> QED BY <1>1, <1>2, <1>3, <2>1, <2>4, <3>2, ThrowIs DEF Moved
    <2>5. CASE rem >= g
        <3>1. g \in last
            BY <1>3, <2>1, <2>3, <2>5
        <3>2. ASSUME NEW x \in last PROVE g <= x
            <4>1. x \in 1..rem
                OBVIOUS
            <4> QED BY <1>3, <2>1, <2>3, <4>1
        <3>3. last \subseteq Int
            BY <2>1
        <3> HIDE DEF last
        <3>4. end = g
            <4>1. end \in last /\ \A x \in last : end <= x
                BY <3>1, <3>2
            <4>2. end <= g /\ g <= end /\ end \in Int
                BY <3>1, <3>2, <3>3, <4>1
            <4> QED BY <1>3, <4>2
        <3>5. ~(end > MaxGroups)
            <4> HIDE DEF end
            <4> QED BY <1>2, <1>3, <3>4
        <3>6. ReadVarU32(r) = [raw EXCEPT !.v = FromGroups(raw.v) % U32]
            BY <1>5, <1>7, <3>1, <3>5
        <3> HIDE DEF end
        <3>7. Moved(r, raw, b) /\ raw.v = b /\ raw.ok = "yes"
            <4>1. Moved(r, ReadRaw(r, Len(b)), b) /\ (ReadRaw(r, Len(b)).ok = "yes" => ReadRaw(r, Len(b)).v = b)
                BY <1>1, RawRead
            <4> QED BY <1>2, <1>7, <2>1, <2>5, <3>4, <4>1 DEF Moved
        <3> HIDE DEF raw
        <3>8. FromGroups(raw.v) % U32 = v
            BY <1>1, <3>7, GroupsReadBack, DivBelow, BaseIs
        <3>9. ReadVarU32(r) = [raw EXCEPT !.v = v]
            BY <3>6, <3>8
        <3>10. Moved(r, [raw EXCEPT !.v = v], b) /\ [raw EXCEPT !.v = v].v = v
            BY <3>7, WithValue
        <3> QED BY <1>1, <3>9, <3>10
    <2> QED BY <1>3, <2>1, <2>4, <2>5
<1> QED BY <1>4, <1>6, <1>7

\* A length and as many bytes.
LEMMA BlobRead ==
    ASSUME NEW b \in Seq(Nat), Len(b) < U32, NEW r, Ready(r, Blob(b))
    PROVE  /\ Moved(r, ReadBlob(r), Blob(b))
           /\ ReadBlob(r).ok = "yes" => ReadBlob(r).v = b
<1>1. Len(b) \in Nat
    BY LenProperties
<1>2. PICK l \in Seq(Nat) : l = VarU32(Len(b))
    BY <1>1, VarU32Is
<1>3. Blob(b) = l \o b
    BY <1>2 DEF Blob
<1> DEFINE x == ReadVarU32(r)
<1>4. Moved(r, x, l) /\ (x.ok = "yes" => x.v = Len(b))
    <2>1. Ready(r, l)
        BY <1>3, ReadyFirst
    <2> QED BY <1>1, <1>2, <2>1, VarRead
<1>5. ReadBlob(r) = IF x.ok = "no" THEN x ELSE ReadRaw(x, x.v)
    BY DEF ReadBlob
<1> HIDE DEF x
<1>6. Ready(x, b)
    BY <1>3, <1>4, ReadyNext
<1>7. x.ok \in {"yes", "no"} /\ IsReader(r) /\ IsReader(x)
    BY <1>4 DEF Moved, Ready, IsReader
<1>8. Moved(x, ReadBlob(r), b) /\ (ReadBlob(r).ok = "yes" => ReadBlob(r).v = b)
    <2>1. CASE x.ok = "no"
        BY <1>5, <1>7, <2>1 DEF Moved
    <2>2. CASE x.ok = "yes"
        <3>1. ReadBlob(r) = ReadRaw(x, Len(b))
            BY <1>4, <1>5, <2>2
        <3> QED BY <1>6, <3>1, RawRead
    <2> QED BY <1>7, <2>1, <2>2
<1> QED BY <1>3, <1>4, <1>7, <1>8, MovedBoth

-----------------------------------------------------------------------------
\* Reader x is r after it has read w, which stands for v.
Reads(r, x, w, v) == Moved(r, x, w) /\ (x.ok = "yes" => x.v = v)

\* What a flattened sequence of sequences is made of.
LEMMA Flattened ==
    ASSUME NEW ws \in Seq(Seq(Nat))
    PROVE  \E cum : /\ cum \in [0..Len(ws) -> Seq(Nat)]
                    /\ cum[0] = <<>> /\ cum[Len(ws)] = FlattenSeq(ws)
                    /\ \A k \in 1..Len(ws) : cum[k] = cum[k - 1] \o ws[k]
<1>1. PICK n \in Nat : n = Len(ws)
    BY LenProperties
<1>2. \A k \in 1..n : ws[k] \in Seq(Nat)
    BY <1>1, ElementOfSeq
<1> DEFINE Cum(c, m) == /\ c \in [0..m -> Seq(Nat)] /\ c[0] = <<>>
                        /\ \A k \in 1..m : c[k] = c[k - 1] \o ws[k]
           E == {m \in Nat : m <= n => \E c : Cum(c, m)}
<1> HIDE DEF Cum
<1>3. 0 \in E
    <2>1. Cum([k \in 0..0 |-> <<>>], 0)
        BY DEF Cum
    <2> QED BY <2>1
<1>4. ASSUME NEW m \in Nat, m \in E PROVE m + 1 \in E
    <2> SUFFICES ASSUME m + 1 <= n PROVE \E c : Cum(c, m + 1)
        OBVIOUS
    <2>1. PICK c : Cum(c, m)
        BY <1>4
    <2>2. m + 1 \in 1..n /\ ws[m + 1] \in Seq(Nat) /\ c[m] \in Seq(Nat)
        BY <1>2, <2>1 DEF Cum
    <2>3. PICK top \in Seq(Nat) : top = c[m] \o ws[m + 1]
        BY <2>2, ConcatProperties
    <2> DEFINE d == [k \in 0..(m + 1) |-> IF k <= m THEN c[k] ELSE top]
    <2>4. d \in [0..(m + 1) -> Seq(Nat)] /\ d[0] = <<>>
        BY <2>1, <2>3 DEF Cum
    <2>5. ASSUME NEW k \in 1..(m + 1) PROVE d[k] = d[k - 1] \o ws[k]
        <3>1. CASE k <= m
            <4>1. d[k] = c[k] /\ d[k - 1] = c[k - 1]
                BY <3>1
            <4>2. c[k] = c[k - 1] \o ws[k]
                <5>1. k \in 1..m
                    BY <3>1
                <5> QED BY <2>1, <5>1 DEF Cum
            <4> HIDE DEF d
            <4> QED BY <4>1, <4>2
        <3>2. CASE k = m + 1
            <4>1. d[k] = top /\ d[k - 1] = c[m]
                BY <3>2
            <4> HIDE DEF d
            <4> QED BY <2>3, <3>2, <4>1
        <3>3. k <= m \/ k = m + 1
            OBVIOUS
        <3> HIDE DEF d
        <3> QED BY <3>1, <3>2, <3>3
    <2> HIDE DEF d
    <2>6. Cum(d, m + 1)
        BY <2>4, <2>5 DEF Cum
    <2> QED BY <2>6
<1>5. PICK c : Cum(c, n)
    <2>1. Nat \subseteq E
        <3> HIDE DEF E
        <3> QED BY <1>3, <1>4, InductionOnNat
    <2> QED BY <2>1
<1>6. c[n] = FlattenSeq(ws)
    <2>1. CASE n = 0
        <3>1. ws = <<>>
            BY <1>1, <2>1, EmptySeq
        <3>2. FlattenSeq(ws) = ws
            BY <1>1, <2>1 DEF FlattenSeq
        <3> QED BY <1>5, <2>1, <3>1, <3>2 DEF Cum
    <2>2. CASE n # 0
        <3> DEFINE Is(f) == f = [i \in 1..Len(ws) |-> IF i = 1 THEN ws[i] ELSE f[i - 1] \o ws[i]]
                   e == [i \in 1..Len(ws) |-> c[i]]
        <3>1. ASSUME NEW i \in 1..n PROVE e[i] = IF i = 1 THEN ws[i] ELSE e[i - 1] \o ws[i]
            <4>1. c[i] = c[i - 1] \o ws[i] /\ e[i] = c[i]
                BY <1>1, <1>5 DEF Cum
            <4>2. CASE i = 1
                <5>1. ws[i] \in Seq(Nat) /\ i - 1 = 0
                    BY <1>2, <4>2
                <5>2. c[0] = <<>>
                    BY <1>5 DEF Cum
                <5> QED BY <4>1, <4>2, <5>1, <5>2, ConcatEmptySeq
            <4>3. CASE i # 1
                <5>1. i - 1 \in 1..n /\ e[i - 1] = c[i - 1]
                    BY <1>1, <4>3
                <5> QED BY <4>1, <4>3, <5>1
            <4> QED BY <4>2, <4>3
        <3>2. Is(e)
            BY <1>1, <3>1
        <3>3. PICK f : Is(f) /\ FlattenSeq(ws) = f[n]
            <4>1. Is(CHOOSE f : Is(f))
                <5> HIDE DEF e
                <5> QED BY <3>2
            <4>2. FlattenSeq(ws) = (CHOOSE f : Is(f))[n]
                BY <1>1, <2>2 DEF FlattenSeq
            <4> QED BY <4>1, <4>2
        <3> HIDE DEF e
        <3> DEFINE A == {k \in Nat : k \in 1..n => f[k] = e[k]}
        <3>4. 0 \in A
            OBVIOUS
        <3>5. ASSUME NEW k \in Nat, k \in A PROVE k + 1 \in A
            <4> SUFFICES ASSUME k + 1 \in 1..n PROVE f[k + 1] = e[k + 1]
                OBVIOUS
            <4>1. /\ f[k + 1] = IF k + 1 = 1 THEN ws[k + 1] ELSE f[(k + 1) - 1] \o ws[k + 1]
                  /\ e[k + 1] = IF k + 1 = 1 THEN ws[k + 1] ELSE e[(k + 1) - 1] \o ws[k + 1]
                BY <1>1, <3>1, <3>3
            <4>2. CASE k = 0
                BY <4>1, <4>2
            <4>3. CASE k # 0
                <5>1. (k + 1) - 1 = k /\ f[k] = e[k] /\ k + 1 # 1
                    BY <3>5, <4>3
                <5> QED BY <4>1, <5>1
            <4> QED BY <4>2, <4>3
        <3>6. n \in A
            <4>1. Nat \subseteq A
                <5> HIDE DEF A
                <5> QED BY <3>4, <3>5, InductionOnNat
            <4> QED BY <4>1
        <3>7. f[n] = e[n] /\ e[n] = c[n]
            BY <1>1, <2>2, <3>6 DEF e
        <3> QED BY <3>3, <3>7
    <2> QED BY <2>1, <2>2
<1> QED BY <1>1, <1>5, <1>6 DEF Cum

\* What is flattened is a sequence of bytes.
LEMMA FlatIsBytes ==
    ASSUME NEW ws \in Seq(Seq(Nat))
    PROVE  FlattenSeq(ws) \in Seq(Nat)
<1>1. PICK cum : cum \in [0..Len(ws) -> Seq(Nat)] /\ cum[Len(ws)] = FlattenSeq(ws)
    BY Flattened
<1>2. Len(ws) \in 0..Len(ws)
    BY LenProperties
<1> QED BY <1>1, <1>2

\* One read after the other, each of its part.
IsChain(n, ws, vs, r, s) ==
    /\ n \in Nat /\ ws \in Seq(Seq(Nat)) /\ Len(ws) = n
    /\ vs = [k \in 1..n |-> vs[k]]
    /\ s[0] = Start(r)
    /\ \A k \in 1..n : Ready(s[k - 1].r, ws[k]) =>
            /\ Moved(s[k - 1].r, s[k].r, ws[k])
            /\ s[k].r.ok = "yes" => s[k].values = Append(s[k - 1].values, vs[k])

\* Together they read the whole.
LEMMA Chain ==
    ASSUME NEW n, NEW ws, NEW vs, NEW r, NEW s, IsChain(n, ws, vs, r, s), Ready(r, FlattenSeq(ws))
    PROVE  /\ Moved(r, s[n].r, FlattenSeq(ws))
           /\ s[n].r.ok = "yes" => s[n].values = vs
<1>0. /\ n \in Nat /\ ws \in Seq(Seq(Nat)) /\ Len(ws) = n
      /\ vs = [k \in 1..n |-> vs[k]]
      /\ s[0] = Start(r)
      /\ \A k \in 1..n : Ready(s[k - 1].r, ws[k]) =>
            /\ Moved(s[k - 1].r, s[k].r, ws[k])
            /\ s[k].r.ok = "yes" => s[k].values = Append(s[k - 1].values, vs[k])
    BY DEF IsChain
<1> USE <1>0
<1>1. PICK cum \in [0..n -> Seq(Nat)] :
            /\ cum[0] = <<>> /\ cum[n] = FlattenSeq(ws)
            /\ \A k \in 1..n : cum[k] = cum[k - 1] \o ws[k]
    BY Flattened
<1>2. \A k \in 1..n : ws[k] \in Seq(Nat)
    BY ElementOfSeq
<1> DEFINE D == {d \in Nat : d <= n => Ready(r, cum[n - d])}
<1>3. 0 \in D
    BY <1>1
<1>4. ASSUME NEW d \in Nat, d \in D PROVE d + 1 \in D
    <2> SUFFICES ASSUME d + 1 <= n PROVE Ready(r, cum[n - (d + 1)])
        OBVIOUS
    <2>1. PICK k \in 1..n : k = n - d /\ k - 1 = n - (d + 1)
        OBVIOUS
    <2>2. Ready(r, cum[k - 1] \o ws[k])
        <3>1. Ready(r, cum[n - d])
            BY <1>4
        <3>2. cum[k] = cum[k - 1] \o ws[k]
            BY <1>1
        <3> QED BY <2>1, <3>1, <3>2
    <2>3. cum[k - 1] \in Seq(Nat)
        BY <1>1
    <2> QED BY <1>2, <2>1, <2>2, <2>3, ReadyFirst
<1>5. ASSUME NEW k \in 0..n PROVE Ready(r, cum[k])
    <2>1. Nat \subseteq D
        <3> HIDE DEF D
        <3> QED BY <1>3, <1>4, InductionOnNat
    <2>2. PICK d \in Nat : d <= n /\ n - d = k
        <3>1. n - k \in Nat /\ n - k <= n /\ n - (n - k) = k
            OBVIOUS
        <3> QED BY <3>1
    <2> QED BY <2>1, <2>2
<1>6. IsReader(r)
    BY DEF Ready
<1> DEFINE A == {k \in Nat : k <= n => /\ Moved(r, s[k].r, cum[k])
                                       /\ s[k].r.ok = "yes" => s[k].values = [j \in 1..k |-> vs[j]]}
<1>7. 0 \in A
    <2>1. s[0].r = r /\ s[0].values = <<>>
        BY DEF Start
    <2>2. Moved(r, r, <<>>)
        <3>1. r.i \in Nat /\ Len(r.source) \in Nat
            BY <1>6, LenProperties DEF IsReader
        <3>2. Len(<<>>) = 0
            OBVIOUS
        <3>3. r.i + Len(<<>>) = r.i
            BY <3>1, <3>2
        <3>4. r.ok = "yes" => (r.i + Len(<<>>)) - 1 <= Len(r.source)
            BY <1>6, <3>1, <3>3 DEF IsReader
        <3> QED BY <1>6, <3>3, <3>4 DEF Moved
    <2>3. <<>> = [j \in 1..0 |-> vs[j]]
        OBVIOUS
    <2> QED BY <1>1, <2>1, <2>2, <2>3
<1>8. ASSUME NEW k \in Nat, k \in A PROVE k + 1 \in A
    <2> SUFFICES ASSUME k + 1 <= n
                 PROVE  /\ Moved(r, s[k + 1].r, cum[k + 1])
                        /\ s[k + 1].r.ok = "yes" => s[k + 1].values = [j \in 1..(k + 1) |-> vs[j]]
        OBVIOUS
    <2>1. k + 1 \in 1..n /\ (k + 1) - 1 = k /\ k \in 0..n /\ k + 1 \in 0..n
        OBVIOUS
    <2>2. cum[k] \in Seq(Nat) /\ ws[k + 1] \in Seq(Nat) /\ cum[k + 1] = cum[k] \o ws[k + 1]
        BY <1>1, <1>2, <2>1
    <2>3. Moved(r, s[k].r, cum[k])
        BY <1>8, <2>1
    <2>4. Ready(r, cum[k] \o ws[k + 1])
        BY <1>5, <2>1, <2>2
    <2>5. Ready(s[k].r, ws[k + 1])
        BY <2>2, <2>3, <2>4, ReadyNext
    <2>6. /\ Moved(s[k].r, s[k + 1].r, ws[k + 1])
          /\ s[k + 1].r.ok = "yes" => s[k + 1].values = Append(s[k].values, vs[k + 1])
        BY <2>1, <2>5
    <2>7. Moved(r, s[k + 1].r, cum[k + 1])
        BY <1>6, <2>2, <2>3, <2>6, MovedBoth
    <2>8. ASSUME s[k + 1].r.ok = "yes" PROVE s[k + 1].values = [j \in 1..(k + 1) |-> vs[j]]
        <3>1. s[k].r.ok = "yes"
            BY <2>6, <2>8 DEF Moved
        <3>2. s[k].values = [j \in 1..k |-> vs[j]]
            BY <1>8, <2>1, <3>1
        <3>3. s[k + 1].values = Append([j \in 1..k |-> vs[j]], vs[k + 1])
            BY <2>6, <2>8, <3>2
        <3> QED BY <3>3
    <2> QED BY <2>7, <2>8
<1>9. n \in A
    <2>1. Nat \subseteq A
        <3> HIDE DEF A
        <3> QED BY <1>7, <1>8, InductionOnNat
    <2> QED BY <2>1
<1>10. /\ Moved(r, s[n].r, cum[n])
       /\ s[n].r.ok = "yes" => s[n].values = [j \in 1..n |-> vs[j]]
    BY <1>9
<1> QED BY <1>1, <1>10

-----------------------------------------------------------------------------
\* The values a field can hold; the layouts and values of fields that are no lists.
Fits(f, v) ==
    /\ f.w \in Nat /\ f.kind \in {"int", "uuid", "blob"}
    /\ f.kind = "int" => v \in Nat /\ v < Power(Base, f.w)
    /\ f.kind = "uuid" => v \in Seq(Nat) /\ Len(v) = f.w
    /\ f.kind = "blob" => v \in Seq(Nat) /\ Len(v) < U32
FitFields(layout, values) ==
    /\ Len(layout) \in Nat /\ values = [k \in 1..Len(layout) |-> values[k]]
    /\ \A k \in 1..Len(layout) : Fits(layout[k], values[k])

\* A field is read as it was written.
LEMMA FieldRead ==
    ASSUME NEW f, NEW v, Fits(f, v)
    PROVE  /\ WriteField(f, v) \in Seq(Nat)
           /\ \A r : Ready(r, WriteField(f, v)) => Reads(r, ReadField(r, f), WriteField(f, v), v)
<1>1. CASE f.kind = "int"
    <2>1. WriteField(f, v) = PushBe(f.w, v) /\ \A r : ReadField(r, f) = ReadInt(r, f.w)
        BY <1>1 DEF WriteField, ReadField
    <2>2. f.w \in Nat /\ v \in Nat /\ v < Power(Base, f.w)
        BY <1>1 DEF Fits
    <2>3. PushBe(f.w, v) \in Seq(Nat)
        BY <2>2, PushBeIs
    <2>4. ASSUME NEW r, Ready(r, PushBe(f.w, v)) PROVE Reads(r, ReadInt(r, f.w), PushBe(f.w, v), v)
        BY <2>2, <2>4, IntRead DEF Reads
    <2> QED BY <2>1, <2>3, <2>4
<1>2. CASE f.kind = "uuid"
    <2>1. WriteField(f, v) = v /\ \A r : ReadField(r, f) = ReadRaw(r, f.w)
        BY <1>2 DEF WriteField, ReadField
    <2>2. v \in Seq(Nat) /\ Len(v) = f.w
        BY <1>2 DEF Fits
    <2> QED BY <2>1, <2>2, RawRead DEF Reads
<1>3. CASE f.kind = "blob"
    <2>1. WriteField(f, v) = Blob(v) /\ \A r : ReadField(r, f) = ReadBlob(r)
        BY <1>3 DEF WriteField, ReadField
    <2>2. v \in Seq(Nat) /\ Len(v) < U32
        BY <1>3 DEF Fits
    <2>3. Blob(v) \in Seq(Nat)
        <3>1. VarU32(Len(v)) \in Seq(Nat)
            BY <2>2, LenProperties, VarU32Is
        <3> QED BY <2>2, <3>1, ConcatProperties DEF Blob
    <2> QED BY <2>1, <2>2, <2>3, BlobRead DEF Reads
<1> QED BY <1>1, <1>2, <1>3 DEF Fits

\* The steps of ReadFields.
FieldsSteps(r, layout, s) ==
    /\ ReadFields(r, layout) = s[Len(layout)] /\ s[0] = Start(r)
    /\ \A k \in 1..Len(layout) : s[k] = ThenField(s[k - 1], layout[k])

\* Fields are read one after the other.
LEMMA FieldsUnfold ==
    ASSUME NEW r, NEW layout, Len(layout) \in Nat
    PROVE  \E s : FieldsSteps(r, layout, s)
<1> DEFINE n == Len(layout)
           Part(s, m) == s = [k \in 0..m |-> IF k = 0 THEN Start(r) ELSE ThenField(s[k - 1], layout[k])]
           E == {m \in Nat : \E s : Part(s, m)}
<1> HIDE DEF Part
<1>1. 0 \in E
    <2>1. Part([k \in 0..0 |-> Start(r)], 0)
        BY DEF Part
    <2> QED BY <2>1
<1>2. ASSUME NEW m \in Nat, m \in E PROVE m + 1 \in E
    <2>1. PICK s : Part(s, m)
        BY <1>2
    <2>2. PICK top : top = ThenField(s[m], layout[m + 1])
        OBVIOUS
    <2> DEFINE d == [k \in 0..(m + 1) |-> IF k <= m THEN s[k] ELSE top]
    <2>3. ASSUME NEW k \in 0..(m + 1)
          PROVE  d[k] = IF k = 0 THEN Start(r) ELSE ThenField(d[k - 1], layout[k])
        <3>1. CASE k <= m
            <4>1. k \in 0..m /\ d[k] = s[k] /\ (k # 0 => d[k - 1] = s[k - 1])
                BY <3>1
            <4>2. s[k] = IF k = 0 THEN Start(r) ELSE ThenField(s[k - 1], layout[k])
                BY <2>1, <4>1 DEF Part
            <4> HIDE DEF d
            <4> QED BY <4>1, <4>2
        <3>2. CASE k = m + 1
            <4>1. k # 0 /\ d[k] = top /\ d[k - 1] = s[m]
                BY <3>2
            <4> HIDE DEF d
            <4> QED BY <2>2, <3>2, <4>1
        <3> QED BY <3>1, <3>2
    <2>4. d = [k \in 0..(m + 1) |-> d[k]]
        OBVIOUS
    <2> HIDE DEF d
    <2>5. Part(d, m + 1)
        BY <2>3, <2>4 DEF Part
    <2> QED BY <2>5
<1>3. \E s : Part(s, n)
    <2>1. Nat \subseteq E
        <3> HIDE DEF E
        <3> QED BY <1>1, <1>2, InductionOnNat
    <2> QED BY <2>1
<1>4. PICK s : Part(s, n) /\ ReadFields(r, layout) = s[n]
    <2>1. Part(CHOOSE s : Part(s, n), n)
        BY <1>3
    <2>2. ReadFields(r, layout) = (CHOOSE s : Part(s, n))[n]
        BY DEF ReadFields, Part
    <2> QED BY <2>1, <2>2
<1>5. s[0] = Start(r) /\ \A k \in 1..n : s[k] = ThenField(s[k - 1], layout[k])
    BY <1>4 DEF Part
<1>6. FieldsSteps(r, layout, s)
    BY <1>4, <1>5 DEF FieldsSteps
<1> QED BY <1>6

\* What a sequence of fields is written to.
LEMMA FieldsWritten ==
    ASSUME NEW layout, NEW values, FitFields(layout, values)
    PROVE  \E ws \in Seq(Seq(Nat)) :
                /\ WriteFields(layout, values) = FlattenSeq(ws) /\ Len(ws) = Len(layout)
                /\ \A k \in 1..Len(layout) : ws[k] = WriteField(layout[k], values[k])
<1> DEFINE n == Len(layout)
           ws == [k \in 1..n |-> WriteField(layout[k], values[k])]
<1>1. n \in Nat /\ \A k \in 1..n : WriteField(layout[k], values[k]) \in Seq(Nat)
    BY FieldRead DEF FitFields
<1>2. WriteFields(layout, values) = FlattenSeq(ws)
    BY DEF WriteFields
<1>3. ws \in Seq(Seq(Nat)) /\ Len(ws) = n
    <2>1. ws \in [1..n -> Seq(Nat)]
        BY <1>1
    <2> HIDE DEF ws
    <2> QED BY <1>1, <2>1, IsASeq, LenProperties
<1>4. \A k \in 1..n : ws[k] = WriteField(layout[k], values[k])
    OBVIOUS
<1> HIDE DEF ws
<1> QED BY <1>2, <1>3, <1>4

\* Fields are read as they were written.
LEMMA FieldsRead ==
    ASSUME NEW layout, NEW values, FitFields(layout, values),
           NEW r, Ready(r, WriteFields(layout, values))
    PROVE  LET x == ReadFields(r, layout) IN
           /\ Moved(r, x.r, WriteFields(layout, values))
           /\ x.r.ok = "yes" => x.values = values
<1>1. PICK n \in Nat : n = Len(layout)
    BY DEF FitFields
<1>2. PICK ws \in Seq(Seq(Nat)) :
            /\ WriteFields(layout, values) = FlattenSeq(ws) /\ Len(ws) = n
            /\ \A k \in 1..n : ws[k] = WriteField(layout[k], values[k])
    BY <1>1, FieldsWritten
<1>3. PICK s : /\ ReadFields(r, layout) = s[n] /\ s[0] = Start(r)
               /\ \A k \in 1..n : s[k] = ThenField(s[k - 1], layout[k])
    <2>1. Len(layout) \in Nat
        BY <1>1
    <2>2. PICK s : FieldsSteps(r, layout, s)
        BY <2>1, FieldsUnfold
    <2> QED BY <1>1, <2>2 DEF FieldsSteps
<1>4. ASSUME NEW k \in 1..n, Ready(s[k - 1].r, ws[k])
      PROVE  /\ Moved(s[k - 1].r, s[k].r, ws[k])
             /\ s[k].r.ok = "yes" => s[k].values = Append(s[k - 1].values, values[k])
    <2>1. PICK x : x = ReadField(s[k - 1].r, layout[k])
        OBVIOUS
    <2>2. s[k] = [r |-> x, values |-> Append(s[k - 1].values, x.v)]
        BY <1>3, <2>1 DEF ThenField, Then
    <2>3. Fits(layout[k], values[k])
        BY <1>1 DEF FitFields
    <2>4. Reads(s[k - 1].r, x, ws[k], values[k])
        BY <1>2, <1>4, <2>1, <2>3, FieldRead
    <2> QED BY <2>2, <2>4 DEF Reads
<1>5. values = [k \in 1..n |-> values[k]]
    BY <1>1 DEF FitFields
<1>6. Ready(r, FlattenSeq(ws))
    BY <1>2
<1>7. Moved(r, s[n].r, FlattenSeq(ws)) /\ (s[n].r.ok = "yes" => s[n].values = values)
    <2>1. IsChain(n, ws, values, r, s)
        BY <1>2, <1>3, <1>4, <1>5 DEF IsChain
    <2> QED BY <1>6, <2>1, Chain
<1> QED BY <1>2, <1>3, <1>7

\* What fields are written to is a sequence of bytes.
LEMMA FieldsAreBytes ==
    ASSUME NEW layout, NEW values, FitFields(layout, values)
    PROVE  WriteFields(layout, values) \in Seq(Nat)
<1>1. PICK ws \in Seq(Seq(Nat)) : WriteFields(layout, values) = FlattenSeq(ws)
    BY FieldsWritten
<1> QED BY <1>1, FlatIsBytes

\* The steps of ReadList, of n elements.
ListSteps(r, layout, n, s) ==
    /\ ReadList(r, layout) = s[n] /\ s[0] = Start(ReadInt(r, 8))
    /\ \A k \in 1..n : s[k] = ThenElement(s[k - 1], layout)

\* The elements of a list are read one after the other.
LEMMA ListUnfold ==
    ASSUME NEW r, NEW layout, NEW n \in Nat,
           n = IF ReadInt(r, 8).ok = "yes" THEN ReadInt(r, 8).v ELSE 0
    PROVE  \E s : ListSteps(r, layout, n, s)
<1> DEFINE Part(s, m) == s = [k \in 0..m |-> IF k = 0 THEN Start(ReadInt(r, 8)) ELSE ThenElement(s[k - 1], layout)]
           E == {m \in Nat : \E s : Part(s, m)}
<1> HIDE DEF Part
<1>1. 0 \in E
    <2>1. Part([k \in 0..0 |-> Start(ReadInt(r, 8))], 0)
        BY DEF Part
    <2> QED BY <2>1
<1>2. ASSUME NEW m \in Nat, m \in E PROVE m + 1 \in E
    <2>1. PICK s : Part(s, m)
        BY <1>2
    <2>2. PICK top : top = ThenElement(s[m], layout)
        OBVIOUS
    <2> DEFINE d == [k \in 0..(m + 1) |-> IF k <= m THEN s[k] ELSE top]
    <2>3. ASSUME NEW k \in 0..(m + 1)
          PROVE  d[k] = IF k = 0 THEN Start(ReadInt(r, 8)) ELSE ThenElement(d[k - 1], layout)
        <3>1. CASE k <= m
            <4>1. k \in 0..m /\ d[k] = s[k] /\ (k # 0 => d[k - 1] = s[k - 1])
                BY <3>1
            <4>2. s[k] = IF k = 0 THEN Start(ReadInt(r, 8)) ELSE ThenElement(s[k - 1], layout)
                BY <2>1, <4>1 DEF Part
            <4> HIDE DEF d
            <4> QED BY <4>1, <4>2
        <3>2. CASE k = m + 1
            <4>1. k # 0 /\ d[k] = top /\ d[k - 1] = s[m]
                BY <3>2
            <4> HIDE DEF d
            <4> QED BY <2>2, <3>2, <4>1
        <3> QED BY <3>1, <3>2
    <2>4. d = [k \in 0..(m + 1) |-> d[k]]
        OBVIOUS
    <2> HIDE DEF d
    <2>5. Part(d, m + 1)
        BY <2>3, <2>4 DEF Part
    <2> QED BY <2>5
<1>3. \E s : Part(s, n)
    <2>1. Nat \subseteq E
        <3> HIDE DEF E
        <3> QED BY <1>1, <1>2, InductionOnNat
    <2> QED BY <2>1
<1>4. PICK s : Part(s, n) /\ ReadList(r, layout) = s[n]
    <2>1. Part(CHOOSE s : Part(s, n), n)
        BY <1>3
    <2>2. ReadList(r, layout) = (CHOOSE s : Part(s, n))[n]
        BY DEF ReadList, Part
    <2> QED BY <2>1, <2>2
<1>5. s[0] = Start(ReadInt(r, 8)) /\ \A k \in 1..n : s[k] = ThenElement(s[k - 1], layout)
    BY <1>4 DEF Part
<1>6. ListSteps(r, layout, n, s)
    BY <1>4, <1>5 DEF ListSteps
<1> QED BY <1>6

\* The values a list can hold.
FitsList(f, v) ==
    /\ f.kind = "list" /\ f.w = 8
    /\ Len(v) \in Nat /\ Len(v) < Power(Base, 8) /\ v = [k \in 1..Len(v) |-> v[k]]
    /\ \A k \in 1..Len(v) : FitFields(f.of, v[k])

\* A list is read as it was written.
LEMMA ListRead ==
    ASSUME NEW f, NEW v, FitsList(f, v)
    PROVE  /\ WriteListOrField(f, v) \in Seq(Nat)
           /\ \A r : Ready(r, WriteListOrField(f, v)) =>
                 Reads(r, ReadListOrField(r, f), WriteListOrField(f, v), v)
<1>1. PICK n \in Nat : n = Len(v) /\ n < Power(Base, 8) /\ v = [k \in 1..n |-> v[k]]
    BY DEF FitsList
<1> DEFINE es == [k \in 1..n |-> WriteFields(f.of, v[k])]
<1>2. ASSUME NEW k \in 1..n PROVE FitFields(f.of, v[k]) /\ WriteFields(f.of, v[k]) \in Seq(Nat)
    BY <1>1, FieldsAreBytes DEF FitsList
<1>3. es \in Seq(Seq(Nat)) /\ Len(es) = n
    <2>1. es \in [1..n -> Seq(Nat)]
        BY <1>2
    <2> HIDE DEF es
    <2> QED BY <1>1, <2>1, IsASeq, LenProperties
<1>4. \A k \in 1..n : es[k] = WriteFields(f.of, v[k])
    OBVIOUS
<1>5. PICK c \in Seq(Nat) : c = PushBe(8, n)
    BY <1>1, PushBeIs
<1>6. WriteListOrField(f, v) = c \o FlattenSeq(es)
    BY <1>1, <1>5 DEF WriteListOrField, FitsList
<1> HIDE DEF es
<1>7. PICK b \in Seq(Nat) : b = FlattenSeq(es)
    BY <1>3, FlatIsBytes
<1>8. WriteListOrField(f, v) \in Seq(Nat)
    BY <1>5, <1>6, <1>7, ConcatProperties
<1>9. ASSUME NEW r, Ready(r, c \o b) PROVE Reads(r, ReadListOrField(r, f), c \o b, v)
    <2>1. PICK count : count = ReadInt(r, 8)
        OBVIOUS
    <2>2. Moved(r, count, c) /\ (count.ok = "yes" => count.v = n)
        <3>1. Ready(r, c)
            BY <1>5, <1>7, <1>9, ReadyFirst
        <3> QED BY <1>1, <1>5, <2>1, <3>1, IntRead
    <2>3. count.ok \in {"yes", "no"} /\ IsReader(r) /\ IsReader(count)
        BY <1>9, <2>2 DEF Moved, Ready, IsReader
    <2>4. Ready(count, b)
        BY <1>5, <1>7, <1>9, <2>2, ReadyNext
    <2>5. PICK x : x = ReadList(r, f.of)
        OBVIOUS
    <2>6. Moved(count, x.r, b) /\ (x.r.ok = "yes" => x.values = v)
        <3>1. CASE count.ok = "no"
            <4>1. 0 = IF ReadInt(r, 8).ok = "yes" THEN ReadInt(r, 8).v ELSE 0
                BY <2>1, <3>1
            <4>2. PICK s : ReadList(r, f.of) = s[0] /\ s[0] = Start(count)
                <5>1. PICK s : ListSteps(r, f.of, 0, s)
                    BY <4>1, ListUnfold
                <5> QED BY <2>1, <5>1 DEF ListSteps
            <4>3. x.r = count
                BY <2>5, <4>2 DEF Start
            <4> QED BY <2>3, <3>1, <4>3 DEF Moved
        <3>2. CASE count.ok = "yes"
            <4>1. n = IF ReadInt(r, 8).ok = "yes" THEN ReadInt(r, 8).v ELSE 0
                BY <2>1, <2>2, <3>2
            <4>2. PICK s : /\ ReadList(r, f.of) = s[n] /\ s[0] = Start(count)
                           /\ \A k \in 1..n : s[k] = ThenElement(s[k - 1], f.of)
                <5>1. PICK s : ListSteps(r, f.of, n, s)
                    BY <4>1, ListUnfold
                <5> QED BY <2>1, <5>1 DEF ListSteps
            <4>3. ASSUME NEW k \in 1..n, Ready(s[k - 1].r, es[k])
                  PROVE  /\ Moved(s[k - 1].r, s[k].r, es[k])
                         /\ s[k].r.ok = "yes" => s[k].values = Append(s[k - 1].values, v[k])
                <5>1. PICK y : y = ReadFields(s[k - 1].r, f.of)
                    OBVIOUS
                <5>2. s[k] = [r |-> y.r, values |-> Append(s[k - 1].values, y.values)]
                    BY <4>2, <5>1 DEF ThenElement
                <5>3. Moved(s[k - 1].r, y.r, es[k]) /\ (y.r.ok = "yes" => y.values = v[k])
                    BY <1>2, <1>4, <4>3, <5>1, FieldsRead
                <5> QED BY <5>2, <5>3
            <4>4. IsChain(n, es, v, count, s)
                BY <1>1, <1>3, <4>2, <4>3 DEF IsChain
            <4>5. Moved(count, s[n].r, FlattenSeq(es)) /\ (s[n].r.ok = "yes" => s[n].values = v)
                BY <1>7, <2>4, <4>4, Chain
            <4> QED BY <1>7, <2>5, <4>2, <4>5
        <3> QED BY <2>3, <3>1, <3>2
    <2>7. Moved(r, x.r, c \o b)
        BY <1>5, <1>7, <2>2, <2>3, <2>6, MovedBoth
    <2>8. PICK y, u, w : y = x.r /\ u = x.values /\ w = c \o b /\ Moved(r, y, w)
        BY <2>7
    <2>9. ReadListOrField(r, f) = [y EXCEPT !.v = u]
        BY <2>5, <2>8 DEF ReadListOrField, FitsList
    <2>10. Moved(r, [y EXCEPT !.v = u], w) /\ [y EXCEPT !.v = u].v = u
        <3>1. Moved(r, y, w)
            BY <2>8
        <3>2. Moved(r, [y EXCEPT !.v = u], w)
            BY <3>1, WithValue
        <3>3. [y EXCEPT !.v = u].v = u
            BY <3>1, WithValue
        <3> QED BY <3>2, <3>3
    <2>11. [y EXCEPT !.v = u].ok = y.ok
        BY ONLY <2>8, WithValue
    <2> QED BY <2>6, <2>8, <2>9, <2>10, <2>11 DEF Reads
<1> QED BY <1>6, <1>7, <1>8, <1>9

\* A packet's data: fields and lists.
FitData(layout, values) ==
    /\ Len(layout) \in Nat /\ values = [k \in 1..Len(layout) |-> values[k]]
    /\ \A k \in 1..Len(layout) : Fits(layout[k], values[k]) \/ FitsList(layout[k], values[k])

\* A part of the data is read as it was written.
LEMMA PartRead ==
    ASSUME NEW f, NEW v, Fits(f, v) \/ FitsList(f, v)
    PROVE  /\ WriteListOrField(f, v) \in Seq(Nat)
           /\ \A r : Ready(r, WriteListOrField(f, v)) =>
                 Reads(r, ReadListOrField(r, f), WriteListOrField(f, v), v)
<1>1. CASE Fits(f, v)
    <2>1. f.kind # "list"
        BY <1>1 DEF Fits
    <2>2. WriteListOrField(f, v) = WriteField(f, v) /\ \A r : ReadListOrField(r, f) = ReadField(r, f)
        BY <2>1 DEF WriteListOrField, ReadListOrField
    <2> QED BY <1>1, <2>2, FieldRead
<1>2. CASE FitsList(f, v)
    BY <1>2, ListRead
<1> QED BY <1>1, <1>2

\* The steps of ReadData.
DataSteps(r, layout, s) ==
    /\ ReadData(r, layout) = s[Len(layout)] /\ s[0] = Start(r)
    /\ \A k \in 1..Len(layout) : s[k] = ThenListOrField(s[k - 1], layout[k])

\* The parts of a packet's data are read one after the other.
LEMMA DataUnfold ==
    ASSUME NEW r, NEW layout, Len(layout) \in Nat
    PROVE  \E s : DataSteps(r, layout, s)
<1> DEFINE n == Len(layout)
           Part(s, m) == s = [k \in 0..m |-> IF k = 0 THEN Start(r) ELSE ThenListOrField(s[k - 1], layout[k])]
           E == {m \in Nat : \E s : Part(s, m)}
<1> HIDE DEF Part
<1>1. 0 \in E
    <2>1. Part([k \in 0..0 |-> Start(r)], 0)
        BY DEF Part
    <2> QED BY <2>1
<1>2. ASSUME NEW m \in Nat, m \in E PROVE m + 1 \in E
    <2>1. PICK s : Part(s, m)
        BY <1>2
    <2>2. PICK top : top = ThenListOrField(s[m], layout[m + 1])
        OBVIOUS
    <2> DEFINE d == [k \in 0..(m + 1) |-> IF k <= m THEN s[k] ELSE top]
    <2>3. ASSUME NEW k \in 0..(m + 1)
          PROVE  d[k] = IF k = 0 THEN Start(r) ELSE ThenListOrField(d[k - 1], layout[k])
        <3>1. CASE k <= m
            <4>1. k \in 0..m /\ d[k] = s[k] /\ (k # 0 => d[k - 1] = s[k - 1])
                BY <3>1
            <4>2. s[k] = IF k = 0 THEN Start(r) ELSE ThenListOrField(s[k - 1], layout[k])
                BY <2>1, <4>1 DEF Part
            <4> HIDE DEF d
            <4> QED BY <4>1, <4>2
        <3>2. CASE k = m + 1
            <4>1. k # 0 /\ d[k] = top /\ d[k - 1] = s[m]
                BY <3>2
            <4> HIDE DEF d
            <4> QED BY <2>2, <3>2, <4>1
        <3> QED BY <3>1, <3>2
    <2>4. d = [k \in 0..(m + 1) |-> d[k]]
        OBVIOUS
    <2> HIDE DEF d
    <2>5. Part(d, m + 1)
        BY <2>3, <2>4 DEF Part
    <2> QED BY <2>5
<1>3. \E s : Part(s, n)
    <2>1. Nat \subseteq E
        <3> HIDE DEF E
        <3> QED BY <1>1, <1>2, InductionOnNat
    <2> QED BY <2>1
<1>4. PICK s : Part(s, n) /\ ReadData(r, layout) = s[n]
    <2>1. Part(CHOOSE s : Part(s, n), n)
        BY <1>3
    <2>2. ReadData(r, layout) = (CHOOSE s : Part(s, n))[n]
        BY DEF ReadData, Part
    <2> QED BY <2>1, <2>2
<1>5. s[0] = Start(r) /\ \A k \in 1..n : s[k] = ThenListOrField(s[k - 1], layout[k])
    BY <1>4 DEF Part
<1>6. DataSteps(r, layout, s)
    BY <1>4, <1>5 DEF DataSteps
<1> QED BY <1>6

\* What a packet's data is written to.
LEMMA DataWritten ==
    ASSUME NEW layout, NEW values, FitData(layout, values)
    PROVE  \E ws \in Seq(Seq(Nat)) :
                /\ WriteData(layout, values) = FlattenSeq(ws) /\ Len(ws) = Len(layout)
                /\ \A k \in 1..Len(layout) : ws[k] = WriteListOrField(layout[k], values[k])
<1> DEFINE n == Len(layout)
           ws == [k \in 1..n |-> WriteListOrField(layout[k], values[k])]
<1>1. n \in Nat /\ \A k \in 1..n : WriteListOrField(layout[k], values[k]) \in Seq(Nat)
    BY PartRead DEF FitData
<1>2. WriteData(layout, values) = FlattenSeq(ws)
    BY DEF WriteData
<1>3. ws \in Seq(Seq(Nat)) /\ Len(ws) = n
    <2>1. ws \in [1..n -> Seq(Nat)]
        BY <1>1
    <2> HIDE DEF ws
    <2> QED BY <1>1, <2>1, IsASeq, LenProperties
<1>4. \A k \in 1..n : ws[k] = WriteListOrField(layout[k], values[k])
    OBVIOUS
<1> HIDE DEF ws
<1> QED BY <1>2, <1>3, <1>4

\* A packet's data is read as it was written.
LEMMA DataRead ==
    ASSUME NEW layout, NEW values, FitData(layout, values),
           NEW r, Ready(r, WriteData(layout, values))
    PROVE  LET x == ReadData(r, layout) IN
           /\ Moved(r, x.r, WriteData(layout, values))
           /\ x.r.ok = "yes" => x.values = values
<1>1. PICK n \in Nat : n = Len(layout)
    BY DEF FitData
<1>2. PICK ws \in Seq(Seq(Nat)) :
            /\ WriteData(layout, values) = FlattenSeq(ws) /\ Len(ws) = n
            /\ \A k \in 1..n : ws[k] = WriteListOrField(layout[k], values[k])
    BY <1>1, DataWritten
<1>3. PICK s : /\ ReadData(r, layout) = s[n] /\ s[0] = Start(r)
               /\ \A k \in 1..n : s[k] = ThenListOrField(s[k - 1], layout[k])
    <2>1. Len(layout) \in Nat
        BY <1>1
    <2>2. PICK s : DataSteps(r, layout, s)
        BY <2>1, DataUnfold
    <2> QED BY <1>1, <2>2 DEF DataSteps
<1>4. ASSUME NEW k \in 1..n, Ready(s[k - 1].r, ws[k])
      PROVE  /\ Moved(s[k - 1].r, s[k].r, ws[k])
             /\ s[k].r.ok = "yes" => s[k].values = Append(s[k - 1].values, values[k])
    <2>1. PICK x : x = ReadListOrField(s[k - 1].r, layout[k])
        OBVIOUS
    <2>2. s[k] = [r |-> x, values |-> Append(s[k - 1].values, x.v)]
        BY <1>3, <2>1 DEF ThenListOrField, Then
    <2>3. Fits(layout[k], values[k]) \/ FitsList(layout[k], values[k])
        BY <1>1 DEF FitData
    <2>4. Reads(s[k - 1].r, x, ws[k], values[k])
        BY <1>2, <1>4, <2>1, <2>3, PartRead
    <2> QED BY <2>2, <2>4 DEF Reads
<1>5. values = [k \in 1..n |-> values[k]]
    BY <1>1 DEF FitData
<1>6. Ready(r, FlattenSeq(ws))
    BY <1>2
<1>7. Moved(r, s[n].r, FlattenSeq(ws)) /\ (s[n].r.ok = "yes" => s[n].values = values)
    <2>1. IsChain(n, ws, values, r, s)
        BY <1>2, <1>3, <1>4, <1>5 DEF IsChain
    <2> QED BY <1>6, <2>1, Chain
<1> QED BY <1>2, <1>3, <1>7

\* What a packet's data is written to is a sequence of bytes.
LEMMA DataAreBytes ==
    ASSUME NEW layout, NEW values, FitData(layout, values)
    PROVE  WriteData(layout, values) \in Seq(Nat)
<1>1. PICK ws \in Seq(Seq(Nat)) : WriteData(layout, values) = FlattenSeq(ws)
    BY DataWritten
<1> QED BY <1>1, FlatIsBytes

-----------------------------------------------------------------------------
\* A packet whose fields fit, which validates, and whose data is written as that of the
\* alternative the receiver constructs.
Chosen(p) == AlternativeOf(p.type, p.head)
Built(p) == [type |-> p.type, head |-> p.head, alternative |-> Chosen(p), data |-> p.data]
IsPacket(p) ==
    /\ p.type \in DOMAIN PacketTypes
    /\ p = [type |-> p.type, head |-> p.head, alternative |-> p.alternative, data |-> p.data]
    /\ FitFields(PacketTypes[p.type].head, p.head)
    /\ Chosen(p) # 0
    /\ FitData(PacketTypes[p.type].data[Chosen(p)], p.data)
    /\ WriteData(PacketTypes[p.type].data[p.alternative], p.data)
            = WriteData(PacketTypes[p.type].data[Chosen(p)], p.data)
    /\ Validate(Built(p))

\* Small numbers fit in a byte, and in any integer.
LEMMA SmallFits ==
    ASSUME NEW w \in Nat, w > 0
    PROVE  Power(Base, w) \in Nat /\ Power(Base, w) > 3
<1>1. Base \in Nat /\ Base > 3
    BY BaseIs
<1>2. Power(Base, 0 + 1) = Base * Power(Base, 0) /\ Power(Base, 0) = 1
    BY <1>1, PowerUnfolds
<1>3. Power(Base, 1) = Base
    BY <1>1, <1>2
<1>4. Power(Base, 1) <= Power(Base, w) /\ Power(Base, w) \in Nat
    BY <1>1, PowerGrows, PowerUnfolds
<1> QED BY <1>1, <1>3, <1>4

\* The numbers of types and stages fit in four bytes.
LEMMA TypesFit == U32 \in Nat /\ U32 > 6
<1>1. Base \in Nat /\ Base > 3
    BY BaseIs
<1>2. PICK q \in Nat : q = Power(Base, 3) /\ q > 3
    BY SmallFits
<1>3. Power(Base, 3 + 1) = Base * q
    BY <1>1, <1>2, PowerUnfolds
<1>4. U32 = Base * q
    BY <1>3 DEF U32
<1>5. Base * q >= 4 * q
    BY <1>1, <1>2
<1> QED BY <1>1, <1>2, <1>4, <1>5, BaseIs

\* The head, the data and the whole of a packet, after c.
LaidOut(p, c, h, d, w) ==
    /\ h = WriteFields(PacketTypes[p.type].head, p.head)
    /\ d = WriteData(PacketTypes[p.type].data[Chosen(p)], p.data)
    /\ w = (c \o h) \o d

\* The packet when reader r has all of w before it.
Expected(p, r, w) ==
    IF r.ok = "yes" /\ (r.i + Len(w)) - 1 <= Len(r.source)
    THEN [outcome |-> "packet", packet |-> Built(p)] ELSE Failed("throw")

\* The fields and data of a packet are read as they were written, after c, and throw when they
\* are not all there.
LEMMA PacketRead ==
    ASSUME NEW p, IsPacket(p), NEW c \in Seq(Nat), NEW first, NEW r, Moved(first, r, c),
           NEW h, NEW d, NEW w, LaidOut(p, c, h, d, w), Ready(first, w)
    PROVE  DeserializePacket(r, p.type) = Expected(p, first, w)
<1>1. PICK hl, dl, type : type = p.type /\ hl = PacketTypes[p.type].head
                          /\ dl = PacketTypes[p.type].data[Chosen(p)]
    OBVIOUS
<1>2. FitFields(hl, p.head) /\ FitData(dl, p.data)
    BY <1>1 DEF IsPacket
<1>3. h \in Seq(Nat) /\ h = WriteFields(hl, p.head)
    BY <1>1, <1>2, FieldsAreBytes DEF LaidOut
<1>4. d \in Seq(Nat) /\ d = WriteData(dl, p.data)
    BY <1>1, <1>2, DataAreBytes DEF LaidOut
<1>5. PICK ch \in Seq(Nat) : ch = c \o h /\ w = ch \o d /\ Ready(first, ch \o d)
    BY <1>3, ConcatProperties DEF LaidOut
<1>6. PICK x : x = ReadFields(r, hl)
    OBVIOUS
<1>7. Moved(r, x.r, h) /\ (x.r.ok = "yes" => x.values = p.head)
    <2>1. Ready(first, c \o h)
        BY <1>4, <1>5, ReadyFirst
    <2>2. Ready(r, h)
        BY <1>3, <2>1, ReadyNext
    <2> QED BY <1>2, <1>3, <1>6, <2>2, FieldsRead
<1>8. x.r.ok \in {"yes", "no"} /\ IsReader(first)
    BY <1>5, <1>7 DEF Moved, Ready, IsReader
<1>9. PICK y : y = ReadData(x.r, dl)
    OBVIOUS
<1>10. Moved(x.r, y.r, d) /\ (y.r.ok = "yes" => y.values = p.data) /\ Moved(first, x.r, ch)
    <2>1. Moved(first, x.r, ch)
        BY <1>3, <1>5, <1>7, <1>8, MovedBoth
    <2>2. Ready(x.r, d)
        BY <1>4, <1>5, <2>1, ReadyNext
    <2> QED BY <1>2, <1>4, <1>9, <2>1, <2>2, DataRead
<1>11. y.r.ok \in {"yes", "no"}
    BY <1>10 DEF Moved, IsReader
<1>12. Moved(first, y.r, ch \o d)
    BY <1>4, <1>5, <1>8, <1>10, MovedBoth
<1>13. y.r.ok = "yes" <=> first.ok = "yes" /\ (first.i + Len(w)) - 1 <= Len(first.source)
    BY <1>5, <1>12 DEF Moved
<1>14. y.r.ok = "yes" => x.r.ok = "yes"
    BY <1>10 DEF Moved
<1>15. CASE x.r.ok = "no"
    <2>1. DeserializePacket(r, type) = Failed("throw")
        BY <1>1, <1>6, <1>15 DEF DeserializePacket
    <2> QED BY <1>1, <1>13, <1>14, <1>15, <2>1 DEF Expected
<1>16. CASE x.r.ok = "yes"
    <2>1. x.values = p.head
        BY <1>7, <1>16
    <2>2. PICK a : a = Chosen(p) /\ a # 0 /\ a = AlternativeOf(type, x.values)
        BY <1>1, <2>1 DEF IsPacket, Chosen
    <2>3. DeserializePacket(r, type) =
            LET q == [type |-> type, head |-> x.values, alternative |-> a, data |-> y.values] IN
            IF y.r.ok = "no" THEN Failed("throw")
            ELSE IF ~Validate(q) THEN Failed("abort")
            ELSE [outcome |-> "packet", packet |-> q]
        BY <1>1, <1>6, <1>9, <1>16, <2>2 DEF DeserializePacket
    <2>4. CASE y.r.ok = "no"
        BY <1>1, <1>13, <2>3, <2>4 DEF Expected
    <2>5. CASE y.r.ok = "yes"
        <3>1. Built(p) = [type |-> type, head |-> x.values, alternative |-> a, data |-> y.values]
            BY <1>1, <1>10, <2>1, <2>2, <2>5 DEF Built
        <3>2. Validate(Built(p))
            BY DEF IsPacket
        <3>3. DeserializePacket(r, type) = [outcome |-> "packet", packet |-> Built(p)]
            BY <2>3, <2>5, <3>1, <3>2
        <3> QED BY <1>1, <1>13, <2>5, <3>3 DEF Expected
    <2> QED BY <1>11, <2>4, <2>5
<1> QED BY <1>8, <1>15, <1>16

\* What a packet is serialised to: the type, the head and the data.
LEMMA Serialized ==
    ASSUME NEW p, IsPacket(p)
    PROVE  \E c, h, d \in Seq(Nat) :
                /\ c = PushBe(4, TypeIDs[p.type])
                /\ h = WriteFields(PacketTypes[p.type].head, p.head)
                /\ d = WriteData(PacketTypes[p.type].data[Chosen(p)], p.data)
                /\ Serialize(p) = (c \o h) \o d
                /\ TypeIDs[p.type] \in Nat /\ TypeIDs[p.type] < U32
<1>1. TypeIDs[p.type] \in Nat /\ TypeIDs[p.type] <= 6
    BY DEF IsPacket, PacketTypes, TypeIDs
<1>2. PICK c \in Seq(Nat) : c = PushBe(4, TypeIDs[p.type])
    BY <1>1, PushBeIs
<1>3. PICK h \in Seq(Nat) : h = WriteFields(PacketTypes[p.type].head, p.head)
    BY FieldsAreBytes DEF IsPacket
<1>4. PICK d \in Seq(Nat) : d = WriteData(PacketTypes[p.type].data[Chosen(p)], p.data)
    BY DataAreBytes DEF IsPacket
<1>5. Serialize(p) = (c \o h) \o d
    BY <1>2, <1>3, <1>4 DEF Serialize, IsPacket
<1>6. TypeIDs[p.type] < U32
    BY <1>1, TypesFit
<1> QED BY <1>1, <1>2, <1>3, <1>4, <1>5, <1>6

\* The types have different numbers.
LEMMA TypesDiffer ==
    ASSUME NEW type \in Registered
    PROVE  {t \in Registered : TypeIDs[t] = TypeIDs[type]} = {type}
BY DEF Registered, PacketTypes, TypeIDs

\* All of a packet's bytes give the packet, fewer throw.
LEMMA ReceivedIs ==
    ASSUME NEW p, IsPacket(p), NEW n \in 0..Len(Serialize(p))
    PROVE  Received(p, SubSeq(Serialize(p), 1, n)) =
                IF n = Len(Serialize(p)) THEN [outcome |-> "packet", packet |-> Built(p)]
                ELSE Failed("throw")
<1>1. PICK c, h, d \in Seq(Nat) :
                /\ c = PushBe(4, TypeIDs[p.type])
                /\ h = WriteFields(PacketTypes[p.type].head, p.head)
                /\ d = WriteData(PacketTypes[p.type].data[Chosen(p)], p.data)
                /\ Serialize(p) = (c \o h) \o d
                /\ TypeIDs[p.type] \in Nat /\ TypeIDs[p.type] < U32
    BY Serialized
<1>2. PICK ch, w \in Seq(Nat) : ch = c \o h /\ w = ch \o d /\ w = Serialize(p) /\ Len(w) >= Len(c)
    <2>1. PICK ch \in Seq(Nat) : ch = c \o h /\ Len(ch) = Len(c) + Len(h)
        BY ConcatProperties
    <2>2. PICK w \in Seq(Nat) : w = ch \o d /\ Len(w) = Len(ch) + Len(d)
        BY ConcatProperties
    <2>3. Len(c) \in Nat /\ Len(h) \in Nat /\ Len(d) \in Nat
        BY LenProperties
    <2>4. Len(w) >= Len(c)
        BY <2>1, <2>2, <2>3
    <2> QED BY <1>1, <2>1, <2>2, <2>4
<1>3. Len(w) \in Nat /\ Len(c) \in Nat /\ n \in Nat /\ n <= Len(w)
    BY <1>2, LenProperties
<1>4. PICK bytes \in Seq(Nat) : /\ bytes = SubSeq(w, 1, n) /\ Len(bytes) = n
                                /\ \A k \in 1..n : bytes[k] = w[k]
    <2>1. (1 + n) - 1 <= Len(w) /\ 1 + n - 1 = n
        BY <1>3
    <2>2. LET piece == SubSeq(w, 1, 1 + n - 1) IN
          piece \in Seq(Nat) /\ Len(piece) = n /\ \A k \in 1..n : piece[k] = w[(1 + k) - 1]
        BY <1>3, <2>1, PieceIs
    <2>3. \A k \in 1..n : (1 + k) - 1 = k
        BY <1>3
    <2> QED BY <2>1, <2>2, <2>3
<1>5. PICK r : r = Reader(bytes)
    OBVIOUS
<1>6. IsReader(r) /\ r.i = 1 /\ r.source = bytes /\ r.ok = "yes"
    BY <1>3, <1>4, <1>5 DEF Reader, IsReader
<1>7. Ready(r, ch \o d)
    <2>1. ASSUME NEW k \in 1..Len(w), (r.i + k) - 1 <= Len(r.source)
          PROVE  r.source[(r.i + k) - 1] = w[k]
        <3>1. (r.i + k) - 1 = k /\ k \in 1..n
            BY <1>3, <1>4, <1>6, <2>1
        <3> QED BY <1>4, <1>6, <3>1
    <2>2. Continues(r.source, r.i, w)
        BY <2>1 DEF Continues
    <2> QED BY <1>2, <1>6, <2>2 DEF Ready
<1>8. PICK id : id = ReadInt(r, 4)
    OBVIOUS
<1>9. Moved(r, id, c) /\ (id.ok = "yes" => id.v = TypeIDs[p.type])
    <2>1. PICK v \in Nat : v = TypeIDs[p.type] /\ v < Power(Base, 4)
        BY <1>1 DEF U32
    <2>2. Ready(r, PushBe(4, v))
        <3>1. Ready(r, c \o h)
            BY <1>2, <1>7, ReadyFirst
        <3>2. Ready(r, c)
            BY <3>1, ReadyFirst
        <3> QED BY <1>1, <2>1, <3>2
    <2>3. /\ Moved(r, ReadInt(r, 4), PushBe(4, v))
          /\ ReadInt(r, 4).ok = "yes" => ReadInt(r, 4).v = v
        BY <2>1, <2>2, IntRead
    <2> QED BY <1>1, <1>8, <2>1, <2>3
<1>10. id.ok \in {"yes", "no"}
    BY <1>9 DEF Moved, IsReader
<1>11. id.ok = "yes" <=> Len(c) <= n
    <2>1. id.ok = "yes" <=> (1 + Len(c)) - 1 <= n
        BY <1>4, <1>6, <1>9 DEF Moved
    <2> QED BY <1>3, <2>1
<1>12. CASE id.ok = "no"
    <2>1. Received(p, bytes) = Failed("throw")
        BY <1>5, <1>8, <1>12 DEF Received
    <2>2. n # Len(w)
        BY <1>2, <1>3, <1>11, <1>12
    <2> QED BY <1>2, <1>4, <2>1, <2>2
<1>13. CASE id.ok = "yes"
    <2>1. TypesFor(p, id) = {p.type}
        <3>1. CASE p.type \in Registered
            <4>1. {t \in Registered : TypeIDs[t] = id.v} = {p.type}
                BY <1>9, <1>13, <3>1, TypesDiffer
            <4> QED BY <3>1, <4>1 DEF TypesFor
        <3>2. CASE p.type \notin Registered
            BY <3>2 DEF TypesFor
        <3> QED BY <3>1, <3>2
    <2>2. (CHOOSE t \in {p.type} : TRUE) = p.type
        OBVIOUS
    <2>3. Received(p, bytes) = DeserializePacket(id, p.type)
        BY <1>5, <1>8, <1>13, <2>1, <2>2 DEF Received
    <2>4. Ready(r, w) /\ LaidOut(p, c, h, d, w) /\ Moved(r, id, c)
        BY <1>1, <1>2, <1>7, <1>9 DEF LaidOut
    <2>5. DeserializePacket(id, p.type) = Expected(p, r, w)
        BY <2>4, PacketRead
    <2>6. (r.i + Len(w)) - 1 <= Len(r.source) <=> n = Len(w)
        BY <1>3, <1>4, <1>6
    <2> QED BY <1>2, <1>4, <1>6, <2>3, <2>5, <2>6 DEF Expected
<1> QED BY <1>10, <1>12, <1>13

-----------------------------------------------------------------------------
\* Layouts: of fields, and of fields and lists of fields.
Plain == {f \in [kind : {"int", "uuid", "blob"}, w : Nat, of : {<<>>}] : f.kind = "uuid" => f.w = UuidBytes}
Lists == [kind : {"list"}, w : {8}, of : Seq(Plain)]

\* The values of a field, from a seed, fit.
LEMMA ValueFits ==
    ASSUME NEW f \in Plain, f.kind # "blob", NEW seed \in Nat
    PROVE  Fits(f, FieldValue(f, seed))
<1>1. Base \in Nat /\ Base > 0 /\ f.w \in Nat
    BY BaseIs DEF Plain
<1>2. CASE f.kind = "int"
    <2>1. PICK w \in Nat : w = (IF f.w > 4 THEN 4 ELSE f.w) /\ w <= f.w
        BY <1>1
    <2>2. PICK m \in Nat : m = Power(Base, w) /\ m > 0 /\ m <= Power(Base, f.w)
        <3>1. Power(Base, w) \in Nat /\ Power(Base, w) > 0
            BY <1>1, <2>1, PowerUnfolds, PowerPositive
        <3>2. Power(Base, w) <= Power(Base, f.w)
            BY <1>1, <2>1, PowerGrows
        <3> QED BY <3>1, <3>2
    <2>3. FieldValue(f, seed) = seed % m
        BY <1>2, <2>1, <2>2 DEF FieldValue
    <2>4. seed % m \in Nat /\ seed % m < m
        BY <2>2, DivMod
    <2>5. Power(Base, f.w) \in Nat
        BY <1>1, PowerUnfolds
    <2>6. seed % m < Power(Base, f.w)
        BY <2>2, <2>4, <2>5
    <2> QED BY <1>1, <1>2, <2>3, <2>4, <2>6 DEF Fits
<1>3. CASE f.kind = "uuid"
    <2>1. FieldValue(f, seed) = [k \in 1..UuidBytes |-> (seed + k) % Base]
        BY <1>3 DEF FieldValue
    <2>2. UuidBytes \in Nat /\ f.w = UuidBytes
        BY <1>3, StreamAssumption DEF Plain
    <2>3. ASSUME NEW k \in 1..UuidBytes PROVE (seed + k) % Base \in Nat
        <3>1. seed + k \in Nat
            BY <2>2
        <3> QED BY <1>1, <3>1, DivMod
    <2>4. PICK v : v = FieldValue(f, seed) /\ v \in [1..UuidBytes -> Nat]
        BY <2>1, <2>3
    <2>5. v \in Seq(Nat) /\ Len(v) = UuidBytes
        BY <2>2, <2>4, IsASeq, LenProperties
    <2> QED BY <1>1, <1>3, <2>2, <2>4, <2>5 DEF Fits
<1> QED BY <1>2, <1>3 DEF Plain

\* The bytes of a blob fit.
LEMMA BlobFits ==
    ASSUME NEW f \in Plain, f.kind = "blob", NEW seed \in Nat, NEW size \in Nat, size < U32
    PROVE  Fits(f, [j \in 1..size |-> (seed + j) % Base])
<1>1. Base \in Nat /\ Base > 0 /\ f.w \in Nat
    BY BaseIs DEF Plain
<1>2. ASSUME NEW j \in 1..size PROVE (seed + j) % Base \in Nat
    <2>1. seed + j \in Nat
        OBVIOUS
    <2> QED BY <1>1, <2>1, DivMod
<1>3. PICK v : v = [j \in 1..size |-> (seed + j) % Base] /\ v \in [1..size -> Nat]
    <2>1. [j \in 1..size |-> (seed + j) % Base] \in [1..size -> Nat]
        BY <1>2
    <2> QED BY <2>1
<1>4. v \in Seq(Nat) /\ Len(v) = size
    BY <1>3, IsASeq, LenProperties
<1>5. Fits(f, v)
    BY <1>1, <1>4 DEF Fits
<1> QED BY <1>3, <1>5

\* The values of a layout's fields fit.
LEMMA FieldsFit ==
    ASSUME NEW layout \in Seq(Plain), NEW seed \in Nat, NEW size \in Nat, size < U32
    PROVE  FitFields(layout, FieldValues(layout, seed, size))
<1>1. PICK n \in Nat : n = Len(layout)
    BY LenProperties
<1>2. PICK v : v = FieldValues(layout, seed, size)
    OBVIOUS
<1>3. v = [k \in 1..n |-> IF layout[k].kind = "blob" THEN [j \in 1..size |-> (seed + j) % Base]
                          ELSE FieldValue(layout[k], seed + 3 * k)]
    BY <1>1, <1>2 DEF FieldValues
<1>4. ASSUME NEW k \in 1..n PROVE Fits(layout[k], v[k])
    <2>1. PICK f \in Plain : f = layout[k]
        BY <1>1, ElementOfSeq
    <2>2. seed + 3 * k \in Nat
        OBVIOUS
    <2>3. CASE f.kind = "blob"
        <3>1. v[k] = [j \in 1..size |-> (seed + j) % Base]
            BY <1>3, <2>1, <2>3
        <3> QED BY <2>1, <2>3, <3>1, BlobFits
    <2>4. CASE f.kind # "blob"
        <3>1. v[k] = FieldValue(f, seed + 3 * k)
            BY <1>3, <2>1, <2>4
        <3> QED BY <2>1, <2>2, <2>4, <3>1, ValueFits
    <2> QED BY <2>3, <2>4
<1>5. v = [k \in 1..n |-> v[k]]
    BY <1>3
<1> QED BY <1>1, <1>2, <1>4, <1>5 DEF FitFields

\* The values of a packet's data fit.
LEMMA DataFit ==
    ASSUME NEW layout \in Seq(Plain \cup Lists), NEW seed \in Nat, NEW size \in Nat, size < U32,
           NEW count \in Nat, count < U32
    PROVE  FitData(layout, DataValues(layout, seed, count, size))
<1>1. PICK n \in Nat : n = Len(layout)
    BY LenProperties
<1>2. PICK v : v = DataValues(layout, seed, count, size)
    OBVIOUS
<1>3. v = [k \in 1..n |-> IF layout[k].kind = "list"
                          THEN [j \in 1..count |-> FieldValues(layout[k].of, seed + 7 * j, size)]
                          ELSE FieldValues(layout, seed, size)[k]]
    BY <1>1, <1>2 DEF DataValues
<1>4. ASSUME NEW k \in 1..n PROVE Fits(layout[k], v[k]) \/ FitsList(layout[k], v[k])
    <2>1. PICK f \in Plain \cup Lists : f = layout[k]
        BY <1>1, ElementOfSeq
    <2>2. CASE f \in Plain
        <3>1. f.kind # "list"
            BY <2>2 DEF Plain
        <3>2. v[k] = IF f.kind = "blob" THEN [j \in 1..size |-> (seed + j) % Base]
                     ELSE FieldValue(f, seed + 3 * k)
            BY <1>1, <1>3, <2>1, <3>1 DEF FieldValues
        <3>3. seed + 3 * k \in Nat
            OBVIOUS
        <3>4. CASE f.kind = "blob"
            BY <2>1, <2>2, <3>2, <3>4, BlobFits
        <3>5. CASE f.kind # "blob"
            BY <2>1, <2>2, <3>2, <3>3, <3>5, ValueFits
        <3> QED BY <3>4, <3>5
    <2>3. CASE f \in Lists
        <3>1. f.kind = "list" /\ f.w = 8 /\ f.of \in Seq(Plain)
            BY <2>3 DEF Lists
        <3>2. PICK e : e = v[k] /\ e = [j \in 1..count |-> FieldValues(f.of, seed + 7 * j, size)]
            BY <1>3, <2>1, <3>1
        <3>3. Len(e) = count /\ e = [j \in 1..count |-> e[j]]
            BY <3>2
        <3>4. ASSUME NEW j \in 1..count PROVE FitFields(f.of, e[j])
            <4>1. seed + 7 * j \in Nat
                OBVIOUS
            <4>2. FitFields(f.of, FieldValues(f.of, seed + 7 * j, size))
                BY <3>1, <4>1, FieldsFit
            <4> QED BY <3>2, <4>2
        <3>5. count < Power(Base, 8)
            <4>1. Power(Base, 4) <= Power(Base, 8) /\ Power(Base, 8) \in Nat /\ Power(Base, 4) \in Nat
                <5>1. Base \in Nat /\ Base > 0
                    BY BaseIs
                <5>2. Power(Base, 4) <= Power(Base, 8)
                    BY <5>1, PowerGrows
                <5> QED BY <5>1, <5>2, PowerUnfolds
            <4> QED BY <4>1 DEF U32
        <3> QED BY <2>1, <3>1, <3>2, <3>3, <3>4, <3>5 DEF FitsList
    <2> QED BY <2>2, <2>3
<1>5. v = [k \in 1..n |-> v[k]]
    BY <1>3
<1> QED BY <1>1, <1>2, <1>4, <1>5 DEF FitData

\* The fields are fields, and a layout of two parts is a layout.
LEMMA PlainIs ==
    /\ \A w \in Nat : I(w) \in Plain
    /\ U \in Plain /\ B \in Plain
    /\ \A l \in Seq(Plain) : L(l) \in Lists
BY StreamAssumption DEF Plain, Lists, I, U, B, L

\* The layouts that packets share.
LEMMA SharedLayouts ==
    /\ EntityMinimal \in Seq(Plain) /\ EntityLayout \in Seq(Plain) /\ Identity \in Seq(Plain)
<1>1. PICK i1, i2, i4, i8, u, b \in Plain :
            i1 = I(1) /\ i2 = I(2) /\ i4 = I(4) /\ i8 = I(8) /\ u = U /\ b = B
    BY PlainIs
<1>2. Vec3 \in Seq(Plain)
    BY <1>1 DEF Vec3
<1>3. Aabb3 \in Seq(Plain)
    BY <1>2, ConcatProperties DEF Aabb3
<1>4. TransformLayout \in Seq(Plain)
    <2>1. <<i2>> \in Seq(Plain)
        OBVIOUS
    <2>2. PICK x \in Seq(Plain) : x = <<i2>> \o Vec3
        BY <1>2, <2>1, ConcatProperties
    <2>3. x \o Aabb3 \in Seq(Plain)
        BY <1>3, <2>2, ConcatProperties
    <2> QED BY <1>1, <2>2, <2>3 DEF TransformLayout
<1>5. EntityMinimal \in Seq(Plain)
    <2>1. <<u, i1, u, i8, i8>> \in Seq(Plain)
        OBVIOUS
    <2>2. <<u, i1, u, i8, i8>> \o TransformLayout \in Seq(Plain)
        BY <1>4, <2>1, ConcatProperties
    <2> QED BY <1>1, <2>2 DEF EntityMinimal
<1>6. EntityLayout \in Seq(Plain)
    <2>1. <<b>> \in Seq(Plain)
        OBVIOUS
    <2>2. EntityMinimal \o <<b>> \in Seq(Plain)
        BY <1>5, <2>1, ConcatProperties
    <2> QED BY <1>1, <2>2 DEF EntityLayout
<1>7. Identity \in Seq(Plain)
    BY <1>1 DEF Identity
<1> QED BY <1>5, <1>6, <1>7

\* The layouts of the heads.
LEMMA HeadLayouts ==
    ASSUME NEW type \in DOMAIN PacketTypes
    PROVE  PacketTypes[type].head \in Seq(Plain)
<1>1. PICK i1, i4, i8, u \in Plain : i1 = I(1) /\ i4 = I(4) /\ i8 = I(8) /\ u = U
    BY PlainIs
<1>2. <<u, i4>> \in Seq(Plain) /\ <<i4, i1>> \in Seq(Plain) /\ <<i4>> \in Seq(Plain)
    OBVIOUS
<1>3. (Identity \o EntityLayout) \o <<I(1), I(8), I(8)>> \in Seq(Plain)
    <2>1. <<i1, i8, i8>> \in Seq(Plain)
        OBVIOUS
    <2>2. PICK x \in Seq(Plain) : x = Identity \o EntityLayout
        BY SharedLayouts, ConcatProperties
    <2>3. x \o <<i1, i8, i8>> \in Seq(Plain)
        BY <2>1, <2>2, ConcatProperties
    <2> QED BY <1>1, <2>2, <2>3
<1>4. CASE type \in {"ClientTransferPacket", "EntityTransferPacket"}
    <2>1. PacketTypes[type].head = <<U, I(4)>>
        BY <1>4 DEF PacketTypes
    <2> QED BY <1>1, <1>2, <2>1
<1>5. CASE type = "LocalEntityListRequestPacket"
    <2>1. PacketTypes[type].head = <<I(4), I(1)>>
        BY <1>5 DEF PacketTypes
    <2> QED BY <1>1, <1>2, <2>1
<1>6. CASE type = "CommandPacket"
    <2>1. PacketTypes[type].head = <<I(4)>>
        BY <1>6 DEF PacketTypes
    <2> QED BY <1>1, <1>2, <2>1
<1>7. CASE type = "ClientIDAssignPacket"
    <2>1. PacketTypes[type].head = Identity
        BY <1>7 DEF PacketTypes
    <2> QED BY <2>1, SharedLayouts
<1>8. CASE type = "GenericEntityPacket"
    <2>1. PacketTypes[type].head = (Identity \o EntityLayout) \o <<I(1), I(8), I(8)>>
        BY <1>8 DEF PacketTypes
    <2> QED BY <1>3, <2>1
<1> QED BY <1>4, <1>5, <1>6, <1>7, <1>8 DEF PacketTypes

\* A list, and what may follow it.
LEMMA ListLayouts ==
    ASSUME NEW l \in Seq(Plain)
    PROVE  <<L(l)>> \in Seq(Plain \cup Lists)
<1>1. L(l) \in Plain \cup Lists
    BY PlainIs
<1> QED BY <1>1

\* The layouts of the data.
LEMMA DataLayouts ==
    ASSUME NEW type \in DOMAIN PacketTypes, NEW a \in 1..Len(PacketTypes[type].data)
    PROVE  PacketTypes[type].data[a] \in Seq(Plain \cup Lists)
<1>1. PICK i4, i8, u, b \in Plain : i4 = I(4) /\ i8 = I(8) /\ u = U /\ b = B
    BY PlainIs
<1>2. <<U>> \in Seq(Plain) /\ <<U, I(8)>> \in Seq(Plain) /\ <<U, I(8), I(8)>> \in Seq(Plain)
    BY <1>1
<1>3. EntityLayout \o <<I(8)>> \in Seq(Plain)
    <2>1. <<i8>> \in Seq(Plain)
        OBVIOUS
    <2>2. EntityLayout \o <<i8>> \in Seq(Plain)
        BY <2>1, SharedLayouts, ConcatProperties
    <2> QED BY <1>1, <2>2
<1>4. <<L(<<U>>)>> \o Identity \in Seq(Plain \cup Lists)
    <2>1. <<L(<<U>>)>> \in Seq(Plain \cup Lists)
        BY <1>2, ListLayouts
    <2>2. Identity \in Seq(Plain \cup Lists)
        BY <1>1 DEF Identity
    <2> QED BY <2>1, <2>2, ConcatProperties
<1>5. <<>> \in Seq(Plain \cup Lists) /\ <<B>> \in Seq(Plain \cup Lists)
    BY <1>1
<1> DEFINE S == Seq(Plain \cup Lists)
<1>6. /\ <<L(EntityLayout \o <<I(8)>>)>> \in S /\ <<L(<<U, I(8)>>)>> \in S
      /\ <<L(<<U>>)>> \in S /\ <<L(<<U, I(8), I(8)>>)>> \in S
      /\ <<L(EntityLayout)>> \in S /\ <<L(EntityMinimal)>> \in S
      /\ <<L(<<U>>)>> \o Identity \in S /\ <<>> \in S /\ <<B>> \in S
    BY <1>2, <1>3, <1>4, <1>5, SharedLayouts, ListLayouts
<1> HIDE DEF S
<1>7. CASE type = "ClientTransferPacket"
    <2>1. PacketTypes[type].data = ClientTransferStages
        BY <1>7 DEF PacketTypes
    <2>2. Len(ClientTransferStages) = 6
        BY DEF ClientTransferStages
    <2>3. a \in 1..6
        BY <2>1, <2>2
    <2>4. ClientTransferStages[a] \in S
        <3>1. CASE a = 1
            BY <1>6, <3>1 DEF ClientTransferStages
        <3>2. CASE a = 2
            BY <1>6, <3>2 DEF ClientTransferStages
        <3>3. CASE a = 3
            BY <1>6, <3>3 DEF ClientTransferStages
        <3>4. CASE a = 4
            BY <1>6, <3>4 DEF ClientTransferStages
        <3>5. CASE a = 5
            BY <1>6, <3>5 DEF ClientTransferStages
        <3>6. CASE a = 6
            BY <1>6, <3>6 DEF ClientTransferStages
        <3> QED BY <2>3, <3>1, <3>2, <3>3, <3>4, <3>5, <3>6
    <2> QED BY <2>1, <2>4 DEF S
<1>8. CASE type = "EntityTransferPacket"
    <2>1. PacketTypes[type].data = EntityTransferStages
        BY <1>8 DEF PacketTypes
    <2>2. Len(EntityTransferStages) = 4
        BY DEF EntityTransferStages
    <2>3. a \in 1..4
        BY <2>1, <2>2
    <2>4. EntityTransferStages[a] \in S
        <3>1. CASE a = 1
            BY <1>6, <3>1 DEF EntityTransferStages
        <3>2. CASE a = 2 \/ a = 4
            BY <1>6, <3>2 DEF EntityTransferStages
        <3>3. CASE a = 3
            BY <1>6, <3>3 DEF EntityTransferStages
        <3> QED BY <2>3, <3>1, <3>2, <3>3
    <2> QED BY <2>1, <2>4 DEF S
<1>9. CASE type = "LocalEntityListRequestPacket"
    <2>1. PacketTypes[type].data = EntityLists
        BY <1>9 DEF PacketTypes
    <2>2. Len(EntityLists) = 2
        BY DEF EntityLists
    <2>3. a \in 1..2
        BY <2>1, <2>2
    <2>4. EntityLists[a] \in S
        BY <1>6, <2>3 DEF EntityLists
    <2> QED BY <2>1, <2>4 DEF S
<1>10. CASE type \in {"ClientIDAssignPacket", "GenericEntityPacket"}
    <2>1. PacketTypes[type].data = << <<>> >>
        BY <1>10 DEF PacketTypes
    <2>2. a = 1
        BY <2>1
    <2> QED BY <1>5, <2>1, <2>2
<1>11. CASE type = "CommandPacket"
    <2>1. PacketTypes[type].data = << <<B>> >>
        BY <1>11 DEF PacketTypes
    <2>2. a = 1
        BY <2>1
    <2> QED BY <1>5, <2>1, <2>2
<1> QED BY <1>7, <1>8, <1>9, <1>10, <1>11 DEF PacketTypes

\* Two fields that fit.
LEMMA PairFits ==
    ASSUME NEW f1, NEW v1, Fits(f1, v1), NEW f2, NEW v2, Fits(f2, v2)
    PROVE  FitFields(<<f1, f2>>, <<v1, v2>>)
<1>1. Len(<<f1, f2>>) = 2
    OBVIOUS
<1>2. \A k \in 1..2 : k = 1 \/ k = 2
    OBVIOUS
<1>3. \A k \in 1..2 : Fits(<<f1, f2>>[k], <<v1, v2>>[k])
    BY <1>2
<1>4. <<v1, v2>> = [k \in 1..2 |-> <<v1, v2>>[k]]
    OBVIOUS
<1> QED BY <1>1, <1>3, <1>4 DEF FitFields

\* Small numbers fit.
LEMMA NumberFits ==
    /\ \A w \in Nat \ {0}, v \in 0..3 : Fits(I(w), v)
    /\ \A v \in 0..6 : Fits(I(4), v)
<1>1. ASSUME NEW w \in Nat \ {0}, NEW v \in 0..3 PROVE Fits(I(w), v)
    <2>1. Power(Base, w) \in Nat /\ Power(Base, w) > 3
        BY SmallFits
    <2>2. v \in Nat /\ v < Power(Base, w)
        BY <2>1
    <2> QED BY <2>2 DEF Fits, I
<1>2. ASSUME NEW v \in 0..6 PROVE Fits(I(4), v)
    <2>1. v \in Nat /\ v < Power(Base, 4)
        BY TypesFit DEF U32
    <2> QED BY <2>1 DEF Fits, I
<1> QED BY <1>1, <1>2

\* The heads that the program writes fit, and stand for the alternative.
LEMMA HeadsFit ==
    ASSUME NEW type \in Registered, NEW a \in 1..Len(PacketTypes[type].data),
           NEW seed \in Nat, NEW size \in Nat, size < U32, NEW h \in HeadsOf(type, a, seed, size)
    PROVE  /\ FitFields(PacketTypes[type].head, h)
           /\ ~IsQuery(type, h) => AlternativeOf(type, h) = a
           /\ IsQuery(type, h) => AlternativeOf(type, h) \in 1..2
<1>1. PICK u : u = FieldValue(U, seed) /\ Fits(U, u)
    <2>1. U \in Plain /\ U.kind = "uuid"
        BY PlainIs DEF U
    <2> QED BY <2>1, ValueFits
<1>2. type \in {"ClientTransferPacket", "EntityTransferPacket", "LocalEntityListRequestPacket",
                 "ClientIDAssignPacket", "GenericEntityPacket"}
    BY DEF Registered, PacketTypes
<1>3. CASE type \in {"ClientTransferPacket", "EntityTransferPacket"}
    <2>1. h = <<u, a - 1>>
        BY <1>1, <1>3 DEF HeadsOf
    <2>2. PacketTypes[type].head = <<U, I(4)>>
        BY <1>3 DEF PacketTypes
    <2>3. Len(PacketTypes[type].data) \in {4, 6}
        BY <1>3 DEF PacketTypes, ClientTransferStages, EntityTransferStages
    <2>4. a - 1 \in 0..6 /\ a - 1 < Len(PacketTypes[type].data) /\ (a - 1) + 1 = a
        <3>1. PICK n \in {4, 6} : n = Len(PacketTypes[type].data) /\ a \in 1..n
            BY <2>3
        <3>2. a - 1 \in 0..6 /\ a - 1 < n /\ (a - 1) + 1 = a
            <4>1. CASE n = 4
                BY ONLY <3>1, <4>1
            <4>2. CASE n = 6
                BY ONLY <3>1, <4>2
            <4> QED BY <3>1, <4>1, <4>2
        <3> QED BY <3>1, <3>2
    <2>5. FitFields(PacketTypes[type].head, h)
        BY <1>1, <2>1, <2>2, <2>4, NumberFits, PairFits
    <2>6. h[2] = a - 1
        BY <2>1
    <2>7. AlternativeOf(type, h) = a
        BY <1>3, <2>4, <2>6 DEF AlternativeOf
    <2> QED BY <1>3, <2>5, <2>7 DEF IsQuery
<1>4. CASE type = "LocalEntityListRequestPacket"
    <2>1. h \in {<<0, 0>>, <<0, 1>>, <<1, 2 - a>>}
        BY <1>4 DEF HeadsOf
    <2>2. PacketTypes[type].head = <<I(4), I(1)>>
        BY <1>4 DEF PacketTypes
    <2>3. a = 1 \/ a = 2
        <3>1. Len(PacketTypes[type].data) = 2
            BY <1>4 DEF PacketTypes, EntityLists
        <3> QED BY <3>1
    <2>4. PICK x \in 0..1, y \in 0..1 : h = <<x, y>> /\ (x # 0 => y = 2 - a)
        <3>1. CASE h = <<0, 0>> \/ h = <<0, 1>>
            BY <3>1
        <3>2. CASE h = <<1, 2 - a>>
            BY <2>3, <3>2
        <3> QED BY <2>1, <3>1, <3>2
    <2>5. FitFields(PacketTypes[type].head, h)
        BY <2>2, <2>4, NumberFits, PairFits
    <2>6. h[1] = x /\ h[2] = y
        BY <2>4
    <2>7. AlternativeOf(type, h) = IF y # 0 THEN 1 ELSE 2
        BY <1>4, <2>6 DEF AlternativeOf
    <2>8. IsQuery(type, h) <=> x = 0
        BY <1>4, <2>6 DEF IsQuery
    <2> QED BY <2>3, <2>4, <2>5, <2>7, <2>8
<1>5. CASE type = "ClientIDAssignPacket"
    <2>1. h = <<4, u>> /\ PacketTypes[type].head = <<I(4), U>>
        BY <1>1, <1>5 DEF HeadsOf, PacketTypes, Identity
    <2>2. a = 1 /\ AlternativeOf(type, h) = 1
        <3>1. Len(PacketTypes[type].data) = 1
            BY <1>5 DEF PacketTypes
        <3>2. AlternativeOf(type, h) = 1
            BY <1>5 DEF AlternativeOf
        <3> QED BY <3>1, <3>2
    <2>3. FitFields(PacketTypes[type].head, h)
        BY <1>1, <2>1, NumberFits, PairFits
    <2> QED BY <1>5, <2>2, <2>3 DEF IsQuery
<1>6. CASE type = "GenericEntityPacket"
    <2>1. h = FieldValues(PacketTypes[type].head, seed, size)
        BY <1>6 DEF HeadsOf
    <2>2. a = 1 /\ AlternativeOf(type, h) = 1
        <3>1. Len(PacketTypes[type].data) = 1
            BY <1>6 DEF PacketTypes
        <3>2. AlternativeOf(type, h) = 1
            BY <1>6 DEF AlternativeOf
        <3> QED BY <3>1, <3>2
    <2>3. PacketTypes[type].head \in Seq(Plain)
        BY HeadLayouts DEF Registered
    <2>4. FitFields(PacketTypes[type].head, h)
        BY <2>1, <2>3, FieldsFit
    <2> QED BY <1>6, <2>2, <2>4 DEF IsQuery
<1> QED BY <1>2, <1>3, <1>4, <1>5, <1>6

\* An empty list is written the same whatever it is a list of.
LEMMA EmptyLists ==
    ASSUME NEW l1 \in Seq(Plain), NEW l2 \in Seq(Plain), NEW v, v = << <<>> >>
    PROVE  WriteData(<<L(l1)>>, v) = WriteData(<<L(l2)>>, v)
<1>1. ASSUME NEW l \in Seq(Plain)
      PROVE  WriteData(<<L(l)>>, v) = FlattenSeq([k \in 1..1 |-> PushBe(8, 0) \o FlattenSeq(<<>>)])
    <2>1. Len(<<L(l)>>) = 1 /\ <<L(l)>>[1] = L(l) /\ v[1] = <<>> /\ Len(<<>>) = 0
        OBVIOUS
    <2>2. [k \in 1..0 |-> WriteFields(l, <<>>[k])] = <<>>
        OBVIOUS
    <2>3. L(l).kind = "list" /\ L(l).w = 8 /\ L(l).of = l
        BY DEF L
    <2>4. WriteListOrField(L(l), <<>>) = PushBe(8, 0) \o FlattenSeq(<<>>)
        BY <2>1, <2>2, <2>3 DEF WriteListOrField
    <2>5. \A k \in 1..1 : k = 1
        OBVIOUS
    <2>6. [k \in 1..1 |-> WriteListOrField(<<L(l)>>[k], v[k])] = [k \in 1..1 |-> PushBe(8, 0) \o FlattenSeq(<<>>)]
        BY <2>1, <2>4, <2>5
    <2> QED BY <2>1, <2>6 DEF WriteData
<1> QED BY <1>1

\* The packets that the program builds are well formed.
LEMMA OutgoingArePackets ==
    ASSUME NEW type \in Registered, NEW a \in 1..Len(PacketTypes[type].data), NEW seed \in Seeds,
           NEW count \in 0..MaxList, NEW size \in BlobSizes,
           NEW p \in OutgoingPackets(type, a, seed, count, size), Validate(p)
    PROVE  IsPacket(p)
<1>1. /\ seed \in Nat /\ size \in Nat /\ size < U32 /\ count \in Nat /\ count < U32
    BY TypesFit, WireAssumption
<1>2. PICK h \in HeadsOf(type, a, seed, size) :
        p = [type |-> type, head |-> h, alternative |-> IF IsQuery(type, h) THEN 1 ELSE a,
             data |-> DataValues(PacketTypes[type].data[a], seed, IF IsQuery(type, h) THEN 0 ELSE count, size)]
    BY DEF OutgoingPackets
<1>3. PICK n \in Nat : n = (IF IsQuery(type, h) THEN 0 ELSE count) /\ n < U32
    BY <1>1, TypesFit
<1>4. PICK d : d = DataValues(PacketTypes[type].data[a], seed, n, size)
    OBVIOUS
<1>5. /\ p.type = type /\ p.head = h /\ p.data = d
      /\ p.alternative = IF IsQuery(type, h) THEN 1 ELSE a
      /\ p = [type |-> p.type, head |-> p.head, alternative |-> p.alternative, data |-> p.data]
    BY <1>2, <1>3, <1>4
<1>6. /\ FitFields(PacketTypes[type].head, h)
      /\ ~IsQuery(type, h) => AlternativeOf(type, h) = a
      /\ IsQuery(type, h) => AlternativeOf(type, h) \in 1..2
    BY <1>1, HeadsFit
<1>7. type \in DOMAIN PacketTypes
    BY DEF Registered
<1>8. FitData(PacketTypes[type].data[a], d)
    BY <1>1, <1>3, <1>4, <1>7, DataLayouts, DataFit
<1>9. CASE ~IsQuery(type, h)
    <2>1. p.alternative = a /\ Chosen(p) = a
        BY <1>5, <1>6, <1>9 DEF Chosen
    <2>2. Built(p) = p
        BY <1>5, <2>1 DEF Built
    <2>3. a # 0
        OBVIOUS
    <2> QED BY <1>5, <1>6, <1>7, <1>8, <2>1, <2>2, <2>3 DEF IsPacket
<1>10. CASE IsQuery(type, h)
    <2>1. type = "LocalEntityListRequestPacket" /\ h[1] = 0
        BY <1>10 DEF IsQuery
    <2>2. PICK layouts : /\ layouts = PacketTypes[type].data
                         /\ layouts = << <<L(EntityLayout)>>, <<L(EntityMinimal)>> >>
        BY <2>1 DEF PacketTypes, EntityLists
    <2>3. Len(layouts) = 2
        BY <2>2
    <2>4. ASSUME NEW x \in 1..2 PROVE \E l \in Seq(Plain) : layouts[x] = <<L(l)>>
        <3>1. x = 1 \/ x = 2
            OBVIOUS
        <3>2. layouts[1] = <<L(EntityLayout)>> /\ layouts[2] = <<L(EntityMinimal)>>
            BY <2>2
        <3> QED BY <3>1, <3>2, SharedLayouts
    <2>5. a \in 1..2 /\ Chosen(p) \in 1..2 /\ p.alternative \in 1..2
        BY <1>5, <1>6, <1>10, <2>2, <2>3 DEF Chosen
    <2>6. PICK la, lc, lp \in Seq(Plain) :
            layouts[a] = <<L(la)>> /\ layouts[Chosen(p)] = <<L(lc)>> /\ layouts[p.alternative] = <<L(lp)>>
        BY <2>4, <2>5
    <2>7. n = 0
        BY <1>3, <1>10
    <2>8. ASSUME NEW l \in Seq(Plain) PROVE DataValues(<<L(l)>>, seed, 0, size) = << <<>> >>
        <3>1. Len(<<L(l)>>) = 1 /\ <<L(l)>>[1].kind = "list" /\ \A k \in 1..1 : k = 1
            BY DEF L
        <3>2. [j \in 1..0 |-> FieldValues(<<L(l)>>[1].of, seed + 7 * j, size)] = <<>>
            OBVIOUS
        <3>3. DataValues(<<L(l)>>, seed, 0, size) = [k \in 1..1 |-> <<>>]
            BY <3>1, <3>2 DEF DataValues
        <3> QED BY <3>3
    <2>9. d = << <<>> >>
        BY <1>4, <2>2, <2>6, <2>7, <2>8
    <2>10. WriteData(layouts[p.alternative], d) = WriteData(layouts[Chosen(p)], d)
        BY <2>6, <2>9, EmptyLists
    <2>11. FitData(layouts[Chosen(p)], d)
        <3>1. layouts[Chosen(p)] \in Seq(Plain \cup Lists)
            BY <2>6, ListLayouts
        <3>2. d = DataValues(layouts[Chosen(p)], seed, 0, size)
            BY <2>6, <2>8, <2>9
        <3>3. 0 < U32
            BY TypesFit
        <3> QED BY <1>1, <3>1, <3>2, <3>3, DataFit
    <2>12. Validate(Built(p))
        <3>1. Built(p).type = type /\ Built(p).head = h
            BY <1>5 DEF Built
        <3> QED BY <2>1, <3>1 DEF Validate
    <2>13. Chosen(p) # 0
        BY <2>5
    <2> QED BY <1>5, <1>6, <1>7, <2>2, <2>10, <2>11, <2>12, <2>13 DEF IsPacket
<1> QED BY <1>9, <1>10

-----------------------------------------------------------------------------
\* A power of a positive number is one.
LEMMA PowerIs ==
    ASSUME NEW b \in Nat, b > 0, NEW n \in Nat
    PROVE  \E m \in Nat : m = Power(b, n) /\ m > 0
<1>1. Power(b, n) \in Nat
    BY PowerUnfolds
<1>2. Power(b, n) > 0
    BY PowerPositive
<1> QED BY <1>1, <1>2

\* A multiple of the divisor is carried through a division.
LEMMA AddDiv ==
    ASSUME NEW a \in Nat, NEW x \in Nat, NEW m \in Nat, m > 0
    PROVE  (a + m * x) \div m = (a \div m) + x /\ (a + m * x) % m = a % m
<1>1. PICK q, s \in Nat : s < m /\ a = q * m + s /\ a \div m = q /\ a % m = s
    BY DivMod
<1>2. a + m * x = (q + x) * m + s
    BY <1>1
<1>3. PICK v \in Nat : v = a + m * x
    OBVIOUS
<1>4. q + x \in Nat
    OBVIOUS
<1>5. v \div m = q + x /\ v % m = s
    BY <1>1, <1>2, <1>3, <1>4, DivMod
<1> QED BY <1>1, <1>3, <1>5

\* The digits below k, when k is m times n, are those below m and then n more.
Times(k, m, n) == k = m * n
LEMMA ModMul ==
    ASSUME NEW v \in Nat, NEW m \in Nat, m > 0, NEW n \in Nat, n > 0, NEW k \in Nat, Times(k, m, n)
    PROVE  /\ v % k = (v % m) + m * ((v \div m) % n)
           /\ (v % k) \div m = (v \div m) % n
<1>1. PICK q, a \in Nat : a < m /\ v = q * m + a /\ v \div m = q /\ v % m = a
    BY DivMod
<1>2. PICK p, s \in Nat : s < n /\ q = p * n + s /\ q % n = s
    BY DivMod
<1>3. k = m * n /\ k > 0
    BY DEF Times
<1>4. PICK t \in Nat : t = a + m * s
    OBVIOUS
<1>5. v = p * k + t
    <2>1. q * m = p * (m * n) + m * s
        BY <1>2
    <2> QED BY <1>1, <1>3, <1>4, <2>1
<1>6. t < k
    <2>1. PICK d \in Nat : n = s + 1 + d
        <3>1. n - s - 1 \in Nat /\ n = s + 1 + (n - s - 1)
            BY <1>2
        <3> QED BY <3>1
    <2>2. m * n = m * s + m + m * d
        BY <2>1
    <2>3. m * d \in Nat
        OBVIOUS
    <2> QED BY <1>1, <1>3, <1>4, <2>2, <2>3
<1>7. v % k = t
    <2>1. \A x, y \in Nat : y < k /\ v = x * k + y => v % k = y
        BY <1>3, DivMod
    <2> HIDE <1>3, <1>4
    <2> QED BY <1>5, <1>6, <2>1
<1>8. t \div m = (a \div m) + s
    BY <1>4, AddDiv
<1>9. a \div m = 0
    BY <1>1, DivBelow
<1> QED BY <1>1, <1>2, <1>3, <1>4, <1>7, <1>8, <1>9

\* The lowest digits stay when a multiple is added.
More(y, v, c) == \E x \in Nat : y = v + c * x
LEMMA LowestStay ==
    ASSUME NEW v \in Nat, NEW c \in Nat, c > 0, NEW y \in Nat, More(y, v, c)
    PROVE  y % c = v % c
<1>1. PICK x \in Nat : y = v + c * x
    BY DEF More
<1>2. (v + c * x) % c = v % c
    BY AddDiv
<1> QED BY <1>1, <1>2

\* Number y is v with more put above the digits that m and c count.
Above(y, v, m, c) == \E x \in Nat : y = v + m * (c * x)

\* These digits stay.
LEMMA DigitStays ==
    ASSUME NEW v \in Nat, NEW m \in Nat, m > 0, NEW c \in Nat, c > 0, NEW y \in Nat, Above(y, v, m, c)
    PROVE  (y \div m) % c = (v \div m) % c
<1>1. PICK x \in Nat : y = v + m * (c * x)
    BY DEF Above
<1>2. PICK z \in Nat : z = c * x
    OBVIOUS
<1>3. (v + m * z) \div m = (v \div m) + z
    BY AddDiv
<1>4. PICK a \in Nat : a = v \div m
    BY DivMod
<1>5. (a + c * x) % c = a % c
    BY ZenonT(60), AddDiv
<1> QED BY <1>1, <1>2, <1>3, <1>4, <1>5

\* Powers multiply.
LEMMA PowerAdds ==
    ASSUME NEW b \in Nat, NEW n \in Nat, NEW m \in Nat
    PROVE  Power(b, n + m) = Power(b, n) * Power(b, m)
<1>1. PICK p \in Nat : p = Power(b, n)
    BY PowerUnfolds
<1> DEFINE S == {k \in Nat : Power(b, n + k) = p * Power(b, k)}
<1>2. 0 \in S
    <2>1. n + 0 = n /\ Power(b, 0) = 1
        BY PowerUnfolds
    <2> QED BY <1>1, <2>1
<1>3. ASSUME NEW k \in Nat, k \in S PROVE k + 1 \in S
    <2>1. PICK q \in Nat : q = Power(b, k) /\ Power(b, k + 1) = b * q
        BY PowerUnfolds
    <2>2. Power(b, n + k) = p * q
        BY <1>3, <2>1
    <2>3. n + k \in Nat /\ (n + k) + 1 = n + (k + 1)
        OBVIOUS
    <2>4. Power(b, (n + k) + 1) = b * (p * q)
        BY <2>2, <2>3, PowerUnfolds
    <2>5. b * (p * q) = p * (b * q)
        OBVIOUS
    <2> QED BY <2>1, <2>3, <2>4, <2>5
<1>4. Nat \subseteq S
    <2> HIDE DEF S
    <2> QED BY <1>2, <1>3, InductionOnNat
<1>5. m \in S
    BY <1>4
<1> QED BY <1>1, <1>5

\* A number of bytes is ByteBits as many bits.
LEMMA BytesAreBits ==
    ASSUME NEW n \in Nat
    PROVE  Power(Base, n) = Power(2, ByteBits * n)
<1>1. ByteBits \in Nat /\ Base \in Nat /\ Base = Power(2, ByteBits)
    BY StreamAssumption, BaseIs
<1> DEFINE S == {k \in Nat : Power(Base, k) = Power(2, ByteBits * k)}
<1>2. 0 \in S
    <2>1. ByteBits * 0 = 0
        BY <1>1
    <2> QED BY <1>1, <2>1, PowerUnfolds
<1>3. ASSUME NEW k \in Nat, k \in S PROVE k + 1 \in S
    <2>1. PICK x \in Nat : x = ByteBits * k
        BY <1>1
    <2>2. ByteBits * (k + 1) = ByteBits + x
        BY <1>1, <2>1
    <2>3. Power(2, ByteBits + x) = Power(2, ByteBits) * Power(2, x)
        BY <1>1, <2>1, PowerAdds
    <2>4. Power(Base, k + 1) = Base * Power(Base, k)
        BY <1>1, PowerUnfolds
    <2> QED BY <1>1, <1>3, <2>1, <2>2, <2>3, <2>4
<1>4. Nat \subseteq S
    <2> HIDE DEF S
    <2> QED BY <1>2, <1>3, InductionOnNat
<1> QED BY <1>4

\* Fields of bits, and the number that is written: the bits of field j stand from offset o[j] on.
IsFields(fs) ==
    /\ fs \in Seq([value : Nat, count : 0..(4 * ByteBits)])
    /\ \A k \in 1..Len(fs) : fs[k].value < Power(2, fs[k].count)
HasFields(v, o, fs, k) ==
    /\ v \in Nat /\ o \in [1..(k + 1) -> Nat] /\ o[1] = 0 /\ v < Power(2, o[k + 1])
    /\ \A j \in 1..k : /\ o[j + 1] = o[j] + fs[j].count
                       /\ (v \div Power(2, o[j])) % Power(2, fs[j].count) = fs[j].value
    /\ \A j \in 1..(k + 1) : o[j] <= o[k + 1]

\* The bytes b are the lowest of v; a writer that has written the n bits of v.
AreBytesOf(b, v) == \A k \in 1..Len(b) : b[k] = (v \div Power(Base, k - 1)) % Base
Written(w, v, n) ==
    /\ w \in [buf : Seq(Nat), bitBuffer : Nat, bitPos : Nat]
    /\ AreBytesOf(w.buf, v)
    /\ w.bitBuffer = v \div Power(Base, Len(w.buf))
    /\ ByteBits * Len(w.buf) + w.bitPos = n /\ w.bitPos < ByteBits

\* One more field goes above the bits there are.
LEMMA FieldAbove ==
    ASSUME NEW v \in Nat, NEW n \in Nat, v < Power(2, n), NEW x \in Nat, NEW c \in Nat, x < Power(2, c)
    PROVE  /\ v + x * Power(2, n) \in Nat
           /\ v + x * Power(2, n) < Power(2, n + c)
           /\ ((v + x * Power(2, n)) \div Power(2, n)) % Power(2, c) = x
           /\ \A p, d \in Nat : p + d <= n =>
                  ((v + x * Power(2, n)) \div Power(2, p)) % Power(2, d) = (v \div Power(2, p)) % Power(2, d)
<1>1. PICK m \in Nat : m = Power(2, n) /\ m > 0 /\ v < m
    BY PowerIs
<1>2. PICK e \in Nat : e = Power(2, c) /\ e > 0 /\ x < e
    BY PowerIs
<1>3. PICK y \in Nat : y = v + x * m
    OBVIOUS
<1>4. y = v + m * x
    BY <1>3
<1>5. y < m * e
    <2>1. PICK d \in Nat : e = x + 1 + d
        <3>1. e - x - 1 \in Nat /\ e = x + 1 + (e - x - 1)
            BY <1>2
        <3> QED BY <3>1
    <2>2. m * e = m * x + m + m * d
        BY <2>1
    <2>3. m * d \in Nat
        OBVIOUS
    <2> QED BY <1>1, <1>4, <2>2, <2>3
<1>6. Power(2, n + c) = m * e
    BY <1>1, <1>2, PowerAdds
<1>7. (y \div m) % e = x
    <2>1. m > 0
        BY <1>1
    <2>2. (v + m * x) \div m = (v \div m) + x
        BY <2>1, AddDiv
    <2>3. v \div m = 0 /\ x % e = x
        BY <1>1, <1>2, DivBelow
    <2>4. y \div m = 0 + x
        BY <1>4, <2>2, <2>3
    <2>5. 0 + x = x
        OBVIOUS
    <2> QED BY <2>3, <2>4, <2>5
<1>8. ASSUME NEW p \in Nat, NEW d \in Nat, p + d <= n
      PROVE  (y \div Power(2, p)) % Power(2, d) = (v \div Power(2, p)) % Power(2, d)
    <2>1. PICK a \in Nat : a = Power(2, p) /\ a > 0
        BY PowerIs
    <2>2. PICK b \in Nat : b = Power(2, d) /\ b > 0
        BY PowerIs
    <2>3. PICK k \in Nat : n = p + (d + k)
        <3>1. n - (p + d) \in Nat /\ n = p + (d + (n - (p + d)))
            BY <1>8
        <3> QED BY <3>1
    <2>4. PICK g \in Nat : g = Power(2, k)
        BY PowerUnfolds
    <2>5. m = a * (b * g)
        <3>1. d + k \in Nat /\ Power(2, d + k) = b * g
            BY <2>2, <2>4, PowerAdds
        <3> QED BY <1>1, <2>1, <2>3, <3>1, PowerAdds
    <2>6. Above(y, v, a, b)
        <3>1. g * x \in Nat
            OBVIOUS
        <3>2. m * x = a * (b * (g * x))
            BY <2>5
        <3> QED BY <1>4, <3>1, <3>2 DEF Above
    <2>7. a > 0 /\ b > 0
        BY <2>1, <2>2
    <2>8. (y \div a) % b = (v \div a) % b
        BY <2>6, <2>7, DigitStays
    <2> QED BY <2>1, <2>2, <2>8
<1> QED BY <1>1, <1>2, <1>3, <1>5, <1>6, <1>7, <1>8

\* So the number of one field more has this field as well.
LEMMA FieldsAbove ==
    ASSUME NEW fs, IsFields(fs), NEW k \in Nat, k + 1 <= Len(fs), NEW v, NEW o, HasFields(v, o, fs, k)
    PROVE  \E x, c, n \in Nat : /\ x = fs[k + 1].value /\ c = fs[k + 1].count /\ n = o[k + 1] /\ v \in Nat
                                /\ \E y, p : /\ y = v + x * Power(2, n) /\ HasFields(y, p, fs, k + 1)
                                             /\ p[(k + 1) + 1] = n + c
<1>1. Len(fs) \in Nat /\ k + 1 \in 1..Len(fs) /\ ByteBits \in Nat
    BY LenProperties, StreamAssumption DEF IsFields
<1>2. \A j \in 1..Len(fs) : fs[j].value \in Nat /\ fs[j].count \in Nat /\ fs[j].value < Power(2, fs[j].count)
    <2>1. \A j \in 1..Len(fs) : fs[j] \in [value : Nat, count : 0..(4 * ByteBits)]
        BY ElementOfSeq DEF IsFields
    <2> QED BY SMTT(30), <1>1, <2>1 DEF IsFields
<1>3. PICK x, c \in Nat : x = fs[k + 1].value /\ c = fs[k + 1].count /\ x < Power(2, c)
    BY <1>1, <1>2
<1>4. k + 1 \in 1..(k + 1) /\ 1 \in 1..(k + 1) /\ (k + 1) + 1 = k + 2 /\ k + 2 \in 1..(k + 2)
    OBVIOUS
<1>5. PICK n \in Nat : n = o[k + 1] /\ v < Power(2, n) /\ v \in Nat
    BY <1>4 DEF HasFields
<1> DEFINE p == [j \in 1..(k + 2) |-> IF j <= k + 1 THEN o[j] ELSE n + c]
<1>6. PICK y : y = v + x * Power(2, n)
    OBVIOUS
<1>7. /\ y \in Nat /\ y < Power(2, n + c)
      /\ (y \div Power(2, n)) % Power(2, c) = x
      /\ \A q, d \in Nat : q + d <= n => (y \div Power(2, q)) % Power(2, d) = (v \div Power(2, q)) % Power(2, d)
    <2>1. v \in Nat /\ v < Power(2, n) /\ x < Power(2, c)
        BY <1>3, <1>5
    <2>2. /\ v + x * Power(2, n) \in Nat /\ v + x * Power(2, n) < Power(2, n + c)
          /\ ((v + x * Power(2, n)) \div Power(2, n)) % Power(2, c) = x
          /\ \A q, d \in Nat : q + d <= n =>
                 ((v + x * Power(2, n)) \div Power(2, q)) % Power(2, d) = (v \div Power(2, q)) % Power(2, d)
        BY <2>1, FieldAbove
    <2> QED BY <1>6, <2>2
<1>8. \A j \in 1..(k + 1) : p[j] = o[j] /\ o[j] \in Nat /\ o[j] <= n
    BY <1>5 DEF HasFields
<1>9. p[(k + 1) + 1] = n + c
    BY <1>4
<1>10. p \in [1..((k + 1) + 1) -> Nat]
    <2>1. n + c \in Nat
        OBVIOUS
    <2>2. \A j \in 1..(k + 2) : j <= k + 1 => j \in 1..(k + 1)
        OBVIOUS
    <2>3. \A j \in 1..(k + 2) : p[j] \in Nat
        BY <1>8, <2>1, <2>2
    <2>4. p \in [1..(k + 2) -> Nat]
        BY <2>3
    <2> QED BY <1>4, <2>4
<1>11. p[1] = 0
    BY <1>4, <1>8 DEF HasFields
<1> HIDE DEF p
<1>12. ASSUME NEW j \in 1..(k + 1)
       PROVE  p[j + 1] = p[j] + fs[j].count /\ (y \div Power(2, p[j])) % Power(2, fs[j].count) = fs[j].value
    <2>1. CASE j = k + 1
        BY <1>3, <1>4, <1>5, <1>7, <1>8, <1>9, <2>1
    <2>2. CASE j # k + 1
        <3>1. j \in 1..k /\ j + 1 \in 1..(k + 1) /\ j \in 1..Len(fs)
            BY <1>1, <2>2
        <3>2. o[j + 1] = o[j] + fs[j].count /\ (v \div Power(2, o[j])) % Power(2, fs[j].count) = fs[j].value
            BY <3>1 DEF HasFields
        <3>3. fs[j].count \in Nat /\ o[j] \in Nat /\ o[j] + fs[j].count <= n
            BY <1>2, <1>8, <3>1, <3>2
        <3>4. (y \div Power(2, o[j])) % Power(2, fs[j].count) = (v \div Power(2, o[j])) % Power(2, fs[j].count)
            BY <1>7, <3>3
        <3> QED BY <1>8, <3>1, <3>2, <3>4
    <2> QED BY <2>1, <2>2
<1>13. ASSUME NEW j \in 1..((k + 1) + 1) PROVE p[j] <= p[(k + 1) + 1]
    <2>1. CASE j = k + 2
        BY <1>3, <1>4, <1>5, <1>9, <2>1
    <2>2. CASE j # k + 2
        <3>1. j \in 1..(k + 1)
            BY <2>2
        <3>2. p[j] = o[j] /\ o[j] \in Nat /\ o[j] <= n
            BY <1>8, <3>1
        <3>3. PICK u \in Nat : u = p[j] /\ u <= n
            BY <3>2
        <3>4. u <= n + c
            BY <3>3
        <3> QED BY <1>9, <3>3, <3>4
    <2> QED BY <2>1, <2>2
<1>14. HasFields(y, p, fs, k + 1)
    BY <1>7, <1>9, <1>10, <1>11, <1>12, <1>13 DEF HasFields
<1> QED BY <1>3, <1>5, <1>6, <1>9, <1>14

\* bits and flush_bits put a field above what was written.
LEMMA BitsAppend ==
    ASSUME NEW w, NEW v \in Nat, NEW n \in Nat, Written(w, v, n), NEW x \in Nat, NEW c \in Nat
    PROVE  Written(Bits(w, x, c), v + x * Power(2, n), n + c)
<1>1. ByteBits \in Nat /\ ByteBits > 0 /\ Base \in Nat /\ Base > 0
    BY StreamAssumption, BaseIs
<1>2. PICK buf \in Seq(Nat) : buf = w.buf
    BY DEF Written
<1>3. PICK l \in Nat : l = Len(buf)
    BY LenProperties
<1>4. PICK p \in Nat : p = w.bitPos /\ p < ByteBits /\ ByteBits * l + p = n
    BY <1>2, <1>3 DEF Written
<1>5. PICK m \in Nat : m = Power(Base, l) /\ m > 0
    BY <1>1, PowerIs
<1>6. PICK q \in Nat : q = Power(2, p) /\ q > 0
    BY PowerIs
<1>7. Power(2, n) = m * q
    <2>1. PICK d \in Nat : d = ByteBits * l
        BY <1>1
    <2>2. m = Power(2, d) /\ n = d + p
        BY <1>4, <1>5, <2>1, BytesAreBits
    <2> QED BY <1>6, <2>2, PowerAdds
<1>8. PICK z \in Nat : z = x * q
    OBVIOUS
<1>9. PICK y \in Nat : y = v + m * z
    OBVIOUS
<1>10. y = v + x * Power(2, n)
    <2>1. x * (m * q) = m * (x * q)
        OBVIOUS
    <2> QED BY <1>7, <1>8, <1>9, <2>1
<1>11. PICK buffer \in Nat : buffer = w.bitBuffer + z /\ y \div m = buffer
    <2>1. m > 0
        BY <1>5
    <2>2. (v + m * z) \div m = (v \div m) + z
        BY <2>1, AddDiv
    <2>3. w.bitBuffer = v \div m /\ v \div m \in Nat
        BY <1>2, <1>3, <1>5, DivMod DEF Written
    <2> QED BY <1>9, <2>2, <2>3
<1>12. PICK full, rest \in Nat : /\ full = (p + c) \div ByteBits /\ rest = (p + c) % ByteBits
                                 /\ rest < ByteBits /\ p + c = full * ByteBits + rest
    <2>1. p + c \in Nat
        OBVIOUS
    <2> QED BY <1>1, <2>1, DivMod
<1>13. ASSUME NEW k \in Nat PROVE buffer \div Power(Base, k) = y \div Power(Base, l + k)
    <2>1. PICK e \in Nat : e = Power(Base, k) /\ e > 0
        BY <1>1, PowerIs
    <2>2. m > 0 /\ e > 0
        BY <1>5, <2>1
    <2>3. (y \div m) \div e = y \div (e * m)
        BY <2>2, DivDiv
    <2>4. Power(Base, l + k) = m * e
        BY <1>1, <1>5, <2>1, PowerAdds
    <2>5. m * e = e * m
        OBVIOUS
    <2> QED BY <1>11, <2>1, <2>3, <2>4, <2>5
<1> DEFINE more == [k \in 1..full |-> (buffer \div Power(Base, k - 1)) % Base]
<1>14. ASSUME NEW k \in 1..full PROVE more[k] = (y \div Power(Base, l + (k - 1))) % Base /\ more[k] \in Nat
    <2>1. k - 1 \in Nat /\ l + (k - 1) \in Nat
        OBVIOUS
    <2>2. more[k] = (y \div Power(Base, l + (k - 1))) % Base
        BY <1>13, <2>1
    <2>3. y \div Power(Base, l + (k - 1)) \in Nat
        BY <1>1, <2>1, DivPower
    <2> HIDE DEF more
    <2> QED BY <1>1, <2>2, <2>3, DivMod
<1>15. more \in Seq(Nat) /\ Len(more) = full
    <2>1. more \in [1..full -> Nat]
        BY <1>14
    <2> HIDE DEF more
    <2> QED BY <2>1, IsASeq, LenProperties
<1> HIDE DEF more
<1>16. PICK new \in Seq(Nat) :
           /\ new = buf \o more /\ Len(new) = l + full
           /\ \A k \in 1..(l + full) : new[k] = IF k <= l THEN buf[k] ELSE more[k - l]
    <2>1. buf \o more \in Seq(Nat) /\ Len(buf \o more) = l + full
        BY <1>3, <1>15, ConcatProperties
    <2>2. \A k \in 1..(l + full) : (buf \o more)[k] = IF k <= l THEN buf[k] ELSE more[k - l]
        BY <1>3, <1>15, ConcatProperties
    <2> QED BY <2>1, <2>2
<1>17. ASSUME NEW k \in 1..(l + full) PROVE new[k] = (y \div Power(Base, k - 1)) % Base
    <2>1. CASE k <= l
        <3>1. k \in 1..l /\ k - 1 \in Nat /\ l - k \in Nat
            BY <2>1
        <3>2. buf[k] = (v \div Power(Base, k - 1)) % Base
            BY <1>2, <1>3, <3>1 DEF Written, AreBytesOf
        <3>3. PICK a \in Nat : a = Power(Base, k - 1) /\ a > 0
            BY <1>1, <3>1, PowerIs
        <3>4. PICK g \in Nat : g = Power(Base, l - k)
            BY <1>1, <3>1, PowerUnfolds
        <3>5. m = a * (Base * g)
            <4>1. Power(Base, (l - k) + 1) = Base * g
                BY <1>1, <3>1, <3>4, PowerUnfolds
            <4>2. (l - k) + 1 \in Nat /\ (k - 1) + ((l - k) + 1) = l
                BY <3>1
            <4>3. Power(Base, (k - 1) + ((l - k) + 1)) = Power(Base, k - 1) * Power(Base, (l - k) + 1)
                BY <1>1, <3>1, <4>2, PowerAdds
            <4> QED BY <1>5, <3>3, <4>1, <4>2, <4>3
        <3>6. Above(y, v, a, Base)
            <4>1. g * z \in Nat
                OBVIOUS
            <4>2. m * z = a * (Base * (g * z))
                BY <1>1, <3>5
            <4> QED BY <1>9, <4>1, <4>2 DEF Above
        <3>7. a > 0
            BY <3>3
        <3>8. (y \div a) % Base = (v \div a) % Base
            BY <1>1, <3>6, <3>7, DigitStays
        <3> QED BY <1>16, <2>1, <3>2, <3>3, <3>8
    <2>2. CASE ~(k <= l)
        <3>1. k - l \in 1..full /\ l + ((k - l) - 1) = k - 1
            BY <2>2
        <3>2. more[k - l] = (y \div Power(Base, l + ((k - l) - 1))) % Base
            BY <1>14, <3>1
        <3> QED BY <1>16, <2>2, <3>1, <3>2
    <2> QED BY <2>1, <2>2
<1>18. PICK left \in Nat : left = buffer \div Power(Base, full) /\ left = y \div Power(Base, l + full)
    <2>1. buffer \div Power(Base, full) \in Nat
        BY <1>1, DivPower
    <2> QED BY <1>13, <2>1
<1>19. ByteBits * (l + full) + rest = n + c
    <2>1. ByteBits * (l + full) = ByteBits * l + full * ByteBits
        BY <1>1
    <2>2. PICK s, t \in Nat : s = ByteBits * l /\ t = full * ByteBits
        BY <1>1
    <2>3. s + p = n /\ p + c = t + rest
        BY <1>4, <1>12, <2>2
    <2>4. (s + t) + rest = n + c
        BY <2>3
    <2> QED BY <2>1, <2>2, <2>4
<1>20. Bits(w, x, c) = [buf |-> new, bitBuffer |-> left, bitPos |-> rest]
    <2>1. w.bitBuffer + x * Power(2, w.bitPos) = buffer
        BY <1>4, <1>6, <1>8, <1>11
    <2>2. (w.bitPos + c) \div ByteBits = full /\ (w.bitPos + c) % ByteBits = rest
        BY <1>4, <1>12
    <2> QED BY <1>2, <1>16, <1>18, <2>1, <2>2 DEF Bits, more
<1>21. AreBytesOf(new, y)
    BY <1>16, <1>17 DEF AreBytesOf
<1>22. Written([buf |-> new, bitBuffer |-> left, bitPos |-> rest], y, n + c)
    BY <1>12, <1>16, <1>18, <1>19, <1>21 DEF Written
<1> QED BY <1>10, <1>20, <1>22

\* The steps of WriteBits.
WriteSteps(fs, w) ==
    /\ WriteBits(fs) = FinalizeBits(w[Len(fs)]) /\ w[0] = [buf |-> <<>>, bitBuffer |-> 0, bitPos |-> 0]
    /\ \A k \in 1..Len(fs) : w[k] = Bits(w[k - 1], fs[k].value, fs[k].count)

\* Fields are written one after the other.
LEMMA WriteUnfold ==
    ASSUME NEW fs, Len(fs) \in Nat
    PROVE  \E w : WriteSteps(fs, w)
<1> DEFINE n == Len(fs)
           empty == [buf |-> <<>>, bitBuffer |-> 0, bitPos |-> 0]
           Part(w, m) == w = [k \in 0..m |-> IF k = 0 THEN empty ELSE Bits(w[k - 1], fs[k].value, fs[k].count)]
           E == {m \in Nat : \E w : Part(w, m)}
<1> HIDE DEF Part, empty
<1>1. 0 \in E
    <2>1. Part([k \in 0..0 |-> empty], 0)
        BY DEF Part
    <2> QED BY <2>1
<1>2. ASSUME NEW m \in Nat, m \in E PROVE m + 1 \in E
    <2>1. PICK w : Part(w, m)
        BY <1>2
    <2>2. PICK top : top = Bits(w[m], fs[m + 1].value, fs[m + 1].count)
        OBVIOUS
    <2> DEFINE d == [k \in 0..(m + 1) |-> IF k <= m THEN w[k] ELSE top]
    <2>3. ASSUME NEW k \in 0..(m + 1)
          PROVE  d[k] = IF k = 0 THEN empty ELSE Bits(d[k - 1], fs[k].value, fs[k].count)
        <3>1. CASE k <= m
            <4>1. k \in 0..m /\ d[k] = w[k] /\ (k # 0 => d[k - 1] = w[k - 1])
                BY <3>1
            <4>2. w[k] = IF k = 0 THEN empty ELSE Bits(w[k - 1], fs[k].value, fs[k].count)
                BY <2>1, <4>1 DEF Part
            <4> HIDE DEF d
            <4> QED BY <4>1, <4>2
        <3>2. CASE k = m + 1
            <4>1. k # 0 /\ d[k] = top /\ d[k - 1] = w[m]
                BY <3>2
            <4> HIDE DEF d
            <4> QED BY <2>2, <3>2, <4>1
        <3> QED BY <3>1, <3>2
    <2>4. d = [k \in 0..(m + 1) |-> d[k]]
        OBVIOUS
    <2> HIDE DEF d
    <2>5. Part(d, m + 1)
        BY <2>3, <2>4 DEF Part
    <2> QED BY <2>5
<1>3. \E w : Part(w, n)
    <2>1. Nat \subseteq E
        <3> HIDE DEF E
        <3> QED BY <1>1, <1>2, InductionOnNat
    <2> QED BY <2>1
<1>4. PICK w : Part(w, n) /\ WriteBits(fs) = FinalizeBits(w[n])
    <2>1. Part(CHOOSE w : Part(w, n), n)
        BY <1>3
    <2>2. WriteBits(fs) = FinalizeBits((CHOOSE w : Part(w, n))[n])
        BY DEF WriteBits, Part, empty
    <2> QED BY <2>1, <2>2
<1>5. w[0] = empty /\ \A k \in 1..n : w[k] = Bits(w[k - 1], fs[k].value, fs[k].count)
    BY <1>4 DEF Part
<1>6. WriteSteps(fs, w)
    BY <1>4, <1>5 DEF WriteSteps, empty
<1> QED BY <1>6

\* Bytes b hold the fields: they are the bytes of a number that has them, and no more than it takes.
HoldFields(b, v, o, fs) ==
    /\ HasFields(v, o, fs, Len(fs))
    /\ b \in Seq(Nat) /\ AreBytesOf(b, v)
    /\ o[Len(fs) + 1] <= ByteBits * Len(b) /\ ByteBits * Len(b) < o[Len(fs) + 1] + ByteBits

\* What fields are written to.
LEMMA BitsWritten ==
    ASSUME NEW fs, IsFields(fs)
    PROVE  \E v, o : HoldFields(WriteBits(fs), v, o, fs)
<1>1. PICK n \in Nat : n = Len(fs)
    BY LenProperties DEF IsFields
<1>2. PICK w : WriteSteps(fs, w)
    BY <1>1, WriteUnfold
<1>3. ByteBits \in Nat /\ ByteBits > 0 /\ Base \in Nat /\ Base > 0
    BY StreamAssumption, BaseIs
<1> DEFINE Inv(k) == \E v, o : HasFields(v, o, fs, k) /\ Written(w[k], v, o[k + 1])
           S == {k \in Nat : k <= n => Inv(k)}
<1>4. 0 \in S
    <2> DEFINE o == [j \in 1..1 |-> 0]
    <2>1. Power(2, 0) = 1 /\ Power(Base, 0) = 1
        BY <1>3, PowerUnfolds
    <2>2. o \in [1..(0 + 1) -> Nat] /\ o[1] = 0 /\ o[0 + 1] = 0
        OBVIOUS
    <2>3. \A j \in 1..(0 + 1) : j = 1
        OBVIOUS
    <2> HIDE DEF o
    <2>4. HasFields(0, o, fs, 0)
        BY <2>1, <2>2, <2>3 DEF HasFields
    <2>5. w[0] = [buf |-> <<>>, bitBuffer |-> 0, bitPos |-> 0]
        BY <1>2 DEF WriteSteps
    <2>6. <<>> \in Seq(Nat) /\ Len(<<>>) = 0 /\ AreBytesOf(<<>>, 0)
        BY DEF AreBytesOf
    <2>7. 0 \div Power(Base, 0) = 0 /\ ByteBits * 0 + 0 = 0
        BY <1>3, <2>1
    <2>8. Written(w[0], 0, o[0 + 1])
        BY <1>3, <2>2, <2>5, <2>6, <2>7 DEF Written
    <2> QED BY <2>4, <2>8
<1>5. ASSUME NEW k \in Nat, k \in S PROVE k + 1 \in S
    <2> SUFFICES ASSUME k + 1 <= n PROVE Inv(k + 1)
        OBVIOUS
    <2>1. PICK v, o : HasFields(v, o, fs, k) /\ Written(w[k], v, o[k + 1])
        <3>1. k <= n
            BY <1>1
        <3> QED BY <1>5, <3>1
    <2>2. k + 1 \in 1..n /\ (k + 1) - 1 = k /\ k + 1 \in 1..(k + 1)
        BY <1>1
    <2>3. PICK x, c, m \in Nat : /\ x = fs[k + 1].value /\ c = fs[k + 1].count /\ m = o[k + 1] /\ v \in Nat
                                 /\ \E y, p : /\ y = v + x * Power(2, m) /\ HasFields(y, p, fs, k + 1)
                                              /\ p[(k + 1) + 1] = m + c
        <3>1. k + 1 <= Len(fs)
            BY <1>1
        <3> QED BY <2>1, <3>1, FieldsAbove
    <2>4. PICK y, p : y = v + x * Power(2, m) /\ HasFields(y, p, fs, k + 1) /\ p[(k + 1) + 1] = m + c
        BY <2>3
    <2>5. w[k + 1] = Bits(w[k], x, c)
        BY <1>1, <1>2, <2>2, <2>3 DEF WriteSteps
    <2>6. Written(w[k], v, m)
        BY <2>1, <2>3
    <2>7. Written(Bits(w[k], x, c), y, m + c)
        BY <2>3, <2>4, <2>6, BitsAppend
    <2> QED BY <2>4, <2>5, <2>7
<1>6. Inv(n)
    <2>1. Nat \subseteq S
        <3> HIDE DEF S
        <3> QED BY <1>4, <1>5, InductionOnNat
    <2> QED BY <2>1
<1>7. PICK v, o : HasFields(v, o, fs, n) /\ Written(w[n], v, o[n + 1])
    BY <1>6
<1>8. v \in Nat /\ o[n + 1] \in Nat
    BY <1>7 DEF HasFields
<1>9. PICK buf \in Seq(Nat) : buf = w[n].buf
    BY <1>7 DEF Written
<1>10. PICK l \in Nat : l = Len(buf)
    BY LenProperties
<1>11. PICK p \in Nat : p = w[n].bitPos /\ p < ByteBits /\ ByteBits * l + p = o[n + 1]
    BY <1>7, <1>9, <1>10 DEF Written
<1>12. w[n].bitBuffer = v \div Power(Base, l) /\ AreBytesOf(buf, v)
    BY <1>7, <1>9, <1>10 DEF Written
<1>13. PICK s \in Nat : s = ByteBits * l
    BY <1>3
<1>14. CASE p = 0
    <2>1. WriteBits(fs) = buf
        <3>1. FinalizeBits(w[n]) = buf
            BY <1>9, <1>11, <1>14 DEF FinalizeBits
        <3> QED BY <1>1, <1>2, <3>1 DEF WriteSteps
    <2>2. s = o[n + 1]
        BY <1>11, <1>13, <1>14
    <2>3. o[n + 1] <= s /\ s < o[n + 1] + ByteBits
        BY <1>3, <2>2
    <2>4. HoldFields(buf, v, o, fs)
        BY <1>1, <1>7, <1>10, <1>12, <1>13, <2>3 DEF HoldFields
    <2> QED BY <2>1, <2>4
<1>15. CASE p > 0
    <2>1. PICK d \in Nat : d = w[n].bitBuffer % Base /\ d = (v \div Power(Base, l)) % Base
        <3>1. v \div Power(Base, l) \in Nat
            BY <1>3, <1>8, DivPower
        <3> QED BY <1>3, <1>12, <3>1, DivMod
    <2>2. WriteBits(fs) = Append(buf, d)
        <3>1. FinalizeBits(w[n]) = Append(buf, d)
            BY <1>9, <1>11, <1>15, <2>1 DEF FinalizeBits
        <3> QED BY <1>1, <1>2, <3>1 DEF WriteSteps
    <2>3. PICK b \in Seq(Nat) : /\ b = Append(buf, d) /\ Len(b) = l + 1
                                /\ \A k \in 1..l : b[k] = buf[k]
                                /\ b[l + 1] = d
        BY <1>10, AppendProperties
    <2>4. AreBytesOf(b, v)
        <3>1. ASSUME NEW k \in 1..(l + 1) PROVE b[k] = (v \div Power(Base, k - 1)) % Base
            <4>1. CASE k = l + 1
                <5>1. k - 1 = l
                    BY <4>1
                <5> QED BY <2>1, <2>3, <4>1, <5>1
            <4>2. CASE k # l + 1
                <5>1. k \in 1..l
                    BY <4>2
                <5> QED BY <1>10, <1>12, <2>3, <5>1 DEF AreBytesOf
            <4> QED BY <4>1, <4>2
        <3> QED BY <2>3, <3>1 DEF AreBytesOf
    <2>5. ByteBits * (l + 1) = s + ByteBits
        BY <1>3, <1>13
    <2>6. o[n + 1] <= s + ByteBits /\ s + ByteBits < o[n + 1] + ByteBits
        BY <1>3, <1>8, <1>11, <1>13, <1>15
    <2>7. HoldFields(b, v, o, fs)
        BY <1>1, <1>7, <2>3, <2>4, <2>5, <2>6 DEF HoldFields
    <2> QED BY <2>2, <2>3, <2>7
<1> QED BY <1>14, <1>15

\* Bytes, the lowest first, as a number.
LEMMA LowestFirst ==
    ASSUME NEW v \in Nat, NEW s \in Seq(Nat), AreBytesOf(s, v)
    PROVE  FromBytes(Reverse(s)) = v % Power(Base, Len(s))
<1>1. PICK m \in Nat : m = Len(s)
    BY LenProperties
<1>2. Base \in Nat /\ Base > 0
    BY BaseIs
<1>3. PICK a \in Nat : a = Power(Base, m) /\ a > 0
    BY <1>2, PowerIs
<1>4. PICK q, u \in Nat : u < a /\ v = q * a + u /\ v % a = u
    <2>1. a > 0
        BY <1>3
    <2> QED BY <2>1, DivMod
<1>5. ASSUME NEW k \in 1..m PROVE Reverse(s)[k] = (u \div Power(Base, m - k)) % Base
    <2>1. m - k \in Nat /\ (m - k) + 1 \in 1..m /\ ((m - k) + 1) - 1 = m - k /\ k - 1 \in Nat
        OBVIOUS
    <2>2. Reverse(s)[k] = (v \div Power(Base, m - k)) % Base
        <3>1. Reverse(s)[k] = s[(m - k) + 1]
            BY <1>1 DEF Reverse
        <3>2. s[(m - k) + 1] = (v \div Power(Base, ((m - k) + 1) - 1)) % Base
            BY <1>1, <2>1 DEF AreBytesOf
        <3> QED BY <2>1, <3>1, <3>2
    <2>3. PICK d \in Nat : d = Power(Base, m - k) /\ d > 0
        BY <1>2, <2>1, PowerIs
    <2>4. PICK g \in Nat : g = Power(Base, k - 1) /\ g > 0
        BY <1>2, <2>1, PowerIs
    <2>5. a = d * (Base * g)
        <3>1. Power(Base, (k - 1) + 1) = Base * g
            BY <1>2, <2>1, <2>4, PowerUnfolds
        <3>2. (k - 1) + 1 \in Nat /\ (m - k) + ((k - 1) + 1) = m
            OBVIOUS
        <3>3. Power(Base, (m - k) + ((k - 1) + 1)) = d * Power(Base, (k - 1) + 1)
            BY <1>2, <2>1, <2>3, <3>2, PowerAdds
        <3> QED BY <1>3, <3>1, <3>2, <3>3
    <2>6. Above(v, u, d, Base)
        <3>1. g * q \in Nat
            OBVIOUS
        <3>2. q * a = d * (Base * (g * q))
            BY <1>2, <2>5
        <3>3. v = u + q * a
            BY <1>4
        <3> QED BY <3>1, <3>2, <3>3 DEF Above
    <2>7. d > 0
        BY <2>3
    <2>8. (v \div d) % Base = (u \div d) % Base
        BY <1>2, <2>6, <2>7, DigitStays
    <2> QED BY <2>2, <2>3, <2>8
<1>6. Reverse(s) = PushBe(m, u)
    <2>1. Reverse(s) = [k \in 1..m |-> Reverse(s)[k]]
        BY <1>1 DEF Reverse
    <2> QED BY <1>5, <2>1 DEF PushBe
<1>7. FromBytes(PushBe(m, u)) = u
    BY <1>3, <1>4, IntReadBack
<1> QED BY <1>1, <1>3, <1>4, <1>6, <1>7

\* Of v, n bits were given from t bytes taken, p wait, and m bytes more are put above these; when
\* c bits are given, rest will wait.
InBuffer(buffer, v, t, n, p, m, c, rest) ==
    /\ v \in Nat /\ t \in Nat /\ n \in Nat /\ p \in Nat /\ m \in Nat /\ c \in Nat /\ rest \in Nat
    /\ p + n = ByteBits * t /\ rest + (n + c) = ByteBits * (t + m)
    /\ buffer = (v % Power(Base, t)) \div Power(2, n)
                    + Power(2, p) * ((v \div Power(Base, t)) % Power(Base, m))

\* The lowest bits in the buffer are those wanted, the others are kept.
LEMMA BufferIs ==
    ASSUME NEW buffer, NEW v, NEW t, NEW n, NEW p, NEW m, NEW c, NEW rest,
           InBuffer(buffer, v, t, n, p, m, c, rest)
    PROVE  /\ buffer \in Nat
           /\ buffer % Power(2, c) = (v \div Power(2, n)) % Power(2, c)
           /\ buffer \div Power(2, c) = (v % Power(Base, t + m)) \div Power(2, n + c)
<1> USE DEF InBuffer
<1>0. PICK old, more : /\ old = (v % Power(Base, t)) \div Power(2, n)
                       /\ more = (v \div Power(Base, t)) % Power(Base, m)
                       /\ buffer = old + Power(2, p) * more
    OBVIOUS
<1>n. v \in Nat /\ t \in Nat /\ n \in Nat /\ p \in Nat /\ m \in Nat /\ c \in Nat /\ rest \in Nat
    OBVIOUS
<1>e. p + n = ByteBits * t /\ rest + (n + c) = ByteBits * (t + m)
    OBVIOUS
<1> HIDE DEF InBuffer
<1> USE <1>n
<1>1. ByteBits \in Nat /\ Base \in Nat /\ Base > 0 /\ 2 \in Nat /\ 2 > 0
    BY StreamAssumption, BaseIs
<1>2. PICK a \in Nat : a = Power(Base, t) /\ a > 0
    BY <1>1, PowerIs
<1>3. PICK b \in Nat : b = Power(Base, m) /\ b > 0
    BY <1>1, PowerIs
<1>4. PICK l \in Nat : l = Power(2, n) /\ l > 0
    BY <1>1, PowerIs
<1>5. PICK q \in Nat : q = Power(2, p) /\ q > 0
    BY <1>1, PowerIs
<1>6. PICK e \in Nat : e = Power(2, c) /\ e > 0
    BY <1>1, PowerIs
<1>7. PICK g \in Nat : g = Power(2, rest) /\ g > 0
    BY <1>1, PowerIs
<1>8. a = l * q
    <2>1. n + p = ByteBits * t
        BY <1>e
    <2>2. Power(2, n + p) = l * q
        BY <1>4, <1>5, PowerAdds
    <2> QED BY <1>2, <2>1, <2>2, BytesAreBits
<1>9. Power(Base, t + m) = a * b
    BY <1>1, <1>2, <1>3, PowerAdds
<1>10. Power(2, n + c) = l * e
    BY <1>4, <1>6, PowerAdds
<1>11. a * b = l * (e * g)
    <2>1. n + c \in Nat /\ t + m \in Nat /\ (n + c) + rest = ByteBits * (t + m)
        BY <1>e
    <2>2. Power(2, (n + c) + rest) = Power(2, n + c) * g
        BY <1>7, <2>1, PowerAdds
    <2>3. Power(Base, t + m) = Power(2, ByteBits * (t + m))
        BY <2>1, BytesAreBits
    <2>4. a * b = (l * e) * g
        BY <1>9, <1>10, <2>1, <2>2, <2>3
    <2>5. (l * e) * g = l * (e * g)
        OBVIOUS
    <2> QED BY <2>4, <2>5
<1>12. PICK h, s \in Nat : h = v \div a /\ s = v % a
    <2>1. a > 0
        BY <1>2
    <2> QED BY <2>1, DivMod
<1>13. PICK u \in Nat : u = h % b /\ u = more
    <2>1. b > 0
        BY <1>3
    <2>2. h % b \in Nat
        BY <2>1, DivMod
    <2> QED BY <1>0, <1>2, <1>3, <1>12, <2>2
<1>14. PICK w \in Nat : w = v % (a * b) /\ w = s + a * u
    <2>1. a > 0 /\ b > 0
        BY <1>2, <1>3
    <2>2. PICK k \in Nat : k = a * b /\ Times(k, a, b)
        BY DEF Times
    <2>3. v % k = (v % a) + a * ((v \div a) % b)
        BY <2>1, <2>2, ModMul
    <2>4. v % k = s + a * u
        BY <1>12, <1>13, <2>3
    <2> QED BY <2>2, <2>4
<1>15. PICK f \in Nat : f = s \div l /\ f = old
    <2>1. l > 0
        BY <1>4
    <2>2. s \div l \in Nat
        BY <2>1, DivMod
    <2> QED BY <1>0, <1>2, <1>4, <1>12, <2>2
<1>16. PICK k \in Nat : k = f + q * u /\ k = old + Power(2, p) * more
    BY <1>5, <1>13, <1>15
<1>17. w \div l = k
    <2>1. PICK z \in Nat : z = q * u
        OBVIOUS
    <2>2. a * u = l * z
        <3>1. (l * q) * u = l * (q * u)
            OBVIOUS
        <3> QED BY <1>8, <2>1, <3>1
    <2>3. l > 0
        BY <1>4
    <2>4. (s + l * z) \div l = (s \div l) + z
        BY <2>3, AddDiv
    <2> QED BY <1>14, <1>15, <1>16, <2>1, <2>2, <2>4
<1>18. k % e = (v \div l) % e
    <2>1. PICK j \in Nat : j = e * g /\ j > 0
        <3>1. e > 0 /\ g > 0
            BY <1>6, <1>7
        <3>2. e * g \in Nat /\ e * g > 0
            BY <3>1
        <3> QED BY <3>2
    <2>2. l > 0 /\ j > 0 /\ e > 0 /\ g > 0
        BY <1>4, <1>6, <1>7, <2>1
    <2>3. PICK i \in Nat : i = l * j /\ Times(i, l, j)
        BY <2>1 DEF Times
    <2>4. k = (v \div l) % j
        <3>1. i = a * b
            BY <1>11, <2>1, <2>3
        <3>2. (v % i) \div l = (v \div l) % j
            BY <2>2, <2>3, ModMul
        <3> QED BY <1>14, <1>17, <3>1, <3>2
    <2>5. PICK d \in Nat : d = v \div l
        BY <2>2, DivMod
    <2>6. PICK x \in Nat : d = x * j + k
        <3>1. j > 0 /\ k = d % j
            BY <2>2, <2>4, <2>5
        <3>2. d \div j \in Nat /\ d = (d \div j) * j + (d % j)
            BY <3>1, DivMod
        <3> QED BY <3>1, <3>2
    <2>7. More(d, k, e)
        <3>1. x * j = e * (g * x)
            BY <2>1
        <3>2. PICK y \in Nat : y = g * x
            OBVIOUS
        <3>3. d = k + e * y
            BY <2>6, <3>1, <3>2
        <3> QED BY <3>3 DEF More
    <2>8. e > 0
        BY <2>2
    <2>9. d % e = k % e
        BY <2>7, <2>8, LowestStay
    <2> QED BY <2>5, <2>9
<1>19. k \div e = w \div (l * e)
    <2>1. l > 0 /\ e > 0
        BY <1>4, <1>6
    <2>2. (w \div l) \div e = w \div (e * l)
        BY <2>1, DivDiv
    <2>3. e * l = l * e
        OBVIOUS
    <2> QED BY <1>17, <2>2, <2>3
<1>20. k % Power(2, c) = (v \div Power(2, n)) % Power(2, c)
    BY <1>4, <1>6, <1>18
<1>21. k \div Power(2, c) = (v % Power(Base, t + m)) \div Power(2, n + c)
    BY <1>6, <1>9, <1>10, <1>14, <1>19
<1> QED BY <1>0, <1>16, <1>20, <1>21

\* Reader x was r, and has given n bits of v since; it has taken t bytes and keeps what it has not given.
GaveBits(r, x, v, t, n) ==
    /\ IsReader(x) /\ x.source = r.source /\ x.ok = "yes" /\ t \in Nat /\ x.i = r.i + t
    /\ x.bitPos \in Nat /\ x.bitPos < ByteBits /\ x.bitPos + n = ByteBits * t
    /\ x.bitBuffer = (v % Power(Base, t)) \div Power(2, n)

\* Bytes b are the next of r, all of them, and those of v.
BytesAhead(r, b, v) ==
    /\ Ready(r, b) /\ r.ok = "yes" /\ (r.i + Len(b)) - 1 <= Len(r.source)
    /\ v \in Nat /\ AreBytesOf(b, v)

\* The bytes that bits takes are as many as it lacks bits for.
LEMMA MissingIs ==
    ASSUME NEW p \in Nat, NEW c \in Nat, p < ByteBits
    PROVE  \E m, rest \in Nat :
               /\ m = IF p >= c THEN 0 ELSE (c - p + ByteBits - 1) \div ByteBits
               /\ rest < ByteBits /\ p + m * ByteBits - c = rest /\ rest + c = p + ByteBits * m
<1>1. ByteBits \in Nat /\ ByteBits > 0
    BY StreamAssumption
<1>2. CASE p >= c
    <2>1. PICK rest \in Nat : rest = p - c
        BY <1>2
    <2>2. 0 * ByteBits = 0 /\ ByteBits * 0 = 0
        BY <1>1
    <2> QED BY <1>1, <1>2, <2>1, <2>2
<1>3. CASE ~(p >= c)
    <2>1. PICK d \in Nat : d = c - p + ByteBits - 1
        BY <1>1, <1>3
    <2>2. PICK m, s \in Nat : m = d \div ByteBits /\ s < ByteBits /\ d = m * ByteBits + s
        BY <1>1, DivMod
    <2>3. PICK z \in Nat : z = m * ByteBits /\ z = ByteBits * m
        BY <1>1
    <2>4. PICK rest \in Nat : rest = ByteBits - 1 - s
        BY <1>1, <2>2
    <2>5. p + z - c = rest /\ rest + c = p + z /\ rest < ByteBits
        BY <1>1, <1>3, <2>1, <2>2, <2>3, <2>4
    <2> QED BY <1>3, <2>1, <2>2, <2>3, <2>5
<1> QED BY <1>2, <1>3

\* bits gives the next bits.
LEMMA BitsRead ==
    ASSUME NEW r, NEW b, NEW v, BytesAhead(r, b, v),
           NEW x, NEW t, NEW n \in Nat, GaveBits(r, x, v, t, n),
           NEW c \in Nat, n + c <= ByteBits * Len(b)
    PROVE  /\ \E u : GaveBits(r, ReadBits(x, c), v, u, n + c)
           /\ ReadBits(x, c).v = (v \div Power(2, n)) % Power(2, c)
<1>1. ByteBits \in Nat /\ ByteBits > 0 /\ Base \in Nat /\ Base > 0
    BY StreamAssumption, BaseIs
<1>2. /\ IsReader(r) /\ b \in Seq(Nat) /\ v \in Nat /\ t \in Nat /\ IsReader(x)
      /\ r.i \in Nat /\ r.source \in Seq(Nat) /\ x.source = r.source /\ x.ok = "yes" /\ x.i = r.i + t
    BY DEF BytesAhead, Ready, IsReader, GaveBits
<1>3. PICK l \in Nat : l = Len(b)
    BY <1>2, LenProperties
<1>4. PICK p \in Nat : p = x.bitPos /\ p < ByteBits /\ p + n = ByteBits * t
    BY DEF GaveBits
<1>5. PICK m, rest \in Nat :
          /\ m = IF p >= c THEN 0 ELSE (c - p + ByteBits - 1) \div ByteBits
          /\ rest < ByteBits /\ p + m * ByteBits - c = rest /\ rest + c = p + ByteBits * m
    BY <1>4, MissingIs
<1>6. rest + (n + c) = ByteBits * (t + m)
    <2>1. ByteBits * (t + m) = ByteBits * t + ByteBits * m
        BY <1>1, <1>2
    <2>2. PICK y, z \in Nat : y = ByteBits * t /\ z = ByteBits * m
        BY <1>1, <1>2
    <2>3. p + n = y /\ rest + c = p + z
        BY <1>4, <1>5, <2>2
    <2>4. rest + (n + c) = y + z
        BY <2>3
    <2> QED BY <2>1, <2>2, <2>4
<1>7. t + m <= l
    <2> SUFFICES ASSUME t + m > l PROVE FALSE
        BY <1>2
    <2>1. PICK d \in Nat : t + m = l + 1 + d
        <3>1. t + m - l - 1 \in Nat /\ t + m = l + 1 + (t + m - l - 1)
            BY <1>2
        <3> QED BY <3>1
    <2>2. ByteBits * (t + m) = ByteBits * l + ByteBits + ByteBits * d
        BY <1>1, <2>1
    <2>3. PICK y, z \in Nat : y = ByteBits * l /\ z = ByteBits * d
        BY <1>1
    <2>4. rest + (n + c) = y + ByteBits + z /\ n + c <= y
        BY <1>3, <1>6, <2>2, <2>3
    <2> QED BY <1>1, <1>5, <2>4
<1> DEFINE piece == [k \in 1..m |-> b[t + k]]
<1>8. \A k \in 1..m : t + k \in 1..l /\ b[t + k] \in Nat
    <2>1. \A k \in 1..m : t + k \in 1..l
        BY <1>2, <1>7
    <2> QED BY <1>2, <1>3, <2>1, ElementOfSeq
<1>9. piece \in Seq(Nat) /\ Len(piece) = m /\ \A k \in 1..m : piece[k] = b[t + k]
    <2>1. piece \in [1..m -> Nat] /\ \A k \in 1..m : piece[k] = b[t + k]
        BY <1>8
    <2> HIDE DEF piece
    <2> QED BY <2>1, IsASeq, LenProperties
<1> HIDE DEF piece
<1>10. Len(r.source) \in Nat
    BY <1>2, LenProperties
<1>11. Ready(x, piece)
    <2>1. ASSUME NEW k \in 1..m, (x.i + k) - 1 <= Len(x.source) PROVE x.source[(x.i + k) - 1] = piece[k]
        <3>1. t + k \in 1..Len(b)
            BY <1>3, <1>8
        <3>0. PICK i \in Nat : i = r.i /\ x.i = i + t
            BY <1>2
        <3>3. (r.i + (t + k)) - 1 = (x.i + k) - 1
            BY <1>2, <3>0
        <3>2. r.source[(r.i + (t + k)) - 1] = b[t + k]
            BY <1>2, <2>1, <3>1, <3>3 DEF BytesAhead, Ready, Continues
        <3> QED BY <1>2, <1>9, <3>2, <3>3
    <2>2. Continues(x.source, x.i, piece)
        BY <1>9, <2>1 DEF Continues
    <2> QED BY <1>2, <1>9, <2>2 DEF Ready
<1>12. PICK raw : raw = ReadRaw(x, m)
    OBVIOUS
<1>13. Moved(x, raw, piece) /\ (raw.ok = "yes" => raw.v = piece)
    BY <1>9, <1>11, <1>12, RawRead
<1>14. (x.i + m) - 1 <= Len(x.source)
    <2>1. (r.i + l) - 1 <= Len(r.source)
        BY <1>3 DEF BytesAhead
    <2> QED BY SMTT(30), <1>2, <1>7, <1>10, <2>1
<1>15. raw.ok = "yes" /\ raw.i = x.i + m /\ raw.source = x.source /\ IsReader(raw) /\ raw.v = piece
    BY <1>2, <1>9, <1>13, <1>14 DEF Moved
<1>16. PICK h \in Nat : h = v \div Power(Base, t)
    BY <1>1, <1>2, DivPower
<1>17. AreBytesOf(piece, h)
    <2>1. ASSUME NEW k \in 1..m PROVE piece[k] = (h \div Power(Base, k - 1)) % Base
        <3>1. k - 1 \in Nat /\ t + k \in 1..Len(b) /\ (t + k) - 1 = t + (k - 1)
            BY <1>2, <1>3, <1>8
        <3>2. b[t + k] = (v \div Power(Base, t + (k - 1))) % Base
            BY <3>1 DEF BytesAhead, AreBytesOf
        <3>3. PICK a \in Nat : a = Power(Base, t) /\ a > 0
            BY <1>1, <1>2, PowerIs
        <3>4. PICK e \in Nat : e = Power(Base, k - 1) /\ e > 0
            BY <1>1, <3>1, PowerIs
        <3>5. Power(Base, t + (k - 1)) = a * e
            BY <1>1, <1>2, <3>1, <3>3, <3>4, PowerAdds
        <3>6. a > 0 /\ e > 0 /\ v \in Nat
            BY <1>2, <3>3, <3>4
        <3>7. (v \div a) \div e = v \div (e * a)
            BY <3>6, DivDiv
        <3>8. e * a = a * e
            OBVIOUS
        <3> QED BY <1>9, <1>16, <3>2, <3>3, <3>4, <3>5, <3>7, <3>8
    <2> QED BY <1>9, <2>1 DEF AreBytesOf
<1>18. PICK more : more = FromBytes(Reverse(raw.v)) /\ more = (v \div Power(Base, t)) % Power(Base, m)
    <2>1. FromBytes(Reverse(piece)) = h % Power(Base, m)
        BY <1>9, <1>17, LowestFirst
    <2> QED BY <1>15, <1>16, <2>1
<1>19. PICK old : old = x.bitBuffer /\ old = (v % Power(Base, t)) \div Power(2, n)
    BY DEF GaveBits
<1>20. PICK buffer \in Nat :
           /\ buffer = x.bitBuffer + Power(2, x.bitPos) * FromBytes(Reverse(raw.v))
           /\ buffer % Power(2, c) = (v \div Power(2, n)) % Power(2, c)
           /\ buffer \div Power(2, c) = (v % Power(Base, t + m)) \div Power(2, n + c)
    <2>1. PICK buffer : buffer = old + Power(2, p) * more
        OBVIOUS
    <2>2. InBuffer(buffer, v, t, n, p, m, c, rest)
        BY <1>2, <1>4, <1>6, <1>18, <1>19, <2>1 DEF InBuffer
    <2>3. buffer = x.bitBuffer + Power(2, x.bitPos) * FromBytes(Reverse(raw.v))
        BY <1>4, <1>18, <1>19, <2>1
    <2> QED BY <2>2, <2>3, BufferIs
<1>21. ReadBits(x, c) = [raw EXCEPT !.v = buffer % Power(2, c), !.bitBuffer = buffer \div Power(2, c),
                                    !.bitPos = rest]
    <2>1. (IF x.bitPos >= c THEN 0 ELSE (c - x.bitPos + ByteBits - 1) \div ByteBits) = m
        BY <1>4, <1>5
    <2>2. x.bitPos + m * ByteBits - c = rest
        BY <1>4, <1>5
    <2>3. raw.ok # "no"
        BY <1>15
    <2> QED BY <1>12, <1>20, <2>1, <2>2, <2>3 DEF ReadBits
<1>22. PICK y : y = ReadBits(x, c)
    OBVIOUS
<1>23. y = [source |-> raw.source, i |-> raw.i, ok |-> raw.ok, v |-> buffer % Power(2, c),
            bitBuffer |-> buffer \div Power(2, c), bitPos |-> rest]
    BY <1>15, <1>21, <1>22 DEF IsReader
<1>24. IsReader(y)
    BY <1>15, <1>23 DEF IsReader
<1>25. y.i = r.i + (t + m) /\ t + m \in Nat
    BY <1>2, <1>15, <1>23
<1>26. GaveBits(r, y, v, t + m, n + c)
    BY <1>2, <1>5, <1>6, <1>15, <1>20, <1>23, <1>24, <1>25 DEF GaveBits
<1>27. y.v = (v \div Power(2, n)) % Power(2, c)
    BY <1>20, <1>23
<1> QED BY <1>22, <1>26, <1>27

\* The steps of ReadAllBits.
BitsSteps(r, counts, s) ==
    /\ ReadAllBits(r, counts) = s[Len(counts)] /\ s[0] = [r |-> r, values |-> <<>>]
    /\ \A k \in 1..Len(counts) : s[k] = ThenBits(s[k - 1], counts[k])

\* Bit fields are read one after the other.
LEMMA BitsUnfold ==
    ASSUME NEW r, NEW counts, Len(counts) \in Nat
    PROVE  \E s : BitsSteps(r, counts, s)
<1> DEFINE n == Len(counts)
           start == [r |-> r, values |-> <<>>]
           Part(s, m) == s = [k \in 0..m |-> IF k = 0 THEN start ELSE ThenBits(s[k - 1], counts[k])]
           E == {m \in Nat : \E s : Part(s, m)}
<1> HIDE DEF Part, start
<1>1. 0 \in E
    <2>1. Part([k \in 0..0 |-> start], 0)
        BY DEF Part
    <2> QED BY <2>1
<1>2. ASSUME NEW m \in Nat, m \in E PROVE m + 1 \in E
    <2>1. PICK s : Part(s, m)
        BY <1>2
    <2>2. PICK top : top = ThenBits(s[m], counts[m + 1])
        OBVIOUS
    <2> DEFINE d == [k \in 0..(m + 1) |-> IF k <= m THEN s[k] ELSE top]
    <2>3. ASSUME NEW k \in 0..(m + 1)
          PROVE  d[k] = IF k = 0 THEN start ELSE ThenBits(d[k - 1], counts[k])
        <3>1. CASE k <= m
            <4>1. k \in 0..m /\ d[k] = s[k] /\ (k # 0 => d[k - 1] = s[k - 1])
                BY <3>1
            <4>2. s[k] = IF k = 0 THEN start ELSE ThenBits(s[k - 1], counts[k])
                BY <2>1, <4>1 DEF Part
            <4> HIDE DEF d
            <4> QED BY <4>1, <4>2
        <3>2. CASE k = m + 1
            <4>1. k # 0 /\ d[k] = top /\ d[k - 1] = s[m]
                BY <3>2
            <4> HIDE DEF d
            <4> QED BY <2>2, <3>2, <4>1
        <3> QED BY <3>1, <3>2
    <2>4. d = [k \in 0..(m + 1) |-> d[k]]
        OBVIOUS
    <2> HIDE DEF d
    <2>5. Part(d, m + 1)
        BY <2>3, <2>4 DEF Part
    <2> QED BY <2>5
<1>3. \E s : Part(s, n)
    <2>1. Nat \subseteq E
        <3> HIDE DEF E
        <3> QED BY <1>1, <1>2, InductionOnNat
    <2> QED BY <2>1
<1>4. PICK s : Part(s, n) /\ ReadAllBits(r, counts) = s[n]
    <2>1. Part(CHOOSE s : Part(s, n), n)
        BY <1>3
    <2>2. ReadAllBits(r, counts) = (CHOOSE s : Part(s, n))[n]
        BY DEF ReadAllBits, Part, start
    <2> QED BY <2>1, <2>2
<1>5. s[0] = start /\ \A k \in 1..n : s[k] = ThenBits(s[k - 1], counts[k])
    BY <1>4 DEF Part
<1>6. BitsSteps(r, counts, s)
    BY <1>4, <1>5 DEF BitsSteps, start
<1> QED BY <1>6

\* Bytes are counted alike by whoever needs the fewest that hold some bits.
LEMMA SameBytes ==
    ASSUME NEW t \in Nat, NEW l \in Nat, NEW n \in Nat,
           n <= ByteBits * t, ByteBits * t < n + ByteBits, n <= ByteBits * l, ByteBits * l < n + ByteBits
    PROVE  t = l
<1>1. ByteBits \in Nat /\ ByteBits > 0
    BY StreamAssumption
<1>2. ASSUME NEW a \in Nat, NEW b \in Nat, n <= ByteBits * a, ByteBits * b < n + ByteBits PROVE b <= a
    <2> SUFFICES ASSUME b > a PROVE FALSE
        OBVIOUS
    <2>1. PICK d \in Nat : b = a + 1 + d
        <3>1. b - a - 1 \in Nat /\ b = a + 1 + (b - a - 1)
            OBVIOUS
        <3> QED BY <3>1
    <2>2. ByteBits * b = ByteBits * a + ByteBits + ByteBits * d
        BY <1>1, <2>1
    <2>3. PICK x, y, z \in Nat : x = ByteBits * a /\ y = ByteBits * d /\ z = ByteBits * b
        BY <1>1
    <2>4. z = x + ByteBits + y /\ n <= x /\ z < n + ByteBits
        BY <1>2, <2>2, <2>3
    <2> QED BY <1>1, <2>4
<1>3. t <= l /\ l <= t
    BY <1>2
<1> QED BY <1>3

\* What a reader is told of the fields, and what it makes of them.
CountsOf(fs) == [k \in 1..Len(fs) |-> fs[k].count]
ValuesOf(fs) == [k \in 1..Len(fs) |-> fs[k].value]

\* The fields of a command are read as they were written, wherever they cross bytes.
LEMMA AllBitsRead ==
    ASSUME NEW fs, IsFields(fs), NEW r, Ready(r, WriteBits(fs)), r.ok = "yes",
           (r.i + Len(WriteBits(fs))) - 1 <= Len(r.source), r.bitBuffer = 0, r.bitPos = 0,
           NEW counts, counts = CountsOf(fs)
    PROVE  /\ ReadAllBits(r, counts).values = ValuesOf(fs)
           /\ Moved(r, ReadAllBits(r, counts).r, WriteBits(fs)) /\ ReadAllBits(r, counts).r.ok = "yes"
<1>1. PICK n \in Nat : n = Len(fs)
    BY LenProperties DEF IsFields
<1>2. ByteBits \in Nat /\ ByteBits > 0 /\ Base \in Nat /\ Base > 0
    BY StreamAssumption, BaseIs
<1>3. PICK b : b = WriteBits(fs)
    OBVIOUS
<1>4. PICK v, o : HoldFields(b, v, o, fs)
    BY <1>3, BitsWritten
<1>5. b \in Seq(Nat) /\ v \in Nat /\ o \in [1..(n + 1) -> Nat] /\ o[1] = 0 /\ HasFields(v, o, fs, n)
    BY <1>1, <1>4 DEF HoldFields, HasFields
<1>6. PICK l \in Nat : l = Len(b)
    BY <1>5, LenProperties
<1>7. BytesAhead(r, b, v)
    BY <1>3, <1>4, <1>5 DEF BytesAhead, HoldFields
<1>8. \A k \in 1..n : fs[k].count \in Nat /\ fs[k].value \in Nat
    <2>1. \A k \in 1..n : fs[k] \in [value : Nat, count : 0..(4 * ByteBits)]
        BY <1>1, ElementOfSeq DEF IsFields
    <2> QED BY <1>2, <2>1
<1>9. Len(counts) = n /\ counts = [k \in 1..n |-> fs[k].count]
    <2>0. counts = [k \in 1..n |-> fs[k].count]
        BY <1>1 DEF CountsOf
    <2>1. counts \in [1..n -> Nat]
        BY <1>8, <2>0
    <2>2. counts \in Seq(Nat)
        BY <2>1, IsASeq
    <2> QED BY <2>0, <2>1, <2>2, LenProperties
<1>10. PICK s : BitsSteps(r, counts, s)
    BY <1>9, BitsUnfold
<1> DEFINE Inv(k) == /\ s[k].values = [j \in 1..k |-> fs[j].value]
                     /\ \E t : GaveBits(r, s[k].r, v, t, o[k + 1])
           S == {k \in Nat : k <= n => Inv(k)}
<1>11. 0 \in S
    <2>1. s[0] = [r |-> r, values |-> <<>>] /\ o[0 + 1] = 0
        BY <1>5, <1>10 DEF BitsSteps
    <2>2. s[0].r = r /\ s[0].values = <<>>
        BY <2>1
    <2>3. <<>> = [j \in 1..0 |-> fs[j].value]
        OBVIOUS
    <2>4. Power(Base, 0) = 1 /\ Power(2, 0) = 1
        BY <1>2, PowerUnfolds
    <2>5. v % 1 = 0 /\ 0 \div 1 = 0
        BY <1>5
    <2>6. IsReader(r) /\ r.i + 0 = r.i /\ 0 + 0 = ByteBits * 0
        BY <1>2 DEF Ready, IsReader
    <2>7. GaveBits(r, r, v, 0, 0)
        BY <1>2, <2>4, <2>5, <2>6 DEF GaveBits
    <2> QED BY <2>1, <2>2, <2>3, <2>7
<1>12. ASSUME NEW k \in Nat, k \in S PROVE k + 1 \in S
    <2> SUFFICES ASSUME k + 1 <= n PROVE Inv(k + 1)
        OBVIOUS
    <2>1. k + 1 \in 1..n /\ (k + 1) - 1 = k /\ k + 1 \in 1..(n + 1) /\ (k + 1) + 1 \in 1..(n + 1) /\ k <= n
        BY <1>1
    <2>2. s[k].values = [j \in 1..k |-> fs[j].value]
        BY <1>12, <2>1
    <2>3. PICK t : GaveBits(r, s[k].r, v, t, o[k + 1])
        BY <1>12, <2>1
    <2>4. PICK c \in Nat : c = fs[k + 1].count /\ counts[k + 1] = c
        BY <1>8, <1>9, <2>1
    <2>5. PICK p \in Nat : p = o[k + 1]
        BY <1>5, <2>1
    <2>6. /\ o[(k + 1) + 1] = p + c /\ (v \div Power(2, p)) % Power(2, c) = fs[k + 1].value
          /\ o[(k + 1) + 1] <= o[n + 1]
        BY <1>5, <2>1, <2>4, <2>5 DEF HasFields
    <2>7. p + c <= ByteBits * Len(b)
        <3>1. o[n + 1] \in Nat /\ o[n + 1] <= ByteBits * Len(b)
            BY <1>1, <1>4, <1>5 DEF HoldFields
        <3>2. PICK q, z \in Nat : q = o[n + 1] /\ z = ByteBits * Len(b)
            BY <1>2, <1>6, <3>1
        <3>3. p + c <= q /\ q <= z
            BY <2>6, <3>1, <3>2
        <3>4. p + c <= z
            BY <3>3
        <3> QED BY <3>2, <3>4
    <2>8. PICK x : x = ReadBits(s[k].r, c)
        OBVIOUS
    <2>9. (\E u : GaveBits(r, x, v, u, p + c)) /\ x.v = (v \div Power(2, p)) % Power(2, c)
        BY <1>7, <2>3, <2>5, <2>7, <2>8, BitsRead
    <2>10. s[k + 1] = [r |-> x, values |-> Append(s[k].values, x.v)]
        BY <1>9, <1>10, <2>1, <2>4, <2>8 DEF BitsSteps, ThenBits
    <2>11. x.v = fs[k + 1].value
        BY <2>6, <2>9
    <2>12. Append(s[k].values, x.v) = [j \in 1..(k + 1) |-> fs[j].value]
        <3>1. PICK a \in Seq(Nat) : a = s[k].values /\ Len(a) = k
            <4>1. [j \in 1..k |-> fs[j].value] \in [1..k -> Nat]
                BY <1>8, <2>1
            <4>2. s[k].values \in [1..k -> Nat]
                BY <2>2, <4>1
            <4>3. s[k].values \in Seq(Nat)
                BY <4>2, IsASeq
            <4> QED BY <4>2, <4>3, LenProperties
        <3>2. PICK d \in Nat : d = x.v /\ d = fs[k + 1].value
            BY <1>8, <2>1, <2>11
        <3>3. PICK z \in Seq(Nat) : /\ z = Append(a, d) /\ Len(z) = k + 1
                                    /\ \A j \in 1..k : z[j] = a[j]
                                    /\ z[k + 1] = d
            <4>1. Append(a, d) \in Seq(Nat) /\ Len(Append(a, d)) = Len(a) + 1
                BY AppendProperties
            <4>2. (\A j \in 1..Len(a) : Append(a, d)[j] = a[j]) /\ Append(a, d)[Len(a) + 1] = d
                BY AppendProperties
            <4> QED BY <3>1, <4>1, <4>2
        <3>4. \A j \in 1..(k + 1) : z[j] = fs[j].value
            <4>1. \A j \in 1..k : a[j] = fs[j].value
                BY <2>2, <3>1
            <4>2. \A j \in 1..(k + 1) : j \in 1..k \/ j = k + 1
                OBVIOUS
            <4> QED BY <3>2, <3>3, <4>1, <4>2
        <3>5. z = [j \in 1..(k + 1) |-> z[j]]
            BY <3>3, LenProperties
        <3> QED BY <3>1, <3>2, <3>3, <3>4, <3>5
    <2>13. s[k + 1].r = x /\ s[k + 1].values = Append(s[k].values, x.v)
        BY <2>10
    <2> QED BY <2>6, <2>9, <2>12, <2>13
<1>13. Inv(n)
    <2>1. Nat \subseteq S
        <3> HIDE DEF S
        <3> QED BY <1>11, <1>12, InductionOnNat
    <2> QED BY <2>1
<1>14. PICK x, t : x = ReadAllBits(r, counts).r /\ GaveBits(r, x, v, t, o[n + 1])
    BY <1>9, <1>10, <1>13 DEF BitsSteps
<1>15. t = l
    <2>1. PICK q, p \in Nat : q = o[n + 1] /\ p = x.bitPos
        <3>1. o[n + 1] \in Nat
            BY <1>5
        <3>2. x.bitPos \in Nat
            BY <1>14 DEF GaveBits
        <3> QED BY <3>1, <3>2
    <2>2. t \in Nat /\ p < ByteBits /\ p + q = ByteBits * t
        BY <1>14, <2>1 DEF GaveBits
    <2>3. q <= ByteBits * l /\ ByteBits * l < q + ByteBits
        BY <1>1, <1>4, <1>6, <2>1 DEF HoldFields
    <2>4. PICK y \in Nat : y = ByteBits * t
        BY <1>2, <2>2
    <2>5. q <= y /\ y < q + ByteBits
        BY <1>2, <2>2, <2>4
    <2> QED BY <2>2, <2>3, <2>4, <2>5, SameBytes
<1>16. Moved(r, x, b) /\ x.ok = "yes"
    BY <1>3, <1>6, <1>14, <1>15 DEF GaveBits, Moved
<1>17. ReadAllBits(r, counts).values = [k \in 1..n |-> fs[k].value]
    BY <1>9, <1>10, <1>13 DEF BitsSteps
<1> QED BY <1>1, <1>3, <1>14, <1>16, <1>17 DEF ValuesOf

\* A reader with another value.
Valued(x, u) == [x EXCEPT !.v = u]
LEMMA ValuedMoved ==
    ASSUME NEW r, NEW w, NEW x, Moved(r, x, w), NEW u
    PROVE  Moved(r, Valued(x, u), w) /\ Valued(x, u).v = u
BY WithValue DEF Valued

\* Signed integers.
IsInt32(v) == v \in Int /\ -U32 <= 2 * v /\ 2 * v < U32

\* A conversion to unsigned and back.
LEMMA SignedBack ==
    ASSUME NEW v, IsInt32(v)
    PROVE  Unsigned(v) \in Nat /\ Unsigned(v) < U32 /\ Signed(Unsigned(v), 4) = v
<1>1. PICK u \in Nat : u = U32 /\ u > 0 /\ u = Power(Base, 4)
    BY BaseIs DEF U32
<1>2. v \in Int /\ -u <= 2 * v /\ 2 * v < u
    BY <1>1 DEF IsInt32
<1>3. CASE v >= 0
    <2>1. v \in Nat /\ v < u
        BY <1>2, <1>3
    <2>2. v % u = v
        BY <2>1, DivBelow
    <2> QED BY <1>1, <1>2, <2>1, <2>2 DEF Unsigned, Signed
<1>4. CASE v < 0
    <2>1. v % u = v + u
        BY <1>1, <1>2, <1>4
    <2>2. v + u \in Nat /\ v + u < u /\ 2 * (v + u) >= u /\ (v + u) - u = v
        BY <1>2, <1>4
    <2> QED BY <1>1, <2>1, <2>2 DEF Unsigned, Signed
<1> QED BY <1>2, <1>3, <1>4

\* var_i32.
LEMMA VarIRead ==
    ASSUME NEW v, IsInt32(v), NEW r, Ready(r, VarI32(v))
    PROVE  /\ Moved(r, ReadVarI32(r), VarI32(v))
           /\ ReadVarI32(r).ok = "yes" => ReadVarI32(r).v = v
<1>1. PICK u \in Nat : u = U32 /\ u > 0
    BY BaseIs
<1>2. v \in Int /\ -u <= 2 * v /\ 2 * v < u
    BY <1>1 DEF IsInt32
<1>3. PICK z \in Nat : /\ z = (IF v >= 0 THEN 2 * v ELSE -2 * v - 1) /\ z < u
                       /\ (IF z % 2 = 0 THEN z \div 2 ELSE -(z \div 2) - 1) = v
    BY <1>2
<1>4. ZigZag(v) = z
    <2>1. z % u = z
        BY <1>3, DivBelow
    <2> QED BY <1>1, <1>3, <2>1 DEF ZigZag, Unsigned
<1>5. VarI32(v) = VarU32(z)
    BY <1>4 DEF VarI32
<1>6. PICK x : x = ReadVarU32(r)
    OBVIOUS
<1>7. Moved(r, x, VarI32(v)) /\ (x.ok = "yes" => x.v = z)
    BY <1>1, <1>3, <1>5, <1>6, VarRead
<1>8. x.ok \in {"yes", "no"}
    BY <1>7 DEF Moved, IsReader
<1>9. CASE x.ok = "no"
    <2>1. ReadVarI32(r) = x
        BY <1>6, <1>9 DEF ReadVarI32
    <2> QED BY <1>7, <1>9, <2>1
<1>10. CASE x.ok = "yes"
    <2>1. ReadVarI32(r) = [x EXCEPT !.v = v]
        BY <1>3, <1>6, <1>7, <1>10 DEF ReadVarI32
    <2> QED BY <1>7, <2>1, WithValue
<1> QED BY <1>8, <1>9, <1>10

\* One reader after another, and after what the two of them read.
LEMMA TwoReads ==
    ASSUME NEW r, NEW x, NEW y, NEW a \in Seq(Nat), NEW b \in Seq(Nat), IsReader(r),
           Moved(r, x, a), Moved(x, y, b)
    PROVE  Moved(r, y, a \o b) /\ (y.ok = "yes" => x.ok = "yes")
BY MovedBoth DEF Moved

\* quat.
LEMMA QuatRead ==
    ASSUME NEW q, q = [x |-> q.x, y |-> q.y, z |-> q.z, w |-> q.w],
           q.x \in Nat, q.x < U32, q.y \in Nat, q.y < U32, q.z \in Nat, q.z < U32, q.w \in Nat, q.w < U32,
           NEW r, Ready(r, Quat(q))
    PROVE  /\ Quat(q) \in Seq(Nat) /\ Moved(r, ReadQuat(r), Quat(q))
           /\ ReadQuat(r).ok = "yes" => ReadQuat(r).v = q
<1> DEFINE P(v) == PushBe(4, v)
<1>1. \A v \in Nat : P(v) \in Seq(Nat)
    BY PushBeIs
<1>2. ASSUME NEW v \in Nat, v < U32, NEW s, Ready(s, P(v))
      PROVE  Moved(s, ReadInt(s, 4), P(v)) /\ (ReadInt(s, 4).ok = "yes" => ReadInt(s, 4).v = v)
    BY <1>2, IntRead DEF U32
<1>3. Quat(q) = ((P(q.x) \o P(q.y)) \o P(q.z)) \o P(q.w)
    BY DEF Quat
<1> HIDE DEF P
<1>4. PICK a, b, c, d \in Seq(Nat) : a = P(q.x) /\ b = P(q.y) /\ c = P(q.z) /\ d = P(q.w)
    BY <1>1
<1>5. PICK ab \in Seq(Nat) : ab = a \o b
    BY ConcatProperties
<1>6. PICK abc \in Seq(Nat) : abc = ab \o c
    BY ConcatProperties
<1>7. PICK abcd \in Seq(Nat) : abcd = abc \o d
    BY ConcatProperties
<1>8. Quat(q) = abcd
    BY <1>3, <1>4, <1>5, <1>6, <1>7
<1>9. IsReader(r) /\ Ready(r, abcd)
    BY <1>8 DEF Ready
<1>10. Ready(r, abc) /\ Ready(r, ab) /\ Ready(r, a)
    <2>1. Ready(r, abc)
        BY <1>7, <1>9, ReadyFirst
    <2>2. Ready(r, ab)
        BY <1>6, <2>1, ReadyFirst
    <2> QED BY <1>5, <2>1, <2>2, ReadyFirst
<1>11. PICK x, y, z, w : x = ReadInt(r, 4) /\ y = ReadInt(x, 4) /\ z = ReadInt(y, 4) /\ w = ReadInt(z, 4)
    OBVIOUS
<1>12. Moved(r, x, a) /\ (x.ok = "yes" => x.v = q.x)
    BY <1>2, <1>4, <1>10, <1>11
<1>13. Ready(x, b)
    BY <1>5, <1>10, <1>12, ReadyNext
<1>14. Moved(x, y, b) /\ (y.ok = "yes" => y.v = q.y)
    BY <1>2, <1>4, <1>11, <1>13
<1>15. Moved(r, y, ab) /\ (y.ok = "yes" => x.ok = "yes")
    BY <1>5, <1>9, <1>12, <1>14, TwoReads
<1>16. Ready(y, c)
    BY <1>6, <1>10, <1>15, ReadyNext
<1>17. Moved(y, z, c) /\ (z.ok = "yes" => z.v = q.z)
    BY <1>2, <1>4, <1>11, <1>16
<1>18. Moved(r, z, abc) /\ (z.ok = "yes" => y.ok = "yes")
    BY <1>6, <1>9, <1>15, <1>17, TwoReads
<1>19. Ready(z, d)
    BY <1>7, <1>9, <1>18, ReadyNext
<1>20. Moved(z, w, d) /\ (w.ok = "yes" => w.v = q.w)
    BY <1>2, <1>4, <1>11, <1>19
<1>21. Moved(r, w, abcd) /\ (w.ok = "yes" => z.ok = "yes")
    BY <1>7, <1>9, <1>18, <1>20, TwoReads
<1>22. ReadQuat(r) = IF w.ok = "no" THEN w ELSE [w EXCEPT !.v = [x |-> x.v, y |-> y.v, z |-> z.v, w |-> w.v]]
    BY <1>11 DEF ReadQuat
<1>23. w.ok \in {"yes", "no"}
    BY <1>21 DEF Moved, IsReader
<1>24. CASE w.ok = "no"
    BY <1>8, <1>21, <1>22, <1>24
<1>25. CASE w.ok = "yes"
    <2>1. x.v = q.x /\ y.v = q.y /\ z.v = q.z /\ w.v = q.w
        BY <1>12, <1>14, <1>15, <1>17, <1>18, <1>20, <1>21, <1>25
    <2>2. ReadQuat(r) = [w EXCEPT !.v = q]
        BY <1>22, <1>25, <2>1
    <2>3. Moved(r, w, abcd)
        BY <1>21
    <2>4. PICK out : out = ReadQuat(r)
        OBVIOUS
    <2>5. out = Valued(w, q)
        BY <2>2, <2>4 DEF Valued
    <2>6. Moved(r, out, abcd) /\ out.v = q
        BY <2>3, <2>5, ValuedMoved
    <2> QED BY <1>8, <2>4, <2>6
<1> QED BY <1>23, <1>24, <1>25

\* next_tlv.
LEMMA TlvRead ==
    ASSUME NEW tag \in Nat, tag < Power(Base, 2), NEW b \in Seq(Nat), Len(b) < U32, NEW r, Ready(r, Tlv(tag, b))
    PROVE  /\ Moved(r, ReadTlv(r), Tlv(tag, b))
           /\ ReadTlv(r).ok = "yes" => ReadTlv(r).v = [tag |-> tag, value |-> b]
<1>1. PICK t \in Seq(Nat) : t = PushBe(2, tag)
    BY PushBeIs
<1>2. PICK l \in Seq(Nat) : l = Blob(b)
    <2>1. VarU32(Len(b)) \in Seq(Nat)
        BY LenProperties, VarU32Is
    <2> QED BY <2>1, ConcatProperties DEF Blob
<1>3. Tlv(tag, b) = t \o l /\ Ready(r, t \o l) /\ IsReader(r)
    BY <1>1, <1>2 DEF Tlv, Ready
<1>4. Ready(r, t)
    BY <1>3, ReadyFirst
<1>5. PICK x, y : x = ReadInt(r, 2) /\ y = ReadBlob(x)
    OBVIOUS
<1>6. Moved(r, x, t) /\ (x.ok = "yes" => x.v = tag)
    BY <1>1, <1>4, <1>5, IntRead
<1>7. Ready(x, l)
    BY <1>3, <1>6, ReadyNext
<1>8. Moved(x, y, l) /\ (y.ok = "yes" => y.v = b)
    BY <1>2, <1>5, <1>7, BlobRead
<1>9. Moved(r, y, t \o l) /\ (y.ok = "yes" => x.ok = "yes")
    BY <1>3, <1>6, <1>8, TwoReads
<1>10. ReadTlv(r) = IF y.ok = "no" THEN y ELSE [y EXCEPT !.v = [tag |-> x.v, value |-> y.v]]
    BY <1>5 DEF ReadTlv
<1>11. y.ok \in {"yes", "no"}
    BY <1>9 DEF Moved, IsReader
<1>12. CASE y.ok = "no"
    BY <1>3, <1>9, <1>10, <1>12
<1>13. CASE y.ok = "yes"
    <2>1. PICK u : u = [tag |-> tag, value |-> b]
        OBVIOUS
    <2>2. x.v = tag /\ y.v = b
        BY <1>6, <1>8, <1>9, <1>13
    <2>3. ReadTlv(r) = [y EXCEPT !.v = u]
        BY <1>10, <1>13, <2>1, <2>2
    <2>4. Moved(r, y, t \o l)
        BY <1>9
    <2>5. PICK out : out = ReadTlv(r)
        OBVIOUS
    <2>6. out = Valued(y, u)
        BY <2>3, <2>5 DEF Valued
    <2>7. Moved(r, out, t \o l) /\ out.v = u
        BY <2>4, <2>6, ValuedMoved
    <2> QED BY <1>3, <2>1, <2>5, <2>7
<1> QED BY <1>11, <1>12, <1>13

\* A reader of a whole sequence.
LEMMA ReadyWhole ==
    ASSUME NEW w \in Seq(Nat)
    PROVE  LET r == Reader(w) IN
           /\ Ready(r, w) /\ r.ok = "yes" /\ r.i = 1 /\ r.source = w /\ r.bitBuffer = 0 /\ r.bitPos = 0
           /\ (r.i + Len(w)) - 1 <= Len(r.source)
<1>1. PICK r : r = Reader(w)
    OBVIOUS
<1>2. Len(w) \in Nat
    BY LenProperties
<1>3. IsReader(r) /\ r.i = 1 /\ r.source = w /\ r.ok = "yes" /\ r.bitBuffer = 0 /\ r.bitPos = 0
    BY <1>1, <1>2 DEF Reader, IsReader
<1>4. \A k \in 1..Len(w) : (1 + k) - 1 = k
    BY <1>2
<1>5. Continues(r.source, r.i, w)
    BY <1>3, <1>4 DEF Continues
<1>6. (r.i + Len(w)) - 1 <= Len(r.source)
    BY <1>2, <1>3
<1> QED BY <1>1, <1>3, <1>5, <1>6 DEF Ready

\* The receiver's lambda starts afresh on whole bytes when it has read the bit fields.
Cleared(x) == [x EXCEPT !.bitBuffer = 0, !.bitPos = 0]
LEMMA ClearedMoved ==
    ASSUME NEW r, NEW w, NEW x, Moved(r, x, w)
    PROVE  Moved(r, Cleared(x), w) /\ Cleared(x).ok = x.ok
<1>1. IsReader(x)
    BY DEF Moved
<1>2. PICK y : y = Cleared(x)
    OBVIOUS
<1>3. y = [source |-> x.source, i |-> x.i, ok |-> x.ok, v |-> x.v, bitBuffer |-> 0, bitPos |-> 0]
    BY <1>1, <1>2 DEF IsReader, Cleared
<1>4. y.source = x.source /\ y.i = x.i /\ y.ok = x.ok
    BY <1>3
<1>5. IsReader(y)
    BY <1>1, <1>3 DEF IsReader
<1>6. Moved(r, y, w)
    BY <1>4, <1>5 DEF Moved
<1> QED BY <1>2, <1>4, <1>6

\* What signed integers and quaternions are written to.
LEMMA VarISeq ==
    ASSUME NEW v, IsInt32(v)
    PROVE  VarI32(v) \in Seq(Nat)
<1>1. PICK u \in Nat : u = U32 /\ u > 0
    BY BaseIs
<1>2. PICK y \in Int : y = (IF v >= 0 THEN 2 * v ELSE -2 * v - 1)
    BY DEF IsInt32
<1>3. PICK z \in Nat : z = ZigZag(v) /\ z < U32
    <2>1. ZigZag(v) = y % u
        BY <1>1, <1>2 DEF ZigZag, Unsigned
    <2>2. y % u \in Nat /\ y % u < u
        BY <1>1, <1>2
    <2> QED BY <1>1, <2>1, <2>2
<1> QED BY <1>3, VarU32Is DEF VarI32
LEMMA QuatSeq ==
    ASSUME NEW q, q.x \in Nat, q.y \in Nat, q.z \in Nat, q.w \in Nat
    PROVE  Quat(q) \in Seq(Nat)
<1>1. PICK a, b, c, d \in Seq(Nat) : a = PushBe(4, q.x) /\ b = PushBe(4, q.y) /\ c = PushBe(4, q.z) /\ d = PushBe(4, q.w)
    BY PushBeIs
<1>2. PICK ab \in Seq(Nat) : ab = a \o b
    BY ConcatProperties
<1>3. PICK abc \in Seq(Nat) : abc = ab \o c
    BY ConcatProperties
<1>4. abc \o d \in Seq(Nat)
    BY ConcatProperties
<1> QED BY <1>1, <1>2, <1>3, <1>4 DEF Quat

\* The parts of a command's arguments: bit fields, a varint, an integer, a quaternion and a TLV.
ArgParts(x, f, v, n, q, d, t, e) ==
    /\ f = WriteBits(x.bits) /\ v = VarI32(x.int) /\ n = PushBe(4, Unsigned(x.int))
    /\ q = [x |-> 1, y |-> 2, z |-> 3, w |-> Unsigned(x.int)] /\ d = Quat(q)
    /\ t = x.int % 7 /\ t \in Nat /\ t < 7 /\ e = Tlv(t, f)
    /\ WriteArgs(x) = (((f \o v) \o n) \o d) \o e
    /\ Len(f) < U32

\* The arguments of a command are bytes, few enough for a blob, and so are their parts.
LEMMA ArgsAreBytes ==
    ASSUME NEW bits \in BitFields, NEW int \in Ints, NEW x, x = [bits |-> bits, int |-> int]
    PROVE  /\ IsFields(bits) /\ IsInt32(int)
           /\ WriteArgs(x) \in Seq(Nat) /\ Len(WriteArgs(x)) < U32
           /\ \E f, v, n, d, e \in Seq(Nat) : \E q, t : ArgParts(x, f, v, n, q, d, t, e)
<1>1. IsFields(bits) /\ IsInt32(int) /\ Len(WriteArgs(x)) < U32 /\ x.bits = bits /\ x.int = int
    BY CommandAssumption DEF IsFields, IsInt32
<1>2. PICK f \in Seq(Nat) : f = WriteBits(bits) /\ Len(f) < U32
    BY <1>1, BitsWritten, CommandAssumption DEF HoldFields
<1>3. PICK m \in Nat : m = Unsigned(int) /\ m < U32
    BY <1>1, SignedBack
<1>4. PICK n \in Seq(Nat) : n = PushBe(4, m)
    BY PushBeIs
<1>5. PICK v \in Seq(Nat) : v = VarI32(int)
    BY <1>1, VarISeq
<1>6. PICK q : q = [x |-> 1, y |-> 2, z |-> 3, w |-> m]
    OBVIOUS
<1>7. PICK d \in Seq(Nat) : d = Quat(q)
    <2>1. q.x \in Nat /\ q.y \in Nat /\ q.z \in Nat /\ q.w \in Nat
        BY <1>6
    <2> QED BY <2>1, QuatSeq
<1>8. PICK t \in Nat : t = int % 7 /\ t < 7
    <2>1. int \in Int
        BY <1>1 DEF IsInt32
    <2>2. int % 7 \in Nat /\ int % 7 < 7
        BY <2>1
    <2> QED BY <2>2
<1>9. PICK fv \in Seq(Nat) : fv = f \o v /\ Len(fv) = Len(f) + Len(v)
    BY ConcatProperties
<1>10. PICK fvn \in Seq(Nat) : fvn = fv \o n /\ Len(fvn) = Len(fv) + Len(n)
    BY ConcatProperties
<1>11. PICK fvnd \in Seq(Nat) : fvnd = fvn \o d /\ Len(fvnd) = Len(fvn) + Len(d)
    BY ConcatProperties
<1>12. WriteArgs(x) = fvnd \o Tlv(t, f)
    BY <1>1, <1>2, <1>3, <1>4, <1>5, <1>6, <1>7, <1>8, <1>9, <1>10, <1>11 DEF WriteArgs
<1>13. PICK e \in Seq(Nat) : e = Tlv(t, f)
    <2>1. PICK h, l \in Seq(Nat) : h = PushBe(2, t) /\ l = VarU32(Len(f))
        BY <1>2, PushBeIs, VarU32Is, LenProperties
    <2>2. PICK b \in Seq(Nat) : b = l \o f
        BY ConcatProperties
    <2>3. h \o b \in Seq(Nat)
        BY ConcatProperties
    <2> QED BY <2>1, <2>2, <2>3 DEF Tlv, Blob
<1>14. WriteArgs(x) = (((f \o v) \o n) \o d) \o e
    BY <1>9, <1>10, <1>11, <1>12, <1>13
<1>15. WriteArgs(x) \in Seq(Nat)
    <2>1. fvnd \o e \in Seq(Nat)
        BY ConcatProperties
    <2> QED BY <1>12, <1>13, <2>1
<1>16. ArgParts(x, f, v, n, q, d, t, e)
    BY <1>1, <1>2, <1>3, <1>4, <1>5, <1>6, <1>7, <1>8, <1>13, <1>14 DEF ArgParts
<1> QED BY <1>1, <1>15, <1>16

\* The receiver's lambda reads the arguments as the sender's wrote them.
LEMMA ArgsRead ==
    ASSUME NEW bits \in BitFields, NEW int \in Ints, NEW x, x = [bits |-> bits, int |-> int]
    PROVE  ReadArgs(WriteArgs(x), x) = ArgsOf(x)
<1>1. IsFields(bits) /\ IsInt32(int) /\ x.bits = bits /\ x.int = int
    BY ArgsAreBytes
<1>2. PICK f, v, n, d, e \in Seq(Nat) : \E q1, t1 : ArgParts(x, f, v, n, q1, d, t1, e)
    BY ArgsAreBytes
<1>3. PICK q, t : ArgParts(x, f, v, n, q, d, t, e)
    BY <1>2
<1>4. PICK m \in Nat : m = Unsigned(int) /\ m < U32 /\ Signed(m, 4) = int
    BY <1>1, SignedBack
<1>5. /\ f = WriteBits(bits) /\ v = VarI32(int) /\ n = PushBe(4, m) /\ d = Quat(q) /\ e = Tlv(t, f)
      /\ q = [x |-> 1, y |-> 2, z |-> 3, w |-> m] /\ t = int % 7 /\ t \in Nat /\ t < 7 /\ Len(f) < U32
    BY <1>1, <1>3, <1>4 DEF ArgParts
<1>6. PICK fv \in Seq(Nat) : fv = f \o v
    BY ConcatProperties
<1>7. PICK fvn \in Seq(Nat) : fvn = fv \o n
    BY ConcatProperties
<1>8. PICK fvnd \in Seq(Nat) : fvnd = fvn \o d
    BY ConcatProperties
<1>9. PICK a \in Seq(Nat) : a = fvnd \o e /\ a = WriteArgs(x)
    <2>1. fvnd \o e \in Seq(Nat)
        BY ConcatProperties
    <2>2. fvnd \o e = WriteArgs(x)
        BY <1>3, <1>6, <1>7, <1>8 DEF ArgParts
    <2> QED BY <2>1, <2>2
<1>10. PICK r : /\ r = Reader(a) /\ IsReader(r) /\ r.ok = "yes" /\ r.i = 1 /\ r.source = a
                /\ r.bitBuffer = 0 /\ r.bitPos = 0
    BY ReadyWhole DEF Ready
<1>11. Ready(r, a) /\ (r.i + Len(a)) - 1 <= Len(r.source)
    BY <1>10, ReadyWhole
<1>12. Ready(r, fvnd) /\ Ready(r, fvn) /\ Ready(r, fv) /\ Ready(r, f)
    <2>1. Ready(r, fvnd)
        BY <1>9, <1>11, ReadyFirst
    <2>2. Ready(r, fvn)
        BY <1>8, <2>1, ReadyFirst
    <2>3. Ready(r, fv)
        BY <1>7, <2>2, ReadyFirst
    <2> QED BY <1>6, <2>1, <2>2, <2>3, ReadyFirst
<1>13. (r.i + Len(f)) - 1 <= Len(r.source)
    <2>1. Len(fv) = Len(f) + Len(v) /\ Len(fvn) = Len(fv) + Len(n)
        BY <1>6, <1>7, ConcatProperties
    <2>2. Len(fvnd) = Len(fvn) + Len(d) /\ Len(a) = Len(fvnd) + Len(e)
        BY <1>8, <1>9, ConcatProperties
    <2>3. Len(f) \in Nat /\ Len(v) \in Nat /\ Len(n) \in Nat /\ Len(d) \in Nat /\ Len(e) \in Nat
        BY LenProperties
    <2> QED BY <1>10, <2>1, <2>2, <2>3
<1>14. PICK counts : /\ counts = [k \in 1..Len(x.bits) |-> x.bits[k].count]
                     /\ counts = CountsOf(bits)
    BY <1>1 DEF CountsOf
<1>15. PICK values : /\ values = [k \in 1..Len(x.bits) |-> x.bits[k].value]
                     /\ values = ValuesOf(bits)
    BY <1>1 DEF ValuesOf
<1>16. PICK s, y : /\ s = ReadAllBits(r, counts) /\ y = Cleared(s.r)
                   /\ y = [s.r EXCEPT !.bitBuffer = 0, !.bitPos = 0]
    BY DEF Cleared
<1>17. s.values = values /\ Moved(r, s.r, f)
    <2>1. Ready(r, WriteBits(bits)) /\ (r.i + Len(WriteBits(bits))) - 1 <= Len(r.source)
        BY <1>5, <1>12, <1>13
    <2>2. r.ok = "yes" /\ r.bitBuffer = 0 /\ r.bitPos = 0 /\ counts = CountsOf(bits)
        BY <1>10, <1>14
    <2>3. /\ ReadAllBits(r, counts).values = ValuesOf(bits)
          /\ Moved(r, ReadAllBits(r, counts).r, WriteBits(bits))
        BY <1>1, <2>1, <2>2, AllBitsRead
    <2> QED BY <1>5, <1>15, <1>16, <2>3
<1>18. Moved(r, y, f)
    <2>1. PICK z : z = s.r /\ Moved(r, z, f) /\ y = Cleared(z)
        BY <1>16, <1>17
    <2> QED BY <2>1, ClearedMoved
<1>19. PICK var, num, quat, tlv : /\ var = ReadVarI32(y) /\ num = ReadInt(var, 4)
                                  /\ quat = ReadQuat(num) /\ tlv = ReadTlv(quat)
    OBVIOUS
<1>20. Ready(y, v)
    BY <1>6, <1>12, <1>18, ReadyNext
<1>21. Moved(y, var, v) /\ (var.ok = "yes" => var.v = int)
    BY <1>1, <1>5, <1>19, <1>20, VarIRead
<1>22. Moved(r, var, fv)
    BY <1>6, <1>10, <1>18, <1>21, TwoReads
<1>23. Ready(var, n)
    BY <1>7, <1>12, <1>22, ReadyNext
<1>24. Moved(var, num, n) /\ (num.ok = "yes" => num.v = m)
    BY <1>4, <1>5, <1>19, <1>23, IntRead DEF U32
<1>25. Moved(r, num, fvn) /\ (num.ok = "yes" => var.ok = "yes")
    BY <1>7, <1>10, <1>22, <1>24, TwoReads
<1>26. Ready(num, d)
    BY <1>8, <1>12, <1>25, ReadyNext
<1>27. Moved(num, quat, d) /\ (quat.ok = "yes" => quat.v = q)
    <2>1. q = [x |-> q.x, y |-> q.y, z |-> q.z, w |-> q.w] /\ q.x = 1 /\ q.y = 2 /\ q.z = 3 /\ q.w = m
        BY <1>5
    <2>2. U32 > 3 /\ U32 \in Nat
        BY TypesFit
    <2>3. q.x \in Nat /\ q.x < U32 /\ q.y \in Nat /\ q.y < U32 /\ q.z \in Nat /\ q.z < U32 /\ q.w \in Nat /\ q.w < U32
        BY <1>4, <2>1, <2>2
    <2>4. Ready(num, Quat(q))
        BY <1>5, <1>26
    <2>5. Moved(num, ReadQuat(num), Quat(q)) /\ (ReadQuat(num).ok = "yes" => ReadQuat(num).v = q)
        BY <2>1, <2>3, <2>4, QuatRead
    <2> QED BY <1>5, <1>19, <2>5
<1>28. Moved(r, quat, fvnd) /\ (quat.ok = "yes" => num.ok = "yes")
    BY <1>8, <1>10, <1>25, <1>27, TwoReads
<1>29. Ready(quat, e)
    BY <1>9, <1>11, <1>28, ReadyNext
<1>30. Moved(quat, tlv, e) /\ (tlv.ok = "yes" => tlv.v = [tag |-> t, value |-> f])
    <2>1. t < Power(Base, 2)
        <3>1. PICK p \in Nat : p = Power(Base, 1) /\ p > 3
            BY SmallFits
        <3>2. Power(Base, 1 + 1) = Base * p /\ Base \in Nat /\ Base > 3
            BY <3>1, BaseIs, PowerUnfolds
        <3>3. PICK c \in Nat : Base = c + 2
            <4>1. Base - 2 \in Nat /\ Base = (Base - 2) + 2
                BY <3>2
            <4> QED BY <4>1
        <3>4. PICK cp \in Nat : cp = c * p /\ cp >= p
            <4>1. c >= 1
                BY <3>2, <3>3
            <4>2. PICK g \in Nat : c = g + 1
                <5>1. c - 1 \in Nat /\ c = (c - 1) + 1
                    BY <4>1
                <5> QED BY <5>1
            <4>3. c * p = g * p + p /\ g * p \in Nat
                BY <4>2
            <4> QED BY <4>3
        <3>5. Base * p = cp + 2 * p
            BY <3>3, <3>4
        <3>6. Power(Base, 2) > 7
            <4>1. 1 + 1 = 2
                OBVIOUS
            <4>2. Power(Base, 2) = cp + 2 * p
                BY <3>2, <3>5, <4>1
            <4>3. p \in Nat /\ cp \in Nat /\ p > 3
                BY <3>1, <3>4
            <4>4. \A y1, y2 \in Nat : y1 > 3 => y2 + 2 * y1 > 7
                OBVIOUS
            <4> QED BY <4>2, <4>3, <4>4
        <3> QED BY <1>5, <3>2, <3>6
    <2>2. Ready(quat, Tlv(t, f))
        BY <1>5, <1>29
    <2>3. Moved(quat, ReadTlv(quat), Tlv(t, f)) /\ (ReadTlv(quat).ok = "yes" => ReadTlv(quat).v = [tag |-> t, value |-> f])
        BY <1>5, <2>1, <2>2, TlvRead
    <2> QED BY <1>5, <1>19, <2>3
<1>31. Moved(r, tlv, a) /\ (tlv.ok = "yes" => quat.ok = "yes")
    BY <1>9, <1>10, <1>28, <1>30, TwoReads
<1>32. tlv.ok = "yes" /\ tlv.i = 1 + Len(a) /\ tlv.source = a
    BY <1>10, <1>11, <1>31 DEF Moved
<1>33. var.v = int /\ num.v = m /\ quat.v = q /\ tlv.v.tag = t /\ tlv.v.value = f
    BY <1>21, <1>24, <1>25, <1>27, <1>28, <1>30, <1>31, <1>32
<1>34. Remaining(tlv) = 0
    <2>1. Len(a) \in Nat
        BY LenProperties
    <2> QED BY <1>32, <2>1 DEF Remaining
<1>35. ReadAllBits(Reader(f), counts).values = values
    <2>1. PICK w : /\ w = Reader(f) /\ Ready(w, f) /\ w.ok = "yes" /\ w.bitBuffer = 0 /\ w.bitPos = 0
                   /\ (w.i + Len(f)) - 1 <= Len(w.source)
        BY ReadyWhole
    <2>2. Ready(w, WriteBits(bits)) /\ (w.i + Len(WriteBits(bits))) - 1 <= Len(w.source)
        BY <1>5, <2>1
    <2>3. w.ok = "yes" /\ w.bitBuffer = 0 /\ w.bitPos = 0 /\ counts = CountsOf(bits)
        BY <1>14, <2>1
    <2>4. ReadAllBits(w, counts).values = ValuesOf(bits)
        BY <1>1, <2>2, <2>3, AllBitsRead
    <2> QED BY <1>15, <2>1, <2>4
<1>36. ReadArgs(a, x) = [ok |-> "yes", bits |-> values, var |-> int, int |-> int, quat |-> q,
                         tag |-> t, left |-> 0, again |-> values]
    <2>1. ReadArgs(a, x) = [ok |-> "yes", bits |-> s.values, var |-> var.v, int |-> Signed(num.v, 4),
                            quat |-> quat.v, tag |-> tlv.v.tag, left |-> Remaining(tlv),
                            again |-> ReadAllBits(Reader(tlv.v.value), counts).values]
        <3>1. ReadArgs(a, x) =
                IF tlv.ok = "no" THEN [ok |-> "no"]
                ELSE [ok |-> "yes", bits |-> s.values, var |-> var.v, int |-> Signed(num.v, 4),
                      quat |-> quat.v, tag |-> tlv.v.tag, left |-> Remaining(tlv),
                      again |-> ReadAllBits(Reader(tlv.v.value), counts).values]
            BY ZenonT(60), <1>10, <1>14, <1>16, <1>19 DEF ReadArgs
        <3>2. tlv.ok # "no"
            BY <1>32
        <3> QED BY <3>1, <3>2
    <2> QED BY <1>4, <1>17, <1>33, <1>34, <1>35, <2>1
<1>37. ArgsOf(x) = [ok |-> "yes", bits |-> values, var |-> int, int |-> int, quat |-> q,
                    tag |-> t, left |-> 0, again |-> values]
    BY <1>1, <1>4, <1>5, <1>15 DEF ArgsOf
<1> QED BY <1>9, <1>36, <1>37

\* So is a command.
LEMMA CommandsArePackets ==
    ASSUME NEW bits \in BitFields, NEW int \in Ints, NEW p,
           p = [type |-> "CommandPacket", head |-> << 1 >>, alternative |-> 1,
                data |-> <<WriteArgs([bits |-> bits, int |-> int])>>]
    PROVE  IsPacket(p)
<1>1. PICK b \in Seq(Nat) : b = WriteArgs([bits |-> bits, int |-> int]) /\ Len(b) < U32
    BY ArgsAreBytes
<1>2. /\ p.type = "CommandPacket" /\ p.head = << 1 >> /\ p.alternative = 1 /\ p.data = <<b>>
      /\ p = [type |-> p.type, head |-> p.head, alternative |-> p.alternative, data |-> p.data]
    BY <1>1
<1>3. /\ p.type \in DOMAIN PacketTypes
      /\ PacketTypes[p.type].head = <<I(4)>> /\ PacketTypes[p.type].data = << <<B>> >>
    BY <1>2 DEF PacketTypes
<1>4. FitFields(<<I(4)>>, << 1 >>)
    <2>1. Fits(I(4), 1) /\ Len(<<I(4)>>) = 1 /\ \A k \in 1..1 : k = 1
        BY NumberFits
    <2>2. << 1 >> = [k \in 1..1 |-> << 1 >>[k]]
        OBVIOUS
    <2> QED BY <2>1, <2>2 DEF FitFields
<1>5. FitData(<<B>>, <<b>>)
    <2>1. Fits(B, b) /\ Len(<<B>>) = 1 /\ \A k \in 1..1 : k = 1
        BY <1>1 DEF Fits, B
    <2>2. <<b>> = [k \in 1..1 |-> <<b>>[k]]
        OBVIOUS
    <2> QED BY <2>1, <2>2 DEF FitData
<1>6. Chosen(p) = 1
    BY <1>2 DEF Chosen, AlternativeOf
<1>7. Validate(Built(p))
    <2>1. Built(p).type = "CommandPacket" /\ Built(p).head[1] = 1
        BY <1>2 DEF Built
    <2> QED BY <2>1 DEF Validate
<1>8. PacketTypes[p.type].data[1] = <<B>>
    BY <1>3
<1>9. FitFields(PacketTypes[p.type].head, p.head) /\ FitData(PacketTypes[p.type].data[Chosen(p)], p.data)
    BY <1>2, <1>3, <1>4, <1>5, <1>6, <1>8
<1>10. Chosen(p) # 0 /\ p.alternative = Chosen(p)
    BY <1>2, <1>6
<1> QED BY <1>2, <1>3, <1>7, <1>9, <1>10 DEF IsPacket

-----------------------------------------------------------------------------
\* The arguments are those of the command that was sent.
IsCommandOf(p, x) ==
    /\ \E bits \in BitFields, int \in Ints : x = [bits |-> bits, int |-> int]
    /\ p.data = <<WriteArgs(x)>>

\* What was sent is a packet; what was received are its first bytes, and what they give.
WireInv ==
    /\ outgoing = NoPacket => args = NoArgs
    /\ args # NoArgs => IsCommandOf(outgoing, args)
    /\ outgoing = NoPacket => incoming.outcome = "none"
    /\ outgoing # NoPacket => IsPacket(outgoing)
    /\ outgoing # NoPacket /\ incoming.outcome = "none" => wire = Serialize(outgoing)
    /\ incoming.outcome # "none" =>
            \E n \in 0..Len(Serialize(outgoing)) :
                /\ wire = SubSeq(Serialize(outgoing), 1, n)
                /\ incoming = Received(outgoing, wire)

\* Sending and receiving keep that.
LEMMA WireStep == WireInv /\ [WireNext]_wireVars => WireInv'
<1> SUFFICES ASSUME WireInv, [WireNext]_wireVars PROVE WireInv'
    OBVIOUS
<1>1. ASSUME NEW p, IsPacket(p), outgoing = NoPacket, outgoing' = p, wire' = Serialize(p), UNCHANGED incoming,
             args' # NoArgs => IsCommandOf(p, args')
      PROVE  WireInv'
    <2>1. incoming'.outcome = "none"
        BY <1>1 DEF WireInv
    <2>2. p # NoPacket
        <3>1. p.type # "none"
            BY <1>1 DEF IsPacket, PacketTypes
        <3> QED BY <3>1 DEF NoPacket
    <2> QED BY <1>1, <2>1, <2>2 DEF WireInv
<1>2. ASSUME NEW type \in Registered, NEW seed \in Seeds, NEW count \in 0..MaxList, NEW size \in BlobSizes,
             NEW a \in 1..Len(PacketTypes[type].data),
             NEW p \in OutgoingPackets(type, a, seed, count, size), SendPacket(p)
      PROVE  WireInv'
    <2>1. IsPacket(p)
        BY <1>2, OutgoingArePackets DEF SendPacket
    <2>2. args' = NoArgs
        BY <1>2 DEF SendPacket, WireInv
    <2> QED BY <1>1, <1>2, <2>1, <2>2 DEF SendPacket
<1>3. ASSUME NEW bits \in BitFields, NEW int \in Ints, SendCommand([bits |-> bits, int |-> int])
      PROVE  WireInv'
    <2>1. PICK p : p = [type |-> "CommandPacket", head |-> << 1 >>, alternative |-> 1,
                        data |-> <<WriteArgs([bits |-> bits, int |-> int])>>]
        OBVIOUS
    <2>2. IsPacket(p)
        BY <2>1, CommandsArePackets
    <2>3. outgoing = NoPacket /\ outgoing' = p /\ wire' = Serialize(p) /\ UNCHANGED incoming
        BY <1>3, <2>1 DEF SendCommand
    <2>4. args' = [bits |-> bits, int |-> int]
        BY <1>3 DEF SendCommand
    <2>5. IsCommandOf(p, args')
        <3>1. p.data = <<WriteArgs(args')>>
            BY <2>1, <2>4
        <3> QED BY <2>4, <3>1 DEF IsCommandOf
    <2> QED BY <1>1, <2>2, <2>3, <2>5
<1>4. ASSUME NEW n \in 0..Len(wire), ReceiveBytes(n) PROVE WireInv'
    <2>1. PICK p : p = outgoing /\ p = outgoing' /\ p # NoPacket
        BY <1>4 DEF ReceiveBytes
    <2>2. IsPacket(p) /\ wire = Serialize(p)
        BY <1>4, <2>1 DEF ReceiveBytes, WireInv
    <2>3. wire' = SubSeq(Serialize(p), 1, n) /\ incoming' = Received(p, wire')
        BY <1>4, <2>1, <2>2 DEF ReceiveBytes
    <2>4. n \in 0..Len(Serialize(p))
        BY <2>2
    <2>5. incoming'.outcome # "none"
        <3>1. incoming' = IF n = Len(Serialize(p)) THEN [outcome |-> "packet", packet |-> Built(p)]
                          ELSE Failed("throw")
            BY <2>2, <2>3, <2>4, ReceivedIs
        <3> QED BY <3>1 DEF Failed
    <2>6. \E m \in 0..Len(Serialize(outgoing')) :
                wire' = SubSeq(Serialize(outgoing'), 1, m) /\ incoming' = Received(outgoing', wire')
        BY <2>1, <2>3, <2>4
    <2>7. args' = args /\ outgoing' = outgoing
        BY <1>4 DEF ReceiveBytes
    <2>8. args' # NoArgs => IsCommandOf(outgoing', args')
        BY <2>7 DEF WireInv
    <2> QED BY <2>1, <2>2, <2>5, <2>6, <2>8 DEF WireInv
<1>5. CASE UNCHANGED wireVars
    BY <1>5 DEF WireInv, wireVars
<1> QED BY <1>2, <1>3, <1>4, <1>5 DEF WireNext

\* It holds in every state.
LEMMA WireAlways == WireSpec => []WireInv
<1>1. WireInit => WireInv
    BY DEF WireInit, WireInv, Failed
<1> QED BY <1>1, WireStep, PTL DEF WireSpec

\* What the receiver has made of the bytes that it received.
LEMMA Outcome ==
    ASSUME WireInv, incoming.outcome # "none"
    PROVE  /\ IsPacket(outgoing)
           /\ wire = Serialize(outgoing) => incoming = [outcome |-> "packet", packet |-> Built(outgoing)]
           /\ wire # Serialize(outgoing) => incoming = Failed("throw")
<1>1. PICK p : p = outgoing /\ IsPacket(p)
    BY DEF WireInv
<1>2. PICK n \in 0..Len(Serialize(p)) : wire = SubSeq(Serialize(p), 1, n) /\ incoming = Received(p, wire)
    BY <1>1 DEF WireInv
<1>3. incoming = IF n = Len(Serialize(p)) THEN [outcome |-> "packet", packet |-> Built(p)] ELSE Failed("throw")
    BY <1>1, <1>2, ReceivedIs
<1>4. PICK w \in Seq(Nat) : w = Serialize(p)
    <2>1. PICK c, h, d \in Seq(Nat) : Serialize(p) = (c \o h) \o d
        BY <1>1, Serialized
    <2>2. c \o h \in Seq(Nat)
        BY ConcatProperties
    <2>3. (c \o h) \o d \in Seq(Nat)
        BY <2>2, ConcatProperties
    <2> QED BY <2>1, <2>3
<1>5. Len(w) \in Nat /\ n \in Nat /\ n <= Len(w)
    BY <1>4, LenProperties
<1>6. Len(SubSeq(w, 1, n)) = n
    <2>1. (1 + n) - 1 <= Len(w) /\ 1 + n - 1 = n
        BY <1>5
    <2> QED BY <1>5, <2>1, PieceIs
<1>7. n = Len(w) => SubSeq(w, 1, n) = w
    <2> SUFFICES ASSUME n = Len(w) PROVE SubSeq(w, 1, n) = w
        OBVIOUS
    <2>1. (1 + n) - 1 <= Len(w) /\ 1 + n - 1 = n
        BY <1>5
    <2>2. LET piece == SubSeq(w, 1, 1 + n - 1) IN
          piece \in Seq(Nat) /\ Len(piece) = n /\ \A k \in 1..n : piece[k] = w[(1 + k) - 1]
        BY <1>5, <2>1, PieceIs
    <2>3. \A k \in 1..n : (1 + k) - 1 = k
        BY <1>5
    <2>4. PICK piece \in Seq(Nat) : piece = SubSeq(w, 1, n) /\ Len(piece) = Len(w) /\ \A k \in 1..Len(w) : piece[k] = w[k]
        BY <2>1, <2>2, <2>3
    <2> QED BY <2>4, SeqEqual
<1>8. wire = Serialize(p) <=> n = Len(Serialize(p))
    BY <1>2, <1>4, <1>6, <1>7
<1> QED BY <1>1, <1>3, <1>8

\* A packet that was sent whole is the packet that the receiver constructs, for bytes of any
\* number of bits, lists and blobs of any length that their counts can hold and any values of
\* the fields (Interlink's SendMessage, PacketRegistry::CreateFromBytes), and a command's
\* arguments are read as they were written: any number of bit fields of up to 32 bits, wherever
\* they cross bytes, and any int32_t (CommandPacket's WriteArgs and ReadArgs).
THEOREM PacketsAreReadBack == WireSpec => []PacketReadBack
<1>1. WireInv => PacketReadBack
    <2> SUFFICES ASSUME WireInv, incoming.outcome # "none", wire = Serialize(outgoing)
                 PROVE  /\ incoming.outcome = "packet" /\ Same(incoming.packet, outgoing)
                        /\ args # NoArgs => ReadArgs(incoming.packet.data[1], args) = ArgsOf(args)
        BY DEF PacketReadBack
    <2>1. IsPacket(outgoing) /\ incoming = [outcome |-> "packet", packet |-> Built(outgoing)]
        BY Outcome
    <2>2. PICK p : p = outgoing
        OBVIOUS
    <2>3. p = [type |-> p.type, head |-> p.head, alternative |-> p.alternative, data |-> p.data]
        BY <2>1, <2>2 DEF IsPacket
    <2>4. Same(Built(p), p)
        BY <2>3 DEF Same, Built
    <2>5. ASSUME args # NoArgs PROVE ReadArgs(incoming.packet.data[1], args) = ArgsOf(args)
        <3>1. PICK bits \in BitFields, int \in Ints : args = [bits |-> bits, int |-> int]
            BY <2>5 DEF WireInv, IsCommandOf
        <3>2. p.data = <<WriteArgs(args)>>
            BY <2>2, <2>5 DEF WireInv, IsCommandOf
        <3>3. incoming.packet.data = p.data
            BY <2>1, <2>2, <2>3 DEF Built
        <3>4. incoming.packet.data[1] = WriteArgs(args)
            BY <3>2, <3>3
        <3> QED BY <3>1, <3>4, ArgsRead
    <2> QED BY <2>1, <2>2, <2>4, <2>5
<1> QED BY <1>1, WireAlways, PTL

\* With bytes missing a read throws: no packet is the beginning of another one, whatever the
\* sizes of its lists and blobs (ByteReader's checks, Deserialize of every packet).
THEOREM TruncatedPacketsThrow == WireSpec => []TruncatedThrows
<1>1. WireInv => TruncatedThrows
    BY Outcome DEF TruncatedThrows, Failed
<1> QED BY <1>1, WireAlways, PTL
=============================================================================
