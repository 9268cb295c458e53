------------------------- MODULE ServerHandoffProofs -------------------------
(***************************************************************************)
(* The handoff is safe for any number of shards and entities, any delay    *)
(* and any clocks.  The inductive invariant HandoffInv adds to the checked *)
(* properties what the mailboxes hold (MailboxInv) and that a copy still   *)
(* waiting to be dropped is behind the entity (ChainInv).                  *)
(***************************************************************************)
EXTENDS ServerHandoff, TLAPS

-----------------------------------------------------------------------------
\* Initially there is no entity, no handoff and no pending entry.
LEMMA InitInv == Init => HandoffInv
BY HandoffAssumption
   DEF Init, HandoffInv, TypeOK, OneAuthority, NeverLost, PassingIsPending, MailboxInv,
       ChainInv, OnTheWay, HasAuthority, Handoffs, Regions

\* A Tick keeps every variable in its type.
LEMMA TickType ==
    ASSUME TypeOK, NEW s \in Shards, NEW t \in Nat, NEW region \in [Entities -> Regions],
           Tick(s, t, region)
    PROVE  TypeOK'
<1> USE HandoffAssumption
<1> DEFINE hd == Handed(s, t, region)
<1>1. hd \subseteq Entities /\ \A e \in hd : region[e] \in Shards
    <2>1. Held(s, t) \subseteq Entities
        BY DEF TypeOK, Held, Adopted, Handoffs
    <2> QED BY <2>1 DEF Handed, Regions
<1>2. Sent(s, t, region) \subseteq Handoffs
    BY <1>1 DEF Sent, TransferTime, Handoffs
<1>3. \A e \in Entities : Target(s, t, region, e) \in Regions
    BY <1>1 DEF Target, Tracked, TypeOK, Regions
<1>4. up' \subseteq Shards /\ clock' \in [Shards -> Nat] /\ seeded' \in {"yes", "no"} /\ crashes' \in Nat
    BY DEF Tick, TypeOK
<1>5. sim' \in [Shards -> SUBSET Entities]
    BY DEF Tick, TypeOK, Held, Adopted, Handoffs
<1>6. passing' \in [Shards -> [Entities -> Regions]]
    BY <1>3 DEF Tick, TypeOK, Regions
<1>7. outgoing' \subseteq Handoffs /\ incoming' \subseteq Handoffs /\ net' \subseteq Handoffs
    BY <1>2 DEF Tick, TypeOK, Waiting, Pending
<1>8. heard' \in [Shards -> [Shards -> Nat \cup {Never}]]
    BY DEF Tick, TypeOK
<1>9. dropped' \subseteq Entities
    BY DEF Tick, TypeOK, Closed, Handoffs
<1> QED BY <1>4, <1>5, <1>6, <1>7, <1>8, <1>9 DEF TypeOK

\* What a Tick does, in terms of the entities that its shard takes or hands on.
LEMMA TickEffect ==
    ASSUME HandoffInv, NEW s \in Shards, NEW t \in Nat, NEW region \in [Entities -> Regions],
           clock[s] <= t, Tick(s, t, region)
    PROVE  LET held == Held(s, t)
               hd == Handed(s, t, region)
           IN  /\ \A e \in hd : e \in held /\ e \in Entities /\ passing[s][e] = NoShard
                               /\ region[e] \in Shards /\ region[e] # s
               /\ \A o \in outgoing : o.from = s => o.entity \notin hd /\ o.entity \in held
               /\ \A h : h \in Sent(s, t, region) <=>
                      \E e \in hd : h = [from |-> s, to |-> region[e], entity |-> e, time |-> t + Delay]
               /\ \A o : o \in outgoing' <=>
                      \/ o \in outgoing /\ (o.from = s => t < o.time)
                      \/ o \in Sent(s, t, region) /\ t < o.time
               /\ \A e \in Entities : e \in Committed(s, t, region) <=>
                      \/ e \in hd /\ t + Delay <= t
                      \/ \E o \in outgoing : o.from = s /\ o.entity = e /\ o.time <= t
               /\ sim'[s] = held \ Committed(s, t, region)
               /\ \A e \in sim'[s] : passing'[s][e] = IF e \in hd THEN region[e] ELSE passing[s][e]
               /\ \A e \in Entities \ sim'[s] : passing'[s][e] = NoShard
               /\ clock'[s] = t
               /\ \A r \in Shards : r # s => /\ sim'[r] = sim[r] /\ passing'[r] = passing[r]
                                            /\ clock'[r] = clock[r]
<1> USE HandoffAssumption
<1> DEFINE held == Held(s, t)
           hd == Handed(s, t, region)
           sent == Sent(s, t, region)
<1>1. TypeOK /\ PassingIsPending /\ MailboxInv
    BY DEF HandoffInv
<1>2. \A e \in Entities : Tracked(s, e) = passing[s][e]
    BY <1>1 DEF Tracked, MailboxInv
<1>3. held \subseteq Entities /\ sim[s] \subseteq held
    BY <1>1 DEF TypeOK, Held, Adopted, Handoffs
<1>4. \A e \in hd : /\ e \in held /\ e \in Entities /\ passing[s][e] = NoShard
                    /\ region[e] \in Shards /\ region[e] # s
    BY <1>2, <1>3 DEF Handed, Regions
<1>5. \A o \in outgoing : o.from = s =>
          /\ o.entity \in Entities /\ passing[s][o.entity] = o.to /\ o.to # NoShard
          /\ o.entity \notin hd /\ o.entity \in held
    BY <1>1, <1>3, <1>4 DEF TypeOK, Handoffs, PassingIsPending, MailboxInv
<1>6. \A h : h \in sent <=>
          \E e \in hd : h = [from |-> s, to |-> region[e], entity |-> e, time |-> t + Delay]
    BY DEF Sent, TransferTime
<1>7. \A o \in sent : o.from = s /\ o.time \in Nat
    BY <1>6
<1>8. \A o : o \in Pending(s, t, region) <=> o \in outgoing \/ o \in sent
    BY <1>5 DEF Pending
<1>9. \A o \in outgoing : o.time \in Nat
    BY <1>1 DEF TypeOK, Handoffs
<1>10. \A o : o \in Due(s, t, region) <=>
          (o \in outgoing \/ o \in sent) /\ o.from = s /\ o.time <= t
    BY <1>8 DEF Due
<1>11. \A o : o \in outgoing' <=>
           \/ o \in outgoing /\ (o.from = s => t < o.time)
           \/ o \in sent /\ t < o.time
    BY <1>7, <1>8, <1>9, <1>10 DEF Tick, Waiting
<1>12. \A e \in Entities : Target(s, t, region, e) = IF e \in hd THEN region[e] ELSE passing[s][e]
    BY <1>2 DEF Target
<1>13. \A e \in Entities : e \in Committed(s, t, region) <=>
           \/ e \in hd /\ t + Delay <= t
           \/ \E o \in outgoing : o.from = s /\ o.entity = e /\ o.time <= t
    <2> SUFFICES ASSUME NEW e \in Entities
                 PROVE  e \in Committed(s, t, region) <=>
                            \/ e \in hd /\ t + Delay <= t
                            \/ \E o \in outgoing : o.from = s /\ o.entity = e /\ o.time <= t
        OBVIOUS
    <2>1. ASSUME e \in Committed(s, t, region)
          PROVE  \/ e \in hd /\ t + Delay <= t
                 \/ \E o \in outgoing : o.from = s /\ o.entity = e /\ o.time <= t
        <3>1. PICK h \in Due(s, t, region) : h.entity = e
            BY <2>1 DEF Committed
        <3> QED BY <3>1, <1>6, <1>10
    <2>2. ASSUME e \in hd, t + Delay <= t
          PROVE  e \in Committed(s, t, region)
        <3> DEFINE h == [from |-> s, to |-> region[e], entity |-> e, time |-> t + Delay]
        <3>1. h \in Due(s, t, region)
            BY <2>2, <1>6, <1>10
        <3>2. h.entity = e /\ e \in Held(s, t) /\ Target(s, t, region, e) = h.to
            BY <2>2, <1>4, <1>12
        <3> QED BY <3>1, <3>2 DEF Committed
    <2>3. ASSUME NEW o \in outgoing, o.from = s, o.entity = e, o.time <= t
          PROVE  e \in Committed(s, t, region)
        <3>1. o \in Due(s, t, region)
            BY <2>3, <1>10
        <3>2. e \in Held(s, t) /\ Target(s, t, region, e) = o.to
            BY <2>3, <1>5, <1>12
        <3> QED BY <3>1, <3>2, <2>3 DEF Committed
    <2> QED BY <2>1, <2>2, <2>3
<1>14. sim'[s] = held \ Committed(s, t, region)
    BY <1>1 DEF Tick, TypeOK
<1>15. /\ \A e \in sim'[s] : passing'[s][e] = IF e \in hd THEN region[e] ELSE passing[s][e]
       /\ \A e \in Entities \ sim'[s] : passing'[s][e] = NoShard
    BY <1>1, <1>3, <1>12, <1>14 DEF Tick, TypeOK
<1>16. /\ clock'[s] = t
       /\ \A r \in Shards : r # s => /\ sim'[r] = sim[r] /\ passing'[r] = passing[r]
                                    /\ clock'[r] = clock[r]
    BY <1>1 DEF Tick, TypeOK
<1> QED
    BY <1>4, <1>5, <1>6, <1>11, <1>13, <1>14, <1>15, <1>16

\* An entity that a shard holds at a Tick and is not passing on belongs to no other
\* shard, is in no handoff other than those the Tick adopts, and every copy of it that
\* waits elsewhere is due.
LEMMA TickTakes ==
    ASSUME HandoffInv, NEW s \in Shards, NEW t \in Nat, clock[s] <= t,
           NEW e \in Held(s, t), e \in Entities, passing[s][e] = NoShard
    PROVE  /\ \A r \in Shards : HasAuthority(r, e) => r = s
           /\ \A h \in OnTheWay : h.entity = e => h \in Adopted(s, t) /\ h \notin net
           /\ \A o \in outgoing : o.entity = e => o.time <= t
<1> USE HandoffAssumption
<1>1. TypeOK /\ OneAuthority /\ MailboxInv /\ ChainInv
    BY DEF HandoffInv
<1>2. CASE e \in sim[s]
    <2>1. HasAuthority(s, e)
        BY <1>2 DEF HasAuthority
    <2>2. \A h \in OnTheWay : h.entity # e
        BY <1>1, <2>1 DEF OneAuthority
    <2>3. \A o \in outgoing : o.entity = e => o.time <= t
        BY <1>1, <2>1 DEF ChainInv, TypeOK, Handoffs
    <2> QED BY <1>1, <2>1, <2>2, <2>3 DEF OneAuthority
<1>3. CASE \E h \in Adopted(s, t) : h.entity = e
    <2>1. PICK h \in Adopted(s, t) : h.entity = e
        BY <1>3
    <2>2. h \in incoming /\ h \in OnTheWay /\ h.to = s /\ h.time <= t /\ h.time \in Nat
        BY <1>1 DEF Adopted, OnTheWay, TypeOK, Handoffs
    <2>3. \A g \in OnTheWay : g.entity = e => g = h
        BY <1>1, <2>1, <2>2 DEF OneAuthority
    <2>4. h \notin net
        BY <1>1, <2>2 DEF MailboxInv
    <2>5. \A r \in Shards : ~HasAuthority(r, e)
        BY <1>1, <2>1, <2>2 DEF OneAuthority
    <2>6. \A o \in outgoing : o.entity = e => o.time <= t
        BY <1>1, <2>1, <2>2 DEF ChainInv, TypeOK, Handoffs
    <2> QED BY <2>3, <2>4, <2>5, <2>6
<1>4. CASE s = Owner /\ seeded = "no"
    BY <1>1, <1>4 DEF MailboxInv, OnTheWay, HasAuthority
<1> QED BY <1>2, <1>3, <1>4 DEF Held

\* What a Tick of shard s leaves: s keeps the entities that it holds and neither hands
\* on nor is passing, the other shards keep theirs, and the handoffs on the way are
\* those that it neither lost nor adopted, with the ones it sent.
LEMMA TickMoves ==
    ASSUME HandoffInv, NEW s \in Shards, NEW t \in Nat, NEW region \in [Entities -> Regions],
           clock[s] <= t, Tick(s, t, region)
    PROVE  /\ \A e \in Entities : HasAuthority(s, e)' <=>
                  e \in Held(s, t) /\ e \notin Handed(s, t, region) /\ passing[s][e] = NoShard
           /\ \A r \in Shards, e \in Entities :
                  r # s => (HasAuthority(r, e)' <=> HasAuthority(r, e))
           /\ \A h : h \in OnTheWay' <=>
                  \/ h \in net /\ h \notin Closed(s, t)
                  \/ h \in incoming /\ h \notin Adopted(s, t)
                  \/ h \in Sent(s, t, region)
<1> USE HandoffAssumption
<1> DEFINE held == Held(s, t)
           hd == Handed(s, t, region)
<1>1. TypeOK /\ PassingIsPending
    BY DEF HandoffInv
<1>2. /\ \A e \in hd : e \in held /\ e \in Entities /\ region[e] \in Shards
      /\ \A e \in Entities : e \in Committed(s, t, region) <=>
             \/ e \in hd /\ t + Delay <= t
             \/ \E o \in outgoing : o.from = s /\ o.entity = e /\ o.time <= t
      /\ sim'[s] = held \ Committed(s, t, region)
      /\ \A e \in sim'[s] : passing'[s][e] = IF e \in hd THEN region[e] ELSE passing[s][e]
      /\ \A r \in Shards : r # s => sim'[r] = sim[r] /\ passing'[r] = passing[r]
    BY TickEffect
<1> HIDE DEF held, hd
<1>3. ASSUME NEW e \in Entities
      PROVE  HasAuthority(s, e)' <=> e \in held /\ e \notin hd /\ passing[s][e] = NoShard
    <2>1. passing[s][e] = NoShard => \A o \in outgoing : ~(o.from = s /\ o.entity = e)
        BY <1>1 DEF PassingIsPending, TypeOK, Handoffs
    <2>2. e \in held /\ e \notin hd /\ passing[s][e] = NoShard => e \in sim'[s]
        BY <1>2, <2>1
    <2>3. e \in hd => region[e] # NoShard
        BY <1>2
    <2> QED BY <1>2, <2>2, <2>3 DEF HasAuthority
<1>4. \A r \in Shards, e \in Entities : r # s => (HasAuthority(r, e)' <=> HasAuthority(r, e))
    BY <1>2 DEF HasAuthority
<1>5. \A h : h \in OnTheWay' <=>
          \/ h \in net /\ h \notin Closed(s, t)
          \/ h \in incoming /\ h \notin Adopted(s, t)
          \/ h \in Sent(s, t, region)
    BY DEF Tick, OnTheWay
<1> QED BY <1>3, <1>4, <1>5 DEF held, hd

\* A shard that adopts an entity is not passing it on: with a Tick at least once per
\* handoff delay it has dropped its old copy before the entity comes back.
LEMMA AdoptsNoOldCopy ==
    ASSUME HandoffInv, MaxTickGap <= Delay, NEW s \in Shards, NEW t \in Nat,
           t <= clock[s] + MaxTickGap, NEW h \in Adopted(s, t)
    PROVE  h.entity \in Held(s, t) /\ passing[s][h.entity] = NoShard
<1> USE HandoffAssumption
<1>1. TypeOK /\ PassingIsPending /\ MailboxInv /\ ChainInv
    BY DEF HandoffInv
<1>2. /\ h \in incoming /\ h \in OnTheWay /\ h.to = s /\ h.time <= t
      /\ h.time \in Nat /\ h.entity \in Entities
    BY <1>1 DEF Adopted, OnTheWay, TypeOK, Handoffs
<1>3. h.entity \in Held(s, t)
    BY DEF Held
<1>4. ASSUME passing[s][h.entity] # NoShard PROVE FALSE
    <2>1. PICK o \in outgoing : o.from = s /\ o.entity = h.entity
        BY <1>1, <1>2, <1>4 DEF PassingIsPending
    <2>2. h # o
        BY <1>1, <1>2, <2>1 DEF MailboxInv
    <2>3. h.time >= o.time + Delay
        BY <1>1, <1>2, <2>1, <2>2 DEF ChainInv
    <2>4. clock[s] < o.time /\ o.time \in Nat /\ clock[s] \in Nat
        BY <1>1, <2>1 DEF MailboxInv, TypeOK, Handoffs
    <2> QED BY <1>2, <2>3, <2>4
<1> QED BY <1>3, <1>4

\* A Tick preserves the invariant.
LEMMA TickInv ==
    ASSUME HandoffInv, NEW s \in Shards, NEW gap \in 0..MaxTickGap,
           NEW region \in [Entities -> Regions], Tick(s, clock[s] + gap, region)
    PROVE  HandoffInv'
<1> USE HandoffAssumption
<1> DEFINE t == clock[s] + gap
           held == Held(s, t)
           hd == Handed(s, t, region)
           sent == Sent(s, t, region)
<1>1. TypeOK /\ OneAuthority /\ NeverLost /\ PassingIsPending /\ MailboxInv /\ ChainInv
    BY DEF HandoffInv
<1>2. t \in Nat /\ clock[s] \in Nat /\ clock[s] <= t /\ t <= clock[s] + MaxTickGap
    BY <1>1 DEF TypeOK
<1> HIDE DEF t
<1>3. TypeOK'
    BY <1>1, <1>2, TickType DEF t
<1>4. /\ \A e \in hd : e \in held /\ e \in Entities /\ passing[s][e] = NoShard
                     /\ region[e] \in Shards /\ region[e] # s
      /\ \A o \in outgoing : o.from = s => o.entity \notin hd /\ o.entity \in held
      /\ \A h : h \in sent <=>
             \E e \in hd : h = [from |-> s, to |-> region[e], entity |-> e, time |-> t + Delay]
      /\ \A o : o \in outgoing' <=>
             \/ o \in outgoing /\ (o.from = s => t < o.time)
             \/ o \in sent /\ t < o.time
      /\ \A e \in Entities : e \in Committed(s, t, region) <=>
             \/ e \in hd /\ t + Delay <= t
             \/ \E o \in outgoing : o.from = s /\ o.entity = e /\ o.time <= t
      /\ sim'[s] = held \ Committed(s, t, region)
      /\ \A e \in sim'[s] : passing'[s][e] = IF e \in hd THEN region[e] ELSE passing[s][e]
      /\ \A e \in Entities \ sim'[s] : passing'[s][e] = NoShard
      /\ clock'[s] = t
      /\ \A r \in Shards : r # s => /\ sim'[r] = sim[r] /\ passing'[r] = passing[r]
                                   /\ clock'[r] = clock[r]
    BY <1>2, TickEffect DEF t
<1>5. \A e \in held : e \in Entities /\ passing[s][e] = NoShard =>
          /\ \A r \in Shards : HasAuthority(r, e) => r = s
          /\ \A h \in OnTheWay : h.entity = e => h \in Adopted(s, t) /\ h \notin net
          /\ \A o \in outgoing : o.entity = e => o.time <= t
    BY <1>2, TickTakes
<1>6. held \subseteq Entities /\ sim[s] \subseteq held
    BY <1>1 DEF TypeOK, Held, Adopted, Handoffs
<1>7. /\ \A e \in Entities : HasAuthority(s, e)' <=>
             e \in held /\ e \notin hd /\ passing[s][e] = NoShard
      /\ \A r \in Shards, e \in Entities : r # s => (HasAuthority(r, e)' <=> HasAuthority(r, e))
      /\ \A h : h \in OnTheWay' <=>
             \/ h \in net /\ h \notin Closed(s, t)
             \/ h \in incoming /\ h \notin Adopted(s, t)
             \/ h \in sent
    BY <1>2, TickMoves DEF t
<1>8. \A h : h \in OnTheWay' => h \in sent \/ (h \in OnTheWay /\ (h \in Adopted(s, t) => h \in net))
    BY <1>7 DEF OnTheWay
<1> HIDE DEF held, hd, sent
\* Who has authority after the Tick.
<1>9. \A e \in Entities : HasAuthority(s, e)' <=> e \in held /\ e \notin hd /\ passing[s][e] = NoShard
    BY <1>7
<1>10. \A r \in Shards, e \in Entities : r # s => (HasAuthority(r, e)' <=> HasAuthority(r, e))
    BY <1>7
<1>11. OneAuthority'
    <2>1. ASSUME NEW e \in Entities, NEW q \in Shards, NEW r \in Shards,
                 HasAuthority(q, e)', HasAuthority(r, e)'
          PROVE  q = r
        BY <1>1, <1>5, <1>9, <1>10, <2>1 DEF OneAuthority
    <2>2. ASSUME NEW g \in OnTheWay', NEW h \in OnTheWay', g.entity = h.entity
          PROVE  g = h
        <3>1. CASE g \in sent /\ h \in sent
            BY <3>1, <1>4, <2>2
        <3>2. CASE g \notin sent /\ h \notin sent
            BY <3>2, <1>1, <1>8, <2>2 DEF OneAuthority
        <3>3. ASSUME NEW x \in sent, NEW y \in OnTheWay', y \notin sent, x.entity = y.entity
              PROVE  FALSE
            BY <3>3, <1>4, <1>5, <1>8
        <3> QED BY <3>1, <3>2, <3>3, <2>2
    <2>3. ASSUME NEW h \in OnTheWay', NEW r \in Shards, HasAuthority(r, h.entity)'
          PROVE  FALSE
        <3>1. h.entity \in Entities
            BY <1>3, <2>3 DEF OnTheWay, TypeOK, Handoffs
        <3>2. CASE r = s
            BY <3>1, <3>2, <1>4, <1>5, <1>8, <1>9, <2>3
        <3>3. CASE r # s /\ h \in sent
            BY <3>1, <3>3, <1>4, <1>5, <1>10, <2>3
        <3>4. CASE r # s /\ h \notin sent
            BY <3>1, <3>4, <1>1, <1>8, <1>10, <2>3 DEF OneAuthority
        <3> QED BY <3>2, <3>3, <3>4
    <2> QED BY <2>1, <2>2, <2>3 DEF OneAuthority
\* The entries that the Tick leaves, with the shard's passing states.
<1>12. PassingIsPending'
    <2>1. ASSUME NEW o \in outgoing'
          PROVE  passing'[o.from][o.entity] = o.to
        <3>1. o.from \in Shards /\ o.entity \in Entities /\ o.time \in Nat
            BY <1>3 DEF TypeOK, Handoffs
        <3>2. CASE o \in outgoing /\ o.from # s
            BY <3>1, <3>2, <1>1, <1>4 DEF PassingIsPending
        <3>3. CASE o \in outgoing /\ o.from = s
            <4>1. t < o.time /\ o.entity \in held /\ o.entity \notin hd
                BY <3>3, <1>4, <2>1
            <4>2. \A p \in outgoing : p.from = s /\ p.entity = o.entity => p = o
                BY <3>3, <1>1 DEF MailboxInv
            <4>3. o.entity \notin Committed(s, t, region)
                BY <3>1, <4>1, <4>2, <1>2, <1>4
            <4> QED BY <3>1, <3>3, <4>1, <4>3, <1>1, <1>4 DEF PassingIsPending
        <3>4. CASE o \in sent
            <4>1. PICK e \in hd : o = [from |-> s, to |-> region[e], entity |-> e, time |-> t + Delay]
                BY <3>4, <1>4
            <4>2. t < t + Delay
                <5>1. o \notin outgoing
                    BY <4>1, <1>4
                <5> QED BY <5>1, <4>1, <1>4, <2>1
            <4>3. e \notin Committed(s, t, region)
                BY <4>1, <4>2, <1>2, <1>4
            <4> QED BY <4>1, <4>3, <1>4
        <3> QED BY <3>2, <3>3, <3>4, <1>4, <2>1
    <2>2. ASSUME NEW r \in Shards, NEW e \in Entities, passing'[r][e] # NoShard
          PROVE  \E o \in outgoing' : o.from = r /\ o.entity = e
        <3>1. CASE r # s
            BY <3>1, <1>1, <1>4, <2>2 DEF PassingIsPending
        <3>2. CASE r = s /\ e \in hd
            <4> DEFINE h == [from |-> s, to |-> region[e], entity |-> e, time |-> t + Delay]
            <4>1. e \in sim'[s]
                BY <3>2, <1>4, <2>2
            <4>2. ~(t + Delay <= t)
                BY <3>2, <4>1, <1>4
            <4>3. h \in outgoing'
                BY <3>2, <4>2, <1>2, <1>4
            <4> QED BY <3>2, <4>3
        <3>3. CASE r = s /\ e \notin hd
            <4>1. e \in sim'[s] /\ passing[s][e] # NoShard
                BY <3>3, <1>4, <2>2
            <4>2. PICK o \in outgoing : o.from = s /\ o.entity = e
                BY <4>1, <1>1 DEF PassingIsPending
            <4>3. o.time \in Nat
                BY <1>1 DEF TypeOK, Handoffs
            <4>4. t < o.time
                BY <4>1, <4>2, <4>3, <1>2, <1>4
            <4> QED BY <3>3, <4>2, <4>4, <1>4
        <3> QED BY <3>1, <3>2, <3>3
    <2> QED BY <2>1, <2>2 DEF PassingIsPending
<1>13. MailboxInv'
    <2>1. \A o \in outgoing' : clock'[o.from] < o.time
        <3> SUFFICES ASSUME NEW o \in outgoing' PROVE clock'[o.from] < o.time
            OBVIOUS
        <3>1. o.from \in Shards
            BY <1>3 DEF TypeOK, Handoffs
        <3>2. CASE o.from = s
            BY <3>2, <1>4
        <3>3. CASE o.from # s
            BY <3>1, <3>3, <1>1, <1>4 DEF MailboxInv
        <3> QED BY <3>2, <3>3
    <2>2. \A h \in outgoing' \cup OnTheWay' : h.from # h.to
        BY <1>1, <1>4, <1>8 DEF MailboxInv
    <2>3. ASSUME NEW o \in outgoing', NEW p \in outgoing', o.from = p.from, o.entity = p.entity
          PROVE  o = p
        <3>1. CASE o \in outgoing /\ p \in outgoing
            BY <3>1, <1>1, <2>3 DEF MailboxInv
        <3>2. ASSUME NEW x \in sent, NEW y \in outgoing, x.from = y.from, x.entity = y.entity
              PROVE  FALSE
            BY <3>2, <1>4
        <3>3. CASE o \in sent /\ p \in sent
            BY <3>3, <1>4, <2>3
        <3> QED BY <3>1, <3>2, <3>3, <1>4, <2>3
    <2>4. ASSUME NEW h \in net' PROVE h \notin incoming'
        <3>1. CASE h \in sent
            BY <3>1, <1>4, <1>5 DEF Tick, OnTheWay, t
        <3>2. CASE h \notin sent
            BY <3>2, <1>1, <2>4 DEF Tick, MailboxInv, sent, t
        <3> QED BY <3>1, <3>2
    <2>5. \A r \in Shards, e \in Entities : passing'[r][e] # NoShard => e \in sim'[r]
        BY <1>1, <1>4 DEF MailboxInv
    <2>6. ASSUME seeded' = "no"
          PROVE  /\ outgoing' = {} /\ net' = {} /\ incoming' = {}
                 /\ \A r \in Shards : sim'[r] = {}
        <3>1. seeded = "no" /\ s # Owner
            BY <2>6 DEF Tick
        <3>2. outgoing = {} /\ net = {} /\ incoming = {} /\ \A r \in Shards : sim[r] = {}
            BY <3>1, <1>1 DEF MailboxInv
        <3>3. held = {}
            BY <3>1, <3>2 DEF held, Held, Adopted
        <3>4. sent = {}
            BY <3>3, <1>4
        <3>5. net' = {} /\ incoming' = {}
            BY <3>2, <3>4 DEF Tick, sent, t
        <3> QED BY <3>2, <3>3, <3>4, <3>5, <1>4
    <2> QED BY <2>1, <2>2, <2>3, <2>4, <2>5, <2>6 DEF MailboxInv
<1>14. ChainInv'
    <2> SUFFICES ASSUME NEW o \in outgoing'
                 PROVE  /\ \A h \in OnTheWay' : h.entity = o.entity =>
                               h = o \/ h.time >= o.time + Delay
                        /\ \A r \in Shards : HasAuthority(r, o.entity)' => clock'[r] >= o.time
        BY DEF ChainInv
    <2>1. o.from \in Shards /\ o.entity \in Entities /\ o.time \in Nat
        BY <1>3 DEF TypeOK, Handoffs
    <2>2. CASE o \in outgoing
        <3>1. ASSUME NEW h \in OnTheWay', h.entity = o.entity
              PROVE  h = o \/ h.time >= o.time + Delay
            <4>1. CASE h \in sent
                BY <4>1, <3>1, <2>1, <2>2, <1>2, <1>4, <1>5
            <4>2. CASE h \notin sent
                BY <4>2, <3>1, <2>2, <1>1, <1>8 DEF ChainInv
            <4> QED BY <4>1, <4>2
        <3>2. ASSUME NEW r \in Shards, HasAuthority(r, o.entity)'
              PROVE  clock'[r] >= o.time
            <4>1. CASE r = s
                BY <4>1, <3>2, <2>1, <2>2, <1>2, <1>4, <1>5, <1>9
            <4>2. CASE r # s
                BY <4>2, <3>2, <2>1, <2>2, <1>1, <1>4, <1>10 DEF ChainInv
            <4> QED BY <4>1, <4>2
        <3> QED BY <3>1, <3>2
    <2>3. CASE o \in sent
        <3>1. o.entity \in hd
            BY <2>3, <1>4
        <3>2. \A h \in OnTheWay' : h.entity = o.entity => h = o
            BY <2>3, <1>11, <1>7 DEF OneAuthority
        <3>3. \A r \in Shards : ~HasAuthority(r, o.entity)'
            BY <2>1, <3>1, <1>4, <1>5, <1>9, <1>10
        <3> QED BY <3>2, <3>3
    <2> QED BY <2>2, <2>3, <1>4
\* The one place that needs the bound on the time between Ticks: an entity that comes
\* back finds no old copy.
<1>15. NeverLost'
    <2> SUFFICES ASSUME seeded' = "yes", crashes' = 0, MaxTickGap <= Delay,
                        NEW e \in Entities, e \notin dropped'
                 PROVE  \/ \E r \in Shards : HasAuthority(r, e)'
                        \/ \E h \in OnTheWay' : h.entity = e
        BY DEF NeverLost
    <2>1. e \notin dropped /\ crashes = 0 /\ (\A h \in Closed(s, t) : h.entity # e)
        BY DEF Tick, t
    <2>2. ASSUME e \in held, passing[s][e] = NoShard
          PROVE  \/ HasAuthority(s, e)'
                 \/ \E h \in OnTheWay' : h.entity = e
        <3>1. CASE e \in hd
            <4> DEFINE h == [from |-> s, to |-> region[e], entity |-> e, time |-> t + Delay]
            <4>1. h \in sent
                BY <3>1, <1>4
            <4>2. h \in OnTheWay'
                BY <4>1, <1>7
            <4> QED BY <4>2
        <3>2. CASE e \notin hd
            BY <2>2, <3>2, <1>9
        <3> QED BY <3>1, <3>2
    <2>3. CASE seeded = "no"
        <3>1. s = Owner
            BY <2>3 DEF Tick
        <3>2. e \in held
            BY <2>3, <3>1 DEF held, Held
        <3>3. passing[s][e] = NoShard
            BY <2>3, <1>1 DEF MailboxInv
        <3> QED BY <3>2, <3>3, <2>2
    <2>4. CASE seeded # "no"
        <3>1. \/ \E r \in Shards : HasAuthority(r, e)
              \/ \E h \in OnTheWay : h.entity = e
            BY <2>1, <2>4, <1>1 DEF NeverLost, TypeOK
        <3>2. ASSUME NEW r \in Shards, HasAuthority(r, e)
              PROVE  \/ \E q \in Shards : HasAuthority(q, e)'
                     \/ \E h \in OnTheWay' : h.entity = e
            <4>1. CASE r = s
                BY <4>1, <3>2, <2>2, <1>6 DEF HasAuthority
            <4>2. CASE r # s
                BY <4>2, <3>2, <1>10
            <4> QED BY <4>1, <4>2
        <3>3. ASSUME NEW h \in OnTheWay, h.entity = e, h \notin Adopted(s, t)
              PROVE  h \in OnTheWay'
            BY <3>3, <2>1, <1>7 DEF OnTheWay
        <3>4. ASSUME NEW h \in Adopted(s, t), h.entity = e
              PROVE  e \in held /\ passing[s][e] = NoShard
            BY <3>4, <1>2, AdoptsNoOldCopy DEF held
        <3> QED BY <3>1, <3>2, <3>3, <3>4, <2>2
    <2> QED BY <2>3, <2>4
<1> QED BY <1>3, <1>11, <1>12, <1>13, <1>14, <1>15 DEF HandoffInv

\* The arrival of a handoff preserves the invariant: it moves from the network to the
\* mailbox and replaces nothing.
LEMMA PacketInv ==
    ASSUME HandoffInv, NEW h \in net, OnGenericEntityPacket(h)
    PROVE  HandoffInv'
<1> USE HandoffAssumption
<1>1. TypeOK /\ OneAuthority /\ NeverLost /\ PassingIsPending /\ MailboxInv /\ ChainInv
    BY DEF HandoffInv
<1>2. h \in Handoffs /\ h \in OnTheWay
    BY <1>1 DEF TypeOK, OnTheWay
<1>3. \A i \in incoming : i.entity # h.entity
    BY <1>1, <1>2 DEF OneAuthority, MailboxInv, OnTheWay
<1>4. incoming' = incoming \cup {h} /\ net' = net \ {h}
    BY <1>3 DEF OnGenericEntityPacket, Queued
<1>5. OnTheWay' = OnTheWay
    BY <1>4 DEF OnTheWay
<1>6. TypeOK'
    BY <1>1, <1>2, <1>4 DEF OnGenericEntityPacket, TypeOK, Handoffs
<1>7. UNCHANGED <<clock, sim, passing, outgoing, seeded, dropped, crashes>>
    BY DEF OnGenericEntityPacket
<1>8. \A s, e : HasAuthority(s, e)' <=> HasAuthority(s, e)
    BY <1>7 DEF HasAuthority
<1>9. OneAuthority' /\ ChainInv'
    BY <1>1, <1>5, <1>7, <1>8 DEF OneAuthority, ChainInv
<1>10. NeverLost' /\ PassingIsPending'
    BY <1>1, <1>5, <1>7, <1>8 DEF NeverLost, PassingIsPending
<1>11. MailboxInv'
    BY <1>1, <1>4, <1>5, <1>7 DEF MailboxInv
<1> QED BY <1>6, <1>9, <1>10, <1>11 DEF HandoffInv

\* A crash preserves the invariant: it only takes away.
LEMMA CrashInv ==
    ASSUME HandoffInv, NEW s \in Shards, Crash(s)
    PROVE  HandoffInv'
<1> USE HandoffAssumption
<1>1. TypeOK /\ OneAuthority /\ NeverLost /\ PassingIsPending /\ MailboxInv /\ ChainInv
    BY DEF HandoffInv
<1>2. TypeOK'
    BY <1>1 DEF Crash, TypeOK, Regions
<1>3. /\ \A r \in Shards, e \in Entities : HasAuthority(r, e)' => HasAuthority(r, e)
      /\ \A r \in Shards : r # s => sim'[r] = sim[r] /\ passing'[r] = passing[r]
      /\ sim'[s] = {} /\ \A e \in Entities : passing'[s][e] = NoShard
    BY <1>1 DEF Crash, HasAuthority, TypeOK
<1>4. /\ \A h : h \in OnTheWay' => h \in OnTheWay
      /\ \A o : o \in outgoing' <=> o \in outgoing /\ o.from # s
      /\ UNCHANGED <<clock, net, seeded>>
      /\ \A i \in incoming' : i \in incoming
    BY DEF Crash, OnTheWay
<1>5. \A h \in OnTheWay' \cup outgoing' : h.entity \in Entities /\ h.from \in Shards
    BY <1>2 DEF TypeOK, OnTheWay, Handoffs
<1>6. OneAuthority'
    BY <1>1, <1>3, <1>4, <1>5 DEF OneAuthority
<1>7. NeverLost'
    <2>1. crashes' # 0
        BY <1>1 DEF Crash, TypeOK
    <2> QED BY <2>1 DEF NeverLost
<1>8. PassingIsPending'
    BY <1>1, <1>3, <1>4, <1>5 DEF PassingIsPending
<1>9. ChainInv'
    BY <1>1, <1>3, <1>4, <1>5 DEF ChainInv
<1>10. MailboxInv'
    BY <1>1, <1>3, <1>4, <1>5 DEF MailboxInv
<1> QED BY <1>2, <1>6, <1>7, <1>8, <1>9, <1>10 DEF HandoffInv

-----------------------------------------------------------------------------
\* HandoffInv holds in every reachable state.
THEOREM HandoffInvariant == Spec => []HandoffInv
<1>1. Init => HandoffInv
    BY InitInv
<1>2. HandoffInv /\ [Next]_vars => HandoffInv'
    <2> SUFFICES ASSUME HandoffInv, [Next]_vars PROVE HandoffInv'
        OBVIOUS
    <2>1. CASE UNCHANGED vars
        BY <2>1 DEF vars, HandoffInv, TypeOK, OneAuthority, NeverLost, PassingIsPending,
                    MailboxInv, ChainInv, OnTheWay, HasAuthority
    <2>2. ASSUME NEW s \in Shards, NEW gap \in 0..MaxTickGap, NEW region \in [Entities -> Regions],
                 Tick(s, clock[s] + gap, region)
          PROVE  HandoffInv'
        BY <2>2, TickInv
    <2>3. ASSUME NEW h \in net, OnGenericEntityPacket(h) PROVE HandoffInv'
        BY <2>3, PacketInv
    <2>4. ASSUME NEW s \in Shards, Crash(s) PROVE HandoffInv'
        BY <2>4, CrashInv
    <2> QED BY <2>1, <2>2, <2>3, <2>4 DEF Next
<1> QED BY <1>1, <1>2, PTL DEF Spec

\* Every variable keeps its type: SH_BorderHandoffPlanner's transfer times are times.
THEOREM TypeCorrect == Spec => []TypeOK
<1>1. HandoffInv => TypeOK
    BY DEF HandoffInv
<1> QED BY <1>1, HandoffInvariant, PTL

\* The tracker never leaves an entity with two authorities, however many shards there
\* are, whatever their clocks say, and through crashes and closed connections.
THEOREM AuthorityIsUnique == Spec => []OneAuthority
<1>1. HandoffInv => OneAuthority
    BY DEF HandoffInv
<1> QED BY <1>1, HandoffInvariant, PTL

\* When no shard goes longer than handoffDelay between two Ticks, CommitOutgoingIfDue
\* never drops the last copy of an entity.
THEOREM EntitiesAreKept == Spec => []NeverLost
<1>1. HandoffInv => NeverLost
    BY DEF HandoffInv
<1> QED BY <1>1, HandoffInvariant, PTL

\* The tracker and the mailbox agree, so the cancel branch of CommitOutgoingIfDue is
\* never taken.
THEOREM TrackerMatchesMailbox == Spec => []PassingIsPending
<1>1. HandoffInv => PassingIsPending
    BY DEF HandoffInv
<1> QED BY <1>1, HandoffInvariant, PTL
-----------------------------------------------------------------------------
(* The refinement of EntityAuthority. *)

\* The place of an entity follows from its handoff on the way and its authority: they
\* are unique, and exclude each other.
Places ==
    \A e \in Entities :
        /\ seeded = "no" => PlaceOf(e) = [is |-> "unseeded", shard |-> Owner]
        /\ \A h \in OnTheWay : seeded # "no" /\ h.entity = e =>
               PlaceOf(e) = [is |-> "sent", shard |-> h.to]
        /\ \A s \in Shards : seeded # "no" /\ HasAuthority(s, e) =>
               PlaceOf(e) = [is |-> "with", shard |-> s]
        /\ seeded # "no" /\ (\A h \in OnTheWay : h.entity # e) /\ (\A s \in Shards : ~HasAuthority(s, e))
               => PlaceOf(e) = [is |-> "lost", shard |-> Owner]

\* An entity is in the place its handoff on the way or its authority gives it.
LEMMA PlacesKnown == OneAuthority => Places
<1> SUFFICES ASSUME OneAuthority, NEW e \in Entities
             PROVE  /\ seeded = "no" => PlaceOf(e) = [is |-> "unseeded", shard |-> Owner]
                    /\ \A h \in OnTheWay : seeded # "no" /\ h.entity = e =>
                           PlaceOf(e) = [is |-> "sent", shard |-> h.to]
                    /\ \A s \in Shards : seeded # "no" /\ HasAuthority(s, e) =>
                           PlaceOf(e) = [is |-> "with", shard |-> s]
                    /\ seeded # "no" /\ (\A h \in OnTheWay : h.entity # e)
                           /\ (\A s \in Shards : ~HasAuthority(s, e))
                           => PlaceOf(e) = [is |-> "lost", shard |-> Owner]
    BY DEF Places
<1>1. ASSUME NEW h \in OnTheWay, seeded # "no", h.entity = e
      PROVE  PlaceOf(e) = [is |-> "sent", shard |-> h.to]
    <2>1. (CHOOSE g \in OnTheWay : g.entity = e) = h
        BY <1>1 DEF OneAuthority
    <2> QED BY <1>1, <2>1 DEF PlaceOf
<1>2. ASSUME NEW s \in Shards, seeded # "no", HasAuthority(s, e)
      PROVE  PlaceOf(e) = [is |-> "with", shard |-> s]
    <2>1. (CHOOSE r \in Shards : HasAuthority(r, e)) = s
        BY <1>2 DEF OneAuthority
    <2>2. ~\E h \in OnTheWay : h.entity = e
        BY <1>2 DEF OneAuthority
    <2> QED BY <1>2, <2>1, <2>2 DEF PlaceOf
<1> QED BY <1>1, <1>2 DEF PlaceOf

\* A Tick moves every entity as EntityAuthority lets its shard do: what the shard takes
\* was with it, sent to it or not yet seeded, and what a connection it closes loses is
\* broken.
LEMMA TickRefines ==
    ASSUME HandoffInv, HandoffInv', Places, Places', MaxTickGap <= Delay,
           NEW s \in Shards, NEW gap \in 0..MaxTickGap, NEW region \in [Entities -> Regions],
           Tick(s, clock[s] + gap, region)
    PROVE  Authority!Step(s)
<1> USE HandoffAssumption
<1> DEFINE t == clock[s] + gap
           held == Held(s, t)
           hd == Handed(s, t, region)
           sent == Sent(s, t, region)
           broken == IF crashes > 0 THEN Entities ELSE dropped
<1>1. TypeOK /\ OneAuthority /\ MailboxInv /\ TypeOK'
    BY DEF HandoffInv
<1>2. t \in Nat /\ clock[s] <= t /\ t <= clock[s] + MaxTickGap
    BY <1>1 DEF TypeOK
<1>3. Tick(s, t, region)
    OBVIOUS
<1> HIDE DEF t
<1>4. /\ \A e \in Entities : HasAuthority(s, e)' <=>
             e \in held /\ e \notin hd /\ passing[s][e] = NoShard
      /\ \A r \in Shards, e \in Entities : r # s => (HasAuthority(r, e)' <=> HasAuthority(r, e))
      /\ \A h : h \in OnTheWay' <=>
             \/ h \in net /\ h \notin Closed(s, t)
             \/ h \in incoming /\ h \notin Adopted(s, t)
             \/ h \in sent
    BY <1>2, <1>3, TickMoves
<1>5. \A e \in hd : e \in held /\ passing[s][e] = NoShard /\ region[e] \in Shards /\ region[e] # s
    BY <1>2, <1>3, TickEffect
<1>6. \A h : h \in sent <=>
          \E e \in hd : h = [from |-> s, to |-> region[e], entity |-> e, time |-> t + Delay]
    BY DEF Sent, TransferTime
<1>7. \A e \in held : e \in Entities /\ passing[s][e] = NoShard =>
          /\ \A r \in Shards : HasAuthority(r, e) => r = s
          /\ \A h \in OnTheWay : h.entity = e => h \in Adopted(s, t) /\ h \notin net
    BY <1>2, TickTakes
<1>8. \A h \in Adopted(s, t) : h.entity \in held /\ passing[s][h.entity] = NoShard /\ h.to = s
    BY <1>2, AdoptsNoOldCopy DEF Adopted
<1>9. /\ \A h \in Closed(s, t) : h \in net /\ h.entity \in dropped'
      /\ dropped \subseteq dropped' /\ crashes' = crashes
      /\ seeded' = "no" => seeded = "no"
      /\ seeded = "no" /\ seeded' # "no" => s = Owner
      /\ seeded = "no" /\ s = Owner => seeded' # "no"
    BY <1>3 DEF Tick, Closed
<1>10. \A e \in Entities : e \in held =>
           \/ e \in sim[s]
           \/ \E h \in Adopted(s, t) : h.entity = e
           \/ s = Owner /\ seeded = "no"
    BY DEF Held
<1>11. s = Owner /\ seeded = "no" => Entities \subseteq held
    BY DEF Held
<1>12. \A h \in OnTheWay : h \in Handoffs
    BY <1>1 DEF OnTheWay, TypeOK
<1> HIDE DEF held, hd, sent
\* What the shard takes is with it, or sent on, after the Tick.
<1>13. ASSUME NEW e \in Entities, e \in held, passing[s][e] = NoShard, seeded' # "no"
       PROVE  PlaceOf(e)' \in {Authority!With(s)} \cup {Authority!SentTo(r) : r \in Shards \ {s}}
    <2>1. CASE e \in hd
        <3> DEFINE h == [from |-> s, to |-> region[e], entity |-> e, time |-> t + Delay]
        <3>1. h \in OnTheWay' /\ h.entity = e /\ h.to = region[e]
            BY <2>1, <1>4, <1>6
        <3>2. PlaceOf(e)' = [is |-> "sent", shard |-> region[e]]
            BY <3>1, <1>13 DEF Places
        <3> QED BY <3>2, <2>1, <1>5 DEF Authority!SentTo
    <2>2. CASE e \notin hd
        <3>1. HasAuthority(s, e)'
            BY <2>2, <1>13, <1>4
        <3>2. PlaceOf(e)' = [is |-> "with", shard |-> s]
            BY <3>1, <1>13 DEF Places
        <3> QED BY <3>2 DEF Authority!With
    <2> QED BY <2>1, <2>2
<1>14. ASSUME NEW e \in Entities
       PROVE  \/ PlaceOf(e)' = PlaceOf(e)
              \/ PlaceOf(e)' \in Authority!Reachable(s, PlaceOf(e))
              \/ PlaceOf(e)' = Authority!Lost /\ PlaceOf(e) # Authority!Unseeded /\ e \in broken'
    <2>1. CASE seeded' = "no"
        BY <2>1, <1>9 DEF Places
    <2>2. CASE seeded = "no" /\ seeded' # "no"
        <3>1. PlaceOf(e) = Authority!Unseeded /\ s = Owner
            BY <2>2, <1>9 DEF Places, Authority!Unseeded
        <3>2. e \in held /\ passing[s][e] = NoShard
            BY <2>2, <3>1, <1>1, <1>11 DEF MailboxInv
        <3> QED BY <2>2, <3>1, <3>2, <1>13 DEF Authority!Reachable
    <2>3. CASE seeded # "no" /\ seeded' # "no"
        <3>1. CASE HasAuthority(s, e)
            <4>1. PlaceOf(e) = Authority!With(s)
                BY <2>3, <3>1 DEF Places, Authority!With
            <4>2. e \in held /\ passing[s][e] = NoShard
                BY <3>1 DEF HasAuthority, held, Held
            <4> QED BY <2>3, <4>1, <4>2, <1>13 DEF Authority!Reachable
        <3>2. ASSUME NEW r \in Shards, r # s, HasAuthority(r, e)
              PROVE  PlaceOf(e)' = PlaceOf(e)
            <4>1. HasAuthority(r, e)'
                BY <3>2, <1>4
            <4> QED BY <2>3, <3>2, <4>1 DEF Places
        <3>3. ASSUME NEW h \in Adopted(s, t), h.entity = e
              PROVE  PlaceOf(e)' \in Authority!Reachable(s, PlaceOf(e))
            <4>1. h \in OnTheWay
                BY <3>3 DEF Adopted, OnTheWay
            <4>2. PlaceOf(e) = Authority!SentTo(s)
                BY <2>3, <3>3, <4>1, <1>8 DEF Places, Authority!SentTo
            <4>3. e \in held /\ passing[s][e] = NoShard
                BY <3>3, <1>8
            <4> QED BY <2>3, <4>2, <4>3, <1>13 DEF Authority!Reachable
        <3>4. ASSUME NEW h \in OnTheWay, h.entity = e, h \notin Adopted(s, t), h \notin Closed(s, t)
              PROVE  PlaceOf(e)' = PlaceOf(e)
            <4>1. h \in OnTheWay'
                BY <3>4, <1>4 DEF OnTheWay
            <4> QED BY <2>3, <3>4, <4>1 DEF Places
        <3>5. ASSUME NEW h \in Closed(s, t), h.entity = e
              PROVE  PlaceOf(e)' = Authority!Lost /\ PlaceOf(e) # Authority!Unseeded /\ e \in broken'
            <4>1. h \in OnTheWay /\ h \in net /\ h \notin incoming
                BY <3>5, <1>1, <1>9 DEF OnTheWay, MailboxInv
            <4>2. \A g \in OnTheWay : g.entity = e => g = h
                BY <3>5, <4>1, <1>1 DEF OneAuthority
            <4>3. e \in held => passing[s][e] # NoShard
                BY <3>5, <4>1, <1>7
            <4>4. \A g \in OnTheWay' : g.entity # e
                BY <3>5, <4>1, <4>2, <4>3, <1>4, <1>5, <1>6 DEF OnTheWay
            <4>5. \A r \in Shards : ~HasAuthority(r, e)'
                BY <3>5, <4>1, <4>3, <1>1, <1>4 DEF OneAuthority
            <4>6. PlaceOf(e)' = Authority!Lost
                BY <2>3, <4>4, <4>5 DEF Places, Authority!Lost
            <4>7. PlaceOf(e) = [is |-> "sent", shard |-> h.to]
                BY <2>3, <3>5, <4>1 DEF Places
            <4>8. e \in broken'
                BY <3>5, <1>9
            <4> QED BY <4>6, <4>7, <4>8 DEF Authority!Unseeded
        <3>6. ASSUME \A h \in OnTheWay : h.entity # e, \A r \in Shards : ~HasAuthority(r, e)
              PROVE  PlaceOf(e)' = PlaceOf(e)
            <4>1. e \in held => passing[s][e] # NoShard
                BY <2>3, <3>6, <1>10 DEF HasAuthority, OnTheWay, Adopted
            <4>2. \A g \in OnTheWay' : g.entity # e
                BY <3>6, <4>1, <1>4, <1>5, <1>6 DEF OnTheWay
            <4>3. \A r \in Shards : ~HasAuthority(r, e)'
                BY <3>6, <4>1, <1>4
            <4> QED BY <2>3, <3>6, <4>2, <4>3 DEF Places
        <3> QED BY <3>1, <3>2, <3>3, <3>4, <3>5, <3>6
    <2> QED BY <2>1, <2>2, <2>3
<1>15. broken \subseteq broken' /\ broken' \subseteq Entities
    BY <1>1, <1>9 DEF TypeOK
<1> QED BY <1>14, <1>15 DEF Authority!Step

\* A crash breaks every entity; those that were with the shard are lost.
LEMMA CrashRefines ==
    ASSUME HandoffInv, HandoffInv', Places, Places', NEW s \in Shards, Crash(s)
    PROVE  Authority!Step(s)
<1> USE HandoffAssumption
<1>1. TypeOK /\ OneAuthority /\ TypeOK'
    BY DEF HandoffInv
<1>2. crashes \in Nat /\ crashes' = crashes + 1 /\ seeded' = seeded /\ dropped \subseteq Entities
    BY <1>1 DEF Crash, TypeOK
<1>3. /\ \A r \in Shards, e \in Entities : HasAuthority(r, e)' <=> HasAuthority(r, e) /\ r # s
      /\ \A h : h \in OnTheWay' => h \in OnTheWay
    BY <1>1 DEF Crash, HasAuthority, TypeOK, OnTheWay
<1>4. ASSUME NEW e \in Entities
      PROVE  \/ PlaceOf(e)' = PlaceOf(e)
             \/ PlaceOf(e)' = Authority!Lost /\ PlaceOf(e) # Authority!Unseeded
    <2>1. CASE seeded = "no"
        BY <2>1, <1>2 DEF Places
    <2>2. CASE seeded # "no"
        <3>1. ASSUME NEW h \in OnTheWay', h.entity = e
              PROVE  PlaceOf(e)' = PlaceOf(e)
            BY <2>2, <3>1, <1>2, <1>3 DEF Places
        <3>2. ASSUME NEW r \in Shards, HasAuthority(r, e)'
              PROVE  PlaceOf(e)' = PlaceOf(e)
            BY <2>2, <3>2, <1>2, <1>3 DEF Places
        <3>3. ASSUME \A h \in OnTheWay' : h.entity # e, \A r \in Shards : ~HasAuthority(r, e)'
              PROVE  PlaceOf(e)' = Authority!Lost
            BY <2>2, <3>3, <1>2 DEF Places, Authority!Lost
        <3>4. PlaceOf(e) # Authority!Unseeded
            BY <2>2 DEF PlaceOf, Authority!Unseeded
        <3> QED BY <3>1, <3>2, <3>3, <3>4
    <2> QED BY <2>1, <2>2
<1> DEFINE broken == IF crashes > 0 THEN Entities ELSE dropped
<1>5. broken \subseteq broken' /\ broken' = Entities
    BY <1>2
<1> QED BY <1>4, <1>5 DEF Authority!Step

\* The arrival of a handoff is a stutter: the entity is still on its way.
LEMMA PacketRefines ==
    ASSUME HandoffInv, HandoffInv', Places, Places', NEW h \in net, OnGenericEntityPacket(h)
    PROVE  UNCHANGED <<[e \in Entities |-> PlaceOf(e)], IF crashes > 0 THEN Entities ELSE dropped>>
<1>1. TypeOK /\ OneAuthority /\ MailboxInv
    BY DEF HandoffInv
<1>2. \A i \in incoming : i.entity # h.entity
    BY <1>1 DEF OneAuthority, MailboxInv, OnTheWay
<1>3. OnTheWay' = OnTheWay
    BY <1>2 DEF OnGenericEntityPacket, Queued, OnTheWay
<1>4. UNCHANGED <<sim, passing, seeded, dropped, crashes>>
    BY DEF OnGenericEntityPacket
<1>5. \A s, e : HasAuthority(s, e)' <=> HasAuthority(s, e)
    BY <1>4 DEF HasAuthority
<1>6. ASSUME NEW e \in Entities PROVE PlaceOf(e)' = PlaceOf(e)
    <2>1. CASE seeded = "no"
        BY <2>1, <1>4 DEF Places
    <2>2. CASE seeded # "no"
        BY <2>2, <1>3, <1>4, <1>5 DEF Places
    <2> QED BY <2>1, <2>2
<1> QED BY <1>4, <1>6

\* The timed handoff implements EntityAuthority for any number of shards and entities,
\* any clocks, crashes and closed connections, when no shard goes longer than
\* handoffDelay between two Ticks.
THEOREM HandoffImplementsAuthority ==
    ASSUME MaxTickGap <= Delay
    PROVE  Spec => ImplementsAuthority
<1> DEFINE where == [e \in Entities |-> PlaceOf(e)]
           broken == IF crashes > 0 THEN Entities ELSE dropped
<1>1. Init => where = [e \in Entities |-> Authority!Unseeded] /\ broken = {}
    BY DEF Init, PlaceOf, Authority!Unseeded
<1>2. HandoffInv => Places
    BY PlacesKnown DEF HandoffInv
<1>3. HandoffInv /\ HandoffInv' /\ Places /\ Places' /\ [Next]_vars
        => [\E s \in Shards : Authority!Step(s)]_<<where, broken>>
    <2> SUFFICES ASSUME HandoffInv, HandoffInv', Places, Places', [Next]_vars
                 PROVE  [\E s \in Shards : Authority!Step(s)]_<<where, broken>>
        OBVIOUS
    <2>1. CASE UNCHANGED vars
        BY <2>1 DEF vars, PlaceOf, OnTheWay, HasAuthority
    <2>2. ASSUME NEW s \in Shards, NEW gap \in 0..MaxTickGap, NEW region \in [Entities -> Regions],
                 Tick(s, clock[s] + gap, region)
          PROVE  \E r \in Shards : Authority!Step(r)
        BY <2>2, TickRefines
    <2>3. ASSUME NEW h \in net, OnGenericEntityPacket(h) PROVE UNCHANGED <<where, broken>>
        BY <2>3, PacketRefines
    <2>4. ASSUME NEW s \in Shards, Crash(s) PROVE \E r \in Shards : Authority!Step(r)
        BY <2>4, CrashRefines
    <2> QED BY <2>1, <2>2, <2>3, <2>4 DEF Next
<1> QED BY <1>1, <1>2, <1>3, HandoffInvariant, PTL DEF Spec, ImplementsAuthority, Authority!Spec

=============================================================================
