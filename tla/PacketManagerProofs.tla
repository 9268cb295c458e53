------------------------- MODULE PacketManagerProofs -------------------------
(***************************************************************************)
(* Subscriptions and dispatch are safe for any number of threads, slots,   *)
(* packet types, subscriptions and packets.  The inductive invariant       *)
(* ManagerInv adds to the checked properties where ids come from (IdsInv)  *)
(* and how far Dispatch has got with its snapshot (DispatchInv).           *)
(***************************************************************************)
EXTENDS PacketManager, SequenceTheorems, FiniteSetTheorems, TLAPS

-----------------------------------------------------------------------------
\* Initially nobody has subscribed and nothing is dispatched.
LEMMA ManagerInit == Init => ManagerInv
<1> SUFFICES ASSUME Init PROVE ManagerInv
    OBVIOUS
<1> USE PacketManagerAssumption
<1>1. TypeOK
    BY DEF Init, TypeOK, Ids
<1>2. /\ \A h \in Handles : HandleOf(h) = NoSub
      /\ \A ty \in Types : Entries(ty) = {}
    BY DEF Init, Handles, HandleOf, Entries
<1>3. EntriesOwned
    BY <1>1, <1>2 DEF Init, EntriesOwned, OwnsItsEntry, NoOrphan
<1>4. IdsInv
    BY <1>2 DEF Init, IdsInv
<1>5. DispatchSafe /\ DispatchInv /\ EveryoneCalledOnce
    BY DEF Init, DispatchSafe, NoCallAfterReset, NoFreedEntry, DispatchInv, EveryoneCalledOnce
<1> QED BY <1>3, <1>4, <1>5 DEF ManagerInv

\* The entries of a type are ids.
LEMMA EntriesAreIds ==
    ASSUME TypeOK, NEW ty \in Types
    PROVE  Entries(ty) \subseteq Ids
<1>1. callbacks[ty] \in Seq(Ids)
    BY DEF TypeOK
<1> QED BY <1>1, ElementOfSeq DEF Entries

\* What Deactivate does to the Subscription of a slot: its entry stays in the vector, is
\* dead and is given up; an empty Subscription changes nothing.
LEMMA Deactivation ==
    ASSUME ManagerInv, NEW s \in Slots, Deactivate(sub[s])
    PROVE  /\ callbacks' = callbacks
           /\ sub[s] = NoSub => alive' = alive /\ ended' = ended
           /\ sub[s] # NoSub => alive' = alive \ {sub[s].id} /\ ended' = ended \cup {sub[s].id}
<1>1. sub[s] # NoSub => sub[s].id \in Entries(sub[s].type)
    BY DEF ManagerInv, EntriesOwned, OwnsItsEntry, Handles, HandleOf, Pushed
<1> QED BY <1>1 DEF Deactivate

\* Subscribing, moving and resetting leave Dispatch where it is: they free no entry, and
\* an entry that dies is one that was given up.
LEMMA OwnersLeaveDispatch ==
    ASSUME ManagerInv, UNCHANGED dispatchVars,
           \A ty \in Types : Entries(ty) \subseteq Entries(ty)',
           ended \subseteq ended', alive \subseteq alive' \cup ended'
    PROVE  DispatchSafe' /\ DispatchInv' /\ EveryoneCalledOnce'
<1>1. dtype \in Types /\ DispatchSafe /\ DispatchInv /\ EveryoneCalledOnce
    BY DEF ManagerInv, EntriesOwned, TypeOK
<1>2. UNCHANGED <<dpc, dtype, snapshot, called, expected, endedThen>>
    BY DEF dispatchVars
<1>3. DispatchSafe'
    BY <1>1, <1>2 DEF DispatchSafe, NoCallAfterReset, NoFreedEntry
<1>4. DispatchInv'
    BY <1>1, <1>2 DEF DispatchInv
<1>5. EveryoneCalledOnce'
    BY <1>1, <1>2 DEF EveryoneCalledOnce
<1> QED BY <1>3, <1>4, <1>5

-----------------------------------------------------------------------------
(* The steps of the owners. *)

\* Subscribe takes an id that is new to everything.
LEMMA TakeIdInv ==
    ASSUME ManagerInv, NEW t \in Threads, NEW ty \in Types, SubscribeTakeId(t, ty)
    PROVE  ManagerInv'
<1> USE PacketManagerAssumption
<1>1. TypeOK /\ OwnsItsEntry /\ NoOrphan /\ IdsInv
    BY DEF ManagerInv, EntriesOwned
<1>2. nextId \in Ids /\ nextId' = nextId + 1
    BY <1>1 DEF SubscribeTakeId, TypeOK, Ids
<1>3. /\ UNCHANGED <<callbacks, alive, sub, ended, dispatchVars>>
      /\ temp' = [temp EXCEPT ![t] = [type |-> ty, id |-> nextId]]
      /\ tpc' = [tpc EXCEPT ![t] = "push"]
      /\ tpc[t] = "idle"
    BY DEF SubscribeTakeId, MayCall
<1>4. \A x \in Types : Entries(x)' = Entries(x)
    BY <1>3 DEF Entries
<1>5. TypeOK'
    BY <1>1, <1>2, <1>3 DEF TypeOK, Subs, Ids, dispatchVars
<1>6. [type |-> ty, id |-> nextId] # NoSub
    BY <1>2 DEF Ids
<1>7. /\ \A h \in Handles : h # t => HandleOf(h)' = HandleOf(h) /\ (Pushed(h)' <=> Pushed(h))
      /\ t \in Handles /\ HandleOf(t) = NoSub /\ HandleOf(t)' = [type |-> ty, id |-> nextId]
      /\ ~Pushed(t)'
    BY <1>1, <1>3 DEF Handles, HandleOf, Pushed, TypeOK, IdsInv
<1>8. \A h \in Handles : HandleOf(h) # NoSub => HandleOf(h).id \in Ids /\ HandleOf(h).id < nextId
    BY <1>1 DEF Handles, HandleOf, TypeOK, Subs, IdsInv
<1>9. OwnsItsEntry'
    <2> SUFFICES ASSUME NEW g \in Handles, NEW h \in Handles
                 PROVE  /\ HandleOf(g)' # NoSub /\ HandleOf(h)' # NoSub /\ HandleOf(g)'.id = HandleOf(h)'.id
                               => g = h
                        /\ HandleOf(h)' # NoSub /\ Pushed(h)' =>
                               (HandleOf(h).id \in alive /\ HandleOf(h).id \in Entries(HandleOf(h).type))'
        BY DEF OwnsItsEntry, Handles
    <2>1. HandleOf(g)' # NoSub /\ HandleOf(h)' # NoSub /\ HandleOf(g)'.id = HandleOf(h)'.id => g = h
        BY <1>1, <1>2, <1>7, <1>8 DEF OwnsItsEntry, Ids
    <2>2. HandleOf(h)' # NoSub /\ Pushed(h)' =>
              (HandleOf(h).id \in alive /\ HandleOf(h).id \in Entries(HandleOf(h).type))'
        BY <1>1, <1>3, <1>7 DEF OwnsItsEntry, Entries
    <2> QED BY <2>1, <2>2
<1>10. NoOrphan'
    BY <1>1, <1>3, <1>7 DEF NoOrphan, Handles
<1>11. IdsInv'
    <2>1. \A x \in Threads : temp'[x] = NoSub <=> tpc'[x] = "idle"
        BY <1>1, <1>3, <1>6 DEF IdsInv, TypeOK
    <2>2. \A h \in Handles : HandleOf(h)' # NoSub => HandleOf(h)'.id < nextId'
        BY <1>2, <1>7, <1>8 DEF Ids
    <2>3. /\ \A i \in alive' \cup ended' : i < nextId'
          /\ \A x \in Types : \A i \in Entries(x)' : i < nextId'
        <3>1. \A i \in alive \cup ended : i \in Ids /\ i < nextId
            BY <1>1 DEF IdsInv, TypeOK
        <3>2. \A x \in Types : \A i \in Entries(x) : i \in Ids /\ i < nextId
            BY <1>1, EntriesAreIds DEF IdsInv
        <3> QED BY <3>1, <3>2, <1>2, <1>3, <1>4 DEF Ids
    <2>4. \A x \in Threads : tpc'[x] = "push" =>
              /\ temp'[x].id \notin alive' \cup ended'
              /\ \A y \in Types : temp'[x].id \notin Entries(y)'
        <3> SUFFICES ASSUME NEW x \in Threads, tpc'[x] = "push"
                     PROVE  /\ temp'[x].id \notin alive' \cup ended'
                            /\ \A y \in Types : temp'[x].id \notin Entries(y)'
            OBVIOUS
        <3>1. CASE x = t
            <4>1. temp'[x].id = nextId
                BY <3>1, <1>1, <1>3 DEF TypeOK
            <4>2. nextId \notin alive \cup ended /\ \A y \in Types : nextId \notin Entries(y)
                BY <1>1, <1>2 DEF IdsInv, Ids
            <4> QED BY <4>1, <4>2, <1>3, <1>4
        <3>2. CASE x # t
            BY <3>2, <1>1, <1>3, <1>4 DEF IdsInv, TypeOK
        <3> QED BY <3>1, <3>2
    <2>5. alive' \cap ended' = {} /\ \A y \in Types : \A i, j \in 1..Len(callbacks'[y]) :
              callbacks'[y][i] = callbacks'[y][j] => i = j
        BY <1>1, <1>3 DEF IdsInv
    <2> QED BY <2>1, <2>2, <2>3, <2>4, <2>5 DEF IdsInv, Handles
<1>12. DispatchSafe' /\ DispatchInv' /\ EveryoneCalledOnce'
    BY <1>3, <1>4, OwnersLeaveDispatch
<1> QED BY <1>5, <1>9, <1>10, <1>11, <1>12 DEF ManagerInv, EntriesOwned

\* The entry is appended to its vector, alive and for the first time.
LEMMA PushInv ==
    ASSUME ManagerInv, NEW t \in Threads, SubscribePush(t)
    PROVE  ManagerInv'
<1> USE PacketManagerAssumption
<1>1. TypeOK /\ OwnsItsEntry /\ NoOrphan /\ IdsInv
    BY DEF ManagerInv, EntriesOwned
<1>2. tpc[t] = "push" /\ temp[t] # NoSub /\ t \in Handles /\ HandleOf(t) = temp[t]
    BY <1>1 DEF SubscribePush, IdsInv, Handles, HandleOf
<1>3. PICK ty \in Types, id \in Ids : ty = temp[t].type /\ id = temp[t].id /\ id < nextId
    BY <1>1, <1>2 DEF IdsInv, TypeOK, Subs
<1>4. /\ callbacks' = [callbacks EXCEPT ![ty] = Append(@, id)]
       /\ alive' = alive \cup {id}
       /\ tpc' = [tpc EXCEPT ![t] = "assign"]
       /\ UNCHANGED <<nextId, sub, temp, ended, dispatchVars>>
    BY <1>3 DEF SubscribePush
<1>5. id \notin alive \cup ended /\ \A x \in Types : id \notin Entries(x)
    BY <1>1, <1>2, <1>3 DEF IdsInv
<1>6. callbacks[ty] \in Seq(Ids)
    BY <1>1, <1>3 DEF TypeOK
<1>7. /\ callbacks'[ty] \in Seq(Ids)
      /\ Len(callbacks'[ty]) = Len(callbacks[ty]) + 1
      /\ \A i \in 1..Len(callbacks[ty]) : callbacks'[ty][i] = callbacks[ty][i]
      /\ callbacks'[ty][Len(callbacks[ty]) + 1] = id
      /\ \A x \in Types : x # ty => callbacks'[x] = callbacks[x]
    <2>1. callbacks'[ty] = Append(callbacks[ty], id) /\ \A x \in Types : x # ty => callbacks'[x] = callbacks[x]
        BY <1>1, <1>2, <1>4, <1>3 DEF TypeOK
    <2> QED BY <2>1, <1>3, <1>6, AppendProperties
<1>8. Len(callbacks[ty]) \in Nat
    BY <1>6, LenProperties
<1>9. \A x \in Types : Entries(x)' = IF x = ty THEN Entries(x) \cup {id} ELSE Entries(x)
    <2> DEFINE n == Len(callbacks[ty])
    <2>1. Entries(ty)' = {callbacks'[ty][i] : i \in 1..(n + 1)}
        BY <1>7 DEF Entries
    <2>2. 1..(n + 1) = (1..n) \cup {n + 1}
        BY <1>8
    <2>3. \A i \in 1..n : callbacks'[ty][i] = callbacks[ty][i]
        BY <1>7
    <2>4. callbacks'[ty][n + 1] = id
        BY <1>7
    <2>5. Entries(ty) = {callbacks[ty][i] : i \in 1..n}
        BY DEF Entries
    <2> HIDE DEF n
    <2>6. Entries(ty)' = Entries(ty) \cup {id}
        BY <2>1, <2>2, <2>3, <2>4, <2>5
    <2>7. \A x \in Types : x # ty => Entries(x)' = Entries(x)
        BY <1>7 DEF Entries
    <2> QED BY <2>6, <2>7
<1>10. TypeOK'
    <2>1. callbacks' \in [Types -> Seq(Ids)]
        BY <1>1, <1>2, <1>4, <1>3, <1>7 DEF TypeOK
    <2> QED BY <2>1, <1>1, <1>2, <1>4, <1>3 DEF TypeOK, dispatchVars
<1>11. /\ \A h \in Handles : HandleOf(h)' = HandleOf(h)
       /\ \A h \in Handles : h # t => (Pushed(h)' <=> Pushed(h))
       /\ t \in Handles /\ HandleOf(t) = temp[t]
    BY <1>1, <1>2, <1>4 DEF Handles, HandleOf, Pushed, TypeOK
<1>12. \A h \in Handles : HandleOf(h) # NoSub => HandleOf(h).type \in Types
    BY <1>1 DEF Handles, HandleOf, TypeOK, Subs
<1>13. OwnsItsEntry'
    <2> SUFFICES ASSUME NEW g \in Handles, NEW h \in Handles
                 PROVE  /\ HandleOf(g)' # NoSub /\ HandleOf(h)' # NoSub /\ HandleOf(g)'.id = HandleOf(h)'.id
                               => g = h
                        /\ HandleOf(h)' # NoSub /\ Pushed(h)' =>
                               (HandleOf(h).id \in alive /\ HandleOf(h).id \in Entries(HandleOf(h).type))'
        BY DEF OwnsItsEntry, Handles
    <2>1. HandleOf(g)' # NoSub /\ HandleOf(h)' # NoSub /\ HandleOf(g)'.id = HandleOf(h)'.id => g = h
        BY <1>1, <1>11 DEF OwnsItsEntry
    <2>2. ASSUME HandleOf(h)' # NoSub, Pushed(h)'
          PROVE  (HandleOf(h).id \in alive /\ HandleOf(h).id \in Entries(HandleOf(h).type))'
        <3>1. CASE h = t
            <4>1. HandleOf(h)'.type = ty /\ HandleOf(h)'.id = id
                BY <3>1, <1>2, <1>3, <1>11
            <4>2. id \in alive' /\ id \in Entries(ty)'
                BY <1>2, <1>4, <1>3, <1>9
            <4> QED BY <4>1, <4>2 DEF Entries
        <3>2. CASE h # t
            <4>1. HandleOf(h)' = HandleOf(h) /\ HandleOf(h).type \in Types
                BY <2>2, <1>11, <1>12
            <4>2. HandleOf(h).id \in alive /\ HandleOf(h).id \in Entries(HandleOf(h).type)
                BY <2>2, <3>2, <1>1, <1>11 DEF OwnsItsEntry
            <4> QED BY <4>1, <4>2, <1>2, <1>4, <1>9
        <3> QED BY <3>1, <3>2
    <2> QED BY <2>1, <2>2
<1>14. NoOrphan'
    BY <1>1, <1>2, <1>4, <1>3, <1>11 DEF NoOrphan, Handles
<1>15. IdsInv'
    <2>1. \A x \in Threads : temp'[x] = NoSub <=> tpc'[x] = "idle"
        BY <1>1, <1>2, <1>4, <1>3 DEF IdsInv, TypeOK
    <2>2. \A h \in Handles : HandleOf(h)' # NoSub => HandleOf(h)'.id < nextId'
        BY <1>1, <1>2, <1>4, <1>11 DEF IdsInv
    <2>3. /\ \A i \in alive' \cup ended' : i < nextId'
          /\ \A x \in Types : \A i \in Entries(x)' : i < nextId'
        BY <1>1, <1>2, <1>4, <1>3, <1>9 DEF IdsInv
    <2>4. ASSUME NEW x \in Threads, tpc'[x] = "push"
          PROVE  /\ temp'[x].id \notin alive' \cup ended'
                 /\ \A y \in Types : temp'[x].id \notin Entries(y)'
        <3>1. x # t /\ tpc[x] = "push" /\ temp'[x] = temp[x]
            BY <2>4, <1>1, <1>2, <1>4 DEF TypeOK
        <3>2. temp[x].id # id
            <4>1. temp[x] # NoSub /\ x \in Handles /\ HandleOf(x) = temp[x]
                BY <3>1, <1>1 DEF IdsInv, Handles, HandleOf
            <4> QED BY <4>1, <3>1, <1>1, <1>2, <1>3, <1>11 DEF OwnsItsEntry
        <3> QED BY <3>1, <3>2, <1>1, <1>2, <1>4, <1>9 DEF IdsInv
    <2>5. alive' \cap ended' = {}
        BY <1>1, <1>2, <1>4, <1>5 DEF IdsInv
    <2>6. ASSUME NEW y \in Types, NEW i \in 1..Len(callbacks'[y]), NEW j \in 1..Len(callbacks'[y]),
                 callbacks'[y][i] = callbacks'[y][j]
          PROVE  i = j
        <3>1. CASE y # ty
            BY <3>1, <2>6, <1>1, <1>7 DEF IdsInv
        <3>2. CASE y = ty
            <4> DEFINE n == Len(callbacks[ty])
            <4>1. \A k \in 1..n : callbacks[ty][k] # id
                <5>1. id \notin Entries(ty)
                    BY <1>3, <1>5
                <5> QED BY <5>1 DEF Entries
            <4>2. \A k, l \in 1..Len(callbacks[ty]) : callbacks[ty][k] = callbacks[ty][l] => k = l
                BY <1>1, <1>3 DEF IdsInv
            <4>3. /\ \A k \in 1..n : callbacks'[ty][k] = callbacks[ty][k]
                  /\ callbacks'[ty][n + 1] = id
                BY <1>7
            <4>4. i \in 1..(n + 1) /\ j \in 1..(n + 1) /\ n \in Nat
                BY <3>2, <1>7, <1>8
            <4> HIDE DEF n
            <4>5. /\ i = n + 1 \/ (i \in 1..n /\ callbacks'[ty][i] = callbacks[ty][i])
                  /\ j = n + 1 \/ (j \in 1..n /\ callbacks'[ty][j] = callbacks[ty][j])
                BY <4>3, <4>4
            <4> QED BY <3>2, <4>1, <4>2, <4>3, <4>5, <2>6 DEF n
        <3> QED BY <3>1, <3>2
    <2> QED BY <2>1, <2>2, <2>3, <2>4, <2>5, <2>6 DEF IdsInv, Handles
<1>16. DispatchSafe' /\ DispatchInv' /\ EveryoneCalledOnce'
    <2>1. \A x \in Types : Entries(x) \subseteq Entries(x)'
        BY <1>9
    <2> QED BY <2>1, <1>2, <1>4, OwnersLeaveDispatch
<1> QED BY <1>10, <1>13, <1>14, <1>15, <1>16 DEF ManagerInv, EntriesOwned

\* A step that gives up the Subscription of slot s and leaves every other one where it
\* is or moves it, with its entry, to another handle.
LEMMA GiveUpInv ==
    ASSUME ManagerInv, NEW s \in Slots, Deactivate(sub[s]), TypeOK',
           UNCHANGED <<nextId, dispatchVars>>,
           \A t \in Threads : temp'[t] = NoSub <=> tpc'[t] = "idle",
           \A t \in Threads : tpc'[t] = "push" => tpc[t] = "push" /\ temp'[t] = temp[t],
           NEW origin \in [Handles -> Handles],
           \A h \in Handles : HandleOf(h)' # NoSub =>
               /\ HandleOf(h)' = HandleOf(origin[h])
               /\ origin[h] # s
               /\ Pushed(h)' => Pushed(origin[h]),
           \A g, h \in Handles :
               HandleOf(g)' # NoSub /\ HandleOf(h)' # NoSub /\ origin[g] = origin[h] => g = h,
           \A g \in Handles : HandleOf(g) # NoSub /\ g # s =>
               \E h \in Handles : HandleOf(h)' = HandleOf(g)
    PROVE  ManagerInv'
<1> USE PacketManagerAssumption
<1>1. TypeOK /\ OwnsItsEntry /\ NoOrphan /\ IdsInv
    BY DEF ManagerInv, EntriesOwned
<1>2. /\ callbacks' = callbacks
      /\ sub[s] = NoSub => alive' = alive /\ ended' = ended
      /\ sub[s] # NoSub => alive' = alive \ {sub[s].id} /\ ended' = ended \cup {sub[s].id}
    BY Deactivation
<1>3. \A x \in Types : Entries(x)' = Entries(x)
    BY <1>2 DEF Entries
<1>4. s \in Handles /\ HandleOf(s) = sub[s]
    BY DEF Handles, HandleOf
<1>5. \A h \in Handles : HandleOf(h) # NoSub => HandleOf(h).type \in Types
    BY <1>1 DEF Handles, HandleOf, TypeOK, Subs
<1>6. OwnsItsEntry'
    <2> SUFFICES ASSUME NEW g \in Handles, NEW h \in Handles
                 PROVE  /\ HandleOf(g)' # NoSub /\ HandleOf(h)' # NoSub /\ HandleOf(g)'.id = HandleOf(h)'.id
                               => g = h
                        /\ HandleOf(h)' # NoSub /\ Pushed(h)' =>
                               (HandleOf(h).id \in alive /\ HandleOf(h).id \in Entries(HandleOf(h).type))'
        BY DEF OwnsItsEntry, Handles
    <2>1. HandleOf(g)' # NoSub /\ HandleOf(h)' # NoSub /\ HandleOf(g)'.id = HandleOf(h)'.id => g = h
        BY <1>1 DEF OwnsItsEntry
    <2>2. ASSUME HandleOf(h)' # NoSub, Pushed(h)'
          PROVE  (HandleOf(h).id \in alive /\ HandleOf(h).id \in Entries(HandleOf(h).type))'
        <3> DEFINE o == origin[h]
        <3>1. o \in Handles /\ o # s /\ HandleOf(h)' = HandleOf(o) /\ Pushed(o) /\ HandleOf(o) # NoSub
            BY <2>2
        <3>2. HandleOf(o).id \in alive /\ HandleOf(o).id \in Entries(HandleOf(o).type)
            BY <3>1, <1>1 DEF OwnsItsEntry
        <3>3. sub[s] # NoSub => HandleOf(o).id # sub[s].id
            BY <3>1, <1>1, <1>4 DEF OwnsItsEntry
        <3> QED BY <3>1, <3>2, <3>3, <1>2, <1>3, <1>5
    <2> QED BY <2>1, <2>2
<1>7. NoOrphan'
    <2> SUFFICES ASSUME NEW i \in alive'
                 PROVE  \E h \in Handles : HandleOf(h)' # NoSub /\ HandleOf(h)'.id = i
        BY DEF NoOrphan, Handles
    <2>1. i \in alive /\ (sub[s] # NoSub => i # sub[s].id)
        BY <1>2
    <2>2. PICK g \in Handles : HandleOf(g) # NoSub /\ HandleOf(g).id = i
        BY <2>1, <1>1 DEF NoOrphan
    <2>3. g # s
        BY <2>1, <2>2, <1>4
    <2> QED BY <2>2, <2>3
<1>8. IdsInv'
    <2>1. \A x \in Threads : temp'[x] = NoSub <=> tpc'[x] = "idle"
        OBVIOUS
    <2>2. \A h \in Handles : HandleOf(h)' # NoSub => HandleOf(h)'.id < nextId'
        BY <1>1 DEF IdsInv
    <2>3. sub[s] # NoSub => sub[s].id < nextId
        BY <1>1, <1>4 DEF IdsInv
    <2>4. /\ \A i \in alive' \cup ended' : i < nextId'
          /\ \A x \in Types : \A i \in Entries(x)' : i < nextId'
        BY <2>3, <1>1, <1>2, <1>3 DEF IdsInv
    <2>5. ASSUME NEW x \in Threads, tpc'[x] = "push"
          PROVE  /\ temp'[x].id \notin alive' \cup ended'
                 /\ \A y \in Types : temp'[x].id \notin Entries(y)'
        <3>1. tpc[x] = "push" /\ temp'[x] = temp[x]
            BY <2>5
        <3>2. temp[x] # NoSub /\ x \in Handles /\ HandleOf(x) = temp[x] /\ x # s
            BY <3>1, <1>1 DEF IdsInv, Handles, HandleOf
        <3>3. sub[s] # NoSub => temp[x].id # sub[s].id
            BY <3>2, <1>1, <1>4 DEF OwnsItsEntry
        <3> QED BY <3>1, <3>3, <1>1, <1>2, <1>3 DEF IdsInv
    <2>6. alive' \cap ended' = {} /\ \A y \in Types : \A i, j \in 1..Len(callbacks'[y]) :
              callbacks'[y][i] = callbacks'[y][j] => i = j
        BY <1>1, <1>2 DEF IdsInv
    <2> QED BY <2>1, <2>2, <2>4, <2>5, <2>6 DEF IdsInv, Handles
<1>9. DispatchSafe' /\ DispatchInv' /\ EveryoneCalledOnce'
    <2>1. ended \subseteq ended' /\ alive \subseteq alive' \cup ended'
        BY <1>2
    <2> QED BY <2>1, <1>3, OwnersLeaveDispatch
<1> QED BY <1>6, <1>7, <1>8, <1>9 DEF ManagerInv, EntriesOwned

\* Subscribe's result is assigned: the slot's old Subscription is given up, and the new one
\* changes its handle from the thread to the slot.
LEMMA AssignInv ==
    ASSUME ManagerInv, NEW t \in Threads, NEW s \in Slots, SubscribeAssign(t, s)
    PROVE  ManagerInv'
<1> USE PacketManagerAssumption
<1>1. TypeOK /\ IdsInv
    BY DEF ManagerInv, EntriesOwned
<1>2. /\ tpc[t] = "assign" /\ Deactivate(sub[s]) /\ UNCHANGED <<nextId, dispatchVars>>
      /\ sub' = [sub EXCEPT ![s] = temp[t]]
      /\ temp' = [temp EXCEPT ![t] = NoSub]
      /\ tpc' = [tpc EXCEPT ![t] = "idle"]
    BY DEF SubscribeAssign, Overwritten
<1>3. TypeOK'
    <2>1. callbacks' = callbacks /\ alive' \subseteq alive /\ ended' \subseteq Ids
        BY <1>1, <1>2, Deactivation DEF TypeOK, Subs
    <2> QED BY <2>1, <1>1, <1>2 DEF TypeOK, dispatchVars
<1> DEFINE origin == [h \in Handles |-> IF h = s THEN t ELSE h]
<1>4. t \in Handles /\ t \notin Slots /\ s \in Handles /\ origin \in [Handles -> Handles]
    BY DEF Handles
<1>5. /\ \A x \in Threads : temp'[x] = NoSub <=> tpc'[x] = "idle"
      /\ \A x \in Threads : tpc'[x] = "push" => tpc[x] = "push" /\ temp'[x] = temp[x]
    BY <1>1, <1>2 DEF TypeOK, IdsInv
<1>6. /\ \A h \in Handles : h # s /\ h # t => HandleOf(h)' = HandleOf(h) /\ (Pushed(h)' <=> Pushed(h))
      /\ HandleOf(t)' = NoSub /\ HandleOf(s)' = HandleOf(t) /\ Pushed(t)
    BY <1>1, <1>2, <1>4 DEF Handles, HandleOf, Pushed, TypeOK
<1>7. \A h \in Handles : HandleOf(h)' # NoSub =>
          /\ HandleOf(h)' = HandleOf(origin[h]) /\ origin[h] # s
          /\ Pushed(h)' => Pushed(origin[h])
    BY <1>4, <1>6
<1>8. \A g, h \in Handles :
          HandleOf(g)' # NoSub /\ HandleOf(h)' # NoSub /\ origin[g] = origin[h] => g = h
    BY <1>4, <1>6
<1>9. \A g \in Handles : HandleOf(g) # NoSub /\ g # s => \E h \in Handles : HandleOf(h)' = HandleOf(g)
    BY <1>4, <1>6
<1> HIDE DEF origin
<1> QED BY <1>2, <1>3, <1>4, <1>5, <1>7, <1>8, <1>9, GiveUpInv

\* A move between two slots gives up the target's Subscription and empties the source.
LEMMA MoveInv ==
    ASSUME ManagerInv, NEW t \in Threads, NEW from \in Slots, NEW to \in Slots,
           MoveAssign(t, from, to)
    PROVE  ManagerInv'
<1> USE PacketManagerAssumption
<1>1. TypeOK /\ IdsInv
    BY DEF ManagerInv, EntriesOwned
<1>2. /\ from # to /\ Deactivate(sub[to]) /\ UNCHANGED <<nextId, tpc, temp, dispatchVars>>
      /\ sub' = [sub EXCEPT ![to] = sub[from], ![from] = NoSub]
    BY DEF MoveAssign, Overwritten, Moved
<1>3. TypeOK'
    <2>1. callbacks' = callbacks /\ alive' \subseteq alive /\ ended' \subseteq Ids
        BY <1>1, <1>2, Deactivation DEF TypeOK, Subs
    <2> QED BY <2>1, <1>1, <1>2 DEF TypeOK, dispatchVars
<1> DEFINE origin == [h \in Handles |-> IF h = to THEN from ELSE h]
<1>4. from \in Handles /\ to \in Handles /\ origin \in [Handles -> Handles]
    BY DEF Handles
<1>5. /\ \A x \in Threads : temp'[x] = NoSub <=> tpc'[x] = "idle"
      /\ \A x \in Threads : tpc'[x] = "push" => tpc[x] = "push" /\ temp'[x] = temp[x]
    BY <1>1, <1>2 DEF IdsInv
<1>6. /\ \A h \in Handles : h # from /\ h # to => HandleOf(h)' = HandleOf(h)
      /\ \A h \in Handles : Pushed(h)' <=> Pushed(h)
      /\ HandleOf(from)' = NoSub /\ HandleOf(to)' = HandleOf(from) /\ Pushed(from)
    BY <1>1, <1>2, <1>4 DEF Handles, HandleOf, Pushed, TypeOK
<1>7. \A h \in Handles : HandleOf(h)' # NoSub =>
          /\ HandleOf(h)' = HandleOf(origin[h]) /\ origin[h] # to
          /\ Pushed(h)' => Pushed(origin[h])
    BY <1>2, <1>4, <1>6
<1>8. \A g, h \in Handles :
          HandleOf(g)' # NoSub /\ HandleOf(h)' # NoSub /\ origin[g] = origin[h] => g = h
    BY <1>4, <1>6
<1>9. \A g \in Handles : HandleOf(g) # NoSub /\ g # to => \E h \in Handles : HandleOf(h)' = HandleOf(g)
    BY <1>4, <1>6
<1> HIDE DEF origin
<1> QED BY <1>2, <1>3, <1>4, <1>5, <1>7, <1>8, <1>9, GiveUpInv

\* Reset gives a Subscription up and nobody holds it afterwards.
LEMMA ResetInv ==
    ASSUME ManagerInv, NEW t \in Threads, NEW s \in Slots, Reset(t, s)
    PROVE  ManagerInv'
<1> USE PacketManagerAssumption
<1>1. TypeOK /\ IdsInv
    BY DEF ManagerInv, EntriesOwned
<1>2. /\ Deactivate(sub[s]) /\ UNCHANGED <<nextId, tpc, temp, dispatchVars>>
      /\ sub' = [sub EXCEPT ![s] = NoSub]
    BY DEF Reset
<1>3. TypeOK'
    <2>1. callbacks' = callbacks /\ alive' \subseteq alive /\ ended' \subseteq Ids
        BY <1>1, <1>2, Deactivation DEF TypeOK, Subs
    <2> QED BY <2>1, <1>1, <1>2 DEF TypeOK, dispatchVars
<1> DEFINE origin == [h \in Handles |-> h]
<1>4. s \in Handles /\ origin \in [Handles -> Handles]
    BY DEF Handles
<1>5. /\ \A x \in Threads : temp'[x] = NoSub <=> tpc'[x] = "idle"
      /\ \A x \in Threads : tpc'[x] = "push" => tpc[x] = "push" /\ temp'[x] = temp[x]
    BY <1>1, <1>2 DEF IdsInv
<1>6. /\ \A h \in Handles : h # s => HandleOf(h)' = HandleOf(h)
      /\ \A h \in Handles : Pushed(h)' <=> Pushed(h)
      /\ HandleOf(s)' = NoSub
    BY <1>1, <1>2, <1>4 DEF Handles, HandleOf, Pushed, TypeOK
<1>7. \A h \in Handles : HandleOf(h)' # NoSub =>
          /\ HandleOf(h)' = HandleOf(origin[h]) /\ origin[h] # s
          /\ Pushed(h)' => Pushed(origin[h])
    BY <1>4, <1>6
<1>8. \A g, h \in Handles :
          HandleOf(g)' # NoSub /\ HandleOf(h)' # NoSub /\ origin[g] = origin[h] => g = h
    BY <1>4
<1>9. \A g \in Handles : HandleOf(g) # NoSub /\ g # s => \E h \in Handles : HandleOf(h)' = HandleOf(g)
    BY <1>6
<1> HIDE DEF origin
<1> QED BY <1>2, <1>3, <1>4, <1>5, <1>7, <1>8, <1>9, GiveUpInv

-----------------------------------------------------------------------------
(* The steps of the tick thread. *)

\* A step of Dispatch leaves the subscriptions alone.
LEMMA DispatchLeavesOwners ==
    ASSUME ManagerInv, UNCHANGED subVars, TypeOK'
    PROVE  EntriesOwned' /\ IdsInv'
<1>1. UNCHANGED <<nextId, callbacks, alive, sub, tpc, temp, ended>>
    BY DEF subVars
<1> QED BY <1>1 DEF ManagerInv, EntriesOwned, OwnsItsEntry, NoOrphan, IdsInv, Handles, HandleOf, Pushed,
           Entries

\* Dispatch takes the vector of the type: all entries of it, each once.
LEMMA SnapshotInv ==
    ASSUME ManagerInv, NEW ty \in Types, DispatchSnapshot(ty)
    PROVE  ManagerInv'
<1>1. TypeOK /\ IdsInv
    BY DEF ManagerInv, EntriesOwned
<1>2. /\ dpc' = "next" /\ dtype' = ty /\ snapshot' = callbacks[ty] /\ called' = <<>>
      /\ expected' = Entries(ty) \cap alive
      /\ UNCHANGED <<endedThen, subVars>>
    BY DEF DispatchSnapshot
<1>3. UNCHANGED <<nextId, callbacks, alive, sub, tpc, temp, ended>>
    BY <1>2 DEF subVars
<1>4. TypeOK'
    BY <1>1, <1>2, <1>3 DEF TypeOK
<1>5. DispatchSafe'
    BY <1>2, <1>3 DEF DispatchSafe, NoCallAfterReset, NoFreedEntry, Entries
<1>6. Len(called') = 0
    BY <1>2
<1>7. DispatchInv'
    <2>1. \A i, j \in 1..Len(snapshot') : snapshot'[i] = snapshot'[j] => i = j
        BY <1>1, <1>2 DEF IdsInv
    <2>2. expected' \subseteq alive' \cup ended'
        BY <1>2, <1>3
    <2>3. \A e \in expected' : \E j \in 1..Len(snapshot') : snapshot'[j] = e
        BY <1>2 DEF Entries
    <2> QED BY <2>1, <2>2, <2>3, <1>2, <1>6 DEF DispatchInv
<1>8. EveryoneCalledOnce'
    BY <1>6, <1>7, <1>2 DEF EveryoneCalledOnce, DispatchInv
<1> QED BY <1>2, <1>4, <1>5, <1>7, <1>8, DispatchLeavesOwners DEF ManagerInv

\* What the loop keeps when it goes on to the next pointer: the one it is done with was
\* called, or is dead and then was given up or not alive at the snapshot.
LEMMA NextPointerInv ==
    ASSUME ManagerInv, TypeOK', snapshot # <<>>, snapshot' = Tail(snapshot), dpc # "idle", dpc' = "next",
           UNCHANGED <<dtype, called, expected, subVars>>,
           Head(snapshot) \notin alive \/ dpc = "running",
           dpc # "running" => \A i \in 1..Len(called) : called[i] # Head(snapshot)
    PROVE  ManagerInv'
<1>1. TypeOK /\ IdsInv /\ DispatchSafe /\ DispatchInv /\ EveryoneCalledOnce
    BY DEF ManagerInv, EntriesOwned
<1>2. UNCHANGED <<nextId, callbacks, alive, sub, tpc, temp, ended>>
    BY DEF subVars
<1>3. /\ Len(snapshot') = Len(snapshot) - 1 /\ Len(snapshot) \in Nat \ {0}
      /\ \A i \in 1..Len(snapshot') : snapshot'[i] = snapshot[i + 1]
      /\ Head(snapshot) = snapshot[1]
    <2>1. snapshot \in Seq(Ids)
        BY <1>1 DEF TypeOK
    <2> QED BY <2>1, HeadTailProperties, EmptySeq, LenProperties
<1>4. DispatchSafe'
    <2>1. \A i \in 1..Len(snapshot') : snapshot'[i] \in Entries(dtype)'
        BY <1>1, <1>2, <1>3 DEF DispatchSafe, NoFreedEntry, Entries
    <2> QED BY <2>1 DEF DispatchSafe, NoCallAfterReset, NoFreedEntry
<1>5. \A i, j \in 1..Len(snapshot') : snapshot'[i] = snapshot'[j] => i = j
    <2> SUFFICES ASSUME NEW i \in 1..Len(snapshot'), NEW j \in 1..Len(snapshot'), snapshot'[i] = snapshot'[j]
                 PROVE  i = j
        OBVIOUS
    <2>1. i + 1 \in 1..Len(snapshot) /\ j + 1 \in 1..Len(snapshot) /\ snapshot[i + 1] = snapshot[j + 1]
        BY <1>3
    <2>2. i + 1 = j + 1
        BY <2>1, <1>1 DEF DispatchInv
    <2> QED BY <2>2, <1>3
<1>6. \A i \in 1..Len(called'), j \in 1..Len(snapshot') : called'[i] # snapshot'[j]
    <2> SUFFICES ASSUME NEW i \in 1..Len(called), NEW j \in 1..Len(snapshot')
                 PROVE  called[i] # snapshot'[j]
        OBVIOUS
    <2>1. j + 1 \in 1..Len(snapshot) /\ j + 1 # 1 /\ snapshot'[j] = snapshot[j + 1]
        BY <1>3
    <2> QED BY <2>1, <1>1 DEF DispatchInv
<1>7. ASSUME NEW e \in expected \ ended
      PROVE  \/ \E i \in 1..Len(called) : called[i] = e
             \/ \E j \in 1..Len(snapshot') : snapshot'[j] = e
    <2>1. e \in alive
        BY <1>7, <1>1 DEF DispatchInv
    <2>2. \/ \E i \in 1..Len(called) : called[i] = e
          \/ \E j \in 1..Len(snapshot) : snapshot[j] = e
        BY <1>1 DEF DispatchInv
    <2>3. ASSUME e = Head(snapshot)
          PROVE  \E i \in 1..Len(called) : called[i] = e
        <3>1. dpc = "running"
            BY <2>1, <2>3
        <3>2. called # <<>> /\ called[Len(called)] = e /\ called \in Seq(Ids)
            BY <2>3, <3>1, <1>1 DEF DispatchInv, TypeOK
        <3>3. Len(called) \in 1..Len(called)
            BY <3>2, EmptySeq, LenProperties
        <3> QED BY <3>2, <3>3
    <2>4. ASSUME NEW j \in 1..Len(snapshot), snapshot[j] = e, e # Head(snapshot)
          PROVE  \E k \in 1..Len(snapshot') : snapshot'[k] = e
        <3>1. j # 1
            BY <2>4, <1>3
        <3>2. j - 1 \in 1..Len(snapshot') /\ snapshot'[j - 1] = snapshot[(j - 1) + 1] /\ (j - 1) + 1 = j
            BY <3>1, <1>3
        <3> QED BY <3>2, <2>4
    <2> QED BY <2>2, <2>3, <2>4
<1>8. DispatchInv'
    BY <1>1, <1>2, <1>5, <1>6, <1>7 DEF DispatchInv
<1>9. EveryoneCalledOnce'
    <2>1. \A i, j \in 1..Len(called') : called'[i] = called'[j] => i = j
        BY <1>1 DEF EveryoneCalledOnce
    <2>2. snapshot' = <<>> => \A e \in expected' \ ended' : \E i \in 1..Len(called') : called'[i] = e
        BY <1>2, <1>3, <1>7
    <2> QED BY <2>1, <2>2 DEF EveryoneCalledOnce
<1> QED BY <1>4, <1>8, <1>9, DispatchLeavesOwners DEF ManagerInv

\* alive is read: an entry that is alive was not given up before.
LEMMA CheckAliveInv ==
    ASSUME ManagerInv, CheckAlive
    PROVE  ManagerInv'
<1>1. TypeOK /\ IdsInv /\ DispatchSafe /\ DispatchInv /\ EveryoneCalledOnce
    BY DEF ManagerInv, EntriesOwned
<1>2. dpc = "next" /\ snapshot # <<>> /\ endedThen' = ended /\ UNCHANGED <<dtype, called, expected, packets, subVars>>
    BY DEF CheckAlive
<1>3. UNCHANGED <<nextId, callbacks, alive, sub, tpc, temp, ended>>
    BY <1>2 DEF subVars
<1>4. snapshot \in Seq(Ids) /\ Tail(snapshot) \in Seq(Ids) /\ Head(snapshot) = snapshot[1]
      /\ Len(snapshot) \in Nat \ {0}
    BY <1>1, <1>2, HeadTailProperties, EmptySeq DEF TypeOK
<1>5. CASE Head(snapshot) \in alive /\ dpc' = "call" /\ snapshot' = snapshot
    <2>1. TypeOK'
        BY <1>1, <1>2, <1>3, <1>5 DEF TypeOK
    <2>2. DispatchSafe'
        BY <1>1, <1>2, <1>3, <1>5 DEF DispatchSafe, NoCallAfterReset, NoFreedEntry, IdsInv, Entries
    <2>3. DispatchInv'
        BY <1>1, <1>2, <1>3, <1>5 DEF DispatchInv
    <2>4. EveryoneCalledOnce'
        BY <1>1, <1>2, <1>3, <1>5 DEF EveryoneCalledOnce
    <2> QED BY <2>1, <2>2, <2>3, <2>4, <1>2, DispatchLeavesOwners DEF ManagerInv
<1>6. CASE Head(snapshot) \notin alive /\ dpc' = dpc /\ snapshot' = Tail(snapshot)
    <2>1. TypeOK'
        BY <1>1, <1>2, <1>3, <1>4, <1>6 DEF TypeOK
    <2>2. \A i \in 1..Len(called) : called[i] # Head(snapshot)
        BY <1>1, <1>2, <1>4 DEF DispatchInv
    <2> QED BY <2>1, <2>2, <1>2, <1>6, NextPointerInv
<1> QED BY <1>5, <1>6 DEF CheckAlive, AfterDead

\* The entry is called, for the first time for this packet.
LEMMA CallBeginsInv ==
    ASSUME ManagerInv, CallBegins
    PROVE  ManagerInv'
<1>1. TypeOK /\ IdsInv /\ DispatchSafe /\ DispatchInv /\ EveryoneCalledOnce
    BY DEF ManagerInv, EntriesOwned
<1>2. /\ dpc = "call" /\ dpc' = "running" /\ called' = Append(called, Head(snapshot))
      /\ UNCHANGED <<dtype, snapshot, expected, endedThen, packets, subVars>>
    BY DEF CallBegins
<1>3. UNCHANGED <<nextId, callbacks, alive, sub, tpc, temp, ended>>
    BY <1>2 DEF subVars
<1>4. /\ snapshot # <<>> /\ Head(snapshot) = snapshot[1] /\ Head(snapshot) \in Ids
      /\ Len(snapshot) \in Nat \ {0} /\ Len(called) \in Nat
    <2>1. snapshot # <<>> /\ snapshot \in Seq(Ids) /\ called \in Seq(Ids)
        BY <1>1, <1>2 DEF DispatchInv, TypeOK
    <2> QED BY <2>1, HeadTailProperties, EmptySeq, LenProperties
<1>5. /\ called' \in Seq(Ids) /\ called' # <<>> /\ Len(called') = Len(called) + 1
      /\ \A i \in 1..Len(called) : called'[i] = called[i]
      /\ called'[Len(called) + 1] = Head(snapshot)
    <2>1. called \in Seq(Ids)
        BY <1>1 DEF TypeOK
    <2> QED BY <2>1, <1>2, <1>4, AppendProperties
<1>6. TypeOK'
    BY <1>1, <1>2, <1>3, <1>5 DEF TypeOK
<1>7. DispatchSafe'
    BY <1>1, <1>2, <1>3 DEF DispatchSafe, NoCallAfterReset, NoFreedEntry, Entries
<1>8. \A i \in 1..Len(called), j \in 1..Len(snapshot) : called[i] # snapshot[j]
    BY <1>1, <1>2 DEF DispatchInv
<1>9. \A i \in 1..Len(called') : i = Len(called) + 1 \/ (i \in 1..Len(called) /\ called'[i] = called[i])
    BY <1>4, <1>5
<1>10. \A i, j \in 1..Len(called') : called'[i] = called'[j] => i = j
    <2>1. \A i \in 1..Len(called) : called[i] # Head(snapshot)
        BY <1>4, <1>8
    <2>2. \A i, j \in 1..Len(called) : called[i] = called[j] => i = j
        BY <1>1 DEF EveryoneCalledOnce
    <2> QED BY <2>1, <2>2, <1>5, <1>9
<1>11. DispatchInv'
    <2>1. \A i \in 1..Len(called'), j \in 1..Len(snapshot') :
              called'[i] = snapshot'[j] => dpc' = "running" /\ i = Len(called') /\ j = 1
        <3> SUFFICES ASSUME NEW i \in 1..Len(called'), NEW j \in 1..Len(snapshot), called'[i] = snapshot[j]
                     PROVE  i = Len(called') /\ j = 1
            BY <1>2
        <3>1. i = Len(called) + 1
            BY <1>8, <1>9
        <3>2. snapshot[j] = snapshot[1] /\ 1 \in 1..Len(snapshot)
            BY <3>1, <1>4, <1>5
        <3>3. j = 1
            BY <3>2, <1>1 DEF DispatchInv
        <3> QED BY <3>1, <3>3, <1>5
    <2>2. \A e \in expected' \ ended' :
              \/ \E i \in 1..Len(called') : called'[i] = e
              \/ \E j \in 1..Len(snapshot') : snapshot'[j] = e
        <3> SUFFICES ASSUME NEW e \in expected \ ended
                     PROVE  \/ \E i \in 1..Len(called') : called'[i] = e
                            \/ \E j \in 1..Len(snapshot) : snapshot[j] = e
            BY <1>2, <1>3
        <3>1. \A i \in 1..Len(called) : i \in 1..Len(called') /\ called'[i] = called[i]
            BY <1>4, <1>5
        <3> QED BY <3>1, <1>1, <1>2 DEF DispatchInv
    <2>3. called' # <<>> /\ called'[Len(called')] = Head(snapshot')
        BY <1>2, <1>5
    <2> QED BY <2>1, <2>2, <2>3, <1>1, <1>2, <1>3, <1>4 DEF DispatchInv
<1>12. EveryoneCalledOnce'
    BY <1>2, <1>10 DEF EveryoneCalledOnce
<1> QED BY <1>2, <1>6, <1>7, <1>11, <1>12, DispatchLeavesOwners DEF ManagerInv

\* The callback returns: its entry has been called, and the loop goes on to the next.
LEMMA CallReturnsInv ==
    ASSUME ManagerInv, CallReturns
    PROVE  ManagerInv'
<1>1. TypeOK /\ DispatchInv
    BY DEF ManagerInv, EntriesOwned
<1>2. /\ dpc = "running" /\ dpc' = "next" /\ snapshot' = Tail(snapshot) /\ snapshot # <<>>
      /\ UNCHANGED <<dtype, called, expected, endedThen, packets, subVars>>
    BY <1>1 DEF CallReturns, DispatchInv
<1>3. Tail(snapshot) \in Seq(Ids)
    BY <1>1, <1>2, HeadTailProperties DEF TypeOK
<1>4. TypeOK'
    BY <1>1, <1>2, <1>3 DEF TypeOK, subVars
<1> QED BY <1>2, <1>4, NextPointerInv

\* The loop ends with no pointer left.
LEMMA DispatchDoneInv ==
    ASSUME ManagerInv, DispatchDone
    PROVE  ManagerInv'
<1>1. TypeOK /\ DispatchSafe /\ DispatchInv /\ EveryoneCalledOnce
    BY DEF ManagerInv, EntriesOwned
<1>2. /\ dpc = "next" /\ dpc' = "idle" /\ snapshot = <<>>
      /\ UNCHANGED <<dtype, snapshot, called, expected, endedThen, packets, subVars>>
    BY DEF DispatchDone
<1>3. TypeOK'
    BY <1>1, <1>2 DEF TypeOK, subVars
<1>4. Len(snapshot) = 0
    BY <1>2
<1>5. DispatchSafe' /\ DispatchInv' /\ EveryoneCalledOnce'
    BY <1>1, <1>2, <1>4 DEF DispatchSafe, NoCallAfterReset, NoFreedEntry, DispatchInv,
                            EveryoneCalledOnce, subVars
<1> QED BY <1>2, <1>3, <1>5, DispatchLeavesOwners DEF ManagerInv

\* Cleanup frees entries, but no live one and none that Dispatch points to: it runs
\* between two packets.
LEMMA CleanupInv ==
    ASSUME ManagerInv, Cleanup
    PROVE  ManagerInv'
<1> USE PacketManagerAssumption
<1>1. TypeOK /\ OwnsItsEntry /\ NoOrphan /\ IdsInv /\ DispatchSafe /\ DispatchInv /\ EveryoneCalledOnce
    BY DEF ManagerInv, EntriesOwned
<1>2. dpc = "idle" /\ UNCHANGED <<nextId, alive, sub, tpc, temp, ended, dispatchVars>>
    BY DEF Cleanup
<1>3. PICK kept \in [Types -> UNION {Kept(ty) : ty \in Types}] :
          /\ \A ty \in Types : kept[ty] \in Kept(ty)
          /\ callbacks' = [ty \in Types |-> [i \in DOMAIN kept[ty] |-> callbacks[ty][kept[ty][i]]]]
    BY Zenon DEF Cleanup
<1>4. ASSUME NEW ty \in Types
      PROVE  /\ callbacks'[ty] \in Seq(Ids)
             /\ Entries(ty)' = Entries(ty) \cap alive
             /\ \A i, j \in 1..Len(callbacks'[ty]) : callbacks'[ty][i] = callbacks'[ty][j] => i = j
    <2> DEFINE f == kept[ty]
               n == Cardinality(LivePlaces(ty))
               old == callbacks[ty]
    <2>1. /\ f \in [1..n -> LivePlaces(ty)]
          /\ \A i, j \in 1..n : i < j => f[i] < f[j]
          /\ \A k \in LivePlaces(ty) : \E i \in 1..n : f[i] = k
        BY <1>3 DEF Kept
    <2>2. old \in Seq(Ids) /\ Len(old) \in Nat /\ \A i \in 1..Len(old) : old[i] \in Ids
        BY <1>1, ElementOfSeq, LenProperties DEF TypeOK
    <2>3. n \in Nat
        <3>1. IsFiniteSet(1..Len(old))
            BY <2>2, FS_Interval
        <3>2. IsFiniteSet(LivePlaces(ty))
            BY <3>1, FS_Subset DEF LivePlaces
        <3> QED BY <3>2, FS_CardinalityType
    <2>4. \A k : k \in LivePlaces(ty) <=> k \in 1..Len(old) /\ old[k] \in alive
        BY DEF LivePlaces
    <2>5. callbacks'[ty] = [i \in 1..n |-> old[f[i]]]
        BY <1>3, <2>1
    <2> HIDE DEF f, n, old
    <2>6. /\ callbacks'[ty] \in Seq(Ids) /\ Len(callbacks'[ty]) = n
          /\ \A i \in 1..n : callbacks'[ty][i] = old[f[i]]
        BY <2>1, <2>2, <2>3, <2>4, <2>5
    <2>7. Entries(ty)' = {old[f[i]] : i \in 1..n}
        BY <2>6 DEF Entries
    <2>8. Entries(ty) = {old[k] : k \in 1..Len(old)}
        BY DEF Entries, old
    <2>9. Entries(ty)' = Entries(ty) \cap alive
        BY <2>1, <2>4, <2>7, <2>8
    <2>10. \A i, j \in 1..Len(old) : old[i] = old[j] => i = j
        BY <1>1 DEF IdsInv, old
    <2>11. ASSUME NEW i \in 1..Len(callbacks'[ty]), NEW j \in 1..Len(callbacks'[ty]),
                  callbacks'[ty][i] = callbacks'[ty][j]
           PROVE  i = j
        <3>1. i \in 1..n /\ j \in 1..n /\ f[i] \in 1..Len(old) /\ f[j] \in 1..Len(old) /\ old[f[i]] = old[f[j]]
            BY <2>1, <2>4, <2>6, <2>11
        <3>2. f[i] = f[j]
            BY <3>1, <2>10
        <3> QED BY <3>1, <3>2, <2>1, <2>2, <2>3
    <2> QED BY <2>6, <2>9, <2>11
<1>5. TypeOK'
    <2>1. callbacks' \in [Types -> Seq(Ids)]
        BY <1>3, <1>4
    <2> QED BY <2>1, <1>1, <1>2 DEF TypeOK, dispatchVars
<1>6. \A h \in Handles : HandleOf(h)' = HandleOf(h) /\ (Pushed(h)' <=> Pushed(h))
    BY <1>2 DEF HandleOf, Pushed
<1>7. \A h \in Handles : HandleOf(h) # NoSub => HandleOf(h).type \in Types
    BY <1>1 DEF Handles, HandleOf, TypeOK, Subs
<1>8. EntriesOwned'
    <2>1. OwnsItsEntry'
        <3> SUFFICES ASSUME NEW g \in Handles, NEW h \in Handles
                     PROVE  /\ HandleOf(g)' # NoSub /\ HandleOf(h)' # NoSub /\ HandleOf(g)'.id = HandleOf(h)'.id
                                   => g = h
                            /\ HandleOf(h)' # NoSub /\ Pushed(h)' =>
                                   (HandleOf(h).id \in alive /\ HandleOf(h).id \in Entries(HandleOf(h).type))'
            BY DEF OwnsItsEntry, Handles
        <3>1. HandleOf(g)' # NoSub /\ HandleOf(h)' # NoSub /\ HandleOf(g)'.id = HandleOf(h)'.id => g = h
            BY <1>1, <1>6 DEF OwnsItsEntry
        <3>2. HandleOf(h)' # NoSub /\ Pushed(h)' =>
                  (HandleOf(h).id \in alive /\ HandleOf(h).id \in Entries(HandleOf(h).type))'
            BY <1>1, <1>2, <1>4, <1>6, <1>7 DEF OwnsItsEntry
        <3> QED BY <3>1, <3>2
    <2>2. NoOrphan'
        BY <1>1, <1>2, <1>6 DEF NoOrphan, Handles
    <2> QED BY <2>1, <2>2, <1>5 DEF EntriesOwned
<1>9. IdsInv'
    <2>1. \A ty \in Types : \A i \in Entries(ty)' : i \in Entries(ty)
        BY <1>4
    <2>2. \A h \in Handles : HandleOf(h)' # NoSub => HandleOf(h)'.id < nextId'
        BY <1>1, <1>2, <1>6 DEF IdsInv
    <2>3. /\ \A t \in Threads : temp'[t] = NoSub <=> tpc'[t] = "idle"
          /\ \A i \in alive' \cup ended' : i < nextId'
          /\ \A ty \in Types : \A i \in Entries(ty)' : i < nextId'
          /\ alive' \cap ended' = {}
        BY <2>1, <1>1, <1>2 DEF IdsInv
    <2>4. \A t \in Threads : tpc'[t] = "push" =>
              /\ temp'[t].id \notin alive' \cup ended'
              /\ \A ty \in Types : temp'[t].id \notin Entries(ty)'
        BY <2>1, <1>1, <1>2 DEF IdsInv
    <2> QED BY <2>2, <2>3, <2>4, <1>4 DEF IdsInv, Handles
<1>10. DispatchSafe' /\ DispatchInv' /\ EveryoneCalledOnce'
    <2>1. UNCHANGED <<dpc, dtype, snapshot, called, expected, endedThen, alive, ended>> /\ snapshot = <<>>
        BY <1>1, <1>2 DEF dispatchVars, DispatchInv
    <2>2. Len(snapshot') = 0
        BY <2>1
    <2>3. DispatchSafe'
        BY <2>1, <2>2, <1>1 DEF DispatchSafe, NoCallAfterReset, NoFreedEntry
    <2>4. DispatchInv'
        BY <2>1, <1>1 DEF DispatchInv
    <2>5. EveryoneCalledOnce'
        BY <2>1, <1>1 DEF EveryoneCalledOnce
    <2> QED BY <2>3, <2>4, <2>5
<1> QED BY <1>8, <1>9, <1>10 DEF ManagerInv

-----------------------------------------------------------------------------
\* ManagerInv holds in every reachable state.
THEOREM ManagerInvariant == Spec => []ManagerInv
<1>1. Init => ManagerInv
    BY ManagerInit
<1>2. ManagerInv /\ [Next]_vars => ManagerInv'
    <2> SUFFICES ASSUME ManagerInv, [Next]_vars PROVE ManagerInv'
        OBVIOUS
    <2>1. CASE UNCHANGED vars
        <3>1. UNCHANGED <<subVars, dispatchVars>>
            BY <2>1 DEF vars
        <3>2. TypeOK'
            BY <3>1 DEF ManagerInv, EntriesOwned, TypeOK, subVars, dispatchVars
        <3>3. DispatchSafe' /\ DispatchInv' /\ EveryoneCalledOnce'
            BY <3>1, OwnersLeaveDispatch DEF subVars, Entries
        <3> QED BY <3>1, <3>2, <3>3, DispatchLeavesOwners DEF ManagerInv
    <2>2. ASSUME NEW t \in Threads, OwnerStep(t) PROVE ManagerInv'
        BY <2>2, TakeIdInv, PushInv, AssignInv, MoveInv, ResetInv DEF OwnerStep
    <2>3. CASE DispatchStep
        BY <2>3, SnapshotInv, CheckAliveInv, CallBeginsInv, CallReturnsInv, DispatchDoneInv, CleanupInv
           DEF DispatchStep
    <2> QED BY <2>1, <2>2, <2>3 DEF Next
<1> QED BY <1>1, <1>2, PTL DEF Spec

\* Subscriptions and live entries belong to each other one to one, through every
\* interleaving of Subscribe, moves and Reset on any number of threads.
THEOREM SubscriptionsOwnTheirEntries == Spec => []EntriesOwned
<1>1. ManagerInv => EntriesOwned
    BY DEF ManagerInv
<1> QED BY <1>1, ManagerInvariant, PTL

\* Dispatch, which calls without the mutex, never calls an entry given up before it read
\* alive, and never follows a pointer to an entry that was freed.
THEOREM DispatchStaysSafe == Spec => []DispatchSafe
<1>1. ManagerInv => DispatchSafe
    BY DEF ManagerInv
<1> QED BY <1>1, ManagerInvariant, PTL

\* Dispatch calls every entry that was subscribed at the snapshot and is still, once.
THEOREM DispatchCallsEveryone == Spec => []EveryoneCalledOnce
<1>1. ManagerInv => EveryoneCalledOnce
    BY DEF ManagerInv
<1> QED BY <1>1, ManagerInvariant, PTL
=============================================================================
