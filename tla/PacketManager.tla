---------------------------- MODULE PacketManager ----------------------------
(***************************************************************************)
(* Subscriptions to packets and their dispatch: class PacketManager and    *)
(* its move-only handle Subscription.                                      *)
(*                                                                         *)
(* The tick thread dispatches; every thread, and a callback on the tick    *)
(* thread too, may subscribe, move a Subscription or reset it.  Dispatch   *)
(* takes a snapshot of pointers under the mutex and calls without it, so   *)
(* each block under the mutex is one step and so is each pointer.          *)
(***************************************************************************)
EXTENDS Integers, Sequences, FiniteSets

CONSTANTS
    Threads,    \* threads that subscribe
    TickThread, \* the one of them that dispatches
    Slots,      \* variables of type Subscription
    SlotOf,     \* the thread that uses each slot
    Types,      \* packet types
    NoSub,      \* a Subscription whose owner is nullptr
    MaxId,      \* bound on subscriptions
    MaxPackets  \* bound on dispatched packets

ASSUME PacketManagerAssumption ==
    /\ TickThread \in Threads
    /\ SlotOf \in [Slots -> Threads]
    /\ Slots \cap Threads = {}
    /\ MaxId \in Nat
    /\ MaxPackets \in Nat
    /\ NoSub \notin [type : Types, id : 1..MaxId]

VARIABLES
    nextId,    \* m_nextId
    callbacks, \* m_callbacks: the ids of each type's entries in vector order
    alive,     \* ids whose entry has alive set
    sub,       \* the Subscription in each slot
    tpc,       \* where a thread is in Subscribe: idle, push or assign
    temp,      \* the Subscription that Subscribe returns to the thread
    ended,     \* history: ids given up by Reset or by an assignment
    dpc,       \* Dispatch: idle, next, call or running
    dtype,     \* the type of the packet being dispatched
    snapshot,  \* pointers to the entries that Dispatch is not done with
    called,    \* history: entries called for this packet, in order
    expected,  \* history: entries of the type alive when the snapshot was taken
    endedThen, \* history: ids given up when alive was last read
    packets    \* packets dispatched so far

subVars == <<nextId, callbacks, alive, sub, tpc, temp, ended>>
dispatchVars == <<dpc, dtype, snapshot, called, expected, endedThen, packets>>
vars == <<subVars, dispatchVars>>

Ids == 1..MaxId
Subs == [type : Types, id : Ids]
Entries(ty) == {callbacks[ty][i] : i \in 1..Len(callbacks[ty])}

Init ==
    /\ nextId = 1
    /\ callbacks = [ty \in Types |-> <<>>]
    /\ alive = {}
    /\ sub = [s \in Slots |-> NoSub]
    /\ tpc = [t \in Threads |-> "idle"]
    /\ temp = [t \in Threads |-> NoSub]
    /\ ended = {}
    /\ dpc = "idle"
    /\ dtype \in Types
    /\ snapshot = <<>>
    /\ called = <<>>
    /\ expected = {}
    /\ endedThen = {}
    /\ packets = 0

-----------------------------------------------------------------------------
(* Subscription: what its owner does. *)

\* Reset and the move assignment deactivate the entry of an owned Subscription:
\* the entry stays in its vector.
Deactivate_Erase(x) ==
    IF x # NoSub
    THEN /\ callbacks' = [callbacks EXCEPT ![x.type] = SelectSeq(@, LAMBDA i : i # x.id)]
         /\ alive' = alive \ {x.id}
         /\ ended' = ended \cup {x.id}
    ELSE UNCHANGED <<callbacks, alive, ended>>
Deactivate(x) ==
    /\ callbacks' = callbacks
    /\ IF x # NoSub
       THEN /\ alive' = IF x.id \in Entries(x.type) THEN alive \ {x.id} ELSE alive
            /\ ended' = ended \cup {x.id}
       ELSE UNCHANGED <<alive, ended>>

\* The slots after sub[to] = std::move(sub[from]).
Moved_Copy(from, to) == [sub EXCEPT ![to] = sub[from]]
Moved(from, to) == [sub EXCEPT ![to] = sub[from], ![from] = NoSub]

\* What Reset() at the head of a move assignment gives up.
Overwritten(s) == sub[s]

\* A thread uses its subscriptions outside of Subscribe; the tick thread does so
\* from a callback.
MayCall(t) == tpc[t] = "idle" /\ (t = TickThread => dpc = "running")

\* Subscribe takes an id with fetch_add ...
SubscribeTakeId(t, ty) ==
    /\ MayCall(t)
    /\ nextId <= MaxId
    /\ nextId' = nextId + 1
    /\ temp' = [temp EXCEPT ![t] = [type |-> ty, id |-> nextId]]
    /\ tpc' = [tpc EXCEPT ![t] = "push"]
    /\ UNCHANGED <<callbacks, alive, sub, ended, dispatchVars>>

\* ... then appends the entry under the mutex ...
SubscribePush(t) ==
    /\ tpc[t] = "push"
    /\ callbacks' = [callbacks EXCEPT ![temp[t].type] = Append(@, temp[t].id)]
    /\ alive' = alive \cup {temp[t].id}
    /\ tpc' = [tpc EXCEPT ![t] = "assign"]
    /\ UNCHANGED <<nextId, sub, temp, ended, dispatchVars>>

\* ... and the Subscription it returns is move-assigned to a slot.
SubscribeAssign(t, s) ==
    /\ tpc[t] = "assign"
    /\ SlotOf[s] = t
    /\ Deactivate(Overwritten(s))
    /\ sub' = [sub EXCEPT ![s] = temp[t]]
    /\ temp' = [temp EXCEPT ![t] = NoSub]
    /\ tpc' = [tpc EXCEPT ![t] = "idle"]
    /\ UNCHANGED <<nextId, dispatchVars>>

\* operator=(Subscription&&) between two slots.
MoveAssign(t, from, to) ==
    /\ MayCall(t)
    /\ SlotOf[from] = t /\ SlotOf[to] = t
    /\ from # to
    /\ Deactivate(Overwritten(to))
    /\ sub' = Moved(from, to)
    /\ UNCHANGED <<nextId, tpc, temp, dispatchVars>>

\* Reset, also from the destructor.
Reset(t, s) ==
    /\ MayCall(t)
    /\ SlotOf[s] = t
    /\ sub[s] # NoSub
    /\ Deactivate(sub[s])
    /\ sub' = [sub EXCEPT ![s] = NoSub]
    /\ UNCHANGED <<nextId, tpc, temp, dispatchVars>>

-----------------------------------------------------------------------------
(* Dispatch on the tick thread. *)

DispatchSnapshot(ty) ==
    /\ dpc = "idle"
    /\ packets < MaxPackets
    /\ packets' = packets + 1
    /\ dpc' = "next"
    /\ dtype' = ty
    /\ snapshot' = callbacks[ty]
    /\ expected' = Entries(ty) \cap alive
    /\ called' = <<>>
    /\ UNCHANGED <<endedThen, subVars>>

\* The loop reads alive of the next entry: a dead one is skipped, ...
AfterDead_Stop == <<>>
AfterDead == Tail(snapshot)

CheckAlive ==
    /\ dpc = "next"
    /\ snapshot # <<>>
    /\ endedThen' = ended
    /\ \/ /\ Head(snapshot) \in alive
          /\ dpc' = "call"
          /\ snapshot' = snapshot
       \/ /\ Head(snapshot) \notin alive
          /\ snapshot' = AfterDead
          /\ dpc' = dpc
    /\ UNCHANGED <<dtype, called, expected, packets, subVars>>

\* ... a live one is called, which a Reset by another thread may precede.
CallBegins ==
    /\ dpc = "call"
    /\ dpc' = "running"
    /\ called' = Append(called, Head(snapshot))
    /\ UNCHANGED <<dtype, snapshot, expected, endedThen, packets, subVars>>

CallReturns ==
    /\ dpc = "running"
    /\ tpc[TickThread] = "idle"
    /\ dpc' = "next"
    /\ snapshot' = Tail(snapshot)
    /\ UNCHANGED <<dtype, called, expected, endedThen, packets, subVars>>

DispatchDone ==
    /\ dpc = "next"
    /\ snapshot = <<>>
    /\ dpc' = "idle"
    /\ UNCHANGED <<dtype, snapshot, called, expected, endedThen, packets, subVars>>

\* std::erase_if keeps the live entries of a type in their order: the places that they
\* had, for each place that they get.
LivePlaces(ty) == {i \in 1..Len(callbacks[ty]) : callbacks[ty][i] \in alive}
Kept(ty) ==
    {f \in [1..Cardinality(LivePlaces(ty)) -> LivePlaces(ty)] :
        /\ \A i, j \in DOMAIN f : i < j => f[i] < f[j]
        /\ \A k \in LivePlaces(ty) : \E i \in DOMAIN f : f[i] = k}

\* Cleanup erases the dead entries of every type.  Nothing in the repository
\* calls it; the model has the tick thread call it between two packets.
Cleanup ==
    /\ dpc = "idle"
    /\ \E ty \in Types : Entries(ty) \ alive # {}
    /\ \E kept \in [Types -> UNION {Kept(ty) : ty \in Types}] :
           /\ \A ty \in Types : kept[ty] \in Kept(ty)
           /\ callbacks' = [ty \in Types |-> [i \in DOMAIN kept[ty] |-> callbacks[ty][kept[ty][i]]]]
    /\ UNCHANGED <<nextId, alive, sub, tpc, temp, ended, dispatchVars>>

-----------------------------------------------------------------------------
OwnerStep(t) ==
    \/ \E ty \in Types : SubscribeTakeId(t, ty)
    \/ SubscribePush(t)
    \/ \E s \in Slots : SubscribeAssign(t, s)
    \/ \E from, to \in Slots : MoveAssign(t, from, to)
    \/ \E s \in Slots : Reset(t, s)

DispatchStep ==
    \/ \E ty \in Types : DispatchSnapshot(ty)
    \/ CheckAlive
    \/ CallBegins
    \/ CallReturns
    \/ DispatchDone
    \/ Cleanup

Next == (\E t \in Threads : OwnerStep(t)) \/ DispatchStep

Spec == Init /\ [][Next]_vars

-----------------------------------------------------------------------------
\* Every variable stays in its type, and every id has been taken from m_nextId.
TypeOK ==
    /\ nextId \in 1..(MaxId + 1)
    /\ callbacks \in [Types -> Seq(Ids)]
    /\ alive \subseteq Ids
    /\ sub \in [Slots -> Subs \cup {NoSub}]
    /\ tpc \in [Threads -> {"idle", "push", "assign"}]
    /\ temp \in [Threads -> Subs \cup {NoSub}]
    /\ ended \subseteq Ids
    /\ dpc \in {"idle", "next", "call", "running"}
    /\ dtype \in Types
    /\ snapshot \in Seq(Ids)
    /\ called \in Seq(Ids)
    /\ expected \subseteq Ids
    /\ endedThen \subseteq Ids

\* The Subscription objects there are: a slot's, or the one a thread is assigning.
Handles == Slots \cup Threads
HandleOf(h) == IF h \in Slots THEN sub[h] ELSE temp[h]
Pushed(h) == h \in Slots \/ tpc[h] = "assign"

\* A Subscription that has an owner is the only one for its entry, and that entry
\* is in its type's vector and alive: moves neither copy nor lose it.
OwnsItsEntry ==
    \A g, h \in Handles :
        /\ HandleOf(g) # NoSub /\ HandleOf(h) # NoSub /\ HandleOf(g).id = HandleOf(h).id => g = h
        /\ HandleOf(h) # NoSub /\ Pushed(h) =>
               HandleOf(h).id \in alive /\ HandleOf(h).id \in Entries(HandleOf(h).type)

\* A live entry has a Subscription that can end it: none is called for ever.
NoOrphan == \A i \in alive : \E h \in Handles : HandleOf(h) # NoSub /\ HandleOf(h).id = i

\* Subscriptions and live entries belong to each other one to one through every
\* interleaving of subscribing, moving, assigning over and resetting.
EntriesOwned == TypeOK /\ OwnsItsEntry /\ NoOrphan

\* Dispatch calls nobody whose Subscription ended before alive was read.
NoCallAfterReset == dpc \in {"call", "running"} => Head(snapshot) \notin endedThen

\* The pointers Dispatch still holds point to entries that have not been freed.
NoFreedEntry == \A i \in 1..Len(snapshot) : snapshot[i] \in Entries(dtype)

\* What Dispatch does with its pointers after it has let go of the mutex is safe.
DispatchSafe == NoCallAfterReset /\ NoFreedEntry

\* When the loop ends, every entry that was alive at the snapshot and whose
\* Subscription has not ended since has been called, and nobody twice, whatever
\* the callbacks and the other threads subscribed and reset meanwhile.
EveryoneCalledOnce ==
    /\ \A i, j \in 1..Len(called) : called[i] = called[j] => i = j
    /\ dpc = "next" /\ snapshot = <<>> =>
           \A e \in expected \ ended : \E i \in 1..Len(called) : called[i] = e

\* The rest of the inductive invariant.  A thread has a Subscription in its hands exactly
\* inside Subscribe; ids come from m_nextId, an id not pushed yet is new to every vector,
\* an entry whose Subscription ended is dead, and no vector holds an id twice.
IdsInv ==
    /\ \A t \in Threads : temp[t] = NoSub <=> tpc[t] = "idle"
    /\ \A h \in Handles : HandleOf(h) # NoSub => HandleOf(h).id < nextId
    /\ \A i \in alive \cup ended : i < nextId
    /\ \A ty \in Types : \A i \in Entries(ty) : i < nextId
    /\ \A t \in Threads : tpc[t] = "push" =>
           /\ temp[t].id \notin alive \cup ended
           /\ \A ty \in Types : temp[t].id \notin Entries(ty)
    /\ alive \cap ended = {}
    /\ \A ty \in Types : \A i, j \in 1..Len(callbacks[ty]) :
           callbacks[ty][i] = callbacks[ty][j] => i = j

\* Dispatch is between the entries it called and those it still points to: only the one
\* it is calling is in both, and an entry that was alive at the snapshot and has not been
\* given up is in one of them, and alive.
DispatchInv ==
    /\ dpc = "idle" => snapshot = <<>>
    /\ dpc \in {"call", "running"} => snapshot # <<>>
    /\ dpc = "running" => called # <<>> /\ called[Len(called)] = Head(snapshot)
    /\ \A i, j \in 1..Len(snapshot) : snapshot[i] = snapshot[j] => i = j
    /\ \A i \in 1..Len(called), j \in 1..Len(snapshot) :
           called[i] = snapshot[j] => dpc = "running" /\ i = Len(called) /\ j = 1
    /\ expected \subseteq alive \cup ended
    /\ dpc # "idle" => \A e \in expected \ ended :
           \/ \E i \in 1..Len(called) : called[i] = e
           \/ \E j \in 1..Len(snapshot) : snapshot[j] = e

ManagerInv == EntriesOwned /\ IdsInv /\ DispatchSafe /\ DispatchInv /\ EveryoneCalledOnce
=============================================================================
