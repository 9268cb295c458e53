----------------------------- MODULE EventSystem -----------------------------
(***************************************************************************)
(* Events between processes over Redis publish/subscribe (EventSystem,     *)
(* EventRegistry).  A process subscribes on any thread: the channel first, *)
(* then the callback, then the flag that lets the consuming thread start.  *)
(* That thread takes one message at a time and calls the callbacks of its  *)
(* event type; a type without callbacks makes it throw, and an exception   *)
(* on a thread ends the process.  Redis delivers an event to the           *)
(* connections that are subscribed when it is published.                   *)
(***************************************************************************)
EXTENDS Naturals, Sequences, SequencesExt

CONSTANTS
    Subscribers,       \* processes that subscribe
    EventTypes,        \* event types of the EventRegistry
    MaxSubscriptions   \* bound on calls of Subscribe, per process

VARIABLES
    eventInit,      \* EventSystemInit
    channels,       \* the channels each process is subscribed to
    subscriptions,  \* event_subscriptions: event types with the number of callbacks
    stored,         \* history: callbacks in event_subscriptions, of all types
    subscribing,    \* Subscribe calls under way: the type and what is left to do
    hasSubscription,\* HasSubscription
    consumer,       \* the consuming thread: waiting, consuming or thrown
    inbox,          \* messages delivered and not consumed
    inHand,         \* the message on_message is working on, with its callbacks still to call
    handled,        \* history: the calls of callbacks, in order
    delivered       \* history: events delivered to the process, in order

eventVars == <<eventInit, channels, subscriptions, stored, subscribing, hasSubscription,
               consumer, inbox, inHand, handled, delivered>>

NoSubscribe == [at |-> "none"]

EventInit ==
    /\ eventInit = [p \in Subscribers |-> "no"]
    /\ channels = [p \in Subscribers |-> {}]
    /\ subscriptions = [p \in Subscribers |-> [t \in EventTypes |-> 0]]
    /\ stored = [p \in Subscribers |-> 0]
    /\ subscribing = [p \in Subscribers |-> NoSubscribe]
    /\ hasSubscription = [p \in Subscribers |-> "no"]
    /\ consumer = [p \in Subscribers |-> "none"]
    /\ inbox = [p \in Subscribers |-> <<>>]
    /\ inHand = [p \in Subscribers |-> <<>>]
    /\ handled = [p \in Subscribers |-> <<>>]
    /\ delivered = [p \in Subscribers |-> <<>>]

-----------------------------------------------------------------------------
\* Init starts the consuming thread.
StartEvents(p) ==
    /\ eventInit[p] = "no"
    /\ eventInit' = [eventInit EXCEPT ![p] = "yes"]
    /\ consumer' = [consumer EXCEPT ![p] = "waiting"]
    /\ UNCHANGED <<channels, subscriptions, stored, subscribing, hasSubscription, inbox, inHand,
                   handled, delivered>>

\* Subscribe: the channel is subscribed, ...
SubscribeChannel(p, t) ==
    /\ eventInit[p] = "yes"
    /\ subscribing[p] = NoSubscribe
    /\ stored[p] < MaxSubscriptions
    /\ consumer[p] # "thrown"
    /\ channels' = [channels EXCEPT ![p] = @ \cup {t}]
    /\ subscribing' = [subscribing EXCEPT ![p] = [at |-> "store", type |-> t]]
    /\ UNCHANGED <<eventInit, subscriptions, stored, hasSubscription, consumer, inbox, inHand,
                   handled, delivered>>

\* ... the callback stored: into a vector that on_message may be iterating, whose
\* storage can move ...
StoreCallback(p) ==
    LET t == subscribing[p].type
        races == inHand[p] # <<>> /\ inHand[p][1].type = t
    IN  /\ subscribing[p].at = "store"
        /\ consumer[p] # "thrown"
        /\ subscriptions' = [subscriptions EXCEPT ![p][t] = @ + 1]
        /\ stored' = [stored EXCEPT ![p] = @ + 1]
        /\ subscribing' = [subscribing EXCEPT ![p].at = "flag"]
        /\ \/ UNCHANGED consumer
           \/ races /\ consumer' = [consumer EXCEPT ![p] = "thrown"]
        /\ UNCHANGED <<eventInit, channels, hasSubscription, inbox, inHand, handled, delivered>>

\* ... and the consuming thread let go.
SetHasSubscription(p) ==
    /\ subscribing[p].at = "flag"
    /\ consumer[p] # "thrown"
    /\ hasSubscription' = [hasSubscription EXCEPT ![p] = "yes"]
    /\ subscribing' = [subscribing EXCEPT ![p] = NoSubscribe]
    /\ UNCHANGED <<eventInit, channels, subscriptions, stored, consumer, inbox, inHand, handled, delivered>>

\* The consuming thread waits for a subscription.
MayConsume_Subscribed(p) == channels[p] # {}
MayConsume(p) == hasSubscription[p] = "yes"
StartConsuming(p) ==
    /\ consumer[p] = "waiting"
    /\ MayConsume(p)
    /\ consumer' = [consumer EXCEPT ![p] = "consuming"]
    /\ UNCHANGED <<eventInit, channels, subscriptions, stored, subscribing, hasSubscription, inbox, inHand,
                   handled, delivered>>

\* on_message looks its callbacks up: an exception when the type has none, ...
Throws_Never(p, e) == FALSE
Throws(p, e) == subscriptions[p][e.type] = 0
Consume(p) ==
    LET e == Head(inbox[p]) IN
    /\ consumer[p] = "consuming" /\ inHand[p] = <<>> /\ inbox[p] # <<>>
    /\ inbox' = [inbox EXCEPT ![p] = Tail(@)]
    /\ inHand' = [inHand EXCEPT ![p] = [i \in 1..subscriptions[p][e.type] |-> e]]
    /\ consumer' = [consumer EXCEPT ![p] = IF Throws(p, e) THEN "thrown" ELSE @]
    /\ UNCHANGED <<eventInit, channels, subscriptions, stored, subscribing, hasSubscription, handled, delivered>>

\* ... and calls them one after the other.
CallCallback(p) ==
    /\ consumer[p] = "consuming" /\ inHand[p] # <<>>
    /\ handled' = [handled EXCEPT ![p] = Append(@, Head(inHand[p]))]
    /\ inHand' = [inHand EXCEPT ![p] = Tail(@)]
    /\ UNCHANGED <<eventInit, channels, subscriptions, stored, subscribing, hasSubscription, consumer, inbox,
                   delivered>>

\* What Dispatch of event e does to the processes that have subscribed to its channel.
ReachedBy(e) == {p \in Subscribers : e.type \in channels[p] /\ consumer[p] # "thrown"}
WithEvent(queues, e) ==
    [p \in Subscribers |-> IF p \in ReachedBy(e) THEN Append(queues[p], e) ELSE queues[p]]

DispatchEvent(e) ==
    /\ inbox' = WithEvent(inbox, e)
    /\ delivered' = WithEvent(delivered, e)
    /\ UNCHANGED <<eventInit, channels, subscriptions, stored, subscribing, hasSubscription, consumer,
                   inHand, handled>>

EventStep(p) ==
    \/ StoreCallback(p)
    \/ SetHasSubscription(p)
    \/ StartConsuming(p)
    \/ Consume(p)
    \/ CallCallback(p)

EventNext ==
    \E p \in Subscribers :
        StartEvents(p) \/ (\E t \in EventTypes : SubscribeChannel(p, t)) \/ EventStep(p)

-----------------------------------------------------------------------------
\* A process that makes one call of Subscribe survives every event, although its channel
\* is subscribed before its callback exists: HasSubscription holds the consuming thread
\* back.  (A later call has nothing that does: an event between its two steps throws.)
ConsumerSurvives ==
    \A p \in Subscribers :
        stored[p] + (IF subscribing[p].at = "store" THEN 1 ELSE 0) <= 1
            => consumer[p] # "thrown"

\* Every callback that was stored before the first event came is called with every event
\* of its type, in the order of delivery, unless the process ends: here, what a process
\* with a single subscription handled, holds and has not read yet is what it was sent, and
\* a process that is idle has called at least one callback for every event.
EventsInOrder ==
    \A p \in Subscribers :
        consumer[p] # "thrown" =>
            /\ stored[p] = 1 => handled[p] \o inHand[p] \o inbox[p] = delivered[p]
            /\ inHand[p] = <<>> =>
                \A e \in ToSet(delivered[p]) \ ToSet(inbox[p]) : e \in ToSet(handled[p])

-----------------------------------------------------------------------------
(* The inductive invariant behind both. *)

EventTypeOK(Events) ==
    /\ eventInit \in [Subscribers -> {"yes", "no"}]
    /\ channels \in [Subscribers -> SUBSET EventTypes]
    /\ subscriptions \in [Subscribers -> [EventTypes -> Nat]]
    /\ stored \in [Subscribers -> Nat]
    /\ subscribing \in [Subscribers -> {NoSubscribe} \cup [at : {"store", "flag"}, type : EventTypes]]
    /\ hasSubscription \in [Subscribers -> {"yes", "no"}]
    /\ consumer \in [Subscribers -> {"none", "waiting", "consuming", "thrown"}]
    /\ inbox \in [Subscribers -> Seq(Events)]
    /\ inHand \in [Subscribers -> Seq(Events)]
    /\ handled \in [Subscribers -> Seq(Events)]
    /\ delivered \in [Subscribers -> Seq(Events)]

\* A channel that is subscribed has a callback, unless its Subscribe is between the two
\* steps; nothing is consumed before a callback is stored; and what was delivered was
\* handled, is being handled or has not been read.
ConsumerInv(p) ==
    /\ eventInit[p] = "no" => consumer[p] = "none" /\ subscribing[p] = NoSubscribe
    /\ \A t \in EventTypes : subscriptions[p][t] <= stored[p]
    /\ \A t \in channels[p] :
           subscriptions[p][t] # 0 \/ (subscribing[p].at = "store" /\ subscribing[p].type = t)
    /\ hasSubscription[p] = "yes" \/ consumer[p] = "consuming" \/ subscribing[p].at = "flag"
           => stored[p] # 0
    /\ stored[p] = 0 => handled[p] = <<>> /\ inHand[p] = <<>> /\ inbox[p] = delivered[p]
    /\ \A e \in ToSet(inbox[p]) : e.type \in channels[p]
    /\ consumer[p] # "thrown" => \A e \in ToSet(delivered[p]) :
           e \in ToSet(handled[p]) \cup ToSet(inHand[p]) \cup ToSet(inbox[p])

EventsInv(Events) ==
    EventTypeOK(Events) /\ (\A p \in Subscribers : ConsumerInv(p)) /\ ConsumerSurvives /\ EventsInOrder
=============================================================================
