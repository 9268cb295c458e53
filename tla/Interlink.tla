------------------------------ MODULE Interlink ------------------------------
(***************************************************************************)
(* The connection table and the send queue of one AtlasNet process: class  *)
(* Interlink over the GameNetworkingSockets library (GNS, external).       *)
(*                                                                         *)
(* The tick thread opens the connections that are PreConnecting, receives  *)
(* messages and runs the status callbacks GNS has posted.  Packets are     *)
(* sent by handlers on the tick thread and by an application thread;       *)
(* neither holds a lock, so the application thread's reads and writes of   *)
(* the table interleave with the tick thread's.  Peers are internal        *)
(* identities: the path of game clients is not part of this module.        *)
(***************************************************************************)
EXTENDS Integers, Sequences, FiniteSets

CONSTANTS
    Peers,           \* internal identities this process talks to
    Dialled,         \* the peers whose address may be in the registry
    Dialling,        \* the peers that open connections to this process
    TickPackets,     \* packets sent by handlers on the tick thread
    AppPackets,      \* packets sent by the application thread
    EarlyRedial,     \* may a peer dial again while its last connection is up here?
    MaxHandles,      \* bound on GNS connection handles
    MaxFaults,       \* bound on connections the network breaks
    MaxMessages,     \* bound on messages that arrive
    MaxCloses,       \* bound on calls of CloseConnectionTo
    NoHandle,        \* SteamConnection of a row before ConnectByIPAddress
    NoPacket         \* the application thread is not inside SendMessage

ASSUME InterlinkAssumption ==
    /\ {MaxHandles, MaxFaults, MaxMessages, MaxCloses} \subseteq Nat
    /\ NoHandle \notin 1..MaxHandles
    /\ TickPackets \cap AppPackets = {}
    /\ NoPacket \notin TickPackets \cup AppPackets
    /\ Dialled \subseteq Peers
    /\ Dialling \subseteq Peers
    /\ EarlyRedial \in BOOLEAN

Handles == 1..MaxHandles
Packets == TickPackets \cup AppPackets
Rows == [row : Nat, target : Peers, handle : Handles \cup {NoHandle},
         state : {"PreConnecting", "Connecting", "Connected"}]
Statuses == {"Connecting", "Connected", "ClosedByPeer", "ProblemDetectedLocally"}
Calls == [packet : AppPackets, peer : Peers, step : {"establish", "queue", "send"}, row : Nat]

VARIABLES
    conns,      \* Connections: a set of rows numbered in insertion order
    nextRow,    \* number of the next row
    queued,     \* QueuedPacketsOnConnect: peer -> sequence of packets
    registered, \* peers whose address is in the ServerRegistry
    tpc,        \* tick thread: which part of Tick it is in
    tried,      \* rows GenerateNewConnections has visited in this Tick
    app,        \* application thread inside SendMessage: packet, peer, next step
    gns,        \* GNS: handle -> status of the connection
    peer,       \* GNS: handle -> the peer at the other end
    inbound,    \* GNS: handles the peer opened
    callbacks,  \* GNS: status changes posted and not yet delivered
    pollGroup,  \* GNS: handles whose messages ReceiveMessages is given
    inbox,      \* GNS: handles of messages received and not yet read
    batch,      \* pIncomingMessages: the messages ReceiveMessages took
    sent,       \* packets accepted by GNS, in order, with their peer
    dropped,    \* packets SendMessageToConnection refused
    submitted,  \* packets passed to SendMessage, in order, with their peer
    budget,     \* what the environment has left of faults, messages, closes
    fault       \* undefined behaviour the process has run into

tableVars == <<conns, nextRow, queued>>
tickVars  == <<tpc, tried, batch>>
gnsVars   == <<gns, peer, inbound, callbacks, pollGroup, inbox>>
logVars   == <<sent, dropped, submitted>>
vars == <<tableVars, registered, tickVars, app, gnsVars, logVars, budget, fault>>

-----------------------------------------------------------------------------
(* Lookups. *)

RowsTo(p) == {c \in conns : c.target = p}

\* find(who) on the target index: the oldest row among equals.
RowTo(p) == CHOOSE c \in RowsTo(p) : \A d \in RowsTo(p) : c.row <= d.row

RowsOf(h) == {c \in conns : c.handle = h}
RowOf(h) == CHOOSE c \in RowsOf(h) : \A d \in RowsOf(h) : c.row <= d.row

PreConnecting_OrConnecting == {c \in conns : c.state # "Connected"}
PreConnecting == {c \in conns : c.state = "PreConnecting"}
FreeHandles == {h \in Handles : gns[h] = "none"}
NewHandle == CHOOSE h \in FreeHandles : \A g \in FreeHandles : h <= g

Post(h, s) == callbacks' = Append(callbacks, [handle |-> h, status |-> s])

\* multi_index modify: the row keeps its place.
Replace(c, d) == conns' = (conns \ {c}) \cup {d}

Alive == fault = {}
Idle == [packet |-> NoPacket, peer |-> NoPacket, step |-> "idle", row |-> 0]

NewRow(p, h, s) == [row |-> nextRow, target |-> p, handle |-> h, state |-> s]

\* Interlink::Init has run: a shard, a proxy or a cartograph has already asked
\* for a connection to the WatchDog, whose address it may have found.
Init ==
    /\ registered \in SUBSET Dialled
    /\ \/ conns = {} /\ nextRow = 1
       \/ /\ nextRow = 2
          /\ \E p \in registered : conns = {[row |-> 1, target |-> p, handle |-> NoHandle,
                                             state |-> "PreConnecting"]}
    /\ queued = [p \in Peers |-> <<>>]
    /\ tpc = "generate"
    /\ tried = {}
    /\ app = Idle
    /\ gns = [h \in Handles |-> "none"]
    /\ peer = [h \in Handles |-> NoHandle]
    /\ inbound = {}
    /\ callbacks = <<>>
    /\ pollGroup = {}
    /\ inbox = <<>>
    /\ batch = <<>>
    /\ sent = <<>>
    /\ dropped = {}
    /\ submitted = <<>>
    /\ budget = [faults |-> MaxFaults, messages |-> MaxMessages, closes |-> MaxCloses]
    /\ fault = {}

-----------------------------------------------------------------------------
(* SendMessage and EstablishConnectionTo. *)

\* EstablishConnectionTo: nothing when a row exists; otherwise a PreConnecting
\* row when the registry knows the address (after up to five tries).
EstablishConnectionTo(p) ==
    IF RowsTo(p) = {} /\ p \in registered
    THEN /\ conns' = conns \cup {NewRow(p, NoHandle, "PreConnecting")}
         /\ nextRow' = nextRow + 1
    ELSE UNCHANGED <<conns, nextRow>>

QueueMessageOnConnect_Front(p, k) == queued' = [queued EXCEPT ![p] = <<k>> \o @]
QueueMessageOnConnect(p, k) == queued' = [queued EXCEPT ![p] = Append(@, k)]

\* SendMessageToConnection: GNS refuses a connection that is not connected, and
\* the packet is only logged.
HandToGNS(c, k) ==
    \/ /\ gns[c.handle] = "Connected"
       /\ sent' = Append(sent, [packet |-> k, peer |-> c.target])
       /\ UNCHANGED dropped
    \/ /\ gns[c.handle] # "Connected"
       /\ dropped' = dropped \cup {k}
       /\ UNCHANGED sent

Submit(p, k) == submitted' = Append(submitted, [packet |-> k, peer |-> p])
Submitted == {submitted[i].packet : i \in 1..Len(submitted)}

\* SendMessage called on the tick thread, where nothing of the tick interleaves.
SendMessageOnTick(p, k) ==
    /\ Submit(p, k)
    /\ \/ /\ RowsTo(p) = {}
          /\ EstablishConnectionTo(p)
          /\ QueueMessageOnConnect(p, k)
          /\ UNCHANGED <<sent, dropped>>
       \/ /\ RowsTo(p) # {}
          /\ RowTo(p).state # "Connected"
          /\ QueueMessageOnConnect(p, k)
          /\ UNCHANGED <<conns, nextRow, sent, dropped>>
       \/ /\ RowsTo(p) # {}
          /\ RowTo(p).state = "Connected"
          /\ HandToGNS(RowTo(p), k)
          /\ UNCHANGED tableVars

\* SendMessage called on the application thread: the lookup decides the branch ...
AppLookup(p, k) ==
    /\ Alive
    /\ app = Idle
    /\ k \in AppPackets \ Submitted
    /\ Submit(p, k)
    /\ app' = IF RowsTo(p) = {}
              THEN [packet |-> k, peer |-> p, step |-> "establish", row |-> 0]
              ELSE IF RowTo(p).state = "Connected"
              THEN [packet |-> k, peer |-> p, step |-> "send", row |-> RowTo(p).row]
              ELSE [packet |-> k, peer |-> p, step |-> "queue", row |-> 0]
    /\ UNCHANGED <<tableVars, registered, tickVars, gnsVars, sent, dropped, budget, fault>>

\* ... EstablishConnectionTo (which may sleep between registry look-ups) ...
AppEstablish ==
    /\ Alive
    /\ app.step = "establish"
    /\ EstablishConnectionTo(app.peer)
    /\ app' = [app EXCEPT !.step = "queue"]
    /\ UNCHANGED <<queued, registered, tickVars, gnsVars, logVars, budget, fault>>

\* ... then the push onto the queue ...
AppQueue ==
    /\ Alive
    /\ app.step = "queue"
    /\ QueueMessageOnConnect(app.peer, app.packet)
    /\ app' = Idle
    /\ UNCHANGED <<conns, nextRow, registered, tickVars, gnsVars, logVars, budget, fault>>

\* ... or the send through the row that was found, gone if the tick thread has
\* erased it in between.
AppSend ==
    /\ Alive
    /\ app.step = "send"
    /\ \/ \E c \in conns : c.row = app.row /\ HandToGNS(c, app.packet) /\ UNCHANGED fault
       \/ /\ \A c \in conns : c.row # app.row
          /\ fault' = fault \cup {"row erased under SendMessage"}
          /\ UNCHANGED <<sent, dropped>>
    /\ app' = Idle
    /\ UNCHANGED <<tableVars, registered, tickVars, gnsVars, submitted, budget>>

\* The unread messages of the handles in a set, in their order: an increasing
\* numbering of their places picks them out of the inbox.
UnreadPlaces(hs) == {i \in 1..Len(inbox) : inbox[i] \in hs}
Unread(hs) ==
    {[i \in DOMAIN f |-> inbox[f[i]]] :
        f \in {g \in [1..Cardinality(UnreadPlaces(hs)) -> UnreadPlaces(hs)] :
                  \A i, j \in DOMAIN g : i < j => g[i] < g[j]}}

\* GNS (external) discards the unread messages of a handle the process closes;
\* the status changes it has already posted are still delivered.
CloseHandle(h) ==
    /\ gns' = IF h = NoHandle THEN gns ELSE [gns EXCEPT ![h] = "closed"]
    /\ inbox' \in Unread(Handles \ {h})

\* CloseConnectionTo on the application thread.
CloseConnectionTo(p) ==
    /\ Alive
    /\ budget.closes > 0
    /\ app = Idle
    /\ RowsTo(p) # {}
    /\ CloseHandle(RowTo(p).handle)
    /\ conns' = conns \ {RowTo(p)}
    /\ budget' = [budget EXCEPT !.closes = @ - 1]
    /\ UNCHANGED <<nextRow, queued, registered, tickVars, app, peer, inbound, callbacks, pollGroup,
                   logVars, fault>>

-----------------------------------------------------------------------------
(* Tick: GenerateNewConnections; ReceiveMessages; RunCallbacks. *)

\* One row of GenerateNewConnections: ConnectByIPAddress posts the Connecting
\* status at once, or fails and leaves the row for the next Tick.
GenerateConnection(c) ==
    /\ Alive
    /\ tpc = "generate"
    /\ c \in PreConnecting
    /\ c.row \notin tried
    /\ tried' = tried \cup {c.row}
    /\ \/ /\ FreeHandles # {}
          /\ Replace(c, [c EXCEPT !.handle = NewHandle])
          /\ gns' = [gns EXCEPT ![NewHandle] = "Connecting"]
          /\ peer' = [peer EXCEPT ![NewHandle] = c.target]
          /\ Post(NewHandle, "Connecting")
       \/ UNCHANGED <<conns, gns, peer, callbacks>>
    /\ UNCHANGED <<nextRow, queued, registered, tpc, batch, app, inbound, pollGroup, inbox, logVars,
                   budget, fault>>

\* The end of GenerateNewConnections and the call that takes the messages of the
\* poll group (at most 32, more than MaxMessages).
GenerateDone ==
    /\ Alive
    /\ tpc = "generate"
    /\ \A c \in PreConnecting : c.row \in tried
    /\ tpc' = "receive"
    /\ tried' = {}
    /\ batch' \in Unread(pollGroup)
    /\ inbox' \in Unread(Handles \ pollGroup)
    /\ UNCHANGED <<tableVars, registered, app, gns, peer, inbound, callbacks, pollGroup,
                   logVars, budget, fault>>

\* One message of ReceiveMessages: the sender's row is looked up without a test
\* for its absence; the handler of the packet may send.
ReceiveMessage ==
    /\ Alive
    /\ tpc = "receive"
    /\ batch # <<>>
    /\ batch' = Tail(batch)
    /\ \/ /\ RowsOf(Head(batch)) = {}
          /\ fault' = fault \cup {"message of an unknown connection"}
          /\ UNCHANGED <<tableVars, logVars>>
       \/ /\ RowsOf(Head(batch)) # {}
          /\ \/ \E p \in Peers, k \in TickPackets \ Submitted : SendMessageOnTick(p, k)
             \/ UNCHANGED <<tableVars, logVars>>
          /\ UNCHANGED fault
    /\ UNCHANGED <<registered, tpc, tried, app, gnsVars, budget>>

ReceiveDone ==
    /\ Alive
    /\ tpc = "receive"
    /\ batch = <<>>
    /\ tpc' = "callbacks"
    /\ UNCHANGED <<tableVars, registered, tried, batch, app, gnsVars, logVars, budget, fault>>

CallbacksDone ==
    /\ Alive
    /\ tpc = "callbacks"
    /\ callbacks = <<>>
    /\ tpc' = "generate"
    /\ UNCHANGED <<tableVars, registered, tried, batch, app, gnsVars, logVars, budget, fault>>

\* The callback being delivered.
Delivers(s) == Alive /\ tpc = "callbacks" /\ callbacks # <<>> /\ Head(callbacks).status = s
Handle == Head(callbacks).handle

\* CallbackOnConnecting: a row this process opened moves on; a handle the table
\* does not know is a peer's, which is accepted and gets a row.
CallbackOnConnecting ==
    /\ Delivers("Connecting")
    /\ callbacks' = Tail(callbacks)
    /\ \/ /\ RowsOf(Handle) # {}
          /\ Replace(RowOf(Handle), [RowOf(Handle) EXCEPT !.state = "Connecting"])
          /\ UNCHANGED <<nextRow, gns, inbox>>
       \/ /\ RowsOf(Handle) = {}
          /\ gns[Handle] = "Knocking"
          /\ gns' = [gns EXCEPT ![Handle] = "Connecting"]
          /\ conns' = conns \cup {NewRow(peer[Handle], Handle, "Connecting")}
          /\ nextRow' = nextRow + 1
          /\ UNCHANGED inbox
       \/ /\ RowsOf(Handle) = {}
          /\ gns[Handle] # "Knocking"
          /\ CloseHandle(Handle)
          /\ UNCHANGED <<conns, nextRow>>
    /\ UNCHANGED <<queued, registered, tickVars, app, peer, inbound, pollGroup, logVars,
                   budget, fault>>

\* The loop of CallbackOnConnected over the queue of one target: SendMessage
\* looks the target up again, and when the oldest row of that target is not
\* connected it pushes onto the vector being iterated.
DrainedQueue_Kept(p) == queued
DrainedQueue(p) == [queued EXCEPT ![p] = <<>>]

Drain(p, found) ==
    \/ /\ found.state = "Connected"
       /\ queued' = DrainedQueue(p)
       /\ IF gns[found.handle] = "Connected"
          THEN /\ sent' = sent \o [i \in 1..Len(queued[p]) |->
                                     [packet |-> queued[p][i], peer |-> p]]
               /\ UNCHANGED dropped
          ELSE /\ dropped' = dropped \cup {queued[p][i] : i \in 1..Len(queued[p])}
               /\ UNCHANGED sent
       /\ UNCHANGED fault
    \/ /\ found.state # "Connected"
       /\ fault' = fault \cup {"queue changed under its iteration"}
       /\ UNCHANGED <<queued, sent, dropped>>

CallbackOnConnected ==
    /\ Delivers("Connected")
    /\ callbacks' = Tail(callbacks)
    /\ \/ /\ RowsOf(Handle) # {}
          /\ LET c == RowOf(Handle)
                 d == [c EXCEPT !.state = "Connected"]
             IN /\ Replace(c, d)
                /\ pollGroup' = pollGroup \cup {Handle}
                /\ \/ queued[c.target] = <<>> /\ UNCHANGED <<queued, sent, dropped, fault>>
                   \/ /\ queued[c.target] # <<>>
                      /\ Drain(c.target, IF RowTo(c.target) = c THEN d ELSE RowTo(c.target))
       \/ /\ RowsOf(Handle) = {}
          /\ fault' = fault \cup {"connected to a connection not stored"}
          /\ UNCHANGED <<conns, queued, pollGroup, sent, dropped>>
    /\ UNCHANGED <<nextRow, registered, tickVars, app, gns, peer, inbound, inbox,
                   submitted, budget>>

\* CallbackOnClosedByPear closes the handle and erases the row.
CallbackOnClosedByPeer_NoClose ==
    /\ Delivers("ClosedByPeer")
    /\ callbacks' = Tail(callbacks)
    /\ conns' = conns \ RowsOf(Handle)
    /\ UNCHANGED <<nextRow, queued, registered, tickVars, app, gns, peer, inbound, pollGroup, inbox,
                   logVars, budget, fault>>

CallbackOnClosedByPeer ==
    /\ Delivers("ClosedByPeer")
    /\ callbacks' = Tail(callbacks)
    /\ \/ /\ RowsOf(Handle) = {}
          /\ UNCHANGED <<conns, gns, inbox>>
       \/ /\ RowsOf(Handle) # {}
          /\ CloseHandle(Handle)
          /\ conns' = conns \ {RowOf(Handle)}
    /\ UNCHANGED <<nextRow, queued, registered, tickVars, app, peer, inbound, pollGroup,
                   logVars, budget, fault>>

\* CallbackOnProblemDetectedLocally erases the row and leaves the handle open.

CallbackOnProblemDetectedLocally ==
    /\ Delivers("ProblemDetectedLocally")
    /\ callbacks' = Tail(callbacks)
    /\ \/ RowsOf(Handle) = {} /\ UNCHANGED conns
       \/ RowsOf(Handle) # {} /\ conns' = conns \ {RowOf(Handle)}
    /\ UNCHANGED <<nextRow, queued, registered, tickVars, app, gns, peer, inbound, pollGroup, inbox,
                   logVars, budget, fault>>

-----------------------------------------------------------------------------
(* The environment: the registry, the peers and the network (external). *)

PeerRegisters(p) ==
    /\ Alive
    /\ p \in Dialled \ registered
    /\ registered' = registered \cup {p}
    /\ UNCHANGED <<tableVars, tickVars, app, gnsVars, logVars, budget, fault>>

\* A peer opens a connection: "Knocking" until this process accepts it.  The
\* peer's own EstablishConnectionTo does nothing while it has a connection; with
\* EarlyRedial the peer has lost the last one before this process noticed.
PeerConnects(p) ==
    /\ Alive
    /\ p \in Dialling
    /\ FreeHandles # {}
    /\ \A h \in inbound : peer[h] = p =>
          \/ gns[h] \notin {"Knocking", "Connecting", "Connected"}
          \/ EarlyRedial /\ gns[h] # "Knocking"
    /\ gns' = [gns EXCEPT ![NewHandle] = "Knocking"]
    /\ peer' = [peer EXCEPT ![NewHandle] = p]
    /\ inbound' = inbound \cup {NewHandle}
    /\ Post(NewHandle, "Connecting")
    /\ UNCHANGED <<tableVars, registered, tickVars, app, pollGroup, inbox, logVars, budget, fault>>

NetworkConnects(h) ==
    /\ Alive
    /\ gns[h] = "Connecting"
    /\ gns' = [gns EXCEPT ![h] = "Connected"]
    /\ Post(h, "Connected")
    /\ UNCHANGED <<tableVars, registered, tickVars, app, peer, inbound, pollGroup, inbox,
                   logVars, budget, fault>>

\* A time-out, or the peer closing a connection that was up.
NetworkEnds(h, s) ==
    /\ Alive
    /\ budget.faults > 0
    /\ \/ s = "ProblemDetectedLocally" /\ gns[h] \in {"Knocking", "Connecting", "Connected"}
       \/ s = "ClosedByPeer" /\ gns[h] = "Connected"
    /\ gns' = [gns EXCEPT ![h] = s]
    /\ Post(h, s)
    /\ budget' = [budget EXCEPT !.faults = @ - 1]
    /\ UNCHANGED <<tableVars, registered, tickVars, app, peer, inbound, pollGroup, inbox,
                   logVars, fault>>

MessageArrives(h) ==
    /\ Alive
    /\ budget.messages > 0
    /\ gns[h] = "Connected"
    /\ inbox' = Append(inbox, h)
    /\ budget' = [budget EXCEPT !.messages = @ - 1]
    /\ UNCHANGED <<tableVars, registered, tickVars, app, gns, peer, inbound, callbacks,
                   pollGroup, logVars, fault>>

-----------------------------------------------------------------------------
Tick ==
    \/ \E c \in conns : GenerateConnection(c)
    \/ GenerateDone
    \/ ReceiveMessage
    \/ ReceiveDone
    \/ CallbackOnConnecting
    \/ CallbackOnConnected
    \/ CallbackOnClosedByPeer
    \/ CallbackOnProblemDetectedLocally
    \/ CallbacksDone

AppThread ==
    \/ \E p \in Peers, k \in AppPackets : AppLookup(p, k)
    \/ AppEstablish
    \/ AppQueue
    \/ AppSend
    \/ \E p \in Peers : CloseConnectionTo(p)

Network ==
    \/ \E p \in Peers : PeerRegisters(p) \/ PeerConnects(p)
    \/ \E h \in Handles :
          \/ NetworkConnects(h)
          \/ NetworkEnds(h, "ProblemDetectedLocally")
          \/ NetworkEnds(h, "ClosedByPeer")
          \/ MessageArrives(h)

Next == Tick \/ AppThread \/ Network

Spec == Init /\ [][Next]_vars

\* The tick thread runs for ever, ConnectByIPAddress does not fail for ever, and
\* GNS completes a connection both ends agree to.
FairSpec ==
    /\ Spec
    /\ WF_vars(Tick)
    /\ \A h \in Handles : WF_vars(NetworkConnects(h))
    /\ SF_vars(\E c \in conns : GenerateConnection(c) /\ conns' # conns)

-----------------------------------------------------------------------------
(* Invariants. *)

\* Every variable stays in its type.
TypeOK ==
    /\ conns \subseteq Rows
    /\ nextRow \in Nat
    /\ queued \in [Peers -> Seq(Packets)]
    /\ registered \subseteq Peers
    /\ tpc \in {"generate", "receive", "callbacks"}
    /\ tried \subseteq Nat
    /\ batch \in Seq(Handles)
    /\ app \in Calls \cup {Idle}
    /\ gns \in [Handles -> Statuses \cup {"none", "Knocking", "closed"}]
    /\ peer \in [Handles -> Peers \cup {NoHandle}]
    /\ pollGroup \subseteq Handles
    /\ inbound \subseteq Handles
    /\ callbacks \in Seq([handle : Handles, status : Statuses])
    /\ inbox \in Seq(Handles)
    /\ sent \in Seq([packet : Packets, peer : Peers])
    /\ submitted \in Seq([packet : Packets, peer : Peers])
    /\ dropped \subseteq Packets

\* The comment on the handle index says "Unique By HConnection" while the index
\* is a non-unique one: no two rows share a handle.
HandlesUnique ==
    \A c, d \in conns : c.handle = d.handle /\ c.handle # NoHandle => c = d

\* A connection this process opened or accepted, and that GNS has not ended, is
\* in the table: no second ConnectByIPAddress for the same row overwrites a
\* handle that is still open.
NoLostHandle ==
    \A h \in Handles : gns[h] \in {"Connecting", "Connected"} => RowsOf(h) # {}

\* A row whose connection has ended is about to go: the callback that erases it
\* is posted.
NoStaleRow ==
    \A c \in conns :
        c.handle # NoHandle /\ gns[c.handle] \notin {"Connecting", "Connected"} =>
            \E i \in 1..Len(callbacks) : callbacks[i] = [handle |-> c.handle,
                                                        status |-> gns[c.handle]]

\* The ASSERT of CallbackOnConnected ("Connected? to non existent connection?")
\* and the error of CallbackOnClosedByPear ("This should never happen") are not
\* reached unless CloseConnectionTo closed the handle after the status was posted.
CallbacksFindTheirRow ==
    \A i \in 1..Len(callbacks) :
        \/ callbacks[i].status \notin {"Connected", "ClosedByPeer"}
        \/ gns[callbacks[i].handle] = "closed"
        \/ RowsOf(callbacks[i].handle) # {}
        \/ \E j \in 1..(i - 1) : callbacks[j] = [handle |-> callbacks[i].handle,
                                                 status |-> "Connecting"]

\* A message ReceiveMessages will look up has a row, unless the connection ended
\* with ProblemDetectedLocally, whose callback erases the row and leaves the
\* handle open, or CloseConnectionTo ran while the message was being handled.
UnreadHasRow ==
    /\ \A i \in 1..Len(inbox) :
          RowsOf(inbox[i]) # {} \/ gns[inbox[i]] = "ProblemDetectedLocally"
    /\ \A i \in 1..Len(batch) :
          RowsOf(batch[i]) # {} \/ gns[batch[i]] \in {"ProblemDetectedLocally", "closed"}

\* The table and GNS agree, whatever the peers, the network and the two threads do
\* between a status change and its callback.
TableMatchesGns == TypeOK /\ HandlesUnique /\ NoLostHandle /\ NoStaleRow

\* Whatever GNS delivers finds the row it is about.
EventsFindTheirRow == CallbacksFindTheirRow /\ UnreadHasRow

\* The places a packet is in: with the application thread, in a queue, accepted
\* by GNS or refused by it.
Places(k) ==
    {<<"app">> : x \in {app.packet} \cap {k}}
    \cup {<<"dropped">> : x \in dropped \cap {k}}
    \cup {<<"sent", i>> : i \in {j \in 1..Len(sent) : sent[j].packet = k}}
    \cup UNION {{<<"queue", p, i>> : i \in {j \in 1..Len(queued[p]) : queued[p][j] = k}}
                  : p \in Peers}

\* A packet passed to SendMessage is in exactly one place: no interleaving of the
\* drain of CallbackOnConnected with SendMessage loses it or sends it twice.
PacketAccounted == Alive => \A k \in Submitted : Cardinality(Places(k)) = 1

\* When a target's connection is up nothing waits in its queue: the drain of
\* CallbackOnConnected leaves no packet behind for a next connection.
NothingWaitsWhenConnected ==
    \A p \in Peers : RowsTo(p) # {} /\ RowTo(p).state = "Connected" => queued[p] = <<>>

\* Packets reach GNS in the order they were passed to SendMessage for the peer,
\* also when some of them waited for the connection.
SentInOrder ==
    \A i, j \in 1..Len(sent) : \A m, n \in 1..Len(submitted) :
        /\ i < j
        /\ sent[i].peer = sent[j].peer
        /\ submitted[m] = sent[i]
        /\ submitted[n] = sent[j]
        => m < n

\* Neither the wait for a connection nor its end disturbs the order of packets or
\* leaves one behind.
OrderKept == NothingWaitsWhenConnected /\ SentInOrder

-----------------------------------------------------------------------------
(* The inductive invariants behind them. *)

\* Rows are numbered in the order of their insertion, and a row that has a handle has one
\* GNS knows, to the target of the row, which the process has not closed.
RowsInv ==
    /\ \A c \in conns : c.row < nextRow
    /\ \A c, d \in conns : c.row = d.row => c = d
    /\ \A c \in conns : c.handle # NoHandle =>
           /\ gns[c.handle] \notin {"none", "Knocking", "closed"}
           /\ peer[c.handle] = c.target
    /\ \A h \in Handles : gns[h] # "none" => peer[h] \in Peers

\* A row that has been dialled and is still PreConnecting has its Connecting callback
\* ahead, and the loop of GenerateNewConnections does not come to it again.
DialledInv ==
    \A c \in conns : c.state = "PreConnecting" /\ c.handle # NoHandle =>
        /\ \E i \in 1..Len(callbacks) : callbacks[i] = [handle |-> c.handle,
                                                        status |-> "Connecting"]
        /\ tpc = "generate" => c.row \in tried

\* The end of a connection is the last status change posted about its handle.
Ends == {"ClosedByPeer", "ProblemDetectedLocally"}
CallbacksInv ==
    /\ \A i \in 1..Len(callbacks) : gns[callbacks[i].handle] # "none"
    /\ \A i \in 1..Len(callbacks) : callbacks[i].status \in Ends =>
           gns[callbacks[i].handle] \in {callbacks[i].status, "closed"}
    /\ \A i, j \in 1..Len(callbacks) :
           i < j /\ callbacks[i].status \in Ends => callbacks[j].handle # callbacks[i].handle

TableInv == TableMatchesGns /\ EventsFindTheirRow /\ RowsInv /\ DialledInv /\ CallbacksInv

\* A packet is submitted exactly when it is with the application thread, refused, accepted
\* or waiting; no two of these hold of it, and none holds twice.
Accepted(k) == \E i \in 1..Len(sent) : sent[i].packet = k
Waiting(k) == \E p \in Peers : \E i \in 1..Len(queued[p]) : queued[p][i] = k
OnePlace ==
    /\ \A k \in Packets :
           k \in Submitted <=> app.packet = k \/ k \in dropped \/ Accepted(k) \/ Waiting(k)
    /\ \A k \in Packets :
           /\ app.packet = k => k \notin dropped /\ ~Accepted(k) /\ ~Waiting(k)
           /\ k \in dropped => ~Accepted(k) /\ ~Waiting(k)
           /\ Accepted(k) => ~Waiting(k)
    /\ \A i, j \in 1..Len(sent) : sent[i].packet = sent[j].packet => i = j
    /\ \A p, q \in Peers : \A i \in 1..Len(queued[p]), j \in 1..Len(queued[q]) :
           queued[p][i] = queued[q][j] => p = q /\ i = j

PacketInv == TypeOK /\ (Alive => OnePlace)

\* When this process does not dial the peers that dial it, and they do not dial again
\* before it noticed: one row per target, the connections of a peer follow each other, and
\* the callback that erases the row of one is delivered before the callback that makes the
\* row of the next.
Up == {"Knocking", "Connecting", "Connected"}
SingleRows ==
    /\ \A c, d \in conns : c.target = d.target => c = d
    /\ \A c \in conns : c.target \in Dialled \/ c.handle \in inbound
RedialsInv ==
    /\ registered \subseteq Dialled
    /\ \A h \in inbound : gns[h] # "none" /\ peer[h] \in Dialling
    /\ \A h \in Handles : gns[h] = "Knocking" => h \in inbound
    /\ \A g, h \in inbound : peer[g] = peer[h] /\ gns[g] \in Up /\ gns[h] \in Up => g = h
    /\ \A i, j \in 1..Len(callbacks) :
           /\ callbacks[i].handle \in inbound /\ callbacks[j].handle \in inbound
           /\ peer[callbacks[i].handle] = peer[callbacks[j].handle]
           /\ gns[callbacks[i].handle] = "Knocking" /\ callbacks[j].status \in Ends
           => j < i

\* The order in which two packets for a peer were submitted.
InOrder(k, l, p) ==
    \A m, n \in 1..Len(submitted) :
        submitted[m] = [packet |-> k, peer |-> p] /\ submitted[n] = [packet |-> l, peer |-> p]
            => m < n

\* What waits for a peer is in order, and behind all that was sent to it.
QueuesInv ==
    /\ \A c \in conns : c.state = "Connected" => queued[c.target] = <<>>
    /\ \A i, j \in 1..Len(sent) :
           i < j /\ sent[i].peer = sent[j].peer =>
               InOrder(sent[i].packet, sent[j].packet, sent[i].peer)
    /\ \A p \in Peers : \A i, j \in 1..Len(queued[p]) :
           i < j => InOrder(queued[p][i], queued[p][j], p)
    /\ \A p \in Peers : \A i \in 1..Len(sent), j \in 1..Len(queued[p]) :
           sent[i].peer = p => InOrder(sent[i].packet, queued[p][j], p)

OrderInv == TableInv /\ PacketInv /\ SingleRows /\ RedialsInv /\ QueuesInv

-----------------------------------------------------------------------------
(* Liveness. *)

\* Packets waiting for a peer the table has a row for are eventually sent, unless
\* the connection ends and takes the row with it, or the process fails.
QueuedAreSent ==
    \A p \in Peers :
        queued[p] # <<>> /\ RowsTo(p) # {} ~> queued[p] = <<>> \/ RowsTo(p) = {} \/ ~Alive
=============================================================================
