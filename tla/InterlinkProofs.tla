--------------------------- MODULE InterlinkProofs ---------------------------
(***************************************************************************)
(* What the connection table and the send queues of Interlink guarantee    *)
(* for any number of peers, packets, handles and faults: the table and GNS *)
(* agree, every event finds its row, no packet is lost or doubled, and     *)
(* packets leave in order where each target has a single row.              *)
(***************************************************************************)
EXTENDS Interlink, FiniteSetTheorems, SequenceTheorems, WellFoundedInduction, TLAPS

-----------------------------------------------------------------------------
(* The operators of the model. *)

\* A set of numbers that is not empty has a least one.
LEMMA LeastNumber ==
    ASSUME NEW S \in SUBSET Nat, S # {}
    PROVE  \E x \in S : \A y \in S : x <= y
<1> DEFINE R == OpToRel(<, Nat)
<1>1. \A x, y \in Nat : <<y, x>> \in R <=> y < x
    BY DEF OpToRel
<1>2. IsWellFoundedOn(R, Nat)
    BY NatLessThanWellFounded
<1> HIDE DEF R
<1>3. PICK x \in S : \A y \in S : ~ (<<y, x>> \in R)
    BY <1>2, WFMin
<1>4. ASSUME NEW y \in S PROVE x <= y
    <2>1. x \in Nat /\ y \in Nat
        OBVIOUS
    <2>2. ~ (y < x)
        BY <1>1, <1>3, <2>1, Zenon
    <2> QED BY <2>1, <2>2
<1> QED BY <1>4

\* Some row of a set has the least number.
LEMMA OldestRow ==
    ASSUME NEW S \in SUBSET Rows, S # {}
    PROVE  \E c \in S : \A d \in S : c.row <= d.row
<1> DEFINE N == {c.row : c \in S}
<1>1. N \in SUBSET Nat /\ N # {}
    BY DEF Rows
<1>2. PICK x \in N : \A y \in N : x <= y
    BY <1>1, LeastNumber
<1> QED BY <1>2

\* A look-up by target finds a row of the target ...
LEMMA RowToFound ==
    ASSUME TypeOK, NEW p, RowsTo(p) # {}
    PROVE  RowTo(p) \in conns /\ RowTo(p).target = p
<1>1. RowsTo(p) \in SUBSET Rows
    BY DEF TypeOK, RowsTo
<1>2. \E c \in RowsTo(p) : \A d \in RowsTo(p) : c.row <= d.row
    BY <1>1, OldestRow
<1>3. RowTo(p) \in RowsTo(p)
    BY <1>2 DEF RowTo
<1> QED BY <1>3 DEF RowsTo

\* ... and one by handle a row of the handle.
LEMMA RowOfFound ==
    ASSUME TypeOK, NEW h, RowsOf(h) # {}
    PROVE  RowOf(h) \in conns /\ RowOf(h).handle = h
<1>1. RowsOf(h) \in SUBSET Rows
    BY DEF TypeOK, RowsOf
<1>2. \E c \in RowsOf(h) : \A d \in RowsOf(h) : c.row <= d.row
    BY <1>1, OldestRow
<1>3. RowOf(h) \in RowsOf(h)
    BY <1>2 DEF RowOf
<1> QED BY <1>3 DEF RowsOf

\* GNS gives out a handle that is free.
LEMMA NewHandleFree ==
    ASSUME FreeHandles # {}
    PROVE  NewHandle \in Handles /\ gns[NewHandle] = "none"
<1>1. FreeHandles \in SUBSET Nat
    BY InterlinkAssumption DEF FreeHandles, Handles
<1>2. \E h \in FreeHandles : \A g \in FreeHandles : h <= g
    BY <1>1, LeastNumber
<1>3. NewHandle \in FreeHandles
    BY <1>2 DEF NewHandle
<1> QED BY <1>3 DEF FreeHandles

\* The unread messages of some handles are messages of the inbox and of these handles.
LEMMA UnreadOf ==
    ASSUME inbox \in Seq(Handles), NEW hs, NEW x \in Unread(hs)
    PROVE  /\ x \in Seq(Handles)
           /\ \A i \in 1..Len(x) : x[i] \in hs /\ \E j \in 1..Len(inbox) : x[i] = inbox[j]
<1> DEFINE n == Cardinality(UnreadPlaces(hs))
<1>1. IsFiniteSet(1..Len(inbox))
    BY FS_Interval
<1>2. n \in Nat
    BY <1>1, FS_Subset, FS_CardinalityType DEF UnreadPlaces
<1>3. PICK f \in [1..n -> UnreadPlaces(hs)] : x = [i \in DOMAIN f |-> inbox[f[i]]]
    BY DEF Unread
<1> HIDE DEF n
<1>4. \A i \in 1..n : f[i] \in 1..Len(inbox) /\ inbox[f[i]] \in hs
    BY <1>3 DEF UnreadPlaces
<1>5. x = [i \in 1..n |-> inbox[f[i]]]
    BY <1>3
<1>6. \A i \in 1..n : inbox[f[i]] \in Handles
    BY <1>4
<1>7. x \in Seq(Handles) /\ Len(x) = n
    BY <1>2, <1>5, <1>6, IsASeq
<1> QED BY <1>4, <1>5, <1>7

-----------------------------------------------------------------------------
(* Types. *)

\* What the calls shared by the actions do to the types: EstablishConnectionTo adds a row or
\* nothing.
LEMMA EstablishTypes ==
    ASSUME TypeOK, NEW p \in Peers, EstablishConnectionTo(p)
    PROVE  conns' \subseteq Rows /\ nextRow' \in Nat
BY DEF TypeOK, EstablishConnectionTo, NewRow, Rows

\* SendMessage is called with a packet for a peer.
LEMMA SubmitTypes ==
    ASSUME TypeOK, NEW p \in Peers, NEW k \in Packets, Submit(p, k)
    PROVE  submitted' \in Seq([packet : Packets, peer : Peers])
BY DEF TypeOK, Submit

\* GNS takes the packet or refuses it.
LEMMA HandToGNSTypes ==
    ASSUME TypeOK, NEW c \in conns, NEW k \in Packets, HandToGNS(c, k)
    PROVE  sent' \in Seq([packet : Packets, peer : Peers]) /\ dropped' \subseteq Packets
<1> DEFINE r == [packet |-> k, peer |-> c.target]
<1>1. r \in [packet : Packets, peer : Peers]
    BY DEF TypeOK, Rows
<1>2. sent \in Seq([packet : Packets, peer : Peers]) /\ dropped \subseteq Packets
    BY DEF TypeOK
<1>3. \/ sent' = Append(sent, r) /\ dropped' = dropped
      \/ sent' = sent /\ dropped' = dropped \cup {k}
    BY DEF HandToGNS
<1> HIDE DEF r
<1>4. Append(sent, r) \in Seq([packet : Packets, peer : Peers])
    BY <1>1, <1>2, AppendProperties
<1> QED BY <1>2, <1>3, <1>4

\* The queue of the peer takes the packet.
LEMMA QueueTypes ==
    ASSUME TypeOK, NEW p \in Peers, NEW k \in Packets, QueueMessageOnConnect(p, k)
    PROVE  queued' \in [Peers -> Seq(Packets)]
BY DEF TypeOK, QueueMessageOnConnect

\* A handle that is closed stays a handle, and its messages go.
LEMMA CloseTypes ==
    ASSUME TypeOK, NEW h \in Handles \cup {NoHandle}, CloseHandle(h)
    PROVE  /\ gns' \in [Handles -> Statuses \cup {"none", "Knocking", "closed"}]
           /\ inbox' \in Seq(Handles)
<1>1. inbox' \in Seq(Handles)
    BY UnreadOf DEF TypeOK, CloseHandle
<1> QED BY <1>1 DEF TypeOK, CloseHandle

\* A status change that is posted is about a handle.
LEMMA PostTypes ==
    ASSUME TypeOK, NEW h \in Handles, NEW s \in Statuses, Post(h, s)
    PROVE  callbacks' \in Seq([handle : Handles, status : Statuses])
BY DEF TypeOK, Post

\* SendMessage on the tick thread.
LEMMA SendOnTickTypes ==
    ASSUME TypeOK, NEW p \in Peers, NEW k \in TickPackets, SendMessageOnTick(p, k)
    PROVE  /\ conns' \subseteq Rows /\ nextRow' \in Nat
           /\ queued' \in [Peers -> Seq(Packets)]
           /\ submitted' \in Seq([packet : Packets, peer : Peers])
           /\ sent' \in Seq([packet : Packets, peer : Peers]) /\ dropped' \subseteq Packets
<1>k. k \in Packets
    BY DEF Packets
<1>1. submitted' \in Seq([packet : Packets, peer : Peers])
    BY <1>k, SubmitTypes DEF SendMessageOnTick
<1>2. CASE /\ EstablishConnectionTo(p)
           /\ QueueMessageOnConnect(p, k)
           /\ UNCHANGED <<sent, dropped>>
    <2>1. conns' \subseteq Rows /\ nextRow' \in Nat
        BY <1>2, EstablishTypes
    <2>2. queued' \in [Peers -> Seq(Packets)]
        BY <1>2, <1>k, QueueTypes
    <2> QED BY <1>1, <1>2, <2>1, <2>2 DEF TypeOK
<1>3. CASE /\ QueueMessageOnConnect(p, k)
           /\ UNCHANGED <<conns, nextRow, sent, dropped>>
    <2>1. queued' \in [Peers -> Seq(Packets)]
        BY <1>3, <1>k, QueueTypes
    <2> QED BY <1>1, <1>3, <2>1 DEF TypeOK
<1>4. CASE /\ RowsTo(p) # {}
           /\ HandToGNS(RowTo(p), k)
           /\ UNCHANGED tableVars
    <2>1. RowTo(p) \in conns
        BY <1>4, RowToFound
    <2>2. sent' \in Seq([packet : Packets, peer : Peers]) /\ dropped' \subseteq Packets
        BY <1>4, <1>k, <2>1, HandToGNSTypes
    <2> QED BY <1>1, <1>4, <2>2 DEF TypeOK, tableVars
<1> QED BY <1>2, <1>3, <1>4 DEF SendMessageOnTick

\* The drain of CallbackOnConnected.
LEMMA DrainTypes ==
    ASSUME TypeOK, NEW p \in Peers, NEW c, Drain(p, c)
    PROVE  /\ queued' \in [Peers -> Seq(Packets)]
           /\ sent' \in Seq([packet : Packets, peer : Peers]) /\ dropped' \subseteq Packets
<1> DEFINE q == queued[p]
           t == [i \in 1..Len(q) |-> [packet |-> q[i], peer |-> p]]
<1>1. q \in Seq(Packets)
    BY DEF TypeOK
<1>2. t \in Seq([packet : Packets, peer : Peers])
    <2>1. Len(q) \in Nat /\ \A i \in 1..Len(q) : q[i] \in Packets
        BY <1>1
    <2> HIDE DEF q
    <2>2. \A i \in 1..Len(q) : [packet |-> q[i], peer |-> p] \in [packet : Packets, peer : Peers]
        BY <2>1
    <2> QED BY <2>1, <2>2, IsASeq
<1>3. sent \o t \in Seq([packet : Packets, peer : Peers])
    BY <1>2, ConcatProperties DEF TypeOK
<1>4. {q[i] : i \in 1..Len(q)} \subseteq Packets
    BY <1>1
<1>5. DrainedQueue(p) \in [Peers -> Seq(Packets)]
    BY DEF DrainedQueue, TypeOK
<1> QED BY <1>3, <1>4, <1>5 DEF Drain, TypeOK

\* Every variable has its type initially ...
LEMMA InitTypes == Init => TypeOK
BY InterlinkAssumption DEF Init, TypeOK, Rows, Handles, Statuses

\* ... and after every step.
LEMMA NextTypes == TypeOK /\ RowsInv /\ [Next]_vars => TypeOK'
<1> SUFFICES ASSUME TypeOK, RowsInv, [Next]_vars PROVE TypeOK'
    OBVIOUS
<1> USE InterlinkAssumption
<1>1. ASSUME NEW c \in conns, GenerateConnection(c) PROVE TypeOK'
    <2>1. c \in Rows /\ c.target \in Peers /\ c.row \in Nat
        BY DEF TypeOK, Rows
    <2>2. CASE /\ FreeHandles # {}
               /\ Replace(c, [c EXCEPT !.handle = NewHandle])
               /\ gns' = [gns EXCEPT ![NewHandle] = "Connecting"]
               /\ peer' = [peer EXCEPT ![NewHandle] = c.target]
               /\ Post(NewHandle, "Connecting")
        <3>1. NewHandle \in Handles
            BY <2>2, NewHandleFree
        <3>2. callbacks' \in Seq([handle : Handles, status : Statuses])
            BY <2>2, <3>1, PostTypes DEF Statuses
        <3>3. conns' \subseteq Rows
            BY <2>1, <2>2, <3>1 DEF Replace, Rows, TypeOK
        <3> QED BY <1>1, <2>1, <2>2, <3>1, <3>2, <3>3 DEF TypeOK, GenerateConnection, logVars, Statuses
    <2>3. CASE UNCHANGED <<conns, gns, peer, callbacks>>
        BY <1>1, <2>1, <2>3 DEF TypeOK, GenerateConnection, logVars
    <2> QED BY <1>1, <2>2, <2>3 DEF GenerateConnection
<1>2. ASSUME GenerateDone PROVE TypeOK'
    <2>1. batch' \in Seq(Handles) /\ inbox' \in Seq(Handles)
        BY <1>2, UnreadOf DEF GenerateDone, TypeOK
    <2> QED BY <1>2, <2>1 DEF TypeOK, GenerateDone, tableVars, logVars
<1>3. ASSUME ReceiveMessage PROVE TypeOK'
    <2>1. batch' \in Seq(Handles)
        BY <1>3, HeadTailProperties DEF ReceiveMessage, TypeOK
    <2>2. CASE UNCHANGED <<tableVars, logVars>>
        BY <1>3, <2>1, <2>2 DEF TypeOK, ReceiveMessage, tableVars, gnsVars, logVars
    <2>3. ASSUME NEW p \in Peers, NEW k \in TickPackets, SendMessageOnTick(p, k) PROVE TypeOK'
        <3>1. /\ conns' \subseteq Rows /\ nextRow' \in Nat
              /\ queued' \in [Peers -> Seq(Packets)]
              /\ submitted' \in Seq([packet : Packets, peer : Peers])
              /\ sent' \in Seq([packet : Packets, peer : Peers]) /\ dropped' \subseteq Packets
            BY <2>3, SendOnTickTypes
        <3> QED BY <1>3, <2>1, <3>1 DEF TypeOK, ReceiveMessage, gnsVars
    <2> QED BY <1>3, <2>2, <2>3 DEF ReceiveMessage
<1>4. ASSUME ReceiveDone PROVE TypeOK'
    BY <1>4 DEF TypeOK, ReceiveDone, tableVars, gnsVars, logVars
<1>5. ASSUME CallbacksDone PROVE TypeOK'
    BY <1>5 DEF TypeOK, CallbacksDone, tableVars, gnsVars, logVars
<1>6. ASSUME NEW s, Delivers(s), callbacks' = Tail(callbacks)
      PROVE  /\ Handle \in Handles
             /\ callbacks' \in Seq([handle : Handles, status : Statuses])
    <2>1. callbacks \in Seq([handle : Handles, status : Statuses]) /\ callbacks # <<>>
        BY <1>6 DEF Delivers, TypeOK
    <2>2. /\ Head(callbacks) \in [handle : Handles, status : Statuses]
          /\ Tail(callbacks) \in Seq([handle : Handles, status : Statuses])
        BY <2>1, HeadTailProperties
    <2> QED BY <1>6, <2>2 DEF Handle
<1>7. ASSUME NEW h, RowsOf(h) # {} PROVE RowOf(h) \in Rows /\ RowOf(h) \in conns
    BY <1>7, RowOfFound DEF TypeOK
<1>8. ASSUME CallbackOnConnecting PROVE TypeOK'
    <2>1. /\ Handle \in Handles
          /\ callbacks' \in Seq([handle : Handles, status : Statuses])
        BY <1>6, <1>8 DEF CallbackOnConnecting
    <2>2. CASE /\ RowsOf(Handle) # {}
               /\ Replace(RowOf(Handle), [RowOf(Handle) EXCEPT !.state = "Connecting"])
               /\ UNCHANGED <<nextRow, gns, inbox>>
        <3>1. conns' \subseteq Rows
            BY <1>7, <2>2 DEF Replace, Rows, TypeOK
        <3> QED BY <1>8, <2>1, <2>2, <3>1 DEF TypeOK, CallbackOnConnecting, tickVars, logVars
    <2>3. CASE /\ gns[Handle] = "Knocking"
               /\ gns' = [gns EXCEPT ![Handle] = "Connecting"]
               /\ conns' = conns \cup {NewRow(peer[Handle], Handle, "Connecting")}
               /\ nextRow' = nextRow + 1
               /\ UNCHANGED inbox
        <3>1. peer[Handle] \in Peers
            BY <1>8, <2>1, <2>3 DEF RowsInv
        <3>2. conns' \subseteq Rows
            BY <2>1, <2>3, <3>1 DEF NewRow, Rows, TypeOK
        <3> QED BY <1>8, <2>1, <2>3, <3>2 DEF TypeOK, CallbackOnConnecting, tickVars, logVars, Statuses
    <2>4. CASE CloseHandle(Handle) /\ UNCHANGED <<conns, nextRow>>
        <3>1. /\ gns' \in [Handles -> Statuses \cup {"none", "Knocking", "closed"}]
              /\ inbox' \in Seq(Handles)
            BY <2>1, <2>4, CloseTypes
        <3> QED BY <1>8, <2>1, <2>4, <3>1 DEF TypeOK, CallbackOnConnecting, tickVars, logVars
    <2> QED BY <1>8, <2>2, <2>3, <2>4 DEF CallbackOnConnecting
<1>9. ASSUME CallbackOnConnected PROVE TypeOK'
    <2>1. /\ Handle \in Handles
          /\ callbacks' \in Seq([handle : Handles, status : Statuses])
        BY <1>6, <1>9 DEF CallbackOnConnected
    <2>2. CASE RowsOf(Handle) # {}
        <3> DEFINE c == RowOf(Handle)
                   d == [c EXCEPT !.state = "Connected"]
        <3>1. c \in Rows /\ c \in conns
            BY <1>7, <2>2
        <3>2. /\ Replace(c, d)
              /\ pollGroup' = pollGroup \cup {Handle}
              /\ \/ UNCHANGED <<queued, sent, dropped>>
                 \/ Drain(c.target, IF RowTo(c.target) = c THEN d ELSE RowTo(c.target))
            BY <1>9, <2>2 DEF CallbackOnConnected
        <3>3. d \in Rows /\ c.target \in Peers
            BY <3>1 DEF Rows
        <3>4. conns' \subseteq Rows
            BY <3>1, <3>2, <3>3 DEF Replace, TypeOK
        <3>5. /\ queued' \in [Peers -> Seq(Packets)]
              /\ sent' \in Seq([packet : Packets, peer : Peers]) /\ dropped' \subseteq Packets
            <4> HIDE DEF c, d
            <4>1. CASE UNCHANGED <<queued, sent, dropped>>
                BY <4>1 DEF TypeOK
            <4>2. CASE Drain(c.target, IF RowTo(c.target) = c THEN d ELSE RowTo(c.target))
                BY <3>3, <4>2, DrainTypes
            <4> QED BY <3>2, <4>1, <4>2
        <3> QED BY <1>9, <2>1, <3>2, <3>4, <3>5 DEF TypeOK, CallbackOnConnected, tickVars
    <2>3. CASE RowsOf(Handle) = {}
        BY <1>9, <2>1, <2>3 DEF TypeOK, CallbackOnConnected, tickVars
    <2> QED BY <2>2, <2>3
<1>10. ASSUME CallbackOnClosedByPeer PROVE TypeOK'
    <2>1. /\ Handle \in Handles
          /\ callbacks' \in Seq([handle : Handles, status : Statuses])
        BY <1>6, <1>10 DEF CallbackOnClosedByPeer
    <2>2. CASE UNCHANGED <<conns, gns, inbox>>
        BY <1>10, <2>1, <2>2 DEF TypeOK, CallbackOnClosedByPeer, tickVars, logVars
    <2>3. CASE CloseHandle(Handle) /\ conns' = conns \ {RowOf(Handle)}
        <3>1. /\ gns' \in [Handles -> Statuses \cup {"none", "Knocking", "closed"}]
              /\ inbox' \in Seq(Handles)
            BY <2>1, <2>3, CloseTypes
        <3> QED BY <1>10, <2>1, <2>3, <3>1 DEF TypeOK, CallbackOnClosedByPeer, tickVars, logVars
    <2> QED BY <1>10, <2>2, <2>3 DEF CallbackOnClosedByPeer
<1>11. ASSUME CallbackOnProblemDetectedLocally PROVE TypeOK'
    <2>1. callbacks' \in Seq([handle : Handles, status : Statuses])
        BY <1>6, <1>11 DEF CallbackOnProblemDetectedLocally
    <2> QED BY <1>11, <2>1 DEF TypeOK, CallbackOnProblemDetectedLocally, tickVars, logVars
<1>12. ASSUME NEW p \in Peers, NEW k \in AppPackets, AppLookup(p, k) PROVE TypeOK'
    <2>1. submitted' \in Seq([packet : Packets, peer : Peers])
        BY <1>12, SubmitTypes DEF AppLookup, Packets
    <2>2. app' \in Calls \cup {Idle}
        <3>1. CASE RowsTo(p) = {}
            BY <1>12, <3>1 DEF AppLookup, Calls
        <3>2. CASE RowsTo(p) # {}
            <4>1. RowTo(p).row \in Nat
                <5>1. RowTo(p) \in conns
                    BY <3>2, RowToFound
                <5>2. \A c \in conns : c.row \in Nat
                    BY DEF TypeOK, Rows
                <5> QED BY <5>1, <5>2
            <4> QED BY <1>12, <3>2, <4>1 DEF AppLookup, Calls
        <3> QED BY <3>1, <3>2
    <2>3. UNCHANGED <<tableVars, registered, tickVars, gnsVars, sent, dropped>>
        BY <1>12 DEF AppLookup
    <2> QED BY <2>1, <2>2, <2>3 DEF TypeOK, tableVars, tickVars, gnsVars
<1>13. app.step # "idle" => app \in Calls
    BY DEF TypeOK, Idle
<1>14. app' = Idle => app' \in Calls \cup {Idle}
    BY DEF Idle
<1>15. ASSUME AppEstablish PROVE TypeOK'
    <2>1. app \in Calls
        BY <1>13, <1>15 DEF AppEstablish
    <2>2. conns' \subseteq Rows /\ nextRow' \in Nat
        BY <1>15, <2>1, EstablishTypes DEF AppEstablish, Calls
    <2>3. app' \in Calls
        BY <1>15, <2>1 DEF AppEstablish, Calls
    <2> QED BY <1>15, <2>2, <2>3 DEF TypeOK, AppEstablish, tickVars, gnsVars, logVars
<1>16. ASSUME AppQueue PROVE TypeOK'
    <2>1. app \in Calls
        BY <1>13, <1>16 DEF AppQueue
    <2>2. queued' \in [Peers -> Seq(Packets)]
        BY <1>16, <2>1, QueueTypes DEF AppQueue, Calls, Packets
    <2>3. app' \in Calls \cup {Idle}
        BY <1>14, <1>16 DEF AppQueue
    <2> QED BY <1>16, <2>2, <2>3 DEF TypeOK, AppQueue, tickVars, gnsVars, logVars
<1>17. ASSUME AppSend PROVE TypeOK'
    <2>1. app \in Calls
        BY <1>13, <1>17 DEF AppSend
    <2>2. sent' \in Seq([packet : Packets, peer : Peers]) /\ dropped' \subseteq Packets
        <3>1. ASSUME NEW c \in conns, HandToGNS(c, app.packet)
              PROVE  sent' \in Seq([packet : Packets, peer : Peers]) /\ dropped' \subseteq Packets
            BY <2>1, <3>1, HandToGNSTypes DEF Calls, Packets
        <3>2. CASE UNCHANGED <<sent, dropped>>
            BY <3>2 DEF TypeOK
        <3> QED BY <1>17, <3>1, <3>2 DEF AppSend
    <2>3. app' \in Calls \cup {Idle}
        BY <1>14, <1>17 DEF AppSend
    <2> QED BY <1>17, <2>2, <2>3 DEF TypeOK, AppSend, tableVars, tickVars, gnsVars
<1>18. ASSUME NEW p \in Peers, CloseConnectionTo(p) PROVE TypeOK'
    <2>1. RowTo(p).handle \in Handles \cup {NoHandle}
        BY <1>18, RowToFound DEF CloseConnectionTo, TypeOK, Rows
    <2>2. /\ gns' \in [Handles -> Statuses \cup {"none", "Knocking", "closed"}]
          /\ inbox' \in Seq(Handles)
        BY <1>18, <2>1, CloseTypes DEF CloseConnectionTo
    <2> QED BY <1>18, <2>2 DEF TypeOK, CloseConnectionTo, tickVars, logVars
<1>19. ASSUME NEW p \in Peers, PeerRegisters(p) PROVE TypeOK'
    BY <1>19 DEF TypeOK, PeerRegisters, tableVars, tickVars, gnsVars, logVars
<1>20. ASSUME NEW p \in Peers, PeerConnects(p) PROVE TypeOK'
    <2>1. NewHandle \in Handles
        BY <1>20, NewHandleFree DEF PeerConnects
    <2>2. callbacks' \in Seq([handle : Handles, status : Statuses])
        BY <1>20, <2>1, PostTypes DEF PeerConnects, Statuses
    <2> QED BY <1>20, <2>1, <2>2 DEF TypeOK, PeerConnects, tableVars, tickVars, logVars
<1>21. ASSUME NEW h \in Handles, NetworkConnects(h) PROVE TypeOK'
    <2>1. callbacks' \in Seq([handle : Handles, status : Statuses])
        BY <1>21, PostTypes DEF NetworkConnects, Statuses
    <2> QED BY <1>21, <2>1 DEF TypeOK, NetworkConnects, tableVars, tickVars, logVars, Statuses
<1>22. ASSUME NEW h \in Handles, NEW s \in Ends, NetworkEnds(h, s) PROVE TypeOK'
    <2>1. s \in Statuses
        BY DEF Ends, Statuses
    <2>2. callbacks' \in Seq([handle : Handles, status : Statuses])
        BY <1>22, <2>1, PostTypes DEF NetworkEnds
    <2> QED BY <1>22, <2>1, <2>2 DEF TypeOK, NetworkEnds, tableVars, tickVars, logVars
<1>23. ASSUME NEW h \in Handles, MessageArrives(h) PROVE TypeOK'
    BY <1>23 DEF TypeOK, MessageArrives, tableVars, tickVars, logVars
<1>24. CASE UNCHANGED vars
    BY <1>24 DEF TypeOK, vars, tableVars, tickVars, gnsVars, logVars
<1> QED BY <1>1, <1>2, <1>3, <1>4, <1>5, <1>8, <1>9, <1>10, <1>11, <1>12, <1>15, <1>16, <1>17,
           <1>18, <1>19, <1>20, <1>21, <1>22, <1>23, <1>24
        DEF Next, Tick, AppThread, Network, Ends

-----------------------------------------------------------------------------
(* The table and GNS. *)

\* The elements of the queues.
LEMMA CallbackTypes ==
    ASSUME TypeOK
    PROVE  \A i \in 1..Len(callbacks) : /\ callbacks[i] \in [handle : Handles, status : Statuses]
                                        /\ callbacks[i].handle \in Handles
                                        /\ callbacks[i].status \in Statuses
<1>1. callbacks \in Seq([handle : Handles, status : Statuses])
    BY DEF TypeOK
<1>2. \A i \in 1..Len(callbacks) : callbacks[i] \in [handle : Handles, status : Statuses]
    BY <1>1, ElementOfSeq
<1> QED BY <1>2

\* The messages are about handles.
LEMMA MessageTypes ==
    ASSUME TypeOK
    PROVE  /\ \A i \in 1..Len(inbox) : inbox[i] \in Handles
           /\ \A i \in 1..Len(batch) : batch[i] \in Handles
BY ElementOfSeq DEF TypeOK

\* The queue of callbacks after one was posted ...
LEMMA Posted ==
    ASSUME TypeOK, NEW h \in Handles, NEW s \in Statuses, Post(h, s)
    PROVE  /\ Len(callbacks) \in Nat
           /\ Len(callbacks') = Len(callbacks) + 1
           /\ callbacks'[Len(callbacks) + 1] = [handle |-> h, status |-> s]
           /\ \A i \in 1..Len(callbacks) : callbacks'[i] = callbacks[i]
<1> DEFINE r == [handle |-> h, status |-> s]
<1>1. r \in [handle : Handles, status : Statuses]
    OBVIOUS
<1>2. callbacks \in Seq([handle : Handles, status : Statuses]) /\ callbacks' = Append(callbacks, r)
    BY DEF TypeOK, Post
<1> HIDE DEF r
<1>3. /\ Len(callbacks) \in Nat
      /\ Len(callbacks') = Len(callbacks) + 1
      /\ callbacks'[Len(callbacks) + 1] = r
      /\ \A i \in 1..Len(callbacks) : callbacks'[i] = callbacks[i]
    BY <1>1, <1>2, AppendProperties, LenProperties
<1> QED BY <1>3 DEF r

\* ... and after one was delivered.
LEMMA Delivered ==
    ASSUME TypeOK, NEW s, Delivers(s), callbacks' = Tail(callbacks)
    PROVE  /\ Len(callbacks) \in Nat /\ Len(callbacks) >= 1
           /\ Handle \in Handles
           /\ callbacks[1] = [handle |-> Handle, status |-> s]
           /\ Len(callbacks') = Len(callbacks) - 1
           /\ \A i \in 1..Len(callbacks') : callbacks'[i] = callbacks[i + 1]
<1>1. callbacks \in Seq([handle : Handles, status : Statuses]) /\ callbacks # <<>>
    BY DEF TypeOK, Delivers
<1>2. /\ Head(callbacks) \in [handle : Handles, status : Statuses]
      /\ Len(Tail(callbacks)) = Len(callbacks) - 1
      /\ \A i \in 1..Len(Tail(callbacks)) : Tail(callbacks)[i] = callbacks[i + 1]
    BY <1>1, HeadTailProperties
<1>4. Len(callbacks) \in Nat /\ Len(callbacks) # 0
    BY <1>1, EmptySeq, LenProperties
<1>5. Head(callbacks) = callbacks[1]
    BY <1>1
<1>3. Head(callbacks).status = s
    BY DEF Delivers
<1> QED BY <1>2, <1>3, <1>4, <1>5 DEF Handle

\* Initially the table is empty, or has one row that has not been dialled.
LEMMA InitTable == Init => TableInv
<1> SUFFICES ASSUME Init PROVE TableInv
    OBVIOUS
<1>1. TypeOK
    BY InitTypes
<1>2. callbacks = <<>> /\ inbox = <<>> /\ batch = <<>> /\ Len(callbacks) = 0 /\ Len(inbox) = 0 /\ Len(batch) = 0
    BY DEF Init
<1>3. \A c \in conns : c.handle = NoHandle /\ c.row < nextRow /\ \A d \in conns : c = d
    BY DEF Init
<1>4. \A h \in Handles : gns[h] = "none"
    BY DEF Init
<1>5. EventsFindTheirRow
    BY <1>2 DEF EventsFindTheirRow, CallbacksFindTheirRow, UnreadHasRow
<1>6. TableMatchesGns
    BY <1>1, <1>3, <1>4 DEF TableMatchesGns, HandlesUnique, NoLostHandle, NoStaleRow
<1>7. RowsInv /\ DialledInv /\ CallbacksInv
    BY <1>2, <1>3, <1>4 DEF RowsInv, DialledInv, CallbacksInv
<1> QED BY <1>5, <1>6, <1>7 DEF TableInv

\* A step that leaves table, GNS and messages alone.
LEMMA TableUntouched ==
    ASSUME TableInv, TypeOK',
           UNCHANGED <<conns, nextRow, gns, peer, callbacks, inbox, batch, tpc, tried>>
    PROVE  TableInv'
<1>1. HandlesUnique' /\ NoLostHandle' /\ NoStaleRow'
    BY DEF TableInv, TableMatchesGns, HandlesUnique, NoLostHandle, NoStaleRow, RowsOf
<1>2. CallbacksFindTheirRow' /\ UnreadHasRow'
    BY DEF TableInv, EventsFindTheirRow, CallbacksFindTheirRow, UnreadHasRow, RowsOf
<1>3. RowsInv' /\ DialledInv' /\ CallbacksInv'
    BY DEF TableInv, RowsInv, DialledInv, CallbacksInv
<1> QED BY <1>1, <1>2, <1>3 DEF TableInv, TableMatchesGns, EventsFindTheirRow

\* EstablishConnectionTo adds a row that has no handle.
LEMMA TableEstablish ==
    ASSUME TableInv, TypeOK', NEW p \in Peers, EstablishConnectionTo(p),
           UNCHANGED <<gns, peer, callbacks, inbox, tpc, tried>>,
           \A i \in 1..Len(batch') : \E j \in 1..Len(batch) : batch'[i] = batch[j]
    PROVE  TableInv'
<1> DEFINE r == NewRow(p, NoHandle, "PreConnecting")
<1> USE InterlinkAssumption
<1>1. TypeOK
    BY DEF TableInv, TableMatchesGns
<1>2. r.handle = NoHandle /\ r.row = nextRow /\ NoHandle \notin Handles /\ nextRow \in Nat
    BY <1>1 DEF NewRow, TypeOK, Handles
<1>3. \/ conns' = conns /\ nextRow' = nextRow
      \/ conns' = conns \cup {r} /\ nextRow' = nextRow + 1
    BY DEF EstablishConnectionTo
<1> HIDE DEF r
<1>4. \A c \in conns : c \in Rows /\ c.row \in Nat
    BY <1>1 DEF TypeOK, Rows
<1>5. \A h \in Handles : RowsOf(h)' = RowsOf(h)
    BY <1>2, <1>3 DEF RowsOf
<1>6. HandlesUnique' /\ NoLostHandle' /\ NoStaleRow'
    BY <1>2, <1>3, <1>5 DEF TableInv, TableMatchesGns, HandlesUnique, NoLostHandle, NoStaleRow
<1>7. CallbacksFindTheirRow'
    <2>1. \A i \in 1..Len(callbacks) : callbacks[i].handle \in Handles
        BY <1>1, CallbackTypes
    <2> QED BY <1>5, <2>1 DEF TableInv, EventsFindTheirRow, CallbacksFindTheirRow
<1>8. UnreadHasRow'
    <2>1. /\ \A i \in 1..Len(inbox) : inbox[i] \in Handles
          /\ \A i \in 1..Len(batch) : batch[i] \in Handles
        BY <1>1, MessageTypes
    <2>2. ASSUME NEW i \in 1..Len(inbox')
          PROVE  RowsOf(inbox[i])' # {} \/ gns'[inbox'[i]] = "ProblemDetectedLocally"
        <3>1. RowsOf(inbox[i]) # {} \/ gns[inbox[i]] = "ProblemDetectedLocally"
            BY DEF TableInv, EventsFindTheirRow, UnreadHasRow
        <3> QED BY <1>5, <2>1, <3>1
    <2>3. ASSUME NEW i \in 1..Len(batch')
          PROVE  RowsOf(batch[i])' # {} \/ gns'[batch'[i]] \in {"ProblemDetectedLocally", "closed"}
        <3>1. PICK j \in 1..Len(batch) : batch'[i] = batch[j]
            OBVIOUS
        <3>2. RowsOf(batch[j]) # {} \/ gns[batch[j]] \in {"ProblemDetectedLocally", "closed"}
            BY DEF TableInv, EventsFindTheirRow, UnreadHasRow
        <3>3. PICK h \in Handles : h = batch[j]
            BY <2>1
        <3>4. RowsOf(h)' = RowsOf(h) /\ batch'[i] = h
            BY <1>5, <3>1, <3>3
        <3> QED BY <3>2, <3>3, <3>4 DEF RowsOf
    <2> QED BY <2>2, <2>3 DEF UnreadHasRow
<1>9. RowsInv'
    BY <1>2, <1>3, <1>4 DEF TableInv, RowsInv
<1>10. DialledInv' /\ CallbacksInv'
    BY <1>2, <1>3 DEF TableInv, DialledInv, CallbacksInv
<1> QED BY <1>6, <1>7, <1>8, <1>9, <1>10 DEF TableInv, TableMatchesGns, EventsFindTheirRow

\* GNS moves a handle on and posts the status change: a peer dials, a connection comes up
\* or a connection ends.
LEMMA TablePost ==
    ASSUME TableInv, TypeOK', NEW h \in Handles, NEW s \in Statuses, NEW g, Post(h, s),
           gns' = [gns EXCEPT ![h] = g],
           \A x \in Handles : x # h => peer'[x] = peer[x],
           gns[h] # "none" => peer'[h] = peer[h],
           peer'[h] \in Peers,
           UNCHANGED <<conns, nextRow, inbox, batch, tpc, tried>>,
           \/ gns[h] = "none" /\ g = "Knocking" /\ s = "Connecting"
           \/ gns[h] = "Connecting" /\ g = "Connected" /\ s = "Connected"
           \/ gns[h] \in Up /\ g = s /\ s = "ProblemDetectedLocally"
           \/ gns[h] = "Connected" /\ g = s /\ s = "ClosedByPeer"
    PROVE  TableInv'
<1> DEFINE n == Len(callbacks)
<1>1. TypeOK
    BY DEF TableInv, TableMatchesGns
<1>2. /\ n \in Nat
      /\ Len(callbacks') = n + 1
      /\ callbacks'[n + 1] = [handle |-> h, status |-> s]
      /\ \A i \in 1..n : callbacks'[i] = callbacks[i]
    BY <1>1, Posted
<1>3. \A i \in 1..n : callbacks[i].handle \in Handles
    BY <1>1, CallbackTypes
<1> HIDE DEF n
<1>4. \A i \in 1..(n + 1) : i \in 1..n \/ i = n + 1
    BY <1>2
<1>5. /\ gns'[h] = g
      /\ \A x \in Handles : x # h => gns'[x] = gns[x]
    BY <1>1 DEF TypeOK
<1>6. \A x : RowsOf(x)' = RowsOf(x)
    BY DEF RowsOf
<1>7. gns[h] \in {"Connecting", "Connected"} => RowsOf(h) # {}
    BY DEF TableInv, TableMatchesGns, NoLostHandle
<1>8. \A c \in conns : c.handle = NoHandle \/ c.handle \in Handles
    BY <1>1 DEF TypeOK, Rows
<1>9. RowsInv'
    BY <1>5, <1>8 DEF TableInv, RowsInv, Up
<1>10. HandlesUnique' /\ NoLostHandle'
    BY <1>5, <1>6, <1>7 DEF TableInv, TableMatchesGns, HandlesUnique, NoLostHandle
<1>11. NoStaleRow'
    <2> SUFFICES ASSUME NEW c \in conns, c.handle # NoHandle,
                        gns'[c.handle] \notin {"Connecting", "Connected"}
                 PROVE  \E i \in 1..(n + 1) : callbacks'[i] = [handle |-> c.handle,
                                                              status |-> gns'[c.handle]]
        BY <1>2 DEF NoStaleRow
    <2>1. CASE c.handle = h
        <3>1. gns'[h] = s
            BY <1>5, <2>1 DEF TableInv, RowsInv
        <3>2. n + 1 \in 1..(n + 1)
            BY <1>2
        <3> QED BY <1>2, <2>1, <3>1, <3>2
    <2>2. CASE c.handle # h
        <3>1. PICK i \in 1..n : callbacks[i] = [handle |-> c.handle, status |-> gns[c.handle]]
            BY <1>5, <1>8, <2>2 DEF TableInv, TableMatchesGns, NoStaleRow, n
        <3>2. i \in 1..(n + 1)
            BY <1>2
        <3> QED BY <1>2, <1>5, <1>8, <2>2, <3>1, <3>2
    <2> QED BY <2>1, <2>2
<1>12. CallbacksFindTheirRow'
    <2> SUFFICES ASSUME NEW i \in 1..(n + 1),
                        callbacks'[i].status \in {"Connected", "ClosedByPeer"},
                        gns'[callbacks'[i].handle] # "closed",
                        RowsOf(callbacks'[i].handle) = {}
                 PROVE  \E j \in 1..(i - 1) : callbacks'[j] = [handle |-> callbacks'[i].handle,
                                                              status |-> "Connecting"]
        BY <1>2, <1>6 DEF CallbacksFindTheirRow
    <2>1. CASE i = n + 1
        <3>1. gns[h] \in {"Connecting", "Connected"}
            BY <1>2, <2>1
        <3> QED BY <1>2, <1>7, <2>1, <3>1
    <2>2. CASE i \in 1..n
        <3>1. callbacks'[i] = callbacks[i]
            BY <1>2, <2>2
        <3>2. gns[callbacks[i].handle] # "closed"
            BY <1>3, <1>5, <2>2, <3>1 DEF Up
        <3>3. PICK j \in 1..(i - 1) : callbacks[j] = [handle |-> callbacks[i].handle,
                                                     status |-> "Connecting"]
            BY <2>2, <3>1, <3>2 DEF TableInv, EventsFindTheirRow, CallbacksFindTheirRow, n
        <3>4. j \in 1..n
            BY <1>2, <2>2
        <3> QED BY <1>2, <3>1, <3>3, <3>4
    <2> QED BY <1>4, <2>1, <2>2
<1>13. UnreadHasRow'
    <2>1. /\ \A i \in 1..Len(inbox) : inbox[i] \in Handles
          /\ \A i \in 1..Len(batch) : batch[i] \in Handles
        BY <1>1, MessageTypes
    <2>2. gns[h] \in {"ProblemDetectedLocally", "closed"} => gns'[h] = gns[h]
        BY <1>5 DEF Up
    <2> QED BY <1>5, <1>6, <2>1, <2>2 DEF TableInv, EventsFindTheirRow, UnreadHasRow, Up
<1>14. DialledInv'
    <2> SUFFICES ASSUME NEW c \in conns, c.state = "PreConnecting", c.handle # NoHandle
                 PROVE  /\ \E i \in 1..(n + 1) : callbacks'[i] = [handle |-> c.handle,
                                                                 status |-> "Connecting"]
                        /\ tpc = "generate" => c.row \in tried
        BY <1>2 DEF DialledInv
    <2>1. PICK i \in 1..n : callbacks[i] = [handle |-> c.handle, status |-> "Connecting"]
        BY DEF TableInv, DialledInv, n
    <2>2. i \in 1..(n + 1)
        BY <1>2
    <2> QED BY <1>2, <2>1, <2>2 DEF TableInv, DialledInv
<1>15. CallbacksInv'
    <2>1. \A i \in 1..n : gns[callbacks[i].handle] # "none"
        BY DEF TableInv, CallbacksInv, n
    <2>2. \A i \in 1..n : callbacks[i].status \in Ends => callbacks[i].handle # h
        BY <2>1 DEF TableInv, CallbacksInv, n, Ends, Up
    <2>3. \A i \in 1..n : gns'[callbacks[i].handle] # "none"
        BY <1>3, <1>5, <2>1
    <2>4. \A i \in 1..n : callbacks[i].status \in Ends =>
              gns'[callbacks[i].handle] \in {callbacks[i].status, "closed"}
        BY <1>3, <1>5, <2>2 DEF TableInv, CallbacksInv, n
    <2>5. gns'[h] # "none" /\ (s \in Ends => gns'[h] \in {s, "closed"})
        BY <1>5 DEF Ends
    <2>6. \A i, j \in 1..n :
              i < j /\ callbacks[i].status \in Ends => callbacks[j].handle # callbacks[i].handle
        BY DEF TableInv, CallbacksInv, n
    <2>7. \A i \in 1..(n + 1) :
              /\ gns'[callbacks'[i].handle] # "none"
              /\ callbacks'[i].status \in Ends =>
                     gns'[callbacks'[i].handle] \in {callbacks'[i].status, "closed"}
        BY <1>2, <1>4, <2>3, <2>4, <2>5
    <2>8. ASSUME NEW i \in 1..(n + 1), NEW j \in 1..(n + 1), i < j, callbacks'[i].status \in Ends
          PROVE  callbacks'[j].handle # callbacks'[i].handle
        <3>1. i \in 1..n
            BY <1>2, <2>8
        <3>2. CASE j \in 1..n
            BY <1>2, <2>6, <2>8, <3>1, <3>2
        <3>3. CASE j = n + 1
            BY <1>2, <2>2, <2>8, <3>1, <3>3
        <3> QED BY <1>4, <3>2, <3>3
    <2> QED BY <1>2, <2>7, <2>8 DEF CallbacksInv
<1> QED BY <1>9, <1>10, <1>11, <1>12, <1>13, <1>14, <1>15
        DEF TableInv, TableMatchesGns, EventsFindTheirRow

\* Some row of a table has the handle.
HasRow(rows, h) == \E c \in rows : c.handle = h

\* The delivery of a callback touches the rows and the status of its handle only, and
\* leaves the handle with a row, or closed, or without a row it needs.
LEMMA TableDeliver ==
    ASSUME TableInv, TypeOK', RowsInv', HandlesUnique', NEW s \in Statuses, Delivers(s),
           callbacks' = Tail(callbacks),
           UNCHANGED <<batch, tpc, tried>>,
           NEW H \in Handles, H = Handle,
           \A x \in Handles : x # H => gns'[x] = gns[x],
           \A x \in Handles : x # H => (HasRow(conns', x) <=> HasRow(conns, x)),
           \A c \in conns' : c.handle \notin {NoHandle, H} => c \in conns,
           \A c \in conns' : c.handle = H => c.state # "PreConnecting",
           \A i \in 1..Len(inbox') : \E j \in 1..Len(inbox) : inbox'[i] = inbox[j],
           \/ /\ HasRow(conns, H) /\ HasRow(conns', H)
              /\ gns'[H] = gns[H] /\ s \notin Ends
           \/ /\ HasRow(conns', H) /\ s = "Connecting"
              /\ gns[H] = "Knocking" /\ gns'[H] = "Connecting"
           \/ /\ ~HasRow(conns', H) /\ gns'[H] = "closed"
              /\ \A i \in 1..Len(inbox') : inbox'[i] # H
           \/ /\ ~HasRow(conns', H) /\ gns'[H] = gns[H]
              /\ s # "Connecting"
              /\ HasRow(conns, H) => s = "ProblemDetectedLocally"
    PROVE  TableInv'
<1> DEFINE n == Len(callbacks)
<1>1. TypeOK
    BY DEF TableInv, TableMatchesGns
<1>2. /\ n \in Nat /\ n >= 1
      /\ callbacks[1] = [handle |-> H, status |-> s]
      /\ Len(callbacks') = n - 1
      /\ \A i \in 1..(n - 1) : callbacks'[i] = callbacks[i + 1]
    BY <1>1, Delivered
<1>3. \A i \in 1..n : callbacks[i].handle \in Handles /\ callbacks[i].status \in Statuses
    BY <1>1, CallbackTypes
<1> DEFINE Had(x) == HasRow(conns, x)
           Has(x) == HasRow(conns', x)
<1>r. \A x : RowsOf(x) # {} <=> Had(x)
    BY DEF RowsOf, HasRow
<1>4. /\ H \in Handles
      /\ callbacks[1].handle = H /\ callbacks[1].status = s
    BY <1>2
<1>5. ASSUME NEW i \in 1..n, NEW j \in 1..n, i < j, callbacks[i].status \in Ends
      PROVE  callbacks[j].handle # callbacks[i].handle
    BY <1>5 DEF TableInv, CallbacksInv, n
<1>6. \A i \in 1..n : /\ gns[callbacks[i].handle] # "none"
                      /\ callbacks[i].status \in Ends =>
                             gns[callbacks[i].handle] \in {callbacks[i].status, "closed"}
    BY DEF TableInv, CallbacksInv, n
<1>7. \A i \in 1..(n - 1) : i \in 1..n /\ i + 1 \in 1..n /\ i + 1 # 1
    BY <1>2
<1>8. 1 \in 1..n
    BY <1>2
<1>9. s \in Ends => gns[H] \in {s, "closed"}
    BY <1>4, <1>6, <1>8
<1>10. gns[H] \in {"Connecting", "Connected"} => Had(H)
    BY <1>4, <1>r DEF TableInv, TableMatchesGns, NoLostHandle
<1>11. Had(H) => gns[H] \notin {"none", "Knocking", "closed"}
    <2> SUFFICES ASSUME Had(H) PROVE gns[H] \notin {"none", "Knocking", "closed"}
        OBVIOUS
    <2>1. PICK c \in conns : c.handle = H
        BY DEF HasRow
    <2>2. H # NoHandle
        BY <1>4, InterlinkAssumption DEF Handles
    <2> QED BY <2>1, <2>2 DEF TableInv, RowsInv
<1> HIDE DEF n
<1>12. \/ Had(H) /\ Has(H) /\ gns'[H] = gns[H] /\ s \notin Ends
       \/ Has(H) /\ s = "Connecting" /\ gns[H] = "Knocking" /\ gns'[H] = "Connecting"
       \/ ~Has(H) /\ gns'[H] = "closed" /\ \A i \in 1..Len(inbox') : inbox'[i] # H
       \/ /\ ~Has(H) /\ gns'[H] = gns[H] /\ s # "Connecting"
          /\ Had(H) => s = "ProblemDetectedLocally"
    OBVIOUS
<1>13. \A x \in Handles : x # H => gns'[x] = gns[x] /\ (Has(x) <=> Had(x))
    OBVIOUS
<1>14. NoLostHandle'
    <2> SUFFICES ASSUME NEW x \in Handles, gns'[x] \in {"Connecting", "Connected"}
                 PROVE  Has(x)
        BY DEF NoLostHandle, RowsOf, HasRow
    <2>1. CASE x # H
        BY <1>r, <1>13, <2>1 DEF TableInv, TableMatchesGns, NoLostHandle
    <2>2. CASE x = H
        <3>1. Has(H)
            BY <1>9, <1>10, <1>12, <2>2 DEF Ends
        <3> QED BY <2>2, <3>1
    <2> QED BY <2>1, <2>2
<1>15. ASSUME NEW i \in 1..n, callbacks[i].handle # H \/ callbacks[i].status # s
       PROVE  \E j \in 1..(n - 1) : callbacks'[j] = callbacks[i]
    <2>1. i # 1
        BY <1>4, <1>15
    <2>2. i - 1 \in 1..(n - 1) /\ i - 1 + 1 = i
        BY <1>2, <2>1
    <2> QED BY <1>2, <2>2
<1>16. NoStaleRow'
    <2> SUFFICES ASSUME NEW c \in conns', c.handle # NoHandle,
                        gns'[c.handle] \notin {"Connecting", "Connected"}
                 PROVE  \E i \in 1..(n - 1) : callbacks'[i] = [handle |-> c.handle,
                                                              status |-> gns'[c.handle]]
        BY <1>2 DEF NoStaleRow
    <2>1. c.handle \in Handles
        BY DEF TypeOK, Rows
    <2>2. CASE c.handle # H
        <3>1. c \in conns /\ gns'[c.handle] = gns[c.handle]
            BY <1>13, <2>1, <2>2
        <3>2. PICK i \in 1..n : callbacks[i] = [handle |-> c.handle, status |-> gns[c.handle]]
            BY <3>1 DEF TableInv, TableMatchesGns, NoStaleRow, n
        <3>3. callbacks[i].handle # H
            BY <2>2, <3>2
        <3>4. PICK j \in 1..(n - 1) : callbacks'[j] = callbacks[i]
            BY <1>15, <3>3
        <3> QED BY <3>1, <3>2, <3>4
    <2>3. CASE c.handle = H
        <3>1. Has(H)
            BY <2>3 DEF HasRow
        <3>2. Had(H) /\ gns'[H] = gns[H] /\ s \notin Ends
            BY <1>12, <2>3, <3>1
        <3>3. PICK d \in conns : d.handle = H
            BY <3>2 DEF HasRow
        <3>4. PICK i \in 1..n : callbacks[i] = [handle |-> H, status |-> gns[H]]
            BY <2>3, <3>2, <3>3 DEF TableInv, TableMatchesGns, NoStaleRow, n
        <3>5. callbacks[i].status # s
            BY <2>3, <3>2, <3>4 DEF Statuses, Ends
        <3>6. PICK j \in 1..(n - 1) : callbacks'[j] = callbacks[i]
            BY <1>15, <3>5
        <3> QED BY <2>3, <3>2, <3>4, <3>6
    <2> QED BY <2>2, <2>3
<1>17. CallbacksFindTheirRow'
    <2> SUFFICES ASSUME NEW k \in 1..(n - 1),
                        callbacks'[k].status \in {"Connected", "ClosedByPeer"},
                        gns'[callbacks'[k].handle] # "closed",
                        ~Has(callbacks'[k].handle)
                 PROVE  \E j \in 1..(k - 1) : callbacks'[j] = [handle |-> callbacks'[k].handle,
                                                              status |-> "Connecting"]
        BY <1>2 DEF CallbacksFindTheirRow, RowsOf, HasRow
    <2> DEFINE i == k + 1
               x == callbacks[i].handle
    <2>1. /\ i \in 1..n /\ i # 1
          /\ callbacks'[k] = callbacks[i]
          /\ x \in Handles
        BY <1>2, <1>3, <1>7
    <2>2. gns[x] # "closed" /\ ~Had(x)
        <3>1. CASE x # H
            BY <1>13, <2>1, <3>1
        <3>2. CASE x = H
            <4>1. ~Has(H) /\ gns'[H] # "closed"
                BY <2>1, <3>2
            <4>2. gns'[H] = gns[H] /\ (Had(H) => s = "ProblemDetectedLocally")
                BY <1>12, <4>1
            <4>3. s \notin Ends
                BY <1>4, <1>5, <1>8, <2>1, <3>2
            <4> QED BY <3>2, <4>1, <4>2, <4>3 DEF Ends
        <3> QED BY <3>1, <3>2
    <2>3. PICK j \in 1..(i - 1) : callbacks[j] = [handle |-> x, status |-> "Connecting"]
        BY <1>r, <2>1, <2>2 DEF TableInv, EventsFindTheirRow, CallbacksFindTheirRow, n
    <2>4. j # 1
        <3> SUFFICES ASSUME j = 1 PROVE FALSE
            OBVIOUS
        <3>1. x = H /\ s = "Connecting"
            BY <1>4, <2>3
        <3>2. ~Has(H) /\ gns'[H] # "closed"
            BY <2>1, <3>1
        <3> QED BY <1>12, <3>1, <3>2
    <2>5. j - 1 \in 1..(k - 1) /\ j - 1 \in 1..(n - 1) /\ j - 1 + 1 = j
        BY <1>2, <2>1, <2>4
    <2>6. callbacks'[j - 1] = callbacks[j]
        BY <1>2, <2>5
    <2>7. callbacks'[j - 1] = [handle |-> callbacks'[k].handle, status |-> "Connecting"]
        BY <2>1, <2>3, <2>6
    <2> QED BY <2>5, <2>7
<1>18. UnreadHasRow'
    <2>1. /\ \A i \in 1..Len(inbox) : inbox[i] \in Handles
          /\ \A i \in 1..Len(batch) : batch[i] \in Handles
        BY <1>1, MessageTypes
    <2>2. ASSUME NEW x \in Handles, Had(x) \/ gns[x] \in {"ProblemDetectedLocally", "closed"}
          PROVE  Has(x) \/ gns'[x] \in {"ProblemDetectedLocally", "closed"}
        <3>1. CASE x # H
            BY <1>13, <2>2, <3>1
        <3>2. CASE x = H
            BY <1>9, <1>12, <2>2, <3>2 DEF Ends
        <3> QED BY <3>1, <3>2
    <2>3. ASSUME NEW x \in Handles, Had(x) \/ gns[x] = "ProblemDetectedLocally",
                 gns'[H] = "closed" /\ ~Has(H) => x # H
          PROVE  Has(x) \/ gns'[x] = "ProblemDetectedLocally"
        <3>1. CASE x # H
            BY <1>13, <2>3, <3>1
        <3>2. CASE x = H
            BY <1>9, <1>11, <1>12, <2>3, <3>2 DEF Ends
        <3> QED BY <3>1, <3>2
    <2>4. ASSUME NEW i \in 1..Len(inbox')
          PROVE  Has(inbox'[i]) \/ gns'[inbox'[i]] = "ProblemDetectedLocally"
        <3>1. PICK j \in 1..Len(inbox) : inbox'[i] = inbox[j]
            BY <2>4
        <3>2. Had(inbox[j]) \/ gns[inbox[j]] = "ProblemDetectedLocally"
            BY <1>r DEF TableInv, EventsFindTheirRow, UnreadHasRow
        <3>3. gns'[H] = "closed" /\ ~Has(H) => inbox[j] # H
            <4> SUFFICES ASSUME gns'[H] = "closed", ~Has(H), inbox[j] = H PROVE FALSE
                OBVIOUS
            <4>1. gns[H] # "closed"
                BY <1>11, <3>2
            <4> QED BY <1>12, <3>1, <4>1
        <3> QED BY <2>1, <2>3, <3>1, <3>2, <3>3
    <2>5. ASSUME NEW i \in 1..Len(batch)
          PROVE  Has(batch[i]) \/ gns'[batch[i]] \in {"ProblemDetectedLocally", "closed"}
        BY <1>r, <2>1, <2>2 DEF TableInv, EventsFindTheirRow, UnreadHasRow
    <2> QED BY <2>4, <2>5 DEF UnreadHasRow, RowsOf, HasRow
<1>19. DialledInv'
    <2> SUFFICES ASSUME NEW c \in conns', c.state = "PreConnecting", c.handle # NoHandle
                 PROVE  /\ \E i \in 1..(n - 1) : callbacks'[i] = [handle |-> c.handle,
                                                                 status |-> "Connecting"]
                        /\ tpc = "generate" => c.row \in tried
        BY <1>2 DEF DialledInv
    <2>1. c.handle # H /\ c \in conns
        OBVIOUS
    <2>2. PICK i \in 1..n : callbacks[i] = [handle |-> c.handle, status |-> "Connecting"]
        BY <2>1 DEF TableInv, DialledInv, n
    <2>3. callbacks[i].handle # H
        BY <2>1, <2>2
    <2>4. PICK j \in 1..(n - 1) : callbacks'[j] = callbacks[i]
        BY <1>15, <2>3
    <2> QED BY <2>1, <2>2, <2>4 DEF TableInv, DialledInv
<1>20. CallbacksInv'
    <2>1. gns'[H] # "none" /\ \A t \in Ends : gns[H] \in {t, "closed"} => gns'[H] \in {t, "closed"}
        BY <1>4, <1>6, <1>8, <1>12 DEF Ends
    <2>2. ASSUME NEW k \in 1..(n - 1)
          PROVE  /\ gns'[callbacks'[k].handle] # "none"
                 /\ callbacks'[k].status \in Ends =>
                        gns'[callbacks'[k].handle] \in {callbacks'[k].status, "closed"}
        BY <1>2, <1>3, <1>6, <1>7, <1>13, <2>1
    <2>3. ASSUME NEW i \in 1..(n - 1), NEW j \in 1..(n - 1), i < j, callbacks'[i].status \in Ends
          PROVE  callbacks'[j].handle # callbacks'[i].handle
        <3>1. i + 1 < j + 1
            BY <2>3
        <3> QED BY <1>2, <1>5, <1>7, <2>3, <3>1
    <2> QED BY <1>2, <2>2, <2>3 DEF CallbacksInv
<1> QED BY <1>14, <1>16, <1>17, <1>18, <1>19, <1>20
        DEF TableInv, TableMatchesGns, EventsFindTheirRow

\* Closing a handle closes that one only and leaves the unread messages of the others.
LEMMA Closed ==
    ASSUME TypeOK, NEW h, CloseHandle(h)
    PROVE  /\ h \in Handles => gns'[h] = "closed"
           /\ \A x \in Handles : x # h => gns'[x] = gns[x]
           /\ \A i \in 1..Len(inbox') : inbox'[i] # h /\ \E j \in 1..Len(inbox) : inbox'[i] = inbox[j]
<1>1. \A i \in 1..Len(inbox') : inbox'[i] \in Handles \ {h} /\ \E j \in 1..Len(inbox) : inbox'[i] = inbox[j]
    BY UnreadOf DEF TypeOK, CloseHandle
<1>2. NoHandle \notin Handles
    BY InterlinkAssumption DEF Handles
<1> QED BY <1>1, <1>2 DEF CloseHandle, TypeOK

\* A callback that moves a row on.
LEMMA TableKeepsRow ==
    ASSUME TableInv, TypeOK', NEW s \in {"Connecting", "Connected"}, Delivers(s),
           callbacks' = Tail(callbacks), RowsOf(Handle) # {},
           Replace(RowOf(Handle), [RowOf(Handle) EXCEPT !.state = s]),
           UNCHANGED <<nextRow, gns, peer, inbox, batch, tpc, tried>>
    PROVE  TableInv'
<1>1. TypeOK
    BY DEF TableInv, TableMatchesGns
<1>2. PICK H \in Handles : H = Handle
    BY <1>1, Delivered
<1>3. PICK c \in conns : c = RowOf(Handle) /\ c.handle = H
    BY <1>1, <1>2, RowOfFound
<1> DEFINE d == [c EXCEPT !.state = s]
<1>4. conns' = (conns \ {c}) \cup {d}
    BY <1>3 DEF Replace
<1>5. c \in Rows
    BY <1>1 DEF TypeOK
<1>6. d.row = c.row /\ d.handle = H /\ d.target = c.target /\ d.state = s
    BY <1>3, <1>5 DEF Rows
<1> HIDE DEF d
<1>7. HandlesUnique'
    BY <1>3, <1>4, <1>6 DEF TableInv, TableMatchesGns, HandlesUnique
<1>8. RowsInv'
    BY <1>3, <1>4, <1>6 DEF TableInv, RowsInv
<1>9. H # NoHandle
    BY InterlinkAssumption DEF Handles
<1>10. \A x \in Handles : HasRow(conns', x) <=> HasRow(conns, x)
    BY <1>3, <1>4, <1>6 DEF HasRow
<1>11. HasRow(conns, H)
    BY <1>3 DEF HasRow
<1>12. \A e \in conns' : /\ e.handle \notin {NoHandle, H} => e \in conns
                         /\ e.handle = H => e.state # "PreConnecting"
    BY <1>3, <1>4, <1>6, <1>9 DEF TableInv, TableMatchesGns, HandlesUnique
<1>13. s \in Statuses /\ s \notin Ends
    BY DEF Statuses, Ends
<1>14. /\ \A i \in 1..Len(inbox') : \E j \in 1..Len(inbox) : inbox'[i] = inbox[j]
       /\ \A x \in Handles : gns'[x] = gns[x]
    OBVIOUS
<1>15. HasRow(conns', H)
    BY <1>10, <1>11
<1> QED BY <1>2, <1>7, <1>8, <1>10, <1>11, <1>12, <1>13, <1>14, <1>15, TableDeliver

\* A callback about a peer that dialled, which is accepted and given a row.
LEMMA TableAccepts ==
    ASSUME TableInv, TypeOK', Delivers("Connecting"),
           callbacks' = Tail(callbacks), RowsOf(Handle) = {}, gns[Handle] = "Knocking",
           gns' = [gns EXCEPT ![Handle] = "Connecting"],
           conns' = conns \cup {NewRow(peer[Handle], Handle, "Connecting")},
           nextRow' = nextRow + 1,
           UNCHANGED <<peer, inbox, batch, tpc, tried>>
    PROVE  TableInv'
<1>1. TypeOK
    BY DEF TableInv, TableMatchesGns
<1>2. PICK H \in Handles : H = Handle
    BY <1>1, Delivered
<1>3. PICK d : d = NewRow(peer[H], H, "Connecting")
    OBVIOUS
<1>4. conns' = conns \cup {d}
    BY <1>2, <1>3
<1>5. d.row = nextRow /\ d.handle = H /\ d.target = peer[H] /\ d.state = "Connecting"
    BY <1>3 DEF NewRow
<1>6. \A c \in conns : c.handle # H
    BY <1>2 DEF RowsOf
<1>7. gns'[H] = "Connecting" /\ \A x \in Handles : x # H => gns'[x] = gns[x]
    BY <1>1, <1>2 DEF TypeOK
<1>8. \A c \in conns : c.row \in Nat /\ c.handle \in Handles \cup {NoHandle}
    BY <1>1 DEF TypeOK, Rows
<1>9. HandlesUnique'
    BY <1>4, <1>5, <1>6 DEF TableInv, TableMatchesGns, HandlesUnique
<1>10. RowsInv'
    <2>1. peer[H] \in Peers /\ nextRow \in Nat
        BY <1>1, <1>2 DEF TableInv, RowsInv, TypeOK
    <2>2. \A c \in conns' : c.row < nextRow'
        BY <1>4, <1>5, <1>8, <2>1 DEF TableInv, RowsInv
    <2>3. \A b, c \in conns' : b.row = c.row => b = c
        BY <1>4, <1>5, <1>8, <2>1 DEF TableInv, RowsInv
    <2>4. \A c \in conns' : c.handle # NoHandle =>
              /\ gns'[c.handle] \notin {"none", "Knocking", "closed"}
              /\ peer'[c.handle] = c.target
        BY <1>4, <1>5, <1>6, <1>7, <1>8 DEF TableInv, RowsInv
    <2>5. \A h \in Handles : gns'[h] # "none" => peer'[h] \in Peers
        BY <1>7, <2>1 DEF TableInv, RowsInv
    <2> QED BY <2>2, <2>3, <2>4, <2>5 DEF RowsInv
<1>11. \A x \in Handles : x # H => (HasRow(conns', x) <=> HasRow(conns, x))
    BY <1>4, <1>5 DEF HasRow
<1>12. HasRow(conns', H)
    BY <1>4, <1>5 DEF HasRow
<1>13. \A e \in conns' : /\ e.handle \notin {NoHandle, H} => e \in conns
                         /\ e.handle = H => e.state # "PreConnecting"
    BY <1>4, <1>5, <1>6
<1>14. \A i \in 1..Len(inbox') : \E j \in 1..Len(inbox) : inbox'[i] = inbox[j]
    OBVIOUS
<1>15. PICK s \in Statuses : s = "Connecting"
    BY DEF Statuses
<1>16. HasRow(conns', H) /\ s = "Connecting" /\ gns[H] = "Knocking" /\ gns'[H] = "Connecting"
    BY <1>2, <1>7, <1>12, <1>15
<1>17. Delivers(s)
    BY <1>15
<1>18. UNCHANGED <<batch, tpc, tried>>
    OBVIOUS
<1> QED BY ONLY TableInv, TypeOK', callbacks' = Tail(callbacks), s \in Statuses,
                <1>2, <1>7, <1>9, <1>10, <1>11, <1>13, <1>14, <1>16, <1>17, <1>18, TableDeliver

\* Taking away rows disturbs neither the numbers nor the handles of the others.
LEMMA FewerRows ==
    ASSUME TableInv, TypeOK', conns' \subseteq conns, UNCHANGED <<nextRow, peer>>,
           \A c \in conns' : c.handle # NoHandle => gns'[c.handle] = gns[c.handle],
           \A h \in Handles : gns'[h] # "none" => gns[h] # "none"
    PROVE  HandlesUnique' /\ RowsInv'
BY DEF TableInv, TableMatchesGns, HandlesUnique, RowsInv

\* A callback that leaves its handle without a row: it closes the handle, or the handle
\* had none, or GNS gave the connection up.
LEMMA TableErases ==
    ASSUME TableInv, TypeOK', NEW s \in Statuses, Delivers(s),
           callbacks' = Tail(callbacks),
           conns' = conns \ RowsOf(Handle),
           UNCHANGED <<nextRow, peer, batch, tpc, tried>>,
           \/ CloseHandle(Handle)
           \/ /\ UNCHANGED <<gns, inbox>>
              /\ s # "Connecting"
              /\ RowsOf(Handle) # {} => s = "ProblemDetectedLocally"
    PROVE  TableInv'
<1>1. TypeOK
    BY DEF TableInv, TableMatchesGns
<1>2. PICK H \in Handles : H = Handle
    BY <1>1, Delivered
<1>3. H # NoHandle
    BY InterlinkAssumption DEF Handles
<1>4. conns' = {c \in conns : c.handle # H}
    BY <1>2 DEF RowsOf
<1>5. ~HasRow(conns', H) /\ \A x \in Handles : x # H => (HasRow(conns', x) <=> HasRow(conns, x))
    BY <1>4 DEF HasRow
<1>6. \/ gns'[H] = "closed" /\ \A i \in 1..Len(inbox') : inbox'[i] # H
      \/ /\ gns'[H] = gns[H] /\ s # "Connecting"
         /\ HasRow(conns, H) => s = "ProblemDetectedLocally"
    BY <1>1, <1>2, Closed DEF RowsOf, HasRow
<1>7. /\ \A x \in Handles : x # H => gns'[x] = gns[x]
      /\ \A i \in 1..Len(inbox') : \E j \in 1..Len(inbox) : inbox'[i] = inbox[j]
    BY <1>1, <1>2, Closed
<1>8. \A c \in conns' : c.handle # NoHandle => gns'[c.handle] = gns[c.handle]
    BY <1>1, <1>4, <1>7 DEF TypeOK, Rows
<1>9. gns[H] # "none"
    <2>1. /\ callbacks[1] = [handle |-> Handle, status |-> s]
          /\ Len(callbacks) \in Nat /\ Len(callbacks) >= 1
        BY <1>1, Delivered
    <2>2. callbacks[1].handle = H /\ 1 \in 1..Len(callbacks)
        BY <1>2, <2>1
    <2> QED BY <2>2 DEF TableInv, CallbacksInv
<1>10. \A h \in Handles : gns'[h] # "none" => gns[h] # "none"
    BY <1>7, <1>9
<1>11. HandlesUnique' /\ RowsInv'
    BY <1>4, <1>8, <1>10, FewerRows
<1>12. \A e \in conns' : /\ e.handle \notin {NoHandle, H} => e \in conns
                         /\ e.handle = H => e.state # "PreConnecting"
    BY <1>4
<1>13. \/ /\ ~HasRow(conns', H) /\ gns'[H] = "closed"
          /\ \A i \in 1..Len(inbox') : inbox'[i] # H
       \/ /\ ~HasRow(conns', H) /\ gns'[H] = gns[H]
          /\ s # "Connecting"
          /\ HasRow(conns, H) => s = "ProblemDetectedLocally"
    BY <1>5, <1>6
<1>14. UNCHANGED <<batch, tpc, tried>>
    OBVIOUS
<1> QED BY ONLY TableInv, TypeOK', Delivers(s), callbacks' = Tail(callbacks), s \in Statuses,
                <1>2, <1>5, <1>7, <1>11, <1>12, <1>13, <1>14, TableDeliver

\* A handle has at most one row.
LEMMA OneRowOf ==
    ASSUME TableInv, NEW h \in Handles, RowsOf(h) # {}
    PROVE  RowsOf(h) = {RowOf(h)}
<1>1. RowOf(h) \in conns /\ RowOf(h).handle = h
    BY RowOfFound DEF TableInv, TableMatchesGns
<1>2. h # NoHandle
    BY InterlinkAssumption DEF Handles
<1>3. \A c \in conns : c.handle = h => c = RowOf(h)
    BY <1>1, <1>2 DEF TableInv, TableMatchesGns, HandlesUnique
<1> QED BY <1>1, <1>3 DEF RowsOf

\* The callbacks preserve the invariant.
LEMMA TableCallbacks ==
    ASSUME TableInv, TypeOK',
           \/ CallbackOnConnecting \/ CallbackOnConnected
           \/ CallbackOnClosedByPeer \/ CallbackOnProblemDetectedLocally
    PROVE  TableInv'
<1>1. TypeOK
    BY DEF TableInv, TableMatchesGns
<1>2. \A s : Delivers(s) /\ callbacks' = Tail(callbacks) => Handle \in Handles
    BY <1>1, Delivered
<1>3. CASE CallbackOnConnecting
    <2>1. PICK s \in Statuses : s = "Connecting"
        BY DEF Statuses
    <2>2. /\ Delivers(s) /\ callbacks' = Tail(callbacks)
          /\ UNCHANGED <<peer, batch, tpc, tried>>
        BY <1>3, <2>1 DEF CallbackOnConnecting, tickVars
    <2>3. CASE /\ RowsOf(Handle) # {}
               /\ Replace(RowOf(Handle), [RowOf(Handle) EXCEPT !.state = "Connecting"])
               /\ UNCHANGED <<nextRow, gns, inbox>>
        BY <2>1, <2>2, <2>3, TableKeepsRow
    <2>4. CASE /\ RowsOf(Handle) = {}
               /\ gns[Handle] = "Knocking"
               /\ gns' = [gns EXCEPT ![Handle] = "Connecting"]
               /\ conns' = conns \cup {NewRow(peer[Handle], Handle, "Connecting")}
               /\ nextRow' = nextRow + 1
               /\ UNCHANGED inbox
        BY <2>1, <2>2, <2>4, TableAccepts
    <2>5. CASE /\ RowsOf(Handle) = {}
               /\ CloseHandle(Handle)
               /\ UNCHANGED <<conns, nextRow>>
        <3>1. conns' = conns \ RowsOf(Handle)
            BY <2>5
        <3> QED BY <2>2, <2>5, <3>1, TableErases
    <2> QED BY <1>3, <2>3, <2>4, <2>5 DEF CallbackOnConnecting
<1>4. CASE CallbackOnConnected
    <2>1. PICK s \in Statuses : s = "Connected"
        BY DEF Statuses
    <2>2. /\ Delivers(s) /\ callbacks' = Tail(callbacks)
          /\ UNCHANGED <<nextRow, gns, inbox, peer, batch, tpc, tried>>
        BY <1>4, <2>1 DEF CallbackOnConnected, tickVars
    <2>3. CASE RowsOf(Handle) # {}
        <3>1. Replace(RowOf(Handle), [RowOf(Handle) EXCEPT !.state = s])
            BY <1>4, <2>1, <2>3 DEF CallbackOnConnected
        <3> QED BY <2>1, <2>2, <2>3, <3>1, TableKeepsRow
    <2>4. CASE RowsOf(Handle) = {}
        <3>1. conns' = conns \ RowsOf(Handle)
            BY <1>4, <2>4 DEF CallbackOnConnected
        <3>2. /\ UNCHANGED <<gns, inbox>>
              /\ s # "Connecting"
              /\ RowsOf(Handle) # {} => s = "ProblemDetectedLocally"
            BY <2>1, <2>2, <2>4
        <3> QED BY <2>2, <3>1, <3>2, TableErases
    <2> QED BY <2>3, <2>4
<1>5. CASE CallbackOnClosedByPeer
    <2>1. PICK s \in Statuses : s = "ClosedByPeer"
        BY DEF Statuses
    <2>2. /\ Delivers(s) /\ callbacks' = Tail(callbacks)
          /\ UNCHANGED <<nextRow, peer, batch, tpc, tried>>
        BY <1>5, <2>1 DEF CallbackOnClosedByPeer, tickVars
    <2>3. CASE RowsOf(Handle) # {} /\ CloseHandle(Handle) /\ conns' = conns \ {RowOf(Handle)}
        <3>1. conns' = conns \ RowsOf(Handle)
            BY <1>2, <2>2, <2>3, OneRowOf
        <3> QED BY <2>2, <2>3, <3>1, TableErases
    <2>4. CASE RowsOf(Handle) = {} /\ UNCHANGED <<conns, gns, inbox>>
        <3>1. conns' = conns \ RowsOf(Handle)
            BY <2>4
        <3>2. /\ UNCHANGED <<gns, inbox>>
              /\ s # "Connecting"
              /\ RowsOf(Handle) # {} => s = "ProblemDetectedLocally"
            BY <2>1, <2>4
        <3> QED BY <2>2, <3>1, <3>2, TableErases
    <2> QED BY <1>5, <2>3, <2>4 DEF CallbackOnClosedByPeer
<1>6. CASE CallbackOnProblemDetectedLocally
    <2>1. PICK s \in Statuses : s = "ProblemDetectedLocally"
        BY DEF Statuses
    <2>2. /\ Delivers(s) /\ callbacks' = Tail(callbacks)
          /\ UNCHANGED <<nextRow, gns, inbox, peer, batch, tpc, tried>>
        BY <1>6, <2>1 DEF CallbackOnProblemDetectedLocally, tickVars
    <2>3. conns' = conns \ RowsOf(Handle)
        <3>1. CASE RowsOf(Handle) = {}
            BY <1>6, <3>1 DEF CallbackOnProblemDetectedLocally
        <3>2. CASE RowsOf(Handle) # {}
            <4>1. conns' = conns \ {RowOf(Handle)}
                BY <1>6, <3>2 DEF CallbackOnProblemDetectedLocally
            <4> QED BY <1>2, <2>2, <3>2, <4>1, OneRowOf
        <3> QED BY <3>1, <3>2
    <2>4. /\ UNCHANGED <<gns, inbox>>
          /\ s # "Connecting"
          /\ RowsOf(Handle) # {} => s = "ProblemDetectedLocally"
        BY <2>1, <2>2
    <2> QED BY <2>2, <2>3, <2>4, TableErases
<1> QED BY <1>3, <1>4, <1>5, <1>6

\* CloseConnectionTo closes the handle of the row, if it has one, and erases the row.
LEMMA TableClose ==
    ASSUME TableInv, TypeOK', NEW p \in Peers, CloseConnectionTo(p)
    PROVE  TableInv'
<1>1. TypeOK
    BY DEF TableInv, TableMatchesGns
<1>2. PICK c \in conns : c = RowTo(p)
    BY <1>1, RowToFound DEF CloseConnectionTo
<1>3. PICK h : h = c.handle
    OBVIOUS
<1>4. /\ conns' = conns \ {c}
      /\ CloseHandle(h)
      /\ UNCHANGED <<nextRow, peer, callbacks, batch, tpc, tried>>
    BY <1>2, <1>3 DEF CloseConnectionTo, tickVars
<1>5. /\ h \in Handles => gns'[h] = "closed"
      /\ \A x \in Handles : x # h => gns'[x] = gns[x]
      /\ \A i \in 1..Len(inbox') : inbox'[i] # h /\ \E j \in 1..Len(inbox) : inbox'[i] = inbox[j]
    BY <1>1, <1>4, Closed
<1>6. NoHandle \notin Handles /\ h \in Handles \cup {NoHandle}
    BY <1>1, <1>3, InterlinkAssumption DEF Handles, TypeOK, Rows
<1>7. h \in Handles => gns[h] \notin {"none", "Knocking", "closed"}
    BY <1>3, <1>6 DEF TableInv, RowsInv
<1>8. \A d \in conns' : d \in conns /\ (d.handle # NoHandle => d.handle # h /\ d.handle \in Handles)
    BY <1>1, <1>3, <1>4 DEF TypeOK, Rows, TableInv, TableMatchesGns, HandlesUnique
<1>9. \A x \in Handles : x # h /\ RowsOf(x) # {} => RowsOf(x)' # {}
    BY <1>3, <1>4 DEF RowsOf
<1>10. HandlesUnique' /\ RowsInv'
    <2>1. \A d \in conns' : d.handle # NoHandle => gns'[d.handle] = gns[d.handle]
        BY <1>5, <1>8
    <2>2. \A x \in Handles : gns'[x] # "none" => gns[x] # "none"
        BY <1>5, <1>7
    <2> QED BY <1>4, <2>1, <2>2, FewerRows
<1>11. NoLostHandle'
    BY <1>5, <1>9 DEF TableInv, TableMatchesGns, NoLostHandle
<1>12. NoStaleRow'
    BY <1>4, <1>5, <1>8 DEF TableInv, TableMatchesGns, NoStaleRow
<1>13. CallbacksFindTheirRow'
    <2>1. \A i \in 1..Len(callbacks) : callbacks[i].handle \in Handles
        BY <1>1, CallbackTypes
    <2> QED BY <1>4, <1>5, <1>9, <2>1 DEF TableInv, EventsFindTheirRow, CallbacksFindTheirRow
<1>14. UnreadHasRow'
    <2>1. /\ \A i \in 1..Len(inbox) : inbox[i] \in Handles
          /\ \A i \in 1..Len(batch) : batch[i] \in Handles
        BY <1>1, MessageTypes
    <2>2. ASSUME NEW i \in 1..Len(inbox'), NEW x, x = inbox'[i]
          PROVE  RowsOf(x)' # {} \/ gns'[x] = "ProblemDetectedLocally"
        <3>1. PICK j \in 1..Len(inbox) : x = inbox[j] /\ x # h
            BY <1>5, <2>2
        <3>2. RowsOf(x) # {} \/ gns[x] = "ProblemDetectedLocally"
            BY <3>1 DEF TableInv, EventsFindTheirRow, UnreadHasRow
        <3> QED BY <1>5, <1>9, <2>1, <3>1, <3>2
    <2>3. ASSUME NEW i \in 1..Len(batch), NEW x, x = batch[i]
          PROVE  RowsOf(x)' # {} \/ gns'[x] \in {"ProblemDetectedLocally", "closed"}
        <3>1. RowsOf(x) # {} \/ gns[x] \in {"ProblemDetectedLocally", "closed"}
            BY <2>3 DEF TableInv, EventsFindTheirRow, UnreadHasRow
        <3>2. x \in Handles
            BY <2>1, <2>3
        <3> QED BY <1>5, <1>9, <3>1, <3>2
    <2> QED BY <1>4, <2>2, <2>3 DEF UnreadHasRow, RowsOf
<1>15. DialledInv'
    BY <1>4, <1>8 DEF TableInv, DialledInv
<1>16. CallbacksInv'
    <2>1. \A i \in 1..Len(callbacks) : callbacks[i].handle \in Handles
        BY <1>1, CallbackTypes
    <2>2. \A i \in 1..Len(callbacks) : gns'[callbacks[i].handle] # "none"
        BY <1>5, <2>1 DEF TableInv, CallbacksInv
    <2>3. \A i \in 1..Len(callbacks) : callbacks[i].status \in Ends =>
              gns'[callbacks[i].handle] \in {callbacks[i].status, "closed"}
        BY <1>5, <2>1 DEF TableInv, CallbacksInv
    <2> QED BY <1>4, <2>2, <2>3 DEF TableInv, CallbacksInv
<1> QED BY <1>10, <1>11, <1>12, <1>13, <1>14, <1>15, <1>16
        DEF TableInv, TableMatchesGns, EventsFindTheirRow

\* GenerateNewConnections dials rows that have no handle yet.
LEMMA TableGenerate ==
    ASSUME TableInv, TypeOK', NEW c \in conns, GenerateConnection(c)
    PROVE  TableInv'
<1>1. TypeOK
    BY DEF TableInv, TableMatchesGns
<1>2. /\ tpc = "generate" /\ c.state = "PreConnecting" /\ c.row \notin tried
      /\ tried' = tried \cup {c.row}
      /\ UNCHANGED <<nextRow, tpc, batch, inbox>>
    BY DEF GenerateConnection, PreConnecting
<1>3. c.handle = NoHandle /\ c \in Rows
    BY <1>1, <1>2 DEF TableInv, DialledInv, TypeOK
<1>4. CASE UNCHANGED <<conns, gns, peer, callbacks>>
    <2>1. HandlesUnique' /\ NoLostHandle' /\ NoStaleRow'
        BY <1>4 DEF TableInv, TableMatchesGns, HandlesUnique, NoLostHandle, NoStaleRow, RowsOf
    <2>2. CallbacksFindTheirRow' /\ UnreadHasRow'
        BY <1>2, <1>4 DEF TableInv, EventsFindTheirRow, CallbacksFindTheirRow, UnreadHasRow, RowsOf
    <2>3. RowsInv' /\ DialledInv' /\ CallbacksInv'
        BY <1>2, <1>4 DEF TableInv, RowsInv, DialledInv, CallbacksInv
    <2> QED BY <2>1, <2>2, <2>3 DEF TableInv, TableMatchesGns, EventsFindTheirRow
<1>5. CASE /\ FreeHandles # {}
           /\ Replace(c, [c EXCEPT !.handle = NewHandle])
           /\ gns' = [gns EXCEPT ![NewHandle] = "Connecting"]
           /\ peer' = [peer EXCEPT ![NewHandle] = c.target]
           /\ Post(NewHandle, "Connecting")
    <2> DEFINE n == Len(callbacks)
    <2>1. PICK h \in Handles : h = NewHandle /\ gns[h] = "none"
        BY <1>5, NewHandleFree
    <2>2. /\ n \in Nat
          /\ Len(callbacks') = n + 1
          /\ callbacks'[n + 1] = [handle |-> h, status |-> "Connecting"]
          /\ \A i \in 1..n : callbacks'[i] = callbacks[i]
        BY <1>1, <1>5, <2>1, Posted DEF Statuses
    <2>3. \A i \in 1..n : callbacks[i].handle \in Handles
        BY <1>1, CallbackTypes
    <2> HIDE DEF n
    <2>4. \A i \in 1..(n + 1) : i \in 1..n \/ i = n + 1
        BY <2>2
    <2>5. /\ gns'[h] = "Connecting" /\ \A x \in Handles : x # h => gns'[x] = gns[x]
          /\ peer'[h] = c.target /\ \A x \in Handles : x # h => peer'[x] = peer[x]
        BY <1>1, <1>5, <2>1 DEF TypeOK
    <2>6. PICK d : d = [c EXCEPT !.handle = h]
        OBVIOUS
    <2>7. /\ conns' = (conns \ {c}) \cup {d}
          /\ d.row = c.row /\ d.handle = h /\ d.target = c.target /\ d.state = c.state
        BY <1>3, <1>5, <2>1, <2>6 DEF Replace, Rows
    <2>8. \A e \in conns : e.handle # h
        BY <2>1, InterlinkAssumption DEF TableInv, RowsInv, Handles
    <2>9. \A e \in conns : e.handle = NoHandle \/ e.handle \in Handles
        BY <1>1 DEF TypeOK, Rows
    <2>10. NoHandle \notin Handles
        BY InterlinkAssumption DEF Handles
    <2>11. \A x \in Handles : x # h => RowsOf(x)' = RowsOf(x)
        BY <1>3, <2>7, <2>10 DEF RowsOf
    <2>12. d \in RowsOf(h)'
        BY <2>7 DEF RowsOf
    <2>13. HandlesUnique'
        BY <2>7, <2>8 DEF TableInv, TableMatchesGns, HandlesUnique
    <2>14. NoLostHandle'
        BY <2>5, <2>11, <2>12 DEF TableInv, TableMatchesGns, NoLostHandle
    <2>15. RowsInv'
        <3>1. \A e \in conns' : e.row < nextRow'
            BY <1>2, <2>7 DEF TableInv, RowsInv
        <3>2. \A e, f \in conns' : e.row = f.row => e = f
            BY <2>7 DEF TableInv, RowsInv
        <3>3. \A e \in conns' : e.handle # NoHandle =>
                  /\ gns'[e.handle] \notin {"none", "Knocking", "closed"}
                  /\ peer'[e.handle] = e.target
            BY <2>5, <2>7, <2>8, <2>9 DEF TableInv, RowsInv
        <3>4. \A x \in Handles : gns'[x] # "none" => peer'[x] \in Peers
            BY <1>3, <2>5 DEF TableInv, RowsInv, Rows
        <3> QED BY <3>1, <3>2, <3>3, <3>4 DEF RowsInv
    <2>16. \A i \in 1..n : i \in 1..(n + 1)
        BY <2>2
    <2>17. NoStaleRow'
        <3> SUFFICES ASSUME NEW e \in conns', e.handle # NoHandle,
                            gns'[e.handle] \notin {"Connecting", "Connected"}
                     PROVE  \E i \in 1..(n + 1) : callbacks'[i] = [handle |-> e.handle,
                                                                  status |-> gns'[e.handle]]
            BY <2>2 DEF NoStaleRow
        <3>1. e \in conns /\ gns'[e.handle] = gns[e.handle]
            BY <2>5, <2>7, <2>8, <2>9
        <3>2. PICK i \in 1..n : callbacks[i] = [handle |-> e.handle, status |-> gns[e.handle]]
            BY <3>1 DEF TableInv, TableMatchesGns, NoStaleRow, n
        <3> QED BY <2>2, <2>16, <3>1, <3>2
    <2>18. \A i \in 1..n : gns[callbacks[i].handle] # "none" /\ callbacks[i].handle # h
        BY <2>1 DEF TableInv, CallbacksInv, n
    <2>19. CallbacksFindTheirRow'
        <3> SUFFICES ASSUME NEW i \in 1..(n + 1), NEW x, x = callbacks'[i].handle,
                            callbacks'[i].status \in {"Connected", "ClosedByPeer"},
                            gns'[x] # "closed",
                            RowsOf(x)' = {}
                     PROVE  \E j \in 1..(i - 1) : callbacks'[j] = [handle |-> x,
                                                                  status |-> "Connecting"]
            BY <2>2 DEF CallbacksFindTheirRow, RowsOf
        <3>1. i \in 1..n /\ callbacks'[i] = callbacks[i]
            BY <2>2, <2>4
        <3>2. x \in Handles /\ x # h
            BY <2>3, <2>18, <3>1
        <3>3. gns[x] # "closed" /\ RowsOf(x) = {}
            BY <2>5, <2>11, <3>2
        <3>4. PICK j \in 1..(i - 1) : callbacks[j] = [handle |-> x, status |-> "Connecting"]
            BY <3>1, <3>3 DEF TableInv, EventsFindTheirRow, CallbacksFindTheirRow, n
        <3>5. j \in 1..n
            BY <2>2, <3>1
        <3> QED BY <2>2, <3>4, <3>5
    <2>20. UnreadHasRow'
        <3>1. /\ \A i \in 1..Len(inbox) : inbox[i] \in Handles
              /\ \A i \in 1..Len(batch) : batch[i] \in Handles
            BY <1>1, MessageTypes
        <3>2. \A x \in Handles : RowsOf(x) # {} => RowsOf(x)' # {}
            BY <2>11, <2>12
        <3> QED BY <1>2, <2>1, <2>5, <3>1, <3>2 DEF TableInv, EventsFindTheirRow, UnreadHasRow
    <2>21. DialledInv'
        <3> SUFFICES ASSUME NEW e \in conns', e.state = "PreConnecting", e.handle # NoHandle
                     PROVE  /\ \E i \in 1..(n + 1) : callbacks'[i] = [handle |-> e.handle,
                                                                     status |-> "Connecting"]
                            /\ e.row \in tried'
            BY <2>2 DEF DialledInv
        <3>1. CASE e = d
            <4>1. n + 1 \in 1..(n + 1)
                BY <2>2
            <4> QED BY <1>2, <2>2, <2>7, <3>1, <4>1
        <3>2. CASE e \in conns
            <4>1. PICK i \in 1..n : callbacks[i] = [handle |-> e.handle, status |-> "Connecting"]
                BY <3>2 DEF TableInv, DialledInv, n
            <4> QED BY <1>2, <2>2, <2>16, <3>2, <4>1 DEF TableInv, DialledInv
        <3> QED BY <2>7, <3>1, <3>2
    <2>22. CallbacksInv'
        <3>1. \A i \in 1..n : gns'[callbacks[i].handle] = gns[callbacks[i].handle]
            BY <2>3, <2>5, <2>18
        <3>2. \A i \in 1..(n + 1) :
                  /\ gns'[callbacks'[i].handle] # "none"
                  /\ callbacks'[i].status \in Ends =>
                         gns'[callbacks'[i].handle] \in {callbacks'[i].status, "closed"}
            BY <2>2, <2>4, <2>5, <3>1 DEF TableInv, CallbacksInv, n, Ends
        <3>3. ASSUME NEW i \in 1..(n + 1), NEW j \in 1..(n + 1), i < j, callbacks'[i].status \in Ends
              PROVE  callbacks'[j].handle # callbacks'[i].handle
            <4>1. i \in 1..n
                BY <2>2, <3>3
            <4>2. CASE j \in 1..n
                BY <2>2, <3>3, <4>1, <4>2 DEF TableInv, CallbacksInv, n
            <4>3. CASE j = n + 1
                BY <2>2, <2>18, <4>1, <4>3
            <4> QED BY <2>4, <4>2, <4>3
        <3> QED BY <2>2, <3>2, <3>3 DEF CallbacksInv
    <2> QED BY <2>13, <2>14, <2>15, <2>17, <2>19, <2>20, <2>21, <2>22
            DEF TableInv, TableMatchesGns, EventsFindTheirRow
<1> QED BY <1>4, <1>5 DEF GenerateConnection

\* Messages move between GNS, the batch and the handlers, and the tick goes from one part
\* to the next, while the table stays.
LEMMA TableMessages ==
    ASSUME TableInv, TypeOK', UNCHANGED <<conns, nextRow, gns, peer, callbacks>>,
           \A i \in 1..Len(inbox') :
               \/ \E j \in 1..Len(inbox) : inbox'[i] = inbox[j]
               \/ inbox'[i] \in Handles /\ gns[inbox'[i]] = "Connected",
           \A i \in 1..Len(batch') :
               \/ \E j \in 1..Len(inbox) : batch'[i] = inbox[j]
               \/ \E j \in 1..Len(batch) : batch'[i] = batch[j],
           tpc' = "generate" => \/ tpc = "generate" /\ tried' = tried
                                \/ callbacks = <<>>
    PROVE  TableInv'
<1>1. HandlesUnique' /\ NoLostHandle' /\ NoStaleRow'
    BY DEF TableInv, TableMatchesGns, HandlesUnique, NoLostHandle, NoStaleRow, RowsOf
<1>2. CallbacksFindTheirRow'
    BY DEF TableInv, EventsFindTheirRow, CallbacksFindTheirRow, RowsOf
<1>3. RowsInv' /\ CallbacksInv'
    BY DEF TableInv, RowsInv, CallbacksInv
<1>4. DialledInv'
    <2>1. callbacks = <<>> => \A c \in conns : c.state # "PreConnecting" \/ c.handle = NoHandle
        BY DEF TableInv, DialledInv
    <2> QED BY <2>1 DEF TableInv, DialledInv
<1>5. UnreadHasRow'
    <2>1. \A x : RowsOf(x)' = RowsOf(x)
        BY DEF RowsOf
    <2>2. \A i \in 1..Len(inbox') : RowsOf(inbox'[i]) # {} \/ gns[inbox'[i]] = "ProblemDetectedLocally"
        BY DEF TableInv, TableMatchesGns, NoLostHandle, EventsFindTheirRow, UnreadHasRow
    <2>3. \A i \in 1..Len(batch') :
              RowsOf(batch'[i]) # {} \/ gns[batch'[i]] \in {"ProblemDetectedLocally", "closed"}
        BY DEF TableInv, EventsFindTheirRow, UnreadHasRow
    <2> QED BY <2>2, <2>3 DEF UnreadHasRow, RowsOf
<1> QED BY <1>1, <1>2, <1>3, <1>4, <1>5 DEF TableInv, TableMatchesGns, EventsFindTheirRow

\* Every step preserves the invariant.
LEMMA NextTable == TableInv /\ [Next]_vars => TableInv'
<1> SUFFICES ASSUME TableInv, [Next]_vars PROVE TableInv'
    OBVIOUS
<1>1. TypeOK /\ TypeOK'
    BY NextTypes DEF TableInv, TableMatchesGns
<1>2. ASSUME NEW c \in conns, GenerateConnection(c) PROVE TableInv'
    BY <1>1, <1>2, TableGenerate
<1>3. ASSUME GenerateDone PROVE TableInv'
    <2>1. /\ \A i \in 1..Len(inbox') : \E j \in 1..Len(inbox) : inbox'[i] = inbox[j]
          /\ \A i \in 1..Len(batch') : \E j \in 1..Len(inbox) : batch'[i] = inbox[j]
        BY <1>1, <1>3, UnreadOf DEF GenerateDone, TypeOK
    <2>2. UNCHANGED <<conns, nextRow, gns, peer, callbacks>> /\ tpc' # "generate"
        BY <1>3 DEF GenerateDone, tableVars
    <2> QED BY <1>1, <2>1, <2>2, TableMessages
<1>4. ASSUME ReceiveMessage PROVE TableInv'
    <2>1. batch \in Seq(Handles) /\ batch # <<>> /\ batch' = Tail(batch)
        BY <1>1, <1>4 DEF ReceiveMessage, TypeOK
    <2>2. \A i \in 1..Len(batch') : \E j \in 1..Len(batch) : batch'[i] = batch[j]
        <3>1. /\ Len(Tail(batch)) = Len(batch) - 1
              /\ \A i \in 1..Len(Tail(batch)) : Tail(batch)[i] = batch[i + 1]
            BY <2>1, HeadTailProperties
        <3>2. Len(batch) \in Nat
            BY <2>1, LenProperties
        <3>3. \A i \in 1..(Len(batch) - 1) : i + 1 \in 1..Len(batch)
            BY <3>2
        <3> QED BY <2>1, <3>1, <3>3
    <2>3. UNCHANGED <<gns, peer, callbacks, inbox, tpc, tried>> /\ tpc = "receive"
        BY <1>4 DEF ReceiveMessage, gnsVars
    <2>4. CASE UNCHANGED <<conns, nextRow>>
        BY <1>1, <2>2, <2>3, <2>4, TableMessages
    <2>5. ASSUME NEW p \in Peers, EstablishConnectionTo(p) PROVE TableInv'
        BY <1>1, <2>2, <2>3, <2>5, TableEstablish
    <2> QED BY <1>4, <2>4, <2>5 DEF ReceiveMessage, SendMessageOnTick, tableVars
<1>5. ASSUME ReceiveDone PROVE TableInv'
    <2>1. UNCHANGED <<conns, nextRow, gns, peer, callbacks, inbox, batch>> /\ tpc' # "generate"
        BY <1>5 DEF ReceiveDone, tableVars, gnsVars
    <2> QED BY <1>1, <2>1, TableMessages
<1>6. ASSUME CallbacksDone PROVE TableInv'
    <2>1. UNCHANGED <<conns, nextRow, gns, peer, callbacks, inbox, batch>> /\ callbacks = <<>>
        BY <1>6 DEF CallbacksDone, tableVars, gnsVars
    <2> QED BY <1>1, <2>1, TableMessages
<1>7. CASE \/ CallbackOnConnecting \/ CallbackOnConnected
           \/ CallbackOnClosedByPeer \/ CallbackOnProblemDetectedLocally
    BY <1>1, <1>7, TableCallbacks
<1>8. ASSUME NEW p \in Peers, NEW k \in AppPackets, AppLookup(p, k) PROVE TableInv'
    <2>1. UNCHANGED <<conns, nextRow, gns, peer, callbacks, inbox, batch, tpc, tried>>
        BY <1>8 DEF AppLookup, tableVars, tickVars, gnsVars
    <2> QED BY <1>1, <2>1, TableUntouched
<1>9. ASSUME AppEstablish PROVE TableInv'
    <2>1. app.peer \in Peers
        BY <1>1, <1>9 DEF AppEstablish, TypeOK, Idle, Calls
    <2>2. UNCHANGED <<gns, peer, callbacks, inbox, batch, tpc, tried>>
        BY <1>9 DEF AppEstablish, tickVars, gnsVars
    <2>3. EstablishConnectionTo(app.peer)
        BY <1>9 DEF AppEstablish
    <2> QED BY <1>1, <2>1, <2>2, <2>3, TableEstablish
<1>10. ASSUME AppQueue PROVE TableInv'
    <2>1. UNCHANGED <<conns, nextRow, gns, peer, callbacks, inbox, batch, tpc, tried>>
        BY <1>10 DEF AppQueue, tickVars, gnsVars
    <2> QED BY <1>1, <2>1, TableUntouched
<1>11. ASSUME AppSend PROVE TableInv'
    <2>1. UNCHANGED <<conns, nextRow, gns, peer, callbacks, inbox, batch, tpc, tried>>
        BY <1>11 DEF AppSend, tableVars, tickVars, gnsVars
    <2> QED BY <1>1, <2>1, TableUntouched
<1>12. ASSUME NEW p \in Peers, CloseConnectionTo(p) PROVE TableInv'
    BY <1>1, <1>12, TableClose
<1>13. ASSUME NEW p \in Peers, PeerRegisters(p) PROVE TableInv'
    <2>1. UNCHANGED <<conns, nextRow, gns, peer, callbacks, inbox, batch, tpc, tried>>
        BY <1>13 DEF PeerRegisters, tableVars, tickVars, gnsVars
    <2> QED BY <1>1, <2>1, TableUntouched
<1>14. ASSUME NEW p \in Peers, PeerConnects(p) PROVE TableInv'
    <2>1. PICK h \in Handles : h = NewHandle /\ gns[h] = "none"
        BY <1>14, NewHandleFree DEF PeerConnects
    <2>2. PICK s \in Statuses : s = "Connecting"
        BY DEF Statuses
    <2>3. /\ Post(h, s)
          /\ gns' = [gns EXCEPT ![h] = "Knocking"]
          /\ \A x \in Handles : x # h => peer'[x] = peer[x]
          /\ peer'[h] \in Peers
          /\ UNCHANGED <<conns, nextRow, inbox, batch, tpc, tried>>
        BY <1>1, <1>14, <2>1, <2>2 DEF PeerConnects, TypeOK, tableVars, tickVars
    <2> QED BY <1>1, <2>1, <2>2, <2>3, TablePost
<1>15. ASSUME NEW h \in Handles, NetworkConnects(h) PROVE TableInv'
    <2>1. PICK s \in Statuses : s = "Connected"
        BY DEF Statuses
    <2>2. /\ Post(h, s)
          /\ gns' = [gns EXCEPT ![h] = s]
          /\ gns[h] = "Connecting"
          /\ UNCHANGED <<conns, nextRow, peer, inbox, batch, tpc, tried>>
        BY <1>15, <2>1 DEF NetworkConnects, tableVars, tickVars
    <2>3. peer'[h] \in Peers
        BY <2>2 DEF TableInv, RowsInv
    <2> QED BY <1>1, <2>1, <2>2, <2>3, TablePost
<1>16. ASSUME NEW h \in Handles, NEW s \in Ends, NetworkEnds(h, s) PROVE TableInv'
    <2>1. s \in Statuses
        BY DEF Statuses, Ends
    <2>2. /\ Post(h, s)
          /\ gns' = [gns EXCEPT ![h] = s]
          /\ UNCHANGED <<conns, nextRow, peer, inbox, batch, tpc, tried>>
        BY <1>16 DEF NetworkEnds, tableVars, tickVars
    <2>3. \/ gns[h] \in Up /\ s = "ProblemDetectedLocally"
          \/ gns[h] = "Connected" /\ s = "ClosedByPeer"
        BY <1>16 DEF NetworkEnds, Up
    <2>4. peer'[h] \in Peers
        BY <2>2, <2>3 DEF TableInv, RowsInv, Up
    <2> QED BY <1>1, <2>1, <2>2, <2>3, <2>4, TablePost
<1>17. ASSUME NEW h \in Handles, MessageArrives(h) PROVE TableInv'
    <2>1. inbox \in Seq(Handles) /\ inbox' = Append(inbox, h) /\ gns[h] = "Connected"
        BY <1>1, <1>17 DEF MessageArrives, TypeOK
    <2>2. \A i \in 1..Len(inbox') :
              (\E j \in 1..Len(inbox) : inbox'[i] = inbox[j]) \/ inbox'[i] = h
        BY <2>1
    <2>3. UNCHANGED <<conns, nextRow, gns, peer, callbacks, batch, tpc, tried>>
        BY <1>17 DEF MessageArrives, tableVars, tickVars
    <2> QED BY <1>1, <2>1, <2>2, <2>3, TableMessages
<1>18. CASE UNCHANGED vars
    <2>1. UNCHANGED <<conns, nextRow, gns, peer, callbacks, inbox, batch, tpc, tried>>
        BY <1>18 DEF vars, tableVars, tickVars, gnsVars
    <2> QED BY <1>1, <2>1, TableUntouched
<1> QED BY <1>2, <1>3, <1>4, <1>5, <1>6, <1>7, <1>8, <1>9, <1>10, <1>11, <1>12, <1>13, <1>14,
           <1>15, <1>16, <1>17, <1>18
        DEF Next, Tick, AppThread, Network, Ends

\* The inductive invariant of the connection table holds in every reachable state.
THEOREM TableInvariant == Spec => []TableInv
<1>1. Init => TableInv
    BY InitTable
<1>2. TableInv /\ [Next]_vars => TableInv'
    BY NextTable
<1> QED BY <1>1, <1>2, PTL DEF Spec

\* The connection table and GNS agree, however peers dial, connections break and the
\* application thread closes: no two rows share a handle, no open connection is forgotten
\* and no row outlives its connection by more than the callback that erases it.
THEOREM TableAlwaysMatches == Spec => []TableMatchesGns
<1>1. TableInv => TableMatchesGns
    BY DEF TableInv
<1> QED BY <1>1, TableInvariant, PTL

\* Every callback and every message GNS delivers finds the row it is about, with the
\* exceptions the property names.
THEOREM EventsAlwaysFindTheirRow == Spec => []EventsFindTheirRow
<1>1. TableInv => EventsFindTheirRow
    BY DEF TableInv
<1> QED BY <1>1, TableInvariant, PTL

-----------------------------------------------------------------------------
(* Packets. *)

\* A packet in one place has one place.
LEMMA OnePlaceIsOne == TypeOK /\ OnePlace => \A k \in Submitted : Cardinality(Places(k)) = 1
<1> SUFFICES ASSUME TypeOK, OnePlace, NEW k \in Submitted PROVE Cardinality(Places(k)) = 1
    OBVIOUS
<1>1. k \in Packets
    <2>1. submitted \in Seq([packet : Packets, peer : Peers])
        BY DEF TypeOK
    <2>2. \A i \in 1..Len(submitted) : submitted[i] \in [packet : Packets, peer : Peers]
        BY <2>1, ElementOfSeq
    <2> QED BY <2>2 DEF Submitted
<1>2. app.packet = k \/ k \in dropped \/ Accepted(k) \/ Waiting(k)
    BY <1>1 DEF OnePlace
<1> DEFINE A == {<<"app">> : x \in {app.packet} \cap {k}}
           D == {<<"dropped">> : x \in dropped \cap {k}}
           S == {<<"sent", i>> : i \in {j \in 1..Len(sent) : sent[j].packet = k}}
           Q == UNION {{<<"queue", p, i>> : i \in {j \in 1..Len(queued[p]) : queued[p][j] = k}}
                         : p \in Peers}
<1>3. Places(k) = A \cup D \cup S \cup Q
    BY DEF Places
<1>4. app.packet # k => A = {}
    OBVIOUS
<1>5. k \notin dropped => D = {}
    OBVIOUS
<1>6. ~Accepted(k) => S = {}
    BY DEF Accepted
<1>7. ~Waiting(k) => Q = {}
    BY DEF Waiting
<1>8. \E x : Places(k) = {x}
    <2>1. CASE app.packet = k
        <3>1. A = {<<"app">>} /\ D = {} /\ S = {} /\ Q = {}
            BY <1>1, <1>5, <1>6, <1>7, <2>1 DEF OnePlace
        <3> HIDE DEF A, D, S, Q
        <3>2. Places(k) = {<<"app">>}
            BY <1>3, <3>1
        <3> QED BY <3>2
    <2>2. CASE k \in dropped
        <3>1. A = {} /\ D = {<<"dropped">>} /\ S = {} /\ Q = {}
            BY <1>1, <1>4, <1>6, <1>7, <2>2 DEF OnePlace
        <3> HIDE DEF A, D, S, Q
        <3>2. Places(k) = {<<"dropped">>}
            BY <1>3, <3>1
        <3> QED BY <3>2
    <2>3. CASE Accepted(k)
        <3>1. PICK i \in 1..Len(sent) : sent[i].packet = k
            BY <2>3 DEF Accepted
        <3>2. {j \in 1..Len(sent) : sent[j].packet = k} = {i}
            BY <3>1 DEF OnePlace
        <3>3. S = {<<"sent", i>>}
            BY <3>2
        <3>4. A = {} /\ D = {} /\ Q = {}
            BY <1>1, <1>4, <1>5, <1>7, <2>3 DEF OnePlace
        <3> HIDE DEF A, D, S, Q
        <3>5. Places(k) = {<<"sent", i>>}
            BY <1>3, <3>3, <3>4
        <3> QED BY <3>5
    <2>4. CASE Waiting(k)
        <3>0. PICK p \in Peers : \E i \in 1..Len(queued[p]) : queued[p][i] = k
            BY <2>4 DEF Waiting
        <3>1. PICK i \in 1..Len(queued[p]) : queued[p][i] = k
            BY <3>0
        <3>2. \A q \in Peers : \A j \in 1..Len(queued[q]) : queued[q][j] = k => q = p /\ j = i
            BY <3>1 DEF OnePlace
        <3> DEFINE W(q) == {<<"queue", q, j>> : j \in {l \in 1..Len(queued[q]) : queued[q][l] = k}}
        <3>3. W(p) = {<<"queue", p, i>>}
            BY <3>1, <3>2
        <3>4. \A q \in Peers : q # p => W(q) = {}
            BY <3>2
        <3>5. Q = UNION {W(q) : q \in Peers}
            OBVIOUS
        <3>6. A = {} /\ D = {} /\ S = {}
            BY <1>1, <1>4, <1>5, <1>6, <2>4 DEF OnePlace
        <3> HIDE DEF A, D, S, Q, W
        <3>7. Q = {<<"queue", p, i>>}
            BY <3>3, <3>4, <3>5
        <3>8. Places(k) = {<<"queue", p, i>>}
            BY <1>3, <3>6, <3>7
        <3> QED BY <3>8
    <2> QED BY <1>2, <2>1, <2>2, <2>3, <2>4
<1> QED BY <1>8, FS_Singleton

\* What a call of SendMessage adds to the submitted packets.
LEMMA SubmitAdds ==
    ASSUME TypeOK, NEW p \in Peers, NEW k \in Packets, Submit(p, k)
    PROVE  /\ Len(submitted) \in Nat
           /\ Len(submitted') = Len(submitted) + 1
           /\ submitted'[Len(submitted) + 1] = [packet |-> k, peer |-> p]
           /\ \A i \in 1..Len(submitted) : submitted'[i] = submitted[i]
           /\ Submitted' = Submitted \cup {k}
<1> DEFINE r == [packet |-> k, peer |-> p]
           n == Len(submitted)
<1>1. r \in [packet : Packets, peer : Peers]
    OBVIOUS
<1>2. submitted \in Seq([packet : Packets, peer : Peers]) /\ submitted' = Append(submitted, r)
    BY DEF TypeOK, Submit
<1> HIDE DEF r
<1>3. /\ n \in Nat
      /\ Len(submitted') = n + 1
      /\ submitted'[n + 1] = r
      /\ \A i \in 1..n : submitted'[i] = submitted[i]
    BY <1>1, <1>2, AppendProperties, LenProperties
<1>4. r.packet = k
    BY DEF r
<1>5. Submitted' = {submitted'[i].packet : i \in 1..(n + 1)}
    BY <1>3 DEF Submitted
<1>6. Submitted = {submitted[i].packet : i \in 1..n}
    BY DEF Submitted
<1> HIDE DEF n
<1>7. \A i \in 1..(n + 1) : i \in 1..n \/ i = n + 1
    BY <1>3
<1>8. (\A i \in 1..n : i \in 1..(n + 1)) /\ n + 1 \in 1..(n + 1)
    BY <1>3
<1>9. Submitted' = Submitted \cup {k}
    BY <1>3, <1>4, <1>5, <1>6, <1>7, <1>8
<1> QED BY <1>3, <1>9 DEF r, n

\* The queue of a peer takes one more packet.
LEMMA QueueTakes ==
    ASSUME TypeOK, OnePlace, NEW p \in Peers, NEW k \in Packets, QueueMessageOnConnect(p, k),
           ~Waiting(k)
    PROVE  /\ \A l \in Packets : Waiting(l)' <=> Waiting(l) \/ l = k
           /\ \A q, r \in Peers : \A i \in 1..Len(queued'[q]), j \in 1..Len(queued'[r]) :
                  queued'[q][i] = queued'[r][j] => q = r /\ i = j
<1> DEFINE n == Len(queued[p])
<1>1. queued \in [Peers -> Seq(Packets)] /\ queued' = [queued EXCEPT ![p] = Append(@, k)]
    BY DEF TypeOK, QueueMessageOnConnect
<1>2. /\ n \in Nat
      /\ Len(queued'[p]) = n + 1
      /\ queued'[p][n + 1] = k
      /\ \A i \in 1..n : queued'[p][i] = queued[p][i]
    BY <1>1, AppendProperties, LenProperties
<1>3. \A q \in Peers : q # p => queued'[q] = queued[q]
    BY <1>1
<1>4. \A q \in Peers : \A i \in 1..Len(queued[q]) :
          i \in 1..Len(queued'[q]) /\ queued'[q][i] = queued[q][i]
    BY <1>2, <1>3
<1>5. \A q \in Peers : \A i \in 1..Len(queued'[q]) :
          \/ i \in 1..Len(queued[q]) /\ queued'[q][i] = queued[q][i]
          \/ q = p /\ i = n + 1 /\ queued'[q][i] = k
    BY <1>2, <1>3
<1>6. \A q \in Peers : \A i \in 1..Len(queued[q]) : queued[q][i] # k
    BY DEF Waiting
<1>7. \A l \in Packets : Waiting(l)' <=> Waiting(l) \/ l = k
    <2>1. n + 1 \in 1..Len(queued'[p])
        BY <1>2
    <2>2. Waiting(k)'
        BY <1>2, <2>1 DEF Waiting
    <2>3. ASSUME NEW l \in Packets, Waiting(l) PROVE Waiting(l)'
        BY <1>4, <2>3 DEF Waiting
    <2>4. ASSUME NEW l \in Packets, Waiting(l)', l # k PROVE Waiting(l)
        BY <1>5, <2>4 DEF Waiting
    <2> QED BY <2>2, <2>3, <2>4
<1>8. ASSUME NEW q \in Peers, NEW r \in Peers, NEW i \in 1..Len(queued'[q]),
             NEW j \in 1..Len(queued'[r]), queued'[q][i] = queued'[r][j]
      PROVE  q = r /\ i = j
    <2>1. \/ i \in 1..Len(queued[q]) /\ queued'[q][i] = queued[q][i]
          \/ q = p /\ i = n + 1 /\ queued'[q][i] = k
        BY <1>5
    <2>2. \/ j \in 1..Len(queued[r]) /\ queued'[r][j] = queued[r][j]
          \/ r = p /\ j = n + 1 /\ queued'[r][j] = k
        BY <1>5
    <2>3. CASE i \in 1..Len(queued[q]) /\ queued'[q][i] = queued[q][i]
        <3>1. queued'[r][j] # k
            BY <1>6, <1>8, <2>3
        <3>2. j \in 1..Len(queued[r]) /\ queued[q][i] = queued[r][j]
            BY <1>8, <2>2, <2>3, <3>1
        <3> QED BY <2>3, <3>2 DEF OnePlace
    <2>4. CASE q = p /\ i = n + 1 /\ queued'[q][i] = k
        <3>1. ~ (j \in 1..Len(queued[r]) /\ queued'[r][j] = queued[r][j])
            BY <1>6, <1>8, <2>4
        <3> QED BY <2>2, <2>4, <3>1
    <2> QED BY <2>1, <2>3, <2>4
<1> QED BY <1>7, <1>8

\* GNS takes one more packet, or refuses it.
LEMMA GNSTakes ==
    ASSUME TypeOK, OnePlace, NEW c \in conns, NEW k \in Packets, HandToGNS(c, k), ~Accepted(k)
    PROVE  /\ \/ /\ dropped' = dropped
                 /\ \A l \in Packets : Accepted(l)' <=> Accepted(l) \/ l = k
              \/ /\ dropped' = dropped \cup {k}
                 /\ \A l \in Packets : Accepted(l)' <=> Accepted(l)
           /\ \A i, j \in 1..Len(sent') : sent'[i].packet = sent'[j].packet => i = j
<1> DEFINE n == Len(sent)
           r == [packet |-> k, peer |-> c.target]
<1>1. CASE sent' = Append(sent, r) /\ dropped' = dropped
    <2>1. r \in [packet : Packets, peer : Peers]
        BY DEF TypeOK, Rows
    <2>2. sent \in Seq([packet : Packets, peer : Peers])
        BY DEF TypeOK
    <2>3. r.packet = k
        OBVIOUS
    <2> HIDE DEF r
    <2>4. /\ n \in Nat
          /\ Len(sent') = n + 1
          /\ sent'[n + 1] = r
          /\ \A i \in 1..n : sent'[i] = sent[i]
        BY <1>1, <2>1, <2>2, AppendProperties, LenProperties
    <2>5. \A i \in 1..Len(sent') : i \in 1..n \/ i = n + 1
        BY <2>4
    <2>6. n + 1 \in 1..Len(sent') /\ \A i \in 1..n : i \in 1..Len(sent')
        BY <2>4
    <2>7. \A l \in Packets : Accepted(l)' <=> Accepted(l) \/ l = k
        BY <2>3, <2>4, <2>5, <2>6 DEF Accepted
    <2>8. \A i, j \in 1..Len(sent') : sent'[i].packet = sent'[j].packet => i = j
        BY <2>3, <2>4, <2>5 DEF Accepted, OnePlace
    <2> QED BY <1>1, <2>7, <2>8
<1>2. CASE sent' = sent /\ dropped' = dropped \cup {k}
    BY <1>2 DEF Accepted, OnePlace
<1> QED BY <1>1, <1>2 DEF HandToGNS

\* GNS takes, or refuses, all that waits for a peer.
LEMMA GNSDrains ==
    ASSUME TypeOK, OnePlace, NEW p \in Peers, NEW c, Drain(p, c), Alive'
    PROVE  /\ \A l \in Packets : Waiting(l)' => Waiting(l)
           /\ \/ /\ dropped' = dropped
                 /\ \A l \in Packets : Accepted(l)' <=> Accepted(l) \/ (Waiting(l) /\ ~Waiting(l)')
              \/ /\ \A l \in Packets :
                        l \in dropped' <=> l \in dropped \/ (Waiting(l) /\ ~Waiting(l)')
                 /\ \A l \in Packets : Accepted(l)' <=> Accepted(l)
           /\ \A i, j \in 1..Len(sent') : sent'[i].packet = sent'[j].packet => i = j
           /\ \A q, r \in Peers : \A i \in 1..Len(queued'[q]), j \in 1..Len(queued'[r]) :
                  queued'[q][i] = queued'[r][j] => q = r /\ i = j
<1> DEFINE q == queued[p]
           m == Len(q)
           n == Len(sent)
           t == [i \in 1..m |-> [packet |-> q[i], peer |-> p]]
           W(l) == \E i \in 1..m : q[i] = l
<1>1. /\ queued' = [queued EXCEPT ![p] = <<>>]
      /\ \/ sent' = sent \o t /\ dropped' = dropped
         \/ sent' = sent /\ dropped' = dropped \cup {q[i] : i \in 1..m}
    BY DEF Drain, DrainedQueue, Alive
<1>2. q \in Seq(Packets) /\ m \in Nat /\ \A i \in 1..m : q[i] \in Packets
    BY LenProperties, ElementOfSeq DEF TypeOK
<1>3. queued'[p] = <<>> /\ \A r \in Peers : r # p => queued'[r] = queued[r]
    BY <1>1 DEF TypeOK
<1>4. \A r \in Peers : \A i \in 1..Len(queued'[r]) :
          r # p /\ i \in 1..Len(queued[r]) /\ queued'[r][i] = queued[r][i]
    BY <1>3
<1>5. \A l \in Packets : Waiting(l)' => Waiting(l)
    BY <1>4 DEF Waiting
<1>6. ASSUME NEW l \in Packets PROVE Waiting(l) /\ ~Waiting(l)' <=> W(l)
    <2>1. ASSUME Waiting(l), ~Waiting(l)' PROVE W(l)
        <3>1. PICK r \in Peers : \E i \in 1..Len(queued[r]) : queued[r][i] = l
            BY <2>1 DEF Waiting
        <3>2. r = p
            BY <1>3, <2>1, <3>1 DEF Waiting
        <3> QED BY <3>1, <3>2
    <2>2. ASSUME W(l) PROVE Waiting(l) /\ ~Waiting(l)'
        <3>1. PICK i \in 1..Len(queued[p]) : queued[p][i] = l
            BY <2>2
        <3>2. Waiting(l)
            BY <3>1 DEF Waiting
        <3>3. \A r \in Peers : \A j \in 1..Len(queued[r]) : queued[r][j] = l => r = p
            BY <3>1 DEF OnePlace
        <3>4. ~Waiting(l)'
            BY <1>4, <3>3 DEF Waiting
        <3> QED BY <3>2, <3>4
    <2> QED BY <2>1, <2>2
<1>7. \A a, b \in Peers : \A i \in 1..Len(queued'[a]), j \in 1..Len(queued'[b]) :
          queued'[a][i] = queued'[b][j] => a = b /\ i = j
    BY <1>4 DEF OnePlace
<1>8. CASE sent' = sent /\ dropped' = dropped \cup {q[i] : i \in 1..m}
    <2>1. \A l \in Packets : l \in dropped' <=> l \in dropped \/ W(l)
        BY <1>8
    <2>2. \A l \in Packets : Accepted(l)' <=> Accepted(l)
        BY <1>8 DEF Accepted
    <2>3. \A i, j \in 1..Len(sent') : sent'[i].packet = sent'[j].packet => i = j
        BY <1>8 DEF OnePlace
    <2> HIDE DEF W
    <2> QED BY <1>5, <1>6, <1>7, <2>1, <2>2, <2>3
<1>9. CASE sent' = sent \o t /\ dropped' = dropped
    <2>1. sent \in Seq([packet : Packets, peer : Peers]) /\ n \in Nat
        BY LenProperties DEF TypeOK
    <2>2. t \in Seq([packet : Packets, peer : Peers]) /\ Len(t) = m
        <3> HIDE DEF q, m
        <3>1. \A i \in 1..m : [packet |-> q[i], peer |-> p] \in [packet : Packets, peer : Peers]
            BY <1>2
        <3> QED BY <1>2, <3>1, IsASeq
    <2>3. \A i \in 1..m : t[i].packet = q[i]
        OBVIOUS
    <2> HIDE DEF t, q, m, n
    <2>4. /\ Len(sent') = n + m
          /\ \A i \in 1..(n + m) : sent'[i] = IF i <= n THEN sent[i] ELSE t[i - n]
        BY <1>9, <2>1, <2>2, ConcatProperties DEF n
    <2>5. \A i \in 1..(n + m) : \/ i \in 1..n /\ sent'[i].packet = sent[i].packet
                                \/ i - n \in 1..m /\ i > n /\ sent'[i].packet = q[i - n]
        <3>1. ASSUME NEW i \in 1..(n + m), i <= n PROVE i \in 1..n /\ sent'[i] = sent[i]
            BY <1>2, <2>1, <2>4, <3>1
        <3>2. ASSUME NEW i \in 1..(n + m), ~(i <= n)
              PROVE  i - n \in 1..m /\ i > n /\ sent'[i] = t[i - n]
            BY <1>2, <2>1, <2>4, <3>2
        <3> QED BY <2>3, <3>1, <3>2
    <2>6. \A i \in 1..n : i \in 1..(n + m) /\ sent'[i].packet = sent[i].packet
        BY <1>2, <2>1, <2>4
    <2>7. \A i \in 1..m : i + n \in 1..(n + m) /\ sent'[i + n].packet = q[i]
        <3>1. \A i \in 1..m : i + n \in 1..(n + m) /\ ~(i + n <= n) /\ (i + n) - n = i
            BY <1>2, <2>1
        <3> QED BY <2>3, <2>4, <3>1
    <2>8. \A l \in Packets : Accepted(l)' <=> Accepted(l) \/ W(l)
        <3>1. ASSUME NEW l \in Packets, Accepted(l) PROVE Accepted(l)'
            BY <2>4, <2>6, <3>1 DEF Accepted, n
        <3>2. ASSUME NEW l \in Packets, W(l) PROVE Accepted(l)'
            BY <2>4, <2>7, <3>2 DEF Accepted
        <3>3. ASSUME NEW l \in Packets, Accepted(l)' PROVE Accepted(l) \/ W(l)
            BY <2>4, <2>5, <3>3 DEF Accepted, n
        <3> QED BY <3>1, <3>2, <3>3
    <2>9. \A i \in 1..n, j \in 1..m : sent[i].packet # q[j]
        <3> SUFFICES ASSUME NEW i \in 1..n, NEW j \in 1..m, sent[i].packet = q[j] PROVE FALSE
            OBVIOUS
        <3>1. Accepted(q[j]) /\ Waiting(q[j])
            BY DEF Accepted, Waiting, n, m, q
        <3> QED BY <1>2, <3>1 DEF OnePlace
    <2>10. \A i, j \in 1..m : q[i] = q[j] => i = j
        BY DEF OnePlace, q, m
    <2>11. \A i, j \in 1..n : sent[i].packet = sent[j].packet => i = j
        BY DEF OnePlace, n
    <2>12. ASSUME NEW i \in 1..(n + m), NEW j \in 1..(n + m), sent'[i].packet = sent'[j].packet
           PROVE  i = j
        <3>1. \/ i \in 1..n /\ j \in 1..n
              \/ i \in 1..n /\ j - n \in 1..m
              \/ i - n \in 1..m /\ j \in 1..n
              \/ i - n \in 1..m /\ j - n \in 1..m /\ i - n = j - n
            BY <2>5, <2>10, <2>12
        <3> QED BY <1>2, <2>1, <2>5, <2>9, <2>11, <2>12, <3>1
    <2>13. \A i, j \in 1..Len(sent') : sent'[i].packet = sent'[j].packet => i = j
        BY <2>4, <2>12
    <2> HIDE DEF W
    <2> QED BY <1>5, <1>6, <1>7, <1>9, <2>8, <2>13
<1> QED BY <1>1, <1>8, <1>9

\* A step that moves no packet.
LEMMA PacketsUntouched ==
    ASSUME OnePlace, UNCHANGED <<queued, sent, dropped, submitted>>, app'.packet = app.packet
    PROVE  OnePlace'
<1>1. \A k : (Accepted(k)' <=> Accepted(k)) /\ (Waiting(k)' <=> Waiting(k))
    BY DEF Accepted, Waiting
<1>2. Submitted' = Submitted
    BY DEF Submitted
<1> QED BY <1>1, <1>2 DEF OnePlace

\* Nobody holds a packet that has not been submitted.
LEMMA NewPacket ==
    ASSUME OnePlace, NEW k \in Packets, k \notin Submitted
    PROVE  app.packet # k /\ k \notin dropped /\ ~Accepted(k) /\ ~Waiting(k)
BY DEF OnePlace

\* SendMessage on the tick thread.
LEMMA PacketsOnTick ==
    ASSUME TypeOK, OnePlace, NEW p \in Peers, NEW k \in TickPackets, k \notin Submitted,
           SendMessageOnTick(p, k), app' = app
    PROVE  OnePlace'
<1>k. k \in Packets
    BY DEF Packets
<1>1. app.packet # k /\ k \notin dropped /\ ~Accepted(k) /\ ~Waiting(k)
    BY <1>k, NewPacket
<1>2. Submitted' = Submitted \cup {k}
    BY <1>k, SubmitAdds DEF SendMessageOnTick
<1>3. CASE QueueMessageOnConnect(p, k) /\ UNCHANGED <<sent, dropped>>
    <2>1. /\ \A l \in Packets : Waiting(l)' <=> Waiting(l) \/ l = k
          /\ \A q, r \in Peers : \A i \in 1..Len(queued'[q]), j \in 1..Len(queued'[r]) :
                 queued'[q][i] = queued'[r][j] => q = r /\ i = j
        BY <1>k, <1>1, <1>3, QueueTakes
    <2>2. \A l : Accepted(l)' <=> Accepted(l)
        BY <1>3 DEF Accepted
    <2> QED BY <1>1, <1>2, <1>3, <2>1, <2>2 DEF OnePlace
<1>4. CASE RowsTo(p) # {} /\ HandToGNS(RowTo(p), k) /\ UNCHANGED queued
    <2>1. RowTo(p) \in conns
        BY <1>4, RowToFound
    <2>2. /\ \/ /\ dropped' = dropped
                /\ \A l \in Packets : Accepted(l)' <=> Accepted(l) \/ l = k
             \/ /\ dropped' = dropped \cup {k}
                /\ \A l \in Packets : Accepted(l)' <=> Accepted(l)
          /\ \A i, j \in 1..Len(sent') : sent'[i].packet = sent'[j].packet => i = j
        BY <1>k, <1>1, <1>4, <2>1, GNSTakes
    <2>3. \A l : Waiting(l)' <=> Waiting(l)
        BY <1>4 DEF Waiting
    <2> QED BY <1>1, <1>2, <1>4, <2>2, <2>3 DEF OnePlace
<1> QED BY <1>3, <1>4 DEF SendMessageOnTick, tableVars

\* Every step preserves the invariant.
LEMMA NextPackets == TableInv /\ PacketInv /\ [Next]_vars => PacketInv'
<1> SUFFICES ASSUME TableInv, PacketInv, [Next]_vars PROVE PacketInv'
    OBVIOUS
<1>1. TypeOK /\ TypeOK'
    BY NextTypes DEF TableInv, TableMatchesGns
<1> SUFFICES ASSUME Alive' PROVE OnePlace'
    BY <1>1 DEF PacketInv
<1>2. CASE UNCHANGED vars
    BY <1>2, PacketsUntouched DEF vars, tableVars, logVars, PacketInv, Alive
<1> SUFFICES ASSUME Alive, Next PROVE OnePlace'
    BY <1>2 DEF Next, Tick, AppThread, Network, GenerateConnection, GenerateDone, ReceiveMessage,
            ReceiveDone, CallbackOnConnecting, CallbackOnConnected, CallbackOnClosedByPeer,
            CallbackOnProblemDetectedLocally, CallbacksDone, Delivers, AppLookup, AppEstablish,
            AppQueue, AppSend, CloseConnectionTo, PeerRegisters, PeerConnects, NetworkConnects,
            NetworkEnds, MessageArrives
<1>3. OnePlace
    BY DEF PacketInv
<1>4. Idle.packet = NoPacket /\ NoPacket \notin Packets
    BY InterlinkAssumption DEF Idle, Packets
<1>5. app.step # "idle" => app \in Calls /\ app.peer \in Peers /\ app.packet \in Packets
    <2>1. app \in Calls \cup {Idle}
        BY <1>1 DEF TypeOK
    <2>2. app \in Calls => app.peer \in Peers /\ app.packet \in Packets
        BY DEF Calls, Packets
    <2>3. Idle.step = "idle"
        BY DEF Idle
    <2> QED BY <2>1, <2>2, <2>3
<1>6. ASSUME ReceiveMessage PROVE OnePlace'
    <2>1. app' = app
        BY <1>6 DEF ReceiveMessage
    <2>2. CASE UNCHANGED <<tableVars, logVars>>
        BY <1>3, <2>1, <2>2, PacketsUntouched DEF tableVars, logVars
    <2>3. ASSUME NEW p \in Peers, NEW k \in TickPackets \ Submitted, SendMessageOnTick(p, k)
          PROVE  OnePlace'
        BY <1>1, <1>3, <2>1, <2>3, PacketsOnTick
    <2> QED BY <1>6, <2>2, <2>3 DEF ReceiveMessage
<1>7. ASSUME CallbackOnConnected PROVE OnePlace'
    <2>1. app' = app /\ submitted' = submitted
        BY <1>7 DEF CallbackOnConnected
    <2>2. CASE UNCHANGED <<queued, sent, dropped>>
        BY <1>3, <2>1, <2>2, PacketsUntouched
    <2>3. ASSUME NEW p \in Peers, NEW c, Drain(p, c) PROVE OnePlace'
        <3>1. /\ \A l \in Packets : Waiting(l)' => Waiting(l)
              /\ \/ /\ dropped' = dropped
                    /\ \A l \in Packets : Accepted(l)' <=> Accepted(l) \/ (Waiting(l) /\ ~Waiting(l)')
                 \/ /\ \A l \in Packets :
                           l \in dropped' <=> l \in dropped \/ (Waiting(l) /\ ~Waiting(l)')
                    /\ \A l \in Packets : Accepted(l)' <=> Accepted(l)
              /\ \A i, j \in 1..Len(sent') : sent'[i].packet = sent'[j].packet => i = j
              /\ \A q, r \in Peers : \A i \in 1..Len(queued'[q]), j \in 1..Len(queued'[r]) :
                     queued'[q][i] = queued'[r][j] => q = r /\ i = j
            BY <1>1, <1>3, <2>3, GNSDrains
        <3>2. Submitted' = Submitted
            BY <2>1 DEF Submitted
        <3> QED BY <1>3, <2>1, <3>1, <3>2 DEF OnePlace
    <2>4. RowsOf(Handle) # {} => RowOf(Handle).target \in Peers
        <3>1. \A c \in conns : c.target \in Peers
            BY <1>1 DEF TypeOK, Rows
        <3>2. RowsOf(Handle) # {} => RowOf(Handle) \in conns
            BY <1>1, RowOfFound
        <3> QED BY <3>1, <3>2
    <2> QED BY <1>7, <2>2, <2>3, <2>4 DEF CallbackOnConnected
<1>8. ASSUME NEW p \in Peers, NEW k \in AppPackets, AppLookup(p, k) PROVE OnePlace'
    <2>1. k \in Packets /\ k \notin Submitted
        BY <1>8 DEF AppLookup, Packets
    <2>2. app.packet # k /\ k \notin dropped /\ ~Accepted(k) /\ ~Waiting(k)
        BY <1>3, <2>1, NewPacket
    <2>3. Submitted' = Submitted \cup {k}
        BY <1>1, <1>8, <2>1, SubmitAdds DEF AppLookup
    <2>4. app'.packet = k /\ app.packet \notin Packets
        BY <1>4, <1>8 DEF AppLookup
    <2>5. /\ UNCHANGED <<queued, sent, dropped>>
          /\ \A l : (Accepted(l)' <=> Accepted(l)) /\ (Waiting(l)' <=> Waiting(l))
        BY <1>8 DEF AppLookup, tableVars, Accepted, Waiting
    <2> QED BY <1>3, <2>2, <2>3, <2>4, <2>5 DEF OnePlace
<1>9. ASSUME AppEstablish PROVE OnePlace'
    <2>1. app'.packet = app.packet
        BY <1>5, <1>9 DEF AppEstablish, Calls
    <2> QED BY <1>3, <1>9, <2>1, PacketsUntouched DEF AppEstablish, logVars
<1>10. ASSUME AppQueue PROVE OnePlace'
    <2>1. PICK k \in Packets, p \in Peers : k = app.packet /\ p = app.peer
        BY <1>5, <1>10 DEF AppQueue
    <2>2. k \notin dropped /\ ~Accepted(k) /\ ~Waiting(k) /\ k \in Submitted
        BY <1>3, <2>1 DEF OnePlace
    <2>3. /\ \A l \in Packets : Waiting(l)' <=> Waiting(l) \/ l = k
          /\ \A q, r \in Peers : \A i \in 1..Len(queued'[q]), j \in 1..Len(queued'[r]) :
                 queued'[q][i] = queued'[r][j] => q = r /\ i = j
        BY <1>1, <1>3, <1>10, <2>1, <2>2, QueueTakes DEF AppQueue
    <2>4. app'.packet \notin Packets
        BY <1>4, <1>10 DEF AppQueue
    <2>5. /\ UNCHANGED <<sent, dropped>> /\ Submitted' = Submitted
          /\ \A l : Accepted(l)' <=> Accepted(l)
        BY <1>10 DEF AppQueue, logVars, Accepted, Submitted
    <2> QED BY <1>3, <2>1, <2>2, <2>3, <2>4, <2>5 DEF OnePlace
<1>11. ASSUME AppSend PROVE OnePlace'
    <2>1. PICK k \in Packets : k = app.packet
        BY <1>5, <1>11 DEF AppSend
    <2>2. k \notin dropped /\ ~Accepted(k) /\ ~Waiting(k) /\ k \in Submitted
        BY <1>3, <2>1 DEF OnePlace
    <2>3. PICK c \in conns : HandToGNS(c, k)
        BY <1>11, <2>1 DEF AppSend, Alive
    <2>4. /\ \/ /\ dropped' = dropped
                /\ \A l \in Packets : Accepted(l)' <=> Accepted(l) \/ l = k
             \/ /\ dropped' = dropped \cup {k}
                /\ \A l \in Packets : Accepted(l)' <=> Accepted(l)
          /\ \A i, j \in 1..Len(sent') : sent'[i].packet = sent'[j].packet => i = j
        BY <1>1, <1>3, <2>2, <2>3, GNSTakes
    <2>5. app'.packet \notin Packets
        BY <1>4, <1>11 DEF AppSend
    <2>6. /\ UNCHANGED queued /\ Submitted' = Submitted
          /\ \A l : Waiting(l)' <=> Waiting(l)
        BY <1>11 DEF AppSend, tableVars, Waiting, Submitted
    <2> QED BY <1>3, <2>1, <2>2, <2>4, <2>5, <2>6 DEF OnePlace
<1>12. CASE \/ \E c \in conns : GenerateConnection(c)
            \/ GenerateDone \/ ReceiveDone \/ CallbacksDone
            \/ CallbackOnConnecting \/ CallbackOnClosedByPeer \/ CallbackOnProblemDetectedLocally
            \/ \E p \in Peers : CloseConnectionTo(p)
            \/ Network
    <2>1. UNCHANGED <<queued, sent, dropped, submitted>> /\ app' = app
        BY <1>12 DEF GenerateConnection, GenerateDone, ReceiveDone, CallbacksDone,
                     CallbackOnConnecting, CallbackOnClosedByPeer,
                     CallbackOnProblemDetectedLocally, CloseConnectionTo, Network, PeerRegisters,
                     PeerConnects, NetworkConnects, NetworkEnds, MessageArrives,
                     tableVars, logVars
    <2> QED BY <1>3, <2>1, PacketsUntouched
<1> QED BY <1>6, <1>7, <1>8, <1>9, <1>10, <1>11, <1>12 DEF Next, Tick, AppThread

\* Initially there is no packet anywhere.
LEMMA InitPackets == Init => PacketInv
<1> SUFFICES ASSUME Init PROVE PacketInv
    OBVIOUS
<1>1. TypeOK
    BY InitTypes
<1>2. Submitted = {} /\ dropped = {} /\ sent = <<>> /\ \A p \in Peers : queued[p] = <<>>
    BY DEF Init, Submitted
<1>3. app.packet \notin Packets
    BY InterlinkAssumption DEF Init, Idle, Packets
<1>4. \A k : ~Accepted(k) /\ ~Waiting(k)
    BY <1>2 DEF Accepted, Waiting
<1>5. OnePlace
    BY <1>2, <1>3, <1>4 DEF OnePlace
<1> QED BY <1>1, <1>5 DEF PacketInv

\* Every packet passed to SendMessage is in exactly one place, whatever the interleaving of
\* the application thread with the drain of CallbackOnConnected.
THEOREM PacketsAccounted == Spec => []PacketAccounted
<1>1. Init => PacketInv
    BY InitPackets
<1>2. TableInv /\ PacketInv /\ [Next]_vars => PacketInv'
    BY NextPackets
<1>3. PacketInv => PacketAccounted
    BY OnePlaceIsOne DEF PacketInv, PacketAccounted
<1> QED BY <1>1, <1>2, <1>3, TableInvariant, PTL DEF Spec

-----------------------------------------------------------------------------
(* Order, where each target has a single row. *)

\* A status change GNS posts about a handle keeps the connections of a peer in order.
LEMMA RedialsPost ==
    ASSUME TableInv, RedialsInv, TypeOK', NEW h \in Handles, NEW s \in Statuses, NEW g,
           Post(h, s), gns' = [gns EXCEPT ![h] = g], registered' = registered,
           \A x \in Handles : x # h => peer'[x] = peer[x],
           \/ /\ gns[h] = "none" /\ g = "Knocking" /\ s = "Connecting"
              /\ inbound' = inbound \cup {h} /\ peer'[h] \in Dialling
              /\ \A x \in inbound : peer[x] = peer'[h] => gns[x] \notin Up
           \/ gns[h] = "none" /\ g = "Connecting" /\ s = "Connecting" /\ inbound' = inbound
           \/ /\ gns[h] = "Connecting" /\ g = "Connected" /\ s = "Connected"
              /\ inbound' = inbound /\ peer'[h] = peer[h]
           \/ /\ gns[h] \in Up /\ g = s /\ s \in Ends
              /\ inbound' = inbound /\ peer'[h] = peer[h]
    PROVE  RedialsInv'
<1> DEFINE n == Len(callbacks)
<1>1. TypeOK
    BY DEF TableInv, TableMatchesGns
<1>2. /\ n \in Nat
      /\ Len(callbacks') = n + 1
      /\ callbacks'[n + 1] = [handle |-> h, status |-> s]
      /\ \A i \in 1..n : callbacks'[i] = callbacks[i]
    BY <1>1, Posted
<1>3. \A i \in 1..n : callbacks[i].handle \in Handles /\ gns[callbacks[i].handle] # "none"
    BY <1>1, CallbackTypes DEF TableInv, CallbacksInv
<1>4. \A i, j \in 1..n :
          /\ callbacks[i].handle \in inbound /\ callbacks[j].handle \in inbound
          /\ peer[callbacks[i].handle] = peer[callbacks[j].handle]
          /\ gns[callbacks[i].handle] = "Knocking" /\ callbacks[j].status \in Ends
          => j < i
    BY DEF RedialsInv
<1> HIDE DEF n
<1>5. gns'[h] = g /\ \A x \in Handles : x # h => gns'[x] = gns[x]
    BY <1>1 DEF TypeOK
<1>6. inbound \subseteq Handles
    BY <1>1 DEF TypeOK
<1>7. gns[h] = "none" => h \notin inbound
    BY DEF RedialsInv
<1>8. \A x \in inbound' : gns'[x] # "none" /\ peer'[x] \in Dialling
    BY <1>5, <1>6, <1>7 DEF RedialsInv, Ends
<1>9. \A x \in Handles : gns'[x] = "Knocking" => x \in inbound'
    BY <1>5 DEF RedialsInv, Ends
<1>10. \A x, y \in inbound' : peer'[x] = peer'[y] /\ gns'[x] \in Up /\ gns'[y] \in Up => x = y
    BY <1>5, <1>6, <1>7 DEF RedialsInv, Up, Ends
<1>11. ASSUME NEW i \in 1..(n + 1), NEW j \in 1..(n + 1),
              callbacks'[i].handle \in inbound', callbacks'[j].handle \in inbound',
              peer'[callbacks'[i].handle] = peer'[callbacks'[j].handle],
              gns'[callbacks'[i].handle] = "Knocking", callbacks'[j].status \in Ends
       PROVE  j < i
    <2>1. CASE i \in 1..n /\ j \in 1..n
        <3>1. callbacks'[i] = callbacks[i] /\ callbacks'[j] = callbacks[j]
            BY <1>2, <2>1
        <3> DEFINE x == callbacks[i].handle
                   y == callbacks[j].handle
        <3>2. x \in inbound /\ y \in inbound
            BY <1>3, <1>11, <2>1, <3>1
        <3>3. peer'[x] = peer[x] /\ peer'[y] = peer[y]
            BY <1>3, <2>1
        <3>4. gns[x] = "Knocking"
            BY <1>3, <1>5, <1>11, <2>1, <3>1 DEF Ends
        <3> QED BY <1>4, <1>11, <2>1, <3>1, <3>2, <3>3, <3>4
    <2>2. CASE j = n + 1 /\ i \in 1..n
        <3>1. s \in Ends /\ gns[h] \in Up /\ inbound' = inbound /\ peer'[h] = peer[h] /\ g = s
            BY <1>2, <1>11, <2>2 DEF Ends
        <3> DEFINE x == callbacks[i].handle
        <3>2. /\ x \in inbound /\ h \in inbound /\ x \in Handles
              /\ gns'[x] = "Knocking"
              /\ peer'[x] = peer'[h]
            BY <1>2, <1>3, <1>11, <2>2, <3>1
        <3>3. x # h
            BY <1>5, <3>1, <3>2 DEF Ends
        <3>4. gns[x] \in Up /\ peer[x] = peer[h]
            BY <1>5, <3>1, <3>2, <3>3 DEF Up
        <3> QED BY <3>1, <3>2, <3>3, <3>4 DEF RedialsInv
    <2>3. CASE i = n + 1 /\ j \in 1..n
        BY <1>2, <2>3
    <2>4. CASE i = n + 1 /\ j = n + 1
        BY <1>2, <1>5, <1>11, <2>4 DEF Ends
    <2>5. (i \in 1..n \/ i = n + 1) /\ (j \in 1..n \/ j = n + 1)
        BY <1>2
    <2> QED BY <2>1, <2>2, <2>3, <2>4, <2>5
<1>12. registered' \subseteq Dialled
    BY DEF RedialsInv
<1> QED BY <1>2, <1>8, <1>9, <1>10, <1>11, <1>12 DEF RedialsInv

\* So does the delivery of a callback, and a handle that is closed.
LEMMA RedialsDeliver ==
    ASSUME TableInv, RedialsInv, TypeOK', NEW H \in Handles, registered' = registered,
           UNCHANGED <<peer, inbound>>,
           \A x \in Handles : x # H => gns'[x] = gns[x],
           \/ gns'[H] = gns[H]
           \/ gns'[H] = "closed"
           \/ gns[H] = "Knocking" /\ gns'[H] = "Connecting",
           \/ callbacks' = callbacks
           \/ \E s : Delivers(s) /\ callbacks' = Tail(callbacks)
    PROVE  RedialsInv'
<1>1. TypeOK
    BY DEF TableInv, TableMatchesGns
<1>2. PICK o \in {0, 1} : /\ Len(callbacks') = Len(callbacks) - o
                          /\ \A i \in 1..Len(callbacks') : callbacks'[i] = callbacks[i + o]
    <2>1. CASE callbacks' = callbacks
        <3>1. Len(callbacks) \in Nat
            BY <1>1, LenProperties DEF TypeOK
        <3>2. Len(callbacks') = Len(callbacks) - 0 /\ \A i \in 1..Len(callbacks') : i + 0 = i
            BY <2>1, <3>1
        <3>3. \A i \in 1..Len(callbacks') : callbacks'[i] = callbacks[i + 0]
            BY <2>1, <3>2
        <3> QED BY <3>2, <3>3
    <2>2. ASSUME NEW s, Delivers(s), callbacks' = Tail(callbacks)
          PROVE  /\ Len(callbacks') = Len(callbacks) - 1
                 /\ \A i \in 1..Len(callbacks') : callbacks'[i] = callbacks[i + 1]
        BY <1>1, <2>2, Delivered
    <2> QED BY <2>1, <2>2
<1>3. Len(callbacks) \in Nat
    BY <1>1, LenProperties DEF TypeOK
<1>4. \A i \in 1..Len(callbacks') : i + o \in 1..Len(callbacks)
    BY <1>2, <1>3
<1>5. inbound \subseteq Handles
    BY <1>1 DEF TypeOK
<1>6. \A x \in Handles : /\ gns'[x] = "Knocking" => gns[x] = "Knocking"
                         /\ gns'[x] \in Up => gns[x] \in Up
                         /\ gns[x] # "none" => gns'[x] # "none"
    BY DEF Up
<1>7. \A i, j \in 1..Len(callbacks') :
          /\ callbacks'[i].handle \in inbound' /\ callbacks'[j].handle \in inbound'
          /\ peer'[callbacks'[i].handle] = peer'[callbacks'[j].handle]
          /\ gns'[callbacks'[i].handle] = "Knocking" /\ callbacks'[j].status \in Ends
          => j < i
    <2> SUFFICES ASSUME NEW i \in 1..Len(callbacks'), NEW j \in 1..Len(callbacks'),
                        callbacks'[i].handle \in inbound, callbacks'[j].handle \in inbound,
                        peer[callbacks'[i].handle] = peer[callbacks'[j].handle],
                        gns'[callbacks'[i].handle] = "Knocking", callbacks'[j].status \in Ends
                 PROVE  j < i
        OBVIOUS
    <2>1. gns[callbacks'[i].handle] = "Knocking"
        BY <1>5, <1>6
    <2>2. j + o < i + o
        <3>1. PICK x, y : x = i + o /\ y = j + o
            OBVIOUS
        <3>2. /\ x \in 1..Len(callbacks) /\ y \in 1..Len(callbacks)
              /\ callbacks'[i] = callbacks[x] /\ callbacks'[j] = callbacks[y]
            BY <1>2, <1>4, <3>1
        <3>3. y < x
            BY <2>1, <3>2 DEF RedialsInv
        <3> QED BY <3>1, <3>3
    <2> QED BY <2>2
<1>8. \A x \in inbound' : gns'[x] # "none" /\ peer'[x] \in Dialling
    BY <1>5, <1>6 DEF RedialsInv
<1>9. \A x \in Handles : gns'[x] = "Knocking" => x \in inbound'
    BY <1>6 DEF RedialsInv
<1>10. \A x, y \in inbound' : peer'[x] = peer'[y] /\ gns'[x] \in Up /\ gns'[y] \in Up => x = y
    BY <1>5, <1>6 DEF RedialsInv
<1>11. registered' \subseteq Dialled
    BY DEF RedialsInv
<1> QED BY <1>7, <1>8, <1>9, <1>10, <1>11 DEF RedialsInv

\* A peer that dialled has no row when its callback is delivered.
LEMMA AcceptedHasNoRow ==
    ASSUME TableInv, SingleRows, RedialsInv, Dialled \cap Dialling = {}, NEW s, Delivers(s),
           RowsOf(Handle) = {}, gns[Handle] = "Knocking", callbacks' = Tail(callbacks)
    PROVE  \A c \in conns : c.target # peer[Handle]
<1> SUFFICES ASSUME NEW c \in conns, c.target = peer[Handle] PROVE FALSE
    OBVIOUS
<1>1. TypeOK
    BY DEF TableInv, TableMatchesGns
<1>2. PICK H \in Handles : /\ H = Handle
                           /\ Len(callbacks) \in Nat /\ Len(callbacks) >= 1
                           /\ callbacks[1] = [handle |-> H, status |-> s]
    BY <1>1, Delivered
<1>3. H \in inbound /\ peer[H] \in Dialling
    BY <1>2 DEF RedialsInv
<1>4. PICK g : g = c.handle
    OBVIOUS
<1>5. g \in inbound /\ g \in Handles /\ g # NoHandle
    BY <1>1, <1>2, <1>3, <1>4, InterlinkAssumption DEF SingleRows, TypeOK, Handles
<1>6. peer[g] = peer[H] /\ gns[g] \notin {"none", "Knocking", "closed"} /\ g # H
    BY <1>2, <1>4, <1>5 DEF TableInv, RowsInv, RowsOf
<1>7. gns[g] \notin Up
    BY <1>2, <1>3, <1>5, <1>6 DEF RedialsInv, Up
<1>8. gns[g] \in Ends
    BY <1>1, <1>5, <1>6, <1>7 DEF TypeOK, Statuses, Ends, Up
<1>9. PICK j \in 1..Len(callbacks) : callbacks[j] = [handle |-> g, status |-> gns[g]]
    BY <1>4, <1>5, <1>7 DEF TableInv, TableMatchesGns, NoStaleRow, Up
<1>10. 1 \in 1..Len(callbacks) /\ callbacks[1].handle = H
    BY <1>2
<1>11. j < 1
    BY <1>2, <1>3, <1>5, <1>6, <1>8, <1>9, <1>10 DEF RedialsInv
<1> QED BY <1>11

\* EstablishConnectionTo adds a row to a target that has none and that this process dials.
LEMMA SingleEstablish ==
    ASSUME SingleRows, RedialsInv, NEW p, EstablishConnectionTo(p), inbound' = inbound
    PROVE  SingleRows'
<1>1. CASE conns' = conns
    BY <1>1 DEF SingleRows
<1>2. CASE RowsTo(p) = {} /\ p \in registered
    <2>1. PICK d : d = NewRow(p, NoHandle, "PreConnecting")
        OBVIOUS
    <2>2. conns' = conns \cup {d} /\ d.target = p
        BY <1>2, <2>1 DEF EstablishConnectionTo, NewRow
    <2>3. \A c \in conns : c.target # p
        BY <1>2 DEF RowsTo
    <2>4. p \in Dialled
        BY <1>2 DEF RedialsInv
    <2> QED BY <2>2, <2>3, <2>4 DEF SingleRows
<1> QED BY <1>1, <1>2 DEF EstablishConnectionTo

\* Every step preserves the two invariants on rows.
LEMMA NextSingle ==
    ASSUME Dialled \cap Dialling = {}, ~EarlyRedial,
           TableInv, SingleRows, RedialsInv, [Next]_vars
    PROVE  SingleRows' /\ RedialsInv'
<1>1. TypeOK /\ TypeOK'
    BY NextTypes DEF TableInv, TableMatchesGns
<1>2. ASSUME UNCHANGED <<gns, peer, inbound, callbacks>>, registered' \subseteq Dialled
      PROVE  RedialsInv'
    BY <1>2 DEF RedialsInv
<1>3. ASSUME UNCHANGED <<conns, inbound>> PROVE SingleRows'
    BY <1>3 DEF SingleRows
<1>4. ASSUME conns' \subseteq conns, UNCHANGED inbound PROVE SingleRows'
    BY <1>4 DEF SingleRows
<1>5. registered' = registered => registered' \subseteq Dialled
    BY DEF RedialsInv
<1>6. ASSUME NEW c \in conns, GenerateConnection(c) PROVE SingleRows' /\ RedialsInv'
    <2>1. CASE UNCHANGED <<conns, gns, peer, callbacks>>
        BY <1>2, <1>3, <1>5, <1>6, <2>1 DEF GenerateConnection
    <2>2. CASE /\ FreeHandles # {}
               /\ Replace(c, [c EXCEPT !.handle = NewHandle])
               /\ gns' = [gns EXCEPT ![NewHandle] = "Connecting"]
               /\ peer' = [peer EXCEPT ![NewHandle] = c.target]
               /\ Post(NewHandle, "Connecting")
        <3>1. PICK h \in Handles : h = NewHandle /\ gns[h] = "none"
            BY <2>2, NewHandleFree
        <3>2. c.handle = NoHandle /\ c \in Rows
            BY <1>1, <1>6 DEF TableInv, DialledInv, TypeOK, GenerateConnection, PreConnecting
        <3>3. c.handle \notin inbound
            BY <1>1, <3>2, InterlinkAssumption DEF TypeOK, Handles
        <3>4. PICK d : d = [c EXCEPT !.handle = h]
            OBVIOUS
        <3>5. conns' = (conns \ {c}) \cup {d} /\ d.target = c.target
            BY <2>2, <3>1, <3>2, <3>4 DEF Replace, Rows
        <3>6. inbound' = inbound /\ registered' = registered
            BY <1>6 DEF GenerateConnection
        <3>7. SingleRows'
            BY <3>3, <3>5, <3>6 DEF SingleRows
        <3>8. PICK s \in Statuses : s = "Connecting"
            BY DEF Statuses
        <3>9. /\ Post(h, s) /\ gns' = [gns EXCEPT ![h] = s]
              /\ \A x \in Handles : x # h => peer'[x] = peer[x]
            BY <1>1, <2>2, <3>1, <3>8 DEF TypeOK
        <3>10. RedialsInv'
            BY <1>1, <3>1, <3>6, <3>8, <3>9, RedialsPost
        <3> QED BY <3>7, <3>10
    <2> QED BY <1>6, <2>1, <2>2 DEF GenerateConnection
<1>7. CASE GenerateDone \/ ReceiveDone \/ CallbacksDone
    BY <1>2, <1>3, <1>5, <1>7 DEF GenerateDone, ReceiveDone, CallbacksDone, tableVars, gnsVars
<1>8. ASSUME ReceiveMessage PROVE SingleRows' /\ RedialsInv'
    <2>1. UNCHANGED <<registered, gns, peer, inbound, callbacks>>
        BY <1>8 DEF ReceiveMessage, gnsVars
    <2>2. CASE conns' = conns
        BY <1>2, <1>3, <1>5, <2>1, <2>2
    <2>3. ASSUME NEW p \in Peers, EstablishConnectionTo(p) PROVE SingleRows' /\ RedialsInv'
        BY <1>2, <1>5, <2>1, <2>3, SingleEstablish
    <2> QED BY <1>8, <2>2, <2>3 DEF ReceiveMessage, SendMessageOnTick, tableVars
<1>9. ASSUME CallbackOnConnecting PROVE SingleRows' /\ RedialsInv'
    <2>1. /\ Delivers("Connecting") /\ callbacks' = Tail(callbacks)
          /\ UNCHANGED <<registered, peer, inbound>>
        BY <1>9 DEF CallbackOnConnecting
    <2>2. PICK H \in Handles : H = Handle
        BY <1>1, <2>1, Delivered
    <2>3. CASE /\ RowsOf(Handle) # {}
               /\ Replace(RowOf(Handle), [RowOf(Handle) EXCEPT !.state = "Connecting"])
               /\ UNCHANGED <<nextRow, gns, inbox>>
        <3>1. PICK c \in conns : c = RowOf(Handle)
            BY <1>1, <2>3, RowOfFound
        <3>2. PICK d : d = [c EXCEPT !.state = "Connecting"]
            OBVIOUS
        <3>3. conns' = (conns \ {c}) \cup {d} /\ d.target = c.target /\ d.handle = c.handle
            BY <1>1, <2>3, <3>1, <3>2 DEF Replace, TypeOK, Rows
        <3>4. SingleRows'
            BY <2>1, <3>3 DEF SingleRows
        <3>5. RedialsInv'
            BY <1>1, <2>1, <2>2, <2>3, RedialsDeliver
        <3> QED BY <3>4, <3>5
    <2>4. CASE /\ RowsOf(Handle) = {}
               /\ gns[Handle] = "Knocking"
               /\ gns' = [gns EXCEPT ![Handle] = "Connecting"]
               /\ conns' = conns \cup {NewRow(peer[Handle], Handle, "Connecting")}
        <3>1. \A c \in conns : c.target # peer[H]
            BY <2>1, <2>2, <2>4, AcceptedHasNoRow
        <3>2. PICK d : d = NewRow(peer[H], H, "Connecting")
            OBVIOUS
        <3>3. conns' = conns \cup {d} /\ d.target = peer[H] /\ d.handle = H
            BY <2>2, <2>4, <3>2 DEF NewRow
        <3>4. H \in inbound
            BY <2>2, <2>4 DEF RedialsInv
        <3>5. SingleRows'
            BY <2>1, <3>1, <3>3, <3>4 DEF SingleRows
        <3>6. gns[H] = "Knocking" /\ gns'[H] = "Connecting" /\ \A x \in Handles : x # H => gns'[x] = gns[x]
            BY <1>1, <2>2, <2>4 DEF TypeOK
        <3>7. RedialsInv'
            BY <1>1, <2>1, <3>6, RedialsDeliver
        <3> QED BY <3>5, <3>7
    <2>5. CASE /\ CloseHandle(Handle)
               /\ UNCHANGED <<conns, nextRow>>
        <3>1. gns'[H] = "closed" /\ \A x \in Handles : x # H => gns'[x] = gns[x]
            BY <1>1, <2>2, <2>5, Closed
        <3>2. RedialsInv'
            BY <1>1, <2>1, <3>1, RedialsDeliver
        <3> QED BY <1>3, <2>1, <2>5, <3>2
    <2> QED BY <1>9, <2>3, <2>4, <2>5 DEF CallbackOnConnecting
<1>10. ASSUME CallbackOnConnected PROVE SingleRows' /\ RedialsInv'
    <2>1. /\ Delivers("Connected") /\ callbacks' = Tail(callbacks)
          /\ UNCHANGED <<registered, gns, peer, inbound>>
        BY <1>10 DEF CallbackOnConnected
    <2>2. PICK H \in Handles : H = Handle
        BY <1>1, <2>1, Delivered
    <2>3. RedialsInv'
        BY <1>1, <2>1, <2>2, RedialsDeliver
    <2>4. CASE RowsOf(Handle) = {}
        BY <1>3, <1>10, <2>1, <2>3, <2>4 DEF CallbackOnConnected
    <2>5. CASE RowsOf(Handle) # {}
        <3>1. PICK c \in conns : c = RowOf(Handle)
            BY <1>1, <2>5, RowOfFound
        <3>2. PICK d : d = [c EXCEPT !.state = "Connected"]
            OBVIOUS
        <3>3. conns' = (conns \ {c}) \cup {d}
            BY <1>10, <2>5, <3>1, <3>2 DEF CallbackOnConnected, Replace
        <3>4. d.target = c.target /\ d.handle = c.handle
            BY <1>1, <3>2 DEF TypeOK, Rows
        <3>5. SingleRows'
            BY <2>1, <3>3, <3>4 DEF SingleRows
        <3> QED BY <2>3, <3>5
    <2> QED BY <2>4, <2>5
<1>11. ASSUME CallbackOnClosedByPeer PROVE SingleRows' /\ RedialsInv'
    <2>1. /\ Delivers("ClosedByPeer") /\ callbacks' = Tail(callbacks)
          /\ UNCHANGED <<registered, peer, inbound>> /\ conns' \subseteq conns
        BY <1>11 DEF CallbackOnClosedByPeer
    <2>2. PICK H \in Handles : H = Handle
        BY <1>1, <2>1, Delivered
    <2>3. /\ gns'[H] = gns[H] \/ gns'[H] = "closed"
          /\ \A x \in Handles : x # H => gns'[x] = gns[x]
        BY <1>1, <1>11, <2>2, Closed DEF CallbackOnClosedByPeer
    <2>4. RedialsInv'
        BY <1>1, <2>1, <2>3, RedialsDeliver
    <2> QED BY <1>4, <2>1, <2>4
<1>12. ASSUME CallbackOnProblemDetectedLocally PROVE SingleRows' /\ RedialsInv'
    <2>1. /\ Delivers("ProblemDetectedLocally") /\ callbacks' = Tail(callbacks)
          /\ UNCHANGED <<registered, gns, peer, inbound>> /\ conns' \subseteq conns
        BY <1>12 DEF CallbackOnProblemDetectedLocally
    <2>2. PICK H \in Handles : H = Handle
        BY <1>1, <2>1, Delivered
    <2>3. RedialsInv'
        BY <1>1, <2>1, <2>2, RedialsDeliver
    <2> QED BY <1>4, <2>1, <2>3
<1>13. CASE (\E p \in Peers, k \in AppPackets : AppLookup(p, k)) \/ AppQueue \/ AppSend
    BY <1>2, <1>3, <1>5, <1>13 DEF AppLookup, AppQueue, AppSend, tableVars, gnsVars
<1>14. ASSUME AppEstablish PROVE SingleRows' /\ RedialsInv'
    <2>1. PICK p : p = app.peer /\ EstablishConnectionTo(p)
        BY <1>14 DEF AppEstablish
    <2>2. UNCHANGED <<registered, gns, peer, inbound, callbacks>>
        BY <1>14 DEF AppEstablish, gnsVars
    <2> QED BY <1>2, <1>5, <2>1, <2>2, SingleEstablish
<1>15. ASSUME NEW p \in Peers, CloseConnectionTo(p) PROVE SingleRows' /\ RedialsInv'
    <2>1. /\ UNCHANGED <<registered, peer, inbound, callbacks>> /\ conns' \subseteq conns
        BY <1>15 DEF CloseConnectionTo
    <2>2. PICK h : h = RowTo(p).handle /\ CloseHandle(h)
        BY <1>15 DEF CloseConnectionTo
    <2>3. h \in Handles \/ h = NoHandle
        BY <1>1, <1>15, <2>2, RowToFound DEF TypeOK, Rows, CloseConnectionTo
    <2>4. CASE h = NoHandle
        BY <1>2, <1>4, <1>5, <2>1, <2>2, <2>4 DEF CloseHandle
    <2>5. CASE h \in Handles
        <3>1. gns'[h] = "closed" /\ \A x \in Handles : x # h => gns'[x] = gns[x]
            BY <1>1, <2>2, <2>5, Closed
        <3>2. RedialsInv'
            BY <1>1, <2>1, <2>5, <3>1, RedialsDeliver
        <3> QED BY <1>4, <2>1, <3>2
    <2> QED BY <2>3, <2>4, <2>5
<1>16. ASSUME NEW p \in Peers, PeerRegisters(p) PROVE SingleRows' /\ RedialsInv'
    <2>1. registered' \subseteq Dialled
        BY <1>16 DEF PeerRegisters, RedialsInv
    <2> QED BY <1>2, <1>3, <1>16, <2>1 DEF PeerRegisters, tableVars, gnsVars
<1>17. ASSUME NEW p \in Peers, PeerConnects(p) PROVE SingleRows' /\ RedialsInv'
    <2>1. PICK h \in Handles : h = NewHandle /\ gns[h] = "none"
        BY <1>17, NewHandleFree DEF PeerConnects
    <2>2. PICK s \in Statuses : s = "Connecting"
        BY DEF Statuses
    <2>3. /\ Post(h, s)
          /\ gns' = [gns EXCEPT ![h] = "Knocking"]
          /\ \A x \in Handles : x # h => peer'[x] = peer[x]
          /\ peer'[h] = p /\ p \in Dialling
          /\ inbound' = inbound \cup {h}
          /\ UNCHANGED <<conns, registered>>
        BY <1>1, <1>17, <2>1, <2>2 DEF PeerConnects, TypeOK, tableVars
    <2>4. \A x \in inbound : peer[x] = p => gns[x] \notin Up
        BY <1>17 DEF PeerConnects, Up
    <2>5. RedialsInv'
        BY <1>1, <2>1, <2>2, <2>3, <2>4, RedialsPost
    <2>6. SingleRows'
        BY <2>3 DEF SingleRows
    <2> QED BY <2>5, <2>6
<1>18. ASSUME NEW h \in Handles, NetworkConnects(h) PROVE SingleRows' /\ RedialsInv'
    <2>1. PICK s \in Statuses : s = "Connected"
        BY DEF Statuses
    <2>2. /\ Post(h, s) /\ gns' = [gns EXCEPT ![h] = s] /\ gns[h] = "Connecting"
          /\ UNCHANGED <<conns, registered, peer, inbound>>
        BY <1>18, <2>1 DEF NetworkConnects, tableVars
    <2>3. RedialsInv'
        BY <1>1, <2>1, <2>2, RedialsPost
    <2> QED BY <1>3, <2>2, <2>3
<1>19. ASSUME NEW h \in Handles, NEW s \in Ends, NetworkEnds(h, s)
       PROVE  SingleRows' /\ RedialsInv'
    <2>1. s \in Statuses
        BY DEF Statuses, Ends
    <2>2. /\ Post(h, s) /\ gns' = [gns EXCEPT ![h] = s] /\ gns[h] \in Up
          /\ UNCHANGED <<conns, registered, peer, inbound>>
        BY <1>19 DEF NetworkEnds, tableVars, Up
    <2>3. RedialsInv'
        BY <1>1, <2>1, <2>2, RedialsPost
    <2> QED BY <1>3, <2>2, <2>3
<1>20. ASSUME NEW h \in Handles, MessageArrives(h) PROVE SingleRows' /\ RedialsInv'
    BY <1>2, <1>3, <1>5, <1>20 DEF MessageArrives, tableVars
<1>21. CASE UNCHANGED vars
    BY <1>2, <1>3, <1>5, <1>21 DEF vars, tableVars, gnsVars
<1> QED BY <1>6, <1>7, <1>8, <1>9, <1>10, <1>11, <1>12, <1>13, <1>14, <1>15, <1>16, <1>17, <1>18,
           <1>19, <1>20, <1>21
        DEF Next, Tick, AppThread, Network, Ends

\* Initially the rows are single and nothing was sent.
LEMMA InitOrder == Init => SingleRows /\ RedialsInv /\ QueuesInv
<1> SUFFICES ASSUME Init PROVE SingleRows /\ RedialsInv /\ QueuesInv
    OBVIOUS
<1>1. \/ conns = {}
      \/ \E p \in registered : conns = {[row |-> 1, target |-> p, handle |-> NoHandle,
                                         state |-> "PreConnecting"]}
    BY DEF Init
<1>2. registered \subseteq Dialled /\ inbound = {} /\ callbacks = <<>>
    BY DEF Init
<1>3. SingleRows
    BY <1>1, <1>2 DEF SingleRows
<1>4. \A h \in Handles : gns[h] = "none"
    BY DEF Init
<1>5. RedialsInv
    BY <1>2, <1>4 DEF RedialsInv
<1>6. \A c \in conns : c.state # "Connected"
    BY <1>1
<1>7. sent = <<>> /\ \A p \in Peers : queued[p] = <<>>
    BY DEF Init
<1>8. QueuesInv
    BY <1>6, <1>7 DEF QueuesInv
<1> QED BY <1>3, <1>5, <1>8

\* InOrder and QueuesInv of given values, of this state or the next.
Before(log, k, l, p) ==
    \A m, n \in 1..Len(log) :
        log[m] = [packet |-> k, peer |-> p] /\ log[n] = [packet |-> l, peer |-> p] => m < n
NoneWaits(rows, queues) == \A c \in rows : c.state = "Connected" => queues[c.target] = <<>>
SentOrdered(out, log) ==
    \A i, j \in 1..Len(out) :
        i < j /\ out[i].peer = out[j].peer => Before(log, out[i].packet, out[j].packet, out[i].peer)
QueuesOrdered(queues, log) ==
    \A p \in Peers : \A i, j \in 1..Len(queues[p]) :
        i < j => Before(log, queues[p][i], queues[p][j], p)
QueuesBehind(queues, out, log) ==
    \A p \in Peers : \A i \in 1..Len(out), j \in 1..Len(queues[p]) :
        out[i].peer = p => Before(log, out[i].packet, queues[p][j], p)

\* The order of the packets in this state ...
LEMMA OrderNow ==
    ASSUME QueuesInv
    PROVE  /\ NoneWaits(conns, queued) /\ SentOrdered(sent, submitted)
           /\ QueuesOrdered(queued, submitted) /\ QueuesBehind(queued, sent, submitted)
<1>1. NoneWaits(conns, queued)
    BY DEF QueuesInv, NoneWaits
<1>2. SentOrdered(sent, submitted)
    BY DEF QueuesInv, SentOrdered, InOrder, Before
<1>3. QueuesOrdered(queued, submitted)
    BY DEF QueuesInv, QueuesOrdered, InOrder, Before
<1>4. QueuesBehind(queued, sent, submitted)
    BY DEF QueuesInv, QueuesBehind, InOrder, Before
<1> QED BY <1>1, <1>2, <1>3, <1>4

\* ... and in the next.
LEMMA OrderNext ==
    ASSUME NoneWaits(conns', queued'), SentOrdered(sent', submitted'),
           QueuesOrdered(queued', submitted'), QueuesBehind(queued', sent', submitted')
    PROVE  QueuesInv'
<1>1. \A c \in conns' : c.state = "Connected" => queued'[c.target] = <<>>
    BY DEF NoneWaits
<1>2. \A i, j \in 1..Len(sent') : i < j /\ sent'[i].peer = sent'[j].peer =>
          \A m, n \in 1..Len(submitted') :
              /\ submitted'[m] = [packet |-> sent'[i].packet, peer |-> sent'[i].peer]
              /\ submitted'[n] = [packet |-> sent'[j].packet, peer |-> sent'[i].peer]
              => m < n
    BY DEF SentOrdered, Before
<1>3. \A p \in Peers : \A i, j \in 1..Len(queued'[p]) : i < j =>
          \A m, n \in 1..Len(submitted') :
              /\ submitted'[m] = [packet |-> queued'[p][i], peer |-> p]
              /\ submitted'[n] = [packet |-> queued'[p][j], peer |-> p]
              => m < n
    BY DEF QueuesOrdered, Before
<1>4. \A p \in Peers : \A i \in 1..Len(sent'), j \in 1..Len(queued'[p]) : sent'[i].peer = p =>
          \A m, n \in 1..Len(submitted') :
              /\ submitted'[m] = [packet |-> sent'[i].packet, peer |-> p]
              /\ submitted'[n] = [packet |-> queued'[p][j], peer |-> p]
              => m < n
    BY DEF QueuesBehind, Before
<1> QED BY ONLY <1>1, <1>2, <1>3, <1>4 DEF QueuesInv, InOrder

\* A step that moves no packet and connects no target.
LEMMA QueuesUntouched ==
    ASSUME QueuesInv, UNCHANGED <<queued, sent, submitted>>,
           \A c \in conns' : c.state = "Connected" =>
               \E d \in conns : d.state = "Connected" /\ d.target = c.target
    PROVE  QueuesInv'
<1>1. NoneWaits(conns', queued')
    BY OrderNow DEF NoneWaits
<1> QED BY <1>1, OrderNow, OrderNext

\* A packet that is submitted comes after all that were.
LEMMA NewestLast ==
    ASSUME TypeOK, NEW p \in Peers, NEW k \in Packets, k \notin Submitted, Submit(p, k),
           NEW a, NEW b, NEW r, a # k, b # k => Before(submitted, a, b, r)
    PROVE  Before(submitted', a, b, r)
<1> SUFFICES ASSUME NEW x \in 1..Len(submitted'), NEW y \in 1..Len(submitted'),
                    submitted'[x] = [packet |-> a, peer |-> r],
                    submitted'[y] = [packet |-> b, peer |-> r]
             PROVE  x < y
    BY DEF Before
<1>1. /\ Len(submitted) \in Nat
      /\ Len(submitted') = Len(submitted) + 1
      /\ submitted'[Len(submitted) + 1] = [packet |-> k, peer |-> p]
      /\ \A i \in 1..Len(submitted) : submitted'[i] = submitted[i]
    BY SubmitAdds
<1>2. PICK n \in Nat : n = Len(submitted)
    BY <1>1
<1>3. \A i \in 1..n : submitted[i].packet # k
    BY <1>2 DEF Submitted
<1>4. (x \in 1..n \/ x = n + 1) /\ (y \in 1..n \/ y = n + 1)
    BY <1>1, <1>2
<1>5. submitted'[x].packet = a /\ submitted'[y].packet = b /\ submitted'[n + 1].packet = k
    BY <1>1, <1>2
<1>6. x \in 1..n
    BY <1>4, <1>5
<1>7. CASE b = k
    <2>1. y = n + 1
        BY <1>1, <1>2, <1>3, <1>4, <1>5, <1>7
    <2> QED BY <1>6, <2>1
<1>8. CASE b # k
    <2>1. y \in 1..n
        BY <1>4, <1>5, <1>8
    <2>2. submitted[x] = [packet |-> a, peer |-> r] /\ submitted[y] = [packet |-> b, peer |-> r]
        BY <1>1, <1>2, <1>6, <2>1
    <2> QED BY <1>2, <1>6, <1>8, <2>1, <2>2 DEF Before
<1> QED BY <1>7, <1>8

\* SendMessage on the tick thread puts the packet behind the others, and into the queue only
\* where the peer has no connection that is up.
LEMMA QueuesOnTick ==
    ASSUME TypeOK, OnePlace, SingleRows, QueuesInv, NEW p \in Peers, NEW k \in TickPackets,
           k \notin Submitted, SendMessageOnTick(p, k)
    PROVE  QueuesInv'
<1>1. k \in Packets /\ Submit(p, k)
    BY DEF Packets, SendMessageOnTick
<1>2. (\A i \in 1..Len(sent) : sent[i].packet # k)
      /\ \A r \in Peers : \A i \in 1..Len(queued[r]) : queued[r][i] # k
    BY <1>1, NewPacket DEF Accepted, Waiting
<1>3. ASSUME NEW a, NEW b, NEW r, a # k, b # k => Before(submitted, a, b, r)
      PROVE  Before(submitted', a, b, r)
    BY <1>1, <1>3, NewestLast
<1>4. SentOrdered(sent, submitted')
    BY <1>2, <1>3, OrderNow DEF SentOrdered
<1>5. CASE /\ QueueMessageOnConnect(p, k) /\ sent' = sent
           /\ \A c \in conns' : c.state = "Connected" => c \in conns /\ c.target # p
    <2> DEFINE n == Len(queued[p])
    <2>1. queued \in [Peers -> Seq(Packets)] /\ queued' = [queued EXCEPT ![p] = Append(@, k)]
        BY <1>5 DEF TypeOK, QueueMessageOnConnect
    <2>2. /\ n \in Nat
          /\ Len(queued'[p]) = n + 1
          /\ queued'[p][n + 1] = k
          /\ \A i \in 1..n : queued'[p][i] = queued[p][i]
        BY <1>1, <2>1, AppendProperties, LenProperties
    <2>3. \A q \in Peers : q # p => queued'[q] = queued[q]
        BY <2>1
    <2>4. \A c \in conns' : c.state = "Connected" => c.target \in Peers
        BY <1>5 DEF TypeOK, Rows
    <2>5. NoneWaits(conns', queued')
        BY <1>5, <2>3, <2>4, OrderNow DEF NoneWaits
    <2>6. \A q \in Peers : \A i \in 1..Len(queued'[q]) :
              \/ i \in 1..Len(queued[q]) /\ queued'[q][i] = queued[q][i]
              \/ q = p /\ i = n + 1 /\ queued'[q][i] = k
        <3>1. \A i \in 1..(n + 1) : i \in 1..n \/ i = n + 1
            BY <2>2
        <3> QED BY <2>2, <2>3, <3>1
    <2>7. ASSUME NEW q \in Peers, NEW i \in 1..Len(queued'[q]), NEW j \in 1..Len(queued'[q]), i < j
          PROVE  Before(submitted', queued'[q][i], queued'[q][j], q)
        <3>1. i \in 1..Len(queued[q]) /\ queued'[q][i] = queued[q][i]
            BY <2>2, <2>6, <2>7
        <3>2. queued[q][i] # k
            BY <1>2, <3>1
        <3>3. queued'[q][j] # k => Before(submitted, queued[q][i], queued'[q][j], q)
            BY <2>6, <2>7, <3>1, OrderNow DEF QueuesOrdered
        <3> QED BY <1>3, <3>1, <3>2, <3>3
    <2>8. ASSUME NEW q \in Peers, NEW i \in 1..Len(sent), NEW j \in 1..Len(queued'[q]),
                 sent[i].peer = q
          PROVE  Before(submitted', sent[i].packet, queued'[q][j], q)
        <3>1. queued'[q][j] # k => Before(submitted, sent[i].packet, queued'[q][j], q)
            BY <2>6, <2>8, OrderNow DEF QueuesBehind
        <3> QED BY <1>2, <1>3, <3>1
    <2>9. QueuesOrdered(queued', submitted')
        BY <2>7 DEF QueuesOrdered
    <2>10. QueuesBehind(queued', sent', submitted')
        BY <1>5, <2>8 DEF QueuesBehind
    <2> QED BY <1>4, <1>5, <2>5, <2>9, <2>10, OrderNext
<1>6. CASE /\ RowsTo(p) # {} /\ RowTo(p).state = "Connected" /\ HandToGNS(RowTo(p), k)
           /\ UNCHANGED tableVars
    <2>1. PICK c \in conns : c = RowTo(p) /\ c.target = p /\ c.state = "Connected"
        BY <1>6, RowToFound
    <2>2. queued' = queued /\ conns' = conns
        BY <1>6 DEF tableVars
    <2>3. queued[p] = <<>> /\ NoneWaits(conns', queued')
        BY <2>1, <2>2, OrderNow DEF NoneWaits
    <2>4. QueuesOrdered(queued', submitted')
        BY <1>2, <1>3, <2>2, OrderNow DEF QueuesOrdered
    <2>5. QueuesBehind(queued', sent, submitted')
        BY <1>2, <1>3, <2>2, OrderNow DEF QueuesBehind
    <2>6. CASE sent' = sent
        BY <1>4, <2>3, <2>4, <2>5, <2>6, OrderNext
    <2>7. CASE sent' = Append(sent, [packet |-> k, peer |-> p])
        <3> DEFINE n == Len(sent)
                   r == [packet |-> k, peer |-> p]
        <3>1. r \in [packet : Packets, peer : Peers] /\ r.packet = k /\ r.peer = p
            BY <1>1
        <3>2. sent \in Seq([packet : Packets, peer : Peers])
            BY DEF TypeOK
        <3>3. sent' = Append(sent, r)
            BY <2>7
        <3> HIDE DEF r
        <3>4. /\ n \in Nat
              /\ Len(sent') = n + 1
              /\ sent'[n + 1] = r
              /\ \A i \in 1..n : sent'[i] = sent[i]
            BY <3>1, <3>2, <3>3, AppendProperties, LenProperties
        <3>5. \A i \in 1..Len(sent') :
                  \/ i \in 1..n /\ sent'[i] = sent[i]
                  \/ i = n + 1 /\ sent'[i].packet = k /\ sent'[i].peer = p
            BY <3>1, <3>4
        <3>6. ASSUME NEW i \in 1..Len(sent'), NEW j \in 1..Len(sent'), i < j,
                     sent'[i].peer = sent'[j].peer
              PROVE  Before(submitted', sent'[i].packet, sent'[j].packet, sent'[i].peer)
            <4>1. i \in 1..n /\ sent'[i] = sent[i]
                BY <3>4, <3>5, <3>6
            <4>2. CASE j \in 1..n /\ sent'[j] = sent[j]
                BY <1>4, <3>6, <4>1, <4>2 DEF SentOrdered
            <4>3. CASE sent'[j].packet = k
                <5>1. sent[i].packet # k
                    BY <1>2, <4>1
                <5> QED BY <1>3, <4>1, <4>3, <5>1
            <4> QED BY <3>5, <4>2, <4>3
        <3>7. ASSUME NEW q \in Peers, NEW i \in 1..Len(sent'), NEW j \in 1..Len(queued'[q]),
                     sent'[i].peer = q
              PROVE  Before(submitted', sent'[i].packet, queued'[q][j], q)
            <4>1. q # p
                BY <2>2, <2>3
            <4>2. i \in 1..n /\ sent'[i] = sent[i]
                BY <3>5, <3>7, <4>1
            <4> QED BY <2>5, <3>7, <4>2 DEF QueuesBehind
        <3>8. SentOrdered(sent', submitted')
            BY <3>6 DEF SentOrdered
        <3>9. QueuesBehind(queued', sent', submitted')
            BY <3>7 DEF QueuesBehind
        <3> QED BY <2>3, <2>4, <3>8, <3>9, OrderNext
    <2> QED BY <1>6, <2>1, <2>6, <2>7 DEF HandToGNS
<1>7. CASE RowsTo(p) = {} /\ EstablishConnectionTo(p) /\ QueueMessageOnConnect(p, k)
           /\ UNCHANGED <<sent, dropped>>
    <2>1. \A c \in conns : c.target # p
        BY <1>7 DEF RowsTo
    <2>2. \A c \in conns' : c.state = "Connected" => c \in conns
        BY <1>7 DEF EstablishConnectionTo, NewRow
    <2> QED BY <1>5, <1>7, <2>1, <2>2
<1>8. CASE RowsTo(p) # {} /\ RowTo(p).state # "Connected" /\ QueueMessageOnConnect(p, k)
           /\ UNCHANGED <<conns, nextRow, sent, dropped>>
    <2>1. RowTo(p) \in conns /\ RowTo(p).target = p
        BY <1>8, RowToFound
    <2>2. \A c \in conns : c.target = p => c = RowTo(p)
        BY <2>1 DEF SingleRows
    <2> QED BY <1>5, <1>8, <2>2
<1> QED BY <1>6, <1>7, <1>8 DEF SendMessageOnTick

\* The drain of CallbackOnConnected empties the queue of the target into GNS, in order.
LEMMA QueuesDrained ==
    ASSUME TypeOK, QueuesInv, NEW p \in Peers, NEW c \in conns, NEW d, d.state = "Connected",
           d.target = p, conns' = (conns \ {c}) \cup {d}, Drain(p, d), submitted' = submitted
    PROVE  QueuesInv'
<1> DEFINE q == queued[p]
           m == Len(q)
           n == Len(sent)
           t == [i \in 1..m |-> [packet |-> q[i], peer |-> p]]
<1>1. /\ queued' = [queued EXCEPT ![p] = <<>>]
      /\ sent' = sent \o t \/ sent' = sent
    BY DEF Drain, DrainedQueue
<1>2. q \in Seq(Packets) /\ m \in Nat /\ \A i \in 1..m : q[i] \in Packets
    BY LenProperties, ElementOfSeq DEF TypeOK
<1>3. queued'[p] = <<>> /\ \A r \in Peers : r # p => queued'[r] = queued[r]
    BY <1>1 DEF TypeOK
<1>4. \A r \in Peers : \A i \in 1..Len(queued'[r]) :
          r # p /\ queued'[r] = queued[r]
    BY <1>3
<1>5. NoneWaits(conns', queued')
    <2>1. \A e \in conns : e.target \in Peers
        BY DEF TypeOK, Rows
    <2>2. \A e \in conns : e.state = "Connected" => queued'[e.target] = <<>>
        BY <1>3, <2>1, OrderNow DEF NoneWaits
    <2> QED BY <1>3, <2>2 DEF NoneWaits
<1>6. QueuesOrdered(queued', submitted')
    BY <1>4, OrderNow DEF QueuesOrdered
<1>7. CASE sent' = sent
    <2>1. QueuesBehind(queued', sent', submitted')
        BY <1>4, <1>7, OrderNow DEF QueuesBehind
    <2>2. SentOrdered(sent', submitted')
        BY <1>7, OrderNow
    <2> QED BY <1>5, <1>6, <2>1, <2>2, OrderNext
<1>8. CASE sent' = sent \o t
    <2>1. sent \in Seq([packet : Packets, peer : Peers]) /\ n \in Nat
        BY LenProperties DEF TypeOK
    <2>2. t \in Seq([packet : Packets, peer : Peers]) /\ Len(t) = m
        <3> HIDE DEF q, m
        <3>1. \A i \in 1..m : [packet |-> q[i], peer |-> p] \in [packet : Packets, peer : Peers]
            BY <1>2
        <3> QED BY <1>2, <3>1, IsASeq
    <2>3. \A i \in 1..m : t[i].packet = q[i] /\ t[i].peer = p
        OBVIOUS
    <2>4. \A i \in 1..n : sent[i].peer = p =>
              \A j \in 1..m : Before(submitted, sent[i].packet, q[j], p)
        BY OrderNow DEF QueuesBehind
    <2>5. \A i, j \in 1..m : i < j => Before(submitted, q[i], q[j], p)
        BY OrderNow DEF QueuesOrdered
    <2>6. \A i, j \in 1..n : i < j /\ sent[i].peer = sent[j].peer =>
              Before(submitted, sent[i].packet, sent[j].packet, sent[i].peer)
        BY OrderNow DEF SentOrdered
    <2>7. \A r \in Peers : \A i \in 1..n, j \in 1..Len(queued[r]) :
              sent[i].peer = r => Before(submitted, sent[i].packet, queued[r][j], r)
        BY OrderNow DEF QueuesBehind
    <2> HIDE DEF t, q, m, n
    <2>8. /\ Len(sent') = n + m
          /\ \A i \in 1..(n + m) : sent'[i] = IF i <= n THEN sent[i] ELSE t[i - n]
        BY <1>8, <2>1, <2>2, ConcatProperties DEF n
    <2>9. \A i \in 1..(n + m) :
              \/ i \in 1..n /\ sent'[i] = sent[i]
              \/ i - n \in 1..m /\ i > n /\ sent'[i].packet = q[i - n] /\ sent'[i].peer = p
        <3>1. ASSUME NEW i \in 1..(n + m), i <= n PROVE i \in 1..n /\ sent'[i] = sent[i]
            BY <1>2, <2>1, <2>8, <3>1
        <3>2. ASSUME NEW i \in 1..(n + m), ~(i <= n)
              PROVE  i - n \in 1..m /\ i > n /\ sent'[i] = t[i - n]
            BY <1>2, <2>1, <2>8, <3>2
        <3> QED BY <2>3, <3>1, <3>2
    <2>10. ASSUME NEW i \in 1..(n + m), NEW j \in 1..(n + m), i < j, sent'[i].peer = sent'[j].peer
           PROVE  Before(submitted, sent'[i].packet, sent'[j].packet, sent'[i].peer)
        <3>1. CASE i \in 1..n /\ sent'[i] = sent[i] /\ j \in 1..n /\ sent'[j] = sent[j]
            BY <2>6, <2>10, <3>1
        <3>2. CASE /\ i \in 1..n /\ sent'[i] = sent[i]
                   /\ j - n \in 1..m /\ sent'[j].packet = q[j - n] /\ sent'[j].peer = p
            <4>1. sent[i].peer = p
                BY <2>10, <3>2
            <4> QED BY <2>4, <3>2, <4>1
        <3>3. CASE /\ i - n \in 1..m /\ sent'[i].packet = q[i - n] /\ sent'[i].peer = p
                   /\ j - n \in 1..m /\ sent'[j].packet = q[j - n]
            <4>1. i - n < j - n
                BY <1>2, <2>1, <2>10
            <4> QED BY <2>5, <3>3, <4>1
        <3>4. ~(i > n /\ j \in 1..n)
            BY <1>2, <2>1, <2>10
        <3> QED BY <2>9, <3>1, <3>2, <3>3, <3>4
    <2>11. ASSUME NEW r \in Peers, NEW i \in 1..(n + m), NEW j \in 1..Len(queued'[r]),
                  sent'[i].peer = r
           PROVE  Before(submitted, sent'[i].packet, queued'[r][j], r)
        <3>1. r # p /\ queued'[r] = queued[r]
            BY <1>4
        <3>2. i \in 1..n /\ sent'[i] = sent[i]
            BY <2>9, <2>11, <3>1
        <3> QED BY <2>7, <2>11, <3>1, <3>2
    <2>12. SentOrdered(sent', submitted')
        BY <2>8, <2>10 DEF SentOrdered
    <2>13. QueuesBehind(queued', sent', submitted')
        BY <2>8, <2>11 DEF QueuesBehind
    <2> QED BY <1>5, <1>6, <2>12, <2>13, OrderNext
<1> QED BY <1>1, <1>7, <1>8

\* Every step preserves the order of the packets, when all of them are sent on the tick
\* thread.
LEMMA NextQueues ==
    ASSUME AppPackets = {}, TableInv, PacketInv, SingleRows, QueuesInv, [Next]_vars
    PROVE  QueuesInv'
<1>1. TypeOK
    BY DEF TableInv, TableMatchesGns
<1>2. app.step = "idle"
    BY <1>1 DEF TypeOK, Calls, Idle
<1>3. ASSUME NEW p \in Peers, NEW k \in TickPackets \ Submitted, SendMessageOnTick(p, k), Alive
      PROVE  QueuesInv'
    BY <1>1, <1>3, QueuesOnTick DEF PacketInv
<1>4. ASSUME ReceiveMessage PROVE QueuesInv'
    <2>1. CASE UNCHANGED <<tableVars, logVars>>
        BY <2>1, QueuesUntouched DEF tableVars, logVars
    <2> QED BY <1>3, <1>4, <2>1 DEF ReceiveMessage
<1>5. ASSUME CallbackOnConnected PROVE QueuesInv'
    <2>1. submitted' = submitted
        BY <1>5 DEF CallbackOnConnected
    <2>2. CASE RowsOf(Handle) = {}
        BY <1>5, <2>1, <2>2, QueuesUntouched DEF CallbackOnConnected
    <2>3. CASE RowsOf(Handle) # {}
        <3>1. PICK c \in conns : c = RowOf(Handle)
            BY <1>1, <2>3, RowOfFound
        <3>2. PICK d : d = [c EXCEPT !.state = "Connected"]
            OBVIOUS
        <3>3. d.target = c.target /\ d.state = "Connected"
            BY <1>1, <3>2 DEF TypeOK, Rows
        <3>4. /\ conns' = (conns \ {c}) \cup {d}
              /\ \/ queued[c.target] = <<>> /\ UNCHANGED <<queued, sent>>
                 \/ Drain(c.target, IF RowTo(c.target) = c THEN d ELSE RowTo(c.target))
            BY <1>5, <2>3, <3>1, <3>2 DEF CallbackOnConnected, Replace
        <3>5. RowTo(c.target) = c
            <4>1. RowsTo(c.target) # {}
                BY DEF RowsTo
            <4>2. RowTo(c.target) \in conns /\ RowTo(c.target).target = c.target
                BY <1>1, <4>1, RowToFound
            <4> QED BY <4>2 DEF SingleRows
        <3>6. CASE queued[c.target] = <<>> /\ UNCHANGED <<queued, sent>>
            <4>1. NoneWaits(conns', queued')
                BY <3>3, <3>4, <3>6, OrderNow DEF NoneWaits
            <4> QED BY <2>1, <3>6, <4>1, OrderNow, OrderNext
        <3>7. CASE Drain(c.target, d)
            <4>1. PICK p \in Peers : p = c.target
                BY <1>1 DEF TypeOK, Rows
            <4> QED BY <1>1, <2>1, <3>3, <3>4, <3>7, <4>1, QueuesDrained
        <3> QED BY <3>4, <3>5, <3>6, <3>7
    <2> QED BY <2>2, <2>3
<1>6. ASSUME NEW c \in conns, GenerateConnection(c) PROVE QueuesInv'
    <2>1. UNCHANGED <<queued, sent, submitted>>
        BY <1>6 DEF GenerateConnection, logVars
    <2>2. CASE conns' = conns
        BY <2>1, <2>2, QueuesUntouched
    <2>3. CASE Replace(c, [c EXCEPT !.handle = NewHandle])
        <3>1. c.state # "Connected" /\ c \in Rows
            BY <1>1, <1>6 DEF GenerateConnection, PreConnecting, TypeOK
        <3>2. PICK d : d = [c EXCEPT !.handle = NewHandle]
            OBVIOUS
        <3>3. d.state = c.state /\ conns' = (conns \ {c}) \cup {d}
            BY <2>3, <3>1, <3>2 DEF Rows, Replace
        <3>4. \A e \in conns' : e.state = "Connected" => e \in conns
            BY <3>1, <3>3
        <3> QED BY <2>1, <3>4, QueuesUntouched
    <2> QED BY <1>6, <2>2, <2>3 DEF GenerateConnection
<1>7. ASSUME CallbackOnConnecting PROVE QueuesInv'
    <2>1. UNCHANGED <<queued, sent, submitted>>
        BY <1>7 DEF CallbackOnConnecting, logVars
    <2>2. CASE conns' = conns
        BY <2>1, <2>2, QueuesUntouched
    <2>3. CASE RowsOf(Handle) # {}
               /\ Replace(RowOf(Handle), [RowOf(Handle) EXCEPT !.state = "Connecting"])
        <3>1. PICK c \in conns : c = RowOf(Handle)
            BY <1>1, <2>3, RowOfFound
        <3>2. PICK d : d = [c EXCEPT !.state = "Connecting"]
            OBVIOUS
        <3>3. conns' = (conns \ {c}) \cup {d} /\ d.state = "Connecting"
            BY <1>1, <2>3, <3>1, <3>2 DEF Replace, TypeOK, Rows
        <3>4. \A e \in conns' : e.state = "Connected" => e \in conns
            BY <3>3
        <3> QED BY <2>1, <3>4, QueuesUntouched
    <2>4. CASE conns' = conns \cup {NewRow(peer[Handle], Handle, "Connecting")}
        <3>1. \A e \in conns' : e.state = "Connected" => e \in conns
            BY <2>4 DEF NewRow
        <3> QED BY <2>1, <3>1, QueuesUntouched
    <2> QED BY <1>7, <2>2, <2>3, <2>4 DEF CallbackOnConnecting
<1>8. CASE \/ GenerateDone \/ ReceiveDone \/ CallbacksDone
           \/ CallbackOnClosedByPeer \/ CallbackOnProblemDetectedLocally
           \/ \E p \in Peers : CloseConnectionTo(p)
           \/ Network
           \/ UNCHANGED vars
    <2>1. UNCHANGED <<queued, sent, submitted>> /\ conns' \subseteq conns
        BY <1>8 DEF GenerateDone, ReceiveDone, CallbacksDone, CallbackOnClosedByPeer,
                    CallbackOnProblemDetectedLocally, CloseConnectionTo, Network, PeerRegisters,
                    PeerConnects, NetworkConnects, NetworkEnds, MessageArrives, vars,
                    tableVars, logVars
    <2> QED BY <2>1, QueuesUntouched
<1>9. ~AppEstablish /\ ~AppQueue /\ ~AppSend /\ ~\E p \in Peers, k \in AppPackets : AppLookup(p, k)
    BY <1>2 DEF AppEstablish, AppQueue, AppSend
<1> QED BY <1>4, <1>5, <1>6, <1>7, <1>8, <1>9 DEF Next, Tick, AppThread

\* The order of the queues is the order SendMessage promises.
LEMMA OrderInvGives == OrderInv => OrderKept
<1> SUFFICES ASSUME OrderInv PROVE OrderKept
    OBVIOUS
<1>1. TypeOK
    BY DEF OrderInv, PacketInv
<1>2. NothingWaitsWhenConnected
    BY <1>1, RowToFound DEF NothingWaitsWhenConnected, OrderInv, QueuesInv
<1>3. ASSUME NEW i \in 1..Len(sent), NEW j \in 1..Len(sent), NEW m \in 1..Len(submitted),
             NEW n \in 1..Len(submitted), i < j, sent[i].peer = sent[j].peer,
             submitted[m] = sent[i], submitted[n] = sent[j]
      PROVE  m < n
    <2>1. sent[i] \in [packet : Packets, peer : Peers] /\ sent[j] \in [packet : Packets, peer : Peers]
        BY <1>1, ElementOfSeq DEF TypeOK
    <2>2. /\ sent[i] = [packet |-> sent[i].packet, peer |-> sent[i].peer]
          /\ sent[j] = [packet |-> sent[j].packet, peer |-> sent[i].peer]
        BY <1>3, <2>1
    <2>3. InOrder(sent[i].packet, sent[j].packet, sent[i].peer)
        BY <1>3 DEF OrderInv, QueuesInv
    <2> QED BY <1>3, <2>2, <2>3 DEF InOrder
<1> QED BY <1>2, <1>3 DEF OrderKept, SentInOrder

\* Packets a process sends from its tick thread reach GNS in the order of the calls of
\* SendMessage, and none waits in the queue of a peer whose connection is up, when the peers
\* it dials do not dial it and no peer dials again before its last connection is gone here.
THEOREM PacketsLeaveInOrder ==
    ASSUME AppPackets = {}, Dialled \cap Dialling = {}, ~EarlyRedial
    PROVE  Spec => []OrderKept
<1>1. Init => OrderInv
    BY InitTable, InitPackets, InitOrder DEF OrderInv
<1>2. OrderInv /\ [Next]_vars => OrderInv'
    BY NextTable, NextPackets, NextSingle, NextQueues DEF OrderInv
<1>3. OrderInv => OrderKept
    BY OrderInvGives
<1> QED BY <1>1, <1>2, <1>3, PTL DEF Spec

=============================================================================
