----------------------------- MODULE HandoffLease -----------------------------
(***************************************************************************)
(* The lease on the handoff connection of two shards (the lease            *)
(* coordinators of ServerHandoff and of NaiveHandoff, which are the same   *)
(* code).  A packet from the peer marks its activity and acquires or       *)
(* refreshes the lease in three commands; the Tick reaps a silent peer and *)
(* releases the lease in two.  Packets and Ticks are on different threads  *)
(* of a shard.  Nothing waits for the lease: TryAcquireOrRefreshLease's    *)
(* answer is not used.                                                     *)
(***************************************************************************)
EXTENDS Naturals

CONSTANTS
    Peers,           \* the two shards of the connection
    NoLease,         \* the lease key does not exist
    MaxPackets,      \* bound on packets
    MaxPeerCrashes   \* bound on crashes

VARIABLES
    lease,       \* the lease key: the shard that wrote it
    leaseTtl,    \* "yes" when the key has a time to live
    active,      \* "yes" when the peer is in lastActivityByPeer
    onPacket,    \* where MarkConnectionActivity is, on each shard
    onTick,      \* where ReapInactiveConnections or Clear is, on each shard
    packets,     \* packets so far
    peerCrashes  \* crashes so far

leaseVars == <<lease, leaseTtl, active, onPacket, onTick, packets, peerCrashes>>

LeaseInit ==
    /\ lease = NoLease
    /\ leaseTtl = "no"
    /\ active = [s \in Peers |-> "no"]
    /\ onPacket = [s \in Peers |-> "idle"]
    /\ onTick = [s \in Peers |-> "idle"]
    /\ packets = 0
    /\ peerCrashes = 0

PacketGoes(s, at) == onPacket' = [onPacket EXCEPT ![s] = at]
TickGoes(s, at) == onTick' = [onTick EXCEPT ![s] = at]

-----------------------------------------------------------------------------
\* MarkConnectionActivity.
MarkActivity(s) ==
    /\ packets < MaxPackets
    /\ onPacket[s] = "idle"
    /\ packets' = packets + 1
    /\ active' = [active EXCEPT ![s] = "yes"]
    /\ PacketGoes(s, "get")
    /\ UNCHANGED <<lease, leaseTtl, onTick, peerCrashes>>

\* TryAcquireOrRefreshLease: a lease of the peer is left alone, ...
AcquireGet(s) ==
    /\ onPacket[s] = "get"
    /\ PacketGoes(s, IF lease \in {NoLease, s} THEN "set" ELSE "idle")
    /\ UNCHANGED <<lease, leaseTtl, active, onTick, packets, peerCrashes>>

\* ... otherwise the key is set, which takes its time to live away, ...
AcquireSet(s) ==
    /\ onPacket[s] = "set"
    /\ lease' = s
    /\ leaseTtl' = "no"
    /\ PacketGoes(s, "expire")
    /\ UNCHANGED <<active, onTick, packets, peerCrashes>>

\* ... and gets a new one, if the key is still there.
TimedLease_New == IF packets > 1 THEN leaseTtl ELSE "yes"
TimedLease == IF lease = NoLease THEN "no" ELSE "yes"
AcquireExpire(s) ==
    /\ onPacket[s] = "expire"
    /\ leaseTtl' = TimedLease
    /\ PacketGoes(s, "idle")
    /\ UNCHANGED <<lease, active, onTick, packets, peerCrashes>>

\* ReapInactiveConnections of a peer silent for the timeout, or Clear.
ReapPeer(s) ==
    /\ onTick[s] = "idle"
    /\ active[s] = "yes"
    /\ TickGoes(s, "get")
    /\ UNCHANGED <<lease, leaseTtl, active, onPacket, packets, peerCrashes>>

\* ReleaseLeaseIfOwned: the key is read, ...
ReleaseGet(s) ==
    /\ onTick[s] = "get"
    /\ TickGoes(s, IF lease = s THEN "del" ELSE "erase")
    /\ UNCHANGED <<lease, leaseTtl, active, onPacket, packets, peerCrashes>>

\* ... and deleted, whoever has it by now.
ReleaseDel(s) ==
    /\ onTick[s] = "del"
    /\ lease' = NoLease
    /\ leaseTtl' = "no"
    /\ TickGoes(s, "erase")
    /\ UNCHANGED <<active, onPacket, packets, peerCrashes>>

\* The peers reaped are erased after all of them were released.
ErasePeer(s) ==
    /\ onTick[s] = "erase"
    /\ active' = [active EXCEPT ![s] = "no"]
    /\ TickGoes(s, "idle")
    /\ UNCHANGED <<lease, leaseTtl, onPacket, packets, peerCrashes>>

\* The lease runs out.
LeaseExpires ==
    /\ leaseTtl = "yes"
    /\ lease' = NoLease
    /\ leaseTtl' = "no"
    /\ UNCHANGED <<active, onPacket, onTick, packets, peerCrashes>>

PeerCrash(s) ==
    /\ peerCrashes < MaxPeerCrashes
    /\ onTick[s] # "crashed"
    /\ peerCrashes' = peerCrashes + 1
    /\ active' = [active EXCEPT ![s] = "no"]
    /\ PacketGoes(s, "crashed")
    /\ TickGoes(s, "crashed")
    /\ UNCHANGED <<lease, leaseTtl, packets>>

AcquireStep(s) == AcquireGet(s) \/ AcquireSet(s) \/ AcquireExpire(s)
ReleaseStep(s) == ReleaseGet(s) \/ ReleaseDel(s) \/ ErasePeer(s)

LeaseNext ==
    \/ \E s \in Peers :
           MarkActivity(s) \/ AcquireStep(s) \/ ReapPeer(s) \/ ReleaseStep(s) \/ PeerCrash(s)
    \/ LeaseExpires

LeaseSpec == LeaseInit /\ [][LeaseNext]_leaseVars

-----------------------------------------------------------------------------
\* A lease never stays for good: it has a time to live, or a shard is about to give it
\* one, unless a shard crashed between the two commands.
LeaseRunsOut ==
    lease # NoLease /\ peerCrashes = 0 =>
        leaseTtl = "yes" \/ \E s \in Peers : onPacket[s] = "expire"

\* What its proof needs besides: the places of the packet threads, and that crashes are
\* counted.
LeaseInv ==
    /\ onPacket \in [Peers -> {"idle", "get", "set", "expire", "crashed"}]
    /\ peerCrashes \in Nat
    /\ LeaseRunsOut
=============================================================================
