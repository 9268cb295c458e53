------------------------------ MODULE MCServices ------------------------------
(* Instances for TLC of the services around the core: clients and events, the  *)
(* ledger's transfers, packets on the wire.  They share no state, so a         *)
(* behaviour is one of a part: the variable part names it and the variables of *)
(* the other parts stay put.                                                   *)
EXTENDS ClientSessions, LedgerTransfers, WirePackets

VARIABLE part

\* Bit fields that fill, cross and leave bytes unfinished.
F(value, count) == [value |-> value, count |-> count]
MCBits ==
    {<<>>, <<F(1, 1)>>, <<F(5, 3), F(2, 2), F(9, 4)>>, <<F(2, 4), F(1, 4)>>,
     <<F(3, 2), F(200, 8), F(1, 1), F(4095, 12), F(0, 3), F(1, 1)>>}
\* The ends of the range of an integer of four 4-bit bytes, and those of one varint group.
MCInts == {-32768, -32767, -1, 0, 1, 3, 4, 63, 64, 32767}

MCInit ==
    /\ part \in {"clients", "ledger", "wire"}
    /\ ClientsInit
    /\ EventInit
    /\ LedgerInit
    /\ part # "ledger" => outside = {}
    /\ WireInit

MCNext ==
    /\ UNCHANGED part
    /\ \/ part = "clients" /\ ClientsNext /\ UNCHANGED <<ledgerVars, wireVars>>
       \/ part = "ledger" /\ LedgerNext /\ UNCHANGED <<clientVars, eventVars, wireVars>>
       \/ part = "wire" /\ WireNext /\ UNCHANGED <<clientVars, eventVars, ledgerVars>>

MCVars == <<part, clientVars, eventVars, ledgerVars, wireVars>>
MCFairness ==
    WF_MCVars(part = "ledger" /\ LoopStep /\ UNCHANGED <<part, clientVars, eventVars, wireVars>>)
MCSpec == MCInit /\ [][MCNext]_MCVars /\ MCFairness

\* LedgerTransfers!AllOutsideMarked, in the end and for good: LoopThread keeps walking once
\* the game no longer registers and moves entities.
OutsideMarked == <>[](part = "ledger" /\ shardBound = "yes" => AllOutsideMarked)
=============================================================================
