--------------------------- MODULE MCPacketManager ---------------------------
(* Instances of PacketManager for TLC: the constants come from the cfg file,   *)
(* the table of slots from here.                                               *)
EXTENDS PacketManager, TLC

CONSTANTS tick, app, s1, s2, s3

MCSlotOf == (s1 :> tick) @@ (s2 :> app) @@ (s3 :> app)
=============================================================================
