----------------------------- MODULE MCEmergency -----------------------------
(***************************************************************************)
(* An instance of Emergency for TLC: a ring of three elements fills        *)
(* quickly. The CAN controller is error free or bus-off: its transmit      *)
(* error counter is then 256, of which the lower 8 bits are read.          *)
(***************************************************************************)
EXTENDS Emergency

MCCounters == {Quiet, [tx |-> 256 % 256, rx |-> 0, off |-> TRUE]}
=============================================================================
