------------------------------ MODULE MCCanTx ------------------------------
(***************************************************************************)
(* Instances of CanTx for TLC. txArray has the entries of one node: a      *)
(* synchronous TPDO and ordinary messages on both sides of it.             *)
(***************************************************************************)
EXTENDS CanTx

MCSyncBuffers == {1}
=============================================================================
