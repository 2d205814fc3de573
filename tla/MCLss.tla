------------------------------- MODULE MCLss ---------------------------------
(***************************************************************************)
(* An instance of Lss for TLC. Addresses have three parts, the first zero  *)
(* as the serial number is. The master sends a good node id, the one that  *)
(* unassigns and a bad one; a good index of the bit timing table, the      *)
(* reserved one, "automatic" and one beyond the table.                     *)
(***************************************************************************)
EXTENDS Lss

MCIds     == {"mine", "zero"}
MCAddress == [p \in Parts |-> IF p = 0 THEN "zero" ELSE "mine"]
=============================================================================
