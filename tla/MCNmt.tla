-------------------------------- MODULE MCNmt --------------------------------
(***************************************************************************)
(* An instance of Nmt for TLC: two entries, and one node to be watched, at *)
(* first in the first of them.                                             *)
(***************************************************************************)
EXTENDS Nmt

CONSTANT master
MCNodes    == {master}
MCDefaults == [e \in Entries |-> IF e = 1 THEN master ELSE None]
=============================================================================
