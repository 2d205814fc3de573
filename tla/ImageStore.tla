----------------------------- MODULE ImageStore -----------------------------
(***************************************************************************)
(* What the boot chain may assume of the firmware regions in flash: a      *)
(* region holds one whole image or nothing that passes its CRC, it never   *)
(* changes from one whole image to another without being torn in between,  *)
(* and one step changes one region at most. Boot updates its regions       *)
(* through these actions; Flasher, which writes half-words, implements     *)
(* them for the region it is the flasher of.                               *)
(***************************************************************************)

CONSTANTS Regions, Images, Torn

VARIABLE img      (* img[r]: the image whose CRC the region satisfies      *)

Init == img \in [Regions -> Images \cup {Torn}]

(* The first erase or program operation of an update.                      *)
Touch(r) == img' = [img EXCEPT ![r] = Torn]

(* The half-word that makes the region an image again.                     *)
Complete(r, i) ==
  /\ img[r] = Torn
  /\ img' = [img EXCEPT ![r] = i]

Next == \E r \in Regions : Touch(r) \/ \E i \in Images : Complete(r, i)

Spec == Init /\ [][Next]_img
=============================================================================
