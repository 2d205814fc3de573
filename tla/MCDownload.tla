----------------------------- MODULE MCDownload ----------------------------
(***************************************************************************)
(* An instance of Download for TLC: four pages of two half-words, the      *)
(* target region in the middle, and two images, one shorter than the other,*)
(* that share half-words and contain blank and zero ones. Stray blocks     *)
(* come with relative and absolute addresses, before, in, across the end   *)
(* of and behind the region, at the end of the address space, and across   *)
(* pages.                                                                  *)
(***************************************************************************)
EXTENDS Download

CONSTANTS i1, i2, h1, h2, v

MCImages  == {i1, i2}
MCValues  == {FF, Zero, Garbage, h1, h2, v}
MCContent == [i \in MCImages |-> IF i = i1 THEN <<v, h1, FF, Zero>> ELSE <<v, h2, FF>>]

Block(n, a, d) == [num |-> n, address |-> a, data |-> d]

(* The blocks of both images, one half-word each and whole pages.          *)
MCAligned ==
  {Block(k - 1, k - 1, <<MCContent[i][k]>>) : k \in 1 .. 3, i \in MCImages}
    \cup {Block(0, Origin, <<v, h1>>), Block(1, Origin + 2, <<FF, Zero>>)}

MCStray ==
  {Block(1, 4, <<v>>), Block(1, NumCells, <<v>>), Block(1, Origin - 1, <<v>>),
   Block(1, AddrMod - 1, <<v, v>>), Block(1, FlashBase, <<Zero, Zero, Zero>>),
   Block(1, Origin + 3, <<Zero, Zero>>)}

MCCrossing ==
  {Block(0, 1, <<h1, FF>>), Block(1, 1, <<h2, v>>), Block(2, Origin + 1, <<v, Zero, Zero>>)}

MCBlocks == MCAligned \cup MCStray \cup MCCrossing
=============================================================================
