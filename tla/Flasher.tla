------------------------------ MODULE Flasher ------------------------------
(***************************************************************************)
(* The program-data object of a running firmware: flash_data_wr_cb of      *)
(* common/flasher/flasher_sdo.c checks a block and platform_flash_write    *)
(* (common/platform.c) programs it half-word by half-word, erasing a page  *)
(* when the session reaches it for the first time. Power may fail between  *)
(* and within the flash operations.                                        *)
(*                                                                         *)
(* The unit of addresses and sizes is the half-word. Cell c is the one at  *)
(* address FlashBase + c. The header of an image (size and CRC, which      *)
(* decide what fw_header_check_region accepts) is one cell, whose value    *)
(* identifies the image.                                                   *)
(***************************************************************************)
EXTENDS Integers, Sequences

CONSTANTS
  NumPages, PageSize,    (* geometry of the flash                          *)
  FlashBase, AddrMod,    (* where it begins; addresses are uint32_t        *)
  Origin, End,           (* ADDR_ORIGIN, ADDR_END of the target region     *)
  Values,                (* contents of a half-word                        *)
  FF, Zero,              (* 0xFFFF and 0x0000                              *)
  Garbage,               (* what an interrupted operation leaves           *)
  NoAck,                 (* no value: not acknowledged                     *)
  Blocks,                (* blocks the master may send: [num, address, data]*)
  Images, Torn, Content, (* Content[i]: the half-words of image i          *)
  HeaderAt,              (* index of the header in an image                *)
  Target                 (* name of the region                             *)

NumCells  == NumPages * PageSize
Cells     == 0 .. NumCells - 1
Pages     == 0 .. NumPages - 1
Addresses == 0 .. AddrMod - 1
PageOf(c) == c \div PageSize
Region    == {c \in Cells : Origin <= FlashBase + c /\ FlashBase + c < End}

(* memory.ld: the region lies inside the flash and consists of whole pages.*)
(* The address space goes on beyond the flash for more than a block, and   *)
(* begins with an area larger than the flash where relative addresses lie. *)
ASSUME LayoutAssumption ==
  /\ NumPages \in Nat \ {0} /\ PageSize \in Nat \ {0}
  /\ FlashBase \in Nat /\ AddrMod \in Nat /\ Origin \in Nat /\ End \in Nat
  /\ FlashBase <= Origin /\ Origin < End /\ End <= FlashBase + NumCells
  /\ NumCells < FlashBase /\ FlashBase + NumCells < AddrMod
  /\ \A c \in Cells, d \in Region : PageOf(c) = PageOf(d) => c \in Region
  /\ \A d \in Region : PageOf(d) \in Pages

ASSUME DataAssumption ==
  /\ {FF, Zero, Garbage} \subseteq Values
  /\ FF # Zero /\ Garbage \notin {FF, Zero} /\ NoAck \notin Values
  /\ Blocks \subseteq [num : Nat, address : Addresses, data : Seq(Values)]
  /\ \A b \in Blocks : /\ 0 < Len(b.data)
                       /\ FlashBase + NumCells + PageSize + Len(b.data) <= AddrMod

(* Images fit the region. The header half-words are those of one image     *)
(* only, are not blank and hold more than zeros.                           *)
ASSUME ImagesAssumption ==
  /\ Torn \notin Images
  /\ \A i \in Images :
       /\ Content[i] \in Seq(Values \ {Garbage})
       /\ HeaderAt \in DOMAIN Content[i]
       /\ Origin + Len(Content[i]) <= End
       /\ Content[i][HeaderAt] \notin {FF, Zero, Garbage}
       /\ \A j \in Images : Content[i][HeaderAt] = Content[j][HeaderAt] => i = j

VARIABLES
  flash,     (* contents of the flash                                      *)
  erased,    (* page_erased_bits                                           *)
  job,       (* the running platform_flash_write                           *)
  reply,     (* result of the last request, until the master has it        *)
  acked      (* history: half-words acknowledged in this session, of each  *)
             (* block those in its first page                              *)

vars == <<flash, erased, job, reply, acked>>

NoJob  == [dest |-> 0, data |-> <<>>, i |-> 0]
NoAcks == [c \in Cells |-> NoAck]

Init ==
  /\ flash \in [Cells -> {FF, Garbage}]
  /\ erased = {}
  /\ job = NoJob
  /\ reply = "none"
  /\ acked = NoAcks

-----------------------------------------------------------------------------
Idle == job = NoJob

(* A uint32_t after the addition of two.                                   *)
Wrap32(n) == IF n < AddrMod THEN n ELSE n - AddrMod

Absolute(address) ==
  IF address > NumCells THEN address ELSE Wrap32(Origin + address)

JobPage  == PageOf(job.dest - FlashBase)

(* Faulty variant: the page is not checked.                                *)
BeyondNever == FALSE

Beyond   == JobPage > NumPages         (* the code compares with ">"       *)
JobCell  == job.dest + job.i - FlashBase
JobCells == {job.dest + k - FlashBase : k \in 0 .. Len(job.data) - 1}
Running  == ~Idle /\ job.i < Len(job.data) /\ ~Beyond

(* The pieces of flash_data_wr_cb for a block of sound format and CRC. The *)
(* sum of address and size wraps.                                          *)
StartWrite(b, newErased) ==
  LET first == Absolute(b.address) IN
    /\ job' = [dest |-> first, data |-> b.data, i |-> 0]
    /\ reply' = "none"
    /\ erased' = newErased
    /\ acked' = [c \in Cells |->
                   IF b.num = 0 \/ FlashBase + c - first \in 0 .. Len(b.data) - 1
                   THEN NoAck ELSE acked[c]]
    /\ UNCHANGED flash

RefuseWrite == reply' = "error" /\ UNCHANGED <<flash, erased, job, acked>>

OutOfRange(b) ==
  LET first == Absolute(b.address) IN
    first < Origin \/ Wrap32(first + Len(b.data)) > End

(* Faulty variants: every block starts a session; none does; the end of the*)
(* range is not checked.                                                   *)
FlashDataWriteResets(b) ==
  Idle /\ IF OutOfRange(b) THEN RefuseWrite ELSE StartWrite(b, {})

FlashDataWriteNoReset(b) ==
  Idle /\ IF OutOfRange(b) THEN RefuseWrite ELSE StartWrite(b, erased)

FlashDataWriteUnchecked(b) ==
  Idle /\ IF Absolute(b.address) < Origin THEN RefuseWrite
          ELSE StartWrite(b, IF b.num = 0 THEN {} ELSE erased)

(* flash_data_wr_cb: block 0 starts a session.                             *)
FlashDataWrite(b) ==
  Idle /\ IF OutOfRange(b) THEN RefuseWrite
          ELSE StartWrite(b, IF b.num = 0 THEN {} ELSE erased)

(* A block with a wrong size or CRC is refused before anything is done.    *)
RejectBlock ==
  /\ Idle
  /\ reply' = "error"
  /\ UNCHANGED <<flash, erased, job, acked>>

(* flash_cmd_cb, CLEAR: the pages are only marked for erasing.             *)
ClearProgram ==
  /\ Idle
  /\ erased' = {}
  /\ acked' = NoAcks
  /\ reply' = "ok"
  /\ UNCHANGED <<flash, job>>

(* A first block of an odd size in range starts a session and is refused.  *)
OddFirstBlock ==
  /\ Idle
  /\ erased' = {}
  /\ acked' = NoAcks
  /\ reply' = "error"
  /\ UNCHANGED <<flash, job>>

(* platform_flash_write, one half-word: the page is that of the block's    *)
(* first half-word in every iteration.                                     *)
PageOutOfRange ==
  /\ ~Idle /\ job.i < Len(job.data) /\ Beyond
  /\ job' = NoJob
  /\ reply' = "error"
  /\ UNCHANGED <<flash, erased, acked>>

ErasePage ==
  /\ Running
  /\ JobPage \notin erased
  /\ flash' = [c \in Cells |-> IF PageOf(c) = JobPage THEN FF ELSE flash[c]]
  /\ erased' = erased \cup {JobPage}
  /\ UNCHANGED <<job, reply, acked>>

(* The hardware programs a blank half-word, and any half-word with zeros;  *)
(* otherwise it raises PGERR and changes nothing.                          *)
Programmable == flash[JobCell] = FF \/ job.data[job.i + 1] = Zero

(* Faulty variant: a half-word that is not blank is rewritten in place.    *)
ProgramHalfwordRewrites ==
  /\ Running
  /\ JobPage \in erased
  /\ flash' = [flash EXCEPT ![JobCell] = job.data[job.i + 1]]
  /\ job' = [job EXCEPT !.i = @ + 1]
  /\ UNCHANGED <<erased, reply, acked>>

ProgramHalfword ==
  /\ Running
  /\ JobPage \in erased
  /\ Programmable
  /\ flash' = [flash EXCEPT ![JobCell] = job.data[job.i + 1]]
  /\ job' = [job EXCEPT !.i = @ + 1]
  /\ UNCHANGED <<erased, reply, acked>>

ProgrammingError ==
  /\ Running
  /\ JobPage \in erased
  /\ ~Programmable
  /\ job' = NoJob
  /\ reply' = "error"
  /\ UNCHANGED <<flash, erased, acked>>

WriteDone ==
  /\ ~Idle /\ job.i = Len(job.data)
  /\ job' = NoJob
  /\ reply' = "ok"
  /\ acked' = [c \in Cells |-> IF c \in JobCells /\ PageOf(c) = JobPage
                               THEN job.data[FlashBase + c - job.dest + 1] ELSE acked[c]]
  /\ UNCHANGED <<flash, erased>>

FlashWrite ==
  PageOutOfRange \/ ErasePage \/ ProgramHalfword \/ ProgrammingError \/ WriteDone

(* The cells the operation in progress is changing.                        *)
InFlight ==
  IF ~Running THEN {}
  ELSE IF JobPage \notin erased THEN {c \in Cells : PageOf(c) = JobPage}
  ELSE IF Programmable THEN {JobCell}
  ELSE {}

(* Power loss or a reset: the session is in RAM. The operation in progress *)
(* has not begun or is left half done.                                     *)
NodeReset ==
  /\ flash' \in {flash, [c \in Cells |-> IF c \in InFlight THEN Garbage ELSE flash[c]]}
  /\ erased' = {}
  /\ job' = NoJob
  /\ reply' = "none"
  /\ acked' = NoAcks

Next ==
  \/ \E b \in Blocks : FlashDataWrite(b)
  \/ RejectBlock
  \/ ClearProgram
  \/ OddFirstBlock
  \/ FlashWrite
  \/ NodeReset

Spec == Init /\ [][Next]_vars

-----------------------------------------------------------------------------
(* fw_header_check_region: the image whose header the region carries is    *)
(* there from the first to the last half-word.                             *)
Whole(i) == \A k \in DOMAIN Content[i] :
              flash[Origin + k - 1 - FlashBase] = Content[i][k]

ImageThere ==
  IF \E i \in Images : Whole(i) THEN CHOOSE i \in Images : Whole(i) ELSE Torn

Store == INSTANCE ImageStore WITH Regions <- {Target}, img <- [r \in {Target} |-> ImageThere]

-----------------------------------------------------------------------------
TypeOK ==
  /\ flash \in [Cells -> Values]
  /\ erased \subseteq Pages
  /\ job \in [dest : Addresses, data : Seq(Values), i : Nat]
  /\ job.i <= Len(job.data)
  /\ reply \in {"none", "ok", "error"}
  /\ acked \in [Cells -> Values \cup {NoAck}]

(* Whatever blocks the master sends, relative or absolute, crossing a page,*)
(* overlapping, out of the range or wrapping around the address space, and *)
(* wherever power fails: nothing outside the target region changes, so a   *)
(* firmware cannot damage itself, the pre-loader or the configuration.     *)
OutsideUntouched == [][\A c \in Cells \ Region : flash'[c] = flash[c]]_vars

(* The range check and the page check leave no address for which           *)
(* page_erased_bits would be indexed beyond its end or a half-word         *)
(* programmed beyond the flash, although the sum in the first wraps and    *)
(* the second is off by one.                                               *)
InBounds == Running => JobPage \in Pages /\ JobCells \subseteq Region

(* What was acknowledged stays as it was acknowledged until the session    *)
(* ends (block 0, CLEAR, a reset) or the block is sent again: no later     *)
(* block erases its page or programs over it. A block that crosses a page  *)
(* has this for its first page only.                                       *)
AckedDurable == \A c \in Cells : acked[c] # NoAck => flash[c] = acked[c]

(* What Boot relies on.                                                    *)
StoreSpec == Store!Spec
=============================================================================
