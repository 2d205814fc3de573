------------------------------ MODULE Download -----------------------------
(***************************************************************************)
(* A download: the CANopen master sends the blocks of an image to Flasher  *)
(* one after the other, each time waits for the reply, and has the         *)
(* signature checked at the end. Requests and replies get lost, the node   *)
(* is reset. The master is not part of the repository; the one modelled    *)
(* here retries a block or starts over after a timeout, and starts over    *)
(* after an error, which is the least flash_data_wr_cb needs. Its blocks do*)
(* not cross a page. Between two downloads anyone may send the node        *)
(* anything.                                                               *)
(***************************************************************************)
EXTENDS Flasher

CONSTANT BlockSize    (* half-words per block                              *)

ASSUME BlockAssumption == BlockSize \in Nat \ {0} /\ PageSize % BlockSize = 0

VARIABLES
  want,     (* the image being downloaded                                  *)
  next,     (* number of the block to send, or sent                        *)
  phase,    (* what the master does                                        *)
  clean     (* history: the node has not been reset since block 0          *)

master       == <<want, next, phase, clean>>
downloadVars == <<vars, master>>

NumBlocks(i)  == (Len(Content[i]) + BlockSize - 1) \div BlockSize
BlockOf(i, n) ==
  LET first == n * BlockSize
      left  == Len(Content[i]) - first
  IN [num |-> n, address |-> first,
      data |-> SubSeq(Content[i], first + 1, first + (IF left < BlockSize THEN left ELSE BlockSize))]

DownloadInit ==
  /\ Init
  /\ want \in Images
  /\ next = 0
  /\ phase = "idle"
  /\ clean = FALSE

-----------------------------------------------------------------------------
SendBlock ==
  /\ phase = "send"
  /\ FlashDataWrite(BlockOf(want, next))
  /\ phase' = "wait"
  /\ clean' = (clean \/ next = 0)
  /\ UNCHANGED <<want, next>>

(* The block arrives damaged.                                              *)
SendDamaged ==
  /\ phase = "send"
  /\ RejectBlock
  /\ phase' = "wait"
  /\ UNCHANGED <<want, next, clean>>

ReplyOk ==
  /\ phase = "wait" /\ Idle /\ reply = "ok"
  /\ next' = next + 1
  /\ phase' = IF next' = NumBlocks(want) THEN "verify" ELSE "send"
  /\ UNCHANGED <<vars, want, clean>>

ReplyError ==
  /\ phase = "wait" /\ Idle /\ reply = "error"
  /\ next' = 0 /\ phase' = "send"
  /\ UNCHANGED <<vars, want, clean>>

ReplyLost ==
  /\ phase = "wait" /\ Idle /\ reply # "none"
  /\ reply' = "none"
  /\ UNCHANGED <<flash, erased, job, acked, master>>

(* No reply: the master cannot know whether the block was written.         *)
Timeout ==
  /\ phase = "wait" /\ Idle /\ reply = "none"
  /\ next' \in {next, 0} /\ phase' = "send"
  /\ UNCHANGED <<vars, want, clean>>

(* Faulty variant: the regions are not checked again.                      *)
CheckSignatureStale ==
  /\ phase = "verify"
  /\ phase' = "done"
  /\ UNCHANGED <<vars, want, next, clean>>

(* flash_cmd_cb, CHECK_SIGNATURE.                                          *)
CheckSignature ==
  /\ phase = "verify"
  /\ IF ImageThere # Torn
     THEN phase' = "done" /\ UNCHANGED next
     ELSE phase' = "send" /\ next' = 0
  /\ UNCHANGED <<vars, want, clean>>

(* Between two downloads: any block of Blocks and any command.             *)
Stray ==
  /\ phase \in {"idle", "done"}
  /\ \/ \E b \in Blocks : FlashDataWrite(b)
     \/ RejectBlock \/ ClearProgram \/ OddFirstBlock
  /\ phase' = "idle"
  /\ UNCHANGED <<want, next, clean>>

(* The next update.                                                        *)
StartDownload ==
  /\ phase \in {"idle", "done"} /\ Idle
  /\ want' \in Images
  /\ next' = 0 /\ phase' = "send" /\ clean' = FALSE
  /\ UNCHANGED vars

Write == FlashWrite /\ UNCHANGED master

Crash ==
  /\ NodeReset
  /\ clean' = FALSE
  /\ UNCHANGED <<want, next, phase>>

Fault    == SendDamaged \/ ReplyLost \/ Crash
Progress ==
  \/ SendBlock \/ ReplyOk \/ ReplyError \/ Timeout \/ CheckSignature \/ Write

DownloadNext == Progress \/ Fault \/ Stray \/ StartDownload

DownloadSpec == DownloadInit /\ [][DownloadNext]_downloadVars

(* The node executes the write it has begun, and the master goes on.       *)
FairDownload == DownloadSpec /\ WF_downloadVars(Progress)

-----------------------------------------------------------------------------
(* If all blocks were acknowledged and the node was not reset since block  *)
(* 0, the image is there: lost replies, retried and refused blocks in      *)
(* between do not matter.                                                  *)
CleanSessionCompletes == phase = "verify" /\ clean => Whole(want)

(* If the node was reset in between, blocks that were acknowledged may be  *)
(* gone (the page is erased again), but then the check says so: when it    *)
(* accepts, the image is the one that was sent, not what was there before. *)
VerifiedIsWanted == phase = "done" => Whole(want)

(* A download ends successfully, once faults stop, whatever state they and *)
(* what was sent before left the node in.                                  *)
Completes == <>[][Progress]_downloadVars => <>[](phase \in {"idle", "done"})
=============================================================================
