------------------------------- MODULE CanTx -------------------------------
(***************************************************************************)
(* The CAN transmit path of the node: CO_CANsend, the transmit and receive *)
(* branches of the polled CO_CANinterrupt, CO_CANclearPendingSyncPDOs and  *)
(* the communication reset of common/canopendriver/CO_driver_target.c, on  *)
(* top of the bxCAN mailboxes as can_driver.c programs them (TXFP set: the *)
(* mailboxes leave in the order they were requested; NART clear: a frame   *)
(* is retried until it is on the bus).                                     *)
(*                                                                         *)
(* All the code runs in one main loop, so a function is one atomic step;   *)
(* what interleaves with it is the hardware: the bus takes and delivers    *)
(* frames between any two calls.                                           *)
(*                                                                         *)
(* A frame is abstracted to the stamp of the CO_CANsend call that produced *)
(* it: data[b] counts the messages the owner of buffer b has written.      *)
(***************************************************************************)
EXTENDS Integers, Sequences, FiniteSets

CONSTANTS
  TxSize,        (* number of entries of txArray                           *)
  SyncBuffers,   (* the entries whose syncFlag is set (synchronous TPDOs)  *)
  NumMailboxes,  (* transmit mailboxes of the bxCAN, 3 on the target       *)
  FifoDepth,     (* receive FIFO slots, 3 on the target                    *)
  CountMod,      (* CANtxCount is a uint16_t: 65536 on the target          *)
  MaxTxCount,    (* bound: CO_CANsend is called only below this count      *)
  MaxSend        (* bound: messages per buffer                             *)

Buffers   == 0 .. TxSize - 1
Mailboxes == 0 .. NumMailboxes - 1

ASSUME SizesAssumption ==
  /\ TxSize \in Nat \ {0}
  /\ NumMailboxes \in Nat \ {0}
  /\ FifoDepth \in Nat \ {0}
  /\ CountMod \in Nat /\ CountMod > TxSize
  /\ MaxTxCount \in Nat
  /\ MaxSend \in Nat
  /\ SyncBuffers \subseteq Buffers

VARIABLES
  data,              (* txArray[b].data: stamp of the last message written *)
  bufferFull,        (* txArray[b].bufferFull                              *)
  CANtxCount,
  bufferInhibitFlag,
  pending,           (* mailboxes with TXRQ set, oldest request first      *)
  rqcp,              (* mailboxes whose RQCP flag is set in TSR            *)
  rxFifo,            (* FMP0: received frames waiting                      *)
  fovr,              (* FOVR0: the FIFO has overrun                        *)
  onWire,            (* history: stamp of b's last frame seen on the bus   *)
  discarded          (* history: what took b's last message back, if so    *)

driver  == <<data, bufferFull, CANtxCount, bufferInhibitFlag>>
txHw    == <<pending, rqcp>>
rxHw    == <<rxFifo, fovr>>
history == <<onWire, discarded>>
vars    == <<driver, txHw, rxHw, history>>

Frame == [mb : Mailboxes, buf : Buffers, data : Nat]

Full == {b \in Buffers : bufferFull[b]}
Free == {m \in Mailboxes : \A i \in DOMAIN pending : pending[i].mb # m}
Lowest(S) == CHOOSE x \in S : \A y \in S : x <= y

(* A uint16_t after one addition or subtraction.                           *)
Wrap16(n) == IF n < 0 THEN n + CountMod ELSE IF n >= CountMod THEN n - CountMod ELSE n

Init ==
  /\ data = [b \in Buffers |-> 0]
  /\ bufferFull = [b \in Buffers |-> FALSE]
  /\ CANtxCount = 0
  /\ bufferInhibitFlag = FALSE
  /\ pending = <<>>
  /\ rqcp = {}
  /\ rxFifo = 0
  /\ fovr = FALSE
  /\ onWire = [b \in Buffers |-> 0]
  /\ discarded = [b \in Buffers |-> "no"]

-----------------------------------------------------------------------------
(* can_drv_tx: the first mailbox that is empty takes the frame; requesting *)
(* a transmission clears the RQCP flag of that mailbox.                    *)
CanDrvTx(b, stamp, flags) ==
  IF Free = {}
  THEN pending' = pending /\ rqcp' = flags
  ELSE LET m == Lowest(Free) IN
       /\ pending' = Append(pending, [mb |-> m, buf |-> b, data |-> stamp])
       /\ rqcp' = flags \ {m}

(* Faulty variants: a message that was copied to a mailbox and is queued as*)
(* well is not counted; a message for which no mailbox is free is dropped. *)
CO_CANsendCountsBusyOnly(b) ==
  /\ data[b] < MaxSend
  /\ CANtxCount < MaxTxCount
  /\ data' = [data EXCEPT ![b] = @ + 1]
  /\ CanDrvTx(b, data'[b], rqcp)
  /\ IF Free # {} /\ CANtxCount = 0
     THEN /\ bufferInhibitFlag' = (b \in SyncBuffers)
          /\ UNCHANGED <<bufferFull, CANtxCount>>
     ELSE /\ bufferFull' = [bufferFull EXCEPT ![b] = TRUE]
          /\ CANtxCount' = IF Free = {} THEN Wrap16(CANtxCount + 1) ELSE CANtxCount
          /\ UNCHANGED bufferInhibitFlag
  /\ discarded' = [discarded EXCEPT ![b] = "no"]
  /\ UNCHANGED <<rxHw, onWire>>

CO_CANsendDrops(b) ==
  /\ data[b] < MaxSend
  /\ data' = [data EXCEPT ![b] = @ + 1]
  /\ CanDrvTx(b, data'[b], rqcp)
  /\ bufferInhibitFlag' = (b \in SyncBuffers)
  /\ discarded' = [discarded EXCEPT ![b] = "no"]
  /\ UNCHANGED <<bufferFull, CANtxCount, rxHw, onWire>>

(* The owner of buffer b writes a message and calls CO_CANsend. The code   *)
(* calls can_drv_tx before it looks at CANtxCount.                         *)
CO_CANsend(b) ==
  /\ data[b] < MaxSend
  /\ CANtxCount < MaxTxCount
  /\ data' = [data EXCEPT ![b] = @ + 1]
  /\ CanDrvTx(b, data'[b], rqcp)
  /\ IF Free # {} /\ CANtxCount = 0
     THEN /\ bufferInhibitFlag' = (b \in SyncBuffers)
          /\ UNCHANGED <<bufferFull, CANtxCount>>
     ELSE /\ bufferFull' = [bufferFull EXCEPT ![b] = TRUE]
          /\ CANtxCount' = Wrap16(CANtxCount + 1)
          /\ UNCHANGED bufferInhibitFlag
  /\ discarded' = [discarded EXCEPT ![b] = "no"]
  /\ UNCHANGED <<rxHw, onWire>>

(* CO_CANinterrupt, receive branch: an overrun is acknowledged and nothing *)
(* else is done in this call; otherwise one frame is taken out of the FIFO.*)
RxOverrun ==
  /\ rxFifo > 0
  /\ fovr
  /\ fovr' = FALSE
  /\ UNCHANGED <<driver, txHw, rxFifo, history>>

RxMessage ==
  /\ rxFifo > 0
  /\ ~fovr
  /\ rxFifo' = rxFifo - 1
  /\ UNCHANGED <<driver, txHw, fovr, history>>

(* CO_CANinterrupt, transmit branch, reached only when no frame waits in   *)
(* the FIFO. Acknowledging one RQCP flag with TSR |= mask writes back every*)
(* flag that is set, so all of them are cleared. Then the lowest full      *)
(* buffer is handed to the hardware, or a stale count is reset.            *)
TxComplete ==
  /\ rxFifo = 0
  /\ rqcp # {}
  /\ IF CANtxCount > 0 /\ Full # {}
     THEN LET b == Lowest(Full) IN
          /\ bufferFull' = [bufferFull EXCEPT ![b] = FALSE]
          /\ CANtxCount' = CANtxCount - 1
          /\ bufferInhibitFlag' = (b \in SyncBuffers)
          /\ CanDrvTx(b, data[b], {})
     ELSE /\ CANtxCount' = 0
          /\ bufferInhibitFlag' = FALSE
          /\ rqcp' = {}
          /\ UNCHANGED <<bufferFull, pending>>
  /\ UNCHANGED <<data, rxHw, history>>

CO_CANinterrupt == RxOverrun \/ RxMessage \/ TxComplete

(* CO_CANclearPendingSyncPDOs, called by CO_process_SYNC when the window   *)
(* has passed. The abort request covers all mailboxes, whoever owns their  *)
(* frames; the frame that is on the wire at that moment (won = 1) completes*)
(* all the same. What is still in txArray afterwards will be sent.         *)
AbortMailboxes(won) ==
  /\ pending' = <<>>
  /\ rqcp' = rqcp \cup {pending[i].mb : i \in DOMAIN pending}
  /\ onWire' = IF won = 0 THEN onWire
               ELSE [onWire EXCEPT ![pending[1].buf] = pending[1].data]

CO_CANclearPendingSyncPDOs ==
  LET aborting  == pending # <<>> /\ bufferInhibitFlag
      syncFull  == IF CANtxCount # 0 THEN Full \cap SyncBuffers ELSE {}
      aborted(won) == {pending[i].buf : i \in won + 1 .. Len(pending)}
      Dropped(won) == syncFull \cup
                        (IF aborting THEN aborted(won) \ (Full \ syncFull) ELSE {})
  IN /\ aborting \/ syncFull # {}
     /\ \E won \in 0 .. 1 :
          /\ IF aborting
             THEN AbortMailboxes(won) /\ bufferInhibitFlag' = FALSE
             ELSE UNCHANGED <<txHw, onWire, bufferInhibitFlag>>
          /\ discarded' = [b \in Buffers |-> IF b \in Dropped(won) THEN "cleared"
                                                              ELSE discarded[b]]
     /\ bufferFull' = [b \in Buffers |-> bufferFull[b] /\ b \notin syncFull]
     /\ CANtxCount' = Wrap16(CANtxCount - Cardinality(syncFull))
     /\ UNCHANGED <<data, rxHw>>

(* Faulty variant: the count survives the communication reset.             *)
CommunicationResetKeepsCount ==
  /\ bufferFull' = [b \in Buffers |-> FALSE]
  /\ bufferInhibitFlag' = FALSE
  /\ pending' = <<>> /\ rqcp' = {} /\ rxFifo' = 0 /\ fovr' = FALSE
  /\ discarded' = [b \in Buffers |-> "reset"]
  /\ UNCHANGED <<data, CANtxCount, onWire>>

(* NMT reset communication: the CAN cell is reset and CO_CANmodule_init    *)
(* and CO_CANtxBufferInit start over; the contents of txArray[b].data stay.*)
CommunicationReset ==
  /\ bufferFull' = [b \in Buffers |-> FALSE]
  /\ CANtxCount' = 0
  /\ bufferInhibitFlag' = FALSE
  /\ pending' = <<>>
  /\ rqcp' = {}
  /\ rxFifo' = 0
  /\ fovr' = FALSE
  /\ LET waiting == Full \cup {pending[i].buf : i \in DOMAIN pending} IN
     discarded' = [b \in Buffers |-> IF b \in waiting THEN "reset" ELSE discarded[b]]
  /\ UNCHANGED <<data, onWire>>

-----------------------------------------------------------------------------
(* Faulty variant: TXFP not set, the lowest mailbox goes first.            *)
BusTransmitByMailbox ==
  \E i \in DOMAIN pending :
    /\ \A k \in DOMAIN pending : pending[i].mb <= pending[k].mb
    /\ onWire' = [onWire EXCEPT ![pending[i].buf] = pending[i].data]
    /\ rqcp' = rqcp \cup {pending[i].mb}
    /\ pending' = SubSeq(pending, 1, i - 1) \o SubSeq(pending, i + 1, Len(pending))
    /\ UNCHANGED <<driver, rxHw, discarded>>

(* The hardware. The oldest requested mailbox wins the node's arbitration. *)
BusTransmit ==
  /\ pending # <<>>
  /\ onWire' = [onWire EXCEPT ![Head(pending).buf] = Head(pending).data]
  /\ rqcp' = rqcp \cup {Head(pending).mb}
  /\ pending' = Tail(pending)
  /\ UNCHANGED <<driver, rxHw, discarded>>

(* Another node's frame passes the filters; a full FIFO keeps its depth    *)
(* and raises FOVR0.                                                       *)
BusReceive ==
  /\ IF rxFifo < FifoDepth
     THEN rxFifo' = rxFifo + 1 /\ UNCHANGED fovr
     ELSE fovr' = TRUE /\ UNCHANGED rxFifo
  /\ UNCHANGED <<driver, txHw, history>>

Next ==
  \/ \E b \in Buffers : CO_CANsend(b)
  \/ CO_CANinterrupt
  \/ CO_CANclearPendingSyncPDOs
  \/ CommunicationReset
  \/ BusTransmit
  \/ BusReceive

Spec == Init /\ [][Next]_vars

(* The main loop calls CO_CANinterrupt in every iteration, one event per   *)
(* call, and an iteration is shorter than a frame on the bus: the call     *)
(* that finds an empty receive FIFO cannot be missed each time there is    *)
(* one (SF on the transmit branch). The bus accepts the node's frames      *)
(* sooner or later (no bus-off, no missing listener).                      *)
Fairness ==
  /\ WF_vars(CO_CANinterrupt)
  /\ SF_vars(TxComplete)
  /\ WF_vars(BusTransmit)

FairSpec == Spec /\ Fairness

-----------------------------------------------------------------------------
(* The types of the variables: the driver's fields as CO_CANmodule_t       *)
(* declares them, the mailboxes with at most one frame each.               *)
TypeOK ==
  /\ data \in [Buffers -> Nat]
  /\ bufferFull \in [Buffers -> BOOLEAN]
  /\ CANtxCount \in 0 .. CountMod - 1
  /\ bufferInhibitFlag \in BOOLEAN
  /\ pending \in Seq(Frame)
  /\ rqcp \in SUBSET Mailboxes
  /\ rxFifo \in 0 .. FifoDepth
  /\ fovr \in BOOLEAN
  /\ onWire \in [Buffers -> Nat]
  /\ discarded \in [Buffers -> {"no", "cleared", "reset"}]

(* A mailbox that reports a completed request holds no requested frame, so *)
(* the can_drv_tx of the transmit branch, whose result is ignored, always  *)
(* finds a mailbox: a buffer taken out of txArray is never lost.           *)
CompletedIsFree == rqcp \subseteq Free

(* While the driver counts waiting messages, a mailbox is busy or has a    *)
(* completion to report: the only branch that empties txArray will run.    *)
(* Nothing else in the code ever looks at a full buffer again.             *)
NoStall == CANtxCount # 0 => pending # <<>> \/ rqcp # {}

(* Every full buffer is counted, although CO_CANsend counts a message it   *)
(* could hand over and counts a full buffer again: the transmit branch,    *)
(* which skips txArray when the count is 0, cannot overlook a buffer.      *)
FullIsCounted == Cardinality(Full) <= CANtxCount

(* Direct sends overtake queued ones, but never within one buffer: what    *)
(* the bus sees of one CAN identifier never goes back to an older message. *)
StampsInOrder == [][\A b \in Buffers : onWire'[b] >= onWire[b]]_vars

(* If the receive FIFO is found empty again and again, the last message of *)
(* every buffer reaches the bus, except for what a communication reset or  *)
(* CO_CANclearPendingSyncPDOs took back: which messages the latter takes is*)
(* the question of OnlySyncCleared. The condition is not the code's to     *)
(* promise: on a bus that keeps the FIFO filled nothing queued is sent.    *)
LatestReachesBus ==
  []<>(rxFifo = 0) =>
    <>[](\A b \in Buffers : onWire[b] = data[b] \/ discarded[b] # "no")

-----------------------------------------------------------------------------
(* What 301/CO_driver.h says of a driver and this one does not do.         *)

(* CO_CANclearPendingSyncPDOs shall "Clear all synchronous TPDOs from CAN  *)
(* module transmit buffers": an ordinary message it takes out of a mailbox *)
(* still has its copy in txArray or is on the bus.                         *)
OnlySyncCleared ==
  \A b \in Buffers :
    discarded[b] = "cleared" /\ onWire[b] # data[b] => b \in SyncBuffers

=============================================================================
