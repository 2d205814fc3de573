---------------------------- MODULE CanTx_proofs ----------------------------
(***************************************************************************)
(* Proofs about the CAN transmit path, for every number of buffers and     *)
(* mailboxes. The only hypothesis beyond SizesAssumption is that CANtxCount*)
(* does not wrap, MaxTxCount < CountMod; the order of the stamps does not  *)
(* even need that.                                                         *)
(***************************************************************************)
EXTENDS CanTx, TLAPS, FiniteSetTheorems, SequenceTheorems, WellFoundedInduction

(* No two requested frames share a mailbox. Needed for CompletedIsFree: a  *)
(* mailbox that completes must not hold a second request.                  *)
OneFramePerMailbox ==
  \A i, j \in DOMAIN pending : i # j => pending[i].mb # pending[j].mb

Hardware == CompletedIsFree /\ OneFramePerMailbox

(* The inductive invariant.                                                *)
IInv == TypeOK /\ Hardware /\ NoStall /\ FullIsCounted

(* The stamps of the frames. What the bus has seen of a buffer is not newer*)
(* than what waits in a mailbox, that is not newer than what was written   *)
(* last, and the mailboxes, which leave in the order of their requests,    *)
(* hold the frames of a buffer in the order of their stamps. No hypothesis *)
(* on CANtxCount is needed.                                                *)
StampTypes ==
  /\ data \in [Buffers -> Nat] /\ onWire \in [Buffers -> Nat]
  /\ pending \in Seq(Frame)

Stamps ==
  /\ \A b \in Buffers : onWire[b] <= data[b]
  /\ \A i \in 1 .. Len(pending) : /\ onWire[pending[i].buf] <= pending[i].data
                                  /\ pending[i].data <= data[pending[i].buf]
  /\ \A i, j \in 1 .. Len(pending) :
       i < j /\ pending[i].buf = pending[j].buf => pending[i].data <= pending[j].data

StampsInv == StampTypes /\ Stamps

-----------------------------------------------------------------------------
(* The scan of an index range from its low end finds an element of the set.*)
LEMMA LowestInSet ==
  ASSUME NEW S, S \subseteq Nat, S # {}
  PROVE  Lowest(S) \in S
<1>1. PICK x \in S : \A y \in S : ~ (<<y, x>> \in OpToRel(<, Nat))
  BY NatLessThanWellFounded, WFMin
<1>2. \A y \in S : x <= y
  <2>1. ASSUME NEW y \in S PROVE x <= y
    <3>1. <<y, x>> \in Nat \X Nat
      OBVIOUS
    <3>2. ~ (y < x)
      BY <1>1, <3>1 DEF OpToRel
    <3> QED
      BY <3>2
  <2> QED
    BY <2>1
<1> QED
  BY <1>2 DEF Lowest

LEMMA ZeroInRange ==
  /\ 0 \in 0 .. CountMod - 1
  /\ 0 \in 0 .. FifoDepth
BY SizesAssumption

(* Sets of buffers are finite.                                             *)
LEMMA BuffersFinite ==
  ASSUME NEW S \in SUBSET Buffers
  PROVE  /\ IsFiniteSet(S)
         /\ Cardinality(S) \in Nat
         /\ Cardinality(S) <= TxSize
<1>1. IsFiniteSet(Buffers) /\ Cardinality(Buffers) = TxSize
  <2>1. 0 \in Int /\ TxSize - 1 \in Int
    BY SizesAssumption
  <2> QED
    BY <2>1, FS_Interval, SizesAssumption DEF Buffers
<1> QED
  BY <1>1, FS_Subset, FS_CardinalityType

(* can_drv_tx keeps the mailboxes consistent, leaves one of them busy, and *)
(* when a mailbox was free the frame is the youngest request afterwards.   *)
LEMMA CanDrvTxStep ==
  ASSUME TypeOK, Hardware,
         NEW b \in Buffers, NEW stamp \in Nat, NEW flags \in SUBSET rqcp,
         CanDrvTx(b, stamp, flags)
  PROVE  /\ pending' \in Seq(Frame)
         /\ rqcp' \in SUBSET Mailboxes
         /\ Hardware'
         /\ pending' # <<>>
         /\ Free # {} => \E i \in DOMAIN pending' :
                           pending'[i].buf = b /\ pending'[i].data = stamp
<1> DEFINE m == Lowest(Free)
           f == [mb |-> m, buf |-> b, data |-> stamp]
<1>1. CASE Free = {}
  <2>1. pending' = pending /\ rqcp' = flags
    BY <1>1 DEF CanDrvTx
  <2>2. pending # <<>>
    <3>1. 0 \in Mailboxes
      BY SizesAssumption DEF Mailboxes
    <3>2. PICK i \in DOMAIN pending : pending[i].mb = 0
      BY <1>1, <3>1 DEF Free
    <3> QED
      BY <3>2
  <2> QED
    BY <1>1, <2>1, <2>2 DEF TypeOK, Hardware, CompletedIsFree, OneFramePerMailbox, Free
<1>2. CASE Free # {}
  <2>1. pending' = Append(pending, f) /\ rqcp' = flags \ {m}
    BY <1>2 DEF CanDrvTx
  <2>2. m \in Free /\ m \in Mailboxes
    <3>1. Free \subseteq Nat
      BY SizesAssumption DEF Free, Mailboxes
    <3> QED
      BY <1>2, <3>1, LowestInSet DEF Free
  <2>3. f \in Frame
    BY <2>2 DEF Frame
  <2>4. pending \in Seq(Frame)
    BY DEF TypeOK
  <2> HIDE DEF f
  <2>5. /\ pending' \in Seq(Frame)
        /\ Len(pending') = Len(pending) + 1
        /\ DOMAIN pending = 1 .. Len(pending)
        /\ DOMAIN pending' = 1 .. Len(pending) + 1
        /\ \A i \in 1 .. Len(pending) : pending'[i] = pending[i]
        /\ pending'[Len(pending) + 1] = f
    BY <2>1, <2>3, <2>4
  <2>6. Len(pending) \in Nat
    BY <2>4
  <2>7. f.mb = m /\ f.buf = b /\ f.data = stamp
    BY DEF f
  <2> HIDE DEF m
  <2>8. \A i \in 1 .. Len(pending) : pending[i].mb # m
    BY <2>2, <2>5 DEF Free
  <2>9. OneFramePerMailbox'
    BY <2>5, <2>6, <2>7, <2>8 DEF OneFramePerMailbox, Hardware
  <2>10. CompletedIsFree'
    BY <2>1, <2>5, <2>6, <2>7 DEF CompletedIsFree, Hardware, Free
  <2>11. rqcp' \in SUBSET Mailboxes
    BY <2>1 DEF TypeOK
  <2>12. Len(pending) + 1 \in DOMAIN pending' /\ pending' # <<>>
    BY <2>5, <2>6
  <2> QED
    BY <2>5, <2>7, <2>9, <2>10, <2>11, <2>12 DEF Hardware
<1> QED
  BY <1>1, <1>2

-----------------------------------------------------------------------------
LEMMA InitIInv == Init => IInv
<1> SUFFICES ASSUME Init PROVE IInv
  OBVIOUS
<1>1. TypeOK
  <2>2. <<>> \in Seq(Frame)
    BY EmptySeq
  <2> QED
    BY ZeroInRange, <2>2 DEF Init, TypeOK
<1>2. Hardware
  BY DEF Init, Hardware, CompletedIsFree, OneFramePerMailbox, Free
<1>3. NoStall
  BY DEF Init, NoStall
<1>4. FullIsCounted
  <2>1. Full = {}
    BY DEF Init, Full
  <2> QED
    BY <2>1, FS_EmptySet DEF Init, FullIsCounted
<1> QED
  BY <1>1, <1>2, <1>3, <1>4 DEF IInv

LEMMA SendStep ==
  ASSUME MaxTxCount < CountMod, IInv, NEW b \in Buffers, CO_CANsend(b)
  PROVE  IInv'
<1> USE DEF IInv
<1>1. data' \in [Buffers -> Nat] /\ data'[b] \in Nat
  BY DEF CO_CANsend, TypeOK
<1>2. /\ pending' \in Seq(Frame) /\ rqcp' \in SUBSET Mailboxes
      /\ Hardware' /\ pending' # <<>>
  <2>1. CanDrvTx(b, data'[b], rqcp)
    BY DEF CO_CANsend
  <2>2. rqcp \in SUBSET rqcp
    OBVIOUS
  <2> QED
    BY <1>1, <2>1, <2>2, CanDrvTxStep
<1>3. CASE Free # {} /\ CANtxCount = 0
  <2>1. bufferFull' = bufferFull /\ CANtxCount' = CANtxCount
    BY <1>3 DEF CO_CANsend
  <2>2. TypeOK'
    BY <1>1, <1>2, <1>3, <2>1 DEF TypeOK, CO_CANsend, rxHw
  <2>3. FullIsCounted'
    BY <2>1 DEF FullIsCounted, Full
  <2> QED
    BY <1>2, <2>2, <2>3 DEF NoStall
<1>4. CASE ~(Free # {} /\ CANtxCount = 0)
  <2>1. /\ bufferFull' = [bufferFull EXCEPT ![b] = TRUE]
        /\ CANtxCount' = CANtxCount + 1
        /\ CANtxCount' \in 0 .. CountMod - 1
    BY <1>4, SizesAssumption DEF CO_CANsend, Wrap16, TypeOK
  <2>2. TypeOK'
    BY <1>1, <1>2, <1>4, <2>1 DEF TypeOK, CO_CANsend, rxHw
  <2>3. FullIsCounted'
    <3>1. Full' = Full \cup {b}
      BY <2>1 DEF Full, TypeOK
    <3>2. IsFiniteSet(Full) /\ Cardinality(Full) \in Nat
      BY BuffersFinite DEF Full
    <3>3. Cardinality(Full \cup {b}) = IF b \in Full THEN Cardinality(Full)
                                                      ELSE Cardinality(Full) + 1
      BY <3>2, FS_AddElement
    <3> QED
      BY <2>1, <3>1, <3>2, <3>3 DEF FullIsCounted, TypeOK
  <2> QED
    BY <1>2, <2>2, <2>3 DEF NoStall
<1> QED
  BY <1>3, <1>4

LEMMA TxCompleteStep ==
  ASSUME IInv, TxComplete
  PROVE  IInv'
<1> USE DEF IInv
<1>1. CASE CANtxCount > 0 /\ Full # {}
  <2> DEFINE b == Lowest(Full)
  <2>1. b \in Full /\ b \in Buffers
    <3>1. Full \subseteq Nat
      BY SizesAssumption DEF Full, Buffers
    <3> QED
      BY <1>1, <3>1, LowestInSet DEF Full
  <2>2. /\ bufferFull' = [bufferFull EXCEPT ![b] = FALSE]
        /\ CANtxCount' = CANtxCount - 1
        /\ bufferInhibitFlag' = (b \in SyncBuffers)
        /\ CanDrvTx(b, data[b], {})
    BY <1>1 DEF TxComplete
  <2> HIDE DEF b
  <2>3. /\ pending' \in Seq(Frame) /\ rqcp' \in SUBSET Mailboxes
        /\ Hardware' /\ pending' # <<>>
    <3>1. data[b] \in Nat /\ {} \in SUBSET rqcp
      BY <2>1 DEF TypeOK
    <3> QED
      BY <2>1, <2>2, <3>1, CanDrvTxStep
  <2>4. TypeOK'
    BY <1>1, <2>1, <2>2, <2>3, SizesAssumption DEF TypeOK, TxComplete, rxHw, history
  <2>5. FullIsCounted'
    <3>1. Full' = Full \ {b}
      BY <2>1, <2>2 DEF Full, TypeOK
    <3>2. IsFiniteSet(Full) /\ Cardinality(Full) \in Nat
      BY BuffersFinite DEF Full
    <3>3. Cardinality(Full \ {b}) = Cardinality(Full) - 1
      BY <2>1, <3>2, FS_RemoveElement
    <3> QED
      BY <2>2, <3>1, <3>2, <3>3 DEF FullIsCounted, TypeOK
  <2> QED
    BY <2>3, <2>4, <2>5 DEF NoStall
<1>2. CASE ~(CANtxCount > 0 /\ Full # {})
  <2>1. /\ CANtxCount' = 0 /\ bufferInhibitFlag' = FALSE /\ rqcp' = {}
        /\ UNCHANGED <<bufferFull, pending>>
    BY <1>2 DEF TxComplete
  <2>2. TypeOK'
    BY <2>1, ZeroInRange DEF TypeOK, TxComplete, rxHw, history
  <2>3. Hardware'
    BY <2>1 DEF Hardware, CompletedIsFree, OneFramePerMailbox
  <2>4. Full = {}
    <3>1. Cardinality(Full) \in Nat /\ IsFiniteSet(Full)
      BY BuffersFinite DEF Full
    <3>2. CASE CANtxCount = 0
      BY <3>1, <3>2, FS_EmptySet DEF FullIsCounted
    <3> QED
      BY <1>2, <3>2 DEF TypeOK
  <2>5. FullIsCounted'
    BY <2>1, <2>4, FS_EmptySet DEF FullIsCounted, Full
  <2> QED
    BY <2>1, <2>2, <2>3, <2>5 DEF NoStall
<1> QED
  BY <1>1, <1>2

LEMMA ClearStep ==
  ASSUME IInv, CO_CANclearPendingSyncPDOs
  PROVE  IInv'
<1> USE DEF IInv
<1> DEFINE aborting == pending # <<>> /\ bufferInhibitFlag
           syncFull == IF CANtxCount # 0 THEN Full \cap SyncBuffers ELSE {}
<1>1. /\ aborting \/ syncFull # {}
      /\ bufferFull' = [b \in Buffers |-> bufferFull[b] /\ b \notin syncFull]
      /\ CANtxCount' = Wrap16(CANtxCount - Cardinality(syncFull))
      /\ UNCHANGED <<data, rxFifo, fovr>>
  BY DEF CO_CANclearPendingSyncPDOs, rxHw
<1>2. \E won \in 0 .. 1 :
        IF aborting
        THEN AbortMailboxes(won) /\ bufferInhibitFlag' = FALSE
        ELSE UNCHANGED <<pending, rqcp, onWire, bufferInhibitFlag>>
  BY DEF CO_CANclearPendingSyncPDOs, txHw
<1>3. discarded' \in [Buffers -> {"no", "cleared", "reset"}]
  <2> DEFINE aborted(won) == {pending[i].buf : i \in won + 1 .. Len(pending)}
             Dropped(won) == syncFull \cup
                               (IF aborting THEN aborted(won) \ (Full \ syncFull) ELSE {})
  <2>1. PICK won \in 0 .. 1 :
          discarded' = [b \in Buffers |-> IF b \in Dropped(won) THEN "cleared" ELSE discarded[b]]
    BY DEF CO_CANclearPendingSyncPDOs
  <2> HIDE DEF Dropped
  <2>2. discarded \in [Buffers -> {"no", "cleared", "reset"}]
    BY DEF TypeOK
  <2> QED
    BY <2>1, <2>2
<1>4. /\ pending' \in Seq(Frame) /\ rqcp' \in SUBSET Mailboxes
      /\ onWire' \in [Buffers -> Nat] /\ bufferInhibitFlag' \in BOOLEAN
      /\ Hardware'
      /\ pending # <<>> \/ rqcp # {} => pending' # <<>> \/ rqcp' # {}
  <2>1. CASE aborting
    <3>1. PICK won \in 0 .. 1 : AbortMailboxes(won) /\ bufferInhibitFlag' = FALSE
      BY <1>2, <2>1
    <3>2. 1 \in DOMAIN pending
      BY <2>1 DEF TypeOK
    <3>3. \A i \in DOMAIN pending : pending[i] \in Frame
      BY DEF TypeOK
    <3>4. /\ pending' = <<>>
          /\ rqcp' = rqcp \cup {pending[i].mb : i \in DOMAIN pending}
          /\ onWire' = onWire \/ onWire' = [onWire EXCEPT ![pending[1].buf] = pending[1].data]
      BY <3>1 DEF AbortMailboxes
    <3>5. rqcp' \in SUBSET Mailboxes
      BY <3>3, <3>4 DEF TypeOK, Frame
    <3>6. onWire' \in [Buffers -> Nat]
      BY <3>2, <3>3, <3>4 DEF TypeOK, Frame
    <3>7. Hardware'
      BY <3>4, <3>5 DEF Hardware, CompletedIsFree, OneFramePerMailbox, Free
    <3>8. rqcp' # {}
      <4>1. pending[1].mb \in {pending[i].mb : i \in DOMAIN pending}
        BY <3>2
      <4> QED
        BY <3>4, <4>1
    <3> QED
      BY <3>1, <3>4, <3>5, <3>6, <3>7, <3>8, EmptySeq
  <2>2. CASE ~aborting
    <3>1. UNCHANGED <<pending, rqcp, onWire, bufferInhibitFlag>>
      BY <1>2, <2>2
    <3> QED
      BY <3>1 DEF TypeOK, Hardware, CompletedIsFree, OneFramePerMailbox, Free
  <2> QED
    BY <2>1, <2>2
<1>5. /\ Full' = Full \ syncFull
      /\ syncFull \subseteq Full
  BY <1>1 DEF Full, TypeOK
<1>6. /\ IsFiniteSet(Full) /\ Cardinality(Full) \in Nat
      /\ IsFiniteSet(syncFull) /\ Cardinality(syncFull) \in Nat
  <2>1. Full \in SUBSET Buffers /\ syncFull \in SUBSET Buffers
    BY DEF Full
  <2> QED
    BY <2>1, BuffersFinite
<1> HIDE DEF syncFull, aborting
<1>7. /\ Cardinality(Full \ syncFull) = Cardinality(Full) - Cardinality(syncFull)
      /\ Cardinality(syncFull) <= Cardinality(Full)
  <2>1. Full \cap syncFull = syncFull
    BY <1>5
  <2>2. Cardinality(Full \ syncFull) = Cardinality(Full) - Cardinality(Full \cap syncFull)
    BY <1>6, FS_Difference
  <2> QED
    BY <1>5, <1>6, <2>1, <2>2, FS_Subset
<1>8. /\ CANtxCount' = CANtxCount - Cardinality(syncFull)
      /\ CANtxCount' \in 0 .. CountMod - 1
  BY <1>1, <1>6, <1>7, SizesAssumption DEF Wrap16, TypeOK, FullIsCounted
<1>9. TypeOK'
  BY <1>1, <1>3, <1>4, <1>8 DEF TypeOK
<1>10. FullIsCounted'
  BY <1>5, <1>6, <1>7, <1>8 DEF FullIsCounted, TypeOK
<1>11. NoStall'
  BY <1>4, <1>6, <1>8 DEF NoStall, TypeOK
<1> QED
  BY <1>4, <1>9, <1>10, <1>11

LEMMA ResetStep ==
  ASSUME IInv, CommunicationReset
  PROVE  IInv'
<1> USE DEF IInv
<1>1. TypeOK'
  <2>1. bufferFull' \in [Buffers -> BOOLEAN]
    BY DEF CommunicationReset
  <2>2. PICK W : discarded' = [b \in Buffers |-> IF b \in W THEN "reset" ELSE discarded[b]]
    BY DEF CommunicationReset
  <2>3. discarded' \in [Buffers -> {"no", "cleared", "reset"}]
    BY <2>2 DEF TypeOK
  <2> QED
    BY <2>1, <2>3, ZeroInRange, EmptySeq DEF TypeOK, CommunicationReset
<1>2. Hardware'
  BY DEF CommunicationReset, Hardware, CompletedIsFree, OneFramePerMailbox
<1>3. FullIsCounted'
  <2>1. Full' = {}
    BY DEF CommunicationReset, Full
  <2> QED
    BY <2>1, FS_EmptySet DEF FullIsCounted, CommunicationReset
<1>4. NoStall'
  BY DEF NoStall, CommunicationReset
<1> QED
  BY <1>1, <1>2, <1>3, <1>4

LEMMA BusTransmitStep ==
  ASSUME IInv, BusTransmit
  PROVE  IInv'
<1> USE DEF IInv
<1>1. /\ pending \in Seq(Frame) /\ pending # <<>>
      /\ pending' = Tail(pending)
      /\ rqcp' = rqcp \cup {Head(pending).mb}
      /\ UNCHANGED <<data, bufferFull, CANtxCount, bufferInhibitFlag, rxFifo, fovr, discarded>>
  BY DEF BusTransmit, TypeOK, driver, rxHw
<1>2. /\ Head(pending) = pending[1] /\ Head(pending) \in Frame
      /\ Tail(pending) \in Seq(Frame)
      /\ Len(pending) \in Nat /\ Len(pending) >= 1
      /\ DOMAIN pending = 1 .. Len(pending)
      /\ DOMAIN Tail(pending) = 1 .. Len(pending) - 1
      /\ \A i \in 1 .. Len(pending) - 1 : Tail(pending)[i] = pending[i + 1]
  BY <1>1
<1>3. TypeOK'
  <2>1. onWire' \in [Buffers -> Nat]
    BY <1>2 DEF BusTransmit, TypeOK, Frame
  <2> QED
    BY <1>1, <1>2, <2>1 DEF TypeOK, Frame
<1>4. OneFramePerMailbox'
  BY <1>1, <1>2 DEF Hardware, OneFramePerMailbox
<1>5. CompletedIsFree'
  <2>1. \A i \in 1 .. Len(pending) - 1 : pending[i + 1].mb # pending[1].mb
    BY <1>2 DEF Hardware, OneFramePerMailbox
  <2>2. \A i \in DOMAIN pending' : pending'[i].mb # Head(pending).mb
    BY <1>1, <1>2, <2>1
  <2>3. \A m \in rqcp : \A i \in DOMAIN pending' : pending'[i].mb # m
    BY <1>1, <1>2 DEF Hardware, CompletedIsFree, Free
  <2>4. Head(pending).mb \in Mailboxes
    BY <1>2 DEF Frame
  <2> QED
    BY <1>1, <2>2, <2>3, <2>4 DEF CompletedIsFree, Free, TypeOK
<1>6. FullIsCounted' /\ NoStall'
  BY <1>1 DEF FullIsCounted, Full, NoStall
<1> QED
  BY <1>3, <1>4, <1>5, <1>6 DEF Hardware

LEMMA ReceiveStep ==
  ASSUME IInv, RxOverrun \/ RxMessage \/ BusReceive \/ UNCHANGED vars
  PROVE  IInv'
<1> USE DEF IInv
<1>1. UNCHANGED <<driver, txHw, history>>
  BY DEF RxOverrun, RxMessage, BusReceive, vars
<1>2. rxFifo' \in 0 .. FifoDepth /\ fovr' \in BOOLEAN
  <2>1. CASE RxOverrun
    BY <2>1 DEF RxOverrun, TypeOK
  <2>2. CASE RxMessage
    <3>1. rxFifo \in 0 .. FifoDepth /\ fovr \in BOOLEAN
      BY DEF TypeOK
    <3>2. rxFifo > 0 /\ rxFifo' = rxFifo - 1 /\ fovr' = fovr
      BY <2>2 DEF RxMessage
    <3> QED
      BY <3>1, <3>2, SizesAssumption
  <2>3. CASE BusReceive
    <3>1. rxFifo \in 0 .. FifoDepth /\ fovr \in BOOLEAN
      BY DEF TypeOK
    <3>2. \/ rxFifo < FifoDepth /\ rxFifo' = rxFifo + 1 /\ fovr' = fovr
          \/ fovr' = TRUE /\ rxFifo' = rxFifo
      BY <2>3 DEF BusReceive, TypeOK
    <3>3. rxFifo' \in 0 .. FifoDepth
      BY <3>1, <3>2, SizesAssumption
    <3>4. fovr' \in BOOLEAN
      BY <3>1, <3>2
    <3> QED
      BY <3>3, <3>4
  <2>4. CASE UNCHANGED vars
    BY <2>4 DEF vars, rxHw, TypeOK
  <2> QED
    BY <2>1, <2>2, <2>3, <2>4
<1>3. TypeOK'
  BY <1>1, <1>2 DEF TypeOK, driver, txHw, history
<1>4. Hardware' /\ NoStall' /\ FullIsCounted'
  BY <1>1 DEF driver, txHw, Hardware, CompletedIsFree, OneFramePerMailbox,
              Free, NoStall, FullIsCounted, Full
<1> QED
  BY <1>3, <1>4

(* Every step preserves the inductive invariant.                           *)
LEMMA NextIInv ==
  ASSUME MaxTxCount < CountMod, IInv, [Next]_vars
  PROVE  IInv'
<1>1. ASSUME NEW b \in Buffers, CO_CANsend(b) PROVE IInv'
  BY <1>1, SendStep
<1>2. CASE TxComplete
  BY <1>2, TxCompleteStep
<1>3. CASE CO_CANclearPendingSyncPDOs
  BY <1>3, ClearStep
<1>4. CASE CommunicationReset
  BY <1>4, ResetStep
<1>5. CASE BusTransmit
  BY <1>5, BusTransmitStep
<1>6. CASE RxOverrun \/ RxMessage \/ BusReceive \/ UNCHANGED vars
  BY <1>6, ReceiveStep
<1> QED
  BY <1>1, <1>2, <1>3, <1>4, <1>5, <1>6 DEF Next, CO_CANinterrupt

(* For any number of buffers and mailboxes, as long as the 16-bit count    *)
(* does not wrap, the transmit queue of CO_driver_target.c cannot stall: a *)
(* counted message always has a mailbox event ahead of it, every full      *)
(* buffer is counted, and the transmit branch always finds a free mailbox. *)
THEOREM TransmitQueueSafe ==
  ASSUME MaxTxCount < CountMod
  PROVE  Spec => [](TypeOK /\ CompletedIsFree /\ NoStall /\ FullIsCounted)
<1>1. Init => IInv
  BY InitIInv
<1>2. IInv /\ [Next]_vars => IInv'
  BY NextIInv
<1>3. IInv => TypeOK /\ CompletedIsFree /\ NoStall /\ FullIsCounted
  BY DEF IInv, Hardware
<1> QED
  BY <1>1, <1>2, <1>3, PTL DEF Spec

(* While messages are counted, a mailbox is busy or has a completion to    *)
(* report, which is what calls the transmit branch of CO_CANinterrupt.     *)
THEOREM NeverStalls ==
  ASSUME MaxTxCount < CountMod
  PROVE  Spec => []NoStall
<1>1. Spec => [](TypeOK /\ CompletedIsFree /\ NoStall /\ FullIsCounted)
  BY TransmitQueueSafe
<1> QED
  BY <1>1, PTL

-----------------------------------------------------------------------------
(* can_drv_tx gives the newest stamp of a buffer to the youngest request.  *)
LEMMA RequestInOrder ==
  ASSUME StampsInv, NEW b \in Buffers, NEW flags,
         data' \in [Buffers -> Nat], \A c \in Buffers : data[c] <= data'[c],
         onWire' = onWire, CanDrvTx(b, data'[b], flags)
  PROVE  StampsInv'
<1> DEFINE m == Lowest(Free)
           f == [mb |-> m, buf |-> b, data |-> data'[b]]
<1>1. /\ pending \in Seq(Frame) /\ Len(pending) \in Nat
      /\ \A i \in 1 .. Len(pending) : pending[i] \in Frame
  BY DEF StampsInv, StampTypes
<1>2. \A i \in 1 .. Len(pending) : /\ pending[i].buf \in Buffers /\ pending[i].data \in Nat
                                   /\ pending[i].data <= data'[pending[i].buf]
  <2>1. \A i \in 1 .. Len(pending) : pending[i].buf \in Buffers /\ pending[i].data \in Nat
    BY <1>1 DEF Frame
  <2> QED BY <2>1 DEF StampsInv, StampTypes, Stamps
<1>3. \A c \in Buffers : onWire'[c] <= data'[c]
  BY DEF StampsInv, StampTypes, Stamps
<1>4. CASE Free = {}
  <2>1. pending' = pending
    BY <1>4 DEF CanDrvTx
  <2> QED BY <1>2, <1>3, <2>1 DEF StampsInv, StampTypes, Stamps
<1>5. CASE Free # {}
  <2>1. pending' = Append(pending, f)
    BY <1>5 DEF CanDrvTx
  <2>2. m \in Mailboxes
    <3>1. Free \subseteq Nat
      BY SizesAssumption DEF Free, Mailboxes
    <3> QED BY <1>5, <3>1, LowestInSet DEF Free
  <2>3. f \in Frame
    BY <2>2 DEF Frame
  <2>4. f.buf = b /\ f.data = data'[b]
    OBVIOUS
  <2> HIDE DEF f
  <2>5. /\ pending' \in Seq(Frame)
        /\ Len(pending') = Len(pending) + 1
        /\ \A i \in 1 .. Len(pending) : pending'[i] = pending[i]
        /\ pending'[Len(pending) + 1] = f
    BY <1>1, <2>1, <2>3
  <2>6. \A i \in 1 .. Len(pending') : /\ onWire'[pending'[i].buf] <= pending'[i].data
                                      /\ pending'[i].data <= data'[pending'[i].buf]
    <3> SUFFICES ASSUME NEW i \in 1 .. Len(pending')
                 PROVE  /\ onWire'[pending'[i].buf] <= pending'[i].data
                        /\ pending'[i].data <= data'[pending'[i].buf]
      OBVIOUS
    <3>1. CASE i \in 1 .. Len(pending)
      BY <1>2, <2>5, <3>1 DEF StampsInv, Stamps
    <3>2. CASE i = Len(pending) + 1
      BY <1>3, <2>4, <2>5, <3>2
    <3> QED BY <1>1, <2>5, <3>1, <3>2
  <2>7. ASSUME NEW i \in 1 .. Len(pending'), NEW j \in 1 .. Len(pending'),
               i < j, pending'[i].buf = pending'[j].buf
        PROVE  pending'[i].data <= pending'[j].data
    <3>0. i \in 1 .. Len(pending)
      BY <1>1, <2>5, <2>7
    <3>1. CASE j \in 1 .. Len(pending)
      BY <2>5, <2>7, <3>0, <3>1 DEF StampsInv, Stamps
    <3>2. CASE j = Len(pending) + 1
      BY <1>2, <2>4, <2>5, <2>7, <3>0, <3>2
    <3> QED BY <1>1, <2>5, <3>1, <3>2
  <2> QED BY <1>3, <2>5, <2>6, <2>7 DEF StampsInv, StampTypes, Stamps
<1> QED BY <1>4, <1>5

LEMMA InitStamps == Init => StampsInv
<1> SUFFICES ASSUME Init PROVE StampsInv
  OBVIOUS
<1>1. pending = <<>> /\ Len(pending) = 0 /\ pending \in Seq(Frame)
  BY EmptySeq DEF Init
<1> QED BY <1>1 DEF Init, StampsInv, StampTypes, Stamps

(* Every step keeps the order, and none lets the bus see an older stamp.   *)
LEMMA StepStamps ==
  ASSUME StampsInv, [Next]_vars
  PROVE  StampsInv' /\ \A b \in Buffers : onWire'[b] >= onWire[b]
<1> DEFINE Good == StampsInv' /\ \A b \in Buffers : onWire'[b] >= onWire[b]
<1>0. /\ \A b \in Buffers : onWire[b] \in Nat /\ data[b] \in Nat
      /\ pending \in Seq(Frame) /\ Len(pending) \in Nat
  BY DEF StampsInv, StampTypes
<1>1. ASSUME NEW b \in Buffers, CO_CANsend(b) PROVE Good
  <2>1. /\ data' = [data EXCEPT ![b] = @ + 1] /\ onWire' = onWire
        /\ CanDrvTx(b, data'[b], rqcp)
    BY <1>1 DEF CO_CANsend
  <2>2. data' \in [Buffers -> Nat] /\ \A c \in Buffers : data[c] <= data'[c]
    BY <2>1 DEF StampsInv, StampTypes
  <2> QED BY <1>0, <2>1, <2>2, RequestInOrder
<1>2. CASE TxComplete
  <2>1. UNCHANGED <<data, onWire>>
    BY <1>2 DEF TxComplete, history
  <2>2. data' \in [Buffers -> Nat] /\ \A c \in Buffers : data[c] <= data'[c]
    BY <1>0, <2>1 DEF StampsInv, StampTypes
  <2>3. CASE CANtxCount > 0 /\ Full # {}
    <3> DEFINE b == Lowest(Full)
    <3>1. b \in Buffers
      <4>1. Full \subseteq Nat
        BY SizesAssumption DEF Full, Buffers
      <4> QED BY <2>3, <4>1, LowestInSet DEF Full
    <3>2. CanDrvTx(b, data'[b], {})
      BY <1>2, <2>1, <2>3 DEF TxComplete
    <3> HIDE DEF b
    <3> QED BY <1>0, <2>1, <2>2, <3>1, <3>2, RequestInOrder
  <2>4. CASE ~(CANtxCount > 0 /\ Full # {})
    <3>1. pending' = pending
      BY <1>2, <2>4 DEF TxComplete
    <3> QED BY <1>0, <2>1, <3>1 DEF StampsInv, StampTypes, Stamps
  <2> QED BY <2>3, <2>4
<1>3. ASSUME pending # <<>>, onWire' = [onWire EXCEPT ![pending[1].buf] = pending[1].data]
      PROVE  /\ onWire' \in [Buffers -> Nat]
             /\ \A b \in Buffers : onWire[b] <= onWire'[b] /\ onWire'[b] <= data[b]
             /\ \A i \in 1 .. Len(pending) : onWire'[pending[i].buf] <= pending[i].data
  <2>1. /\ 1 \in 1 .. Len(pending)
        /\ \A i \in 1 .. Len(pending) : pending[i].buf \in Buffers /\ pending[i].data \in Nat
    <3>1. Len(pending) >= 1
      BY <1>0, <1>3
    <3>2. \A i \in 1 .. Len(pending) : pending[i] \in Frame
      BY <1>0
    <3> QED BY <1>0, <3>1, <3>2 DEF Frame
  <2>2. onWire' \in [Buffers -> Nat]
    BY <1>3, <2>1 DEF StampsInv, StampTypes
  <2>3. ASSUME NEW b \in Buffers PROVE onWire[b] <= onWire'[b] /\ onWire'[b] <= data[b]
    BY <1>0, <1>3, <2>1 DEF StampsInv, StampTypes, Stamps
  <2>4. ASSUME NEW i \in 1 .. Len(pending) PROVE onWire'[pending[i].buf] <= pending[i].data
    <3>1. CASE pending[i].buf = pending[1].buf
      <4>1. onWire'[pending[i].buf] = pending[1].data
        BY <1>3, <2>1, <3>1 DEF StampsInv, StampTypes
      <4>2. i = 1 \/ 1 < i
        BY <1>0
      <4>3. pending[1].data <= pending[i].data
        BY <2>1, <3>1, <4>2 DEF StampsInv, Stamps
      <4> QED BY <4>1, <4>3
    <3>2. CASE pending[i].buf # pending[1].buf
      <4>1. onWire'[pending[i].buf] = onWire[pending[i].buf]
        BY <1>3, <2>1, <3>2 DEF StampsInv, StampTypes
      <4> QED BY <4>1 DEF StampsInv, Stamps
    <3> QED BY <3>1, <3>2
  <2> QED BY <2>2, <2>3, <2>4
<1>4. CASE CO_CANclearPendingSyncPDOs
  <2>1. data' = data
    BY <1>4 DEF CO_CANclearPendingSyncPDOs
  <2>2. \/ UNCHANGED <<pending, onWire>>
        \/ \E won \in 0 .. 1 : pending # <<>> /\ AbortMailboxes(won)
    BY <1>4 DEF CO_CANclearPendingSyncPDOs, txHw
  <2>3. CASE UNCHANGED <<pending, onWire>>
    BY <1>0, <2>1, <2>3 DEF StampsInv, StampTypes, Stamps
  <2>4. ASSUME NEW won \in 0 .. 1, pending # <<>>, AbortMailboxes(won) PROVE Good
    <3>1. pending' = <<>> /\ Len(pending') = 0 /\ pending' \in Seq(Frame)
      BY <2>4, EmptySeq DEF AbortMailboxes
    <3>2. \/ onWire' = onWire
          \/ onWire' = [onWire EXCEPT ![pending[1].buf] = pending[1].data]
      BY <2>4 DEF AbortMailboxes
    <3>3. /\ onWire' \in [Buffers -> Nat]
          /\ \A b \in Buffers : onWire[b] <= onWire'[b] /\ onWire'[b] <= data[b]
      BY <1>0, <1>3, <2>4, <3>2 DEF StampsInv, StampTypes, Stamps
    <3> QED BY <1>0, <2>1, <3>1, <3>3 DEF StampsInv, StampTypes, Stamps
  <2> QED BY <2>2, <2>3, <2>4
<1>5. CASE CommunicationReset
  <2>1. pending' = <<>> /\ Len(pending') = 0 /\ pending' \in Seq(Frame) /\ UNCHANGED <<data, onWire>>
    BY <1>5, EmptySeq DEF CommunicationReset
  <2> QED BY <1>0, <2>1 DEF StampsInv, StampTypes, Stamps
<1>6. CASE BusTransmit
  <2>1. /\ pending # <<>> /\ pending' = Tail(pending) /\ data' = data
        /\ onWire' = [onWire EXCEPT ![pending[1].buf] = pending[1].data]
    <3>1. pending # <<>> /\ pending' = Tail(pending) /\ data' = data
      BY <1>6 DEF BusTransmit, driver
    <3>2. onWire' = [onWire EXCEPT ![Head(pending).buf] = Head(pending).data]
      BY <1>6 DEF BusTransmit
    <3>3. Head(pending) = pending[1]
      BY <1>0, <3>1
    <3> QED BY <3>1, <3>2, <3>3
  <2>2. /\ pending' \in Seq(Frame) /\ Len(pending') = Len(pending) - 1
        /\ \A i \in 1 .. Len(pending') : pending'[i] = pending[i + 1]
    BY <1>0, <2>1
  <2>3. /\ onWire' \in [Buffers -> Nat]
        /\ \A b \in Buffers : onWire[b] <= onWire'[b] /\ onWire'[b] <= data[b]
        /\ \A i \in 1 .. Len(pending) : onWire'[pending[i].buf] <= pending[i].data
    BY <1>3, <2>1
  <2>4. \A i \in 1 .. Len(pending') : i + 1 \in 1 .. Len(pending)
    BY <1>0, <2>2
  <2>5. \A i \in 1 .. Len(pending') : /\ onWire'[pending'[i].buf] <= pending'[i].data
                                      /\ pending'[i].data <= data'[pending'[i].buf]
    BY <2>1, <2>2, <2>3, <2>4 DEF StampsInv, Stamps
  <2>6. ASSUME NEW i \in 1 .. Len(pending'), NEW j \in 1 .. Len(pending'),
               i < j, pending'[i].buf = pending'[j].buf
        PROVE  pending'[i].data <= pending'[j].data
    <3>1. i + 1 < j + 1 /\ i + 1 \in 1 .. Len(pending) /\ j + 1 \in 1 .. Len(pending)
      BY <1>0, <2>2, <2>4, <2>6
    <3> QED BY <2>2, <2>6, <3>1 DEF StampsInv, Stamps
  <2> QED BY <1>0, <2>1, <2>2, <2>3, <2>5, <2>6 DEF StampsInv, StampTypes, Stamps
<1>7. CASE RxOverrun \/ RxMessage \/ BusReceive \/ UNCHANGED vars
  <2>1. UNCHANGED <<data, pending, onWire>>
    BY <1>7 DEF RxOverrun, RxMessage, BusReceive, vars, driver, txHw, history
  <2> QED BY <1>0, <2>1 DEF StampsInv, StampTypes, Stamps
<1> QED BY <1>1, <1>2, <1>4, <1>5, <1>6, <1>7 DEF Next, CO_CANinterrupt

(* What the bus sees of one buffer never goes back to an older message,    *)
(* although CO_CANsend hands frames over past those that wait in txArray,  *)
(* and whether or not CANtxCount wraps.                                    *)
THEOREM NeverBackwards == Spec => StampsInOrder
<1> DEFINE Act == \A b \in Buffers : onWire'[b] >= onWire[b]
<1>1. Init => StampsInv
  BY InitStamps
<1>2. StampsInv /\ [Next]_vars => StampsInv'
  BY StepStamps
<1>3. StampsInv /\ [Next]_vars => [Act]_vars
  BY StepStamps
<1>4. Spec => [][Act]_vars
  BY <1>1, <1>2, <1>3, PTL DEF Spec
<1> QED BY <1>4 DEF StampsInOrder
=============================================================================
