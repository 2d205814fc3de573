------------------------------ MODULE Emergency ------------------------------
(***************************************************************************)
(* Emergencies of an application: errors are kept as bits in x2000, and    *)
(* every change of a bit is put into a fifo, from which CO_EM_process sends*)
(* one message at a time (canopennode/301/CO_Emergency.c). A change that   *)
(* finds the fifo full is not sent; EMERGENCY_BUFFER_FULL says so. Errors  *)
(* come from the CAN driver (CO_CANmodule_process) and from everywhere     *)
(* else: the heartbeat consumer, the PDOs, the storage.                    *)
(*                                                                         *)
(* The master modelled here keeps what the messages tell, and reads x2000  *)
(* again when EMERGENCY_BUFFER_FULL is taken back and at a boot-up.        *)
(***************************************************************************)
EXTENDS Integers, Sequences

CONSTANTS
  OtherBits,  (* error bits of the callers other than the CAN driver       *)
  FifoSize,   (* elements of the ring, one of which stays free             *)
  Counters    (* what the CAN controller may count: errors, and bus-off    *)

CanBits   == {"WARNING", "TX_PASSIVE", "BUS_OFF", "TX_OVERFLOW", "RX_PASSIVE", "RX_OVERFLOW"}
Full      == "EMERGENCY_BUFFER_FULL"
ErrorBits == CanBits \cup OtherBits \cup {Full}
Messages  == [bit : ErrorBits, set : BOOLEAN]
Quiet     == [tx |-> 0, rx |-> 0, off |-> FALSE]

ASSUME EmergencyAssumption ==
  /\ OtherBits \cap (CanBits \cup {Full}) = {}
  /\ FifoSize \in Nat /\ FifoSize >= 3
  /\ Counters \subseteq [tx : 0 .. 255, rx : 0 .. 255, off : BOOLEAN]
  /\ Quiet \in Counters

VARIABLES
  errorStatusBits, fifo, fifoOverflow,
  CANerrorStatus, CANerrorStatusOld,
  counters,              (* of the CAN controller when last read: errOld   *)
  NMTisPreOrOperational,
  tx,                    (* the message given to CO_CANsend, until it is on*)
                         (* the bus; one at a time                         *)
  known,                 (* the master's picture of errorStatusBits        *)
  lost                   (* history: bits whose last change was not put    *)
                         (* into the fifo, and the master has not read     *)

can  == <<CANerrorStatus, CANerrorStatusOld, counters>>
em   == <<errorStatusBits, fifo, fifoOverflow, lost>>
vars == <<em, can, NMTisPreOrOperational, tx, known>>

Fresh(bits) == [bits |-> bits, fifo |-> <<>>, overflow |-> 0, lost |-> {}]
Now         == [bits |-> errorStatusBits, fifo |-> fifo, overflow |-> fifoOverflow, lost |-> lost]
Becomes(e)  ==
  /\ errorStatusBits' = e.bits /\ fifo' = e.fifo
  /\ fifoOverflow' = e.overflow /\ lost' = e.lost

Init ==
  /\ errorStatusBits = {} /\ fifo = <<>> /\ fifoOverflow = 0 /\ lost = {}
  /\ CANerrorStatus = {} /\ CANerrorStatusOld = {} /\ counters = Quiet
  /\ NMTisPreOrOperational = TRUE
  /\ tx = <<>> /\ known = {}

-----------------------------------------------------------------------------
(* Faulty variant: the change is forgotten together with its message.      *)
CO_errorUntold(e, set, bit) ==
  IF (bit \in e.bits) = set THEN e
  ELSE [e EXCEPT !.bits = IF set THEN @ \cup {bit} ELSE @ \ {bit},
                 !.fifo = IF Len(@) = FifoSize - 1 THEN @ ELSE Append(@, [bit |-> bit, set |-> set]),
                 !.lost = IF Len(e.fifo) = FifoSize - 1 THEN @ \cup {bit} ELSE @ \ {bit}]

(* A bit that changes is put into the fifo, unless that is full.           *)
CO_error(e, set, bit) ==
  IF (bit \in e.bits) = set THEN e
  ELSE LET bits == IF set THEN e.bits \cup {bit} ELSE e.bits \ {bit}
       IN IF Len(e.fifo) = FifoSize - 1
          THEN [e EXCEPT !.bits = bits, !.overflow = 1, !.lost = @ \cup {bit}]
          ELSE [e EXCEPT !.bits = bits, !.fifo = Append(@, [bit |-> bit, set |-> set]),
                         !.lost = @ \ {bit}]

(* Any caller but CO_EM_process.                                           *)
Error(set, bit) ==
  /\ Becomes(CO_error(Now, set, bit))
  /\ UNCHANGED <<can, NMTisPreOrOperational, tx, known>>

(* CO_CANsend: a message replaces one that still waits in its buffer.      *)
TxOverflow ==
  /\ CANerrorStatus' = CANerrorStatus \cup {"TX_OVERFLOW"}
  /\ UNCHANGED <<em, CANerrorStatusOld, counters, NMTisPreOrOperational, tx, known>>

(* CO_CANmodule_process: the status is worked out anew when the counters   *)
(* (errOld in the code) have changed. The transmit error counter is read   *)
(* into 8 bits; the overflow of the receiver is set when bus-off.          *)
Status(c, old) ==
  IF c = counters THEN old
  ELSE {b \in {"RX_OVERFLOW"} : c.off}
       \cup IF c.tx >= 256
            THEN old \cup {"BUS_OFF"}
            ELSE (old \cap {"RX_OVERFLOW"})
                 \cup {b \in {"WARNING"} : c.rx >= 96 \/ c.tx >= 128}
                 \cup {b \in {"RX_PASSIVE"} : c.rx >= 128}
                 \cup {b \in {"TX_PASSIVE"} : c.tx >= 128}
                 \cup {b \in old \cap {"TX_OVERFLOW"} : c.tx >= 128}

(* Errors of the driver that changed since the last pass, in this order. A *)
(* PDO that was late (CO_CAN_ERRTX_PDO_LATE) has a bit of its own and is   *)
(* one of the OtherBits, which change in any order.                        *)
Changed(e, bit) ==
  IF (bit \in CANerrorStatus') = (bit \in CANerrorStatusOld) THEN e
  ELSE CO_error(e, bit \in CANerrorStatus', bit)
DriverErrors(e) ==
  Changed(Changed(Changed(Changed(Changed(Changed(e,
    "WARNING"), "TX_PASSIVE"), "BUS_OFF"), "TX_OVERFLOW"), "RX_PASSIVE"), "RX_OVERFLOW")

(* Faulty variant: the overflow is over before it is taken back.           *)
OverflowForgotten(e) ==
  IF e.overflow = 1
  THEN CO_error([e EXCEPT !.overflow = 2], TRUE, Full)
  ELSE [e EXCEPT !.overflow = 0]

(* A message was taken from the fifo: an overflow is reported, and taken   *)
(* back when the fifo is empty.                                            *)
OverflowTold(e) ==
  IF e.overflow = 1
  THEN CO_error([e EXCEPT !.overflow = 2], TRUE, Full)
  ELSE IF e.overflow = 2 /\ e.fifo = <<>>
       THEN CO_error([e EXCEPT !.overflow = 0], FALSE, Full)
       ELSE e

(* CO_process: CO_CANmodule_process, which reads the counters c, and       *)
(* CO_EM_process.                                                          *)
CO_EM_process(c) ==
  /\ counters' = c
  /\ CANerrorStatus' = Status(c, CANerrorStatus)
  /\ CANerrorStatusOld' = CANerrorStatus'
  /\ LET e == DriverErrors(Now) IN
     IF NMTisPreOrOperational /\ e.fifo # <<>> /\ tx = <<>>
     THEN /\ tx' = <<Head(e.fifo)>>
          /\ Becomes(OverflowTold([e EXCEPT !.fifo = Tail(@)]))
     ELSE Becomes(e) /\ UNCHANGED tx
  /\ UNCHANGED <<NMTisPreOrOperational, known>>

(* CO_NMT_process.                                                         *)
NMTStateChanges ==
  /\ NMTisPreOrOperational' = ~NMTisPreOrOperational
  /\ UNCHANGED <<em, can, tx, known>>

(* CO_EM_init and the main loop: what waits to be sent is dropped; the bits*)
(* are in x2000 and stay over a communication reset.                       *)
Restart(bits) ==
  /\ Becomes(Fresh(bits))
  /\ CANerrorStatus' = {} /\ CANerrorStatusOld' = {} /\ counters' = Quiet
  /\ NMTisPreOrOperational' = TRUE
  /\ tx' = <<>> /\ known' = bits

ResetCommunication == Restart(errorStatusBits)
ResetNode          == Restart({})

(* The message reaches the bus. That it does is assumed here; CanTx shows  *)
(* it, unless CO_CANclearPendingSyncPDOs aborts the message together with a*)
(* synchronous PDO (CO_driver_target.c:199): then the master is not told.  *)
EmergencySent ==
  /\ tx # <<>> /\ ~counters.off
  /\ LET bit  == tx[1].bit
         told == IF tx[1].set THEN known \cup {bit} ELSE known \ {bit}
     IN IF bit = Full /\ ~tx[1].set
        THEN /\ known' = (told \ lost) \cup (errorStatusBits \cap lost)
             /\ lost' = IF fifoOverflow = 0 THEN {} ELSE lost
        ELSE known' = told /\ UNCHANGED lost
  /\ tx' = <<>>
  /\ UNCHANGED <<errorStatusBits, fifo, fifoOverflow, can, NMTisPreOrOperational>>

Disturbance ==
  \/ \E set \in BOOLEAN, bit \in OtherBits : Error(set, bit)
  \/ TxOverflow \/ NMTStateChanges \/ ResetCommunication \/ ResetNode

Next == Disturbance \/ (\E c \in Counters : CO_EM_process(c)) \/ EmergencySent

Spec == Init /\ [][Next]_vars

(* The main loop goes on, whatever the controller counts, and a bus that is*)
(* up again and again transmits.                                           *)
FairSpec == Spec /\ WF_vars(CO_EM_process(counters)) /\ SF_vars(EmergencySent)

-----------------------------------------------------------------------------
(* What is known of a bit and what waits to be sent about it together say  *)
(* how the bit is, unless its last change found the fifo full; then        *)
(* EMERGENCY_BUFFER_FULL is yet to be taken back, after everything older   *)
(* about it.                                                               *)
Waiting  == tx \o fifo
About(b) == {i \in DOMAIN Waiting : Waiting[i].bit = b}
Informed ==
  /\ \A b \in ErrorBits \ lost :
       IF About(b) = {}
       THEN b \in known <=> b \in errorStatusBits
       ELSE \E i \in About(b) : /\ \A j \in About(b) : j <= i
                                /\ Waiting[i].set <=> b \in errorStatusBits
  /\ lost # {} =>
       \/ fifoOverflow # 0 /\ fifo # <<>>
       \/ \E i \in About(Full) : /\ ~Waiting[i].set
                                 /\ \A j \in DOMAIN Waiting : Waiting[j].bit \in lost => j < i

(* Once the errors stop changing, in a node that is not stopped and on a   *)
(* bus that is up, the master comes to know them all, those that did not   *)
(* fit the fifo included.                                                  *)
Told ==
  /\ <>[](NMTisPreOrOperational /\ ~counters.off)
  /\ <>[][EmergencySent \/ CO_EM_process(counters)]_vars
  => <>[](known = errorStatusBits)
=============================================================================
