-------------------------------- MODULE Ebus --------------------------------
(***************************************************************************)
(* The eBUS master of the boiler application (apps/va/ebus.c): the receive *)
(* parser, the phases of a request and its response, and the cyclic        *)
(* requests, run by ebus_poll in the main loop and interrupted anywhere by *)
(* USART1_IRQHandler, which fills the receive FIFO and reports the end of a*)
(* DMA transmission.                                                       *)
(*                                                                         *)
(* A byte is abstracted to what the parser tells apart: SYN, ESC, ACK (0), *)
(* the bytes of the boiler's response to request n, those of the response  *)
(* in an exchange of other masters, and X, any other.                      *)
(* Timers are steps that may be due at any poll. The setpoint branch sends *)
(* nothing in this version and is a poll that does nothing. How long       *)
(* anything but a response is, and what it means, is left open.            *)
(*                                                                         *)
(* Assumed of the world: a byte takes 4 ms at 2400 baud, so no more than   *)
(* one interrupt falls into a call of ebus_poll, though any number between *)
(* two calls; the boiler answers a request before the next one is queued   *)
(* (PKT_POLL_DELAY, 500 ms) or never; a CRC is right only for an undamaged *)
(* response, to this node or to another master, whose bytes may come at any*)
(* time. parser.buffer is taken to be large enough.                        *)
(***************************************************************************)
EXTENDS Integers, Sequences

CONSTANTS
  NumPackets,   (* length of poll_packets                                  *)
  FifoSize,     (* RX_FIFO_SIZE: one slot stays empty                      *)
  HdrSize       (* bytes of a command's header, 5 on the bus               *)

ASSUME SizesAssumption ==
  NumPackets \in Nat \ {0} /\ FifoSize \in Nat \ {0, 1} /\ HdrSize \in Nat \ {0, 1}

VARIABLES
  ph,
  parser,             (* is_escaped, is_master_cmd, header bytes so far and*)
                      (* what of a response the buffer holds               *)
  fifo,               (* rx_fifo                                           *)
  rxie,               (* RXNE interrupt enabled                            *)
  dma,                (* what is being transmitted: "none", "tx" (tx_buf), *)
                      (* "resp" (tx_buf_resp), "cmd" (tx_buf_resp_cmd)     *)
  tx_complete_flag,
  p_tx_buf,
  pc,                 (* where ebus_poll is; "out" between two calls       *)
  received,           (* rx_pkt.received                                   *)
  pkt_idx,
  active_pkt_idx,
  pkt_waiting_save,
  trx_enabled,
  boiler,             (* what the boiler has yet to send                   *)
  interrupted,        (* an interrupt has fallen into this poll            *)
  of,                 (* history: the request rx_pkt is the response to,   *)
                      (* or Other; 0 once it is saved                      *)
  quiet,              (* history: the last byte on the bus was a SYN       *)
  lost                (* history: the FIFO has overflown since a SYN       *)

comm   == <<ph, parser, p_tx_buf>>
line   == <<fifo, rxie, dma, tx_complete_flag>>
master == <<received, pkt_idx, active_pkt_idx, pkt_waiting_save>>
world  == <<boiler, interrupted, quiet, lost>>
vars   == <<comm, line, master, world, pc, trx_enabled, of>>

Packets == 0 .. NumPackets - 1
Other   == NumPackets      (* an exchange between other masters and slaves *)

Byte(kind, n) == [kind |-> kind, of |-> n]
SYN == Byte("SYN", 0)
ESC == Byte("ESC", 0)
ACK == Byte("ACK", 0)
X   == Byte("X", 0)
Response(n) == <<Byte("LEN", n), Byte("DATA", n), Byte("CRC", n)>>
Bytes == {SYN, ESC, ACK, X} \cup {Byte(kind, n) : kind \in {"LEN", "DATA", "CRC"}, n \in Packets \cup {Other}}

Phases == {"IDLE", "WAIT_SYN_TO_TX", "TX_DELAY", "TX_DELAY_RESP", "TX", "WAIT_RESP",
           "RX_SYN", "RX_HDR", "RX_PL", "RX_CRC", "TX_RESP"}

Nothing == Byte("none", 0)
Junk    == Byte("junk", 0)

(* ebus_parser_init.                                                       *)
FreshParser ==
  [escaped |-> FALSE, master |-> FALSE, hdr |-> 0, held |-> Nothing]

Init ==
  /\ ph = "IDLE" /\ parser = FreshParser /\ p_tx_buf = "none"
  /\ fifo = <<>> /\ rxie = TRUE /\ dma = "none" /\ tx_complete_flag = FALSE
  /\ pc = "out"
  /\ received = FALSE /\ pkt_idx = 0 /\ active_pkt_idx = 0 /\ pkt_waiting_save = FALSE
  /\ trx_enabled = FALSE
  /\ boiler = <<>> /\ interrupted = FALSE
  /\ of = 0 /\ quiet = FALSE /\ lost = FALSE

-----------------------------------------------------------------------------
(* The interrupt handler.                                                  *)
MayInterrupt == pc = "out" \/ ~interrupted
Interrupts   == interrupted' = (pc # "out")

(* A byte on the bus: put into the FIFO, dropped if it is full, not seen   *)
(* while the node transmits.                                               *)
Arrives(c) ==
  /\ dma = "none"
  /\ MayInterrupt /\ Interrupts
  /\ quiet' = (c = SYN)
  /\ IF rxie /\ Len(fifo) < FifoSize - 1
     THEN fifo' = Append(fifo, c) /\ lost' = (lost /\ c # SYN)
     ELSE fifo' = fifo /\ lost' = TRUE
  /\ UNCHANGED <<comm, rxie, dma, tx_complete_flag, master, pc, trx_enabled, of>>

(* Noise and the exchanges of other masters, byte by byte.                 *)
Overheard == {SYN, ESC, ACK, X} \cup {Byte(kind, Other) : kind \in {"LEN", "DATA", "CRC"}}

BusByte == \E c \in Overheard : Arrives(c) /\ UNCHANGED boiler

BoilerByte ==
  /\ boiler # <<>>
  /\ Arrives(Head(boiler))
  /\ boiler' = Tail(boiler)

(* Faulty variant: the receiver stays off.                                 *)
TxCompleteDeaf ==
  /\ dma # "none"
  /\ MayInterrupt /\ Interrupts
  /\ dma' = "none"
  /\ tx_complete_flag' = TRUE
  /\ quiet' = FALSE
  /\ boiler' \in IF dma = "tx" THEN {<<>>, <<ACK>> \o Response(active_pkt_idx)} ELSE {boiler}
  /\ UNCHANGED <<comm, fifo, rxie, master, lost, pc, trx_enabled, of>>

(* Transmission complete. After a request the boiler may answer, late.     *)
TxComplete ==
  /\ dma # "none"
  /\ MayInterrupt /\ Interrupts
  /\ dma' = "none"
  /\ rxie' = TRUE
  /\ tx_complete_flag' = TRUE
  /\ quiet' = FALSE
  /\ boiler' \in IF dma = "tx" THEN {<<>>, <<ACK>> \o Response(active_pkt_idx)} ELSE {boiler}
  /\ UNCHANGED <<comm, fifo, master, lost, pc, trx_enabled, of>>

-----------------------------------------------------------------------------
(* parse: one byte. Go sets the phase and the parser.                      *)
Go(phase, p) == ph' = phase /\ parser' = p /\ UNCHANGED <<p_tx_buf, received, of>>

(* check_unstaffing: the bytes that c can stand for, if any; Unstuff is the*)
(* case that none is taken: c begins an escape, or ends one in error.      *)
Unstuffed(c) ==
  IF ~parser.escaped THEN {c} \ {ESC}
  ELSE IF c = ACK THEN {X}
  ELSE IF c \in {SYN, ESC} THEN {}
  ELSE {SYN}

Unstuff(c) ==
  \/ ~parser.escaped /\ c = ESC /\ Go(ph, [parser EXCEPT !.escaped = TRUE])
  \/ parser.escaped /\ c # ACK /\ Go("IDLE", FreshParser)

(* What the buffer holds after one more byte: a prefix of a response or    *)
(* something else, such as a command.                                      *)
Held(c) ==
  IF parser.master THEN Junk
  ELSE IF parser.held = Nothing /\ c.kind = "LEN" THEN c
  ELSE IF parser.held.kind = "LEN" /\ c = Byte("DATA", parser.held.of) THEN c
  ELSE Junk

ParseWaitSyn(c) ==
  /\ ph = "WAIT_SYN_TO_TX"
  /\ IF c = SYN
     THEN ph' = "TX_DELAY" /\ p_tx_buf' = "tx" /\ UNCHANGED <<parser, received, of>>
     ELSE UNCHANGED <<comm, received, of>>

ParseWaitResp(c) ==
  /\ ph = "WAIT_RESP"
  /\ IF c = ACK THEN Go("RX_SYN", FreshParser) ELSE Go("IDLE", parser)

(* A taken byte is put into the buffer.                                    *)
Stored(d) == [parser EXCEPT !.escaped = FALSE, !.held = Held(d)]

OneMore(hdr) == IF hdr > HdrSize THEN hdr ELSE hdr + 1

(* A bare SYN announces a command of another master; without one, a byte   *)
(* is the length of the boiler's response.                                 *)
ParseFirst(d) ==
  IF parser.master
  THEN Go("RX_HDR", [Stored(d) EXCEPT !.hdr = OneMore(@)])
  ELSE \/ d # ACK /\ Go("RX_PL", Stored(d))
       \/ d.kind \in {"ACK", "DATA", "CRC"} /\ Go("RX_CRC", Stored(d))
       \/ d.kind # "LEN" /\ d # ACK /\ Go("IDLE", FreshParser)

ParseIdle(c) ==
  /\ ph \in {"IDLE", "RX_SYN"}
  /\ IF c = SYN THEN Go("IDLE", [FreshParser EXCEPT !.master = TRUE])
                ELSE Unstuff(c) \/ \E d \in Unstuffed(c) : ParseFirst(d)

(* The header of a command: nothing is unstuffed, and a length that does   *)
(* not fit starts the parser over in this phase.                           *)
ParseHdr(c) ==
  /\ ph = "RX_HDR"
  /\ LET p == [parser EXCEPT !.hdr = OneMore(@), !.held = Junk]
     IN IF p.hdr # HdrSize THEN Go("RX_HDR", p)
        ELSE \/ Go("RX_CRC", p)
             \/ Go("RX_PL", p)
             \/ Go("RX_HDR", FreshParser)

ParseData(d) ==
  \/ Go("RX_CRC", Stored(d))
  \/ parser.held.kind # "LEN" /\ Go("RX_PL", Stored(d))

ParsePayload(c) == ph = "RX_PL" /\ (Unstuff(c) \/ \E d \in Unstuffed(c) : ParseData(d))

(* The end of a command is answered with tx_buf_resp_cmd; that of a        *)
(* response with ACK or NACK and a SYN, and the next byte begins a command.*)
ParseEnd(d) ==
  IF d = SYN THEN Go("IDLE", FreshParser)
  ELSE /\ ph' = "TX_DELAY_RESP"
       /\ parser' = [FreshParser EXCEPT !.master = ~parser.master]
       /\ p_tx_buf' = IF parser.master THEN "cmd" ELSE "resp"
       /\ IF ~parser.master /\ parser.held.kind = "DATA" /\ d = Byte("CRC", parser.held.of)
          THEN received' = TRUE /\ of' = parser.held.of
          ELSE UNCHANGED <<received, of>>

ParseCrc(c) == ph = "RX_CRC" /\ (Unstuff(c) \/ \E d \in Unstuffed(c) : ParseEnd(d))

(* Faulty variant: bytes during the delay before a transmission are ignored*)
(* as well.                                                                *)
ParseElseIgnores ==
  /\ ph \in {"TX", "TX_DELAY", "TX_DELAY_RESP", "TX_RESP"}
  /\ UNCHANGED <<comm, received, of>>

(* A byte during a request is ignored; before a transmission it cancels    *)
(* it; during one it ends the phase all the same.                          *)
ParseElse ==
  \/ ph = "TX" /\ UNCHANGED <<comm, received, of>>
  \/ ph \in {"TX_DELAY", "TX_DELAY_RESP", "TX_RESP"} /\ Go("IDLE", parser)

Parse(c) ==
  \/ ParseWaitSyn(c) \/ ParseWaitResp(c) \/ ParseIdle(c) \/ ParseHdr(c)
  \/ ParsePayload(c) \/ ParseCrc(c) \/ ParseElse

-----------------------------------------------------------------------------
(* ebus_poll. Faulty variant: the flag is consumed only where it is awaited*)
PollFlagAwaited ==
  /\ pc = "out" /\ pc' = "drain"
  /\ interrupted' = FALSE
  /\ IF tx_complete_flag /\ ph \in {"TX", "TX_RESP"}
     THEN /\ ph' = IF ph = "TX" THEN "WAIT_RESP" ELSE "IDLE"
          /\ tx_complete_flag' = FALSE
     ELSE UNCHANGED <<ph, tx_complete_flag>>
  /\ UNCHANGED <<parser, p_tx_buf, fifo, rxie, dma, master, boiler, quiet, lost, trx_enabled, of>>

PollFlag ==
  /\ pc = "out" /\ pc' = "drain"
  /\ interrupted' = FALSE
  /\ tx_complete_flag' = FALSE
  /\ ph' = IF ~tx_complete_flag THEN ph
           ELSE IF ph = "TX" THEN "WAIT_RESP"
           ELSE IF ph = "TX_RESP" THEN "IDLE" ELSE ph
  /\ UNCHANGED <<parser, p_tx_buf, fifo, rxie, dma, master, boiler, quiet, lost, trx_enabled, of>>

PollByte ==
  /\ pc = "drain" /\ fifo # <<>>
  /\ fifo' = Tail(fifo)
  /\ Parse(Head(fifo))
  /\ UNCHANGED <<rxie, dma, tx_complete_flag, pkt_idx, active_pkt_idx, pkt_waiting_save,
                 world, pc, trx_enabled>>

PollDrained ==
  /\ pc = "drain" /\ fifo = <<>>
  /\ pc' = "timer"
  /\ UNCHANGED <<comm, line, master, world, trx_enabled, of>>

NotExpired ==
  /\ pc = "timer" /\ pc' = "app"
  /\ UNCHANGED <<comm, line, master, world, trx_enabled, of>>

(* uart_tx_dma at the end of a delay.                                      *)
StartTx ==
  /\ pc = "timer" /\ pc' = "out"
  /\ ph \in {"TX_DELAY", "TX_DELAY_RESP"}
  /\ ph' = IF ph = "TX_DELAY" THEN "TX" ELSE "TX_RESP"
  /\ dma' = p_tx_buf
  /\ rxie' = FALSE
  /\ interrupted' = FALSE
  /\ UNCHANGED <<parser, p_tx_buf, fifo, tx_complete_flag, master, boiler, quiet, lost,
                 trx_enabled, of>>

TimedOut ==
  /\ pc = "timer" /\ pc' = "app"
  /\ ph \in {"WAIT_SYN_TO_TX", "WAIT_RESP", "RX_SYN", "RX_HDR", "RX_PL", "RX_CRC"}
  /\ ph' = "IDLE"
  /\ UNCHANGED <<parser, p_tx_buf, line, master, world, trx_enabled, of>>

(* The outcome of the active request is saved, then the next one may be    *)
(* due and is put into tx_buf.                                             *)
Save == received' = FALSE /\ of' = 0 /\ pkt_waiting_save' = FALSE

Send ==
  /\ ph' = "WAIT_SYN_TO_TX"
  /\ active_pkt_idx' = pkt_idx
  /\ pkt_waiting_save' = TRUE
  /\ pkt_idx' = (pkt_idx + 1) % NumPackets
  /\ boiler' = <<>>

LineUnchanged ==
  interrupted' = FALSE /\ UNCHANGED <<parser, p_tx_buf, line, quiet, lost, trx_enabled>>

PollIdle ==
  /\ pc = "app" /\ pc' = "out"
  /\ IF trx_enabled /\ ph = "IDLE" THEN Save ELSE UNCHANGED <<received, of, pkt_waiting_save>>
  /\ UNCHANGED <<ph, pkt_idx, active_pkt_idx, boiler>> /\ LineUnchanged

(* Faulty variant: the next request is queued before the outcome is saved. *)
PollSendUnsaved ==
  /\ pc = "app" /\ pc' = "out"
  /\ trx_enabled /\ ph = "IDLE"
  /\ Send /\ UNCHANGED <<received, of>> /\ LineUnchanged

PollSend ==
  /\ pc = "app" /\ pc' = "out"
  /\ trx_enabled /\ ph = "IDLE"
  /\ Send /\ received' = FALSE /\ of' = 0 /\ LineUnchanged

(* ebus_enable.                                                            *)
Enable ==
  /\ pc = "out"
  /\ trx_enabled' = ~trx_enabled
  /\ IF trx_enabled THEN UNCHANGED <<pkt_idx, pkt_waiting_save>>
     ELSE pkt_idx' = 0 /\ pkt_waiting_save' = FALSE
  /\ UNCHANGED <<comm, line, received, active_pkt_idx, world, pc, of>>

Next ==
  \/ BusByte \/ BoilerByte \/ TxComplete
  \/ PollFlag \/ PollByte \/ PollDrained \/ NotExpired \/ StartTx \/ TimedOut
  \/ PollIdle \/ PollSend
  \/ Enable

Spec == Init /\ [][Next]_vars

-----------------------------------------------------------------------------
(* Types; the FIFO never fills its last slot.                              *)
TypeOK ==
  /\ ph \in Phases
  /\ parser \in [escaped : BOOLEAN, master : BOOLEAN, hdr : 0 .. HdrSize + 1,
                 held : Bytes \cup {Nothing, Junk}]
  /\ fifo \in Seq(Bytes) /\ Len(fifo) < FifoSize
  /\ dma \in {"none", "tx", "resp", "cmd"}
  /\ p_tx_buf \in {"none", "tx", "resp", "cmd"}
  /\ pc \in {"out", "drain", "timer", "app"}
  /\ {rxie, tx_complete_flag, received, pkt_waiting_save, trx_enabled,
      interrupted, quiet, lost} \subseteq BOOLEAN
  /\ {pkt_idx, active_pkt_idx} \subseteq Packets /\ of \in Packets \cup {Other}
  /\ boiler \in Seq(Bytes)

(* The phases without a time-out are left only by tx_complete_flag: in them*)
(* the flag is set or a transmission is running that will set it. And the  *)
(* receiver is off only while one is running. A completion that is eaten by*)
(* another phase, or a byte that ends PH_TX_RESP early, leaves neither the *)
(* master stuck nor the receiver off.                                      *)
Unstuck ==
  /\ ph \in {"TX", "TX_RESP"} => dma # "none" \/ tx_complete_flag
  /\ ~rxie => dma # "none"

(* A buffer is never rewritten, and the DMA never started again, while a   *)
(* transmission is running, although PH_TX_RESP can be left before its end.*)
TxExclusive ==
  [][dma # "none" => /\ dma' \in {dma, "none"}
                     /\ ~StartTx
                     /\ PollSend => dma # "tx"
                     /\ ph = "RX_CRC" => ph' # "TX_DELAY_RESP"]_vars

(* A request is sent into a quiet bus: the last byte on it was a SYN,      *)
(* unless one arrived within this very poll or bytes were lost.            *)
StartsOnSyn ==
  [][StartTx /\ p_tx_buf = "tx" => quiet \/ interrupted \/ lost]_vars

(* A response of the boiler is saved to the request it answers, also one   *)
(* that comes after its time-out, in pieces, across a disabling and        *)
(* enabling, or mixed with the exchanges of other masters. What rx_pkt     *)
(* holds otherwise is a response overheard whole: it carries no address,   *)
(* and the parser saves it to the active request like an answer.           *)
RightRequest == received => of \in {active_pkt_idx, Other}
=============================================================================
