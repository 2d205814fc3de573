----------------------------- MODULE Ebus_proofs -----------------------------
(***************************************************************************)
(* Theorems about Ebus: type correctness and the four properties of its    *)
(* run, for any number of requests and any size of the FIFO.               *)
(*                                                                         *)
(* What makes them true is how little the FIFO can hold when a transmission*)
(* starts, and that nothing is received while it runs.                     *)
(***************************************************************************)
EXTENDS Ebus, SequenceTheorems, TLAPS

(* The exchanges a response can belong to.                                 *)
Exchanges == Packets \cup {Other}

(* TypeOK in three parts: what parse changes, the line with the request    *)
(* counters, and the flags, which the provers treat apart.                 *)
Parsers == [escaped : BOOLEAN, master : BOOLEAN, hdr : 0 .. HdrSize + 1,
            held : Bytes \cup {Nothing, Junk}]
Chosen == {"none", "tx", "resp", "cmd"}

Types ==
  /\ ph \in Phases /\ parser \in Parsers /\ p_tx_buf \in Chosen
  /\ received \in BOOLEAN /\ of \in Exchanges

Wired ==
  /\ fifo \in Seq(Bytes) /\ Len(fifo) < FifoSize /\ boiler \in Seq(Bytes)
  /\ dma \in Chosen /\ pc \in {"out", "drain", "timer", "app"}
  /\ pkt_idx \in Packets /\ active_pkt_idx \in Packets

Flags ==
  /\ rxie \in BOOLEAN /\ tx_complete_flag \in BOOLEAN /\ pkt_waiting_save \in BOOLEAN
  /\ trx_enabled \in BOOLEAN /\ interrupted \in BOOLEAN /\ quiet \in BOOLEAN /\ lost \in BOOLEAN

(* Each phase that starts a transmission has its own buffer to send.       *)
BufferChosen ==
  /\ p_tx_buf \in Chosen
  /\ ph = "TX_DELAY" => p_tx_buf = "tx"
  /\ ph = "TX_DELAY_RESP" => p_tx_buf \in {"resp", "cmd"}

(* The receiver is off exactly while the node transmits.                   *)
Receiver == rxie = (dma = "none")

(* ebus_poll is past the FIFO. And no byte could have come in this poll:   *)
(* the node transmits, or has until the interrupt that fell into this poll.*)
InPoll   == pc \in {"timer", "app"}
Occupied == dma # "none" \/ (tx_complete_flag /\ pc # "out")

(* While a transmission runs, and until its end is consumed, the phases are*)
(* those of a transmission or, when PH_TX_RESP was left early, IDLE and the*)
(* wait for a SYN that cannot come.                                        *)
Sending ==
  /\ dma # "none" => ~tx_complete_flag
  /\ dma # "none" => (dma = "tx" <=> ph = "TX")
  /\ tx_complete_flag \/ dma # "none" => ph \in {"TX", "TX_RESP", "IDLE", "WAIT_SYN_TO_TX"}
  /\ tx_complete_flag /\ pc # "out" => interrupted

(* One byte at most was left behind at the start of the transmission, and  *)
(* it is the one that ends PH_TX_RESP early: after it there is none.       *)
Leftover ==
  Occupied => /\ Len(fifo) \in {0, 1}
              /\ ph \in {"IDLE", "WAIT_SYN_TO_TX"} => fifo = <<>>
              /\ InPoll => fifo = <<>>

(* The FIFO was emptied: what it holds came with the interrupt of this     *)
(* poll.                                                                   *)
Drained == InPoll /\ fifo # <<>> => interrupted /\ Len(fifo) = 1

(* The last byte in the FIFO is the last on the bus, if none was lost.     *)
LastSeen ==
  /\ ph = "TX_DELAY" /\ fifo = <<>> => quiet \/ lost
  /\ (ph = "WAIT_SYN_TO_TX" \/ InPoll) /\ fifo # <<>> /\ fifo[Len(fifo)] = SYN => quiet \/ lost

(* A byte of a response is one of the boiler's to the active request, or   *)
(* overheard. One of the boiler's earlier responses may head the FIFO when *)
(* the next request has been queued; it is dropped by the wait for a SYN.  *)
Current(b) == b.kind \in {"LEN", "DATA", "CRC"} => b.of \in {active_pkt_idx, Other}

Answers ==
  /\ \A i \in 1 .. Len(boiler) : Current(boiler[i])
  /\ \A i \in 1 .. Len(fifo) : Current(fifo[i]) \/ (i = 1 /\ ph = "WAIT_SYN_TO_TX" /\ ~InPoll)

Safe ==
  /\ BufferChosen /\ Unstuck /\ Receiver /\ Sending /\ Leftover
  /\ Drained /\ LastSeen /\ Answers /\ RightRequest

IInv == Types /\ Wired /\ Flags /\ Safe

-----------------------------------------------------------------------------

(* The bytes of the bus and of a response are bytes.                       *)
LEMMA ByteSets ==
  /\ {SYN, ESC, ACK, X} \subseteq Bytes /\ Overheard \subseteq Bytes
  /\ \A n \in Packets : Response(n) \in Seq(Bytes) /\ <<ACK>> \o Response(n) \in Seq(Bytes)
<1>1. {SYN, ESC, ACK, X} \subseteq Bytes /\ Overheard \subseteq Bytes
  BY DEF Bytes, Overheard
<1>2. ASSUME NEW n \in Packets
      PROVE  Response(n) \in Seq(Bytes) /\ <<ACK>> \o Response(n) \in Seq(Bytes)
  <2>1. Byte("LEN", n) \in Bytes /\ Byte("DATA", n) \in Bytes /\ Byte("CRC", n) \in Bytes
    BY <1>2 DEF Bytes
  <2>2. ACK \in Bytes
    BY <1>1
  <2>3. Response(n) \in Seq(Bytes)
    BY <2>1 DEF Response
  <2> HIDE DEF Bytes, Byte, ACK, Response
  <2>4. <<ACK>> \in Seq(Bytes)
    BY <2>2
  <2> QED BY <2>3, <2>4
<1> QED BY <1>1, <1>2

(* What ebus_parser_init leaves, and what parse makes of it.               *)
LEMMA FreshIsParser ==
  /\ FreshParser \in Parsers
  /\ \A m \in BOOLEAN : [FreshParser EXCEPT !.master = m] \in Parsers
<1>1. 0 \in 0 .. HdrSize + 1
  BY SizesAssumption
<1>2. FreshParser \in Parsers
  BY <1>1 DEF FreshParser, Parsers
<1> QED BY <1>2 DEF Parsers

(* The parser's buffer and its counters, one byte at a time.               *)
LEMMA HeldInBytes ==
  ASSUME parser \in Parsers, NEW c \in Bytes PROVE Held(c) \in Bytes \cup {Nothing, Junk}
  BY DEF Held, Parsers

LEMMA StoredIsParser ==
  ASSUME parser \in Parsers, NEW c \in Bytes PROVE Stored(c) \in Parsers
<1>1. [parser EXCEPT !.escaped = FALSE] \in Parsers
  BY DEF Parsers
<1> DEFINE p == [parser EXCEPT !.escaped = FALSE]
<1>3. [p EXCEPT !.held = Held(c)] \in Parsers
  BY <1>1, HeldInBytes DEF Parsers
<1>4. Stored(c) = [p EXCEPT !.held = Held(c)]
  BY DEF Stored
<1> QED BY <1>3, <1>4

LEMMA OneMoreBounded ==
  ASSUME NEW h \in 0 .. HdrSize + 1 PROVE OneMore(h) \in 0 .. HdrSize + 1
  BY SizesAssumption DEF OneMore

(* What check_unstaffing makes of a byte is a byte.                        *)
LEMMA UnstuffedBytes == ASSUME NEW c \in Bytes PROVE Unstuffed(c) \subseteq Bytes
  BY ByteSets DEF Unstuffed

(* What parse leaves.                                                      *)
ParseTypes ==
  /\ ph' \in Phases /\ parser' \in Parsers /\ p_tx_buf' \in Chosen
  /\ received' \in BOOLEAN /\ of' \in Exchanges

LEMMA GoTypes ==
  ASSUME Types, NEW q \in Phases, NEW p \in Parsers, Go(q, p) PROVE ParseTypes
  BY DEF Types, ParseTypes, Go

LEMMA UnstuffTypes ==
  ASSUME Types, NEW c, Unstuff(c) PROVE ParseTypes
<1>1. [parser EXCEPT !.escaped = TRUE] \in Parsers
  BY DEF Types, Parsers
<1>2. ph \in Phases /\ "IDLE" \in Phases
  BY DEF Types, Phases
<1> QED BY <1>1, <1>2, GoTypes, FreshIsParser DEF Unstuff

(* Every byte parsed, in every phase, leaves the types right.              *)
LEMMA ParseKeepsTypes ==
  ASSUME Types, NEW c \in Bytes, Parse(c) PROVE ParseTypes
<1> USE DEF Phases
<1>a. parser \in Parsers
  BY DEF Types
<1>b. \A d \in Bytes : Stored(d) \in Parsers
  BY <1>a, StoredIsParser
<1>c. Unstuffed(c) \subseteq Bytes
  BY UnstuffedBytes
<1>1. CASE ParseWaitSyn(c)
  BY <1>1 DEF ParseWaitSyn, comm, Types, ParseTypes, Chosen
<1>2. CASE ParseWaitResp(c)
  BY <1>2, <1>a, GoTypes, FreshIsParser DEF ParseWaitResp
<1>3. CASE ParseIdle(c)
  <2>1. ASSUME NEW d \in Bytes, ParseFirst(d) PROVE ParseTypes
    <3>1. CASE parser.master
      <4>1. OneMore(Stored(d).hdr) \in 0 .. HdrSize + 1
        BY <1>b, OneMoreBounded DEF Parsers
      <4>2. [Stored(d) EXCEPT !.hdr = OneMore(@)] \in Parsers
        BY <4>1, <1>b DEF Parsers
      <4> QED BY <2>1, <3>1, <4>2, GoTypes DEF ParseFirst
    <3> QED BY <2>1, <3>1, <1>b, GoTypes, FreshIsParser DEF ParseFirst
  <2>2. CASE Go("IDLE", [FreshParser EXCEPT !.master = TRUE])
    BY <2>2, GoTypes, FreshIsParser
  <2> QED BY <1>3, <1>c, <2>1, <2>2, UnstuffTypes DEF ParseIdle
<1>4. CASE ParseHdr(c)
  <2> DEFINE q == [parser EXCEPT !.hdr = OneMore(@)]
             p == [parser EXCEPT !.hdr = OneMore(@), !.held = Junk]
  <2>1. OneMore(parser.hdr) \in 0 .. HdrSize + 1
    BY <1>a, OneMoreBounded DEF Parsers
  <2>2. q \in Parsers
    BY <2>1, <1>a DEF Parsers
  <2>3. [q EXCEPT !.held = Junk] \in Parsers
    BY <2>2 DEF Parsers
  <2>4. p = [q EXCEPT !.held = Junk]
    OBVIOUS
  <2>5. p \in Parsers
    BY <2>3, <2>4
  <2>6. \/ Go("RX_HDR", p) \/ Go("RX_CRC", p) \/ Go("RX_PL", p) \/ Go("RX_HDR", FreshParser)
    BY <1>4 DEF ParseHdr
  <2> HIDE DEF p
  <2> QED BY <2>5, <2>6, GoTypes, FreshIsParser
<1>5. CASE ParsePayload(c)
  <2>1. ASSUME NEW d \in Bytes, ParseData(d) PROVE ParseTypes
    BY <2>1, <1>b, GoTypes DEF ParseData
  <2> QED BY <1>5, <1>c, <2>1, UnstuffTypes DEF ParsePayload
<1>6. CASE ParseCrc(c)
  <2>1. ASSUME NEW d \in Bytes, ParseEnd(d) PROVE ParseTypes
    <3>1. CASE d = SYN
      BY <2>1, <3>1, GoTypes, FreshIsParser DEF ParseEnd
    <3>2. CASE d # SYN
      <4>1. parser.held.of \in Exchanges
        BY <1>a, SizesAssumption DEF Parsers, Bytes, Byte, SYN, ESC, ACK, X, Nothing, Junk, Packets,
           Exchanges
      <4>2. (~parser.master) \in BOOLEAN
        OBVIOUS
      <4>3. parser' \in Parsers
        BY <2>1, <3>2, <4>2, FreshIsParser DEF ParseEnd
      <4>4. of' \in Exchanges
        BY <2>1, <3>2, <4>1 DEF ParseEnd, Types
      <4>5. received' \in BOOLEAN
        BY <2>1, <3>2 DEF ParseEnd, Types
      <4>6. p_tx_buf' \in Chosen /\ ph' \in Phases
        BY <2>1, <3>2 DEF ParseEnd, Chosen
      <4> QED BY <4>3, <4>4, <4>5, <4>6 DEF ParseTypes
    <3> QED BY <3>1, <3>2
  <2> QED BY <1>6, <1>c, <2>1, UnstuffTypes DEF ParseCrc
<1>7. CASE ParseElse
  <2>1. CASE Go("IDLE", parser)
    BY <2>1, <1>a, GoTypes
  <2>2. CASE UNCHANGED <<comm, received, of>>
    BY <2>2 DEF Types, ParseTypes, comm
  <2> QED BY <1>7, <2>1, <2>2 DEF ParseElse
<1> QED BY <1>1, <1>2, <1>3, <1>4, <1>5, <1>6, <1>7 DEF Parse

(* The three parts are TypeOK.                                             *)
LEMMA TypeParts == TypeOK <=> Types /\ Wired /\ Flags
<1>1. {rxie, tx_complete_flag, received, pkt_waiting_save, trx_enabled,
       interrupted, quiet, lost} \subseteq BOOLEAN <=> received \in BOOLEAN /\ Flags
  BY Zenon DEF Flags
<1>2. {pkt_idx, active_pkt_idx} \subseteq Packets <=>
        pkt_idx \in Packets /\ active_pkt_idx \in Packets
  OBVIOUS
<1> QED BY <1>1, <1>2, Zenon DEF TypeOK, Types, Wired, Parsers, Chosen, Exchanges

LEMMA ZeroExchange == 0 \in Exchanges
  BY SizesAssumption DEF Exchanges, Packets

LEMMA InitTypes == Init => Types /\ Wired /\ Flags
<1> SUFFICES ASSUME Init PROVE Types /\ Wired /\ Flags
  OBVIOUS
<1>1. Types
  <2>1. parser \in Parsers
    BY FreshIsParser DEF Init
  <2>2. ph \in Phases /\ p_tx_buf \in Chosen /\ received \in BOOLEAN
    BY DEF Init, Phases, Chosen
  <2>3. of \in Exchanges
    BY SizesAssumption DEF Init, Packets, Exchanges
  <2> QED BY <2>1, <2>2, <2>3 DEF Types
<1>2. Wired
  BY SizesAssumption DEF Init, Wired, Chosen, Packets
<1>3. Flags
  BY DEF Init, Flags
<1> QED BY <1>1, <1>2, <1>3

(* A byte that arrives never fills the FIFO's last slot.                   *)
LEMMA ArrivesTypes ==
  ASSUME Wired, Flags, NEW c \in Bytes, Arrives(c)
  PROVE  /\ Flags' /\ fifo' \in Seq(Bytes) /\ Len(fifo') < FifoSize
         /\ dma' = dma /\ pc' = pc /\ pkt_idx' = pkt_idx /\ active_pkt_idx' = active_pkt_idx
<1>1. fifo' \in Seq(Bytes) /\ Len(fifo') < FifoSize
  <2>1. CASE rxie /\ Len(fifo) < FifoSize - 1
    <3>1. fifo' = Append(fifo, c)
      BY <2>1 DEF Arrives
    <3>2. Len(Append(fifo, c)) = Len(fifo) + 1 /\ Append(fifo, c) \in Seq(Bytes)
      BY DEF Wired
    <3> QED BY <2>1, <3>1, <3>2, SizesAssumption DEF Wired
  <2>2. CASE ~(rxie /\ Len(fifo) < FifoSize - 1)
    BY <2>2 DEF Arrives, Wired
  <2> QED BY <2>1, <2>2
<1>2. quiet' \in BOOLEAN /\ interrupted' \in BOOLEAN
  BY DEF Arrives, Interrupts
<1>3. lost' \in BOOLEAN
  BY Zenon DEF Arrives, Flags
<1>4. UNCHANGED <<rxie, tx_complete_flag, pkt_waiting_save, trx_enabled, dma, pc,
                  pkt_idx, active_pkt_idx>>
  BY DEF Arrives, master
<1> QED BY <1>1, <1>2, <1>3, <1>4 DEF Flags

(* Every step leaves the types right.                                      *)
LEMMA StepTypes == Types /\ Wired /\ Flags /\ [Next]_vars => (Types /\ Wired /\ Flags)'
<1> SUFFICES ASSUME Types, Wired, Flags, [Next]_vars PROVE (Types /\ Wired /\ Flags)'
  OBVIOUS
<1> DEFINE Kept == UNCHANGED <<ph, parser, p_tx_buf, received, of>>
<1>k. Kept => Types'
  BY DEF Types
<1>1. CASE BusByte
  <2>1. PICK c \in Overheard : Arrives(c) /\ UNCHANGED boiler
    BY <1>1 DEF BusByte
  <2>2. c \in Bytes
    BY ByteSets
  <2>3. Kept
    BY <2>1 DEF Arrives, comm, master
  <2> QED BY <1>k, <2>1, <2>2, <2>3, ArrivesTypes DEF Wired
<1>2. CASE BoilerByte
  <2>1. Head(boiler) \in Bytes /\ boiler' \in Seq(Bytes) /\ Arrives(Head(boiler))
    BY <1>2 DEF BoilerByte, Wired
  <2>3. Kept
    BY <2>1 DEF Arrives, comm, master
  <2> QED BY <1>k, <2>1, <2>3, ArrivesTypes DEF Wired
<1>3. CASE TxComplete
  <2>1. Kept /\ UNCHANGED <<fifo, pkt_idx, active_pkt_idx, pkt_waiting_save, lost, pc, trx_enabled>>
    BY <1>3 DEF TxComplete, comm, master
  <2>2. boiler' \in Seq(Bytes)
    <3>1. boiler' \in {<<>>, <<ACK>> \o Response(active_pkt_idx), boiler}
      BY <1>3 DEF TxComplete
    <3>2. <<ACK>> \o Response(active_pkt_idx) \in Seq(Bytes)
      BY ByteSets DEF Wired
    <3> DEFINE answer == <<ACK>> \o Response(active_pkt_idx)
    <3>3. <<>> \in Seq(Bytes) /\ boiler \in Seq(Bytes)
      BY DEF Wired
    <3> HIDE DEF answer
    <3> QED BY <3>1, <3>2, <3>3 DEF Wired
  <2>3. Wired'
    BY <1>3, <2>1, <2>2 DEF TxComplete, Wired, Chosen
  <2>4. interrupted' \in BOOLEAN
    BY <1>3 DEF TxComplete, Interrupts
  <2>5. rxie' \in BOOLEAN /\ tx_complete_flag' \in BOOLEAN /\ quiet' \in BOOLEAN
    BY <1>3 DEF TxComplete
  <2>6. Flags'
    BY <2>1, <2>4, <2>5 DEF Flags
  <2> QED BY <1>k, <2>1, <2>3, <2>6
<1>4. CASE PollFlag
  <2>1. /\ Wired'
        /\ UNCHANGED <<rxie, pkt_waiting_save, trx_enabled, quiet, lost,
                       parser, p_tx_buf, received, of>>
    BY <1>4 DEF PollFlag, master, Wired
  <2>2. tx_complete_flag' = FALSE /\ interrupted' = FALSE
    BY <1>4 DEF PollFlag
  <2>3. ph' \in {ph, "WAIT_RESP", "IDLE"}
    BY <1>4 DEF PollFlag
  <2>4. Types'
    BY <2>1, <2>3 DEF Types, Phases
  <2>5. Flags'
    BY <2>1, <2>2 DEF Flags
  <2> QED BY <2>1, <2>4, <2>5
<1>5. CASE PollByte
  <2>1. Head(fifo) \in Bytes /\ fifo' \in Seq(Bytes) /\ Len(fifo') < FifoSize
    BY <1>5, SizesAssumption DEF PollByte, Wired
  <2>2. Types'
    BY <1>5, <2>1, ParseKeepsTypes DEF PollByte, ParseTypes, Types
  <2>3. UNCHANGED <<rxie, dma, tx_complete_flag, pkt_idx, active_pkt_idx, pkt_waiting_save,
                    boiler, interrupted, quiet, lost, pc, trx_enabled>>
    BY <1>5 DEF PollByte, world
  <2> QED BY <2>1, <2>2, <2>3 DEF Wired, Flags
<1>6. CASE PollDrained \/ NotExpired
  <2>1. Kept /\ UNCHANGED <<line, master, world, trx_enabled>> /\ pc' \in {"timer", "app"}
    BY <1>6 DEF PollDrained, NotExpired, comm, master
  <2> QED BY <1>k, <2>1 DEF line, master, world, Wired, Flags
<1>8. CASE StartTx
  <2>1. UNCHANGED <<parser, p_tx_buf, fifo, tx_complete_flag, received, of, pkt_idx, active_pkt_idx,
                    pkt_waiting_save, boiler, quiet, lost, trx_enabled>>
    BY <1>8 DEF StartTx, master
  <2>2. /\ ph' \in {"TX", "TX_RESP"} /\ pc' = "out" /\ rxie' = FALSE /\ dma' = p_tx_buf
        /\ interrupted' = FALSE
    BY <1>8 DEF StartTx
  <2>3. Types'
    BY <2>1, <2>2 DEF Types, Phases
  <2>4. Wired'
    BY <2>1, <2>2 DEF Types, Wired
  <2>5. Flags'
    BY <2>1, <2>2 DEF Flags
  <2> QED BY <2>3, <2>4, <2>5
<1>9. CASE TimedOut
  <2>1. UNCHANGED <<parser, p_tx_buf, line, master, world, trx_enabled, of>>
    BY <1>9 DEF TimedOut
  <2>2. ph' = "IDLE" /\ pc' = "app"
    BY <1>9 DEF TimedOut
  <2>3. Types'
    BY <2>1, <2>2 DEF Types, Phases, master
  <2> QED BY <2>1, <2>2, <2>3 DEF line, master, world, Wired, Flags
<1>10. CASE PollIdle
  <2>1. UNCHANGED <<ph, parser, p_tx_buf, line, quiet, lost, trx_enabled,
                    pkt_idx, active_pkt_idx, boiler>> /\ pc' = "out" /\ interrupted' = FALSE
    BY <1>10 DEF PollIdle, LineUnchanged
  <2>2. \/ received' = FALSE /\ of' = 0 /\ pkt_waiting_save' = FALSE
        \/ UNCHANGED <<received, of, pkt_waiting_save>>
    BY <1>10 DEF PollIdle, Save
  <2>3. Types'
    BY <2>1, <2>2, ZeroExchange DEF Types
  <2>4. Wired'
    BY <2>1 DEF Wired, line
  <2>5. Flags'
    BY <2>1, <2>2 DEF Flags, line
  <2> QED BY <2>3, <2>4, <2>5
<1>11. CASE PollSend
  <2>1. UNCHANGED <<parser, p_tx_buf, line, quiet, lost, trx_enabled>> /\ interrupted' = FALSE
    BY <1>11 DEF PollSend, LineUnchanged
  <2>2. /\ received' = FALSE /\ of' = 0 /\ pkt_waiting_save' = TRUE /\ boiler' = <<>> /\ pc' = "out"
        /\ ph' = "WAIT_SYN_TO_TX" /\ active_pkt_idx' = pkt_idx
        /\ pkt_idx' = (pkt_idx + 1) % NumPackets
    BY <1>11 DEF PollSend, Send
  <2>3. Types'
    BY <2>1, <2>2, ZeroExchange DEF Types, Phases
  <2>4. pkt_idx' \in Packets
    BY <2>2, SizesAssumption DEF Wired, Packets
  <2>5. Wired'
    BY <2>1, <2>2, <2>4 DEF Wired, line
  <2>6. Flags'
    BY <2>1, <2>2 DEF Flags, line
  <2> QED BY <2>3, <2>5, <2>6
<1>12. CASE Enable
  <2>1. Kept /\ UNCHANGED <<line, active_pkt_idx, world, pc>>
    BY <1>12 DEF Enable, comm
  <2>2. trx_enabled' \in BOOLEAN
    BY <1>12, Zenon DEF Enable
  <2>3. \/ pkt_idx' = 0 /\ pkt_waiting_save' = FALSE
        \/ UNCHANGED <<pkt_idx, pkt_waiting_save>>
    BY <1>12 DEF Enable
  <2>4. Wired'
    BY <2>1, <2>3, SizesAssumption DEF Wired, Packets, line, world
  <2>5. Flags'
    BY <2>1, <2>2, <2>3 DEF Flags, line, world
  <2> QED BY <1>k, <2>1, <2>4, <2>5
<1>13. CASE UNCHANGED vars
  <2>1. Kept
    BY <1>13 DEF vars, comm, master
  <2> QED BY <1>k, <1>13, <2>1 DEF vars, line, master, world, Wired, Flags
<1> QED BY <1>1, <1>2, <1>3, <1>4, <1>5, <1>6, <1>8, <1>9, <1>10, <1>11,
           <1>12, <1>13 DEF Next

-----------------------------------------------------------------------------
(* Where parse goes: PH_TX is left alone, a wait for a SYN ends with one,  *)
(* a delay or a response ends in IDLE, and only the end of a packet starts *)
(* another transmission.                                                   *)
LEMMA ParseTarget ==
  ASSUME NEW c, Parse(c)
  PROVE  \/ ph \in {"TX", "WAIT_SYN_TO_TX"} /\ ph' = ph /\ p_tx_buf' = p_tx_buf
         \/ /\ ph \notin {"TX", "WAIT_SYN_TO_TX"} /\ p_tx_buf' = p_tx_buf
            /\ ph' \in {"IDLE", "RX_SYN", "RX_HDR", "RX_PL", "RX_CRC"}
            /\ ph \in {"TX_DELAY", "TX_DELAY_RESP", "TX_RESP"} => ph' = "IDLE"
         \/ ph = "WAIT_SYN_TO_TX" /\ c = SYN /\ ph' = "TX_DELAY" /\ p_tx_buf' = "tx"
         \/ ph = "RX_CRC" /\ ph' = "TX_DELAY_RESP" /\ p_tx_buf' \in {"resp", "cmd"}
<1> DEFINE Calm == /\ ph \notin {"TX", "WAIT_SYN_TO_TX"} /\ p_tx_buf' = p_tx_buf
                   /\ ph' \in {"IDLE", "RX_SYN", "RX_HDR", "RX_PL", "RX_CRC"}
                   /\ ph \in {"TX_DELAY", "TX_DELAY_RESP", "TX_RESP"} => ph' = "IDLE"
<1>1. CASE ParseWaitSyn(c)
  BY <1>1 DEF ParseWaitSyn, comm
<1>2. CASE ParseWaitResp(c)
  BY <1>2 DEF ParseWaitResp, Go
<1>3. CASE ParseIdle(c)
  <2>1. ASSUME NEW d, ParseFirst(d) PROVE Calm
    BY <1>3, <2>1 DEF ParseIdle, ParseFirst, Go
  <2> QED BY <1>3, <2>1 DEF ParseIdle, Unstuff, Go
<1>4. CASE ParseHdr(c)
  BY <1>4 DEF ParseHdr, Go
<1>5. CASE ParsePayload(c)
  <2>1. ASSUME NEW d, ParseData(d) PROVE Calm
    BY <1>5, <2>1 DEF ParsePayload, ParseData, Go
  <2> QED BY <1>5, <2>1 DEF ParsePayload, Unstuff, Go
<1>6. CASE ParseCrc(c)
  <2>0. ph = "RX_CRC"
    BY <1>6 DEF ParseCrc
  <2>1. CASE Unstuff(c)
    BY <2>0, <2>1 DEF Unstuff, Go
  <2>2. ASSUME NEW d, ParseEnd(d) 
        PROVE  \/ Calm
               \/ ph' = "TX_DELAY_RESP" /\ p_tx_buf' \in {"resp", "cmd"}
    <3>1. CASE d = SYN
      <4>1. Go("IDLE", FreshParser)
        BY <2>2, <3>1, Zenon DEF ParseEnd
      <4>2. ph' = "IDLE"
        BY <4>1 DEF Go
      <4>3. p_tx_buf' = p_tx_buf
        BY <4>1 DEF Go
      <4> QED BY <2>0, <4>2, <4>3
    <3>2. CASE d # SYN
      <4>1. ph' = "TX_DELAY_RESP"
        BY <2>2, <3>2, Zenon DEF ParseEnd
      <4>2. p_tx_buf' = IF parser.master THEN "cmd" ELSE "resp"
        BY <2>2, <3>2, Zenon DEF ParseEnd
      <4> QED BY <4>1, <4>2
    <3> QED BY <3>1, <3>2
  <2> QED BY <1>6, <2>0, <2>1, <2>2 DEF ParseCrc
<1>7. CASE ParseElse
  BY <1>7 DEF ParseElse, Go, comm
<1> QED BY <1>1, <1>2, <1>3, <1>4, <1>5, <1>6, <1>7 DEF Parse

(* Only the CRC of the response that the buffer holds completes it.        *)
LEMMA ParseReceives ==
  ASSUME NEW c, Parse(c)
  PROVE  \/ UNCHANGED <<received, of>>
         \/ ph = "RX_CRC" /\ c.kind = "CRC" /\ of' = c.of
<1>1. CASE ParseWaitSyn(c) \/ ParseWaitResp(c) \/ ParseHdr(c) \/ ParseElse
  BY <1>1 DEF ParseWaitSyn, ParseWaitResp, ParseHdr, ParseElse, Go, comm
<1>2. CASE ParseIdle(c)
  <2>1. ASSUME NEW d, ParseFirst(d) PROVE UNCHANGED <<received, of>>
    BY <2>1 DEF ParseFirst, Go
  <2> QED BY <1>2, <2>1 DEF ParseIdle, Unstuff, Go
<1>3. CASE ParsePayload(c)
  <2>1. ASSUME NEW d, ParseData(d) PROVE UNCHANGED <<received, of>>
    BY <2>1 DEF ParseData, Go
  <2> QED BY <1>3, <2>1 DEF ParsePayload, Unstuff, Go
<1>4. CASE ParseCrc(c)
  <2>1. CASE Unstuff(c)
    BY <2>1 DEF Unstuff, Go
  <2>2. ASSUME NEW d \in Unstuffed(c), ParseEnd(d)
        PROVE  \/ UNCHANGED <<received, of>>
               \/ c.kind = "CRC" /\ of' = c.of
    <3>1. CASE d = Byte("CRC", parser.held.of) /\ of' = parser.held.of
      <4>1. d.kind = "CRC" /\ d.of = of'
        BY <3>1 DEF Byte
      <4>2. d # SYN /\ d # X
        BY <4>1 DEF SYN, X, Byte
      <4>3. d = c
        BY <4>2 DEF Unstuffed
      <4> QED BY <4>1, <4>3
    <3> QED BY <2>2, <3>1 DEF ParseEnd, Go
  <2> QED BY <1>4, <2>1, <2>2 DEF ParseCrc
<1> QED BY <1>1, <1>2, <1>3, <1>4 DEF Parse

(* A byte that arrives is the last in the FIFO, or it is lost.             *)
LEMMA ArrivesInOrder ==
  ASSUME Wired, NEW c \in Bytes, Arrives(c)
  PROVE  \/ fifo' = fifo /\ lost' = TRUE
         \/ /\ Len(fifo') = Len(fifo) + 1 /\ fifo' # <<>>
            /\ fifo'[Len(fifo')] = c /\ \A i \in 1 .. Len(fifo) : fifo'[i] = fifo[i]
<1>1. CASE rxie /\ Len(fifo) < FifoSize - 1
  <2>1. fifo' = Append(fifo, c)
    BY <1>1 DEF Arrives
  <2>2. fifo \in Seq(Bytes)
    BY DEF Wired
  <2>3. /\ Len(Append(fifo, c)) = Len(fifo) + 1 /\ Append(fifo, c) # <<>>
        /\ Append(fifo, c)[Len(fifo) + 1] = c
        /\ \A i \in 1 .. Len(fifo) : Append(fifo, c)[i] = fifo[i]
    BY <2>2
  <2> QED BY <2>1, <2>3
<1> QED BY <1>1 DEF Arrives

-----------------------------------------------------------------------------
(* USART1_IRQHandler, RXNE: nothing is received while the node transmits,  *)
(* so the phases of a transmission are not concerned, and a byte comes     *)
(* into a poll only if none has come in it before.                         *)
LEMMA ByteComes ==
  ASSUME Wired, Safe, NEW c \in Bytes, Arrives(c), Current(c),
         \A i \in 1 .. Len(boiler') : Current(boiler'[i])
  PROVE  Safe'
<1>0. \/ fifo' = fifo /\ lost' = TRUE
      \/ /\ Len(fifo') = Len(fifo) + 1 /\ fifo' # <<>>
         /\ fifo'[Len(fifo')] = c /\ \A i \in 1 .. Len(fifo) : fifo'[i] = fifo[i]
  BY ArrivesInOrder, Zenon
<1>1. /\ UNCHANGED <<comm, rxie, dma, tx_complete_flag, master, pc, trx_enabled, of>>
      /\ dma = "none" /\ MayInterrupt /\ Interrupts /\ quiet' = (c = SYN)
  BY DEF Arrives
<1>2. /\ ~Occupied /\ ~Occupied'
      /\ pc # "out" => interrupted' = TRUE /\ ~tx_complete_flag /\ ~interrupted
  BY <1>1 DEF MayInterrupt, Interrupts, Safe, Sending, Occupied
<1>3. BufferChosen' /\ Unstuck' /\ Receiver' /\ Leftover' /\ RightRequest'
  BY <1>1, <1>2 DEF Safe, BufferChosen, Unstuck, Receiver, Leftover, RightRequest, comm, master
<1>4. Sending'
  BY <1>1, <1>2 DEF Safe, Sending, comm
<1>5. Drained'
  <2>1. InPoll' => InPoll /\ interrupted' = TRUE /\ fifo = <<>>
    BY <1>1, <1>2 DEF Safe, Drained, InPoll
  <2>2. fifo = <<>> /\ fifo' # <<>> => Len(fifo') = 1
    <3>1. Len(<<>>) = 0
      OBVIOUS
    <3> QED BY <3>1, <1>0
  <2> QED BY <2>1, <2>2 DEF Drained
<1>6. LastSeen'
  BY <1>0, <1>1 DEF Safe, LastSeen, InPoll, comm
<1>7. Answers'
  <2>1. UNCHANGED <<active_pkt_idx, ph, pc>>
    BY <1>1 DEF comm, master
  <2>2. ASSUME NEW i \in 1 .. Len(fifo')
        PROVE  Current(fifo'[i]) \/ (i = 1 /\ ph = "WAIT_SYN_TO_TX" /\ ~InPoll)
    <3>1. Len(fifo) \in Nat
      BY DEF Wired
    <3>2. CASE i \in 1 .. Len(fifo) /\ fifo'[i] = fifo[i]
      BY <3>2 DEF Safe, Answers
    <3>3. CASE fifo'[i] = c
      BY <3>3
    <3>4. CASE fifo' = fifo
      BY <3>2, <3>4
    <3>5. CASE Len(fifo') = Len(fifo) + 1
      <4>1. i \in 1 .. Len(fifo) \/ i = Len(fifo')
        BY <3>1, <3>5
      <4>2. fifo'[Len(fifo')] = c /\ \A j \in 1 .. Len(fifo) : fifo'[j] = fifo[j]
        BY <3>1, <3>5, <1>0
      <4> QED BY <4>1, <4>2, <3>2, <3>3
    <3> QED BY <3>4, <3>5, <1>0
  <2> QED BY <2>1, <2>2 DEF Answers, Current, InPoll
<1> QED BY <1>3, <1>4, <1>5, <1>6, <1>7 DEF Safe

(* USART1_IRQHandler, TC: the poll it falls into sees no byte.             *)
LEMMA TransmissionEnds == ASSUME Wired, Safe, TxComplete PROVE Safe'
<1>1. /\ UNCHANGED <<comm, fifo, master, lost, pc, trx_enabled, of>>
      /\ dma # "none" /\ dma' = "none" /\ rxie' = TRUE /\ tx_complete_flag' = TRUE
      /\ quiet' = FALSE /\ interrupted' = (pc # "out")
  BY DEF TxComplete, Interrupts
<1>2. Occupied /\ (Occupied' => Occupied) /\ InPoll' = InPoll
  BY DEF Occupied, TxComplete, InPoll
<1>3. BufferChosen' /\ Unstuck' /\ Receiver' /\ Leftover' /\ RightRequest'
  BY <1>1, <1>2 DEF Safe, BufferChosen, Unstuck, Receiver, Leftover, RightRequest, comm, master
<1>4. Sending'
  BY <1>1, <1>2 DEF Safe, Sending, comm
<1>5. Drained' /\ LastSeen'
  BY <1>1, <1>2 DEF Safe, Drained, LastSeen, Leftover, Sending, comm
<1>6. Answers'
  <2>1. \/ boiler' = <<>>
        \/ boiler' = <<ACK>> \o Response(active_pkt_idx)
        \/ boiler' = boiler
    BY DEF TxComplete
  <2>2. \A i \in 1 .. Len(boiler') : Current(boiler'[i])
    <3>1. CASE boiler' = <<>>
      BY <3>1
    <3>2. CASE boiler' = <<ACK>> \o Response(active_pkt_idx)
      <4> DEFINE s == <<ACK>>
                 t == Response(active_pkt_idx)
      <4>1. s \in Seq(Bytes) /\ t \in Seq(Bytes) /\ Len(s) = 1 /\ Len(t) = 3
        BY ByteSets DEF Wired, Response
      <4>a. boiler' = s \o t
        BY <3>2
      <4>b. /\ Len(s \o t) = Len(s) + Len(t)
            /\ \A i \in 1 .. Len(s) + Len(t) :
                 (s \o t)[i] = IF i <= Len(s) THEN s[i] ELSE t[i - Len(s)]
        BY <4>1, ConcatProperties, Zenon
      <4>2. /\ Len(boiler') = 4
            /\ \A i \in 1 .. 4 : boiler'[i] = IF i <= 1 THEN s[i] ELSE t[i - 1]
        <5> HIDE DEF s, t
        <5> QED BY <4>1, <4>a, <4>b
      <4>3. \A i \in 1 .. 1 : Current(s[i])
        BY DEF Current, ACK, Byte
      <4>4. \A i \in 1 .. 3 : Current(t[i])
        BY DEF Response, Current, Byte
      <4> HIDE DEF Current, s, t
      <4> QED BY <4>2, <4>3, <4>4
    <3>3. CASE boiler' = boiler
      BY <3>3 DEF Safe, Answers
    <3> QED BY <2>1, <3>1, <3>2, <3>3
  <2> QED BY <1>1, <1>2, <2>2 DEF Safe, Answers, Current, comm, master
<1> QED BY <1>3, <1>4, <1>5, <1>6 DEF Safe

(* ebus_poll consumes tx_complete_flag.                                    *)
LEMMA FlagPolled == ASSUME Safe, PollFlag PROVE Safe'
<1>1. /\ UNCHANGED <<parser, p_tx_buf, fifo, rxie, dma, master, boiler, quiet, lost,
                     trx_enabled, of>>
      /\ pc = "out" /\ pc' = "drain" /\ tx_complete_flag' = FALSE
  BY DEF PollFlag
<1>2. \/ ph' = ph /\ (ph \in {"TX", "TX_RESP"} => dma # "none")
      \/ ph' \in {"WAIT_RESP", "IDLE"} /\ dma = "none" /\ ph # "WAIT_SYN_TO_TX"
  BY DEF PollFlag, Safe, Unstuck, Sending
<1>3. ~InPoll /\ ~InPoll'
  BY <1>1 DEF InPoll
<1>4. BufferChosen' /\ Unstuck' /\ Receiver' /\ RightRequest'
  BY <1>1, <1>2 DEF Safe, BufferChosen, Unstuck, Receiver, RightRequest, master
<1>5. Sending' /\ Leftover'
  BY <1>1, <1>2, <1>3 DEF Safe, Sending, Leftover, Occupied
<1>6. Drained' /\ LastSeen' /\ Answers'
  BY <1>1, <1>2, <1>3 DEF Safe, Drained, LastSeen, Answers, Current, master
<1> QED BY <1>4, <1>5, <1>6 DEF Safe

(* ebus_poll parses a byte: during a transmission the only one left, which *)
(* ends PH_TX_RESP; otherwise one of the active request's response.        *)
LEMMA BytePolled == ASSUME Wired, Safe, PollByte PROVE Safe'
<1> DEFINE c == Head(fifo)
<1>1. /\ UNCHANGED <<rxie, dma, tx_complete_flag, pkt_idx, active_pkt_idx, pkt_waiting_save,
                 world, pc, trx_enabled>>
      /\ pc = "drain" /\ fifo # <<>> /\ fifo' = Tail(fifo) /\ Parse(c)
  BY DEF PollByte
<1>2. /\ Len(fifo) \in Nat \ {0} /\ Len(fifo') = Len(fifo) - 1 /\ c = fifo[1]
      /\ \A i \in 1 .. Len(fifo') : fifo'[i] = fifo[i + 1]
      /\ fifo' \in Seq(Bytes)
  BY <1>1 DEF Wired
<1>a. fifo' = <<>> <=> Len(fifo) = 1
  BY <1>2, EmptySeq
<1>3. ~InPoll /\ ~InPoll' /\ (Occupied' <=> Occupied)
  BY <1>1 DEF InPoll, Occupied
<1>4. BufferChosen' /\ Unstuck' /\ Receiver'
  BY <1>1, ParseTarget DEF Safe, BufferChosen, Chosen, Unstuck, Receiver
<1>5. Occupied => ph \in {"TX", "TX_RESP"} /\ Len(fifo) = 1
  BY <1>1, <1>2 DEF Safe, Sending, Leftover, Occupied
<1>6. Sending'
  BY <1>1, <1>5, ParseTarget DEF Safe, Sending, Occupied, world
<1>7. Leftover'
  <2>1. Occupied' => Len(fifo) = 1
    BY <1>3, <1>5
  <2>2. Len(fifo) = 1 => fifo' = <<>> /\ Len(fifo') = 0
    BY <1>2, <1>a
  <2> QED BY <2>1, <2>2 DEF Leftover
<1>8. Drained'
  BY <1>3 DEF Drained
<1>9. LastSeen'
  BY <1>1, <1>2, <1>3, <1>a, ParseTarget DEF Safe, LastSeen, world
<1>10. Answers'
  BY <1>1, <1>2, <1>3 DEF Safe, Answers, Current, world
<1>11. RightRequest'
  <2>1. \/ UNCHANGED <<received, of>>
        \/ ph = "RX_CRC" /\ c.kind = "CRC" /\ of' = c.of
    BY <1>1, ParseReceives
  <2>2. CASE UNCHANGED <<received, of>>
    BY <1>1, <2>2 DEF Safe, RightRequest
  <2>3. CASE ph = "RX_CRC" /\ c.kind = "CRC" /\ of' = c.of
    <3>1. Current(fifo[1])
      BY <1>2, <2>3 DEF Safe, Answers
    <3>2. c.of \in {active_pkt_idx, Other}
      BY <1>2, <2>3, <3>1 DEF Current
    <3> QED BY <1>1, <2>3, <3>2 DEF RightRequest
  <2> QED BY <2>1, <2>2, <2>3
<1> QED BY <1>4, <1>6, <1>7, <1>8, <1>9, <1>10, <1>11 DEF Safe

(* The bytes of the boiler and of anyone else.                             *)
LEMMA ByteArrives ==
  ASSUME Wired, Safe, BusByte \/ BoilerByte PROVE Safe'
<1>1. CASE BusByte
  <2>1. PICK c \in Overheard : Arrives(c) /\ UNCHANGED boiler
    BY <1>1 DEF BusByte
  <2>2. Current(c) /\ active_pkt_idx' = active_pkt_idx /\ c \in Bytes
    BY <2>1, ByteSets DEF Current, Overheard, SYN, ESC, ACK, X, Byte, Arrives, master
  <2>3. \A i \in 1 .. Len(boiler') : Current(boiler'[i])
    BY <2>1 DEF Safe, Answers
  <2> QED BY <2>1, <2>2, <2>3, ByteComes
<1>2. CASE BoilerByte
  <2>1. boiler # <<>> /\ Arrives(Head(boiler)) /\ boiler' = Tail(boiler)
    BY <1>2 DEF BoilerByte
  <2>2. /\ Len(boiler') = Len(boiler) - 1 /\ Len(boiler) \in Nat \ {0}
        /\ Head(boiler) = boiler[1] /\ Head(boiler) \in Bytes
        /\ \A i \in 1 .. Len(boiler') : boiler'[i] = boiler[i + 1]
    BY <2>1 DEF Wired
  <2>3. Current(Head(boiler)) /\ \A i \in 1 .. Len(boiler') : Current(boiler'[i])
    BY <2>2 DEF Safe, Answers
  <2> QED BY <2>1, <2>2, <2>3, ByteComes
<1> QED BY <1>1, <1>2

(* The rest of ebus_poll, and ebus_enable.                                 *)
LEMMA RestKeeps ==
  ASSUME Wired, Safe, [Next]_vars, ~(BusByte \/ BoilerByte \/ TxComplete \/ PollFlag \/ PollByte)
  PROVE Safe'
<1>6. CASE PollDrained
  <2>1. /\ UNCHANGED <<comm, line, master, world, trx_enabled, of>>
        /\ pc = "drain" /\ fifo = <<>> /\ pc' = "timer" /\ Len(fifo) = 0
    BY <1>6, EmptySeq DEF PollDrained
  <2>2. (Occupied' <=> Occupied)
    BY <2>1 DEF Occupied, line
  <2>3. BufferChosen' /\ Unstuck' /\ Receiver' /\ RightRequest' /\ Sending'
    BY <2>1 DEF Safe, BufferChosen, Unstuck, Receiver, RightRequest, Sending,
                comm, line, master, world
  <2>4. Leftover' /\ Drained' /\ LastSeen'
    BY <2>1, <2>2 DEF Safe, Leftover, Drained, LastSeen, comm, line, master, world
  <2>5. Answers'
    BY <2>1 DEF Safe, Answers, Current, comm, line, master, world
  <2> QED BY <2>3, <2>4, <2>5 DEF Safe
<1>7. CASE NotExpired
  <2>1. /\ UNCHANGED <<comm, line, master, world, trx_enabled, of>>
        /\ pc = "timer" /\ pc' = "app"
    BY <1>7 DEF NotExpired
  <2>2. (Occupied' <=> Occupied) /\ InPoll /\ InPoll'
    BY <2>1 DEF Occupied, line, InPoll
  <2>3. BufferChosen' /\ Unstuck' /\ Receiver' /\ RightRequest' /\ Sending'
    BY <2>1 DEF Safe, BufferChosen, Unstuck, Receiver, RightRequest, Sending,
                comm, line, master, world
  <2>4. Leftover' /\ Drained' /\ LastSeen'
    BY <2>1, <2>2 DEF Safe, Leftover, Drained, LastSeen, comm, line, master, world
  <2>5. Answers'
    BY <2>1, <2>2 DEF Safe, Answers, Current, comm, line, master, world
  <2> QED BY <2>3, <2>4, <2>5 DEF Safe
<1>8. CASE StartTx
  <2>1. /\ UNCHANGED <<parser, p_tx_buf, fifo, tx_complete_flag, master, boiler, quiet, lost, of>>
        /\ pc = "timer" /\ pc' = "out" /\ dma' = p_tx_buf /\ rxie' = FALSE
        /\ ph \in {"TX_DELAY", "TX_DELAY_RESP"}
        /\ ph' = IF ph = "TX_DELAY" THEN "TX" ELSE "TX_RESP"
    BY <1>8 DEF StartTx
  <2>2. ~Occupied /\ dma' # "none" /\ InPoll /\ ~InPoll' /\ ~tx_complete_flag
    BY <2>1 DEF Occupied, Safe, Sending, BufferChosen, InPoll
  <2>3. BufferChosen' /\ Unstuck' /\ RightRequest'
    BY <2>1, <2>2 DEF Safe, BufferChosen, Unstuck, RightRequest, master
  <2>4. Receiver'
    BY <2>1, <2>2 DEF Receiver
  <2>5. Sending'
    BY <2>1, <2>2 DEF Safe, BufferChosen, Sending
  <2>6. Leftover'
    <3>1. fifo = <<>> => Len(fifo) = 0
      BY EmptySeq
    <3>2. fifo = <<>> \/ Len(fifo) = 1
      BY <2>2 DEF Safe, Drained
    <3>4. Len(fifo) \in {0, 1}
      BY <3>1, <3>2
    <3>3. fifo' = fifo /\ ph' \notin {"IDLE", "WAIT_SYN_TO_TX"}
      BY <2>1
    <3> QED BY <2>2, <3>3, <3>4 DEF Leftover
  <2>7. Drained' /\ LastSeen' /\ Answers'
    BY <2>1, <2>2 DEF Safe, Drained, LastSeen, Answers, Current, master
  <2> QED BY <2>3, <2>4, <2>5, <2>6, <2>7 DEF Safe
<1>9. CASE TimedOut
  <2>1. /\ UNCHANGED <<parser, p_tx_buf, line, master, world, trx_enabled, of>>
        /\ pc = "timer" /\ pc' = "app" /\ ph' = "IDLE" /\ ph \notin {"TX", "TX_RESP"}
    BY <1>9 DEF TimedOut
  <2>2. (Occupied' <=> Occupied) /\ InPoll /\ InPoll'
    BY <2>1 DEF Occupied, line, InPoll
  <2>3. BufferChosen' /\ Unstuck' /\ Receiver' /\ RightRequest' /\ Sending'
    BY <2>1 DEF Safe, BufferChosen, Unstuck, Receiver, RightRequest, Sending, line, master, world
  <2>4. Leftover' /\ Drained' /\ LastSeen'
    BY <2>1, <2>2 DEF Safe, Leftover, Drained, LastSeen, line, master, world
  <2>5. Answers'
    BY <2>1, <2>2 DEF Safe, Answers, Current, line, master, world
  <2> QED BY <2>3, <2>4, <2>5 DEF Safe
<1>10. CASE PollIdle
  <2>1. /\ UNCHANGED <<ph, parser, p_tx_buf, line, quiet, lost, trx_enabled,
                       pkt_idx, active_pkt_idx, boiler>>
        /\ pc = "app" /\ pc' = "out"
        /\ received' = FALSE \/ (received' = received /\ of' = of)
    BY <1>10 DEF PollIdle, LineUnchanged, Save
  <2>2. (Occupied' => Occupied) /\ InPoll /\ ~InPoll'
    BY <2>1 DEF Occupied, line, InPoll
  <2>3. BufferChosen' /\ Unstuck' /\ Receiver' /\ Sending' /\ RightRequest'
    BY <2>1 DEF Safe, BufferChosen, Unstuck, Receiver, RightRequest, Sending, line
  <2>4. Leftover' /\ Drained' /\ LastSeen'
    BY <2>1, <2>2 DEF Safe, Leftover, Drained, LastSeen, line
  <2>5. Answers'
    BY <2>1, <2>2 DEF Safe, Answers, Current, line
  <2> QED BY <2>3, <2>4, <2>5 DEF Safe
<1>11. CASE PollSend
  <2>1. /\ UNCHANGED <<parser, p_tx_buf, line, quiet, lost, trx_enabled>>
        /\ pc = "app" /\ pc' = "out" /\ ph = "IDLE" /\ ph' = "WAIT_SYN_TO_TX"
        /\ received' = FALSE /\ boiler' = <<>>
    BY <1>11 DEF PollSend, LineUnchanged, Send
  <2>2. (Occupied' => Occupied) /\ InPoll /\ ~InPoll'
    BY <2>1 DEF Occupied, line, InPoll
  <2>3. BufferChosen' /\ Unstuck' /\ Receiver' /\ Sending' /\ RightRequest'
    BY <2>1 DEF Safe, BufferChosen, Unstuck, Receiver, RightRequest, Sending, line
  <2>4. Leftover' /\ Drained' /\ LastSeen'
    BY <2>1, <2>2 DEF Safe, Leftover, Drained, LastSeen, line
  <2>5. Answers'
    <3>1. Len(boiler') = 0
      BY <2>1, EmptySeq
    <3>2. Len(fifo) \in {0, 1}
      BY <2>2, EmptySeq DEF Safe, Drained
    <3> QED BY <2>1, <2>2, <3>1, <3>2 DEF Answers, line
  <2> QED BY <2>3, <2>4, <2>5 DEF Safe
<1>12. CASE Enable
  <2>1. /\ UNCHANGED <<comm, line, received, active_pkt_idx, world, pc, of>> /\ pc = "out"
    BY <1>12 DEF Enable
  <2>2. (Occupied' => Occupied) /\ (InPoll' <=> InPoll)
    BY <2>1 DEF Occupied, line, InPoll
  <2>3. BufferChosen' /\ Unstuck' /\ Receiver' /\ Sending' /\ RightRequest'
    BY <2>1 DEF Safe, BufferChosen, Unstuck, Receiver, RightRequest, Sending, line, comm, world
  <2>4. Leftover' /\ Drained' /\ LastSeen'
    BY <2>1, <2>2 DEF Safe, Leftover, Drained, LastSeen, line, comm, world
  <2>5. Answers'
    BY <2>1, <2>2 DEF Safe, Answers, Current, line, comm, world
  <2> QED BY <2>3, <2>4, <2>5 DEF Safe
<1>13. CASE UNCHANGED vars
  <2>1. UNCHANGED <<comm, line, master, world, pc, of>>
    BY <1>13 DEF vars
  <2>2. (Occupied' <=> Occupied) /\ (InPoll' <=> InPoll)
    BY <2>1 DEF Occupied, line, InPoll
  <2>3. BufferChosen' /\ Unstuck' /\ Receiver' /\ Sending' /\ RightRequest'
    BY <2>1 DEF Safe, BufferChosen, Unstuck, Receiver, RightRequest, Sending,
                comm, line, master, world
  <2>4. Leftover' /\ Drained' /\ LastSeen'
    BY <2>1, <2>2 DEF Safe, Leftover, Drained, LastSeen, line, comm, world
  <2>5. Answers'
    BY <2>1, <2>2 DEF Safe, Answers, Current, line, comm, world, master
  <2> QED BY <2>3, <2>4, <2>5 DEF Safe
<1> QED BY <1>6, <1>7, <1>8, <1>9, <1>10, <1>11, <1>12, <1>13 DEF Next

LEMMA InitSafe == Init => Safe
<1>1. Len(<<>>) = 0
  OBVIOUS
<1> SUFFICES ASSUME Init PROVE Safe
  OBVIOUS
<1>2. BufferChosen /\ Unstuck /\ Receiver /\ Sending /\ RightRequest
  BY DEF Init, BufferChosen, Chosen, Unstuck, Receiver, Sending, RightRequest
<1>3. Leftover /\ Drained /\ LastSeen
  BY DEF Init, Leftover, Drained, LastSeen, Occupied, InPoll
<1>4. Answers
  BY <1>1 DEF Init, Answers
<1> QED BY <1>2, <1>3, <1>4 DEF Safe

LEMMA StepSafe == Wired /\ Safe /\ [Next]_vars => Safe'
  BY ByteArrives, TransmissionEnds, FlagPolled, BytePolled, RestKeeps DEF Next

(* The inductive invariant.                                                *)
LEMMA Invariant == Spec => []IInv
<1>1. Init => IInv
  BY InitTypes, InitSafe DEF IInv
<1>2. IInv /\ [Next]_vars => IInv'
  BY StepTypes, StepSafe DEF IInv
<1> QED BY <1>1, <1>2, PTL DEF Spec

-----------------------------------------------------------------------------
(* Every variable keeps its type, and the FIFO never fills its last slot.  *)
THEOREM TypeCorrect == Spec => []TypeOK
<1>1. IInv => TypeOK
  BY TypeParts DEF IInv
<1> QED BY <1>1, Invariant, PTL

(* ebus_poll never waits for the end of a transmission that has already    *)
(* been consumed or was never started, and the receiver is never left off, *)
(* wherever USART1_IRQHandler interrupts.                                  *)
THEOREM NeverStuck == Spec => []Unstuck
<1>1. IInv => Unstuck
  BY DEF IInv, Safe
<1> QED BY <1>1, Invariant, PTL

(* What parse_pkt has received of the boiler answers the request it is     *)
(* saved to, whatever the other masters on the bus exchange meanwhile.     *)
THEOREM SavedToItsRequest == Spec => []RightRequest
<1>1. IInv => RightRequest
  BY DEF IInv, Safe
<1> QED BY <1>1, Invariant, PTL

(* uart_tx_dma is not called, nor a buffer rewritten, while a transmission *)
(* runs, although a byte can end PH_TX_RESP before it does.                *)
THEOREM BuffersKept == Spec => TxExclusive
<1> DEFINE Act == dma # "none" => /\ dma' \in {dma, "none"}
                                  /\ ~StartTx
                                  /\ PollSend => dma # "tx"
                                  /\ ph = "RX_CRC" => ph' # "TX_DELAY_RESP"
<1>1. IInv /\ [Next]_vars => [Act]_vars
  <2> SUFFICES ASSUME Safe, [Next]_vars, dma # "none"
               PROVE /\ dma' \in {dma, "none"}
                     /\ ~StartTx
                     /\ PollSend => dma # "tx"
                     /\ ph = "RX_CRC" => ph' # "TX_DELAY_RESP"
    BY DEF IInv
  <2>1. ph \in {"TX", "TX_RESP", "IDLE", "WAIT_SYN_TO_TX"} /\ (dma = "tx" <=> ph = "TX")
    BY DEF Safe, Sending
  <2>2. ~StartTx
    BY <2>1 DEF StartTx
  <2>3. PollSend => dma # "tx"
    BY <2>1 DEF PollSend
  <2>4. dma' = dma \/ dma' = "none"
    BY <2>2 DEF Next, vars, line, BusByte, BoilerByte, Arrives, TxComplete, PollFlag, PollByte,
                PollDrained, NotExpired, TimedOut, PollIdle, PollSend, LineUnchanged, Enable
  <2> QED BY <2>1, <2>2, <2>3, <2>4
<1>2. Spec => [][Act]_vars
  BY <1>1, Invariant, PTL DEF Spec
<1> QED BY <1>2 DEF TxExclusive

(* uart_tx_dma sends a request only if the last byte on the bus was a SYN, *)
(* or a byte came within this very poll or was lost.                       *)
THEOREM RequestsIntoQuiet == Spec => StartsOnSyn
<1> DEFINE Act == StartTx /\ p_tx_buf = "tx" => quiet \/ interrupted \/ lost
<1>1. IInv /\ [Next]_vars => [Act]_vars
  <2> SUFFICES ASSUME Safe, StartTx, p_tx_buf = "tx" PROVE quiet \/ interrupted \/ lost
    BY DEF IInv
  <2>1. ph = "TX_DELAY" /\ InPoll
    BY DEF StartTx, Safe, BufferChosen, InPoll
  <2> QED BY <2>1 DEF Safe, LastSeen, Drained
<1>2. Spec => [][Act]_vars
  BY <1>1, Invariant, PTL DEF Spec
<1> QED BY <1>2 DEF StartsOnSyn
=============================================================================
