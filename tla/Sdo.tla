--------------------------------- MODULE Sdo ---------------------------------
(***************************************************************************)
(* SDO transfers of one object between the server of a node                *)
(* (canopennode/301/CO_SDOserver.c, built with segmented transfers) and a  *)
(* client. No client is built into the node; the master modelled here is   *)
(* the client of the same stack (CO_SDOclient.c). Frames are kept in order *)
(* but may be lost, taken twice, or answered too late, and the server's    *)
(* answer may have to wait in its transmit buffer.                         *)
(*                                                                         *)
(* The data of a transfer are segments that say which transfer they belong *)
(* to; a transfer of length 0 is expedited: its data are in the request.   *)
(* Sizes are counted in segments. The object has a write callback that     *)
(* refuses a part of a transfer, and may refuse a whole one, as            *)
(* flash_data_wr_cb does.                                                  *)
(***************************************************************************)
EXTENDS Integers, Sequences

CONSTANTS
  NumTransfers, (* names of transfers, used in turn                        *)
  MaxLen,       (* longest transfer                                        *)
  BufferSize,   (* segments after which the buffer has to be emptied       *)
  MaxFaults,    (* frames lost, doubled or late, and writes refused        *)
  None

ASSUME SdoAssumption ==
  /\ NumTransfers \in Nat \ {0}
  /\ BufferSize \in Nat \ {0} /\ MaxLen \in Nat /\ MaxFaults \in Nat

VARIABLES
  (* the server *)
  state,      (* CO_SDO_state_t                                            *)
  toggle, finished, sizeInd,
  buf,        (* what is in buf, up to bufOffsetWr                         *)
  bufOffsetRd,
  object,     (* what the object holds                                     *)
  txBuff,     (* the frame in CANtxBuff while it is bufferFull, or None    *)
  (* the bus *)
  c2s, s2c,
  (* the client *)
  cstate, ctran, clen, csent, ctoggle, csize, got,
  faults

server  == <<state, toggle, finished, sizeInd, buf, bufOffsetRd, object>>
client  == <<cstate, ctran, clen, csent, ctoggle, csize, got>>
sdoVars == <<server, txBuff, c2s, s2c, client, faults>>

Transfers  == 0 .. NumTransfers - 1
Items      == Transfers \X (0 .. MaxLen) \X (0 .. MaxLen)
Data(t, n) == IF n = 0 THEN <<<<t, 0, 0>>>> ELSE [i \in 1 .. n |-> <<t, n, i>>]
Short(d)   == d[1][2] = 0                          (* fits in a request    *)
Whole(d)   == \E t \in Transfers, n \in 0 .. MaxLen : d = Data(t, n)

Responses == {"DOWNLOAD_INITIATE_RSP", "DOWNLOAD_SEGMENT_RSP", "UPLOAD_INITIATE_RSP",
              "UPLOAD_SEGMENT_RSP", "ABORT"}
Waiting   == {"DOWNLOAD_SEGMENT_REQ", "UPLOAD_SEGMENT_REQ"}

SdoInit ==
  /\ state = "IDLE" /\ toggle = 0 /\ finished = FALSE /\ sizeInd = 0
  /\ buf = <<>> /\ bufOffsetRd = 0
  /\ object = Data(0, 0)
  /\ txBuff = None /\ c2s = <<>> /\ s2c = <<>>
  /\ cstate = "failed" /\ ctran = 0 /\ clen = 0 /\ csent = 0 /\ ctoggle = 0 /\ csize = 0
  /\ got = <<>>
  /\ faults = 0

Fault == faults < MaxFaults /\ faults' = faults + 1

-----------------------------------------------------------------------------
(* The server. CO_SDO_receive and the first half of CO_SDOserver_process   *)
(* take a frame; the second half answers in the same call unless the       *)
(* transmit buffer is full.                                                *)
Take(f) ==
  /\ c2s # <<>> /\ f = Head(c2s)
  /\ c2s' = Tail(c2s)
  /\ state \in Responses => txBuff # None
  /\ UNCHANGED <<txBuff, s2c, client>>

Abort == state' = "ABORT"

(* An abort acts in the receive interrupt, before a request that the main  *)
(* loop has not taken yet.                                                 *)
RxAbort ==
  /\ \/ Take([t |-> "abort"])
     \/ /\ Len(c2s) > 1 /\ c2s[2].t = "abort"
        /\ c2s' = <<c2s[1]>> \o SubSeq(c2s, 3, Len(c2s))
        /\ UNCHANGED <<txBuff, s2c, client>>
  /\ state' = "IDLE"
  /\ UNCHANGED <<toggle, finished, sizeInd, buf, bufOffsetRd, object, faults>>

(* A frame while an answer is held up is out of place; one that finds an   *)
(* abort held up is lost.                                                  *)
RxTooEarly(f) ==
  /\ Take(f)
  /\ state \in Responses /\ f.t # "abort"
  /\ Abort
  /\ UNCHANGED <<toggle, finished, sizeInd, buf, bufOffsetRd, object, faults>>

(* Refused: no such object, or not one of that access or size.             *)
RxDownloadInitiate(f) ==
  /\ Take(f)
  /\ state = "IDLE" /\ f.t = "init"
  /\ \/ /\ sizeInd' = f.size /\ finished' = FALSE
        /\ state' = "DOWNLOAD_INITIATE_RSP" /\ UNCHANGED faults
     \/ /\ Fault /\ Abort
        /\ sizeInd' \in {sizeInd, f.size} /\ UNCHANGED finished
  /\ UNCHANGED <<toggle, buf, bufOffsetRd, object>>

(* The write callback takes the data or refuses them.                      *)
Write(data, next) ==
  \/ object' = data /\ state' = next /\ UNCHANGED faults
  \/ Fault /\ Abort /\ UNCHANGED object

RxExpedited(f) ==
  /\ Take(f)
  /\ state = "IDLE" /\ f.t = "exp"
  /\ Write(f.data, "DOWNLOAD_INITIATE_RSP")
  /\ finished' = (state' # "ABORT" \/ finished)
  /\ UNCHANGED <<toggle, sizeInd, buf, bufOffsetRd>>

(* readFromOd loads the object at once: the buffer is longer than any.     *)
RxUploadInitiate(f) ==
  /\ Take(f)
  /\ state = "IDLE" /\ f.t = "upinit"
  /\ bufOffsetRd' = 0
  /\ \/ /\ buf' = object /\ finished' = TRUE
        /\ sizeInd' = IF Short(object) THEN 0 ELSE Len(object)
        /\ state' = "UPLOAD_INITIATE_RSP" /\ UNCHANGED faults
     \/ /\ Fault /\ Abort
        /\ buf' = <<>> /\ finished' = FALSE /\ UNCHANGED sizeInd
  /\ UNCHANGED <<toggle, object>>

(* validateAndWriteToOD: the callback refuses data that are not finished.  *)
WrongSize(data) ==
  sizeInd > 0 /\ (Len(data) > sizeInd \/ (finished' /\ Len(data) < sizeInd))

ValidateAndWrite(data) ==
  IF WrongSize(data) THEN Abort /\ buf' = data /\ UNCHANGED <<object, faults>>
  ELSE /\ buf' = <<>>
       /\ IF finished' THEN Write(data, "DOWNLOAD_SEGMENT_RSP")
                       ELSE Abort /\ UNCHANGED <<object, faults>>

BufferFull(data) == Len(data) >= BufferSize

(* Faulty variants: the toggle bit is not looked at; the buffer is emptied *)
(* at the end only.                                                        *)
RxDownloadSegmentAnyToggle(f) ==
  /\ Take(f)
  /\ state = "DOWNLOAD_SEGMENT_REQ" /\ f.t = "seg"
  /\ finished' = f.last
  /\ IF f.last \/ BufferFull(Append(buf, f.item)) THEN ValidateAndWrite(Append(buf, f.item))
     ELSE /\ buf' = Append(buf, f.item) /\ state' = "DOWNLOAD_SEGMENT_RSP"
          /\ UNCHANGED <<object, faults>>
  /\ UNCHANGED <<toggle, sizeInd, bufOffsetRd>>

RxDownloadSegmentNoFlush(f) ==
  /\ Take(f)
  /\ state = "DOWNLOAD_SEGMENT_REQ" /\ f.t = "seg"
  /\ finished' = f.last
  /\ IF f.toggle # toggle THEN Abort /\ UNCHANGED <<buf, object, faults>>
     ELSE IF f.last THEN ValidateAndWrite(Append(buf, f.item))
     ELSE /\ buf' = Append(buf, f.item) /\ state' = "DOWNLOAD_SEGMENT_RSP"
          /\ UNCHANGED <<object, faults>>
  /\ UNCHANGED <<toggle, sizeInd, bufOffsetRd>>

RxDownloadSegment(f) ==
  /\ Take(f)
  /\ state = "DOWNLOAD_SEGMENT_REQ" /\ f.t = "seg"
  /\ finished' = f.last
  /\ IF f.toggle # toggle THEN Abort /\ UNCHANGED <<buf, object, faults>>
     ELSE IF f.last \/ BufferFull(Append(buf, f.item)) THEN ValidateAndWrite(Append(buf, f.item))
     ELSE /\ buf' = Append(buf, f.item) /\ state' = "DOWNLOAD_SEGMENT_RSP"
          /\ UNCHANGED <<object, faults>>
  /\ UNCHANGED <<toggle, sizeInd, bufOffsetRd>>

RxUploadSegment(f) ==
  /\ Take(f)
  /\ state = "UPLOAD_SEGMENT_REQ" /\ f.t = "upseg"
  /\ IF f.toggle = toggle THEN state' = "UPLOAD_SEGMENT_RSP" ELSE Abort
  /\ UNCHANGED <<toggle, finished, sizeInd, buf, bufOffsetRd, object, faults>>

(* Any other frame than the one the state waits for.                       *)
RxUnexpected(f) ==
  /\ Take(f)
  /\ \/ state = "IDLE" /\ f.t \in {"seg", "upseg"}
     \/ state = "DOWNLOAD_SEGMENT_REQ" /\ f.t \notin {"seg", "abort"}
     \/ state = "UPLOAD_SEGMENT_REQ" /\ f.t \notin {"upseg", "abort"}
  /\ Abort
  /\ UNCHANGED <<toggle, finished, sizeInd, buf, bufOffsetRd, object, faults>>

ServerReceive ==
  \/ RxAbort
  \/ c2s # <<>> /\ LET f == Head(c2s) IN
       \/ RxTooEarly(f) \/ RxDownloadInitiate(f) \/ RxExpedited(f) \/ RxUploadInitiate(f)
       \/ RxDownloadSegment(f) \/ RxUploadSegment(f) \/ RxUnexpected(f)

-----------------------------------------------------------------------------
(* CO_CANsend: the frame goes out, or stays in the buffer until a mailbox  *)
(* is free, or both (CanTx).                                               *)
Send(m) ==
  \/ s2c' = Append(s2c, m) /\ UNCHANGED <<txBuff, faults>>
  \/ Fault /\ txBuff' = m /\ s2c' \in {s2c, Append(s2c, m)}

Answering(s) ==
  /\ txBuff = None /\ state = s
  /\ UNCHANGED <<finished, sizeInd, object, c2s, client>>

(* Faulty variant: the toggle bit of the last transfer is kept.            *)
AnswerDownloadInitiateKeeps ==
  /\ Answering("DOWNLOAD_INITIATE_RSP")
  /\ Send([t |-> "initOk"])
  /\ state' = IF finished THEN "IDLE" ELSE "DOWNLOAD_SEGMENT_REQ"
  /\ buf' = (IF finished THEN buf ELSE <<>>)
  /\ UNCHANGED <<toggle, bufOffsetRd>>

AnswerDownloadInitiate ==
  /\ Answering("DOWNLOAD_INITIATE_RSP")
  /\ Send([t |-> "initOk"])
  /\ IF finished THEN state' = "IDLE" /\ UNCHANGED <<toggle, buf, bufOffsetRd>>
     ELSE state' = "DOWNLOAD_SEGMENT_REQ" /\ toggle' = 0 /\ buf' = <<>> /\ bufOffsetRd' = 0

AnswerDownloadSegment ==
  /\ Answering("DOWNLOAD_SEGMENT_RSP")
  /\ Send([t |-> "segOk", toggle |-> toggle])
  /\ toggle' = 1 - toggle
  /\ state' = IF finished THEN "IDLE" ELSE "DOWNLOAD_SEGMENT_REQ"
  /\ UNCHANGED <<buf, bufOffsetRd>>

AnswerUploadInitiate ==
  /\ Answering("UPLOAD_INITIATE_RSP")
  /\ IF sizeInd = 0
     THEN Send([t |-> "upExp", data |-> buf]) /\ state' = "IDLE" /\ UNCHANGED toggle
     ELSE Send([t |-> "upOk", size |-> sizeInd]) /\ state' = "UPLOAD_SEGMENT_REQ" /\ toggle' = 0
  /\ UNCHANGED <<buf, bufOffsetRd>>

AnswerUploadSegment ==
  /\ Answering("UPLOAD_SEGMENT_RSP")
  /\ bufOffsetRd' = bufOffsetRd + 1
  /\ Send([t |-> "upData", toggle |-> toggle, last |-> bufOffsetRd' = Len(buf),
           item |-> buf[bufOffsetRd']])
  /\ toggle' = 1 - toggle
  /\ state' = IF bufOffsetRd' = Len(buf) THEN "IDLE" ELSE "UPLOAD_SEGMENT_REQ"
  /\ UNCHANGED buf

AnswerAbort ==
  /\ Answering("ABORT")
  /\ Send([t |-> "abort"])
  /\ state' = "IDLE"
  /\ UNCHANGED <<toggle, buf, bufOffsetRd>>

ServerAnswer ==
  \/ AnswerDownloadInitiate \/ AnswerDownloadSegment
  \/ AnswerUploadInitiate \/ AnswerUploadSegment \/ AnswerAbort

BufferSent ==
  /\ txBuff # None
  /\ s2c' = Append(s2c, txBuff) /\ txBuff' = None
  /\ UNCHANGED <<server, c2s, client, faults>>

(* An answer that is held up for too long is given up, too.                *)
ServerTimesOut ==
  /\ \/ state \in Waiting
     \/ txBuff # None /\ state \in Responses \ {"ABORT"}
  /\ Abort
  /\ UNCHANGED <<toggle, finished, sizeInd, buf, bufOffsetRd, object, txBuff, c2s, s2c, client>>

(* NMT stop ends a transfer, and a communication reset empties the         *)
(* transmit buffer as well.                                                *)
ServerReset ==
  /\ Fault
  /\ state' = "IDLE" /\ txBuff' \in {txBuff, None}
  /\ UNCHANGED <<toggle, finished, sizeInd, buf, bufOffsetRd, object, c2s, s2c, client>>

-----------------------------------------------------------------------------
(* The client: CO_SDOclientDownload and CO_SDOclientUpload.                *)
Over == {"failed", "done"}

SegmentOf(t, n, i, tog) == [t |-> "seg", toggle |-> tog, last |-> i = n, item |-> <<t, n, i>>]

StartDownload(n, indicated) ==
  /\ cstate \in Over
  /\ ctran' = (ctran + 1) % NumTransfers
  /\ clen' = n
  /\ csize' = IF indicated THEN n ELSE 0
  /\ csent' = 0 /\ got' = <<>> /\ ctoggle' = 0
  /\ cstate' = "download initiate"
  /\ c2s' = Append(c2s, IF n = 0 THEN [t |-> "exp", data |-> Data(ctran', 0)]
                                 ELSE [t |-> "init", size |-> csize'])
  /\ UNCHANGED <<server, txBuff, s2c>>

StartUpload ==
  /\ cstate \in Over
  /\ cstate' = "upload initiate"
  /\ csize' = 0 /\ csent' = 0 /\ got' = <<>> /\ ctoggle' = 0
  /\ c2s' = Append(c2s, [t |-> "upinit"])
  /\ UNCHANGED <<server, txBuff, s2c, ctran, clen>>

Receive(f) ==
  /\ s2c # <<>> /\ f = Head(s2c)
  /\ s2c' = Tail(s2c)
  /\ UNCHANGED <<server, txBuff, faults>>

(* The client listens to nothing between transfers, and gives up when the  *)
(* server says so.                                                         *)
ReceiveNothing(f) ==
  /\ Receive(f)
  /\ cstate \in Over
  /\ UNCHANGED <<c2s, client>>

ReceiveAbort(f) ==
  /\ Receive(f)
  /\ cstate \notin Over /\ f.t = "abort"
  /\ cstate' = "failed"
  /\ UNCHANGED <<c2s, ctran, clen, csent, ctoggle, csize, got>>

SendSegment(i) ==
  /\ csent' = i
  /\ cstate' = "download segment"
  /\ c2s' = Append(c2s, SegmentOf(ctran, clen, i, ctoggle'))

ReceiveInitOk(f) ==
  /\ Receive(f)
  /\ cstate = "download initiate" /\ f.t = "initOk"
  /\ IF clen = 0 THEN cstate' = "done" /\ UNCHANGED <<c2s, csent, ctoggle>>
     ELSE ctoggle' = 0 /\ SendSegment(1)
  /\ UNCHANGED <<ctran, clen, csize, got>>

(* Faulty variant: any answer to a segment will do.                        *)
SegmentConfirmedAny(f) == f.t = "segOk"
SegmentConfirmed(f)    == f.t = "segOk" /\ f.toggle = ctoggle

ReceiveSegOk(f) ==
  /\ Receive(f)
  /\ cstate = "download segment" /\ SegmentConfirmed(f)
  /\ ctoggle' = 1 - ctoggle
  /\ IF csent = clen THEN cstate' = "done" /\ UNCHANGED <<c2s, csent>>
                     ELSE SendSegment(csent + 1)
  /\ UNCHANGED <<ctran, clen, csize, got>>

ReceiveUpExp(f) ==
  /\ Receive(f)
  /\ cstate = "upload initiate" /\ f.t = "upExp"
  /\ got' = f.data /\ cstate' = "done"
  /\ UNCHANGED <<c2s, ctran, clen, csent, ctoggle, csize>>

AskSegment ==
  /\ cstate' = "upload segment"
  /\ c2s' = Append(c2s, [t |-> "upseg", toggle |-> ctoggle'])

ReceiveUpOk(f) ==
  /\ Receive(f)
  /\ cstate = "upload initiate" /\ f.t = "upOk"
  /\ csize' = f.size
  /\ ctoggle' = 0
  /\ AskSegment
  /\ UNCHANGED <<ctran, clen, csent, got>>

GiveUp == cstate' = "failed" /\ c2s' = Append(c2s, [t |-> "abort"])

UploadTaken(f) == cstate = "upload segment" /\ f.t = "upData" /\ f.toggle = ctoggle

ReceiveUpData(f) ==
  /\ Receive(f)
  /\ UploadTaken(f)
  /\ ctoggle' = 1 - ctoggle
  /\ got' = Append(got, f.item)
  /\ IF Len(got') > csize \/ (f.last /\ Len(got') < csize) THEN GiveUp
     ELSE IF f.last THEN cstate' = "done" /\ UNCHANGED c2s
     ELSE AskSegment
  /\ UNCHANGED <<ctran, clen, csent, csize>>

ReceiveUnexpected(f) ==
  /\ Receive(f)
  /\ f.t # "abort"
  /\ \/ cstate = "download initiate" /\ f.t # "initOk"
     \/ cstate = "download segment" /\ ~SegmentConfirmed(f)
     \/ cstate = "upload initiate" /\ f.t \notin {"upExp", "upOk"}
     \/ cstate = "upload segment" /\ ~UploadTaken(f)
  /\ GiveUp
  /\ UNCHANGED <<ctran, clen, csent, ctoggle, csize, got>>

ClientReceive ==
  s2c # <<>> /\ LET f == Head(s2c) IN
    \/ ReceiveNothing(f) \/ ReceiveAbort(f) \/ ReceiveInitOk(f) \/ ReceiveSegOk(f)
    \/ ReceiveUpExp(f) \/ ReceiveUpOk(f) \/ ReceiveUpData(f) \/ ReceiveUnexpected(f)

ClientTimesOut ==
  /\ cstate \notin Over
  /\ GiveUp
  /\ UNCHANGED <<server, txBuff, s2c, ctran, clen, csent, ctoggle, csize, got>>

-----------------------------------------------------------------------------
(* The bus: a frame is lost (the FIFO of the receiver overruns) or is sent *)
(* again, as a sender does that has not seen it acknowledged.              *)
LoseRequest  == Fault /\ c2s # <<>> /\ c2s' = Tail(c2s) /\ UNCHANGED <<server, txBuff, s2c, client>>
LoseResponse == Fault /\ s2c # <<>> /\ s2c' = Tail(s2c) /\ UNCHANGED <<server, txBuff, c2s, client>>

DoubleRequest ==
  /\ Fault /\ c2s # <<>>
  /\ c2s' = <<Head(c2s)>> \o c2s
  /\ UNCHANGED <<server, txBuff, s2c, client>>

(* A time-out is due when nothing is on its way; otherwise the answer is   *)
(* late. The master waits with its next request until nothing is left of   *)
(* the last: an answer that comes later than that can be taken for another,*)
(* for answers do not say what they answer.                                *)
Quiet == c2s = <<>> /\ s2c = <<>> /\ txBuff = None /\ state \notin Responses

Late ==
  /\ ~Quiet /\ Fault
  /\ ServerTimesOut \/ ClientTimesOut

TooLong ==
  /\ Quiet /\ Fault
  /\ \E n \in BufferSize + 1 .. MaxLen, ind \in BOOLEAN : StartDownload(n, ind)

DueTimeout == Quiet /\ UNCHANGED faults /\ (ServerTimesOut \/ ClientTimesOut)

Request ==
  /\ Quiet /\ UNCHANGED faults
  /\ \/ StartUpload
     \/ \E n \in 0 .. MaxLen, ind \in BOOLEAN : n <= BufferSize /\ StartDownload(n, ind)

Faults == LoseRequest \/ LoseResponse \/ DoubleRequest \/ Late \/ TooLong \/ ServerReset

SdoNext ==
  \/ ServerReceive \/ ServerAnswer \/ BufferSent \/ ClientReceive
  \/ DueTimeout \/ Request \/ Faults

SdoSpec == SdoInit /\ [][SdoNext]_sdoVars

(* The node's loop goes round, and the master asks again.                  *)
SdoFairSpec ==
  /\ SdoSpec
  /\ WF_sdoVars(ServerReceive) /\ WF_sdoVars(ServerAnswer) /\ WF_sdoVars(BufferSent)
  /\ WF_sdoVars(ClientReceive) /\ WF_sdoVars(DueTimeout) /\ WF_sdoVars(Request)

-----------------------------------------------------------------------------
(* Every variable has its type. The buffer never holds more than fits      *)
(* (CO_SDOserver.c:942 writes without looking at its end).                 *)
SdoTypeOK ==
  /\ state \in {"IDLE"} \cup Waiting \cup Responses
  /\ toggle \in 0 .. 1 /\ ctoggle \in 0 .. 1 /\ finished \in BOOLEAN
  /\ sizeInd \in 0 .. MaxLen /\ csize \in 0 .. MaxLen /\ clen \in 0 .. MaxLen
  /\ \A i \in DOMAIN buf : buf[i] \in Items
  /\ Len(buf) <= BufferSize /\ bufOffsetRd \in 0 .. Len(buf)
  /\ ctran \in Transfers /\ csent \in 0 .. clen
  /\ cstate \in Over \cup {"download initiate", "download segment", "upload initiate",
                           "upload segment"}
  /\ faults \in 0 .. MaxFaults

(* Whatever is lost, doubled or late, the write callback is only ever      *)
(* given the data of one transfer, whole and in order, never the segments  *)
(* of two (validateAndWriteToOD, CO_SDOserver.c:466).                      *)
WholeWrites == Whole(object)

(* A master that is told that a download succeeded finds its data in the   *)
(* object, and one that ended an upload has got one whole value, that of   *)
(* the object, whatever was lost, doubled, late or held up on the way      *)
(* (toggle bits, sizes and aborts of CO_SDOserver_process).                *)
ConfirmedIsTrue ==
  cstate = "done" => IF got = <<>> THEN object = Data(ctran, clen) ELSE got = object

(* Once frames are no longer lost or late, transfers succeed again,        *)
(* whatever state the server was left in.                                  *)
Succeeds == []<>(cstate = "done")
=============================================================================
