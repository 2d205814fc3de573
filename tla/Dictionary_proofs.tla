-------------------------- MODULE Dictionary_proofs --------------------------
(***************************************************************************)
(* How values are kept and how they are brought in. First ConfigStore, for *)
(* every set of firmwares, tables, sizes and values; how long a block is   *)
(* plays no part: Length stays unexpanded. Then Sdo, for transfers of any  *)
(* length, a buffer of any size and any number of faults. The two modules  *)
(* share no variable.                                                      *)
(***************************************************************************)
EXTENDS ConfigStore, Sdo, SequenceTheorems, TLAPS

(* The block that is being written holds the running firmware's table.     *)
WritesTable ==
  writing # Off =>
    /\ run # Off
    /\ Length(writing) <= CfgSize
    /\ \A k \in Native[run] : k \in DOMAIN writing /\ writing[k].size = Size[run][k]

(* Only a whole block that has been checked is parsed, and none while a    *)
(* save is under way.                                                      *)
MarkInv ==
  /\ writing # Off => block = Torn /\ ~config_valid
  /\ run = Off => ~config_valid
  /\ config_valid => block # Torn
  /\ run # Off /\ writing = Off /\ block # Torn /\ ~refused => config_valid

(* Addresses survive their block only while there is none.                 *)
AddressInv ==
  run # Off /\ block # Torn => \A k \in Native[run] : address[k] # "stale"

(* What is promised is in the block, or in the one being written.          *)
PromiseInv ==
  /\ block = Torn /\ writing = Off => \A k \in Keys : promise[k] = Unsaved
  /\ ~refused /\ block # Torn => Kept
  /\ ~refused /\ writing # Off =>
       \A k \in Keys : promise[k] # Unsaved =>
         k \in DOMAIN writing /\ (k \notin Native[run] => writing[k] = promise[k])

IInv == TypeOK /\ WritesTable /\ MarkInv /\ AddressInv /\ PromiseInv

-----------------------------------------------------------------------------
(* Blocks are functions on a set of keys, and neither Torn nor Off.        *)
LEMMA WholeBlock ==
  /\ \A b \in WholeBlocks : b \in [DOMAIN b -> Entry] /\ DOMAIN b \subseteq Keys
  /\ \A b \in WholeBlocks : b # Torn /\ b # Off
  /\ \A S \in SUBSET Keys : \A b \in [S -> Entry] : b \in WholeBlocks
BY TornAssumption DEF WholeBlocks

LEMMA EntryType ==
  ASSUME NEW f \in Firmwares, NEW k \in Keys, NEW v \in Values
  PROVE  [size |-> Size[f][k], value |-> v] \in Entry
BY DEF Entry, Sizes

(* The table's entries are written with their sizes; of a block known to   *)
(* be whole, the other entries are carried over.                           *)
LEMMA NewBlockType ==
  ASSUME TypeOK, MarkInv, Running
  PROVE  /\ NewBlock \in WholeBlocks
         /\ \A k \in Native[run] : k \in DOMAIN NewBlock /\ NewBlock[k].size = Size[run][k]
         /\ config_valid => \A k \in DOMAIN block \ Native[run] :
                              k \in DOMAIN NewBlock /\ NewBlock[k] = block[k]
<1> DEFINE old == IF config_valid THEN block ELSE Nothing
           dom == Native[run] \cup DOMAIN old
           entry(k) == IF k \in Native[run] THEN [size |-> Size[run][k], value |-> ram[k]] ELSE old[k]
<1>1. run \in Firmwares /\ Native[run] \subseteq Keys /\ ram \in [Keys -> Values]
  BY TablesAssumption DEF TypeOK, Running
<1>2. DOMAIN old \subseteq Keys /\ \A k \in DOMAIN old : old[k] \in Entry
  <2>1. CASE config_valid
    <3>1. block \in WholeBlocks
      BY <2>1 DEF TypeOK, MarkInv
    <3> QED BY <2>1, <3>1, WholeBlock
  <2>2. CASE ~config_valid
    BY <2>2 DEF Nothing
  <2> QED BY <2>1, <2>2
<1>3. \A k \in dom : entry(k) \in Entry
  BY <1>1, <1>2, EntryType
<1>4. NewBlock = [k \in dom |-> entry(k)]
  BY DEF NewBlock
<1> HIDE DEF entry
<1>5. NewBlock \in [dom -> Entry] /\ dom \subseteq Keys
  BY <1>1, <1>2, <1>3, <1>4
<1>6. NewBlock \in WholeBlocks
  BY <1>5, WholeBlock
<1> USE DEF entry
<1>7. \A k \in Native[run] : k \in DOMAIN NewBlock /\ NewBlock[k].size = Size[run][k]
  BY <1>4
<1>8. config_valid => \A k \in DOMAIN block \ Native[run] :
                        k \in DOMAIN NewBlock /\ NewBlock[k] = block[k]
  BY <1>4
<1> QED BY <1>6, <1>7, <1>8

(* After config_validate no address of a firmware whose table is in the    *)
(* block is stale, and entries of the right size have a current one.       *)
LEMMA ValidatedAddresses ==
  ASSUME NEW f \in Firmwares, NEW b,
         NEW addr \in [Keys -> {"none", "current", "stale"}]
  PROVE  /\ Validated(f, b, addr) \in [Keys -> {"none", "current", "stale"}]
         /\ \A k \in Keys : Validated(f, b, addr)[k] = "stale" => addr[k] = "stale"
         /\ b # Torn => \A k \in Native[f] \cap DOMAIN b :
                          k \in Keys /\ b[k].size = Size[f][k] => Validated(f, b, addr)[k] = "current"
BY DEF Validated, Found

LEMMA InitInv == Init => IInv
<1> SUFFICES ASSUME Init PROVE IInv
  OBVIOUS
<1>1. TypeOK
  BY DEF Init, TypeOK, NoAddress, NoPromise
<1>2. WritesTable /\ MarkInv /\ AddressInv
  BY DEF Init, WritesTable, MarkInv, AddressInv
<1>3. PromiseInv
  BY DEF Init, PromiseInv, NoPromise
<1> QED BY <1>1, <1>2, <1>3 DEF IInv

-----------------------------------------------------------------------------
LEMMA BootInv == ASSUME IInv, NEW f \in Firmwares, Boot(f) PROVE IInv'
<1> USE DEF IInv
<1>1. /\ run = Off /\ writing = Off /\ run' = f
      /\ UNCHANGED <<block, writing, promise, refused>>
      /\ config_valid' = (block # Torn)
      /\ address' = Validated(f, block, NoAddress)
      /\ IF block # Torn THEN ram' \in ReadStorage(f, block, address', Default[f])
                         ELSE ram' = Default[f]
  BY DEF Boot, CfgRead, WritesTable
<1>2. NoAddress \in [Keys -> {"none", "current", "stale"}] /\ \A k \in Keys : NoAddress[k] = "none"
  BY DEF NoAddress
<1>3. /\ address' \in [Keys -> {"none", "current", "stale"}]
      /\ \A k \in Keys : address'[k] # "stale"
  BY <1>1, <1>2, ValidatedAddresses
<1>4. ram' \in [Keys -> Values]
  BY <1>1, TablesAssumption DEF ReadStorage
<1>5. TypeOK'
  BY <1>1, <1>3, <1>4 DEF TypeOK
<1>6. WritesTable' /\ MarkInv'
  BY <1>1, TablesAssumption DEF WritesTable, MarkInv
<1>7. AddressInv'
  BY <1>1, <1>3, TablesAssumption DEF AddressInv
<1>8. PromiseInv'
  BY <1>1 DEF PromiseInv, Kept
<1> QED BY <1>5, <1>6, <1>7, <1>8

LEMMA SetValueInv == ASSUME IInv, NEW k \in Keys, NEW v \in Values, SetValue(k, v) PROVE IInv'
<1>1. TypeOK'
  BY DEF IInv, SetValue, TypeOK
<1>2. WritesTable' /\ MarkInv' /\ AddressInv' /\ PromiseInv'
  BY DEF IInv, SetValue, WritesTable, MarkInv, AddressInv, PromiseInv, Kept
<1> QED BY <1>1, <1>2 DEF IInv

LEMMA SaveRefusedInv == ASSUME IInv, SaveRefused PROVE IInv'
<1>1. TypeOK'
  BY DEF IInv, SaveRefused, TypeOK
<1>2. WritesTable' /\ MarkInv' /\ AddressInv'
  BY DEF IInv, SaveRefused, Running, WritesTable, MarkInv, AddressInv
<1>3. PromiseInv'
  BY DEF IInv, SaveRefused, PromiseInv
<1> QED BY <1>1, <1>2, <1>3 DEF IInv

(* Erasing the page makes every address stale and the block torn; what was *)
(* promised is now in the block being written.                             *)
LEMMA SaveBeginInv == ASSUME IInv, SaveBegin PROVE IInv'
<1> USE DEF IInv
<1>1. /\ Running /\ Fits(NewBlock) /\ config_valid' = FALSE /\ block' = Torn
      /\ writing' = NewBlock /\ UNCHANGED <<run, ram, promise, refused>>
      /\ address' = [k \in Keys |-> IF address[k] = "none" THEN "none" ELSE "stale"]
  BY DEF SaveBegin
<1>2. /\ NewBlock \in WholeBlocks
      /\ \A k \in Native[run] : k \in DOMAIN NewBlock /\ NewBlock[k].size = Size[run][k]
      /\ config_valid => \A k \in DOMAIN block \ Native[run] :
                           k \in DOMAIN NewBlock /\ NewBlock[k] = block[k]
  BY <1>1, NewBlockType
<1>3. TypeOK'
  BY <1>1, <1>2 DEF TypeOK
<1>4. WritesTable'
  BY <1>1, <1>2 DEF WritesTable, Running, Fits
<1>5. MarkInv' /\ AddressInv'
  BY <1>1 DEF MarkInv, AddressInv, Running
<1>6. NewBlock # Off
  BY <1>2, WholeBlock
<1>7. ASSUME ~refused, NEW k \in Keys, promise[k] # Unsaved
      PROVE  k \in DOMAIN NewBlock /\ (k \notin Native[run] => NewBlock[k] = promise[k])
  <2>1. block # Torn
    BY <1>1, <1>7 DEF PromiseInv, Running
  <2>2. config_valid /\ k \in DOMAIN block /\ block[k] = promise[k]
    BY <1>1, <1>7, <2>1 DEF PromiseInv, MarkInv, Running, Kept
  <2> QED BY <1>2, <2>2
<1>8. PromiseInv'
  BY <1>1, <1>6, <1>7 DEF PromiseInv
<1> QED BY <1>3, <1>4, <1>5, <1>8

(* The new block holds the whole table in its sizes, so config_validate    *)
(* gives every variable of the table a current address.                    *)
LEMMA SaveDoneInv == ASSUME IInv, SaveDone PROVE IInv'
<1> USE DEF IInv
<1>1. /\ writing # Off /\ block' = writing /\ writing' = Off /\ config_valid' = TRUE
      /\ address' = Validated(run, writing, address)
      /\ promise' = [k \in Keys |-> IF k \in Native[run] THEN writing[k] ELSE promise[k]]
      /\ UNCHANGED <<run, ram, refused>>
  BY DEF SaveDone
<1>2. writing \in WholeBlocks /\ run \in Firmwares /\ writing # Torn /\ Length(writing) <= CfgSize
  BY <1>1, WholeBlock DEF TypeOK, WritesTable
<1>3. writing \in [DOMAIN writing -> Entry] /\ DOMAIN writing \subseteq Keys
  BY <1>2, WholeBlock
<1>4. \A k \in Native[run] : k \in DOMAIN writing /\ writing[k].size = Size[run][k]
  BY <1>1 DEF WritesTable
<1>5. /\ address' \in [Keys -> {"none", "current", "stale"}]
      /\ \A k \in Native[run] : address'[k] = "current"
  BY <1>1, <1>2, <1>3, <1>4, ValidatedAddresses DEF TypeOK
<1>6. promise' \in [Keys -> Entry \cup {Unsaved}]
  BY <1>1, <1>3, <1>4 DEF TypeOK
<1>7. TypeOK'
  BY <1>1, <1>2, <1>5, <1>6 DEF TypeOK
<1>8. WritesTable' /\ MarkInv' /\ AddressInv'
  BY <1>1, <1>2, <1>5 DEF WritesTable, MarkInv, AddressInv
<1>9. PromiseInv'
  BY <1>1, <1>2, <1>4 DEF PromiseInv, Kept
<1> QED BY <1>7, <1>8, <1>9

LEMMA SaveFailsInv == ASSUME IInv, SaveFails PROVE IInv'
<1>1. TypeOK'
  BY DEF IInv, SaveFails, TypeOK, NoPromise
<1>2. WritesTable' /\ MarkInv' /\ AddressInv'
  BY DEF IInv, SaveFails, WritesTable, MarkInv, AddressInv
<1>3. PromiseInv'
  BY DEF IInv, SaveFails, PromiseInv, NoPromise, MarkInv
<1> QED BY <1>1, <1>2, <1>3 DEF IInv

(* Reading the block again, with or without copying the values.            *)
LEMMA ReadInv ==
  ASSUME IInv, Running, config_valid' = (block # Torn),
         address' = Validated(run, block, address), ram' \in [Keys -> Values],
         UNCHANGED <<block, run, writing, promise, refused>>
  PROVE  IInv'
<1> USE DEF IInv
<1>1. run \in Firmwares /\ Native[run] \subseteq Keys
  BY TablesAssumption DEF TypeOK, Running
<1>2. /\ address' \in [Keys -> {"none", "current", "stale"}]
      /\ \A k \in Keys : address'[k] = "stale" => address[k] = "stale"
  BY <1>1, ValidatedAddresses DEF TypeOK
<1>3. TypeOK'
  BY <1>2 DEF TypeOK
<1>4. WritesTable' /\ MarkInv' /\ AddressInv'
  BY <1>1, <1>2 DEF WritesTable, MarkInv, AddressInv, Running
<1>5. PromiseInv'
  BY DEF PromiseInv, Kept
<1> QED BY <1>3, <1>4, <1>5

LEMMA RestoreInv == ASSUME IInv, Restore PROVE IInv'
<1>1. ram' \in [Keys -> Values]
  BY DEF IInv, Restore, CfgRead, ReadStorage, TypeOK
<1> QED BY <1>1, ReadInv DEF Restore, CfgRead

LEMMA ReadOutInv == ASSUME IInv, ReadOut PROVE IInv'
<1>1. ram' \in [Keys -> Values]
  BY DEF IInv, ReadOut, TypeOK
<1> QED BY <1>1, ReadInv DEF ReadOut

LEMMA ResetInv == ASSUME IInv, Reset PROVE IInv'
<1>1. TypeOK'
  BY DEF IInv, Reset, TypeOK, NoAddress, NoPromise
<1>2. WritesTable' /\ MarkInv' /\ AddressInv'
  BY DEF IInv, Reset, WritesTable, MarkInv, AddressInv
<1>3. PromiseInv'
  BY DEF IInv, Reset, PromiseInv, MarkInv, NoPromise, Kept
<1> QED BY <1>1, <1>2, <1>3 DEF IInv

LEMMA StepInv == IInv /\ [Next]_vars => IInv'
<1> SUFFICES ASSUME IInv, [Next]_vars PROVE IInv'
  OBVIOUS
<1>1. CASE \E f \in Firmwares : Boot(f)
  BY <1>1, BootInv
<1>2. CASE \E k \in Keys, v \in Values : SetValue(k, v)
  BY <1>2, SetValueInv
<1>3. CASE SaveRefused \/ SaveBegin \/ SaveDone \/ SaveFails
  BY <1>3, SaveRefusedInv, SaveBeginInv, SaveDoneInv, SaveFailsInv
<1>4. CASE Restore \/ ReadOut \/ Reset
  BY <1>4, RestoreInv, ReadOutInv, ResetInv
<1>5. CASE UNCHANGED vars
  <2>1. UNCHANGED <<block, run, ram, config_valid, address, writing, promise, refused>>
    BY <1>5 DEF vars
  <2>2. TypeOK' /\ WritesTable' /\ MarkInv' /\ AddressInv' /\ PromiseInv'
    BY <2>1 DEF IInv, TypeOK, WritesTable, MarkInv, AddressInv, PromiseInv, Kept
  <2> QED BY <2>2 DEF IInv
<1> QED BY <1>1, <1>2, <1>3, <1>4, <1>5 DEF Next

THEOREM IInvAlways == Spec => []IInv
BY InitInv, StepInv, PTL DEF Spec

-----------------------------------------------------------------------------
(* The types hold and the block never outgrows its page; a save parses the *)
(* old block only if it is whole; values are never read from where they    *)
(* were in an earlier block; and as long as no save is refused, a save by  *)
(* one firmware keeps what the other one saved (config_write_storage,      *)
(* config_validate).                                                       *)
THEOREM StoreSafe == Spec => [](TypeOK /\ ValidIsWhole /\ AddressesFresh /\ AcknowledgedKept)
<1>1. IInv => TypeOK /\ ValidIsWhole /\ AddressesFresh /\ AcknowledgedKept
  BY DEF IInv, MarkInv, AddressInv, PromiseInv, ValidIsWhole, AddressesFresh, AcknowledgedKept
<1> QED BY <1>1, IInvAlways, PTL

(* The types, of which one is a bound the code keeps only by refusing to   *)
(* save: the block never outgrows its page.                                *)
THEOREM BlockFits == Spec => []TypeOK
BY StoreSafe, PTL

(* A firmware starts with what was saved last, whoever saved it            *)
(* (CO_driver_storage_init).                                               *)
THEOREM ComesBack == Spec => SavedComesBack
<1> DEFINE Back == \A f \in Firmwares :
                     Boot(f) /\ ~refused =>
                       \A k \in Native[f] :
                         promise[k] # Unsaved /\ block # Torn /\ promise[k].size = Size[f][k] =>
                           ram'[k] = promise[k].value
<1>1. IInv => Back
  <2> SUFFICES ASSUME IInv, NEW f \in Firmwares, Boot(f), ~refused, NEW k \in Native[f],
                      promise[k] # Unsaved, block # Torn, promise[k].size = Size[f][k]
               PROVE  ram'[k] = promise[k].value
    OBVIOUS
  <2>1. k \in Keys
    BY TablesAssumption
  <2>2. k \in DOMAIN block /\ block[k] = promise[k]
    BY <2>1 DEF IInv, PromiseInv, Kept
  <2>3. NoAddress \in [Keys -> {"none", "current", "stale"}]
    BY DEF NoAddress
  <2>4. Validated(f, block, NoAddress)[k] = "current"
    BY <2>1, <2>2, <2>3, ValidatedAddresses
  <2> QED BY <2>1, <2>2, <2>4 DEF Boot, CfgRead, ReadStorage
<1>2. IInv /\ [Next]_vars => [Back]_vars
  BY <1>1
<1> QED BY <1>2, IInvAlways, PTL DEF Spec, SavedComesBack

-----------------------------------------------------------------------------
(* The toggle bit of the n-th step of a transfer.                          *)
Bit(n) == n % 2

(* The frames of a queue, and which of them come before which. A queue     *)
(* that loses frames, drops or doubles them has no new ones and no new     *)
(* order; one that is appended to has more frames after the others.        *)
(* Nothing else about queues is used below.                                *)
Elements(s) == {s[i] : i \in DOMAIN s}
Before(s) ==
  {p \in Elements(s) \X Elements(s) : \E i, j \in DOMAIN s : i <= j /\ p[1] = s[i] /\ p[2] = s[j]}

Extended(new, old, more) ==
  /\ new \in Seq(Elements(new))
  /\ Elements(new) \subseteq Elements(old) \cup more
  /\ \A p \in Before(new) : p \in Before(old) \/ (p[2] \in more /\ p[1] \in Elements(old) \cup more)

Aborts == {[t |-> "abort"]}

(* What the client has not taken yet, in the order in which it will come.  *)
Coming == IF txBuff = None THEN s2c ELSE Append(s2c, txBuff)

(* The types.                                                              *)
ServerTyped ==
  /\ state \in {"IDLE"} \cup Waiting \cup Responses
  /\ toggle \in 0 .. 1 /\ finished \in BOOLEAN /\ sizeInd \in 0 .. MaxLen
  /\ buf \in Seq(Items) /\ Len(buf) <= BufferSize /\ bufOffsetRd \in 0 .. Len(buf)
ClientTyped ==
  /\ ctoggle \in 0 .. 1 /\ csize \in 0 .. MaxLen /\ clen \in 0 .. MaxLen
  /\ ctran \in Transfers /\ csent \in 0 .. clen
  /\ cstate \in Over \cup {"download initiate", "download segment", "upload initiate",
                           "upload segment"}
  /\ got \in Seq(Items)

(* Both queues are queues of frames.                                       *)
Framed == c2s \in Seq(Elements(c2s)) /\ s2c \in Seq(Elements(s2c))

(* The object holds the data of one transfer, and they fit into the        *)
(* buffer.                                                                 *)
Stored == Whole(object) /\ Len(object) <= BufferSize

(* The client's first request of the download that goes on.                *)
Opens(f) ==
  /\ f.t = IF clen = 0 THEN "exp" ELSE "init"
  /\ f.t = "exp" => f.data = Data(ctran, 0)
  /\ f.t = "init" => f.size \in 0 .. MaxLen

(* The server still waits for a segment of a transfer that the client has  *)
(* given up, and the client has at most asked for a new one: the server    *)
(* will abort.                                                             *)
Stale ==
  /\ state \in Waiting /\ s2c = <<>> /\ txBuff = None
  /\ csent = 0 /\ got = <<>>
  /\ \/ /\ cstate \in {"failed", "download initiate"}
        /\ \A f \in Elements(c2s) : f.t = "abort" \/ Opens(f)
     \/ /\ cstate \in {"failed", "upload initiate"}
        /\ \A f \in Elements(c2s) : f.t \in {"abort", "upinit"}

(* Downloads. A segment's rank is its number, the first request has rank   *)
(* 0. An answer is fresh if it confirms the segment sent last.             *)
Rank(f)  == IF f.t = "seg" THEN f.item[3] ELSE 0
Fresh(m) == m.t = "segOk" /\ m.toggle = Bit(csent + 1)
Confirmed == \E m \in Elements(Coming) : Fresh(m)

DownClient ==
  /\ cstate \in {"failed", "done", "download initiate", "download segment"}
  /\ got = <<>>
  /\ cstate = "download initiate" => csent = 0
  /\ cstate = "download segment" => csent > 0 /\ ctoggle = Bit(csent + 1)
  /\ cstate = "done" => object = Data(ctran, clen)

(* No request on its way is more than a step behind the client, none if    *)
(* the client's last one is confirmed, and they are in order.              *)
DownRequests ==
  /\ \A f \in Elements(c2s) :
       \/ f.t = "abort"
       \/ Opens(f)
       \/ \E i \in 1 .. csent : f = SegmentOf(ctran, clen, i, Bit(i + 1))
  /\ \A f \in Elements(c2s) :
       f.t # "abort" => csent <= Rank(f) + 1 /\ (Confirmed => csent = Rank(f))
  /\ \A p \in Before(c2s) : p[1].t # "abort" /\ p[2].t # "abort" => Rank(p[1]) <= Rank(p[2])

(* No answer that is stale comes after a fresh one.                        *)
DownAnswers ==
  /\ \A m \in Elements(Coming) :
       /\ m.t \in {"abort", "initOk", "segOk"}
       /\ m.t = "segOk" => csent > 0 /\ m.toggle \in 0 .. 1
       /\ m.t = "initOk" /\ clen = 0 => object = Data(ctran, clen)
  /\ \A p \in Before(Coming) : Fresh(p[1]) /\ p[2].t = "segOk" => Fresh(p[2])
  /\ Confirmed /\ csent = clen => object = Data(ctran, clen)

(* The segments of this transfer, from the first, are in the buffer; the   *)
(* server's toggle bit says how many, and a segment is accepted once.      *)
Taken == \A i \in 1 .. Len(buf) : buf[i] = <<ctran, clen, i>>
DownServer ==
  /\ state \in {"IDLE", "ABORT", "DOWNLOAD_INITIATE_RSP", "DOWNLOAD_SEGMENT_REQ",
                "DOWNLOAD_SEGMENT_RSP"}
  /\ state = "DOWNLOAD_INITIATE_RSP" =>
       /\ finished <=> clen = 0
       /\ clen = 0 => object = Data(ctran, clen)
       /\ csent <= 1 /\ ~Confirmed
  /\ state = "DOWNLOAD_SEGMENT_REQ" =>
       /\ clen > 0
       /\ Taken /\ Len(buf) < BufferSize /\ bufOffsetRd = 0
       /\ toggle = Bit(Len(buf))
       /\ csent \in {Len(buf), Len(buf) + 1} /\ (Confirmed => csent = Len(buf))
       /\ \A f \in Elements(c2s) : f.t # "abort" => Len(buf) <= Rank(f)
  /\ state = "DOWNLOAD_SEGMENT_RSP" =>
       /\ csent > 0 /\ toggle = Bit(csent + 1) /\ bufOffsetRd = 0 /\ ~Confirmed
       /\ \A f \in Elements(c2s) : f.t # "abort" => csent = Rank(f)
       /\ IF finished THEN csent = clen /\ object = Data(ctran, clen) /\ buf = <<>>
          ELSE csent < clen /\ Taken /\ Len(buf) = csent /\ Len(buf) < BufferSize
Down == DownClient /\ DownRequests /\ DownAnswers /\ DownServer

(* Uploads. A request is old if it asks again for the item the client got  *)
(* last; an answer takes the client further if it is the next item.        *)
Given == Len(got)
Old(f) == f.t = "upseg" /\ f.toggle # Bit(Given)
Further(m) == m.t = "upData" /\ m.item[3] = Given + 1
Answered == \E m \in Elements(Coming) : Further(m)
Asked == \A f \in Elements(c2s) : ~Old(f) /\ f.t # "upinit"

UpClient ==
  /\ cstate \in {"failed", "done", "upload initiate", "upload segment"}
  /\ csent = 0
  /\ cstate = "upload initiate" => got = <<>>
  /\ cstate = "upload segment" =>
       ~Short(object) /\ csize = Len(object) /\ ctoggle = Bit(Given) /\ Given < Len(object)
  /\ cstate = "done" => got = object
  /\ Given <= Len(object) /\ \A i \in 1 .. Given : got[i] = object[i]

(* Once the client has asked for a segment, no request to begin comes      *)
(* after, and no old request after one that is not.                        *)
UpRequests ==
  /\ \A f \in Elements(c2s) :
       /\ f.t \in {"abort", "upinit", "upseg"}
       /\ f.t = "upseg" => f.toggle \in 0 .. 1
  /\ ~Short(object) =>
       /\ \A f \in Elements(c2s) : (f.t = "upinit" => Given = 0) /\ (Given = 0 => ~Old(f))
       /\ \A p \in Before(c2s) :
            p[1].t = "upseg" => p[2].t # "upinit" /\ (Old(p[2]) => Old(p[1]))

(* While an answer that takes the client further is on its way, all        *)
(* requests that may still come are old no more, nor begin anew.           *)
UpAnswers ==
  /\ \A m \in Elements(Coming) :
       /\ m.t \in {"abort", "upExp", "upOk", "upData"}
       /\ m.t = "upExp" => Short(object) /\ m.data = object
       /\ m.t = "upOk" => ~Short(object) /\ m.size = Len(object)
       /\ m.t = "upData" =>
            /\ ~Short(object)
            /\ \E i \in {Given, Given + 1} :
                 /\ i \in 1 .. Len(object)
                 /\ m = [t |-> "upData", toggle |-> Bit(i + 1), last |-> i = Len(object),
                         item |-> object[i]]
  /\ \A p \in Before(Coming) :
       p[1].t = "upData" /\ p[2].t = "upData" => p[1].item[3] <= p[2].item[3]
  /\ Answered => Asked

(* The server is with the client, or one item ahead of it.                 *)
UpServer ==
  /\ state \in {"IDLE", "ABORT", "UPLOAD_INITIATE_RSP", "UPLOAD_SEGMENT_REQ", "UPLOAD_SEGMENT_RSP"}
  /\ state = "UPLOAD_INITIATE_RSP" =>
       /\ buf = object /\ bufOffsetRd = 0
       /\ sizeInd = IF Short(object) THEN 0 ELSE Len(object)
       /\ ~Short(object) => Given = 0 /\ ~Answered
  /\ state = "UPLOAD_SEGMENT_REQ" =>
       /\ ~Short(object) /\ buf = object
       /\ toggle = Bit(bufOffsetRd) /\ bufOffsetRd < Len(object)
       /\ \/ bufOffsetRd = Given /\ ~Answered
          \/ bufOffsetRd = Given + 1 /\ Asked
  /\ state = "UPLOAD_SEGMENT_RSP" =>
       /\ ~Short(object) /\ buf = object
       /\ toggle = Bit(bufOffsetRd) /\ bufOffsetRd < Len(object)
       /\ bufOffsetRd = Given /\ ~Answered /\ Asked
Up == UpClient /\ UpRequests /\ UpAnswers /\ UpServer

(* The invariant. WholeWrites and ConfirmedIsTrue say nothing of queues,   *)
(* toggle bits or of what is in the buffer; whether they stay true depends *)
(* on all of that.                                                         *)
SdoInv ==
  /\ ServerTyped /\ ClientTyped /\ faults \in 0 .. MaxFaults /\ Framed /\ Stored
  /\ (Stale \/ Down \/ Up)

-----------------------------------------------------------------------------
(* What is assumed of the constants.                                       *)
LEMMA SdoConstants ==
  /\ NumTransfers \in Nat /\ NumTransfers > 0 /\ BufferSize \in Nat /\ BufferSize > 0
  /\ MaxLen \in Nat /\ MaxFaults \in Nat
BY SdoAssumption DEF SdoAssumption

(* Toggle bits alternate.                                                  *)
LEMMA Bits ==
  /\ Bit(0) = 0 /\ Bit(1) = 1 /\ Bit(2) = 0
  /\ \A n \in Nat : /\ Bit(n) \in 0 .. 1 /\ Bit(n + 1) = 1 - Bit(n) /\ Bit(n + 2) = Bit(n)
                    /\ Bit(n) # Bit(n + 1)
BY DEF Bit

(* What is in a queue.                                                     *)
LEMMA ElementsOf ==
  ASSUME NEW S, NEW s \in Seq(S)
  PROVE  /\ s \in Seq(Elements(s)) /\ Elements(s) \subseteq S
         /\ \A x : x \in Elements(s) <=> \E i \in 1 .. Len(s) : x = s[i]
<1>1. DOMAIN s = 1 .. Len(s) /\ Len(s) \in Nat /\ \A i \in 1 .. Len(s) : s[i] \in S
  OBVIOUS
<1>2. \A x : x \in Elements(s) <=> \E i \in 1 .. Len(s) : x = s[i]
  BY <1>1 DEF Elements
<1>3. \A i \in 1 .. Len(s) : s[i] \in Elements(s)
  BY <1>2
<1>4. s = [i \in 1 .. Len(s) |-> s[i]]
  BY <1>1
<1>5. s \in [1 .. Len(s) -> Elements(s)]
  BY <1>3, <1>4
<1> QED
  BY <1>1, <1>2, <1>5

(* A queue whose frames are picked from another one in its order.          *)
LEMMA Picked ==
  ASSUME NEW S, NEW s \in Seq(S), NEW w \in Seq(S),
         NEW h \in [1 .. Len(s) -> 1 .. Len(w)],
         \A i \in 1 .. Len(s) : s[i] = w[h[i]],
         \A i, j \in 1 .. Len(s) : i <= j => h[i] <= h[j]
  PROVE  Extended(s, w, {})
<1>1. /\ DOMAIN s = 1 .. Len(s) /\ DOMAIN w = 1 .. Len(w)
      /\ s \in Seq(Elements(s))
      /\ \A x : x \in Elements(s) <=> \E i \in 1 .. Len(s) : x = s[i]
      /\ \A x : x \in Elements(w) <=> \E i \in 1 .. Len(w) : x = w[i]
  BY ElementsOf
<1>2. \A i \in 1 .. Len(s) : h[i] \in 1 .. Len(w) /\ s[i] = w[h[i]]
  OBVIOUS
<1>3. Elements(s) \subseteq Elements(w)
  BY <1>1, <1>2
<1>4. ASSUME NEW p \in Before(s) PROVE p \in Before(w)
  <2>1. PICK i, j \in DOMAIN s : i <= j /\ p[1] = s[i] /\ p[2] = s[j]
    BY DEF Before
  <2>2. /\ p \in Elements(w) \X Elements(w)
    BY <1>3 DEF Before
  <2>3. h[i] \in DOMAIN w /\ h[j] \in DOMAIN w /\ h[i] <= h[j] /\ p[1] = w[h[i]] /\ p[2] = w[h[j]]
    BY <1>1, <1>2, <2>1
  <2> QED
    BY <2>2, <2>3 DEF Before
<1> QED
  BY <1>1, <1>3, <1>4 DEF Extended

(* What becomes of a queue that is left alone, whose first frame is taken, *)
(* that gets a frame more, whose first frame is doubled, and whose second  *)
(* one is dropped.                                                         *)
LEMMA SameParts ==
  ASSUME NEW s, s \in Seq(Elements(s)), NEW more
  PROVE  Extended(s, s, more)
BY DEF Extended

LEMMA Wider ==
  ASSUME NEW s, NEW w, NEW m1, NEW m2, Extended(s, w, m1), m1 \subseteq m2
  PROVE  Extended(s, w, m2)
BY DEF Extended

LEMMA TailParts ==
  ASSUME NEW s, s \in Seq(Elements(s)), s # <<>>
  PROVE  /\ Head(s) \in Elements(s) /\ Extended(Tail(s), s, {})
         /\ \A x \in Elements(Tail(s)) : <<Head(s), x>> \in Before(s)
<1> DEFINE S == Elements(s)
<1>1. /\ DOMAIN s = 1 .. Len(s) /\ Len(s) \in Nat /\ Len(s) > 0 /\ Head(s) = s[1]
      /\ Tail(s) \in Seq(S) /\ Len(Tail(s)) = Len(s) - 1
      /\ \A i \in 1 .. Len(s) - 1 : Tail(s)[i] = s[i + 1]
  OBVIOUS
<1>2. Head(s) \in Elements(s)
  BY <1>1 DEF Elements
<1> DEFINE h == [i \in 1 .. Len(Tail(s)) |-> i + 1]
<1>3. /\ h \in [1 .. Len(Tail(s)) -> 1 .. Len(s)]
      /\ \A i \in 1 .. Len(Tail(s)) : Tail(s)[i] = s[h[i]]
      /\ \A i, j \in 1 .. Len(Tail(s)) : i <= j => h[i] <= h[j]
  BY <1>1
<1>4. Extended(Tail(s), s, {})
  <2> HIDE DEF h
  <2> QED
    BY <1>1, <1>3, Picked
<1>5. ASSUME NEW x \in Elements(Tail(s)) PROVE <<Head(s), x>> \in Before(s)
  <2> HIDE DEF h
  <2>0. \A y : y \in Elements(Tail(s)) <=> \E i \in 1 .. Len(Tail(s)) : y = Tail(s)[i]
    BY <1>1, ElementsOf
  <2>1. PICK i \in 1 .. Len(Tail(s)) : x = Tail(s)[i]
    BY <2>0
  <2>2. i + 1 \in DOMAIN s /\ 1 \in DOMAIN s /\ 1 <= i + 1 /\ x = s[i + 1] /\ Head(s) = s[1]
    BY <1>1, <2>1
  <2>3. x \in Elements(s)
    BY <2>2 DEF Elements
  <2> QED
    BY <1>2, <2>2, <2>3 DEF Before
<1> QED
  BY <1>2, <1>4, <1>5

LEMMA AppendParts ==
  ASSUME NEW s, s \in Seq(Elements(s)), NEW m
  PROVE  /\ Extended(Append(s, m), s, {m}) /\ m \in Elements(Append(s, m))
         /\ Extended(s, Append(s, m), {})
<1> DEFINE w == Append(s, m)
           S == Elements(s) \cup {m}
<1>1. s \in Seq(S)
  OBVIOUS
<1>2. /\ w \in Seq(S) /\ Len(w) = Len(s) + 1 /\ Len(s) \in Nat /\ w[Len(s) + 1] = m
      /\ \A i \in 1 .. Len(s) : w[i] = s[i]
      /\ DOMAIN s = 1 .. Len(s) /\ DOMAIN w = 1 .. Len(w)
  BY <1>1
<1> HIDE DEF w
<1>3. /\ w \in Seq(Elements(w)) /\ Elements(w) \subseteq S
      /\ \A x : x \in Elements(w) <=> \E i \in 1 .. Len(w) : x = w[i]
  BY <1>2, ElementsOf
<1>4. m \in Elements(w)
  BY <1>2, <1>3
<1>5. ASSUME NEW p \in Before(w)
      PROVE  p \in Before(s) \/ (p[2] \in {m} /\ p[1] \in S)
  <2>1. PICK i, j \in DOMAIN w : i <= j /\ p[1] = w[i] /\ p[2] = w[j]
    BY DEF Before
  <2>2. p \in Elements(w) \X Elements(w) /\ p[1] \in S
    BY <1>3 DEF Before
  <2>3. CASE j = Len(s) + 1
    BY <1>2, <2>1, <2>2, <2>3
  <2>4. CASE j # Len(s) + 1
    <3>1. i \in DOMAIN s /\ j \in DOMAIN s /\ p[1] = s[i] /\ p[2] = s[j]
      BY <1>2, <2>1, <2>4
    <3>2. s[i] \in Elements(s) /\ s[j] \in Elements(s)
      BY <3>1 DEF Elements
    <3>3. p = <<p[1], p[2]>>
      BY <2>2
    <3> QED
      BY <2>1, <3>1, <3>2, <3>3 DEF Before
  <2> QED
    BY <2>3, <2>4
<1>6. Extended(w, s, {m})
  BY <1>3, <1>5 DEF Extended
<1>7. Extended(s, w, {})
  <2> DEFINE h == [i \in 1 .. Len(s) |-> i]
  <2>1. /\ h \in [1 .. Len(s) -> 1 .. Len(w)]
        /\ \A i \in 1 .. Len(s) : s[i] = w[h[i]]
        /\ \A i, j \in 1 .. Len(s) : i <= j => h[i] <= h[j]
    BY <1>2
  <2> HIDE DEF h
  <2> QED
    BY <1>1, <1>2, <2>1, Picked
<1> QED
  BY <1>4, <1>6, <1>7 DEF w

LEMMA DoubledParts ==
  ASSUME NEW s, s \in Seq(Elements(s)), s # <<>>
  PROVE  Extended(<<Head(s)>> \o s, s, {})
<1> DEFINE w == <<Head(s)>> \o s
           S == Elements(s)
<1>1. /\ DOMAIN s = 1 .. Len(s) /\ Len(s) \in Nat /\ Len(s) > 0 /\ Head(s) = s[1] /\ s[1] \in S
  OBVIOUS
<1>2. <<Head(s)>> \in Seq(S) /\ Len(<<Head(s)>>) = 1 /\ <<Head(s)>>[1] = Head(s)
  BY <1>1
<1>3. /\ w \in Seq(S) /\ Len(w) = Len(s) + 1 /\ w[1] = s[1]
      /\ \A i \in 2 .. Len(s) + 1 : w[i] = s[i - 1]
  BY <1>1, <1>2, ConcatProperties
<1> DEFINE h == [i \in 1 .. Len(w) |-> IF i = 1 THEN 1 ELSE i - 1]
<1> HIDE DEF w
<1>4. /\ h \in [1 .. Len(w) -> 1 .. Len(s)]
      /\ \A i \in 1 .. Len(w) : w[i] = s[h[i]]
      /\ \A i, j \in 1 .. Len(w) : i <= j => h[i] <= h[j]
  BY <1>1, <1>3
<1> HIDE DEF h
<1> QED
  BY <1>3, <1>4, Picked DEF w

LEMMA SecondDropped ==
  ASSUME NEW s, s \in Seq(Elements(s)), Len(s) > 1
  PROVE  Extended(<<s[1]>> \o SubSeq(s, 3, Len(s)), s, {})
<1> DEFINE r == SubSeq(s, 3, Len(s))
           w == <<s[1]>> \o r
           S == Elements(s)
<1>1. Len(s) \in Nat /\ s[1] \in S /\ <<s[1]>> \in Seq(S) /\ Len(<<s[1]>>) = 1 /\ <<s[1]>>[1] = s[1]
  OBVIOUS
<1>2. /\ r \in Seq(S) /\ Len(r) = Len(s) - 2
      /\ \A i \in 1 .. Len(s) - 2 : r[i] = s[i + 2]
  <2>1. 3 \in Int /\ Len(s) \in Int /\ \A i \in 3 .. Len(s) : s[i] \in S
    BY <1>1, ElementsOf
  <2> HIDE DEF S
  <2>2. /\ SubSeq(s, 3, Len(s)) \in Seq(S)
        /\ Len(SubSeq(s, 3, Len(s))) = IF 3 <= Len(s) THEN Len(s) - 3 + 1 ELSE 0
        /\ \A i \in 1 .. Len(s) - 3 + 1 : SubSeq(s, 3, Len(s))[i] = s[3 + i - 1]
    BY ONLY <2>1, SubSeqProperties
  <2>3. Len(r) = Len(s) - 2 /\ r \in Seq(S)
    <3>0. \A n \in Nat : n > 1 => (IF 3 <= n THEN n - 3 + 1 ELSE 0) = n - 2
      OBVIOUS
    <3>1. (IF 3 <= Len(s) THEN Len(s) - 3 + 1 ELSE 0) = Len(s) - 2
      BY ONLY Len(s) > 1, <1>1, <3>0
    <3>2. Len(SubSeq(s, 3, Len(s))) = Len(s) - 2
      BY ONLY <2>2, <3>1
    <3> QED
      BY <2>2, <3>2 DEF r
  <2>4. ASSUME NEW i \in 1 .. Len(s) - 2 PROVE r[i] = s[i + 2]
    <3>1. i \in 1 .. Len(s) - 3 + 1 /\ 3 + i - 1 = i + 2
      BY <1>1
    <3> QED
      BY <2>2, <3>1
  <2> QED
    BY <2>3, <2>4
<1> HIDE DEF r
<1>3. /\ w \in Seq(S) /\ Len(w) = Len(s) - 1 /\ w[1] = s[1]
      /\ \A i \in 2 .. Len(s) - 1 : w[i] = r[i - 1]
  BY <1>1, <1>2, ConcatProperties
<1>4. \A i \in 2 .. Len(s) - 1 : w[i] = s[i + 1]
  <2> SUFFICES ASSUME NEW i \in 2 .. Len(s) - 1 PROVE w[i] = s[i + 1]
    OBVIOUS
  <2>1. i - 1 \in 1 .. Len(s) - 2 /\ (i - 1) + 2 = i + 1
    BY <1>1
  <2> QED
    BY <1>2, <1>3, <2>1
<1> DEFINE h == [i \in 1 .. Len(w) |-> IF i = 1 THEN 1 ELSE i + 1]
<1> HIDE DEF w
<1>5. /\ h \in [1 .. Len(w) -> 1 .. Len(s)]
      /\ \A i \in 1 .. Len(w) : w[i] = s[h[i]]
      /\ \A i, j \in 1 .. Len(w) : i <= j => h[i] <= h[j]
  BY <1>1, <1>3, <1>4
<1> HIDE DEF h
<1>6. Extended(w, s, {})
  BY <1>3, <1>5, Picked
<1> QED
  BY <1>6 DEF w, r

LEMMA EmptyParts == /\ <<>> \in Seq(Elements(<<>>)) /\ Elements(<<>>) = {} /\ Before(<<>>) = {}
<1>1. Elements(<<>>) = {}
  BY DEF Elements
<1> QED
  BY <1>1 DEF Before

(* Two additions in a row.                                                 *)
LEMMA Joined ==
  ASSUME NEW a, NEW b, NEW c, NEW more, Extended(a, b, more), Extended(b, c, more)
  PROVE  Extended(a, c, more)
BY DEF Extended

(* What is coming is a queue.                                              *)
LEMMA ComingSeq == Framed => Coming \in Seq(Elements(Coming))
<1> SUFFICES ASSUME Framed PROVE Coming \in Seq(Elements(Coming))
  OBVIOUS
<1>1. Append(s2c, txBuff) \in Seq(Elements(Append(s2c, txBuff)))
  BY AppendParts DEF Framed, Extended
<1> QED
  BY <1>1 DEF Framed, Coming

LEMMA SameQueues ==
  ASSUME Framed
  PROVE  /\ Extended(c2s, c2s, {}) /\ Extended(s2c, s2c, {}) /\ Extended(Coming, Coming, {})
BY SameParts, ComingSeq DEF Framed

(* CO_SDO_receive takes a frame from the queue of requests only.           *)
LEMMA TakeParts ==
  ASSUME Framed, NEW f, Take(f)
  PROVE  /\ f \in Elements(c2s) /\ Extended(c2s', c2s, {})
         /\ \A x \in Elements(c2s') : <<f, x>> \in Before(c2s)
         /\ Coming' = Coming /\ s2c' = s2c /\ txBuff' = txBuff
         /\ UNCHANGED <<cstate, ctran, clen, csent, ctoggle, csize, got>>
<1>1. c2s # <<>> /\ f = Head(c2s) /\ c2s' = Tail(c2s) /\ UNCHANGED <<txBuff, s2c, client>>
  BY DEF Take
<1>2. /\ Head(c2s) \in Elements(c2s) /\ Extended(Tail(c2s), c2s, {})
      /\ \A x \in Elements(Tail(c2s)) : <<Head(c2s), x>> \in Before(c2s)
  BY <1>1, TailParts DEF Framed
<1> QED
  BY <1>1, <1>2 DEF Coming, client

(* CO_CANsend adds its frame to what is coming: now, later or both.        *)
LEMMA SendParts ==
  ASSUME Framed, txBuff = None, NEW m, Send(m)
  PROVE  /\ Extended(Coming', Coming, {m}) /\ s2c' \in Seq(Elements(s2c'))
         /\ faults' \in {faults, faults + 1} /\ (faults' # faults => faults < MaxFaults)
<1> DEFINE one == Append(s2c, m)
           two == Append(one, m)
<1>1. Extended(s2c, s2c, {m}) /\ Extended(one, s2c, {m})
  BY SameParts, AppendParts DEF Framed
<1>2. one \in Seq(Elements(one))
  BY <1>1 DEF Extended
<1> HIDE DEF one
<1>3. Extended(two, one, {m})
  BY <1>2, AppendParts
<1> HIDE DEF two
<1>4. Extended(two, s2c, {m})
  BY <1>1, <1>3, Joined
<1>5. Coming = s2c
  BY DEF Coming
<1>6. CASE s2c' = one /\ UNCHANGED <<txBuff, faults>>
  <2>1. Coming' = one
    BY <1>6 DEF Coming
  <2> QED
    BY <1>1, <1>2, <1>5, <1>6, <2>1
<1>7. CASE Fault /\ txBuff' = m /\ s2c' \in {s2c, one}
  <2>1. Coming' \in {s2c, one, two}
    BY <1>7 DEF Coming, one, two
  <2>2. Extended(Coming', Coming, {m})
    BY <1>1, <1>4, <1>5, <2>1
  <2> QED
    BY <1>2, <1>7, <2>2 DEF Framed, Fault
<1> QED
  BY <1>6, <1>7 DEF Send, one

(* Taking the first frame and appending a last one do not disturb each     *)
(* other.                                                                  *)
LEMMA TailOfAppend ==
  ASSUME NEW s, s \in Seq(Elements(s)), s # <<>>, NEW x
  PROVE  /\ Append(s, x) # <<>> /\ Head(Append(s, x)) = Head(s)
         /\ Tail(Append(s, x)) = Append(Tail(s), x)
<1> DEFINE S == Elements(s) \cup {x}
<1>1. s \in Seq(S) /\ x \in S
  OBVIOUS
<1> HIDE DEF S
<1>2. /\ Len(s) \in Nat /\ Len(s) > 0 /\ Append(s, x) \in Seq(S) /\ Len(Append(s, x)) = Len(s) + 1
      /\ \A i \in 1 .. Len(s) : Append(s, x)[i] = s[i]
      /\ Append(s, x)[Len(s) + 1] = x
  BY <1>1
<1>3. Append(s, x) # <<>> /\ Head(Append(s, x)) = Head(s)
  BY <1>1, <1>2
<1>4. /\ Tail(Append(s, x)) \in Seq(S) /\ Len(Tail(Append(s, x))) = Len(s)
      /\ \A i \in 1 .. Len(s) : Tail(Append(s, x))[i] = Append(s, x)[i + 1]
  BY <1>2, <1>3
<1>5. /\ Tail(s) \in Seq(S) /\ Len(Tail(s)) = Len(s) - 1
      /\ \A i \in 1 .. Len(s) - 1 : Tail(s)[i] = s[i + 1]
  BY <1>1, <1>2
<1>6. /\ Append(Tail(s), x) \in Seq(S) /\ Len(Append(Tail(s), x)) = Len(s)
      /\ \A i \in 1 .. Len(s) - 1 : Append(Tail(s), x)[i] = Tail(s)[i]
      /\ Append(Tail(s), x)[Len(s)] = x
  BY <1>1, <1>2, <1>5
<1>7. \A i \in 1 .. Len(s) : Tail(Append(s, x))[i] = Append(Tail(s), x)[i]
  <2> SUFFICES ASSUME NEW i \in 1 .. Len(s)
               PROVE  Append(s, x)[i + 1] = Append(Tail(s), x)[i]
    BY <1>4
  <2>1. CASE i = Len(s)
    BY <1>2, <1>6, <2>1
  <2>2. CASE i # Len(s)
    <3>1. i \in 1 .. Len(s) - 1 /\ i + 1 \in 1 .. Len(s)
      BY <1>2, <2>2
    <3> QED
      BY <1>2, <1>5, <1>6, <3>1
  <2> QED
    BY <2>1, <2>2
<1> QED
  BY <1>3, <1>4, <1>6, <1>7, SeqEqual

(* The first frame on the bus is the first that comes.                     *)
LEMMA ComingTail ==
  ASSUME Framed, s2c # <<>>, s2c' = Tail(s2c), txBuff' = txBuff
  PROVE  Coming # <<>> /\ Head(Coming) = Head(s2c) /\ Coming' = Tail(Coming)
<1>1. CASE txBuff = None
  BY <1>1 DEF Coming
<1>2. CASE txBuff # None
  <2>1. Coming = Append(s2c, txBuff) /\ Coming' = Append(Tail(s2c), txBuff)
    BY <1>2 DEF Coming
  <2> QED
    BY <2>1, TailOfAppend DEF Framed
<1> QED
  BY <1>1, <1>2

(* CO_SDOclient_receive takes a frame from what is coming only.            *)
LEMMA ReceiveParts ==
  ASSUME Framed, NEW f, Receive(f)
  PROVE  /\ f \in Elements(Coming) /\ Extended(Coming', Coming, {})
         /\ \A x \in Elements(Coming') : <<f, x>> \in Before(Coming)
         /\ s2c' \in Seq(Elements(s2c')) /\ s2c # <<>> /\ f = Head(s2c)
         /\ UNCHANGED <<state, toggle, finished, sizeInd, buf, bufOffsetRd, object, txBuff, faults>>
<1>1. s2c # <<>> /\ f = Head(s2c) /\ s2c' = Tail(s2c) /\ UNCHANGED <<server, txBuff, faults>>
  BY DEF Receive
<1>2. Coming # <<>> /\ Head(Coming) = Head(s2c) /\ Coming' = Tail(Coming)
  BY <1>1, ComingTail
<1>3. /\ Head(Coming) \in Elements(Coming) /\ Extended(Tail(Coming), Coming, {})
      /\ \A x \in Elements(Tail(Coming)) : <<Head(Coming), x>> \in Before(Coming)
  BY <1>2, TailParts, ComingSeq
<1>4. Extended(Tail(s2c), s2c, {})
  BY <1>1, TailParts DEF Framed
<1> QED
  BY <1>1, <1>2, <1>3, <1>4 DEF Extended, server

(* The data of a transfer, segment by segment.                             *)
LEMMA DataParts ==
  ASSUME NEW t \in Transfers, NEW n \in 0 .. MaxLen
  PROVE  /\ Data(t, n) \in Seq(Items) /\ Len(Data(t, n)) = (IF n = 0 THEN 1 ELSE n)
         /\ Short(Data(t, n)) <=> n = 0
         /\ Data(t, n) # <<>>
         /\ n > 0 => \A i \in 1 .. n : Data(t, n)[i] = <<t, n, i>>
<1> USE SdoConstants
<1>0. n \in Nat /\ n <= MaxLen
  OBVIOUS
<1>1. CASE n = 0
  <2>1. Data(t, n) = <<<<t, 0, 0>>>>
    BY <1>1 DEF Data
  <2>2. <<t, 0, 0>> \in Items
    <3>1. 0 \in 0 .. MaxLen
      OBVIOUS
    <3> QED
      BY <3>1 DEF Items
  <2>3. Short(Data(t, n))
    BY <2>1 DEF Short
  <2>4. \A x \in Items : <<x>> \in Seq(Items) /\ Len(<<x>>) = 1 /\ <<x>> # <<>>
    OBVIOUS
  <2>5. /\ <<<<t, 0, 0>>>> \in Seq(Items) /\ Len(<<<<t, 0, 0>>>>) = 1
        /\ <<<<t, 0, 0>>>> # <<>>
    BY <2>2, <2>4
  <2>6. Data(t, n) \in Seq(Items) /\ Len(Data(t, n)) = 1 /\ Data(t, n) # <<>>
    BY <2>1, <2>5
  <2>7. ~(n > 0)
    BY <1>1
  <2>8. (IF n = 0 THEN 1 ELSE n) = 1
    BY <1>1
  <2> QED
    BY <1>1, <2>3, <2>6, <2>7, <2>8
<1>2. CASE n > 0
  <2>1. Data(t, n) = [i \in 1 .. n |-> <<t, n, i>>]
    BY <1>2 DEF Data
  <2>2. \A i \in 1 .. n : <<t, n, i>> \in Items
    BY <1>0 DEF Items
  <2>3. Data(t, n) \in [1 .. n -> Items]
    BY <2>1, <2>2
  <2>4. Data(t, n) \in Seq(Items) /\ Len(Data(t, n)) = n
    BY <1>0, <2>3
  <2>5. 1 \in 1 .. n /\ \A i \in 1 .. n : Data(t, n)[i] = <<t, n, i>>
    BY <1>2, <2>1
  <2>6. ~Short(Data(t, n))
    BY <1>2, <2>5 DEF Short
  <2>7. Data(t, n) # <<>>
    BY <1>2, <2>4
  <2> QED
    BY <1>2, <2>4, <2>5, <2>6, <2>7
<1> QED
  BY <1>0, <1>1, <1>2

(* What is stored is never empty, and item i says that it is item i.       *)
LEMMA ObjectParts ==
  ASSUME Stored
  PROVE  /\ object \in Seq(Items) /\ Len(object) \in Nat /\ Len(object) > 0
         /\ ~Short(object) =>
              /\ Len(object) <= MaxLen
              /\ \A i \in 1 .. Len(object) : object[i][3] = i
<1>1. PICK t \in Transfers, n \in 0 .. MaxLen : object = Data(t, n)
  BY DEF Stored, Whole
<1>2. n \in Nat /\ n <= MaxLen
  BY SdoConstants
<1> QED
  BY <1>1, <1>2, DataParts

-----------------------------------------------------------------------------
(* Steps that lose, double, drop or reorder nothing but frames already     *)
(* sent, add nothing but aborts, and let each side go on as it is or give  *)
(* up.                                                                     *)
Dull ==
  /\ Extended(c2s', c2s, Aborts) /\ Extended(Coming', Coming, Aborts)
  /\ UNCHANGED <<object, ctran, clen, csent, ctoggle, csize, got>>
  /\ cstate' \in {cstate, "failed"}
  /\ \/ state' \in {"IDLE", "ABORT"}
     \/ UNCHANGED <<state, toggle, finished, sizeInd, buf, bufOffsetRd>>

(* What a dull step adds.                                                  *)
LEMMA AbortsOnly ==
  ASSUME NEW new, NEW old, Extended(new, old, Aborts)
  PROVE  /\ \A x \in Elements(new) : x.t = "abort" \/ x \in Elements(old)
         /\ \A p \in Before(new) : p[2].t = "abort" \/ p \in Before(old)
BY DEF Extended, Aborts

(* Dull steps keep a download right.                                       *)
LEMMA DullDown == Down /\ Dull => Down'
<1> SUFFICES ASSUME Down, Dull PROVE Down'
  OBVIOUS
<1>1. /\ UNCHANGED <<object, ctran, clen, csent, ctoggle, csize, got>>
      /\ cstate' \in {cstate, "failed"}
      /\ \A x \in Elements(c2s') : x.t = "abort" \/ x \in Elements(c2s)
      /\ \A p \in Before(c2s') : p[2].t = "abort" \/ p \in Before(c2s)
      /\ \A x \in Elements(Coming') : x.t = "abort" \/ x \in Elements(Coming)
      /\ \A p \in Before(Coming') : p[2].t = "abort" \/ p \in Before(Coming)
  BY AbortsOnly DEF Dull
<1>2. \A x : /\ Opens(x)' = Opens(x) /\ Fresh(x)' = Fresh(x)
             /\ x.t = "abort" => ~Fresh(x)
  BY <1>1 DEF Opens, Fresh
<1>3. Confirmed' => Confirmed
  BY <1>1, <1>2 DEF Confirmed
<1>4. DownClient'
  BY <1>1 DEF Down, DownClient
<1>5. DownRequests'
  <2>1. \A f \in Elements(c2s') :
           \/ f.t = "abort"
           \/ Opens(f)
           \/ \E i \in 1 .. csent : f = SegmentOf(ctran, clen, i, Bit(i + 1))
    BY <1>1 DEF Down, DownRequests
  <2>2. \A f \in Elements(c2s') :
          f.t # "abort" => csent <= Rank(f) + 1 /\ (Confirmed' => csent = Rank(f))
    BY <1>1, <1>3 DEF Down, DownRequests
  <2>3. \A p \in Before(c2s') :
          p[1].t # "abort" /\ p[2].t # "abort" => Rank(p[1]) <= Rank(p[2])
    BY <1>1 DEF Down, DownRequests
  <2> QED
    BY <1>1, <1>2, <2>1, <2>2, <2>3 DEF DownRequests
<1>6. DownAnswers'
  <2>1. \A m \in Elements(Coming') :
       /\ m.t \in {"abort", "initOk", "segOk"}
       /\ m.t = "segOk" => csent > 0 /\ m.toggle \in 0 .. 1
       /\ m.t = "initOk" /\ clen = 0 => object = Data(ctran, clen)
    BY <1>1 DEF Down, DownAnswers
  <2>2. \A p \in Before(Coming') : Fresh(p[1]) /\ p[2].t = "segOk" => Fresh(p[2])
    BY <1>1 DEF Down, DownAnswers
  <2>3. Confirmed' /\ csent = clen => object = Data(ctran, clen)
    BY <1>3 DEF Down, DownAnswers
  <2> QED
    BY <1>1, <1>2, <2>1, <2>2, <2>3 DEF DownAnswers
<1>7. DownServer'
  <2>1. CASE state' \in {"IDLE", "ABORT"}
    BY <2>1 DEF DownServer
  <2>2. CASE UNCHANGED <<state, toggle, finished, sizeInd, buf, bufOffsetRd>>
    <3>1. Taken' = Taken
      BY <1>1, <2>2 DEF Taken
    <3>2. /\ state' \in {"IDLE", "ABORT", "DOWNLOAD_INITIATE_RSP", "DOWNLOAD_SEGMENT_REQ",
                         "DOWNLOAD_SEGMENT_RSP"}
          /\ state' = "DOWNLOAD_INITIATE_RSP" =>
               /\ finished' <=> clen' = 0
               /\ clen' = 0 => object' = Data(ctran', clen')
               /\ csent' <= 1 /\ ~Confirmed'
      BY <1>1, <1>3, <2>2 DEF Down, DownServer
    <3>3. ASSUME state' = "DOWNLOAD_SEGMENT_REQ"
          PROVE  /\ clen' > 0
                 /\ Taken' /\ Len(buf') < BufferSize /\ bufOffsetRd' = 0
                 /\ toggle' = Bit(Len(buf'))
                 /\ csent' \in {Len(buf'), Len(buf') + 1} /\ (Confirmed' => csent' = Len(buf'))
                 /\ \A f \in Elements(c2s') : f.t # "abort" => Len(buf') <= Rank(f)
      BY <1>1, <1>3, <2>2, <3>1, <3>3 DEF Down, DownServer
    <3>4. ASSUME state' = "DOWNLOAD_SEGMENT_RSP"
          PROVE  /\ csent' > 0 /\ toggle' = Bit(csent' + 1) /\ bufOffsetRd' = 0 /\ ~Confirmed'
                 /\ \A f \in Elements(c2s') : f.t # "abort" => csent' = Rank(f)
                 /\ IF finished' THEN csent' = clen' /\ object' = Data(ctran', clen') /\ buf' = <<>>
                    ELSE csent' < clen' /\ Taken' /\ Len(buf') = csent' /\ Len(buf') < BufferSize
      BY <1>1, <1>3, <2>2, <3>1, <3>4 DEF Down, DownServer
    <3> QED
      BY <3>2, <3>3, <3>4 DEF DownServer
  <2> QED
    BY <2>1, <2>2 DEF Dull
<1> QED
  BY <1>4, <1>5, <1>6, <1>7 DEF Down

(* Dull steps keep an upload right.                                        *)
LEMMA DullUp == Up /\ Dull => Up'
<1> SUFFICES ASSUME Up, Dull PROVE Up'
  OBVIOUS
<1>1. /\ UNCHANGED <<object, ctran, clen, csent, ctoggle, csize, got>>
      /\ cstate' \in {cstate, "failed"}
      /\ \A x \in Elements(c2s') : x.t = "abort" \/ x \in Elements(c2s)
      /\ \A p \in Before(c2s') : p[2].t = "abort" \/ p \in Before(c2s)
      /\ \A x \in Elements(Coming') : x.t = "abort" \/ x \in Elements(Coming)
      /\ \A p \in Before(Coming') : p[2].t = "abort" \/ p \in Before(Coming)
      /\ Given' = Given
  BY AbortsOnly DEF Dull, Given
<1>2. \A x : /\ Old(x)' = Old(x) /\ Further(x)' = Further(x)
             /\ x.t = "abort" => ~Old(x) /\ ~Further(x)
  BY <1>1 DEF Old, Further
<1>3. (Answered' => Answered) /\ (Asked => Asked')
  BY <1>1, <1>2 DEF Answered, Asked
<1>4. UpClient'
  BY <1>1 DEF Up, UpClient
<1>5. UpRequests'
  <2>1. \A f \in Elements(c2s') :
          /\ f.t \in {"abort", "upinit", "upseg"}
          /\ f.t = "upseg" => f.toggle \in 0 .. 1
    BY <1>1 DEF Up, UpRequests
  <2>2. ASSUME ~Short(object)
        PROVE  \A f \in Elements(c2s') : (f.t = "upinit" => Given = 0) /\ (Given = 0 => ~Old(f))
    BY <1>1, <1>2, <2>2 DEF Up, UpRequests
  <2>3. ASSUME ~Short(object)
        PROVE  \A p \in Before(c2s') :
                 p[1].t = "upseg" => p[2].t # "upinit" /\ (Old(p[2]) => Old(p[1]))
    BY <1>1, <1>2, <2>3 DEF Up, UpRequests
  <2> QED
    BY <1>1, <1>2, <2>1, <2>2, <2>3 DEF UpRequests
<1>6. UpAnswers'
  <2>1. \A m \in Elements(Coming') :
       /\ m.t \in {"abort", "upExp", "upOk", "upData"}
       /\ m.t = "upExp" => Short(object) /\ m.data = object
       /\ m.t = "upOk" => ~Short(object) /\ m.size = Len(object)
       /\ m.t = "upData" =>
            /\ ~Short(object)
            /\ \E i \in {Given, Given + 1} :
                 /\ i \in 1 .. Len(object)
                 /\ m = [t |-> "upData", toggle |-> Bit(i + 1), last |-> i = Len(object),
                         item |-> object[i]]
    BY <1>1 DEF Up, UpAnswers
  <2>2. \A p \in Before(Coming') :
          p[1].t = "upData" /\ p[2].t = "upData" => p[1].item[3] <= p[2].item[3]
    BY <1>1 DEF Up, UpAnswers
  <2>3. Answered' => Asked'
    BY <1>3 DEF Up, UpAnswers
  <2> QED
    BY <1>1, <2>1, <2>2, <2>3 DEF UpAnswers
<1>7. UpServer'
  <2>1. CASE state' \in {"IDLE", "ABORT"}
    BY <2>1 DEF UpServer
  <2>2. CASE UNCHANGED <<state, toggle, finished, sizeInd, buf, bufOffsetRd>>
    BY <1>1, <1>3, <2>2 DEF Up, UpServer
  <2> QED
    BY <2>1, <2>2 DEF Dull
<1> QED
  BY <1>4, <1>5, <1>6, <1>7 DEF Up

(* A server that gives up its stale transfer is ready for the new one.     *)
LEMMA DullStale ==
  ASSUME Stale, Dull, Stored,
         state' \in {"IDLE", "ABORT"} \/ (s2c' = <<>> /\ txBuff' = None)
  PROVE  Stale' \/ Down' \/ Up'
<1>1. /\ UNCHANGED <<object, ctran, clen, csent, ctoggle, csize, got>>
      /\ cstate' \in {cstate, "failed"}
      /\ \A x \in Elements(c2s') : x.t = "abort" \/ x \in Elements(c2s)
      /\ \A x \in Elements(Coming') : x.t = "abort" \/ x \in Elements(Coming)
      /\ Given' = 0 /\ csent' = 0 /\ got' = <<>>
  BY AbortsOnly DEF Dull, Stale, Given
<1>2. \A x : Opens(x)' = Opens(x)
  BY <1>1 DEF Opens
<1>3. Elements(Coming) = {} /\ \A x \in Elements(Coming') : x.t = "abort"
  BY <1>1, EmptyParts DEF Stale, Coming
<1>4. \A p : /\ p \in Before(Coming') => p[1].t = "abort" /\ p[2].t = "abort"
             /\ p \in Before(c2s') => p[1] \in Elements(c2s') /\ p[2] \in Elements(c2s')
  BY <1>3 DEF Before
<1>5. CASE state' \notin {"IDLE", "ABORT"}
  <2>1. state' = state /\ s2c' = <<>> /\ txBuff' = None
    BY <1>5 DEF Dull
  <2> QED
    BY <1>1, <1>2, <2>1 DEF Stale
<1>6. CASE /\ state' \in {"IDLE", "ABORT"}
           /\ cstate \in {"failed", "download initiate"}
           /\ \A f \in Elements(c2s) : f.t = "abort" \/ Opens(f)
  <2>1. \A f \in Elements(c2s') : f.t = "abort" \/ (Opens(f)' /\ Rank(f) = 0)
    BY <1>1, <1>2, <1>6 DEF Opens, Rank
  <2>2. ~Confirmed'
    BY <1>3 DEF Confirmed, Fresh
  <2>3. DownClient'
    BY <1>1, <1>6 DEF DownClient
  <2>4. DownRequests'
    <3>1. \A f \in Elements(c2s') : f.t # "abort" => csent' <= Rank(f) + 1
      BY <1>1, <2>1
    <3>2. \A p \in Before(c2s') : p[1].t # "abort" /\ p[2].t # "abort" => Rank(p[1]) <= Rank(p[2])
      BY <1>4, <2>1
    <3> QED
      BY <2>1, <2>2, <3>1, <3>2 DEF DownRequests
  <2>5. DownAnswers'
    BY <1>3, <1>4, <2>2 DEF DownAnswers, Fresh
  <2>6. DownServer'
    BY <1>6 DEF DownServer
  <2> QED
    BY <2>3, <2>4, <2>5, <2>6 DEF Down
<1>7. CASE /\ state' \in {"IDLE", "ABORT"}
           /\ cstate \in {"failed", "upload initiate"}
           /\ \A f \in Elements(c2s) : f.t \in {"abort", "upinit"}
  <2>1. \A f \in Elements(c2s') : f.t \in {"abort", "upinit"}
    BY <1>1, <1>7
  <2>2. ~Answered'
    BY <1>3 DEF Answered, Further
  <2>3. UpClient'
    <3>1. object' = object /\ 0 <= Len(object)
      BY <1>1, ObjectParts
    <3>2. \A i \in 1 .. 0 : got'[i] = object[i]
      OBVIOUS
    <3> QED
      BY <1>1, <1>7, <3>1, <3>2 DEF UpClient
  <2>4. UpRequests'
    BY <1>1, <1>4, <2>1 DEF UpRequests, Old
  <2>5. UpAnswers'
    BY <1>3, <1>4, <2>2 DEF UpAnswers
  <2>6. UpServer'
    BY <1>7 DEF UpServer
  <2> QED
    BY <2>3, <2>4, <2>5, <2>6 DEF Up
<1> QED
  BY <1>5, <1>6, <1>7 DEF Stale

(* Dull steps keep the invariant.                                          *)
LEMMA DullKeeps ==
  ASSUME SdoInv, Dull, ServerTyped', s2c' \in Seq(Elements(s2c')), faults' \in 0 .. MaxFaults,
         Stale => state' \in {"IDLE", "ABORT"} \/ (s2c' = <<>> /\ txBuff' = None)
  PROVE  SdoInv'
<1>1. ClientTyped'
  BY DEF SdoInv, Dull, ClientTyped, Over
<1>2. Framed' /\ Stored'
  BY DEF SdoInv, Dull, Framed, Stored, Extended
<1>3. (Stale \/ Down \/ Up)'
  BY DullStale, DullDown, DullUp DEF SdoInv
<1> QED
  BY <1>1, <1>2, <1>3 DEF SdoInv

(* A size that is announced can be an object's.                            *)
LEMMA FramesSized ==
  ASSUME SdoInv, NEW f \in Elements(c2s), f.t = "init"
  PROVE  f.size \in 0 .. MaxLen
<1>1. CASE Stale
  BY <1>1 DEF Stale, Opens
<1>2. CASE Down
  BY <1>2 DEF Down, DownRequests, Opens, SegmentOf
<1>3. CASE Up
  BY <1>3 DEF Up, UpRequests
<1> QED
  BY <1>1, <1>2, <1>3 DEF SdoInv

(* Faults are bounded.                                                     *)
LEMMA FaultCounted == faults \in 0 .. MaxFaults /\ Fault => faults' \in 0 .. MaxFaults
BY SdoConstants DEF Fault

(* An empty buffer.                                                        *)
LEMMA EmptyTyped ==
  ASSUME NEW S
  PROVE  <<>> \in Seq(S) /\ Len(<<>>) = 0 /\ Len(<<>>) <= BufferSize
BY SdoConstants

(* An abort from the client, before or after a request.                    *)
LEMMA RxAbortKeeps == SdoInv /\ RxAbort => SdoInv'
<1> SUFFICES ASSUME SdoInv, RxAbort PROVE SdoInv'
  OBVIOUS
<1>0. Framed /\ ServerTyped /\ faults \in 0 .. MaxFaults
  BY DEF SdoInv
<1>1. /\ state' = "IDLE"
      /\ UNCHANGED <<toggle, finished, sizeInd, buf, bufOffsetRd, object, faults>>
  BY DEF RxAbort
<1>2. Extended(c2s', c2s, {}) /\ UNCHANGED <<txBuff, s2c, client>>
  <2>1. CASE Take([t |-> "abort"])
    BY <1>0, <2>1, TakeParts DEF Take
  <2>2. CASE /\ Len(c2s) > 1 /\ c2s' = <<c2s[1]>> \o SubSeq(c2s, 3, Len(c2s))
             /\ UNCHANGED <<txBuff, s2c, client>>
    BY <1>0, <2>2, SecondDropped DEF Framed
  <2> QED
    BY <2>1, <2>2 DEF RxAbort
<1>3. /\ UNCHANGED <<cstate, ctran, clen, csent, ctoggle, csize, got, Coming>>
  BY <1>2 DEF client, Coming
<1>4. Extended(c2s', c2s, Aborts) /\ Extended(Coming', Coming, Aborts)
  <2>1. Extended(Coming', Coming, {})
    BY <1>0, <1>3, SameQueues
  <2> QED
    BY <1>2, <2>1, Wider
<1>5. Dull
  BY <1>1, <1>3, <1>4 DEF Dull
<1>6. ServerTyped' /\ s2c' \in Seq(Elements(s2c'))
  BY <1>0, <1>1, <1>2 DEF ServerTyped, Framed
<1> QED
  BY <1>0, <1>1, <1>5, <1>6, DullKeeps

(* A request that leads to an abort.                                       *)
LEMMA RefusedKeeps ==
  ASSUME SdoInv, NEW f, Take(f), Abort, UNCHANGED object,
         ServerTyped', faults' \in 0 .. MaxFaults
  PROVE  SdoInv'
<1>0. Framed
  BY DEF SdoInv
<1>1. /\ Extended(c2s', c2s, {}) /\ Coming' = Coming /\ s2c' = s2c
      /\ UNCHANGED <<cstate, ctran, clen, csent, ctoggle, csize, got>>
  BY <1>0, TakeParts
<1>2. Extended(c2s', c2s, Aborts) /\ Extended(Coming', Coming, Aborts)
  <2>1. Extended(Coming', Coming, {})
    BY <1>0, <1>1, SameQueues
  <2> QED
    BY <1>1, <2>1, Wider
<1>3. Dull /\ state' = "ABORT"
  BY <1>1, <1>2 DEF Dull, Abort
<1>4. s2c' \in Seq(Elements(s2c'))
  BY <1>0, <1>1 DEF Framed
<1> QED
  BY <1>3, <1>4, DullKeeps

(* An abort changes no type.                                               *)
LEMMA RefusalTyped ==
  ASSUME SdoInv, Abort, UNCHANGED <<toggle, finished, sizeInd, buf, bufOffsetRd>>
  PROVE  ServerTyped'
BY DEF SdoInv, ServerTyped, Abort, Responses

(* A frame that is out of place.                                           *)
LEMMA UnexpectedKeeps ==
  ASSUME SdoInv, NEW f, RxTooEarly(f) \/ RxUnexpected(f)
  PROVE  SdoInv'
<1>1. /\ Take(f) /\ Abort
      /\ UNCHANGED <<toggle, finished, sizeInd, buf, bufOffsetRd, object, faults>>
  BY DEF RxTooEarly, RxUnexpected
<1>2. faults' \in 0 .. MaxFaults
  BY <1>1 DEF SdoInv
<1> QED
  BY <1>1, <1>2, RefusalTyped, RefusedKeeps

(* The abort goes out.                                                     *)
LEMMA AnswerAbortKeeps == SdoInv /\ AnswerAbort => SdoInv'
<1> SUFFICES ASSUME SdoInv, AnswerAbort PROVE SdoInv'
  OBVIOUS
<1>0. Framed /\ ServerTyped /\ faults \in 0 .. MaxFaults
  BY DEF SdoInv
<1>1. /\ txBuff = None /\ Send([t |-> "abort"]) /\ state' = "IDLE" /\ state = "ABORT"
      /\ UNCHANGED <<toggle, buf, bufOffsetRd, finished, sizeInd, object, c2s, client>>
  BY DEF AnswerAbort, Answering
<1>2. /\ Extended(Coming', Coming, Aborts) /\ s2c' \in Seq(Elements(s2c'))
      /\ faults' \in 0 .. MaxFaults
  <2>1. /\ Extended(Coming', Coming, {[t |-> "abort"]}) /\ s2c' \in Seq(Elements(s2c'))
        /\ faults' \in {faults, faults + 1} /\ (faults' # faults => faults < MaxFaults)
    BY <1>0, <1>1, SendParts
  <2> QED
    BY <1>0, <2>1, SdoConstants DEF Aborts
<1>3. Extended(c2s', c2s, Aborts)
  BY <1>0, <1>1, SameQueues, Wider
<1>4. Dull
  BY <1>1, <1>2, <1>3 DEF Dull, client
<1>5. ServerTyped'
  BY <1>0, <1>1 DEF ServerTyped
<1> QED
  BY <1>1, <1>2, <1>4, <1>5, DullKeeps

(* The answer that was held up goes out.                                   *)
LEMMA BufferSentKeeps == SdoInv /\ BufferSent => SdoInv'
<1> SUFFICES ASSUME SdoInv, BufferSent PROVE SdoInv'
  OBVIOUS
<1>0. Framed /\ ServerTyped /\ faults \in 0 .. MaxFaults
  BY DEF SdoInv
<1>1. /\ txBuff # None /\ s2c' = Append(s2c, txBuff) /\ txBuff' = None
      /\ UNCHANGED <<server, c2s, client, faults>>
  BY DEF BufferSent
<1>2. Coming' = Coming /\ s2c' \in Seq(Elements(s2c'))
  <2>1. Append(s2c, txBuff) \in Seq(Elements(Append(s2c, txBuff)))
    BY <1>0, AppendParts DEF Framed, Extended
  <2> QED
    BY <1>1, <2>1 DEF Coming
<1>3. Extended(c2s', c2s, Aborts) /\ Extended(Coming', Coming, Aborts)
  BY <1>0, <1>1, <1>2, SameQueues, Wider
<1>4. Dull
  BY <1>1, <1>3 DEF Dull, client, server
<1>5. ServerTyped'
  BY <1>0, <1>1 DEF ServerTyped, server
<1>6. ~Stale
  BY <1>1 DEF Stale
<1> QED
  BY <1>0, <1>1, <1>2, <1>4, <1>5, <1>6, DullKeeps

(* The server times out, or is reset.                                      *)
LEMMA ServerStopsKeeps ==
  ASSUME SdoInv, ServerTimesOut \/ ServerReset, faults' \in 0 .. MaxFaults
  PROVE  SdoInv'
<1>0. Framed /\ ServerTyped
  BY DEF SdoInv
<1>1. /\ state' \in {"IDLE", "ABORT"} /\ txBuff' \in {txBuff, None}
      /\ UNCHANGED <<toggle, finished, sizeInd, buf, bufOffsetRd, object, c2s, s2c, client>>
  BY DEF ServerTimesOut, ServerReset, Abort
<1>2. Extended(Coming', Coming, {})
  <2>1. /\ Extended(s2c, Append(s2c, txBuff), {}) /\ Extended(s2c, s2c, {})
        /\ Extended(Coming, Coming, {})
    BY <1>0, AppendParts, SameQueues DEF Framed
  <2>2. CASE txBuff' = txBuff
    <3>1. Coming' = Coming
      BY <1>1, <2>2 DEF Coming
    <3> QED
      BY <2>1, <3>1
  <2>3. CASE txBuff' = None
    <3>1. Coming' = s2c /\ Coming \in {s2c, Append(s2c, txBuff)}
      BY <1>1, <2>3 DEF Coming
    <3> QED
      BY <2>1, <3>1
  <2> QED
    BY <1>1, <2>2, <2>3
<1>3. Extended(c2s', c2s, {})
  BY <1>0, <1>1, SameQueues
<1>4. Dull
  <2>1. Extended(c2s', c2s, Aborts) /\ Extended(Coming', Coming, Aborts)
    BY <1>2, <1>3, Wider
  <2> QED
    BY <1>1, <2>1 DEF Dull, client
<1>5. ServerTyped' /\ s2c' \in Seq(Elements(s2c'))
  BY <1>0, <1>1 DEF ServerTyped, Framed, Responses
<1> QED
  BY <1>1, <1>4, <1>5, DullKeeps

(* The client's abort.                                                     *)
LEMMA GiveUpParts ==
  ASSUME Framed, GiveUp
  PROVE  Extended(c2s', c2s, Aborts) /\ cstate' = "failed"
BY AppendParts DEF Framed, GiveUp, Aborts

(* An answer nobody waits for, an abort, and an answer that is out of      *)
(* place.                                                                  *)
LEMMA ClientFailsKeeps ==
  ASSUME SdoInv, NEW f, ReceiveNothing(f) \/ ReceiveAbort(f) \/ ReceiveUnexpected(f)
  PROVE  SdoInv'
<1>0. Framed /\ ServerTyped /\ faults \in 0 .. MaxFaults
  BY DEF SdoInv
<1>1. Receive(f) /\ UNCHANGED <<ctran, clen, csent, ctoggle, csize, got>>
  BY DEF ReceiveNothing, ReceiveAbort, ReceiveUnexpected, client
<1>2. /\ Extended(Coming', Coming, {}) /\ s2c' \in Seq(Elements(s2c')) /\ s2c # <<>>
      /\ UNCHANGED <<state, toggle, finished, sizeInd, buf, bufOffsetRd, object, txBuff, faults>>
  BY <1>0, <1>1, ReceiveParts
<1>3. Extended(c2s', c2s, Aborts) /\ cstate' \in {cstate, "failed"}
  <2>1. CASE ReceiveNothing(f) \/ ReceiveAbort(f)
    <3>1. c2s' = c2s /\ cstate' \in {cstate, "failed"}
      BY <2>1 DEF ReceiveNothing, ReceiveAbort, client
    <3> QED
      BY <1>0, <3>1, SameQueues, Wider
  <2>2. CASE ReceiveUnexpected(f)
    BY <1>0, <2>2, GiveUpParts DEF ReceiveUnexpected
  <2> QED
    BY <2>1, <2>2
<1>4. Extended(Coming', Coming, Aborts)
  BY <1>2, Wider
<1>5. Dull
  BY <1>1, <1>2, <1>3, <1>4 DEF Dull
<1>6. ServerTyped'
  BY <1>0, <1>2 DEF ServerTyped
<1>7. ~Stale
  BY <1>2 DEF Stale
<1> QED
  BY <1>0, <1>2, <1>5, <1>6, <1>7, DullKeeps

(* The client times out.                                                   *)
LEMMA ClientTimesOutKeeps ==
  ASSUME SdoInv, ClientTimesOut, faults' \in 0 .. MaxFaults
  PROVE  SdoInv'
<1>0. Framed /\ ServerTyped
  BY DEF SdoInv
<1>1. GiveUp /\ UNCHANGED <<server, txBuff, s2c, ctran, clen, csent, ctoggle, csize, got, Coming>>
  BY DEF ClientTimesOut, Coming
<1>2. Extended(c2s', c2s, Aborts) /\ cstate' = "failed" /\ Extended(Coming', Coming, Aborts)
  BY <1>0, <1>1, GiveUpParts, SameQueues, Wider
<1>3. Dull
  BY <1>1, <1>2 DEF Dull, server
<1>4. ServerTyped' /\ s2c' \in Seq(Elements(s2c'))
  BY <1>0, <1>1 DEF ServerTyped, Framed, server
<1>5. Stale => s2c' = <<>> /\ txBuff' = None
  BY <1>1 DEF Stale
<1> QED
  BY <1>3, <1>4, <1>5, DullKeeps

(* The bus loses a frame or doubles one.                                   *)
LEMMA BusKeeps == SdoInv /\ (LoseRequest \/ LoseResponse \/ DoubleRequest) => SdoInv'
<1> SUFFICES ASSUME SdoInv, LoseRequest \/ LoseResponse \/ DoubleRequest PROVE SdoInv'
  OBVIOUS
<1>0. Framed /\ ServerTyped /\ faults \in 0 .. MaxFaults
  BY DEF SdoInv
<1>1. UNCHANGED <<server, txBuff, client>> /\ faults' \in 0 .. MaxFaults
  BY <1>0, FaultCounted DEF LoseRequest, LoseResponse, DoubleRequest
<1>2. /\ Extended(c2s', c2s, {}) /\ Extended(Coming', Coming, {}) /\ s2c' \in Seq(Elements(s2c'))
      /\ s2c = <<>> => s2c' = <<>>
  <2>1. CASE LoseRequest \/ DoubleRequest
    <3>1. /\ c2s # <<>> /\ c2s' \in {Tail(c2s), <<Head(c2s)>> \o c2s} /\ s2c' = s2c
          /\ Coming' = Coming
      BY <1>1, <2>1 DEF LoseRequest, DoubleRequest, Coming
    <3>2. Extended(c2s', c2s, {})
      BY <1>0, <3>1, TailParts, DoubledParts DEF Framed
    <3> QED
      BY <1>0, <3>1, <3>2, SameQueues DEF Framed
  <2>2. CASE LoseResponse
    <3>1. s2c # <<>> /\ s2c' = Tail(s2c) /\ c2s' = c2s /\ txBuff' = txBuff
      BY <1>1, <2>2 DEF LoseResponse
    <3>2. Coming # <<>> /\ Coming' = Tail(Coming)
      BY <1>0, <3>1, ComingTail
    <3>3. Extended(Coming', Coming, {})
      BY <1>0, <3>2, TailParts, ComingSeq
    <3>4. Extended(Tail(s2c), s2c, {})
      BY <1>0, <3>1, TailParts DEF Framed
    <3> QED
      BY <1>0, <3>1, <3>3, <3>4, SameQueues DEF Extended
  <2> QED
    BY <2>1, <2>2
<1>3. Dull
  <2>1. Extended(c2s', c2s, Aborts) /\ Extended(Coming', Coming, Aborts)
    BY <1>2, Wider
  <2> QED
    BY <1>1, <2>1 DEF Dull, server, client
<1>4. ServerTyped'
  BY <1>0, <1>1 DEF ServerTyped, server
<1>5. Stale => s2c' = <<>> /\ txBuff' = None
  BY <1>1, <1>2 DEF Stale
<1> QED
  BY <1>1, <1>2, <1>3, <1>4, <1>5, DullKeeps

-----------------------------------------------------------------------------
(* A request of a download is taken: what is left in the queue is still    *)
(* right.                                                                  *)
LEMMA TakenDown ==
  ASSUME Down, Extended(c2s', c2s, {}), Coming' = Coming, object' \in {object, Data(ctran, clen)},
         UNCHANGED <<cstate, ctran, clen, csent, ctoggle, csize, got>>, DownServer'
  PROVE  Down'
<1>1. /\ \A x \in Elements(c2s') : x \in Elements(c2s)
      /\ \A p \in Before(c2s') : p \in Before(c2s)
  BY DEF Extended
<1>2. \A x : Opens(x)' = Opens(x) /\ Fresh(x)' = Fresh(x)
  BY DEF Opens, Fresh
<1>3. Confirmed' = Confirmed
  BY <1>2 DEF Confirmed
<1>4. DownClient'
  BY DEF Down, DownClient
<1>5. DownRequests'
  <2>1. \A f \in Elements(c2s') :
           \/ f.t = "abort"
           \/ Opens(f)
           \/ \E i \in 1 .. csent : f = SegmentOf(ctran, clen, i, Bit(i + 1))
    BY <1>1 DEF Down, DownRequests
  <2>2. \A f \in Elements(c2s') :
          f.t # "abort" => csent <= Rank(f) + 1 /\ (Confirmed => csent = Rank(f))
    BY <1>1 DEF Down, DownRequests
  <2>3. \A p \in Before(c2s') :
          p[1].t # "abort" /\ p[2].t # "abort" => Rank(p[1]) <= Rank(p[2])
    BY <1>1 DEF Down, DownRequests
  <2> QED
    BY <1>2, <1>3, <2>1, <2>2, <2>3 DEF DownRequests
<1>6. DownAnswers'
  BY <1>2, <1>3 DEF Down, DownAnswers
<1> QED
  BY <1>4, <1>5, <1>6 DEF Down

(* The same of an upload.                                                  *)
LEMMA TakenUp ==
  ASSUME Up, Extended(c2s', c2s, {}), Coming' = Coming,
         UNCHANGED <<object, cstate, ctran, clen, csent, ctoggle, csize, got>>, UpServer'
  PROVE  Up'
<1>1. /\ \A x \in Elements(c2s') : x \in Elements(c2s)
      /\ \A p \in Before(c2s') : p \in Before(c2s)
      /\ Given' = Given
  BY DEF Extended, Given
<1>2. \A x : Old(x)' = Old(x) /\ Further(x)' = Further(x)
  BY <1>1 DEF Old, Further
<1>3. Answered' = Answered /\ (Asked => Asked')
  BY <1>1, <1>2 DEF Answered, Asked
<1>4. UpClient'
  BY <1>1 DEF Up, UpClient
<1>5. UpRequests'
  <2>1. \A f \in Elements(c2s') :
          /\ f.t \in {"abort", "upinit", "upseg"}
          /\ f.t = "upseg" => f.toggle \in 0 .. 1
    BY <1>1 DEF Up, UpRequests
  <2>2. ASSUME ~Short(object)
        PROVE  \A f \in Elements(c2s') : (f.t = "upinit" => Given = 0) /\ (Given = 0 => ~Old(f))
    BY <1>1, <2>2 DEF Up, UpRequests
  <2>3. ASSUME ~Short(object)
        PROVE  \A p \in Before(c2s') :
                 p[1].t = "upseg" => p[2].t # "upinit" /\ (Old(p[2]) => Old(p[1]))
    BY <1>1, <2>3 DEF Up, UpRequests
  <2> QED
    BY <1>1, <1>2, <2>1, <2>2, <2>3 DEF UpRequests
<1>6. UpAnswers'
  <2>1. Answered' => Asked'
    BY <1>3 DEF Up, UpAnswers
  <2> QED
    BY <1>1, <2>1 DEF Up, UpAnswers
<1> QED
  BY <1>4, <1>5, <1>6 DEF Up

(* The server takes a request and does the right thing next: the rest of   *)
(* the step follows.                                                       *)
LEMMA TakeKeeps ==
  ASSUME SdoInv, NEW f, Take(f), ServerTyped', faults' \in 0 .. MaxFaults,
         \/ Down /\ object' \in {object, Data(ctran, clen)} /\ Stored' /\ DownServer'
         \/ Up /\ UNCHANGED object /\ UpServer'
  PROVE  SdoInv'
<1>0. Framed
  BY DEF SdoInv
<1>1. /\ Extended(c2s', c2s, {}) /\ Coming' = Coming /\ s2c' = s2c
      /\ UNCHANGED <<cstate, ctran, clen, csent, ctoggle, csize, got>>
  BY <1>0, TakeParts
<1>2. ClientTyped'
  BY <1>1 DEF SdoInv, ClientTyped, Over
<1>3. Framed'
  BY <1>0, <1>1 DEF Framed, Extended
<1>4. Stored' /\ (Down' \/ Up')
  <2>1. CASE Down /\ object' \in {object, Data(ctran, clen)} /\ Stored' /\ DownServer'
    BY <1>1, <2>1, TakenDown
  <2>2. CASE Up /\ UNCHANGED object /\ UpServer'
    <3>1. Stored'
      BY <2>2 DEF SdoInv, Stored
    <3> QED
      BY <1>1, <2>2, <3>1, TakenUp
  <2> QED
    BY <2>1, <2>2
<1> QED
  BY <1>2, <1>3, <1>4 DEF SdoInv

(* A first request that an idle server finds: the client has sent at most  *)
(* one segment, and nothing is confirmed.                                  *)
LEMMA FirstRequest ==
  ASSUME SdoInv, state = "IDLE", NEW f \in Elements(c2s), f.t \in {"init", "exp"}
  PROVE  Down /\ Opens(f) /\ csent <= 1 /\ ~Confirmed
<1>1. ~Stale
  BY DEF Stale, Waiting
<1>2. ~Up
  BY DEF Up, UpRequests
<1>3. Down
  BY <1>1, <1>2 DEF SdoInv
<1>4. Opens(f) /\ Rank(f) = 0
  BY <1>3 DEF Down, DownRequests, SegmentOf, Rank
<1>5. csent <= Rank(f) + 1 /\ (Confirmed => csent = Rank(f))
  BY <1>3 DEF Down, DownRequests
<1>6. Confirmed => csent > 0
  BY <1>3 DEF Down, DownAnswers, Confirmed, Fresh
<1> QED
  BY <1>3, <1>4, <1>5, <1>6

(* A segmented download begins, or is refused.                             *)
LEMMA RxDownloadInitiateKeeps ==
  ASSUME SdoInv, NEW f, RxDownloadInitiate(f)
  PROVE  SdoInv'
<1>1. /\ Take(f) /\ state = "IDLE" /\ f.t = "init" /\ UNCHANGED <<object, toggle, buf, bufOffsetRd>>
      /\ sizeInd' \in {sizeInd, f.size}
  BY DEF RxDownloadInitiate
<1>2. /\ f \in Elements(c2s) /\ Framed /\ ServerTyped /\ faults \in 0 .. MaxFaults
      /\ UNCHANGED <<clen, csent, ctran>>
  BY <1>1, TakeParts DEF SdoInv
<1>3. sizeInd' \in 0 .. MaxLen
  BY <1>1, <1>2, FramesSized DEF ServerTyped
<1>4. CASE finished' = FALSE /\ state' = "DOWNLOAD_INITIATE_RSP" /\ UNCHANGED faults
  <2>1. Down /\ Opens(f) /\ csent <= 1 /\ ~Confirmed
    BY <1>1, <1>2, FirstRequest
  <2>2. clen # 0
    BY <1>1, <2>1 DEF Opens
  <2>3. ~Confirmed'
    <3>1. Coming' = Coming
      BY <1>1, <1>2, TakeParts
    <3> QED
      BY <1>2, <2>1, <3>1 DEF Confirmed, Fresh
  <2>4. DownServer'
    BY <1>2, <1>4, <2>1, <2>2, <2>3 DEF DownServer
  <2>5. ServerTyped' /\ Stored'
    BY <1>1, <1>2, <1>3, <1>4 DEF ServerTyped, Responses, SdoInv, Stored
  <2> QED
    BY <1>1, <1>2, <1>4, <2>1, <2>4, <2>5, TakeKeeps
<1>5. CASE Fault /\ Abort /\ UNCHANGED finished
  <2>1. faults' \in 0 .. MaxFaults
    BY <1>2, <1>5, FaultCounted
  <2>2. ServerTyped'
    BY <1>1, <1>2, <1>3, <1>5 DEF ServerTyped, Responses, Abort
  <2> QED
    BY <1>1, <1>5, <2>1, <2>2, RefusedKeeps
<1> QED
  BY <1>4, <1>5 DEF RxDownloadInitiate

(* An expedited download is written, or refused.                           *)
LEMMA RxExpeditedKeeps ==
  ASSUME SdoInv, NEW f, RxExpedited(f)
  PROVE  SdoInv'
<1>1. /\ Take(f) /\ state = "IDLE" /\ f.t = "exp" /\ UNCHANGED <<toggle, sizeInd, buf, bufOffsetRd>>
      /\ Write(f.data, "DOWNLOAD_INITIATE_RSP") /\ finished' = (state' # "ABORT" \/ finished)
  BY DEF RxExpedited
<1>2. /\ f \in Elements(c2s) /\ Framed /\ ServerTyped /\ faults \in 0 .. MaxFaults
      /\ UNCHANGED <<clen, csent, ctran>>
  BY <1>1, TakeParts DEF SdoInv
<1>4. CASE object' = f.data /\ state' = "DOWNLOAD_INITIATE_RSP" /\ UNCHANGED faults
  <2>1. Down /\ Opens(f) /\ csent <= 1 /\ ~Confirmed
    BY <1>1, <1>2, FirstRequest
  <2>2. clen = 0 /\ object' = Data(ctran, clen)
    BY <1>1, <1>4, <2>1 DEF Opens
  <2>3. ~Confirmed'
    <3>1. Coming' = Coming
      BY <1>1, <1>2, TakeParts
    <3> QED
      BY <1>2, <2>1, <3>1 DEF Confirmed, Fresh
  <2>5. finished' = TRUE
    BY <1>1, <1>4
  <2>6. Data(ctran, clen)' = Data(ctran, clen)
    BY <1>2
  <2>4. DownServer'
    BY <1>2, <1>4, <2>1, <2>2, <2>3, <2>5, <2>6 DEF DownServer
  <2>7. ServerTyped'
    BY <1>1, <1>2, <1>4, <2>5 DEF ServerTyped, Responses
  <2>8. Stored'
    <3>1. ctran \in Transfers /\ clen \in 0 .. MaxLen
      BY DEF SdoInv, ClientTyped
    <3>2. Len(Data(ctran, clen)) = 1
      BY <2>2, <3>1, DataParts
    <3>3. Whole(object')
      BY <2>2, <3>1 DEF Whole
    <3>4. Len(object') <= BufferSize
      <4>1. 1 <= BufferSize
        BY SdoConstants
      <4>2. Len(object') = 1
        BY <2>2, <3>2
      <4> QED
        BY ONLY <4>1, <4>2
    <3> QED
      BY <3>3, <3>4 DEF Stored, Whole
  <2> QED
    BY <1>1, <1>2, <1>4, <2>1, <2>2, <2>4, <2>7, <2>8, TakeKeeps
<1>5. CASE Fault /\ Abort /\ UNCHANGED object
  <2>1. faults' \in 0 .. MaxFaults
    BY <1>2, <1>5, FaultCounted
  <2>2. finished' = finished
    BY <1>1, <1>2, <1>5 DEF Abort, ServerTyped
  <2>3. ServerTyped'
    BY <1>1, <1>5, <2>2, RefusalTyped
  <2> QED
    BY <1>1, <1>5, <2>1, <2>3, RefusedKeeps
<1> QED
  BY <1>1, <1>4, <1>5 DEF Write

(* An upload begins with the whole object in the buffer, or is refused.    *)
LEMMA RxUploadInitiateKeeps ==
  ASSUME SdoInv, NEW f, RxUploadInitiate(f)
  PROVE  SdoInv'
<1>1. /\ Take(f) /\ state = "IDLE" /\ f.t = "upinit" /\ UNCHANGED <<toggle, object>>
      /\ bufOffsetRd' = 0
  BY DEF RxUploadInitiate
<1>2. /\ f \in Elements(c2s) /\ Framed /\ ServerTyped /\ faults \in 0 .. MaxFaults /\ Stored
      /\ UNCHANGED got /\ Coming' = Coming
  BY <1>1, TakeParts DEF SdoInv
<1>3. object \in Seq(Items) /\ Len(object) \in Nat /\ (~Short(object) => Len(object) <= MaxLen)
  BY <1>2, ObjectParts
<1>4. CASE /\ buf' = object /\ finished' = TRUE
           /\ state' = "UPLOAD_INITIATE_RSP" /\ UNCHANGED faults
           /\ sizeInd' = IF Short(object) THEN 0 ELSE Len(object)
  <2>1. Up
    <3>1. ~Stale
      BY <1>1 DEF Stale, Waiting
    <3>2. ~Down
      BY <1>1, <1>2 DEF Down, DownRequests, Opens, SegmentOf
    <3> QED
      BY <3>1, <3>2 DEF SdoInv
  <2>2. ~Short(object) => Given = 0 /\ ~Answered
    BY <1>1, <1>2, <2>1 DEF Up, UpRequests, UpAnswers, Asked
  <2>3. Given' = Given /\ Answered' = Answered
    BY <1>2 DEF Given, Answered, Further
  <2>4. UpServer'
    BY <1>1, <1>4, <2>2, <2>3 DEF UpServer
  <2>5. sizeInd' \in 0 .. MaxLen
    BY <1>3, <1>4, SdoConstants
  <2>6. ServerTyped'
    BY <1>1, <1>2, <1>3, <1>4, <2>5 DEF ServerTyped, Responses, Stored
  <2> QED
    BY <1>1, <1>2, <1>4, <2>1, <2>4, <2>6, TakeKeeps
<1>5. CASE Fault /\ Abort /\ buf' = <<>> /\ finished' = FALSE /\ UNCHANGED sizeInd
  <2>1. faults' \in 0 .. MaxFaults
    BY <1>2, <1>5, FaultCounted
  <2>2. ServerTyped'
    <3>1. buf' \in Seq(Items) /\ Len(buf') = 0 /\ Len(buf') <= BufferSize
      BY <1>5, EmptyTyped
    <3>2. bufOffsetRd' \in 0 .. Len(buf')
      BY <1>1, <3>1
    <3> QED
      BY <1>1, <1>2, <1>5, <3>1, <3>2 DEF ServerTyped, Responses, Abort
  <2> QED
    BY <1>1, <1>5, <2>1, <2>2, RefusedKeeps
<1> QED
  BY <1>4, <1>5 DEF RxUploadInitiate

(* A segment is asked for with the right toggle bit: the client has all    *)
(* that was sent.                                                          *)
LEMMA RxUploadSegmentKeeps ==
  ASSUME SdoInv, NEW f, RxUploadSegment(f)
  PROVE  SdoInv'
<1>1. /\ Take(f) /\ state = "UPLOAD_SEGMENT_REQ" /\ f.t = "upseg"
      /\ UNCHANGED <<toggle, finished, sizeInd, buf, bufOffsetRd, object, faults>>
  BY DEF RxUploadSegment
<1>2. /\ f \in Elements(c2s) /\ Framed /\ ServerTyped /\ faults \in 0 .. MaxFaults /\ Stored
      /\ UNCHANGED got /\ Coming' = Coming
      /\ \A x \in Elements(c2s') : <<f, x>> \in Before(c2s)
  BY <1>1, TakeParts DEF SdoInv
<1>3. CASE Abort
  BY <1>1, <1>2, <1>3, RefusalTyped, RefusedKeeps
<1>4. CASE f.toggle = toggle /\ state' = "UPLOAD_SEGMENT_RSP"
  <2>1. Up
    <3>1. ~Stale
      BY <1>1, <1>2 DEF Stale, Opens
    <3>2. ~Down
      BY <1>1 DEF Down, DownServer
    <3> QED
      BY <3>1, <3>2 DEF SdoInv
  <2>2. Given \in Nat
    <3>1. got \in Seq(Items)
      BY DEF SdoInv, ClientTyped
    <3> QED
      BY <3>1 DEF Given
  <2>3. /\ ~Short(object) /\ buf = object /\ toggle = Bit(bufOffsetRd) /\ bufOffsetRd < Len(object)
        /\ (bufOffsetRd = Given /\ ~Answered) \/ (bufOffsetRd = Given + 1 /\ Asked)
    BY <1>1, <2>1 DEF Up, UpServer
  <2>4. bufOffsetRd = Given /\ ~Answered
    <3>1. ASSUME bufOffsetRd = Given + 1, Asked PROVE FALSE
      <4>1. f.toggle # Bit(Given)
        BY <1>4, <2>2, <2>3, <3>1, Bits
      <4> QED
        BY <1>1, <1>2, <3>1, <4>1 DEF Asked, Old
    <3> QED
      BY <2>3, <3>1
  <2>5. ~Old(f)
    BY <1>4, <2>3, <2>4 DEF Old
  <2>6. \A x \in Elements(c2s') : ~Old(x) /\ x.t # "upinit"
    BY <1>1, <1>2, <2>1, <2>3, <2>5 DEF Up, UpRequests
  <2>7. Given' = Given /\ Answered' = Answered /\ Asked'
    <3>1. Given' = Given
      BY <1>2 DEF Given
    <3> QED
      BY <1>2, <2>6, <3>1 DEF Answered, Further, Asked, Old
  <2>8. UpServer'
    BY <1>1, <1>4, <2>3, <2>4, <2>7 DEF UpServer
  <2>9. ServerTyped'
    BY <1>1, <1>2, <1>4 DEF ServerTyped, Responses
  <2> QED
    BY <1>1, <1>2, <2>1, <2>8, <2>9, TakeKeeps
<1> QED
  BY <1>3, <1>4 DEF RxUploadSegment

(* A segment with the right toggle bit is the next one, and the last one   *)
(* the client has sent: it has not been taken before.                      *)
LEMMA NextSegment ==
  ASSUME SdoInv, state = "DOWNLOAD_SEGMENT_REQ", NEW f, Take(f), f.t = "seg", f.toggle = toggle
  PROVE  /\ Down /\ Taken /\ Len(buf) < BufferSize /\ bufOffsetRd = 0 /\ clen > 0
         /\ csent = Len(buf) + 1 /\ toggle = Bit(csent + 1) /\ ~Confirmed
         /\ f = SegmentOf(ctran, clen, csent, Bit(csent + 1))
         /\ \A x \in Elements(c2s') : x.t # "abort" => Rank(x) = csent
<1>1. /\ f \in Elements(c2s) /\ Framed /\ Extended(c2s', c2s, {})
      /\ \A x \in Elements(c2s') : <<f, x>> \in Before(c2s)
  BY TakeParts DEF SdoInv
<1>2. Down
  <2>1. ~Stale
    BY <1>1 DEF Stale, Opens
  <2>2. ~Up
    BY DEF Up, UpServer
  <2> QED
    BY <2>1, <2>2 DEF SdoInv
<1>3. clen \in Nat /\ csent \in Nat /\ Len(buf) \in Nat
  <2>1. buf \in Seq(Items) /\ clen \in 0 .. MaxLen /\ csent \in 0 .. clen
    BY DEF SdoInv, ServerTyped, ClientTyped
  <2>2. Len(buf) \in Nat
    BY <2>1
  <2> QED
    BY <2>1, <2>2
<1>4. /\ clen > 0 /\ Taken /\ Len(buf) < BufferSize /\ bufOffsetRd = 0
      /\ toggle = Bit(Len(buf))
      /\ csent \in {Len(buf), Len(buf) + 1} /\ (Confirmed => csent = Len(buf))
      /\ Len(buf) <= Rank(f)
  BY <1>1, <1>2 DEF Down, DownServer
<1>5. PICK i \in 1 .. csent : f = SegmentOf(ctran, clen, i, Bit(i + 1))
  BY <1>1, <1>2 DEF Down, DownRequests, Opens
<1>6. Rank(f) = i /\ Bit(i + 1) = Bit(Len(buf))
  BY <1>4, <1>5 DEF SegmentOf, Rank
<1>7. i # Len(buf)
  BY <1>3, <1>6, Bits
<1>8. i = Len(buf) + 1 /\ csent = i
  BY <1>3, <1>4, <1>5, <1>6, <1>7
<1>9. toggle = Bit(csent + 1) /\ ~Confirmed
  BY <1>3, <1>4, <1>6, <1>8
<1>10. ASSUME NEW x \in Elements(c2s'), x.t # "abort" PROVE Rank(x) = csent
  <2>1. x \in Elements(c2s)
    BY <1>1 DEF Extended
  <2>2. Rank(f) <= Rank(x)
    <3>1. <<f, x>> \in Before(c2s) /\ <<f, x>>[1] = f /\ <<f, x>>[2] = x
      BY <1>1
    <3>2. <<f, x>>[1].t # "abort" /\ <<f, x>>[2].t # "abort"
      BY <1>10, <3>1
    <3>3. \A p \in Before(c2s) : p[1].t # "abort" /\ p[2].t # "abort" => Rank(p[1]) <= Rank(p[2])
      BY <1>2 DEF Down, DownRequests
    <3>4. Rank(<<f, x>>[1]) <= Rank(<<f, x>>[2])
      BY ONLY <3>1, <3>2, <3>3
    <3> QED
      BY <3>1, <3>4
  <2>3. Opens(x) \/ \E j \in 1 .. csent : x = SegmentOf(ctran, clen, j, Bit(j + 1))
    BY <1>2, <1>10, <2>1 DEF Down, DownRequests
  <2>4. CASE Opens(x)
    <3>1. Rank(x) = 0
      BY <2>4 DEF Opens, Rank
    <3> QED
      BY <1>5, <1>6, <2>2, <3>1
  <2>5. CASE \E j \in 1 .. csent : x = SegmentOf(ctran, clen, j, Bit(j + 1))
    <3>1. \E j \in 1 .. csent : Rank(x) = j
      BY <2>5 DEF SegmentOf, Rank
    <3> QED
      BY <1>3, <1>6, <1>8, <2>2, <3>1
  <2> QED
    BY <2>3, <2>4, <2>5
<1> QED
  BY <1>2, <1>4, <1>5, <1>8, <1>9, <1>10

(* The buffer with the next segment; with the last one it is the           *)
(* transfer's data.                                                        *)
LEMMA AppendTaken ==
  ASSUME buf \in Seq(Items), Taken, ctran \in Transfers, clen \in 0 .. MaxLen, csent \in 1 .. clen,
         csent = Len(buf) + 1
  PROVE  LET d == Append(buf, <<ctran, clen, csent>>)
         IN /\ d \in Seq(Items) /\ Len(d) = csent
            /\ \A i \in 1 .. csent : d[i] = <<ctran, clen, i>>
            /\ csent = clen => d = Data(ctran, clen)
<1> DEFINE d == Append(buf, <<ctran, clen, csent>>)
<1>1. csent \in Nat /\ clen \in Nat /\ MaxLen \in Nat /\ Len(buf) \in Nat
  BY SdoConstants
<1>2. csent \in 0 .. MaxLen
  BY <1>1
<1>3. <<ctran, clen, csent>> \in Items
  BY <1>2 DEF Items
<1>4. /\ d \in Seq(Items) /\ Len(d) = csent /\ d[csent] = <<ctran, clen, csent>>
      /\ \A i \in 1 .. Len(buf) : d[i] = buf[i]
  BY <1>1, <1>3
<1> HIDE DEF d
<1>5. ASSUME NEW i \in 1 .. csent PROVE d[i] = <<ctran, clen, i>>
  <2>1. CASE i = csent
    BY <1>4, <2>1
  <2>2. CASE i # csent
    <3>1. i \in 1 .. Len(buf)
      BY <1>1, <2>2
    <3> QED
      BY <1>4, <3>1 DEF Taken
  <2> QED
    BY <2>1, <2>2
<1>6. ASSUME csent = clen PROVE d = Data(ctran, clen)
  <2>1. /\ Data(ctran, clen) \in Seq(Items) /\ Len(Data(ctran, clen)) = clen
        /\ \A i \in 1 .. clen : Data(ctran, clen)[i] = <<ctran, clen, i>>
    <3>1. clen > 0 /\ clen # 0
      BY <1>1
    <3> QED
      BY <3>1, DataParts
  <2> QED
    BY <1>4, <1>5, <1>6, <2>1, SeqEqual
<1> QED
  BY <1>4, <1>5, <1>6 DEF d

(* A segment is put into the buffer, which is written, or found too full,  *)
(* too long or too short.                                                  *)
LEMMA RxDownloadSegmentKeeps ==
  ASSUME SdoInv, NEW f, RxDownloadSegment(f)
  PROVE  SdoInv'
<1>1. /\ Take(f) /\ state = "DOWNLOAD_SEGMENT_REQ" /\ f.t = "seg" /\ finished' = f.last
      /\ UNCHANGED <<toggle, sizeInd, bufOffsetRd>>
  BY DEF RxDownloadSegment
<1>2. /\ f \in Elements(c2s) /\ Framed /\ ServerTyped /\ faults \in 0 .. MaxFaults /\ Stored
      /\ Coming' = Coming
      /\ UNCHANGED <<cstate, ctran, clen, csent, ctoggle, csize, got>>
  BY <1>1, TakeParts DEF SdoInv
<1>3. /\ buf \in Seq(Items) /\ clen \in 0 .. MaxLen /\ csent \in 0 .. clen /\ ctran \in Transfers
      /\ Len(buf) \in Nat /\ bufOffsetRd \in 0 .. Len(buf) /\ Len(buf) <= BufferSize
  <2>1. /\ buf \in Seq(Items) /\ clen \in 0 .. MaxLen /\ csent \in 0 .. clen /\ ctran \in Transfers
        /\ bufOffsetRd \in 0 .. Len(buf) /\ Len(buf) <= BufferSize
    BY DEF SdoInv, ServerTyped, ClientTyped
  <2>2. Len(buf) \in Nat
    BY <2>1
  <2> QED
    BY <2>1, <2>2
<1>4. f.last \in BOOLEAN
  <2>1. Down
    <3>1. ~Stale
      BY <1>1, <1>2 DEF Stale, Opens
    <3>2. ~Up
      BY <1>1 DEF Up, UpServer
    <3> QED
      BY <3>1, <3>2 DEF SdoInv
  <2>2. PICK i \in 1 .. csent : f = SegmentOf(ctran, clen, i, Bit(i + 1))
    BY <1>1, <1>2, <2>1 DEF Down, DownRequests, Opens
  <2>3. f.last = (i = clen)
    BY <2>2 DEF SegmentOf
  <2> QED
    BY <2>3
<1>5. CASE f.toggle # toggle
  <2>1. Abort /\ UNCHANGED <<buf, object, faults>>
    BY <1>5 DEF RxDownloadSegment
  <2>2. ServerTyped'
    BY <1>1, <1>2, <1>4, <2>1 DEF ServerTyped, Abort, Responses
  <2> QED
    BY <1>1, <1>2, <2>1, <2>2, RefusedKeeps
<1>6. CASE f.toggle = toggle
  <2> DEFINE d == Append(buf, f.item)
  <2>1. /\ Down /\ Taken /\ Len(buf) < BufferSize /\ bufOffsetRd = 0 /\ clen > 0
        /\ csent = Len(buf) + 1 /\ toggle = Bit(csent + 1) /\ ~Confirmed
        /\ f = SegmentOf(ctran, clen, csent, Bit(csent + 1))
        /\ \A x \in Elements(c2s') : x.t # "abort" => Rank(x) = csent
    BY <1>1, <1>6, NextSegment
  <2>2. f.item = <<ctran, clen, csent>> /\ f.last = (csent = clen)
    BY <2>1 DEF SegmentOf
  <2>3. csent \in 1 .. clen /\ clen \in Nat /\ csent \in Nat
    BY <1>3, <2>1, SdoConstants
  <2>4. /\ d \in Seq(Items) /\ Len(d) = csent
        /\ \A i \in 1 .. csent : d[i] = <<ctran, clen, i>>
        /\ csent = clen => d = Data(ctran, clen)
    BY <1>3, <2>1, <2>2, <2>3, AppendTaken
  <2>5. Len(d) <= BufferSize /\ bufOffsetRd \in 0 .. Len(d)
    <3>1. csent <= BufferSize
      BY <1>3, <2>1, SdoConstants
    <3> QED
      BY <2>1, <2>3, <2>4, <3>1
  <2>6. ~Confirmed'
    BY <1>2, <2>1 DEF Confirmed, Fresh
  <2>7. \/ Abort /\ buf' = d /\ UNCHANGED <<object, faults>>
        \/ Abort /\ buf' = <<>> /\ UNCHANGED object /\ (Fault \/ UNCHANGED faults)
        \/ /\ buf' = <<>> /\ finished' /\ object' = d /\ state' = "DOWNLOAD_SEGMENT_RSP"
           /\ UNCHANGED faults
        \/ /\ ~f.last /\ ~BufferFull(d) /\ buf' = d /\ state' = "DOWNLOAD_SEGMENT_RSP"
           /\ UNCHANGED <<object, faults>>
    BY <1>6 DEF RxDownloadSegment, ValidateAndWrite, Write
  <2> HIDE DEF d
  <2>8. CASE Abort /\ buf' = d /\ UNCHANGED <<object, faults>>
    <3>1. ServerTyped'
      BY <1>1, <1>2, <1>4, <2>4, <2>5, <2>8 DEF ServerTyped, Abort, Responses
    <3> QED
      BY <1>1, <1>2, <2>8, <3>1, RefusedKeeps
  <2>9. CASE Abort /\ buf' = <<>> /\ UNCHANGED object /\ (Fault \/ UNCHANGED faults)
    <3>1. faults' \in 0 .. MaxFaults
      BY <1>2, <2>9, FaultCounted
    <3>2. buf' \in Seq(Items) /\ Len(buf') = 0 /\ Len(buf') <= BufferSize
      BY <2>9, EmptyTyped
    <3>3. bufOffsetRd' \in 0 .. Len(buf')
      BY <1>1, <2>1, <3>2
    <3>4. ServerTyped'
      BY <1>1, <1>2, <1>4, <2>9, <3>2, <3>3 DEF ServerTyped, Abort, Responses
    <3> QED
      BY <1>1, <2>9, <3>1, <3>4, RefusedKeeps
  <2>10. CASE /\ buf' = <<>> /\ finished' /\ object' = d /\ state' = "DOWNLOAD_SEGMENT_RSP"
              /\ UNCHANGED faults
    <3>1. csent = clen /\ object' = Data(ctran, clen)
      BY <1>1, <2>2, <2>4, <2>10
    <3>2. buf' \in Seq(Items) /\ Len(buf') = 0 /\ Len(buf') <= BufferSize
      BY <2>10, EmptyTyped
    <3>3. bufOffsetRd' \in 0 .. Len(buf')
      BY <1>1, <2>1, <3>2
    <3>4. ServerTyped'
      BY <1>1, <1>2, <1>4, <2>10, <3>2, <3>3 DEF ServerTyped, Responses
    <3>5. Stored'
      <4>1. Whole(object')
        BY <1>3, <3>1 DEF Whole
      <4>2. Len(object') <= BufferSize
        BY <2>5, <2>10
      <4> QED
        BY <4>1, <4>2 DEF Stored
    <3>6. Data(ctran, clen)' = Data(ctran, clen)
      BY <1>2
    <3>7. DownServer'
      <4>1. csent' > 0 /\ toggle' = Bit(csent' + 1) /\ bufOffsetRd' = 0 /\ csent' = csent
        BY <1>1, <1>2, <2>1, <2>3
      <4>2. csent' = clen' /\ object' = Data(ctran, clen)' /\ buf' = <<>>
        BY <1>2, <2>10, <3>1, <3>6
      <4> QED
        BY <2>1, <2>6, <2>10, <4>1, <4>2 DEF DownServer
    <3> QED
      BY <1>1, <1>2, <2>1, <2>10, <3>1, <3>4, <3>5, <3>7, TakeKeeps
  <2>11. CASE /\ ~f.last /\ ~BufferFull(d) /\ buf' = d /\ state' = "DOWNLOAD_SEGMENT_RSP"
              /\ UNCHANGED <<object, faults>>
    <3>1. csent < clen /\ Len(buf') = csent /\ ~finished' /\ bufOffsetRd' \in 0 .. Len(buf')
      <4>1. csent # clen /\ ~finished'
        BY <1>1, <2>2, <2>11
      <4>2. csent < clen
        BY <2>3, <4>1
      <4>3. Len(buf') = csent /\ bufOffsetRd' \in 0 .. Len(buf')
        BY <1>1, <2>4, <2>5, <2>11
      <4> QED
        BY <4>1, <4>2, <4>3
    <3>2. Len(buf') < BufferSize
      BY <2>3, <2>4, <2>11, SdoConstants DEF BufferFull
    <3>3. Taken'
      BY <1>2, <2>4, <2>11 DEF Taken
    <3>4. ServerTyped'
      BY <1>1, <1>2, <1>4, <2>4, <2>5, <2>11, <3>1 DEF ServerTyped, Responses
    <3>5. Stored'
      BY <1>2, <2>11 DEF Stored
    <3>6. DownServer'
      <4>1. csent' > 0 /\ toggle' = Bit(csent' + 1) /\ bufOffsetRd' = 0 /\ csent' = csent
        BY <1>1, <1>2, <2>1, <2>3
      <4>2. csent' < clen' /\ Len(buf') = csent'
        BY <1>2, <3>1
      <4> QED
        BY <2>1, <2>6, <2>11, <3>1, <3>2, <3>3, <4>1, <4>2 DEF DownServer
    <3> QED
      BY <1>1, <1>2, <2>1, <2>11, <3>4, <3>5, <3>6, TakeKeeps
  <2> QED
    BY <2>7, <2>8, <2>9, <2>10, <2>11
<1> QED
  BY <1>5, <1>6

-----------------------------------------------------------------------------
(* An answer to a download is on its way: what is coming is still right.   *)
LEMMA AnsweredDown ==
  ASSUME Down, NEW m, Extended(Coming', Coming, {m}),
         UNCHANGED <<c2s, object, cstate, ctran, clen, csent, ctoggle, csize, got>>,
         m.t \in {"initOk", "segOk"},
         m.t = "segOk" => csent > 0 /\ m.toggle \in 0 .. 1 /\ Fresh(m),
         m.t = "initOk" /\ clen = 0 => object = Data(ctran, clen),
         Fresh(m) => /\ csent = clen => object = Data(ctran, clen)
                     /\ \A f \in Elements(c2s) : f.t # "abort" => csent = Rank(f),
         DownServer'
  PROVE  Down'
<1>1. /\ \A x \in Elements(Coming') : x \in Elements(Coming) \/ x = m
      /\ \A p \in Before(Coming') : p \in Before(Coming) \/ p[2] = m
  BY DEF Extended
<1>2. \A x : Opens(x)' = Opens(x) /\ Fresh(x)' = Fresh(x)
  BY DEF Opens, Fresh
<1>3. Confirmed' => Confirmed \/ Fresh(m)
  BY <1>1, <1>2 DEF Confirmed
<1>4. DownClient'
  BY DEF Down, DownClient
<1>5. DownRequests'
  <2>1. \A f \in Elements(c2s) :
          f.t # "abort" => csent <= Rank(f) + 1 /\ (Confirmed' => csent = Rank(f))
    BY <1>3 DEF Down, DownRequests
  <2> QED
    BY <1>2, <2>1 DEF Down, DownRequests
<1>6. DownAnswers'
  <2>1. \A x \in Elements(Coming') :
       /\ x.t \in {"abort", "initOk", "segOk"}
       /\ x.t = "segOk" => csent > 0 /\ x.toggle \in 0 .. 1
       /\ x.t = "initOk" /\ clen = 0 => object = Data(ctran, clen)
    BY <1>1 DEF Down, DownAnswers
  <2>2. \A p \in Before(Coming') : Fresh(p[1]) /\ p[2].t = "segOk" => Fresh(p[2])
    BY <1>1 DEF Down, DownAnswers
  <2>3. Confirmed' /\ csent = clen => object = Data(ctran, clen)
    BY <1>3 DEF Down, DownAnswers
  <2> QED
    BY <1>2, <2>1, <2>2, <2>3 DEF DownAnswers
<1> QED
  BY <1>4, <1>5, <1>6 DEF Down

(* The items that are coming are the client's last or its next.            *)
LEMMA AnswersRanked ==
  ASSUME Up, Stored, NEW m \in Elements(Coming), m.t = "upData"
  PROVE  m.item[3] \in {Given, Given + 1}
<1>1. PICK i \in {Given, Given + 1} : i \in 1 .. Len(object) /\ m.item = object[i] /\ ~Short(object)
  BY DEF Up, UpAnswers
<1>2. object[i][3] = i
  BY <1>1, ObjectParts
<1> QED
  BY <1>1, <1>2

(* An answer to an upload is on its way.                                   *)
LEMMA AnsweredUp ==
  ASSUME Up, Stored, Given \in Nat, NEW m, Extended(Coming', Coming, {m}),
         UNCHANGED <<c2s, object, cstate, ctran, clen, csent, ctoggle, csize, got>>,
         m.t \in {"upExp", "upOk", "upData"},
         m.t = "upExp" => Short(object) /\ m.data = object,
         m.t = "upOk" => ~Short(object) /\ m.size = Len(object),
         m.t = "upData" =>
           /\ ~Short(object) /\ Asked /\ Given + 1 \in 1 .. Len(object)
           /\ m = [t |-> "upData", toggle |-> Bit(Given + 2), last |-> Given + 1 = Len(object),
                   item |-> object[Given + 1]],
         UpServer'
  PROVE  Up'
<1>1. /\ \A x \in Elements(Coming') : x \in Elements(Coming) \/ x = m
      /\ \A p \in Before(Coming') :
           p \in Before(Coming) \/ (p[2] = m /\ p[1] \in Elements(Coming) \cup {m})
      /\ Given' = Given
  BY DEF Extended, Given
<1>2. \A x : Old(x)' = Old(x) /\ Further(x)' = Further(x)
  BY <1>1 DEF Old, Further
<1>3. (Answered' => Answered \/ Further(m)) /\ Asked' = Asked
  BY <1>1, <1>2 DEF Answered, Asked
<1>4. UpClient'
  BY <1>1 DEF Up, UpClient
<1>5. UpRequests'
  BY <1>1, <1>2 DEF Up, UpRequests
<1>6. UpAnswers'
  <2>1. ASSUME m.t = "upData"
        PROVE  \E i \in {Given, Given + 1} :
                 /\ i \in 1 .. Len(object)
                 /\ m = [t |-> "upData", toggle |-> Bit(i + 1), last |-> i = Len(object),
                         item |-> object[i]]
    <3>1. (Given + 1) + 1 = Given + 2
      OBVIOUS
    <3> QED
      BY <2>1, <3>1
  <2>2. \A x \in Elements(Coming') :
       /\ x.t \in {"abort", "upExp", "upOk", "upData"}
       /\ x.t = "upExp" => Short(object) /\ x.data = object
       /\ x.t = "upOk" => ~Short(object) /\ x.size = Len(object)
       /\ x.t = "upData" =>
            /\ ~Short(object)
            /\ \E i \in {Given, Given + 1} :
                 /\ i \in 1 .. Len(object)
                 /\ x = [t |-> "upData", toggle |-> Bit(i + 1), last |-> i = Len(object),
                         item |-> object[i]]
    BY <1>1, <2>1 DEF Up, UpAnswers
  <2>3. ASSUME NEW p \in Before(Coming'), p[1].t = "upData", p[2].t = "upData"
        PROVE  p[1].item[3] <= p[2].item[3]
    <3>1. CASE p \in Before(Coming)
      BY <2>3, <3>1 DEF Up, UpAnswers
    <3>2. CASE p[2] = m /\ p[1] \in Elements(Coming) \cup {m}
      <4>1. m.item[3] = Given + 1
        <5>1. ~Short(object) /\ Given + 1 \in 1 .. Len(object) /\ m.item = object[Given + 1]
          BY <2>3, <3>2
        <5> QED
          BY <5>1, ObjectParts
      <4>2. p[1].item[3] \in {Given, Given + 1}
        BY <2>3, <3>2, <4>1, AnswersRanked
      <4> QED
        BY <3>2, <4>1, <4>2
    <3> QED
      BY <1>1, <3>1, <3>2
  <2>4. Answered' => Asked'
    BY <1>3 DEF Up, UpAnswers, Further
  <2> QED
    BY <1>1, <2>2, <2>3, <2>4 DEF UpAnswers
<1> QED
  BY <1>4, <1>5, <1>6 DEF Up

(* The server answers: the rest of the step follows.                       *)
LEMMA AnswerKeeps ==
  ASSUME SdoInv, NEW s, Answering(s), NEW m, Send(m), ServerTyped', Down' \/ Up'
  PROVE  SdoInv'
<1>0. Framed /\ txBuff = None /\ UNCHANGED <<c2s, object, client>> /\ faults \in 0 .. MaxFaults
  BY DEF SdoInv, Answering
<1>1. /\ s2c' \in Seq(Elements(s2c'))
      /\ faults' \in {faults, faults + 1} /\ (faults' # faults => faults < MaxFaults)
  BY <1>0, SendParts
<1>2. faults' \in 0 .. MaxFaults
  BY <1>0, <1>1, SdoConstants
<1>3. ClientTyped'
  BY <1>0 DEF SdoInv, ClientTyped, Over, client
<1>4. Framed' /\ Stored'
  BY <1>0, <1>1 DEF SdoInv, Framed, Stored
<1> QED
  BY <1>2, <1>3, <1>4 DEF SdoInv

(* What all answers have in common.                                        *)
LEMMA AnswerParts ==
  ASSUME SdoInv, NEW s \in Responses, Answering(s), NEW m, Send(m)
  PROVE  /\ Extended(Coming', Coming, {m}) /\ state = s /\ (Down \/ Up)
         /\ UNCHANGED <<finished, sizeInd, object, c2s, cstate, ctran, clen, csent, ctoggle, csize,
                        got>>
         /\ ServerTyped /\ ClientTyped /\ Stored /\ Given \in Nat
<1>1. txBuff = None /\ state = s /\ UNCHANGED <<finished, sizeInd, object, c2s, client>>
  BY DEF Answering
<1>2. Framed /\ ServerTyped /\ ClientTyped /\ Stored
  BY DEF SdoInv
<1>3. Down \/ Up
  BY <1>1 DEF SdoInv, Stale, Waiting, Responses
<1>4. Given \in Nat
  <2>1. got \in Seq(Items)
    BY <1>2 DEF ClientTyped
  <2> QED
    BY <2>1 DEF Given
<1>5. Extended(Coming', Coming, {m})
  BY <1>1, <1>2, SendParts
<1> QED
  BY <1>1, <1>2, <1>3, <1>4, <1>5 DEF client

(* A download is accepted, and is over if it was expedited.                *)
LEMMA DownloadInitiateAnswered == SdoInv /\ AnswerDownloadInitiate => SdoInv'
<1> SUFFICES ASSUME SdoInv, AnswerDownloadInitiate PROVE SdoInv'
  OBVIOUS
<1> DEFINE m == [t |-> "initOk"]
<1>1. Answering("DOWNLOAD_INITIATE_RSP") /\ Send(m)
  BY DEF AnswerDownloadInitiate
<1>2. /\ Extended(Coming', Coming, {m}) /\ state = "DOWNLOAD_INITIATE_RSP" /\ (Down \/ Up)
      /\ UNCHANGED <<finished, sizeInd, object, c2s, cstate, ctran, clen, csent, ctoggle, csize,
                     got>>
      /\ ServerTyped /\ ClientTyped /\ Stored
  <2>1. "DOWNLOAD_INITIATE_RSP" \in Responses
    BY DEF Responses
  <2> QED
    BY <1>1, <2>1, AnswerParts
<1>3. Down
  BY <1>2 DEF Up, UpServer
<1>4. /\ finished <=> clen = 0
      /\ clen = 0 => object = Data(ctran, clen)
      /\ csent <= 1 /\ ~Confirmed
  BY <1>2, <1>3 DEF Down, DownServer
<1>5. ~Fresh(m) /\ m.t = "initOk"
  BY DEF Fresh
<1>6. ~Confirmed'
  <2>1. \A x \in Elements(Coming') : x \in Elements(Coming) \/ x = m
    BY <1>2 DEF Extended
  <2>2. \A x : Fresh(x)' = Fresh(x)
    BY <1>2 DEF Fresh
  <2> HIDE DEF m
  <2> QED
    BY <1>4, <1>5, <2>1, <2>2 DEF Confirmed
<1>7. CASE finished /\ state' = "IDLE" /\ UNCHANGED <<toggle, buf, bufOffsetRd>>
  <2>1. ServerTyped'
    BY <1>2, <1>7 DEF ServerTyped
  <2>2. DownServer'
    BY <1>7 DEF DownServer
  <2>3. Down'
    BY <1>2, <1>3, <1>4, <1>5, <2>2, AnsweredDown
  <2> QED
    BY <1>1, <2>1, <2>3, AnswerKeeps
<1>8. CASE /\ ~finished /\ state' = "DOWNLOAD_SEGMENT_REQ"
           /\ toggle' = 0 /\ buf' = <<>> /\ bufOffsetRd' = 0
  <2>1. buf' \in Seq(Items) /\ Len(buf') = 0 /\ Len(buf') <= BufferSize /\ Len(buf') < BufferSize
    BY <1>8, EmptyTyped, SdoConstants
  <2>2. bufOffsetRd' \in 0 .. Len(buf') /\ toggle' \in 0 .. 1
    BY <1>8, <2>1
  <2>3. ServerTyped'
    BY <1>2, <1>8, <2>1, <2>2 DEF ServerTyped, Waiting
  <2>4. clen \in Nat /\ csent \in 0 .. clen
    <3>1. clen \in 0 .. MaxLen /\ csent \in 0 .. clen
      BY <1>2 DEF ClientTyped
    <3> QED
      BY <3>1
  <2>5. clen > 0
    BY <1>4, <1>8, <2>4
  <2>6. csent \in {0, 1}
    BY <1>4, <2>4
  <2>7. Taken'
    BY <2>1 DEF Taken
  <2>8. \A f \in Elements(c2s) : f.t # "abort" => 0 <= Rank(f)
    BY <1>3, <2>4 DEF Down, DownRequests, Opens, SegmentOf, Rank
  <2>9. DownServer'
    <3>1. toggle' = Bit(Len(buf')) /\ csent' \in {Len(buf'), Len(buf') + 1} /\ clen' > 0
      BY <1>2, <1>8, <2>1, <2>5, <2>6, Bits
    <3>2. \A f \in Elements(c2s') : f.t # "abort" => Len(buf') <= Rank(f)
      BY <1>2, <2>1, <2>8
    <3> QED
      BY <1>6, <1>8, <2>1, <2>7, <3>1, <3>2 DEF DownServer
  <2>10. Down'
    BY <1>2, <1>3, <1>4, <1>5, <2>9, AnsweredDown
  <2> QED
    BY <1>1, <2>3, <2>10, AnswerKeeps
<1> QED
  BY <1>7, <1>8 DEF AnswerDownloadInitiate

(* The answer to a segment is fresh: no other answer to it is coming.      *)
LEMMA DownloadSegmentAnswered == SdoInv /\ AnswerDownloadSegment => SdoInv'
<1> SUFFICES ASSUME SdoInv, AnswerDownloadSegment PROVE SdoInv'
  OBVIOUS
<1> DEFINE m == [t |-> "segOk", toggle |-> toggle]
<1>1. /\ Answering("DOWNLOAD_SEGMENT_RSP") /\ Send(m)
      /\ toggle' = 1 - toggle /\ UNCHANGED <<buf, bufOffsetRd>>
      /\ state' = IF finished THEN "IDLE" ELSE "DOWNLOAD_SEGMENT_REQ"
  BY DEF AnswerDownloadSegment
<1>2. /\ Extended(Coming', Coming, {m}) /\ state = "DOWNLOAD_SEGMENT_RSP" /\ (Down \/ Up)
      /\ UNCHANGED <<finished, sizeInd, object, c2s, cstate, ctran, clen, csent, ctoggle, csize,
                     got>>
      /\ ServerTyped /\ ClientTyped /\ Stored
  <2>1. "DOWNLOAD_SEGMENT_RSP" \in Responses
    BY DEF Responses
  <2> QED
    BY <1>1, <2>1, AnswerParts
<1>3. Down
  BY <1>2 DEF Up, UpServer
<1>4. /\ csent > 0 /\ toggle = Bit(csent + 1) /\ bufOffsetRd = 0 /\ ~Confirmed
      /\ \A f \in Elements(c2s) : f.t # "abort" => csent = Rank(f)
      /\ IF finished THEN csent = clen /\ object = Data(ctran, clen) /\ buf = <<>>
         ELSE csent < clen /\ Taken /\ Len(buf) = csent /\ Len(buf) < BufferSize
  BY <1>2, <1>3 DEF Down, DownServer
<1>5. m.t = "segOk" /\ m.toggle = toggle /\ Fresh(m) /\ toggle \in 0 .. 1
  BY <1>2, <1>4 DEF Fresh, ServerTyped
<1>6. csent \in Nat /\ clen \in Nat
  <2>1. clen \in 0 .. MaxLen /\ csent \in 0 .. clen
    BY <1>2 DEF ClientTyped
  <2> QED
    BY <2>1
<1>7. toggle' \in 0 .. 1 /\ toggle' = Bit(csent)
  <2>1. \A n \in Nat : Bit(n + 1) = 1 - Bit(n) /\ Bit(n) \in 0 .. 1
    BY Bits
  <2>2. toggle = 1 - Bit(csent) /\ Bit(csent) \in 0 .. 1
    BY <1>4, <1>6, <2>1
  <2> QED
    BY <1>1, <2>2
<1>8. ServerTyped'
  BY <1>1, <1>2, <1>7 DEF ServerTyped, Waiting
<1>9. csent = clen => object = Data(ctran, clen)
  <2>1. CASE finished
    BY <1>4, <2>1
  <2>2. CASE ~finished
    <3>1. csent < clen
      BY <1>4, <2>2
    <3>2. csent # clen
      BY <1>6, <3>1
    <3> QED
      BY <3>2
  <2> QED
    BY <2>1, <2>2
<1>10. DownServer'
  <2>1. CASE finished
    BY <1>1, <2>1 DEF DownServer
  <2>2. CASE ~finished
    <3>1. csent < clen /\ Taken /\ Len(buf) = csent /\ Len(buf) < BufferSize
      BY <1>4, <2>2
    <3>2. Taken'
      BY <1>1, <1>2, <3>1 DEF Taken
    <3>3. clen' > 0 /\ csent' = Len(buf') /\ toggle' = Bit(Len(buf')) /\ Len(buf') < BufferSize
      BY <1>1, <1>2, <1>6, <1>7, <3>1
    <3>4. \A f \in Elements(c2s') : f.t # "abort" => Len(buf') <= Rank(f)
      BY <1>1, <1>2, <1>4, <1>6, <3>1
    <3>5. state' = "DOWNLOAD_SEGMENT_REQ" /\ bufOffsetRd' = 0
      BY <1>1, <1>4, <2>2
    <3> QED
      BY <3>2, <3>3, <3>4, <3>5 DEF DownServer
  <2> QED
    BY <1>2, <2>1, <2>2 DEF ServerTyped
<1>11. Down'
  <2> HIDE DEF m
  <2> QED
    BY <1>2, <1>3, <1>4, <1>5, <1>9, <1>10, AnsweredDown
<1> QED
  BY <1>1, <1>8, <1>11, AnswerKeeps

(* An upload is answered with the data, or with their size.                *)
LEMMA UploadInitiateAnswered == SdoInv /\ AnswerUploadInitiate => SdoInv'
<1> SUFFICES ASSUME SdoInv, AnswerUploadInitiate PROVE SdoInv'
  OBVIOUS
<1> DEFINE m == IF sizeInd = 0 THEN [t |-> "upExp", data |-> buf]
                               ELSE [t |-> "upOk", size |-> sizeInd]
<1>1. /\ Answering("UPLOAD_INITIATE_RSP") /\ Send(m) /\ UNCHANGED <<buf, bufOffsetRd>>
      /\ IF sizeInd = 0 THEN state' = "IDLE" /\ UNCHANGED toggle
                        ELSE state' = "UPLOAD_SEGMENT_REQ" /\ toggle' = 0
  BY DEF AnswerUploadInitiate
<1> HIDE DEF m
<1>2. /\ Extended(Coming', Coming, {m}) /\ state = "UPLOAD_INITIATE_RSP" /\ (Down \/ Up)
      /\ UNCHANGED <<finished, sizeInd, object, c2s, cstate, ctran, clen, csent, ctoggle, csize,
                     got>>
      /\ ServerTyped /\ ClientTyped /\ Stored /\ Given \in Nat
  <2>1. "UPLOAD_INITIATE_RSP" \in Responses
    BY DEF Responses
  <2> QED
    BY <1>1, <2>1, AnswerParts
<1>3. Up
  BY <1>2 DEF Down, DownServer
<1>4. /\ buf = object /\ bufOffsetRd = 0
      /\ sizeInd = IF Short(object) THEN 0 ELSE Len(object)
      /\ ~Short(object) => Given = 0 /\ ~Answered
  BY <1>2, <1>3 DEF Up, UpServer
<1>5. Len(object) \in Nat /\ Len(object) > 0
  BY <1>2, ObjectParts
<1>6. (sizeInd = 0) <=> Short(object)
  BY <1>4, <1>5
<1>7. /\ m.t \in {"upExp", "upOk"}
      /\ m.t = "upExp" => Short(object) /\ m.data = object
      /\ m.t = "upOk" => ~Short(object) /\ m.size = Len(object)
  BY <1>4, <1>6 DEF m
<1>8. ~Further(m) /\ Given' = Given /\ m.t # "upData"
  BY <1>2, <1>7 DEF Further, Given
<1>9. Answered' => Answered
  <2>1. \A x \in Elements(Coming') : x \in Elements(Coming) \/ x = m
    BY <1>2 DEF Extended
  <2>2. \A x : Further(x)' = Further(x)
    BY <1>8 DEF Further
  <2> QED
    BY <1>8, <2>1, <2>2 DEF Answered
<1>10. ServerTyped'
  BY <1>1, <1>2 DEF ServerTyped, Waiting
<1>11. UpServer'
  <2>1. CASE sizeInd = 0
    BY <1>1, <2>1 DEF UpServer
  <2>2. CASE sizeInd # 0
    <3>1. state' = "UPLOAD_SEGMENT_REQ" /\ toggle' = 0 /\ bufOffsetRd' = 0 /\ buf' = object'
      BY <1>1, <1>2, <1>4, <2>2
    <3>2. ~Short(object) /\ Given = 0 /\ ~Answered'
      BY <1>4, <1>6, <1>9, <2>2
    <3>3. toggle' = Bit(bufOffsetRd') /\ bufOffsetRd' = Given' /\ bufOffsetRd' < Len(object')
      BY <1>2, <1>5, <1>8, <3>1, <3>2, Bits
    <3> QED
      BY <1>2, <3>1, <3>2, <3>3 DEF UpServer
  <2> QED
    BY <2>1, <2>2
<1>12. Up'
  BY <1>2, <1>3, <1>7, <1>8, <1>11, AnsweredUp
<1> QED
  BY <1>1, <1>10, <1>12, AnswerKeeps

(* The next item is sent.                                                  *)
LEMMA UploadSegmentAnswered == SdoInv /\ AnswerUploadSegment => SdoInv'
<1> SUFFICES ASSUME SdoInv, AnswerUploadSegment PROVE SdoInv'
  OBVIOUS
<1> DEFINE m == [t |-> "upData", toggle |-> toggle, last |-> bufOffsetRd' = Len(buf),
                 item |-> buf[bufOffsetRd']]
<1>1. /\ Answering("UPLOAD_SEGMENT_RSP") /\ Send(m) /\ bufOffsetRd' = bufOffsetRd + 1
      /\ toggle' = 1 - toggle /\ UNCHANGED buf
      /\ state' = IF bufOffsetRd' = Len(buf) THEN "IDLE" ELSE "UPLOAD_SEGMENT_REQ"
  BY DEF AnswerUploadSegment
<1>2. /\ Extended(Coming', Coming, {m}) /\ state = "UPLOAD_SEGMENT_RSP" /\ (Down \/ Up)
      /\ UNCHANGED <<finished, sizeInd, object, c2s, cstate, ctran, clen, csent, ctoggle, csize,
                     got>>
      /\ ServerTyped /\ ClientTyped /\ Stored /\ Given \in Nat
  <2>1. "UPLOAD_SEGMENT_RSP" \in Responses
    BY DEF Responses
  <2> QED
    BY <1>1, <2>1, AnswerParts
<1>3. Up
  BY <1>2 DEF Down, DownServer
<1>4. /\ ~Short(object) /\ buf = object
      /\ toggle = Bit(bufOffsetRd) /\ bufOffsetRd < Len(object)
      /\ bufOffsetRd = Given /\ ~Answered /\ Asked
  BY <1>2, <1>3 DEF Up, UpServer
<1>5. Len(object) \in Nat /\ Len(object) > 0
  BY <1>2, ObjectParts
<1>6. /\ bufOffsetRd' = Given + 1 /\ Given + 1 \in 1 .. Len(object)
      /\ bufOffsetRd' \in 0 .. Len(buf')
  BY <1>1, <1>2, <1>4, <1>5
<1>7. /\ toggle = Bit(Given + 2) /\ toggle' = Bit(Given + 1) /\ toggle' \in 0 .. 1
  <2>1. \A n \in Nat : Bit(n + 1) = 1 - Bit(n) /\ Bit(n + 2) = Bit(n) /\ Bit(n) \in 0 .. 1
    BY Bits
  <2>2. toggle = Bit(Given) /\ Bit(Given + 1) = 1 - Bit(Given) /\ Bit(Given + 2) = Bit(Given)
        /\ Bit(Given) \in 0 .. 1
    BY <1>2, <1>4, <2>1
  <2> QED
    BY <1>1, <2>2
<1>8. m = [t |-> "upData", toggle |-> Bit(Given + 2), last |-> Given + 1 = Len(object),
           item |-> object[Given + 1]]
  BY <1>4, <1>6, <1>7
<1>9. m.t = "upData"
  OBVIOUS
<1> HIDE DEF m
<1>10. ServerTyped'
  BY <1>1, <1>2, <1>6, <1>7 DEF ServerTyped, Waiting
<1>11. UpServer'
  <2>1. CASE bufOffsetRd' = Len(buf)
    BY <1>1, <2>1 DEF UpServer
  <2>2. CASE bufOffsetRd' # Len(buf)
    <3>1. state' = "UPLOAD_SEGMENT_REQ" /\ buf' = object' /\ ~Short(object')
      BY <1>1, <1>2, <1>4, <2>2
    <3>2. Given' = Given /\ object' = object
      BY <1>2 DEF Given
    <3>3. toggle' = Bit(bufOffsetRd') /\ bufOffsetRd' = Given' + 1 /\ bufOffsetRd' < Len(object')
      BY <1>4, <1>5, <1>6, <1>7, <2>2, <3>2
    <3>4. Asked'
      BY <1>2, <1>4, <3>2 DEF Asked, Old
    <3> QED
      BY <3>1, <3>3, <3>4 DEF UpServer
  <2> QED
    BY <2>1, <2>2
<1>12. Up'
  BY <1>2, <1>3, <1>4, <1>6, <1>8, <1>9, <1>11, AnsweredUp
<1> QED
  BY <1>1, <1>10, <1>12, AnswerKeeps

-----------------------------------------------------------------------------
(* A queue with one request.                                               *)
LEMMA OneRequest ==
  ASSUME c2s = <<>>, NEW r, c2s' = Append(c2s, r)
  PROVE  /\ c2s' \in Seq(Elements(c2s')) /\ \A x \in Elements(c2s') : x = r
         /\ \A p \in Before(c2s') : p[1] = r /\ p[2] = r
<1>1. Extended(Append(<<>>, r), <<>>, {r})
  BY EmptyParts, AppendParts
<1>2. Extended(c2s', <<>>, {r})
  BY <1>1
<1> QED
  BY <1>2, EmptyParts DEF Extended

(* A master that asks again finds nothing left of its last transfer, but   *)
(* perhaps a server that waits for it to go on.                            *)
LEMMA QuietParts ==
  ASSUME SdoInv, Quiet, UNCHANGED <<server, txBuff, s2c>>
  PROVE  /\ c2s = <<>> /\ Elements(Coming') = {} /\ Before(Coming') = {}
         /\ s2c' = <<>> /\ txBuff' = None /\ s2c' \in Seq(Elements(s2c'))
         /\ state' \in {"IDLE"} \cup Waiting /\ UNCHANGED object
         /\ ServerTyped' /\ Stored'
<1>1. c2s = <<>> /\ s2c' = <<>> /\ txBuff' = None /\ state \notin Responses
  BY DEF Quiet
<1>2. Coming' = <<>>
  BY <1>1 DEF Coming
<1>3. UNCHANGED <<state, toggle, finished, sizeInd, buf, bufOffsetRd, object>>
  BY DEF server
<1>4. ServerTyped' /\ Stored'
  BY <1>3 DEF SdoInv, ServerTyped, Stored
<1>5. state' \in {"IDLE"} \cup Waiting
  BY <1>1, <1>3 DEF SdoInv, ServerTyped
<1> QED
  BY <1>1, <1>2, <1>3, <1>4, <1>5, EmptyParts

(* A download is asked for.                                                *)
LEMMA StartDownloadKeeps ==
  ASSUME SdoInv, Quiet, NEW n \in 0 .. MaxLen, NEW ind \in BOOLEAN, StartDownload(n, ind),
         faults' \in 0 .. MaxFaults
  PROVE  SdoInv'
<1>1. PICK r : /\ c2s' = Append(c2s, r)
               /\ r = IF n = 0 THEN [t |-> "exp", data |-> Data(ctran', 0)]
                               ELSE [t |-> "init", size |-> csize']
  BY DEF StartDownload
<1>0. /\ UNCHANGED <<server, txBuff, s2c>>
      /\ ctran' = (ctran + 1) % NumTransfers
      /\ clen' = n /\ csize' = (IF ind THEN n ELSE 0)
      /\ csent' = 0 /\ got' = <<>> /\ ctoggle' = 0 /\ cstate' = "download initiate"
  BY DEF StartDownload
<1>2. /\ c2s = <<>> /\ Elements(Coming') = {} /\ Before(Coming') = {}
      /\ s2c' = <<>> /\ txBuff' = None /\ s2c' \in Seq(Elements(s2c'))
      /\ state' \in {"IDLE"} \cup Waiting /\ ServerTyped' /\ Stored'
  BY <1>0, QuietParts
<1>3. csize' \in 0 .. MaxLen
  <2>1. 0 \in 0 .. MaxLen
    BY SdoConstants
  <2> QED
    BY <1>0, <2>1
<1>4. Opens(r)' /\ Rank(r) = 0
  <2>1. CASE n = 0
    BY <1>0, <1>1, <2>1 DEF Opens, Rank
  <2>2. CASE n # 0
    BY <1>0, <1>1, <1>3, <2>2 DEF Opens, Rank
  <2> QED
    BY <2>1, <2>2
<1>5. /\ c2s' \in Seq(Elements(c2s')) /\ \A x \in Elements(c2s') : x = r
      /\ \A p \in Before(c2s') : p[1] = r /\ p[2] = r
  BY <1>1, <1>2, OneRequest
<1>6. Framed'
  BY <1>2, <1>5 DEF Framed
<1>7. ClientTyped'
  <2>1. ctran' \in Transfers
    <3>1. ctran \in Nat
      <4>1. ctran \in Transfers
        BY DEF SdoInv, ClientTyped
      <4> QED
        BY <4>1, SdoConstants DEF Transfers
    <3>2. \A a \in Nat, b \in Nat : b > 0 => (a + 1) % b \in 0 .. b - 1
      OBVIOUS
    <3> QED
      BY <1>0, <3>1, <3>2, SdoConstants DEF Transfers
  <2>2. csent' \in 0 .. clen' /\ ctoggle' \in 0 .. 1 /\ clen' \in 0 .. MaxLen
    <3>1. n \in 0 .. MaxLen /\ 0 \in 0 .. n /\ 0 \in 0 .. 1
      BY SdoConstants
    <3> QED
      BY <1>0, <3>1
  <2>3. got' \in Seq(Items)
    BY <1>0, EmptyTyped
  <2> QED
    BY <1>0, <1>3, <2>1, <2>2, <2>3 DEF ClientTyped
<1>8. CASE state' \in Waiting
  <2>1. \A f \in Elements(c2s') : Opens(f)'
    BY <1>4, <1>5
  <2>2. Stale'
    BY <1>0, <1>2, <1>8, <2>1 DEF Stale
  <2> QED
    BY <1>2, <1>6, <1>7, <2>2 DEF SdoInv
<1>9. CASE state' = "IDLE"
  <2>1. ~Confirmed'
    BY <1>2 DEF Confirmed
  <2>2. DownClient'
    BY <1>0 DEF DownClient
  <2>3. \A f \in Elements(c2s') : Opens(f)' /\ csent' <= Rank(f) + 1
    <3>1. csent' <= Rank(r) + 1
      <4>1. csent' = 0 /\ Rank(r) = 0
        BY <1>0, <1>4
      <4> QED
        BY ONLY <4>1
    <3> QED
      BY <1>4, <1>5, <3>1
  <2>4. \A p \in Before(c2s') : Rank(p[1]) <= Rank(p[2])
    BY <1>4, <1>5
  <2>5. DownRequests'
    BY <2>1, <2>3, <2>4 DEF DownRequests
  <2>6. DownAnswers'
    BY <1>2, <2>1 DEF DownAnswers
  <2>7. DownServer'
    BY <1>9 DEF DownServer
  <2>8. Down'
    BY <2>2, <2>5, <2>6, <2>7 DEF Down
  <2> QED
    BY <1>2, <1>6, <1>7, <2>8 DEF SdoInv
<1> QED
  BY <1>2, <1>8, <1>9

(* An upload is asked for.                                                 *)
LEMMA StartUploadKeeps ==
  ASSUME SdoInv, Quiet, StartUpload, faults' \in 0 .. MaxFaults
  PROVE  SdoInv'
<1> DEFINE r == [t |-> "upinit"]
<1>1. /\ c2s' = Append(c2s, r) /\ UNCHANGED <<server, txBuff, s2c, ctran, clen>>
      /\ csize' = 0 /\ csent' = 0 /\ got' = <<>> /\ ctoggle' = 0 /\ cstate' = "upload initiate"
  BY DEF StartUpload
<1>2. /\ c2s = <<>> /\ Elements(Coming') = {} /\ Before(Coming') = {}
      /\ s2c' = <<>> /\ txBuff' = None /\ s2c' \in Seq(Elements(s2c'))
      /\ state' \in {"IDLE"} \cup Waiting /\ UNCHANGED object /\ ServerTyped' /\ Stored'
  BY <1>1, QuietParts
<1>3. r.t = "upinit"
  OBVIOUS
<1> HIDE DEF r
<1>4. /\ c2s' \in Seq(Elements(c2s')) /\ \A x \in Elements(c2s') : x = r
      /\ \A p \in Before(c2s') : p[1] = r /\ p[2] = r
  BY <1>1, <1>2, OneRequest
<1>5. Framed'
  BY <1>2, <1>4 DEF Framed
<1>6. ClientTyped'
  <2>1. ctran \in Transfers /\ clen \in 0 .. MaxLen
    BY DEF SdoInv, ClientTyped
  <2>2. csent' \in 0 .. clen' /\ ctoggle' \in 0 .. 1 /\ csize' \in 0 .. MaxLen
    <3>1. 0 \in 0 .. clen /\ 0 \in 0 .. 1 /\ 0 \in 0 .. MaxLen
      BY <2>1, SdoConstants
    <3> QED
      BY <1>1, <3>1
  <2>3. got' \in Seq(Items)
    BY <1>1, EmptyTyped
  <2> QED
    BY <1>1, <2>1, <2>2, <2>3 DEF ClientTyped
<1>7. CASE state' \in Waiting
  <2>1. \A f \in Elements(c2s') : f.t = "upinit"
    BY <1>3, <1>4
  <2>2. Stale'
    BY <1>1, <1>2, <1>7, <2>1 DEF Stale
  <2> QED
    BY <1>2, <1>5, <1>6, <2>2 DEF SdoInv
<1>8. CASE state' = "IDLE"
  <2>1. ~Answered'
    BY <1>2 DEF Answered
  <2>2. Given' = 0
    <3>1. Given' = Len(<<>>)
      BY <1>1 DEF Given
    <3> QED
      BY <3>1
  <2>3. UpClient'
    <3>1. 0 <= Len(object)
      BY ObjectParts DEF SdoInv
    <3>2. \A i \in 1 .. 0 : got'[i] = object'[i]
      OBVIOUS
    <3> QED
      BY <1>1, <1>2, <2>2, <3>1, <3>2 DEF UpClient
  <2>4. UpRequests'
    BY <1>3, <1>4, <2>2 DEF UpRequests, Old
  <2>5. UpAnswers'
    BY <1>2, <2>1 DEF UpAnswers
  <2>6. UpServer'
    BY <1>8 DEF UpServer
  <2>7. Up'
    BY <2>3, <2>4, <2>5, <2>6 DEF Up
  <2> QED
    BY <1>2, <1>5, <1>6, <2>7 DEF SdoInv
<1> QED
  BY <1>2, <1>7, <1>8

(* The client takes an answer: the rest of the step follows.               *)
LEMMA ReceiveKeeps ==
  ASSUME SdoInv, NEW f, Receive(f), NEW r, Extended(c2s', c2s, {r}), ClientTyped', Down' \/ Up'
  PROVE  SdoInv'
<1>0. Framed /\ ServerTyped /\ Stored /\ faults \in 0 .. MaxFaults
  BY DEF SdoInv
<1>1. /\ s2c' \in Seq(Elements(s2c'))
      /\ UNCHANGED <<state, toggle, finished, sizeInd, buf, bufOffsetRd, object, txBuff, faults>>
  BY <1>0, ReceiveParts
<1>2. ServerTyped' /\ Stored'
  BY <1>0, <1>1 DEF ServerTyped, Stored
<1>3. Framed'
  BY <1>1 DEF Framed, Extended
<1> QED
  BY <1>0, <1>1, <1>2, <1>3 DEF SdoInv

(* The client sends the next segment: its last one is confirmed, so every  *)
(* request left is one the server has taken already.                       *)
LEMMA SegmentSent ==
  ASSUME SdoInv, Down, csent \in Nat, csent' = csent + 1, cstate' = "download segment",
         ctoggle' = Bit(csent + 2),
         NEW r, r = SegmentOf(ctran, clen, csent + 1, Bit(csent + 2)), Extended(c2s', c2s, {r}),
         Extended(Coming', Coming, {}), ~Confirmed',
         UNCHANGED <<state, toggle, finished, sizeInd, buf, bufOffsetRd, object, ctran, clen, got>>,
         \A f \in Elements(c2s) : f.t # "abort" => Rank(f) = csent,
         state # "DOWNLOAD_SEGMENT_RSP", state = "DOWNLOAD_INITIATE_RSP" => csent = 0,
         state = "DOWNLOAD_SEGMENT_REQ" => csent = Len(buf)
  PROVE  Down'
<1>1. /\ \A x \in Elements(c2s') : x \in Elements(c2s) \/ x = r
      /\ \A p \in Before(c2s') :
           p \in Before(c2s) \/ (p[2] = r /\ p[1] \in Elements(c2s) \cup {r})
      /\ \A x \in Elements(Coming') : x \in Elements(Coming)
  BY DEF Extended
<1>2. \A x : Opens(x)' = Opens(x)
  BY DEF Opens
<1>0. csent \in Nat /\ csent' = csent + 1 /\ (csent + 1) + 1 = csent + 2 /\ csent' > 0
  BY ONLY csent \in Nat, csent' = csent + 1
<1>3. Rank(r) = csent + 1
  <2>1. r.t = "seg" /\ r.item = <<ctran, clen, csent + 1>>
    BY DEF SegmentOf
  <2> QED
    BY ONLY <2>1 DEF Rank
<1>4. DownClient'
  <2>1. csent' + 1 = csent + 2
    BY ONLY <1>0
  <2>2. ctoggle' = Bit(csent' + 1)
    BY <2>1
  <2> QED
    BY <1>0, <2>2 DEF Down, DownClient
<1>5. DownRequests'
  <2>1. ASSUME NEW x \in Elements(c2s')
        PROVE  \/ x.t = "abort"
               \/ Opens(x)
               \/ \E i \in 1 .. csent + 1 : x = SegmentOf(ctran, clen, i, Bit(i + 1))
    <3>1. CASE x = r
      <4>1. /\ csent + 1 \in 1 .. csent + 1
            /\ x = SegmentOf(ctran, clen, csent + 1, Bit((csent + 1) + 1))
        <5>1. csent + 1 \in 1 .. csent + 1
          BY ONLY <1>0
        <5>2. x = SegmentOf(ctran, clen, csent + 1, Bit((csent + 1) + 1))
          BY <1>0, <3>1
        <5> QED
          BY <5>1, <5>2
      <4> QED
        BY <4>1
    <3>2. CASE x \in Elements(c2s)
      <4>1. \A i \in 1 .. csent : i \in 1 .. csent + 1
        BY ONLY <1>0
      <4> QED
        BY <3>2, <4>1 DEF Down, DownRequests
    <3> QED
      BY <1>1, <3>1, <3>2
  <2>2. \A x \in Elements(c2s') : x.t # "abort" => csent + 1 <= Rank(x) + 1
    <3>1. \A k : k = csent \/ k = csent + 1 => csent + 1 <= k + 1 /\ csent <= k
      BY ONLY <1>0
    <3>2. \A x \in Elements(c2s') : x.t # "abort" => Rank(x) = csent \/ Rank(x) = csent + 1
      BY <1>1, <1>3
    <3> QED
      BY ONLY <3>1, <3>2
  <2>3. ASSUME NEW p \in Before(c2s'), p[1].t # "abort", p[2].t # "abort"
        PROVE  Rank(p[1]) <= Rank(p[2])
    <3>1. CASE p \in Before(c2s)
      BY <2>3, <3>1 DEF Down, DownRequests
    <3>2. CASE p[2] = r /\ p[1] \in Elements(c2s) \cup {r}
      <4>1. Rank(p[1]) = csent \/ Rank(p[1]) = csent + 1
        BY <1>3, <2>3, <3>2
      <4>2. \A k : k = csent \/ k = csent + 1 => k <= csent + 1
        BY ONLY <1>0
      <4> QED
        BY <1>3, <3>2, <4>1, <4>2
    <3> QED
      BY <1>1, <3>1, <3>2
  <2> QED
    BY <1>2, <2>1, <2>2, <2>3 DEF DownRequests
<1>6. DownAnswers'
  <2>1. \A x \in Elements(Coming') : ~Fresh(x)'
    BY DEF Confirmed
  <2>2. \A p \in Before(Coming') : p[1] \in Elements(Coming')
    BY DEF Before
  <2> QED
    BY <1>0, <1>1, <2>1, <2>2 DEF Down, DownAnswers
<1>7. DownServer'
  <2>1. CASE state \in {"IDLE", "ABORT"}
    BY <2>1 DEF DownServer
  <2>2. CASE state = "DOWNLOAD_INITIATE_RSP"
    <3>1. csent = 0
      BY <2>2
    <3>2. csent' <= 1
      BY ONLY <1>0, <3>1
    <3> QED
      BY <2>2, <3>2 DEF Down, DownServer
  <2>3. CASE state = "DOWNLOAD_SEGMENT_REQ"
    <3>1. Taken' = Taken
      BY DEF Taken
    <3>2. \A x \in Elements(c2s') : x.t # "abort" => Len(buf) <= Rank(x)
      <4>1. \A k : k = csent \/ k = csent + 1 => csent <= k
        BY ONLY <1>0
      <4>2. \A x \in Elements(c2s') : x.t # "abort" => Rank(x) = csent \/ Rank(x) = csent + 1
        BY <1>1, <1>3
      <4>3. csent = Len(buf)
        BY <2>3
      <4> QED
        BY ONLY <4>1, <4>2, <4>3
    <3> QED
      BY <2>3, <3>1, <3>2 DEF Down, DownServer
  <2> QED
    BY <2>1, <2>2, <2>3 DEF Down, DownServer
<1> QED
  BY <1>4, <1>5, <1>6, <1>7 DEF Down

(* The client has been told that its download is done.                     *)
LEMMA DownloadEnds ==
  ASSUME Down, Extended(Coming', Coming, {}), cstate' = "done", object = Data(ctran, clen),
         UNCHANGED <<c2s, state, toggle, finished, sizeInd, buf, bufOffsetRd, object, ctran, clen,
                     csent, got>>
  PROVE  Down'
<1>1. /\ \A x \in Elements(Coming') : x \in Elements(Coming)
      /\ \A p \in Before(Coming') : p \in Before(Coming)
  BY DEF Extended
<1>2. \A x : Opens(x)' = Opens(x) /\ Fresh(x)' = Fresh(x)
  BY DEF Opens, Fresh
<1>3. Confirmed' => Confirmed
  BY <1>1, <1>2 DEF Confirmed
<1>4. DownClient'
  BY DEF Down, DownClient
<1>5. DownRequests'
  <2>1. \A f \in Elements(c2s) :
          f.t # "abort" => csent <= Rank(f) + 1 /\ (Confirmed' => csent = Rank(f))
    BY <1>3 DEF Down, DownRequests
  <2> QED
    BY <1>2, <2>1 DEF Down, DownRequests
<1>6. DownAnswers'
  <2>1. \A x \in Elements(Coming') :
       /\ x.t \in {"abort", "initOk", "segOk"}
       /\ x.t = "segOk" => csent > 0 /\ x.toggle \in 0 .. 1
    BY <1>1 DEF Down, DownAnswers
  <2>2. \A p \in Before(Coming') : Fresh(p[1]) /\ p[2].t = "segOk" => Fresh(p[2])
    BY <1>1 DEF Down, DownAnswers
  <2> QED
    BY <1>2, <2>1, <2>2 DEF DownAnswers
<1>7. DownServer'
  <2>1. Taken' = Taken
    BY DEF Taken
  <2> QED
    BY <1>3, <2>1 DEF Down, DownServer
<1> QED
  BY <1>4, <1>5, <1>6, <1>7 DEF Down

(* The download was accepted.                                              *)
LEMMA ReceiveInitOkKeeps ==
  ASSUME SdoInv, NEW f, ReceiveInitOk(f)
  PROVE  SdoInv'
<1>1. /\ Receive(f) /\ cstate = "download initiate" /\ f.t = "initOk"
      /\ UNCHANGED <<ctran, clen, csize, got>>
  BY DEF ReceiveInitOk
<1>2. Framed /\ ClientTyped /\ ServerTyped
  BY DEF SdoInv
<1>3. /\ f \in Elements(Coming) /\ Extended(Coming', Coming, {}) /\ s2c # <<>>
      /\ UNCHANGED <<state, toggle, finished, sizeInd, buf, bufOffsetRd, object, txBuff, faults>>
  BY <1>1, <1>2, ReceiveParts
<1>4. Down
  BY <1>1, <1>3 DEF SdoInv, Stale, Up, UpClient
<1>5. CASE clen = 0 /\ cstate' = "done" /\ UNCHANGED <<c2s, csent, ctoggle>>
  <2>1. object = Data(ctran, clen)
    BY <1>1, <1>3, <1>4, <1>5 DEF Down, DownAnswers
  <2>2. Down'
    BY <1>1, <1>3, <1>4, <1>5, <2>1, DownloadEnds
  <2>3. ClientTyped'
    BY <1>1, <1>2, <1>5 DEF ClientTyped, Over
  <2>4. Extended(c2s', c2s, {f})
    BY <1>2, <1>5, SameQueues, Wider
  <2> QED
    BY <1>1, <2>2, <2>3, <2>4, ReceiveKeeps
<1>6. CASE clen # 0 /\ ctoggle' = 0 /\ SendSegment(1)
  <2>1. csent = 0 /\ clen \in Nat
    <3>1. clen \in 0 .. MaxLen /\ csent = 0
      BY <1>1, <1>2, <1>4 DEF ClientTyped, Down, DownClient
    <3> QED
      BY <3>1
  <2>2. /\ csent' = 1 /\ cstate' = "download segment"
        /\ c2s' = Append(c2s, SegmentOf(ctran, clen, 1, 0))
    BY <1>1, <1>6 DEF SendSegment
  <2>3. csent + 1 = 1 /\ csent + 2 = 2 /\ Bit(csent + 2) = 0 /\ csent' = csent + 1
    <3>1. csent + 1 = 1 /\ csent + 2 = 2
      BY ONLY <2>1
    <3> QED
      BY <2>2, <3>1, Bits
  <2> DEFINE r == SegmentOf(ctran, clen, csent + 1, Bit(csent + 2))
  <2>4. Extended(c2s', c2s, {r})
    <3>1. c2s' = Append(c2s, r)
      BY <2>2, <2>3
    <3> QED
      BY <1>2, <3>1, AppendParts DEF Framed
  <2> HIDE DEF r
  <2>5. \A m \in Elements(Coming) : m.t # "segOk"
    BY <1>4, <2>1 DEF Down, DownAnswers
  <2>6. ~Confirmed'
    BY <1>3, <2>5 DEF Confirmed, Fresh, Extended
  <2>7. \A x \in Elements(c2s) : x.t # "abort" => Rank(x) = csent
    BY <1>4, <2>1 DEF Down, DownRequests, Opens, Rank
  <2>8. state # "DOWNLOAD_SEGMENT_RSP"
    BY <1>4, <2>1 DEF Down, DownServer
  <2>9. state = "DOWNLOAD_SEGMENT_REQ" => csent = Len(buf)
    <3>1. buf \in Seq(Items)
      BY <1>2 DEF ServerTyped
    <3>2. Len(buf) \in Nat
      BY <3>1
    <3>3. state = "DOWNLOAD_SEGMENT_REQ" => csent \in {Len(buf), Len(buf) + 1}
      BY <1>4 DEF Down, DownServer
    <3> QED
      BY <2>1, <3>2, <3>3
  <2>10. Down'
    BY <1>1, <1>3, <1>4, <1>6, <2>1, <2>2, <2>3, <2>4, <2>6, <2>7, <2>8, <2>9, SegmentSent DEF r
  <2>11. ClientTyped'
    <3>1. 1 \in 0 .. clen /\ 0 \in 0 .. 1
      BY <1>6, <2>1
    <3> QED
      BY <1>1, <1>2, <1>6, <2>2, <3>1 DEF ClientTyped
  <2> QED
    BY <1>1, <2>4, <2>10, <2>11, ReceiveKeeps
<1> QED
  BY <1>5, <1>6 DEF ReceiveInitOk

(* A segment was confirmed with its toggle bit: the server has it.         *)
LEMMA ReceiveSegOkKeeps ==
  ASSUME SdoInv, NEW f, ReceiveSegOk(f)
  PROVE  SdoInv'
<1>1. /\ Receive(f) /\ cstate = "download segment" /\ f.t = "segOk" /\ f.toggle = ctoggle
      /\ ctoggle' = 1 - ctoggle /\ UNCHANGED <<ctran, clen, csize, got>>
  BY DEF ReceiveSegOk, SegmentConfirmed
<1>2. Framed /\ ClientTyped /\ ServerTyped
  BY DEF SdoInv
<1>3. /\ f \in Elements(Coming) /\ Extended(Coming', Coming, {}) /\ s2c # <<>>
      /\ \A x \in Elements(Coming') : <<f, x>> \in Before(Coming)
      /\ UNCHANGED <<state, toggle, finished, sizeInd, buf, bufOffsetRd, object, txBuff, faults>>
  BY <1>1, <1>2, ReceiveParts
<1>4. Down
  BY <1>1, <1>3 DEF SdoInv, Stale, Up, UpClient
<1>5. csent \in Nat /\ clen \in Nat /\ csent <= clen /\ clen <= MaxLen
  <2>1. clen \in 0 .. MaxLen /\ csent \in 0 .. clen
    BY <1>2 DEF ClientTyped
  <2> QED
    BY <2>1, SdoConstants
<1>6. csent > 0 /\ ctoggle = Bit(csent + 1)
  BY <1>1, <1>4 DEF Down, DownClient
<1>7. Fresh(f) /\ Confirmed
  BY <1>1, <1>3, <1>6 DEF Fresh, Confirmed
<1>8. ctoggle' = Bit(csent + 2) /\ ctoggle' \in 0 .. 1 /\ Bit(csent + 1) # Bit(csent + 2)
  <2>1. \A n \in Nat : Bit(n + 1) = 1 - Bit(n) /\ Bit(n + 2) = Bit(n) /\ Bit(n) \in 0 .. 1
    BY Bits
  <2>2. Bit(csent + 1) = 1 - Bit(csent) /\ Bit(csent + 2) = Bit(csent) /\ Bit(csent) \in 0 .. 1
    BY <1>5, <2>1
  <2>3. ctoggle' = 1 - Bit(csent + 1)
    BY <1>1, <1>6
  <2> QED
    BY ONLY <2>2, <2>3
<1>9. CASE csent = clen /\ cstate' = "done" /\ UNCHANGED <<c2s, csent>>
  <2>1. object = Data(ctran, clen)
    BY <1>4, <1>7, <1>9 DEF Down, DownAnswers
  <2>2. Down'
    BY <1>1, <1>3, <1>4, <1>9, <2>1, DownloadEnds
  <2>3. ClientTyped'
    BY <1>1, <1>2, <1>8, <1>9 DEF ClientTyped, Over
  <2>4. Extended(c2s', c2s, {f})
    BY <1>2, <1>9, SameQueues, Wider
  <2> QED
    BY <1>1, <2>2, <2>3, <2>4, ReceiveKeeps
<1>10. CASE csent # clen /\ SendSegment(csent + 1)
  <2>1. csent' = csent + 1 /\ csent # clen
    BY <1>10 DEF SendSegment
  <2>2. /\ csent' = csent + 1 /\ cstate' = "download segment"
        /\ c2s' = Append(c2s, SegmentOf(ctran, clen, csent + 1, Bit(csent + 2)))
    BY <1>8, <1>10 DEF SendSegment
  <2> DEFINE r == SegmentOf(ctran, clen, csent + 1, Bit(csent + 2))
  <2>4. Extended(c2s', c2s, {r})
    BY <1>2, <2>2, AppendParts DEF Framed
  <2> HIDE DEF r
  <2>5. \A x \in Elements(Coming') : x.t = "segOk" => Fresh(x)
    <3>1. ASSUME NEW x \in Elements(Coming'), x.t = "segOk" PROVE Fresh(x)
      <4>1. <<f, x>> \in Before(Coming) /\ <<f, x>>[1] = f /\ <<f, x>>[2] = x
        BY <1>3
      <4>2. \A p \in Before(Coming) : Fresh(p[1]) /\ p[2].t = "segOk" => Fresh(p[2])
        BY <1>4 DEF Down, DownAnswers
      <4>3. Fresh(<<f, x>>[1]) /\ <<f, x>>[2].t = "segOk"
        BY <1>7, <3>1, <4>1
      <4>4. Fresh(<<f, x>>[2])
        BY <4>1, <4>2, <4>3
      <4> QED
        BY <4>1, <4>4
    <3> QED
      BY <3>1
  <2>6. ~Confirmed'
    <3>1. csent' + 1 = csent + 2
      BY ONLY <1>5, <2>1
    <3> QED
      BY <1>8, <2>5, <3>1 DEF Confirmed, Fresh
  <2>7. \A x \in Elements(c2s) : x.t # "abort" => Rank(x) = csent
    BY <1>4, <1>7 DEF Down, DownRequests
  <2>8. state \notin {"DOWNLOAD_SEGMENT_RSP", "DOWNLOAD_INITIATE_RSP"}
    BY <1>4, <1>7 DEF Down, DownServer
  <2>9. state = "DOWNLOAD_SEGMENT_REQ" => csent = Len(buf)
    BY <1>4, <1>7 DEF Down, DownServer
  <2>10. Down'
    BY <1>1, <1>3, <1>4, <1>5, <1>8, <2>2, <2>4, <2>6, <2>7, <2>8, <2>9, SegmentSent DEF r
  <2>11. ClientTyped'
    <3>1. csent' \in 0 .. clen
      BY ONLY <1>5, <2>1
    <3> QED
      BY <1>1, <1>2, <1>8, <2>2, <3>1 DEF ClientTyped
  <2> QED
    BY <1>1, <2>4, <2>10, <2>11, ReceiveKeeps
<1> QED
  BY <1>9, <1>10 DEF ReceiveSegOk

(* An expedited upload.                                                    *)
LEMMA ReceiveUpExpKeeps ==
  ASSUME SdoInv, NEW f, ReceiveUpExp(f)
  PROVE  SdoInv'
<1>1. /\ Receive(f) /\ cstate = "upload initiate" /\ f.t = "upExp"
      /\ got' = f.data /\ cstate' = "done"
      /\ UNCHANGED <<c2s, ctran, clen, csent, ctoggle, csize>>
  BY DEF ReceiveUpExp
<1>2. Framed /\ ClientTyped /\ Stored
  BY DEF SdoInv
<1>3. /\ f \in Elements(Coming) /\ Extended(Coming', Coming, {}) /\ s2c # <<>>
      /\ UNCHANGED <<state, toggle, finished, sizeInd, buf, bufOffsetRd, object, txBuff, faults>>
  BY <1>1, <1>2, ReceiveParts
<1>4. Up
  BY <1>1, <1>3 DEF SdoInv, Stale, Down, DownClient
<1>5. Short(object) /\ got' = object /\ object' = object
  BY <1>1, <1>3, <1>4 DEF Up, UpAnswers
<1>6. object \in Seq(Items) /\ Len(object) \in Nat
  BY <1>2, ObjectParts
<1>7. Given' = Len(object)
  BY <1>5 DEF Given
<1>8. UpClient'
  <2>1. Given' <= Len(object')
    BY <1>5, <1>6, <1>7
  <2>2. \A i \in 1 .. Given' : got'[i] = object'[i]
    BY <1>5
  <2> QED
    BY <1>1, <1>4, <1>5, <2>1, <2>2 DEF Up, UpClient
<1>9. UpRequests'
  BY <1>1, <1>4, <1>5 DEF Up, UpRequests
<1>10. \A x \in Elements(Coming') : x.t \in {"abort", "upExp"} /\ (x.t = "upExp" => x.data = object)
  BY <1>3, <1>4, <1>5 DEF Up, UpAnswers, Extended
<1>11. UpAnswers'
  <2>1. ~Answered'
    BY <1>10 DEF Answered, Further
  <2>2. \A p \in Before(Coming') : p[1] \in Elements(Coming')
    BY DEF Before
  <2> QED
    BY <1>5, <1>10, <2>1, <2>2 DEF UpAnswers
<1>12. UpServer'
  BY <1>3, <1>4, <1>5 DEF Up, UpServer
<1>13. Up'
  BY <1>8, <1>9, <1>11, <1>12 DEF Up
<1>14. ClientTyped'
  BY <1>1, <1>2, <1>5, <1>6 DEF ClientTyped, Over
<1>15. Extended(c2s', c2s, {f})
  <2>1. Extended(c2s, c2s, {}) /\ c2s' = c2s
    BY <1>1, <1>2, SameQueues
  <2> QED
    BY <2>1, Wider
<1> QED
  BY <1>1, <1>13, <1>14, <1>15, ReceiveKeeps

(* The size of an upload: the first segment is asked for.                  *)
LEMMA ReceiveUpOkKeeps ==
  ASSUME SdoInv, NEW f, ReceiveUpOk(f)
  PROVE  SdoInv'
<1> DEFINE r == [t |-> "upseg", toggle |-> 0]
<1>1. /\ Receive(f) /\ cstate = "upload initiate" /\ f.t = "upOk"
      /\ csize' = f.size /\ ctoggle' = 0 /\ cstate' = "upload segment"
      /\ c2s' = Append(c2s, r)
      /\ UNCHANGED <<ctran, clen, csent, got>>
  BY DEF ReceiveUpOk, AskSegment
<1>2. Framed /\ ClientTyped /\ Stored
  BY DEF SdoInv
<1>3. /\ f \in Elements(Coming) /\ Extended(Coming', Coming, {}) /\ s2c # <<>>
      /\ UNCHANGED <<state, toggle, finished, sizeInd, buf, bufOffsetRd, object, txBuff, faults>>
  BY <1>1, <1>2, ReceiveParts
<1>4. Up
  BY <1>1, <1>3 DEF SdoInv, Stale, Down, DownClient
<1>5. ~Short(object) /\ csize' = Len(object) /\ got = <<>>
  BY <1>1, <1>3, <1>4 DEF Up, UpAnswers, UpClient
<1>6. Len(object) \in Nat /\ Len(object) > 0 /\ Len(object) <= MaxLen
  BY <1>2, <1>5, ObjectParts
<1>7. Given = 0 /\ Given' = 0
  <2>1. Given = Len(<<>>) /\ Given' = Len(<<>>)
    BY <1>1, <1>5 DEF Given
  <2> QED
    BY <2>1
<1>8. r.t = "upseg" /\ r.toggle = 0
  OBVIOUS
<1>9. Extended(c2s', c2s, {r})
  BY <1>1, <1>2, AppendParts DEF Framed
<1> HIDE DEF r
<1>10. \A x : Old(x)' = Old(x) /\ Further(x)' = Further(x)
  BY <1>7 DEF Old, Further
<1>11. ~Old(r)
  BY <1>7, <1>8, Bits DEF Old
<1>12. /\ \A x \in Elements(c2s') : x \in Elements(c2s) \/ x = r
       /\ \A p \in Before(c2s') : p \in Before(c2s) \/ p[2] = r
       /\ \A x \in Elements(Coming') : x \in Elements(Coming)
       /\ \A p \in Before(Coming') : p \in Before(Coming)
  BY <1>3, <1>9 DEF Extended
<1>13. (Answered' => Answered) /\ (Asked => Asked')
  BY <1>8, <1>10, <1>11, <1>12 DEF Answered, Asked
<1>14. UpClient'
  <2>1. ctoggle' = Bit(Given') /\ Given' < Len(object) /\ Given' <= Len(object)
    <3>1. Bit(0) = 0
      BY Bits
    <3>2. ctoggle' = Bit(Given')
      BY <1>1, <1>7, <3>1
    <3>3. Given' < Len(object) /\ Given' <= Len(object)
      BY <1>6, <1>7
    <3> QED
      BY <3>2, <3>3
  <2>2. \A i \in 1 .. 0 : got'[i] = object'[i]
    OBVIOUS
  <2> QED
    BY <1>1, <1>3, <1>4, <1>5, <1>7, <2>1, <2>2 DEF Up, UpClient
<1>15. UpRequests'
  <2>1. \A x \in Elements(c2s') :
          /\ x.t \in {"abort", "upinit", "upseg"}
          /\ x.t = "upseg" => x.toggle \in 0 .. 1
    BY <1>4, <1>8, <1>12 DEF Up, UpRequests
  <2>2. \A x \in Elements(c2s') : ~Old(x)
    BY <1>4, <1>5, <1>7, <1>11, <1>12 DEF Up, UpRequests
  <2>3. \A p \in Before(c2s') :
          p[1].t = "upseg" => p[2].t # "upinit" /\ (Old(p[2]) => Old(p[1]))
    BY <1>4, <1>5, <1>8, <1>11, <1>12 DEF Up, UpRequests
  <2> QED
    BY <1>3, <1>7, <1>10, <2>1, <2>2, <2>3 DEF UpRequests
<1>16. UpAnswers'
  <2>1. Answered' => Asked'
    BY <1>4, <1>13 DEF Up, UpAnswers
  <2> QED
    BY <1>3, <1>4, <1>7, <1>12, <2>1 DEF Up, UpAnswers
<1>17. UpServer'
  BY <1>3, <1>4, <1>7, <1>13 DEF Up, UpServer
<1>18. Up'
  BY <1>14, <1>15, <1>16, <1>17 DEF Up
<1>19. ClientTyped'
  <2>1. csize' \in 0 .. MaxLen /\ 0 \in 0 .. 1
    BY <1>5, <1>6, SdoConstants
  <2> QED
    BY <1>1, <1>2, <2>1 DEF ClientTyped
<1> QED
  BY <1>1, <1>9, <1>18, <1>19, ReceiveKeeps

(* The answer that is taken is the next item, and no older one is coming.  *)
LEMMA NextItem ==
  ASSUME SdoInv, NEW f, Receive(f), UploadTaken(f)
  PROVE  /\ Up /\ ~Short(object) /\ Answered /\ Asked /\ Given \in Nat
         /\ Given + 1 \in 1 .. Len(object) /\ f.item = object[Given + 1]
         /\ f.last = (Given + 1 = Len(object))
         /\ \A x \in Elements(Coming') :
              /\ x \in Elements(Coming) /\ ~(x.t = "upData" /\ x.item[3] = Given + 2)
              /\ x.t = "upData" => x = [t |-> "upData", toggle |-> Bit(Given + 2),
                                        last |-> Given + 1 = Len(object),
                                        item |-> object[Given + 1]]
<1>1. cstate = "upload segment" /\ f.t = "upData" /\ f.toggle = ctoggle
  BY DEF UploadTaken
<1>2. Framed /\ ClientTyped /\ Stored
  BY DEF SdoInv
<1>3. /\ f \in Elements(Coming) /\ Extended(Coming', Coming, {}) /\ s2c # <<>>
      /\ \A x \in Elements(Coming') : <<f, x>> \in Before(Coming)
  BY <1>2, ReceiveParts
<1>4. Up
  BY <1>1, <1>3 DEF SdoInv, Stale, Down, DownClient
<1>5. Given \in Nat
  <2>1. got \in Seq(Items)
    BY <1>2 DEF ClientTyped
  <2> QED
    BY <2>1 DEF Given
<1>6. ~Short(object) /\ ctoggle = Bit(Given)
  BY <1>1, <1>4 DEF Up, UpClient
<1>7. PICK i \in {Given, Given + 1} :
        /\ i \in 1 .. Len(object)
        /\ f = [t |-> "upData", toggle |-> Bit(i + 1), last |-> i = Len(object), item |-> object[i]]
  BY <1>1, <1>3, <1>4 DEF Up, UpAnswers
<1>8. f.toggle = Bit(i + 1) /\ f.last = (i = Len(object)) /\ f.item = object[i]
  BY <1>7
<1>9. i = Given + 1
  <2>1. Bit(i + 1) = Bit(Given)
    BY <1>1, <1>6, <1>8
  <2>2. Bit(Given) # Bit(Given + 1)
    BY <1>5, Bits
  <2>3. i # Given
    BY <2>1, <2>2
  <2> QED
    BY <1>7, <2>3
<1>10. f.item[3] = Given + 1
  BY <1>2, <1>6, <1>7, <1>8, <1>9, ObjectParts
<1>11. Answered /\ Asked
  BY <1>1, <1>3, <1>4, <1>10 DEF Answered, Further, Up, UpAnswers
<1>12. ASSUME NEW x \in Elements(Coming')
       PROVE  /\ x \in Elements(Coming) /\ ~(x.t = "upData" /\ x.item[3] = Given + 2)
              /\ x.t = "upData" => x = [t |-> "upData", toggle |-> Bit(Given + 2),
                                        last |-> Given + 1 = Len(object),
                                        item |-> object[Given + 1]]
  <2>1. x \in Elements(Coming)
    BY <1>3 DEF Extended
  <2>2. CASE x.t = "upData"
    <3>1. PICK j \in {Given, Given + 1} :
            /\ j \in 1 .. Len(object)
            /\ x = [t |-> "upData", toggle |-> Bit(j + 1), last |-> j = Len(object),
                    item |-> object[j]]
      BY <1>4, <2>1, <2>2 DEF Up, UpAnswers
    <3>2. x.item = object[j]
      BY <3>1
    <3>3. x.item[3] = j
      BY <1>2, <1>6, <3>1, <3>2, ObjectParts
    <3>4. f.item[3] <= x.item[3]
      <4>1. <<f, x>> \in Before(Coming) /\ <<f, x>>[1] = f /\ <<f, x>>[2] = x
        BY <1>3
      <4>2. \A p \in Before(Coming) :
              p[1].t = "upData" /\ p[2].t = "upData" => p[1].item[3] <= p[2].item[3]
        BY <1>4 DEF Up, UpAnswers
      <4>3. <<f, x>>[1].t = "upData" /\ <<f, x>>[2].t = "upData"
        BY <1>1, <2>2, <4>1
      <4>4. <<f, x>>[1].item[3] <= <<f, x>>[2].item[3]
        BY ONLY <4>1, <4>2, <4>3
      <4> QED
        BY <4>1, <4>4
    <3>5. Given + 1 <= j
      BY <1>10, <3>3, <3>4
    <3>6. j = Given + 1 /\ j + 1 = Given + 2 /\ j # Given + 2
      <4>1. j \in {Given, Given + 1}
        BY <3>1
      <4> QED
        BY ONLY <1>5, <3>5, <4>1
    <3>7. x = [t |-> "upData", toggle |-> Bit(Given + 2), last |-> Given + 1 = Len(object),
               item |-> object[Given + 1]]
      BY <3>1, <3>6
    <3> QED
      BY <2>1, <3>3, <3>6, <3>7
  <2>3. CASE x.t # "upData"
    BY <2>1, <2>3
  <2> QED
    BY <2>2, <2>3
<1> QED
  BY <1>4, <1>5, <1>6, <1>7, <1>8, <1>9, <1>11, <1>12

(* The client has got the next item: the answers that are coming are now   *)
(* copies of its last one.                                                 *)
LEMMA ItemTaken ==
  ASSUME SdoInv, NEW f, Receive(f), UploadTaken(f), got' = Append(got, f.item),
         UNCHANGED <<csent, clen, ctran>>,
         NEW r, r.t = "upseg", r.toggle = Bit(Given + 1), Extended(c2s', c2s, {r}), UpClient'
  PROVE  Up'
<1>1. /\ Up /\ ~Short(object) /\ Answered /\ Asked /\ Given \in Nat
      /\ Given + 1 \in 1 .. Len(object) /\ f.item = object[Given + 1]
      /\ \A x \in Elements(Coming') :
           /\ x \in Elements(Coming) /\ ~(x.t = "upData" /\ x.item[3] = Given + 2)
           /\ x.t = "upData" => x = [t |-> "upData", toggle |-> Bit(Given + 2),
                                     last |-> Given + 1 = Len(object), item |-> object[Given + 1]]
  BY NextItem
<1>2. /\ UNCHANGED <<state, toggle, finished, sizeInd, buf, bufOffsetRd, object>>
      /\ Extended(Coming', Coming, {})
  BY ReceiveParts DEF SdoInv
<1>3. Given' = Given + 1
  <2>1. got \in Seq(Items)
    BY DEF SdoInv, ClientTyped
  <2>2. object \in Seq(Items)
    BY ObjectParts DEF SdoInv
  <2>3. f.item \in Items
    BY <1>1, <2>2
  <2> QED
    BY <2>1, <2>3 DEF Given
<1>4. Given' + 1 = Given + 2 /\ Given' # 0 /\ Given' \in Nat
  BY ONLY <1>1, <1>3
<1>5. ~Answered'
  BY <1>1, <1>4 DEF Answered, Further
<1>6. /\ \A x \in Elements(c2s') : x \in Elements(c2s) \/ x = r
      /\ \A p \in Before(c2s') : p[2] = r \/ p[2] \in Elements(c2s)
      /\ \A p \in Before(c2s') : p[1] \in Elements(c2s) \/ p[1] = r
      /\ \A p \in Before(c2s') : p[2] = r \/ p[1] \in Elements(c2s)
  BY DEF Extended, Before
<1>7. ~Old(r)'
  BY <1>3 DEF Old
<1>8. \A x \in Elements(c2s) : x.t = "upseg" => Old(x)'
  <2>1. Bit(Given) # Bit(Given + 1)
    BY <1>1, Bits
  <2> QED
    BY <1>1, <1>3, <2>1 DEF Asked, Old
<1>9. \A x \in Elements(c2s') : x.t # "upinit"
  BY <1>1, <1>6 DEF Asked
<1>10. UpRequests'
  <2>1. \A x \in Elements(c2s') :
          /\ x.t \in {"abort", "upinit", "upseg"}
          /\ x.t = "upseg" => x.toggle \in 0 .. 1
    <3>1. Bit(Given + 1) \in 0 .. 1
      <4>1. Given + 1 \in Nat
        BY <1>1
      <4> QED
        BY <4>1, Bits
    <3> QED
      BY <1>1, <1>6, <3>1 DEF Up, UpRequests
  <2>2. \A p \in Before(c2s') : p[2] \in Elements(c2s')
    BY DEF Before
  <2>3. \A p \in Before(c2s') :
          p[1].t = "upseg" => p[2].t # "upinit" /\ (Old(p[2])' => Old(p[1])')
    BY <1>6, <1>7, <1>8, <1>9, <2>2
  <2> QED
    BY <1>4, <1>9, <2>1, <2>3 DEF UpRequests
<1>11. UpAnswers'
  <2>1. ASSUME NEW x \in Elements(Coming'), x.t = "upData"
        PROVE  /\ ~Short(object')
               /\ \E i \in {Given', Given' + 1} :
                    /\ i \in 1 .. Len(object')
                    /\ x = [t |-> "upData", toggle |-> Bit(i + 1), last |-> i = Len(object'),
                            item |-> object'[i]]
    <3>1. x = [t |-> "upData", toggle |-> Bit(Given' + 1), last |-> Given' = Len(object'),
               item |-> object'[Given']]
      BY <1>1, <1>2, <1>3, <1>4, <2>1
    <3>2. Given' \in 1 .. Len(object') /\ ~Short(object')
      BY <1>1, <1>2, <1>3
    <3> QED
      BY <3>1, <3>2
  <2>2. \A x \in Elements(Coming') :
       /\ x.t \in {"abort", "upExp", "upOk", "upData"}
       /\ x.t = "upExp" => Short(object') /\ x.data = object'
       /\ x.t = "upOk" => ~Short(object') /\ x.size = Len(object')
    BY <1>1, <1>2 DEF Up, UpAnswers
  <2>3. \A p \in Before(Coming') :
          p[1].t = "upData" /\ p[2].t = "upData" => p[1].item[3] <= p[2].item[3]
    BY <1>1, <1>2 DEF Up, UpAnswers, Extended
  <2> QED
    BY <1>5, <2>1, <2>2, <2>3 DEF UpAnswers
<1>12. UpServer'
  <2>1. state \in {"IDLE", "ABORT"} \/ (state = "UPLOAD_SEGMENT_REQ" /\ bufOffsetRd = Given + 1)
    BY <1>1 DEF Up, UpServer
  <2>2. CASE state \in {"IDLE", "ABORT"}
    BY <1>2, <2>2 DEF UpServer
  <2>3. CASE state = "UPLOAD_SEGMENT_REQ" /\ bufOffsetRd = Given + 1
    <3>1. buf = object /\ toggle = Bit(bufOffsetRd) /\ bufOffsetRd < Len(object)
      BY <1>1, <2>3 DEF Up, UpServer
    <3> QED
      BY <1>1, <1>2, <1>3, <1>5, <2>3, <3>1 DEF UpServer
  <2> QED
    BY <2>1, <2>2, <2>3
<1> QED
  BY <1>10, <1>11, <1>12 DEF Up

(* The next item is taken, and is the last one if the size says so.        *)
LEMMA ReceiveUpDataKeeps ==
  ASSUME SdoInv, NEW f, ReceiveUpData(f)
  PROVE  SdoInv'
<1> DEFINE r == [t |-> "upseg", toggle |-> Bit(Given + 1)]
<1>1. /\ Receive(f) /\ UploadTaken(f) /\ ctoggle' = 1 - ctoggle /\ got' = Append(got, f.item)
      /\ UNCHANGED <<ctran, clen, csent, csize>>
  BY DEF ReceiveUpData
<1>2. Framed /\ ClientTyped /\ Stored
  BY DEF SdoInv
<1>3. UNCHANGED object
  BY <1>1, <1>2, ReceiveParts
<1>4. /\ Up /\ ~Short(object) /\ Given \in Nat
      /\ Given + 1 \in 1 .. Len(object) /\ f.item = object[Given + 1]
      /\ f.last = (Given + 1 = Len(object))
  BY <1>1, NextItem
<1>5. /\ cstate = "upload segment" /\ csize = Len(object) /\ ctoggle = Bit(Given) /\ csent = 0
      /\ \A i \in 1 .. Given : got[i] = object[i]
  BY <1>1, <1>4 DEF UploadTaken, Up, UpClient
<1>6. object \in Seq(Items) /\ got \in Seq(Items) /\ Len(object) \in Nat
  BY <1>2, ObjectParts DEF ClientTyped
<1>7. /\ got' \in Seq(Items) /\ Len(got') = Given + 1 /\ Given' = Given + 1
      /\ \A i \in 1 .. Given : got'[i] = got[i]
      /\ got'[Given + 1] = object[Given + 1]
  <2>1. f.item \in Items
    BY <1>4, <1>6
  <2> QED
    BY <1>1, <1>4, <1>6, <2>1 DEF Given
<1>8. \A i \in 1 .. Given + 1 : got'[i] = object[i]
  <2> SUFFICES ASSUME NEW i \in 1 .. Given + 1 PROVE got'[i] = object[i]
    OBVIOUS
  <2>1. i = Given + 1 \/ i \in 1 .. Given
    BY <1>4
  <2> QED
    BY <1>5, <1>7, <2>1
<1>9. ctoggle' = Bit(Given + 1) /\ ctoggle' \in 0 .. 1
  <2>1. \A n \in Nat : Bit(n + 1) = 1 - Bit(n) /\ Bit(n) \in 0 .. 1
    BY Bits
  <2>2. Bit(Given + 1) = 1 - Bit(Given) /\ Bit(Given) \in 0 .. 1
    BY <1>4, <2>1
  <2>3. ctoggle' = 1 - Bit(Given)
    BY <1>1, <1>5
  <2> QED
    BY ONLY <2>2, <2>3
<1>10. ~(Len(got') > csize \/ (f.last /\ Len(got') < csize))
  <2>1. Len(got') = Given + 1 /\ csize = Len(object)
    BY <1>5, <1>7
  <2>2. Given \in Nat /\ Given + 1 \in 1 .. Len(object) /\ Len(object) \in Nat
    BY <1>4, <1>6
  <2>3. ~(Len(got') > csize)
    BY ONLY <2>1, <2>2
  <2>4. f.last => ~(Len(got') < csize)
    <3>1. CASE Given + 1 = Len(object)
      <4>1. ~(Len(got') < csize)
        BY ONLY <2>1, <2>2, <3>1
      <4> QED
        BY <4>1
    <3>2. CASE Given + 1 # Len(object)
      BY <1>4, <3>2
    <3> QED
      BY <3>1, <3>2
  <2> QED
    BY <2>3, <2>4
<1>11. IF f.last THEN cstate' = "done" /\ UNCHANGED c2s
       ELSE cstate' = "upload segment" /\ c2s' = Append(c2s, r)
  BY <1>9, <1>10 DEF ReceiveUpData, AskSegment
<1>12. Extended(c2s', c2s, {r})
  <2>1. Extended(c2s, c2s, {r}) /\ Extended(Append(c2s, r), c2s, {r})
    BY <1>2, SameParts, AppendParts DEF Framed
  <2> QED
    BY <1>4, <1>11, <2>1
<1>13. ClientTyped'
  BY <1>1, <1>2, <1>4, <1>7, <1>9, <1>11 DEF ClientTyped, Over
<1>14. UpClient'
  <2>1. Given' <= Len(object') /\ \A i \in 1 .. Given' : got'[i] = object'[i]
    BY <1>3, <1>4, <1>7, <1>8
  <2>2. CASE Given + 1 = Len(object)
    <3>1. got' = object
      <4>1. Len(got') = Len(object) /\ \A i \in 1 .. Len(object) : got'[i] = object[i]
        BY <1>7, <1>8, <2>2
      <4> QED
        BY <1>6, <1>7, <4>1, SeqEqual
    <3>2. cstate' = "done"
      BY <1>4, <1>11, <2>2
    <3> QED
      BY <1>1, <1>3, <1>5, <2>1, <3>1, <3>2 DEF UpClient
  <2>3. CASE Given + 1 # Len(object)
    <3>1. cstate' = "upload segment"
      BY <1>4, <1>11, <2>3
    <3>2. Given' < Len(object')
      BY <1>3, <1>4, <1>6, <1>7, <2>3
    <3>3. ctoggle' = Bit(Given') /\ csize' = Len(object') /\ ~Short(object')
      BY <1>1, <1>3, <1>4, <1>5, <1>7, <1>9
    <3> QED
      BY <1>1, <1>5, <2>1, <3>1, <3>2, <3>3 DEF UpClient
  <2> QED
    BY <2>2, <2>3
<1>15. r.t = "upseg" /\ r.toggle = Bit(Given + 1)
  OBVIOUS
<1> HIDE DEF r
<1>16. Up'
  BY <1>1, <1>12, <1>14, <1>15, ItemTaken
<1> QED
  BY <1>1, <1>12, <1>13, <1>16, ReceiveKeeps

-----------------------------------------------------------------------------
(* The start: a download that failed before it began.                      *)
LEMMA SdoInitial == SdoInit => SdoInv
<1> SUFFICES ASSUME SdoInit PROVE SdoInv
  OBVIOUS
<1>1. /\ state = "IDLE" /\ toggle = 0 /\ finished = FALSE /\ sizeInd = 0
      /\ buf = <<>> /\ bufOffsetRd = 0 /\ object = Data(0, 0)
      /\ txBuff = None /\ c2s = <<>> /\ s2c = <<>>
      /\ cstate = "failed" /\ ctran = 0 /\ clen = 0 /\ csent = 0 /\ ctoggle = 0 /\ csize = 0
      /\ got = <<>> /\ faults = 0
  BY DEF SdoInit
<1>2. 0 \in 0 .. MaxLen /\ 0 \in Transfers /\ 0 \in 0 .. MaxFaults /\ 0 \in 0 .. 1 /\ 0 \in 0 .. 0
  BY SdoConstants DEF Transfers
<1>3. buf \in Seq(Items) /\ Len(buf) <= BufferSize /\ bufOffsetRd \in 0 .. Len(buf)
  <2>1. <<>> \in Seq(Items) /\ Len(<<>>) = 0 /\ Len(<<>>) <= BufferSize
    BY EmptyTyped
  <2> QED
    BY <1>1, <1>2, <2>1
<1>4. ServerTyped
  BY <1>1, <1>2, <1>3 DEF ServerTyped
<1>5. ClientTyped
  BY <1>1, <1>2, EmptyTyped DEF ClientTyped, Over
<1>6. Coming = <<>>
  BY <1>1 DEF Coming
<1>7. Framed
  BY <1>1, EmptyParts DEF Framed
<1>8. Stored
  <2>1. Whole(object)
    BY <1>1, <1>2 DEF Whole
  <2>2. Len(Data(0, 0)) = 1
    BY <1>2, DataParts
  <2>3. 1 <= BufferSize
    BY SdoConstants
  <2>4. Len(object) = 1
    BY <1>1, <2>2
  <2>5. Len(object) <= BufferSize
    BY ONLY <2>3, <2>4
  <2> QED
    BY <2>1, <2>5 DEF Stored
<1>9. Down
  <2>1. ~Confirmed
    BY <1>6, EmptyParts DEF Confirmed
  <2>2. DownClient
    BY <1>1 DEF DownClient
  <2>3. DownRequests
    BY <1>1, EmptyParts DEF DownRequests
  <2>4. DownAnswers
    BY <1>6, <2>1, EmptyParts DEF DownAnswers
  <2>5. DownServer
    BY <1>1 DEF DownServer
  <2> QED
    BY <2>2, <2>3, <2>4, <2>5 DEF Down
<1> QED
  BY <1>1, <1>2, <1>4, <1>5, <1>7, <1>8, <1>9 DEF SdoInv

(* A step of something else.                                               *)
LEMMA SdoStutters == SdoInv /\ UNCHANGED sdoVars => SdoInv'
<1> SUFFICES ASSUME SdoInv, UNCHANGED sdoVars PROVE SdoInv'
  OBVIOUS
<1>0. Framed /\ ServerTyped /\ faults \in 0 .. MaxFaults
  BY DEF SdoInv
<1>1. UNCHANGED <<state, toggle, finished, sizeInd, buf, bufOffsetRd, object, txBuff, c2s, s2c,
                  cstate, ctran, clen, csent, ctoggle, csize, got, faults, Coming>>
  BY DEF sdoVars, server, client, Coming
<1>2. Extended(c2s', c2s, Aborts) /\ Extended(Coming', Coming, Aborts)
  BY <1>0, <1>1, SameQueues, Wider
<1>3. Dull
  BY <1>1, <1>2 DEF Dull
<1>4. ServerTyped' /\ s2c' \in Seq(Elements(s2c'))
  BY <1>0, <1>1 DEF ServerTyped, Framed
<1>5. Stale => s2c' = <<>> /\ txBuff' = None
  BY <1>1 DEF Stale
<1> QED
  BY <1>0, <1>1, <1>3, <1>4, <1>5, DullKeeps

(* Every step keeps the invariant.                                         *)
LEMMA SdoKept == SdoInv /\ [SdoNext]_sdoVars => SdoInv'
<1> SUFFICES ASSUME SdoInv, [SdoNext]_sdoVars PROVE SdoInv'
  OBVIOUS
<1>0. faults \in 0 .. MaxFaults
  BY DEF SdoInv
<1>1. CASE ServerReceive
  <2>1. CASE RxAbort
    BY <2>1, RxAbortKeeps
  <2>2. ASSUME NEW f, \/ RxTooEarly(f) \/ RxDownloadInitiate(f) \/ RxExpedited(f)
                      \/ RxUploadInitiate(f) \/ RxDownloadSegment(f) \/ RxUploadSegment(f)
                      \/ RxUnexpected(f)
        PROVE  SdoInv'
    BY <2>2, UnexpectedKeeps, RxDownloadInitiateKeeps, RxExpeditedKeeps, RxUploadInitiateKeeps,
       RxDownloadSegmentKeeps, RxUploadSegmentKeeps
  <2> QED
    BY <1>1, <2>1, <2>2 DEF ServerReceive
<1>2. CASE ServerAnswer
  BY <1>2, DownloadInitiateAnswered, DownloadSegmentAnswered, UploadInitiateAnswered,
     UploadSegmentAnswered, AnswerAbortKeeps DEF ServerAnswer
<1>3. CASE BufferSent
  BY <1>3, BufferSentKeeps
<1>4. CASE ClientReceive
  <2>1. ASSUME NEW f, \/ ReceiveNothing(f) \/ ReceiveAbort(f) \/ ReceiveInitOk(f) \/ ReceiveSegOk(f)
                      \/ ReceiveUpExp(f) \/ ReceiveUpOk(f) \/ ReceiveUpData(f)
                      \/ ReceiveUnexpected(f)
        PROVE  SdoInv'
    BY <2>1, ClientFailsKeeps, ReceiveInitOkKeeps, ReceiveSegOkKeeps, ReceiveUpExpKeeps,
       ReceiveUpOkKeeps, ReceiveUpDataKeeps
  <2> QED
    BY <1>4, <2>1 DEF ClientReceive
<1>5. ASSUME ServerTimesOut \/ ClientTimesOut, faults' \in 0 .. MaxFaults
      PROVE  SdoInv'
  BY <1>5, ServerStopsKeeps, ClientTimesOutKeeps
<1>6. CASE DueTimeout
  BY <1>0, <1>5, <1>6 DEF DueTimeout
<1>7. CASE Request
  <2>1. Quiet /\ faults' \in 0 .. MaxFaults
    BY <1>0, <1>7 DEF Request
  <2> QED
    BY <1>7, <2>1, StartDownloadKeeps, StartUploadKeeps DEF Request
<1>8. CASE Faults
  <2>1. CASE LoseRequest \/ LoseResponse \/ DoubleRequest
    BY <2>1, BusKeeps
  <2>2. CASE Late
    <3>1. faults' \in 0 .. MaxFaults
      BY <1>0, <2>2, FaultCounted DEF Late
    <3> QED
      BY <1>5, <2>2, <3>1 DEF Late
  <2>3. CASE TooLong
    <3>1. Quiet /\ faults' \in 0 .. MaxFaults
      BY <1>0, <2>3, FaultCounted DEF TooLong
    <3>2. \A n \in BufferSize + 1 .. MaxLen : n \in 0 .. MaxLen
      BY SdoConstants
    <3> QED
      BY <2>3, <3>1, <3>2, StartDownloadKeeps DEF TooLong
  <2>4. CASE ServerReset
    <3>1. faults' \in 0 .. MaxFaults
      BY <1>0, <2>4, FaultCounted DEF ServerReset
    <3> QED
      BY <2>4, <3>1, ServerStopsKeeps
  <2> QED
    BY <1>8, <2>1, <2>2, <2>3, <2>4 DEF Faults
<1>9. CASE UNCHANGED sdoVars
  BY <1>9, SdoStutters
<1> QED
  BY <1>1, <1>2, <1>3, <1>4, <1>6, <1>7, <1>8, <1>9 DEF SdoNext

(* So it always holds.                                                     *)
LEMMA SdoInvariant == SdoSpec => []SdoInv
<1> QED
  BY SdoInitial, SdoKept, PTL DEF SdoSpec

(* The types, for any lengths and any buffer: what is in the buffer fits,  *)
(* for it is emptied before it could overflow (CO_SDOserver.c:940).        *)
THEOREM SdoTyped == SdoSpec => []SdoTypeOK
<1>1. SdoInv => SdoTypeOK
  <2> SUFFICES ASSUME SdoInv PROVE SdoTypeOK
    OBVIOUS
  <2>1. buf \in Seq(Items)
    BY DEF SdoInv, ServerTyped
  <2>2. \A i \in DOMAIN buf : buf[i] \in Items
    BY <2>1
  <2> QED
    BY <2>2 DEF SdoInv, ServerTyped, ClientTyped, SdoTypeOK
<1> QED
  BY <1>1, SdoInvariant, PTL

(* WholeWrites: whatever is lost, doubled or late, and for any sizes, the  *)
(* object holds the data of one transfer, whole and in order               *)
(* (validateAndWriteToOD).                                                 *)
THEOREM SdoWholeWrites == SdoSpec => []WholeWrites
<1>1. SdoInv => WholeWrites
  BY DEF SdoInv, Stored, WholeWrites
<1> QED
  BY <1>1, SdoInvariant, PTL

(* ConfirmedIsTrue: a master that is told that a transfer is done is told  *)
(* the truth, for any lengths, any buffer, and any number of faults        *)
(* (CO_SDOserver_process and the client of the same stack).                *)
THEOREM SdoConfirmed == SdoSpec => []ConfirmedIsTrue
<1>1. SdoInv => ConfirmedIsTrue
  <2> SUFFICES ASSUME SdoInv, cstate = "done"
               PROVE  IF got = <<>> THEN object = Data(ctran, clen) ELSE got = object
    BY DEF ConfirmedIsTrue
  <2>1. ~Stale
    BY DEF Stale
  <2>2. CASE Down
    BY <2>2 DEF Down, DownClient
  <2>3. CASE Up
    <3>1. got = object
      BY <2>3 DEF Up, UpClient
    <3>2. object # <<>>
      <4>1. Len(object) > 0
        BY ObjectParts DEF SdoInv
      <4> QED
        BY <4>1
    <3> QED
      BY <3>1, <3>2
  <2> QED
    BY <2>1, <2>2, <2>3 DEF SdoInv
<1> QED
  BY <1>1, SdoInvariant, PTL
=============================================================================
