------------------------------- MODULE Eeprom -------------------------------
(***************************************************************************)
(* The EEPROM driver (dev/eeprom.c) on the polled I2C master               *)
(* (common/i2c/i2c_common.c), with the chip. A call runs to its end in the *)
(* main loop; what goes on beside it is the chip's write cycle, and every  *)
(* wait for the bus may end with an acknowledge, without one, or in a      *)
(* time-out. The node may be reset anywhere, with or without losing power. *)
(*                                                                         *)
(* The acknowledge of a byte is seen by the wait after it; both are one    *)
(* step here. A byte is its index in the data of the write that brought it.*)
(***************************************************************************)
EXTENDS Integers, Sequences

CONSTANTS
  Size,        (* EEPROM_SIZE, the limit the driver checks                 *)
  PageSize,    (* EEP_PAGE_SIZE                                            *)
  BlockSize,   (* cells one address byte can name: 256                     *)
  Blocks,      (* blocks the device address can name: 4                    *)
  MaxLen,      (* longest write asked for                                  *)
  MaxPolls,    (* polls for the end of a write cycle: 100                  *)
  Blank, Garbage

ChipSize == BlockSize * Blocks
Cells    == 0 .. ChipSize - 1
Bytes    == 0 .. MaxLen - 1

ASSUME GeometryAssumption ==
  /\ Size \in Nat /\ MaxLen \in Nat \ {0} /\ MaxPolls \in Nat \ {0}
  /\ PageSize \in Nat \ {0} /\ BlockSize \in Nat \ {0} /\ Blocks \in Nat \ {0}
  /\ BlockSize % PageSize = 0
  /\ Blank # Garbage /\ {Blank, Garbage} \cap Bytes = {}

VARIABLES
  mem,        (* the chip's cells                                          *)
  latch,      (* its page buffer: the cells loaded, with their bytes       *)
  ptr,        (* its address counter                                       *)
  cycle,      (* it is in a write cycle                                    *)
  bus,        (* "held" between START and STOP                             *)
  step,       (* what the running call waits for; "idle": no call          *)
  op,         (* the call: kind, addr and size                             *)
  p_data,     (* bytes of it in pages that are written                     *)
  sent,       (* bytes of the current page or bytes read so far            *)
  polls,
  data,       (* what a read has put into the caller's buffer              *)
  res,        (* how the last call ended: "ok", "error"; "none"            *)
  timedOut,   (* history: a wait after START has timed out since the reset *)
  owner       (* history: the write whose bytes are in the cycle           *)

chip == <<mem, latch, ptr, cycle, owner>>
call == <<op, p_data, sent, polls, data>>
vars == <<chip, call, bus, step, res, timedOut>>

NoBytes == [a \in {} |-> 0]
Writes(o) == o.kind = "write"
NoCall == [kind |-> "none", addr |-> 0, size |-> 0]

Init ==
  /\ mem = [a \in Cells |-> Blank]
  /\ latch = NoBytes /\ ptr = 0 /\ cycle = FALSE
  /\ bus = "free" /\ step = "idle" /\ res = "none"
  /\ op = NoCall /\ owner = NoCall
  /\ p_data = 0 /\ sent = 0 /\ polls = 0 /\ data = <<>>
  /\ timedOut = FALSE

-----------------------------------------------------------------------------
(* The chip.                                                               *)
CycleEnds ==
  /\ cycle
  /\ cycle' = FALSE /\ latch' = NoBytes
  /\ mem' = [a \in Cells |-> IF a \in DOMAIN latch THEN latch[a] ELSE mem[a]]
  /\ owner' = NoCall
  /\ UNCHANGED <<ptr, call, bus, step, res, timedOut>>

(* A byte is loaded; the counter goes round within the page.               *)
Load(b) ==
  /\ latch' = [a \in DOMAIN latch \cup {ptr} |-> IF a = ptr THEN b ELSE latch[a]]
  /\ ptr' = (ptr - (ptr % PageSize)) + ((ptr + 1) % PageSize)
  /\ UNCHANGED <<mem, cycle, owner>>

(* STOP: what has been loaded is now written.                              *)
Stop ==
  /\ bus' = "free"
  /\ IF DOMAIN latch # {} /\ ~cycle
     THEN cycle' = TRUE /\ owner' = op
     ELSE UNCHANGED <<cycle, owner>>
  /\ UNCHANGED <<mem, latch, ptr>>

-----------------------------------------------------------------------------
(* How a call ends. A missing acknowledge is answered with STOP; a time-out*)
(* leaves the bus as it is. The buffer of a failed read is not relied on.  *)
Ends(o, r, buffer) ==
  /\ step' = "idle" /\ res' = r
  /\ op' = o /\ data' = buffer
  /\ p_data' = 0 /\ sent' = 0 /\ polls' = 0

Fails == Ends(op, "error", <<>>)

(* Faulty variant: no STOP.                                                *)
NotAcknowledgedHeld == Fails /\ UNCHANGED <<chip, bus, timedOut>>

NotAcknowledged == Stop /\ Fails /\ UNCHANGED timedOut

TimesOut == Fails /\ timedOut' = TRUE /\ UNCHANGED <<chip, bus>>

Goes(s) == step' = s /\ UNCHANGED <<res, timedOut>>

(* eeprom_read, eeprom_write: a request beyond the end is refused.         *)
Requests == [kind : {"read"}, addr : 0 .. Size, size : 0 .. ChipSize]
              \cup [kind : {"write"}, addr : 0 .. Size, size : 0 .. MaxLen]

Call(o) ==
  /\ step = "idle"
  /\ o.addr + o.size <= ChipSize \/ o.addr + o.size > Size
  /\ IF o.addr + o.size > Size
     THEN Ends(o, "error", <<>>)
     ELSE /\ step' = "start" /\ res' = "none"
          /\ op' = o /\ data' = <<>>
          /\ UNCHANGED <<p_data, sent, polls>>
  /\ UNCHANGED <<chip, bus, timedOut>>

(* eeprom_write: a page at a time. Faulty variants: all at once; always up *)
(* to the page's end.                                                      *)
Remain == op.size - p_data

PageBytesAll == Remain

PageBytes ==
  LET remain_to_page_end == PageSize - ((op.addr + p_data) % PageSize)
  IN IF remain_to_page_end > Remain THEN Remain ELSE remain_to_page_end

(* i2c_mem_write and i2c_mem_read: wait for the bus, START, device address *)
(* with the block, address byte.                                           *)
Start ==
  /\ step = "start"
  /\ IF bus = "held"
     THEN Fails /\ UNCHANGED <<chip, bus, timedOut>>
     ELSE /\ bus' = "held"
          /\ latch' = (IF cycle THEN latch ELSE NoBytes)
          /\ \/ Goes("addr") /\ UNCHANGED call
             \/ Fails /\ timedOut' = TRUE
          /\ UNCHANGED <<mem, ptr, cycle, owner>>

Address ==
  /\ step = "addr"
  /\ \/ ~cycle /\ Goes("mem") /\ UNCHANGED <<chip, call, bus>>
     \/ NotAcknowledged
     \/ TimesOut

MemAddress ==
  /\ step = "mem"
  /\ \/ /\ LET addr == op.addr + p_data
           IN ptr' = ((addr \div BlockSize) % Blocks) * BlockSize + (addr % BlockSize)
        /\ Goes(IF Writes(op) THEN "data" ELSE "restart")
        /\ UNCHANGED <<mem, latch, cycle, owner, call, bus>>
     \/ NotAcknowledged
     \/ TimesOut

(* i2c_mem_write: the bytes of the page, and STOP.                         *)
SendByte ==
  /\ step = "data" /\ sent < PageBytes
  /\ \/ /\ Load(p_data + sent)
        /\ sent' = sent + 1
        /\ UNCHANGED <<op, p_data, polls, data, bus, step, res, timedOut>>
     \/ NotAcknowledged
     \/ TimesOut

PageSent ==
  /\ step = "data" /\ sent = PageBytes
  /\ \/ Stop /\ Goes("poll") /\ UNCHANGED call
     \/ TimesOut

(* The page is finished: the next one, or the end.                         *)
NextPage ==
  IF p_data + sent = op.size
  THEN Ends(op, "ok", <<>>)
  ELSE /\ p_data' = p_data + sent /\ sent' = 0 /\ polls' = 0
       /\ step' = "start"
       /\ UNCHANGED <<op, data, res>>

(* Faulty variant: the write cycle is not awaited.                         *)
PollUnawaited ==
  /\ step = "poll"
  /\ NextPage /\ UNCHANGED <<chip, bus, timedOut>>

(* eeprom_wait_write_finish and i2c_is_device_ready: the chip acknowledges *)
(* when its cycle is over. Whatever the answer, STOP releases the bus; the *)
(* waits for START and for the bus after STOP may time out.                *)
PollFails ==
  /\ IF polls + 1 = MaxPolls THEN Fails
     ELSE polls' = polls + 1 /\ UNCHANGED <<op, p_data, sent, data, step, res>>
  /\ UNCHANGED chip

Poll ==
  /\ step = "poll"
  /\ \/ bus = "free" /\ ~cycle /\ NextPage /\ UNCHANGED <<chip, bus, timedOut>>
     \/ bus = "free" /\ PollFails /\ UNCHANGED <<bus, timedOut>>
     \/ bus' = "held" /\ PollFails /\ timedOut' = TRUE

(* i2c_mem_read: START again and the device address for reading. A single  *)
(* byte is received after STOP, the last two or three around it.           *)
Restart ==
  /\ step = "restart"
  /\ \/ ~cycle /\ op.size > 1 /\ Goes("rx") /\ UNCHANGED <<chip, call, bus>>
     \/ ~cycle /\ op.size = 1 /\ Stop /\ Goes("rx") /\ UNCHANGED call
     \/ ~cycle /\ op.size = 0 /\ Stop /\ Ends(op, "ok", <<>>) /\ UNCHANGED timedOut
     \/ NotAcknowledged
     \/ TimesOut

Received(n) == data \o [i \in 1 .. n |-> mem[(ptr + i - 1) % ChipSize]]

Advance(n) == ptr' = (ptr + n) % ChipSize /\ UNCHANGED <<mem, latch, cycle, owner>>

ReceiveBytes ==
  /\ step = "rx" /\ op.size - sent > 3
  /\ \/ \E n \in 1 .. 2 :
          /\ Advance(n) /\ sent' = sent + n /\ data' = Received(n)
          /\ UNCHANGED <<op, p_data, polls, bus, step, res, timedOut>>
     \/ TimesOut

ReceiveLast ==
  /\ step = "rx" /\ op.size - sent \in 1 .. 3
  /\ \/ /\ Advance(op.size - sent) /\ Ends(op, "ok", Received(op.size - sent))
        /\ bus' = "free"
        /\ UNCHANGED timedOut
     \/ TimesOut

-----------------------------------------------------------------------------
(* A reset of the node and i2c_init: the call is forgotten. The chip drops what  *)
(* has not been stopped; without power a cycle ends with each of its cells *)
(* old, new or neither.                                                    *)
Reset ==
  /\ Ends(NoCall, "none", <<>>) /\ bus' = "free" /\ timedOut' = FALSE
  /\ UNCHANGED ptr

NodeReset ==
  /\ Reset
  /\ latch' = (IF cycle THEN latch ELSE NoBytes)
  /\ UNCHANGED <<mem, cycle, owner>>

PowerLoss ==
  /\ Reset
  /\ cycle' = FALSE /\ latch' = NoBytes /\ owner' = NoCall
  /\ IF cycle
     THEN \E torn \in SUBSET DOMAIN latch, old \in SUBSET DOMAIN latch :
            mem' = [a \in Cells |-> IF a \in torn THEN Garbage
                                    ELSE IF a \in DOMAIN latch \ old THEN latch[a] ELSE mem[a]]
     ELSE UNCHANGED mem

Next ==
  \/ \E o \in Requests : Call(o)
  \/ Start \/ Address \/ MemAddress \/ SendByte \/ PageSent \/ Poll
  \/ Restart \/ ReceiveBytes \/ ReceiveLast
  \/ CycleEnds \/ NodeReset \/ PowerLoss

Spec == Init /\ [][Next]_vars

-----------------------------------------------------------------------------
(* A write changes no cell it was not asked to, and each to its own byte,  *)
(* across pages and blocks, when it is cut off by a missing acknowledge,   *)
(* and when its cycle ends in a later call or in a loss of power.          *)
OnlyAsked ==
  [][\A a \in Cells : mem'[a] # mem[a] =>
       /\ Writes(owner)
       /\ a \in owner.addr .. owner.addr + owner.size - 1
       /\ mem'[a] \in {a - owner.addr, Garbage}]_vars

(* A call that reports success has done its work: a write has put its bytes*)
(* into the cells, and not only into the page buffer; a read has returned  *)
(* the cells.                                                              *)
SuccessIsTrue ==
  res = "ok" =>
    IF Writes(op)
    THEN ~cycle /\ \A i \in 0 .. op.size - 1 : mem[op.addr + i] = i
    ELSE data = [i \in 1 .. op.size |-> mem[op.addr + i - 1]]

(* However a call ends, the bus is released, unless a wait for it has timed*)
(* out: only then later calls find it busy, until the node is reset.            *)
Released == step = "idle" /\ bus = "held" => timedOut
=============================================================================
