---------------------------- MODULE Eeprom_proofs ----------------------------
(***************************************************************************)
(* Theorems about Eeprom: the three properties of its run, for any size of *)
(* the chip, its pages and its blocks, any length of a call and any number *)
(* of polls.                                                               *)
(*                                                                         *)
(* What makes a success true is that the chip's page buffer and its address*)
(* counter follow the driver's own counters, although either can be cut off*)
(* from the other by a missing acknowledge, a time-out or a reset.         *)
(***************************************************************************)
EXTENDS Eeprom, SequenceTheorems, TLAPS

(* The steps of a call between START and STOP. Outside of them the bus is  *)
(* held only after a time-out, also while a write waits for the chip.      *)
Transfer == {"addr", "mem", "data", "restart", "rx"}

BusInv == bus = "held" /\ step \notin Transfer => timedOut = TRUE

Values == Bytes \cup {Blank, Garbage}
Calls == Requests \cup {NoCall}

(* What the proofs need of the types.                                      *)
Types ==
  /\ mem \in [Cells -> Values]
  /\ p_data \in Nat /\ sent \in Nat
  /\ op \in Calls /\ owner \in Calls

(* The call that runs and how far it has come.                             *)
Called ==
  /\ step \in {"start", "poll", "idle"} \cup Transfer
  /\ step # "idle" => /\ op \in Requests
                      /\ op.addr + op.size <= ChipSize
                      /\ p_data + sent <= op.size
  /\ step \in {"start", "addr", "mem", "restart"} => sent = 0
  /\ step \in {"start", "addr", "mem", "restart", "data", "poll"} => data = <<>>
  /\ step = "idle" => p_data = 0 /\ sent = 0
  /\ ~Writes(op) => p_data = 0
  /\ step \in {"data", "poll"} => Writes(op)
  /\ step \in {"restart", "rx"} => ~Writes(op)

(* Where a write cycle can be under way. One that an earlier call left     *)
(* behind is over before the chip answers to its address, and only a first *)
(* page can meet it.                                                       *)
Cycling ==
  /\ step \in {"mem", "data", "restart", "rx"} => ~cycle
  /\ step \in {"start", "addr"} /\ cycle => p_data = 0
  /\ step = "poll" /\ cycle => owner = op

(* The chip's address counter: the next cell of the call, within the page. *)
Pointing ==
  /\ step = "data" /\ sent < PageBytes => ptr = op.addr + p_data + sent
  /\ step \in {"restart", "rx"} /\ sent < op.size => ptr = op.addr + sent

(* The bytes loaded are those of the write that will store them, in the    *)
(* cells it was asked to write.                                            *)
Asked(o, a, b) == Writes(o) /\ a \in o.addr .. o.addr + o.size - 1 /\ b = a - o.addr
Holds(o, l) == \A a \in DOMAIN l : Asked(o, a, l[a])

Loaded ==
  /\ cycle => Holds(owner, latch)
  /\ ~cycle /\ step \in Transfer => Holds(op, latch)

Page == op.addr + p_data .. op.addr + p_data + sent - 1

(* The cells of the current page: none is missing in the page buffer       *)
(* before the cycle, nor in the memory after it, as the write waits for    *)
(* it.                                                                     *)
Gathered ==
  /\ step = "data" => Page \subseteq DOMAIN latch
  /\ step = "poll" /\ cycle => Page \subseteq DOMAIN latch
  /\ step = "poll" /\ ~cycle => \A a \in Page : mem[a] = a - op.addr

(* The pages that are finished, and what has been read.                    *)
Written ==
  step # "idle" /\ Writes(op) => \A a \in op.addr .. op.addr + p_data - 1 : mem[a] = a - op.addr

ReadBack == step = "rx" => data = [i \in 1 .. sent |-> mem[op.addr + i - 1]]

Reported == res = "ok" => step = "idle" /\ ~cycle

Sound ==
  /\ Types /\ Called /\ Cycling /\ Pointing /\ Loaded
  /\ Gathered /\ Written /\ ReadBack /\ Reported /\ SuccessIsTrue

-----------------------------------------------------------------------------
(* What is asked for.                                                      *)
LEMMA CallTypes ==
  /\ NoCall \in Calls
  /\ \A o \in Calls : o.addr \in Nat /\ o.size \in Nat /\ (Writes(o) => o.size <= MaxLen)
<1>1. NoCall \in Calls /\ NoCall.addr = 0 /\ NoCall.size = 0 /\ NoCall.kind = "none"
  BY DEF Calls, NoCall
<1>2. Size \in Nat /\ ChipSize \in Nat /\ MaxLen \in Nat
  BY GeometryAssumption DEF ChipSize
<1>3. ASSUME NEW o \in Requests
      PROVE  o.addr \in Nat /\ o.size \in Nat /\ (Writes(o) => o.size <= MaxLen)
  BY <1>2 DEF Requests, Writes
<1> QED BY <1>1, <1>2, <1>3 DEF Calls, Writes

(* A byte that was asked for is a byte.                                    *)
LEMMA AskedInValues ==
  ASSUME NEW o \in Calls, NEW a, NEW b, Asked(o, a, b) PROVE b \in Values
  BY CallTypes, GeometryAssumption DEF Asked, Values, Bytes

(* A call that ended without success, and a reset, leave nothing but the   *)
(* cells and the cycle to speak of.                                        *)
LEMMA EndedSound ==
  ASSUME mem' \in [Cells -> Values], op' \in Calls, owner' \in Calls,
         step' = "idle", res' # "ok", p_data' = 0, sent' = 0,
         cycle' => Holds(owner', latch')
  PROVE  Sound'
<1>1. Types' /\ Called' /\ Cycling' /\ Pointing'
  BY DEF Types, Called, Cycling, Pointing
<1>2. Loaded'
  BY DEF Loaded, Transfer
<1>3. Gathered' /\ Written' /\ ReadBack' /\ Reported' /\ SuccessIsTrue'
  BY DEF Gathered, Written, ReadBack, Reported, SuccessIsTrue
<1> QED BY <1>1, <1>2, <1>3 DEF Sound

(* STOP gives the page buffer to the call that has filled it.              *)
LEMMA StopSound ==
  ASSUME Sound, step \in Transfer, Stop
  PROVE  owner' \in Calls /\ (cycle' => Holds(owner', latch'))
<1>1. CASE DOMAIN latch # {} /\ ~cycle
  <2>1. owner' = op /\ latch' = latch
    BY <1>1 DEF Stop
  <2> QED BY <1>1, <2>1 DEF Sound, Types, Loaded
<1>2. CASE ~(DOMAIN latch # {} /\ ~cycle)
  <2>1. owner' = owner /\ latch' = latch /\ cycle' = cycle
    BY <1>2 DEF Stop
  <2> QED BY <2>1 DEF Sound, Types, Loaded
<1> QED BY <1>1, <1>2

(* The two ways in which a transfer fails.                                 *)
LEMMA FailureSound ==
  ASSUME Sound, step \in Transfer, NotAcknowledged \/ TimesOut PROVE Sound'
<1>1. op' = op /\ step' = "idle" /\ res' = "error" /\ p_data' = 0 /\ sent' = 0
  BY DEF NotAcknowledged, TimesOut, Fails, Ends
<1>2. mem' = mem
  BY DEF NotAcknowledged, TimesOut, Stop, chip
<1>3. owner' \in Calls /\ (cycle' => Holds(owner', latch'))
  <2>1. CASE NotAcknowledged
    BY <2>1, StopSound DEF NotAcknowledged
  <2>2. CASE TimesOut
    BY <2>2 DEF TimesOut, chip, Sound, Types, Loaded
  <2> QED BY <2>1, <2>2
<1>4. op \in Calls /\ mem \in [Cells -> Values]
  BY DEF Sound, Types
<1> QED BY <1>1, <1>2, <1>3, <1>4, EndedSound

(* eeprom_read, eeprom_write: the call is made.                            *)
LEMMA CallSound == ASSUME Sound, NEW o \in Requests, Call(o) PROVE Sound'
<1>1. step = "idle" /\ UNCHANGED <<mem, latch, ptr, cycle, owner>> /\ o \in Calls
  BY DEF Call, chip, Calls
<1>2. CASE o.addr + o.size > Size
  <2>1. op' = o /\ step' = "idle" /\ res' = "error" /\ p_data' = 0 /\ sent' = 0
    BY <1>2 DEF Call, Ends
  <2> QED BY <1>1, <2>1, EndedSound DEF Sound, Types, Loaded
<1>3. CASE ~(o.addr + o.size > Size)
  <2>1. /\ step' = "start" /\ res' = "none" /\ op' = o /\ data' = <<>>
        /\ p_data' = p_data /\ sent' = sent /\ p_data = 0 /\ sent = 0
        /\ o.addr + o.size <= ChipSize
    BY <1>1, <1>3 DEF Call, Sound, Called
  <2>2. o.addr \in Nat /\ o.size \in Nat
    BY <1>1, CallTypes
  <2>3. Types' /\ Called' /\ Cycling' /\ Pointing'
    BY <1>1, <2>1, <2>2 DEF Sound, Types, Called, Cycling, Pointing, Transfer
  <2>4. Loaded'
    BY <1>1, <2>1 DEF Sound, Loaded, Transfer
  <2>5. Gathered' /\ Written' /\ ReadBack' /\ Reported' /\ SuccessIsTrue'
    BY <1>1, <2>1, <2>2 DEF Gathered, Written, ReadBack, Reported, SuccessIsTrue
  <2> QED BY <2>3, <2>4, <2>5 DEF Sound
<1> QED BY <1>2, <1>3

-----------------------------------------------------------------------------
(* Division with remainder: what it is, that it is unique, and how a sum   *)
(* that stays within one page or one block is divided.                     *)
LEMMA DivMod ==
  ASSUME NEW P \in Nat \ {0}, NEW x \in Nat
  PROVE  x = P * (x \div P) + (x % P) /\ x \div P \in Nat /\ x % P \in 0 .. P - 1
OBVIOUS

LEMMA Mul ==
  ASSUME NEW P \in Nat \ {0}, NEW k \in Int, k >= 1
  PROVE  P * k >= P
OBVIOUS

LEMMA Uniq ==
  ASSUME NEW P \in Nat \ {0}, NEW q \in Int, NEW r \in 0 .. P - 1,
         NEW k \in Int, NEW t \in 0 .. P - 1, P * q + r = P * k + t
  PROVE  q = k /\ r = t
<1>1. P * (q - k) = t - r
  OBVIOUS
<1>2. CASE q - k >= 1
  BY <1>1, <1>2, Mul
<1>3. CASE k - q >= 1
  <2>1. P * (k - q) = r - t
    BY <1>1
  <2> QED BY <2>1, <1>3, Mul
<1>4. CASE k = q
  BY <1>4
<1> QED BY <1>2, <1>3, <1>4

LEMMA ModUnique ==
  ASSUME NEW P \in Nat \ {0}, NEW q \in Int, NEW r \in 0 .. P - 1,
         NEW y \in Nat, y = P * q + r
  PROVE  y % P = r /\ y \div P = q
<1>1. y = P * (y \div P) + (y % P) /\ y \div P \in Nat /\ y % P \in 0 .. P - 1
  BY DivMod
<1> DEFINE k == y \div P
           t == y % P
<1> HIDE DEF k, t
<1>2. k \in Int /\ t \in 0 .. P - 1 /\ P * q + r = P * k + t
  BY <1>1 DEF k, t
<1>5. r = t /\ q = k
  BY <1>2, Uniq
<1> QED BY <1>5 DEF t, k

LEMMA ModAdd2 ==
  ASSUME NEW P \in Nat \ {0}, NEW A \in Nat, NEW s \in Nat, (A % P) + s < P
  PROVE  (A + s) % P = (A % P) + s
<1> DEFINE q == A \div P
           r == A % P
<1>1. A = P * q + r /\ q \in Nat /\ r \in 0 .. P - 1
  BY DivMod
<1> HIDE DEF q, r
<1>2. r + s \in 0 .. P - 1 /\ A + s \in Nat /\ A + s = P * q + (r + s) /\ q \in Int
  BY <1>1 DEF r
<1>3. (A + s) % P = r + s
  <2> DEFINE y == A + s
             t == r + s
  <2> HIDE DEF y, t
  <2>1. y \in Nat /\ t \in 0 .. P - 1 /\ y = P * q + t /\ q \in Int
    BY <1>2 DEF y, t
  <2>2. y % P = t
    BY <2>1, ModUnique
  <2> QED BY <2>2 DEF y, t
<1> QED BY <1>3 DEF r
(* The block in the device address and the cell in the address byte make   *)
(* up the address.                                                         *)
LEMMA BlockAddress ==
  ASSUME NEW B \in Nat \ {0}, NEW n \in Nat \ {0}, NEW x \in Nat, x < B * n
  PROVE  ((x \div B) % n) * B + (x % B) = x
<1> DEFINE q == x \div B
           r == x % B
<1>1. x = B * q + r /\ q \in Nat /\ r \in 0 .. B - 1
  BY DivMod
<1> HIDE DEF q, r
<1>2. q < n
  <2>1. CASE q >= n
    <3>1. B * q >= B * n
      BY <1>1, <2>1
    <3> QED BY <1>1, <3>1
  <2> QED BY <1>1, <2>1
<1>3. q % n = q
  BY <1>1, <1>2
<1> QED BY <1>1, <1>3 DEF q, r

-----------------------------------------------------------------------------
(* A page's bytes are no more than what is left, and end at its end.       *)
LEMMA PageBytesBound ==
  ASSUME Sound, step # "idle"
  PROVE  /\ PageBytes \in Int /\ PageBytes <= op.size - p_data
         /\ PageBytes <= PageSize - ((op.addr + p_data) % PageSize)
         /\ op.addr \in Nat /\ op.size \in Nat
<1>1. op.addr \in Nat /\ op.size \in Nat /\ p_data \in Nat
  BY CallTypes DEF Sound, Types
<1>2. (op.addr + p_data) % PageSize \in Int
  BY <1>1, GeometryAssumption
<1> DEFINE r == PageSize - ((op.addr + p_data) % PageSize)
<1>3. r \in Int /\ PageBytes = IF r > op.size - p_data THEN op.size - p_data ELSE r
  BY <1>2, GeometryAssumption DEF PageBytes, Remain
<1> HIDE DEF r
<1>4. PageBytes \in Int /\ PageBytes <= op.size - p_data /\ PageBytes <= r
  BY <1>1, <1>3
<1> QED BY <1>1, <1>4 DEF r

(* The wait for the bus, and START.                                        *)
LEMMA StartSound == ASSUME Sound, Start PROVE Sound'
<1>1. step = "start" /\ op \in Calls /\ mem \in [Cells -> Values] /\ owner \in Calls
  BY DEF Start, Sound, Types
<1>2. UNCHANGED <<mem, ptr, cycle, owner, op>> /\ (cycle => latch' = latch)
  BY DEF Start, chip, Fails, Ends, call
<1>3. cycle' => Holds(owner', latch')
  BY <1>2 DEF Sound, Loaded
<1>4. CASE Fails
  BY <1>1, <1>2, <1>3, <1>4, EndedSound DEF Fails, Ends
<1>5. CASE ~Fails
  <2>1. UNCHANGED <<call, res>> /\ step' = "addr" /\ latch' = (IF cycle THEN latch ELSE NoBytes)
    BY <1>5 DEF Start, Goes
  <2>2. Types' /\ Called' /\ Cycling' /\ Pointing'
    BY <1>1, <1>2, <2>1 DEF Sound, Types, Called, Cycling, Pointing, Transfer, call
  <2>3. Loaded'
    <3>1. ~cycle => DOMAIN latch' = {}
      BY <2>1 DEF NoBytes
    <3> QED BY <1>2, <1>3, <3>1 DEF Loaded, Holds
  <2>4. Gathered' /\ Written' /\ ReadBack' /\ Reported' /\ SuccessIsTrue'
    BY <1>1, <1>2, <2>1 DEF Sound, Gathered, Written, ReadBack, Reported, SuccessIsTrue, call
  <2> QED BY <2>2, <2>3, <2>4 DEF Sound
<1> QED BY <1>4, <1>5

(* The device address: a chip in its write cycle does not acknowledge.     *)
LEMMA AddressSound == ASSUME Sound, Address PROVE Sound'
<1>1. step = "addr" /\ step \in Transfer
  BY DEF Address, Transfer
<1>2. CASE NotAcknowledged \/ TimesOut
  BY <1>1, <1>2, FailureSound
<1>3. CASE ~cycle /\ Goes("mem") /\ UNCHANGED <<chip, call, bus>>
  <2>1. ~cycle /\ step' = "mem" /\ UNCHANGED <<chip, call, res>>
    BY <1>3 DEF Goes
  <2>2. Types' /\ Called' /\ Cycling' /\ Pointing'
    BY <1>1, <2>1 DEF Sound, Types, Called, Cycling, Pointing, Transfer, chip, call
  <2>3. Loaded'
    BY <1>1, <2>1 DEF Sound, Loaded, Transfer, chip, call
  <2>4. Gathered' /\ Written' /\ ReadBack' /\ Reported' /\ SuccessIsTrue'
    BY <1>1, <2>1 DEF Sound, Gathered, Written, ReadBack, Reported, SuccessIsTrue, chip, call
  <2> QED BY <2>2, <2>3, <2>4 DEF Sound
<1> QED BY <1>2, <1>3 DEF Address

(* The address byte sets the chip's address counter to the call's cell.    *)
LEMMA MemAddressSound == ASSUME Sound, MemAddress PROVE Sound'
<1>1. step = "mem" /\ step \in Transfer
  BY DEF MemAddress, Transfer
<1>2. CASE NotAcknowledged \/ TimesOut
  BY <1>1, <1>2, FailureSound
<1>3. CASE ~(NotAcknowledged \/ TimesOut)
  <2> DEFINE addr == op.addr + p_data
  <2>1. /\ ptr' = ((addr \div BlockSize) % Blocks) * BlockSize + (addr % BlockSize)
        /\ step' = IF Writes(op) THEN "data" ELSE "restart"
        /\ UNCHANGED <<mem, latch, cycle, owner, call, res>>
    BY <1>3 DEF MemAddress, Goes
  <2>2. /\ op.addr \in Nat /\ op.size \in Nat /\ p_data \in Nat /\ sent = 0 /\ data = <<>>
        /\ op.addr + op.size <= ChipSize /\ PageBytes <= op.size - p_data /\ PageBytes \in Int
        /\ ~Writes(op) => p_data = 0
    BY <1>1, PageBytesBound DEF Sound, Types, Called
  <2>3. addr < ChipSize => ptr' = addr
    <3>1. addr \in Nat
      BY <2>2
    <3> HIDE DEF addr
    <3>2. addr < BlockSize * Blocks =>
            ((addr \div BlockSize) % Blocks) * BlockSize + (addr % BlockSize) = addr
      BY <3>1, BlockAddress, GeometryAssumption
    <3> QED BY <2>1, <3>2 DEF ChipSize
  <2>4. UNCHANGED <<op, p_data, sent, data, PageBytes>>
    BY <2>1 DEF call, PageBytes, Remain
  <2>5. ChipSize \in Nat
    BY GeometryAssumption DEF ChipSize
  <2>6. Pointing'
    <3>1. step' = "data" /\ sent < PageBytes => ptr' = op.addr + p_data + sent
      BY <2>2, <2>3, <2>5
    <3>2. step' = "restart" /\ sent < op.size => ptr' = op.addr + sent
      BY <2>1, <2>2, <2>3, <2>5
    <3>3. step' \in {"data", "restart"}
      BY <2>1
    <3> QED BY <2>4, <3>1, <3>2, <3>3 DEF Pointing
  <2>7. Types' /\ Called' /\ Cycling'
    BY <1>1, <2>1, <2>4 DEF Sound, Types, Called, Cycling, Transfer
  <2>8. Loaded'
    BY <1>1, <2>1, <2>4 DEF Sound, Loaded, Transfer
  <2>9. Gathered' /\ Written' /\ ReadBack' /\ Reported' /\ SuccessIsTrue'
    BY <1>1, <2>1, <2>2, <2>4 DEF Sound, Gathered, Page, Written, ReadBack, Reported, SuccessIsTrue
  <2> QED BY <2>6, <2>7, <2>8, <2>9 DEF Sound
<1> QED BY <1>2, <1>3

(* The counter does not go round before the last byte of the page, so      *)
(* every byte is loaded into its own cell.                                 *)
LEMMA SendByteSound == ASSUME Sound, SendByte PROVE Sound'
<1>1. step = "data" /\ step \in Transfer /\ sent < PageBytes
  BY DEF SendByte, Transfer
<1>2. CASE NotAcknowledged \/ TimesOut
  BY <1>1, <1>2, FailureSound
<1>3. CASE ~(NotAcknowledged \/ TimesOut)
  <2>1. /\ latch' = [a \in DOMAIN latch \cup {ptr} |-> IF a = ptr THEN p_data + sent ELSE latch[a]]
        /\ ptr' = (ptr - (ptr % PageSize)) + ((ptr + 1) % PageSize)
        /\ sent' = sent + 1
        /\ UNCHANGED <<mem, cycle, owner, op, p_data, data, step, res>>
    BY <1>3 DEF SendByte, Load
  <2>2. /\ op.addr \in Nat /\ op.size \in Nat /\ p_data \in Nat /\ sent \in Nat /\ Writes(op)
        /\ PageBytes <= op.size - p_data /\ PageBytes \in Int
        /\ PageBytes <= PageSize - ((op.addr + p_data) % PageSize)
        /\ ptr = op.addr + p_data + sent /\ ~cycle
    BY <1>1, PageBytesBound DEF Sound, Types, Called, Pointing, Cycling
  <2>3. PageBytes' = PageBytes
    BY <2>1 DEF PageBytes, Remain
  <2>4. sent + 1 < PageBytes => ptr' = ptr + 1
    <3> DEFINE A == op.addr + p_data
               r == A % PageSize
    <3>1. A \in Nat /\ r \in Nat /\ PageSize \in Nat \ {0}
      BY <2>2, GeometryAssumption
    <3>2. PageBytes <= PageSize - r /\ ptr = A + sent
      BY <2>2
    <3>3. ASSUME sent + 1 < PageBytes
          PROVE  ptr % PageSize = r + sent /\ (ptr + 1) % PageSize = r + (sent + 1)
      <4>1. r + sent < PageSize /\ r + (sent + 1) < PageSize
        <5> HIDE DEF r, A
        <5> QED BY <2>2, <3>1, <3>2, <3>3
      <4>2. (A + sent) % PageSize = r + sent /\ (A + (sent + 1)) % PageSize = r + (sent + 1)
        <5>1. sent \in Nat /\ sent + 1 \in Nat
          BY <2>2
        <5>2. (A % PageSize) + sent < PageSize /\ (A % PageSize) + (sent + 1) < PageSize
          BY <4>1
        <5> HIDE DEF A
        <5>3. (A + sent) % PageSize = (A % PageSize) + sent
          BY <3>1, <5>1, <5>2, ModAdd2
        <5>4. (A + (sent + 1)) % PageSize = (A % PageSize) + (sent + 1)
          BY <3>1, <5>1, <5>2, ModAdd2
        <5> QED BY <5>3, <5>4
      <4>3. A + (sent + 1) = ptr + 1
        BY <2>2
      <4> QED BY <3>2, <4>2, <4>3
    <3> HIDE DEF A, r
    <3> QED BY <2>1, <2>2, <3>1, <3>2, <3>3
  <2>5. Types' /\ Called' /\ Cycling'
    BY <1>1, <2>1, <2>2 DEF Sound, Types, Called, Cycling, Transfer
  <2>6. Pointing'
    BY <1>1, <2>1, <2>2, <2>3, <2>4 DEF Pointing
  <2>7. Loaded'
    <3>1. DOMAIN latch' = DOMAIN latch \cup {ptr}
      BY <2>1
    <3>2. Asked(op, ptr, p_data + sent)
      BY <1>1, <2>2 DEF Asked
    <3>3. \A a \in DOMAIN latch : Asked(op, a, latch[a])
      BY <1>1, <2>2 DEF Sound, Loaded, Holds
    <3>4. ASSUME NEW a \in DOMAIN latch' PROVE Asked(op, a, latch'[a])
      <4>1. CASE a = ptr
        BY <2>1, <3>1, <3>2, <4>1
      <4>2. CASE a # ptr
        BY <2>1, <3>1, <3>3, <4>2
      <4> QED BY <4>1, <4>2
    <3> QED BY <2>1, <2>2, <3>4 DEF Loaded, Holds
  <2>8. Gathered'
    <3>1. Page \subseteq DOMAIN latch
      BY <1>1 DEF Sound, Gathered
    <3>2. Page' = op.addr + p_data .. op.addr + p_data + sent
      BY <2>1, <2>2 DEF Page
    <3>3. \A a \in op.addr + p_data .. op.addr + p_data + sent : a \in Page \/ a = ptr
      <4>1. op.addr \in Nat /\ p_data \in Nat /\ sent \in Nat /\ ptr = op.addr + p_data + sent
        BY <2>2
      <4> QED BY <4>1 DEF Page
    <3>4. DOMAIN latch' = DOMAIN latch \cup {ptr}
      BY <2>1
    <3>5. Page' \subseteq DOMAIN latch'
      <4> HIDE DEF Page
      <4> QED BY <3>1, <3>2, <3>3, <3>4
    <3>6. step' = "data"
      BY <1>1, <2>1
    <3> QED BY <3>5, <3>6 DEF Gathered
  <2>9. Written' /\ ReadBack' /\ Reported' /\ SuccessIsTrue'
    BY <1>1, <2>1, <2>2 DEF Sound, Written, ReadBack, Reported, SuccessIsTrue
  <2> QED BY <2>5, <2>6, <2>7, <2>8, <2>9 DEF Sound
<1> QED BY <1>2, <1>3

(* STOP after the bytes of a page.                                         *)
LEMMA PageSentSound == ASSUME Sound, PageSent PROVE Sound'
<1>1. step = "data" /\ step \in Transfer /\ ~cycle /\ Writes(op)
  BY DEF PageSent, Transfer, Sound, Cycling, Called
<1>2. CASE TimesOut
  BY <1>1, <1>2, FailureSound
<1>3. CASE ~TimesOut
  <2>1. Stop /\ step' = "poll" /\ UNCHANGED <<mem, latch, call, res>>
    BY <1>3 DEF PageSent, Goes, Stop
  <2>2. owner' \in Calls /\ (cycle' => Holds(owner', latch'))
    BY <1>1, <2>1, StopSound
  <2>3. Page \subseteq DOMAIN latch /\ Page' = Page
    BY <1>1, <2>1 DEF Sound, Gathered, Page, call
  <2>4. cycle' => owner' = op'
    BY <1>1, <2>1 DEF Stop, call
  <2>5. ~cycle' => DOMAIN latch = {}
    BY <1>1, <2>1 DEF Stop
  <2>6. Types' /\ Called' /\ Cycling' /\ Pointing'
    BY <1>1, <2>1, <2>2, <2>4 DEF Sound, Types, Called, Cycling, Pointing, Transfer, call
  <2>7. Loaded'
    BY <2>1, <2>2 DEF Loaded, Transfer
  <2>8. Gathered'
    BY <2>1, <2>3, <2>5 DEF Gathered
  <2>9. Written' /\ ReadBack' /\ Reported' /\ SuccessIsTrue'
    BY <1>1, <2>1 DEF Sound, Written, ReadBack, Reported, SuccessIsTrue, call
  <2> QED BY <2>6, <2>7, <2>8, <2>9 DEF Sound
<1> QED BY <1>2, <1>3 DEF PageSent

(* The page just finished joins those before it.                           *)
LEMMA PagesJoin ==
  ASSUME Sound, step = "poll", ~cycle
  PROVE  /\ op.addr \in Nat /\ op.size \in Nat /\ p_data \in Nat /\ sent \in Nat
         /\ \A a \in op.addr .. op.addr + (p_data + sent) - 1 : mem[a] = a - op.addr
<1>1. op.addr \in Nat /\ op.size \in Nat /\ p_data \in Nat /\ sent \in Nat
  BY CallTypes DEF Sound, Types
<1>2. \A a \in op.addr .. op.addr + p_data - 1 : mem[a] = a - op.addr
  BY DEF Sound, Written, Called
<1>3. \A a \in Page : mem[a] = a - op.addr
  BY DEF Sound, Gathered
<1>4. ASSUME NEW a \in op.addr .. op.addr + (p_data + sent) - 1
      PROVE  a \in op.addr .. op.addr + p_data - 1 \/ a \in Page
  BY <1>1 DEF Page
<1> QED BY <1>1, <1>2, <1>3, <1>4

(* The wait for the cycle: the page is in the memory when the chip         *)
(* answers.                                                                *)
LEMMA PollSound == ASSUME Sound, Poll PROVE Sound'
<1>1. /\ step = "poll" /\ Writes(op) /\ op \in Requests /\ data = <<>>
      /\ op.addr + op.size <= ChipSize /\ p_data + sent <= op.size
  BY DEF Poll, Sound, Called
<1>2. UNCHANGED <<mem, latch, ptr, cycle, owner>>
  BY DEF Poll, PollFails, chip
<1>3. op' = op
  BY DEF Poll, PollFails, Fails, NextPage, Ends
<1>4. op \in Calls /\ owner \in Calls /\ mem \in [Cells -> Values] /\ p_data \in Nat /\ sent \in Nat
  BY DEF Sound, Types
<1>5. cycle' => Holds(owner', latch')
  BY <1>2 DEF Sound, Loaded
<1>6. CASE Fails
  BY <1>2, <1>3, <1>4, <1>5, <1>6, EndedSound DEF Fails, Ends
<1>7. CASE PollFails /\ ~Fails
  <2>1. UNCHANGED <<op, p_data, sent, data, step, res>>
    BY <1>7 DEF PollFails
  <2>2. Types' /\ Called' /\ Cycling' /\ Pointing'
    BY <1>1, <1>2, <1>4, <2>1 DEF Sound, Types, Called, Cycling, Pointing, Transfer
  <2>3. Loaded'
    BY <1>1, <1>5, <2>1 DEF Loaded, Transfer
  <2>4. Gathered'
    BY <1>1, <1>2, <2>1 DEF Sound, Gathered, Page
  <2>5. Written' /\ ReadBack' /\ Reported' /\ SuccessIsTrue'
    BY <1>1, <1>2, <2>1 DEF Sound, Written, ReadBack, Reported, SuccessIsTrue
  <2> QED BY <2>2, <2>3, <2>4, <2>5 DEF Sound
<1>8. CASE ~cycle /\ NextPage
  <2>1. /\ op.addr \in Nat /\ op.size \in Nat
        /\ \A a \in op.addr .. op.addr + (p_data + sent) - 1 : mem[a] = a - op.addr
    BY <1>1, <1>8, PagesJoin
  <2>2. CASE p_data + sent = op.size
    <3>1. step' = "idle" /\ res' = "ok" /\ p_data' = 0 /\ sent' = 0
      BY <1>8, <2>2 DEF NextPage, Ends
    <3>2. Types' /\ Called' /\ Cycling' /\ Pointing' /\ Loaded'
      BY <1>2, <1>3, <1>4, <1>8, <3>1
      DEF Types, Called, Cycling, Pointing, Loaded, Transfer
    <3>3. Gathered' /\ Written' /\ ReadBack' /\ Reported'
      BY <1>2, <1>8, <3>1 DEF Gathered, Written, ReadBack, Reported
    <3>4. \A i \in 0 .. op.size - 1 : mem[op.addr + i] = i
      <4> TAKE i \in 0 .. op.size - 1
      <4>1. op.addr + i \in op.addr .. op.addr + (p_data + sent) - 1
        BY <2>1, <2>2
      <4>2. mem[op.addr + i] = (op.addr + i) - op.addr
        BY <2>1, <4>1
      <4> QED BY <2>1, <4>2
    <3>5. SuccessIsTrue'
      BY <1>1, <1>2, <1>3, <1>8, <3>4 DEF SuccessIsTrue
    <3> QED BY <3>2, <3>3, <3>5 DEF Sound
  <2>3. CASE p_data + sent # op.size
    <3>1. /\ p_data' = p_data + sent /\ sent' = 0 /\ step' = "start"
          /\ UNCHANGED <<op, data, res>>
      BY <1>8, <2>3 DEF NextPage
    <3>2. Types' /\ Called' /\ Cycling' /\ Pointing'
      BY <1>1, <1>2, <1>4, <1>8, <3>1, <2>1
      DEF Types, Called, Cycling, Pointing, Transfer, Writes
    <3>3. Loaded'
      BY <1>2, <1>8, <3>1 DEF Loaded, Transfer
    <3>4. Gathered' /\ ReadBack'
      BY <3>1 DEF Gathered, ReadBack
    <3>5. Written'
      BY <1>2, <2>1, <3>1 DEF Written
    <3>6. Reported' /\ SuccessIsTrue'
      BY <1>1, <3>1 DEF Sound, Reported, SuccessIsTrue
    <3> QED BY <3>2, <3>3, <3>4, <3>5, <3>6 DEF Sound
  <2> QED BY <2>2, <2>3
<1> QED BY <1>6, <1>7, <1>8 DEF Poll

(* Nothing was loaded, so the STOP of a read starts no cycle.              *)
LEMMA RestartSound == ASSUME Sound, Restart PROVE Sound'
<1>1. /\ step = "restart" /\ step \in Transfer /\ ~cycle /\ ~Writes(op)
      /\ sent = 0 /\ data = <<>> /\ p_data = 0 /\ op \in Requests
  BY DEF Restart, Transfer, Sound, Cycling, Called
<1>2. CASE NotAcknowledged \/ TimesOut
  BY <1>1, <1>2, FailureSound
<1>3. CASE ~(NotAcknowledged \/ TimesOut)
  <2>1. DOMAIN latch = {}
    BY <1>1 DEF Sound, Loaded, Holds, Asked
  <2>2. UNCHANGED <<mem, latch, ptr, cycle, owner, op>>
    BY <1>1, <1>3, <2>1 DEF Restart, Stop, chip, call, Ends
  <2>3. op.addr \in Nat /\ op.size \in Nat /\ op \in Calls /\ mem \in [Cells -> Values]
    BY CallTypes DEF Sound, Types
  <2>4. \A m : <<>> = [i \in 1 .. 0 |-> m[op.addr + i - 1]]
    OBVIOUS
  <2>5. CASE step' = "rx" /\ UNCHANGED <<call, res>>
    <3>1. Types' /\ Called' /\ Cycling' /\ Pointing'
      BY <1>1, <2>2, <2>5 DEF Sound, Types, Called, Cycling, Pointing, Transfer, call
    <3>2. Loaded' /\ Gathered'
      BY <1>1, <2>2, <2>5 DEF Sound, Loaded, Gathered, Transfer
    <3>3. ReadBack'
      BY <1>1, <2>2, <2>4, <2>5 DEF ReadBack, call
    <3>4. Written' /\ Reported' /\ SuccessIsTrue'
      BY <1>1, <2>2, <2>5 DEF Sound, Written, Reported, SuccessIsTrue, call
    <3> QED BY <3>1, <3>2, <3>3, <3>4 DEF Sound
  <2>6. CASE op.size = 0 /\ Ends(op, "ok", <<>>)
    <3>1. step' = "idle" /\ res' = "ok" /\ data' = <<>> /\ p_data' = 0 /\ sent' = 0
      BY <2>6 DEF Ends
    <3>2. Types' /\ Called' /\ Cycling' /\ Pointing' /\ Loaded'
      BY <1>1, <2>2, <2>3, <3>1
      DEF Sound, Types, Called, Cycling, Pointing, Loaded, Transfer
    <3>3. Gathered' /\ Written' /\ ReadBack' /\ Reported'
      BY <1>1, <2>2, <3>1 DEF Gathered, Written, ReadBack, Reported
    <3>4. SuccessIsTrue'
      BY <1>1, <2>2, <2>4, <2>6, <3>1 DEF SuccessIsTrue
    <3> QED BY <3>2, <3>3, <3>4 DEF Sound
  <2> QED BY <1>3, <2>5, <2>6 DEF Restart, Goes
<1> QED BY <1>2, <1>3

-----------------------------------------------------------------------------
(* A read under way.                                                       *)
LEMMA ReadTypes ==
  ASSUME Sound, step = "rx", sent < op.size
  PROVE  /\ op.addr \in Nat /\ op.size \in Nat /\ sent \in Nat /\ ChipSize \in Nat
         /\ op.addr + op.size <= ChipSize /\ ptr = op.addr + sent /\ ~Writes(op) /\ ~cycle
         /\ mem \in [Cells -> Values] /\ op \in Requests /\ op \in Calls /\ owner \in Calls
         /\ data = [i \in 1 .. sent |-> mem[op.addr + i - 1]] /\ p_data = 0
         /\ Holds(op, latch)
<1>1. op.addr \in Nat /\ op.size \in Nat /\ sent \in Nat
  BY CallTypes DEF Sound, Types
<1>2. ChipSize \in Nat
  BY GeometryAssumption DEF ChipSize
<1>3. op.addr + op.size <= ChipSize /\ ~Writes(op) /\ op \in Requests /\ p_data = 0 /\ ~cycle
  BY DEF Sound, Called, Cycling
<1>4. ptr = op.addr + sent /\ data = [i \in 1 .. sent |-> mem[op.addr + i - 1]]
  BY DEF Sound, Pointing, ReadBack
<1>5. mem \in [Cells -> Values] /\ op \in Calls /\ owner \in Calls /\ Holds(op, latch)
  BY <1>3 DEF Sound, Types, Loaded, Transfer
<1> QED BY <1>1, <1>2, <1>3, <1>4, <1>5

LEMMA SmallMod ==
  ASSUME NEW x \in Nat, NEW y \in Nat, x < y
  PROVE  x % y = x
OBVIOUS

(* The bytes received are the cells that follow those read so far.         *)
LEMMA MoreRead ==
  ASSUME Sound, step = "rx", NEW n \in Nat \ {0}, sent + n <= op.size
  PROVE  Received(n) = [i \in 1 .. sent + n |-> mem[op.addr + i - 1]]
<1>0. sent < op.size
  BY CallTypes DEF Sound, Types
<1>1. /\ op.addr \in Nat /\ op.size \in Nat /\ sent \in Nat /\ ChipSize \in Nat
      /\ op.addr + op.size <= ChipSize /\ ptr = op.addr + sent
      /\ mem \in [Cells -> Values]
      /\ data = [i \in 1 .. sent |-> mem[op.addr + i - 1]]
  BY <1>0, ReadTypes
<1> DEFINE s == [i \in 1 .. n |-> mem[(ptr + i - 1) % ChipSize]]
           t == [i \in 1 .. sent + n |-> mem[op.addr + i - 1]]
<1>2. \A i \in 1 .. n : (ptr + i - 1) % ChipSize = op.addr + (sent + i) - 1
  <2> TAKE i \in 1 .. n
  <2>1. ptr + i - 1 = op.addr + (sent + i) - 1 /\ ptr + i - 1 \in Nat /\ ptr + i - 1 < ChipSize
    BY <1>1
  <2> QED BY <1>1, <2>1, SmallMod
<1>3. \A k \in 1 .. sent + n : op.addr + k - 1 \in Cells
  BY <1>1 DEF Cells
<1>4. s = [i \in 1 .. n |-> mem[op.addr + (sent + i) - 1]]
  BY <1>2
<1>5. \A i \in 1 .. n : sent + i \in 1 .. sent + n
  BY <1>1
<1>6. s \in Seq(Values) /\ Len(s) = n
  <2>1. \A i \in 1 .. n : mem[op.addr + (sent + i) - 1] \in Values
    BY <1>1, <1>3, <1>5
  <2> QED BY <1>4, <2>1
<1>7. \A i \in 1 .. sent : i \in 1 .. sent + n
  BY <1>1
<1>8. data \in Seq(Values) /\ Len(data) = sent
  BY <1>1, <1>3, <1>7
<1>9. t \in Seq(Values) /\ Len(t) = sent + n
  BY <1>1, <1>3
<1>10. /\ data \o s \in Seq(Values) /\ Len(data \o s) = sent + n
       /\ \A k \in 1 .. sent + n : (data \o s)[k] = IF k <= sent THEN data[k] ELSE s[k - sent]
  <2> HIDE DEF s
  <2> QED BY <1>6, <1>8, ConcatProperties
<1>11. ASSUME NEW k \in 1 .. sent + n PROVE (data \o s)[k] = t[k]
  <2>1. CASE k <= sent
    <3>1. data[k] = mem[op.addr + k - 1]
      BY <1>1, <2>1
    <3> QED BY <1>10, <2>1, <3>1
  <2>2. CASE k > sent
    <3>1. k - sent \in 1 .. n /\ sent + (k - sent) = k /\ ~(k <= sent)
      BY <1>1, <2>2
    <3>2. s[k - sent] = mem[op.addr + k - 1]
      BY <1>4, <3>1
    <3> QED BY <1>10, <3>1, <3>2
  <2> QED BY <1>1, <2>1, <2>2
<1>12. data \o s = t
  <2> HIDE DEF s, t
  <2> QED BY <1>9, <1>10, <1>11, SeqEqual
<1> QED BY <1>12 DEF Received

(* i2c_mem_read: the bytes before the last three, and those.               *)
LEMMA ReceiveBytesSound == ASSUME Sound, ReceiveBytes PROVE Sound'
<1>1. step = "rx" /\ step \in Transfer /\ op.size - sent > 3
  BY DEF ReceiveBytes, Transfer
<1>2. CASE TimesOut
  BY <1>1, <1>2, FailureSound
<1>3. ASSUME NEW n \in 1 .. 2, Advance(n), sent' = sent + n, data' = Received(n),
             UNCHANGED <<op, p_data, polls, bus, step, res, timedOut>>
      PROVE  Sound'
  <2>1. sent < op.size /\ sent + n < op.size /\ n \in Nat \ {0}
    BY <1>1, CallTypes DEF Sound, Types
  <2>2. /\ op.addr \in Nat /\ op.size \in Nat /\ sent \in Nat /\ ChipSize \in Nat
        /\ op.addr + op.size <= ChipSize /\ ptr = op.addr + sent /\ ~Writes(op) /\ ~cycle
        /\ p_data = 0
    BY <1>1, <2>1, ReadTypes
  <2>3. ptr' = (ptr + n) % ChipSize /\ UNCHANGED <<mem, latch, cycle, owner>>
    BY <1>3 DEF Advance
  <2>4. ptr' = op.addr + sent'
    BY <1>3, <2>1, <2>2, <2>3
  <2>5. Types' /\ Called' /\ Cycling'
    BY <1>1, <1>3, <2>1, <2>2, <2>3 DEF Sound, Types, Called, Cycling, Transfer
  <2>6. Pointing'
    BY <1>1, <1>3, <2>4 DEF Pointing
  <2>7. Loaded' /\ Gathered' /\ Written'
    BY <1>1, <1>3, <2>2, <2>3 DEF Sound, Loaded, Gathered, Written, Transfer
  <2>8. Received(n) = [i \in 1 .. sent + n |-> mem[op.addr + i - 1]]
    <3>1. sent + n <= op.size
      BY <2>1, <2>2
    <3> QED BY <1>1, <2>1, <3>1, MoreRead
  <2>9. ReadBack'
    BY <1>3, <2>3, <2>8 DEF ReadBack
  <2>10. Reported' /\ SuccessIsTrue'
    BY <1>1, <1>3 DEF Sound, Reported, SuccessIsTrue
  <2> QED BY <2>5, <2>6, <2>7, <2>9, <2>10 DEF Sound
<1> QED BY <1>2, <1>3 DEF ReceiveBytes

LEMMA ReceiveLastSound == ASSUME Sound, ReceiveLast PROVE Sound'
<1>1. step = "rx" /\ step \in Transfer /\ op.size - sent \in 1 .. 3
  BY DEF ReceiveLast, Transfer
<1>2. CASE TimesOut
  BY <1>1, <1>2, FailureSound
<1>3. CASE ~TimesOut
  <2> DEFINE n == op.size - sent
  <2>1. n \in Nat \ {0} /\ sent + n = op.size /\ sent < op.size
    BY <1>1, CallTypes DEF Sound, Types
  <2>2. /\ ~Writes(op) /\ ~cycle /\ mem \in [Cells -> Values]
        /\ op \in Calls /\ owner \in Calls
    BY <1>1, <2>1, ReadTypes
  <2>3. Received(n) = [i \in 1 .. op.size |-> mem[op.addr + i - 1]]
    <3>1. sent + n <= op.size /\ op.size \in Nat
      BY <2>1, CallTypes DEF Sound, Types
    <3> HIDE DEF n
    <3> QED BY <1>1, <2>1, <3>1, MoreRead
  <2>4. /\ step' = "idle" /\ res' = "ok" /\ op' = op /\ data' = Received(n)
        /\ p_data' = 0 /\ sent' = 0 /\ UNCHANGED <<mem, latch, cycle, owner>>
    BY <1>3 DEF ReceiveLast, Ends, Advance
  <2> HIDE DEF n
  <2>5. Types' /\ Called' /\ Cycling' /\ Pointing' /\ Loaded'
    BY <2>2, <2>4 DEF Types, Called, Cycling, Pointing, Loaded, Transfer
  <2>6. Gathered' /\ Written' /\ ReadBack' /\ Reported'
    BY <2>2, <2>4 DEF Gathered, Written, ReadBack, Reported
  <2>7. SuccessIsTrue'
    BY <2>2, <2>3, <2>4 DEF SuccessIsTrue
  <2> QED BY <2>5, <2>6, <2>7 DEF Sound
<1> QED BY <1>2, <1>3

-----------------------------------------------------------------------------
(* The write cycle ends: the page buffer is in the memory.                 *)
LEMMA CycleEndsSound == ASSUME Sound, CycleEnds PROVE Sound'
<1>1. /\ cycle /\ ~cycle' /\ DOMAIN latch' = {} /\ owner' = NoCall
      /\ mem' = [a \in Cells |-> IF a \in DOMAIN latch THEN latch[a] ELSE mem[a]]
      /\ UNCHANGED <<op, p_data, sent, data, step, res, ptr>>
  BY DEF CycleEnds, NoBytes, call
<1>2. Holds(owner, latch) /\ owner \in Calls /\ op \in Calls /\ mem \in [Cells -> Values]
  BY <1>1 DEF Sound, Loaded, Types
<1>3. step \notin {"mem", "data", "restart", "rx"} /\ res # "ok"
  BY <1>1 DEF Sound, Cycling, Reported
<1>4. mem' \in [Cells -> Values]
  <2>1. ASSUME NEW a \in Cells, a \in DOMAIN latch PROVE latch[a] \in Values
    BY <1>2, <2>1, AskedInValues DEF Holds
  <2> QED BY <1>1, <1>2, <2>1
<1>5. Types' /\ Called' /\ Cycling' /\ Pointing'
  <2>1. NoCall \in Calls
    BY CallTypes
  <2>2. Types'
    BY <1>1, <1>4, <2>1 DEF Sound, Types
  <2>3. Called'
    BY <1>1 DEF Sound, Called, Transfer
  <2> QED BY <1>1, <1>3, <2>2, <2>3 DEF Cycling, Pointing
<1>6. Loaded'
  BY <1>1 DEF Loaded, Holds
<1>7. ASSUME step = "poll", NEW a \in Cells
      PROVE  /\ a \in DOMAIN latch => mem'[a] = a - op.addr
             /\ a \notin DOMAIN latch => mem'[a] = mem[a]
  BY <1>1, <1>2, <1>7 DEF Sound, Cycling, Holds, Asked
<1>8. step # "idle" => /\ op.addr \in Nat /\ op.size \in Nat /\ p_data \in Nat /\ sent \in Nat
                       /\ op.addr + op.size <= ChipSize /\ p_data + sent <= op.size
                       /\ ChipSize \in Nat
  <2>1. ChipSize \in Nat
    BY GeometryAssumption DEF ChipSize
  <2> QED BY <2>1, CallTypes DEF Sound, Called, Types
<1>9. Gathered'
  <2>1. ASSUME step = "poll", NEW a \in Page PROVE mem'[a] = a - op.addr
    <3>1. a \in DOMAIN latch
      BY <1>1, <2>1 DEF Sound, Gathered
    <3>2. a \in Cells
      BY <1>8, <2>1 DEF Page, Cells
    <3> QED BY <1>7, <2>1, <3>1, <3>2
  <2>2. Page' = Page
    BY <1>1 DEF Page
  <2> QED BY <1>1, <1>3, <2>1, <2>2 DEF Gathered
<1>10. Written'
  <2>1. ASSUME step # "idle", Writes(op), NEW a \in op.addr .. op.addr + p_data - 1
        PROVE  mem'[a] = a - op.addr
    <3>1. step = "poll"
      <4>1. p_data # 0
        BY <1>8, <2>1
      <4> QED BY <1>1, <1>3, <2>1, <4>1 DEF Sound, Called, Cycling, Transfer
    <3>2. a \in Cells
      BY <1>8, <2>1 DEF Cells
    <3>3. mem[a] = a - op.addr
      BY <2>1 DEF Sound, Written
    <3> QED BY <1>7, <3>1, <3>2, <3>3
  <2> QED BY <1>1, <2>1 DEF Written
<1>11. ReadBack' /\ Reported' /\ SuccessIsTrue'
  BY <1>1, <1>3 DEF ReadBack, Reported, SuccessIsTrue
<1> QED BY <1>5, <1>6, <1>9, <1>10, <1>11 DEF Sound

(* A reset and a loss of power: a cell of the cycle is old, new or         *)
(* neither.                                                                *)
LEMMA ResetSound == ASSUME Sound, NodeReset \/ PowerLoss PROVE Sound'
<1>1. op' = NoCall /\ step' = "idle" /\ res' = "none" /\ p_data' = 0 /\ sent' = 0
  BY DEF NodeReset, PowerLoss, Reset, Ends
<1>2. NoCall \in Calls /\ mem \in [Cells -> Values] /\ owner \in Calls
  BY CallTypes DEF Sound, Types
<1>3. CASE NodeReset
  <2>1. UNCHANGED <<mem, cycle, owner>> /\ (cycle => latch' = latch)
    BY <1>3 DEF NodeReset
  <2>2. cycle' => Holds(owner', latch')
    BY <2>1 DEF Sound, Loaded
  <2> QED BY <1>1, <1>2, <2>1, <2>2, EndedSound
<1>4. CASE PowerLoss
  <2>1. ~cycle' /\ owner' = NoCall
    BY <1>4 DEF PowerLoss
  <2>2. mem' \in [Cells -> Values]
    <3>1. CASE ~cycle
      BY <1>2, <1>4, <3>1 DEF PowerLoss
    <3>2. CASE cycle
      <4>1. Holds(owner, latch)
        BY <3>2 DEF Sound, Loaded
      <4>2. ASSUME NEW a \in Cells, a \in DOMAIN latch PROVE latch[a] \in Values
        BY <1>2, <4>1, <4>2, AskedInValues DEF Holds
      <4>3. Garbage \in Values
        BY DEF Values
      <4>4. PICK torn \in SUBSET DOMAIN latch, old \in SUBSET DOMAIN latch :
              mem' = [a \in Cells |-> IF a \in torn THEN Garbage
                                      ELSE IF a \in DOMAIN latch \ old THEN latch[a] ELSE mem[a]]
        BY <1>4, <3>2 DEF PowerLoss
      <4> QED BY <1>2, <4>2, <4>3, <4>4
    <3> QED BY <3>1, <3>2
  <2> QED BY <1>1, <1>2, <2>1, <2>2, EndedSound
<1> QED BY <1>3, <1>4

(* The invariant holds in every state.                                     *)
LEMMA InitSound == Init => Sound
<1> SUFFICES ASSUME Init PROVE Sound
  OBVIOUS
<1>1. Types
  BY CallTypes DEF Init, Types, Values
<1>2. Called /\ Cycling /\ Pointing /\ Loaded
  BY DEF Init, Called, Cycling, Pointing, Loaded, Transfer
<1>3. Gathered /\ Written /\ ReadBack /\ Reported /\ SuccessIsTrue
  BY DEF Init, Gathered, Written, ReadBack, Reported, SuccessIsTrue
<1> QED BY <1>1, <1>2, <1>3 DEF Sound

LEMMA StepSound == Sound /\ [Next]_vars => Sound'
<1> SUFFICES ASSUME Sound, [Next]_vars PROVE Sound'
  OBVIOUS
<1>1. CASE UNCHANGED vars
  <2>1. UNCHANGED <<mem, latch, ptr, cycle, owner, op, p_data, sent, data, step, res>>
    BY <1>1 DEF vars, chip, call
  <2>2. Types' /\ Called' /\ Cycling' /\ Pointing' /\ Loaded'
    BY <2>1 DEF Sound, Types, Called, Cycling, Pointing, PageBytes, Remain, Loaded
  <2>3. Gathered' /\ Written' /\ ReadBack' /\ Reported' /\ SuccessIsTrue'
    BY <2>1 DEF Sound, Gathered, Page, Written, ReadBack, Reported, SuccessIsTrue
  <2> QED BY <2>2, <2>3 DEF Sound
<1> QED BY <1>1, CallSound, StartSound, AddressSound, MemAddressSound, SendByteSound,
           PageSentSound, PollSound, RestartSound, ReceiveBytesSound, ReceiveLastSound,
           CycleEndsSound, ResetSound DEF Next

LEMMA AlwaysSound == Spec => []Sound
BY InitSound, StepSound, PTL DEF Spec

-----------------------------------------------------------------------------
(* A write that reports success has put all its bytes into the chip's      *)
(* cells, and its last cycle is over; a read that reports success has      *)
(* returned the cells it was asked for.                                    *)
THEOREM ReportedSuccess == Spec => []SuccessIsTrue
<1>1. Sound => SuccessIsTrue
  BY DEF Sound
<1> QED BY <1>1, AlwaysSound, PTL

(* OnlyAsked, of one step.                                                 *)
Untouched ==
  \A a \in Cells : mem'[a] # mem[a] =>
    /\ Writes(owner)
    /\ a \in owner.addr .. owner.addr + owner.size - 1
    /\ mem'[a] \in {a - owner.addr, Garbage}

(* The memory changes when a cycle ends, and when it loses its power.      *)
LEMMA OnlyCyclesWrite ==
  ASSUME Next, ~CycleEnds, ~PowerLoss PROVE mem' = mem
<1>1. ASSUME NEW o \in Requests, Call(o) PROVE mem' = mem
  BY <1>1 DEF Call, chip
<1>2. CASE Start \/ Address \/ MemAddress
  BY <1>2 DEF Start, Address, MemAddress, NotAcknowledged, TimesOut, Stop, chip
<1>3. CASE SendByte \/ PageSent \/ Poll
  BY <1>3 DEF SendByte, PageSent, Poll, PollFails, Load, NotAcknowledged, TimesOut, Stop, chip
<1>4. CASE Restart \/ ReceiveBytes \/ ReceiveLast
  BY <1>4 DEF Restart, ReceiveBytes, ReceiveLast, Advance, NotAcknowledged, TimesOut, Stop, chip
<1>5. CASE NodeReset
  BY <1>5 DEF NodeReset
<1> QED BY <1>1, <1>2, <1>3, <1>4, <1>5 DEF Next

LEMMA StepUntouched == Sound /\ [Next]_vars => [Untouched]_vars
<1> SUFFICES ASSUME Sound, Next PROVE Untouched
  OBVIOUS
<1>1. CASE ~CycleEnds /\ ~PowerLoss
  BY <1>1, OnlyCyclesWrite DEF Untouched
<1>2. cycle => \A a \in DOMAIN latch : Asked(owner, a, latch[a])
  BY DEF Sound, Loaded, Holds
<1>3. CASE CycleEnds
  BY <1>2, <1>3 DEF CycleEnds, Untouched, Asked
<1>4. CASE PowerLoss
  <2>1. CASE ~cycle
    BY <1>4, <2>1 DEF PowerLoss, Untouched
  <2>2. CASE cycle
    <3>1. PICK torn \in SUBSET DOMAIN latch, old \in SUBSET DOMAIN latch :
            mem' = [a \in Cells |-> IF a \in torn THEN Garbage
                                    ELSE IF a \in DOMAIN latch \ old THEN latch[a] ELSE mem[a]]
      BY <1>4, <2>2 DEF PowerLoss
    <3>2. ASSUME NEW a \in Cells, mem'[a] # mem[a]
          PROVE  a \in DOMAIN latch /\ mem'[a] \in {latch[a], Garbage}
      BY <3>1, <3>2
    <3> QED BY <1>2, <2>2, <3>2 DEF Untouched, Asked
  <2> QED BY <2>1, <2>2
<1> QED BY <1>1, <1>3, <1>4

(* A write changes no cell that it was not asked to change, and each to    *)
(* its own byte or, when the power is lost, to garbage: also when it was   *)
(* cut off by a missing acknowledge, and when its cycle ends in a later    *)
(* call.                                                                   *)
THEOREM OnlyAskedCells == Spec => OnlyAsked
<1>1. [][Untouched]_vars <=> OnlyAsked
  BY DEF Untouched, OnlyAsked
<1> QED BY <1>1, AlwaysSound, StepUntouched, PTL DEF Spec

-----------------------------------------------------------------------------
(* The two ways in which a transfer fails keep the invariant: one releases *)
(* the bus, the other is a time-out.                                       *)
LEMMA FailureKeeps ==
  ASSUME NotAcknowledged \/ TimesOut
  PROVE  BusInv'
  BY DEF NotAcknowledged, TimesOut, Stop, BusInv

LEMMA InitBusInv == Init => BusInv
  BY DEF Init, BusInv

LEMMA StepBusInv == BusInv /\ [Next]_vars => BusInv'
<1> SUFFICES ASSUME BusInv, [Next]_vars PROVE BusInv'
  OBVIOUS
<1> USE DEF Transfer
<1>1. ASSUME NEW o \in Requests, Call(o) PROVE BusInv'
  <2>1. step = "idle" /\ bus' = bus /\ timedOut' = timedOut
    BY <1>1 DEF Call
  <2> QED BY <2>1 DEF BusInv
<1>2. CASE Start
  BY <1>2 DEF Start, Goes, Fails, Ends, BusInv
<1>3. CASE Address
  BY <1>3, FailureKeeps DEF Address, Goes, BusInv
<1>4. CASE MemAddress
  <2>1. CASE NotAcknowledged \/ TimesOut
    BY <2>1, FailureKeeps
  <2>2. CASE step' \in {"data", "restart"}
    BY <2>2 DEF BusInv
  <2> QED BY <1>4, <2>1, <2>2 DEF MemAddress, Goes
<1>5. CASE SendByte
  <2>1. CASE NotAcknowledged \/ TimesOut
    BY <2>1, FailureKeeps
  <2>2. CASE step' = "data"
    BY <2>2 DEF BusInv
  <2> QED BY <1>5, <2>1, <2>2 DEF SendByte
<1>6. CASE PageSent
  BY <1>6, FailureKeeps DEF PageSent, Stop, BusInv
<1>7. CASE Poll
  <2>1. CASE bus' = "free"
    BY <2>1 DEF BusInv
  <2>2. CASE timedOut' = TRUE
    BY <2>2 DEF BusInv
  <2> QED BY <1>7, <2>1, <2>2 DEF Poll
<1>8. CASE Restart
  <2>1. CASE NotAcknowledged \/ TimesOut
    BY <2>1, FailureKeeps
  <2>2. CASE step' = "rx" \/ bus' = "free"
    BY <2>2 DEF BusInv
  <2> QED BY <1>8, <2>1, <2>2 DEF Restart, Goes, Stop
<1>9. CASE ReceiveBytes
  <2>1. CASE NotAcknowledged \/ TimesOut
    BY <2>1, FailureKeeps
  <2>2. CASE step' = "rx"
    BY <2>2 DEF BusInv
  <2> QED BY <1>9, <2>1, <2>2 DEF ReceiveBytes
<1>10. CASE ReceiveLast
  <2>1. CASE NotAcknowledged \/ TimesOut
    BY <2>1, FailureKeeps
  <2>2. CASE bus' = "free"
    BY <2>2 DEF BusInv
  <2> QED BY <1>10, <2>1, <2>2 DEF ReceiveLast
<1>11. CASE CycleEnds
  BY <1>11 DEF CycleEnds, BusInv
<1>12. CASE NodeReset \/ PowerLoss
  BY <1>12 DEF NodeReset, PowerLoss, Reset, BusInv
<1>13. CASE UNCHANGED vars
  BY <1>13 DEF vars, BusInv
<1> QED BY <1>1, <1>2, <1>3, <1>4, <1>5, <1>6, <1>7, <1>8, <1>9, <1>10, <1>11,
           <1>12, <1>13 DEF Next

-----------------------------------------------------------------------------
(* No call of the EEPROM driver leaves the I2C bus held, whichever byte was*)
(* not acknowledged, unless a wait for the bus timed out.                  *)
THEOREM BusReleased == Spec => []Released
<1>1. BusInv => Released
  BY DEF BusInv, Released, Transfer
<1> QED BY <1>1, InitBusInv, StepBusInv, PTL DEF Spec
=============================================================================
