--------------------------- MODULE Flasher_proofs ---------------------------
(***************************************************************************)
(* Theorems about Flasher and about Download, which adds the master to it: *)
(* for every flash layout that satisfies LayoutAssumption, every set of    *)
(* blocks, every set of images and every size of the master's blocks.      *)
(***************************************************************************)
EXTENDS Download, SequenceTheorems, TLAPS

(* A running write begins in the region; it ends there too, or its block   *)
(* wraps around the address space and the page check will stop it.         *)
JobInRange ==
  ~Idle =>
    /\ Origin <= job.dest
    /\ 0 < Len(job.data)
    /\ job.dest + Len(job.data) <= End \/ Beyond

RangeInv == TypeOK /\ JobInRange

(* The blocks the theorems are about: what the range check lets through of *)
(* them begins in the region, and ends there or is stopped by the page     *)
(* check. All of Blocks are such blocks, and all of a download's.          *)
InRange(b) ==
  LET first == Absolute(b.address) IN
    /\ first \in Addresses
    /\ Origin <= first
    /\ first + Len(b.data) <= End \/ PageOf(first - FlashBase) > NumPages

SoundBlocks ==
  {b \in [num : Nat, address : Addresses, data : Seq(Values)] :
     0 < Len(b.data) /\ (~OutOfRange(b) => InRange(b))}

LoseReply == reply' = "none" /\ UNCHANGED <<flash, erased, job, acked>>

(* The steps of Flasher and of Download, as far as they concern the node.  *)
Step ==
  \/ \E b \in SoundBlocks : FlashDataWrite(b)
  \/ RejectBlock \/ ClearProgram \/ OddFirstBlock \/ FlashWrite \/ NodeReset
  \/ LoseReply

-----------------------------------------------------------------------------
(* Division by the page size.                                              *)
LEMMA DivLemma ==
  ASSUME NEW a \in Int, NEW n \in Nat \ {0}, NEW p \in Nat, a >= p * n + n
  PROVE  a \div n > p
OBVIOUS

LEMMA NumCellsType == NumCells \in Nat
BY LayoutAssumption DEF NumCells

LEMMA NoJobType ==
  /\ NoJob \in [dest : Addresses, data : Seq(Values), i : Nat]
  /\ NoJob.i <= Len(NoJob.data)
<1>1. 0 \in Addresses
  BY LayoutAssumption, NumCellsType DEF Addresses
<1>2. <<>> \in Seq(Values) /\ Len(<<>>) = 0
  OBVIOUS
<1> QED
  BY <1>1, <1>2 DEF NoJob

(* What the range check lets through.                                      *)
LEMMA StrayInRange ==
  ASSUME NEW b \in Blocks, NEW first, first = Absolute(b.address),
         ~(first < Origin), ~(Wrap32(first + Len(b.data)) > End)
  PROVE  /\ first \in Addresses
         /\ Origin <= first
         /\ first + Len(b.data) <= End \/ PageOf(first - FlashBase) > NumPages
<1> DEFINE len == Len(b.data)
<1>1. /\ b.address \in Addresses /\ b.data \in Seq(Values) /\ len \in Nat /\ 0 < len
      /\ FlashBase + NumCells + PageSize + len <= AddrMod
  BY DataAssumption
<1>2. /\ NumCells \in Nat /\ PageSize \in Nat \ {0} /\ NumPages \in Nat
      /\ FlashBase \in Nat /\ AddrMod \in Nat /\ Origin \in Nat /\ End \in Nat
      /\ FlashBase <= Origin /\ Origin < End /\ End <= FlashBase + NumCells
      /\ NumCells < FlashBase /\ NumCells = NumPages * PageSize
  BY LayoutAssumption, NumCellsType DEF NumCells
<1> HIDE DEF len
<1>3. first \in Addresses
  BY <1>1, <1>2 DEF Absolute, Wrap32, Addresses
<1>4. first \in Nat /\ first < AddrMod /\ Origin <= first
  BY <1>2, <1>3 DEF Addresses
<1>5. CASE first + len < AddrMod
  BY <1>1, <1>2, <1>3, <1>4, <1>5 DEF Wrap32, len
<1>6. CASE ~(first + len < AddrMod)
  <2>1. first - FlashBase \in Int /\ first - FlashBase >= NumPages * PageSize + PageSize
    BY <1>1, <1>2, <1>4, <1>6
  <2> QED
    BY <2>1, <1>2, <1>3, <1>4, DivLemma DEF PageOf
<1> QED
  BY <1>5, <1>6

LEMMA BlocksSound == Blocks \subseteq SoundBlocks
<1> SUFFICES ASSUME NEW b \in Blocks PROVE b \in SoundBlocks
  OBVIOUS
<1>1. b \in [num : Nat, address : Addresses, data : Seq(Values)] /\ 0 < Len(b.data)
  BY DataAssumption
<1>2. ~OutOfRange(b) => InRange(b)
  BY StrayInRange DEF OutOfRange, InRange
<1> QED BY <1>1, <1>2 DEF SoundBlocks

LEMMA AcceptedRange ==
  ASSUME NEW b \in SoundBlocks, NEW first, first = Absolute(b.address),
         ~(first < Origin), ~(Wrap32(first + Len(b.data)) > End)
  PROVE  /\ first \in Addresses
         /\ Origin <= first
         /\ first + Len(b.data) <= End \/ PageOf(first - FlashBase) > NumPages
BY DEF SoundBlocks, OutOfRange, InRange

LEMMA NextIsStep == Next => Step
BY BlocksSound DEF Next, Step

(* A write that gets past the page check stays in the region.              *)
LEMMA RunningInRegion ==
  ASSUME RangeInv, Running
  PROVE  /\ JobCells \subseteq Region
         /\ JobCell \in JobCells
         /\ JobCell \in Cells
         /\ JobPage \in Pages
         /\ {c \in Cells : PageOf(c) = JobPage} \subseteq Region
<1>1. /\ NumCells \in Nat /\ FlashBase \in Nat /\ Origin \in Nat /\ End \in Nat
      /\ FlashBase <= Origin /\ End <= FlashBase + NumCells
  BY LayoutAssumption, NumCellsType
<1>2. /\ job.dest \in Int /\ Len(job.data) \in Nat /\ job.i \in Nat
      /\ Origin <= job.dest /\ 0 < Len(job.data) /\ job.i < Len(job.data)
      /\ job.dest + Len(job.data) <= End
  BY LayoutAssumption DEF RangeInv, TypeOK, JobInRange, Running, Addresses
<1>3. \A k \in 0 .. Len(job.data) - 1 : job.dest + k - FlashBase \in Region
  BY <1>1, <1>2 DEF Region, Cells
<1>4. JobCells \subseteq Region
  BY <1>3 DEF JobCells
<1>5. JobCell \in JobCells
  BY <1>2 DEF JobCell, JobCells
<1>6. job.dest - FlashBase \in Region
  <2>1. 0 \in 0 .. Len(job.data) - 1 /\ job.dest + 0 - FlashBase = job.dest - FlashBase
    BY <1>1, <1>2
  <2> QED
    BY <1>3, <2>1
<1>7. JobPage \in Pages
  BY <1>6, LayoutAssumption DEF JobPage
<1>8. {c \in Cells : PageOf(c) = JobPage} \subseteq Region
  <2>1. \A c \in Cells, d \in Region : PageOf(c) = PageOf(d) => c \in Region
    BY LayoutAssumption
  <2> QED
    BY <1>6, <2>1 DEF JobPage
<1> QED
  BY <1>4, <1>5, <1>7, <1>8 DEF Region

-----------------------------------------------------------------------------
LEMMA InitRangeInv == Init => RangeInv
<1> SUFFICES ASSUME Init PROVE RangeInv
  OBVIOUS
<1>2. job \in [dest : Addresses, data : Seq(Values), i : Nat] /\ job.i <= Len(job.data)
  BY NoJobType DEF Init
<1>3. flash \in [Cells -> Values] /\ acked \in [Cells -> Values \cup {NoAck}]
  BY DataAssumption DEF Init, NoAcks
<1> QED
  BY <1>2, <1>3 DEF Init, RangeInv, TypeOK, JobInRange, Idle

(* Giving up a write.                                                      *)
LEMMA NoJobStep ==
  ASSUME job' = NoJob
  PROVE  /\ job' \in [dest : Addresses, data : Seq(Values), i : Nat]
         /\ job'.i <= Len(job'.data)
         /\ JobInRange'
BY NoJobType DEF JobInRange, Idle

LEMMA FlashDataWriteRange ==
  ASSUME RangeInv, NEW b \in SoundBlocks, FlashDataWrite(b)
  PROVE  RangeInv'
<1> DEFINE first == Absolute(b.address)
           last  == Wrap32(first + Len(b.data))
<1>1. CASE first < Origin \/ last > End
  <2>1. reply' = "error" /\ UNCHANGED <<flash, erased, job, acked>>
    BY <1>1 DEF FlashDataWrite, OutOfRange, RefuseWrite, StartWrite
  <2> QED
    BY <2>1 DEF RangeInv, TypeOK, JobInRange, Idle, Beyond, JobPage
<1>2. CASE ~(first < Origin) /\ ~(last > End)
  <2>1. /\ job' = [dest |-> first, data |-> b.data, i |-> 0]
        /\ reply' = "none" /\ flash' = flash
        /\ erased' = IF b.num = 0 THEN {} ELSE erased
        /\ acked' = [c \in Cells |->
                       IF b.num = 0 \/ FlashBase + c - first \in 0 .. Len(b.data) - 1
                       THEN NoAck ELSE acked[c]]
    BY <1>2 DEF FlashDataWrite, OutOfRange, RefuseWrite, StartWrite
  <2>2. b.data \in Seq(Values) /\ Len(b.data) \in Nat /\ 0 < Len(b.data)
    BY DEF SoundBlocks
  <2>3. /\ first \in Addresses /\ Origin <= first
        /\ first + Len(b.data) <= End \/ PageOf(first - FlashBase) > NumPages
    BY <1>2, AcceptedRange
  <2> HIDE DEF first, last
  <2>4. /\ job' \in [dest : Addresses, data : Seq(Values), i : Nat]
        /\ job'.i <= Len(job'.data)
    BY <2>1, <2>2, <2>3
  <2>5. JobInRange'
    BY <2>1, <2>2, <2>3 DEF JobInRange, Beyond, JobPage
  <2>6. acked' \in [Cells -> Values \cup {NoAck}]
    BY <2>1 DEF RangeInv, TypeOK
  <2> QED
    BY <2>1, <2>4, <2>5, <2>6 DEF RangeInv, TypeOK
<1> QED
  BY <1>1, <1>2

LEMMA StepRangeInv == RangeInv /\ [Step]_vars => RangeInv'
<1> SUFFICES ASSUME RangeInv, [Step]_vars PROVE RangeInv'
  OBVIOUS
<1>1. CASE \E b \in SoundBlocks : FlashDataWrite(b)
  BY <1>1, FlashDataWriteRange
<1>2. CASE RejectBlock \/ LoseReply \/ UNCHANGED vars
  BY <1>2 DEF RejectBlock, LoseReply, vars, RangeInv, TypeOK, JobInRange, Idle, Beyond, JobPage
<1>3. CASE ClearProgram \/ OddFirstBlock
  <2>1. acked' \in [Cells -> Values \cup {NoAck}]
    BY <1>3 DEF ClearProgram, OddFirstBlock, NoAcks
  <2> QED
    BY <1>3, <2>1 DEF ClearProgram, OddFirstBlock, RangeInv, TypeOK, JobInRange, Idle,
       Beyond, JobPage
<1>4. CASE PageOutOfRange \/ ProgrammingError
  BY <1>4, NoJobStep DEF PageOutOfRange, ProgrammingError, RangeInv, TypeOK
<1>5. CASE ErasePage
  <2>1. JobPage \in Pages
    BY <1>5, RunningInRegion DEF ErasePage
  <2>2. flash' \in [Cells -> Values]
    BY <1>5, DataAssumption DEF ErasePage, RangeInv, TypeOK
  <2> QED
    BY <1>5, <2>1, <2>2 DEF ErasePage, RangeInv, TypeOK, JobInRange, Idle, Beyond, JobPage
<1>6. CASE ProgramHalfword
  <2>1. /\ job \in [dest : Addresses, data : Seq(Values), i : Nat]
        /\ job.i \in Nat /\ Len(job.data) \in Nat /\ job.i < Len(job.data)
    BY <1>6 DEF ProgramHalfword, Running, RangeInv, TypeOK
  <2>2. job' = [job EXCEPT !.i = job.i + 1]
    BY <1>6 DEF ProgramHalfword
  <2>3. /\ job' \in [dest : Addresses, data : Seq(Values), i : Nat]
        /\ job'.dest = job.dest /\ job'.data = job.data /\ job'.i = job.i + 1
    BY <2>1, <2>2
  <2>4. job.data[job.i + 1] \in Values
    BY <2>1
  <2>5. flash' \in [Cells -> Values]
    BY <1>6, <2>4 DEF ProgramHalfword, RangeInv, TypeOK
  <2>6. JobInRange'
    BY <1>6, <2>3 DEF ProgramHalfword, Running, RangeInv, JobInRange, Idle, Beyond, JobPage
  <2> QED
    BY <1>6, <2>1, <2>3, <2>5, <2>6 DEF ProgramHalfword, RangeInv, TypeOK
<1>7. CASE WriteDone
  <2>1. acked' \in [Cells -> Values \cup {NoAck}]
    <3>1. ASSUME NEW c \in Cells, c \in JobCells
          PROVE  job.data[FlashBase + c - job.dest + 1] \in Values
      <4>1. PICK k \in 0 .. Len(job.data) - 1 : c = job.dest + k - FlashBase
        BY <3>1 DEF JobCells
      <4>2. /\ job.data \in Seq(Values) /\ job.dest \in Int /\ FlashBase \in Int
        BY LayoutAssumption DEF RangeInv, TypeOK, Addresses
      <4>3. FlashBase + c - job.dest + 1 = k + 1
        BY <4>1, <4>2
      <4> QED
        BY <4>1, <4>2, <4>3
    <3> QED
      BY <1>7, <3>1 DEF WriteDone, RangeInv, TypeOK
  <2> QED
    BY <1>7, <2>1, NoJobStep DEF WriteDone, RangeInv, TypeOK
<1>8. CASE NodeReset
  <2>1. flash' \in [Cells -> Values]
    BY <1>8, DataAssumption DEF NodeReset, RangeInv, TypeOK
  <2>2. acked' \in [Cells -> Values \cup {NoAck}]
    BY <1>8 DEF NodeReset, NoAcks
  <2> QED
    BY <1>8, <2>1, <2>2, NoJobStep DEF NodeReset, RangeInv, TypeOK
<1> QED
  BY <1>1, <1>2, <1>3, <1>4, <1>5, <1>6, <1>7, <1>8 DEF Step, FlashWrite

LEMMA RangeInvariant == Spec => []RangeInv
BY InitRangeInv, StepRangeInv, NextIsStep, PTL DEF Spec

(* platform_flash_write never looks up a page or programs a half-word that *)
(* does not belong to the target region, whatever address was sent.        *)
THEOREM FlasherInBounds == Spec => [](TypeOK /\ InBounds)
<1>1. RangeInv => TypeOK /\ InBounds
  BY RunningInRegion DEF RangeInv, InBounds
<1> QED
  BY <1>1, RangeInvariant, PTL

LEMMA StepInRegion ==
  ASSUME RangeInv, [Step]_vars, NEW c \in Cells, c \notin Region
  PROVE  flash'[c] = flash[c]
<1> USE DEF RangeInv, TypeOK
<1>1. CASE ErasePage
  <2>1. PageOf(c) # JobPage
    BY <1>1, RunningInRegion DEF ErasePage
  <2> QED
    BY <1>1, <2>1 DEF ErasePage
<1>2. CASE ProgramHalfword
  <2>1. c # JobCell
    BY <1>2, RunningInRegion DEF ProgramHalfword
  <2> QED
    BY <1>2, <2>1 DEF ProgramHalfword
<1>3. CASE NodeReset
  <2>1. Running => c \notin InFlight
    BY RunningInRegion DEF InFlight
  <2>2. c \notin InFlight
    BY <2>1 DEF InFlight
  <2> QED
    BY <1>3, <2>2 DEF NodeReset
<1>4. CASE flash' = flash
  BY <1>4
<1>5. ErasePage \/ ProgramHalfword \/ NodeReset \/ flash' = flash
  BY DEF Step, FlashWrite, FlashDataWrite, RefuseWrite, StartWrite, RejectBlock, LoseReply,
     ClearProgram, OddFirstBlock, PageOutOfRange, ProgrammingError, WriteDone, vars
<1> QED
  BY <1>1, <1>2, <1>3, <1>4, <1>5

(* Nothing outside the target region ever changes.                         *)
THEOREM FlasherKeepsOutside == Spec => OutsideUntouched
<1>1. RangeInv /\ [Step]_vars => \A c \in Cells \ Region : flash'[c] = flash[c]
  BY StepInRegion
<1> QED
  BY <1>1, RangeInvariant, NextIsStep, PTL DEF Spec, OutsideUntouched

-----------------------------------------------------------------------------
(* How one step can change a half-word: it becomes blank, zero or garbage, *)
(* or it was blank.                                                        *)
LEMMA CellStep ==
  ASSUME RangeInv, [Step]_vars, NEW c \in Cells
  PROVE  flash'[c] \in {flash[c], FF, Zero, Garbage} \/ flash[c] = FF
<1> USE DEF RangeInv, TypeOK
<1>1. CASE ErasePage
  BY <1>1 DEF ErasePage
<1>2. CASE ProgramHalfword
  BY <1>2 DEF ProgramHalfword, Programmable
<1>3. CASE NodeReset
  BY <1>3 DEF NodeReset
<1>4. CASE flash' = flash
  BY <1>4
<1>5. ErasePage \/ ProgramHalfword \/ NodeReset \/ flash' = flash
  BY DEF Step, FlashWrite, FlashDataWrite, RefuseWrite, StartWrite, RejectBlock, LoseReply,
     ClearProgram, OddFirstBlock, PageOutOfRange, ProgrammingError, WriteDone, vars
<1> QED
  BY <1>1, <1>2, <1>3, <1>4, <1>5

Header == Origin + HeaderAt - 1 - FlashBase

LEMMA HeaderCell ==
  ASSUME NEW i \in Images
  PROVE  /\ Header \in Cells
         /\ Whole(i) => flash[Header] = Content[i][HeaderAt]
         /\ Whole(i)' => flash'[Header] = Content[i][HeaderAt]
<1>1. /\ Content[i] \in Seq(Values \ {Garbage}) /\ HeaderAt \in DOMAIN Content[i]
      /\ Origin + Len(Content[i]) <= End
  BY ImagesAssumption
<1>2. HeaderAt \in 1 .. Len(Content[i]) /\ Len(Content[i]) \in Nat
  BY <1>1
<1>3. Header \in Cells
  BY <1>1, <1>2, LayoutAssumption, NumCellsType DEF Header, Cells
<1> QED
  BY <1>1, <1>3 DEF Whole, Header

(* A region never holds two images, and a step cannot replace one by the   *)
(* other.                                                                  *)
LEMMA WholeUnique ==
  ASSUME NEW i \in Images, NEW j \in Images
  PROVE  /\ Whole(i) /\ Whole(j) => i = j
         /\ Whole(i)' /\ Whole(j)' => i = j
         /\ RangeInv /\ [Step]_vars /\ Whole(i) /\ Whole(j)' => i = j
<1>1. Content[i][HeaderAt] = Content[j][HeaderAt] => i = j
  BY ImagesAssumption
<1>2. /\ Content[i][HeaderAt] \notin {FF, Zero, Garbage}
      /\ Content[j][HeaderAt] \notin {FF, Zero, Garbage}
  BY ImagesAssumption
<1>3. RangeInv /\ [Step]_vars =>
        flash'[Header] \in {flash[Header], FF, Zero, Garbage} \/ flash[Header] = FF
  BY CellStep, HeaderCell
<1> QED
  BY <1>1, <1>2, <1>3, HeaderCell

LEMMA ImageThereIs ==
  /\ \A i \in Images : (Whole(i) => ImageThere = i) /\ (Whole(i)' => ImageThere' = i)
  /\ (\A i \in Images : ~Whole(i)) => ImageThere = Torn
  /\ (\A i \in Images : ~Whole(i)') => ImageThere' = Torn
BY WholeUnique DEF ImageThere

LEMMA InitStore == Init => Store!Init
<1>1. ImageThere \in Images \cup {Torn}
  BY ImageThereIs
<1> QED
  BY <1>1 DEF Store!Init

LEMMA StepStore == RangeInv /\ [Step]_vars => [Store!Next]_([r \in {Target} |-> ImageThere])
<1> SUFFICES ASSUME RangeInv, [Step]_vars
             PROVE  [Store!Next]_([r \in {Target} |-> ImageThere])
  OBVIOUS
<1>1. CASE \E i \in Images : Whole(i)
  <2>1. PICK i \in Images : Whole(i)
    BY <1>1
  <2>2. CASE \E j \in Images : Whole(j)'
    <3>1. Whole(i)'
      BY <2>1, <2>2, WholeUnique
    <3> QED
      BY <2>1, <3>1, ImageThereIs
  <2>3. CASE \A j \in Images : ~Whole(j)'
    <3>1. ImageThere' = Torn
      BY <2>3, ImageThereIs
    <3>2. Store!Touch(Target)
      BY <3>1 DEF Store!Touch
    <3> QED
      BY <3>2 DEF Store!Next
  <2> QED
    BY <2>2, <2>3
<1>2. CASE \A i \in Images : ~Whole(i)
  <2>1. ImageThere = Torn
    BY <1>2, ImageThereIs
  <2>2. CASE \E j \in Images : Whole(j)'
    <3>1. PICK j \in Images : Whole(j)'
      BY <2>2
    <3>2. ImageThere' = j
      BY <3>1, ImageThereIs
    <3>3. Store!Complete(Target, j)
      BY <2>1, <3>2 DEF Store!Complete
    <3> QED
      BY <3>3 DEF Store!Next
  <2>3. CASE \A j \in Images : ~Whole(j)'
    BY <2>1, <2>3, ImageThereIs
  <2> QED
    BY <2>2, <2>3
<1> QED
  BY <1>1, <1>2

(* The flasher implements ImageStore: at every instant, after every power  *)
(* loss and with any blocks, the region holds one image of Images or none, *)
(* and never passes from one to another directly.                          *)
THEOREM FlasherImplementsImageStore == Spec => StoreSpec
BY InitStore, StepStore, RangeInvariant, NextIsStep, PTL DEF Spec, StoreSpec, Store!Spec

-----------------------------------------------------------------------------
(* An acknowledged half-word is in place, its page will not be erased in   *)
(* this session, and the running write does not concern it.                *)
AckKept ==
  \A c \in Cells : acked[c] # NoAck =>
    /\ flash[c] = acked[c]
    /\ PageOf(c) \in erased
    /\ ~Idle => c \notin JobCells

(* What the running write has programmed so far is in place: it erases its *)
(* page before the first half-word or not at all.                          *)
JobWritten ==
  ~Idle /\ 0 < job.i =>
    /\ JobPage \in erased
    /\ \A k \in 0 .. job.i - 1 : flash[job.dest + k - FlashBase] = job.data[k + 1]

AckInv == RangeInv /\ AckKept /\ JobWritten

LEMMA JobTypes ==
  ASSUME RangeInv
  PROVE  /\ job.dest \in Int /\ FlashBase \in Int /\ job.i \in Nat
         /\ Len(job.data) \in Nat /\ job.data \in Seq(Values) /\ Cells \subseteq Int
         /\ job \in [dest : Addresses, data : Seq(Values), i : Nat]
         /\ ~Idle => 0 < Len(job.data)
BY LayoutAssumption, NumCellsType DEF RangeInv, TypeOK, Addresses, Cells, JobInRange

(* Steps after which nothing is acknowledged or nothing has changed.       *)
LEMMA AckForget ==
  ASSUME job' = NoJob, acked' = NoAcks
  PROVE  AckKept' /\ JobWritten'
BY DEF AckKept, JobWritten, Idle, NoAcks

LEMMA AckGiveUp ==
  ASSUME AckInv, job' = NoJob, UNCHANGED <<flash, erased, acked>>
  PROVE  AckKept' /\ JobWritten'
BY DEF AckInv, AckKept, JobWritten, Idle

LEMMA AckFlashDataWrite ==
  ASSUME AckInv, NEW b \in SoundBlocks, FlashDataWrite(b)
  PROVE  AckKept' /\ JobWritten'
<1> DEFINE first == Absolute(b.address)
           last  == Wrap32(first + Len(b.data))
<1>1. CASE first < Origin \/ last > End
  <2>1. UNCHANGED <<flash, erased, job, acked>>
    BY <1>1 DEF FlashDataWrite, OutOfRange, RefuseWrite, StartWrite
  <2> QED
    BY <2>1 DEF AckInv, AckKept, JobWritten, Idle, JobCells, JobPage
<1>2. CASE ~(first < Origin) /\ ~(last > End)
  <2>1. /\ job' = [dest |-> first, data |-> b.data, i |-> 0]
        /\ flash' = flash /\ Idle
        /\ erased' = IF b.num = 0 THEN {} ELSE erased
        /\ acked' = [c \in Cells |->
                       IF b.num = 0 \/ FlashBase + c - first \in 0 .. Len(b.data) - 1
                       THEN NoAck ELSE acked[c]]
    BY <1>2 DEF FlashDataWrite, OutOfRange, RefuseWrite, StartWrite
  <2>2. job'.dest = first /\ job'.data = b.data /\ job'.i = 0
    BY <2>1
  <2>3. first \in Int /\ FlashBase \in Int /\ Cells \subseteq Int /\ Len(b.data) \in Nat
    <3>1. first \in Addresses
      BY <1>2, AcceptedRange
    <3> QED
      BY <3>1, LayoutAssumption, NumCellsType DEF Addresses, Cells, SoundBlocks
  <2> HIDE DEF last
  <2>4. AckKept'
    <3> SUFFICES ASSUME NEW c \in Cells, acked'[c] # NoAck
                 PROVE  /\ flash'[c] = acked'[c]
                        /\ PageOf(c) \in erased'
                        /\ c \notin JobCells'
      BY DEF AckKept
    <3>1. b.num # 0 /\ ~(FlashBase + c - first \in 0 .. Len(b.data) - 1)
      BY <2>1
    <3>2. acked'[c] = acked[c] /\ erased' = erased
      BY <2>1, <3>1
    <3>3. c \notin JobCells'
      BY <2>2, <2>3, <3>1 DEF JobCells
    <3> QED
      BY <2>1, <3>2, <3>3 DEF AckInv, AckKept
    <2>6. JobWritten'
    BY <2>2 DEF JobWritten
  <2> QED
    BY <2>4, <2>6
<1> QED
  BY <1>1, <1>2

LEMMA AckErasePage ==
  ASSUME AckInv, ErasePage
  PROVE  AckKept' /\ JobWritten'
<1>1. /\ JobPage \notin erased /\ ~Idle
      /\ flash' = [c \in Cells |-> IF PageOf(c) = JobPage THEN FF ELSE flash[c]]
      /\ erased' = erased \cup {JobPage} /\ UNCHANGED <<job, acked>>
  BY DEF ErasePage, Running
<1>2. AckKept'
  BY <1>1 DEF AckInv, AckKept, Idle, JobCells
<1>4. ~(0 < job.i)
  BY <1>1 DEF AckInv, JobWritten
<1> QED
  BY <1>1, <1>2, <1>4 DEF JobWritten

LEMMA AckProgramHalfword ==
  ASSUME AckInv, ProgramHalfword
  PROVE  AckKept' /\ JobWritten'
<1>1. /\ Running /\ JobPage \in erased /\ ~Idle
      /\ flash' = [flash EXCEPT ![JobCell] = job.data[job.i + 1]]
      /\ job' = [job EXCEPT !.i = job.i + 1]
      /\ UNCHANGED <<erased, acked>>
  BY DEF ProgramHalfword, Running
<1>2. job'.dest = job.dest /\ job'.data = job.data /\ job'.i = job.i + 1
  BY <1>1, JobTypes DEF AckInv
<1>3. JobCell \in JobCells /\ JobCells \subseteq Cells /\ JobCell \in Cells
  BY <1>1, RunningInRegion DEF AckInv, Region
<1>4. JobCells' = JobCells /\ JobPage' = JobPage
  BY <1>2 DEF JobCells, JobPage
<1>5. flash \in [Cells -> Values]
  BY DEF AckInv, RangeInv, TypeOK
<1>6. AckKept'
  BY <1>1, <1>3, <1>4, <1>5 DEF AckInv, AckKept
<1>8. ASSUME NEW k \in 0 .. job.i
      PROVE  flash'[job.dest + k - FlashBase] = job.data[k + 1]
  <2>1. job.dest \in Int /\ FlashBase \in Int /\ job.i \in Nat
    BY JobTypes DEF AckInv
  <2>2. CASE k = job.i
    BY <1>1, <1>3, <1>5, <2>2 DEF JobCell
  <2>3. CASE k # job.i
    <3>1. k \in 0 .. job.i - 1 /\ 0 < job.i /\ job.dest + k - FlashBase # JobCell
      BY <2>1, <2>3 DEF JobCell
    <3>2. flash[job.dest + k - FlashBase] = job.data[k + 1]
      BY <1>1, <3>1 DEF AckInv, JobWritten
    <3> QED
      BY <1>1, <1>5, <3>1, <3>2
  <2> QED
    BY <2>2, <2>3
<1>9. 0 .. (job.i + 1) - 1 = 0 .. job.i
  BY JobTypes DEF AckInv
<1>10. JobWritten'
  BY <1>1, <1>2, <1>4, <1>8, <1>9 DEF JobWritten
<1> QED
  BY <1>6, <1>10

LEMMA AckWriteDone ==
  ASSUME AckInv, WriteDone
  PROVE  AckKept' /\ JobWritten'
<1>1. /\ ~Idle /\ job.i = Len(job.data) /\ job' = NoJob
      /\ acked' = [c \in Cells |-> IF c \in JobCells /\ PageOf(c) = JobPage
                     THEN job.data[FlashBase + c - job.dest + 1] ELSE acked[c]]
      /\ UNCHANGED <<flash, erased>>
  BY DEF WriteDone
<1>2. Idle'
  BY <1>1 DEF Idle
<1>3. ASSUME NEW c \in Cells, acked'[c] # NoAck
      PROVE  flash'[c] = acked'[c] /\ PageOf(c) \in erased'
  <2>1. CASE c \in JobCells /\ PageOf(c) = JobPage
    <3>1. PICK k \in 0 .. Len(job.data) - 1 : c = job.dest + k - FlashBase
      BY <2>1 DEF JobCells
    <3>2. FlashBase + c - job.dest + 1 = k + 1 /\ 0 < job.i
      BY <1>1, <3>1, JobTypes DEF AckInv
    <3>3. flash[c] = job.data[k + 1] /\ JobPage \in erased
      BY <1>1, <3>1, <3>2 DEF AckInv, JobWritten
    <3> QED
      BY <1>1, <2>1, <3>2, <3>3
  <2>2. CASE ~(c \in JobCells /\ PageOf(c) = JobPage)
    BY <1>1, <1>3, <2>2 DEF AckInv, AckKept
  <2> QED
    BY <2>1, <2>2
<1> QED
  BY <1>2, <1>3 DEF AckKept, JobWritten

LEMMA InitAckInv == Init => AckInv
BY InitRangeInv DEF Init, AckInv, AckKept, JobWritten, Idle, NoAcks

LEMMA StepAckInv == AckInv /\ [Step]_vars => AckInv'
<1> SUFFICES ASSUME AckInv, [Step]_vars PROVE AckKept' /\ JobWritten'
  BY StepRangeInv DEF AckInv
<1>1. CASE \E b \in SoundBlocks : FlashDataWrite(b)
  BY <1>1, AckFlashDataWrite
<1>2. CASE RejectBlock \/ LoseReply \/ UNCHANGED vars
  BY <1>2 DEF RejectBlock, LoseReply, vars, AckInv, AckKept, JobWritten, Idle,
     JobCells, JobPage
<1>3. CASE ClearProgram \/ OddFirstBlock
  BY <1>3, AckForget DEF ClearProgram, OddFirstBlock, Idle
<1>4. CASE PageOutOfRange \/ ProgrammingError
  BY <1>4, AckGiveUp DEF PageOutOfRange, ProgrammingError
<1>5. CASE ErasePage
  BY <1>5, AckErasePage
<1>6. CASE ProgramHalfword
  BY <1>6, AckProgramHalfword
<1>7. CASE WriteDone
  BY <1>7, AckWriteDone
<1>8. CASE NodeReset
  BY <1>8, AckForget DEF NodeReset
<1> QED
  BY <1>1, <1>2, <1>3, <1>4, <1>5, <1>6, <1>7, <1>8 DEF Step, FlashWrite

(* What was acknowledged stays until the session ends.                     *)
THEOREM AckedStays == Spec => []AckedDurable
<1>1. AckInv => AckedDurable
  BY DEF AckInv, AckKept, AckedDurable
<1> QED
  BY <1>1, InitAckInv, StepAckInv, NextIsStep, PTL DEF Spec

-----------------------------------------------------------------------------
(* The cell of a content's half-word, the half-words in the first n blocks *)
(* of the image being downloaded, and the phases of a download.            *)
CellAt(k) == Origin + k - 1 - FlashBase
Before(n) == {k \in DOMAIN Content[want] : k <= n * BlockSize}
Underway == {"send", "wait", "verify"}

-----------------------------------------------------------------------------
(* Division with remainder, and that the quotient is unique.               *)
LEMMA DivMod ==
  ASSUME NEW P \in Nat \ {0}, NEW x \in Nat
  PROVE  x = P * (x \div P) + (x % P) /\ x \div P \in Nat /\ x % P \in 0 .. P - 1
OBVIOUS

LEMMA Mul ==
  ASSUME NEW P \in Nat \ {0}, NEW k \in Int, k >= 1
  PROVE  P * k >= P
OBVIOUS

LEMMA DivUnique ==
  ASSUME NEW P \in Nat \ {0}, NEW q \in Int, NEW r \in 0 .. P - 1, NEW y \in Nat, y = P * q + r
  PROVE  y \div P = q
<1> DEFINE k == y \div P
           t == y % P
<1>1. y = P * k + t /\ k \in Nat /\ t \in 0 .. P - 1
  BY DivMod
<1> HIDE DEF k, t
<1>2. P * (q - k) = t - r
  BY <1>1
<1>3. CASE q - k >= 1
  BY <1>1, <1>2, <1>3, Mul
<1>4. CASE k - q >= 1
  <2>1. P * (k - q) = r - t
    BY <1>1, <1>2
  <2> QED BY <1>1, <2>1, <1>4, Mul
<1>5. CASE k = q
  BY <1>5 DEF k
<1> QED BY <1>1, <1>3, <1>4, <1>5

LEMMA Mult ==
  ASSUME NEW B \in Nat \ {0}, NEW n \in Int, NEW m \in Int, n <= m
  PROVE  B * n <= B * m
OBVIOUS

-----------------------------------------------------------------------------
(* What ImagesAssumption and LayoutAssumption say of an image and of the   *)
(* flash.                                                                  *)
LEMMA ContentTypes ==
  ASSUME NEW i \in Images
  PROVE  /\ Content[i] \in Seq(Values) /\ Len(Content[i]) \in Nat
         /\ DOMAIN Content[i] = 1 .. Len(Content[i])
         /\ \A k \in DOMAIN Content[i] : Content[i][k] \in Values /\ Content[i][k] # NoAck
         /\ HeaderAt \in DOMAIN Content[i]
         /\ Content[i][HeaderAt] \notin {FF, Zero, Garbage}
         /\ Origin + Len(Content[i]) <= End
<1>1. /\ Content[i] \in Seq(Values \ {Garbage}) /\ HeaderAt \in DOMAIN Content[i]
      /\ Origin + Len(Content[i]) <= End
      /\ Content[i][HeaderAt] \notin {FF, Zero, Garbage}
  BY ImagesAssumption
<1>2. /\ Content[i] \in Seq(Values) /\ Len(Content[i]) \in Nat
      /\ DOMAIN Content[i] = 1 .. Len(Content[i])
  BY <1>1
<1>3. \A k \in DOMAIN Content[i] : Content[i][k] \in Values
  BY <1>2
<1> QED BY <1>1, <1>2, <1>3, DataAssumption

LEMMA LayoutTypes ==
  /\ NumCells \in Nat /\ PageSize \in Nat \ {0} /\ BlockSize \in Nat \ {0}
  /\ FlashBase \in Nat /\ AddrMod \in Nat /\ Origin \in Nat /\ End \in Nat
  /\ FlashBase <= Origin /\ Origin < End /\ End <= FlashBase + NumCells
  /\ NumCells < FlashBase /\ FlashBase + NumCells < AddrMod
BY LayoutAssumption, NumCellsType, BlockAssumption

LEMMA ContentCells ==
  ASSUME NEW i \in Images, NEW k \in DOMAIN Content[i]
  PROVE  CellAt(k) \in Cells
BY ContentTypes, LayoutTypes DEF CellAt, Cells

(* NumBlocks is the number of blocks that cover an image, and no more.     *)
LEMMA NumBlocksBounds ==
  ASSUME NEW i \in Images, NEW n \in Nat
  PROVE  /\ NumBlocks(i) \in Nat /\ 0 < NumBlocks(i)
         /\ n < NumBlocks(i) => n * BlockSize < Len(Content[i])
         /\ n = NumBlocks(i) => Len(Content[i]) <= n * BlockSize
<1> DEFINE L == Len(Content[i])
           B == BlockSize
           q == (L + B - 1) \div B
           r == (L + B - 1) % B
<1>1. L \in Nat /\ 1 <= L /\ B \in Nat \ {0}
  BY ContentTypes, LayoutTypes
<1>2. L + B - 1 = B * q + r /\ q \in Nat /\ r \in 0 .. B - 1
  <2>1. L + B - 1 \in Nat
    BY <1>1
  <2> HIDE DEF L, B
  <2> QED BY <1>1, <2>1, DivMod
<1>3. NumBlocks(i) = q
  BY DEF NumBlocks
<1> HIDE DEF L, B, q, r
<1>4. q # 0
  <2>1. CASE q = 0
    <3>1. B * q = 0
      BY <1>1, <2>1
    <3> QED BY <1>1, <1>2, <3>1
  <2> QED BY <2>1
<1>5. n < q => n * B < L
  <2>1. ASSUME n + 1 <= q PROVE n * B < L
    <3>1. B * (n + 1) <= B * q
      BY <1>1, <1>2, <2>1, Mult
    <3>2. B * (n + 1) = n * B + B
      BY <1>1
    <3> QED BY <1>1, <1>2, <3>1, <3>2
  <2> QED BY <1>2, <2>1
<1>6. n = q => L <= n * B
  BY <1>1, <1>2
<1> QED BY <1>2, <1>3, <1>4, <1>5, <1>6 DEF L, B

(* BlockOf: the half-words from n * BlockSize on, to the end of the block  *)
(* or of the image.                                                        *)
LEMMA BlockFacts ==
  ASSUME NEW i \in Images, NEW n \in Nat, n < NumBlocks(i), NEW b, b = BlockOf(i, n)
  PROVE  /\ b.num = n /\ b.address = n * BlockSize /\ b.data \in Seq(Values)
         /\ Len(b.data) \in 1 .. BlockSize /\ n * BlockSize \in Nat
         /\ n * BlockSize + Len(b.data) <= Len(Content[i])
         /\ \A j \in 1 .. Len(b.data) : b.data[j] = Content[i][n * BlockSize + j]
         /\ \A k \in DOMAIN Content[i] :
              n * BlockSize < k /\ k <= n * BlockSize + BlockSize
                => k - n * BlockSize \in 1 .. Len(b.data)
<1> DEFINE first == n * BlockSize
           left  == Len(Content[i]) - first
           len   == IF left < BlockSize THEN left ELSE BlockSize
<1>1. first \in Nat /\ first < Len(Content[i]) /\ Len(Content[i]) \in Nat /\ BlockSize \in Nat \ {0}
      /\ Content[i] \in Seq(Values) /\ DOMAIN Content[i] = 1 .. Len(Content[i])
  BY NumBlocksBounds, ContentTypes, LayoutTypes
<1>2. b.num = n /\ b.address = first /\ b.data = SubSeq(Content[i], first + 1, first + len)
  BY DEF BlockOf
<1> HIDE DEF first
<1>3. len \in 1 .. BlockSize /\ first + len <= Len(Content[i])
  BY <1>1
<1>4. \A k \in DOMAIN Content[i] : first < k /\ k <= first + BlockSize => k - first \in 1 .. len
  BY <1>1
<1> HIDE DEF len
<1>5. \A k \in first + 1 .. first + len : Content[i][k] \in Values
  BY <1>1, <1>3
<1>6. first + 1 \in Int /\ first + len \in Int /\ (first + len) - (first + 1) + 1 = len
      /\ first + 1 <= first + len
  BY <1>1, <1>3
<1>7. b.data \in Seq(Values) /\ Len(b.data) = len
      /\ \A j \in 1 .. len : b.data[j] = Content[i][first + 1 + j - 1]
  BY <1>2, <1>5, <1>6, SubSeqProperties
<1>8. \A j \in 1 .. len : first + 1 + j - 1 = first + j
  BY <1>1, <1>3
<1>9. \A j \in 1 .. len : b.data[j] = Content[i][first + j]
  BY <1>7, <1>8
<1> QED BY <1>1, <1>2, <1>3, <1>4, <1>7, <1>9 DEF first

(* The blocks of an image pass the range check and end in the region.      *)
LEMMA BlockSound ==
  ASSUME NEW i \in Images, NEW n \in Nat, n < NumBlocks(i)
  PROVE  /\ BlockOf(i, n) \in SoundBlocks
         /\ Absolute(BlockOf(i, n).address) = Origin + n * BlockSize
<1> DEFINE b == BlockOf(i, n)
           first == n * BlockSize
<1>1. /\ b.num = n /\ b.address = first /\ b.data \in Seq(Values)
      /\ Len(b.data) \in 1 .. BlockSize /\ first \in Nat /\ first + Len(b.data) <= Len(Content[i])
  BY BlockFacts
<1>2. b \in [num : Nat, address : Addresses, data : Seq(Values)]
  <2>1. first \in Addresses
    <3> HIDE DEF b, first
    <3> QED BY <1>1, ContentTypes, LayoutTypes DEF Addresses
  <2>2. b = [num |-> b.num, address |-> b.address, data |-> b.data]
    BY DEF BlockOf
  <2> HIDE DEF b, first
  <2> QED BY <1>1, <2>1, <2>2
<1> HIDE DEF b, first
<1>3. Absolute(first) = Origin + first
  BY <1>1, ContentTypes, LayoutTypes DEF Absolute, Wrap32
<1>4. InRange(b)
  <2>1. Absolute(b.address) = Origin + first
    BY <1>1, <1>3
  <2>2. /\ Origin + first \in Addresses /\ Origin <= Origin + first
        /\ Origin + first + Len(b.data) <= End
    <3>1. Origin + Len(Content[i]) <= End /\ Len(Content[i]) \in Nat /\ Len(b.data) \in Nat
      BY <1>1, ContentTypes, LayoutTypes
    <3> DEFINE l == Len(b.data)
               c == Len(Content[i])
    <3>2. l \in Nat /\ c \in Nat /\ first \in Nat /\ first + l <= c /\ Origin + c <= End
      BY <1>1, <3>1
    <3> HIDE DEF l, c
    <3>3. Origin \in Nat /\ End \in Nat /\ AddrMod \in Nat /\ End < AddrMod
      BY LayoutTypes
    <3>4. /\ Origin + first \in 0 .. AddrMod - 1 /\ Origin <= Origin + first
          /\ Origin + first + l <= End
      BY <3>2, <3>3
    <3> QED BY <3>4 DEF Addresses, l
  <2> QED BY <2>1, <2>2 DEF InRange
<1>5. 0 < Len(b.data)
  BY <1>1, LayoutTypes
<1> QED BY <1>1, <1>2, <1>3, <1>4, <1>5 DEF SoundBlocks, b, first

(* The region begins with a page, and a page is a number of blocks, so a   *)
(* block of the master never crosses a page.                               *)
LEMMA OriginAligned == \E p \in Nat : Origin - FlashBase = PageSize * p
<1> DEFINE O == Origin - FlashBase
           q == O \div PageSize
           r == O % PageSize
<1>1. O \in Nat /\ PageSize \in Nat \ {0} /\ O \in Region
  BY LayoutTypes DEF Region, Cells
<1>2. O = PageSize * q + r /\ q \in Nat /\ r \in 0 .. PageSize - 1
  <2> HIDE DEF O
  <2> QED BY <1>1, DivMod
<1>3. PageOf(O) = q
  BY DEF PageOf
<1>4. CASE r # 0
  <2> HIDE DEF O, q, r
  <2>1. O - 1 = PageSize * q + (r - 1) /\ r - 1 \in 0 .. PageSize - 1 /\ O - 1 \in Nat
    <3>1. PageSize * q \in Nat
      BY <1>1, <1>2
    <3> QED BY <1>1, <1>2, <1>4, <3>1
  <2>2. (O - 1) \div PageSize = q
    BY <1>1, <1>2, <2>1, DivUnique
  <2>3. PageOf(O - 1) = PageOf(O)
    BY <1>3, <2>2 DEF PageOf
  <2>4. O - 1 \in Cells
    <3>1. O <= NumCells - 1 /\ O \in Nat
      BY <1>1 DEF Region, Cells
    <3> QED BY <2>1, <3>1, LayoutTypes DEF Cells
  <2>5. O - 1 \in Region
    BY <1>1, <2>3, <2>4, LayoutAssumption
  <2>6. Origin <= FlashBase + (O - 1)
    BY <2>5 DEF Region
  <2> QED BY <2>6, LayoutTypes DEF O
<1>5. CASE r = 0
  <2> HIDE DEF q, r
  <2>1. O = PageSize * q
    BY <1>1, <1>2, <1>5
  <2> QED BY <1>2, <2>1
<1> QED BY <1>4, <1>5

LEMMA PageHasBlocks == \E m \in Nat \ {0} : PageSize = BlockSize * m
<1>1. PageSize \in Nat /\ BlockSize \in Nat \ {0} /\ PageSize # 0 /\ PageSize % BlockSize = 0
  BY BlockAssumption, LayoutTypes
<1> DEFINE m == PageSize \div BlockSize
<1>2. PageSize = BlockSize * m + (PageSize % BlockSize) /\ m \in Nat
  BY <1>1, DivMod
<1> HIDE DEF m
<1>3. PageSize = BlockSize * m
  BY <1>1, <1>2
<1>4. m # 0
  <2>1. m = 0 => BlockSize * m = 0
    BY <1>1
  <2> QED BY <1>1, <1>3, <2>1
<1> QED BY <1>2, <1>3, <1>4

LEMMA BlockInPage ==
  ASSUME NEW n \in Nat, NEW j \in 0 .. BlockSize - 1
  PROVE  PageOf(Origin + n * BlockSize + j - FlashBase) = PageOf(Origin + n * BlockSize - FlashBase)
<1> DEFINE P == PageSize
           B == BlockSize
<1>1. P \in Nat \ {0} /\ B \in Nat \ {0} /\ Origin \in Nat /\ FlashBase \in Nat
  BY LayoutTypes
<1>2. PICK p \in Nat : Origin - FlashBase = P * p
  BY OriginAligned
<1>3. PICK m \in Nat \ {0} : P = B * m
  BY PageHasBlocks
<1> DEFINE q == n \div m
           r == n % m
<1>4. n = m * q + r /\ q \in Nat /\ r \in 0 .. m - 1
  BY DivMod
<1> HIDE DEF P, B, q, r
<1>5. ASSUME NEW t \in 0 .. B - 1
      PROVE  PageOf(Origin + n * B + t - FlashBase) = p + q
  <2>1. B * (r + 1) <= P /\ B * r \in Nat
    BY <1>1, <1>3, <1>4, Mult
  <2>2. B * r + t \in 0 .. P - 1
    <3>1. B * (r + 1) = B * r + B
      BY <1>1, <1>4
    <3> QED BY <1>1, <2>1, <3>1
  <2>3. n * B = P * q + B * r
    <3>1. n * B = (m * q) * B + r * B
      BY <1>1, <1>4
    <3>2. (m * q) * B = P * q
      BY <1>1, <1>3, <1>4
    <3> QED BY <1>1, <1>4, <3>1, <3>2
  <2>4. Origin + n * B + t - FlashBase = P * (p + q) + (B * r + t)
    <3>1. P * (p + q) = P * p + P * q /\ P * p \in Nat /\ P * q \in Nat
      BY <1>1, <1>4
    <3>2. n * B \in Nat
      BY <1>1
    <3> QED BY <1>1, <1>2, <2>1, <2>3, <3>1, <3>2
  <2>5. P * (p + q) \in Nat /\ p + q \in Int
    BY <1>1, <1>4
  <2>6. (Origin + n * B + t - FlashBase) \div P = p + q
    <3> DEFINE y == Origin + n * B + t - FlashBase
               s == B * r + t
               k == p + q
    <3>1. y = P * k + s /\ s \in 0 .. P - 1 /\ k \in Int /\ y \in Nat
      BY <2>2, <2>4, <2>5
    <3> HIDE DEF y, s, k
    <3>2. y \div P = k
      BY <1>1, <3>1, DivUnique
    <3> QED BY <3>2 DEF y, k
  <2> QED BY <2>6 DEF PageOf, P
<1>6. j \in 0 .. B - 1 /\ 0 \in 0 .. B - 1
  BY <1>1 DEF B
<1>7. Origin + n * B + 0 - FlashBase = Origin + n * B - FlashBase
  BY <1>1
<1>8. PageOf(Origin + n * B + j - FlashBase) = p + q
  BY <1>5, <1>6
<1>9. PageOf(Origin + n * B - FlashBase) = p + q
  BY <1>5, <1>6, <1>7
<1> QED BY <1>8, <1>9 DEF B

-----------------------------------------------------------------------------
(* Where the master is; a write runs only while it waits, or between two   *)
(* downloads.                                                              *)
Progressing ==
  /\ want \in Images /\ next \in Nat /\ phase \in Underway \cup {"idle", "done"}
  /\ phase \in {"send", "wait"} => next < NumBlocks(want)
  /\ phase = "verify" => next = NumBlocks(want)
  /\ phase \in {"send", "verify", "done"} => Idle

(* The write that runs while the master waits is that of its block.        *)
Sending ==
  phase = "wait" /\ ~Idle =>
    job.dest = Origin + next * BlockSize /\ job.data = BlockOf(want, next).data

(* Half-words of the image that are acknowledged as they should be.        *)
Held(S) == \A k \in S : acked[CellAt(k)] = Content[want][k]

(* Without a reset since block 0, all blocks before the one to send are    *)
(* acknowledged. A block that was refused or timed out does not undo it:   *)
(* the master goes on, sends the same block again, or starts over.         *)
Kept == clean /\ phase \in Underway => Held(Before(next))

(* A positive answer that the master has not yet seen is the answer to the *)
(* block it has sent.                                                      *)
Answered == phase = "wait" /\ reply = "ok" => Held(Before(next + 1) \ Before(next))

(* Once the block with the header has been acknowledged, reset or not, the *)
(* region does not carry the header of another image until the download    *)
(* ends: only the blocks of this one are programmed.                       *)
HeaderOurs ==
  phase \in Underway /\ HeaderAt \in Before(next) =>
    flash[Header] \in {Content[want][HeaderAt], FF, Zero, Garbage}

(* The inductive invariant, with AckInv.                                   *)
Master == Progressing /\ Sending /\ Kept /\ Answered /\ HeaderOurs /\ VerifiedIsWanted

-----------------------------------------------------------------------------
(* The first n blocks, and the one after them.                             *)
LEMMA BeforeTypes ==
  ASSUME want \in Images, NEW n \in Nat
  PROVE  /\ Before(0) = {}
         /\ Before(n) \subseteq DOMAIN Content[want]
         /\ \A k \in Before(n) : k \in Nat /\ 1 <= k /\ k <= n * BlockSize
         /\ \A k \in Before(n + 1) \ Before(n) :
              k \in Nat /\ k \in DOMAIN Content[want]
                /\ n * BlockSize < k /\ k <= n * BlockSize + BlockSize
<1>1. /\ DOMAIN Content[want] = 1 .. Len(Content[want]) /\ Len(Content[want]) \in Nat
      /\ BlockSize \in Nat
  BY ContentTypes, LayoutTypes
<1>2. n * BlockSize \in Nat /\ (n + 1) * BlockSize = n * BlockSize + BlockSize /\ 0 * BlockSize = 0
  BY <1>1
<1> QED BY <1>1, <1>2 DEF Before

(* All blocks acknowledged: the image is there.                            *)
LEMMA WholeWhenHeld ==
  ASSUME AckInv, Progressing, Held(Before(next)), next = NumBlocks(want)
  PROVE  Whole(want)
<1>1. want \in Images /\ next \in Nat
  BY DEF Progressing
<1>2. ASSUME NEW k \in DOMAIN Content[want] PROVE flash[CellAt(k)] = Content[want][k]
  <2>1. k \in Before(next)
    <3>1. Len(Content[want]) <= next * BlockSize /\ k \in 1 .. Len(Content[want])
      BY <1>1, <1>2, NumBlocksBounds, ContentTypes
    <3>2. next * BlockSize \in Nat /\ Len(Content[want]) \in Nat
      BY <1>1, LayoutTypes, ContentTypes
    <3> QED BY <3>1, <3>2 DEF Before
  <2>2. acked[CellAt(k)] = Content[want][k] /\ CellAt(k) \in Cells /\ Content[want][k] # NoAck
    BY <1>1, <2>1, ContentCells, ContentTypes DEF Held
  <2> QED BY <2>2 DEF AckInv, AckKept
<1> QED BY <1>2 DEF Whole, CellAt

(* The write of a block concerns no block before it, acknowledges each of  *)
(* its half-words as they lie in one page, and programs the header only    *)
(* with that of the image.                                                 *)
LEMMA BlockSent ==
  ASSUME AckInv, Progressing, Sending, phase = "wait", ~Idle
  PROVE  /\ \A k \in Before(next) : CellAt(k) \notin JobCells
         /\ \A k \in Before(next + 1) \ Before(next) :
              /\ CellAt(k) \in JobCells /\ PageOf(CellAt(k)) = JobPage
              /\ job.data[FlashBase + CellAt(k) - job.dest + 1] = Content[want][k]
         /\ job.i < Len(job.data) /\ JobCell = Header
              => job.data[job.i + 1] = Content[want][HeaderAt]
<1>1. want \in Images /\ next \in Nat /\ next < NumBlocks(want)
  BY DEF Progressing
<1> DEFINE b == BlockOf(want, next)
           first == next * BlockSize
<1>2. /\ b.data \in Seq(Values) /\ Len(b.data) \in 1 .. BlockSize /\ first \in Nat
      /\ \A j \in 1 .. Len(b.data) : b.data[j] = Content[want][first + j]
      /\ \A k \in DOMAIN Content[want] :
           first < k /\ k <= first + BlockSize => k - first \in 1 .. Len(b.data)
  BY <1>1, BlockFacts
<1>3. job.dest = Origin + first /\ job.data = b.data /\ job.i \in Nat
  BY JobTypes DEF Sending, AckInv
<1>4. Origin \in Nat /\ FlashBase \in Nat /\ BlockSize \in Nat \ {0}
  BY LayoutTypes
<1>5. ASSUME NEW k \in Before(next) PROVE CellAt(k) \notin JobCells
  <2>1. k \in Nat /\ k <= first
    BY <1>1, BeforeTypes
  <2>2. \A j \in 0 .. Len(job.data) - 1 : CellAt(k) # job.dest + j - FlashBase
    <3> HIDE DEF first
    <3> QED BY <1>2, <1>3, <1>4, <2>1 DEF CellAt
  <2> QED BY <2>2 DEF JobCells
<1>6. ASSUME NEW k \in Before(next + 1) \ Before(next)
      PROVE  /\ CellAt(k) \in JobCells /\ PageOf(CellAt(k)) = JobPage
             /\ job.data[FlashBase + CellAt(k) - job.dest + 1] = Content[want][k]
  <2>1. k \in DOMAIN Content[want] /\ k \in Nat /\ first < k /\ k <= first + BlockSize
    BY <1>1, BeforeTypes
  <2> DEFINE j == k - first
  <2>2. j \in 1 .. Len(b.data) /\ first + j = k
    BY <1>2, <2>1
  <2>3. CellAt(k) = job.dest + (j - 1) - FlashBase /\ j - 1 \in 0 .. Len(job.data) - 1
    <3> HIDE DEF first
    <3> QED BY <1>2, <1>3, <1>4, <2>1, <2>2 DEF CellAt
  <2>4. CellAt(k) \in JobCells
    BY <2>3 DEF JobCells
  <2>5. PageOf(CellAt(k)) = JobPage
    <3>1. j - 1 \in 0 .. BlockSize - 1
      <4> DEFINE l == Len(b.data)
      <4>1. l \in 1 .. BlockSize /\ j \in 1 .. l
        BY <1>2, <2>2
      <4> HIDE DEF j, l
      <4> QED BY <1>4, <4>1
    <3>2. PageOf(Origin + first + (j - 1) - FlashBase) = PageOf(Origin + first - FlashBase)
      <4> HIDE DEF j
      <4> QED BY <1>1, <3>1, BlockInPage
    <3>3. JobPage = PageOf(Origin + first - FlashBase)
      <4>1. job.dest = Origin + first
        BY <1>3
      <4>2. first \in Nat
        BY <1>2
      <4> HIDE DEF first, b
      <4>3. job.dest - FlashBase = Origin + first - FlashBase
        BY <1>4, <4>1, <4>2
      <4> QED BY <4>3, Zenon DEF JobPage
    <3>4. CellAt(k) = Origin + first + (j - 1) - FlashBase
      <4> HIDE DEF j, first
      <4> QED BY <1>3, <2>3
    <3> HIDE DEF j, first
    <3> QED BY <3>2, <3>3, <3>4
  <2>6. FlashBase + CellAt(k) - job.dest + 1 = j
    <3>1. first \in Nat /\ k \in Nat
      BY <1>2, <2>1
    <3> HIDE DEF first, j
    <3>2. FlashBase + CellAt(k) - job.dest + 1 = k - first
      BY <1>3, <1>4, <3>1 DEF CellAt
    <3> QED BY <3>2 DEF j
  <2>7. job.data[j] = Content[want][k]
    <3> HIDE DEF j, first
    <3> QED BY <1>2, <1>3, <2>2
  <2> QED BY <2>4, <2>5, <2>6, <2>7
<1>7. ASSUME job.i < Len(job.data), JobCell = Header
      PROVE  job.data[job.i + 1] = Content[want][HeaderAt]
  <2>1. HeaderAt \in Nat
    BY <1>1, ContentTypes
  <2>2. HeaderAt = first + (job.i + 1)
    <3>1. job.dest + job.i - FlashBase = Origin + HeaderAt - 1 - FlashBase
      BY <1>7 DEF JobCell, Header
    <3>2. first \in Nat /\ job.dest = Origin + first /\ job.i \in Nat
      BY <1>2, <1>3
    <3> HIDE DEF first
    <3> QED BY <1>4, <2>1, <3>1, <3>2
  <2>3. job.i + 1 \in 1 .. Len(b.data)
    BY <1>2, <1>3, <1>7
  <2> QED BY <1>2, <1>3, <2>2, <2>3
<1> QED BY <1>5, <1>6, <1>7

LEMMA HeaderIsCell ==
  ASSUME want \in Images
  PROVE  Header = CellAt(HeaderAt) /\ Header \in Cells /\ HeaderAt \in DOMAIN Content[want]
BY ContentTypes, ContentCells DEF Header, CellAt

(* platform_flash_write, while the master waits or between downloads.      *)
LEMMA FlashWriteMaster ==
  ASSUME AckInv, Master, FlashWrite, UNCHANGED master
  PROVE  Master'
<1>1. want \in Images /\ next \in Nat /\ next + 1 \in Nat /\ UNCHANGED <<want, next, phase, clean>>
  BY DEF Master, Progressing, master
<1>2. ~Idle
  BY DEF FlashWrite, PageOutOfRange, ErasePage, ProgramHalfword, ProgrammingError, WriteDone,
     Running
<1>3. phase \in {"wait", "idle"}
  BY <1>2 DEF Master, Progressing, Underway
<1>4. Progressing' /\ VerifiedIsWanted'
  BY <1>1, <1>3 DEF Master, Progressing, VerifiedIsWanted
<1>5. CASE phase = "idle"
  BY <1>1, <1>4, <1>5 DEF Master, Sending, Kept, Answered, HeaderOurs, Underway
<1>6. CASE phase = "wait"
  <2>1. /\ \A k \in Before(next) : CellAt(k) \notin JobCells
        /\ \A k \in Before(next + 1) \ Before(next) :
             /\ CellAt(k) \in JobCells /\ PageOf(CellAt(k)) = JobPage
             /\ job.data[FlashBase + CellAt(k) - job.dest + 1] = Content[want][k]
        /\ job.i < Len(job.data) /\ JobCell = Header
             => job.data[job.i + 1] = Content[want][HeaderAt]
    BY <1>2, <1>6, BlockSent DEF Master
  <2>2. /\ \A n \in Nat : Before(n)' = Before(n)
        /\ \A k \in Before(next) : CellAt(k) \in Cells
        /\ \A k \in Before(next + 1) \ Before(next) : CellAt(k) \in Cells
    BY <1>1, BeforeTypes, ContentCells DEF Before
  <2>3. CASE acked' = acked /\ (reply' = "error" \/ reply' = reply)
    <3>1. Kept' /\ Answered'
      BY <1>1, <2>2, <2>3 DEF Master, Kept, Answered, Held
    <3>2. Sending'
      <4>1. Idle' \/ (job'.dest = job.dest /\ job'.data = job.data)
        <5>1. job \in [dest : Addresses, data : Seq(Values), i : Nat]
          BY JobTypes DEF AckInv
        <5> QED
          BY <5>1 DEF FlashWrite, PageOutOfRange, ErasePage, ProgramHalfword,
                      ProgrammingError, WriteDone, Idle
      <4>2. BlockOf(want, next)' = BlockOf(want, next)
        BY <1>1 DEF BlockOf
      <4> QED BY <1>1, <1>2, <4>1, <4>2 DEF Master, Sending
    <3>3. HeaderOurs'
      <4>1. CASE flash' = flash
        BY <1>1, <2>2, <4>1 DEF Master, HeaderOurs
      <4>2. CASE ErasePage
        BY <1>1, <2>2, <4>2, HeaderIsCell DEF Master, HeaderOurs, ErasePage
      <4>3. CASE ProgramHalfword
        <5>1. flash \in [Cells -> Values] /\ Header \in Cells
          BY <1>1, HeaderIsCell DEF AckInv, RangeInv, TypeOK
        <5>2. flash' = [flash EXCEPT ![JobCell] = job.data[job.i + 1]] /\ job.i < Len(job.data)
          BY <4>3 DEF ProgramHalfword, Running
        <5>3. flash'[Header] \in {flash[Header], Content[want][HeaderAt]}
          BY <2>1, <5>1, <5>2
        <5> QED BY <1>1, <2>2, <5>3 DEF Master, HeaderOurs
      <4> QED BY <4>1, <4>2, <4>3
          DEF FlashWrite, PageOutOfRange, ProgrammingError, WriteDone
    <3> QED BY <1>4, <3>1, <3>2, <3>3 DEF Master
  <2>4. CASE WriteDone
    <3>1. /\ job' = NoJob /\ flash' = flash
          /\ acked' = [c \in Cells |-> IF c \in JobCells /\ PageOf(c) = JobPage
                         THEN job.data[FlashBase + c - job.dest + 1] ELSE acked[c]]
      BY <2>4 DEF WriteDone
    <3>2. Sending'
      BY <3>1 DEF Sending, Idle
    <3>3. HeaderOurs'
      BY <1>1, <2>2, <3>1 DEF Master, HeaderOurs
    <3>4. \A k \in Before(next) : acked'[CellAt(k)] = acked[CellAt(k)]
      BY <2>1, <2>2, <3>1
    <3>5. \A k \in Before(next + 1) \ Before(next) : acked'[CellAt(k)] = Content[want][k]
      BY <2>1, <2>2, <3>1
    <3>6. Kept' /\ Answered'
      BY <1>1, <2>2, <3>4, <3>5 DEF Master, Kept, Answered, Held
    <3> QED BY <1>4, <3>2, <3>3, <3>6 DEF Master
  <2> QED BY <2>3, <2>4
      DEF FlashWrite, PageOutOfRange, ErasePage, ProgramHalfword, ProgrammingError
<1> QED BY <1>3, <1>5, <1>6

LEMMA NothingBefore == want \in Images => Before(0) = {}
BY BeforeTypes

(* Before block 0, and between two downloads, there is little to keep.     *)
LEMMA AtFirst ==
  ASSUME Progressing', Idle', next' = 0, phase' = "send"
  PROVE  Master'
<1>1. Before(0)' = {}
  BY NothingBefore, BeforeTypes, ContentTypes, LayoutTypes DEF Progressing, Before
<1> QED BY <1>1 DEF Master, Sending, Kept, Held, Answered, HeaderOurs, VerifiedIsWanted, Before

LEMMA Elsewhere ==
  ASSUME Progressing', phase' \notin Underway, VerifiedIsWanted'
  PROVE  Master'
BY DEF Master, Sending, Kept, Answered, HeaderOurs, Underway

-----------------------------------------------------------------------------
(* The steps of the master, of the faults and of anyone else.              *)
LEMMA SendBlockMaster == ASSUME AckInv, Master, SendBlock PROVE Master'
<1> DEFINE b == BlockOf(want, next)
<1>1. /\ phase = "send" /\ phase' = "wait" /\ FlashDataWrite(b) /\ UNCHANGED <<want, next>>
      /\ clean' = (clean \/ next = 0)
  BY DEF SendBlock
<1>2. want \in Images /\ next \in Nat /\ next < NumBlocks(want)
  BY <1>1 DEF Master, Progressing
<1>3. Progressing' /\ VerifiedIsWanted' /\ flash' = flash
  BY <1>1, <1>2 DEF Progressing, Underway, VerifiedIsWanted, FlashDataWrite, RefuseWrite, StartWrite
<1>4. Before(next)' = Before(next) /\ b' = b /\ (next = 0 => Before(next) = {})
  BY <1>1, <1>2, NothingBefore DEF Before, BlockOf
<1>5. HeaderOurs'
  BY <1>1, <1>3, <1>4 DEF Master, HeaderOurs, Underway
<1>6. CASE OutOfRange(b)
  <2>1. reply' = "error" /\ UNCHANGED <<job, acked>> /\ Idle
    BY <1>1, <1>6 DEF FlashDataWrite, RefuseWrite
  <2>2. Sending' /\ Answered'
    BY <2>1 DEF Sending, Answered, Idle
  <2>3. Kept'
    BY <1>1, <1>4, <2>1 DEF Master, Kept, Held, Underway
  <2> QED BY <1>3, <1>5, <2>2, <2>3 DEF Master
<1>7. CASE ~OutOfRange(b)
  <2> DEFINE first == Absolute(b.address)
  <2>1. /\ job' = [dest |-> first, data |-> b.data, i |-> 0]
        /\ reply' = "none"
        /\ acked' = [c \in Cells |->
                       IF b.num = 0 \/ FlashBase + c - first \in 0 .. Len(b.data) - 1
                       THEN NoAck ELSE acked[c]]
    BY <1>1, <1>7 DEF FlashDataWrite, StartWrite
  <2>2. first = Origin + next * BlockSize /\ b.num = next
    BY <1>2, BlockSound, BlockFacts
  <2>3. Sending' /\ Answered'
    <3>1. job'.dest = first /\ job'.data = b.data
      BY <2>1
    <3>2. Sending'
      <4> HIDE DEF first, b
      <4> QED BY <1>1, <1>4, <2>2, <3>1 DEF Sending, b
    <3> QED BY <2>1, <3>2 DEF Answered
  <2>4. Kept'
    <3>1. ASSUME clean', NEW k \in Before(next), next # 0
          PROVE  acked'[CellAt(k)] = Content[want][k]
      <4>1. clean
        BY <1>1, <3>1
      <4>2. acked[CellAt(k)] = Content[want][k]
        BY <1>1, <4>1 DEF Master, Kept, Held, Underway
      <4>3. k \in Nat /\ k <= next * BlockSize /\ CellAt(k) \in Cells
        BY <1>2, BeforeTypes, ContentCells
      <4>4. ~(FlashBase + CellAt(k) - first \in 0 .. Len(b.data) - 1)
        <5> DEFINE n == next * BlockSize
        <5>1. n \in Nat /\ k <= n /\ k \in Nat /\ first = Origin + n
          BY <1>2, <2>2, <4>3, LayoutTypes
        <5>2. Origin \in Nat /\ FlashBase \in Nat
          BY LayoutTypes
        <5> HIDE DEF n, first
        <5>3. FlashBase + CellAt(k) - first = k - 1 - n
          BY <5>1, <5>2 DEF CellAt
        <5> QED BY <5>1, <5>3
      <4> QED BY <2>1, <2>2, <3>1, <4>2, <4>3, <4>4
    <3> QED BY <1>1, <1>4, <3>1 DEF Kept, Held
  <2> QED BY <1>3, <1>5, <2>3, <2>4 DEF Master
<1> QED BY <1>6, <1>7

LEMMA ReplyOkMaster == ASSUME AckInv, Master, ReplyOk PROVE Master'
<1>1. /\ phase = "wait" /\ Idle /\ reply = "ok" /\ next' = next + 1
      /\ phase' = IF next + 1 = NumBlocks(want) THEN "verify" ELSE "send"
      /\ UNCHANGED <<flash, job, acked, want, clean>>
  <2>1. ReplyOk => phase' = IF next + 1 = NumBlocks(want) THEN "verify" ELSE "send"
    BY DEF ReplyOk
  <2> QED BY <2>1 DEF ReplyOk, vars
<1>2. want \in Images /\ next \in Nat /\ next < NumBlocks(want)
  BY <1>1 DEF Master, Progressing
<1>3. NumBlocks(want) \in Nat /\ NumBlocks(want)' = NumBlocks(want)
  BY <1>1, <1>2, NumBlocksBounds DEF NumBlocks
<1>4. phase' \in {"verify", "send"} /\ Idle'
  BY <1>1 DEF Idle
<1>5. Progressing'
  <2>1. next + 1 \in Nat /\ (next + 1 # NumBlocks(want) => next + 1 < NumBlocks(want))
    BY <1>2, <1>3
  <2> QED BY <1>1, <1>2, <1>3, <1>4, <2>1 DEF Progressing, Underway
<1>6. Sending' /\ Answered' /\ VerifiedIsWanted'
  BY <1>4 DEF Sending, Answered, VerifiedIsWanted
<1>7. Before(next)' = Before(next + 1)
  BY <1>1 DEF Before
<1>8. Held(Before(next + 1) \ Before(next))
  BY <1>1 DEF Master, Answered
<1>9. Kept'
  <2>1. clean => Held(Before(next))
    BY <1>1 DEF Master, Kept, Underway
  <2>2. clean => \A k \in Before(next + 1) : acked[CellAt(k)] = Content[want][k]
    BY <1>8, <2>1 DEF Held
  <2> QED BY <1>1, <1>7, <2>2 DEF Kept, Held
<1>10. HeaderOurs'
  <2>1. ASSUME HeaderAt \in Before(next + 1)
        PROVE  flash[Header] \in {Content[want][HeaderAt], FF, Zero, Garbage}
    <3>1. CASE HeaderAt \in Before(next)
      BY <1>1, <3>1 DEF Master, HeaderOurs, Underway
    <3>2. CASE HeaderAt \notin Before(next)
      <4>1. acked[Header] = Content[want][HeaderAt] /\ Header \in Cells
        BY <1>2, <1>8, <2>1, <3>2, HeaderIsCell DEF Held
      <4>2. Content[want][HeaderAt] # NoAck
        BY <1>2, ContentTypes
      <4> QED BY <4>1, <4>2 DEF AckInv, AckKept
    <3> QED BY <3>1, <3>2
  <2> QED BY <1>1, <1>7, <2>1 DEF HeaderOurs
<1> QED BY <1>5, <1>6, <1>9, <1>10 DEF Master

LEMMA RetryMaster == ASSUME AckInv, Master, ReplyError \/ Timeout PROVE Master'
<1>1. /\ phase = "wait" /\ Idle /\ Idle' /\ next' \in {next, 0} /\ phase' = "send"
      /\ UNCHANGED <<flash, job, acked, want, clean>>
  BY DEF ReplyError, Timeout, vars, Idle
<1>2. want \in Images /\ next \in Nat /\ next < NumBlocks(want)
  BY <1>1 DEF Master, Progressing
<1>3. Progressing'
  <2>1. 0 < NumBlocks(want) /\ NumBlocks(want)' = NumBlocks(want)
    BY <1>1, <1>2, NumBlocksBounds DEF NumBlocks
  <2> QED BY <1>1, <1>2, <2>1 DEF Progressing, Underway
<1>4. CASE next' = 0
  BY <1>1, <1>3, <1>4, AtFirst
<1>5. CASE next' = next
  <2>1. Before(next)' = Before(next)
    BY <1>1, <1>5 DEF Before
  <2>2. Sending' /\ Answered' /\ VerifiedIsWanted'
    BY <1>1 DEF Sending, Answered, VerifiedIsWanted
  <2>3. Kept' /\ HeaderOurs'
    BY <1>1, <2>1 DEF Master, Kept, Held, HeaderOurs, Underway
  <2> QED BY <1>3, <2>2, <2>3 DEF Master
<1> QED BY <1>1, <1>4, <1>5

LEMMA ReplyGoneMaster == ASSUME AckInv, Master, SendDamaged \/ ReplyLost PROVE Master'
<1>1. /\ phase \in {"send", "wait"} /\ phase' = "wait" /\ Idle /\ reply' # "ok"
      /\ UNCHANGED <<flash, job, acked, want, next, clean>>
  BY DEF SendDamaged, RejectBlock, ReplyLost, master
<1>2. Progressing'
  <2>1. /\ want \in Images /\ next \in Nat /\ next < NumBlocks(want)
        /\ NumBlocks(want)' = NumBlocks(want)
    BY <1>1 DEF Master, Progressing, NumBlocks
  <2> QED BY <1>1, <2>1 DEF Progressing, Underway
<1>3. Sending' /\ Answered' /\ VerifiedIsWanted'
  BY <1>1 DEF Sending, Answered, VerifiedIsWanted, Idle
<1>4. Before(next)' = Before(next)
  BY <1>1 DEF Before
<1>5. Kept' /\ HeaderOurs'
  BY <1>1, <1>4 DEF Master, Kept, Held, HeaderOurs, Underway
<1> QED BY <1>2, <1>3, <1>5 DEF Master

LEMMA CheckSignatureMaster == ASSUME AckInv, Master, CheckSignature PROVE Master'
<1>1. /\ phase = "verify" /\ Idle /\ Idle' /\ want \in Images /\ next \in Nat
      /\ UNCHANGED <<flash, job, acked, want, clean>> /\ next = NumBlocks(want)
  BY DEF CheckSignature, vars, Master, Progressing, Idle
<1>2. CASE ImageThere # Torn
  <2>1. phase' = "done" /\ next' = next
    BY <1>2 DEF CheckSignature
  <2>2. PICK j \in Images : Whole(j)
    BY <1>2 DEF ImageThere
  <2>3. flash[Header] = Content[j][HeaderAt]
    BY <2>2, HeaderCell
  <2>4. HeaderAt \in Before(next)
    <3>1. HeaderAt \in DOMAIN Content[want] /\ HeaderAt \in 1 .. Len(Content[want])
      BY <1>1, ContentTypes
    <3>2. /\ Len(Content[want]) <= next * BlockSize /\ Len(Content[want]) \in Nat
          /\ next * BlockSize \in Nat
      BY <1>1, NumBlocksBounds, ContentTypes, LayoutTypes
    <3> QED BY <3>1, <3>2 DEF Before
  <2>5. flash[Header] \in {Content[want][HeaderAt], FF, Zero, Garbage}
    BY <1>1, <2>4 DEF Master, HeaderOurs, Underway
  <2>6. j = want
    BY <1>1, <2>3, <2>5, ImagesAssumption
  <2>7. Whole(want)'
    BY <1>1, <2>2, <2>6 DEF Whole
  <2>8. Progressing' /\ VerifiedIsWanted'
    BY <1>1, <2>1, <2>7 DEF Progressing, VerifiedIsWanted
  <2> QED BY <2>1, <2>8, Elsewhere DEF Underway
<1>3. CASE ~(ImageThere # Torn)
  <2>1. phase' = "send" /\ next' = 0
    BY <1>3 DEF CheckSignature
  <2>2. 0 < NumBlocks(want) /\ NumBlocks(want)' = NumBlocks(want)
    BY <1>1, NumBlocksBounds DEF NumBlocks
  <2>3. Progressing'
    BY <1>1, <2>1, <2>2 DEF Progressing, Underway
  <2> QED BY <1>1, <2>1, <2>3, AtFirst
<1> QED BY <1>2, <1>3

LEMMA BetweenMaster == ASSUME AckInv, Master, Stray \/ StartDownload PROVE Master'
<1>1. next \in Nat /\ want \in Images
  BY DEF Master, Progressing
<1>2. CASE Stray
  <2>1. phase' = "idle" /\ UNCHANGED <<want, next, clean>>
    BY <1>2 DEF Stray
  <2>2. Progressing' /\ VerifiedIsWanted'
    BY <1>1, <2>1 DEF Progressing, VerifiedIsWanted
  <2> QED BY <2>1, <2>2, Elsewhere DEF Underway
<1>3. CASE StartDownload
  <2>1. Idle' /\ want' \in Images /\ next' = 0 /\ phase' = "send"
    BY <1>3 DEF StartDownload, vars, Idle
  <2>2. 0 < NumBlocks(want')
    BY <2>1, NumBlocksBounds
  <2>3. Progressing'
    BY <2>1, <2>2 DEF Progressing, Underway, NumBlocks
  <2> QED BY <2>1, <2>3, AtFirst
<1> QED BY <1>2, <1>3

LEMMA CrashMaster == ASSUME AckInv, Master, Crash PROVE Master'
<1>1. /\ ~clean' /\ UNCHANGED <<want, next, phase>> /\ job' = NoJob /\ reply' = "none"
      /\ flash' \in {flash, [c \in Cells |-> IF c \in InFlight THEN Garbage ELSE flash[c]]}
  BY DEF Crash, NodeReset
<1>2. want \in Images /\ next \in Nat /\ Before(next)' = Before(next) /\ Idle'
  BY <1>1 DEF Master, Progressing, Before, Idle
<1>3. Progressing'
  BY <1>1, <1>2 DEF Master, Progressing, NumBlocks
<1>4. Sending' /\ Kept' /\ Answered'
  BY <1>1, <1>2 DEF Sending, Kept, Answered
<1>5. flash \in [Cells -> Values]
  BY DEF AckInv, RangeInv, TypeOK
<1>6. HeaderOurs'
  <2>1. flash'[Header] \in {flash[Header], Garbage}
    BY <1>1, <1>2, <1>5, HeaderIsCell
  <2> QED BY <1>1, <1>2, <2>1 DEF Master, HeaderOurs
<1>7. VerifiedIsWanted'
  <2>1. ASSUME phase = "done" PROVE flash' = flash
    <3>1. InFlight = {}
      BY <2>1 DEF Master, Progressing, InFlight, Running
    <3> QED BY <1>1, <1>5, <3>1
  <2> QED BY <1>1, <2>1 DEF Master, VerifiedIsWanted, Whole
<1> QED BY <1>3, <1>4, <1>6, <1>7 DEF Master

LEMMA StepMaster == AckInv /\ Master /\ [DownloadNext]_downloadVars => Master'
<1> SUFFICES ASSUME AckInv, Master, [DownloadNext]_downloadVars PROVE Master'
  OBVIOUS
<1>1. CASE UNCHANGED downloadVars
  <2>1. UNCHANGED <<flash, job, reply, acked, want, next, phase, clean>>
    BY <1>1 DEF downloadVars, vars, master
  <2>2. Progressing' /\ Sending' /\ VerifiedIsWanted'
    BY <2>1 DEF Master, Progressing, NumBlocks, Idle, Sending, BlockOf, VerifiedIsWanted, Whole
  <2>3. \A n \in Nat : Before(n)' = Before(n)
    BY <2>1 DEF Before
  <2>4. next \in Nat /\ next + 1 \in Nat
    BY DEF Master, Progressing
  <2>5. Kept' /\ Answered' /\ HeaderOurs'
    BY <2>1, <2>3, <2>4 DEF Master, Kept, Answered, HeaderOurs, Held
  <2> QED BY <2>2, <2>5 DEF Master
<1> QED BY <1>1, SendBlockMaster, ReplyOkMaster, RetryMaster, ReplyGoneMaster,
           CheckSignatureMaster, BetweenMaster, CrashMaster, FlashWriteMaster
        DEF DownloadNext, Progress, Fault, Write

LEMMA InitMaster == DownloadInit => Init /\ Master
<1> SUFFICES ASSUME DownloadInit PROVE Master
  BY DEF DownloadInit
<1>1. Progressing /\ phase \notin Underway /\ VerifiedIsWanted
  BY DEF DownloadInit, Progressing, Underway, VerifiedIsWanted
<1> QED BY <1>1 DEF Master, Sending, Kept, Answered, HeaderOurs, Underway

(* What a download does to the node is what Flasher does, or a reply is    *)
(* lost: the invariants of the node hold here too.                         *)
LEMMA DownloadIsStep == Master /\ [DownloadNext]_downloadVars => [Step]_vars
<1> SUFFICES ASSUME Master, DownloadNext PROVE [Step]_vars
  BY DEF downloadVars
<1>1. CASE SendBlock
  <2>1. phase = "send" /\ FlashDataWrite(BlockOf(want, next))
    BY <1>1 DEF SendBlock
  <2>2. BlockOf(want, next) \in SoundBlocks
    BY <2>1, BlockSound DEF Master, Progressing
  <2> QED BY <2>1, <2>2 DEF Step
<1>2. CASE ReplyOk \/ ReplyError \/ Timeout \/ CheckSignature \/ StartDownload
  BY <1>2 DEF ReplyOk, ReplyError, Timeout, CheckSignature, StartDownload
<1>3. CASE Write \/ SendDamaged \/ ReplyLost \/ Crash
  BY <1>3 DEF Write, SendDamaged, ReplyLost, Crash, Step, LoseReply
<1>4. CASE Stray
  BY <1>4, BlocksSound DEF Stray, Step
<1> QED BY <1>1, <1>2, <1>3, <1>4 DEF DownloadNext, Progress, Fault

LEMMA DownloadInvariant == DownloadSpec => [](AckInv /\ Master)
<1>1. DownloadInit => AckInv /\ Master
  BY InitMaster, InitAckInv
<1>2. AckInv /\ Master /\ [DownloadNext]_downloadVars => (AckInv /\ Master)'
  BY StepMaster, StepAckInv, DownloadIsStep
<1> QED BY <1>1, <1>2, PTL DEF DownloadSpec

-----------------------------------------------------------------------------
(* If every block was acknowledged and the node has not been reset since   *)
(* block 0, the whole image is in the region, whatever replies were lost   *)
(* and whatever blocks were damaged, refused and sent again.               *)
THEOREM CleanCompletes == DownloadSpec => []CleanSessionCompletes
<1>1. AckInv /\ Master => CleanSessionCompletes
  <2> SUFFICES ASSUME AckInv, Master, phase = "verify", clean PROVE Whole(want)
    BY DEF CleanSessionCompletes
  <2>1. Held(Before(next)) /\ next = NumBlocks(want) /\ Progressing
    BY DEF Master, Kept, Progressing, Underway
  <2> QED BY <2>1, WholeWhenHeld
<1> QED BY <1>1, DownloadInvariant, PTL

(* When CHECK_SIGNATURE accepts, the region holds the image that was sent, *)
(* not the one that was there before: also after resets that undid         *)
(* acknowledged blocks.                                                    *)
THEOREM VerifiedWanted == DownloadSpec => []VerifiedIsWanted
<1>1. Master => VerifiedIsWanted
  BY DEF Master
<1> QED BY <1>1, DownloadInvariant, PTL

(* Flasher's invariants, with the master, and with anything sent between   *)
(* two downloads.                                                          *)
THEOREM DownloadInBounds == DownloadSpec => [](TypeOK /\ InBounds /\ AckedDurable)
<1>1. AckInv => TypeOK /\ InBounds /\ AckedDurable
  BY RunningInRegion DEF AckInv, RangeInv, InBounds, AckKept, AckedDurable
<1> QED BY <1>1, DownloadInvariant, PTL

(* Nothing outside the region changes.                                     *)
THEOREM DownloadKeepsOutside == DownloadSpec => OutsideUntouched
<1>1. RangeInv /\ [Step]_vars => \A c \in Cells \ Region : flash'[c] = flash[c]
  BY StepInRegion
<1>2. AckInv /\ Master /\ [DownloadNext]_downloadVars
        => \A c \in Cells \ Region : flash'[c] = flash[c]
  BY <1>1, DownloadIsStep DEF AckInv
<1> QED BY <1>2, DownloadInvariant, PTL DEF DownloadSpec, OutsideUntouched
(* The flasher with its master implements ImageStore, which Boot relies    *)
(* on.                                                                     *)
THEOREM DownloadImplementsImageStore == DownloadSpec => StoreSpec
<1>1. DownloadInit => Store!Init
  BY InitMaster, InitStore
<1>2. AckInv /\ Master /\ [DownloadNext]_downloadVars
        => [Store!Next]_([r \in {Target} |-> ImageThere])
  BY DownloadIsStep, StepStore DEF AckInv
<1> QED BY <1>1, <1>2, DownloadInvariant, PTL DEF DownloadSpec, StoreSpec, Store!Spec
=============================================================================
