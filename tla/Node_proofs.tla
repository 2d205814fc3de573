----------------------------- MODULE Node_proofs -----------------------------
(***************************************************************************)
(* How a node tells its errors and acts on them. Informed (Emergency) for  *)
(* any length of the fifo, any bits and whatever the CAN controller counts;*)
(* then SilentStops (Nmt) for any entries of x1016, any times and any      *)
(* nodes. The two modules share no variable.                               *)
(***************************************************************************)
EXTENDS Emergency, Nmt, SequenceTheorems, TLAPS

(* The last message of w about bit b, if there is one, says how it is;     *)
(* otherwise the master knows it.                                          *)
Silent(w, b) == \A i \in 1 .. Len(w) : w[i].bit # b
LastIs(w, b, on) ==
  \E i \in 1 .. Len(w) : /\ w[i] = [bit |-> b, set |-> on]
                         /\ \A j \in 1 .. Len(w) : w[j].bit = b => j <= i
Settled(w, b, bits, k) ==
  \/ Silent(w, b) /\ (b \in k <=> b \in bits)
  \/ LastIs(w, b, TRUE) /\ b \in bits
  \/ LastIs(w, b, FALSE) /\ b \notin bits

Clear == [bit |-> Full, set |-> FALSE]
One(w) == \A i, j \in 1 .. Len(w) : w[i] = Clear /\ w[j] = Clear => i = j
After(w, l) ==
  \E i \in 1 .. Len(w) : /\ w[i] = Clear
                         /\ \A j \in 1 .. Len(w) : w[j].bit \in l => j < i

Ems == [bits : SUBSET ErrorBits, fifo : Seq(Messages), overflow : 0 .. 2,
        lost : SUBSET (ErrorBits \ {Full})]

Rest(e, w, k) ==
  /\ \A b \in ErrorBits \ e.lost : Settled(w, b, e.bits, k)
  /\ One(w)
  /\ e.overflow = 0 /\ e.lost # {} => After(w, e.lost)

Good(e, t, k) ==
  /\ e \in Ems /\ Len(e.fifo) < FifoSize
  /\ t \in Seq(Messages) /\ Len(t) <= 1
  /\ k \subseteq ErrorBits
  /\ Rest(e, t \o e.fifo, k)
  /\ e.overflow = 1 => Len(e.fifo) = FifoSize - 1
  /\ e.overflow = 2 => Full \in e.bits /\ e.fifo # <<>>

-----------------------------------------------------------------------------
(* EMERGENCY_BUFFER_FULL is neither a driver's nor a caller's bit.         *)
LEMMA Distinct == Full \notin CanBits /\ Full \notin OtherBits /\ Full \in ErrorBits
BY EmergencyAssumption DEF Full, CanBits, ErrorBits

(* A message about another bit changes nothing about b.                    *)
LEMMA AppendOther ==
  ASSUME NEW w \in Seq(Messages), NEW m \in Messages, NEW b, NEW bits, NEW new, NEW k,
         m.bit # b, b \in bits <=> b \in new, Settled(w, b, bits, k)
  PROVE  Settled(Append(w, m), b, new, k)
<1>1. /\ Append(w, m) \in Seq(Messages) /\ Len(Append(w, m)) = Len(w) + 1
      /\ \A i \in 1 .. Len(w) : Append(w, m)[i] = w[i]
      /\ Append(w, m)[Len(w) + 1] = m /\ Len(w) \in Nat
  OBVIOUS
<1>2. ASSUME Silent(w, b) PROVE Silent(Append(w, m), b)
  BY <1>1, <1>2 DEF Silent
<1>3. ASSUME NEW on, LastIs(w, b, on) PROVE LastIs(Append(w, m), b, on)
  <2>1. PICK i \in 1 .. Len(w) : /\ w[i] = [bit |-> b, set |-> on]
                                 /\ \A j \in 1 .. Len(w) : w[j].bit = b => j <= i
    BY <1>3 DEF LastIs
  <2>2. i \in 1 .. Len(Append(w, m)) /\ Append(w, m)[i] = [bit |-> b, set |-> on]
    BY <1>1, <2>1
  <2>3. ASSUME NEW j \in 1 .. Len(Append(w, m)), Append(w, m)[j].bit = b PROVE j <= i
    BY <1>1, <2>1, <2>3
  <2>. QED BY <2>2, <2>3 DEF LastIs
<1>. QED BY <1>2, <1>3 DEF Settled

(* A message about b settles b.                                            *)
LEMMA AppendOwn ==
  ASSUME NEW w \in Seq(Messages), NEW b \in ErrorBits, NEW on \in BOOLEAN, NEW bits, NEW k,
         on => b \in bits, ~on => b \notin bits
  PROVE  Settled(Append(w, [bit |-> b, set |-> on]), b, bits, k)
<1>. DEFINE v == Append(w, [bit |-> b, set |-> on])
<1>1. /\ Len(v) = Len(w) + 1 /\ Len(w) \in Nat
      /\ v[Len(w) + 1] = [bit |-> b, set |-> on]
  BY DEF Messages
<1>2. LastIs(v, b, on)
  BY <1>1 DEF LastIs
<1>3. CASE on = TRUE
  BY <1>2, <1>3 DEF Settled
<1>4. CASE on = FALSE
  BY <1>2, <1>4 DEF Settled
<1>. QED BY <1>3, <1>4

(* The master learns the first message.                                    *)
LEMMA TailSettled ==
  ASSUME NEW w \in Seq(Messages), w # <<>>, NEW b, NEW bits, NEW k, NEW new,
         w[1].bit # b => (b \in new <=> b \in k),
         w[1] = [bit |-> b, set |-> TRUE] => b \in new,
         w[1] = [bit |-> b, set |-> FALSE] => b \notin new,
         Settled(w, b, bits, k)
  PROVE  Settled(Tail(w), b, bits, new)
<1>1. /\ Tail(w) \in Seq(Messages) /\ Len(Tail(w)) = Len(w) - 1 /\ Len(w) \in Nat /\ Len(w) >= 1
      /\ \A i \in 1 .. Len(Tail(w)) : Tail(w)[i] = w[i + 1]
  BY HeadTailProperties
<1>2. CASE Silent(w, b) /\ (b \in k <=> b \in bits)
  <2>1. Silent(Tail(w), b)
    BY <1>1, <1>2 DEF Silent
  <2>2. w[1].bit # b
    BY <1>1, <1>2 DEF Silent
  <2>. QED BY <1>2, <2>1, <2>2 DEF Settled
<1>3. ASSUME NEW on, LastIs(w, b, on)
      PROVE  \/ LastIs(Tail(w), b, on)
             \/ Silent(Tail(w), b) /\ w[1] = [bit |-> b, set |-> on]
  <2>1. PICK i \in 1 .. Len(w) : /\ w[i] = [bit |-> b, set |-> on]
                                 /\ \A j \in 1 .. Len(w) : w[j].bit = b => j <= i
    BY <1>3 DEF LastIs
  <2>2. CASE i = 1
    <3>1. ASSUME NEW j \in 1 .. Len(Tail(w)) PROVE Tail(w)[j].bit # b
      <4>1. j + 1 \in 1 .. Len(w) /\ Tail(w)[j] = w[j + 1] /\ ~(j + 1 <= i)
        BY <1>1, <2>2
      <4>. QED BY <2>1, <4>1
    <3>. QED BY <2>1, <2>2, <3>1 DEF Silent
  <2>3. CASE i # 1
    <3>1. i - 1 \in 1 .. Len(Tail(w)) /\ Tail(w)[i - 1] = [bit |-> b, set |-> on]
      BY <1>1, <2>1, <2>3
    <3>2. ASSUME NEW j \in 1 .. Len(Tail(w)), Tail(w)[j].bit = b PROVE j <= i - 1
      <4>1. j + 1 \in 1 .. Len(w) /\ w[j + 1].bit = b
        BY <1>1, <3>2
      <4>2. j + 1 <= i
        BY <2>1, <4>1
      <4>. QED BY <4>2, <1>1
    <3>. QED BY <3>1, <3>2 DEF LastIs
  <2>. QED BY <2>2, <2>3
<1>4. CASE LastIs(w, b, TRUE) /\ b \in bits
  BY <1>3, <1>4 DEF Settled
<1>5. CASE LastIs(w, b, FALSE) /\ b \notin bits
  BY <1>3, <1>5 DEF Settled
<1>. QED BY <1>2, <1>4, <1>5 DEF Settled

-----------------------------------------------------------------------------
(* What is appended to the fifo is appended to what waits.                 *)
LEMMA ConcatAppend ==
  ASSUME NEW t \in Seq(Messages), NEW f \in Seq(Messages), NEW m \in Messages
  PROVE  t \o Append(f, m) = Append(t \o f, m)
<1>1. <<m>> \in Seq(Messages) /\ t \o f \in Seq(Messages)
  OBVIOUS
<1>2. Append(f, m) = f \o <<m>> /\ Append(t \o f, m) = (t \o f) \o <<m>>
  BY <1>1, AppendIsConcat
<1>3. t \o (f \o <<m>>) = (t \o f) \o <<m>>
  BY <1>1, ConcatAssociative
<1>. QED BY <1>2, <1>3

(* There stays at most one message that takes the overflow back ...        *)
LEMMA OneAppend ==
  ASSUME NEW w \in Seq(Messages), NEW m \in Messages, One(w),
         m = Clear => \A i \in 1 .. Len(w) : w[i] # Clear
  PROVE  One(Append(w, m))
<1>1. /\ Len(Append(w, m)) = Len(w) + 1 /\ Len(w) \in Nat
      /\ \A i \in 1 .. Len(w) : Append(w, m)[i] = w[i]
      /\ Append(w, m)[Len(w) + 1] = m
  OBVIOUS
<1>. SUFFICES ASSUME NEW i \in 1 .. Len(Append(w, m)), NEW j \in 1 .. Len(Append(w, m)),
                     Append(w, m)[i] = Clear, Append(w, m)[j] = Clear
              PROVE  i = j
  BY DEF One
<1>2. CASE i \in 1 .. Len(w) /\ j \in 1 .. Len(w)
  BY <1>1, <1>2 DEF One
<1>3. CASE i = Len(w) + 1 \/ j = Len(w) + 1
  <2>1. m = Clear
    BY <1>1, <1>3
  <2>2. ASSUME NEW n \in 1 .. Len(w) PROVE Append(w, m)[n] # Clear
    BY <1>1, <2>1
  <2>. QED BY <1>1, <1>3, <2>2
<1>. QED BY <1>1, <1>2, <1>3

(* ... and it stays after all that was lost.                               *)
LEMMA AfterAppend ==
  ASSUME NEW w \in Seq(Messages), NEW m \in Messages, NEW l, After(w, l)
  PROVE  After(Append(w, m), l \ {m.bit})
<1>1. /\ Len(Append(w, m)) = Len(w) + 1 /\ Len(w) \in Nat
      /\ \A i \in 1 .. Len(w) : Append(w, m)[i] = w[i]
      /\ Append(w, m)[Len(w) + 1] = m
  OBVIOUS
<1>2. PICK i \in 1 .. Len(w) : /\ w[i] = Clear
                               /\ \A j \in 1 .. Len(w) : w[j].bit \in l => j < i
  BY DEF After
<1>3. i \in 1 .. Len(Append(w, m)) /\ Append(w, m)[i] = Clear
  BY <1>1, <1>2
<1>4. ASSUME NEW j \in 1 .. Len(Append(w, m)), Append(w, m)[j].bit \in l \ {m.bit} PROVE j < i
  <2>1. j # Len(w) + 1
    BY <1>1, <1>4
  <2>2. j \in 1 .. Len(w) /\ w[j].bit \in l
    BY <1>1, <1>4, <2>1
  <2>. QED BY <1>2, <2>2
<1>. QED BY <1>3, <1>4 DEF After

(* A change that is put into the fifo.                                     *)
Put(e, set, bit, over) ==
  [bits     |-> IF set THEN e.bits \cup {bit} ELSE e.bits \ {bit},
   fifo     |-> Append(e.fifo, [bit |-> bit, set |-> set]),
   overflow |-> over,
   lost     |-> e.lost \ {bit}]

(* Putting a change into the fifo keeps the invariant's last part.         *)
LEMMA PutRest ==
  ASSUME NEW e \in Ems, NEW t \in Seq(Messages), NEW k, NEW set \in BOOLEAN, NEW bit \in ErrorBits,
         NEW over, over = 0 => e.overflow = 0 \/ (bit = Full /\ ~set),
         bit = Full /\ ~set => \A i \in 1 .. Len(t \o e.fifo) : (t \o e.fifo)[i] # Clear,
         Rest(e, t \o e.fifo, k)
  PROVE  Rest(Put(e, set, bit, over), t \o Append(e.fifo, [bit |-> bit, set |-> set]), k)
<1>. DEFINE w == t \o e.fifo
            m == [bit |-> bit, set |-> set]
            p == Put(e, set, bit, over)
<1>1. /\ e.fifo \in Seq(Messages) /\ m \in Messages /\ w \in Seq(Messages)
      /\ e.bits \subseteq ErrorBits /\ e.lost \subseteq ErrorBits \ {Full}
  BY DEF Ems, Messages
<1>2. t \o Append(e.fifo, m) = Append(w, m)
  BY <1>1, ConcatAppend
<1>3. /\ p.bits = IF set THEN e.bits \cup {bit} ELSE e.bits \ {bit}
      /\ p.overflow = over /\ p.lost = e.lost \ {bit}
  BY DEF Put
<1>4. ASSUME NEW b \in ErrorBits \ p.lost PROVE Settled(Append(w, m), b, p.bits, k)
  <2>1. CASE b = bit
    <3>1. (set => b \in p.bits) /\ (~set => b \notin p.bits)
      BY <1>3, <2>1
    <3>. QED BY <1>1, <2>1, <3>1, AppendOwn
  <2>2. CASE b # bit
    <3>1. b \in ErrorBits \ e.lost /\ m.bit # b /\ (b \in e.bits <=> b \in p.bits)
      BY <1>3, <2>2
    <3>2. Settled(w, b, e.bits, k)
      BY <3>1 DEF Rest
    <3>. QED BY <1>1, <3>1, <3>2, AppendOther
  <2>. QED BY <2>1, <2>2
<1>5. One(Append(w, m))
  <2>1. m = Clear => bit = Full /\ ~set
    BY DEF Clear
  <2>. QED BY <1>1, <2>1, OneAppend DEF Rest
<1>6. ASSUME p.overflow = 0, p.lost # {} PROVE After(Append(w, m), p.lost)
  <2>1. CASE e.overflow = 0
    <3>1. e.lost # {}
      BY <1>3, <1>6
    <3>2. After(w, e.lost)
      BY <2>1, <3>1 DEF Rest
    <3>3. After(Append(w, m), e.lost \ {m.bit})
      BY <1>1, <3>2, AfterAppend
    <3>4. e.lost \ {m.bit} = p.lost
      BY <1>3
    <3>. QED BY <3>3, <3>4
  <2>2. CASE bit = Full /\ ~set
    <3>1. /\ Len(Append(w, m)) = Len(w) + 1 /\ Len(w) \in Nat
          /\ \A i \in 1 .. Len(w) : Append(w, m)[i] = w[i]
          /\ Append(w, m)[Len(w) + 1] = m
      BY <1>1
    <3>2. m = Clear
      BY <2>2 DEF Clear
    <3>3. ASSUME NEW j \in 1 .. Len(Append(w, m)), Append(w, m)[j].bit \in p.lost
          PROVE j < Len(w) + 1
      <4>1. m.bit \notin p.lost
        BY <1>3
      <4>. QED BY <3>1, <3>3, <4>1
    <3>4. Len(w) + 1 \in 1 .. Len(Append(w, m)) /\ Append(w, m)[Len(w) + 1] = Clear
      BY <3>1, <3>2
    <3>. HIDE DEF w, m, p
    <3>. QED BY <3>3, <3>4 DEF After
  <2>. QED BY <1>3, <1>6, <2>1, <2>2
<1>. QED BY <1>2, <1>4, <1>5, <1>6 DEF Rest

-----------------------------------------------------------------------------
(* CO_error, in its three cases.                                           *)
Drop(e, set, bit) ==
  [bits     |-> IF set THEN e.bits \cup {bit} ELSE e.bits \ {bit},
   fifo     |-> e.fifo,
   overflow |-> 1,
   lost     |-> e.lost \cup {bit}]

(* CO_error does nothing, drops or puts.                                   *)
LEMMA ErrorCases ==
  ASSUME NEW e \in Ems, NEW set \in BOOLEAN, NEW bit \in ErrorBits
  PROVE  CO_error(e, set, bit) =
           IF (bit \in e.bits) = set THEN e
           ELSE IF Len(e.fifo) = FifoSize - 1 THEN Drop(e, set, bit)
           ELSE Put(e, set, bit, e.overflow)
<1>1. CASE (bit \in e.bits) = set
  BY <1>1 DEF CO_error
<1>2. CASE (bit \in e.bits) # set /\ Len(e.fifo) = FifoSize - 1
  <2>. DEFINE bits == IF set THEN e.bits \cup {bit} ELSE e.bits \ {bit}
  <2>1. CO_error(e, set, bit) = [e EXCEPT !.bits = bits, !.overflow = 1, !.lost = e.lost \cup {bit}]
    BY <1>2 DEF CO_error
  <2>2. Drop(e, set, bit) = [e EXCEPT !.bits = bits, !.overflow = 1, !.lost = e.lost \cup {bit}]
    <3>1. Drop(e, set, bit) =
            [bits |-> bits, fifo |-> e.fifo, overflow |-> 1, lost |-> e.lost \cup {bit}]
      BY DEF Drop
    <3>. DEFINE lst == e.lost \cup {bit}
    <3>. HIDE DEF bits, lst
    <3>2. [e EXCEPT !.bits = bits, !.overflow = 1, !.lost = lst] =
            [bits |-> bits, fifo |-> e.fifo, overflow |-> 1, lost |-> lst]
      <4>. DEFINE r(o, d) == [bits |-> bits, fifo |-> e.fifo, overflow |-> o, lost |-> d]
      <4>1. [e EXCEPT !.bits = bits, !.overflow = 1, !.lost = lst] =
              [[[e EXCEPT !.bits = bits] EXCEPT !.overflow = 1] EXCEPT !.lost = lst]
        OBVIOUS
      <4>2. [e EXCEPT !.bits = bits] = r(e.overflow, e.lost)
        BY DEF Ems
      <4>3. [r(e.overflow, e.lost) EXCEPT !.overflow = 1] = r(1, e.lost)
        OBVIOUS
      <4>4. [r(1, e.lost) EXCEPT !.lost = lst] = r(1, lst)
        OBVIOUS
      <4>. QED BY <4>1, <4>2, <4>3, <4>4
    <3>. QED BY <3>1, <3>2 DEF lst
  <2>. QED BY <1>2, <2>1, <2>2
<1>3. CASE (bit \in e.bits) # set /\ Len(e.fifo) # FifoSize - 1
  <2>. DEFINE bits == IF set THEN e.bits \cup {bit} ELSE e.bits \ {bit}
              more == Append(e.fifo, [bit |-> bit, set |-> set])
  <2>1. CO_error(e, set, bit) = [e EXCEPT !.bits = bits, !.fifo = more, !.lost = e.lost \ {bit}]
    BY <1>3 DEF CO_error
  <2>2. Put(e, set, bit, e.overflow) =
          [e EXCEPT !.bits = bits, !.fifo = more, !.lost = e.lost \ {bit}]
    <3>1. Put(e, set, bit, e.overflow) =
            [bits |-> bits, fifo |-> more, overflow |-> e.overflow, lost |-> e.lost \ {bit}]
      BY DEF Put
    <3>. DEFINE lst == e.lost \ {bit}
    <3>. HIDE DEF bits, more, lst
    <3>2. [e EXCEPT !.bits = bits, !.fifo = more, !.lost = lst] =
            [bits |-> bits, fifo |-> more, overflow |-> e.overflow, lost |-> lst]
      <4>. DEFINE r(f, d) == [bits |-> bits, fifo |-> f, overflow |-> e.overflow, lost |-> d]
      <4>1. [e EXCEPT !.bits = bits, !.fifo = more, !.lost = lst] =
              [[[e EXCEPT !.bits = bits] EXCEPT !.fifo = more] EXCEPT !.lost = lst]
        OBVIOUS
      <4>2. [e EXCEPT !.bits = bits] = r(e.fifo, e.lost)
        BY DEF Ems
      <4>3. [r(e.fifo, e.lost) EXCEPT !.fifo = more] = r(more, e.lost)
        OBVIOUS
      <4>4. [r(more, e.lost) EXCEPT !.lost = lst] = r(more, lst)
        OBVIOUS
      <4>. QED BY <4>1, <4>2, <4>3, <4>4
    <3>. QED BY <3>1, <3>2 DEF lst
  <2>. QED BY <1>3, <2>1, <2>2
<1>. QED BY <1>1, <1>2, <1>3

(* The invariant with a name for the fifo.                                 *)
LEMMA GoodIf ==
  ASSUME NEW e \in Ems, NEW t \in Seq(Messages), NEW k \in SUBSET ErrorBits, NEW f, e.fifo = f,
         Len(t) <= 1, Len(f) < FifoSize, Rest(e, t \o f, k),
         e.overflow = 1 => Len(f) = FifoSize - 1,
         e.overflow = 2 => Full \in e.bits /\ f # <<>>
  PROVE  Good(e, t, k)
BY DEF Good

(* A put adds one element.                                                 *)
LEMMA PutTyped ==
  ASSUME NEW e \in Ems, NEW set \in BOOLEAN, NEW bit \in ErrorBits, NEW over \in 0 .. 2
  PROVE  /\ Put(e, set, bit, over) \in Ems
         /\ Len(Put(e, set, bit, over).fifo) = Len(e.fifo) + 1
         /\ Put(e, set, bit, over).fifo # <<>>
<1>1. [bit |-> bit, set |-> set] \in Messages /\ e.fifo \in Seq(Messages)
  BY DEF Messages, Ems
<1>2. /\ Append(e.fifo, [bit |-> bit, set |-> set]) \in Seq(Messages)
      /\ Len(Append(e.fifo, [bit |-> bit, set |-> set])) = Len(e.fifo) + 1
      /\ Len(e.fifo) \in Nat
  BY <1>1
<1>3. Put(e, set, bit, over).fifo # <<>>
  BY <1>2 DEF Put
<1>. QED BY <1>2, <1>3 DEF Put, Ems

(* CO_error keeps the invariant ...                                        *)
LEMMA ErrorGood ==
  ASSUME NEW e, NEW t, NEW k, NEW set \in BOOLEAN, NEW bit \in ErrorBits, bit # Full,
         Good(e, t, k)
  PROVE  Good(CO_error(e, set, bit), t, k)
<1>. DEFINE w == t \o e.fifo
<1>1. /\ e \in Ems /\ e.fifo \in Seq(Messages) /\ t \in Seq(Messages) /\ w \in Seq(Messages)
      /\ e.bits \subseteq ErrorBits /\ e.lost \subseteq ErrorBits \ {Full}
      /\ e.overflow \in 0 .. 2 /\ Len(e.fifo) \in Nat /\ Len(e.fifo) < FifoSize
      /\ FifoSize \in Nat /\ FifoSize >= 3
  BY EmergencyAssumption DEF Good, Ems
<1>2. CASE (bit \in e.bits) = set
  BY <1>1, <1>2, ErrorCases
<1>3. CASE (bit \in e.bits) # set /\ Len(e.fifo) = FifoSize - 1
  <2>. DEFINE d == Drop(e, set, bit)
  <2>1. CO_error(e, set, bit) = d
    BY <1>1, <1>3, ErrorCases
  <2>2. /\ d.fifo = e.fifo /\ d.overflow = 1 /\ d.lost = e.lost \cup {bit}
        /\ d.bits = IF set THEN e.bits \cup {bit} ELSE e.bits \ {bit}
        /\ d \in Ems
    BY <1>1 DEF Drop, Ems
  <2>. HIDE DEF d
  <2>3. ASSUME NEW b \in ErrorBits \ d.lost PROVE Settled(w, b, d.bits, k)
    <3>1. b \in ErrorBits \ e.lost /\ (b \in e.bits <=> b \in d.bits)
      BY <2>2
    <3>2. Settled(w, b, e.bits, k)
      BY <3>1 DEF Good, Rest
    <3>. QED BY <3>1, <3>2 DEF Settled
  <2>4. Rest(d, w, k)
    <3>1. One(w)
      BY DEF Good, Rest
    <3>2. d.overflow # 0
      BY <2>2
    <3>. QED BY <2>3, <3>1, <3>2 DEF Rest
  <2>. QED BY <1>1, <1>3, <2>1, <2>2, <2>4 DEF Good
<1>4. CASE (bit \in e.bits) # set /\ Len(e.fifo) # FifoSize - 1
  <2>. DEFINE p == Put(e, set, bit, e.overflow)
  <2>1. CO_error(e, set, bit) = p
    BY <1>1, <1>4, ErrorCases
  <2>2. /\ p \in Ems /\ Len(p.fifo) = Len(e.fifo) + 1 /\ p.fifo # <<>>
        /\ p.fifo = Append(e.fifo, [bit |-> bit, set |-> set]) /\ p.overflow = e.overflow
        /\ p.bits = IF set THEN e.bits \cup {bit} ELSE e.bits \ {bit}
    BY <1>1, PutTyped DEF Put
  <2>3. Rest(p, t \o p.fifo, k)
    <3>1. Rest(e, w, k)
      BY DEF Good
    <3>. QED BY <1>1, <2>2, <3>1, PutRest
  <2>. HIDE DEF p
  <2>4. p.overflow # 1 /\ Len(p.fifo) < FifoSize
    BY <1>1, <1>4, <2>2 DEF Good
  <2>5. p.overflow = 2 => Full \in p.bits
    <3>1. e.overflow = 2 => Full \in e.bits
      BY DEF Good
    <3>. QED BY <2>2, <3>1
  <2>. QED BY <1>1, <2>1, <2>2, <2>3, <2>4, <2>5 DEF Good
<1>. QED BY <1>2, <1>3, <1>4

(* ... so does one check of the driver's status ...                        *)
LEMMA ChangedGood ==
  ASSUME NEW e, NEW t, NEW k, NEW bit \in CanBits, Good(e, t, k)
  PROVE  Good(Changed(e, bit), t, k)
<1>1. bit \in ErrorBits /\ bit # Full
  BY Distinct DEF ErrorBits
<1>2. Good(CO_error(e, bit \in CANerrorStatus', bit), t, k)
  <2>1. CASE bit \in CANerrorStatus'
    <3>1. (bit \in CANerrorStatus') = TRUE
      BY <2>1
    <3>2. Good(CO_error(e, TRUE, bit), t, k)
      BY <1>1, ErrorGood
    <3>. QED BY <3>1, <3>2
  <2>2. CASE bit \notin CANerrorStatus'
    <3>1. (bit \in CANerrorStatus') = FALSE
      BY <2>2
    <3>2. Good(CO_error(e, FALSE, bit), t, k)
      BY <1>1, ErrorGood
    <3>. QED BY <3>1, <3>2
  <2>. QED BY <2>1, <2>2
<1>. QED BY <1>2 DEF Changed

(* ... and all six.                                                        *)
LEMMA DriverErrorsGood ==
  ASSUME NEW e, NEW t, NEW k, Good(e, t, k)
  PROVE  Good(DriverErrors(e), t, k)
<1>. DEFINE e1 == Changed(e, "WARNING")
            e2 == Changed(e1, "TX_PASSIVE")
            e3 == Changed(e2, "BUS_OFF")
            e4 == Changed(e3, "TX_OVERFLOW")
            e5 == Changed(e4, "RX_PASSIVE")
            e6 == Changed(e5, "RX_OVERFLOW")
<1>1. Good(e1, t, k)
  BY ChangedGood DEF CanBits
<1>. HIDE DEF e1
<1>2. Good(e2, t, k)
  BY <1>1, ChangedGood DEF CanBits
<1>. HIDE DEF e2
<1>3. Good(e3, t, k)
  BY <1>2, ChangedGood DEF CanBits
<1>. HIDE DEF e3
<1>4. Good(e4, t, k)
  BY <1>3, ChangedGood DEF CanBits
<1>. HIDE DEF e4
<1>5. Good(e5, t, k)
  BY <1>4, ChangedGood DEF CanBits
<1>. HIDE DEF e5
<1>6. Good(e6, t, k)
  BY <1>5, ChangedGood DEF CanBits
<1>7. e6 = DriverErrors(e)
  BY DEF e1, e2, e3, e4, e5, DriverErrors
<1>. QED BY <1>6, <1>7

-----------------------------------------------------------------------------
(* CO_EM_process has taken a message t from the fifo, of which f is left.  *)
LEMMA TakenGood ==
  ASSUME NEW e, NEW k, NEW f \in Seq(Messages), NEW t \in Seq(Messages), NEW r \in Ems,
         Good(e, <<>>, k), Len(t) = 1, Len(f) = Len(e.fifo) - 1, t \o f = e.fifo,
         r.bits = e.bits, r.fifo = f, r.overflow = e.overflow, r.lost = e.lost
  PROVE  Good(OverflowTold(r), t, k)
<1>. DEFINE q(o) == [r EXCEPT !.overflow = o]
<1>1. /\ e \in Ems /\ e.fifo \in Seq(Messages) /\ e.overflow \in 0 .. 2
      /\ e.bits \subseteq ErrorBits /\ e.lost \subseteq ErrorBits \ {Full}
      /\ Len(e.fifo) \in Nat /\ Len(e.fifo) < FifoSize /\ k \subseteq ErrorBits
      /\ FifoSize \in Nat /\ FifoSize >= 3 /\ Len(f) \in Nat /\ Full \in ErrorBits
  BY EmergencyAssumption, Distinct DEF Good, Ems
<1>2. ASSUME NEW o \in 0 .. 2
      PROVE  /\ q(o) \in Ems /\ q(o).bits = e.bits /\ q(o).fifo = f
             /\ q(o).overflow = o /\ q(o).lost = e.lost
  BY <1>2 DEF Ems
<1>3. OverflowTold(r) = IF r.overflow = 1 THEN CO_error(q(2), TRUE, Full)
                        ELSE IF r.overflow = 2 /\ r.fifo = <<>> THEN CO_error(q(0), FALSE, Full)
                        ELSE r
  BY DEF OverflowTold
<1>. HIDE DEF q
<1>4. Rest(e, e.fifo, k)
  <2>1. <<>> \o e.fifo = e.fifo
    BY <1>1, ConcatEmptySeq
  <2>. QED BY <2>1 DEF Good
<1>5. ASSUME NEW x \in Ems, x.bits = e.bits, x.lost = e.lost, x.overflow = 0 => e.overflow = 0
      PROVE  Rest(x, t \o f, k)
  BY <1>4, <1>5 DEF Rest
<1>6. CASE e.overflow = 0 \/ (e.overflow = 2 /\ f # <<>>)
  <2>1. OverflowTold(r) = r
    <3>1. r.overflow # 1 /\ ~(r.overflow = 2 /\ r.fifo = <<>>)
      BY <1>6
    <3>. QED BY <1>3, <3>1
  <2>2. e.overflow = 2 => Full \in r.bits
    BY DEF Good
  <2>3. Rest(r, t \o f, k)
    BY <1>5
  <2>4. Len(f) < FifoSize /\ Len(t) <= 1 /\ r.overflow # 1 /\ (r.overflow = 2 => f # <<>>)
    BY <1>1, <1>6
  <2>5. Good(r, t, k)
    BY <1>1, <2>2, <2>3, <2>4, GoodIf
  <2>. QED BY <2>1, <2>5
<1>7. CASE e.overflow = 1
  <2>1. OverflowTold(r) = CO_error(q(2), TRUE, Full)
    BY <1>3, <1>7
  <2>2. Len(f) = FifoSize - 2 /\ f # <<>>
    <3>1. Len(e.fifo) = FifoSize - 1
      BY <1>7 DEF Good
    <3>2. Len(f) = FifoSize - 2 /\ Len(f) # 0
      BY <1>1, <3>1
    <3>. QED BY <3>2
  <2>3. /\ q(2) \in Ems /\ q(2).bits = e.bits /\ q(2).fifo = f /\ q(2).overflow = 2
        /\ Rest(q(2), t \o f, k)
    BY <1>2, <1>5
  <2>4. CASE Full \in e.bits
    <3>1. CO_error(q(2), TRUE, Full) = q(2)
      BY <2>3, <2>4 DEF CO_error
    <3>2. Len(f) < FifoSize /\ Len(t) <= 1 /\ q(2).overflow # 1
      BY <1>1, <2>3
    <3>3. Good(q(2), t, k)
      BY <1>1, <2>2, <2>3, <2>4, <3>2, GoodIf
    <3>. QED BY <2>1, <3>1, <3>3
  <2>5. CASE Full \notin e.bits
    <3>. DEFINE p == Put(q(2), TRUE, Full, 2)
    <3>1. CO_error(q(2), TRUE, Full) = p
      <4>1. (Full \in q(2).bits) # TRUE
        BY <2>3, <2>5
      <4>2. Len(q(2).fifo) # FifoSize - 1
        BY <1>1, <2>2, <2>3
      <4>3. CO_error(q(2), TRUE, Full) = Put(q(2), TRUE, Full, q(2).overflow)
        BY <1>1, <2>3, <4>1, <4>2, ErrorCases
      <4>. QED BY <2>3, <4>3
    <3>2. p \in Ems /\ Len(p.fifo) = Len(f) + 1 /\ p.fifo # <<>>
      <4>1. 2 \in 0 .. 2 /\ TRUE \in BOOLEAN
        OBVIOUS
      <4>. QED BY <1>1, <2>3, <4>1, PutTyped
    <3>3. p.fifo = Append(f, [bit |-> Full, set |-> TRUE]) /\ p.overflow = 2 /\ Full \in p.bits
      BY <2>3 DEF Put
    <3>4. Rest(p, t \o p.fifo, k)
      BY <1>1, <2>3, <3>3, PutRest
    <3>. HIDE DEF p
    <3>5. Len(p.fifo) < FifoSize /\ p.overflow # 1
      BY <1>1, <2>2, <3>2, <3>3
    <3>6. Good(p, t, k)
      BY <1>1, <3>2, <3>3, <3>4, <3>5 DEF Good
    <3>. QED BY <2>1, <3>1, <3>6
  <2>. QED BY <2>4, <2>5
<1>8. CASE e.overflow = 2 /\ f = <<>>
  <2>. DEFINE p == Put(q(0), FALSE, Full, 0)
  <2>1. OverflowTold(r) = CO_error(q(0), FALSE, Full)
    BY <1>3, <1>8
  <2>2. Full \in e.bits
    BY <1>8 DEF Good
  <2>3. /\ q(0) \in Ems /\ q(0).bits = e.bits /\ q(0).fifo = f /\ q(0).overflow = 0
        /\ q(0).lost = e.lost
    BY <1>2
  <2>4. /\ q(2) \in Ems /\ q(2).bits = e.bits /\ q(2).fifo = f /\ q(2).lost = e.lost
        /\ q(2).overflow = 2 /\ Rest(q(2), t \o f, k)
    BY <1>2, <1>5
  <2>5. CO_error(q(0), FALSE, Full) = p
    <3>1. (Full \in q(0).bits) # FALSE
      BY <2>2, <2>3
    <3>2. Len(q(0).fifo) # FifoSize - 1
      BY <1>1, <1>8, <2>3
    <3>3. CO_error(q(0), FALSE, Full) = Put(q(0), FALSE, Full, q(0).overflow)
      BY <1>1, <2>3, <3>1, <3>2, ErrorCases
    <3>. QED BY <2>3, <3>3
  <2>6. p = Put(q(2), FALSE, Full, 0)
    BY <2>3, <2>4 DEF Put
  <2>7. ASSUME NEW i \in 1 .. Len(e.fifo), e.fifo[i] = Clear PROVE FALSE
    <3>1. Len(e.fifo) = 1
      BY <1>1, <1>8
    <3>2. ASSUME NEW j \in 1 .. Len(e.fifo) PROVE e.fifo[j] = Clear
      BY <2>7, <3>1
    <3>3. Settled(e.fifo, Full, e.bits, k)
      BY <1>1, <1>4 DEF Rest
    <3>4. ~Silent(e.fifo, Full)
      BY <2>7 DEF Silent, Clear
    <3>5. LastIs(e.fifo, Full, TRUE)
      BY <2>2, <3>3, <3>4 DEF Settled
    <3>. QED BY <3>2, <3>5 DEF LastIs, Clear
  <2>8. p \in Ems /\ Len(p.fifo) = 1
    <3>1. 0 \in 0 .. 2 /\ FALSE \in BOOLEAN
      OBVIOUS
    <3>2. p \in Ems /\ Len(p.fifo) = Len(q(0).fifo) + 1
      BY <1>1, <2>3, <3>1, PutTyped
    <3>3. Len(q(0).fifo) = 0
      BY <1>8, <2>3
    <3>. HIDE DEF p
    <3>. QED BY <3>2, <3>3
  <2>9. p.fifo = Append(f, [bit |-> Full, set |-> FALSE]) /\ p.overflow = 0
    BY <2>3 DEF Put
  <2>10. Rest(p, t \o p.fifo, k)
    <3>1. \A i \in 1 .. Len(t \o q(2).fifo) : (t \o q(2).fifo)[i] # Clear
      BY <2>4, <2>7
    <3>2. Rest(Put(q(2), FALSE, Full, 0), t \o Append(q(2).fifo, [bit |-> Full, set |-> FALSE]), k)
      BY <1>1, <2>4, <3>1, PutRest
    <3>. QED BY <2>4, <2>6, <2>9, <3>2
  <2>. HIDE DEF p
  <2>11. Len(p.fifo) < FifoSize /\ p.overflow # 1 /\ p.overflow # 2
    BY <1>1, <2>8, <2>9
  <2>12. Good(p, t, k)
    BY <1>1, <2>8, <2>10, <2>11 DEF Good
  <2>. QED BY <2>1, <2>5, <2>12
<1>. QED BY <1>1, <1>6, <1>7, <1>8

(* The same for the message at the head of the fifo.                       *)
LEMMA TakeGood ==
  ASSUME NEW e, NEW k, Good(e, <<>>, k), e.fifo # <<>>
  PROVE  Good(OverflowTold([e EXCEPT !.fifo = Tail(e.fifo)]), <<Head(e.fifo)>>, k)
<1>. DEFINE f == Tail(e.fifo)
            t == <<Head(e.fifo)>>
            r == [e EXCEPT !.fifo = f]
<1>1. e \in Ems /\ e.fifo \in Seq(Messages)
  BY DEF Good, Ems
<1>2. /\ Head(e.fifo) \in Messages /\ f \in Seq(Messages) /\ Len(f) = Len(e.fifo) - 1
      /\ \A i \in 1 .. Len(f) : f[i] = e.fifo[i + 1]
  BY <1>1, HeadTailProperties
<1>3. t \in Seq(Messages) /\ Len(t) = 1
  BY <1>2
<1>4. t \o f = e.fifo
  BY <1>1, <1>2, <1>3
<1>. HIDE DEF f, t
<1>5. r \in Ems /\ r.bits = e.bits /\ r.fifo = f /\ r.overflow = e.overflow /\ r.lost = e.lost
  BY <1>1, <1>2 DEF Ems
<1>. HIDE DEF r
<1>6. Good(OverflowTold(r), t, k)
  BY <1>2, <1>3, <1>4, <1>5, TakenGood
<1>. QED BY <1>6 DEF f, t, r

-----------------------------------------------------------------------------
(* What at most one message means for the rest when the first is sent.     *)
LEMMA OneTail ==
  ASSUME NEW w \in Seq(Messages), w # <<>>, One(w)
  PROVE  /\ One(Tail(w))
         /\ w[1] = Clear => \A i \in 1 .. Len(Tail(w)) : Tail(w)[i] # Clear
<1>1. /\ Len(Tail(w)) = Len(w) - 1 /\ Len(w) \in Nat /\ Len(w) >= 1
      /\ \A i \in 1 .. Len(Tail(w)) : Tail(w)[i] = w[i + 1] /\ i + 1 \in 1 .. Len(w)
  BY HeadTailProperties
<1>2. ASSUME NEW i \in 1 .. Len(Tail(w)), NEW j \in 1 .. Len(Tail(w)),
             Tail(w)[i] = Clear, Tail(w)[j] = Clear
      PROVE  i = j
  <2>1. i + 1 = j + 1
    BY <1>1, <1>2 DEF One
  <2>. QED BY <2>1
<1>3. ASSUME NEW i \in 1 .. Len(Tail(w)), Tail(w)[i] = Clear, w[1] = Clear PROVE FALSE
  <2>1. i + 1 = 1
    BY <1>1, <1>3 DEF One
  <2>. QED BY <2>1
<1>. QED BY <1>2, <1>3 DEF One

(* When the overflow is taken back, nothing that waits was lost.           *)
LEMMA AfterTail ==
  ASSUME NEW w \in Seq(Messages), w # <<>>, NEW l, After(w, l)
  PROVE  /\ w[1] # Clear => After(Tail(w), l)
         /\ w[1] = Clear /\ One(w) => \A j \in 1 .. Len(w) : w[j].bit \notin l
<1>1. /\ Len(Tail(w)) = Len(w) - 1 /\ Len(w) \in Nat /\ Len(w) >= 1
      /\ \A i \in 1 .. Len(Tail(w)) : Tail(w)[i] = w[i + 1] /\ i + 1 \in 1 .. Len(w)
  BY HeadTailProperties
<1>2. PICK i \in 1 .. Len(w) : /\ w[i] = Clear
                               /\ \A j \in 1 .. Len(w) : w[j].bit \in l => j < i
  BY DEF After
<1>3. ASSUME w[1] # Clear PROVE After(Tail(w), l)
  <2>1. i - 1 \in 1 .. Len(Tail(w)) /\ Tail(w)[i - 1] = Clear
    <3>1. i # 1
      BY <1>2, <1>3
    <3>2. i - 1 \in 1 .. Len(Tail(w))
      BY <1>1, <3>1
    <3>. QED BY <1>1, <1>2, <3>2
  <2>2. ASSUME NEW j \in 1 .. Len(Tail(w)), Tail(w)[j].bit \in l PROVE j < i - 1
    <3>1. j + 1 < i
      BY <1>1, <1>2, <2>2
    <3>. QED BY <3>1, <1>1
  <2>. QED BY <2>1, <2>2 DEF After
<1>4. ASSUME w[1] = Clear, One(w), NEW j \in 1 .. Len(w), w[j].bit \in l PROVE FALSE
  <2>1. 1 \in 1 .. Len(w)
    BY <1>1
  <2>2. i = 1
    BY <1>2, <1>4, <2>1 DEF One
  <2>3. j < 1
    BY <1>2, <1>4, <2>2
  <2>. QED BY <2>3
<1>. QED BY <1>3, <1>4

(* EmergencySent: the master learns m, and reads what was lost when m takes*)
(* the overflow back.                                                      *)
LEMMA SentGood ==
  ASSUME NEW e, NEW m, NEW k, NEW new, NEW told, NEW x \in Ems,
         Good(e, <<m>>, k),
         told = IF m.set THEN k \cup {m.bit} ELSE k \ {m.bit},
         x.bits = e.bits, x.fifo = e.fifo, x.overflow = e.overflow,
         IF m = Clear
         THEN /\ new = (told \ e.lost) \cup (e.bits \cap e.lost)
              /\ x.lost = IF e.overflow = 0 THEN {} ELSE e.lost
         ELSE new = told /\ x.lost = e.lost
  PROVE  Good(x, <<>>, new)
<1>. DEFINE w == <<m>> \o e.fifo
<1>1. /\ e \in Ems /\ e.fifo \in Seq(Messages) /\ e.overflow \in 0 .. 2
      /\ e.bits \subseteq ErrorBits /\ e.lost \subseteq ErrorBits \ {Full} /\ k \subseteq ErrorBits
      /\ <<m>> \in Seq(Messages) /\ Len(e.fifo) < FifoSize
      /\ e.overflow = 1 => Len(e.fifo) = FifoSize - 1
      /\ e.overflow = 2 => Full \in e.bits /\ e.fifo # <<>>
  BY DEF Good, Ems
<1>2. m \in Messages /\ m.bit \in ErrorBits /\ m.set \in BOOLEAN
      /\ m = [bit |-> m.bit, set |-> m.set]
  <2>1. m \in Messages
    <3>1. <<m>>[1] \in Messages
      BY <1>1
    <3>. QED BY <3>1
  <2>. QED BY <2>1 DEF Messages
<1>3. /\ w \in Seq(Messages) /\ w # <<>> /\ w[1] = m /\ Tail(w) = e.fifo
  <2>1. /\ w \in Seq(Messages) /\ Len(w) = Len(e.fifo) + 1 /\ w[1] = m
        /\ \A i \in 1 .. Len(e.fifo) : w[i + 1] = e.fifo[i]
    BY <1>1, <1>2
  <2>2. w # <<>>
    BY <1>1, <2>1
  <2>3. Tail(w) = e.fifo
    BY <1>1, <2>1, <2>2, HeadTailProperties
  <2>. QED BY <2>1, <2>2, <2>3
<1>. HIDE DEF w
<1>4. Rest(e, w, k)
  BY DEF Good, w
<1>5. new \subseteq ErrorBits
  BY <1>1, <1>2
<1>6. x.lost \subseteq e.lost
  BY <1>1
<1>7. ASSUME NEW b \in ErrorBits \ e.lost PROVE Settled(e.fifo, b, x.bits, new)
  <2>1. b \in new <=> b \in told
    BY <1>7
  <2>2. (w[1].bit # b => (b \in new <=> b \in k))
    BY <1>3, <2>1
  <2>3. w[1] = [bit |-> b, set |-> TRUE] => b \in new
    BY <1>3, <2>1
  <2>4. w[1] = [bit |-> b, set |-> FALSE] => b \notin new
    BY <1>3, <2>1
  <2>5. Settled(w, b, e.bits, k)
    BY <1>4, <1>7 DEF Rest
  <2>6. Settled(Tail(w), b, e.bits, new)
    BY <1>3, <2>2, <2>3, <2>4, <2>5, TailSettled
  <2>. QED BY <1>3, <2>6
<1>8. One(e.fifo)
  BY <1>3, <1>4, OneTail DEF Rest
<1>9. ASSUME Rest(x, e.fifo, new) PROVE Good(x, <<>>, new)
  <2>1. /\ <<>> \in Seq(Messages) /\ Len(<<>>) <= 1 /\ new \in SUBSET ErrorBits
        /\ <<>> \o e.fifo = e.fifo
    BY <1>1, <1>5, EmptySeq, ConcatEmptySeq
  <2>2. Rest(x, <<>> \o e.fifo, new)
    BY <1>9, <2>1
  <2>. QED BY <1>1, <2>1, <2>2, GoodIf
<1>10. CASE m = Clear /\ e.overflow = 0 /\ e.lost # {}
  <2>1. x.lost = {} /\ new = (told \ e.lost) \cup (e.bits \cap e.lost)
    BY <1>10
  <2>2. After(w, e.lost) /\ One(w)
    BY <1>4, <1>10 DEF Rest
  <2>3. \A j \in 1 .. Len(w) : w[j].bit \notin e.lost
    BY <1>3, <1>10, <2>2, AfterTail
  <2>4. \A j \in 1 .. Len(e.fifo) : e.fifo[j].bit \notin e.lost
    <3>1. \A j \in 1 .. Len(e.fifo) : e.fifo[j] = w[j + 1] /\ j + 1 \in 1 .. Len(w)
      BY <1>3, HeadTailProperties
    <3>. QED BY <2>3, <3>1
  <2>5. ASSUME NEW b \in e.lost PROVE Settled(e.fifo, b, x.bits, new)
    <3>1. b \in new <=> b \in x.bits
      BY <2>1, <2>5
    <3>2. Silent(e.fifo, b)
      BY <2>4 DEF Silent
    <3>. QED BY <3>1, <3>2 DEF Settled
  <2>6. Rest(x, e.fifo, new)
    BY <1>7, <1>8, <2>1, <2>5 DEF Rest
  <2>. QED BY <2>6, <1>9
<1>11. CASE ~(m = Clear /\ e.overflow = 0 /\ e.lost # {})
  <2>1. x.lost = e.lost
    BY <1>11
  <2>2. ASSUME x.overflow = 0, x.lost # {} PROVE After(e.fifo, x.lost)
    <3>1. After(w, e.lost) /\ m # Clear
      BY <1>4, <1>11, <2>1, <2>2 DEF Rest
    <3>. QED BY <1>3, <2>1, <3>1, AfterTail
  <2>3. Rest(x, e.fifo, new)
    BY <1>7, <1>8, <2>1, <2>2 DEF Rest
  <2>. QED BY <2>3, <1>9
<1>. QED BY <1>10, <1>11

-----------------------------------------------------------------------------
(* The invariant: Informed, and how a full fifo comes to be told.          *)
IInv == Good(Now, tx, known)

(* The types the invariant implies.                                        *)
LEMMA NowTyped ==
  ASSUME IInv
  PROVE  /\ Now \in Ems /\ Now.bits = errorStatusBits /\ Now.fifo = fifo
         /\ Now.overflow = fifoOverflow /\ Now.lost = lost
         /\ tx \in Seq(Messages) /\ Len(tx) <= 1 /\ known \subseteq ErrorBits
BY DEF IInv, Good, Now

(* Becomes says what the next state of the emergencies is.                 *)
LEMMA BecomesNow ==
  ASSUME NEW e \in Ems, Becomes(e)
  PROVE  Now' = e
<1>1. e = [bits |-> e.bits, fifo |-> e.fifo, overflow |-> e.overflow, lost |-> e.lost]
  BY DEF Ems
<1>2. Now' = [bits |-> e.bits, fifo |-> e.fifo, overflow |-> e.overflow, lost |-> e.lost]
  BY DEF Becomes, Now
<1>. QED BY <1>1, <1>2

(* After a reset nothing waits and the master has read everything.         *)
LEMMA FreshGood ==
  ASSUME NEW bits \in SUBSET ErrorBits
  PROVE  Fresh(bits) \in Ems /\ Good(Fresh(bits), <<>>, bits)
<1>. DEFINE f == Fresh(bits)
<1>1. /\ f \in Ems /\ f.bits = bits /\ f.fifo = <<>> /\ f.overflow = 0 /\ f.lost = {}
  BY EmptySeq DEF Fresh, Ems
<1>2. <<>> \in Seq(Messages) /\ <<>> \o <<>> = <<>> /\ Len(<<>>) = 0
  OBVIOUS
<1>. HIDE DEF f
<1>3. Rest(f, <<>>, bits)
  <2>1. One(<<>>) /\ \A b : Silent(<<>>, b)
    BY <1>2 DEF One, Silent
  <2>. QED BY <1>1, <2>1 DEF Rest, Settled
<1>4. Len(<<>>) < FifoSize /\ Len(<<>>) <= 1
  BY <1>2, EmergencyAssumption
<1>5. Rest(f, <<>> \o <<>>, bits) /\ f.overflow # 1 /\ f.overflow # 2
  BY <1>1, <1>2, <1>3
<1>6. Good(f, <<>>, bits)
  <2>. DEFINE z == <<>>
  <2>1. /\ z \in Seq(Messages) /\ Len(z) <= 1 /\ Len(z) < FifoSize /\ f.fifo = z
        /\ Rest(f, z \o z, bits)
    BY <1>1, <1>2, <1>4, <1>5
  <2>. HIDE DEF z
  <2>2. Good(f, z, bits)
    BY <1>1, <1>5, <2>1, GoodIf
  <2>. QED BY <2>2 DEF z
<1>. QED BY <1>1, <1>6 DEF f

(* The first state has the invariant.                                      *)
LEMMA Initially == Init => IInv
<1>. SUFFICES ASSUME Init PROVE IInv
  OBVIOUS
<1>1. Now = Fresh({}) /\ tx = <<>> /\ known = {}
  BY DEF Init, Now, Fresh
<1>2. Good(Fresh({}), <<>>, {})
  BY FreshGood
<1>. QED BY <1>1, <1>2 DEF IInv

(* Every step keeps it: one case per action.                               *)
LEMMA Step ==
  ASSUME IInv, [Next]_vars
  PROVE  IInv'
<1>1. ASSUME UNCHANGED <<em, tx, known>> PROVE IInv'
  <2>1. Now' = Now /\ tx' = tx /\ known' = known
    BY <1>1 DEF em, Now
  <2>. QED BY <2>1 DEF IInv
<1>2. ASSUME NEW e, Good(e, tx', known'), Becomes(e) PROVE IInv'
  <2>1. Now' = e
    BY <1>2, BecomesNow DEF Good
  <2>. QED BY <1>2, <2>1 DEF IInv
<1>3. ASSUME NEW set \in BOOLEAN, NEW bit \in OtherBits, Error(set, bit) PROVE IInv'
  <2>1. bit \in ErrorBits /\ bit # Full
    BY Distinct DEF ErrorBits
  <2>2. Good(CO_error(Now, set, bit), tx, known)
    BY <2>1, ErrorGood DEF IInv
  <2>3. tx' = tx /\ known' = known /\ Becomes(CO_error(Now, set, bit))
    BY <1>3 DEF Error
  <2>. QED BY <1>2, <2>2, <2>3
<1>4. CASE TxOverflow \/ NMTStateChanges
  BY <1>1, <1>4 DEF TxOverflow, NMTStateChanges
<1>5. ASSUME NEW bits \in SUBSET ErrorBits, Restart(bits) PROVE IInv'
  <2>1. Becomes(Fresh(bits)) /\ tx' = <<>> /\ known' = bits
    BY <1>5 DEF Restart
  <2>. QED BY <1>2, <2>1, FreshGood
<1>6. CASE ResetCommunication
  <2>1. errorStatusBits \in SUBSET ErrorBits
    BY NowTyped DEF Ems
  <2>. QED BY <1>5, <1>6, <2>1 DEF ResetCommunication
<1>7. CASE ResetNode
  BY <1>5, <1>7 DEF ResetNode
<1>8. ASSUME NEW c \in Counters, CO_EM_process(c) PROVE IInv'
  <2>. DEFINE e == DriverErrors(Now)
  <2>1. Good(e, tx, known)
    BY DriverErrorsGood DEF IInv
  <2>2. known' = known
    BY <1>8 DEF CO_EM_process
  <2>3. \/ /\ e.fifo # <<>> /\ tx = <<>> /\ tx' = <<Head(e.fifo)>>
           /\ Becomes(OverflowTold([e EXCEPT !.fifo = Tail(e.fifo)]))
        \/ Becomes(e) /\ tx' = tx
    BY <1>8 DEF CO_EM_process
  <2>. HIDE DEF e
  <2>4. CASE Becomes(e) /\ tx' = tx
    BY <1>2, <2>1, <2>2, <2>4
  <2>5. CASE /\ e.fifo # <<>> /\ tx = <<>> /\ tx' = <<Head(e.fifo)>>
             /\ Becomes(OverflowTold([e EXCEPT !.fifo = Tail(e.fifo)]))
    <3>1. Good(OverflowTold([e EXCEPT !.fifo = Tail(e.fifo)]), <<Head(e.fifo)>>, known)
      BY <2>1, <2>5, TakeGood
    <3>. QED BY <1>2, <2>2, <2>5, <3>1
  <2>. QED BY <2>3, <2>4, <2>5
<1>9. CASE EmergencySent
  <2>. DEFINE m == tx[1]
              told == IF m.set THEN known \cup {m.bit} ELSE known \ {m.bit}
  <2>1. tx = <<m>> /\ m \in Messages
    <3>1. tx # <<>> /\ tx \in Seq(Messages) /\ Len(tx) <= 1
      BY <1>9, NowTyped DEF EmergencySent
    <3>2. Len(tx) = 1
      <4>. DEFINE s == tx
      <4>1. s # <<>> /\ s \in Seq(Messages) /\ Len(s) <= 1
        BY <3>1
      <4>. HIDE DEF s
      <4>2. \A q \in Seq(Messages) : q # <<>> => Len(q) \in Nat \ {0}
        BY EmptySeq
      <4>3. Len(s) \in Nat \ {0}
        BY <4>1, <4>2
      <4>4. Len(s) <= 1
        BY <4>1
      <4>5. \A n \in Nat \ {0} : n <= 1 => n = 1
        OBVIOUS
      <4>6. Len(s) = 1
        BY <4>3, <4>4, <4>5
      <4>. QED BY <4>6 DEF s
    <3>. QED BY <3>1, <3>2
  <2>2. m = Clear <=> m.bit = Full /\ ~m.set
    BY <2>1 DEF Clear, Messages
  <2>3. /\ tx' = <<>> /\ errorStatusBits' = errorStatusBits /\ fifo' = fifo
        /\ fifoOverflow' = fifoOverflow
        /\ IF m.bit = Full /\ ~m.set
           THEN /\ known' = (told \ lost) \cup (errorStatusBits \cap lost)
                /\ lost' = IF fifoOverflow = 0 THEN {} ELSE lost
           ELSE known' = told /\ lost' = lost
    BY <1>9 DEF EmergencySent
  <2>4. Good(Now, <<m>>, known)
    BY <2>1 DEF IInv
  <2>. HIDE DEF m
  <2>5. lost' \subseteq lost
    BY <2>3
  <2>6. /\ Now' \in Ems /\ (Now').bits = Now.bits /\ (Now').fifo = Now.fifo
        /\ (Now').overflow = Now.overflow /\ (Now').lost = lost'
    BY <2>3, <2>5, NowTyped DEF Now, Ems
  <2>7. IF m = Clear
        THEN /\ known' = (told \ Now.lost) \cup (Now.bits \cap Now.lost)
             /\ (Now').lost = IF Now.overflow = 0 THEN {} ELSE Now.lost
        ELSE known' = told /\ (Now').lost = Now.lost
    BY <2>2, <2>3, <2>6, NowTyped
  <2>. HIDE DEF told
  <2>8. told = IF m.set THEN known \cup {m.bit} ELSE known \ {m.bit}
    BY DEF told
  <2>9. Good(Now', <<>>, known')
    BY <2>4, <2>6, <2>7, <2>8, SentGood
  <2>. QED BY <2>3, <2>9 DEF IInv
<1>10. CASE UNCHANGED vars
  BY <1>1, <1>10 DEF vars, em
<1>. QED BY <1>3, <1>4, <1>6, <1>7, <1>8, <1>9, <1>10 DEF Next, Disturbance

(* The invariant implies Informed.                                         *)
LEMMA InformedHolds == IInv => Informed
<1>. SUFFICES ASSUME IInv PROVE Informed
  OBVIOUS
<1>. DEFINE w == Waiting
<1>1. /\ w \in Seq(Messages) /\ DOMAIN w = 1 .. Len(w) /\ Rest(Now, w, known)
      /\ fifoOverflow \in 0 .. 2
      /\ fifoOverflow = 1 => Len(fifo) = FifoSize - 1
      /\ fifoOverflow = 2 => fifo # <<>>
  <2>1. Waiting = tx \o Now.fifo /\ tx \in Seq(Messages) /\ Now.fifo \in Seq(Messages)
    BY NowTyped DEF Waiting, Ems
  <2>2. Rest(Now, tx \o Now.fifo, known)
    BY DEF IInv, Good
  <2>3. w \in Seq(Messages) /\ Rest(Now, w, known)
    BY <2>1, <2>2
  <2>4. fifoOverflow \in 0 .. 2
    BY NowTyped DEF Ems
  <2>5. (fifoOverflow = 1 => Len(fifo) = FifoSize - 1) /\ (fifoOverflow = 2 => fifo # <<>>)
    BY NowTyped DEF IInv, Good
  <2>. QED BY <2>3, <2>4, <2>5
<1>2. \A b : About(b) = {i \in 1 .. Len(w) : w[i].bit = b}
  BY <1>1 DEF About
<1>. HIDE DEF w
<1>3. ASSUME NEW i \in 1 .. Len(w) PROVE w[i].set \in BOOLEAN
  <2>1. w[i] \in Messages
    BY <1>1
  <2>. QED BY <2>1 DEF Messages
<1>4. ASSUME NEW b \in ErrorBits \ lost
      PROVE  IF About(b) = {}
             THEN b \in known <=> b \in errorStatusBits
             ELSE \E i \in About(b) : /\ \A j \in About(b) : j <= i
                                      /\ w[i].set <=> b \in errorStatusBits
  <2>1. Settled(w, b, errorStatusBits, known)
    BY <1>1, <1>4, NowTyped DEF Rest
  <2>2. ASSUME NEW on \in BOOLEAN, LastIs(w, b, on), on <=> b \in errorStatusBits
        PROVE  /\ About(b) # {}
               /\ \E i \in About(b) : /\ \A j \in About(b) : j <= i
                                      /\ w[i].set <=> b \in errorStatusBits
    <3>1. PICK i \in 1 .. Len(w) : /\ w[i] = [bit |-> b, set |-> on]
                                   /\ \A j \in 1 .. Len(w) : w[j].bit = b => j <= i
      BY <2>2 DEF LastIs
    <3>2. i \in About(b) /\ \A j \in About(b) : j <= i
      BY <1>2, <3>1
    <3>3. w[i].set <=> b \in errorStatusBits
      BY <2>2, <3>1
    <3>. QED BY <3>2, <3>3
  <2>3. CASE Silent(w, b) /\ (b \in known <=> b \in errorStatusBits)
    <3>1. About(b) = {}
      BY <1>2, <2>3 DEF Silent
    <3>. QED BY <2>3, <3>1
  <2>4. CASE LastIs(w, b, TRUE) /\ b \in errorStatusBits
    BY <2>2, <2>4
  <2>5. CASE LastIs(w, b, FALSE) /\ b \notin errorStatusBits
    BY <2>2, <2>5
  <2>. QED BY <2>1, <2>3, <2>4, <2>5 DEF Settled
<1>5. ASSUME lost # {}
      PROVE  \/ fifoOverflow # 0 /\ fifo # <<>>
             \/ \E i \in About(Full) : /\ ~w[i].set
                                       /\ \A j \in DOMAIN w : w[j].bit \in lost => j < i
  <2>1. CASE fifoOverflow = 0
    <3>1. After(w, lost)
      BY <1>1, <1>5, <2>1, NowTyped DEF Rest
    <3>2. PICK i \in 1 .. Len(w) : /\ w[i] = Clear
                                   /\ \A j \in 1 .. Len(w) : w[j].bit \in lost => j < i
      BY <3>1 DEF After
    <3>3. w[i].bit = Full /\ ~w[i].set
      BY <3>2 DEF Clear
    <3>. QED BY <1>1, <1>2, <3>2, <3>3
  <2>2. CASE fifoOverflow = 1
    <3>1. Len(fifo) # 0
      BY <1>1, <2>2, EmergencyAssumption
    <3>2. fifo # <<>>
      BY <3>1
    <3>. QED BY <2>2, <3>2
  <2>3. CASE fifoOverflow = 2
    BY <1>1, <2>3
  <2>4. fifoOverflow = 0 \/ fifoOverflow = 1 \/ fifoOverflow = 2
    BY <1>1
  <2>. QED BY <2>1, <2>2, <2>3, <2>4
<1>. QED BY <1>4, <1>5 DEF Informed, w

(* Informed, for every length of the fifo: what the master knows and what  *)
(* waits to be sent to it make up errorStatusBits, or the overflow is yet  *)
(* to be taken back (CO_error and CO_EM_process).                          *)
THEOREM MasterInformed == Spec => []Informed
<1>1. IInv /\ [Next]_vars => IInv'
  BY Step
<1>. QED BY Initially, <1>1, InformedHolds, PTL DEF Spec

-----------------------------------------------------------------------------
(* What the proof needs of the types.                                      *)
NmtTypes ==
  /\ at \in {"receive", "nmt", "sdo", "hb", "reset"}
  /\ dt \in 1 .. MaxStep
  /\ operatingState \in {"INITIALIZING", "PRE_OPERATIONAL", "OPERATIONAL", "STOPPED"}
  /\ internalCommand \in Commands \cup {"NO_COMMAND"}
  /\ nodeId \in [Entries -> Nodes \cup {None}]
  /\ rxNode \in [Entries -> Nodes \cup {None}]
  /\ x1016 \in [Entries -> Nodes \cup {None}]
  /\ HBstate \in [Entries -> {"UNCONFIGURED", "UNKNOWN", "ACTIVE", "TIMEOUT"}]
  /\ CANrxNew \in [Entries -> {"none", "boot", "beat"}]
  /\ timeoutTimer \in [Entries -> Nat]
  /\ silent \in [Entries -> Nat]
  /\ heard \in [Entries -> BOOLEAN]
  /\ NMTisPreOrOperationalPrev \in BOOLEAN
(* An entry without a node is not configured, and a receive buffer takes   *)
(* the frames of the node that the entry watches. (Not the other way       *)
(* round: an entry that was refused watches a node it does not hear.)      *)
Configured ==
  \A e \in Entries :
    /\ HBstate[e] = "UNCONFIGURED" <=> nodeId[e] = None
    /\ rxNode[e] # None => nodeId[e] = rxNode[e]
(* Between two passes, before time goes on.                                *)
Between == at \in {"receive", "reset"}
(* What the heartbeat consumer has last seen of the NMT state.             *)
Phases ==
  /\ at \in {"sdo", "hb"} => operatingState # "INITIALIZING"
  /\ at \notin {"sdo", "hb"} => NMTisPreOrOperationalPrev = PreOrOperational
(* Monitoring is over in STOPPED, and communication starts again only with *)
(* an error left if it is not.                                             *)
Forgets ==
  \A e \in Entries : heard[e] =>
    /\ operatingState # "STOPPED" /\ (operatingState = "INITIALIZING" => hbErrors # {})
    /\ nodeId[e] # None
(* A heartbeat is looked at in the pass it is taken in.                    *)
Pending ==
  NMTisPreOrOperationalPrev =>
    \A e \in Entries : HBstate[e] # "UNCONFIGURED" =>
      /\ Between => CANrxNew[e] = "none"
      /\ CANrxNew[e] = "beat" => silent[e] = 0
(* A node that was heard is in one of three cases: its silence is in the   *)
(* error bits, and they are not taken back before it is ACTIVE; its timer  *)
(* has counted all of its silence; or its heartbeat waits to be looked at. *)
Missed(e) == hbErrors # {} /\ (HBstate[e] = "ACTIVE" => ~NMTisPreOrOperationalPrev)
Timed(e) ==
  /\ NMTisPreOrOperationalPrev /\ HBstate[e] = "ACTIVE"
  /\ timeoutTimer[e] < ConsumerTime
  /\ silent[e] <= timeoutTimer[e] + (IF Between THEN 0 ELSE dt)
JustHeard(e) == NMTisPreOrOperationalPrev /\ ~Between /\ CANrxNew[e] = "beat"
Followed == \A e \in Entries : heard[e] => Missed(e) \/ Timed(e) \/ JustHeard(e)
(* In OPERATIONAL no silence is longer than the timer lets it grow, until  *)
(* CO_NMT_process sees the error.                                          *)
InTime ==
  operatingState = "OPERATIONAL" => \A e \in Entries : heard[e] =>
    /\ Between => silent[e] < ConsumerTime + MaxStep
    /\ at = "nmt" => silent[e] < Forgotten
    /\ at \in {"sdo", "hb"} => hbErrors = {}
(* The invariant.                                                          *)
NmtInv == NmtTypes /\ Configured /\ Phases /\ Forgets /\ Pending /\ Followed /\ InTime

-----------------------------------------------------------------------------
(* What is assumed of the constants.                                       *)
LEMMA NmtConstants ==
  /\ Count \in Nat /\ Count > 0 /\ ConsumerTime \in Nat /\ ConsumerTime > 0
  /\ MaxStep \in Nat /\ MaxStep > 0
  /\ None \notin Nodes /\ Defaults \in [Entries -> Nodes \cup {None}]
  /\ Forgotten \in Nat /\ Forgotten = ConsumerTime + 2 * MaxStep
BY NmtAssumption DEF NmtAssumption, Forgotten

(* Nothing has been heard at the start.                                    *)
LEMMA NmtStarts == NmtInit => NmtInv
<1> SUFFICES ASSUME NmtInit PROVE NmtInv
  OBVIOUS
<1> USE DEF NmtInit
<1>0. /\ nodeId \in [Entries -> Nodes \cup {None}] /\ rxNode = nodeId
      /\ operatingState = "INITIALIZING" /\ at = "receive" /\ NMTisPreOrOperationalPrev = FALSE
      /\ \A e \in Entries : ~heard[e]
  BY DEF InitEntries
<1>1. NmtTypes
  <2>1. HBstate \in [Entries -> {"UNCONFIGURED", "UNKNOWN", "ACTIVE", "TIMEOUT"}]
    BY DEF InitState
  <2>2. /\ silent \in [Entries -> Nat] /\ x1016 \in [Entries -> Nodes \cup {None}]
        /\ dt \in 1 .. MaxStep
    BY NmtConstants
  <2>3. /\ CANrxNew \in [Entries -> {"none", "boot", "beat"}] /\ timeoutTimer \in [Entries -> Nat]
        /\ heard \in [Entries -> BOOLEAN]
    OBVIOUS
  <2> QED
    BY <1>0, <2>1, <2>2, <2>3 DEF NmtTypes
<1>2. Configured
  BY <1>0 DEF Configured, InitState
<1>3. Phases
  <2>1. PreOrOperational = FALSE
    BY <1>0 DEF PreOrOperational
  <2> QED
    BY <1>0, <2>1 DEF Phases
<1>4. Forgets /\ Followed
  BY <1>0 DEF Forgets, Followed
<1>5. Pending /\ InTime
  BY <1>0 DEF Pending, InTime
<1> QED
  BY <1>1, <1>2, <1>3, <1>4, <1>5 DEF NmtInv

(* A silence grows by no more than the pass takes.                         *)
LEMMA SilenceGrows ==
  ASSUME NmtTypes, dt' \in 1 .. MaxStep
  PROVE  /\ Silence \in [Entries -> Nat]
         /\ \A e \in Entries : Silence[e] <= silent[e] + dt'
<1> USE NmtConstants
<1>1. \A e \in Entries : Smaller(silent[e] + dt', Forgotten) \in Nat
                         /\ Smaller(silent[e] + dt', Forgotten) <= silent[e] + dt'
  BY DEF NmtTypes, Smaller
<1> QED
  BY <1>1 DEF Silence

(* CO_NMT_receive and CO_HBcons_receive: a heartbeat ends the silence and  *)
(* waits to be looked at.                                                  *)
LEMMA ReceiveKeeps == NmtInv /\ Receive => NmtInv'
<1> SUFFICES ASSUME NmtInv, Receive PROVE NmtInv'
  OBVIOUS
<1> USE NmtConstants
<1>0. NmtTypes /\ Configured /\ Phases /\ Forgets /\ Pending /\ Followed /\ InTime
  BY DEF NmtInv
<1>1. Pass
  BY DEF Receive, ReceiveNothing, ReceiveCommand, ReceiveHeartbeat
<1>2. /\ at = "receive" /\ at' = "nmt" /\ dt' \in 1 .. MaxStep
      /\ UNCHANGED <<operatingState, nodeId, rxNode, x1016, HBstate, timeoutTimer,
                     NMTisPreOrOperationalPrev, hbErrors>>
      /\ PreOrOperational' = PreOrOperational
  BY <1>1 DEF Pass, conf, PreOrOperational
<1>3. internalCommand' \in Commands \cup {"NO_COMMAND"}
  BY <1>0 DEF Receive, ReceiveNothing, ReceiveCommand, ReceiveHeartbeat, NmtTypes
<1>4. /\ CANrxNew' \in [Entries -> {"none", "boot", "beat"}]
      /\ silent' \in [Entries -> Nat] /\ heard' \in [Entries -> BOOLEAN]
      /\ \A e \in Entries :
           \/ /\ CANrxNew'[e] = CANrxNew[e] /\ silent'[e] <= silent[e] + dt'
              /\ heard'[e] = heard[e]
           \/ /\ rxNode[e] # None /\ CANrxNew'[e] = "boot" /\ silent'[e] <= silent[e] + dt'
              /\ heard'[e] = heard[e]
           \/ /\ rxNode[e] # None /\ CANrxNew'[e] = "beat" /\ silent'[e] = 0
              /\ heard'[e] = (heard[e] \/ PreOrOperational)
  <2>1. Silence \in [Entries -> Nat] /\ \A e \in Entries : Silence[e] <= silent[e] + dt'
    BY <1>0, <1>2, SilenceGrows
  <2>2. CASE ReceiveNothing \/ \E c \in Commands : ReceiveCommand(c)
    BY <1>0, <2>1, <2>2 DEF ReceiveNothing, ReceiveCommand, NmtTypes
  <2>3. CASE \E e \in Entries, kind \in {"boot", "beat"} : ReceiveHeartbeat(e, kind)
    <3> PICK e \in Entries, kind \in {"boot", "beat"} : ReceiveHeartbeat(e, kind)
      BY <2>3
    <3>1. CANrxNew' = [CANrxNew EXCEPT ![e] = kind] /\ rxNode[e] # None
      BY DEF ReceiveHeartbeat
    <3>2. silent' = [Silence EXCEPT ![e] = IF kind = "beat" THEN 0 ELSE @]
      BY DEF ReceiveHeartbeat
    <3>3. heard' = [heard EXCEPT ![e] = @ \/ (kind = "beat" /\ PreOrOperational)]
      BY DEF ReceiveHeartbeat
    <3>4. CANrxNew' \in [Entries -> {"none", "boot", "beat"}] /\ silent' \in [Entries -> Nat]
      BY <1>0, <2>1, <3>1, <3>2 DEF NmtTypes
    <3>5. heard' \in [Entries -> BOOLEAN]
      BY <1>0, <3>3 DEF NmtTypes, PreOrOperational
    <3>6. ASSUME NEW o \in Entries
          PROVE  \/ /\ CANrxNew'[o] = CANrxNew[o] /\ silent'[o] <= silent[o] + dt'
                    /\ heard'[o] = heard[o]
                 \/ /\ rxNode[o] # None /\ CANrxNew'[o] = "boot" /\ silent'[o] <= silent[o] + dt'
                    /\ heard'[o] = heard[o]
                 \/ /\ rxNode[o] # None /\ CANrxNew'[o] = "beat" /\ silent'[o] = 0
                    /\ heard'[o] = (heard[o] \/ PreOrOperational)
      <4>0. heard[o] \in BOOLEAN /\ PreOrOperational \in BOOLEAN /\ Silence[o] <= silent[o] + dt'
        BY <1>0, <2>1 DEF NmtTypes, PreOrOperational
      <4>1. CASE o # e
        BY <1>0, <2>1, <3>1, <3>2, <3>3, <4>0, <4>1 DEF NmtTypes
      <4>2. CASE o = e /\ kind = "boot"
        BY <1>0, <2>1, <3>1, <3>2, <3>3, <4>0, <4>2 DEF NmtTypes
      <4>3. CASE o = e /\ kind = "beat"
        BY <1>0, <2>1, <3>1, <3>2, <3>3, <4>0, <4>3 DEF NmtTypes
      <4> QED
        BY <4>1, <4>2, <4>3
    <3> QED
      BY <3>4, <3>5, <3>6
  <2> QED
    BY <2>2, <2>3 DEF Receive
<1>5. NmtTypes' /\ Configured' /\ Phases'
  BY <1>0, <1>2, <1>3, <1>4 DEF NmtTypes, Configured, Phases
<1>6. \A e \in Entries : heard'[e] => heard[e] \/ (PreOrOperational /\ nodeId[e] # None
                                                   /\ CANrxNew'[e] = "beat" /\ silent'[e] = 0)
  BY <1>0, <1>4 DEF Configured
<1>7. Forgets'
  BY <1>0, <1>2, <1>6 DEF Forgets, PreOrOperational
<1>8. NMTisPreOrOperationalPrev = PreOrOperational
  BY <1>0, <1>2 DEF Phases
<1>9. Pending'
  BY <1>0, <1>2, <1>4, <1>8 DEF Pending, Between
<1>10. Followed'
  <2> SUFFICES ASSUME NEW e \in Entries, heard'[e]
               PROVE  (Missed(e) \/ Timed(e) \/ JustHeard(e))'
    BY DEF Followed
  <2>0. ~Between' /\ Between
    BY <1>2 DEF Between
  <2>1. CASE CANrxNew'[e] = "beat" /\ silent'[e] = 0 /\ PreOrOperational
    BY <1>2, <1>8, <2>0, <2>1 DEF JustHeard
  <2>2. CASE heard[e] /\ Missed(e)
    BY <1>2, <2>2 DEF Missed
  <2>3. CASE heard[e] /\ Timed(e) /\ silent'[e] <= silent[e] + dt'
    <3>1. /\ silent'[e] \in Nat /\ silent[e] \in Nat /\ dt' \in Nat /\ timeoutTimer[e] \in Nat
          /\ silent[e] <= timeoutTimer[e] + 0 /\ silent'[e] <= silent[e] + dt'
      BY <1>0, <1>2, <1>4, <2>0, <2>3 DEF Timed, NmtTypes
    <3>2. silent'[e] <= timeoutTimer[e] + dt'
      BY <3>1
    <3> QED
      BY <1>2, <2>0, <2>3, <3>2 DEF Timed
  <2>4. CASE heard[e] /\ JustHeard(e)
    BY <2>0, <2>4 DEF JustHeard
  <2>5. heard[e] => Missed(e) \/ Timed(e) \/ JustHeard(e)
    BY <1>0 DEF Followed
  <2>6. silent'[e] <= silent[e] + dt' \/ (CANrxNew'[e] = "beat" /\ silent'[e] = 0)
    BY <1>4
  <2>7. CASE CANrxNew'[e] = "beat" /\ silent'[e] = 0 /\ ~PreOrOperational
    <3>1. heard[e]
      BY <1>6, <2>7
    <3> QED
      BY <1>8, <2>2, <2>5, <2>7, <3>1 DEF Timed, JustHeard
  <2> QED
    BY <1>6, <2>1, <2>2, <2>3, <2>4, <2>5, <2>6, <2>7
<1>11. InTime'
  <2> SUFFICES ASSUME operatingState = "OPERATIONAL", NEW e \in Entries, heard'[e]
               PROVE  silent'[e] < Forgotten
    BY <1>2 DEF InTime, Between
  <2>1. CASE silent'[e] = 0
    BY <2>1
  <2>2. CASE heard[e] /\ silent'[e] <= silent[e] + dt'
    <3>1. silent[e] < ConsumerTime + MaxStep
      BY <1>0, <1>2, <2>2 DEF InTime, Between
    <3>2. silent[e] \in Nat /\ silent'[e] \in Nat /\ dt' \in Nat /\ dt' <= MaxStep
      BY <1>0, <1>2, <1>4 DEF NmtTypes
    <3> QED
      BY <2>2, <3>1, <3>2
  <2> QED
    BY <1>4, <1>6, <2>1, <2>2
<1> QED
  BY <1>5, <1>7, <1>9, <1>10, <1>11 DEF NmtInv

(* CO_NMT_process: with an error it does not go to OPERATIONAL.            *)
LEMMA ProcessKeeps == NmtInv /\ CO_NMT_process => NmtInv'
<1> SUFFICES ASSUME NmtInv, CO_NMT_process PROVE NmtInv'
  OBVIOUS
<1> USE NmtConstants
<1>0. NmtTypes /\ Configured /\ Phases /\ Forgets /\ Pending /\ Followed /\ InTime
  BY DEF NmtInv
<1>1. /\ at = "nmt" /\ at' = "sdo"
      /\ UNCHANGED <<dt, nodeId, rxNode, x1016, HBstate, timeoutTimer, CANrxNew, silent,
                     NMTisPreOrOperationalPrev, hbErrors>>
      /\ ~Between /\ ~Between'
  BY DEF CO_NMT_process, watch, conf, Between
<1>2. /\ operatingState' \in {"PRE_OPERATIONAL", "OPERATIONAL", "STOPPED"}
      /\ operatingState' = "OPERATIONAL" => hbErrors = {}
  <2>1. Commanded \in {"PRE_OPERATIONAL", "OPERATIONAL", "STOPPED"}
    BY <1>0 DEF Commanded, Started, NmtTypes
  <2>2. operatingState' = ErrorsAllow(Commanded)
    BY DEF CO_NMT_process
  <2> QED
    BY <2>1, <2>2 DEF ErrorsAllow
<1>3. /\ heard' \in [Entries -> BOOLEAN]
      /\ \A e \in Entries : heard'[e] => heard[e] /\ operatingState' # "STOPPED"
  <2>1. heard' = IF operatingState' = "STOPPED" THEN [e \in Entries |-> FALSE] ELSE heard
    BY DEF CO_NMT_process
  <2>2. CASE operatingState' = "STOPPED"
    BY <2>1, <2>2
  <2>3. CASE operatingState' # "STOPPED"
    BY <1>0, <2>1, <2>3 DEF NmtTypes
  <2> QED
    BY <2>2, <2>3
<1>4. internalCommand' = "NO_COMMAND"
  BY DEF CO_NMT_process
<1>5. NmtTypes' /\ Configured' /\ Phases'
  BY <1>0, <1>1, <1>2, <1>3, <1>4 DEF NmtTypes, Configured, Phases
<1>6. Forgets' /\ InTime'
  BY <1>0, <1>1, <1>2, <1>3 DEF Forgets, InTime, Between
<1>7. Pending'
  BY <1>0, <1>1 DEF Pending
<1>8. Followed'
  BY <1>0, <1>1, <1>3 DEF Followed, Missed, Timed, JustHeard
<1> QED
  BY <1>5, <1>6, <1>7, <1>8 DEF NmtInv

(* A write of x1016 changes no entry, and one of x1017 nothing that is     *)
(* watched.                                                                *)
LEMMA SdoKeeps == NmtInv /\ CO_SDOserver_process => NmtInv'
<1> SUFFICES ASSUME NmtInv, CO_SDOserver_process PROVE NmtInv'
  OBVIOUS
<1> USE NmtConstants
<1>0. NmtTypes /\ Configured /\ Phases /\ Forgets /\ Pending /\ Followed /\ InTime
  BY DEF NmtInv
<1>1. /\ at = "sdo" /\ at' = "hb"
      /\ UNCHANGED <<dt, operatingState, internalCommand, nodeId, rxNode, HBstate, timeoutTimer,
                     CANrxNew, silent, heard, NMTisPreOrOperationalPrev, hbErrors>>
      /\ ~Between /\ ~Between'
  BY DEF CO_SDOserver_process, NoWrite, OD_write_1017, Write1016, nmt, watch, conf, Between
<1>2. x1016' \in [Entries -> Nodes \cup {None}]
  BY <1>0 DEF CO_SDOserver_process, NoWrite, OD_write_1017, Write1016, conf, NmtTypes
<1>3. NmtTypes' /\ Configured' /\ Phases'
  BY <1>0, <1>1, <1>2 DEF NmtTypes, Configured, Phases
<1>4. Forgets' /\ InTime'
  BY <1>0, <1>1 DEF Forgets, InTime
<1>5. Pending' /\ Followed'
  BY <1>0, <1>1 DEF Pending, Followed, Missed, Timed, JustHeard
<1> QED
  BY <1>3, <1>4, <1>5 DEF NmtInv

-----------------------------------------------------------------------------
(* The first pass in PRE_OPERATIONAL or OPERATIONAL: what was heard before *)
(* left an error.                                                          *)
LEMMA StartOverKeeps ==
  ASSUME NmtInv, at = "hb", StartOver, PreOrOperational # NMTisPreOrOperationalPrev,
         at' \in {"receive", "reset"}, NMTisPreOrOperationalPrev' = PreOrOperational,
         UNCHANGED <<dt, nmt, conf, silent, heard>>
  PROVE  NmtInv'
<1> USE NmtConstants
<1>0. NmtTypes /\ Configured /\ Phases /\ Forgets /\ Pending /\ Followed /\ InTime
  BY DEF NmtInv
<1>1. /\ UNCHANGED <<dt, operatingState, internalCommand, nodeId, rxNode, x1016, timeoutTimer,
                     silent, heard, hbErrors>>
      /\ ~Between /\ Between' /\ PreOrOperational' = PreOrOperational
      /\ PreOrOperational \in BOOLEAN
  BY DEF nmt, conf, Between, StartOver, PreOrOperational
<1>2. /\ HBstate' \in [Entries -> {"UNCONFIGURED", "UNKNOWN"}]
      /\ \A e \in Entries : HBstate'[e] = "UNCONFIGURED" <=> HBstate[e] = "UNCONFIGURED"
      /\ CANrxNew' \in [Entries -> {"none"}]
  BY DEF StartOver
<1>3. NmtTypes' /\ Configured'
  BY <1>0, <1>1, <1>2 DEF NmtTypes, Configured
<1>4. Phases' /\ Forgets'
  BY <1>0, <1>1 DEF Phases, Forgets
<1>5. Pending'
  BY <1>1, <1>2 DEF Pending
<1>6. Followed'
  <2> SUFFICES ASSUME NEW e \in Entries, heard'[e] PROVE Missed(e)'
    BY DEF Followed
  <2>1. operatingState \in {"PRE_OPERATIONAL", "OPERATIONAL"}
    BY <1>0, <1>1 DEF Forgets, Phases, NmtTypes
  <2>2. NMTisPreOrOperationalPrev = FALSE
    BY <1>0, <2>1 DEF PreOrOperational, NmtTypes
  <2>3. hbErrors # {}
    BY <1>0, <1>1, <2>2 DEF Followed, Missed, Timed, JustHeard
  <2> QED
    BY <1>1, <1>2, <2>3 DEF Missed
<1>7. InTime'
  <2> SUFFICES ASSUME operatingState = "OPERATIONAL", NEW e \in Entries, heard[e] PROVE FALSE
    BY <1>1 DEF InTime
  <2>1. hbErrors = {}
    BY <1>0 DEF InTime
  <2>2. NMTisPreOrOperationalPrev = FALSE
    BY <1>0 DEF PreOrOperational, NmtTypes
  <2> QED
    BY <1>0, <2>1, <2>2 DEF Followed, Missed, Timed, JustHeard
<1> QED
  BY <1>3, <1>4, <1>5, <1>6, <1>7 DEF NmtInv

(* Only STOPPED is not monitored, and there nothing counts as heard.       *)
LEMMA IdleKeeps ==
  ASSUME NmtInv, at = "hb", Idle, ~PreOrOperational, ~NMTisPreOrOperationalPrev,
         at' \in {"receive", "reset"}, NMTisPreOrOperationalPrev' = PreOrOperational,
         UNCHANGED <<dt, nmt, conf, silent, heard>>
  PROVE  NmtInv'
<1>0. NmtTypes /\ Configured /\ Phases /\ Forgets /\ Pending /\ Followed /\ InTime
  BY DEF NmtInv
<1>1. /\ UNCHANGED <<dt, operatingState, internalCommand, nodeId, rxNode, x1016, timeoutTimer,
                     silent, heard, HBstate, CANrxNew>>
      /\ PreOrOperational' = PreOrOperational /\ PreOrOperational \in BOOLEAN
  BY DEF nmt, conf, Idle, PreOrOperational
<1>2. operatingState = "STOPPED" /\ \A e \in Entries : ~heard'[e]
  BY <1>0, <1>1 DEF Phases, PreOrOperational, NmtTypes, Forgets
<1>3. NmtTypes' /\ Configured'
  BY <1>0, <1>1 DEF NmtTypes, Configured
<1>4. Phases' /\ Forgets'
  BY <1>1, <1>2 DEF Phases, Forgets
<1>5. Pending' /\ Followed' /\ InTime'
  BY <1>1, <1>2 DEF Pending, Followed, InTime
<1> QED
  BY <1>3, <1>4, <1>5 DEF NmtInv

(* A timer that runs out, and a boot-up message of an ACTIVE node, set an  *)
(* error; none is taken back while an entry is not ACTIVE.                 *)
LEMMA MonitorKeeps ==
  ASSUME NmtInv, at = "hb", Monitor, PreOrOperational, NMTisPreOrOperationalPrev,
         at' \in {"receive", "reset"}, NMTisPreOrOperationalPrev' = PreOrOperational,
         UNCHANGED <<dt, nmt, conf, silent, heard>>
  PROVE  NmtInv'
<1> USE NmtConstants
<1>0. NmtTypes /\ Configured /\ Phases /\ Forgets /\ Pending /\ Followed /\ InTime
  BY DEF NmtInv
<1>1. /\ UNCHANGED <<dt, operatingState, internalCommand, nodeId, rxNode, x1016, silent, heard>>
      /\ PreOrOperational' = PreOrOperational /\ Between' /\ ~Between
      /\ PreOrOperational = TRUE /\ NMTisPreOrOperationalPrev' = TRUE
  BY DEF nmt, conf, Between, PreOrOperational
<1>2. \A e \in Entries :
        /\ Message(e) \in {"none", "boot", "beat"}
        /\ Met(e) \in {"UNCONFIGURED", "UNKNOWN", "ACTIVE", "TIMEOUT"}
        /\ Met(e) = "UNCONFIGURED" <=> HBstate[e] = "UNCONFIGURED"
        /\ Timer(e) \in Nat
  <2>1. \A e \in Entries :
          /\ Message(e) \in {"none", "boot", "beat"}
          /\ HBstate[e] = "UNCONFIGURED" => Message(e) = "none"
    BY <1>0 DEF Message, NmtTypes
  <2>2. \A e \in Entries :
          /\ Met(e) \in {"UNCONFIGURED", "UNKNOWN", "ACTIVE", "TIMEOUT"}
          /\ Met(e) = "UNCONFIGURED" <=> HBstate[e] = "UNCONFIGURED"
    BY <1>0, <2>1 DEF Met, NmtTypes
  <2>3. ASSUME NEW e \in Entries PROVE Timer(e) \in Nat
    <3>1. timeoutTimer[e] \in Nat /\ dt \in Nat
      BY <1>0 DEF NmtTypes
    <3> QED
      BY <3>1 DEF Timer
  <2> QED
    BY <2>1, <2>2, <2>3
<1>3. /\ HBstate' = [e \in Entries |-> IF TimedOut(e) THEN "TIMEOUT" ELSE Met(e)]
      /\ timeoutTimer' = [e \in Entries |-> Timer(e)]
      /\ CANrxNew' = [e \in Entries |-> IF HBstate[e] = "UNCONFIGURED" THEN CANrxNew[e] ELSE "none"]
  BY DEF Monitor
<1>4. NmtTypes'
  BY <1>0, <1>1, <1>2, <1>3 DEF NmtTypes
<1>5. \A e \in Entries : HBstate'[e] = "UNCONFIGURED" <=> HBstate[e] = "UNCONFIGURED"
  BY <1>2, <1>3 DEF TimedOut
<1>6. Configured'
  BY <1>0, <1>1, <1>5 DEF Configured
<1>7. Phases'
  BY <1>0, <1>1 DEF Phases, Between
<1>8. Forgets'
  BY <1>0, <1>1 DEF Forgets, PreOrOperational
<1>9. Pending'
  BY <1>3, <1>5 DEF Pending
<1>10. ASSUME NEW e \in Entries, HBstate'[e] \notin {"UNCONFIGURED", "ACTIVE"}
       PROVE  hbErrors' = Reported
  BY <1>10 DEF Monitor, Cleared
<1>11. Followed'
  <2> SUFFICES ASSUME NEW e \in Entries, heard[e] PROVE (Missed(e) \/ Timed(e) \/ JustHeard(e))'
    BY <1>1 DEF Followed
  <2>0. /\ HBstate[e] # "UNCONFIGURED" /\ Message(e) = CANrxNew[e]
        /\ HBstate'[e] = IF TimedOut(e) THEN "TIMEOUT" ELSE Met(e)
        /\ timeoutTimer'[e] = Timer(e) /\ timeoutTimer[e] \in Nat /\ silent[e] \in Nat /\ dt \in Nat
    BY <1>0, <1>3 DEF Configured, Forgets, Message, NmtTypes
  <2>1. CASE Message(e) = "beat"
    <3>1. Met(e) = "ACTIVE" /\ Timer(e) = 0
      BY <2>1 DEF Met, Timer
    <3>2. ~TimedOut(e)
      BY <3>1 DEF TimedOut
    <3>3. silent[e] = 0
      BY <1>0, <2>0, <2>1 DEF Pending
    <3> QED
      BY <1>1, <2>0, <3>1, <3>2, <3>3 DEF Timed
  <2>2. CASE Message(e) = "boot"
    <3>1. Met(e) = "UNKNOWN" /\ ~TimedOut(e) /\ HBstate'[e] = "UNKNOWN"
      BY <2>0, <2>2 DEF Met, TimedOut
    <3>2. hbErrors' = Reported
      BY <1>10, <3>1
    <3>3. hbErrors # {} \/ HBstate[e] = "ACTIVE"
      BY <1>0, <2>0, <2>2 DEF Followed, Missed, Timed, JustHeard
    <3>4. Reported # {}
      BY <2>2, <3>3 DEF Reported
    <3> QED
      BY <3>1, <3>2, <3>4 DEF Missed
  <2>3. CASE Message(e) = "none" /\ Missed(e)
    <3>1. HBstate[e] # "ACTIVE" /\ hbErrors # {}
      BY <1>1, <2>3 DEF Missed
    <3>2. Met(e) = HBstate[e] /\ ~TimedOut(e) /\ HBstate'[e] = HBstate[e]
      BY <2>0, <2>3, <3>1 DEF Met, TimedOut
    <3>3. hbErrors' = Reported /\ Reported # {}
      BY <1>10, <2>0, <3>1, <3>2 DEF Reported
    <3> QED
      BY <3>1, <3>2, <3>3 DEF Missed
  <2>4. CASE Message(e) = "none" /\ Timed(e)
    <3>1. Met(e) = "ACTIVE" /\ Timer(e) = timeoutTimer[e] + dt
      BY <2>4 DEF Met, Timer, Timed
    <3>2. silent[e] <= timeoutTimer[e] + dt
      BY <1>1, <2>4 DEF Timed
    <3>3. CASE TimedOut(e)
      <4>1. HBstate'[e] = "TIMEOUT" /\ hbErrors' = Reported
        BY <1>10, <2>0, <3>3
      <4>2. Reported # {}
        BY <3>3 DEF Reported
      <4> QED
        BY <4>1, <4>2 DEF Missed
    <3>4. CASE ~TimedOut(e)
      <4>1. HBstate'[e] = "ACTIVE" /\ Timer(e) < ConsumerTime
        BY <2>0, <3>1, <3>4 DEF TimedOut
      <4> QED
        BY <1>1, <2>0, <3>1, <3>2, <4>1 DEF Timed
    <3> QED
      BY <3>3, <3>4
  <2>5. Message(e) # "none" \/ Missed(e) \/ Timed(e)
    BY <1>0, <2>0 DEF Followed, JustHeard
  <2> QED
    BY <1>2, <2>1, <2>2, <2>3, <2>4, <2>5
<1>12. InTime'
  <2> SUFFICES ASSUME operatingState = "OPERATIONAL", NEW e \in Entries, heard[e]
               PROVE  silent[e] < ConsumerTime + MaxStep
    BY <1>1 DEF InTime, Between
  <2>1. hbErrors = {}
    BY <1>0 DEF InTime
  <2>2. Timed(e) \/ CANrxNew[e] = "beat"
    BY <1>0, <2>1 DEF Followed, Missed, JustHeard
  <2>3. CASE CANrxNew[e] = "beat"
    <3>1. silent[e] = 0
      BY <1>0, <2>3 DEF Configured, Forgets, Pending
    <3> QED
      BY <3>1
  <2>4. CASE Timed(e)
    <3>1. /\ timeoutTimer[e] \in Nat /\ silent[e] \in Nat /\ dt \in Nat /\ dt <= MaxStep
          /\ timeoutTimer[e] < ConsumerTime /\ silent[e] <= timeoutTimer[e] + dt
      BY <1>0, <1>1, <2>4 DEF NmtTypes, Timed
    <3> QED
      BY <3>1
  <2> QED
    BY <2>2, <2>3, <2>4
<1> QED
  BY <1>4, <1>6, <1>7, <1>8, <1>9, <1>11, <1>12 DEF NmtInv

(* CO_HBconsumer_process.                                                  *)
LEMMA ConsumerKeeps == NmtInv /\ CO_HBconsumer_process => NmtInv'
<1> SUFFICES ASSUME NmtInv, CO_HBconsumer_process PROVE NmtInv'
  OBVIOUS
<1>1. /\ at = "hb" /\ at' \in {"receive", "reset"}
      /\ NMTisPreOrOperationalPrev' = PreOrOperational
      /\ UNCHANGED <<dt, nmt, conf, silent, heard>>
      /\ PreOrOperational \in BOOLEAN /\ NMTisPreOrOperationalPrev \in BOOLEAN
  BY DEF CO_HBconsumer_process, NmtInv, NmtTypes, PreOrOperational
<1>2. CASE PreOrOperational /\ NMTisPreOrOperationalPrev
  <2>1. Monitor
    BY <1>1, <1>2 DEF CO_HBconsumer_process
  <2> QED
    BY <1>1, <1>2, <2>1, MonitorKeeps
<1>3. CASE PreOrOperational # NMTisPreOrOperationalPrev
  <2>1. StartOver
    BY <1>1, <1>3 DEF CO_HBconsumer_process
  <2> QED
    BY <1>1, <1>3, <2>1, StartOverKeeps
<1>4. CASE ~PreOrOperational /\ ~NMTisPreOrOperationalPrev
  <2>1. Idle
    BY <1>1, <1>4 DEF CO_HBconsumer_process
  <2> QED
    BY <1>1, <1>4, <2>1, IdleKeeps
<1> QED
  BY <1>1, <1>2, <1>3, <1>4

-----------------------------------------------------------------------------
(* CO_HBconsumer_init, whatever entries it refuses: what still counts as   *)
(* heard has an error left, and no entry that was refused becomes ACTIVE   *)
(* before the consumer starts over.                                        *)
LEMMA CommunicationKeeps ==
  ASSUME NmtInv, NEW time, NEW old \in [Entries -> Nodes \cup {None}],
         NEW oldState \in [Entries -> {"UNCONFIGURED", "UNKNOWN", "ACTIVE", "TIMEOUT"}],
         NEW x \in [Entries -> Nodes \cup {None}], NEW errors,
         \A e \in Entries : oldState[e] = "UNCONFIGURED" <=> old[e] = None,
         CommunicationStart(time, old, oldState, x, errors),
         dt' = dt, x1016' \in [Entries -> Nodes \cup {None}], silent' \in [Entries -> Nat],
         timeoutTimer' \in [Entries -> Nat], heard' \in [Entries -> BOOLEAN],
         \A e \in Entries : heard'[e] => nodeId'[e] # None /\ errors # {}
  PROVE  NmtInv'
<1> USE NmtConstants
<1>0. NmtTypes
  BY DEF NmtInv
<1>1. /\ at' = "receive" /\ operatingState' = "INITIALIZING" /\ internalCommand' = "NO_COMMAND"
      /\ NMTisPreOrOperationalPrev' = FALSE /\ hbErrors' = errors
      /\ nodeId' \in [Entries -> Nodes \cup {None}]
      /\ \A e \in Entries : nodeId'[e] = IF Refused(old, x, nodeId', e) THEN old[e] ELSE x[e]
      /\ HBstate' = [e \in Entries |-> IF Refused(old, x, nodeId', e)
                                       THEN oldState[e] ELSE InitState(x[e])]
      /\ rxNode' = [e \in Entries |-> IF Refused(old, x, nodeId', e) THEN None ELSE x[e]]
      /\ CANrxNew' = [e \in Entries |-> IF Refused(old, x, nodeId', e)
                                        THEN CANrxNew[e] ELSE "none"]
  BY DEF CommunicationStart, InitEntries
<1>2. NmtTypes'
  <2>1. HBstate' \in [Entries -> {"UNCONFIGURED", "UNKNOWN", "ACTIVE", "TIMEOUT"}]
    BY <1>1 DEF InitState
  <2>2. CANrxNew' \in [Entries -> {"none", "boot", "beat"}]
    BY <1>0, <1>1 DEF NmtTypes
  <2>3. rxNode' \in [Entries -> Nodes \cup {None}]
    BY <1>1
  <2> QED
    BY <1>0, <1>1, <2>1, <2>2, <2>3 DEF NmtTypes
<1>3. Configured'
  BY <1>1 DEF Configured, InitState
<1>4. PreOrOperational' = FALSE
  BY <1>1 DEF PreOrOperational
<1>5. Phases' /\ Forgets'
  BY <1>1, <1>4 DEF Phases, Forgets
<1>6. Pending' /\ Followed' /\ InTime'
  BY <1>1 DEF Pending, Followed, Missed, InTime
<1> QED
  BY <1>2, <1>3, <1>5, <1>6 DEF NmtInv

(* Every step keeps the invariant.                                         *)
LEMMA NmtStep == NmtInv /\ [NmtNext]_nmtVars => NmtInv'
<1> SUFFICES ASSUME NmtInv, [NmtNext]_nmtVars PROVE NmtInv'
  OBVIOUS
<1>0. NmtTypes /\ Configured
  BY DEF NmtInv
<1>1. CASE Receive
  BY <1>1, ReceiveKeeps
<1>2. CASE CO_NMT_process
  BY <1>2, ProcessKeeps
<1>3. CASE CO_SDOserver_process
  BY <1>3, SdoKeeps
<1>4. CASE CO_HBconsumer_process
  BY <1>4, ConsumerKeeps
<1>5. CASE CommunicationReset
  <2>1. CommunicationStart(HBproducerTime, nodeId, HBstate, x1016, hbErrors)
    BY <1>5 DEF CommunicationReset
  <2>2. /\ dt' = dt /\ x1016' \in [Entries -> Nodes \cup {None}] /\ silent' \in [Entries -> Nat]
        /\ timeoutTimer' \in [Entries -> Nat]
    BY <1>0, <1>5 DEF CommunicationReset, NmtTypes
  <2>3. heard' = [e \in Entries |-> heard[e] /\ nodeId'[e] = nodeId[e] /\ hbErrors # {}]
    BY <1>5 DEF CommunicationReset
  <2>4. /\ heard' \in [Entries -> BOOLEAN]
        /\ \A e \in Entries : heard'[e] => nodeId'[e] # None /\ hbErrors # {}
    BY <1>0, <2>3 DEF NmtInv, Forgets, NmtTypes
  <2>5. /\ nodeId \in [Entries -> Nodes \cup {None}] /\ x1016 \in [Entries -> Nodes \cup {None}]
        /\ HBstate \in [Entries -> {"UNCONFIGURED", "UNKNOWN", "ACTIVE", "TIMEOUT"}]
        /\ \A e \in Entries : HBstate[e] = "UNCONFIGURED" <=> nodeId[e] = None
    BY <1>0 DEF NmtTypes, Configured
  <2> QED
    BY <2>1, <2>2, <2>4, <2>5, CommunicationKeeps
<1>6. CASE PLATFORM_RESET
  <2> DEFINE unset == [e \in Entries |-> "UNCONFIGURED"]
  <2>1. PICK time \in ProducerTimes : CommunicationStart(time, Unwatched, unset, Defaults, {})
    BY <1>6 DEF PLATFORM_RESET
  <2>2. /\ dt' = dt /\ x1016' \in [Entries -> Nodes \cup {None}] /\ silent' \in [Entries -> Nat]
        /\ timeoutTimer' \in [Entries -> Nat] /\ heard' \in [Entries -> BOOLEAN]
        /\ \A e \in Entries : ~heard'[e]
    BY <1>0, <1>6, NmtConstants DEF PLATFORM_RESET, NmtTypes
  <2>3. /\ Unwatched \in [Entries -> Nodes \cup {None}]
        /\ Defaults \in [Entries -> Nodes \cup {None}]
        /\ unset \in [Entries -> {"UNCONFIGURED", "UNKNOWN", "ACTIVE", "TIMEOUT"}]
        /\ \A e \in Entries : unset[e] = "UNCONFIGURED" <=> Unwatched[e] = None
    BY NmtConstants DEF Unwatched
  <2> HIDE DEF unset
  <2> QED
    BY <2>1, <2>2, <2>3, CommunicationKeeps
<1>7. CASE UNCHANGED nmtVars
  <2>1. /\ UNCHANGED <<at, dt, operatingState, internalCommand, nodeId, rxNode, x1016, HBstate,
                       CANrxNew, timeoutTimer, silent, heard, NMTisPreOrOperationalPrev, hbErrors>>
        /\ PreOrOperational' = PreOrOperational /\ Between' = Between
    BY <1>7 DEF nmtVars, nmt, watch, conf, PreOrOperational, Between
  <2>2. NmtTypes' /\ Configured' /\ Phases'
    BY <1>0, <2>1 DEF NmtInv, NmtTypes, Configured, Phases
  <2>3. Forgets' /\ Pending' /\ InTime'
    BY <2>1 DEF NmtInv, Forgets, Pending, InTime
  <2>4. Followed'
    BY <2>1 DEF NmtInv, Followed, Missed, Timed, JustHeard
  <2> QED
    BY <2>2, <2>3, <2>4 DEF NmtInv
<1> QED
  BY <1>1, <1>2, <1>3, <1>4, <1>5, <1>6, <1>7 DEF NmtNext

(* SilentStops, for any number of entries and nodes, any times, and passes *)
(* of any length up to MaxStep: a node that watches another does not stay  *)
(* OPERATIONAL, nor return to it, once that one has been silent for        *)
(* ConsumerTime + 2 * MaxStep (CO_HBconsumer_process and CO_NMT_process).  *)
THEOREM SilentStopped == NmtSpec => []SilentStops
<1>1. NmtInv => SilentStops
  <2> SUFFICES ASSUME NmtInv, operatingState = "OPERATIONAL", NEW e \in Entries, heard[e]
               PROVE  silent[e] < Forgotten
    BY DEF SilentStops
  <2>0. /\ NmtTypes /\ Pending /\ Followed /\ InTime
        /\ nodeId[e] # None /\ HBstate[e] # "UNCONFIGURED"
        /\ silent[e] \in Nat /\ timeoutTimer[e] \in Nat /\ dt \in Nat /\ dt <= MaxStep
    BY NmtConstants DEF NmtInv, Configured, Forgets, NmtTypes
  <2>1. CASE Between
    <3>1. silent[e] < ConsumerTime + MaxStep
      BY <2>0, <2>1 DEF InTime
    <3> QED
      BY <2>0, <3>1, NmtConstants
  <2>2. CASE at = "nmt"
    BY <2>0, <2>2 DEF InTime
  <2>3. CASE at \in {"sdo", "hb"}
    <3>1. ~Between /\ hbErrors = {}
      BY <2>0, <2>3 DEF InTime, Between
    <3>2. CASE Timed(e)
      <4>1. timeoutTimer[e] < ConsumerTime /\ silent[e] <= timeoutTimer[e] + dt
        BY <3>1, <3>2 DEF Timed
      <4> QED
        BY <2>0, <4>1, NmtConstants
    <3>3. CASE JustHeard(e)
      <4>1. silent[e] = 0
        BY <2>0, <3>3 DEF JustHeard, Pending
      <4> QED
        BY <4>1, NmtConstants
    <3> QED
      BY <2>0, <3>1, <3>2, <3>3 DEF Followed, Missed
  <2> QED
    BY <2>0, <2>1, <2>2, <2>3 DEF NmtTypes, Between
<1> QED
  BY <1>1, NmtStarts, NmtStep, PTL DEF NmtSpec
=============================================================================
