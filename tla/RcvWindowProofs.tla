-------------------------- MODULE RcvWindowProofs --------------------------
(***************************************************************************)
(* Proofs about RcvWindow, for any size of the ring and of the sequence    *)
(* numbers, any number of segments and any bounds on how early and how     *)
(* late they arrive: ring and numbers stay aligned, and the window         *)
(* implements ReceiveBuffer.                                               *)
(***************************************************************************)
EXTENDS RcvWindow, FiniteSetTheorems, SequenceTheorems, WellFoundedInduction, TLAPS

(***************************************************************************)
(* Numbers that wrap around.                                               *)
(***************************************************************************)

LEMMA Remainder ==
  ASSUME NEW a \in Nat, NEW m \in Nat \ {0}
  PROVE  a % m \in 0 .. m - 1 /\ \E q \in Int : a = m * q + (a % m)
<1>1. a \div m \in Int /\ a = m * (a \div m) + (a % m) /\ a % m \in 0 .. m - 1
  OBVIOUS
<1>2. QED
  BY <1>1

\* Two numbers that differ by whole turns have the same remainder.
LEMMA WholeTurns ==
  ASSUME NEW m \in Nat \ {0}, NEW x \in 0 .. m - 1, NEW k \in Int
  PROVE  (x + m * k) % m = x
<1> DEFINE q == (x + m * k) \div m
           r == (x + m * k) % m
<1>1. r \in 0 .. m - 1 /\ q \in Int
  OBVIOUS
<1>2. x + m * k = m * q + r
  OBVIOUS
<1>3. m * (k - q) = r - x
  BY <1>1, <1>2
<1>4. CASE k - q >= 1
  <2>1. m * (k - q) >= m
    BY <1>1, <1>4
  <2>2. QED
    BY <1>1, <1>3, <2>1
<1>5. CASE k - q <= -1
  <2>1. m * (k - q) <= 0 - m
    BY <1>1, <1>5
  <2>2. QED
    BY <1>1, <1>3, <2>1
<1>6. CASE k - q = 0
  <2>1. m * (k - q) = 0
    BY <1>6
  <2>2. QED
    BY <1>1, <1>3, <2>1
<1>7. QED
  BY <1>1, <1>4, <1>5, <1>6

\* Less than two turns.
LEMMA OneTurn ==
  ASSUME NEW m \in Nat \ {0}, NEW x \in 0 .. m + m - 1
  PROVE  x % m = IF x < m THEN x ELSE x - m
<1>1. CASE x < m
  <2>1. (x + m * 0) % m = x
    BY <1>1, WholeTurns
  <2>2. x + m * 0 = x
    OBVIOUS
  <2>3. QED
    BY <1>1, <2>1, <2>2
<1>2. CASE x >= m
  <2>1. x - m \in 0 .. m - 1
    BY <1>2
  <2>2. ((x - m) + m * 1) % m = x - m
    BY <2>1, WholeTurns
  <2>3. (x - m) + m * 1 = x
    OBVIOUS
  <2>4. QED
    BY <1>2, <2>2, <2>3
<1>3. QED
  BY <1>1, <1>2

\* Adding in two steps.
LEMMA PlusTwice ==
  ASSUME NEW a \in Nat, NEW b \in Nat, NEW c \in Nat
  PROVE  Plus(Plus(a, b), c) = Plus(a, b + c)
<1> DEFINE r == (a + b) % SeqMod
           t == (r + c) % SeqMod
<1>1. SeqMod \in Nat \ {0}
  BY SeqAssumption
<1>2. r \in 0 .. SeqMod - 1 /\ a + b \in Nat
  BY <1>1, Remainder
<1>3. PICK q \in Int : a + b = SeqMod * q + r
  BY <1>1, <1>2, Remainder
<1>4. t \in 0 .. SeqMod - 1 /\ r + c \in Nat
  BY <1>1, <1>2, Remainder
<1>5. PICK p \in Int : r + c = SeqMod * p + t
  BY <1>1, <1>4, Remainder
<1> HIDE DEF r, t
<1>6. a + (b + c) = t + SeqMod * (q + p)
  BY <1>1, <1>2, <1>3, <1>4, <1>5
<1>7. (t + SeqMod * (q + p)) % SeqMod = t
  BY <1>1, <1>4, WholeTurns
<1>8. QED
  BY <1>6, <1>7 DEF Plus, t, r

LEMMA NumberType ==
  ASSUME TypeOK, NEW n \in Nat
  PROVE  Number(n) \in SeqNum
<1>1. Irs \in Nat /\ SeqMod \in Nat \ {0} /\ Irs + (1 + n) \in Nat
  BY SeqAssumption, WindowAssumption DEF SeqNum
<1>2. Plus(Irs, 1 + n) \in SeqNum
  BY <1>1, Remainder DEF Plus, SeqNum
<1>3. QED
  BY <1>2 DEF Number, TypeOK

\* Numbers that are read as they were sent.
LEMMA NumberPlus ==
  ASSUME Straight, NEW n \in Nat, NEW k \in Nat
  PROVE  /\ Number(n) = Plus(Irs, 1 + n)
         /\ Number(n + k) = Plus(Number(n), k)
<1>1. /\ Irs \in Nat /\ 1 + n \in Nat /\ (1 + n) + k = 1 + (n + k)
      /\ SeqMod \in Nat \ {0} /\ Irs + (1 + n) \in Nat /\ Irs + (1 + (n + k)) \in Nat
  BY SeqAssumption, WindowAssumption DEF SeqNum
<1>2. Plus(Irs, 1 + n) \in SeqNum /\ Plus(Irs, 1 + (n + k)) \in SeqNum
  BY <1>1, Remainder DEF Plus, SeqNum
<1>3. Number(n) = Plus(Irs, 1 + n) /\ Number(n + k) = Plus(Irs, 1 + (n + k))
  BY <1>2 DEF Number, Straight
<1>4. QED
  BY <1>1, <1>3, PlusTwice

(***************************************************************************)
(* What may arrive.                                                        *)
(***************************************************************************)

\* How far the next missing segment and one that may arrive are apart.
LEMMA ArrivingRange ==
  ASSUME IInv, NEW g \in Segment, g \in Arriving
  PROVE  /\ g.n \in Nat /\ Len(list) \in Nat
         /\ g.n + Lag >= Len(list)
         /\ g.n < Len(list) + SeqMod
<1>1. /\ g.n \in 0 .. Length + 1 /\ g.kind \in Kinds /\ list \in Seq(Segment)
      /\ sent \in Nat /\ sent <= Len(list) + Ahead
  BY WindowAssumption DEF IInv, TypeOK, SentWithin, Segment
<1>2. Len(list) \in Nat /\ Length \in Nat /\ Ahead \in Nat /\ Lag \in Nat /\ SeqMod \in Nat
  BY <1>1, WindowAssumption, SeqAssumption
<1>3. g.n + Lag >= Len(list)
  BY DEF Arriving
<1>4. g.n <= sent + 1
  BY <1>1, <1>2 DEF Arriving
<1>5. QED
  BY <1>1, <1>2, <1>3, <1>4, WindowAssumption

\* The offset is how far a number is behind rcv_nxt.
LEMMA OffsetIs ==
  ASSUME rcv_nxt \in SeqNum, NEW x \in SeqNum
  PROVE  /\ Offset(x) \in 0 .. SeqMod - 1
         /\ Plus(rcv_nxt, Offset(x)) = x
         /\ x = rcv_nxt <=> Offset(x) = 0
<1>1. SeqMod \in Nat \ {0} /\ rcv_nxt \in 0 .. SeqMod - 1 /\ x \in 0 .. SeqMod - 1
  BY SeqAssumption DEF SeqNum
<1>2. x + SeqMod - rcv_nxt \in 0 .. SeqMod + SeqMod - 1
  BY <1>1
<1>3. Offset(x) = IF x + SeqMod - rcv_nxt < SeqMod
                  THEN x + SeqMod - rcv_nxt
                  ELSE (x + SeqMod - rcv_nxt) - SeqMod
  BY <1>1, <1>2, OneTurn DEF Offset
<1>4. Offset(x) \in 0 .. SeqMod - 1 /\ (x = rcv_nxt <=> Offset(x) = 0)
  BY <1>1, <1>3
<1>5. rcv_nxt + Offset(x) \in 0 .. SeqMod + SeqMod - 1
  BY <1>1, <1>4
<1>6. Plus(rcv_nxt, Offset(x)) = IF rcv_nxt + Offset(x) < SeqMod
                                 THEN rcv_nxt + Offset(x)
                                 ELSE (rcv_nxt + Offset(x)) - SeqMod
  BY <1>1, <1>5, OneTurn DEF Plus
<1>7. Plus(rcv_nxt, Offset(x)) = x
  BY <1>1, <1>3, <1>6
<1>8. QED
  BY <1>4, <1>7

\* The offset tells the segments apart: one in the window is as far behind the
\* missing one as its offset says.
LEMMA OffsetOf ==
  ASSUME IInv, Straight, open, NEW g \in Segment, g \in Arriving
  PROVE  /\ Offset(Number(g.n)) \in 0 .. SeqMod - 1
         /\ Offset(Number(g.n)) <= RcvWnd => g.n = Len(list) + Offset(Number(g.n))
         /\ IsNext(g) <=> g.n = Len(list)
         /\ g.n = Len(list) => Offset(Number(g.n)) = 0
<1> DEFINE m == SeqMod
           L == Len(list)
           n == g.n
           a == Number(n)
           b == Number(L)
<1>1. /\ n \in Nat /\ L \in Nat /\ n + Lag >= L /\ n < L + m
      /\ m \in Nat \ {0} /\ Irs \in Nat /\ Lag \in Nat /\ RcvWnd \in Nat /\ Lag + RcvWnd < m
  BY ArrivingRange, WindowAssumption, SeqAssumption DEF SeqNum
<1>2. rcv_nxt = b
  BY DEF IInv, CountsList
<1>3. /\ a \in 0 .. m - 1 /\ b \in 0 .. m - 1
      /\ \E q \in Int : Irs + (1 + n) = m * q + a
      /\ \E p \in Int : Irs + (1 + L) = m * p + b
  <2>1. Irs + (1 + n) \in Nat /\ Irs + (1 + L) \in Nat
    BY <1>1
  <2>2. a = (Irs + (1 + n)) % m /\ b = (Irs + (1 + L)) % m
    BY <1>1, NumberPlus DEF Plus
  <2> HIDE DEF m, L, n, a, b
  <2>3. /\ a \in 0 .. m - 1 /\ \E q \in Int : Irs + (1 + n) = m * q + a
    BY <1>1, <2>1, <2>2, Remainder
  <2>4. /\ b \in 0 .. m - 1 /\ \E p \in Int : Irs + (1 + L) = m * p + b
    BY <1>1, <2>1, <2>2, Remainder
  <2>5. QED
    BY <2>3, <2>4
<1>4. Offset(a) = (a + m - b) % m
  BY <1>2 DEF Offset
<1> HIDE DEF m, L, n, a, b
<1>5. PICK q \in Int, p \in Int : Irs + (1 + n) = m * q + a /\ Irs + (1 + L) = m * p + b
  BY <1>3
<1>6. a + m - b = (n - L) + m * (1 + p - q)
  <2>1. m * (1 + p - q) = m + m * p - m * q
    BY <1>1, <1>5
  <2>2. QED
    BY <1>1, <1>3, <1>5, <2>1
<1>7. CASE n >= L
  <2>1. n - L \in 0 .. m - 1 /\ 1 + p - q \in Int
    BY <1>1, <1>7
  <2>2. Offset(a) = n - L
    BY <1>1, <1>4, <1>6, <2>1, WholeTurns
  <2>3. a = b <=> n = L
    <3>1. a + m - b \in 0 .. m + m - 1
      BY <1>1, <1>3
    <3>2. Offset(a) = IF a + m - b < m THEN a + m - b ELSE (a + m - b) - m
      BY <1>1, <1>4, <3>1, OneTurn
    <3>3. QED
      BY <1>1, <1>3, <2>2, <3>2
  <2>4. QED
    BY <1>1, <1>2, <2>1, <2>2, <2>3 DEF IsNext, m, L, n, a, b
<1>8. CASE n < L
  <2>1. (n - L) + m \in 0 .. m - 1 /\ p - q \in Int
    BY <1>1, <1>8
  <2>2. (n - L) + m * (1 + p - q) = ((n - L) + m) + m * (p - q)
    BY <1>1, <1>5
  <2>3. Offset(a) = (n - L) + m
    BY <1>1, <1>4, <1>6, <2>1, <2>2, WholeTurns
  <2>4. (n - L) + m > RcvWnd /\ n # L
    BY <1>1, <1>8
  <2>5. a # b
    <3>1. a + m - b \in 0 .. m + m - 1
      BY <1>1, <1>3
    <3>2. Offset(a) = IF a + m - b < m THEN a + m - b ELSE (a + m - b) - m
      BY <1>1, <1>4, <3>1, OneTurn
    <3>3. QED
      BY <1>1, <1>3, <2>3, <2>4, <3>2
  <2>6. QED
    BY <1>1, <1>2, <2>1, <2>3, <2>4, <2>5 DEF IsNext, m, L, n, a, b
<1>9. QED
  BY <1>1, <1>7, <1>8

(***************************************************************************)
(* The ring.                                                               *)
(***************************************************************************)

Slotted == [Ring -> Segment \cup {None}]

\* The k-th slot from the head of a ring that has been changed to b.
SlotOf(b, k) == b[(head + k) % RcvWnd]

\* Where the k-th slot is.
LEMMA SlotPlace ==
  ASSUME NEW h \in Ring, NEW k \in 0 .. RcvWnd
  PROVE  /\ (h + k) % RcvWnd = IF h + k < RcvWnd THEN h + k ELSE h + k - RcvWnd
         /\ (h + k) % RcvWnd \in Ring
<1> DEFINE x == h + k
<1>1. RcvWnd \in Nat \ {0} /\ x \in 0 .. RcvWnd + RcvWnd - 1
  BY SeqAssumption DEF Ring
<1> HIDE DEF x
<1>2. x % RcvWnd = IF x < RcvWnd THEN x ELSE x - RcvWnd
  BY <1>1, OneTurn
<1>3. x % RcvWnd \in Ring
  BY <1>1, <1>2 DEF Ring
<1>4. h \in Int /\ k \in Int /\ RcvWnd \in Int /\ x = h + k
  BY <1>1 DEF Ring, x
<1>5. QED
  BY <1>2, <1>3, <1>4

\* A set of numbers that is not empty has a least one.
LEMMA Least ==
  ASSUME NEW T \in SUBSET Nat, T # {}
  PROVE  \E k \in T : \A j \in T : k <= j
<1> DEFINE R == OpToRel(<, Nat)
<1>1. IsWellFoundedOn(R, Nat)
  BY NatLessThanWellFounded
<1> HIDE DEF R
<1>2. PICK k \in T : \A j \in T : ~ (<<j, k>> \in R)
  BY <1>1, WFMin
<1>3. ASSUME NEW j \in T
      PROVE  k <= j
  <2>1. <<j, k>> \in R <=> j < k
    BY DEF R, OpToRel
  <2>2. QED
    BY <1>2, <2>1
<1>4. QED
  BY <1>3

\* The two loops of xy_tcp_rcv_wnd_collect stop at the first empty slot, or when
\* they have gone round.
LEMMA CountOf ==
  ASSUME NEW b \in Slotted, head \in Ring
  PROVE  /\ Count(b) \in 0 .. RcvWnd
         /\ \A i \in 0 .. Count(b) - 1 : SlotOf(b, i) # None
         /\ Count(b) < RcvWnd => SlotOf(b, Count(b)) = None
<1> DEFINE T == {k \in 0 .. RcvWnd : k < RcvWnd => SlotOf(b, k) = None}
<1>1. RcvWnd \in Nat \ {0}
  BY SeqAssumption
<1>2. T \in SUBSET Nat /\ RcvWnd \in T
  BY <1>1
<1>3. PICK k \in T : \A j \in T : k <= j
  BY <1>2, Least
<1>4. ASSUME NEW i \in 0 .. k - 1
      PROVE  SlotOf(b, i) # None
  BY <1>1, <1>3, <1>4
<1>5. /\ k \in 0 .. RcvWnd
      /\ \A i \in 0 .. k - 1 : b[(head + i) % RcvWnd] # None
      /\ k < RcvWnd => b[(head + k) % RcvWnd] = None
  BY <1>3, <1>4 DEF SlotOf
<1>6. QED
  BY <1>5 DEF Count, SlotOf

\* How far the number of a segment is behind rcv_nxt.
Away(g) == Offset(Number(g.n))

LEMMA AwayIs ==
  ASSUME TypeOK, NEW g \in Segment
  PROVE  /\ Away(g) \in Nat
         /\ Plus(rcv_nxt, Away(g)) = Number(g.n)
         /\ IsNext(g) <=> Away(g) = 0
<1>1. g.n \in Nat /\ SeqMod \in Nat
  BY WindowAssumption, SeqAssumption DEF Segment
<1>2. Number(g.n) \in SeqNum /\ rcv_nxt \in SeqNum
  BY <1>1, NumberType DEF TypeOK
<1>3. /\ Away(g) \in 0 .. SeqMod - 1
      /\ Plus(rcv_nxt, Away(g)) = Number(g.n)
      /\ Number(g.n) = rcv_nxt <=> Away(g) = 0
  BY <1>2, OffsetIs DEF Away
<1>4. QED
  BY <1>1, <1>3 DEF IsNext

\* What xy_tcp_rcv_wnd_try_put writes, seen from the head.
LEMMA PutSlots ==
  ASSUME TypeOK, NEW g \in Segment
  PROVE  /\ Put(g) \in Slotted
         /\ \A k \in Ring : SlotOf(Put(g), k) =
               IF k = Away(g) \/ (k = 0 /\ Away(g) = RcvWnd) THEN g ELSE At(k)
<1> DEFINE o == Away(g)
<1>1. o \in Nat
  BY AwayIs
<1>2. head \in Ring /\ buffer \in Slotted /\ RcvWnd \in Nat \ {0}
  BY SeqAssumption DEF TypeOK, Slotted
<1>3. Put(g) = IF o > RcvWnd THEN buffer ELSE [buffer EXCEPT ![(head + o) % RcvWnd] = g]
  BY DEF Put, Away
<1> HIDE DEF o
<1>5. Put(g) \in Slotted
  BY <1>2, <1>3 DEF Slotted
<1>6. ASSUME NEW k \in Ring
      PROVE  SlotOf(Put(g), k) = IF k = o \/ (k = 0 /\ o = RcvWnd) THEN g ELSE At(k)
  <2>1. k \in 0 .. RcvWnd /\ k < RcvWnd /\ k \in Nat
    BY <1>2 DEF Ring
  <2>2. CASE o > RcvWnd
    BY <1>1, <1>2, <1>3, <2>1, <2>2 DEF SlotOf, At
  <2>3. CASE o <= RcvWnd
    <3>1. o \in 0 .. RcvWnd
      BY <1>1, <1>2, <2>3
    <3>2. /\ (head + o) % RcvWnd = IF head + o < RcvWnd THEN head + o ELSE head + o - RcvWnd
          /\ (head + o) % RcvWnd \in Ring
      BY <1>2, <3>1, SlotPlace
    <3>3. /\ (head + k) % RcvWnd = IF head + k < RcvWnd THEN head + k ELSE head + k - RcvWnd
          /\ (head + k) % RcvWnd \in Ring
      BY <1>2, <2>1, SlotPlace
    <3>4. (head + k) % RcvWnd = (head + o) % RcvWnd <=> k = o \/ (k = 0 /\ o = RcvWnd)
      BY <1>2, <2>1, <3>1, <3>2, <3>3 DEF Ring
    <3>5. SlotOf(Put(g), k) = IF (head + k) % RcvWnd = (head + o) % RcvWnd THEN g ELSE At(k)
      BY <1>1, <1>2, <1>3, <2>3, <3>2, <3>3 DEF SlotOf, At, Slotted
    <3>6. QED
      BY <3>4, <3>5
  <2>4. QED
    BY <1>1, <1>2, <2>2, <2>3
<1>7. QED
  BY <1>5, <1>6 DEF o

\* What collecting leaves in the ring, seen from the new head.
LEMMA CollectedSlots ==
  ASSUME NEW b \in Slotted, head \in Ring, NEW c \in 0 .. RcvWnd, Collect(b, c)
  PROVE  /\ buffer' \in Slotted /\ head' \in Ring
         /\ \A k \in Ring : At(k)' = IF k + c < RcvWnd THEN SlotOf(b, k + c) ELSE None
<1>1. /\ RcvWnd \in Nat \ {0} /\ head \in Nat /\ head < RcvWnd /\ c \in Nat
      /\ head' = (head + c) % RcvWnd
      /\ buffer' = [s \in Ring |-> IF (s + RcvWnd - head) % RcvWnd < c THEN None ELSE b[s]]
  BY SeqAssumption DEF Collect, Ring
<1>2. /\ head' = IF head + c < RcvWnd THEN head + c ELSE head + c - RcvWnd
      /\ head' \in Ring
  BY <1>1, SlotPlace
<1>3. buffer' \in Slotted
  <2>1. \A s \in Ring : b[s] \in Segment \cup {None}
    BY DEF Slotted
  <2>2. QED
    BY <1>1, <2>1 DEF Slotted
<1>4. ASSUME NEW k \in Ring
      PROVE  At(k)' = IF k + c < RcvWnd THEN SlotOf(b, k + c) ELSE None
  <2> DEFINE s == (head' + k) % RcvWnd
             j == IF k + c < RcvWnd THEN k + c ELSE k + c - RcvWnd
  <2>1. k \in Nat /\ k < RcvWnd /\ k \in 0 .. RcvWnd
    BY <1>1 DEF Ring
  <2>2. /\ s = IF head' + k < RcvWnd THEN head' + k ELSE head' + k - RcvWnd
        /\ s \in Ring
    BY <1>2, <2>1, SlotPlace
  <2>3. j \in 0 .. RcvWnd - 1
    BY <1>1, <2>1
  <2> HIDE DEF s, j
  <2>4. (head + j) % RcvWnd = IF head + j < RcvWnd THEN head + j ELSE head + j - RcvWnd
    BY <1>1, <2>3, SlotPlace
  <2>5. s = (head + j) % RcvWnd
    BY <1>1, <1>2, <2>1, <2>2, <2>3, <2>4 DEF j
  <2>6. s + RcvWnd - head \in 0 .. RcvWnd + RcvWnd - 1
    BY <1>1, <2>2 DEF Ring
  <2>7. (s + RcvWnd - head) % RcvWnd =
           IF s + RcvWnd - head < RcvWnd THEN s + RcvWnd - head ELSE (s + RcvWnd - head) - RcvWnd
    BY <1>1, <2>6, OneTurn
  <2>8. (s + RcvWnd - head) % RcvWnd = j
    <3>1. s = IF head + j < RcvWnd THEN head + j ELSE head + j - RcvWnd
      BY <2>4, <2>5
    <3>2. s \in Int /\ j \in Int /\ head \in Int /\ RcvWnd \in Int /\ 0 <= j /\ j < RcvWnd
      BY <1>1, <2>2, <2>3 DEF Ring
    <3>3. CASE head + j < RcvWnd
      <4>1. s + RcvWnd - head = RcvWnd + j
        BY <3>1, <3>2, <3>3
      <4>2. QED
        BY <2>7, <3>2, <4>1
    <3>4. CASE ~(head + j < RcvWnd)
      <4>1. s + RcvWnd - head = j
        BY <3>1, <3>2, <3>4
      <4>2. QED
        BY <2>7, <3>2, <4>1
    <3>5. QED
      BY <3>3, <3>4
  <2>9. buffer'[s] = IF j < c THEN None ELSE b[s]
    BY <1>1, <2>2, <2>8
  <2>10. At(k)' = buffer'[s]
    BY DEF At, s
  <2>11. CASE k + c < RcvWnd
    <3>1. j = k + c /\ ~(j < c)
      BY <1>1, <2>1, <2>11 DEF j
    <3>2. QED
      BY <2>5, <2>9, <2>10, <2>11, <3>1 DEF SlotOf
  <2>12. CASE ~(k + c < RcvWnd)
    <3>1. j < c
      BY <1>1, <2>1, <2>12 DEF j
    <3>2. QED
      BY <2>9, <2>10, <2>12, <3>1
  <2>13. QED
    BY <2>11, <2>12
<1>5. QED
  BY <1>2, <1>3, <1>4

(***************************************************************************)
(* What a segment does to the ring and the list.                           *)
(***************************************************************************)

\* tcp_recv_window_update, without the counter rcv_nxt.
Handed(g) ==
    IF IsNext(g) THEN Collect(Put(g), Count(Put(g))) ELSE Keep(Put(g))

\* The ring fits the list that follows it.
Aligned ==
    \A k \in Ring : At(k) # None =>
        At(k).n = Len(list) + (IF k = 0 THEN RcvWnd ELSE k)

\* What the segment that is the next one does to the ring: all that was in the
\* first c slots is gone.
RingMoves(c) ==
    /\ buffer' \in Slotted /\ head' \in Ring
    /\ \A k \in 1 .. c - 1 : At(k) # None
    /\ c < RcvWnd => At(c) = None
    /\ \A k \in Ring : At(k)' = IF k + c < RcvWnd THEN At(k + c) ELSE None

\* What it does to the list.
ListGrows(g, c) ==
    /\ list' \in Seq(Segment) /\ Len(list') = Len(list) + c
    /\ \A i \in 1 .. Len(list) : list'[i] = list[i]
    /\ list'[Len(list) + 1] = g
    /\ \A i \in 1 .. c - 1 : list'[Len(list) + i + 1] = At(i)

\* Collecting appends what it takes.
LEMMA Appended ==
  ASSUME NEW b \in Slotted, head \in Ring, list \in Seq(Segment), NEW c \in 0 .. RcvWnd,
         \A i \in 0 .. c - 1 : SlotOf(b, i) # None,
         Collect(b, c)
  PROVE  /\ list' \in Seq(Segment) /\ Len(list') = Len(list) + c
         /\ \A i \in 1 .. Len(list) : list'[i] = list[i]
         /\ \A i \in 0 .. c - 1 : list'[Len(list) + i + 1] = SlotOf(b, i)
<1> DEFINE new == [i \in 1 .. c |-> b[(head + i - 1) % RcvWnd]]
<1>1. RcvWnd \in Nat \ {0} /\ head \in Nat /\ c \in Nat /\ Len(list) \in Nat
  BY SeqAssumption DEF Ring
<1>2. \A i \in 1 .. c : new[i] = SlotOf(b, i - 1)
  <2>1. \A i \in 1 .. c : head + i - 1 = head + (i - 1)
    BY <1>1
  <2>2. QED
    BY <2>1 DEF SlotOf
<1>3. \A i \in 0 .. c - 1 : SlotOf(b, i) \in Segment
  <2>1. SUFFICES ASSUME NEW i \in 0 .. c - 1
                 PROVE  SlotOf(b, i) \in Segment
    OBVIOUS
  <2>2. i \in 0 .. RcvWnd
    BY <1>1
  <2>3. (head + i) % RcvWnd \in Ring
    BY <2>2, SlotPlace
  <2>4. b[(head + i) % RcvWnd] \in Segment \cup {None}
    BY <2>3 DEF Slotted
  <2>5. QED
    BY <2>4 DEF SlotOf
<1>4. \A i \in 1 .. c : new[i] \in Segment
  <2>1. \A i \in 1 .. c : i - 1 \in 0 .. c - 1
    BY <1>1
  <2>2. QED
    BY <1>2, <1>3, <2>1
<1>5. new \in [1 .. c -> Segment]
  BY <1>4
<1>6. new \in Seq(Segment) /\ Len(new) = c
  <2>1. new \in Seq(Segment)
    BY <1>1, <1>5, SeqDef
  <2>2. Len(new) = c
    BY <1>1
  <2>3. QED
    BY <2>1, <2>2
<1>7. list' = list \o new
  BY DEF Collect
<1> HIDE DEF new
<1>8. /\ list' \in Seq(Segment) /\ Len(list') = Len(list) + c
      /\ \A i \in 1 .. Len(list) + c : list'[i] = IF i <= Len(list) THEN list[i] ELSE new[i - Len(list)]
  BY <1>6, <1>7, ConcatProperties
<1>9. ASSUME NEW i \in 0 .. c - 1
      PROVE  list'[Len(list) + i + 1] = SlotOf(b, i)
  <2>1. /\ Len(list) + i + 1 \in 1 .. Len(list) + c /\ ~(Len(list) + i + 1 <= Len(list))
        /\ (Len(list) + i + 1) - Len(list) = i + 1 /\ i + 1 \in 1 .. c /\ (i + 1) - 1 = i
    BY <1>1
  <2>2. QED
    BY <1>2, <1>8, <2>1
<1>10. \A i \in 1 .. Len(list) : list'[i] = list[i]
  BY <1>1, <1>8
<1>11. QED
  BY <1>8, <1>9, <1>10

\* The segment that is the next one, the ones that waited behind it and no
\* other go to the list, and what stays in the ring moves up.
LEMMA NextHanded ==
  ASSUME TypeOK, NEW g \in Segment, IsNext(g), Handed(g)
  PROVE  \E c \in 1 .. RcvWnd : c = Count(Put(g)) /\ RingMoves(c) /\ ListGrows(g, c)
<1> DEFINE b == Put(g)
           c == Count(b)
           L == Len(list)
<1>1. /\ head \in Ring /\ list \in Seq(Segment) /\ L \in Nat /\ RcvWnd \in Nat \ {0}
      /\ g # None
  BY SeqAssumption, WindowAssumption DEF TypeOK
<1>2. /\ b \in Slotted
      /\ \A k \in Ring : SlotOf(b, k) = IF k = 0 THEN g ELSE At(k)
  <2>1. /\ b \in Slotted
        /\ \A k \in Ring : SlotOf(b, k) =
              IF k = Away(g) \/ (k = 0 /\ Away(g) = RcvWnd) THEN g ELSE At(k)
    BY PutSlots
  <2>2. Away(g) = 0
    BY AwayIs
  <2>3. QED
    BY <2>1, <2>2
<1>3. Collect(b, c)
  BY DEF Handed
<1> HIDE DEF b
<1>4. /\ c \in 0 .. RcvWnd
      /\ \A i \in 0 .. c - 1 : SlotOf(b, i) # None
      /\ c < RcvWnd => SlotOf(b, c) = None
  BY <1>1, <1>2, CountOf
<1>5. /\ list' \in Seq(Segment) /\ Len(list') = L + c
      /\ \A i \in 1 .. L : list'[i] = list[i]
      /\ \A i \in 0 .. c - 1 : list'[L + i + 1] = SlotOf(b, i)
  BY <1>1, <1>2, <1>3, <1>4, Appended
<1>6. /\ buffer' \in Slotted /\ head' \in Ring
      /\ \A k \in Ring : At(k)' = IF k + c < RcvWnd THEN SlotOf(b, k + c) ELSE None
  BY <1>1, <1>2, <1>3, <1>4, CollectedSlots
<1> HIDE DEF c, L
<1>7. c \in 1 .. RcvWnd /\ c \in Nat
  <2>1. 0 \in Ring
    BY <1>1 DEF Ring
  <2>2. SlotOf(b, 0) # None
    BY <1>1, <1>2, <2>1
  <2>3. c # 0
    BY <1>1, <1>4, <2>2
  <2>4. QED
    BY <1>1, <1>4, <2>3
<1>8. \A k \in 1 .. c - 1 : SlotOf(b, k) = At(k) /\ At(k) # None
  <2>1. SUFFICES ASSUME NEW k \in 1 .. c - 1
                 PROVE  SlotOf(b, k) = At(k) /\ At(k) # None
    OBVIOUS
  <2>2. k \in 0 .. c - 1 /\ k \in Ring /\ k # 0
    BY <1>1, <1>7 DEF Ring
  <2>3. SlotOf(b, k) = At(k)
    BY <1>2, <2>2
  <2>4. SlotOf(b, k) # None
    BY <1>4, <2>2
  <2>5. QED
    BY <2>3, <2>4
<1>9. ASSUME NEW k \in Ring
      PROVE  At(k)' = IF k + c < RcvWnd THEN At(k + c) ELSE None
  <2>1. k \in Nat
    BY <1>1 DEF Ring
  <2>2. CASE k + c < RcvWnd
    <3>1. k + c \in Ring /\ k + c # 0
      BY <1>1, <1>7, <2>1, <2>2 DEF Ring
    <3>2. SlotOf(b, k + c) = At(k + c)
      BY <1>2, <3>1
    <3>3. QED
      BY <1>6, <2>2, <3>2
  <2>3. CASE ~(k + c < RcvWnd)
    BY <1>6, <2>3
  <2>4. QED
    BY <2>2, <2>3
<1>10. ASSUME c < RcvWnd
       PROVE  At(c) = None
  <2>1. c \in Ring /\ c # 0
    BY <1>1, <1>7, <1>10 DEF Ring
  <2>2. SlotOf(b, c) = At(c)
    BY <1>2, <2>1
  <2>3. QED
    BY <1>4, <1>10, <2>2
<1>11. RingMoves(c)
  BY <1>6, <1>8, <1>9, <1>10 DEF RingMoves
<1>12. ListGrows(g, c)
  <2>1. list'[L + 1] = g
    <3>1. 0 \in 0 .. c - 1 /\ 0 \in Ring /\ L + 0 + 1 = L + 1
      BY <1>1, <1>7 DEF Ring
    <3>2. QED
      BY <1>2, <1>5, <3>1
  <2>2. \A i \in 1 .. c - 1 : list'[L + i + 1] = At(i)
    <3>1. \A i \in 1 .. c - 1 : i \in 0 .. c - 1
      BY <1>7
    <3>2. QED
      BY <1>5, <1>8, <3>1
  <2>3. QED
    BY <1>5, <2>1, <2>2 DEF ListGrows, L
<1>13. QED
  BY <1>7, <1>11, <1>12 DEF c, b

\* Any other segment waits in its place, or is refused.
LEMMA OtherHanded ==
  ASSUME TypeOK, NEW g \in Segment, ~IsNext(g), Handed(g)
  PROVE  /\ UNCHANGED <<list, head>>
         /\ buffer' \in Slotted
         /\ Away(g) \in Nat \ {0}
         /\ \A k \in Ring : At(k)' =
               IF k = Away(g) \/ (k = 0 /\ Away(g) = RcvWnd) THEN g ELSE At(k)
<1>1. buffer' = Put(g) /\ UNCHANGED <<list, head>>
  BY DEF Handed, Keep
<1>2. \A k \in Ring : At(k)' = SlotOf(Put(g), k)
  BY <1>1 DEF At, SlotOf
<1>3. /\ Put(g) \in Slotted
      /\ \A k \in Ring : SlotOf(Put(g), k) =
            IF k = Away(g) \/ (k = 0 /\ Away(g) = RcvWnd) THEN g ELSE At(k)
  BY PutSlots
<1>4. Away(g) \in Nat \ {0}
  BY AwayIs
<1>5. QED
  BY <1>1, <1>2, <1>3, <1>4

\* With numbers that are read as sent, the list goes on where it was.
LEMMA NextInOrder ==
  ASSUME IInv, Straight, open, NEW g \in Segment, g \in Arriving, IsNext(g),
         NEW c \in 1 .. RcvWnd, RingMoves(c), ListGrows(g, c)
  PROVE  /\ g.n = Len(list)
         /\ \A i \in 1 .. Len(list') : list'[i].n = i - 1
         /\ Aligned'
<1> DEFINE L == Len(list)
<1>1. /\ list \in Seq(Segment) /\ L \in Nat /\ RcvWnd \in Nat \ {0} /\ c \in Nat
      /\ \A i \in 1 .. L : list[i].n = i - 1
      /\ Aligned
  BY SeqAssumption DEF IInv, TypeOK, ListInOrder, SlotsHold, Aligned
<1>2. g.n = L
  BY OffsetOf
<1>3. /\ Len(list') = L + c
      /\ \A i \in 1 .. L : list'[i] = list[i]
      /\ list'[L + 1] = g
      /\ \A i \in 1 .. c - 1 : list'[L + i + 1] = At(i)
  BY DEF ListGrows
<1>4. /\ \A k \in 1 .. c - 1 : At(k) # None
      /\ c < RcvWnd => At(c) = None
      /\ \A k \in Ring : At(k)' = IF k + c < RcvWnd THEN At(k + c) ELSE None
  BY DEF RingMoves
<1> HIDE DEF L
<1>5. ASSUME NEW k \in Ring, k # 0, At(k) # None
      PROVE  At(k).n = L + k
  BY <1>1, <1>5 DEF Aligned, L
<1>6. ASSUME NEW i \in 1 .. L + c
      PROVE  list'[i].n = i - 1
  <2>1. CASE i <= L
    <3>1. i \in 1 .. L
      BY <1>1, <2>1
    <3>2. QED
      BY <1>1, <1>3, <3>1
  <2>2. CASE i = L + 1
    BY <1>1, <1>2, <1>3, <2>2
  <2>3. CASE i > L + 1
    <3>1. PICK j \in 1 .. c - 1 : i = L + j + 1
      <4>1. (i - L) - 1 \in 1 .. c - 1 /\ i = L + ((i - L) - 1) + 1
        BY <1>1, <2>3
      <4>2. QED
        BY <4>1
    <3>2. j \in Ring /\ j # 0 /\ j \in Nat
      BY <1>1, <3>1 DEF Ring
    <3>3. At(j).n = L + j
      BY <1>4, <1>5, <3>1, <3>2
    <3>4. list'[i].n = L + j /\ i - 1 = L + j
      BY <1>1, <1>3, <3>1, <3>2, <3>3
    <3>5. QED
      BY <3>4
  <2>4. QED
    BY <1>1, <2>1, <2>2, <2>3
<1>7. Aligned'
  <2>1. SUFFICES ASSUME NEW k \in Ring, At(k)' # None
                 PROVE  At(k)'.n = Len(list') + (IF k = 0 THEN RcvWnd ELSE k)
    BY DEF Aligned, Ring
  <2>2. k \in Nat /\ k + c < RcvWnd /\ At(k)' = At(k + c)
    BY <1>1, <1>4, <2>1 DEF Ring
  <2>3. k # 0
    <3>1. SUFFICES ASSUME k = 0
                   PROVE  FALSE
      OBVIOUS
    <3>2. k + c = c
      BY <1>1, <3>1
    <3>3. QED
      BY <1>4, <2>1, <2>2, <3>2
  <2>4. k + c \in Ring /\ k + c # 0
    BY <1>1, <2>2 DEF Ring
  <2>5. At(k)'.n = L + (k + c)
    BY <1>5, <2>1, <2>2, <2>4
  <2>6. L + (k + c) = (L + c) + k
    BY <1>1, <2>2
  <2>7. QED
    BY <1>3, <2>3, <2>5, <2>6
<1>8. QED
  BY <1>2, <1>3, <1>6, <1>7 DEF L

\* With numbers that are read as sent, a segment that waits is in its place.
LEMMA OtherInPlace ==
  ASSUME IInv, Straight, open, NEW g \in Segment, g \in Arriving,
         UNCHANGED list, Away(g) \in Nat \ {0},
         \A k \in Ring : At(k)' =
            IF k = Away(g) \/ (k = 0 /\ Away(g) = RcvWnd) THEN g ELSE At(k)
  PROVE  Aligned'
<1>1. /\ Len(list) \in Nat /\ RcvWnd \in Nat \ {0} /\ Aligned
      /\ Away(g) <= RcvWnd => g.n = Len(list) + Away(g)
  BY SeqAssumption, OffsetOf DEF IInv, TypeOK, SlotsHold, Aligned, Away
<1>2. SUFFICES ASSUME NEW k \in Ring, At(k)' # None
               PROVE  At(k)'.n = Len(list) + (IF k = 0 THEN RcvWnd ELSE k)
  BY DEF Aligned, Ring
<1>3. k \in Nat /\ k < RcvWnd
  BY <1>1 DEF Ring
<1>4. CASE k = Away(g)
  <2>1. At(k)' = g /\ g.n = Len(list) + k /\ k # 0
    BY <1>1, <1>3, <1>4
  <2>2. QED
    BY <2>1
<1>5. CASE k = 0 /\ Away(g) = RcvWnd
  <2>1. At(k)' = g /\ g.n = Len(list) + RcvWnd
    BY <1>1, <1>5
  <2>2. QED
    BY <1>5, <2>1
<1>6. CASE ~(k = Away(g) \/ (k = 0 /\ Away(g) = RcvWnd))
  <2>1. At(k)' = At(k)
    BY <1>6
  <2>2. QED
    BY <1>1, <1>2, <2>1 DEF Aligned
<1>7. QED
  BY <1>4, <1>5, <1>6

(***************************************************************************)
(* The invariant.                                                          *)
(***************************************************************************)

LEMMA InitIInv == Init => IInv
<1>1. SUFFICES ASSUME Init
               PROVE  IInv
  OBVIOUS
<1>2. /\ wire \in Wires /\ bare \in BOOLEAN
      /\ sent = 0 /\ fin = FALSE /\ open = TRUE /\ rcv_nxt = Plus(wire[Irs], 1) /\ head = 0
      /\ buffer = [i \in Ring |-> None] /\ list = <<>>
  BY <1>1 DEF Init
<1>3. /\ RcvWnd \in Nat \ {0} /\ Length \in Nat /\ Ahead \in Nat /\ SeqMod \in Nat \ {0}
      /\ Irs \in SeqNum /\ wire \in [SeqNum -> SeqNum]
  BY <1>2, SeqAssumption, WindowAssumption
<1>4. list \in Seq(Segment) /\ Len(list) = 0
  BY <1>2
<1>5. rcv_nxt \in SeqNum
  <2>1. wire[Irs] \in 0 .. SeqMod - 1
    BY <1>3 DEF SeqNum
  <2>2. wire[Irs] + 1 \in Nat
    BY <1>3, <2>1
  <2>3. QED
    BY <1>2, <1>3, <2>2, Remainder DEF Plus, SeqNum
<1>6. TypeOK
  <2>1. head \in Ring
    BY <1>2, <1>3 DEF Ring
  <2>2. buffer \in [Ring -> Segment \cup {None}]
    BY <1>2
  <2>3. sent \in 0 .. Length
    BY <1>2, <1>3
  <2>4. QED
    BY <1>2, <1>3, <1>4, <1>5, <2>1, <2>2, <2>3 DEF TypeOK
<1>7. ASSUME NEW k \in Ring
      PROVE  At(k) = None
  <2>1. k \in 0 .. RcvWnd
    BY <1>3 DEF Ring
  <2>2. (head + k) % RcvWnd \in Ring
    BY <1>2, <1>6, <2>1, SlotPlace DEF TypeOK
  <2>3. QED
    BY <1>2, <2>2 DEF At
<1>8. SlotsFit /\ ListInOrder /\ SlotsHold /\ TextsOnly /\ SentWithin
  BY <1>2, <1>3, <1>4, <1>7
  DEF SlotsFit, ListInOrder, SlotsHold, TextsOnly, SentWithin
<1>9. CountsList
  <2>1. SUFFICES ASSUME Straight
                 PROVE  rcv_nxt = Number(0)
    BY <1>4 DEF CountsList
  <2>2. Number(0) = Plus(Irs, 1 + 0) /\ wire[Irs] = Irs
    BY <1>3, <2>1, NumberPlus DEF Straight
  <2>3. QED
    BY <1>2, <2>2
<1>10. QED
  BY <1>6, <1>8, <1>9 DEF IInv

\* What stays in the ring when it moves up still fits the numbers.
LEMMA NextFits ==
  ASSUME TypeOK, SlotsFit, open, wire' = wire, NEW c \in 1 .. RcvWnd, RingMoves(c),
         rcv_nxt' = Plus(rcv_nxt, c)
  PROVE  SlotsFit'
<1>1. /\ RcvWnd \in Nat \ {0} /\ c \in Nat /\ rcv_nxt \in Nat
      /\ \A k \in Ring : At(k) # None =>
            Number(At(k).n) = Plus(rcv_nxt, IF k = 0 THEN RcvWnd ELSE k)
  BY SeqAssumption DEF TypeOK, SeqNum, SlotsFit
<1>2. /\ c < RcvWnd => At(c) = None
      /\ \A k \in Ring : At(k)' = IF k + c < RcvWnd THEN At(k + c) ELSE None
  BY DEF RingMoves
<1>3. ASSUME NEW k \in Ring, At(k)' # None
      PROVE  k # 0 /\ Number(At(k)'.n) = Plus(Plus(rcv_nxt, c), k)
  <2>1. k \in Nat /\ k + c < RcvWnd /\ At(k)' = At(k + c)
    BY <1>1, <1>2, <1>3 DEF Ring
  <2>2. k # 0
    <3>1. SUFFICES ASSUME k = 0
                   PROVE  FALSE
      OBVIOUS
    <3>2. k + c = c
      BY <1>1, <3>1
    <3>3. QED
      BY <1>2, <1>3, <2>1, <3>2
  <2>3. k + c \in Ring /\ k + c # 0 /\ k + c = c + k
    BY <1>1, <2>1 DEF Ring
  <2>4. Number(At(k + c).n) = Plus(rcv_nxt, c + k)
    BY <1>1, <1>3, <2>1, <2>3
  <2>5. Plus(Plus(rcv_nxt, c), k) = Plus(rcv_nxt, c + k)
    BY <1>1, <2>1, PlusTwice
  <2>6. QED
    BY <2>1, <2>2, <2>4, <2>5
<1>4. \A n : Number(n)' = Number(n)
  BY DEF Number
<1>5. QED
  BY <1>3, <1>4 DEF SlotsFit, Ring

\* A segment that is put into the ring fits the numbers.
LEMMA OtherFits ==
  ASSUME TypeOK, SlotsFit, open, wire' = wire, rcv_nxt' = rcv_nxt,
         NEW g \in Segment, Away(g) \in Nat \ {0},
         \A k \in Ring : At(k)' =
            IF k = Away(g) \/ (k = 0 /\ Away(g) = RcvWnd) THEN g ELSE At(k)
  PROVE  SlotsFit'
<1>1. \A k \in Ring : At(k) # None =>
            Number(At(k).n) = Plus(rcv_nxt, IF k = 0 THEN RcvWnd ELSE k)
  BY DEF SlotsFit
<1>2. Plus(rcv_nxt, Away(g)) = Number(g.n)
  BY AwayIs
<1>3. ASSUME NEW k \in Ring, At(k)' # None
      PROVE  Number(At(k)'.n) = Plus(rcv_nxt, IF k = 0 THEN RcvWnd ELSE k)
  <2>1. CASE k = Away(g)
    BY <1>2, <2>1
  <2>2. CASE k = 0 /\ Away(g) = RcvWnd
    BY <1>2, <2>2
  <2>3. CASE ~(k = Away(g) \/ (k = 0 /\ Away(g) = RcvWnd))
    <3>1. At(k)' = At(k)
      BY <2>3
    <3>2. QED
      BY <1>1, <1>3, <3>1
  <2>4. QED
    BY <2>1, <2>2, <2>3
<1>4. \A n : Number(n)' = Number(n)
  BY DEF Number
<1>5. QED
  BY <1>3, <1>4 DEF SlotsFit, Ring

\* The parts of the invariant that do not depend on rcv_nxt, after a segment.
LEMMA HandedKeeps ==
  ASSUME IInv, open, UNCHANGED peerVars, NEW g \in Segment, g \in Arriving, Handed(g)
  PROVE  /\ buffer' \in Slotted /\ head' \in Ring
         /\ list' \in Seq(Segment) /\ Len(list') >= Len(list)
         /\ ListInOrder'
         /\ Straight => Aligned'
<1>1. /\ TypeOK /\ head \in Ring /\ list \in Seq(Segment) /\ Len(list) \in Nat
      /\ ListInOrder /\ Straight' = Straight
  BY DEF IInv, TypeOK, Straight, peerVars
<1>2. CASE IsNext(g)
  <2>1. PICK c \in 1 .. RcvWnd : RingMoves(c) /\ ListGrows(g, c)
    BY <1>1, <1>2, NextHanded
  <2>2. /\ buffer' \in Slotted /\ head' \in Ring
        /\ list' \in Seq(Segment) /\ Len(list') = Len(list) + c
    BY <2>1 DEF RingMoves, ListGrows
  <2>3. ASSUME Straight
        PROVE  (\A i \in 1 .. Len(list') : list'[i].n = i - 1) /\ Aligned'
    BY <1>2, <2>1, <2>3, NextInOrder
  <2>4. Len(list') >= Len(list)
    BY <1>1, <2>2
  <2>5. ListInOrder'
    BY <1>1, <2>3 DEF ListInOrder
  <2>6. QED
    BY <2>2, <2>3, <2>4, <2>5
<1>3. CASE ~IsNext(g)
  <2>1. /\ UNCHANGED <<list, head>>
        /\ buffer' \in Slotted
        /\ Away(g) \in Nat \ {0}
        /\ \A k \in Ring : At(k)' =
              IF k = Away(g) \/ (k = 0 /\ Away(g) = RcvWnd) THEN g ELSE At(k)
    BY <1>1, <1>3, OtherHanded
  <2>2. Straight => Aligned'
    BY <2>1, OtherInPlace
  <2>3. ListInOrder'
    BY <1>1, <2>1 DEF ListInOrder
  <2>4. QED
    BY <1>1, <2>1, <2>2, <2>3
<1>4. QED
  BY <1>2, <1>3

\* A segment with text joins segments with text.
LEMMA HandedTexts ==
  ASSUME TypeOK, TextsOnly, ~bare, open, NEW g \in Segment, g.kind = "text", Handed(g)
  PROVE  /\ \A k \in Ring : At(k)' # None => At(k)'.kind = "text"
         /\ \A i \in 1 .. Len(list') : list'[i].kind = "text"
<1>1. /\ \A k \in Ring : At(k) # None => At(k).kind = "text"
      /\ \A i \in 1 .. Len(list) : list[i].kind = "text"
      /\ Len(list) \in Nat /\ RcvWnd \in Nat \ {0}
  BY SeqAssumption DEF TextsOnly, TypeOK
<1>2. CASE IsNext(g)
  <2>1. PICK c \in 1 .. RcvWnd : RingMoves(c) /\ ListGrows(g, c)
    BY <1>2, NextHanded
  <2>2. /\ \A k \in 1 .. c - 1 : At(k) # None
        /\ \A k \in Ring : At(k)' = IF k + c < RcvWnd THEN At(k + c) ELSE None
    BY <2>1 DEF RingMoves
  <2>3. ASSUME NEW k \in Ring, At(k)' # None
        PROVE  At(k)'.kind = "text"
    <3>1. k + c < RcvWnd /\ At(k)' = At(k + c) /\ k + c \in Ring
      BY <1>1, <2>2, <2>3 DEF Ring
    <3>2. QED
      BY <1>1, <2>3, <3>1
  <2>4. ASSUME NEW i \in 1 .. Len(list')
        PROVE  list'[i].kind = "text"
    <3>1. /\ Len(list') = Len(list) + c
          /\ \A j \in 1 .. Len(list) : list'[j] = list[j]
          /\ list'[Len(list) + 1] = g
          /\ \A j \in 1 .. c - 1 : list'[Len(list) + j + 1] = At(j)
      BY <2>1 DEF ListGrows
    <3>2. CASE i <= Len(list)
      <4>1. i \in 1 .. Len(list)
        BY <1>1, <3>2
      <4>2. QED
        BY <1>1, <3>1, <4>1
    <3>3. CASE i = Len(list) + 1
      BY <3>1, <3>3
    <3>4. CASE i > Len(list) + 1
      <4>1. PICK j \in 1 .. c - 1 : i = Len(list) + j + 1
        <5>1. (i - Len(list)) - 1 \in 1 .. c - 1 /\ i = Len(list) + ((i - Len(list)) - 1) + 1
          BY <1>1, <3>1, <3>4
        <5>2. QED
          BY <5>1
      <4>2. j \in Ring /\ At(j) # None /\ list'[i] = At(j)
        BY <1>1, <2>2, <3>1, <4>1 DEF Ring
      <4>3. QED
        BY <1>1, <4>2
    <3>5. QED
      BY <1>1, <3>1, <3>2, <3>3, <3>4
  <2>5. QED
    BY <2>3, <2>4
<1>3. CASE ~IsNext(g)
  <2>1. /\ UNCHANGED list
        /\ \A k \in Ring : At(k)' =
              IF k = Away(g) \/ (k = 0 /\ Away(g) = RcvWnd) THEN g ELSE At(k)
    BY <1>3, OtherHanded
  <2>2. QED
    BY <1>1, <2>1
<1>4. QED
  BY <1>2, <1>3

LEMMA RecvKeeps ==
  ASSUME IInv, NEW g \in Segment, Recv(g)
  PROVE  IInv'
<1>1. /\ open /\ g \in Arriving /\ Handed(g) /\ UNCHANGED <<peerVars, open>>
      /\ UNCHANGED peerVars /\ UNCHANGED <<wire, bare, sent, fin>> /\ g.kind # "fin"
  BY DEF Recv, Arrives, Handed, peerVars
<1>2. /\ buffer' \in Slotted /\ head' \in Ring
      /\ list' \in Seq(Segment) /\ Len(list') >= Len(list)
      /\ ListInOrder'
      /\ Straight => Aligned'
  BY <1>1, HandedKeeps
<1>3. /\ TypeOK /\ SlotsFit /\ TextsOnly /\ wire \in [SeqNum -> SeqNum] /\ bare \in BOOLEAN
      /\ sent \in 0 .. Length /\ fin \in BOOLEAN /\ open \in BOOLEAN /\ Len(list) \in Nat
      /\ sent <= Len(list) + Ahead /\ Ahead \in Nat /\ rcv_nxt \in SeqNum
      /\ Straight => rcv_nxt = Number(Len(list))
      /\ Straight' = Straight /\ \A n : Number(n)' = Number(n)
  BY <1>1, WindowAssumption
  DEF IInv, TypeOK, SentWithin, CountsList, Straight, Number
<1>4. rcv_nxt' \in SeqNum /\ SlotsFit' /\ (Straight => rcv_nxt' = Number(Len(list')))
  <2>1. CASE IsNext(g)
    <3>1. PICK c \in 1 .. RcvWnd : c = Count(Put(g)) /\ RingMoves(c) /\ ListGrows(g, c)
      BY <1>1, <1>3, <2>1, NextHanded
    <3>2. rcv_nxt' = Plus(rcv_nxt, c)
      BY <2>1, <3>1 DEF Recv
    <3>3. c \in Nat /\ rcv_nxt \in Nat /\ SeqMod \in Nat \ {0} /\ Len(list') = Len(list) + c
      BY <1>3, <3>1, SeqAssumption DEF SeqNum, ListGrows
    <3>4. rcv_nxt + c \in Nat
      BY <3>3
    <3>5. rcv_nxt' \in SeqNum
      BY <3>2, <3>3, <3>4, Remainder DEF Plus, SeqNum
    <3>6. SlotsFit'
      BY <1>1, <1>3, <3>1, <3>2, NextFits
    <3>7. Straight => rcv_nxt' = Number(Len(list'))
      BY <1>3, <3>2, <3>3, NumberPlus
    <3>8. QED
      BY <3>5, <3>6, <3>7
  <2>2. CASE ~IsNext(g)
    <3>1. rcv_nxt' = rcv_nxt
      BY <2>2 DEF Recv
    <3>2. /\ UNCHANGED list
          /\ Away(g) \in Nat \ {0}
          /\ \A k \in Ring : At(k)' =
                IF k = Away(g) \/ (k = 0 /\ Away(g) = RcvWnd) THEN g ELSE At(k)
      BY <1>1, <1>3, <2>2, OtherHanded
    <3>3. SlotsFit'
      BY <1>1, <1>3, <3>1, <3>2, OtherFits
    <3>4. QED
      BY <1>3, <3>1, <3>2, <3>3
  <2>3. QED
    BY <2>1, <2>2
<1>5. TypeOK'
  BY <1>1, <1>2, <1>3, <1>4 DEF TypeOK, Slotted
<1>6. SentWithin'
  <2>1. sent \in Int /\ Len(list') \in Nat
    BY <1>2, <1>3
  <2>2. QED
    BY <1>1, <1>2, <1>3, <2>1 DEF SentWithin
<1>7. CountsList' /\ SlotsHold'
  BY <1>2, <1>3, <1>4 DEF CountsList, SlotsHold, Aligned
<1>8. TextsOnly'
  <2>1. SUFFICES ASSUME ~bare
                 PROVE  /\ \A k \in Ring : At(k)' # None => At(k)'.kind = "text"
                        /\ \A i \in 1 .. Len(list') : list'[i].kind = "text"
    BY <1>1 DEF TextsOnly, Ring
  <2>2. g.kind = "text"
    BY <1>1, <2>1 DEF Arriving
  <2>3. QED
    BY <1>1, <1>3, <2>1, <2>2, HandedTexts
<1>9. QED
  BY <1>2, <1>4, <1>5, <1>6, <1>7, <1>8 DEF IInv

LEMMA RecvFinKeeps ==
  ASSUME IInv, NEW g \in Segment, RecvFin(g)
  PROVE  IInv'
<1>1. /\ open /\ g \in Arriving /\ Handed(g) /\ open' = FALSE /\ UNCHANGED peerVars
      /\ UNCHANGED <<wire, bare, sent, fin>>
      /\ rcv_nxt' = Plus(Number(g.n), 1)
  BY DEF RecvFin, Arrives, Handed, peerVars
<1>2. /\ buffer' \in Slotted /\ head' \in Ring
      /\ list' \in Seq(Segment) /\ Len(list') >= Len(list)
      /\ ListInOrder'
  BY <1>1, HandedKeeps
<1>3. /\ TypeOK /\ wire \in [SeqNum -> SeqNum] /\ bare \in BOOLEAN
      /\ sent \in 0 .. Length /\ fin \in BOOLEAN /\ Len(list) \in Nat /\ Len(list') \in Nat
      /\ sent <= Len(list) + Ahead /\ Ahead \in Nat
  BY <1>2, WindowAssumption DEF IInv, TypeOK, SentWithin
<1>4. rcv_nxt' \in SeqNum
  <2>1. g.n \in Nat /\ SeqMod \in Nat \ {0}
    BY WindowAssumption, SeqAssumption DEF Segment
  <2>2. Number(g.n) \in 0 .. SeqMod - 1
    BY <1>3, <2>1, NumberType DEF SeqNum
  <2>3. Number(g.n) + 1 \in Nat
    BY <2>1, <2>2
  <2>4. QED
    BY <1>1, <2>1, <2>3, Remainder DEF Plus, SeqNum
<1>5. TypeOK'
  BY <1>1, <1>2, <1>3, <1>4 DEF TypeOK, Slotted
<1>6. SentWithin'
  <2>1. sent \in Int
    BY <1>3
  <2>2. QED
    BY <1>1, <1>2, <1>3, <2>1 DEF SentWithin
<1>7. SlotsFit' /\ CountsList' /\ SlotsHold' /\ TextsOnly'
  BY <1>1 DEF SlotsFit, CountsList, SlotsHold, TextsOnly
<1>8. QED
  BY <1>2, <1>5, <1>6, <1>7 DEF IInv

\* A step that leaves the window alone.
LEMMA WindowSame ==
  ASSUME IInv, UNCHANGED <<wire, bare, open, rcv_nxt, head, buffer, list>>,
         sent' \in 0 .. Length, sent' <= Len(list) + Ahead, fin' \in BOOLEAN
  PROVE  IInv'
<1>1. TypeOK' /\ SentWithin'
  BY DEF IInv, TypeOK, SentWithin
<1>2. (\A k : At(k)' = At(k)) /\ (\A n : Number(n)' = Number(n)) /\ Straight' = Straight
  BY DEF At, Number, Straight
<1>3. SlotsFit'
  BY <1>2 DEF IInv, SlotsFit, Ring
<1>4. CountsList' /\ ListInOrder'
  BY <1>2 DEF IInv, CountsList, ListInOrder
<1>5. SlotsHold' /\ TextsOnly'
  BY <1>2 DEF IInv, SlotsHold, TextsOnly, Ring
<1>6. QED
  BY <1>1, <1>3, <1>4, <1>5 DEF IInv

LEMMA NextStep == IInv /\ [Next]_vars => IInv'
<1>1. SUFFICES ASSUME IInv, [Next]_vars
               PROVE  IInv'
  OBVIOUS
<1>2. /\ sent \in 0 .. Length /\ sent <= Len(list) + Ahead /\ fin \in BOOLEAN
      /\ Len(list) \in Nat /\ Ahead \in Nat /\ Length \in Nat
  BY <1>1, WindowAssumption DEF IInv, TypeOK, SentWithin
<1>3. CASE UNCHANGED vars
  BY <1>1, <1>2, <1>3, WindowSame DEF vars
<1>4. CASE Send
  <2>1. sent < Length /\ sent < Len(list) + Ahead /\ sent' = sent + 1
    BY <1>4 DEF Send
  <2>2. sent' \in 0 .. Length /\ sent' <= Len(list) + Ahead
    BY <1>2, <2>1
  <2>3. fin' \in BOOLEAN /\ UNCHANGED <<wire, bare, open, rcv_nxt, head, buffer, list>>
    BY <1>2, <1>4 DEF Send
  <2>4. QED
    BY <1>1, <2>2, <2>3, WindowSame
<1>5. CASE SendFin
  BY <1>1, <1>2, <1>5, WindowSame DEF SendFin
<1>6. ASSUME NEW g \in Segment, Recv(g) \/ RecvFin(g)
      PROVE  IInv'
  BY <1>1, <1>6, RecvKeeps, RecvFinKeeps
<1>7. QED
  BY <1>1, <1>3, <1>4, <1>5, <1>6 DEF Next

\* The inductive invariant.
THEOREM Invariance == Spec => []IInv
<1>1. QED
  BY InitIInv, NextStep, PTL DEF Spec

\* Every variable has its type and head_ is a slot of the ring (xy_tcp_wnd.h).
THEOREM TypeCorrect == Spec => []TypeOK
<1>1. IInv => TypeOK
  BY DEF IInv
<1>2. QED
  BY <1>1, Invariance, PTL

\* Where the host reads numbers as they were sent and no acknowledgment without
\* text arrives, what rcv_nxt acknowledges is the text the list holds, in a
\* window of any size (tcp_recv_window_update).
THEOREM AcknowledgmentIsRight == Spec => []AcknowledgesHandedOver
<1>1. IInv => AcknowledgesHandedOver
  <2>1. SUFFICES ASSUME IInv, Straight, ~bare, open
                 PROVE  /\ rcv_nxt = Number(Len(list))
                        /\ \A i \in 1 .. Len(list) : list[i] = Text(i - 1)
    BY DEF AcknowledgesHandedOver, Plain
  <2>2. rcv_nxt = Number(Len(list))
    BY <2>1 DEF IInv, CountsList
  <2>3. ASSUME NEW i \in 1 .. Len(list)
        PROVE  list[i] = Text(i - 1)
    <3>1. list[i].n = i - 1 /\ list[i].kind = "text" /\ list \in Seq(Segment)
      BY <2>1, <2>3 DEF IInv, ListInOrder, TextsOnly, TypeOK
    <3>2. list[i] \in Segment
      BY <2>3, <3>1, ElementOfSeq
    <3>3. QED
      BY <3>1, <3>2 DEF Segment, Text
  <2>4. QED
    BY <2>2, <2>3
<1>2. QED
  BY <1>1, Invariance, PTL

\* Ring and sequence numbers stay aligned, whatever the size of the ring, however
\* the host reads the numbers and wherever they wrap around
\* (xy_tcp_rcv_wnd_try_put, xy_tcp_rcv_wnd_collect).
THEOREM RingStaysAligned == Spec => []SlotsFit
<1>1. IInv => SlotsFit
  BY DEF IInv
<1>2. QED
  BY <1>1, Invariance, PTL

LEMMA PlusValue ==
  ASSUME NEW a \in SeqNum, NEW n \in SeqNum
  PROVE  Plus(a, n) = IF a + n < SeqMod THEN a + n ELSE a + n - SeqMod
<1>1. /\ SeqMod \in Nat \ {0} /\ a + n \in 0 .. SeqMod + SeqMod - 1
      /\ (a + n) - SeqMod = a + n - SeqMod
  BY SeqAssumption DEF SeqNum
<1>2. (a + n) % SeqMod = IF a + n < SeqMod THEN a + n ELSE (a + n) - SeqMod
  BY <1>1, OneTurn
<1>3. QED
  BY <1>1, <1>2 DEF Plus

\* No segment of a window of any size is refused by the sequence check, however
\* the window lies across the wrap-around (state_tcp_otherwise).
THEOREM WindowIsAccepted == Spec => []AcceptsTheWindow
<1>1. ASSUME rcv_nxt \in SeqNum, NEW i \in 0 .. RcvWnd - 1
      PROVE  Acceptable([rcv_nxt |-> rcv_nxt, rcv_wnd |-> RcvWnd],
                        [seq |-> Plus(rcv_nxt, i), flags |-> {"ACK"}])
  <2>1. /\ SeqMod \in Nat /\ RcvWnd \in 1 .. SeqMod - 1 /\ rcv_nxt \in 0 .. SeqMod - 1
        /\ i \in SeqNum /\ RcvWnd \in SeqNum
    BY <1>1, SeqAssumption DEF SeqNum
  <2>2. /\ Plus(rcv_nxt, i) = IF rcv_nxt + i < SeqMod THEN rcv_nxt + i ELSE rcv_nxt + i - SeqMod
        /\ Plus(rcv_nxt, RcvWnd) = IF rcv_nxt + RcvWnd < SeqMod THEN rcv_nxt + RcvWnd
                                   ELSE rcv_nxt + RcvWnd - SeqMod
    BY <1>1, <2>1, PlusValue
  <2>3. Plus(rcv_nxt, i) >= rcv_nxt \/ Plus(rcv_nxt, i) <= Plus(rcv_nxt, RcvWnd)
    BY <1>1, <2>1, <2>2
  <2>4. RcvWnd # 0
    BY <2>1
  <2>5. QED
    BY <2>3, <2>4 DEF Acceptable
<1>2. IInv => AcceptsTheWindow
  BY <1>1 DEF IInv, TypeOK, AcceptsTheWindow
<1>3. QED
  BY <1>2, Invariance, PTL

\* rcv_nxt moves as the state handlers of module TcpInput have it, over one
\* segment to a whole window, and never for a segment that is not the next one.
THEOREM WindowMovesAsText == Spec => MovesAsText
<1> DEFINE Moved(g) == \E n \in 1 .. RcvWnd :
              rcv_nxt' = TextTcb("ESTABLISHED", [rcv_nxt |-> rcv_nxt], Number(g.n), n).rcv_nxt
<1>1. ASSUME IInv, NEW g \in Segment, Recv(g)
      PROVE  Moved(g)
  <2>1. TypeOK /\ Handed(g)
    BY <1>1 DEF Recv, Handed, IInv
  <2>2. CASE IsNext(g)
    <3>1. PICK c \in 1 .. RcvWnd : c = Count(Put(g))
      BY <2>1, <2>2, NextHanded
    <3>2. rcv_nxt' = Plus(rcv_nxt, c) /\ Number(g.n) = rcv_nxt
      BY <1>1, <2>2, <3>1 DEF Recv, IsNext
    <3>3. rcv_nxt' = TextTcb("ESTABLISHED", [rcv_nxt |-> rcv_nxt], Number(g.n), c).rcv_nxt
      BY <3>2 DEF TextTcb
    <3>4. QED
      BY <3>1, <3>3
  <2>3. CASE ~IsNext(g)
    <3>1. rcv_nxt' = TextTcb("ESTABLISHED", [rcv_nxt |-> rcv_nxt], Number(g.n), 1).rcv_nxt
      BY <1>1, <2>3 DEF Recv, IsNext, TextTcb
    <3>2. 1 \in 1 .. RcvWnd
      BY SeqAssumption
    <3>3. QED
      BY <3>1, <3>2
  <2>4. QED
    BY <2>2, <2>3
<1>2. IInv /\ [Next]_vars => [\A g \in Segment : Recv(g) => Moved(g)]_vars
  BY <1>1
<1>3. QED
  BY <1>2, Invariance, PTL DEF Spec, MovesAsText

(***************************************************************************)
(* The abstract receive buffer.                                            *)
(***************************************************************************)

\* The first number that is missing is the only one that is missing and has all
\* the earlier ones before it.
LEMMA MissingIs ==
  ASSUME NEW S, NEW L \in Nat, NEW m \in Nat,
         S \subseteq 0 .. m, 0 .. L - 1 \subseteq S, L \notin S
  PROVE  Abstract!Missing(S) = L
<1> DEFINE P(n) == n \notin S /\ 0 .. n - 1 \subseteq S
<1>1. IsFiniteSet(S) /\ Cardinality(S) \in Nat
  <2>1. IsFiniteSet(0 .. m)
    BY FS_Interval
  <2>2. IsFiniteSet(S)
    BY <2>1, FS_Subset
  <2>3. QED
    BY <2>2, FS_CardinalityType
<1>2. L <= Cardinality(S)
  <2>1. IsFiniteSet(0 .. L - 1) /\ Cardinality(0 .. L - 1) <= Cardinality(S)
    BY <1>1, FS_Subset
  <2>2. Cardinality(0 .. L - 1) = IF 0 > L - 1 THEN 0 ELSE (L - 1) - 0 + 1
    BY FS_Interval
  <2>3. QED
    BY <1>1, <2>1, <2>2
<1>3. L \in 0 .. Cardinality(S) /\ P(L)
  BY <1>1, <1>2
<1>4. ASSUME NEW n \in 0 .. Cardinality(S), P(n)
      PROVE  n = L
  <2>1. n \in Nat
    BY <1>1
  <2>2. CASE n < L
    <3>1. n \in 0 .. L - 1
      BY <2>1, <2>2
    <3>2. QED
      BY <1>4, <3>1
  <2>3. CASE L < n
    <3>1. L \in 0 .. n - 1
      BY <2>1, <2>3
    <3>2. QED
      BY <1>4, <3>1
  <2>4. QED
    BY <2>1, <2>2, <2>3
<1> DEFINE C == Abstract!Missing(S)
<1>5. C \in 0 .. Cardinality(S) /\ C \notin S /\ 0 .. C - 1 \subseteq S
  <2>1. \E n \in 0 .. Cardinality(S) : n \notin S /\ 0 .. n - 1 \subseteq S
    BY <1>3
  <2>2. C = CHOOSE n \in 0 .. Abstract!Cardinality(S) : n \notin S /\ 0 .. n - 1 \subseteq S
    BY DEF Abstract!Missing
  <2>3. QED
    BY <2>1, <2>2, Zenon DEF Abstract!Cardinality, Cardinality
<1> HIDE DEF C
<1>6. C = L
  BY <1>4, <1>5
<1>7. QED
  BY <1>6 DEF C

\* What is missing is what the list would take next.
LEMMA MissingHeld == Len(list) \in Nat => Abstract!Missing(Held) = Len(list)
<1> SUFFICES ASSUME Len(list) \in Nat
             PROVE  Abstract!Missing(Held) = Len(list)
  OBVIOUS
<1>1. RcvWnd \in Nat
  BY SeqAssumption
<1>2. Held \subseteq 0 .. Len(list) + RcvWnd
  BY <1>1 DEF Held
<1>3. 0 .. Len(list) - 1 \subseteq Held
  BY DEF Held
<1>4. Len(list) \notin Held
  BY <1>1 DEF Held
<1>5. Len(list) + RcvWnd \in Nat
  BY <1>1
<1> DEFINE S == Held
<1> HIDE DEF S
<1>6. S \subseteq 0 .. Len(list) + RcvWnd /\ 0 .. Len(list) - 1 \subseteq S /\ Len(list) \notin S
  BY <1>2, <1>3, <1>4 DEF S
<1>7. Abstract!Missing(S) = Len(list)
  BY <1>5, <1>6, MissingIs
<1>8. QED
  BY <1>7 DEF S

\* The numbers handed over and waiting, one by one.
LEMMA HeldHas ==
  ASSUME NEW x \in Nat, Len(list) \in Nat
  PROVE  x \in Held <=> \/ x < Len(list)
                        \/ \E k \in Ring \ {0} : x = Len(list) + k /\ At(k) # None
<1>1. RcvWnd \in Nat \ {0}
  BY SeqAssumption
<1>2. x \in 0 .. Len(list) - 1 <=> x < Len(list)
  OBVIOUS
<1>3. 1 .. RcvWnd - 1 = Ring \ {0}
  BY <1>1 DEF Ring
<1>4. QED
  BY <1>2, <1>3 DEF Held

\* A segment makes one step of the abstract buffer or none.
LEMMA HandedRefines ==
  ASSUME IInv, Straight, open, UNCHANGED peerVars, NEW g \in Segment, g \in Arriving, Handed(g)
  PROVE  [Abstract!Next]_Abstract!vars
<1> DEFINE read == [i \in 1 .. Len(list) |-> list[i].n]
<1>1. /\ list \in Seq(Segment) /\ Len(list) \in Nat /\ ListInOrder /\ RcvWnd \in Nat \ {0}
      /\ g.n \in 0 .. Length + 1 /\ g.n \in Nat /\ g # None
      /\ TypeOK /\ Straight'
  BY WindowAssumption, SeqAssumption DEF IInv, TypeOK, Segment, Straight, peerVars
<1>2. list' \in Seq(Segment) /\ Len(list') \in Nat /\ ListInOrder'
  <2>1. list' \in Seq(Segment) /\ ListInOrder'
    BY HandedKeeps
  <2>2. QED
    BY <2>1
<1>3. /\ Held \subseteq Nat /\ Held' \subseteq Nat
      /\ \A x \in Nat : x \in Held <=>
            \/ x < Len(list)
            \/ \E k \in Ring \ {0} : x = Len(list) + k /\ At(k) # None
      /\ \A x \in Nat : x \in Held' <=>
            \/ x < Len(list')
            \/ \E k \in Ring \ {0} : x = Len(list') + k /\ At(k)' # None
  <2>1. Held \subseteq Nat
    BY <1>1 DEF Held
  <2>2. Held' \subseteq Nat
    BY <1>1, <1>2 DEF Held
  <2>3. \A x \in Nat : x \in Held <=>
            \/ x < Len(list)
            \/ \E k \in Ring \ {0} : x = Len(list) + k /\ At(k) # None
    BY <1>1, HeldHas
  <2>4. \A x \in Nat : x \in Held' <=>
            \/ x < Len(list')
            \/ \E k \in Ring \ {0} : x = Len(list') + k /\ At(k)' # None
    <3>1. 1 .. RcvWnd - 1 = Ring \ {0}
      BY <1>1 DEF Ring
    <3>2. \A x \in Nat : x \in 0 .. Len(list') - 1 <=> x < Len(list')
      BY <1>2
    <3>3. QED
      BY <3>1, <3>2 DEF Held
  <2>5. QED
    BY <2>1, <2>2, <2>3, <2>4
<1>4. read' = [i \in 1 .. Abstract!Missing(Held)' |-> i - 1]
  <2>1. (Len(list) \in Nat => Abstract!Missing(Held) = Len(list))'
    BY MissingHeld, PTL
  <2>2. QED
    BY <2>1, <1>1, <1>2 DEF ListInOrder
<1>5. CASE IsNext(g)
  <2>1. PICK c \in 1 .. RcvWnd :
          /\ g.n = Len(list)
          /\ Len(list') = Len(list) + c
          /\ \A k \in 1 .. c - 1 : At(k) # None
          /\ c < RcvWnd => At(c) = None
          /\ \A k \in Ring : At(k)' # None <=> k + c < RcvWnd /\ At(k + c) # None
    <3>1. PICK c \in 1 .. RcvWnd : RingMoves(c) /\ ListGrows(g, c)
      BY <1>1, <1>5, NextHanded
    <3>2. g.n = Len(list)
      BY <1>5, <3>1, NextInOrder
    <3>3. /\ \A k \in 1 .. c - 1 : At(k) # None
          /\ c < RcvWnd => At(c) = None
          /\ \A k \in Ring : At(k)' # None <=> k + c < RcvWnd /\ At(k + c) # None
      BY <3>1 DEF RingMoves
    <3>4. Len(list') = Len(list) + c
      BY <3>1 DEF ListGrows
    <3>5. QED
      BY <3>2, <3>3, <3>4
  <2>2. Held' = Held \cup {g.n}
    <3>1. ASSUME NEW x \in Nat
          PROVE  x \in Held' <=> x \in Held \/ x = g.n
      <4>1. CASE x <= Len(list)
        BY <1>1, <1>3, <2>1, <4>1
      <4>2. CASE Len(list) < x /\ x < Len(list) + c
        <5>1. x - Len(list) \in 1 .. c - 1 /\ x - Len(list) \in Ring \ {0}
              /\ x = Len(list) + (x - Len(list)) /\ x < Len(list')
          BY <1>1, <2>1, <4>2 DEF Ring
        <5>2. x \in Held /\ x \in Held'
          BY <1>3, <2>1, <5>1
        <5>3. QED
          BY <5>2
      <4>3. CASE Len(list) + c <= x
        <5>1. /\ x # g.n /\ ~(x < Len(list)) /\ ~(x < Len(list'))
          BY <1>1, <2>1, <4>3
        <5>2. ASSUME x \in Held'
              PROVE  x \in Held
          <6>1. PICK k \in Ring \ {0} : x = Len(list') + k /\ At(k)' # None
            BY <1>3, <5>1, <5>2
          <6>2. k + c < RcvWnd /\ At(k + c) # None
            BY <2>1, <6>1
          <6>3. k + c \in Ring \ {0} /\ x = Len(list) + (k + c)
            BY <1>1, <2>1, <6>1, <6>2 DEF Ring
          <6>4. QED
            BY <1>3, <6>2, <6>3
        <5>3. ASSUME x \in Held
              PROVE  x \in Held'
          <6>1. PICK k \in Ring \ {0} : x = Len(list) + k /\ At(k) # None
            BY <1>3, <5>1, <5>3
          <6>2. k # c
            BY <1>1, <2>1, <6>1 DEF Ring
          <6>3. CASE c < k
            <7>1. k - c \in Ring \ {0} /\ (k - c) + c = k /\ k < RcvWnd /\ x = Len(list') + (k - c)
              BY <1>1, <2>1, <6>1, <6>3 DEF Ring
            <7>2. PICK j \in Ring \ {0} : j + c = k /\ x = Len(list') + j
              BY <7>1
            <7>3. At(j)' # None
              BY <2>1, <6>1, <7>1, <7>2
            <7>4. QED
              BY <1>3, <7>2, <7>3
          <6>4. QED
            BY <1>1, <2>1, <4>3, <6>1, <6>2, <6>3 DEF Ring
        <5>4. QED
          BY <5>1, <5>2, <5>3
      <4>4. QED
        BY <1>1, <2>1, <4>1, <4>2, <4>3
    <3>2. QED
      BY <1>1, <1>3, <3>1
  <2>3. g.n \notin Held
    BY <1>1, <1>3, <2>1 DEF Ring
  <2>4. QED
    BY <1>1, <1>4, <2>2, <2>3 DEF Abstract!Next, Abstract!Take
<1>6. CASE ~IsNext(g)
  <2>1. UNCHANGED list /\ Away(g) \in Nat \ {0}
    BY <1>1, <1>6, OtherHanded
  <2>2. \/ \A k \in Ring \ {0} : At(k)' = At(k)
        \/ \E o \in Ring \ {0} :
              /\ g.n = Len(list) + o
              /\ \A k \in Ring \ {0} : At(k)' = IF k = o THEN g ELSE At(k)
    <3>1. \A k \in Ring \ {0} : At(k)' = IF k = Away(g) THEN g ELSE At(k)
      BY <1>1, <1>6, OtherHanded
    <3>2. CASE Away(g) \in Ring
      <4>1. Away(g) <= RcvWnd
        BY <1>1, <3>2 DEF Ring
      <4>2. g.n = Len(list) + Away(g)
        BY <4>1, OffsetOf DEF Away
      <4>3. QED
        BY <2>1, <3>1, <3>2, <4>2
    <3>3. CASE Away(g) \notin Ring
      BY <3>1, <3>3
    <3>4. QED
      BY <3>2, <3>3
  <2>3. CASE \A k \in Ring \ {0} : At(k)' = At(k)
    <3>1. \A x \in Nat : x \in Held' <=> x \in Held
      BY <1>3, <2>1, <2>3
    <3>2. Held' = Held
      BY <1>3, <3>1
    <3>3. QED
      BY <2>1, <3>2 DEF Abstract!vars
  <2>4. CASE \E o \in Ring \ {0} :
                  /\ g.n = Len(list) + o
                  /\ \A k \in Ring \ {0} : At(k)' = IF k = o THEN g ELSE At(k)
    <3>1. PICK o \in Ring \ {0} :
                  /\ g.n = Len(list) + o
                  /\ \A k \in Ring \ {0} : At(k)' = IF k = o THEN g ELSE At(k)
      BY <2>4
    <3>2. Held' = Held \cup {g.n}
      <4>1. \A x \in Nat : x \in Held' => x \in Held \/ x = g.n
        BY <1>3, <2>1, <3>1
      <4>2. \A x \in Nat : x \in Held => x \in Held'
        BY <1>1, <1>3, <2>1, <3>1
      <4>3. g.n \in Held'
        BY <1>1, <1>3, <2>1, <3>1
      <4>4. QED
        BY <1>1, <1>3, <4>1, <4>2, <4>3
    <3>3. CASE g.n \in Held
      <4>1. Held' = Held
        BY <3>2, <3>3
      <4>2. QED
        BY <2>1, <4>1 DEF Abstract!vars
    <3>4. CASE g.n \notin Held
      BY <1>1, <1>4, <3>2, <3>4 DEF Abstract!Next, Abstract!Take
    <3>5. QED
      BY <3>3, <3>4
  <2>5. QED
    BY <2>2, <2>3, <2>4
<1>7. QED
  BY <1>5, <1>6

LEMMA InitRefines == Init => Abstract!Init
<1>1. SUFFICES ASSUME Init
               PROVE  Abstract!Init
  OBVIOUS
<1>2. Len(list) = 0 /\ Len(list) \in Nat /\ RcvWnd \in Nat \ {0} /\ IInv
  BY <1>1, InitIInv, SeqAssumption DEF Init
<1>3. \A k \in Ring : At(k) = None
  <2>1. SUFFICES ASSUME NEW k \in Ring
                 PROVE  At(k) = None
    OBVIOUS
  <2>2. head \in Ring /\ k \in 0 .. RcvWnd /\ buffer = [i \in Ring |-> None]
    BY <1>1, <1>2 DEF Init, Ring
  <2>3. (head + k) % RcvWnd \in Ring
    BY <2>2, SlotPlace
  <2>4. QED
    BY <2>2, <2>3 DEF At
<1>4. Held = {}
  <2>1. \A x \in Nat : x \notin Held
    BY <1>2, <1>3, HeldHas
  <2>2. Held \subseteq Nat
    BY <1>2 DEF Held
  <2>3. QED
    BY <2>1, <2>2
<1>5. [i \in 1 .. Len(list) |-> list[i].n] = <<>>
  BY <1>2
<1>6. QED
  BY <1>4, <1>5 DEF Abstract!Init

\* Where the host reads numbers as they were sent and no acknowledgment without
\* text arrives, a window of any size hands the text of the peer over in order,
\* each segment once and as soon as the earlier ones are there, and loses none of
\* those that wait, as long as what may arrive does not reach across the numbers
\* (tcp_recv_window_update).
THEOREM Refinement == Spec => ImplementsReceiveBuffer
<1>1. Init => (Plain => Abstract!Init)
  BY InitRefines
<1>2. IInv /\ [Next]_vars =>
         [Plain => Abstract!Next]_<<Held, [i \in 1 .. Len(list) |-> list[i].n]>>
  <2>1. SUFFICES ASSUME IInv, [Next]_vars, Plain
                 PROVE  [Abstract!Next]_Abstract!vars
    BY DEF Abstract!vars
  <2>2. ASSUME NEW g \in Segment, Recv(g) \/ RecvFin(g)
        PROVE  [Abstract!Next]_Abstract!vars
    <3>1. open /\ g \in Arriving /\ Handed(g) /\ UNCHANGED peerVars
      BY <2>2 DEF Recv, RecvFin, Arrives, Handed, peerVars
    <3>2. QED
      BY <2>1, <3>1, HandedRefines DEF Plain
  <2>3. CASE UNCHANGED <<head, buffer, list>>
    BY <2>3 DEF Abstract!vars, Held, At
  <2>4. QED
    BY <2>1, <2>2, <2>3 DEF Next, Send, SendFin, vars
<1>3. QED
  BY <1>1, <1>2, Invariance, PTL DEF Spec, ImplementsReceiveBuffer

=============================================================================
