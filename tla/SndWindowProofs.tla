-------------------------- MODULE SndWindowProofs --------------------------
(***************************************************************************)
(* Proofs about SndWindow, for any size of the ring and of the sequence    *)
(* numbers, any windows and any number of segments: what a turn repeats    *)
(* was sent before, and the segments of the calls are sent in order and    *)
(* once.                                                                   *)
(***************************************************************************)
EXTENDS SndWindow, SequenceTheorems, TLAPS

(***************************************************************************)
(* What the operators of a turn yield.                                     *)
(***************************************************************************)

\* Unsigned addition stays among the sequence numbers.
LEMMA PlusSeq ==
  ASSUME NEW a \in SeqNum, NEW n \in Nat
  PROVE  Plus(a, n) \in SeqNum
  BY SeqAssumption DEF Plus, SeqNum

\* The first n segments of a list, and the ones that are left.
LEMMA SplitList ==
  ASSUME NEW s \in Seq(Segment), NEW n \in 0 .. Len(s)
  PROVE  LET first == SubSeq(s, 1, n)
             rest == SubSeq(s, n + 1, Len(s))
         IN  /\ first \in Seq(Segment) /\ Len(first) = n
             /\ \A k \in 1 .. n : first[k] = s[k]
             /\ rest \in Seq(Segment) /\ Len(rest) = Len(s) - n
             /\ \A k \in 1 .. Len(s) - n : rest[k] = s[n + k]
<1>1. Len(s) \in Nat /\ \A k \in 1 .. Len(s) : s[k] \in Segment
  BY ElementOfSeq
<1>2. /\ SubSeq(s, n + 1, Len(s)) \in Seq(Segment)
      /\ Len(SubSeq(s, n + 1, Len(s))) = IF n + 1 <= Len(s) THEN Len(s) - (n + 1) + 1 ELSE 0
      /\ \A k \in 1 .. Len(s) - (n + 1) + 1 : SubSeq(s, n + 1, Len(s))[k] = s[n + 1 + k - 1]
  <2>1. \A k \in n + 1 .. Len(s) : s[k] \in Segment
    BY <1>1
  <2>2. QED
    BY <1>1, <2>1, SubSeqProperties
<1>3. /\ SubSeq(s, 1, n) \in Seq(Segment)
      /\ Len(SubSeq(s, 1, n)) = IF 1 <= n THEN n - 1 + 1 ELSE 0
      /\ \A k \in 1 .. n - 1 + 1 : SubSeq(s, 1, n)[k] = s[1 + k - 1]
  <2>1. \A k \in 1 .. n : s[k] \in Segment
    BY <1>1
  <2>2. QED
    BY <1>1, <2>1, SubSeqProperties
<1>4. QED
  BY <1>1, <1>2, <1>3

\* With the head in the first slot the size is the tail.
LEMMA WantedType ==
  ASSUME IInv
  PROVE  Size = tail /\ Wanted \in Nat
<1>1. tail \in Nat /\ head = 0 /\ snd_wnd \in Nat
  BY SndAssumption DEF IInv, TypeOK, FirstSlotIsSent, Ring
<1>2. QED
  BY <1>1 DEF Size, Wanted

\* The tail stays in the ring.
LEMMA TailType ==
  ASSUME NEW n \in Nat, tail \in Ring
  PROVE  TailAfter(n) \in Ring
  BY SndAssumption DEF TailAfter, Ring

\* A slot keeps its segment or takes one of the added ones.
LEMMA AddedSlot ==
  ASSUME NEW s \in Seq(Segment), NEW i \in Ring, tail \in Ring
  PROVE  \/ Added(s)[i] = buffer[i]
         \/ \E k \in 1 .. Len(s) : Added(s)[i] = s[k]
<1> DEFINE ago == (tail + Len(s) + RingSize - 1 - i) % RingSize
<1>1. ago \in Nat /\ Len(s) \in Nat
  BY SndAssumption DEF Ring
<1>2. Added(s)[i] = IF ago < Len(s) THEN s[Len(s) - ago] ELSE buffer[i]
  BY DEF Added
<1>3. CASE ago < Len(s)
  <2>1. Len(s) - ago \in 1 .. Len(s)
    BY <1>1, <1>3
  <2>2. QED
    BY <1>2, <1>3, <2>1
<1>4. CASE ~(ago < Len(s))
  BY <1>2, <1>4
<1>5. QED
  BY <1>3, <1>4

LEMMA AddedType ==
  ASSUME NEW s \in Seq(Segment), tail \in Ring, buffer \in [Ring -> Segment \cup {None}]
  PROVE  Added(s) \in [Ring -> Segment \cup {None}]
<1>1. \A i \in Ring : Added(s)[i] \in Segment \cup {None}
  BY AddedSlot, ElementOfSeq
<1>2. Added(s) = [i \in Ring |-> Added(s)[i]]
  BY DEF Added
<1>3. QED
  BY <1>1, <1>2

\* An unsigned remainder is not above its dividend, nor after a whole turn.
LEMMA AroundOnce ==
  ASSUME NEW a \in Nat, NEW m \in Nat \ {0}
  PROVE  (a + m) % m <= a
<1>1. CASE a < m
  BY <1>1
<1>2. CASE a >= m
  <2>1. (a + m) % m \in 0 .. m - 1
    OBVIOUS
  <2>2. QED
    BY <1>2, <2>1
<1>3. QED
  BY <1>1, <1>2

\* The first segment that is ever sent goes to the first slot.
LEMMA FirstSlotAdded ==
  ASSUME NEW s \in Seq(Segment), s # <<>>, tail = 0
  PROVE  \E k \in 1 .. Len(s) : Added(s)[0] = s[k]
<1> DEFINE ago == (tail + Len(s) + RingSize - 1 - 0) % RingSize
<1>1. Len(s) \in Nat \ {0} /\ RingSize \in Nat \ {0}
  BY SndAssumption, EmptySeq
<1>2. ago = (Len(s) - 1 + RingSize) % RingSize
  BY <1>1
<1>3. ago <= Len(s) - 1 /\ ago \in Nat
  BY <1>1, <1>2, AroundOnce
<1>4. Added(s)[0] = s[Len(s) - ago]
  BY <1>1, <1>3 DEF Added, Ring
<1>5. Len(s) - ago \in 1 .. Len(s)
  BY <1>1, <1>3
<1>6. QED
  BY <1>4, <1>5

\* The segments of an Output are segments: the head's slot is not empty when the
\* ring is not.
LEMMA OutputLen ==
  ASSUME IInv, Wanted <= Len(list)
  PROVE  Len(Output(Wanted)) \in Nat
<1>1. list \in Seq(Segment) /\ Len(list) \in Nat /\ Wanted \in 0 .. Len(list)
  BY WantedType DEF IInv, TypeOK
<1>2. SubSeq(list, 1, Wanted) \in Seq(Segment \cup {None})
  BY <1>1, SplitList
<1>3. 0 \in Ring
  BY SndAssumption DEF Ring
<1>4. buffer[head] \in Segment \cup {None}
  BY <1>3 DEF IInv, TypeOK, FirstSlotIsSent
<1>5. <<>> \in Seq(Segment \cup {None}) /\ <<buffer[head]>> \in Seq(Segment \cup {None})
  BY <1>4
<1>6. Output(Wanted) \in Seq(Segment \cup {None})
  BY <1>2, <1>5, ConcatProperties DEF Output
<1>7. QED
  BY <1>6

(***************************************************************************)
(* The actions.                                                            *)
(***************************************************************************)

LEMMA InitIInv == Init => IInv
<1>1. SUFFICES ASSUME Init
               PROVE  IInv
  OBVIOUS
<1>2. 0 \in SeqNum /\ Plus(Iss, 1) \in SeqNum /\ Iss \in SeqNum /\ 0 \in Ring
  <2>1. 0 \in SeqNum /\ Iss \in SeqNum /\ 0 \in Ring
    BY SeqAssumption, SndAssumption DEF SeqNum, Ring
  <2>2. Plus(Iss, 1) \in SeqNum
    BY <2>1, PlusSeq
  <2>3. QED
    BY <2>1, <2>2
<1>3. TypeOK
  BY <1>1, <1>2, SndAssumption DEF Init, TypeOK
<1>4. FirstSlotIsSent
  BY <1>1, <1>2 DEF Init, FirstSlotIsSent, SeqNum
<1>5. QED
  BY <1>3, <1>4 DEF IInv

LEMMA AckStep ==
  ASSUME IInv, NEW ack \in SeqNum, NEW seq \in SeqNum, NEW win \in Windows, Ack(ack, seq, win)
  PROVE  IInv'
<1>1. TypeOK /\ FirstSlotIsSent
  BY DEF IInv
<1>2. snd_una' = ack /\ snd_una < ack /\ snd_una \in Int /\ ack \in Int /\ snd_wl2 \in Int
  BY <1>1 DEF Ack, Advances, TypeOK, SeqNum
<1>3. head' = 0
  BY <1>1, <1>2, SndAssumption DEF Ack, Erase, Erased, FirstSlotIsSent
<1>4. 0 \in SeqNum /\ 0 \in Ring
  BY SeqAssumption, SndAssumption DEF SeqNum, Ring
<1>5. TypeOK'
  BY <1>1, <1>2, <1>3, <1>4 DEF Ack, TypeOK, callVars
<1>6. FirstSlotIsSent'
  BY <1>1, <1>3 DEF Ack, FirstSlotIsSent
<1>7. QED
  BY <1>5, <1>6 DEF IInv

\* What is queued fits the bound.
LEMMA FollowingType ==
  ASSUME TypeOK, NEW n \in Nat, queued + n <= Length
  PROVE  /\ list \o Following(n) \in Seq(Segment)
         /\ Len(list \o Following(n)) = Len(list) + n
         /\ \A k \in 1 .. Len(list) : (list \o Following(n))[k] = list[k]
         /\ \A k \in Len(list) + 1 .. Len(list) + n :
               (list \o Following(n))[k] = queued + (k - Len(list))
<1>1. list \in Seq(Segment) /\ Len(list) \in Nat /\ queued \in Nat /\ Length \in Nat
  BY SndAssumption DEF TypeOK
<1>2. \A i \in 1 .. n : queued + i \in Segment
  BY <1>1 DEF Segment
<1>3. Following(n) \in Seq(Segment) /\ Len(Following(n)) = n
  BY <1>2 DEF Following
<1>4. \A i \in 1 .. n : Following(n)[i] = queued + i
  BY DEF Following
<1>5. /\ list \o Following(n) \in Seq(Segment)
      /\ Len(list \o Following(n)) = Len(list) + n
      /\ \A i \in 1 .. Len(list) + n :
            (list \o Following(n))[i] = IF i <= Len(list) THEN list[i] ELSE Following(n)[i - Len(list)]
  BY <1>1, <1>3, ConcatProperties
<1>6. \A k \in Len(list) + 1 .. Len(list) + n : k - Len(list) \in 1 .. n
  BY <1>1
<1>7. \A k \in Len(list) + 1 .. Len(list) + n :
        (list \o Following(n))[k] = queued + (k - Len(list))
  BY <1>1, <1>4, <1>5, <1>6
<1>8. \A k \in 1 .. Len(list) : (list \o Following(n))[k] = list[k]
  BY <1>1, <1>5
<1>9. QED
  BY <1>5, <1>7, <1>8

LEMMA CallStep ==
  ASSUME IInv, (\E n \in Segment : Send(n) \/ Recv(n)) \/ Close \/ RecvFin \/ GoOn
  PROVE  IInv'
<1>1. TypeOK /\ FirstSlotIsSent
  BY DEF IInv
<1>2. UNCHANGED <<taken, number, ringVars, snd_nxt, ackVars>>
  BY DEF Send, Recv, Close, RecvFin, GoOn
<1>3. FirstSlotIsSent'
  BY <1>1, <1>2 DEF FirstSlotIsSent, ringVars, ackVars
<1>4. ASSUME NEW n \in Segment, Send(n)
      PROVE  TypeOK'
  <2>1. n \in Nat /\ queued + n <= Length /\ queued \in Nat /\ Length \in Nat
    BY <1>1, <1>4, SndAssumption DEF Send, Segment, TypeOK
  <2>2. list' \in Seq(Segment) /\ queued' \in 0 .. Length
    BY <1>1, <1>4, <2>1, FollowingType DEF Send
  <2>3. QED
    BY <1>1, <1>2, <1>4, <2>2 DEF Send, TypeOK, ringVars, ackVars
<1>5. ASSUME NEW n \in Segment, Recv(n)
      PROVE  TypeOK'
  <2>1. n \in 0 .. Len(list) /\ list \in Seq(Segment)
    BY <1>1, <1>5 DEF Recv, Segment, TypeOK
  <2>2. list' \in Seq(Segment)
    BY <1>5, <2>1, SplitList DEF Recv, Rest
  <2>3. \A i \in 1 .. n : list[i] \in Segment
    BY <2>1, ElementOfSeq
  <2>4. read' \subseteq Segment
    BY <1>1, <1>5, <2>3 DEF Recv, TypeOK
  <2>5. QED
    BY <1>1, <1>2, <1>5, <2>2, <2>4 DEF Recv, TypeOK, ringVars, ackVars
<1>6. CASE Close
  <2>1. 1 \in Nat /\ queued + 1 <= Length /\ queued \in Nat /\ Length \in Nat
    BY <1>1, <1>6, SndAssumption DEF Close, TypeOK
  <2>2. list \o Following(1) \in Seq(Segment)
    BY <1>1, <2>1, FollowingType
  <2>3. list' \in Seq(Segment) /\ queued' \in 0 .. Length
    BY <1>6, <2>1, <2>2 DEF Close
  <2>4. TypeOK'
    BY <1>1, <1>2, <1>6, <2>3 DEF Close, TypeOK, ringVars, ackVars
  <2>5. QED
    BY <1>3, <2>4 DEF IInv
<1>7. CASE RecvFin \/ GoOn
  <2>1. phase' \in {"receive", "calls", "send"} /\ open' \in BOOLEAN
    BY <1>1, <1>7 DEF RecvFin, GoOn, TypeOK
  <2>2. UNCHANGED callVars
    BY <1>7 DEF RecvFin, GoOn
  <2>3. TypeOK'
    BY <1>1, <1>2, <2>1, <2>2 DEF TypeOK, callVars, ringVars, ackVars
  <2>4. QED
    BY <1>3, <2>3 DEF IInv
<1>8. QED
  BY <1>3, <1>4, <1>5, <1>6, <1>7 DEF IInv

LEMMA SendBufStep ==
  ASSUME IInv, SendBuf
  PROVE  IInv'
<1> DEFINE w == Wanted
           new == SubSeq(list, 1, w)
           out == Output(w)
<1>1. TypeOK /\ FirstSlotIsSent
  BY DEF IInv
<1>2. /\ list \in Seq(Segment) /\ Len(list) \in Nat /\ w \in 0 .. Len(list) /\ w \in Nat
      /\ tail \in Ring /\ 0 \in Ring /\ buffer \in [Ring -> Segment \cup {None}]
      /\ taken \in Seq(Segment)
  BY WantedType, SndAssumption DEF SendBuf, IInv, TypeOK, Ring
<1>3. new \in Seq(Segment) /\ Len(new) = w /\ list' \in Seq(Segment)
  BY <1>2, SplitList DEF SendBuf, Rest
<1>4. tail' \in Ring
  BY <1>2, TailType DEF SendBuf
<1>5. buffer' = Added(new) /\ buffer' \in [Ring -> Segment \cup {None}]
  BY <1>2, <1>3, AddedType DEF SendBuf
<1>6. /\ taken' = taken \o new /\ taken' \in Seq(Segment)
      /\ Len(taken') = Len(taken) + w
      /\ \A k \in 1 .. Len(taken) : taken'[k] = taken[k]
      /\ \A k \in 1 .. w : taken'[Len(taken) + k] = new[k]
  <2>1. Len(taken) \in Nat
    BY <1>2
  <2>2. /\ Len(taken \o new) = Len(taken) + w
        /\ \A i \in 1 .. Len(taken) + w :
              (taken \o new)[i] = IF i <= Len(taken) THEN taken[i] ELSE new[i - Len(taken)]
        /\ taken \o new \in Seq(Segment)
    BY <1>2, <1>3, ConcatProperties
  <2>3. taken' = taken \o new
    BY DEF SendBuf
  <2>4. QED
    BY <1>2, <2>1, <2>2, <2>3
<1>7. Len(out) \in Nat /\ snd_nxt \in SeqNum
  BY <1>1, OutputLen DEF SendBuf, TypeOK
<1>8. snd_nxt' \in SeqNum
  BY <1>7, PlusSeq DEF SendBuf
<1>9. number' \in [Segment -> SeqNum \cup {None}]
  <2>1. ASSUME NEW g \in Segment, \E i \in 1 .. Len(out) : out[i] = g
        PROVE  Plus(snd_nxt, (CHOOSE i \in 1 .. Len(out) : out[i] = g) - 1) \in SeqNum
    <3>1. (CHOOSE i \in 1 .. Len(out) : out[i] = g) \in 1 .. Len(out)
      BY <2>1
    <3>2. (CHOOSE i \in 1 .. Len(out) : out[i] = g) - 1 \in Nat
      BY <1>7, <3>1
    <3>3. QED
      BY <1>7, <3>2, PlusSeq
  <2>2. number' = [g \in Segment |->
          IF \E i \in 1 .. Len(out) : out[i] = g
          THEN Plus(snd_nxt, (CHOOSE i \in 1 .. Len(out) : out[i] = g) - 1)
          ELSE number[g]]
    BY DEF SendBuf
  <2>3. \A g \in Segment : number[g] \in SeqNum \cup {None}
    BY <1>1 DEF TypeOK
  <2> HIDE DEF out
  <2>4. QED
    BY <2>1, <2>2, <2>3
<1>10. TypeOK'
  BY <1>1, <1>3, <1>4, <1>5, <1>6, <1>8, <1>9 DEF SendBuf, TypeOK, ackVars
<1>11. FirstSlotIsSent'
  <2>1. head' = 0
    BY <1>1 DEF SendBuf, FirstSlotIsSent
  <2>2. CASE w = 0
    <3>1. new = <<>> /\ taken' = taken
      <4>1. new = <<>>
        BY <1>3, <2>2
      <4>2. taken \o <<>> = taken
        BY <1>2, ConcatEmptySeq
      <4>3. QED
        BY <1>6, <4>1, <4>2
    <3>2. tail' = tail
      <4>1. tail' = (tail + w) % RingSize /\ tail \in 0 .. RingSize - 1 /\ RingSize \in Nat \ {0}
        BY <1>2, SndAssumption DEF SendBuf, TailAfter, Ring
      <4>2. tail % RingSize = tail
        BY <4>1
      <4>3. tail + w = tail
        BY <2>2, <4>1
      <4>4. QED
        BY <4>1, <4>2, <4>3
    <3>3. buffer'[0] = buffer[0]
      BY <1>2, <1>3, <1>5, <2>2, AddedSlot
    <3>4. QED
      BY <1>1, <2>1, <3>1, <3>2, <3>3 DEF FirstSlotIsSent
  <2>3. CASE w # 0
    <3>1. new # <<>> /\ taken' # <<>> /\ Len(taken) \in Nat
      <4>1. Len(taken) \in Nat /\ Len(<<>>) = 0
        BY <1>2, EmptySeq
      <4>2. Len(new) # 0
        BY <1>3, <2>3
      <4>3. Len(taken') # 0
        BY <1>2, <1>6, <2>3, <4>1
      <4>4. QED
        BY <4>1, <4>2, <4>3
    <3>2. \/ \E k \in 1 .. w : buffer'[0] = new[k]
          \/ taken # <<>> /\ buffer'[0] = buffer[0]
      <4>1. CASE taken = <<>>
        BY <1>1, <1>3, <1>5, <3>1, <4>1, FirstSlotAdded DEF FirstSlotIsSent
      <4>2. CASE taken # <<>>
        BY <1>2, <1>3, <1>5, <4>2, AddedSlot
      <4>3. QED
        BY <4>1, <4>2
    <3>3. CASE \E k \in 1 .. w : buffer'[0] = new[k]
      <4>1. PICK k \in 1 .. w : buffer'[0] = new[k]
        BY <3>3
      <4>2. Len(taken) + k \in 1 .. Len(taken') /\ buffer'[0] = taken'[Len(taken) + k]
        BY <1>2, <1>6, <3>1, <4>1
      <4>3. QED
        BY <2>1, <3>1, <4>2 DEF FirstSlotIsSent
    <3>4. CASE taken # <<>> /\ buffer'[0] = buffer[0]
      <4>1. PICK k \in 1 .. Len(taken) : buffer[0] = taken[k]
        BY <1>1, <3>4 DEF FirstSlotIsSent
      <4>2. k \in 1 .. Len(taken') /\ buffer'[0] = taken'[k]
        BY <1>2, <1>6, <3>1, <3>4, <4>1
      <4>3. QED
        BY <2>1, <3>1, <4>2 DEF FirstSlotIsSent
    <3>5. QED
      BY <3>2, <3>3, <3>4
  <2>4. QED
    BY <2>2, <2>3
<1>12. QED
  BY <1>10, <1>11 DEF IInv

(***************************************************************************)
(* The invariant.                                                          *)
(***************************************************************************)

LEMMA NextStep ==
  ASSUME IInv, [Next]_vars
  PROVE  IInv'
<1>1. CASE UNCHANGED vars
  BY <1>1
  DEF vars, callVars, ringVars, ackVars, IInv, TypeOK, FirstSlotIsSent
<1>2. QED
  BY <1>1, AckStep, CallStep, SendBufStep DEF Next

\* IInv holds in every reachable state, for any constants.
THEOREM Invariance == Spec => []IInv
<1>1. Init => IInv
  BY InitIInv
<1>2. IInv /\ [Next]_vars => IInv'
  BY NextStep
<1>3. QED
  BY <1>1, <1>2, PTL DEF Spec

\* Every variable keeps to its type; head and tail stay in the ring.
THEOREM TypeCorrect == Spec => []TypeOK
<1>1. IInv => TypeOK
  BY DEF IInv
<1>2. QED
  BY <1>1, Invariance, PTL

\* A turn that repeats a segment repeats one that was sent before, however far
\* the tail has gone round a ring of any size (tcp_send_buf).
THEOREM RepeatsSent == Spec => []RepeatsWhatWasSent
<1>1. IInv => RepeatsWhatWasSent
  <2>1. SUFFICES ASSUME IInv, Size > 0
                 PROVE  \E k \in 1 .. Len(taken) : buffer[head] = taken[k]
    BY DEF RepeatsWhatWasSent
  <2>2. Size = tail
    BY <2>1, WantedType
  <2>3. taken # <<>>
    BY <2>1, <2>2 DEF IInv, FirstSlotIsSent
  <2>4. QED
    BY <2>1, <2>3 DEF IInv, FirstSlotIsSent
<1>2. QED
  BY <1>1, Invariance, PTL

(***************************************************************************)
(* The order of the segments.                                              *)
(***************************************************************************)

\* The places of Order.
LEMMA OrderPlaces ==
  ASSUME NEW s \in Seq(Segment), NEW r \in Seq(Segment)
  PROVE  /\ Len(s) \in Nat /\ Len(r) \in Nat /\ Len(s \o r) = Len(s) + Len(r)
         /\ \A i \in 1 .. Len(s) : (s \o r)[i] = s[i]
         /\ \A i \in Len(s) + 1 .. Len(s) + Len(r) : (s \o r)[i] = r[i - Len(s)]
         /\ \A i \in 1 .. Len(s) + Len(r) : (s \o r)[i] \in Segment
<1>1. /\ Len(s) \in Nat /\ Len(r) \in Nat
      /\ Len(s \o r) = Len(s) + Len(r) /\ s \o r \in Seq(Segment)
      /\ \A i \in 1 .. Len(s) + Len(r) :
            (s \o r)[i] = IF i <= Len(s) THEN s[i] ELSE r[i - Len(s)]
  BY ConcatProperties
<1>2. QED
  BY <1>1, ElementOfSeq

\* Segments that are queued go behind all others.
LEMMA QueuedInOrder ==
  ASSUME TypeOK, SentInOrder, NEW n \in Nat, queued + n <= Length,
         list' = list \o Following(n), queued' = queued + n, UNCHANGED <<taken, read>>
  PROVE  SentInOrder'
<1> DEFINE l == Len(Order)
<1>1. /\ taken \in Seq(Segment) /\ list \in Seq(Segment) /\ queued \in Nat
      /\ list' \in Seq(Segment)
  BY FollowingType DEF TypeOK
<1>2. /\ l \in Nat /\ Len(Order') = l + n
      /\ \A i \in 1 .. l : Order'[i] = Order[i]
      /\ \A i \in l + 1 .. l + n : Order'[i] = queued + (i - l)
  <2>1. /\ Len(taken) \in Nat /\ Len(list) \in Nat /\ l = Len(taken) + Len(list)
        /\ \A i \in 1 .. Len(taken) : Order[i] = taken[i]
        /\ \A i \in Len(taken) + 1 .. l : Order[i] = list[i - Len(taken)]
    BY <1>1, OrderPlaces DEF Order
  <2>2. /\ Len(list') = Len(list) + n
        /\ \A k \in 1 .. Len(list) : list'[k] = list[k]
        /\ \A k \in Len(list) + 1 .. Len(list) + n : list'[k] = queued + (k - Len(list))
    BY FollowingType
  <2>3. /\ Len(Order') = Len(taken) + Len(list')
        /\ \A i \in 1 .. Len(taken) : Order'[i] = taken[i]
        /\ \A i \in Len(taken) + 1 .. Len(taken) + Len(list') : Order'[i] = list'[i - Len(taken)]
    BY <1>1, OrderPlaces DEF Order
  <2>4. ASSUME NEW i \in 1 .. l
        PROVE  Order'[i] = Order[i]
    <3>1. CASE i <= Len(taken)
      BY <2>1, <2>3, <3>1
    <3>2. CASE i > Len(taken)
      <4>1. i - Len(taken) \in 1 .. Len(list)
        BY <2>1, <3>2
      <4>2. /\ i \in Len(taken) + 1 .. l
            /\ i \in Len(taken) + 1 .. Len(taken) + Len(list')
        BY <1>1, <2>1, <2>2, <3>2
      <4>3. Order'[i] = list'[i - Len(taken)] /\ Order[i] = list[i - Len(taken)]
        BY <2>1, <2>3, <4>2
      <4>4. QED
        BY <2>2, <4>1, <4>3
    <3>3. QED
      BY <2>1, <3>1, <3>2
  <2>5. ASSUME NEW i \in l + 1 .. l + n
        PROVE  Order'[i] = queued + (i - l)
    <3>1. i - Len(taken) \in Len(list) + 1 .. Len(list) + n
      BY <2>1
    <3>2. Order'[i] = list'[i - Len(taken)]
      <4>1. i \in Len(taken) + 1 .. Len(taken) + Len(list')
        BY <2>1, <2>2
      <4>2. QED
        BY <2>3, <4>1
    <3>3. list'[i - Len(taken)] = queued + (i - Len(taken) - Len(list))
      BY <2>2, <3>1
    <3>4. QED
      BY <1>1, <2>1, <3>2, <3>3
  <2>6. QED
    BY <2>1, <2>2, <2>3, <2>4, <2>5
<1>3. \A i \in 1 .. l : Order[i] \in 1 .. queued
  BY DEF SentInOrder
<1> HIDE DEF l
<1>4. ASSUME NEW i \in 1 .. Len(Order'), NEW j \in 1 .. Len(Order'), i < j
      PROVE  Order'[i] < Order'[j]
  <2>1. CASE j <= l
    BY <1>2, <1>4, <2>1 DEF SentInOrder, l
  <2>2. CASE i <= l /\ j > l
    BY <1>1, <1>2, <1>3, <1>4, <2>2
  <2>3. CASE i > l
    BY <1>1, <1>2, <1>4, <2>3
  <2>4. QED
    BY <1>2, <2>1, <2>2, <2>3
<1>5. \A i \in 1 .. Len(Order') : Order'[i] \notin read'
  <2>1. \A i \in l + 1 .. l + n : Order'[i] > queued
    BY <1>1, <1>2
  <2>2. read \subseteq 1 .. queued
    BY DEF SentInOrder
  <2>3. ASSUME NEW i \in l + 1 .. l + n, Order'[i] \in read
        PROVE  FALSE
    <3>1. Order'[i] \in 1 .. queued /\ Order'[i] > queued
      BY <2>1, <2>2, <2>3
    <3>2. QED
      BY <1>1, <3>1
  <2>4. \A i \in 1 .. l : Order'[i] \notin read
    BY <1>2 DEF SentInOrder, l
  <2>5. QED
    BY <1>2, <2>3, <2>4
<1>6. {Order'[i] : i \in 1 .. Len(Order')} \cup read' = 1 .. queued'
  <2>1. ASSUME NEW x \in 1 .. queued'
        PROVE  x \in read' \/ \E i \in 1 .. Len(Order') : Order'[i] = x
    <3>1. CASE x <= queued
      <4>1. x \in {Order[i] : i \in 1 .. l} \cup read
        <5>1. x \in 1 .. queued
          BY <1>1, <3>1
        <5>2. QED
          BY <5>1 DEF SentInOrder, l
      <4>2. QED
        BY <1>2, <4>1
    <3>2. CASE x > queued
      <4>1. l + (x - queued) \in l + 1 .. l + n /\ Order'[l + (x - queued)] = x
        BY <1>1, <1>2, <3>2
      <4>2. QED
        BY <1>2, <4>1
    <3>3. QED
      BY <1>1, <3>1, <3>2
  <2>2. \A i \in 1 .. Len(Order') : Order'[i] \in 1 .. queued'
    <3>1. \A i \in l + 1 .. l + n : Order'[i] \in 1 .. queued'
      BY <1>1, <1>2
    <3>2. \A i \in 1 .. l : Order'[i] \in 1 .. queued'
      BY <1>1, <1>2, <1>3 DEF l
    <3>3. QED
      BY <1>2, <3>1, <3>2
  <2>3. read' \subseteq 1 .. queued'
    BY <1>1 DEF SentInOrder
  <2>4. QED
    BY <2>1, <2>2, <2>3
<1>7. QED
  BY <1>4, <1>5, <1>6 DEF SentInOrder

\* What xy_recv takes leaves a gap that nothing fills.
LEMMA ReadInOrder ==
  ASSUME TypeOK, SentInOrder, NEW n \in 0 .. Len(list), list' = Rest(n),
         read' = read \cup {list[i] : i \in 1 .. n}, UNCHANGED <<taken, queued>>
  PROVE  SentInOrder'
<1> DEFINE l == Len(Order)
           before == Len(taken)
           at(i) == IF i <= before THEN i ELSE i + n
<1>1. /\ taken \in Seq(Segment) /\ list \in Seq(Segment) /\ list' \in Seq(Segment)
      /\ Len(list') = Len(list) - n
      /\ \A k \in 1 .. Len(list) - n : list'[k] = list[n + k]
  BY SplitList DEF TypeOK, Rest
<1>2. /\ before \in Nat /\ Len(list) \in Nat /\ l = before + Len(list)
      /\ \A i \in 1 .. before : Order[i] = taken[i]
      /\ \A i \in before + 1 .. l : Order[i] = list[i - before]
  BY <1>1, OrderPlaces DEF Order
<1>3. /\ Len(Order') = l - n
      /\ \A i \in 1 .. before : Order'[i] = taken[i]
      /\ \A i \in before + 1 .. l - n : Order'[i] = list'[i - before]
  <2>1. /\ Len(Order') = before + Len(list')
        /\ \A i \in 1 .. before : Order'[i] = taken[i]
        /\ \A i \in before + 1 .. before + Len(list') : Order'[i] = list'[i - before]
    BY <1>1, OrderPlaces DEF Order
  <2>2. before + Len(list') = l - n
    BY <1>1, <1>2
  <2>3. QED
    BY <2>1, <2>2
<1>4. ASSUME NEW i \in 1 .. l - n
      PROVE  at(i) \in 1 .. l /\ Order'[i] = Order[at(i)]
  <2>1. CASE i <= before
    BY <1>2, <1>3, <2>1
  <2>2. CASE i > before
    <3>1. /\ i \in before + 1 .. l - n /\ i + n \in before + 1 .. l
          /\ i - before \in 1 .. Len(list) - n /\ i + n \in 1 .. l
      BY <1>2, <2>2
    <3>2. Order'[i] = list[n + (i - before)]
      BY <1>1, <1>3, <3>1
    <3>3. Order[i + n] = list[(i + n) - before]
      <4>1. \A j \in before + 1 .. l : Order[j] = list[j - before]
        BY <1>2
      <4>2. QED
        BY <3>1, <4>1
    <3>4. n + (i - before) = i + n - before /\ at(i) = i + n
      BY <1>2, <2>2
    <3>5. QED
      BY <3>1, <3>2, <3>3, <3>4
  <2>3. QED
    BY <1>2, <2>1, <2>2
<1>5. ASSUME NEW k \in 1 .. n
      PROVE  before + k \in 1 .. l /\ list[k] = Order[before + k]
  <2>1. before + k \in before + 1 .. l /\ before + k \in 1 .. l /\ (before + k) - before = k
    BY <1>2
  <2>2. QED
    BY <1>2, <2>1
<1>6. ASSUME NEW i \in 1 .. l, NEW j \in 1 .. l, i # j
      PROVE  Order[i] # Order[j]
  <2>1. i < j \/ j < i
    BY <1>6
  <2>2. \A k \in 1 .. l : Order[k] \in Nat
    BY <1>1, OrderPlaces DEF Order, Segment
  <2>3. QED
    BY <2>1, <2>2 DEF SentInOrder
<1>7. l \in Nat /\ n \in Nat
  BY <1>2
<1> HIDE DEF l, before
<1>8. ASSUME NEW i \in 1 .. l - n, NEW j \in 1 .. l - n, i < j
      PROVE  Order'[i] < Order'[j]
  <2>1. at(i) < at(j)
    BY <1>2, <1>7, <1>8
  <2>2. Order[at(i)] < Order[at(j)]
    BY <1>4, <2>1 DEF SentInOrder, l
  <2>3. QED
    BY <1>4, <2>2
<1>9. ASSUME NEW i \in 1 .. l - n
      PROVE  Order'[i] \notin read'
  <2>1. Order[at(i)] \notin read
    BY <1>4 DEF SentInOrder, l
  <2>2. ASSUME NEW k \in 1 .. n
        PROVE  Order[at(i)] # list[k]
    <3>1. at(i) # before + k
      BY <1>2, <1>7
    <3>2. QED
      BY <1>4, <1>5, <1>6, <3>1
  <2>3. QED
    BY <1>4, <2>1, <2>2
<1>10. {Order'[i] : i \in 1 .. l - n} \cup read' = 1 .. queued
  <2>1. ASSUME NEW x \in 1 .. queued, x \notin read'
        PROVE  \E i \in 1 .. l - n : Order'[i] = x
    <3>1. x \in {Order[i] : i \in 1 .. l} \cup read
      BY DEF SentInOrder, l
    <3>2. PICK j \in 1 .. l : Order[j] = x
      BY <2>1, <3>1
    <3>3. CASE j <= before
      <4>1. j \in 1 .. l - n /\ at(j) = j
        BY <1>2, <1>7, <3>3
      <4>2. QED
        BY <1>4, <3>2, <4>1
    <3>4. CASE j > before /\ j <= before + n
      <4>1. j - before \in 1 .. n /\ before + (j - before) = j
        BY <1>2, <1>7, <3>4
      <4>2. list[j - before] = x
        BY <1>5, <3>2, <4>1
      <4>3. QED
        BY <2>1, <4>1, <4>2
    <3>5. CASE j > before + n
      <4>1. j - n \in 1 .. l - n /\ at(j - n) = j
        BY <1>2, <1>7, <3>5
      <4>2. QED
        BY <1>4, <3>2, <4>1
    <3>6. QED
      BY <1>2, <1>7, <3>3, <3>4, <3>5
  <2>2. \A i \in 1 .. l : Order[i] \in 1 .. queued
    BY DEF SentInOrder, l
  <2>3. \A i \in 1 .. l - n : Order'[i] \in 1 .. queued
    BY <1>4, <2>2
  <2>4. read' \subseteq 1 .. queued
    <3>1. read \subseteq 1 .. queued
      BY DEF SentInOrder
    <3>2. \A k \in 1 .. n : list[k] \in 1 .. queued
      BY <1>5, <2>2
    <3>3. QED
      BY <3>1, <3>2
  <2>5. QED
    BY <2>1, <2>3, <2>4
<1>11. Len(Order') = l - n /\ queued' = queued
  BY <1>3 DEF l
<1>12. QED
  BY <1>8, <1>9, <1>10, <1>11 DEF SentInOrder

\* A turn moves the boundary between what has been sent and what waits.
LEMMA TurnInOrder ==
  ASSUME IInv, SentInOrder, SendBuf
  PROVE  SentInOrder'
<1> DEFINE w == Wanted
           new == SubSeq(list, 1, w)
<1>1. /\ taken \in Seq(Segment) /\ list \in Seq(Segment) /\ w \in 0 .. Len(list)
      /\ taken' = taken \o new /\ list' = SubSeq(list, w + 1, Len(list))
      /\ read' = read /\ queued' = queued
  BY WantedType DEF SendBuf, IInv, TypeOK, Rest
<1> HIDE DEF w
<1>2. /\ new \in Seq(Segment) /\ Len(new) = w /\ \A k \in 1 .. w : new[k] = list[k]
      /\ list' \in Seq(Segment) /\ Len(list') = Len(list) - w
      /\ \A k \in 1 .. Len(list) - w : list'[k] = list[w + k]
  BY <1>1, SplitList
<1> HIDE DEF new
<1>3. /\ Len(taken) \in Nat /\ Len(taken') = Len(taken) + w /\ taken' \in Seq(Segment)
      /\ \A i \in 1 .. Len(taken) : taken'[i] = taken[i]
      /\ \A i \in Len(taken) + 1 .. Len(taken) + w : taken'[i] = new[i - Len(taken)]
  BY <1>1, <1>2, OrderPlaces, ConcatProperties
<1>4. /\ Len(list) \in Nat /\ Len(Order) = Len(taken) + Len(list)
      /\ \A i \in 1 .. Len(taken) : Order[i] = taken[i]
      /\ \A i \in Len(taken) + 1 .. Len(taken) + Len(list) : Order[i] = list[i - Len(taken)]
  BY <1>1, OrderPlaces DEF Order
<1>5. /\ Len(Order') = Len(taken') + Len(list')
      /\ \A i \in 1 .. Len(taken') : Order'[i] = taken'[i]
      /\ \A i \in Len(taken') + 1 .. Len(taken') + Len(list') : Order'[i] = list'[i - Len(taken')]
  BY <1>2, <1>3, OrderPlaces DEF Order
<1>6. Len(Order') = Len(Order)
  BY <1>1, <1>2, <1>3, <1>4, <1>5
<1>7. ASSUME NEW i \in 1 .. Len(Order)
      PROVE  Order'[i] = Order[i]
  <2>1. CASE i <= Len(taken)
    <3>1. i \in 1 .. Len(taken) /\ i \in 1 .. Len(taken')
      BY <1>1, <1>3, <1>4, <2>1
    <3>2. QED
      BY <1>3, <1>4, <1>5, <3>1
  <2>2. CASE i > Len(taken) /\ i <= Len(taken) + w
    <3>1. /\ i \in Len(taken) + 1 .. Len(taken) + w /\ i \in 1 .. Len(taken')
          /\ i \in Len(taken) + 1 .. Len(taken) + Len(list)
          /\ i - Len(taken) \in 1 .. w
      BY <1>1, <1>3, <1>4, <2>2
    <3>2. Order'[i] = new[i - Len(taken)] /\ Order[i] = list[i - Len(taken)]
      BY <1>3, <1>4, <1>5, <3>1
    <3>3. QED
      BY <1>2, <3>1, <3>2
  <2>3. CASE i > Len(taken) + w
    <3>1. /\ i \in Len(taken') + 1 .. Len(taken') + Len(list')
          /\ i \in Len(taken) + 1 .. Len(taken) + Len(list)
          /\ i - Len(taken') \in 1 .. Len(list) - w
          /\ w + (i - Len(taken')) = i - Len(taken)
      <4>1. /\ Len(taken') = Len(taken) + w /\ Len(list') = Len(list) - w
            /\ Len(taken) \in Nat /\ Len(list) \in Nat /\ w \in Nat /\ w <= Len(list)
            /\ i \in Nat /\ i <= Len(taken) + Len(list) /\ i > Len(taken) + w
        BY <1>1, <1>2, <1>3, <1>4, <2>3
      <4>2. /\ Len(taken) + w + 1 <= i /\ i <= (Len(taken) + w) + (Len(list) - w)
            /\ i - (Len(taken) + w) >= 1 /\ i - (Len(taken) + w) <= Len(list) - w
            /\ w + (i - (Len(taken) + w)) = i - Len(taken)
        BY <4>1
      <4>3. QED
        BY <4>1, <4>2
    <3>2. Order'[i] = list'[i - Len(taken')] /\ Order[i] = list[i - Len(taken)]
      BY <1>4, <1>5, <3>1
    <3>3. list'[i - Len(taken')] = list[w + (i - Len(taken'))]
      BY <1>2, <3>1
    <3>4. QED
      BY <3>1, <3>2, <3>3
  <2>4. QED
    BY <1>1, <1>3, <1>4, <2>1, <2>2, <2>3
<1>8. QED
  BY <1>1, <1>6, <1>7 DEF SentInOrder

LEMMA OrderStep ==
  ASSUME IInv, SentInOrder, [Next]_vars
  PROVE  SentInOrder'
<1>1. TypeOK
  BY DEF IInv
<1>2. CASE UNCHANGED <<taken, list, read, queued>>
  <2>1. Order' = Order
    BY <1>2 DEF Order
  <2>2. QED
    BY <1>2, <2>1 DEF SentInOrder
<1>3. ASSUME NEW n \in Segment, Send(n)
      PROVE  SentInOrder'
  <2>1. n \in Nat /\ queued + n <= Length /\ list' = list \o Following(n)
    BY <1>3 DEF Send, Segment
  <2>2. queued' = queued + n /\ UNCHANGED <<taken, read>>
    BY <1>3 DEF Send
  <2>3. QED
    BY <1>1, <2>1, <2>2, QueuedInOrder
<1>4. ASSUME NEW n \in Segment, Recv(n)
      PROVE  SentInOrder'
  <2>1. n \in 0 .. Len(list) /\ list' = Rest(n)
    BY <1>1, <1>4 DEF Recv, Segment, TypeOK
  <2>2. read' = read \cup {list[i] : i \in 1 .. n} /\ UNCHANGED <<taken, queued>>
    BY <1>4 DEF Recv
  <2>3. QED
    BY <1>1, <2>1, <2>2, ReadInOrder
<1>5. CASE Close
  <2>1. queued + 1 <= Length
    BY <1>1, <1>5, SndAssumption DEF Close, TypeOK
  <2>2. list' = list \o Following(1) /\ queued' = queued + 1 /\ UNCHANGED <<taken, read>>
    BY <1>5 DEF Close
  <2>3. QED
    BY <1>1, <2>1, <2>2, QueuedInOrder
<1>6. CASE SendBuf
  BY <1>6, TurnInOrder
<1>7. QED
  BY <1>2, <1>3, <1>4, <1>5, <1>6
  DEF Next, Ack, RecvFin, GoOn, vars, callVars

\* The segments of the calls are sent for the first time in the order of the
\* calls and each once; the ones that xy_recv takes from the list are the only
\* ones that get lost (xy_syn_send, xy_syn_recv, tcp_send_buf).
THEOREM SegmentsAreSentInOrder == Spec => []SentInOrder
<1>1. Init => SentInOrder
  <2>1. SUFFICES ASSUME Init
                 PROVE  SentInOrder
    OBVIOUS
  <2>2. taken = <<>> /\ list = <<>> /\ read = {} /\ queued = 0
    BY <2>1 DEF Init
  <2>3. Order = <<>> /\ Len(Order) = 0
    BY <2>2, ConcatEmptySeq, EmptySeq DEF Order
  <2>4. 1 .. Len(Order) = {} /\ 1 .. queued = {}
    BY <2>2, <2>3
  <2>5. QED
    BY <2>2, <2>4 DEF SentInOrder
<1>2. IInv /\ SentInOrder /\ [Next]_vars => SentInOrder'
  BY OrderStep
<1>3. QED
  BY <1>1, <1>2, Invariance, PTL DEF Spec

(***************************************************************************)
(* The ring.                                                               *)
(***************************************************************************)

\* A remainder does not see whole turns.
LEMMA WholeTurns ==
  ASSUME NEW m \in Nat \ {0}, NEW x \in 0 .. m - 1, NEW k \in Int
  PROVE  (x + m * k) % m = x
<1> DEFINE q == (x + m * k) \div m
           r == (x + m * k) % m
<1>1. r \in 0 .. m - 1 /\ q \in Int
  OBVIOUS
<1>2. x + m * k = m * q + r
  OBVIOUS
<1>3. m * (k - q) = r - x
  BY <1>1, <1>2
<1>4. r - x < m /\ r - x > 0 - m
  BY <1>1
<1>5. CASE k - q >= 1
  <2>1. m * (k - q) >= m
    BY <1>1, <1>5
  <2>2. QED
    BY <1>1, <1>3, <1>4, <2>1
<1>6. CASE k - q <= -1
  <2>1. m * (k - q) <= 0 - m
    BY <1>1, <1>6
  <2>2. QED
    BY <1>1, <1>3, <1>4, <2>1
<1>7. CASE k - q = 0
  <2>1. m * (k - q) = 0
    BY <1>7
  <2>2. QED
    BY <1>1, <1>3, <2>1
<1>8. QED
  BY <1>1, <1>5, <1>6, <1>7

LEMMA Remainder ==
  ASSUME NEW a \in Nat, NEW m \in Nat \ {0}
  PROVE  a % m \in 0 .. m - 1 /\ \E q \in Int : a = m * q + (a % m)
<1>1. a \div m \in Int /\ a = m * (a \div m) + (a % m) /\ a % m \in 0 .. m - 1
  OBVIOUS
<1>2. QED
  BY <1>1

\* The tail is the number of segments that were added, modulo the ring.
LEMMA TailMoves ==
  ASSUME NEW sent \in Nat, NEW w \in Nat, tail = sent % RingSize
  PROVE  TailAfter(w) = (sent + w) % RingSize
<1>1. RingSize \in Nat \ {0} /\ tail \in 0 .. RingSize - 1
  BY SndAssumption, Remainder
<1>2. PICK q1 \in Int : sent = RingSize * q1 + tail
  BY <1>1, Remainder
<1>3. tail + w \in Nat
  BY <1>1
<1> DEFINE r == (tail + w) % RingSize
<1>4. r \in 0 .. RingSize - 1
  BY <1>1, <1>3, Remainder
<1>5. PICK q2 \in Int : tail + w = RingSize * q2 + r
  BY <1>1, <1>3, Remainder
<1> HIDE DEF r
<1>6. sent + w = r + RingSize * (q1 + q2)
  BY <1>1, <1>2, <1>4, <1>5
<1>7. (r + RingSize * (q1 + q2)) % RingSize = r
  BY <1>1, <1>4, WholeTurns
<1>8. QED
  BY <1>6, <1>7 DEF TailAfter, r

\* How many segments ago the slot of the k-th segment was written.
LEMMA SlotAge ==
  ASSUME NEW sent \in Nat, NEW w \in Nat, tail = sent % RingSize,
         NEW k \in 1 .. sent + w, k + RingSize > sent + w
  PROVE  (tail + w + RingSize - 1 - ((k - 1) % RingSize)) % RingSize = sent + w - k
<1> DEFINE i == (k - 1) % RingSize
<1>1. RingSize \in Nat \ {0} /\ tail \in 0 .. RingSize - 1 /\ k - 1 \in Nat
  BY SndAssumption, Remainder
<1>2. PICK q1 \in Int : sent = RingSize * q1 + tail
  BY <1>1, Remainder
<1>3. i \in 0 .. RingSize - 1
  BY <1>1, Remainder
<1>4. PICK q2 \in Int : k - 1 = RingSize * q2 + i
  BY <1>1, Remainder
<1> HIDE DEF i
<1>5. tail + w + RingSize - 1 - i = (sent + w - k) + RingSize * (1 + q2 - q1)
  <2>1. RingSize * (1 + q2 - q1) = RingSize + RingSize * q2 - RingSize * q1
    BY <1>1
  <2>2. QED
    BY <1>1, <1>2, <1>3, <1>4, <2>1
<1>6. sent + w - k \in 0 .. RingSize - 1 /\ 1 + q2 - q1 \in Int
  BY <1>1
<1>7. ((sent + w - k) + RingSize * (1 + q2 - q1)) % RingSize = sent + w - k
  BY <1>1, <1>6, WholeTurns
<1>8. QED
  BY <1>5, <1>7 DEF i

LEMMA TurnKeepsLatest ==
  ASSUME IInv, RingHoldsLatest, SendBuf
  PROVE  RingHoldsLatest'
<1> DEFINE w == Wanted
           new == SubSeq(list, 1, w)
           sent == Len(taken)
<1>1. /\ taken \in Seq(Segment) /\ list \in Seq(Segment) /\ w \in 0 .. Len(list) /\ w \in Nat
      /\ taken' = taken \o new /\ buffer' = Added(new) /\ tail' = TailAfter(w)
      /\ sent \in Nat /\ tail = sent % RingSize
  BY WantedType DEF SendBuf, IInv, TypeOK, RingHoldsLatest
<1> HIDE DEF w
<1>2. new \in Seq(Segment) /\ Len(new) = w
  BY <1>1, SplitList
<1> HIDE DEF new
<1>3. /\ Len(taken') = sent + w
      /\ \A i \in 1 .. sent : taken'[i] = taken[i]
      /\ \A i \in sent + 1 .. sent + w : taken'[i] = new[i - sent]
  BY <1>1, <1>2, OrderPlaces
<1> HIDE DEF sent
<1>4. tail' = Len(taken') % RingSize
  BY <1>1, <1>3, TailMoves
<1>5. ASSUME NEW k \in 1 .. sent + w, k + RingSize > sent + w
      PROVE  buffer'[(k - 1) % RingSize] = taken'[k]
  <2> DEFINE slot == (k - 1) % RingSize
             ago == (tail + w + RingSize - 1 - slot) % RingSize
  <2>1. slot \in Ring
    <3>1. k - 1 \in Nat /\ RingSize \in Nat \ {0}
      BY <1>1, SndAssumption
    <3>2. QED
      BY <3>1, Remainder DEF Ring
  <2>2. ago = sent + w - k
    BY <1>1, <1>5, SlotAge
  <2>3. buffer'[slot] = IF ago < w THEN new[w - ago] ELSE buffer[slot]
    BY <1>1, <1>2, <2>1 DEF Added
  <2>4. CASE k > sent
    <3>1. ago < w /\ w - ago = k - sent /\ k \in sent + 1 .. sent + w
      BY <1>1, <2>2, <2>4
    <3>2. QED
      BY <1>3, <2>3, <3>1
  <2>5. CASE k <= sent
    <3>1. ~(ago < w) /\ k \in 1 .. sent /\ k + RingSize > sent
      BY <1>1, <1>5, <2>2, <2>5, SndAssumption
    <3>2. buffer[slot] = taken[k]
      BY <3>1 DEF RingHoldsLatest, sent
    <3>3. QED
      BY <1>3, <2>3, <3>1, <3>2
  <2>6. k > sent \/ k <= sent
    BY <1>1
  <2>7. QED
    BY <2>4, <2>5, <2>6
<1>6. QED
  BY <1>3, <1>4, <1>5 DEF RingHoldsLatest

\* The ring remembers the last segments that were sent for the first time, as
\* many as it has slots and each in its place, for a ring of any size
\* (xy_tcp_snd_wnd_add).
THEOREM RingRemembersLatest == Spec => []RingHoldsLatest
<1>1. Init => RingHoldsLatest
  BY SndAssumption DEF Init, RingHoldsLatest
<1>2. IInv /\ RingHoldsLatest /\ [Next]_vars => RingHoldsLatest'
  <2>1. SUFFICES ASSUME IInv, RingHoldsLatest, [Next]_vars
                 PROVE  RingHoldsLatest'
    OBVIOUS
  <2>2. CASE UNCHANGED <<taken, tail, buffer>>
    BY <2>1, <2>2 DEF RingHoldsLatest
  <2>3. CASE SendBuf
    BY <2>1, <2>3, TurnKeepsLatest
  <2>4. QED
    BY <2>1, <2>2, <2>3
    DEF Next, Ack, Send, Recv, Close, RecvFin, GoOn, vars, ringVars
<1>3. QED
  BY <1>1, <1>2, Invariance, PTL DEF Spec

=============================================================================
