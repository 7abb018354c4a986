----------------------------- MODULE SndWindow -----------------------------
(***************************************************************************)
(* The send side of one connection: the list of segments that wait         *)
(* (snd_buf_list), the ring of xy_tcp_wnd.h that keeps what was sent, the  *)
(* turns of tcp_send_buf and what an acknowledgment does to the window     *)
(* (tcp_ack_window_update), from the moment the connection is ESTABLISHED. *)
(*                                                                         *)
(* The main loop takes the segments that have arrived, then the calls of   *)
(* the applications, then gives every ESTABLISHED connection a turn.       *)
(* Segments are numbered in the order in which they are queued.  The text  *)
(* of a segment and the bytes a call asks for are left out.  An            *)
(* acknowledgment has any numbers and offers one of the Windows: it may be *)
(* late, repeated or forged.  snd_buf_list is taken to be initialized.  A  *)
(* turn that finds the list too short for the window takes NULL from it    *)
(* and reads through it: the behaviour ends before.                        *)
(***************************************************************************)
EXTENDS TcpInput, Sequences

CONSTANTS
    Iss,       \* iss, the number of the SYN of this side
    RingSize,  \* XY_SND_WND_SIZE
    Windows,   \* the windows the peer offers
    Length,    \* bound: segments that are queued
    None       \* NULL

ASSUME SndAssumption ==
    /\ Iss \in SeqNum
    /\ RingSize \in Nat \ {0}
    /\ Windows \subseteq Nat
    /\ Length \in Nat
    /\ None \notin Nat

VARIABLES
    phase,    \* the main loop: "receive", "calls", "send"
    open,     \* the state is ESTABLISHED
    queued,   \* how many segments have been queued
    list,     \* snd_buf_list
    read,     \* segments that xy_recv has taken from snd_buf_list
    taken,    \* segments that have been sent for the first time, in that order
    number,   \* segment -> the number under which it was sent last
    head,     \* head_
    tail,     \* tail_
    buffer,   \* slot -> segment or None
    snd_una, snd_nxt, snd_wnd, snd_wl1, snd_wl2

callVars == <<queued, list, read>>
ringVars == <<head, tail, buffer>>
ackVars == <<snd_una, snd_wnd, snd_wl1, snd_wl2>>
vars == <<phase, open, callVars, taken, number, ringVars, snd_nxt, ackVars>>

Ring == 0 .. RingSize - 1
Segment == 1 .. Length

\* The window of the SYN, and the acknowledgment of this side's SYN.
Init ==
    /\ phase = "receive"
    /\ open = TRUE
    /\ queued = 0
    /\ list = <<>>
    /\ read = {}
    /\ taken = <<>>
    /\ number = [g \in Segment |-> None]
    /\ head = 0
    /\ tail = 0
    /\ buffer = [i \in Ring |-> None]
    /\ snd_una = Iss
    /\ snd_nxt = Plus(Iss, 1)
    /\ snd_wnd \in Windows
    /\ snd_wl1 = 0
    /\ snd_wl2 = 0

-----------------------------------------------------------------------------
(***************************************************************************)
(* An acknowledgment.                                                      *)
(***************************************************************************)

\* SND.UNA < SEG.ACK =< SND.NXT.
Advances(ack) == snd_una < ack /\ ack <= snd_nxt

\* snd_una has the new value when the difference is computed.
Erased(ack) == ack - snd_una'

\* xy_tcp_snd_wnd_erase.
Erase(n) == head' = IF head + n < RingSize THEN head + n ELSE head + n - RingSize

\* "snd_wl1 = seq && snd_wl2 <= ack" assigns to snd_wl1 whether seq is not 0 and
\* snd_wl2 <= ack, and that is its value.
TakesWindow(ack, seq) == snd_wl1 < seq \/ (seq # 0 /\ snd_wl2 <= ack)

\* tcp_ack_window_update, called in every state that the connection reaches
\* before it is closed.
Ack(ack, seq, win) ==
    /\ phase = "receive"
    /\ Advances(ack)
    /\ snd_una' = ack
    /\ Erase(Erased(ack))
    /\ IF TakesWindow(ack, seq)
       THEN snd_wnd' = win /\ snd_wl1' = seq /\ snd_wl2' = ack
       ELSE snd_wl1' = 0 /\ UNCHANGED <<snd_wnd, snd_wl2>>
    /\ UNCHANGED <<phase, open, callVars, taken, number, tail, buffer, snd_nxt>>

\* A FIN of the peer: CLOSE_WAIT, which gets no more turns either.
RecvFin ==
    /\ phase = "receive"
    /\ open
    /\ open' = FALSE
    /\ UNCHANGED <<phase, callVars, taken, number, ringVars, snd_nxt, ackVars>>

-----------------------------------------------------------------------------
(***************************************************************************)
(* The calls of the applications.                                          *)
(***************************************************************************)

Following(n) == [i \in 1 .. n |-> queued + i]

\* xy_syn_send cuts the text into n segments.
Send(n) ==
    /\ phase = "calls"
    /\ open
    /\ queued + n <= Length
    /\ queued' = queued + n
    /\ list' = list \o Following(n)
    /\ UNCHANGED <<phase, open, read, taken, number, ringVars, snd_nxt, ackVars>>

\* Faulty variant: one segment too many is taken.
RestDropsOne(n) == SubSeq(list, n + 2, Len(list))

\* xy_mbuf_list_take_head, n times.
Rest(n) == SubSeq(list, n + 1, Len(list))

\* xy_syn_recv takes as many segments as its caller asks for from the head of
\* snd_buf_list.
Recv(n) ==
    /\ phase = "calls"
    /\ open
    /\ n <= Len(list)
    /\ list' = Rest(n)
    /\ read' = read \cup {list[i] : i \in 1 .. n}
    /\ UNCHANGED <<phase, open, queued, taken, number, ringVars, snd_nxt, ackVars>>

\* xy_syn_close queues a FIN; the connection gets no more turns.
Close ==
    /\ phase = "calls"
    /\ open
    /\ queued < Length
    /\ open' = FALSE
    /\ queued' = queued + 1
    /\ list' = list \o Following(1)
    /\ UNCHANGED <<phase, read, taken, number, ringVars, snd_nxt, ackVars>>

-----------------------------------------------------------------------------
(***************************************************************************)
(* tcp_send_buf.                                                           *)
(***************************************************************************)

\* Faulty variant: an empty ring reads as a full one.
SizeOfEmptyIsFull == IF head >= tail THEN RingSize + tail - head ELSE tail - head

\* xy_tcp_snd_wnd_size
Size == IF head > tail THEN RingSize + tail - head ELSE tail - head

Wanted == IF Size < snd_wnd THEN snd_wnd - Size ELSE 0

\* xy_tcp_snd_wnd_add for each segment of s, going round the ring: slot i keeps
\* what was written to it last, so many segments before the end of s.
Added(s) ==
    [i \in Ring |->
        LET ago == (tail + Len(s) + RingSize - 1 - i) % RingSize
        IN  IF ago < Len(s) THEN s[Len(s) - ago] ELSE buffer[i]]

\* Faulty variant: tail_ is not tested against the size of the ring.
TailUnwrapped(n) == tail + n

TailAfter(n) == (tail + n) % RingSize

\* What tcp_send_one_buf is called with, in order: the head of the ring, and
\* the first n segments of the list.
Output(n) == (IF Size > 0 THEN <<buffer[head]>> ELSE <<>>) \o SubSeq(list, 1, n)

\* Faulty variant: the segments of a turn are added to the ring when they are
\* all sent, and only the last one is.
SendBufKeepsLast ==
    /\ phase = "send"
    /\ open
    /\ Wanted <= Len(list)
    /\ list' = Rest(Wanted)
    /\ taken' = taken \o SubSeq(list, 1, Wanted)
    /\ buffer' = Added(IF Wanted = 0 THEN <<>> ELSE <<list[Wanted]>>)
    /\ tail' = TailAfter(Wanted)
    /\ snd_nxt' = Plus(snd_nxt, Len(Output(Wanted)))
    /\ number' = [g \in Segment |->
          IF \E i \in 1 .. Len(Output(Wanted)) : Output(Wanted)[i] = g
          THEN Plus(snd_nxt, (CHOOSE i \in 1 .. Len(Output(Wanted)) : Output(Wanted)[i] = g) - 1)
          ELSE number[g]]
    /\ phase' = "receive"
    /\ UNCHANGED <<open, queued, read, head, ackVars>>

SendBuf ==
    /\ phase = "send"
    /\ open
    /\ Wanted <= Len(list)
    /\ list' = Rest(Wanted)
    /\ taken' = taken \o SubSeq(list, 1, Wanted)
    /\ buffer' = Added(SubSeq(list, 1, Wanted))
    /\ tail' = TailAfter(Wanted)
    /\ snd_nxt' = Plus(snd_nxt, Len(Output(Wanted)))
    /\ number' = [g \in Segment |->
          IF \E i \in 1 .. Len(Output(Wanted)) : Output(Wanted)[i] = g
          THEN Plus(snd_nxt, (CHOOSE i \in 1 .. Len(Output(Wanted)) : Output(Wanted)[i] = g) - 1)
          ELSE number[g]]
    /\ phase' = "receive"
    /\ UNCHANGED <<open, queued, read, head, ackVars>>

\* The main loop goes on to the calls, and to the turns; a connection that is
\* not ESTABLISHED has none.
GoOn ==
    /\ \/ phase = "receive" /\ phase' = "calls"
       \/ phase = "calls" /\ phase' = "send"
       \/ phase = "send" /\ ~open /\ phase' = "receive"
    /\ UNCHANGED <<open, callVars, taken, number, ringVars, snd_nxt, ackVars>>

Next ==
    \/ \E ack, seq \in SeqNum, win \in Windows : Ack(ack, seq, win)
    \/ \E n \in Segment : Send(n) \/ Recv(n)
    \/ RecvFin
    \/ Close
    \/ SendBuf
    \/ GoOn

Spec == Init /\ [][Next]_vars

-----------------------------------------------------------------------------
(***************************************************************************)
(* Properties.                                                             *)
(***************************************************************************)

\* Type invariant.
TypeOK ==
    /\ phase \in {"receive", "calls", "send"}
    /\ open \in BOOLEAN
    /\ queued \in 0 .. Length
    /\ list \in Seq(Segment)
    /\ read \subseteq Segment
    /\ taken \in Seq(Segment)
    /\ number \in [Segment -> SeqNum \cup {None}]
    /\ head \in Ring
    /\ tail \in Ring
    /\ buffer \in [Ring -> Segment \cup {None}]
    /\ {snd_una, snd_nxt, snd_wl1, snd_wl2} \subseteq SeqNum
    /\ snd_wnd \in Windows

\* The ring remembers the last RingSize segments that were sent for the first
\* time, each in the slot where its turn came: what it has forgotten is what
\* was overwritten, never a later one.
RingHoldsLatest ==
    /\ tail = Len(taken) % RingSize
    /\ \A k \in 1 .. Len(taken) :
          k + RingSize > Len(taken) => buffer[(k - 1) % RingSize] = taken[k]

\* The segment that a turn repeats is one that was sent before, whatever has
\* been acknowledged and however often the ring has gone round.
RepeatsWhatWasSent == Size > 0 => \E k \in 1 .. Len(taken) : buffer[head] = taken[k]

\* What has been sent for the first time, and then what waits.
Order == taken \o list

\* The segments of the calls are sent in the order of the calls and each is
\* sent for the first time once; what is not sent yet waits in that order,
\* behind all that was sent, or was taken away by xy_recv.
SentInOrder ==
    /\ \A i, j \in 1 .. Len(Order) : i < j => Order[i] < Order[j]
    /\ {Order[i] : i \in 1 .. Len(Order)} \cup read = 1 .. queued
    /\ \A i \in 1 .. Len(Order) : Order[i] \notin read

\* "Any segments on the retransmission queue which are thereby entirely
\* acknowledged are removed": a turn repeats no segment whose last number is
\* acknowledged.
AcknowledgedIsRemoved ==
    phase = "send" /\ Size > 0 /\ number[buffer[head]] # None
        => number[buffer[head]] >= snd_una

-----------------------------------------------------------------------------
(***************************************************************************)
(* The inductive invariant behind RepeatsWhatWasSent.                      *)
(***************************************************************************)

\* No acknowledgment erases anything, so the slot that turns repeat is the
\* first one, and it is filled by the first segment that is sent.
FirstSlotIsSent ==
    /\ head = 0
    /\ taken = <<>> => tail = 0
    /\ taken # <<>> => \E k \in 1 .. Len(taken) : buffer[0] = taken[k]

IInv ==
    /\ TypeOK
    /\ FirstSlotIsSent

=============================================================================
