----------------------------- MODULE RcvWindow -----------------------------
(***************************************************************************)
(* The receive window of one connection: the ring of xy_tcp_wnd.h, its use *)
(* by tcp_recv_window_update and the FIN of state_tcp_otherwise, from the  *)
(* moment the connection is ESTABLISHED until its state is CLOSE_WAIT.     *)
(*                                                                         *)
(* The peer numbers its segments one by one, as tcp_send_one_buf does, and *)
(* puts the numbers in network order into the header (tcp_ready).  The     *)
(* receiver takes them out as they are: Number(n) is what it reads for the *)
(* n-th segment, which on a little-endian host is another number.          *)
(* The network loses, repeats and reorders segments: any segment that has  *)
(* been sent may arrive, unless it is older than Lag.  An acknowledgment   *)
(* without text carries the number of the next segment, and goes into the  *)
(* window like one.  rcv_buf_list is taken to be initialized, and the      *)
(* event callback to return.                                               *)
(***************************************************************************)
EXTENDS TcpInput, Sequences

CONSTANTS
    Irs,      \* the number of the peer's SYN
    Wires,    \* what hosts read for each number: the number itself if the host
              \* is big-endian, its bytes in reverse if it is little-endian
    Length,   \* bound: segments with text the peer sends
    Ahead,    \* bound: how far the peer runs ahead of what was handed over
    Lag,      \* bound: how late a segment may arrive
    None      \* NULL

Kinds == {"text", "ack", "fin"}

Segment == [n : 0 .. Length + 1, kind : Kinds]

\* The numbers are not ambiguous among the segments that may be under way.
ASSUME WindowAssumption ==
    /\ Irs \in SeqNum
    /\ Wires \subseteq [SeqNum -> SeqNum]
    /\ {Length, Ahead, Lag} \subseteq Nat
    /\ Ahead + 1 < SeqMod
    /\ Lag + RcvWnd < SeqMod
    /\ None \notin Segment

VARIABLES
    wire,     \* number in network order -> number the host reads
    bare,     \* acknowledgments without text arrive
    sent,     \* the peer: how many segments with text it has sent
    fin,      \* the peer: it has sent its FIN
    open,     \* the state is ESTABLISHED
    rcv_nxt,
    head,     \* head_
    buffer,   \* slot -> segment or None
    list      \* rcv_buf_list

peerVars == <<wire, bare, sent, fin>>
vars == <<wire, bare, sent, fin, open, rcv_nxt, head, buffer, list>>

Ring == 0 .. RcvWnd - 1

\* What the host reads for the number of the n-th segment.
Number(n) == wire[Plus(Irs, 1 + n)]

\* The segments of the peer that may arrive now.
Arriving ==
    {g \in Segment :
        /\ g.n + Lag >= Len(list)
        /\ \/ g.kind = "text" /\ g.n < sent
           \/ g.kind = "ack" /\ bare /\ g.n <= (IF fin THEN sent + 1 ELSE sent)
           \/ g.kind = "fin" /\ fin /\ g.n = sent}

Init ==
    /\ wire \in Wires
    /\ bare \in BOOLEAN
    /\ sent = 0
    /\ fin = FALSE
    /\ open = TRUE
    /\ rcv_nxt = Plus(wire[Irs], 1)
    /\ head = 0
    /\ buffer = [i \in Ring |-> None]
    /\ list = <<>>

-----------------------------------------------------------------------------

\* The peer sends the next segment with text.
Send ==
    /\ ~fin
    /\ sent < Length
    /\ sent < Len(list) + Ahead
    /\ sent' = sent + 1
    /\ UNCHANGED <<wire, bare, fin, open, rcv_nxt, head, buffer, list>>

SendFin ==
    /\ ~fin
    /\ fin' = TRUE
    /\ UNCHANGED <<wire, bare, sent, open, rcv_nxt, head, buffer, list>>

\* seq - head_seq, unsigned.
Offset(seq) == (seq + SeqMod - rcv_nxt) % SeqMod

\* Faulty variant: the offset is not tested.
PutAnywhere(g) == [buffer EXCEPT ![(head + Offset(Number(g.n))) % RcvWnd] = g]

\* xy_tcp_rcv_wnd_try_put: the offset RcvWnd is let in, and it is the slot of
\* the head.
Put(g) ==
    IF Offset(Number(g.n)) > RcvWnd
    THEN buffer
    ELSE [buffer EXCEPT ![(head + Offset(Number(g.n))) % RcvWnd] = g]

\* xy_tcp_rcv_wnd_collect: how many segments it takes, going round the ring
\* from the head.
Count(b) ==
    CHOOSE k \in 0 .. RcvWnd :
        /\ \A i \in 0 .. k - 1 : b[(head + i) % RcvWnd] # None
        /\ k < RcvWnd => b[(head + k) % RcvWnd] = None

\* Faulty variant: the head stays where it was.
CollectKeepsHead(b, k) ==
    /\ list' = list \o [i \in 1 .. k |-> b[(head + i - 1) % RcvWnd]]
    /\ buffer' = [s \in Ring |-> IF (s + RcvWnd - head) % RcvWnd < k THEN None ELSE b[s]]
    /\ UNCHANGED head

\* Faulty variant: the head goes on past the last slot.
CollectPastEnd(b, k) ==
    /\ list' = list \o [i \in 1 .. k |-> b[(head + i - 1) % RcvWnd]]
    /\ buffer' = [s \in Ring |-> IF (s + RcvWnd - head) % RcvWnd < k THEN None ELSE b[s]]
    /\ head' = head + k

Collect(b, k) ==
    /\ list' = list \o [i \in 1 .. k |-> b[(head + i - 1) % RcvWnd]]
    /\ buffer' = [s \in Ring |-> IF (s + RcvWnd - head) % RcvWnd < k THEN None ELSE b[s]]
    /\ head' = (head + k) % RcvWnd

Keep(b) ==
    /\ buffer' = b
    /\ UNCHANGED <<head, list>>

\* The segment passes the first check of state_tcp_otherwise.
Arrives(g) ==
    /\ open
    /\ g \in Arriving
    /\ Acceptable([rcv_nxt |-> rcv_nxt, rcv_wnd |-> RcvWnd],
                  [seq |-> Number(g.n), flags |-> {"ACK"}])

\* Faulty variant: every segment moves the window.
AlwaysNext(g) == TRUE

\* A segment that is the next one moves the window.
IsNext(g) == Number(g.n) = rcv_nxt

\* Faulty variant: rcv_nxt counts the segment that arrived and not the ones
\* that waited for it.
RecvCountsOne(g) ==
    /\ Arrives(g)
    /\ g.kind # "fin"
    /\ IF IsNext(g)
       THEN /\ Collect(Put(g), Count(Put(g)))
            /\ rcv_nxt' = Plus(rcv_nxt, 1)
       ELSE Keep(Put(g)) /\ UNCHANGED rcv_nxt
    /\ UNCHANGED <<peerVars, open>>

\* tcp_recv_window_update.
Recv(g) ==
    /\ Arrives(g)
    /\ g.kind # "fin"
    /\ IF IsNext(g)
       THEN /\ Collect(Put(g), Count(Put(g)))
            /\ rcv_nxt' = Plus(rcv_nxt, Count(Put(g)))
       ELSE Keep(Put(g)) /\ UNCHANGED rcv_nxt
    /\ UNCHANGED <<peerVars, open>>

\* The same for a segment with a FIN, and the eighth check: rcv_nxt becomes the
\* number after the FIN whether or not the FIN was the next one.
RecvFin(g) ==
    /\ Arrives(g)
    /\ g.kind = "fin"
    /\ IF IsNext(g) THEN Collect(Put(g), Count(Put(g))) ELSE Keep(Put(g))
    /\ rcv_nxt' = Plus(Number(g.n), 1)
    /\ open' = FALSE
    /\ UNCHANGED peerVars

Next ==
    \/ Send
    \/ SendFin
    \/ \E g \in Segment : Recv(g) \/ RecvFin(g)

Spec == Init /\ [][Next]_vars

\* The peer repeats the segment that is missing until it arrives.
RecvMissing == \E g \in Segment : g.kind = "text" /\ g.n = Len(list) /\ Recv(g)

FairSpec == Spec /\ WF_vars(RecvMissing)

-----------------------------------------------------------------------------
(***************************************************************************)
(* Properties.                                                             *)
(***************************************************************************)

\* Type invariant.
TypeOK ==
    /\ wire \in [SeqNum -> SeqNum]
    /\ bare \in BOOLEAN
    /\ sent \in 0 .. Length
    /\ fin \in BOOLEAN
    /\ open \in BOOLEAN
    /\ rcv_nxt \in SeqNum
    /\ head \in Ring
    /\ buffer \in [Ring -> Segment \cup {None}]
    /\ list \in Seq(Segment)

\* The k-th slot from the head.
At(k) == buffer[(head + k) % RcvWnd]

\* head_ and rcv_nxt move together: the k-th slot from the head is for the
\* number rcv_nxt + k, whatever was lost, repeated or reordered and however
\* often the ring and the numbers have wrapped around.  The head's slot is
\* empty or holds the segment that is one beyond the window.
SlotsFit ==
    open => \A k \in Ring : At(k) # None =>
        Number(At(k).n) = Plus(rcv_nxt, IF k = 0 THEN RcvWnd ELSE k)

\* "RCV.NXT =< SEG.SEQ < RCV.NXT+RCV.WND" (first check of state_tcp_otherwise):
\* no number of the window is refused, the ones behind the wrap-around included.
AcceptsTheWindow ==
    \A i \in 0 .. RcvWnd - 1 :
        Acceptable([rcv_nxt |-> rcv_nxt, rcv_wnd |-> RcvWnd],
                   [seq |-> Plus(rcv_nxt, i), flags |-> {"ACK"}])

\* The host reads numbers as they were sent.
Straight == \A x \in SeqNum : wire[x] = x

\* The two hypotheses under which a number stands for one text: the host reads
\* the number, and no acknowledgment without text arrives, which the window
\* (tcp_recv_window_update) would take for the text that has its number.
Plain == Straight /\ ~bare

Text(n) == [n |-> n, kind |-> "text"]

HandedOver(n) == \E i \in 1 .. Len(list) : list[i] = Text(n)

\* Under these hypotheses the connection acknowledges exactly the text it has
\* handed over, in the order in which the peer has sent it.
AcknowledgesHandedOver ==
    Plain /\ open =>
        /\ rcv_nxt = Number(Len(list))
        /\ \A i \in 1 .. Len(list) : list[i] = Text(i - 1)

\* Module TcpInput has the window right: the segment that is the next one moves
\* rcv_nxt over 1 to RcvWnd segments, any other does not move it.
MovesAsText ==
    [][\A g \in Segment : Recv(g) =>
          \E n \in 1 .. RcvWnd :
              rcv_nxt' = TextTcb("ESTABLISHED", [rcv_nxt |-> rcv_nxt], Number(g.n), n).rcv_nxt]_vars

Held ==
    0 .. Len(list) - 1
        \cup {Len(list) + k : k \in {j \in 1 .. RcvWnd - 1 : At(j) # None}}

Abstract == INSTANCE ReceiveBuffer WITH
    Numbers <- 0 .. Length + 1,
    held <- Held,
    read <- [i \in 1 .. Len(list) |-> list[i].n]

\* Under the same hypotheses the text of the peer, and after it the FIN, is
\* handed over in order, each segment once and as soon as possible, and the ones
\* that wait in the ring are not lost.
ImplementsReceiveBuffer ==
    /\ Plain => Abstract!Init
    /\ [][Plain => Abstract!Next]_<<Held, [i \in 1 .. Len(list) |-> list[i].n]>>

\* Under the same hypotheses, as long as no FIN arrives the window never gets
\* stuck: with a peer that repeats what is missing, every text is handed over.
HandsOver ==
    \A n \in 0 .. Length - 1 :
        (Plain /\ sent > n) ~> (HandedOver(n) \/ ~open)

-----------------------------------------------------------------------------
(***************************************************************************)
(* The inductive invariant behind the properties above, in terms of the    *)
(* segments themselves, which the code does not see.                       *)
(***************************************************************************)

\* What rcv_nxt counts, as long as the host reads the numbers as they were sent.
CountsList == Straight /\ open => rcv_nxt = Number(Len(list))

ListInOrder == Straight => \A i \in 1 .. Len(list) : list[i].n = i - 1

SlotsHold ==
    Straight /\ open => \A k \in Ring : At(k) # None =>
        At(k).n = Len(list) + (IF k = 0 THEN RcvWnd ELSE k)

TextsOnly ==
    ~bare /\ open =>
        /\ \A k \in Ring : At(k) # None => At(k).kind = "text"
        /\ \A i \in 1 .. Len(list) : list[i].kind = "text"

\* Without this an early segment could have the number of one that is missing.
SentWithin == sent <= Len(list) + Ahead

IInv ==
    /\ TypeOK
    /\ SlotsFit
    /\ CountsList
    /\ ListInOrder
    /\ SlotsHold
    /\ TextsOnly
    /\ SentWithin

=============================================================================
