------------------------------ MODULE TcpInput ------------------------------
(***************************************************************************)
(* What a segment does to the socket that receives it: the state handlers  *)
(* of xy_tcp_state_others.h and the part of xy_tcp_wnd_hdl.h that moves    *)
(* snd_una and rcv_nxt, as functions of the socket's state, its TCB and    *)
(* the segment.                                                            *)
(*                                                                         *)
(* Sequence numbers are compared as the code compares them, as unsigned    *)
(* numbers, and wrap around at SeqMod (2^32 in the code).  The numbers of  *)
(* a segment are the ones the code reads from the header: it converts none *)
(* of them from network order.  The urgent pointer, the send window, the   *)
(* initial numbers and the contents of segments are left out.              *)
(***************************************************************************)
EXTENDS Naturals

CONSTANTS
    SeqMod,    \* how many sequence numbers there are
    RcvWnd     \* XY_RCV_WND_SIZE

ASSUME SeqAssumption ==
    /\ SeqMod \in Nat \ {0}
    /\ RcvWnd \in 1 .. SeqMod - 1

SeqNum == 0 .. SeqMod - 1

\* Unsigned addition.
Plus(a, n) == (a + n) % SeqMod

\* enum tcp_states.  No statement of the code assigns SYN_SENT.
States ==
    {"LISTEN", "SYN_SENT", "SYN_RECEIVED", "ESTABLISHED", "FIN_WAIT_1",
     "FIN_WAIT_2", "CLOSE", "CLOSE_WAIT", "CLOSING", "LAST_ACK", "TIME_WAIT"}

Tcb == [snd_una : SeqNum, snd_nxt : SeqNum, rcv_nxt : SeqNum, rcv_wnd : {0, RcvWnd}]

\* memset(&tcp_sk->tcb, 0, ...)
ZeroTcb == [snd_una |-> 0, snd_nxt |-> 0, rcv_nxt |-> 0, rcv_wnd |-> 0]

\* Faulty variant: the number after the SYN does not wrap around.
PassiveTcbUnwrapped(iss, seq) ==
    [snd_una |-> iss, snd_nxt |-> iss + 1,
     rcv_nxt |-> seq + 1, rcv_wnd |-> RcvWnd]

\* The TCB of a connection made for a SYN with number seq.
PassiveTcb(iss, seq) ==
    [snd_una |-> iss, snd_nxt |-> Plus(iss, 1),
     rcv_nxt |-> Plus(seq, 1), rcv_wnd |-> RcvWnd]

\* Faulty variant: both bounds must hold.
AcceptableBetween(k, g) ==
    IF k.rcv_wnd = 0
    THEN g.flags \cap {"ACK", "URG", "RST"} # {}
    ELSE g.seq >= k.rcv_nxt /\ g.seq <= Plus(k.rcv_nxt, k.rcv_wnd)

\* First check: the sequence number.
Acceptable(k, g) ==
    IF k.rcv_wnd = 0
    THEN g.flags \cap {"ACK", "URG", "RST"} # {}
    ELSE g.seq >= k.rcv_nxt \/ g.seq <= Plus(k.rcv_nxt, k.rcv_wnd)

\* Second check: where a reset leads.
ResetState(st, passive) ==
    IF st = "SYN_RECEIVED" /\ passive THEN "LISTEN" ELSE "CLOSE"

\* Fifth check: an acknowledgment that SYN_RECEIVED answers with a reset.
AckRefused(st, k, ack) ==
    st = "SYN_RECEIVED" /\ (k.snd_una > ack \/ ack > k.snd_nxt)

AckState(st, k, ack) ==
    CASE st = "SYN_RECEIVED" -> "ESTABLISHED"
      [] st = "FIN_WAIT_1" /\ ack = k.snd_nxt -> "FIN_WAIT_2"
      [] st = "CLOSE_WAIT" /\ ack = k.snd_nxt -> "TIME_WAIT"
      [] st = "LAST_ACK" /\ ack = k.snd_nxt -> "CLOSE"
      [] OTHER -> st

\* Faulty variant: the test against snd_nxt is missing.
AckTcbUnbounded(st, k, ack) ==
    IF /\ st \in {"SYN_RECEIVED", "ESTABLISHED", "FIN_WAIT_1", "FIN_WAIT_2",
                  "CLOSE_WAIT", "CLOSING"}
       /\ k.snd_una < ack
    THEN [k EXCEPT !.snd_una = ack]
    ELSE k

\* tcp_ack_window_update: SND.UNA < SEG.ACK =< SND.NXT.
AckTcb(st, k, ack) ==
    IF /\ st \in {"SYN_RECEIVED", "ESTABLISHED", "FIN_WAIT_1", "FIN_WAIT_2",
                  "CLOSE_WAIT", "CLOSING"}
       /\ k.snd_una < ack
       /\ ack <= k.snd_nxt
    THEN [k EXCEPT !.snd_una = ack]
    ELSE k

\* Seventh step: the window takes the segment, and if it is the next one the
\* window hands over it and the n - 1 segments that were waiting behind it.
TextTcb(st, k, seq, n) ==
    IF st \in {"ESTABLISHED", "FIN_WAIT_1", "FIN_WAIT_2"} /\ seq = k.rcv_nxt
    THEN [k EXCEPT !.rcv_nxt = Plus(seq, n)]
    ELSE k

\* Eighth check: the FIN bit, which is not looked at in these states.
FinIgnored(st) == st \in {"CLOSE", "LISTEN", "SYN_SENT"}

FinState(st, k, ack) ==
    CASE st \in {"ESTABLISHED", "SYN_RECEIVED"} -> "CLOSE_WAIT"
      [] st = "FIN_WAIT_1" -> IF ack = k.snd_nxt THEN "TIME_WAIT" ELSE "CLOSING"
      [] st = "FIN_WAIT_2" -> "TIME_WAIT"
      [] OTHER -> st

FinTcb(st, k, seq) ==
    IF FinIgnored(st) THEN k ELSE [k EXCEPT !.rcv_nxt = Plus(seq, 1)]

=============================================================================
