--------------------------- MODULE ReceiveBuffer ---------------------------
(***************************************************************************)
(* What the receive window of a connection promises: the segments of the   *)
(* peer, numbered from 0, are handed over in order, each of them once, and *)
(* as soon as all the earlier ones are there.  A segment may be refused.   *)
(***************************************************************************)
EXTENDS Naturals, FiniteSets

CONSTANT Numbers    \* the numbers segments may have

VARIABLES
    held,   \* the numbers of the segments taken so far
    read    \* the numbers handed over, in the order of the hand-over

vars == <<held, read>>

\* The first number that is not in S.
Missing(S) ==
    CHOOSE n \in 0 .. Cardinality(S) : n \notin S /\ 0 .. n - 1 \subseteq S

Init ==
    /\ held = {}
    /\ read = <<>>

Take(n) ==
    /\ held' = held \cup {n}
    /\ read' = [i \in 1 .. Missing(held') |-> i - 1]

Next == \E n \in Numbers \ held : Take(n)

Spec == Init /\ [][Next]_vars

=============================================================================
