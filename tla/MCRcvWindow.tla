---------------------------- MODULE MCRcvWindow ----------------------------
(***************************************************************************)
(* Instances of RcvWindow for TLC.                                         *)
(***************************************************************************)
EXTENDS RcvWindow

\* Numbers of three digits of base b: a big-endian host reads them as they are, a
\* little-endian one has the digits in reverse.
MCWires(b) ==
    {[x \in SeqNum |-> x],
     [x \in SeqNum |-> (x % b) * b * b + ((x \div b) % b) * b + x \div (b * b)]}

MCBinary == MCWires(2)

=============================================================================
