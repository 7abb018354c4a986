---------------------------- MODULE MCTcpSockets ----------------------------
(***************************************************************************)
(* Instances of TcpSockets for TLC.                                        *)
(***************************************************************************)
EXTENDS TcpSockets, TLC

\* A combination of flags for each branch.
MCFlagSets == {{"SYN"}, {"ACK"}, {"RST"}, {"FIN", "ACK"}}

\* The largest number of 31 bits, in proportion.
MCIss == {SeqMod \div 2 - 1}

Symmetry == Permutations(Slots)

=============================================================================
