------------------------------- MODULE MCEpoll -------------------------------
(***************************************************************************)
(* Instances of Epoll for TLC.                                             *)
(***************************************************************************)
EXTENDS Epoll

\* The counter malloc leaves: too small, right, too large.
MCFreshNum == {-1, 0, 1}

=============================================================================
