----------------------------- MODULE MCTcpSocket -----------------------------
(***************************************************************************)
(* Instances of TcpSocket for TLC.                                         *)
(***************************************************************************)
EXTENDS TcpSocket, TLC

CONSTANTS s1, s2, f1, f2, o1, o2

MCSymmetry == Permutations({s1, s2}) \cup Permutations({f1, f2})
=============================================================================
