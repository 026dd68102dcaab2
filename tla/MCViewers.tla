------------------------------ MODULE MCViewers ------------------------------
(* An instance of Viewers for TLC. *)
EXTENDS Viewers

CONSTANTS c1, s1, s2

OneConn == {c1}
TwoSenders == {s1, s2}
=============================================================================
