------------------------------- MODULE MCExpire -------------------------------
(* Instances of Expire for TLC. *)
EXTENDS Expire, TLC

CONSTANTS c1, c2, c3

ConnSymmetry == Permutations(Conn)

=============================================================================
