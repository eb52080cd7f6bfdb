------------------------------ MODULE MCConnTx ------------------------------
(* Instances of ConnTx for TLC. *)
EXTENDS ConnTx, TLC

WriterSymmetry == Permutations(Writer)

=============================================================================
