----------------------------- MODULE MCAcceptPath -----------------------------
(* Instances of AcceptPath for TLC. *)
EXTENDS AcceptPath, TLC

(* The goroutines that call Accept are interchangeable. *)
CallerSymmetry == Permutations(Caller)

=============================================================================
