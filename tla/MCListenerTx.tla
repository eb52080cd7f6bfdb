----------------------------- MODULE MCListenerTx -----------------------------
(* Instances of ListenerTx for TLC. *)
EXTENDS ListenerTx, TLC

(* The UDPConns are interchangeable. *)
ConnSymmetry == Permutations(Conn)

=============================================================================
