------------------------------ MODULE MCRxPath ------------------------------
(* An instance of RxPath for TLC. *)
EXTENDS RxPath, TLC

CONSTANTS r1, r2

(* One Read is given less room than a packet needs, the other just enough. *)
MCSlice == (r1 :> 1) @@ (r2 :> 2)

=============================================================================
