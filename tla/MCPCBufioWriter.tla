--------------------------- MODULE MCPCBufioWriter ---------------------------
(* Instances of PCBufioWriter for TLC. *)
EXTENDS PCBufioWriter, TLC

(* The messages are interchangeable: the writer does not look into them. *)
MsgSymmetry == Permutations(Msg)

=============================================================================
