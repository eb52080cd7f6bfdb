------------------------------- MODULE TxLink -------------------------------
(***************************************************************************)
(* What a batching writer promises to whoever puts messages in its queue:  *)
(* messages leave in the order they were put, none twice and none skipped; *)
(* all of them leave before the writer finishes, unless the socket fails.  *)
(* How many leave together, and where the others wait, is not said.        *)
(***************************************************************************)
EXTENDS Naturals, Sequences

CONSTANT Msg

VARIABLES
  pending,  (* the messages that were put and not sent, oldest first         *)
  wire,     (* the messages that were sent, oldest first                     *)
  link      (* "up", "failed", or "finished" once its queue was closed       *)

linkVars == <<pending, wire, link>>

LinkInit ==
  /\ pending = <<>>
  /\ wire = <<>>
  /\ link = "up"

(* A message can still be put after a failure, and then goes nowhere. *)
Accept(m) ==
  /\ link # "finished"
  /\ pending' = Append(pending, m)
  /\ UNCHANGED <<wire, link>>

(* A non-empty prefix of what is pending leaves at once. *)
Transmit(n) ==
  /\ link = "up"
  /\ wire' = wire \o SubSeq(pending, 1, n)
  /\ pending' = SubSeq(pending, n + 1, Len(pending))
  /\ UNCHANGED link

Fail ==
  /\ link = "up"
  /\ link' = "failed"
  /\ UNCHANGED <<pending, wire>>

Finish ==
  /\ link = "up"
  /\ pending = <<>>
  /\ link' = "finished"
  /\ UNCHANGED <<pending, wire>>

Depart == Fail \/ \E n \in 1 .. Len(pending) : Transmit(n)

LinkNext == Depart \/ Finish \/ \E m \in Msg : Accept(m)

LinkSpec == LinkInit /\ [][LinkNext]_linkVars

(* While messages are pending, one of them leaves sooner or later, or the  *)
(* socket fails.                                                           *)
LinkFairSpec == LinkSpec /\ WF_linkVars(pending # <<>> /\ Depart)

=============================================================================
