----------------------------- MODULE MCHandshake -----------------------------
(* Instances of Handshake for TLC. *)
EXTENDS Handshake, TLC

CONSTANTS c1, c2, Data, Empty

(* The first second of a behaviour and those 3, 9 and 12 later share their *)
(* digest.                                                                 *)
CollidingHash(t) == IF t \in {65533, 0, 6, 9} THEN 0 ELSE t

(* Two clients on two hosts. *)
MCHost == (c1 :> 1) @@ (c2 :> 2)

(* What is written has the length of a token, or no length.                *)
MCPayloadSize == (Data :> 4) @@ (Empty :> 0)

(* Three seconds before the 16 bits wrap. *)
MCStarts == {65533}

(* Clocks that agree; one whose first token is good early; and one whose   *)
(* first token is past the window until the server comes to its second.    *)
MCSkews == {0, 9, 12}
MCSynchronous == {0}

(* Past the window. *)
MCJumps == {12}

(* Within the window, to a second of the same digest. *)
MCShortJumps == {3}

(* The clients are alike: Host tells any two of them apart. *)
ClientSymmetry == Permutations({c1, c2})

=============================================================================
