-------------------------------- MODULE Token --------------------------------
(***************************************************************************)
(* The token of the handshake: generateToken, when a client dials, and     *)
(* verifyToken, when the first packet of an unknown address reaches a      *)
(* Listener. Each reads the clock of its host; here the second is a        *)
(* parameter.                                                              *)
(*                                                                         *)
(* A token carries the low 16 bits of the second it was made in and two    *)
(* bytes of SHA-256(secret, those 16 bits). Hash stands for these two      *)
(* bytes: nothing more is asked of it, different seconds may well share    *)
(* their digest. The secret is the same on both sides.                     *)
(***************************************************************************)
EXTENDS Integers

CONSTANT Hash(_)   (* the first and the last byte of the digest of 16 bits *)

MaxUint16 == 65535
Uint16 == 0 .. MaxUint16
uint16(n) == n % 65536

ASSUME HashAssumption == \A t \in Uint16 : Hash(t) \in Uint16

TokenTimeWindow == 10

generateToken(s) == [time |-> uint16(s), digest |-> Hash(uint16(s))]

(* Mutant: the time that the token carries is not compared. *)
verifyToken_NoWindow(t, s, window) == t.digest = Hash(uint16(s))

(* The distance runs from now to the token's time, in unsigned 16 bits,    *)
(* and the digest is computed over the time of the verification.           *)
verifyToken(t, s, window) ==
  LET w == IF window <= 0 THEN 10 ELSE window
  IN /\ uint16(t.time - uint16(s)) <= uint16(w)
     /\ t.digest = Hash(uint16(s))

=============================================================================
