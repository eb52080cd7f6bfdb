----------------------------- MODULE ConnTxProofs -----------------------------
(***************************************************************************)
(* Proofs about the txqueue of a standalone UDPConn, for every number of   *)
(* writers and every queue length.                                         *)
(***************************************************************************)
EXTENDS ConnTx, TLAPS

(* What an action keeps, once for every action that Next is made of. *)
LEMMA NextCases ==
  ASSUME NEW P,
         StartReader => P, MakeQueue => P, StartLoop => P,
         AppClose => P, ReaderError => P,
         CloseTake => P, CloseClear => P, CloseQueue => P, CloseSocket => P,
         LoopTest => P, LoopRemake => P, LoopPass => P,
         \A ok \in BOOLEAN : LoopSend(ok) => P,
         LoopEnds => P,
         \A w \in Writer : WriteTest(w) => P,
         \A w \in Writer, txBlocked \in BOOLEAN : WriteOperand(w, txBlocked)
                                                    => P,
         \A w \in Writer : WriteSend(w) => P,
         \A w \in Writer : WriteDrop(w) => P,
         \A w \in Writer : WritePanic(w) => P,
         UNCHANGED vars => P
  PROVE  [Next]_vars => P
BY DEF Next, Create, Close, WriteBatchLoop, Write

-----------------------------------------------------------------------------
(* Close closes a channel only when it found one. *)
TypeInv == TypeOK /\ (clpc \in {"clear", "close"} => q \in Channel)

LEMMA TypeInit == Init => TypeInv
<1> SUFFICES ASSUME Init PROVE TypeInv
  OBVIOUS
<1>1. 0 \in 0 .. QueueLen /\ 0 \in 0 .. MaxWrite
  BY ConnTxAssumption
<1>2. /\ queued \in [Channel -> 0 .. QueueLen]
      /\ calls \in [Writer -> 0 .. MaxWrite]
      /\ wpc \in [Writer -> {"idle", "operand", "send", "try"}]
      /\ to \in [Writer -> Channel \cup {NilChan}]
  BY <1>1 DEF Init
<1> QED
  BY <1>2 DEF Init, TypeInv, TypeOK

LEMMA TypeStep == TypeInv /\ [Next]_vars => TypeInv'
<1> SUFFICES ASSUME TypeInv PROVE [Next]_vars => TypeInv'
  OBVIOUS
<1> USE ConnTxAssumption DEF TypeInv, TypeOK, queueVars, closeVars, loopVars, writeVars
<1>c. Made \in Channel /\ Remade \in Channel /\ NilChan \notin Channel
  BY DEF Made, Remade, Channel, NilChan
<1>1. StartReader => TypeInv'
  BY DEF StartReader
<1>2. MakeQueue => TypeInv'
  BY <1>c DEF MakeQueue
<1>3. StartLoop => TypeInv'
  BY DEF StartLoop
<1>4. AppClose => TypeInv'
  BY DEF AppClose, CloseOnce
<1>5. ReaderError => TypeInv'
  BY DEF ReaderError, CloseOnce
<1>6. CloseTake => TypeInv'
  BY DEF CloseTake
<1>7. CloseClear => TypeInv'
  BY DEF CloseClear
<1>8. CloseQueue => TypeInv'
  BY DEF CloseQueue
<1>9. CloseSocket => TypeInv'
  BY DEF CloseSocket
<1>10. LoopTest => TypeInv'
  BY DEF LoopTest
<1>11. LoopRemake => TypeInv'
  BY <1>c DEF LoopRemake
<1>12. LoopPass => TypeInv'
  BY DEF LoopPass
<1>13. \A ok \in BOOLEAN : LoopSend(ok) => TypeInv'
  <2> SUFFICES ASSUME NEW ok \in BOOLEAN, LoopSend(ok) PROVE TypeInv'
    OBVIOUS
  <2>1. from \in Channel
    BY DEF LoopSend
  <2>2. queued[from] - 1 \in 0 .. QueueLen
    BY <2>1 DEF LoopSend
  <2> QED
    BY <2>1, <2>2 DEF LoopSend
<1>14. LoopEnds => TypeInv'
  BY DEF LoopEnds
<1>15. \A w \in Writer : WriteTest(w) => TypeInv'
  BY DEF WriteTest
<1>16. \A w \in Writer, txBlocked \in BOOLEAN : WriteOperand(w, txBlocked)
                                                  => TypeInv'
  BY DEF WriteOperand
<1>17. \A w \in Writer : WriteSend(w) => TypeInv'
  <2> SUFFICES ASSUME NEW w \in Writer, WriteSend(w) PROVE TypeInv'
    OBVIOUS
  <2>1. to[w] \in Channel
    BY DEF WriteSend
  <2>2. queued[to[w]] + 1 \in 0 .. QueueLen
    BY <2>1 DEF WriteSend
  <2> QED
    BY <2>1, <2>2 DEF WriteSend, WriteReturn
<1>18. \A w \in Writer : WriteDrop(w) => TypeInv'
  BY DEF WriteDrop, WriteReturn
<1>19. \A w \in Writer : WritePanic(w) => TypeInv'
  BY DEF WritePanic
<1>20. UNCHANGED vars => TypeInv'
  BY DEF vars
<1> HIDE DEF TypeInv
<1> QED
  BY <1>1, <1>2, <1>3, <1>4, <1>5, <1>6, <1>7, <1>8, <1>9, <1>10, <1>11,
     <1>12, <1>13, <1>14, <1>15, <1>16, <1>17, <1>18, <1>19, <1>20, NextCases

LEMMA TypeHolds == Spec => []TypeInv
BY TypeInit, TypeStep, PTL DEF Spec

(* Every variable of the write path has its type: no channel holds more    *)
(* than its length, whoever sends on it.                                   *)
THEOREM ConnTxTypeCorrect == Spec => []TypeOK
<1>1. TypeInv => TypeOK
  BY DEF TypeInv
<1> QED
  BY <1>1, TypeHolds, PTL

-----------------------------------------------------------------------------
(***************************************************************************)
(* The channels. Close takes the channel made at creation or finds none;   *)
(* only then, with the field cleared, can the loop make another.           *)
(***************************************************************************)
CloseInv ==
  /\ ~ closed => clpc = "none"
  /\ q \in {NilChan, Made}
  /\ clpc \in {"none", "take"} => q = NilChan
  /\ clpc \in {"clear", "close"} => q = Made
  /\ chClosed # {} => q = Made /\ clpc \in {"socket", "done"}
                      /\ chClosed = {Made}

FieldInv ==
  /\ make \in {"reader", "txqueue"} =>
       txqueue = NilChan /\ q = NilChan /\ loop = "none"
  /\ make \in {"loop", "done"} /\ q = NilChan => txqueue = Made
  /\ clpc = "clear" => txqueue = Made
  /\ q = Made /\ clpc # "clear" => txqueue # Made
  /\ loop # "none" => make = "done"
  /\ loop = "remake" => q = Made /\ clpc # "clear"

HolderInv ==
  /\ \A w \in Writer : wpc[w] # "idle" => make = "done"
  /\ ~ closed /\ loop = "range" => from = Made
  /\ \A w \in Writer : ~ closed /\ Putting(w) => to[w] = Made

QueueInv == CloseInv /\ FieldInv /\ HolderInv

LEMMA QueueInit == Init => QueueInv
BY DEF Init, QueueInv, CloseInv, FieldInv, HolderInv, Putting, NilChan, Made

LEMMA QueueStep == TypeInv /\ QueueInv /\ [Next]_vars => QueueInv'
<1> SUFFICES ASSUME TypeInv, QueueInv PROVE [Next]_vars => QueueInv'
  OBVIOUS
<1>c. Made # NilChan /\ Remade # NilChan /\ Made # Remade
  BY DEF Made, Remade, NilChan
<1>t. /\ make \in {"reader", "txqueue", "loop", "done"}
      /\ clpc \in {"none", "take", "clear", "close", "socket", "done"}
      /\ loop \in {"none", "test", "remake", "pass", "range", "quit"}
      /\ wpc \in [Writer -> {"idle", "operand", "send", "try"}]
      /\ to \in [Writer -> Channel \cup {NilChan}]
      /\ closed \in BOOLEAN
      /\ chClosed \subseteq Channel
  BY DEF TypeInv, TypeOK
<1> USE <1>c, <1>t DEF QueueInv, CloseInv, FieldInv, HolderInv, Putting,
        queueVars, closeVars, loopVars, writeVars
<1>1. StartReader => QueueInv'
  BY DEF StartReader
<1>2. MakeQueue => QueueInv'
  BY DEF MakeQueue
<1>3. StartLoop => QueueInv'
  BY DEF StartLoop
<1>4. AppClose => QueueInv'
  BY DEF AppClose, CloseOnce
<1>5. ReaderError => QueueInv'
  BY DEF ReaderError, CloseOnce
<1>6. CloseTake => QueueInv'
  BY DEF CloseTake
<1>7. CloseClear => QueueInv'
  BY DEF CloseClear
<1>8. CloseQueue => QueueInv'
  BY DEF CloseQueue
<1>9. CloseSocket => QueueInv'
  BY DEF CloseSocket
<1>10. LoopTest => QueueInv'
  BY DEF LoopTest
<1>11. LoopRemake => QueueInv'
  BY DEF LoopRemake
<1>12. LoopPass => QueueInv'
  BY DEF LoopPass
<1>13. \A ok \in BOOLEAN : LoopSend(ok) => QueueInv'
  BY DEF LoopSend
<1>14. LoopEnds => QueueInv'
  BY DEF LoopEnds
<1>15. \A w \in Writer : WriteTest(w) => QueueInv'
  BY DEF WriteTest
<1>16. \A w \in Writer, txBlocked \in BOOLEAN : WriteOperand(w, txBlocked)
                                                  => QueueInv'
  BY DEF WriteOperand
<1>17. \A w \in Writer : WriteSend(w) => QueueInv'
  BY DEF WriteSend, WriteReturn
<1>18. \A w \in Writer : WriteDrop(w) => QueueInv'
  BY DEF WriteDrop, WriteReturn
<1>19. \A w \in Writer : WritePanic(w) => QueueInv'
  BY DEF WritePanic
<1>20. UNCHANGED vars => QueueInv'
  BY DEF vars
<1> HIDE DEF QueueInv
<1> QED
  BY <1>1, <1>2, <1>3, <1>4, <1>5, <1>6, <1>7, <1>8, <1>9, <1>10, <1>11,
     <1>12, <1>13, <1>14, <1>15, <1>16, <1>17, <1>18, <1>19, <1>20, NextCases

LEMMA QueueHolds == Spec => []QueueInv
BY TypeHolds, TypeStep, QueueInit, QueueStep, PTL DEF Spec

(* No goroutine that reads txqueue gets a channel that Close has closed:   *)
(* only a channel read before Close took it away can make PutTxQueue panic *)
(* (udpconn.go, Close and PutTxQueue).                                     *)
THEOREM FieldIsNeverClosed == Spec => []FieldNeverClosed
<1>1. QueueInv => FieldNeverClosed
  BY DEF QueueInv, CloseInv, FieldInv, FieldNeverClosed
<1> QED
  BY <1>1, QueueHolds, PTL

(* Until somebody closes the UDPConn, its loop and its writers use the     *)
(* channel made at creation: the one that writeBatchLoop makes when it     *)
(* finds none is never made before.                                        *)
THEOREM OneQueue == Spec => []OneQueueWhileOpen
<1>1. QueueInv => OneQueueWhileOpen
  BY DEF QueueInv, HolderInv, OneQueueWhileOpen
<1> QED
  BY <1>1, QueueHolds, PTL

=============================================================================
