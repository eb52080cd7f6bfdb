------------------------------- MODULE ConnTx -------------------------------
(***************************************************************************)
(* The write side of one standalone UDPConn: its txqueue field, the        *)
(* channels that field has held, the goroutine of writeBatchLoop, the      *)
(* goroutines that call Write, and Close.                                  *)
(*                                                                         *)
(* None of them holds a lock while it touches txqueue, so each read and    *)
(* each write of the field is a step. The channel operand of a send and    *)
(* the argument of WriteBatchLoop are read once: a goroutine keeps the     *)
(* channel it has read whatever the field becomes. How the loop gathers    *)
(* messages is PCBufioWriter's; here it sends them one by one.             *)
(***************************************************************************)
EXTENDS Naturals, FiniteSets

CONSTANTS
  Writer,    (* the goroutines that call Write                               *)
  QueueLen,  (* txqueuelen                                                   *)
  MaxWrite   (* bound: how many times each goroutine calls Write             *)

ASSUME ConnTxAssumption ==
  /\ QueueLen \in Nat \ {0}
  /\ MaxWrite \in Nat

(* The channel made at creation, the one writeBatchLoop makes when it      *)
(* finds none, and no channel.                                             *)
Made == 1
Remade == 2
Channel == {Made, Remade}
NilChan == 0

VARIABLES
  txqueue,  (* UDPConn.txqueue                                               *)
  queued,   (* how many messages each channel holds                          *)
  chClosed, (* the channels that were closed                                 *)
  closed,   (* UDPConn.closed                                                *)
  sockOpen, (* lconn is open                                                 *)
  make,     (* where the goroutine that creates the UDPConn is               *)
  reader,   (* readBatchLoopv2 runs                                          *)
  clpc,     (* where the one Close that found closed unset is                *)
  q,        (* local to that Close                                           *)
  loop,     (* where writeBatchLoop is                                       *)
  from,     (* the channel it passed to WriteBatchLoop                       *)
  wpc,      (* where each Write is                                           *)
  to,       (* the channel each Write has read                               *)
  calls,    (* how many times each goroutine called Write                    *)
  panic     (* a goroutine panicked: the process is gone                     *)

queueVars == <<txqueue, queued, chClosed>>
closeVars == <<closed, sockOpen, clpc, q>>
loopVars  == <<loop, from>>
writeVars == <<wpc, to, calls>>
vars == <<queueVars, closeVars, loopVars, writeVars, make, reader, panic>>

TypeOK ==
  /\ txqueue \in Channel \cup {NilChan}
  /\ queued \in [Channel -> 0 .. QueueLen]
  /\ chClosed \subseteq Channel
  /\ closed \in BOOLEAN
  /\ sockOpen \in BOOLEAN
  /\ make \in {"reader", "txqueue", "loop", "done"}
  /\ reader \in BOOLEAN
  /\ clpc \in {"none", "take", "clear", "close", "socket", "done"}
  /\ q \in Channel \cup {NilChan}
  /\ loop \in {"none", "test", "remake", "pass", "range", "quit"}
  /\ from \in Channel \cup {NilChan}
  /\ wpc \in [Writer -> {"idle", "operand", "send", "try"}]
  /\ to \in [Writer -> Channel \cup {NilChan}]
  /\ calls \in [Writer -> 0 .. MaxWrite]
  /\ panic \in BOOLEAN

Init ==
  /\ txqueue = NilChan
  /\ queued = [c \in Channel |-> 0]
  /\ chClosed = {}
  /\ closed = FALSE
  /\ sockOpen = TRUE
  /\ make = "reader"
  /\ reader = FALSE
  /\ clpc = "none"
  /\ q = NilChan
  /\ loop = "none"
  /\ from = NilChan
  /\ wpc = [w \in Writer |-> "idle"]
  /\ to = [w \in Writer |-> NilChan]
  /\ calls = [w \in Writer |-> 0]
  /\ panic = FALSE

-----------------------------------------------------------------------------
(***************************************************************************)
(* Creation, in Dial or in CreateUDPConnByDstAddr: the read loop starts    *)
(* first, then txqueue is made, then the write loop starts.                *)
(***************************************************************************)
StartReader ==
  /\ make = "reader"
  /\ make' = "txqueue"
  /\ reader' = TRUE
  /\ UNCHANGED <<queueVars, closeVars, loopVars, writeVars, panic>>

MakeQueue ==
  /\ make = "txqueue"
  /\ make' = "loop"
  /\ txqueue' = Made
  /\ UNCHANGED <<queued, chClosed, closeVars, loopVars, writeVars, reader,
                 panic>>

StartLoop ==
  /\ make = "loop"
  /\ make' = "done"
  /\ loop' = "test"
  /\ UNCHANGED <<queueVars, closeVars, from, writeVars, reader, panic>>

-----------------------------------------------------------------------------
(***************************************************************************)
(* Close: the first caller sets closed under mux and does the rest.        *)
(***************************************************************************)
CloseOnce ==
  /\ closed' = TRUE
  /\ clpc' = IF closed THEN clpc ELSE "take"
  /\ UNCHANGED <<sockOpen, q>>

(* The application closes the UDPConn that was handed to it. *)
AppClose ==
  /\ make = "done"
  /\ ~ closed
  /\ CloseOnce
  /\ UNCHANGED <<queueVars, loopVars, writeVars, make, reader, panic>>

(* ReadBatch fails, on a closed socket or on an error of its own, and the  *)
(* read loop closes the UDPConn before it quits.                           *)
ReaderError ==
  /\ reader
  /\ reader' = FALSE
  /\ CloseOnce
  /\ UNCHANGED <<queueVars, loopVars, writeVars, make, panic>>

(* q := c.txqueue *)
CloseTake ==
  /\ clpc = "take"
  /\ q' = txqueue
  /\ clpc' = IF txqueue = NilChan THEN "socket" ELSE "clear"
  /\ UNCHANGED <<queueVars, closed, sockOpen, loopVars, writeVars, make,
                 reader, panic>>

(* Mutant: the field keeps the channel that is about to be closed. *)
CloseClear_Kept ==
  /\ clpc = "clear"
  /\ clpc' = "close"
  /\ UNCHANGED <<queueVars, closed, sockOpen, q, loopVars, writeVars, make,
                 reader, panic>>

CloseClear ==
  /\ clpc = "clear"
  /\ txqueue' = NilChan
  /\ clpc' = "close"
  /\ UNCHANGED <<queued, chClosed, closed, sockOpen, q, loopVars, writeVars,
                 make, reader, panic>>

(* Mutant: the channel is not closed. *)
CloseQueue_Skip ==
  /\ clpc = "close"
  /\ clpc' = "socket"
  /\ UNCHANGED <<queueVars, closed, sockOpen, q, loopVars, writeVars, make,
                 reader, panic>>

CloseQueue ==
  /\ clpc = "close"
  /\ chClosed' = chClosed \cup {q}
  /\ clpc' = "socket"
  /\ UNCHANGED <<txqueue, queued, closed, sockOpen, q, loopVars, writeVars,
                 make, reader, panic>>

CloseSocket ==
  /\ clpc = "socket"
  /\ sockOpen' = FALSE
  /\ clpc' = "done"
  /\ UNCHANGED <<queueVars, closed, q, loopVars, writeVars, make, reader,
                 panic>>

-----------------------------------------------------------------------------
(***************************************************************************)
(* writeBatchLoop                                                          *)
(***************************************************************************)
(* Mutant: the loop makes a channel of its own, found one or not. *)
LoopTest_Remakes ==
  /\ loop = "test"
  /\ loop' = "remake"
  /\ UNCHANGED <<queueVars, closeVars, from, writeVars, make, reader, panic>>

LoopTest ==
  /\ loop = "test"
  /\ loop' = IF txqueue = NilChan THEN "remake" ELSE "pass"
  /\ UNCHANGED <<queueVars, closeVars, from, writeVars, make, reader, panic>>

LoopRemake ==
  /\ loop = "remake"
  /\ txqueue' = Remade
  /\ loop' = "pass"
  /\ UNCHANGED <<queued, chClosed, closeVars, from, writeVars, make, reader,
                 panic>>

LoopPass ==
  /\ loop = "pass"
  /\ from' = txqueue
  /\ loop' = "range"
  /\ UNCHANGED <<queueVars, closeVars, writeVars, make, reader, panic>>

(* A message is received and sent, or the send fails and the loop quits.   *)
(* On a closed socket it fails.                                            *)
LoopSend(ok) ==
  /\ loop = "range"
  /\ from # NilChan
  /\ queued[from] > 0
  /\ ok => sockOpen
  /\ queued' = [queued EXCEPT ![from] = @ - 1]
  /\ loop' = IF ok THEN "range" ELSE "quit"
  /\ UNCHANGED <<txqueue, chClosed, closeVars, from, writeVars, make, reader,
                 panic>>

(* The range ends when its channel is closed and empty. On no channel it   *)
(* never ends.                                                             *)
LoopEnds ==
  /\ loop = "range"
  /\ from \in chClosed
  /\ queued[from] = 0
  /\ loop' = "quit"
  /\ UNCHANGED <<queueVars, closeVars, from, writeVars, make, reader, panic>>

-----------------------------------------------------------------------------
(***************************************************************************)
(* Write, WriteWithBatch and PutTxQueue                                    *)
(***************************************************************************)

(* PutTxQueue tests closed, without the mutex. *)
WriteTest(w) ==
  /\ make = "done"
  /\ wpc[w] = "idle"
  /\ calls[w] < MaxWrite
  /\ calls' = [calls EXCEPT ![w] = @ + 1]
  /\ wpc' = [wpc EXCEPT ![w] = IF closed THEN "idle" ELSE "operand"]
  /\ UNCHANGED <<queueVars, closeVars, loopVars, to, make, reader, panic>>

(* c.txBlocked says whether the Write waits for room; SetTxBlocked may set *)
(* it between any two calls.                                               *)
WriteOperand(w, txBlocked) ==
  /\ wpc[w] = "operand"
  /\ to' = [to EXCEPT ![w] = txqueue]
  /\ wpc' = [wpc EXCEPT ![w] = IF txBlocked THEN "send" ELSE "try"]
  /\ UNCHANGED <<queueVars, closeVars, loopVars, calls, make, reader, panic>>

Putting(w) == wpc[w] \in {"send", "try"}

WriteReturn(w) == wpc' = [wpc EXCEPT ![w] = "idle"]

(* There is room in an open channel. *)
WriteSend(w) ==
  /\ Putting(w)
  /\ to[w] \in Channel \ chClosed
  /\ queued[to[w]] < QueueLen
  /\ queued' = [queued EXCEPT ![to[w]] = @ + 1]
  /\ WriteReturn(w)
  /\ UNCHANGED <<txqueue, chClosed, closeVars, loopVars, to, calls, make,
                 reader, panic>>

(* There is none, or no channel at all: the default case of the select     *)
(* drops the message. A blocking Write waits instead.                      *)
WriteDrop(w) ==
  /\ wpc[w] = "try"
  /\ to[w] \notin chClosed
  /\ to[w] # NilChan => queued[to[w]] = QueueLen
  /\ WriteReturn(w)
  /\ UNCHANGED <<queueVars, closeVars, loopVars, to, calls, make, reader,
                 panic>>

(* A send on a closed channel panics, one that is already waiting too. *)
WritePanic(w) ==
  /\ Putting(w)
  /\ to[w] \in chClosed
  /\ panic' = TRUE
  /\ UNCHANGED <<queueVars, closeVars, loopVars, writeVars, make, reader>>

-----------------------------------------------------------------------------
Create == StartReader \/ MakeQueue \/ StartLoop

Close == CloseTake \/ CloseClear \/ CloseQueue \/ CloseSocket

WriteBatchLoop ==
  \/ LoopTest
  \/ LoopRemake
  \/ LoopPass
  \/ \E ok \in BOOLEAN : LoopSend(ok)
  \/ LoopEnds

Write(w) ==
  \/ \E txBlocked \in BOOLEAN : WriteOperand(w, txBlocked)
  \/ WriteSend(w)
  \/ WriteDrop(w)
  \/ WritePanic(w)

Next ==
  /\ ~ panic
  /\ \/ Create
     \/ AppClose
     \/ ReaderError
     \/ Close
     \/ WriteBatchLoop
     \/ \E w \in Writer : WriteTest(w) \/ Write(w)

Spec == Init /\ [][Next]_vars

(* Every goroutine that can run does. Nobody has to call Write or Close,   *)
(* and no socket has to fail.                                              *)
FairSpec ==
  /\ Spec
  /\ WF_vars(~ panic /\ Create)
  /\ WF_vars(~ panic /\ Close)
  /\ WF_vars(~ panic /\ WriteBatchLoop)
  /\ \A w \in Writer : WF_vars(~ panic /\ Write(w))

-----------------------------------------------------------------------------
(* Whoever reads txqueue never reads a channel that is already closed,     *)
(* though Close, the creation and the loop all assign the field: a send on *)
(* a closed channel needs a channel read before Close took it away.        *)
FieldNeverClosed == txqueue \notin chClosed

(* Without Close there is no way for the loop or for a Write to end up on  *)
(* anything but the channel made at creation.                              *)
OneQueueWhileOpen ==
  ~ closed =>
    /\ loop = "range" => from = Made
    /\ \A w \in Writer : Putting(w) => to[w] = Made

(* A Close that begins when the loop already ranges over its channel ends  *)
(* the loop: it finds that channel in the field, and closes it. One that   *)
(* begins earlier need not: see README, Disagreements.                     *)
LoopQuits ==
  (loop = "range" /\ ~ closed) ~> (panic \/ loop = "quit" \/ [] ~ closed)

(* While the UDPConn is open and its loop runs, a Write that waits for     *)
(* room gets it.                                                           *)
WriteReturns ==
  \A w \in Writer :
    wpc[w] = "send" ~> (panic \/ closed \/ loop = "quit" \/ wpc[w] = "idle")

(* Close sets txqueue to nil before it closes the channel so that          *)
(* PutTxQueue does not panic (the comment in Close).                       *)
PutNeverPanics == ~ panic

=============================================================================
