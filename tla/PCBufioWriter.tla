---------------------------- MODULE PCBufioWriter ----------------------------
(***************************************************************************)
(* PCBufioWriter.WriteBatchLoop: the goroutine that takes messages from a  *)
(* txqueue channel, gathers them in writeBatchMsg and sends them with      *)
(* WriteBatch. A Listener runs one for all the UDPConns it accepted, a     *)
(* standalone UDPConn runs one of its own.                                 *)
(*                                                                         *)
(* The channel is filled and closed by other goroutines at any moment, so  *)
(* the loop's test of len(fromCh) is a step of its own. WriteBatch may     *)
(* send any part of the batch.                                             *)
(***************************************************************************)
EXTENDS Naturals, Sequences

CONSTANTS
  Msg,       (* the messages                                                 *)
  Nil,       (* what commit writes over a slot it has released               *)
  Cap,       (* batchs: the capacity of wms                                  *)
  QueueLen,  (* the capacity of txqueue                                      *)
  MaxPut     (* bound: how many messages a behaviour puts                    *)

ASSUME PCBufioWriterAssumption ==
  /\ Nil \notin Msg
  /\ Cap \in Nat \ {0}
  /\ QueueLen \in Nat \ {0}
  /\ MaxPut \in Nat

VARIABLES
  txqueue,     (* what the channel holds                                     *)
  chClosed,    (* the channel was closed                                     *)
  wms,         (* writeBatchMsg.wms[:len]                                    *)
  buffers,     (* writeBatchMsg.buffers: the pool buffer behind each slot    *)
  offset,      (* writeBatchMsg.offset                                       *)
  err,         (* PCBufioWriter.err is set                                   *)
  pc,          (* where the loop is                                          *)
  caller,      (* who called Flush: "Write", or the loop ("WriteBatchLoop")  *)
  sended,      (* local to Flush                                             *)
  needToSend,  (* local to Flush                                             *)
  wire,        (* the messages WriteBatch has sent                           *)
  released     (* the buffers handed back to the pool                        *)

chanVars  == <<txqueue, chClosed>>
batchVars == <<wms, buffers, offset>>
flushVars == <<caller, sended, needToSend>>
sentVars  == <<wire, released>>
vars == <<chanVars, batchVars, flushVars, sentVars, err, pc>>

Slot == Msg \cup {Nil}

TypeOK ==
  /\ txqueue \in Seq(Msg) /\ Len(txqueue) <= QueueLen
  /\ chClosed \in BOOLEAN
  /\ wms \in Seq(Slot) /\ Len(wms) <= Cap
  /\ buffers \in Seq(Slot)
  /\ offset \in Nat
  /\ err \in BOOLEAN
  /\ pc \in {"range", "flush", "check", "quit", "panic"}
  /\ caller \in {"Write", "WriteBatchLoop"}
  /\ sended \in Nat
  /\ needToSend \in Nat
  /\ wire \in Seq(Slot)
  /\ released \in Seq(Slot)

buffered == Len(wms) - offset

msgBuffered == SubSeq(wms, offset + 1, Len(wms))

Init ==
  /\ txqueue = <<>>
  /\ chClosed = FALSE
  /\ wms = <<>>
  /\ buffers = <<>>
  /\ offset = 0
  /\ err = FALSE
  /\ pc = "range"
  /\ caller = "Write"
  /\ sended = 0
  /\ needToSend = 0
  /\ wire = <<>>
  /\ released = <<>>

-----------------------------------------------------------------------------
(***************************************************************************)
(* The other end of the channel.                                           *)
(***************************************************************************)

(* PutTxQueue: the send goes through when there is room. *)
Put(m) ==
  /\ ~ chClosed
  /\ Len(txqueue) < QueueLen
  /\ Len(wire) + buffered + Len(txqueue) < MaxPut
  /\ txqueue' = Append(txqueue, m)
  /\ UNCHANGED <<chClosed, batchVars, flushVars, sentVars, err, pc>>

(* UDPConn.Close closes the channel of a standalone UDPConn. *)
CloseQueue ==
  /\ ~ chClosed
  /\ chClosed' = TRUE
  /\ UNCHANGED <<txqueue, batchVars, flushVars, sentVars, err, pc>>

-----------------------------------------------------------------------------
(* Flush, called with a writer that has not failed: it notes how much it   *)
(* has to send and starts sending.                                         *)
EnterFlush(who, n) ==
  /\ pc' = "flush"
  /\ caller' = who
  /\ sended' = 0
  /\ needToSend' = n

(* addMsg, and the Flush that follows when the batch has become full; it   *)
(* panics when the batch already was.                                      *)
addMsg(b) ==
  IF Len(wms) = Cap
    THEN pc' = "panic" /\ UNCHANGED <<wms, buffers, flushVars>>
    ELSE /\ wms' = Append(wms, b)
         /\ buffers' = Append(buffers, b)
         /\ IF Len(wms') = Cap
              THEN EnterFlush("Write", Len(wms') - offset)
              ELSE pc' = "check" /\ UNCHANGED flushVars

(* for b := range fromCh { bw.Write(b) *)
Receive ==
  /\ pc = "range"
  /\ txqueue # <<>>
  /\ txqueue' = Tail(txqueue)
  /\ addMsg(Head(txqueue))
  /\ UNCHANGED <<chClosed, offset, sentVars, err>>

(* Mutant: a single message is left to wait for company. *)
CheckQueue_Waits ==
  /\ pc = "check"
  /\ IF txqueue = <<>> /\ buffered > 1
       THEN EnterFlush("WriteBatchLoop", buffered)
       ELSE pc' = "range" /\ UNCHANGED flushVars
  /\ UNCHANGED <<chanVars, batchVars, sentVars, err>>

(* if len(fromCh) == 0 && bw.Buffered() > 0: nothing else is waiting, so   *)
(* what was gathered is sent now.                                          *)
CheckQueue ==
  /\ pc = "check"
  /\ IF txqueue = <<>> /\ buffered > 0
       THEN EnterFlush("WriteBatchLoop", buffered)
       ELSE pc' = "range" /\ UNCHANGED flushVars
  /\ UNCHANGED <<chanVars, batchVars, sentVars, err>>

(* Mutants: the batch never starts anew; the first n buffers are released  *)
(* instead of those after offset.                                          *)
commit_NoReset(n) ==
  LET cleared(s) == [i \in DOMAIN s |->
                       IF i \in offset + 1 .. offset + n THEN Nil ELSE s[i]]
  IN /\ released' = released \o SubSeq(buffers, offset + 1, offset + n)
     /\ wms' = cleared(wms)
     /\ buffers' = cleared(buffers)
     /\ offset' = offset + n
commit_FromStart(n) ==
  LET cleared(s) == [i \in DOMAIN s |->
                       IF i \in offset + 1 .. offset + n THEN Nil ELSE s[i]]
      all == offset + n = Len(wms)
  IN /\ released' = released \o SubSeq(buffers, 1, n)
     /\ wms' = IF all THEN <<>> ELSE cleared(wms)
     /\ buffers' = IF all THEN <<>> ELSE cleared(buffers)
     /\ offset' = IF all THEN 0 ELSE offset + n

(* commit: the buffers of the messages sent go back to the pool and their  *)
(* slots are cleared; a batch that was sent entirely starts anew.          *)
commit(n) ==
  LET cleared(s) == [i \in DOMAIN s |->
                       IF i \in offset + 1 .. offset + n THEN Nil ELSE s[i]]
      all == offset + n = Len(wms)
  IN /\ released' = released \o SubSeq(buffers, offset + 1, offset + n)
     /\ wms' = IF all THEN <<>> ELSE cleared(wms)
     /\ buffers' = IF all THEN <<>> ELSE cleared(buffers)
     /\ offset' = IF all THEN 0 ELSE offset + n

(* Mutant: whatever part of the batch was sent, all of it is committed. *)
SendBatch_CommitAll(n) ==
  /\ pc = "flush"
  /\ n <= buffered
  /\ buffered > 0
  /\ wire' = wire \o SubSeq(msgBuffered, 1, n)
  /\ sended' = sended + n
  /\ commit(buffered)
  /\ UNCHANGED <<chanVars, caller, needToSend, err, pc>>

(* WriteBatch sends the first n of the messages, n possibly zero. *)
SendBatch(n) ==
  /\ pc = "flush"
  /\ n <= buffered
  /\ buffered > 0
  /\ wire' = wire \o SubSeq(msgBuffered, 1, n)
  /\ sended' = sended + n
  /\ commit(n)
  /\ UNCHANGED <<chanVars, caller, needToSend, err, pc>>

(* WriteBatch fails: the error is kept, Flush and Write return it, and the *)
(* loop quits with whatever it had gathered.                               *)
SendFails ==
  /\ pc = "flush"
  /\ buffered > 0
  /\ err' = TRUE
  /\ pc' = "quit"
  /\ UNCHANGED <<chanVars, batchVars, flushVars, sentVars>>

(* Flush finds nothing left, checks its count and returns to its caller.   *)
FlushDone ==
  /\ pc = "flush"
  /\ buffered = 0
  /\ pc' = IF sended # needToSend THEN "panic"
           ELSE IF caller = "Write" THEN "check" ELSE "range"
  /\ UNCHANGED <<chanVars, batchVars, flushVars, sentVars, err>>

(* The range loop ends once the channel is closed and empty. *)
RangeEnds ==
  /\ pc = "range"
  /\ txqueue = <<>>
  /\ chClosed
  /\ pc' = "quit"
  /\ UNCHANGED <<chanVars, batchVars, flushVars, sentVars, err>>

WriteBatchLoop ==
  \/ Receive
  \/ CheckQueue
  \/ \E n \in 0 .. Cap : SendBatch(n)
  \/ SendFails
  \/ FlushDone
  \/ RangeEnds

Next ==
  \/ WriteBatchLoop
  \/ CloseQueue
  \/ \E m \in Msg : Put(m)

Spec == Init /\ [][Next]_vars

(* The goroutine runs when it can. A WriteBatch that sends nothing leaves  *)
(* the state as it is, so this also says that WriteBatch does not send     *)
(* nothing for ever: sendmmsg blocks, fails, or sends at least one.        *)
FairSpec == Spec /\ WF_vars(WriteBatchLoop)

-----------------------------------------------------------------------------
(* None of the assertions of the writer ever fires: addMsg has room for    *)
(* the message it is given, and Flush has sent what it set out to send     *)
(* (the panics of addMsg and Flush).                                       *)
NoPanic == pc # "panic" /\ offset <= Len(wms)

(* The buffers keep step with the messages, and the cleared slots are      *)
(* exactly those before offset: no message is sent out of a slot that was  *)
(* cleared, and no buffer of an unsent message was released.               *)
SlotsInStep ==
  /\ buffers = wms
  /\ \A i \in DOMAIN wms : wms[i] = Nil <=> i <= offset

(* Each buffer goes back to the pool once, when its message is sent, and   *)
(* in that order.                                                          *)
ReleasedAsSent == released = wire

(* A gathered message is never left behind by a loop that goes to sleep on *)
(* the channel: if the loop is about to receive while messages wait in the *)
(* batch, the channel is not empty, so that it will come back and flush.   *)
NoLinger == pc = "range" /\ buffered > 0 => txqueue # <<>>

(* The loop keeps the promise of a TxLink: first in, first out, exactly    *)
(* once, and all of it before it finishes.                                 *)
Link == INSTANCE TxLink WITH
  pending <- msgBuffered \o txqueue,
  link <- IF err THEN "failed"
          ELSE IF pc = "quit" THEN "finished" ELSE "up"

ImplementsLink == Link!LinkSpec

(* With fairness, what was put does leave unless the socket fails. *)
ImplementsFairLink == Link!LinkFairSpec

=============================================================================
