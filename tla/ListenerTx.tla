------------------------------ MODULE ListenerTx ------------------------------
(***************************************************************************)
(* The write side of a Listener whose UDPConns share its socket: every     *)
(* Write puts its message in the one txqueue of the listener while         *)
(* writeBatchLoop runs, and sends it with WriteTo before that loop has     *)
(* started and after it has quit.                                          *)
(*                                                                         *)
(* One goroutine writes to each UDPConn; writeBatchAble and closed are     *)
(* read without a lock, a step before the message goes anywhere. How the   *)
(* loop sends its batches is PCBufioWriter's.                              *)
(***************************************************************************)
EXTENDS Naturals, Sequences

CONSTANTS
  Conn,      (* the UDPConns, each with the goroutine that writes to it      *)
  QueueLen,  (* txqueuelen of the listener                                   *)
  Cap,       (* batchs                                                       *)
  MaxWrite   (* bound: how many messages are written to each UDPConn         *)

ASSUME ListenerTxAssumption ==
  /\ QueueLen \in Nat \ {0}
  /\ Cap \in Nat \ {0}
  /\ MaxWrite \in Nat

Message == Conn \X (1 .. MaxWrite)

VARIABLES
  txqueue,  (* Listener.txqueue                                              *)
  able,     (* Listener.writeBatchAble                                       *)
  loop,     (* where writeBatchLoop is                                       *)
  batch,    (* the messages it has gathered                                  *)
  sent,     (* the messages that left through the socket, in order           *)
  wpc,      (* where the Write of each UDPConn is                            *)
  count,    (* how many messages were written to each UDPConn                *)
  queued,   (* the messages whose Write returned success after queueing them *)
  closed    (* UDPConn.closed                                                *)

loopVars  == <<able, loop, batch>>
writeVars == <<wpc, count, queued, closed>>
vars == <<txqueue, loopVars, sent, writeVars>>

Elements(s) == {s[k] : k \in DOMAIN s}

TypeOK ==
  /\ txqueue \in Seq(Message) /\ Len(txqueue) <= QueueLen
  /\ able \in BOOLEAN
  /\ loop \in {"start", "range", "check", "flush", "quit", "over"}
  /\ batch \in Seq(Message) /\ Len(batch) <= Cap
  /\ sent \in Seq(Message)
  /\ wpc \in [Conn -> {"idle", "test", "put", "try", "direct"}]
  /\ count \in [Conn -> 0 .. MaxWrite]
  /\ queued \subseteq Message
  /\ closed \in [Conn -> BOOLEAN]

Init ==
  /\ txqueue = <<>>
  /\ able = FALSE
  /\ loop = "start"
  /\ batch = <<>>
  /\ sent = <<>>
  /\ wpc = [c \in Conn |-> "idle"]
  /\ count = [c \in Conn |-> 0]
  /\ queued = {}
  /\ closed = [c \in Conn |-> FALSE]

-----------------------------------------------------------------------------
(***************************************************************************)
(* Listener.writeBatchLoop                                                 *)
(***************************************************************************)
LoopStart ==
  /\ loop = "start"
  /\ able' = TRUE
  /\ loop' = "range"
  /\ UNCHANGED <<txqueue, batch, sent, writeVars>>

(* Mutant: the loop takes messages only once a whole batch waits. *)
LoopReceive_Batch ==
  /\ loop = "range"
  /\ Len(txqueue) >= Cap
  /\ batch' = Append(batch, Head(txqueue))
  /\ txqueue' = Tail(txqueue)
  /\ loop' = "check"
  /\ UNCHANGED <<able, sent, writeVars>>

LoopReceive ==
  /\ loop = "range"
  /\ txqueue # <<>>
  /\ batch' = Append(batch, Head(txqueue))
  /\ txqueue' = Tail(txqueue)
  /\ loop' = "check"
  /\ UNCHANGED <<able, sent, writeVars>>

(* A batch is sent when it is full or nothing else waits by now. *)
LoopCheck ==
  /\ loop = "check"
  /\ loop' = IF Len(batch) = Cap \/ txqueue = <<>> THEN "flush" ELSE "range"
  /\ UNCHANGED <<txqueue, able, batch, sent, writeVars>>

(* Mutant: what WriteBatch did not send is sent again from the start. *)
LoopSend_Restart(n) ==
  /\ loop = "flush"
  /\ n \in 1 .. Len(batch)
  /\ sent' = sent \o SubSeq(batch, 1, n)
  /\ batch' = IF n = Len(batch) THEN <<>> ELSE batch
  /\ loop' = IF batch' = <<>> THEN "range" ELSE "flush"
  /\ UNCHANGED <<txqueue, able, writeVars>>

(* Mutant: a batch that was sent in part counts as sent. *)
LoopSend_Partial(n) ==
  /\ loop = "flush"
  /\ n \in 1 .. Len(batch)
  /\ sent' = sent \o SubSeq(batch, 1, n)
  /\ batch' = <<>>
  /\ loop' = "range"
  /\ UNCHANGED <<txqueue, able, writeVars>>

LoopSend(n) ==
  /\ loop = "flush"
  /\ n \in 1 .. Len(batch)
  /\ sent' = sent \o SubSeq(batch, 1, n)
  /\ batch' = SubSeq(batch, n + 1, Len(batch))
  /\ loop' = IF batch' = <<>> THEN "range" ELSE "flush"
  /\ UNCHANGED <<txqueue, able, writeVars>>

(* WriteBatch fails: the loop quits, the queue stays as it is. *)
LoopFails ==
  /\ loop = "flush"
  /\ loop' = "quit"
  /\ UNCHANGED <<txqueue, able, batch, sent, writeVars>>

(* The deferred function. *)
LoopOver ==
  /\ loop = "quit"
  /\ able' = FALSE
  /\ loop' = "over"
  /\ UNCHANGED <<txqueue, batch, sent, writeVars>>

-----------------------------------------------------------------------------
(***************************************************************************)
(* UDPConn.Write                                                           *)
(***************************************************************************)

(* A closed UDPConn is not written to. *)
WriteCall(c) ==
  /\ wpc[c] = "idle"
  /\ ~ closed[c]
  /\ count[c] < MaxWrite
  /\ count' = [count EXCEPT ![c] = @ + 1]
  /\ wpc' = [wpc EXCEPT ![c] = "test"]
  /\ UNCHANGED <<txqueue, loopVars, sent, queued, closed>>

(* With c.txBlocked, which SetTxBlocked may set between any two calls, the *)
(* Write waits for room in the queue.                                      *)
WriteTest(c, txBlocked) ==
  /\ wpc[c] = "test"
  /\ wpc' = [wpc EXCEPT ![c] =
               IF ~ able THEN "direct" ELSE IF txBlocked THEN "put" ELSE "try"]
  /\ UNCHANGED <<txqueue, loopVars, sent, count, queued, closed>>

Return(c) == wpc' = [wpc EXCEPT ![c] = "idle"]

PutTxQueue(c) ==
  /\ wpc[c] \in {"put", "try"}
  /\ Len(txqueue) < QueueLen
  /\ txqueue' = Append(txqueue, <<c, count[c]>>)
  /\ queued' = queued \cup {<<c, count[c]>>}
  /\ Return(c)
  /\ UNCHANGED <<loopVars, sent, count, closed>>

(* ErrTxQueueFull, of a Write that does not block. *)
PutDrop(c) ==
  /\ wpc[c] = "try"
  /\ Len(txqueue) = QueueLen
  /\ Return(c)
  /\ UNCHANGED <<txqueue, loopVars, sent, count, queued, closed>>

(* lconn.WriteTo: the message leaves, or the socket refuses it. *)
WriteTo(c, ok) ==
  /\ wpc[c] = "direct"
  /\ sent' = IF ok THEN Append(sent, <<c, count[c]>>) ELSE sent
  /\ Return(c)
  /\ UNCHANGED <<txqueue, loopVars, count, queued, closed>>

(* The application closes the UDPConn; its messages in the queue stay, and *)
(* a Write that is under way goes on.                                      *)
Close(c) ==
  /\ ~ closed[c]
  /\ closed' = [closed EXCEPT ![c] = TRUE]
  /\ UNCHANGED <<txqueue, loopVars, sent, wpc, count, queued>>

-----------------------------------------------------------------------------
WriteBatchLoop ==
  \/ LoopStart
  \/ LoopReceive
  \/ LoopCheck
  \/ \E n \in 1 .. Cap : LoopSend(n)
  \/ LoopFails
  \/ LoopOver

Write(c) ==
  \/ \E txBlocked \in BOOLEAN : WriteTest(c, txBlocked)
  \/ PutTxQueue(c)
  \/ PutDrop(c)
  \/ \E ok \in BOOLEAN : WriteTo(c, ok)

Next ==
  \/ WriteBatchLoop
  \/ \E c \in Conn : WriteCall(c) \/ Write(c) \/ Close(c)

Spec == Init /\ [][Next]_vars

(* The loop runs when it can. Go serves the senders that wait on a channel *)
(* in the order they came, so a Write that finds room again and again gets *)
(* it.                                                                     *)
FairSpec ==
  /\ Spec
  /\ WF_vars(WriteBatchLoop)
  /\ \A c \in Conn : SF_vars(Write(c))

-----------------------------------------------------------------------------
(* The messages of a UDPConn leave in the order they were written and none *)
(* leaves twice, although some take the queue and others, before the loop  *)
(* runs and after it quits, the socket itself.                             *)
PerConnOrder ==
  \A j, k \in DOMAIN sent :
    j < k /\ sent[j][1] = sent[k][1] => sent[j][2] < sent[k][2]

(* What was queued leaves, unless the loop quits.                          *)
QueuedIsSent ==
  \A m \in Message : m \in queued ~> (m \in Elements(sent) \/ loop = "over")

(* A Write that waits for room gets it, unless the loop quits.             *)
WriteReturns ==
  \A c \in Conn : wpc[c] # "idle" ~> (wpc[c] = "idle" \/ loop = "over")

=============================================================================
