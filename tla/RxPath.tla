-------------------------------- MODULE RxPath --------------------------------
(***************************************************************************)
(* The receive side of one UDPConn: the loop that reads packets from a     *)
(* socket in batches into buffers of the pool, rxqueue, the goroutines     *)
(* that call Read, and the pool the buffers return to.                     *)
(*                                                                         *)
(* The loop is UDPConn.readBatchLoopv2, of a UDPConn that has a socket of  *)
(* its own. (Listener.readBatchLoopv2 treats buffers and slots alike.)     *)
(* A Listener that made the UDPConn may still hold packets of its client:  *)
(* it queues them too, and draws on the same pool.                         *)
(* When a listener does not read in batches, its readLoop takes the place: *)
(* no pool is involved and the packets go through rxqueueB.                *)
(***************************************************************************)
EXTENDS Integers, Sequences, FiniteSets

CONSTANTS
  Reader,     (* the goroutines that call Read                               *)
  MaxBuffer,  (* bound: how many buffers there are, in the pool or in use    *)
  NoReader,   (* nobody                                                      *)
  Batchs,     (* readBatchs: the length of rms                               *)
  QueueLen,   (* rxqueuelen                                                  *)
  Lens,       (* the lengths a packet may have                               *)
  Slice,      (* Slice[r]: the length of the slices r gives to Read          *)
  MaxPacket   (* bound: how many packets arrive                              *)

ASSUME RxPathAssumption ==
  /\ NoReader \notin Reader
  /\ {MaxBuffer, Batchs, QueueLen, MaxPacket} \subseteq Nat \ {0}
  /\ Lens \subseteq Nat \ {0} /\ Slice \in [Reader -> Nat \ {0}]

Buffer == 1 .. MaxBuffer
NoBuffer == 0     (* nil *)
Slot == 1 .. Batchs

(* A byte is known by its packet and its place in it. *)
Byte == (1 .. MaxPacket) \X Lens \X Nat
Packet(id, len) == [i \in 1 .. len |-> <<id, len, i>>]

VARIABLES
  batched,    (* the packets are read in batches                             *)
  oneshot,    (* UDPConn.oneshotRead                                         *)
  buf,        (* of each buffer: ref, data = buf[:woffset], and roffset      *)
  pool,       (* the buffers that were put back                              *)
  buffers,    (* the buffer behind each slot of rms, local to the loop       *)
  loop,       (* where the loop is                                           *)
  n,          (* local to the loop: how many slots its last batch used       *)
  i,          (* local to the loop: the slot it is working on                *)
  inbox,      (* the packets of the last batch, by slot                      *)
  arrived,    (* how many packets were read from the socket                  *)
  rxqueue,    (* UDPConn.rxqueue                                             *)
  rxqueueB,   (* UDPConn.rxqueueB                                            *)
  undrained,  (* UDPConn.lastUndrainedBuffer                                 *)
  mux,        (* who holds undrainedBufferMux                                *)
  rpc,        (* where each Read is                                          *)
  held,       (* the buffer each Read has taken out of rxqueue               *)
  out,        (* what the Reads have returned, in order                      *)
  delivered,  (* the bytes of that, one Read after the other                 *)
  stream,     (* the bytes that were queued, in order                        *)
  dead,       (* UDPConn.dead is closed                                      *)
  panic       (* an assertion of the pool or of Read fired                   *)

mode == <<batched, oneshot>>    (* set before the UDPConn is used *)
poolVars == <<buf, pool>>
loopVars == <<buffers, loop, n, i, inbox, arrived>>
readVars == <<undrained, mux, rpc, held, out, delivered>>
vars == <<mode, poolVars, loopVars, readVars, rxqueue, rxqueueB, stream, dead, panic>>

Clean == [ref |-> 0, data |-> <<>>, roffset |-> 0]

TypeOK ==
  /\ batched \in BOOLEAN /\ oneshot \in BOOLEAN
  /\ buf \in [Buffer -> [ref : Int, data : Seq(Byte), roffset : Nat]]
  /\ pool \subseteq Buffer
  /\ buffers \in [Slot -> Buffer \cup {NoBuffer}]
  /\ loop \in {"fill", "read", "queue", "quit"}
  /\ n \in Slot /\ i \in Slot
  /\ inbox \in Seq(Seq(Byte)) /\ Len(inbox) <= Batchs
  /\ arrived \in 0 .. MaxPacket
  /\ rxqueue \in Seq(Buffer) /\ Len(rxqueue) <= QueueLen
  /\ rxqueueB \in Seq(Seq(Byte)) /\ Len(rxqueueB) <= QueueLen
  /\ undrained \in Buffer \cup {NoBuffer}
  /\ mux \in Reader \cup {NoReader}
  /\ rpc \in [Reader -> {"idle", "lock", "rest", "select", "finish"}]
  /\ held \in [Reader -> Buffer \cup {NoBuffer}]
  /\ out \in Seq([data : Seq(Byte), short : BOOLEAN])
  /\ delivered \in Seq(Byte) /\ stream \in Seq(Byte)
  /\ dead \in BOOLEAN /\ panic \in BOOLEAN

Init ==
  /\ batched \in BOOLEAN /\ oneshot \in BOOLEAN
  /\ buf = [b \in Buffer |-> Clean]
  /\ pool = {}
  /\ buffers = [s \in Slot |-> NoBuffer]
  /\ loop = "fill"
  /\ n = Batchs /\ i = 1
  /\ inbox = <<>>
  /\ arrived = 0
  /\ rxqueue = <<>>
  /\ rxqueueB = <<>>
  /\ undrained = NoBuffer
  /\ mux = NoReader
  /\ rpc = [r \in Reader |-> "idle"]
  /\ held = [r \in Reader |-> NoBuffer]
  /\ out = <<>>
  /\ delivered = <<>>
  /\ stream = <<>>
  /\ dead = FALSE /\ panic = FALSE

-----------------------------------------------------------------------------
(***************************************************************************)
(* The pool. A buffer nobody refers to and that was not put back is memory *)
(* the collector may reuse for a new one.                                  *)
(***************************************************************************)
(* The slots whose buffer is the loop's: those it has renewed, or did not  *)
(* use, or has not come to yet.                                            *)
OwnSlot ==
  IF loop = "fill" THEN {s \in Slot : s < i \/ s > n}
  ELSE IF loop = "queue" THEN {s \in Slot : s >= i}
  ELSE Slot

InUse ==
  {buffers[s] : s \in OwnSlot} \cup {held[r] : r \in Reader}
    \cup {rxqueue[k] : k \in DOMAIN rxqueue} \cup {undrained}

unread(b) == SubSeq(buf[b].data, buf[b].roffset + 1, Len(buf[b].data))

(* Buffers differ in nothing but what is done with them, so it does not    *)
(* matter which one Get returns: one from the pool if there is one.        *)
Free == IF pool # {} THEN pool ELSE Buffer \ InUse

Chosen == CHOOSE b \in Free : TRUE

(* pool.Get: its Check wants a buffer that is free and clean. *)
Get(b) ==
  IF b \in pool
    THEN /\ pool' = pool \ {b}
         /\ IF buf[b] = Clean
              THEN buf' = [buf EXCEPT ![b].ref = 1] /\ UNCHANGED panic
              ELSE panic' = TRUE /\ UNCHANGED buf
    ELSE /\ buf' = [buf EXCEPT ![b] = [Clean EXCEPT !.ref = 1]]
         /\ UNCHANGED <<pool, panic>>

(* Mutant: the buffer goes back without Reset. *)
Release_NoReset(b) ==
  IF buf[b].ref = 1
    THEN /\ buf' = [buf EXCEPT ![b].ref = 0]
         /\ pool' = pool \cup {b}
         /\ UNCHANGED panic
    ELSE panic' = TRUE /\ UNCHANGED poolVars

(* pool.Put of the last reference to a buffer. *)
Release(b) ==
  IF buf[b].ref = 1
    THEN /\ buf' = [buf EXCEPT ![b] = Clean]
         /\ pool' = pool \cup {b}
         /\ UNCHANGED panic
    ELSE panic' = TRUE /\ UNCHANGED poolVars

-----------------------------------------------------------------------------
(***************************************************************************)
(* The loop that reads batches. After a batch of n packets it renews the   *)
(* buffers of the first n slots; the others still hold theirs.             *)
(***************************************************************************)
FillSlot ==
  /\ batched
  /\ loop = "fill"
  /\ Free # {}
  /\ LET b == Chosen IN Get(b) /\ buffers' = [buffers EXCEPT ![i] = b]
  /\ IF i < n THEN i' = i + 1 /\ UNCHANGED <<loop, n>>
              ELSE i' = 1 /\ loop' = "read" /\ n' = Batchs
  /\ UNCHANGED <<inbox, arrived, readVars, rxqueue, rxqueueB, stream, dead>>

(* ReadBatch returns packets, one in each of the first slots. *)
ReadBatch(lens) ==
  /\ loop = "read"
  /\ Len(lens) \in Slot
  /\ arrived + Len(lens) <= MaxPacket
  /\ n' = Len(lens)
  /\ inbox' = [s \in DOMAIN lens |-> Packet(arrived + s, lens[s])]
  /\ arrived' = arrived + Len(lens)
  /\ loop' = "queue"
  /\ UNCHANGED <<poolVars, buffers, i, readVars, rxqueue, rxqueueB, stream,
                 dead, panic>>

(* Mutant: the slots are not renewed after a batch. *)
NextSlot_NoRefill ==
  IF i < n THEN i' = i + 1 /\ UNCHANGED <<loop, inbox>>
           ELSE i' = 1 /\ loop' = "read" /\ inbox' = <<>>

(* The loop goes on to the next packet of the batch. *)
NextSlot ==
  IF i < n THEN i' = i + 1 /\ UNCHANGED <<loop, inbox>>
           ELSE i' = 1 /\ loop' = "fill" /\ inbox' = <<>>

(* Mutant: the packet is queued without looking for room. *)
PutRxQueue2_Unbounded ==
  /\ loop = "queue"
  /\ rxqueue' = Append(rxqueue, buffers[i])
  /\ buf' = [buf EXCEPT ![buffers[i]].data = @ \o inbox[i]]
  /\ stream' = stream \o inbox[i]
  /\ NextSlot
  /\ UNCHANGED <<pool, buffers, n, arrived, readVars, rxqueueB, dead, panic>>

(* PutRxQueue2 of a packet that is data for this UDPConn: when there is no *)
(* room it is dropped and its buffer released.                             *)
PutRxQueue2 ==
  /\ loop = "queue"
  /\ LET b == buffers[i]
         filled == [buf EXCEPT ![b].data = @ \o inbox[i]]
     IN IF Len(rxqueue) < QueueLen
          THEN /\ rxqueue' = Append(rxqueue, b)
               /\ buf' = filled
               /\ stream' = stream \o inbox[i]
               /\ UNCHANGED <<pool, panic>>
          ELSE Release(b) /\ UNCHANGED <<rxqueue, stream>>
  /\ NextSlot
  /\ UNCHANGED <<buffers, n, arrived, readVars, rxqueueB, dead>>

(* A packet that is not: the token again, or a source that is not the      *)
(* peer. Its buffer stays in the slot, not released, until the next fill.  *)
Discard ==
  /\ loop = "queue"
  /\ NextSlot
  /\ UNCHANGED <<poolVars, buffers, n, arrived, readVars, rxqueue, rxqueueB,
                 stream, dead, panic>>

(* The loop of the Listener that made the UDPConn comes upon a packet of   *)
(* its client: the packet is copied to another buffer, which is queued, or *)
(* released when there is no room. Nobody else has the buffer in between.  *)
ListenerPut(len) ==
  /\ batched
  /\ arrived < MaxPacket
  /\ arrived' = arrived + 1
  /\ Free # {}
  /\ LET b == Chosen
         p == Packet(arrived', len)
     IN IF b \in pool /\ buf[b] # Clean
          THEN panic' = TRUE /\ UNCHANGED <<poolVars, rxqueue, stream>>
        ELSE IF Len(rxqueue) < QueueLen
          THEN /\ pool' = pool \ {b}
               /\ buf' = [buf EXCEPT ![b] = [ref |-> 1, data |-> p, roffset |-> 0]]
               /\ rxqueue' = Append(rxqueue, b)
               /\ stream' = stream \o p
               /\ UNCHANGED panic
        ELSE /\ pool' = pool \cup {b}
             /\ buf' = [buf EXCEPT ![b] = Clean]
             /\ UNCHANGED <<rxqueue, stream, panic>>
  /\ UNCHANGED <<buffers, loop, n, i, inbox, readVars, rxqueueB, dead>>

(* The socket fails, or was closed: the loop closes the UDPConn and quits. *)
ReadFails ==
  /\ loop = "read"
  /\ loop' = "quit"
  /\ dead' = TRUE
  /\ UNCHANGED <<poolVars, buffers, n, i, inbox, arrived, readVars, rxqueue,
                 rxqueueB, stream, panic>>

(* handlePacket and PutRxQueue: without batches, each packet is copied and *)
(* offered to rxqueueB.                                                    *)
HandlePacket(len) ==
  /\ ~ batched
  /\ arrived < MaxPacket
  /\ arrived' = arrived + 1
  /\ LET p == Packet(arrived', len)
     IN IF Len(rxqueueB) < QueueLen
          THEN rxqueueB' = Append(rxqueueB, p) /\ stream' = stream \o p
          ELSE UNCHANGED <<rxqueueB, stream>>
  /\ UNCHANGED <<poolVars, buffers, loop, n, i, inbox, readVars, rxqueue, dead,
                 panic>>

-----------------------------------------------------------------------------
(***************************************************************************)
(* Read                                                                    *)
(***************************************************************************)
Prefix(s, k) == SubSeq(s, 1, IF k < Len(s) THEN k ELSE Len(s))

(* Mutant: undrainedBufferMux is not unlocked. *)
Leave_NoUnlock(r) ==
  /\ rpc' = [rpc EXCEPT ![r] = "idle"]
  /\ held' = [held EXCEPT ![r] = NoBuffer]
  /\ UNCHANGED mux

(* The deferred Unlock runs. *)
Leave(r) ==
  /\ rpc' = [rpc EXCEPT ![r] = "idle"]
  /\ held' = [held EXCEPT ![r] = NoBuffer]
  /\ mux' = IF mux = r THEN NoReader ELSE mux

(* Read returns data, with ErrShortRead or without. *)
Return(r, data, short) ==
  /\ out' = Append(out, [data |-> data, short |-> short])
  /\ delivered' = delivered \o data
  /\ Leave(r)

ReadCall(r) ==
  /\ rpc[r] = "idle"
  /\ rpc' = [rpc EXCEPT ![r] = IF oneshot THEN "select" ELSE "lock"]
  /\ UNCHANGED <<poolVars, loopVars, undrained, mux, held, out, delivered,
                 rxqueue, rxqueueB, stream, dead, panic>>

Lock(r) ==
  /\ rpc[r] = "lock"
  /\ mux = NoReader
  /\ mux' = r
  /\ rpc' = [rpc EXCEPT ![r] = IF undrained = NoBuffer THEN "select" ELSE "rest"]
  /\ UNCHANGED <<poolVars, loopVars, undrained, held, out, delivered,
                 rxqueue, rxqueueB, stream, dead, panic>>

(* What an earlier Read has left is read first. *)
ReadRest(r) ==
  /\ rpc[r] = "rest"
  /\ LET rest == unread(undrained)
         data == Prefix(rest, Slice[r])
     IN /\ IF Len(data) = Len(rest)
             THEN Release(undrained) /\ undrained' = NoBuffer
             ELSE /\ buf' = [buf EXCEPT ![undrained].roffset = @ + Len(data)]
                  /\ UNCHANGED <<pool, undrained, panic>>
        /\ Return(r, data, FALSE)
  /\ UNCHANGED <<loopVars, rxqueue, rxqueueB, stream, dead>>

(* The select of Read: whatever is ready. *)
Take(r) ==
  /\ rpc[r] = "select"
  /\ rxqueue # <<>>
  /\ rxqueue' = Tail(rxqueue)
  /\ held' = [held EXCEPT ![r] = Head(rxqueue)]
  /\ rpc' = [rpc EXCEPT ![r] = "finish"]
  /\ UNCHANGED <<poolVars, loopVars, undrained, mux, out, delivered,
                 rxqueueB, stream, dead, panic>>

TakeB(r) ==
  /\ rpc[r] = "select"
  /\ rxqueueB # <<>>
  /\ rxqueueB' = Tail(rxqueueB)
  /\ Return(r, Prefix(Head(rxqueueB), Slice[r]), FALSE)
  /\ UNCHANGED <<poolVars, loopVars, undrained, rxqueue, stream, dead, panic>>

(* ErrConnClosed. *)
ReadDead(r) ==
  /\ rpc[r] = "select"
  /\ dead
  /\ Leave(r)
  /\ UNCHANGED <<poolVars, loopVars, undrained, out, delivered, rxqueue,
                 rxqueueB, stream, dead, panic>>

(* What is left of the packet once Read has copied the start of it. *)
left(r) == SubSeq(unread(held[r]), Slice[r] + 1, Len(unread(held[r])))

(* Mutant: what remains is looked up after the buffer was released. *)
Finish_ReleaseFirst(r) ==
  /\ rpc[r] = "finish"
  /\ oneshot
  /\ Release(held[r])
  /\ Return(r, Prefix(unread(held[r]), Slice[r]), buf'[held[r]].data # <<>>)
  /\ UNCHANGED <<undrained, loopVars, rxqueue, rxqueueB, stream, dead>>

(* Mutant: the rest of the packet is released with its buffer. *)
Finish_DropRest(r) ==
  /\ rpc[r] = "finish"
  /\ Release(held[r])
  /\ Return(r, Prefix(unread(held[r]), Slice[r]), oneshot /\ left(r) # <<>>)
  /\ UNCHANGED <<undrained, loopVars, rxqueue, rxqueueB, stream, dead>>

(* b.Read(buf), and what becomes of the buffer: a packet that was not read *)
(* to its end is an error in oneshot mode, and is kept for the next Read   *)
(* otherwise. The buffer is this Read's alone (SingleOwner), so that       *)
(* nobody sees the steps in between.                                       *)
Finish(r) ==
  /\ rpc[r] = "finish"
  /\ IF ~ oneshot /\ undrained # NoBuffer
       THEN panic' = TRUE /\ UNCHANGED <<poolVars, readVars>>
       ELSE /\ IF oneshot \/ left(r) = <<>>
                 THEN Release(held[r]) /\ UNCHANGED undrained
                 ELSE /\ undrained' = held[r]
                      /\ buf' = [buf EXCEPT ![held[r]].roffset = @ + Slice[r]]
                      /\ UNCHANGED <<pool, panic>>
            /\ Return(r, Prefix(unread(held[r]), Slice[r]),
                      oneshot /\ left(r) # <<>>)
  /\ UNCHANGED <<loopVars, rxqueue, rxqueueB, stream, dead>>

(* Somebody closes the UDPConn. *)
Close ==
  /\ ~ dead
  /\ dead' = TRUE
  /\ UNCHANGED <<poolVars, loopVars, readVars, rxqueue, rxqueueB, stream,
                 panic>>

-----------------------------------------------------------------------------
BatchLens == UNION {[1 .. k -> Lens] : k \in Slot}

ReadLoop ==
  \/ FillSlot
  \/ \E lens \in BatchLens : ReadBatch(lens)
  \/ PutRxQueue2
  \/ Discard
  \/ ReadFails
  \/ \E len \in Lens : HandlePacket(len) \/ ListenerPut(len)

Read(r) ==
  \/ ReadRest(r)
  \/ Take(r)
  \/ TakeB(r)
  \/ ReadDead(r)
  \/ Finish(r)

(* The process is over after a panic. *)
Running == ~ panic /\ UNCHANGED mode

Next ==
  /\ Running
  /\ \/ ReadLoop
     \/ Close
     \/ \E r \in Reader :
          Read(r) \/ Lock(r) \/ ReadCall(r)

Spec == Init /\ [][Next]_vars

(* A Read that can go on does, and a sync.Mutex starves nobody. Nothing is *)
(* assumed of the socket, of the peer, or of who calls Read and Close.     *)
FairSpec ==
  /\ Spec
  /\ \A r \in Reader :
       WF_vars(Running /\ Read(r)) /\ SF_vars(Running /\ Lock(r))

-----------------------------------------------------------------------------
(* None of the assertions fires: the pool is given back buffers that are   *)
(* in use, hands out clean ones, and Read finds no second undrained        *)
(* buffer (the panics of pool.Get, pool.Put and Read).                     *)
NoPanic == ~ panic

(* How many places hold a buffer.                                          *)
Holders(b) ==
  Cardinality({s \in OwnSlot : buffers[s] = b})
  + Cardinality({k \in DOMAIN rxqueue : rxqueue[k] = b})
  + Cardinality({r \in Reader : held[r] = b})
  + (IF undrained = b THEN 1 ELSE 0)

(* A buffer has one owner at a time on its way from the pool through the   *)
(* loop, the queue and a Read, and back: no packet is written over one     *)
(* that is still to be read.                                               *)
SingleOwner ==
  \A b \in Buffer :
    /\ Holders(b) <= 1
    /\ Holders(b) = 1 => buf[b].ref = 1 /\ b \notin pool

(* In oneshot mode, a Read of a packet that came in a batch returns        *)
(* ErrShortRead exactly when it did not return the whole packet (the       *)
(* comment of oneshotRead). Without batches Read never reports it: TakeB.  *)
ShortReadReported ==
  batched /\ oneshot =>
    \A k \in DOMAIN out :
      LET data == out[k].data
      IN out[k].short <=> Len(data) < data[1][2]

(* In oneshot mode, each Read returns the start of a packet, and no two    *)
(* Reads the same packet, however many goroutines read.                    *)
OnePacketPerRead ==
  oneshot =>
    /\ \A k \in DOMAIN out :
         LET data == out[k].data
         IN /\ data # <<>>
            /\ data = Prefix(Packet(data[1][1], data[1][2]), Len(data))
    /\ \A j, k \in DOMAIN out : out[j].data[1] = out[k].data[1] => j = k

(* In stream mode with batches, the Reads together return the bytes that   *)
(* were queued, in order, none twice and none skipped, however the packets *)
(* were cut and whichever goroutines read. (Without batches TakeB drops    *)
(* what does not fit.)                                                     *)
StreamInOrder ==
  batched /\ ~ oneshot => delivered = Prefix(stream, Len(delivered))

(* After Close every Read that is under way returns.                       *)
ReadReturns ==
  \A r \in Reader : (dead /\ rpc[r] # "idle") ~> (panic \/ rpc[r] = "idle")

=============================================================================
