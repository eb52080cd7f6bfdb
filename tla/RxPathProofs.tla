----------------------------- MODULE RxPathProofs -----------------------------
(***************************************************************************)
(* Proofs about the receive path, for every number of readers, of buffers, *)
(* of slots and of packets, every length of a packet, of the slices that   *)
(* are given to Read and of the queues: the pool and Read never panic, a   *)
(* buffer has one owner, and what the Reads return is what was queued.     *)
(***************************************************************************)
EXTENDS RxPath, FiniteSetTheorems, TLAPS

(* A step is one of these; all but the last need that nothing panicked.    *)
LEMMA NextCases ==
  ASSUME NEW P,
         Running /\ FillSlot => P,
         \A lens \in BatchLens : Running /\ ReadBatch(lens) => P,
         Running /\ PutRxQueue2 => P,
         Running /\ Discard => P,
         Running /\ ReadFails => P,
         \A len \in Lens : Running /\ HandlePacket(len) => P,
         \A len \in Lens : Running /\ ListenerPut(len) => P,
         Running /\ Close => P,
         \A r \in Reader : Running /\ ReadCall(r) => P,
         \A r \in Reader : Running /\ Lock(r) => P,
         \A r \in Reader : Running /\ ReadRest(r) => P,
         \A r \in Reader : Running /\ Take(r) => P,
         \A r \in Reader : Running /\ TakeB(r) => P,
         \A r \in Reader : Running /\ ReadDead(r) => P,
         \A r \in Reader : Running /\ Finish(r) => P,
         UNCHANGED vars => P
  PROVE  [Next]_vars => P
BY DEF Next, ReadLoop, Read

-----------------------------------------------------------------------------
(***************************************************************************)
(* Sequences.                                                              *)
(***************************************************************************)
LEMMA AppendElements ==
  ASSUME NEW S, NEW s \in Seq(S), NEW e \in S
  PROVE  /\ Append(s, e) \in Seq(S)
         /\ Len(Append(s, e)) = Len(s) + 1
         /\ DOMAIN Append(s, e) = 1 .. Len(s) + 1
         /\ DOMAIN s = 1 .. Len(s) /\ Len(s) \in Nat
         /\ \A k \in DOMAIN s : (Append(s, e))[k] = s[k]
         /\ (Append(s, e))[Len(s) + 1] = e
OBVIOUS

LEMMA TailElements ==
  ASSUME NEW S, NEW s \in Seq(S), s # <<>>
  PROVE  /\ Head(s) \in S /\ Head(s) = s[1] /\ 1 \in DOMAIN s
         /\ Tail(s) \in Seq(S)
         /\ Len(s) \in Nat \ {0}
         /\ Len(Tail(s)) = Len(s) - 1
         /\ \A k \in DOMAIN Tail(s) : /\ k \in 1 .. Len(s) - 1
                                      /\ k + 1 \in DOMAIN s
                                      /\ (Tail(s))[k] = s[k + 1]
OBVIOUS

LEMMA ConcatElements ==
  ASSUME NEW S, NEW s \in Seq(S), NEW t \in Seq(S)
  PROVE  /\ s \o t \in Seq(S)
         /\ Len(s) \in Nat /\ Len(t) \in Nat
         /\ Len(s \o t) = Len(s) + Len(t)
         /\ DOMAIN (s \o t) = 1 .. Len(s) + Len(t)
         /\ \A k \in 1 .. Len(s) : (s \o t)[k] = s[k]
         /\ \A k \in 1 .. Len(t) : (s \o t)[Len(s) + k] = t[k]
OBVIOUS

(* The elements of s after the first k. *)
LEMMA RestElements ==
  ASSUME NEW S, NEW s \in Seq(S), NEW k \in 0 .. Len(s)
  PROVE  /\ SubSeq(s, k + 1, Len(s)) \in Seq(S)
         /\ Len(SubSeq(s, k + 1, Len(s))) = Len(s) - k
         /\ \A j \in 1 .. Len(s) - k : (SubSeq(s, k + 1, Len(s)))[j] = s[k + j]
OBVIOUS

LEMMA RestTyped ==
  ASSUME NEW S, NEW s \in Seq(S), NEW k \in Nat
  PROVE  /\ SubSeq(s, k + 1, Len(s)) \in Seq(S)
         /\ SubSeq(s, k + 1, Len(s)) = <<>> <=> Len(s) <= k
<1>0. \A t \in Seq(S) : t = <<>> <=> Len(t) = 0
  OBVIOUS
<1>1. CASE k \in 0 .. Len(s)
  <2>1. /\ SubSeq(s, k + 1, Len(s)) \in Seq(S)
        /\ Len(SubSeq(s, k + 1, Len(s))) = Len(s) - k
    BY <1>1, RestElements
  <2> DEFINE t == SubSeq(s, k + 1, Len(s))
  <2>2. Len(s) \in Nat /\ (Len(s) - k = 0 <=> Len(s) <= k)
    BY <1>1
  <2> HIDE DEF t
  <2>3. t = <<>> <=> Len(t) = 0
    BY <1>0, <2>1 DEF t
  <2>4. t = <<>> <=> Len(s) <= k
    BY <2>1, <2>2, <2>3 DEF t
  <2> QED BY <2>1, <2>4 DEF t
<1>2. CASE k > Len(s)
  BY <1>2
<1> QED BY <1>1, <1>2

LEMMA PrefixElements ==
  ASSUME NEW S, NEW s \in Seq(S), NEW k \in Nat
  PROVE  /\ Prefix(s, k) \in Seq(S)
         /\ Len(Prefix(s, k)) = IF k < Len(s) THEN k ELSE Len(s)
         /\ \A j \in 1 .. Len(Prefix(s, k)) : (Prefix(s, k))[j] = s[j]
<1>1. ASSUME NEW m \in 0 .. Len(s)
      PROVE  /\ SubSeq(s, 1, m) \in Seq(S)
             /\ Len(SubSeq(s, 1, m)) = m
             /\ \A j \in 1 .. m : (SubSeq(s, 1, m))[j] = s[j]
  OBVIOUS
<1>2. (IF k < Len(s) THEN k ELSE Len(s)) \in 0 .. Len(s)
  OBVIOUS
<1> QED BY <1>1, <1>2 DEF Prefix

(* Sequences with the same elements are the same. *)
LEMMA SeqEqual ==
  ASSUME NEW S, NEW s \in Seq(S), NEW t \in Seq(S), Len(s) = Len(t),
         \A j \in 1 .. Len(s) : s[j] = t[j]
  PROVE  s = t
OBVIOUS

LEMMA PacketElements ==
  ASSUME NEW id \in 1 .. MaxPacket, NEW len \in Lens
  PROVE  /\ Packet(id, len) \in Seq(Byte)
         /\ Len(Packet(id, len)) = len /\ len \in Nat \ {0}
         /\ \A j \in 1 .. len : Packet(id, len)[j] = <<id, len, j>>
<1>1. len \in Nat \ {0} /\ len \in Nat
  BY RxPathAssumption
<1>2. \A j \in 1 .. len : <<id, len, j>> \in Byte
  BY <1>1 DEF Byte
<1> DEFINE p == [j \in 1 .. len |-> <<id, len, j>>]
<1>3. p \in Seq(Byte) /\ Len(p) = len /\ \A j \in 1 .. len : p[j] = <<id, len, j>>
  <2>1. p \in [1 .. len -> Byte]
    BY <1>2
  <2> QED BY <1>1, <2>1
<1> QED BY <1>1, <1>3 DEF Packet

-----------------------------------------------------------------------------
(***************************************************************************)
(* Types, and where the loop and the Reads are. Each part of the invariant *)
(* needs the other: what is put in rxqueue is a buffer because the slot    *)
(* that the loop works on has one.                                         *)
(***************************************************************************)
BufferRecord == [ref : Int, data : Seq(Byte), roffset : Nat]
Result == [data : Seq(Byte), short : BOOLEAN]

LoopShape ==
  /\ i <= n
  /\ loop = "read" => i = 1
  /\ loop = "queue" => Len(inbox) = n
  /\ ~ batched => loop = "fill" /\ rxqueue = <<>>
  /\ batched => rxqueueB = <<>>
  /\ \A s \in OwnSlot : buffers[s] # NoBuffer

(* In stream mode a Read that is past the lock holds it; it goes on to the *)
(* select only when nothing is left of an earlier packet.                  *)
ReadShape ==
  /\ \A r \in Reader : held[r] # NoBuffer <=> rpc[r] = "finish"
  /\ \A r \in Reader : rpc[r] = "rest" => undrained # NoBuffer
  /\ oneshot => /\ undrained = NoBuffer
                /\ \A r \in Reader : rpc[r] \notin {"lock", "rest"}
  /\ ~ oneshot =>
       \A r \in Reader :
         /\ rpc[r] \in {"rest", "select", "finish"} => mux = r
         /\ rpc[r] \in {"select", "finish"} => undrained = NoBuffer
  /\ ~ batched => undrained = NoBuffer /\ \A r \in Reader : rpc[r] # "finish"

Base == TypeOK /\ LoopShape /\ ReadShape

LEMMA ConstantsTyped ==
  /\ MaxBuffer \in Nat \ {0} /\ Batchs \in Nat \ {0}
  /\ QueueLen \in Nat \ {0} /\ MaxPacket \in Nat \ {0}
  /\ \A len \in Lens : len \in Nat \ {0}
  /\ \A r \in Reader : Slice[r] \in Nat \ {0} /\ r # NoReader
BY RxPathAssumption

LEMMA BufferTyped ==
  /\ NoBuffer \notin Buffer
  /\ \A b \in Buffer : b # NoBuffer
  /\ Clean \in BufferRecord
  /\ Clean.ref = 0 /\ Clean.data = <<>> /\ Clean.roffset = 0
  /\ [Clean EXCEPT !.ref = 1] = [ref |-> 1, data |-> <<>>, roffset |-> 0]
  /\ [Clean EXCEPT !.ref = 1] \in BufferRecord
<1>1. NoBuffer \notin Buffer /\ \A b \in Buffer : b # NoBuffer
  BY ConstantsTyped DEF NoBuffer, Buffer
<1>2. <<>> \in Seq(Byte) /\ 0 \in Nat /\ 0 \in Int /\ 1 \in Int
  OBVIOUS
<1>3. /\ Clean \in BufferRecord
      /\ Clean.ref = 0 /\ Clean.data = <<>> /\ Clean.roffset = 0
  BY <1>2 DEF Clean, BufferRecord
<1>4. [Clean EXCEPT !.ref = 1] = [ref |-> 1, data |-> <<>>, roffset |-> 0]
  BY DEF Clean
<1>5. [ref |-> 1, data |-> <<>>, roffset |-> 0] \in BufferRecord
  BY <1>2 DEF BufferRecord
<1> QED BY <1>1, <1>3, <1>4, <1>5

LEMMA ChosenIsFree ==
  ASSUME TypeOK, Free # {}
  PROVE  Chosen \in Free /\ Chosen \in Buffer
<1>1. Chosen \in Free
  BY DEF Chosen
<1>2. pool \subseteq Buffer
  BY DEF TypeOK
<1> QED BY <1>1, <1>2 DEF Free

LEMMA GetTyped ==
  ASSUME TypeOK, NEW b \in Buffer, Get(b)
  PROVE  /\ buf' \in [Buffer -> BufferRecord] /\ pool' \subseteq Buffer
         /\ panic' \in BOOLEAN
<1>1. buf \in [Buffer -> BufferRecord] /\ pool \subseteq Buffer /\ panic \in BOOLEAN
  BY DEF TypeOK, BufferRecord
<1>2. /\ buf' = buf \/ buf' = [buf EXCEPT ![b].ref = 1]
           \/ buf' = [buf EXCEPT ![b] = [Clean EXCEPT !.ref = 1]]
      /\ pool' = pool \/ pool' = pool \ {b}
      /\ panic' = panic \/ panic' = TRUE
  BY DEF Get
<1>3. [buf[b] EXCEPT !.ref = 1] \in BufferRecord
  <2>1. buf[b] \in BufferRecord
    BY <1>1
  <2> QED BY <2>1 DEF BufferRecord
<1>4. buf' \in [Buffer -> BufferRecord]
  <2>1. CASE buf' = [buf EXCEPT ![b].ref = 1]
    <3>1. buf' = [buf EXCEPT ![b] = [buf[b] EXCEPT !.ref = 1]]
      BY <2>1
    <3> QED BY <1>1, <1>3, <3>1
  <2>2. CASE buf' = [buf EXCEPT ![b] = [Clean EXCEPT !.ref = 1]]
    BY <1>1, <2>2, BufferTyped
  <2> QED BY <1>1, <1>2, <2>1, <2>2
<1> QED BY <1>1, <1>2, <1>4

LEMMA ReleaseTyped ==
  ASSUME TypeOK, NEW b \in Buffer, Release(b)
  PROVE  /\ buf' \in [Buffer -> BufferRecord] /\ pool' \subseteq Buffer
         /\ panic' \in BOOLEAN
<1>1. buf \in [Buffer -> BufferRecord] /\ pool \subseteq Buffer /\ panic \in BOOLEAN
  BY DEF TypeOK, BufferRecord
<1>2. /\ buf' = buf \/ buf' = [buf EXCEPT ![b] = Clean]
      /\ pool' = pool \/ pool' = pool \cup {b}
      /\ panic' = panic \/ panic' = TRUE
  BY DEF Release, poolVars
<1> QED BY <1>1, <1>2, BufferTyped

LEMMA UnreadTyped ==
  ASSUME TypeOK, NEW b \in Buffer
  PROVE  unread(b) \in Seq(Byte)
<1>1. buf[b].data \in Seq(Byte) /\ buf[b].roffset \in Nat
  BY DEF TypeOK
<1> QED BY <1>1, RestTyped DEF unread

LEMMA BaseInit == Init => Base
<1> SUFFICES ASSUME Init PROVE Base
  OBVIOUS
<1> USE DEF Init
<1>1. /\ <<>> \in Seq(Seq(Byte)) /\ <<>> \in Seq(Buffer) /\ <<>> \in Seq(Byte)
      /\ <<>> \in Seq([data : Seq(Byte), short : BOOLEAN])
      /\ Len(<<>>) = 0
  OBVIOUS
<1>2. buf \in [Buffer -> [ref : Int, data : Seq(Byte), roffset : Nat]]
  BY BufferTyped DEF BufferRecord
<1>3. n \in Slot /\ i \in Slot /\ arrived \in 0 .. MaxPacket /\ OwnSlot = {}
  <2>1. Slot = 1 .. Batchs /\ Batchs \in Nat \ {0} /\ MaxPacket \in Nat
    BY ConstantsTyped DEF Slot
  <2>2. \A s \in Slot : ~ (s < 1) /\ ~ (s > Batchs)
    BY <2>1
  <2>3. OwnSlot = {}
    BY <2>2 DEF OwnSlot
  <2>4. n = Batchs /\ i = 1 /\ arrived = 0
    OBVIOUS
  <2> HIDE DEF Init
  <2>5. n \in Slot /\ i \in Slot /\ arrived \in 0 .. MaxPacket
    BY <2>1, <2>4
  <2> QED BY <2>3, <2>5
<1>4. TypeOK
  <2>1. /\ inbox \in Seq(Seq(Byte)) /\ Len(inbox) <= Batchs
        /\ rxqueue \in Seq(Buffer) /\ Len(rxqueue) <= QueueLen
        /\ rxqueueB \in Seq(Seq(Byte)) /\ Len(rxqueueB) <= QueueLen
    BY <1>1, ConstantsTyped
  <2>2. /\ out \in Seq([data : Seq(Byte), short : BOOLEAN])
        /\ delivered \in Seq(Byte) /\ stream \in Seq(Byte)
    BY <1>1
  <2>3. /\ batched \in BOOLEAN /\ oneshot \in BOOLEAN /\ pool \subseteq Buffer
        /\ buffers \in [Slot -> Buffer \cup {NoBuffer}]
        /\ loop \in {"fill", "read", "queue", "quit"}
        /\ undrained \in Buffer \cup {NoBuffer} /\ mux \in Reader \cup {NoReader}
        /\ rpc \in [Reader -> {"idle", "lock", "rest", "select", "finish"}]
        /\ held \in [Reader -> Buffer \cup {NoBuffer}]
        /\ dead \in BOOLEAN /\ panic \in BOOLEAN
    OBVIOUS
  <2> HIDE DEF Init
  <2> QED BY <1>2, <1>3, <2>1, <2>2, <2>3 DEF TypeOK
<1>5. LoopShape
  <2>1. i <= n
    BY ConstantsTyped
  <2> QED BY <1>3, <2>1 DEF LoopShape
<1>6. ReadShape
  BY DEF ReadShape
<1> QED BY <1>4, <1>5, <1>6 DEF Base

(* The loop goes from a slot to the next or to the next fill.              *)
LEMMA NextSlotKeeps ==
  ASSUME Base, loop = "queue", NextSlot, UNCHANGED n
  PROVE  /\ i' \in Slot /\ i' <= n /\ loop' \in {"queue", "fill"}
         /\ inbox' \in Seq(Seq(Byte)) /\ Len(inbox') <= Batchs
         /\ loop' = "queue" => inbox' = inbox /\ i' = i + 1
         /\ OwnSlot' = OwnSlot \ {i} /\ i \in OwnSlot
<1>1. /\ i \in Slot /\ n \in Slot /\ i <= n /\ Slot = 1 .. Batchs
      /\ Batchs \in Nat \ {0}
      /\ inbox \in Seq(Seq(Byte)) /\ Len(inbox) <= Batchs
  BY ConstantsTyped DEF Base, TypeOK, LoopShape, Slot
<1>2. CASE i < n
  <2>1. i' = i + 1 /\ loop' = "queue" /\ inbox' = inbox
    BY <1>2 DEF NextSlot
  <2> QED BY <1>1, <1>2, <2>1 DEF OwnSlot
<1>3. CASE ~ (i < n)
  <2>1. i = n /\ i' = 1 /\ loop' = "fill" /\ inbox' = <<>>
    BY <1>1, <1>3 DEF NextSlot
  <2>2. <<>> \in Seq(Seq(Byte)) /\ Len(<<>>) = 0
    OBVIOUS
  <2> QED BY <1>1, <2>1, <2>2 DEF OwnSlot
<1> QED BY <1>2, <1>3

LEMMA FillSlotBase == Base /\ Running /\ FillSlot => Base'
<1> SUFFICES ASSUME Base, Running, FillSlot PROVE Base'
  OBVIOUS
<1> DEFINE b == Chosen
<1>1. b \in Buffer /\ Get(b) /\ buffers' = [buffers EXCEPT ![i] = b]
  BY ChosenIsFree DEF FillSlot, Base
<1> HIDE DEF b
<1>2. /\ buf' \in [Buffer -> BufferRecord] /\ pool' \subseteq Buffer
      /\ panic' \in BOOLEAN
  BY <1>1, GetTyped DEF Base
<1>3. /\ buffers \in [Slot -> Buffer \cup {NoBuffer}] /\ i \in Slot /\ n \in Slot
      /\ i <= n /\ Slot = 1 .. Batchs /\ Batchs \in Nat \ {0}
      /\ loop = "fill" /\ batched
      /\ \A s \in Slot : s < i \/ s > n => buffers[s] # NoBuffer
  BY ConstantsTyped DEF Base, TypeOK, LoopShape, Slot, FillSlot, OwnSlot
<1>4. buffers' \in [Slot -> Buffer \cup {NoBuffer}]
  BY <1>1, <1>3
<1>5. \/ i < n /\ i' = i + 1 /\ loop' = "fill" /\ n' = n
      \/ i = n /\ i' = 1 /\ loop' = "read" /\ n' = Batchs
  BY <1>3 DEF FillSlot
<1>6. i' \in Slot /\ n' \in Slot /\ i' <= n' /\ loop' \in {"fill", "read"}
  BY <1>3, <1>5
<1>7. \A s \in OwnSlot' : buffers'[s] # NoBuffer
  <2>1. \A s \in OwnSlot' : s \in Slot /\ (s = i \/ s < i \/ s > n)
    BY <1>3, <1>5 DEF OwnSlot
  <2> QED BY <1>1, <1>3, <2>1, BufferTyped
<1>8. UNCHANGED <<mode, inbox, arrived, readVars, rxqueue, rxqueueB, stream, dead>>
  BY DEF FillSlot, Running
<1>9. TypeOK'
  BY <1>2, <1>4, <1>6, <1>8 DEF Base, TypeOK, BufferRecord, mode, readVars
<1>10. LoopShape'
  BY <1>3, <1>5, <1>6, <1>7, <1>8 DEF Base, LoopShape, mode
<1>11. ReadShape'
  BY <1>8 DEF Base, ReadShape, mode, readVars
<1> QED BY <1>9, <1>10, <1>11 DEF Base

LEMMA ReadBatchBase ==
  ASSUME NEW lens \in BatchLens, Base, Running, ReadBatch(lens)
  PROVE  /\ Base'
         /\ \A s \in 1 .. n' : /\ inbox'[s] = Packet(arrived + s, lens[s])
                               /\ arrived + s \in arrived + 1 .. arrived'
                               /\ arrived + s \in 1 .. MaxPacket
                               /\ lens[s] \in Lens
         /\ arrived' \in Nat /\ arrived \in Nat /\ arrived <= arrived'
         /\ n' \in Slot
<1>1. PICK k \in Slot : lens \in [1 .. k -> Lens]
  BY DEF BatchLens
<1>2. /\ k \in Nat \ {0} /\ k <= Batchs /\ Slot = 1 .. Batchs /\ Batchs \in Nat \ {0}
      /\ MaxPacket \in Nat
  BY ConstantsTyped DEF Slot
<1>3. lens \in Seq(Lens) /\ Len(lens) = k /\ DOMAIN lens = 1 .. k
  BY <1>1, <1>2
<1>4. /\ arrived \in 0 .. MaxPacket /\ arrived + k <= MaxPacket
      /\ n' = k /\ arrived' = arrived + k /\ loop = "read" /\ loop' = "queue"
      /\ inbox' = [s \in 1 .. k |-> Packet(arrived + s, lens[s])]
      /\ i = 1 /\ i' = 1
      /\ UNCHANGED <<mode, poolVars, buffers, readVars, rxqueue, rxqueueB,
                     stream, dead, panic>>
  BY <1>3 DEF ReadBatch, Base, TypeOK, LoopShape, Running
<1>5. \A s \in 1 .. k : /\ arrived + s \in arrived + 1 .. arrived'
                        /\ arrived + s \in 1 .. MaxPacket
                        /\ lens[s] \in Lens
  BY <1>1, <1>2, <1>4
<1>6. \A s \in 1 .. k : Packet(arrived + s, lens[s]) \in Seq(Byte)
  BY <1>5, PacketElements
<1>7. inbox' \in Seq(Seq(Byte)) /\ Len(inbox') = k
  <2>1. inbox' \in [1 .. k -> Seq(Byte)]
    BY <1>4, <1>6
  <2> QED BY <1>2, <2>1
<1>8. OwnSlot' = Slot /\ OwnSlot = Slot
  BY <1>2, <1>4 DEF OwnSlot
<1>9. arrived' \in 0 .. MaxPacket /\ n' \in Slot /\ i' \in Slot /\ i' <= n'
  BY <1>2, <1>4
<1>10. TypeOK'
  BY <1>2, <1>4, <1>7, <1>9 DEF Base, TypeOK, mode, poolVars, readVars
<1>11. LoopShape'
  BY <1>4, <1>7, <1>8, <1>9 DEF Base, LoopShape, mode
<1>12. ReadShape'
  BY <1>4 DEF Base, ReadShape, mode, readVars
<1>13. Base'
  BY <1>10, <1>11, <1>12 DEF Base
<1>14. \A s \in 1 .. n' : inbox'[s] = Packet(arrived + s, lens[s])
  BY <1>4
<1> QED BY <1>4, <1>5, <1>9, <1>13, <1>14

(* The buffer and the packet of the slot that the loop works on.           *)
LEMMA SlotTyped ==
  ASSUME Base, loop = "queue"
  PROVE  /\ buffers[i] \in Buffer /\ i \in OwnSlot /\ batched
         /\ inbox[i] \in Seq(Byte) /\ i \in 1 .. n /\ n \in Nat
<1>1. /\ i \in Slot /\ n \in Slot /\ i <= n /\ Slot = 1 .. Batchs
      /\ Batchs \in Nat \ {0} /\ inbox \in Seq(Seq(Byte)) /\ Len(inbox) = n
      /\ buffers \in [Slot -> Buffer \cup {NoBuffer}] /\ batched
  BY ConstantsTyped DEF Base, TypeOK, LoopShape, Slot
<1>2. i \in OwnSlot
  BY <1>1 DEF OwnSlot
<1>3. buffers[i] # NoBuffer
  BY <1>2 DEF Base, LoopShape
<1> QED BY <1>1, <1>2, <1>3

LEMMA PutRxQueue2Base == Base /\ Running /\ PutRxQueue2 => Base'
<1> SUFFICES ASSUME Base, Running, PutRxQueue2 PROVE Base'
  OBVIOUS
<1> DEFINE b == buffers[i]
           p == inbox[i]
<1>1. b \in Buffer /\ p \in Seq(Byte) /\ batched /\ loop = "queue"
  BY SlotTyped DEF PutRxQueue2
<1>2. NextSlot /\ UNCHANGED <<mode, buffers, n, arrived, readVars, rxqueueB, dead>>
  BY DEF PutRxQueue2, Running
<1>3. \/ /\ Len(rxqueue) < QueueLen
         /\ rxqueue' = Append(rxqueue, b)
         /\ buf' = [buf EXCEPT ![b].data = @ \o p]
         /\ stream' = stream \o p
         /\ UNCHANGED <<pool, panic>>
      \/ Release(b) /\ UNCHANGED <<rxqueue, stream>>
  BY DEF PutRxQueue2
<1> HIDE DEF b, p
<1>4. /\ i' \in Slot /\ i' <= n /\ loop' \in {"queue", "fill"}
      /\ inbox' \in Seq(Seq(Byte)) /\ Len(inbox') <= Batchs
      /\ loop' = "queue" => inbox' = inbox
      /\ OwnSlot' = OwnSlot \ {i}
  BY <1>1, <1>2, NextSlotKeeps
<1>5. /\ buf' \in [Buffer -> BufferRecord] /\ pool' \subseteq Buffer
      /\ panic' \in BOOLEAN
      /\ rxqueue' \in Seq(Buffer) /\ Len(rxqueue') <= QueueLen
      /\ stream' \in Seq(Byte)
  <2>1. /\ buf \in [Buffer -> BufferRecord] /\ pool \subseteq Buffer
        /\ panic \in BOOLEAN /\ stream \in Seq(Byte)
        /\ rxqueue \in Seq(Buffer) /\ Len(rxqueue) <= QueueLen
        /\ QueueLen \in Nat
    BY ConstantsTyped DEF Base, TypeOK, BufferRecord
  <2>2. CASE /\ Len(rxqueue) < QueueLen
             /\ rxqueue' = Append(rxqueue, b)
             /\ buf' = [buf EXCEPT ![b].data = @ \o p]
             /\ stream' = stream \o p
             /\ UNCHANGED <<pool, panic>>
    <3>1. rxqueue' \in Seq(Buffer) /\ Len(rxqueue') <= QueueLen
      BY <1>1, <2>1, <2>2, AppendElements
    <3>2. stream' \in Seq(Byte)
      BY <1>1, <2>1, <2>2, ConcatElements
    <3>3. buf[b].data \o p \in Seq(Byte)
      BY <1>1, <2>1, ConcatElements DEF BufferRecord
    <3>4. [buf[b] EXCEPT !.data = buf[b].data \o p] \in BufferRecord
      <4>1. buf[b] \in BufferRecord
        BY <1>1, <2>1
      <4> QED BY <3>3, <4>1 DEF BufferRecord
    <3>5. buf' = [buf EXCEPT ![b] = [buf[b] EXCEPT !.data = buf[b].data \o p]]
      BY <2>2
    <3>6. buf' \in [Buffer -> BufferRecord]
      BY <1>1, <2>1, <3>4, <3>5
    <3> QED BY <2>1, <2>2, <3>1, <3>2, <3>6
  <2>3. CASE Release(b) /\ UNCHANGED <<rxqueue, stream>>
    BY <1>1, <2>1, <2>3, ReleaseTyped DEF Base
  <2> QED BY <1>3, <2>2, <2>3
<1>6. TypeOK'
  BY <1>2, <1>4, <1>5 DEF Base, TypeOK, BufferRecord, mode, readVars
<1>7. LoopShape'
  BY <1>1, <1>2, <1>4 DEF Base, LoopShape, mode
<1>8. ReadShape'
  BY <1>2 DEF Base, ReadShape, mode, readVars
<1> QED BY <1>6, <1>7, <1>8 DEF Base

LEMMA DiscardBase == Base /\ Running /\ Discard => Base'
<1> SUFFICES ASSUME Base, Running, Discard PROVE Base'
  OBVIOUS
<1>1. /\ loop = "queue" /\ batched /\ NextSlot
      /\ UNCHANGED <<mode, poolVars, buffers, n, arrived, readVars, rxqueue,
                     rxqueueB, stream, dead, panic>>
  BY SlotTyped DEF Discard, Running
<1>2. /\ i' \in Slot /\ i' <= n /\ loop' \in {"queue", "fill"}
      /\ inbox' \in Seq(Seq(Byte)) /\ Len(inbox') <= Batchs
      /\ loop' = "queue" => inbox' = inbox
      /\ OwnSlot' = OwnSlot \ {i}
  BY <1>1, NextSlotKeeps
<1>3. TypeOK'
  BY <1>1, <1>2 DEF Base, TypeOK, mode, poolVars, readVars
<1>4. LoopShape'
  BY <1>1, <1>2 DEF Base, LoopShape, mode
<1>5. ReadShape'
  BY <1>1 DEF Base, ReadShape, mode, readVars
<1> QED BY <1>3, <1>4, <1>5 DEF Base

LEMMA ReadFailsBase == Base /\ Running /\ ReadFails => Base'
<1> SUFFICES ASSUME Base, Running, ReadFails PROVE Base'
  OBVIOUS
<1>1. /\ loop = "read" /\ loop' = "quit" /\ dead' = TRUE
      /\ UNCHANGED <<mode, poolVars, buffers, n, i, inbox, arrived, readVars,
                     rxqueue, rxqueueB, stream, panic>>
  BY DEF ReadFails, Running
<1>2. TypeOK'
  BY <1>1 DEF Base, TypeOK, mode, poolVars, readVars
<1>3. LoopShape'
  BY <1>1 DEF Base, LoopShape, OwnSlot, mode
<1>4. ReadShape'
  BY <1>1 DEF Base, ReadShape, mode, readVars
<1> QED BY <1>2, <1>3, <1>4 DEF Base

(* A packet that just arrived. *)
LEMMA NewPacket ==
  ASSUME TypeOK, arrived < MaxPacket, arrived' = arrived + 1, NEW len \in Lens
  PROVE  /\ arrived \in Nat /\ arrived' \in 1 .. MaxPacket
         /\ arrived' \in 0 .. MaxPacket
         /\ Packet(arrived', len) \in Seq(Byte)
<1>1. arrived \in Nat /\ arrived' \in 1 .. MaxPacket /\ arrived' \in 0 .. MaxPacket
  BY ConstantsTyped DEF TypeOK
<1> QED BY <1>1, PacketElements

LEMMA HandlePacketBase ==
  \A len \in Lens : Base /\ Running /\ HandlePacket(len) => Base'
<1> SUFFICES ASSUME NEW len \in Lens, Base, Running, HandlePacket(len) PROVE Base'
  OBVIOUS
<1> DEFINE p == Packet(arrived', len)
<1>1. /\ ~ batched /\ arrived < MaxPacket /\ arrived' = arrived + 1
      /\ \/ /\ Len(rxqueueB) < QueueLen
            /\ rxqueueB' = Append(rxqueueB, p) /\ stream' = stream \o p
         \/ UNCHANGED <<rxqueueB, stream>>
      /\ UNCHANGED <<mode, poolVars, buffers, loop, n, i, inbox, readVars, rxqueue,
                     dead, panic>>
  BY DEF HandlePacket, Running
<1>2. arrived' \in 0 .. MaxPacket /\ p \in Seq(Byte)
  BY <1>1, NewPacket DEF Base
<1> HIDE DEF p
<1>3. /\ rxqueueB' \in Seq(Seq(Byte)) /\ Len(rxqueueB') <= QueueLen
      /\ stream' \in Seq(Byte)
  <2>1. /\ rxqueueB \in Seq(Seq(Byte)) /\ Len(rxqueueB) <= QueueLen
        /\ stream \in Seq(Byte) /\ QueueLen \in Nat
    BY ConstantsTyped DEF Base, TypeOK
  <2>2. /\ Append(rxqueueB, p) \in Seq(Seq(Byte))
        /\ Len(Append(rxqueueB, p)) = Len(rxqueueB) + 1 /\ Len(rxqueueB) \in Nat
    BY <1>2, <2>1, AppendElements
  <2>3. stream \o p \in Seq(Byte)
    BY <1>2, <2>1, ConcatElements
  <2>4. Len(rxqueueB) < QueueLen => Len(rxqueueB) + 1 <= QueueLen
    BY <2>1, <2>2
  <2>5. CASE UNCHANGED <<rxqueueB, stream>>
    BY <2>1, <2>5
  <2>6. CASE /\ Len(rxqueueB) < QueueLen
             /\ rxqueueB' = Append(rxqueueB, p) /\ stream' = stream \o p
    BY <2>2, <2>3, <2>4, <2>6
  <2> QED BY <1>1, <2>5, <2>6
<1>4. TypeOK'
  BY <1>1, <1>2, <1>3 DEF Base, TypeOK, mode, poolVars, readVars
<1>5. LoopShape'
  BY <1>1 DEF Base, LoopShape, OwnSlot, mode
<1>6. ReadShape'
  BY <1>1 DEF Base, ReadShape, mode, readVars
<1> QED BY <1>4, <1>5, <1>6 DEF Base

(* What ListenerPut does, when the pool is in order or when it is not.     *)
LEMMA ListenerPutCases ==
  ASSUME NEW len \in Lens, Base, Running, ListenerPut(len)
  PROVE  LET b == Chosen
             p == Packet(arrived', len)
         IN /\ b \in Buffer /\ b \in Free /\ batched /\ p \in Seq(Byte)
            /\ arrived \in Nat /\ arrived' = arrived + 1
            /\ arrived' \in 1 .. MaxPacket /\ arrived' \in 0 .. MaxPacket
            /\ \/ /\ b \in pool /\ buf[b] # Clean /\ panic' = TRUE
                  /\ UNCHANGED <<poolVars, rxqueue, stream>>
               \/ /\ Len(rxqueue) < QueueLen
                  /\ pool' = pool \ {b}
                  /\ buf' = [buf EXCEPT ![b] = [ref |-> 1, data |-> p, roffset |-> 0]]
                  /\ rxqueue' = Append(rxqueue, b)
                  /\ stream' = stream \o p
                  /\ UNCHANGED panic
               \/ /\ pool' = pool \cup {b}
                  /\ buf' = [buf EXCEPT ![b] = Clean]
                  /\ UNCHANGED <<rxqueue, stream, panic>>
            /\ UNCHANGED <<mode, buffers, loop, n, i, inbox, readVars, rxqueueB, dead>>
<1> DEFINE b == Chosen
           p == Packet(arrived', len)
<1>1. b \in Buffer /\ b \in Free
  BY ChosenIsFree DEF ListenerPut, Base
<1>2. /\ arrived \in Nat /\ arrived' \in 1 .. MaxPacket
      /\ arrived' \in 0 .. MaxPacket /\ p \in Seq(Byte)
      /\ arrived' = arrived + 1
  BY NewPacket DEF ListenerPut, Base
<1>4. /\ batched
      /\ UNCHANGED <<mode, buffers, loop, n, i, inbox, readVars, rxqueueB, dead>>
  <2>1. batched /\ UNCHANGED <<buffers, loop, n, i, inbox, readVars, rxqueueB, dead>>
    BY Zenon DEF ListenerPut
  <2>2. UNCHANGED mode
    BY DEF Running
  <2> QED BY <2>1, <2>2
<1>5. IF b \in pool /\ buf[b] # Clean
        THEN panic' = TRUE /\ UNCHANGED <<poolVars, rxqueue, stream>>
      ELSE IF Len(rxqueue) < QueueLen
        THEN /\ pool' = pool \ {b}
             /\ buf' = [buf EXCEPT ![b] = [ref |-> 1, data |-> p, roffset |-> 0]]
             /\ rxqueue' = Append(rxqueue, b)
             /\ stream' = stream \o p
             /\ UNCHANGED panic
      ELSE /\ pool' = pool \cup {b}
           /\ buf' = [buf EXCEPT ![b] = Clean]
           /\ UNCHANGED <<rxqueue, stream, panic>>
  BY DEF ListenerPut
<1> HIDE DEF b, p
<1>6. \/ /\ b \in pool /\ buf[b] # Clean /\ panic' = TRUE
         /\ UNCHANGED <<poolVars, rxqueue, stream>>
      \/ /\ Len(rxqueue) < QueueLen
         /\ pool' = pool \ {b}
         /\ buf' = [buf EXCEPT ![b] = [ref |-> 1, data |-> p, roffset |-> 0]]
         /\ rxqueue' = Append(rxqueue, b)
         /\ stream' = stream \o p
         /\ UNCHANGED panic
      \/ /\ pool' = pool \cup {b}
         /\ buf' = [buf EXCEPT ![b] = Clean]
         /\ UNCHANGED <<rxqueue, stream, panic>>
  BY <1>5
<1> QED BY <1>1, <1>2, <1>4, <1>6 DEF b, p

LEMMA ListenerPutBase ==
  \A len \in Lens : Base /\ Running /\ ListenerPut(len) => Base'
<1> SUFFICES ASSUME NEW len \in Lens, Base, Running, ListenerPut(len) PROVE Base'
  OBVIOUS
<1> DEFINE b == Chosen
           p == Packet(arrived', len)
<1>1. /\ b \in Buffer /\ batched /\ p \in Seq(Byte) /\ arrived' \in 0 .. MaxPacket
      /\ \/ panic' = TRUE /\ UNCHANGED <<poolVars, rxqueue, stream>>
         \/ /\ Len(rxqueue) < QueueLen
            /\ pool' = pool \ {b}
            /\ buf' = [buf EXCEPT ![b] = [ref |-> 1, data |-> p, roffset |-> 0]]
            /\ rxqueue' = Append(rxqueue, b)
            /\ stream' = stream \o p
            /\ UNCHANGED panic
         \/ /\ pool' = pool \cup {b}
            /\ buf' = [buf EXCEPT ![b] = Clean]
            /\ UNCHANGED <<rxqueue, stream, panic>>
      /\ UNCHANGED <<mode, buffers, loop, n, i, inbox, readVars, rxqueueB, dead>>
  BY ListenerPutCases
<1> HIDE DEF b, p
<1>2. /\ buf \in [Buffer -> BufferRecord] /\ pool \subseteq Buffer
      /\ panic \in BOOLEAN /\ stream \in Seq(Byte)
      /\ rxqueue \in Seq(Buffer) /\ Len(rxqueue) <= QueueLen
      /\ QueueLen \in Nat
  BY ConstantsTyped DEF Base, TypeOK, BufferRecord
<1>3. [ref |-> 1, data |-> p, roffset |-> 0] \in BufferRecord
  BY <1>1 DEF BufferRecord
<1>4. /\ Append(rxqueue, b) \in Seq(Buffer)
      /\ Len(Append(rxqueue, b)) = Len(rxqueue) + 1 /\ Len(rxqueue) \in Nat
      /\ stream \o p \in Seq(Byte)
  BY <1>1, <1>2, AppendElements, ConcatElements
<1>5. /\ buf' \in [Buffer -> BufferRecord] /\ pool' \subseteq Buffer
      /\ panic' \in BOOLEAN /\ stream' \in Seq(Byte)
      /\ rxqueue' \in Seq(Buffer) /\ Len(rxqueue') <= QueueLen
  <2>1. CASE panic' = TRUE /\ UNCHANGED <<poolVars, rxqueue, stream>>
    BY <1>2, <2>1 DEF poolVars
  <2>2. CASE /\ Len(rxqueue) < QueueLen
             /\ pool' = pool \ {b}
             /\ buf' = [buf EXCEPT ![b] = [ref |-> 1, data |-> p, roffset |-> 0]]
             /\ rxqueue' = Append(rxqueue, b)
             /\ stream' = stream \o p
             /\ UNCHANGED panic
    <3>1. Len(rxqueue) + 1 <= QueueLen
      BY <1>2, <1>4, <2>2
    <3>2. buf' \in [Buffer -> BufferRecord]
      BY <1>2, <1>3, <2>2
    <3> QED BY <1>2, <1>4, <2>2, <3>1, <3>2
  <2>3. CASE /\ pool' = pool \cup {b}
             /\ buf' = [buf EXCEPT ![b] = Clean]
             /\ UNCHANGED <<rxqueue, stream, panic>>
    BY <1>1, <1>2, <2>3, BufferTyped
  <2> QED BY <1>1, <2>1, <2>2, <2>3
<1>6. TypeOK'
  BY <1>1, <1>5 DEF Base, TypeOK, BufferRecord, mode, readVars
<1>7. LoopShape'
  BY <1>1 DEF Base, LoopShape, OwnSlot, mode
<1>8. ReadShape'
  BY <1>1 DEF Base, ReadShape, mode, readVars
<1> QED BY <1>6, <1>7, <1>8 DEF Base

LEMMA CloseBase == Base /\ Running /\ Close => Base'
<1> SUFFICES ASSUME Base, Running, Close PROVE Base'
  OBVIOUS
<1>1. /\ dead' = TRUE
      /\ UNCHANGED <<mode, poolVars, loopVars, readVars, rxqueue, rxqueueB,
                     stream, panic>>
  BY DEF Close, Running
<1>2. TypeOK'
  BY <1>1 DEF Base, TypeOK, mode, poolVars, loopVars, readVars
<1>3. LoopShape'
  BY <1>1 DEF Base, LoopShape, OwnSlot, mode, loopVars
<1>4. ReadShape'
  BY <1>1 DEF Base, ReadShape, mode, readVars
<1> QED BY <1>2, <1>3, <1>4 DEF Base

-----------------------------------------------------------------------------
LEMMA ReadCallBase ==
  \A r \in Reader : Base /\ Running /\ ReadCall(r) => Base'
<1> SUFFICES ASSUME NEW r \in Reader, Base, Running, ReadCall(r) PROVE Base'
  OBVIOUS
<1>1. /\ rpc[r] = "idle"
      /\ rpc' = [rpc EXCEPT ![r] = IF oneshot THEN "select" ELSE "lock"]
      /\ UNCHANGED <<mode, poolVars, loopVars, undrained, mux, held, out,
                     delivered, rxqueue, rxqueueB, stream, dead, panic>>
  BY DEF ReadCall, Running
<1>2. /\ rpc \in [Reader -> {"idle", "lock", "rest", "select", "finish"}]
  BY DEF Base, TypeOK
<1>3. TypeOK'
  BY <1>1, <1>2 DEF Base, TypeOK, mode, poolVars, loopVars
<1>4. LoopShape'
  BY <1>1 DEF Base, LoopShape, OwnSlot, mode, loopVars
<1>5. ReadShape'
  BY <1>1, <1>2 DEF Base, ReadShape, mode
<1> QED BY <1>3, <1>4, <1>5 DEF Base

LEMMA LockBase == \A r \in Reader : Base /\ Running /\ Lock(r) => Base'
<1> SUFFICES ASSUME NEW r \in Reader, Base, Running, Lock(r) PROVE Base'
  OBVIOUS
<1>1. /\ rpc[r] = "lock" /\ mux = NoReader /\ mux' = r
      /\ rpc' = [rpc EXCEPT ![r] = IF undrained = NoBuffer THEN "select" ELSE "rest"]
      /\ UNCHANGED <<mode, poolVars, loopVars, undrained, held, out,
                     delivered, rxqueue, rxqueueB, stream, dead, panic>>
  BY DEF Lock, Running
<1>2. /\ rpc \in [Reader -> {"idle", "lock", "rest", "select", "finish"}]
      /\ \A q \in Reader : q # NoReader
  BY ConstantsTyped DEF Base, TypeOK
<1>3. TypeOK'
  BY <1>1, <1>2 DEF Base, TypeOK, mode, poolVars, loopVars
<1>4. LoopShape'
  BY <1>1 DEF Base, LoopShape, OwnSlot, mode, loopVars
<1>5. ReadShape'
  BY <1>1, <1>2 DEF Base, ReadShape, mode
<1> QED BY <1>3, <1>4, <1>5 DEF Base

(* A Read that leaves: the lock is free, or was not its own.               *)
LEMMA LeaveKeeps ==
  ASSUME Base, NEW r \in Reader, Leave(r), rpc[r] # "idle", UNCHANGED mode,
         undrained' \in Buffer \cup {NoBuffer},
         \/ UNCHANGED undrained
         \/ ~ oneshot /\ batched /\ rpc[r] \in {"rest", "finish"}
  PROVE  /\ ReadShape'
         /\ rpc' \in [Reader -> {"idle", "lock", "rest", "select", "finish"}]
         /\ held' \in [Reader -> Buffer \cup {NoBuffer}]
         /\ mux' \in Reader \cup {NoReader}
         /\ held' = [held EXCEPT ![r] = NoBuffer]
<1>1. /\ rpc' = [rpc EXCEPT ![r] = "idle"]
      /\ held' = [held EXCEPT ![r] = NoBuffer]
      /\ mux' = IF mux = r THEN NoReader ELSE mux
      /\ UNCHANGED <<batched, oneshot>>
  BY DEF Leave, mode
<1>2. /\ rpc \in [Reader -> {"idle", "lock", "rest", "select", "finish"}]
      /\ held \in [Reader -> Buffer \cup {NoBuffer}]
      /\ mux \in Reader \cup {NoReader}
      /\ ReadShape
  BY DEF Base, TypeOK
<1>3. \A q \in Reader :
        /\ rpc'[q] = IF q = r THEN "idle" ELSE rpc[q]
        /\ held'[q] = IF q = r THEN NoBuffer ELSE held[q]
  BY <1>1, <1>2
<1>4. \A q \in Reader : held'[q] # NoBuffer <=> rpc'[q] = "finish"
  BY <1>2, <1>3 DEF ReadShape
<1>5. CASE UNCHANGED undrained
  <2>1. \A q \in Reader : rpc'[q] # "idle" => rpc'[q] = rpc[q] /\ q # r
    BY <1>3
  <2>2. \A q \in Reader : rpc'[q] = "rest" => undrained' # NoBuffer
    BY <1>2, <1>5, <2>1 DEF ReadShape
  <2>3. oneshot => undrained' = NoBuffer
                   /\ \A q \in Reader : rpc'[q] \notin {"lock", "rest"}
    BY <1>2, <1>5, <2>1 DEF ReadShape
  <2>4. ~ oneshot => \A q \in Reader :
          /\ rpc'[q] \in {"rest", "select", "finish"} => mux' = q
          /\ rpc'[q] \in {"select", "finish"} => undrained' = NoBuffer
    BY <1>1, <1>2, <1>5, <2>1 DEF ReadShape
  <2>5. ~ batched => undrained' = NoBuffer /\ \A q \in Reader : rpc'[q] # "finish"
    BY <1>2, <1>5, <2>1 DEF ReadShape
  <2>6. ReadShape'
    BY <1>1, <1>4, <2>2, <2>3, <2>4, <2>5 DEF ReadShape
  <2> QED BY <1>1, <1>2, <2>6
<1>6. CASE ~ oneshot /\ batched /\ rpc[r] \in {"rest", "finish"}
  <2>1. \A q \in Reader : rpc'[q] \notin {"rest", "select", "finish"}
    BY <1>2, <1>3, <1>6 DEF ReadShape
  <2> QED BY <1>1, <1>2, <1>4, <1>6, <2>1 DEF ReadShape
<1> QED BY <1>5, <1>6

LEMMA ReturnTyped ==
  ASSUME TypeOK, NEW r \in Reader, NEW data \in Seq(Byte),
         NEW short \in BOOLEAN, Return(r, data, short)
  PROVE  /\ out' \in Seq(Result) /\ delivered' \in Seq(Byte) /\ Leave(r)
<1>1. [data |-> data, short |-> short] \in Result
  BY DEF Result
<1>2. out \in Seq(Result) /\ delivered \in Seq(Byte)
  BY DEF TypeOK, Result
<1>3. /\ out' = Append(out, [data |-> data, short |-> short])
      /\ delivered' = delivered \o data /\ Leave(r)
  BY DEF Return
<1>4. out' \in Seq(Result)
  BY <1>1, <1>2, <1>3, AppendElements
<1>5. delivered' \in Seq(Byte)
  BY <1>2, <1>3, ConcatElements
<1> QED BY <1>3, <1>4, <1>5

(* A buffer whose offset moved. *)
LEMMA AdvanceTyped ==
  ASSUME TypeOK, NEW b \in Buffer, NEW k \in Nat,
         buf' = [buf EXCEPT ![b].roffset = @ + k]
  PROVE  /\ buf' \in [Buffer -> BufferRecord]
         /\ buf'[b] = [buf[b] EXCEPT !.roffset = buf[b].roffset + k]
         /\ buf'[b].ref = buf[b].ref /\ buf'[b].data = buf[b].data
         /\ buf'[b].roffset = buf[b].roffset + k /\ buf[b].roffset \in Nat
         /\ \A c \in Buffer : c # b => buf'[c] = buf[c]
<1>1. buf \in [Buffer -> BufferRecord] /\ buf[b] \in BufferRecord
  BY DEF TypeOK, BufferRecord
<1>2. buf[b].roffset + k \in Nat /\ buf[b].roffset \in Nat
  BY <1>1 DEF BufferRecord
<1>3. [buf[b] EXCEPT !.roffset = buf[b].roffset + k] \in BufferRecord
  BY <1>1, <1>2 DEF BufferRecord
<1>4. buf' = [buf EXCEPT ![b] = [buf[b] EXCEPT !.roffset = buf[b].roffset + k]]
  OBVIOUS
<1>5. /\ buf'[b] = [buf[b] EXCEPT !.roffset = buf[b].roffset + k]
      /\ \A c \in Buffer : c # b => buf'[c] = buf[c]
  BY <1>1, <1>4
<1>6. /\ buf'[b].ref = buf[b].ref /\ buf'[b].data = buf[b].data
      /\ buf'[b].roffset = buf[b].roffset + k
  BY <1>1, <1>5 DEF BufferRecord
<1> QED BY <1>1, <1>2, <1>3, <1>4, <1>5, <1>6

(* What ReadRest does: the packet is read to its end, or a bit further.    *)
LEMMA ReadRestCases ==
  ASSUME NEW r \in Reader, Base, Running, ReadRest(r)
  PROVE  LET rest == unread(undrained)
             data == Prefix(rest, Slice[r])
         IN /\ undrained \in Buffer /\ ~ oneshot /\ batched
            /\ rpc[r] = "rest" /\ mux = r
            /\ rest \in Seq(Byte) /\ data \in Seq(Byte)
            /\ Len(data) \in Nat /\ Len(data) <= Len(rest)
            /\ \/ /\ Len(data) = Len(rest)
                  /\ Release(undrained) /\ undrained' = NoBuffer
               \/ /\ Len(data) < Len(rest) /\ Len(data) = Slice[r]
                  /\ buf' = [buf EXCEPT ![undrained].roffset = @ + Len(data)]
                  /\ UNCHANGED <<pool, undrained, panic>>
            /\ Return(r, data, FALSE)
            /\ UNCHANGED <<mode, loopVars, rxqueue, rxqueueB, stream, dead>>
<1> DEFINE rest == unread(undrained)
           data == Prefix(rest, Slice[r])
<1>1. /\ rpc[r] = "rest" /\ undrained \in Buffer /\ ~ oneshot /\ batched
      /\ mux = r /\ Slice[r] \in Nat
  BY ConstantsTyped DEF ReadRest, Base, TypeOK, ReadShape
<1>2. rest \in Seq(Byte)
  BY <1>1, UnreadTyped DEF Base
<1>3. /\ IF Len(data) = Len(rest)
           THEN Release(undrained) /\ undrained' = NoBuffer
           ELSE /\ buf' = [buf EXCEPT ![undrained].roffset = @ + Len(data)]
                /\ UNCHANGED <<pool, undrained, panic>>
      /\ Return(r, data, FALSE)
      /\ UNCHANGED <<loopVars, rxqueue, rxqueueB, stream, dead>>
  BY DEF ReadRest
<1>4. UNCHANGED mode
  BY DEF Running
<1>5. data \in Seq(Byte) /\ Len(data) = IF Slice[r] < Len(rest) THEN Slice[r] ELSE Len(rest)
  <2> HIDE DEF rest
  <2> QED BY <1>1, <1>2, PrefixElements
<1> HIDE DEF rest, data
<1>6. /\ Len(rest) \in Nat /\ Len(data) \in Nat /\ Len(data) <= Len(rest)
      /\ Len(data) # Len(rest) => Len(data) < Len(rest) /\ Len(data) = Slice[r]
  BY <1>1, <1>2, <1>5
<1>7. \/ /\ Len(data) = Len(rest)
         /\ Release(undrained) /\ undrained' = NoBuffer
      \/ /\ Len(data) < Len(rest) /\ Len(data) = Slice[r]
         /\ buf' = [buf EXCEPT ![undrained].roffset = @ + Len(data)]
         /\ UNCHANGED <<pool, undrained, panic>>
  BY <1>3, <1>6
<1>8. UNCHANGED <<mode, loopVars, rxqueue, rxqueueB, stream, dead>>
  BY <1>3, <1>4
<1> QED BY <1>1, <1>2, <1>3, <1>5, <1>6, <1>7, <1>8 DEF rest, data

LEMMA ReadRestBase == \A r \in Reader : Base /\ Running /\ ReadRest(r) => Base'
<1> SUFFICES ASSUME NEW r \in Reader, Base, Running, ReadRest(r) PROVE Base'
  OBVIOUS
<1> DEFINE rest == unread(undrained)
           data == Prefix(rest, Slice[r])
<1>1. /\ undrained \in Buffer /\ ~ oneshot /\ batched /\ rpc[r] = "rest"
      /\ data \in Seq(Byte) /\ Len(data) \in Nat
      /\ \/ Release(undrained) /\ undrained' = NoBuffer
         \/ /\ buf' = [buf EXCEPT ![undrained].roffset = @ + Len(data)]
            /\ UNCHANGED <<pool, undrained, panic>>
      /\ Return(r, data, FALSE)
      /\ UNCHANGED <<mode, loopVars, rxqueue, rxqueueB, stream, dead>>
  BY ReadRestCases
<1> HIDE DEF rest, data
<1>2. out' \in Seq(Result) /\ delivered' \in Seq(Byte) /\ Leave(r)
  BY <1>1, ReturnTyped DEF Base
<1>3. /\ buf' \in [Buffer -> BufferRecord] /\ pool' \subseteq Buffer
      /\ panic' \in BOOLEAN /\ undrained' \in Buffer \cup {NoBuffer}
  <2>1. CASE Release(undrained) /\ undrained' = NoBuffer
    BY <1>1, <2>1, ReleaseTyped DEF Base
  <2>2. CASE /\ buf' = [buf EXCEPT ![undrained].roffset = @ + Len(data)]
             /\ UNCHANGED <<pool, undrained, panic>>
    <3>1. buf' \in [Buffer -> BufferRecord]
      BY <1>1, <2>2, AdvanceTyped DEF Base
    <3> QED BY <1>1, <2>2, <3>1 DEF Base, TypeOK
  <2> QED BY <1>1, <2>1, <2>2
<1>4. UNCHANGED mode /\ rpc[r] # "idle"
  BY <1>1
<1>5. /\ ReadShape'
      /\ rpc' \in [Reader -> {"idle", "lock", "rest", "select", "finish"}]
      /\ held' \in [Reader -> Buffer \cup {NoBuffer}]
      /\ mux' \in Reader \cup {NoReader}
  BY <1>1, <1>2, <1>3, <1>4, LeaveKeeps
<1>6. TypeOK'
  BY <1>1, <1>2, <1>3, <1>5 DEF Base, TypeOK, Result, BufferRecord, mode, loopVars
<1>7. LoopShape'
  BY <1>1 DEF Base, LoopShape, OwnSlot, mode, loopVars
<1> QED BY <1>5, <1>6, <1>7 DEF Base

LEMMA TakeBase == \A r \in Reader : Base /\ Running /\ Take(r) => Base'
<1> SUFFICES ASSUME NEW r \in Reader, Base, Running, Take(r) PROVE Base'
  OBVIOUS
<1>1. /\ rpc[r] = "select" /\ rxqueue # <<>> /\ rxqueue' = Tail(rxqueue)
      /\ held' = [held EXCEPT ![r] = Head(rxqueue)]
      /\ rpc' = [rpc EXCEPT ![r] = "finish"]
      /\ UNCHANGED <<mode, poolVars, loopVars, undrained, mux, out, delivered,
                     rxqueueB, stream, dead, panic>>
  BY DEF Take, Running
<1>2. /\ rpc \in [Reader -> {"idle", "lock", "rest", "select", "finish"}]
      /\ held \in [Reader -> Buffer \cup {NoBuffer}]
      /\ rxqueue \in Seq(Buffer) /\ Len(rxqueue) <= QueueLen /\ QueueLen \in Nat
      /\ batched
  BY <1>1, ConstantsTyped DEF Base, TypeOK, LoopShape
<1>3. /\ Head(rxqueue) \in Buffer /\ Head(rxqueue) # NoBuffer
      /\ rxqueue' \in Seq(Buffer) /\ Len(rxqueue') <= QueueLen
  BY <1>1, <1>2, TailElements, BufferTyped
<1>4. TypeOK'
  BY <1>1, <1>2, <1>3 DEF Base, TypeOK, mode, poolVars, loopVars
<1>5. LoopShape'
  BY <1>1, <1>2 DEF Base, LoopShape, OwnSlot, mode, loopVars
<1>6. ReadShape'
  <2> DEFINE b == Head(rxqueue)
  <2>1. \A q \in Reader :
          /\ rpc'[q] = IF q = r THEN "finish" ELSE rpc[q]
          /\ held'[q] = IF q = r THEN b ELSE held[q]
    BY <1>1, <1>2
  <2>2. b # NoBuffer
    BY <1>3
  <2> HIDE DEF b
  <2>3. UNCHANGED <<batched, oneshot, undrained, mux>>
    BY <1>1 DEF mode
  <2> QED BY <1>1, <1>2, <2>1, <2>2, <2>3 DEF Base, ReadShape
<1> QED BY <1>4, <1>5, <1>6 DEF Base

LEMMA TakeBBase == \A r \in Reader : Base /\ Running /\ TakeB(r) => Base'
<1> SUFFICES ASSUME NEW r \in Reader, Base, Running, TakeB(r) PROVE Base'
  OBVIOUS
<1> DEFINE data == Prefix(Head(rxqueueB), Slice[r])
<1>1. /\ rpc[r] = "select" /\ rxqueueB # <<>> /\ rxqueueB' = Tail(rxqueueB)
      /\ Return(r, data, FALSE)
      /\ UNCHANGED <<mode, poolVars, loopVars, undrained, rxqueue, stream, dead,
                     panic>>
  BY DEF TakeB, Running
<1>2. /\ rxqueueB \in Seq(Seq(Byte)) /\ Len(rxqueueB) <= QueueLen
      /\ QueueLen \in Nat /\ ~ batched /\ Slice[r] \in Nat
  BY <1>1, ConstantsTyped DEF Base, TypeOK, LoopShape
<1>3. /\ Head(rxqueueB) \in Seq(Byte)
      /\ rxqueueB' \in Seq(Seq(Byte)) /\ Len(rxqueueB') <= QueueLen
  BY <1>1, <1>2, TailElements
<1>4. data \in Seq(Byte)
  BY <1>2, <1>3, PrefixElements
<1> HIDE DEF data
<1>5. out' \in Seq(Result) /\ delivered' \in Seq(Byte) /\ Leave(r)
  BY <1>1, <1>4, ReturnTyped DEF Base
<1>6. /\ ReadShape'
      /\ rpc' \in [Reader -> {"idle", "lock", "rest", "select", "finish"}]
      /\ held' \in [Reader -> Buffer \cup {NoBuffer}]
      /\ mux' \in Reader \cup {NoReader}
  <2>1. UNCHANGED mode /\ rpc[r] # "idle" /\ UNCHANGED undrained
        /\ undrained' \in Buffer \cup {NoBuffer}
    BY <1>1 DEF Base, TypeOK
  <2> QED BY <1>5, <2>1, LeaveKeeps
<1>7. TypeOK'
  BY <1>1, <1>3, <1>5, <1>6 DEF Base, TypeOK, Result, mode, poolVars, loopVars
<1>8. LoopShape'
  BY <1>1, <1>2 DEF Base, LoopShape, OwnSlot, mode, loopVars
<1> QED BY <1>6, <1>7, <1>8 DEF Base

LEMMA ReadDeadBase == \A r \in Reader : Base /\ Running /\ ReadDead(r) => Base'
<1> SUFFICES ASSUME NEW r \in Reader, Base, Running, ReadDead(r) PROVE Base'
  OBVIOUS
<1>1. /\ rpc[r] = "select" /\ Leave(r)
      /\ UNCHANGED <<mode, poolVars, loopVars, undrained, out, delivered, rxqueue,
                     rxqueueB, stream, dead, panic>>
  BY DEF ReadDead, Running
<1>2. /\ ReadShape'
      /\ rpc' \in [Reader -> {"idle", "lock", "rest", "select", "finish"}]
      /\ held' \in [Reader -> Buffer \cup {NoBuffer}]
      /\ mux' \in Reader \cup {NoReader}
  <2>1. UNCHANGED mode /\ rpc[r] # "idle" /\ UNCHANGED undrained
        /\ undrained' \in Buffer \cup {NoBuffer}
    BY <1>1 DEF Base, TypeOK
  <2> QED BY <1>1, <2>1, LeaveKeeps
<1>3. TypeOK'
  BY <1>1, <1>2 DEF Base, TypeOK, mode, poolVars, loopVars
<1>4. LoopShape'
  BY <1>1 DEF Base, LoopShape, OwnSlot, mode, loopVars
<1> QED BY <1>2, <1>3, <1>4 DEF Base

(* What Finish does. The assertion that it finds nothing undrained holds:  *)
(* in stream mode it has the lock, and looked after it took it.            *)
LEMMA FinishCases ==
  ASSUME NEW r \in Reader, Base, Running, Finish(r)
  PROVE  LET b == held[r]
             rest == unread(b)
             data == Prefix(rest, Slice[r])
             whole == left(r) = <<>>
         IN /\ b \in Buffer /\ undrained = NoBuffer /\ batched
            /\ rpc[r] = "finish" /\ (~ oneshot => mux = r)
            /\ rest \in Seq(Byte) /\ data \in Seq(Byte)
            /\ Slice[r] \in Nat \ {0} /\ Len(rest) \in Nat
            /\ whole \in BOOLEAN /\ (whole <=> Len(rest) <= Slice[r])
            /\ \/ /\ oneshot \/ whole
                  /\ Release(b) /\ UNCHANGED undrained
               \/ /\ ~ oneshot /\ ~ whole /\ Slice[r] < Len(rest)
                  /\ Len(data) = Slice[r]
                  /\ undrained' = b
                  /\ buf' = [buf EXCEPT ![b].roffset = @ + Slice[r]]
                  /\ UNCHANGED <<pool, panic>>
            /\ Return(r, data, oneshot /\ ~ whole)
            /\ UNCHANGED <<mode, loopVars, rxqueue, rxqueueB, stream, dead>>
<1> DEFINE b == held[r]
           rest == unread(b)
           data == Prefix(rest, Slice[r])
           whole == left(r) = <<>>
<1>1. /\ rpc[r] = "finish" /\ b \in Buffer /\ Slice[r] \in Nat \ {0}
      /\ batched /\ undrained = NoBuffer /\ (~ oneshot => mux = r)
  BY ConstantsTyped DEF Finish, Base, TypeOK, ReadShape
<1>2. rest \in Seq(Byte)
  BY <1>1, UnreadTyped DEF Base
<1>3. whole <=> Len(rest) <= Slice[r]
  <2>1. left(r) = SubSeq(rest, Slice[r] + 1, Len(rest))
    BY DEF left
  <2> HIDE DEF rest
  <2> QED BY <1>1, <1>2, <2>1, RestTyped
<1>4. /\ data \in Seq(Byte) /\ Len(rest) \in Nat
      /\ Len(data) = IF Slice[r] < Len(rest) THEN Slice[r] ELSE Len(rest)
  <2> HIDE DEF rest
  <2> QED BY <1>1, <1>2, PrefixElements
<1>5. /\ IF oneshot \/ whole
           THEN Release(b) /\ UNCHANGED undrained
           ELSE /\ undrained' = b
                /\ buf' = [buf EXCEPT ![b].roffset = @ + Slice[r]]
                /\ UNCHANGED <<pool, panic>>
      /\ Return(r, data, oneshot /\ ~ whole)
      /\ UNCHANGED <<loopVars, rxqueue, rxqueueB, stream, dead>>
  BY <1>1 DEF Finish
<1>6. UNCHANGED mode
  BY DEF Running
<1>7. whole \in BOOLEAN
  OBVIOUS
<1> HIDE DEF b, rest, data, whole
<1>8. ~ whole => Slice[r] < Len(rest) /\ Len(data) = Slice[r]
  BY <1>1, <1>3, <1>4
<1>9. \/ /\ oneshot \/ whole
         /\ Release(b) /\ UNCHANGED undrained
      \/ /\ ~ oneshot /\ ~ whole /\ Slice[r] < Len(rest)
         /\ Len(data) = Slice[r]
         /\ undrained' = b
         /\ buf' = [buf EXCEPT ![b].roffset = @ + Slice[r]]
         /\ UNCHANGED <<pool, panic>>
  BY <1>5, <1>8
<1>10. UNCHANGED <<mode, loopVars, rxqueue, rxqueueB, stream, dead>>
  BY <1>5, <1>6
<1>11. Return(r, data, oneshot /\ ~ whole)
  BY <1>5
<1> QED BY <1>1, <1>2, <1>3, <1>4, <1>7, <1>9, <1>10, <1>11
        DEF b, rest, data, whole

LEMMA FinishBase == \A r \in Reader : Base /\ Running /\ Finish(r) => Base'
<1> SUFFICES ASSUME NEW r \in Reader, Base, Running, Finish(r) PROVE Base'
  OBVIOUS
<1> DEFINE b == held[r]
           data == Prefix(unread(b), Slice[r])
           short == oneshot /\ ~ (left(r) = <<>>)
<1>1. /\ b \in Buffer /\ undrained = NoBuffer /\ batched /\ rpc[r] = "finish"
      /\ data \in Seq(Byte) /\ Slice[r] \in Nat
      /\ \/ Release(b) /\ UNCHANGED undrained
         \/ /\ ~ oneshot /\ undrained' = b
            /\ buf' = [buf EXCEPT ![b].roffset = @ + Slice[r]]
            /\ UNCHANGED <<pool, panic>>
      /\ Return(r, data, short)
      /\ UNCHANGED <<mode, loopVars, rxqueue, rxqueueB, stream, dead>>
  BY FinishCases
<1>2. short \in BOOLEAN
  BY DEF Base, TypeOK
<1> HIDE DEF b, data, short
<1>3. out' \in Seq(Result) /\ delivered' \in Seq(Byte) /\ Leave(r)
  BY <1>1, <1>2, ReturnTyped DEF Base
<1>4. /\ buf' \in [Buffer -> BufferRecord] /\ pool' \subseteq Buffer
      /\ panic' \in BOOLEAN /\ undrained' \in Buffer \cup {NoBuffer}
      /\ UNCHANGED undrained \/ (~ oneshot /\ batched /\ rpc[r] \in {"rest", "finish"})
  <2>1. CASE Release(b) /\ UNCHANGED undrained
    BY <1>1, <2>1, ReleaseTyped DEF Base
  <2>2. CASE /\ ~ oneshot /\ undrained' = b
             /\ buf' = [buf EXCEPT ![b].roffset = @ + Slice[r]]
             /\ UNCHANGED <<pool, panic>>
    <3>1. buf' \in [Buffer -> BufferRecord]
      BY <1>1, <2>2, AdvanceTyped DEF Base
    <3> QED BY <1>1, <2>2, <3>1 DEF Base, TypeOK
  <2> QED BY <1>1, <2>1, <2>2
<1>5. UNCHANGED mode /\ rpc[r] # "idle"
  BY <1>1
<1>6. /\ ReadShape'
      /\ rpc' \in [Reader -> {"idle", "lock", "rest", "select", "finish"}]
      /\ held' \in [Reader -> Buffer \cup {NoBuffer}]
      /\ mux' \in Reader \cup {NoReader}
  BY <1>1, <1>3, <1>4, <1>5, LeaveKeeps
<1>7. TypeOK'
  BY <1>1, <1>3, <1>4, <1>6 DEF Base, TypeOK, Result, BufferRecord, mode, loopVars
<1>8. LoopShape'
  BY <1>1 DEF Base, LoopShape, OwnSlot, mode, loopVars
<1> QED BY <1>6, <1>7, <1>8 DEF Base

LEMMA BaseStutter == Base /\ UNCHANGED vars => Base'
<1> SUFFICES ASSUME Base, UNCHANGED vars PROVE Base'
  OBVIOUS
<1>1. TypeOK'
  BY DEF Base, TypeOK, vars, mode, poolVars, loopVars, readVars
<1>2. LoopShape'
  BY DEF Base, LoopShape, OwnSlot, vars, mode, poolVars, loopVars, readVars
<1>3. ReadShape'
  BY DEF Base, ReadShape, vars, mode, poolVars, loopVars, readVars
<1> QED BY <1>1, <1>2, <1>3 DEF Base

LEMMA BaseStep == Base /\ [Next]_vars => Base'
<1>1. \A lens \in BatchLens : Base /\ Running /\ ReadBatch(lens) => Base'
  BY ReadBatchBase
<1> QED BY <1>1, NextCases, FillSlotBase, PutRxQueue2Base, DiscardBase,
           ReadFailsBase, HandlePacketBase, ListenerPutBase, CloseBase,
           ReadCallBase, LockBase, ReadRestBase, TakeBase, TakeBBase,
           ReadDeadBase, FinishBase, BaseStutter

(* Type correctness: what goes round between the pool, the loop, rxqueue   *)
(* and the Reads are buffers, never nil, and rxqueue and rxqueueB never    *)
(* exceed their length (newUDPConn, PutRxQueue2, Read).                    *)
THEOREM RxPathTyped == Spec => []TypeOK
<1>1. Init => Base
  BY BaseInit
<1>2. Base /\ [Next]_vars => Base'
  BY BaseStep
<1>3. Base => TypeOK
  BY DEF Base
<1> QED BY <1>1, <1>2, <1>3, PTL DEF Spec

-----------------------------------------------------------------------------
(***************************************************************************)
(* Who has which buffer: the loop, the queue, the Reads, and what a Read   *)
(* has left. Nothing is in two of these places, nor twice in one of them.  *)
(***************************************************************************)
Loops  == {buffers[s] : s \in OwnSlot}
Queued == {rxqueue[k] : k \in DOMAIN rxqueue}
Taken  == {held[r] : r \in Reader} \ {NoBuffer}
Rest   == {undrained} \ {NoBuffer}
Owned  == Loops \cup Queued \cup Taken \cup Rest

SlotOnce == \A s, t \in OwnSlot : buffers[s] = buffers[t] => s = t
QueueOnce == \A j, k \in DOMAIN rxqueue : rxqueue[j] = rxqueue[k] => j = k
HeldOnce == \A p, q \in Reader : held[p] = held[q] /\ held[p] # NoBuffer => p = q
Apart ==
  /\ Loops \cap Queued = {} /\ Loops \cap Taken = {} /\ Loops \cap Rest = {}
  /\ Queued \cap Taken = {} /\ Queued \cap Rest = {} /\ Taken \cap Rest = {}

OwnInv == SlotOnce /\ QueueOnce /\ HeldOnce /\ Apart

(* A buffer that somebody has is referred to once and not in the pool, and *)
(* what is in the pool is clean: this is what the assertions test.         *)
PoolInv ==
  /\ ~ panic
  /\ \A b \in Owned : buf[b].ref = 1 /\ b \notin pool
  /\ \A b \in pool : buf[b] = Clean
  /\ \A b \in Loops : buf[b].data = <<>> /\ buf[b].roffset = 0

(***************************************************************************)
(* What is in the buffers: whole packets, each known by its number, and no *)
(* two of them the same.                                                   *)
(***************************************************************************)
IsPacket(d, a) == \E id \in 1 .. a, len \in Lens : d = Packet(id, len)
Id(d) == d[1][1]
Busy == Queued \cup Taken

DataInv ==
  /\ \A b \in Busy : IsPacket(buf[b].data, arrived) /\ buf[b].roffset = 0
  /\ loop = "queue" => \A s \in 1 .. n : IsPacket(inbox[s], arrived)
  /\ \A k \in DOMAIN rxqueueB : IsPacket(rxqueueB[k], arrived)

UniqueInv ==
  /\ \A b, c \in Busy : Id(buf[b].data) = Id(buf[c].data) => b = c
  /\ loop = "queue" =>
       /\ \A s, t \in 1 .. n : Id(inbox[s]) = Id(inbox[t]) => s = t
       /\ \A s \in i .. n, b \in Busy : Id(inbox[s]) # Id(buf[b].data)
  /\ \A j, k \in DOMAIN rxqueueB : Id(rxqueueB[j]) = Id(rxqueueB[k]) => j = k

(* What a Read returned in oneshot mode is the start of a packet that is   *)
(* nowhere on its way any more.                                            *)
IsStart(d, a) ==
  \E id \in 1 .. a, len \in Lens : \E m \in 1 .. len : d = Prefix(Packet(id, len), m)
Reported(o) == o.short <=> Len(o.data) < o.data[1][2]

OutInv ==
  oneshot =>
    /\ \A k \in DOMAIN out : /\ IsStart(out[k].data, arrived)
                             /\ batched => Reported(out[k])
    /\ \A j, k \in DOMAIN out : Id(out[j].data) = Id(out[k].data) => j = k
    /\ \A k \in DOMAIN out, b \in Busy : Id(out[k].data) # Id(buf[b].data)
    /\ loop = "queue" =>
         \A k \in DOMAIN out, s \in i .. n : Id(out[k].data) # Id(inbox[s])
    /\ \A k \in DOMAIN out, j \in DOMAIN rxqueueB :
         Id(out[k].data) # Id(rxqueueB[j])

PacketInv == DataInv /\ UniqueInv /\ OutInv

(***************************************************************************)
(* In stream mode: the bytes that were returned, those of the packet that  *)
(* is being read, and those of the packets in the queue make up what was   *)
(* queued. at[k] is where the kth packet of the queue begins.              *)
(***************************************************************************)
Front ==
  IF undrained # NoBuffer THEN unread(undrained)
  ELSE IF \E r \in Reader : held[r] # NoBuffer THEN buf[held[mux]].data
  ELSE <<>>

Placed(st, p, d) ==
  /\ p + Len(d) <= Len(st)
  /\ \A j \in 1 .. Len(d) : st[p + j] = d[j]

Laid(at) ==
  /\ at[1] = Len(delivered) + Len(Front)
  /\ at[Len(rxqueue) + 1] = Len(stream)
  /\ \A k \in 1 .. Len(rxqueue) :
       LET d == buf[rxqueue[k]].data
       IN at[k + 1] = at[k] + Len(d) /\ Placed(stream, at[k], d)

StreamInv ==
  batched /\ ~ oneshot =>
    /\ Placed(stream, 0, delivered)
    /\ Placed(stream, Len(delivered), Front)
    /\ undrained # NoBuffer =>
         buf[undrained].roffset < Len(buf[undrained].data)
    /\ \E at \in [1 .. Len(rxqueue) + 1 -> Nat] : Laid(at)

-----------------------------------------------------------------------------
(***************************************************************************)
(* How a buffer moves.                                                     *)
(***************************************************************************)
LEMMA OwnedTyped ==
  ASSUME Base
  PROVE  /\ Loops \subseteq Buffer /\ Queued \subseteq Buffer
         /\ Taken \subseteq Buffer /\ Rest \subseteq Buffer
         /\ Owned \subseteq Buffer
<1>1. Loops \subseteq Buffer
  <2>1. \A s \in OwnSlot : s \in Slot
    BY DEF OwnSlot
  <2>2. buffers \in [Slot -> Buffer \cup {NoBuffer}]
    BY DEF Base, TypeOK
  <2>3. \A s \in OwnSlot : buffers[s] # NoBuffer
    BY DEF Base, LoopShape
  <2> QED BY <2>1, <2>2, <2>3 DEF Loops
<1>2. Queued \subseteq Buffer
  <2>1. rxqueue \in Seq(Buffer)
    BY DEF Base, TypeOK
  <2>2. \A k \in DOMAIN rxqueue : rxqueue[k] \in Buffer
    BY <2>1
  <2> QED BY <2>2 DEF Queued
<1>3. Taken \subseteq Buffer /\ Rest \subseteq Buffer
  BY DEF Base, TypeOK, Taken, Rest
<1> QED BY <1>1, <1>2, <1>3 DEF Owned

(* The buffer that Get returns is nobody's. *)
LEMMA FreeUnowned ==
  ASSUME Base, PoolInv, NEW b \in Free
  PROVE  b \notin Owned
<1>1. CASE pool # {}
  <2>1. b \in pool
    BY <1>1 DEF Free
  <2> QED BY <2>1 DEF PoolInv
<1>2. CASE pool = {}
  <2>1. b \notin InUse
    BY <1>2 DEF Free
  <2> QED BY <2>1 DEF InUse, Owned, Loops, Queued, Taken, Rest
<1> QED BY <1>1, <1>2

LEMMA GetClean ==
  ASSUME Base, PoolInv, NEW b \in Free, b \in Buffer, Get(b)
  PROVE  /\ UNCHANGED panic /\ pool' = pool \ {b}
         /\ buf'[b] = [ref |-> 1, data |-> <<>>, roffset |-> 0]
         /\ \A c \in Buffer : c # b => buf'[c] = buf[c]
<1>1. buf \in [Buffer -> BufferRecord]
  BY DEF Base, TypeOK, BufferRecord
<1>2. CASE b \in pool
  <2>1. buf[b] = Clean
    BY <1>2 DEF PoolInv
  <2>2. /\ pool' = pool \ {b} /\ buf' = [buf EXCEPT ![b].ref = 1]
        /\ UNCHANGED panic
    BY <1>2, <2>1 DEF Get
  <2>3. buf' = [buf EXCEPT ![b] = [buf[b] EXCEPT !.ref = 1]]
    BY <2>2
  <2>4. buf'[b] = [Clean EXCEPT !.ref = 1]
    BY <1>1, <2>1, <2>3
  <2> QED BY <1>1, <2>2, <2>3, <2>4, BufferTyped
<1>3. CASE b \notin pool
  <2>1. /\ buf' = [buf EXCEPT ![b] = [Clean EXCEPT !.ref = 1]]
        /\ UNCHANGED <<pool, panic>>
    BY <1>3 DEF Get
  <2> QED BY <1>1, <1>3, <2>1, BufferTyped
<1> QED BY <1>2, <1>3

LEMMA ReleaseClean ==
  ASSUME Base, PoolInv, NEW b \in Owned, b \in Buffer, Release(b)
  PROVE  /\ UNCHANGED panic /\ pool' = pool \cup {b}
         /\ buf'[b] = Clean
         /\ \A c \in Buffer : c # b => buf'[c] = buf[c]
<1>1. buf \in [Buffer -> BufferRecord]
  BY DEF Base, TypeOK, BufferRecord
<1>2. buf[b].ref = 1
  BY DEF PoolInv
<1>3. /\ buf' = [buf EXCEPT ![b] = Clean] /\ pool' = pool \cup {b}
      /\ UNCHANGED panic
  BY <1>2 DEF Release
<1> QED BY <1>1, <1>3

LEMMA SlotFilled ==
  ASSUME SlotOnce, NEW b, b \notin Loops, i \notin OwnSlot,
         OwnSlot' = OwnSlot \cup {i}, buffers'[i] = b,
         \A s \in OwnSlot : buffers'[s] = buffers[s]
  PROVE  SlotOnce' /\ Loops' = Loops \cup {b}
<1>1. \A s \in OwnSlot : buffers[s] # b /\ s # i
  BY DEF Loops
<1>2. Loops' = Loops \cup {b}
  BY DEF Loops
<1>3. SlotOnce'
  BY <1>1 DEF SlotOnce
<1> QED BY <1>2, <1>3

LEMMA SlotLeft ==
  ASSUME SlotOnce, i \in OwnSlot, OwnSlot' = OwnSlot \ {i}, UNCHANGED buffers
  PROVE  /\ SlotOnce' /\ Loops' = Loops \ {buffers[i]} /\ buffers[i] \in Loops
<1>1. \A s \in OwnSlot : buffers[s] = buffers[i] => s = i
  BY DEF SlotOnce
<1>2. Loops' = Loops \ {buffers[i]} /\ buffers[i] \in Loops
  BY <1>1 DEF Loops
<1>3. SlotOnce'
  BY DEF SlotOnce
<1> QED BY <1>2, <1>3

LEMMA Enqueued ==
  ASSUME Base, QueueOnce, NEW b \in Buffer, b \notin Queued,
         rxqueue' = Append(rxqueue, b)
  PROVE  QueueOnce' /\ Queued' = Queued \cup {b}
<1>1. /\ DOMAIN rxqueue' = DOMAIN rxqueue \cup {Len(rxqueue) + 1}
      /\ DOMAIN rxqueue = 1 .. Len(rxqueue) /\ Len(rxqueue) \in Nat
      /\ \A k \in DOMAIN rxqueue : rxqueue'[k] = rxqueue[k]
      /\ rxqueue'[Len(rxqueue) + 1] = b
  <2>1. rxqueue \in Seq(Buffer)
    BY DEF Base, TypeOK
  <2>2. /\ DOMAIN Append(rxqueue, b) = 1 .. Len(rxqueue) + 1
        /\ DOMAIN rxqueue = 1 .. Len(rxqueue) /\ Len(rxqueue) \in Nat
        /\ \A k \in DOMAIN rxqueue : (Append(rxqueue, b))[k] = rxqueue[k]
        /\ (Append(rxqueue, b))[Len(rxqueue) + 1] = b
    BY <2>1, AppendElements
  <2>3. 1 .. Len(rxqueue) + 1 = (1 .. Len(rxqueue)) \cup {Len(rxqueue) + 1}
    BY <2>2
  <2> QED BY <2>2, <2>3
<1>2. \A k \in DOMAIN rxqueue : rxqueue[k] # b
  BY DEF Queued
<1>3. Queued' = Queued \cup {b}
  BY <1>1 DEF Queued
<1>4. QueueOnce'
  BY <1>1, <1>2 DEF QueueOnce
<1> QED BY <1>3, <1>4

LEMMA Dequeued ==
  ASSUME Base, QueueOnce, rxqueue # <<>>, rxqueue' = Tail(rxqueue)
  PROVE  /\ QueueOnce' /\ Queued' = Queued \ {Head(rxqueue)}
         /\ Head(rxqueue) \in Queued
<1>1. rxqueue \in Seq(Buffer)
  BY DEF Base, TypeOK
<1>2. /\ Head(rxqueue) = rxqueue[1] /\ 1 \in DOMAIN rxqueue
      /\ DOMAIN rxqueue = 1 .. Len(rxqueue) /\ Len(rxqueue) \in Nat \ {0}
      /\ DOMAIN rxqueue' = 1 .. Len(rxqueue) - 1
      /\ \A k \in DOMAIN rxqueue' : rxqueue'[k] = rxqueue[k + 1]
  BY <1>1, TailElements
<1>3. \A k \in DOMAIN rxqueue' : k + 1 \in DOMAIN rxqueue /\ k + 1 # 1
  BY <1>2
<1>4. \A k \in DOMAIN rxqueue : k = 1 \/ (k - 1 \in DOMAIN rxqueue' /\ (k - 1) + 1 = k)
  BY <1>2
<1>5. QueueOnce'
  <2>1. SUFFICES ASSUME NEW j \in DOMAIN rxqueue', NEW k \in DOMAIN rxqueue',
                        rxqueue'[j] = rxqueue'[k]
                 PROVE  j = k
    BY DEF QueueOnce
  <2>2. j + 1 = k + 1
    BY <1>2, <1>3, <2>1 DEF QueueOnce
  <2> QED BY <1>2, <2>2
<1>6. Queued' \subseteq Queued \ {Head(rxqueue)}
  BY <1>2, <1>3 DEF Queued, QueueOnce
<1>7. Queued \ {Head(rxqueue)} \subseteq Queued'
  <2>1. SUFFICES ASSUME NEW k \in DOMAIN rxqueue, k # 1
                 PROVE  rxqueue[k] \in Queued'
    BY <1>2 DEF Queued
  <2>2. k - 1 \in DOMAIN rxqueue' /\ rxqueue'[k - 1] = rxqueue[k]
    BY <1>2, <1>4, <2>1
  <2> QED BY <2>2 DEF Queued
<1>8. Head(rxqueue) \in Queued
  BY <1>2 DEF Queued
<1> QED BY <1>5, <1>6, <1>7, <1>8

LEMMA HeldTaken ==
  ASSUME Base, HeldOnce, NEW r \in Reader, NEW b \in Buffer, b \notin Taken,
         held[r] = NoBuffer, held' = [held EXCEPT ![r] = b]
  PROVE  HeldOnce' /\ Taken' = Taken \cup {b}
<1>1. \A q \in Reader : held'[q] = IF q = r THEN b ELSE held[q]
  BY DEF Base, TypeOK
<1>2. b # NoBuffer /\ \A q \in Reader : held[q] # b
  BY BufferTyped DEF Taken
<1>3. Taken' = Taken \cup {b}
  BY <1>1, <1>2 DEF Taken
<1>4. HeldOnce'
  BY <1>1, <1>2 DEF HeldOnce
<1> QED BY <1>3, <1>4

LEMMA HeldLeft ==
  ASSUME Base, HeldOnce, NEW r \in Reader, held' = [held EXCEPT ![r] = NoBuffer]
  PROVE  HeldOnce' /\ Taken' = Taken \ {held[r]}
<1>1. \A q \in Reader : held'[q] = IF q = r THEN NoBuffer ELSE held[q]
  BY DEF Base, TypeOK
<1>2. \A q \in Reader : held[q] = held[r] /\ held[q] # NoBuffer => q = r
  BY DEF HeldOnce
<1>3. Taken' = Taken \ {held[r]}
  BY <1>1, <1>2 DEF Taken
<1>4. HeldOnce'
  BY <1>1 DEF HeldOnce
<1> QED BY <1>3, <1>4

-----------------------------------------------------------------------------
(***************************************************************************)
(* A buffer has one owner, and the pool and Read do not panic.             *)
(***************************************************************************)
LEMMA OwnInit == Init => OwnInv /\ PoolInv
<1> SUFFICES ASSUME Init PROVE OwnInv /\ PoolInv
  OBVIOUS
<1>1. OwnSlot = {}
  <2>1. Slot = 1 .. Batchs /\ Batchs \in Nat
    BY ConstantsTyped DEF Slot
  <2> QED BY <2>1 DEF Init, OwnSlot
<1>2. DOMAIN rxqueue = {}
  BY DEF Init
<1>3. Taken = {} /\ Rest = {} /\ \A r \in Reader : held[r] = NoBuffer
  BY DEF Init, Taken, Rest
<1>4. Loops = {} /\ Queued = {}
  BY <1>1, <1>2 DEF Loops, Queued
<1>5. OwnInv
  BY <1>1, <1>2, <1>3, <1>4 DEF OwnInv, SlotOnce, QueueOnce, HeldOnce, Apart
<1>6. pool = {} /\ ~ panic
  BY DEF Init
<1> QED BY <1>3, <1>4, <1>5, <1>6 DEF PoolInv, Owned

(* A step that moves no buffer. *)
LEMMA OwnSame ==
  ASSUME OwnInv, PoolInv, OwnSlot' = OwnSlot,
         UNCHANGED <<buffers, rxqueue, held, undrained, buf, pool, panic>>
  PROVE  /\ OwnInv' /\ PoolInv'
         /\ Loops' = Loops /\ Queued' = Queued /\ Taken' = Taken /\ Rest' = Rest
<1>1. Loops' = Loops /\ Queued' = Queued /\ Taken' = Taken /\ Rest' = Rest
  BY DEF Loops, Queued, Taken, Rest
<1>2. OwnInv'
  BY <1>1 DEF OwnInv, SlotOnce, QueueOnce, HeldOnce, Apart
<1>3. PoolInv'
  BY <1>1 DEF PoolInv, Owned
<1> QED BY <1>1, <1>2, <1>3

LEMMA FillSlotOwn ==
  ASSUME Base, OwnInv, PoolInv, Running, FillSlot
  PROVE  /\ OwnInv' /\ PoolInv'
         /\ Queued' = Queued /\ Taken' = Taken /\ Rest' = Rest
         /\ \A c \in Queued \cup Taken \cup Rest : buf'[c] = buf[c]
<1> DEFINE b == Chosen
<1>1. /\ b \in Buffer /\ b \in Free /\ Get(b)
      /\ buffers' = [buffers EXCEPT ![i] = b]
  BY ChosenIsFree DEF FillSlot, Base
<1> HIDE DEF b
<1>2. b \notin Owned
  BY <1>1, FreeUnowned
<1>3. /\ UNCHANGED panic /\ pool' = pool \ {b}
      /\ buf'[b] = [ref |-> 1, data |-> <<>>, roffset |-> 0]
      /\ \A c \in Buffer : c # b => buf'[c] = buf[c]
  BY <1>1, GetClean
<1>4. /\ i \in Slot /\ n \in Slot /\ i <= n /\ Slot = 1 .. Batchs
      /\ Batchs \in Nat \ {0} /\ loop = "fill"
      /\ buffers \in [Slot -> Buffer \cup {NoBuffer}]
  BY ConstantsTyped DEF Base, TypeOK, LoopShape, Slot, FillSlot
<1>5. \/ i < n /\ i' = i + 1 /\ loop' = "fill" /\ n' = n
      \/ i = n /\ i' = 1 /\ loop' = "read" /\ n' = Batchs
  BY <1>4 DEF FillSlot
<1>6. i \notin OwnSlot /\ OwnSlot' = OwnSlot \cup {i} /\ OwnSlot \subseteq Slot
  BY <1>4, <1>5 DEF OwnSlot
<1>7. buffers'[i] = b /\ \A s \in OwnSlot : buffers'[s] = buffers[s]
  BY <1>1, <1>4, <1>6
<1>8. b \notin Loops
  BY <1>2 DEF Owned
<1>9. SlotOnce' /\ Loops' = Loops \cup {b}
  BY <1>6, <1>7, <1>8, SlotFilled DEF OwnInv
<1>10. UNCHANGED <<rxqueue, held, undrained>>
  BY DEF FillSlot, readVars
<1>11. Queued' = Queued /\ Taken' = Taken /\ Rest' = Rest
  BY <1>10 DEF Queued, Taken, Rest
<1>12. OwnInv'
  BY <1>2, <1>9, <1>10, <1>11 DEF OwnInv, QueueOnce, HeldOnce, Apart, Owned
<1>13. PoolInv'
  <2>1. Owned' = Owned \cup {b}
    BY <1>9, <1>11 DEF Owned
  <2>2. \A c \in Owned : c # b /\ buf'[c] = buf[c]
    BY <1>2, <1>3, OwnedTyped
  <2>3. \A c \in Owned' : buf'[c].ref = 1 /\ c \notin pool'
    BY <1>3, <2>1, <2>2 DEF PoolInv
  <2>4. \A c \in pool' : buf'[c] = Clean
    BY <1>3 DEF PoolInv, Base, TypeOK
  <2>5. \A c \in Loops' : buf'[c].data = <<>> /\ buf'[c].roffset = 0
    BY <1>3, <1>9, <2>2 DEF PoolInv, Owned
  <2> QED BY <1>3, <2>3, <2>4, <2>5 DEF PoolInv
<1>14. \A c \in Queued \cup Taken \cup Rest : buf'[c] = buf[c]
  BY <1>2, <1>3, OwnedTyped DEF Owned
<1> QED BY <1>11, <1>12, <1>13, <1>14

(* A packet is queued in the buffer of its slot, or its buffer released.   *)
LEMMA PutRxQueue2Own ==
  ASSUME Base, OwnInv, PoolInv, Running, PutRxQueue2
  PROVE  LET b == buffers[i]
         IN /\ OwnInv' /\ PoolInv'
            /\ b \in Loops /\ b \notin Queued \cup Taken \cup Rest /\ b \in Buffer
            /\ Taken' = Taken /\ Rest' = Rest
            /\ \A c \in Queued \cup Taken \cup Rest : buf'[c] = buf[c]
            /\ \/ /\ Queued' = Queued \cup {b}
                  /\ buf'[b] = [ref |-> 1, data |-> inbox[i], roffset |-> 0]
                  /\ rxqueue' = Append(rxqueue, b) /\ stream' = stream \o inbox[i]
               \/ Queued' = Queued /\ UNCHANGED <<rxqueue, stream>>
<1> DEFINE b == buffers[i]
           p == inbox[i]
<1>1. /\ b \in Buffer /\ i \in OwnSlot /\ p \in Seq(Byte)
      /\ loop = "queue" /\ NextSlot
      /\ UNCHANGED <<buffers, n, held, undrained>>
  BY SlotTyped DEF PutRxQueue2, readVars
<1>2. OwnSlot' = OwnSlot \ {i}
  BY <1>1, NextSlotKeeps
<1>3. SlotOnce' /\ Loops' = Loops \ {b} /\ b \in Loops
  BY <1>1, <1>2, SlotLeft DEF OwnInv
<1>4. \/ /\ rxqueue' = Append(rxqueue, b)
         /\ buf' = [buf EXCEPT ![b].data = @ \o p]
         /\ stream' = stream \o p
         /\ UNCHANGED <<pool, panic>>
      \/ Release(b) /\ UNCHANGED <<rxqueue, stream>>
  BY DEF PutRxQueue2
<1> HIDE DEF b, p
<1>5. b \in Owned /\ b \notin Queued \cup Taken \cup Rest
  BY <1>3 DEF Owned, OwnInv, Apart
<1>6. Taken' = Taken /\ Rest' = Rest
  BY <1>1 DEF Taken, Rest
<1>7. HeldOnce'
  BY <1>1 DEF OwnInv, HeldOnce
<1>8. buf \in [Buffer -> BufferRecord] /\ pool \subseteq Buffer
  BY DEF Base, TypeOK, BufferRecord
<1>9. CASE /\ rxqueue' = Append(rxqueue, b)
           /\ buf' = [buf EXCEPT ![b].data = @ \o p]
           /\ stream' = stream \o p
           /\ UNCHANGED <<pool, panic>>
  <2>1. QueueOnce' /\ Queued' = Queued \cup {b}
    BY <1>1, <1>5, <1>9, Enqueued DEF OwnInv
  <2>2. OwnInv'
    BY <1>3, <1>5, <1>6, <1>7, <2>1 DEF OwnInv, Apart
  <2>3. Owned' = Owned
    BY <1>3, <1>6, <2>1 DEF Owned
  <2>4. \A c \in Buffer : c # b => buf'[c] = buf[c]
    BY <1>8, <1>9
  <2>5. buf'[b] = [ref |-> 1, data |-> p, roffset |-> 0]
    <3>1. buf[b].data = <<>> /\ buf[b].roffset = 0 /\ buf[b].ref = 1
      BY <1>3, <1>5 DEF PoolInv
    <3>2. buf' = [buf EXCEPT ![b] = [buf[b] EXCEPT !.data = buf[b].data \o p]]
      BY <1>9
    <3>3. <<>> \o p = p
      BY <1>1
    <3>4. buf'[b] = [buf[b] EXCEPT !.data = p]
      BY <1>1, <1>8, <3>1, <3>2, <3>3
    <3>5. buf[b] \in BufferRecord
      BY <1>1, <1>8
    <3> QED BY <3>1, <3>4, <3>5 DEF BufferRecord
  <2>6. \A c \in Owned : buf'[c].ref = 1 /\ c \notin pool
    BY <2>4, <2>5, OwnedTyped DEF PoolInv
  <2>7. \A c \in pool : buf'[c] = Clean
    BY <1>5, <1>8, <2>4 DEF PoolInv
  <2>8. \A c \in Loops' : buf'[c].data = <<>> /\ buf'[c].roffset = 0
    BY <1>3, <2>4, OwnedTyped DEF PoolInv
  <2>9. PoolInv'
    BY <1>9, <2>3, <2>6, <2>7, <2>8 DEF PoolInv
  <2>10. \A c \in Queued \cup Taken \cup Rest : buf'[c] = buf[c]
    BY <1>5, <2>4, OwnedTyped
  <2> QED BY <1>1, <1>3, <1>5, <1>6, <1>9, <2>1, <2>2, <2>5, <2>9, <2>10 DEF b, p
<1>10. CASE Release(b) /\ UNCHANGED <<rxqueue, stream>>
  <2>1. /\ UNCHANGED panic /\ pool' = pool \cup {b}
        /\ buf'[b] = Clean
        /\ \A c \in Buffer : c # b => buf'[c] = buf[c]
    BY <1>1, <1>5, <1>10, ReleaseClean
  <2>2. QueueOnce' /\ Queued' = Queued
    BY <1>10 DEF OwnInv, QueueOnce, Queued
  <2>3. OwnInv'
    BY <1>3, <1>6, <1>7, <2>2 DEF OwnInv, Apart
  <2>4. Owned' = Owned \ {b}
    BY <1>3, <1>5, <1>6, <2>2 DEF Owned
  <2>5. \A c \in Owned' : buf'[c].ref = 1 /\ c \notin pool'
    BY <2>1, <2>4, OwnedTyped DEF PoolInv
  <2>6. \A c \in pool' : buf'[c] = Clean
    BY <1>8, <2>1 DEF PoolInv
  <2>7. \A c \in Loops' : buf'[c].data = <<>> /\ buf'[c].roffset = 0
    BY <1>3, <2>1, OwnedTyped DEF PoolInv
  <2>8. PoolInv'
    BY <2>1, <2>5, <2>6, <2>7 DEF PoolInv
  <2>9. \A c \in Queued \cup Taken \cup Rest : buf'[c] = buf[c]
    BY <1>5, <2>1, OwnedTyped
  <2> QED BY <1>1, <1>3, <1>5, <1>6, <1>10, <2>2, <2>3, <2>8, <2>9 DEF b
<1> QED BY <1>4, <1>9, <1>10

LEMMA DiscardOwn ==
  ASSUME Base, OwnInv, PoolInv, Running, Discard
  PROVE  /\ OwnInv' /\ PoolInv'
         /\ Queued' = Queued /\ Taken' = Taken /\ Rest' = Rest
<1>1. /\ loop = "queue" /\ NextSlot
      /\ UNCHANGED <<buffers, n, held, undrained, rxqueue, buf, pool, panic>>
  BY DEF Discard, readVars, poolVars
<1>2. OwnSlot' = OwnSlot \ {i} /\ i \in OwnSlot
  BY <1>1, NextSlotKeeps
<1>3. SlotOnce' /\ Loops' = Loops \ {buffers[i]}
  BY <1>1, <1>2, SlotLeft DEF OwnInv
<1>4. Queued' = Queued /\ Taken' = Taken /\ Rest' = Rest
  BY <1>1 DEF Queued, Taken, Rest
<1>5. OwnInv'
  BY <1>1, <1>3, <1>4 DEF OwnInv, QueueOnce, HeldOnce, Apart
<1>6. PoolInv'
  BY <1>1, <1>3, <1>4 DEF PoolInv, Owned
<1> QED BY <1>4, <1>5, <1>6

LEMMA ListenerPutOwn ==
  ASSUME NEW len \in Lens, Base, OwnInv, PoolInv, Running, ListenerPut(len)
  PROVE  LET b == Chosen
             p == Packet(arrived', len)
         IN /\ OwnInv' /\ PoolInv'
            /\ b \in Buffer /\ b \notin Queued \cup Taken \cup Rest
            /\ Taken' = Taken /\ Rest' = Rest
            /\ \A c \in Queued \cup Taken \cup Rest : buf'[c] = buf[c]
            /\ \/ /\ Queued' = Queued \cup {b}
                  /\ buf'[b] = [ref |-> 1, data |-> p, roffset |-> 0]
                  /\ rxqueue' = Append(rxqueue, b) /\ stream' = stream \o p
               \/ Queued' = Queued /\ UNCHANGED <<rxqueue, stream>>
<1> DEFINE b == Chosen
           p == Packet(arrived', len)
<1>1. /\ b \in Buffer /\ b \in Free
      /\ \/ b \in pool /\ buf[b] # Clean
         \/ /\ pool' = pool \ {b}
            /\ buf' = [buf EXCEPT ![b] = [ref |-> 1, data |-> p, roffset |-> 0]]
            /\ rxqueue' = Append(rxqueue, b)
            /\ stream' = stream \o p
            /\ UNCHANGED panic
         \/ /\ pool' = pool \cup {b}
            /\ buf' = [buf EXCEPT ![b] = Clean]
            /\ UNCHANGED <<rxqueue, stream, panic>>
      /\ UNCHANGED <<mode, buffers, loop, n, i, inbox, readVars, rxqueueB, dead>>
  BY ListenerPutCases
<1> HIDE DEF b, p
<1>2. b \notin Owned /\ b \notin Queued \cup Taken \cup Rest
  BY <1>1, FreeUnowned DEF Owned
<1>3. /\ OwnSlot' = OwnSlot /\ Loops' = Loops /\ SlotOnce'
      /\ Taken' = Taken /\ Rest' = Rest /\ HeldOnce'
  BY <1>1 DEF OwnSlot, Loops, OwnInv, SlotOnce, Taken, Rest, HeldOnce, readVars
<1>4. buf \in [Buffer -> BufferRecord] /\ pool \subseteq Buffer
  BY DEF Base, TypeOK, BufferRecord
<1>5. ~ (b \in pool /\ buf[b] # Clean)
  BY DEF PoolInv
<1>6. CASE /\ pool' = pool \ {b}
           /\ buf' = [buf EXCEPT ![b] = [ref |-> 1, data |-> p, roffset |-> 0]]
           /\ rxqueue' = Append(rxqueue, b)
           /\ stream' = stream \o p
           /\ UNCHANGED panic
  <2>1. QueueOnce' /\ Queued' = Queued \cup {b}
    BY <1>1, <1>2, <1>6, Enqueued DEF OwnInv
  <2>2. OwnInv'
    BY <1>2, <1>3, <2>1 DEF OwnInv, Apart, Owned
  <2>3. Owned' = Owned \cup {b}
    BY <1>3, <2>1 DEF Owned
  <2>4. /\ \A c \in Buffer : c # b => buf'[c] = buf[c]
        /\ buf'[b] = [ref |-> 1, data |-> p, roffset |-> 0]
    BY <1>1, <1>4, <1>6
  <2>5. \A c \in Owned : c # b /\ buf'[c] = buf[c]
    BY <1>2, <2>4, OwnedTyped
  <2>6. \A c \in Owned' : buf'[c].ref = 1 /\ c \notin pool'
    BY <1>6, <2>3, <2>4, <2>5 DEF PoolInv
  <2>7. \A c \in pool' : buf'[c] = Clean
    BY <1>4, <1>6, <2>4 DEF PoolInv
  <2>8. \A c \in Loops' : buf'[c].data = <<>> /\ buf'[c].roffset = 0
    BY <1>3, <2>5 DEF PoolInv, Owned
  <2>9. PoolInv'
    BY <1>6, <2>6, <2>7, <2>8 DEF PoolInv
  <2>10. \A c \in Queued \cup Taken \cup Rest : buf'[c] = buf[c]
    BY <2>5 DEF Owned
  <2> QED BY <1>1, <1>2, <1>3, <1>6, <2>1, <2>2, <2>4, <2>9, <2>10 DEF b, p
<1>7. CASE /\ pool' = pool \cup {b}
           /\ buf' = [buf EXCEPT ![b] = Clean]
           /\ UNCHANGED <<rxqueue, stream, panic>>
  <2>1. QueueOnce' /\ Queued' = Queued
    BY <1>7 DEF OwnInv, QueueOnce, Queued
  <2>2. OwnInv'
    BY <1>3, <2>1 DEF OwnInv, Apart
  <2>3. Owned' = Owned
    BY <1>3, <2>1 DEF Owned
  <2>4. /\ \A c \in Buffer : c # b => buf'[c] = buf[c]
        /\ buf'[b] = Clean
    BY <1>1, <1>4, <1>7
  <2>5. \A c \in Owned : c # b /\ buf'[c] = buf[c]
    BY <1>2, <2>4, OwnedTyped
  <2>6. \A c \in Owned' : buf'[c].ref = 1 /\ c \notin pool'
    BY <1>7, <2>3, <2>5 DEF PoolInv
  <2>7. \A c \in pool' : buf'[c] = Clean
    BY <1>4, <1>7, <2>4 DEF PoolInv
  <2>8. \A c \in Loops' : buf'[c].data = <<>> /\ buf'[c].roffset = 0
    BY <1>3, <2>5 DEF PoolInv, Owned
  <2>9. PoolInv'
    BY <1>7, <2>6, <2>7, <2>8 DEF PoolInv
  <2>10. \A c \in Queued \cup Taken \cup Rest : buf'[c] = buf[c]
    BY <2>5 DEF Owned
  <2> QED BY <1>1, <1>2, <1>3, <1>7, <2>1, <2>2, <2>9, <2>10 DEF b
<1> QED BY <1>1, <1>5, <1>6, <1>7

LEMMA TakeOwn ==
  ASSUME NEW r \in Reader, Base, OwnInv, PoolInv, Running, Take(r)
  PROVE  LET b == Head(rxqueue)
         IN /\ OwnInv' /\ PoolInv'
            /\ b \in Queued /\ held'[r] = b
            /\ Queued' = Queued \ {b} /\ Taken' = Taken \cup {b} /\ Rest' = Rest
            /\ UNCHANGED <<buf, undrained>>
<1> DEFINE b == Head(rxqueue)
<1>1. /\ rpc[r] = "select" /\ rxqueue # <<>> /\ rxqueue' = Tail(rxqueue)
      /\ held' = [held EXCEPT ![r] = b]
      /\ UNCHANGED <<poolVars, loopVars, undrained, panic>>
  BY DEF Take
<1> HIDE DEF b
<1>2. QueueOnce' /\ Queued' = Queued \ {b} /\ b \in Queued
  BY <1>1, Dequeued DEF OwnInv, b
<1>3. b \in Buffer /\ b \notin Taken /\ b \notin Loops /\ b \notin Rest
  BY <1>2, OwnedTyped DEF OwnInv, Apart
<1>4. held[r] = NoBuffer /\ held'[r] = b
  BY <1>1 DEF Base, TypeOK, ReadShape
<1>5. HeldOnce' /\ Taken' = Taken \cup {b}
  BY <1>1, <1>3, <1>4, HeldTaken DEF OwnInv
<1>6. OwnSlot' = OwnSlot /\ Loops' = Loops /\ Rest' = Rest /\ SlotOnce'
  BY <1>1 DEF OwnSlot, Loops, Rest, loopVars, OwnInv, SlotOnce
<1>7. OwnInv'
  BY <1>2, <1>3, <1>5, <1>6 DEF OwnInv, Apart
<1>8. Owned' = Owned
  BY <1>2, <1>5, <1>6 DEF Owned
<1>9. PoolInv'
  BY <1>1, <1>6, <1>8 DEF PoolInv, poolVars
<1>10. UNCHANGED <<buf, undrained>>
  BY <1>1 DEF poolVars
<1> QED BY <1>2, <1>4, <1>5, <1>6, <1>7, <1>9, <1>10 DEF b

LEMMA ReadRestOwn ==
  ASSUME NEW r \in Reader, Base, OwnInv, PoolInv, Running, ReadRest(r)
  PROVE  /\ OwnInv' /\ PoolInv'
         /\ Queued' = Queued /\ Taken' = Taken
         /\ \A c \in Queued \cup Taken : buf'[c] = buf[c]
<1> DEFINE u == undrained
           k == Len(Prefix(unread(u), Slice[r]))
<1>1. /\ u \in Buffer /\ rpc[r] = "rest" /\ k \in Nat
      /\ \/ Release(u) /\ undrained' = NoBuffer
         \/ /\ buf' = [buf EXCEPT ![u].roffset = @ + k]
            /\ UNCHANGED <<pool, undrained, panic>>
      /\ Return(r, Prefix(unread(u), Slice[r]), FALSE)
      /\ UNCHANGED <<mode, loopVars, rxqueue, rxqueueB, stream, dead>>
  BY ReadRestCases
<1>2. held' = held
  <2>1. held[r] = NoBuffer /\ held \in [Reader -> Buffer \cup {NoBuffer}]
    BY <1>1 DEF Base, TypeOK, ReadShape
  <2>2. held' = [held EXCEPT ![r] = NoBuffer]
    BY <1>1 DEF Return, Leave
  <2> QED BY <2>1, <2>2
<1> HIDE DEF k
<1>3. /\ OwnSlot' = OwnSlot /\ Loops' = Loops /\ SlotOnce'
      /\ Queued' = Queued /\ QueueOnce' /\ Taken' = Taken /\ HeldOnce'
  BY <1>1, <1>2 DEF OwnSlot, Loops, loopVars, OwnInv, SlotOnce, Queued, QueueOnce,
                    Taken, HeldOnce
<1>4. u \in Rest /\ Rest = {u} /\ u \in Owned
      /\ u \notin Loops \cup Queued \cup Taken
  BY <1>1, BufferTyped DEF Rest, Owned, OwnInv, Apart
<1>5. buf \in [Buffer -> BufferRecord] /\ pool \subseteq Buffer
  BY DEF Base, TypeOK, BufferRecord
<1>6. CASE Release(u) /\ undrained' = NoBuffer
  <2>1. /\ UNCHANGED panic /\ pool' = pool \cup {u} /\ buf'[u] = Clean
        /\ \A c \in Buffer : c # u => buf'[c] = buf[c]
    BY <1>1, <1>4, <1>6, ReleaseClean
  <2>2. Rest' = {}
    BY <1>6 DEF Rest
  <2>3. OwnInv'
    BY <1>3, <2>2 DEF OwnInv, Apart
  <2>4. Owned' = Owned \ {u}
    BY <1>3, <1>4, <2>2 DEF Owned
  <2>5. \A c \in Owned' : buf'[c].ref = 1 /\ c \notin pool'
    BY <2>1, <2>4, OwnedTyped DEF PoolInv
  <2>6. \A c \in pool' : buf'[c] = Clean
    BY <1>5, <2>1 DEF PoolInv
  <2>7. \A c \in Loops' : buf'[c].data = <<>> /\ buf'[c].roffset = 0
    BY <1>3, <1>4, <2>1, OwnedTyped DEF PoolInv
  <2>8. PoolInv'
    BY <2>1, <2>5, <2>6, <2>7 DEF PoolInv
  <2>9. \A c \in Queued \cup Taken : buf'[c] = buf[c]
    BY <1>4, <2>1, OwnedTyped
  <2> QED BY <1>3, <2>3, <2>8, <2>9
<1>7. CASE /\ buf' = [buf EXCEPT ![u].roffset = @ + k]
           /\ UNCHANGED <<pool, undrained, panic>>
  <2>1. buf'[u].ref = buf[u].ref /\ \A c \in Buffer : c # u => buf'[c] = buf[c]
    BY <1>1, <1>7, AdvanceTyped DEF Base
  <2>2. Rest' = Rest /\ Owned' = Owned
    BY <1>3, <1>7 DEF Rest, Owned
  <2>3. OwnInv'
    BY <1>3, <2>2 DEF OwnInv, Apart
  <2>4. \A c \in Owned' : buf'[c].ref = 1 /\ c \notin pool'
    BY <1>7, <2>1, <2>2, OwnedTyped DEF PoolInv
  <2>5. \A c \in pool' : buf'[c] = Clean
    BY <1>4, <1>5, <1>7, <2>1 DEF PoolInv
  <2>6. \A c \in Loops' : buf'[c].data = <<>> /\ buf'[c].roffset = 0
    BY <1>3, <1>4, <2>1, OwnedTyped DEF PoolInv
  <2>7. PoolInv'
    BY <1>7, <2>4, <2>5, <2>6 DEF PoolInv
  <2>8. \A c \in Queued \cup Taken : buf'[c] = buf[c]
    BY <1>4, <2>1, OwnedTyped
  <2> QED BY <1>3, <2>3, <2>7, <2>8
<1> QED BY <1>1, <1>6, <1>7

LEMMA FinishOwn ==
  ASSUME NEW r \in Reader, Base, OwnInv, PoolInv, Running, Finish(r)
  PROVE  LET b == held[r]
         IN /\ OwnInv' /\ PoolInv'
            /\ b \in Taken /\ b \in Buffer
            /\ Queued' = Queued /\ Taken' = Taken \ {b}
            /\ \A c \in Queued \cup (Taken \ {b}) : buf'[c] = buf[c]
<1> DEFINE b == held[r]
<1>1. /\ b \in Buffer /\ undrained = NoBuffer /\ rpc[r] = "finish"
      /\ Slice[r] \in Nat
      /\ \/ Release(b) /\ UNCHANGED undrained
         \/ /\ undrained' = b
            /\ buf' = [buf EXCEPT ![b].roffset = @ + Slice[r]]
            /\ UNCHANGED <<pool, panic>>
      /\ Return(r, Prefix(unread(b), Slice[r]), oneshot /\ ~ (left(r) = <<>>))
      /\ UNCHANGED <<mode, loopVars, rxqueue, rxqueueB, stream, dead>>
  BY FinishCases
<1>2. held' = [held EXCEPT ![r] = NoBuffer]
  BY <1>1 DEF Return, Leave
<1>3. HeldOnce' /\ Taken' = Taken \ {b}
  BY <1>2, HeldLeft DEF OwnInv
<1>4. b \in Taken /\ b # NoBuffer
  BY <1>1, BufferTyped DEF Taken
<1> HIDE DEF b
<1>5. b \in Owned /\ b \notin Loops \cup Queued \cup Rest /\ Rest = {}
  BY <1>1, <1>4 DEF Owned, OwnInv, Apart, Rest
<1>6. /\ OwnSlot' = OwnSlot /\ Loops' = Loops /\ SlotOnce'
      /\ Queued' = Queued /\ QueueOnce'
  BY <1>1 DEF OwnSlot, Loops, loopVars, OwnInv, SlotOnce, Queued, QueueOnce
<1>7. buf \in [Buffer -> BufferRecord] /\ pool \subseteq Buffer
  BY DEF Base, TypeOK, BufferRecord
<1>8. CASE Release(b) /\ UNCHANGED undrained
  <2>1. /\ UNCHANGED panic /\ pool' = pool \cup {b} /\ buf'[b] = Clean
        /\ \A c \in Buffer : c # b => buf'[c] = buf[c]
    BY <1>1, <1>5, <1>8, ReleaseClean
  <2>2. Rest' = {}
    BY <1>5, <1>8 DEF Rest
  <2>3. OwnInv'
    BY <1>3, <1>6, <2>2 DEF OwnInv, Apart
  <2>4. Owned' = Owned \ {b}
    BY <1>3, <1>5, <1>6, <2>2 DEF Owned
  <2>5. \A c \in Owned' : buf'[c].ref = 1 /\ c \notin pool'
    BY <2>1, <2>4, OwnedTyped DEF PoolInv
  <2>6. \A c \in pool' : buf'[c] = Clean
    BY <1>7, <2>1 DEF PoolInv
  <2>7. \A c \in Loops' : buf'[c].data = <<>> /\ buf'[c].roffset = 0
    BY <1>5, <1>6, <2>1, OwnedTyped DEF PoolInv
  <2>8. PoolInv'
    BY <2>1, <2>5, <2>6, <2>7 DEF PoolInv
  <2>9. \A c \in Queued \cup (Taken \ {b}) : buf'[c] = buf[c]
    BY <1>5, <2>1, OwnedTyped
  <2> QED BY <1>1, <1>3, <1>4, <1>6, <2>3, <2>8, <2>9 DEF b
<1>9. CASE /\ undrained' = b
           /\ buf' = [buf EXCEPT ![b].roffset = @ + Slice[r]]
           /\ UNCHANGED <<pool, panic>>
  <2>1. buf'[b].ref = buf[b].ref /\ \A c \in Buffer : c # b => buf'[c] = buf[c]
    BY <1>1, <1>9, AdvanceTyped DEF Base
  <2>2. Rest' = {b}
    BY <1>4, <1>9 DEF Rest
  <2>3. OwnInv'
    BY <1>3, <1>5, <1>6, <2>2 DEF OwnInv, Apart
  <2>4. Owned' = Owned
    BY <1>3, <1>4, <1>5, <1>6, <2>2 DEF Owned
  <2>5. \A c \in Owned' : buf'[c].ref = 1 /\ c \notin pool'
    BY <1>9, <2>1, <2>4, OwnedTyped DEF PoolInv
  <2>6. \A c \in pool' : buf'[c] = Clean
    BY <1>5, <1>7, <1>9, <2>1 DEF PoolInv
  <2>7. \A c \in Loops' : buf'[c].data = <<>> /\ buf'[c].roffset = 0
    BY <1>5, <1>6, <2>1, OwnedTyped DEF PoolInv
  <2>8. PoolInv'
    BY <1>9, <2>5, <2>6, <2>7 DEF PoolInv
  <2>9. \A c \in Queued \cup (Taken \ {b}) : buf'[c] = buf[c]
    BY <1>5, <2>1, OwnedTyped
  <2> QED BY <1>1, <1>3, <1>4, <1>6, <2>3, <2>8, <2>9 DEF b
<1> QED BY <1>1, <1>8, <1>9

(* The other steps move no buffer. *)
LEMMA QuietOwn ==
  ASSUME Base, OwnInv, PoolInv, Running,
         \/ \E lens \in BatchLens : ReadBatch(lens)
         \/ ReadFails
         \/ \E len \in Lens : HandlePacket(len)
         \/ Close
         \/ \E r \in Reader : ReadCall(r) \/ Lock(r) \/ TakeB(r) \/ ReadDead(r)
         \/ UNCHANGED vars
  PROVE  /\ OwnInv' /\ PoolInv'
         /\ Queued' = Queued /\ Taken' = Taken /\ Rest' = Rest
         /\ UNCHANGED <<buf, held, rxqueue, undrained>>
<1>1. SUFFICES /\ OwnSlot' = OwnSlot
               /\ UNCHANGED <<buffers, rxqueue, held, undrained, buf, pool, panic>>
  BY <1>1, OwnSame
<1>2. ASSUME NEW lens \in BatchLens, ReadBatch(lens)
      PROVE  /\ OwnSlot' = OwnSlot
             /\ UNCHANGED <<buffers, rxqueue, held, undrained, buf, pool, panic>>
  BY <1>2 DEF ReadBatch, OwnSlot, LoopShape, Base, TypeOK, poolVars, readVars, Slot
<1>3. CASE ReadFails
  BY <1>3 DEF ReadFails, OwnSlot, poolVars, readVars
<1>4. ASSUME NEW len \in Lens, HandlePacket(len)
      PROVE  /\ OwnSlot' = OwnSlot
             /\ UNCHANGED <<buffers, rxqueue, held, undrained, buf, pool, panic>>
  BY <1>4 DEF HandlePacket, OwnSlot, poolVars, readVars
<1>5. CASE Close \/ UNCHANGED vars
  BY <1>5 DEF Close, vars, OwnSlot, poolVars, loopVars, readVars
<1>6. ASSUME NEW r \in Reader, ReadCall(r) \/ Lock(r) \/ TakeB(r) \/ ReadDead(r)
      PROVE  /\ OwnSlot' = OwnSlot
             /\ UNCHANGED <<buffers, rxqueue, held, undrained, buf, pool, panic>>
  <2>1. /\ OwnSlot' = OwnSlot
        /\ UNCHANGED <<buffers, rxqueue, undrained, buf, pool, panic>>
    BY <1>6 DEF ReadCall, Lock, TakeB, ReadDead, OwnSlot, poolVars, loopVars
  <2>2. held' = held
    <3>1. CASE ReadCall(r) \/ Lock(r)
      BY <3>1 DEF ReadCall, Lock
    <3>2. CASE TakeB(r) \/ ReadDead(r)
      <4>1. rpc[r] = "select" /\ held' = [held EXCEPT ![r] = NoBuffer]
        BY <3>2 DEF TakeB, ReadDead, Return, Leave
      <4>2. held[r] = NoBuffer /\ held \in [Reader -> Buffer \cup {NoBuffer}]
        BY <4>1 DEF Base, TypeOK, ReadShape
      <4> QED BY <4>1, <4>2
    <3> QED BY <1>6, <3>1, <3>2
  <2> QED BY <2>1, <2>2
<1> QED BY <1>2, <1>3, <1>4, <1>5, <1>6

LEMMA OwnStep == Base /\ OwnInv /\ PoolInv /\ [Next]_vars => OwnInv' /\ PoolInv'
<1> SUFFICES ASSUME Base, OwnInv, PoolInv, [Next]_vars PROVE OwnInv' /\ PoolInv'
  OBVIOUS
<1>1. CASE UNCHANGED vars
  <2>1. OwnSlot' = OwnSlot /\ UNCHANGED <<buffers, rxqueue, held, undrained, buf,
                                          pool, panic>>
    BY <1>1 DEF vars, OwnSlot, poolVars, loopVars, readVars
  <2> QED BY <2>1, OwnSame
<1>2. CASE Next
  <2>1. Running
    BY <1>2 DEF Next
  <2>2. CASE FillSlot
    BY <2>1, <2>2, FillSlotOwn
  <2>3. CASE PutRxQueue2
    BY <2>1, <2>3, PutRxQueue2Own
  <2>4. CASE Discard
    BY <2>1, <2>4, DiscardOwn
  <2>5. ASSUME NEW len \in Lens, ListenerPut(len) PROVE OwnInv' /\ PoolInv'
    BY <2>1, <2>5, ListenerPutOwn
  <2>6. ASSUME NEW r \in Reader, Take(r) PROVE OwnInv' /\ PoolInv'
    BY <2>1, <2>6, TakeOwn
  <2>7. ASSUME NEW r \in Reader, ReadRest(r) PROVE OwnInv' /\ PoolInv'
    BY <2>1, <2>7, ReadRestOwn
  <2>8. ASSUME NEW r \in Reader, Finish(r) PROVE OwnInv' /\ PoolInv'
    BY <2>1, <2>8, FinishOwn
  <2>9. CASE \/ \E lens \in BatchLens : ReadBatch(lens)
             \/ ReadFails
             \/ \E len \in Lens : HandlePacket(len)
             \/ Close
             \/ \E r \in Reader : ReadCall(r) \/ Lock(r) \/ TakeB(r) \/ ReadDead(r)
    BY <2>1, <2>9, QuietOwn
  <2> QED BY <1>2, <2>2, <2>3, <2>4, <2>5, <2>6, <2>7, <2>8, <2>9
          DEF Next, ReadLoop, Read
<1> QED BY <1>1, <1>2

(* None of the assertions of pool.Get, pool.Put and Read fires.            *)
THEOREM PoolNeverPanics == Spec => []NoPanic
<1>1. Init => Base /\ OwnInv /\ PoolInv
  BY BaseInit, OwnInit
<1>2. Base /\ OwnInv /\ PoolInv /\ [Next]_vars => (Base /\ OwnInv /\ PoolInv)'
  BY BaseStep, OwnStep
<1>3. Base /\ OwnInv /\ PoolInv => NoPanic
  BY DEF PoolInv, NoPanic
<1> QED BY <1>1, <1>2, <1>3, PTL DEF Spec

LEMMA AtMostOne ==
  ASSUME NEW S, \A x, y \in S : x = y
  PROVE  /\ S = {} => Cardinality(S) = 0
         /\ S # {} => Cardinality(S) = 1
<1>1. CASE S = {}
  BY <1>1, FS_EmptySet
<1>2. CASE S # {}
  <2>1. PICK x \in S : TRUE
    BY <1>2
  <2>2. S = {x}
    BY <2>1
  <2>3. Cardinality({x}) = 1
    BY FS_Singleton
  <2> QED BY <1>2, <2>2, <2>3
<1> QED BY <1>1, <1>2

LEMMA OneHolder ==
  ASSUME OwnInv, NEW b \in Buffer
  PROVE  /\ Holders(b) <= 1
         /\ Holders(b) = 1 => b \in Owned
<1> DEFINE A == {s \in OwnSlot : buffers[s] = b}
           B == {k \in DOMAIN rxqueue : rxqueue[k] = b}
           C == {r \in Reader : held[r] = b}
           d == IF undrained = b THEN 1 ELSE 0
<1>1. b # NoBuffer
  BY BufferTyped
<1>2. /\ A = {} => Cardinality(A) = 0
      /\ A # {} => Cardinality(A) = 1 /\ b \in Loops
  <2>1. \A s, t \in A : s = t
    BY DEF OwnInv, SlotOnce
  <2>2. A # {} => b \in Loops
    BY DEF Loops
  <2> HIDE DEF A
  <2> QED BY <2>1, <2>2, AtMostOne
<1>3. /\ B = {} => Cardinality(B) = 0
      /\ B # {} => Cardinality(B) = 1 /\ b \in Queued
  <2>1. \A s, t \in B : s = t
    BY DEF OwnInv, QueueOnce
  <2>2. B # {} => b \in Queued
    BY DEF Queued
  <2> HIDE DEF B
  <2> QED BY <2>1, <2>2, AtMostOne
<1>4. /\ C = {} => Cardinality(C) = 0
      /\ C # {} => Cardinality(C) = 1 /\ b \in Taken
  <2>1. \A s, t \in C : s = t
    BY <1>1 DEF OwnInv, HeldOnce
  <2>2. C # {} => b \in Taken
    BY <1>1 DEF Taken
  <2> HIDE DEF C
  <2> QED BY <2>1, <2>2, AtMostOne
<1>5. \/ d = 0
      \/ d = 1 /\ b \in Rest
  <2>1. CASE undrained = b
    <3>1. d = 1 /\ b \in Rest
      BY <1>1, <2>1 DEF Rest
    <3> QED BY <3>1
  <2>2. CASE undrained # b
    BY <2>2
  <2> QED BY <2>1, <2>2
<1>6. Holders(b) = Cardinality(A) + Cardinality(B) + Cardinality(C) + d
  BY DEF Holders
<1>7. /\ ~ (b \in Loops /\ b \in Queued) /\ ~ (b \in Loops /\ b \in Taken)
      /\ ~ (b \in Loops /\ b \in Rest) /\ ~ (b \in Queued /\ b \in Taken)
      /\ ~ (b \in Queued /\ b \in Rest) /\ ~ (b \in Taken /\ b \in Rest)
  BY DEF OwnInv, Apart
<1>8. b \in Owned <=> b \in Loops \/ b \in Queued \/ b \in Taken \/ b \in Rest
  BY DEF Owned
<1> HIDE DEF A, B, C, d
<1> QED BY <1>2, <1>3, <1>4, <1>5, <1>6, <1>7, <1>8

(* A buffer has one owner at a time on its way from the pool through the   *)
(* loop, rxqueue and a Read, and back: no packet is written over one that  *)
(* is still to be read (readBatchLoopv2, PutRxQueue2, Read, the pool).     *)
THEOREM BufferHasOneOwner == Spec => []SingleOwner
<1>1. Init => Base /\ OwnInv /\ PoolInv
  BY BaseInit, OwnInit
<1>2. Base /\ OwnInv /\ PoolInv /\ [Next]_vars => (Base /\ OwnInv /\ PoolInv)'
  BY BaseStep, OwnStep
<1>3. Base /\ OwnInv /\ PoolInv => SingleOwner
  BY OneHolder DEF PoolInv, SingleOwner
<1> QED BY <1>1, <1>2, <1>3, PTL DEF Spec

-----------------------------------------------------------------------------
(***************************************************************************)
(* No packet is in two places, nor returned twice.                         *)
(***************************************************************************)
LEMMA PacketKnown ==
  ASSUME NEW a \in 0 .. MaxPacket, NEW d, IsPacket(d, a)
  PROVE  /\ Id(d) \in 1 .. a /\ d \in Seq(Byte)
         /\ Len(d) \in Nat \ {0} /\ Len(d) \in Lens
         /\ d[1] = <<Id(d), Len(d), 1>>
         /\ d = Packet(Id(d), Len(d))
<1>1. PICK id \in 1 .. a, len \in Lens : d = Packet(id, len)
  BY DEF IsPacket
<1>2. id \in 1 .. MaxPacket /\ MaxPacket \in Nat
  BY ConstantsTyped
<1>3. /\ d \in Seq(Byte) /\ Len(d) = len /\ len \in Nat \ {0}
      /\ d[1] = <<id, len, 1>>
  BY <1>1, <1>2, PacketElements
<1>4. Id(d) = id
  BY <1>3 DEF Id
<1> QED BY <1>1, <1>3, <1>4

LEMMA PacketLater ==
  ASSUME NEW a \in Nat, NEW b \in Nat, a <= b, NEW d
  PROVE  /\ IsPacket(d, a) => IsPacket(d, b)
         /\ IsStart(d, a) => IsStart(d, b)
<1>1. 1 .. a \subseteq 1 .. b
  OBVIOUS
<1> QED BY <1>1 DEF IsPacket, IsStart

LEMMA StartKnown ==
  ASSUME NEW a \in 0 .. MaxPacket, NEW d, IsStart(d, a)
  PROVE  /\ Id(d) \in 1 .. a /\ d \in Seq(Byte) /\ d # <<>>
         /\ d[1][2] \in Lens /\ d[1] = <<d[1][1], d[1][2], 1>>
         /\ Len(d) \in 1 .. d[1][2]
         /\ d = Prefix(Packet(d[1][1], d[1][2]), Len(d))
<1>1. PICK id \in 1 .. a, len \in Lens :
        \E m \in 1 .. len : d = Prefix(Packet(id, len), m)
  BY DEF IsStart
<1>2. PICK m \in 1 .. len : d = Prefix(Packet(id, len), m)
  BY <1>1
<1>3. id \in 1 .. MaxPacket /\ MaxPacket \in Nat
  BY ConstantsTyped
<1> DEFINE p == Packet(id, len)
<1>4. /\ p \in Seq(Byte) /\ Len(p) = len /\ len \in Nat \ {0}
      /\ p[1] = <<id, len, 1>>
  BY <1>3, PacketElements
<1> HIDE DEF p
<1>5. d = Prefix(p, m)
  BY <1>2 DEF p
<1>6. m \in Nat /\ m >= 1 /\ m <= len
  BY <1>4
<1>7. d \in Seq(Byte) /\ Len(d) = m /\ d[1] = p[1]
  BY <1>4, <1>5, <1>6, PrefixElements
<1>8. d[1] = <<id, len, 1>> /\ d[1][1] = id /\ d[1][2] = len
  BY <1>4, <1>7
<1>9. d = Prefix(Packet(d[1][1], d[1][2]), Len(d))
  BY <1>5, <1>7, <1>8 DEF p
<1>10. d # <<>>
  BY <1>6, <1>7
<1> QED BY <1>4, <1>6, <1>7, <1>8, <1>9, <1>10 DEF Id

(* The start of a packet that a Read returns.                              *)
LEMMA StartOf ==
  ASSUME NEW a \in 0 .. MaxPacket, NEW d, IsPacket(d, a), NEW k \in Nat \ {0}
  PROVE  /\ IsStart(Prefix(d, k), a)
         /\ Id(Prefix(d, k)) = Id(d)
         /\ Len(Prefix(d, k)) < Prefix(d, k)[1][2] <=> k < Len(d)
<1>1. /\ Id(d) \in 1 .. a /\ d \in Seq(Byte)
      /\ Len(d) \in Nat \ {0} /\ Len(d) \in Lens
      /\ d[1] = <<Id(d), Len(d), 1>>
      /\ d = Packet(Id(d), Len(d))
  BY PacketKnown
<1> DEFINE o == Prefix(d, k)
           m == IF k < Len(d) THEN k ELSE Len(d)
<1>2. o \in Seq(Byte) /\ Len(o) = m /\ \A j \in 1 .. Len(o) : o[j] = d[j]
  BY <1>1, PrefixElements
<1>3. m \in 1 .. Len(d) /\ (m < Len(d) <=> k < Len(d))
  BY <1>1
<1>4. o = Prefix(d, m)
  <2>1. (IF m < Len(d) THEN m ELSE Len(d)) = m
    BY <1>1
  <2> QED BY <2>1 DEF Prefix
<1> HIDE DEF o, m
<1>5. o[1] = d[1]
  BY <1>1, <1>2, <1>3
<1>6. o[1][2] = Len(d) /\ Id(o) = Id(d)
  BY <1>1, <1>5 DEF Id
<1>7. IsStart(o, a)
  BY <1>1, <1>3, <1>4 DEF IsStart
<1>8. Len(o) < o[1][2] <=> k < Len(d)
  BY <1>2, <1>3, <1>6
<1> QED BY <1>6, <1>7, <1>8 DEF o

LEMMA PacketInit == Init => PacketInv
<1> SUFFICES ASSUME Init PROVE PacketInv
  OBVIOUS
<1>1. rxqueue = <<>> /\ rxqueueB = <<>> /\ out = <<>> /\ loop = "fill"
      /\ \A r \in Reader : held[r] = NoBuffer
  BY DEF Init
<1>2. DOMAIN rxqueue = {} /\ DOMAIN rxqueueB = {} /\ DOMAIN out = {}
  BY <1>1
<1>3. Busy = {}
  BY <1>1, <1>2 DEF Busy, Queued, Taken
<1> QED BY <1>1, <1>2, <1>3 DEF PacketInv, DataInv, UniqueInv, OutInv

(* What the loop has still to look at only becomes less.                   *)
LoopGoesOn ==
  loop' = "queue" =>
    loop = "queue" /\ UNCHANGED <<inbox, n>> /\ i' \in Nat /\ i' >= i

(* A step that moves no packet to another place. *)
LEMMA PacketSame ==
  ASSUME Base, PacketInv, LoopGoesOn, Busy' = Busy,
         \A b \in Busy : buf'[b] = buf[b],
         oneshot => UNCHANGED out,
         UNCHANGED <<rxqueueB, arrived, mode>>
  PROVE  PacketInv'
<1>1. i \in Nat /\ n \in Nat
  BY ConstantsTyped DEF Base, TypeOK, Slot
<1>2. loop' = "queue" => i' .. n' \subseteq i .. n
  BY <1>1 DEF LoopGoesOn
<1>3. DataInv'
  BY DEF PacketInv, DataInv, LoopGoesOn
<1>4. UniqueInv'
  BY <1>2 DEF PacketInv, UniqueInv, LoopGoesOn
<1>5. UNCHANGED <<batched, oneshot>>
  BY DEF mode
<1>6. OutInv'
  <2>1. SUFFICES ASSUME oneshot PROVE OutInv'
    BY <1>5 DEF OutInv
  <2>2. out' = out
    BY <2>1
  <2> QED BY <1>2, <1>5, <2>1, <2>2 DEF PacketInv, OutInv, LoopGoesOn
<1> QED BY <1>3, <1>4, <1>6 DEF PacketInv

(* A packet that is nowhere else is put in a buffer. *)
LEMMA PacketAdded ==
  ASSUME Base, PacketInv, LoopGoesOn,
         NEW b, NEW p, b \notin Busy, Busy' = Busy \cup {b},
         \A c \in Busy : buf'[c] = buf[c],
         buf'[b].data = p, buf'[b].roffset = 0,
         arrived' \in 0 .. MaxPacket, arrived <= arrived',
         IsPacket(p, arrived'),
         \A c \in Busy : Id(p) # Id(buf[c].data),
         oneshot => \A k \in DOMAIN out : Id(p) # Id(out[k].data),
         loop' = "queue" => \A s \in i' .. n : Id(p) # Id(inbox[s]),
         \A k \in DOMAIN rxqueueB : FALSE,
         UNCHANGED <<rxqueueB, out, mode>>
  PROVE  PacketInv'
<1>1. i \in Nat /\ n \in Nat /\ arrived \in Nat /\ arrived' \in Nat
  BY ConstantsTyped DEF Base, TypeOK, Slot
<1>2. loop' = "queue" => i' .. n' \subseteq i .. n
  BY <1>1 DEF LoopGoesOn
<1>3. \A d : /\ IsPacket(d, arrived) => IsPacket(d, arrived')
             /\ IsStart(d, arrived) => IsStart(d, arrived')
  BY <1>1, PacketLater
<1>4. DataInv'
  BY <1>3 DEF PacketInv, DataInv, LoopGoesOn
<1>5. UniqueInv'
  BY <1>2 DEF PacketInv, UniqueInv, LoopGoesOn
<1>6. UNCHANGED <<batched, oneshot>>
  BY DEF mode
<1>7. OutInv'
  <2>1. SUFFICES ASSUME oneshot PROVE OutInv'
    BY <1>6 DEF OutInv
  <2> QED BY <1>2, <1>3, <1>6, <2>1 DEF PacketInv, OutInv, LoopGoesOn
<1> QED BY <1>4, <1>5, <1>7 DEF PacketInv

LEMMA NoQueueB ==
  ASSUME Base, batched
  PROVE  rxqueueB = <<>> /\ \A k \in DOMAIN rxqueueB : FALSE
<1>1. rxqueueB = <<>>
  BY DEF Base, LoopShape
<1> QED BY <1>1

LEMMA FillSlotPacket ==
  ASSUME Base, OwnInv, PoolInv, PacketInv, Running, FillSlot
  PROVE  PacketInv'
<1>1. /\ Queued' = Queued /\ Taken' = Taken
      /\ \A c \in Queued \cup Taken \cup Rest : buf'[c] = buf[c]
  BY FillSlotOwn
<1>2. loop = "fill" /\ UNCHANGED <<inbox, arrived, rxqueueB, out, mode>>
  BY DEF FillSlot, readVars, Running
<1>3. LoopGoesOn
  BY DEF FillSlot, LoopGoesOn
<1>4. Busy' = Busy /\ \A b \in Busy : buf'[b] = buf[b]
  BY <1>1 DEF Busy
<1> QED BY <1>2, <1>3, <1>4, PacketSame

LEMMA ReadBatchPacket ==
  ASSUME NEW lens \in BatchLens, Base, OwnInv, PoolInv, PacketInv, Running,
         ReadBatch(lens)
  PROVE  PacketInv'
<1>1. /\ Queued' = Queued /\ Taken' = Taken /\ UNCHANGED buf
  BY QuietOwn
<1>2. /\ \A s \in 1 .. n' : /\ inbox'[s] = Packet(arrived + s, lens[s])
                            /\ arrived + s \in arrived + 1 .. arrived'
                            /\ arrived + s \in 1 .. MaxPacket
                            /\ lens[s] \in Lens
      /\ arrived' \in Nat /\ arrived \in Nat /\ arrived <= arrived'
      /\ n' \in Slot /\ Base'
  BY ReadBatchBase
<1>3. UNCHANGED <<i, rxqueueB, out, mode>> /\ loop = "read" /\ i = 1
  BY DEF ReadBatch, readVars, Running, Base, LoopShape
<1>4. Busy' = Busy
  BY <1>1 DEF Busy
<1>5. \A d : /\ IsPacket(d, arrived) => IsPacket(d, arrived')
             /\ IsStart(d, arrived) => IsStart(d, arrived')
  BY <1>2, PacketLater
<1>6. \A s \in 1 .. n' : /\ IsPacket(inbox'[s], arrived')
                         /\ Id(inbox'[s]) = arrived + s /\ s \in Nat
  <2>1. SUFFICES ASSUME NEW s \in 1 .. n'
                 PROVE  /\ IsPacket(inbox'[s], arrived')
                        /\ Id(inbox'[s]) = arrived + s /\ s \in Nat
    OBVIOUS
  <2>2. /\ inbox'[s] = Packet(arrived + s, lens[s]) /\ s \in Nat
        /\ arrived + s \in 1 .. arrived' /\ lens[s] \in Lens
        /\ arrived + s \in 1 .. MaxPacket
    BY <1>2, ConstantsTyped DEF Slot
  <2>3. Packet(arrived + s, lens[s])[1] = <<arrived + s, lens[s], 1>>
    BY <2>2, PacketElements
  <2> QED BY <2>2, <2>3 DEF IsPacket, Id
<1>7. arrived \in 0 .. MaxPacket
  BY DEF Base, TypeOK
<1>8. \A d : IsPacket(d, arrived) => Id(d) \in 1 .. arrived
  BY <1>7, PacketKnown
<1>9. \A d : IsStart(d, arrived) => Id(d) \in 1 .. arrived
  BY <1>7, StartKnown
<1>10. \A s \in 1 .. n', k \in 1 .. arrived : Id(inbox'[s]) # k
  BY <1>2, <1>6
<1>11. \A s, t \in 1 .. n' : Id(inbox'[s]) = Id(inbox'[t]) => s = t
  BY <1>2, <1>6
<1>12. DataInv'
  BY <1>1, <1>3, <1>4, <1>5, <1>6 DEF PacketInv, DataInv
<1>13. i' .. n' = 1 .. n'
  BY <1>3
<1>14. UniqueInv'
  BY <1>1, <1>3, <1>4, <1>8, <1>10, <1>11, <1>13
     DEF PacketInv, DataInv, UniqueInv
<1>15. OutInv'
  <2>1. UNCHANGED <<batched, oneshot>>
    BY <1>3 DEF mode
  <2> QED BY <1>1, <1>3, <1>4, <1>5, <1>9, <1>10, <1>13, <2>1
          DEF PacketInv, OutInv
<1> QED BY <1>12, <1>14, <1>15 DEF PacketInv

LEMMA PutRxQueue2Packet ==
  ASSUME Base, OwnInv, PoolInv, PacketInv, Running, PutRxQueue2
  PROVE  PacketInv'
<1> DEFINE b == buffers[i]
           p == inbox[i]
<1>1. /\ b \notin Queued \cup Taken
      /\ Taken' = Taken
      /\ \A c \in Queued \cup Taken : buf'[c] = buf[c]
      /\ \/ /\ Queued' = Queued \cup {b}
            /\ buf'[b] = [ref |-> 1, data |-> p, roffset |-> 0]
         \/ Queued' = Queued
  BY PutRxQueue2Own
<1>2. /\ loop = "queue" /\ NextSlot
      /\ UNCHANGED <<n, arrived, rxqueueB, out, mode>>
  BY DEF PutRxQueue2, readVars, Running
<1>3. i \in 1 .. n /\ n \in Nat /\ batched
  BY <1>2, SlotTyped
<1>4. loop' = "queue" => inbox' = inbox /\ i' = i + 1
  BY <1>2, NextSlotKeeps
<1>5. LoopGoesOn
  BY <1>2, <1>3, <1>4 DEF LoopGoesOn
<1>6. CASE Queued' = Queued
  <2>1. Busy' = Busy /\ \A c \in Busy : buf'[c] = buf[c]
    BY <1>1, <1>6 DEF Busy
  <2> QED BY <1>2, <1>5, <2>1, PacketSame
<1>7. CASE /\ Queued' = Queued \cup {b}
           /\ buf'[b] = [ref |-> 1, data |-> p, roffset |-> 0]
  <2>1. /\ b \notin Busy /\ Busy' = Busy \cup {b}
        /\ \A c \in Busy : buf'[c] = buf[c]
        /\ buf'[b].data = p /\ buf'[b].roffset = 0
    BY <1>1, <1>7 DEF Busy
  <2>2. IsPacket(p, arrived) /\ \A c \in Busy : Id(p) # Id(buf[c].data)
    BY <1>2, <1>3 DEF PacketInv, DataInv, UniqueInv
  <2>3. oneshot => \A k \in DOMAIN out : Id(p) # Id(out[k].data)
    BY <1>2, <1>3 DEF PacketInv, OutInv
  <2>4. loop' = "queue" => \A s \in i' .. n : Id(p) # Id(inbox[s])
    <3>1. SUFFICES ASSUME loop' = "queue", NEW s \in i' .. n
                   PROVE  Id(p) # Id(inbox[s])
      OBVIOUS
    <3>2. s \in 1 .. n /\ s # i
      BY <1>3, <1>4, <3>1
    <3> QED BY <1>2, <1>3, <3>2 DEF PacketInv, UniqueInv
  <2>5. \A k \in DOMAIN rxqueueB : FALSE
    BY <1>3, NoQueueB
  <2>6. arrived' \in 0 .. MaxPacket /\ arrived <= arrived' /\ arrived' = arrived
    BY <1>2, ConstantsTyped DEF Base, TypeOK
  <2> HIDE DEF b, p
  <2> QED BY <1>2, <1>5, <2>1, <2>2, <2>3, <2>4, <2>5, <2>6, PacketAdded
<1> QED BY <1>1, <1>6, <1>7

LEMMA ListenerPutPacket ==
  ASSUME NEW len \in Lens, Base, OwnInv, PoolInv, PacketInv, Running,
         ListenerPut(len)
  PROVE  PacketInv'
<1> DEFINE b == Chosen
           p == Packet(arrived', len)
<1>1. /\ b \notin Queued \cup Taken
      /\ Taken' = Taken
      /\ \A c \in Queued \cup Taken : buf'[c] = buf[c]
      /\ \/ /\ Queued' = Queued \cup {b}
            /\ buf'[b] = [ref |-> 1, data |-> p, roffset |-> 0]
         \/ Queued' = Queued
  BY ListenerPutOwn
<1>2. /\ arrived \in Nat /\ arrived' = arrived + 1 /\ arrived' \in 1 .. MaxPacket
      /\ arrived' \in 0 .. MaxPacket /\ batched
      /\ UNCHANGED <<mode, loop, n, i, inbox, readVars, rxqueueB>>
  BY ListenerPutCases
<1>3. UNCHANGED out
  BY <1>2 DEF readVars
<1>4. i \in Nat /\ n \in Nat /\ arrived \in 0 .. MaxPacket
  BY ConstantsTyped DEF Base, TypeOK, Slot
<1>5. LoopGoesOn
  BY <1>2, <1>4 DEF LoopGoesOn
<1>6. \A d : /\ IsPacket(d, arrived) => Id(d) \in 1 .. arrived
             /\ IsStart(d, arrived) => Id(d) \in 1 .. arrived
             /\ IsPacket(d, arrived) => IsPacket(d, arrived')
             /\ IsStart(d, arrived) => IsStart(d, arrived')
  <2>1. \A d : /\ IsPacket(d, arrived) => Id(d) \in 1 .. arrived
               /\ IsStart(d, arrived) => Id(d) \in 1 .. arrived
    BY <1>4, PacketKnown, StartKnown
  <2>2. arrived \in Nat /\ arrived' \in Nat /\ arrived <= arrived'
    BY <1>2
  <2> QED BY <2>1, <2>2, PacketLater
<1>7. IsPacket(p, arrived') /\ Id(p) = arrived'
  <2>1. Packet(arrived', len)[1] = <<arrived', len, 1>>
    BY <1>2, PacketElements
  <2> QED BY <1>2, <2>1 DEF IsPacket, Id
<1>8. arrived' \notin 1 .. arrived
  BY <1>2
<1> HIDE DEF b, p
<1>9. CASE Queued' = Queued
  <2>1. Busy' = Busy /\ \A c \in Busy : buf'[c] = buf[c]
    BY <1>1, <1>9 DEF Busy
  <2>2. DataInv'
    BY <1>2, <1>6, <2>1 DEF PacketInv, DataInv
  <2>3. UniqueInv'
    BY <1>2, <2>1 DEF PacketInv, UniqueInv
  <2>4. OutInv'
    BY <1>2, <1>3, <1>6, <2>1 DEF PacketInv, OutInv, mode
  <2> QED BY <2>2, <2>3, <2>4 DEF PacketInv
<1>10. CASE /\ Queued' = Queued \cup {b}
            /\ buf'[b] = [ref |-> 1, data |-> p, roffset |-> 0]
  <2>1. /\ b \notin Busy /\ Busy' = Busy \cup {b}
        /\ \A c \in Busy : buf'[c] = buf[c]
        /\ buf'[b].data = p /\ buf'[b].roffset = 0
    BY <1>1, <1>10 DEF Busy
  <2>2. \A c \in Busy : Id(p) # Id(buf[c].data)
    BY <1>6, <1>7, <1>8 DEF PacketInv, DataInv
  <2>3. oneshot => \A k \in DOMAIN out : Id(p) # Id(out[k].data)
    BY <1>6, <1>7, <1>8 DEF PacketInv, OutInv
  <2>4. loop' = "queue" => \A s \in i' .. n : Id(p) # Id(inbox[s])
    <3>1. SUFFICES ASSUME loop' = "queue", NEW s \in i' .. n
                   PROVE  Id(p) # Id(inbox[s])
      OBVIOUS
    <3>2. i \in Slot
      BY DEF Base, TypeOK
    <3>3. s \in 1 .. n /\ loop = "queue"
      BY <1>2, <1>4, <3>1, <3>2, ConstantsTyped DEF Slot
    <3> QED BY <1>6, <1>7, <1>8, <3>3 DEF PacketInv, DataInv
  <2>5. \A k \in DOMAIN rxqueueB : FALSE
    BY <1>2, NoQueueB
  <2>6. arrived <= arrived'
    BY <1>2
  <2> QED BY <1>2, <1>3, <1>5, <1>7, <2>1, <2>2, <2>3, <2>4, <2>5, <2>6, PacketAdded
<1> QED BY <1>1, <1>9, <1>10

LEMMA HandlePacketPacket ==
  ASSUME NEW len \in Lens, Base, OwnInv, PoolInv, PacketInv, Running,
         HandlePacket(len)
  PROVE  PacketInv'
<1> DEFINE p == Packet(arrived', len)
<1>1. /\ ~ batched /\ arrived < MaxPacket /\ arrived' = arrived + 1
      /\ rxqueueB' = Append(rxqueueB, p) \/ rxqueueB' = rxqueueB
      /\ UNCHANGED <<mode, loop, n, i, inbox, readVars, out>>
  BY DEF HandlePacket, Running, readVars
<1>2. /\ arrived \in Nat /\ arrived' \in 1 .. MaxPacket
      /\ arrived \in 0 .. MaxPacket /\ arrived' \in Nat
  BY <1>1, NewPacket DEF Base, TypeOK
<1>3. Busy = {} /\ Busy' = {}
  <2>1. Queued' = Queued /\ Taken' = Taken
    BY QuietOwn
  <2>2. rxqueue = <<>> /\ \A r \in Reader : held[r] = NoBuffer
    BY <1>1 DEF Base, LoopShape, ReadShape
  <2>3. Queued = {} /\ Taken = {}
    BY <2>2 DEF Queued, Taken
  <2> QED BY <2>1, <2>3 DEF Busy
<1>4. loop' # "queue"
  BY <1>1 DEF Base, LoopShape
<1>5. \A d : /\ IsPacket(d, arrived) => Id(d) \in 1 .. arrived
             /\ IsStart(d, arrived) => Id(d) \in 1 .. arrived
  BY <1>2, PacketKnown, StartKnown
<1>6. \A d : /\ IsPacket(d, arrived) => IsPacket(d, arrived')
             /\ IsStart(d, arrived) => IsStart(d, arrived')
  <2>1. arrived <= arrived'
    BY <1>1, <1>2
  <2> QED BY <1>2, <2>1, PacketLater
<1>7. p \in Seq(Byte) /\ IsPacket(p, arrived') /\ Id(p) = arrived'
  <2>1. p \in Seq(Byte) /\ p[1] = <<arrived', len, 1>>
    BY <1>2, PacketElements
  <2> QED BY <1>2, <2>1 DEF IsPacket, Id
<1>8. arrived' \notin 1 .. arrived
  BY <1>1, <1>2
<1> HIDE DEF p
<1>9. \A k \in DOMAIN rxqueueB' :
        \/ k \in DOMAIN rxqueueB /\ rxqueueB'[k] = rxqueueB[k]
        \/ k = Len(rxqueueB) + 1 /\ rxqueueB'[k] = p
  <2>1. rxqueueB \in Seq(Seq(Byte))
    BY DEF Base, TypeOK
  <2>2. CASE rxqueueB' = Append(rxqueueB, p)
    <3>1. /\ DOMAIN rxqueueB' = 1 .. Len(rxqueueB) + 1
          /\ DOMAIN rxqueueB = 1 .. Len(rxqueueB) /\ Len(rxqueueB) \in Nat
          /\ \A k \in DOMAIN rxqueueB : rxqueueB'[k] = rxqueueB[k]
          /\ rxqueueB'[Len(rxqueueB) + 1] = p
      BY <1>7, <2>1, <2>2, AppendElements
    <3> QED BY <3>1
  <2>3. CASE rxqueueB' = rxqueueB
    BY <2>3
  <2> QED BY <1>1, <2>2, <2>3
<1>10. DataInv'
  BY <1>3, <1>4, <1>6, <1>7, <1>9 DEF PacketInv, DataInv
<1>11. \A k \in DOMAIN rxqueueB : Id(rxqueueB[k]) # Id(p)
  BY <1>5, <1>7, <1>8 DEF PacketInv, DataInv
<1>12. UniqueInv'
  <2>1. \A j, k \in DOMAIN rxqueueB' : Id(rxqueueB'[j]) = Id(rxqueueB'[k]) => j = k
    BY <1>9, <1>11 DEF PacketInv, UniqueInv
  <2> QED BY <1>3, <1>4, <2>1 DEF UniqueInv
<1>13. OutInv'
  <2>1. oneshot => \A k \in DOMAIN out : Id(out[k].data) # Id(p)
    BY <1>5, <1>7, <1>8 DEF PacketInv, OutInv
  <2>2. UNCHANGED <<batched, oneshot, out>>
    BY <1>1 DEF mode
  <2> QED BY <1>3, <1>4, <1>6, <1>9, <2>1, <2>2 DEF PacketInv, OutInv
<1> QED BY <1>10, <1>12, <1>13 DEF PacketInv

(* A Read returns the start of a packet that nobody else has.              *)
LEMMA PacketReturned ==
  ASSUME Base, PacketInv, oneshot, UNCHANGED <<arrived, mode, loop, n, i, inbox>>,
         NEW d \in Seq(Byte), NEW short \in BOOLEAN,
         out' = Append(out, [data |-> d, short |-> short]),
         IsStart(d, arrived), batched => Reported([data |-> d, short |-> short]),
         Busy' \subseteq Busy, \A c \in Busy' : buf'[c] = buf[c],
         \A k \in DOMAIN out : Id(d) # Id(out[k].data),
         \A c \in Busy' : Id(d) # Id(buf[c].data),
         loop = "queue" => \A s \in i .. n : Id(d) # Id(inbox[s]),
         \A k \in DOMAIN rxqueueB' :
           /\ \E j \in DOMAIN rxqueueB : rxqueueB'[k] = rxqueueB[j]
           /\ Id(d) # Id(rxqueueB'[k])
  PROVE  OutInv'
<1> DEFINE o == [data |-> d, short |-> short]
<1>1. o \in Result /\ out \in Seq(Result) /\ o.data = d /\ o.short = short
  BY DEF Base, TypeOK, Result
<1> HIDE DEF o
<1>2. /\ DOMAIN out' = 1 .. Len(out) + 1 /\ DOMAIN out = 1 .. Len(out)
      /\ Len(out) \in Nat
      /\ \A k \in DOMAIN out : out'[k] = out[k]
      /\ out'[Len(out) + 1] = o
  <2>1. out' = Append(out, o)
    BY DEF o
  <2> QED BY <1>1, <2>1, AppendElements
<1>3. \A k \in DOMAIN out' : \/ k \in DOMAIN out /\ out'[k] = out[k]
                             \/ k = Len(out) + 1 /\ out'[k] = o
  BY <1>2
<1>4. UNCHANGED <<batched, oneshot>>
  BY DEF mode
<1>5. \A k \in DOMAIN out' : /\ IsStart(out'[k].data, arrived)
                             /\ batched => Reported(out'[k])
  BY <1>1, <1>3 DEF PacketInv, OutInv, o
<1>6. \A j, k \in DOMAIN out' : Id(out'[j].data) = Id(out'[k].data) => j = k
  BY <1>1, <1>3 DEF PacketInv, OutInv
<1>7. \A k \in DOMAIN out', c \in Busy' : Id(out'[k].data) # Id(buf'[c].data)
  BY <1>1, <1>3 DEF PacketInv, OutInv
<1>8. loop = "queue" =>
        \A k \in DOMAIN out', s \in i .. n : Id(out'[k].data) # Id(inbox[s])
  BY <1>1, <1>3 DEF PacketInv, OutInv
<1>9. \A k \in DOMAIN out', j \in DOMAIN rxqueueB' :
        Id(out'[k].data) # Id(rxqueueB'[j])
  BY <1>1, <1>3 DEF PacketInv, OutInv
<1> QED BY <1>4, <1>5, <1>6, <1>7, <1>8, <1>9 DEF OutInv

LEMMA TakeBPacket ==
  ASSUME NEW r \in Reader, Base, OwnInv, PoolInv, PacketInv, Running, TakeB(r)
  PROVE  PacketInv'
<1> DEFINE h == Head(rxqueueB)
           d == Prefix(h, Slice[r])
<1>1. /\ rxqueueB # <<>> /\ rxqueueB' = Tail(rxqueueB)
      /\ out' = Append(out, [data |-> d, short |-> FALSE])
      /\ UNCHANGED <<mode, arrived, loop, n, i, inbox>>
  BY DEF TakeB, Return, Running, loopVars
<1>2. /\ Queued' = Queued /\ Taken' = Taken /\ UNCHANGED buf
  BY QuietOwn
<1>3. Busy' = Busy /\ \A c \in Busy : buf'[c] = buf[c]
  BY <1>2 DEF Busy
<1>4. /\ rxqueueB \in Seq(Seq(Byte)) /\ ~ batched /\ Slice[r] \in Nat \ {0}
      /\ arrived \in 0 .. MaxPacket /\ loop # "queue"
  BY <1>1, ConstantsTyped DEF Base, TypeOK, LoopShape
<1>5. /\ h = rxqueueB[1] /\ 1 \in DOMAIN rxqueueB
      /\ \A k \in DOMAIN rxqueueB' : /\ k \in 1 .. Len(rxqueueB) - 1
                                     /\ k + 1 \in DOMAIN rxqueueB
                                     /\ rxqueueB'[k] = rxqueueB[k + 1]
  BY <1>1, <1>4, TailElements
<1>6. IsPacket(h, arrived) /\ h \in Seq(Byte)
  BY <1>4, <1>5 DEF PacketInv, DataInv
<1> HIDE DEF h
<1>7. IsStart(d, arrived) /\ Id(d) = Id(h) /\ d \in Seq(Byte)
  BY <1>4, <1>6, StartOf, PrefixElements
<1> HIDE DEF d
<1>8. \A k \in DOMAIN rxqueueB' : /\ \E j \in DOMAIN rxqueueB : rxqueueB'[k] = rxqueueB[j]
                                  /\ Id(h) # Id(rxqueueB'[k])
  <2>1. SUFFICES ASSUME NEW k \in DOMAIN rxqueueB'
                 PROVE  /\ \E j \in DOMAIN rxqueueB : rxqueueB'[k] = rxqueueB[j]
                        /\ Id(h) # Id(rxqueueB'[k])
    OBVIOUS
  <2>2. /\ k \in 1 .. Len(rxqueueB) - 1 /\ k + 1 \in DOMAIN rxqueueB
        /\ rxqueueB'[k] = rxqueueB[k + 1]
    BY <1>5
  <2>3. k + 1 # 1
    BY <2>2
  <2> QED BY <1>5, <2>2, <2>3 DEF PacketInv, UniqueInv
<1>9. DataInv'
  BY <1>1, <1>3, <1>5 DEF PacketInv, DataInv
<1>10. UniqueInv'
  <2>1. \A j, k \in DOMAIN rxqueueB' : Id(rxqueueB'[j]) = Id(rxqueueB'[k]) => j = k
    <3>1. SUFFICES ASSUME NEW j \in DOMAIN rxqueueB', NEW k \in DOMAIN rxqueueB',
                          Id(rxqueueB'[j]) = Id(rxqueueB'[k])
                   PROVE  j = k
      OBVIOUS
    <3>2. j + 1 = k + 1
      BY <1>5, <3>1 DEF PacketInv, UniqueInv
    <3>3. j \in Int /\ k \in Int
      BY <1>5
    <3> QED BY <3>2, <3>3
  <2> QED BY <1>1, <1>3, <2>1 DEF PacketInv, UniqueInv
<1>11. OutInv'
  <2>1. CASE ~ oneshot
    BY <1>1, <2>1 DEF OutInv, mode
  <2>2. CASE oneshot
    <3>1. \A k \in DOMAIN out : Id(d) # Id(out[k].data)
      BY <1>5, <1>7, <2>2 DEF PacketInv, OutInv
    <3>2. \A c \in Busy' : Id(d) # Id(buf[c].data)
      <4>1. rxqueue = <<>> /\ \A q \in Reader : held[q] = NoBuffer
        BY <1>4 DEF Base, LoopShape, ReadShape
      <4> QED BY <1>3, <4>1 DEF Busy, Queued, Taken
    <3>3. \A k \in DOMAIN rxqueueB' :
            /\ \E j \in DOMAIN rxqueueB : rxqueueB'[k] = rxqueueB[j]
            /\ Id(d) # Id(rxqueueB'[k])
      BY <1>7, <1>8
    <3> QED BY <1>1, <1>3, <1>4, <1>7, <2>2, <3>1, <3>2, <3>3, PacketReturned
  <2> QED BY <2>1, <2>2
<1> QED BY <1>9, <1>10, <1>11 DEF PacketInv

LEMMA FinishPacket ==
  ASSUME NEW r \in Reader, Base, OwnInv, PoolInv, PacketInv, Running, Finish(r)
  PROVE  PacketInv'
<1> DEFINE b == held[r]
           rest == unread(b)
           d == Prefix(rest, Slice[r])
           whole == left(r) = <<>>
           short == oneshot /\ ~ whole
<1>1. /\ b \in Buffer /\ Slice[r] \in Nat \ {0} /\ rest \in Seq(Byte)
      /\ d \in Seq(Byte) /\ Len(rest) \in Nat
      /\ (whole <=> Len(rest) <= Slice[r])
      /\ Return(r, d, short)
      /\ UNCHANGED <<mode, loopVars, rxqueue, rxqueueB>>
  BY FinishCases
<1>2. /\ b \in Taken /\ Queued' = Queued /\ Taken' = Taken \ {b}
      /\ \A c \in Queued \cup (Taken \ {b}) : buf'[c] = buf[c]
  BY FinishOwn
<1>3. Busy' = Busy \ {b} /\ b \in Busy /\ \A c \in Busy' : buf'[c] = buf[c]
  BY <1>2 DEF Busy, OwnInv, Apart
<1>4. arrived \in 0 .. MaxPacket /\ short \in BOOLEAN
  BY DEF Base, TypeOK
<1>5. IsPacket(buf[b].data, arrived) /\ buf[b].roffset = 0
  BY <1>3 DEF PacketInv, DataInv
<1>6. rest = buf[b].data
  <2>1. buf[b].data \in Seq(Byte)
    BY <1>4, <1>5, PacketKnown
  <2>2. SubSeq(buf[b].data, 1, Len(buf[b].data)) = buf[b].data
    BY <2>1
  <2> QED BY <1>5, <2>2 DEF unread
<1>7. UNCHANGED <<arrived, loop, n, i, inbox, rxqueueB, mode>>
  BY <1>1 DEF loopVars
<1>8. out' = Append(out, [data |-> d, short |-> short])
  BY <1>1 DEF Return
<1>9. oneshot => (short <=> Slice[r] < Len(rest))
  BY <1>1
<1>10. IsPacket(rest, arrived) /\ \A c \in Busy' : Id(rest) # Id(buf[c].data)
  BY <1>3, <1>5, <1>6 DEF PacketInv, UniqueInv
<1>11. /\ oneshot => \A k \in DOMAIN out : Id(rest) # Id(out[k].data)
       /\ loop = "queue" => \A s \in i .. n : Id(rest) # Id(inbox[s])
  BY <1>3, <1>6 DEF PacketInv, UniqueInv, OutInv
<1> HIDE DEF b, rest, whole, short
<1>12. /\ IsStart(d, arrived) /\ Id(d) = Id(rest)
       /\ Len(d) < d[1][2] <=> Slice[r] < Len(rest)
  BY <1>1, <1>4, <1>10, StartOf
<1> HIDE DEF d
<1>13. DataInv'
  BY <1>3, <1>7 DEF PacketInv, DataInv
<1>14. UniqueInv'
  BY <1>3, <1>7 DEF PacketInv, UniqueInv
<1>15. OutInv'
  <2>1. CASE ~ oneshot
    BY <1>7, <2>1 DEF OutInv, mode
  <2>2. CASE oneshot
    <3>1. Reported([data |-> d, short |-> short])
      BY <1>9, <1>12, <2>2 DEF Reported
    <3>2. \A k \in DOMAIN out : Id(d) # Id(out[k].data)
      BY <1>11, <1>12, <2>2
    <3>3. \A c \in Busy' : Id(d) # Id(buf[c].data)
      BY <1>10, <1>12
    <3>4. loop = "queue" => \A s \in i .. n : Id(d) # Id(inbox[s])
      BY <1>11, <1>12
    <3>5. \A k \in DOMAIN rxqueueB' :
            /\ \E j \in DOMAIN rxqueueB : rxqueueB'[k] = rxqueueB[j]
            /\ Id(d) # Id(rxqueueB'[k])
      <4>1. batched
        BY FinishCases
      <4> QED BY <1>7, <4>1, NoQueueB
    <3>6. Busy' \subseteq Busy
      BY <1>3
    <3> QED BY <1>1, <1>3, <1>4, <1>7, <1>8, <1>12, <2>2, <3>1, <3>2, <3>3, <3>4,
               <3>5, <3>6, PacketReturned
  <2> QED BY <2>1, <2>2
<1> QED BY <1>13, <1>14, <1>15 DEF PacketInv

(* The other steps leave the packets where they are. *)
LEMMA QuietPacket ==
  ASSUME Base, OwnInv, PoolInv, PacketInv, Running,
         Discard \/ ReadFails \/ Close \/ UNCHANGED vars
         \/ \E r \in Reader : \/ Take(r) \/ ReadRest(r)
                              \/ ReadCall(r) \/ Lock(r) \/ ReadDead(r)
  PROVE  PacketInv'
<1>1. i \in Nat
  BY ConstantsTyped DEF Base, TypeOK, Slot
<1>2. CASE Discard
  <2>1. /\ loop = "queue" /\ NextSlot
        /\ UNCHANGED <<n, arrived, rxqueueB, out, mode, buf>>
    BY <1>2 DEF Discard, readVars, poolVars, Running
  <2>2. loop' = "queue" => inbox' = inbox /\ i' = i + 1
    BY <2>1, NextSlotKeeps
  <2>3. LoopGoesOn
    BY <1>1, <2>1, <2>2 DEF LoopGoesOn
  <2>4. Busy' = Busy
    BY <1>2, DiscardOwn DEF Busy
  <2> QED BY <2>1, <2>3, <2>4, PacketSame
<1>3. CASE ReadFails \/ Close \/ UNCHANGED vars
  <2>1. /\ Queued' = Queued /\ Taken' = Taken /\ UNCHANGED buf
    BY <1>3, QuietOwn
  <2>2. UNCHANGED <<rxqueueB, arrived, mode, out>>
    BY <1>3 DEF ReadFails, Close, vars, loopVars, readVars, Running
  <2>3. LoopGoesOn
    BY <1>1, <1>3 DEF LoopGoesOn, ReadFails, Close, vars, loopVars
  <2>4. Busy' = Busy
    BY <2>1 DEF Busy
  <2> QED BY <2>1, <2>2, <2>3, <2>4, PacketSame
<1>4. ASSUME NEW r \in Reader, ReadCall(r) \/ Lock(r) \/ ReadDead(r)
      PROVE  PacketInv'
  <2>1. /\ Queued' = Queued /\ Taken' = Taken /\ UNCHANGED buf
    BY <1>4, QuietOwn
  <2>2. UNCHANGED <<rxqueueB, arrived, mode, out>>
    BY <1>4 DEF ReadCall, Lock, ReadDead, loopVars, Running
  <2>3. LoopGoesOn
    BY <1>1, <1>4 DEF LoopGoesOn, ReadCall, Lock, ReadDead, loopVars
  <2>4. Busy' = Busy
    BY <2>1 DEF Busy
  <2> QED BY <2>1, <2>2, <2>3, <2>4, PacketSame
<1>5. ASSUME NEW r \in Reader, Take(r) PROVE PacketInv'
  <2>1. Busy' = Busy /\ UNCHANGED buf
    BY <1>5, TakeOwn DEF Busy
  <2>2. UNCHANGED <<rxqueueB, arrived, mode, out>>
    BY <1>5 DEF Take, loopVars, Running
  <2>3. LoopGoesOn
    BY <1>1, <1>5 DEF LoopGoesOn, Take, loopVars
  <2> QED BY <2>1, <2>2, <2>3, PacketSame
<1>6. ASSUME NEW r \in Reader, ReadRest(r) PROVE PacketInv'
  <2>1. Busy' = Busy /\ \A c \in Busy : buf'[c] = buf[c]
    BY <1>6, ReadRestOwn DEF Busy
  <2>2. UNCHANGED <<rxqueueB, arrived, mode>> /\ ~ oneshot
    BY <1>6, ReadRestCases DEF loopVars
  <2>3. LoopGoesOn
    BY <1>1, <1>6 DEF LoopGoesOn, ReadRest, loopVars
  <2> QED BY <2>1, <2>2, <2>3, PacketSame
<1> QED BY <1>2, <1>3, <1>4, <1>5, <1>6

Inv == Base /\ OwnInv /\ PoolInv

LEMMA InvStep == Inv /\ [Next]_vars => Inv'
BY BaseStep, OwnStep DEF Inv

LEMMA PacketStep == Inv /\ PacketInv /\ [Next]_vars => PacketInv'
<1> SUFFICES ASSUME Base, OwnInv, PoolInv, PacketInv, [Next]_vars
             PROVE  PacketInv'
  BY DEF Inv
<1>1. Running \/ UNCHANGED vars
  BY DEF Next
<1>2. UNCHANGED vars => Running
  BY DEF PoolInv, Running, vars
<1> QED BY <1>1, <1>2, NextCases, FillSlotPacket, ReadBatchPacket, PutRxQueue2Packet,
           HandlePacketPacket, ListenerPutPacket, TakeBPacket, FinishPacket,
           QuietPacket

(* In oneshot mode, a Read of a packet that came in a batch returns        *)
(* ErrShortRead exactly when it did not return the whole packet (Read, and *)
(* the comment of oneshotRead).                                            *)
THEOREM ShortReadsAreReported == Spec => []ShortReadReported
<1>1. Init => Inv /\ PacketInv
  BY BaseInit, OwnInit, PacketInit DEF Inv
<1>2. Inv /\ PacketInv /\ [Next]_vars => (Inv /\ PacketInv)'
  BY InvStep, PacketStep
<1>3. Inv /\ PacketInv => ShortReadReported
  BY DEF PacketInv, OutInv, Reported, ShortReadReported
<1> QED BY <1>1, <1>2, <1>3, PTL DEF Spec

(* In oneshot mode, each Read returns the start of a packet, and no two    *)
(* Reads the same packet, however many goroutines read, and however the    *)
(* buffers are reused (Read, readBatchLoopv2).                             *)
THEOREM ReadsReturnPackets == Spec => []OnePacketPerRead
<1>1. Init => Inv /\ PacketInv
  BY BaseInit, OwnInit, PacketInit DEF Inv
<1>2. Inv /\ PacketInv /\ [Next]_vars => (Inv /\ PacketInv)'
  BY InvStep, PacketStep
<1>3. Inv /\ PacketInv => OnePacketPerRead
  <2>1. SUFFICES ASSUME Inv, PacketInv, oneshot PROVE OnePacketPerRead
    BY DEF OnePacketPerRead
  <2>2. arrived \in 0 .. MaxPacket
    BY <2>1 DEF Inv, Base, TypeOK
  <2>3. \A k \in DOMAIN out :
          /\ out[k].data # <<>>
          /\ out[k].data = Prefix(Packet(out[k].data[1][1], out[k].data[1][2]),
                                  Len(out[k].data))
    BY <2>1, <2>2, StartKnown DEF PacketInv, OutInv
  <2>4. \A j, k \in DOMAIN out : out[j].data[1] = out[k].data[1] => j = k
    BY <2>1 DEF PacketInv, OutInv, Id
  <2> QED BY <2>3, <2>4 DEF OnePacketPerRead
<1> QED BY <1>1, <1>2, <1>3, PTL DEF Spec

-----------------------------------------------------------------------------
(***************************************************************************)
(* In stream mode nothing is lost, and nothing returned twice.             *)
(***************************************************************************)
FrontFacts ==
  /\ Front \in Seq(Byte)
  /\ undrained # NoBuffer => Front = unread(undrained)
  /\ ~ oneshot =>
       \A r \in Reader :
         held[r] # NoBuffer => undrained = NoBuffer /\ Front = buf[held[r]].data
  /\ undrained = NoBuffer /\ (\A r \in Reader : held[r] = NoBuffer) => Front = <<>>

(* Whoever has taken a packet has the lock. *)
LEMMA FrontCases == Base /\ ~ oneshot => FrontFacts
<1> SUFFICES ASSUME Base, ~ oneshot PROVE FrontFacts
  OBVIOUS
<1>1. undrained # NoBuffer => Front = unread(undrained)
  BY DEF Front
<1>2. \A r \in Reader :
        held[r] # NoBuffer => undrained = NoBuffer /\ Front = buf[held[r]].data
  <2>1. SUFFICES ASSUME NEW r \in Reader, held[r] # NoBuffer
                 PROVE  undrained = NoBuffer /\ Front = buf[held[r]].data
    OBVIOUS
  <2>2. undrained = NoBuffer /\ mux = r
    BY <2>1 DEF Base, ReadShape
  <2> QED BY <2>1, <2>2 DEF Front
<1>3. undrained = NoBuffer /\ (\A r \in Reader : held[r] = NoBuffer) => Front = <<>>
  BY DEF Front
<1>4. Front \in Seq(Byte)
  <2>1. CASE undrained # NoBuffer
    <3>1. undrained \in Buffer
      BY <2>1 DEF Base, TypeOK
    <3> QED BY <1>1, <2>1, <3>1, UnreadTyped DEF Base
  <2>2. CASE \E r \in Reader : held[r] # NoBuffer
    <3>1. PICK r \in Reader : held[r] # NoBuffer
      BY <2>2
    <3>2. held[r] \in Buffer /\ buf \in [Buffer -> BufferRecord]
      BY <3>1 DEF Base, TypeOK, BufferRecord
    <3>3. buf[held[r]].data \in Seq(Byte)
      BY <3>2 DEF BufferRecord
    <3> QED BY <1>2, <3>1, <3>3
  <2>3. CASE undrained = NoBuffer /\ \A r \in Reader : held[r] = NoBuffer
    <3>1. Front = <<>>
      BY <1>3, <2>3
    <3>2. <<>> \in Seq(Byte)
      OBVIOUS
    <3> QED BY <3>1, <3>2
  <2> QED BY <2>1, <2>2, <2>3
<1> QED BY <1>1, <1>2, <1>3, <1>4 DEF FrontFacts

LEMMA FrontCasesNext == Base' /\ ~ oneshot' => FrontFacts'
<1>1. (Base /\ ~ oneshot => FrontFacts)'
  BY FrontCases, PTL
<1> QED BY <1>1

LEMMA StreamTyped ==
  ASSUME Base
  PROVE  /\ stream \in Seq(Byte) /\ delivered \in Seq(Byte) /\ rxqueue \in Seq(Buffer)
         /\ Len(stream) \in Nat /\ Len(delivered) \in Nat /\ Len(rxqueue) \in Nat
         /\ DOMAIN rxqueue = 1 .. Len(rxqueue)
         /\ \A k \in 1 .. Len(rxqueue) :
              /\ rxqueue[k] \in Buffer /\ rxqueue[k] \in Queued
              /\ buf[rxqueue[k]].data \in Seq(Byte)
<1>1. /\ stream \in Seq(Byte) /\ delivered \in Seq(Byte) /\ rxqueue \in Seq(Buffer)
      /\ buf \in [Buffer -> BufferRecord]
  BY DEF Base, TypeOK, BufferRecord
<1>2. /\ Len(stream) \in Nat /\ Len(delivered) \in Nat /\ Len(rxqueue) \in Nat
      /\ DOMAIN rxqueue = 1 .. Len(rxqueue)
      /\ \A k \in 1 .. Len(rxqueue) : rxqueue[k] \in Buffer
  BY <1>1
<1>3. \A b \in Buffer : buf[b].data \in Seq(Byte)
  BY <1>1 DEF BufferRecord
<1>4. \A k \in 1 .. Len(rxqueue) : rxqueue[k] \in Queued
  BY <1>2 DEF Queued
<1> QED BY <1>1, <1>2, <1>3, <1>4

LEMMA StreamInit == Init => StreamInv
<1> SUFFICES ASSUME Init PROVE StreamInv
  OBVIOUS
<1>1. /\ delivered = <<>> /\ stream = <<>> /\ rxqueue = <<>> /\ undrained = NoBuffer
      /\ \A r \in Reader : held[r] = NoBuffer
  BY DEF Init
<1>2. Front = <<>>
  BY <1>1 DEF Front
<1>3. Len(<<>>) = 0
  OBVIOUS
<1>4. Placed(stream, 0, delivered) /\ Placed(stream, Len(delivered), Front)
  BY <1>1, <1>2, <1>3 DEF Placed
<1> DEFINE at == [k \in 1 .. 1 |-> 0]
<1>5. at \in [1 .. Len(rxqueue) + 1 -> Nat]
  BY <1>1, <1>3
<1>6. Laid(at)
  BY <1>1, <1>2, <1>3 DEF Laid
<1> HIDE DEF at
<1> QED BY <1>1, <1>4, <1>5, <1>6 DEF StreamInv

(* A step that reads nothing and queues nothing. *)
LEMMA StreamSame ==
  ASSUME Base, Base', StreamInv, Front' = Front,
         UNCHANGED <<batched, oneshot, delivered, rxqueue, stream, undrained>>,
         undrained # NoBuffer => buf'[undrained] = buf[undrained],
         \A c \in Queued : buf'[c] = buf[c]
  PROVE  StreamInv'
<1> SUFFICES ASSUME batched, ~ oneshot
             PROVE  /\ Placed(stream, 0, delivered)' /\ Placed(stream, Len(delivered), Front)'
                    /\ undrained # NoBuffer =>
                         buf'[undrained].roffset < Len(buf'[undrained].data)
                    /\ \E at \in [1 .. Len(rxqueue) + 1 -> Nat] : Laid(at)'
  BY DEF StreamInv
<1>1. PICK at \in [1 .. Len(rxqueue) + 1 -> Nat] : Laid(at)
  BY DEF StreamInv
<1>2. Laid(at)'
  <2>1. \A k \in 1 .. Len(rxqueue) : buf'[rxqueue[k]] = buf[rxqueue[k]]
    BY StreamTyped
  <2>2. /\ rxqueue' = rxqueue /\ stream' = stream /\ delivered' = delivered
        /\ Front' = Front
    OBVIOUS
  <2>3. /\ at[1] = Len(delivered') + Len(Front')
        /\ at[Len(rxqueue') + 1] = Len(stream')
    BY <1>1, <2>2 DEF Laid
  <2>4. ASSUME NEW k \in 1 .. Len(rxqueue')
        PROVE  LET d == buf'[rxqueue'[k]].data
               IN  at[k + 1] = at[k] + Len(d) /\ Placed(stream', at[k], d)
    BY <1>1, <2>1, <2>2 DEF Laid
  <2> QED BY <2>3, <2>4 DEF Laid
<1>3. Placed(stream, 0, delivered)' /\ Placed(stream, Len(delivered), Front)'
  BY DEF StreamInv, Placed
<1>4. undrained # NoBuffer => buf'[undrained].roffset < Len(buf'[undrained].data)
  BY DEF StreamInv
<1> QED BY <1>1, <1>2, <1>3, <1>4

(* What was placed in the stream stays placed when the stream grows.       *)
LEMMA PlacedLater ==
  ASSUME NEW s \in Seq(Byte), stream \in Seq(Byte), stream' = stream \o s
  PROVE  /\ Len(stream') = Len(stream) + Len(s) /\ Len(s) \in Nat /\ Len(stream) \in Nat
         /\ \A p \in Nat, d \in Seq(Byte) : Placed(stream, p, d) => Placed(stream', p, d)
         /\ Placed(stream', Len(stream), s)
<1>1. /\ Len(stream') = Len(stream) + Len(s)
      /\ Len(stream) \in Nat /\ Len(s) \in Nat
      /\ \A k \in 1 .. Len(stream) : stream'[k] = stream[k]
      /\ \A k \in 1 .. Len(s) : stream'[Len(stream) + k] = s[k]
  BY ConcatElements
<1>2. ASSUME NEW p \in Nat, NEW d \in Seq(Byte), Placed(stream, p, d)
      PROVE  Placed(stream', p, d)
  <2>1. Len(d) \in Nat /\ p + Len(d) <= Len(stream)
    BY <1>2 DEF Placed
  <2>2. \A j \in 1 .. Len(d) : p + j \in 1 .. Len(stream)
    BY <1>1, <2>1
  <2>3. \A j \in 1 .. Len(d) : stream'[p + j] = d[j]
    BY <1>1, <1>2, <2>2 DEF Placed
  <2>4. p + Len(d) <= Len(stream')
    BY <1>1, <2>1
  <2> QED BY <2>3, <2>4 DEF Placed
<1>3. Placed(stream', Len(stream), s)
  BY <1>1 DEF Placed
<1> QED BY <1>1, <1>2, <1>3

(* A packet is queued. *)
LEMMA StreamQueued ==
  ASSUME Base, Base', StreamInv, Front' = Front, batched, ~ oneshot,
         UNCHANGED <<delivered, undrained>>,
         undrained # NoBuffer => buf'[undrained] = buf[undrained],
         \A c \in Queued : buf'[c] = buf[c],
         NEW b \in Buffer, NEW s \in Seq(Byte), rxqueue' = Append(rxqueue, b),
         stream' = stream \o s, buf'[b].data = s
  PROVE  StreamInv'
<1>1. PICK at \in [1 .. Len(rxqueue) + 1 -> Nat] : Laid(at)
  BY DEF StreamInv
<1>2. FrontFacts
  BY FrontCases
<1>3. /\ stream \in Seq(Byte) /\ delivered \in Seq(Byte) /\ rxqueue \in Seq(Buffer)
      /\ Len(delivered) \in Nat /\ Len(rxqueue) \in Nat /\ Len(stream) \in Nat
      /\ \A k \in 1 .. Len(rxqueue) :
           buf[rxqueue[k]].data \in Seq(Byte) /\ rxqueue[k] \in Queued
  BY StreamTyped
<1>4. /\ Len(stream') = Len(stream) + Len(s) /\ Len(s) \in Nat
      /\ \A p \in Nat, d \in Seq(Byte) : Placed(stream, p, d) => Placed(stream', p, d)
      /\ Placed(stream', Len(stream), s)
  BY <1>3, PlacedLater
<1>5. /\ Len(rxqueue') = Len(rxqueue) + 1
      /\ \A k \in 1 .. Len(rxqueue) : rxqueue'[k] = rxqueue[k]
      /\ rxqueue'[Len(rxqueue) + 1] = b
  BY <1>3, AppendElements
<1>6. Placed(stream', 0, delivered') /\ Placed(stream', Len(delivered'), Front')
  BY <1>2, <1>3, <1>4 DEF StreamInv, FrontFacts
<1> DEFINE m == Len(rxqueue)
<1>7. PICK at1 \in [1 .. Len(rxqueue') + 1 -> Nat] :
        /\ \A k \in 1 .. m + 1 : at1[k] = at[k]
        /\ at1[m + 2] = Len(stream')
  <2> DEFINE a == [k \in 1 .. m + 2 |-> IF k = m + 2 THEN Len(stream') ELSE at[k]]
  <2>1. Len(rxqueue') + 1 = m + 2 /\ m \in Nat /\ Len(stream') \in Nat
    BY <1>3, <1>4, <1>5
  <2>2. \A k \in 1 .. m + 2 : k = m + 2 \/ at[k] \in Nat
    BY <1>3
  <2>3. \A k \in 1 .. m + 1 : k \in 1 .. m + 2 /\ k # m + 2
    BY <1>3
  <2>4. m + 2 \in 1 .. m + 2
    BY <1>3
  <2>5. /\ a \in [1 .. Len(rxqueue') + 1 -> Nat]
        /\ \A k \in 1 .. m + 1 : a[k] = at[k]
        /\ a[m + 2] = Len(stream')
    BY <2>1, <2>2, <2>3, <2>4
  <2> HIDE DEF a
  <2> QED BY <2>5
<1>8. Laid(at1)'
  <2>1. at1[1] = Len(delivered') + Len(Front')
    <3>1. 1 \in 1 .. m + 1
      BY <1>3
    <3> QED BY <1>1, <1>7, <3>1 DEF Laid
  <2>2. at1[Len(rxqueue') + 1] = Len(stream')
    <3>1. Len(rxqueue') + 1 = m + 2
      BY <1>3, <1>5
    <3> QED BY <1>7, <3>1
  <2>3. ASSUME NEW k \in 1 .. Len(rxqueue')
        PROVE  LET d == buf'[rxqueue'[k]].data
               IN at1[k + 1] = at1[k] + Len(d) /\ Placed(stream', at1[k], d)
    <3>1. CASE k \in 1 .. m
      <4>1. k \in 1 .. m + 1 /\ k + 1 \in 1 .. m + 1
        BY <1>3, <3>1
      <4>2. rxqueue'[k] = rxqueue[k] /\ buf'[rxqueue[k]].data = buf[rxqueue[k]].data
        BY <1>3, <1>5, <3>1
      <4>3. /\ at[k + 1] = at[k] + Len(buf[rxqueue[k]].data)
            /\ Placed(stream, at[k], buf[rxqueue[k]].data)
        BY <1>1, <3>1 DEF Laid
      <4>4. Placed(stream', at[k], buf[rxqueue[k]].data)
        BY <1>3, <1>4, <3>1, <4>1, <4>3
      <4> QED BY <1>7, <4>1, <4>2, <4>3, <4>4
    <3>2. CASE k = m + 1
      <4>1. k \in 1 .. m + 1 /\ k + 1 = m + 2
        BY <1>3, <3>2
      <4>2. at1[k] = Len(stream) /\ at1[k + 1] = Len(stream')
        BY <1>1, <1>7, <3>2, <4>1 DEF Laid
      <4>3. rxqueue'[k] = b
        BY <1>5, <3>2
      <4> QED BY <1>4, <4>2, <4>3
    <3>3. k \in 1 .. m \/ k = m + 1
      BY <1>3, <1>5
    <3> QED BY <3>1, <3>2, <3>3
  <2> QED BY <2>1, <2>2, <2>3 DEF Laid
<1>9. undrained # NoBuffer => buf'[undrained].roffset < Len(buf'[undrained].data)
  BY DEF StreamInv
<1> QED BY <1>6, <1>7, <1>8, <1>9 DEF StreamInv

(* A Read takes the first packet out of the queue, when it has nothing     *)
(* left of an earlier one.                                                 *)
LEMMA StreamTaken ==
  ASSUME Base, Base', StreamInv, batched, ~ oneshot, rxqueue # <<>>,
         Front = <<>>, Front' = buf[Head(rxqueue)].data,
         rxqueue' = Tail(rxqueue), undrained' = NoBuffer,
         UNCHANGED <<buf, delivered, stream>>
  PROVE  StreamInv'
<1>1. PICK at \in [1 .. Len(rxqueue) + 1 -> Nat] : Laid(at)
  BY DEF StreamInv
<1>2. /\ rxqueue \in Seq(Buffer) /\ Len(rxqueue) \in Nat /\ Len(delivered) \in Nat
      /\ \A k \in 1 .. Len(rxqueue) : buf[rxqueue[k]].data \in Seq(Byte)
  BY StreamTyped
<1>3. /\ Head(rxqueue) = rxqueue[1] /\ Len(rxqueue) \in Nat \ {0}
      /\ Len(rxqueue') = Len(rxqueue) - 1
      /\ \A k \in 1 .. Len(rxqueue) - 1 : rxqueue'[k] = rxqueue[k + 1]
  BY <1>2, TailElements
<1> DEFINE m == Len(rxqueue)
           d1 == buf[rxqueue[1]].data
<1>4. 1 \in 1 .. m /\ m \in Nat /\ Len(rxqueue') + 1 = m /\ Len(<<>>) = 0
  BY <1>3
<1>5. /\ at[1] = Len(delivered) /\ at[2] = at[1] + Len(d1)
      /\ Placed(stream, at[1], d1) /\ at[m + 1] = Len(stream)
  <2>1. at[1] = Len(delivered) + 0
    BY <1>1, <1>4 DEF Laid
  <2>2. at[1] = Len(delivered)
    BY <1>2, <2>1
  <2>3. at[1 + 1] = at[1] + Len(d1) /\ Placed(stream, at[1], d1)
    BY <1>1, <1>4 DEF Laid
  <2> QED BY <1>1, <2>2, <2>3 DEF Laid
<1>6. PICK at1 \in [1 .. Len(rxqueue') + 1 -> Nat] :
        \A k \in 1 .. m : at1[k] = at[k + 1]
  <2> DEFINE a == [k \in 1 .. m |-> at[k + 1]]
  <2>1. \A k \in 1 .. m : k + 1 \in 1 .. m + 1
    BY <1>4
  <2>2. a \in [1 .. Len(rxqueue') + 1 -> Nat] /\ \A k \in 1 .. m : a[k] = at[k + 1]
    BY <1>4, <2>1
  <2> HIDE DEF a
  <2> QED BY <2>2
<1>7. Laid(at1)'
  <2>1. at1[1] = Len(delivered') + Len(Front')
    BY <1>3, <1>4, <1>5, <1>6
  <2>2. at1[Len(rxqueue') + 1] = Len(stream')
    <3>1. m \in 1 .. m
      BY <1>3
    <3> QED BY <1>4, <1>5, <1>6, <3>1
  <2>3. ASSUME NEW k \in 1 .. Len(rxqueue')
        PROVE  LET d == buf'[rxqueue'[k]].data
               IN at1[k + 1] = at1[k] + Len(d) /\ Placed(stream', at1[k], d)
    <3>1. /\ k \in 1 .. m - 1 /\ k \in 1 .. m /\ k + 1 \in 1 .. m
      BY <1>3
    <3>2. rxqueue'[k] = rxqueue[k + 1] /\ at1[k] = at[k + 1] /\ at1[k + 1] = at[(k + 1) + 1]
      BY <1>3, <1>6, <3>1
    <3>3. LET d == buf[rxqueue[k + 1]].data
          IN at[(k + 1) + 1] = at[k + 1] + Len(d) /\ Placed(stream, at[k + 1], d)
      BY <1>1, <3>1 DEF Laid
    <3> QED BY <3>2, <3>3
  <2> QED BY <2>1, <2>2, <2>3 DEF Laid
<1>8. Placed(stream', 0, delivered') /\ Placed(stream', Len(delivered'), Front')
  BY <1>3, <1>5 DEF StreamInv
<1> QED BY <1>6, <1>7, <1>8 DEF StreamInv

(* A Read returns the first bytes of what is in front.                     *)
LEMMA StreamReturned ==
  ASSUME Base, Base', StreamInv, batched, ~ oneshot, Front \in Seq(Byte),
         NEW d \in Seq(Byte), delivered' = delivered \o d,
         Front' \in Seq(Byte), Len(d) + Len(Front') = Len(Front),
         \A j \in 1 .. Len(d) : d[j] = Front[j],
         \A j \in 1 .. Len(Front') : Front'[j] = Front[Len(d) + j],
         UNCHANGED <<rxqueue, stream>>,
         \A c \in Queued : buf'[c] = buf[c],
         undrained' # NoBuffer => buf'[undrained'].roffset < Len(buf'[undrained'].data)
  PROVE  StreamInv'
<1>1. PICK at \in [1 .. Len(rxqueue) + 1 -> Nat] : Laid(at)
  BY DEF StreamInv
<1>2. /\ stream \in Seq(Byte) /\ delivered \in Seq(Byte)
      /\ Len(delivered) \in Nat /\ Len(stream) \in Nat
      /\ \A k \in 1 .. Len(rxqueue) : rxqueue[k] \in Queued
  BY StreamTyped
<1>3. /\ Len(delivered') = Len(delivered) + Len(d)
      /\ Len(d) \in Nat
      /\ \A k \in 1 .. Len(delivered) : delivered'[k] = delivered[k]
      /\ \A k \in 1 .. Len(d) : delivered'[Len(delivered) + k] = d[k]
  BY <1>2, ConcatElements
<1>4. Len(Front) \in Nat /\ Len(Front') \in Nat
  OBVIOUS
<1>5. /\ Len(delivered) + Len(Front) <= Len(stream)
      /\ \A j \in 1 .. Len(Front) : stream[Len(delivered) + j] = Front[j]
      /\ \A j \in 1 .. Len(delivered) : stream[0 + j] = delivered[j]
  BY DEF StreamInv, Placed
<1>6. Placed(stream', 0, delivered')
  <2>1. ASSUME NEW j \in 1 .. Len(delivered')
        PROVE  stream[0 + j] = delivered'[j]
    <3>1. CASE j \in 1 .. Len(delivered)
      BY <1>3, <1>5, <3>1
    <3>2. CASE j \notin 1 .. Len(delivered)
      <4> DEFINE k == j - Len(delivered)
      <4>1. k \in 1 .. Len(d) /\ j = Len(delivered) + k /\ k \in 1 .. Len(Front) /\ 0 + j = j
        BY <1>2, <1>3, <1>4, <3>2
      <4> HIDE DEF k
      <4>2. delivered'[j] = d[k] /\ d[k] = Front[k]
        BY <1>2, <1>3, <4>1
      <4>3. stream[j] = Front[k]
        BY <1>5, <4>1
      <4> QED BY <4>1, <4>2, <4>3
    <3> QED BY <3>1, <3>2
  <2>2. 0 + Len(delivered') <= Len(stream)
    BY <1>2, <1>3, <1>4, <1>5
  <2> QED BY <2>1, <2>2 DEF Placed
<1>7. Placed(stream', Len(delivered'), Front')
  <2>1. ASSUME NEW j \in 1 .. Len(Front')
        PROVE  stream[Len(delivered') + j] = Front'[j]
    <3>1. Len(d) + j \in 1 .. Len(Front)
          /\ Len(delivered') + j = Len(delivered) + (Len(d) + j)
      BY <1>2, <1>3, <1>4
    <3> QED BY <1>5, <3>1
  <2>2. Len(delivered') + Len(Front') <= Len(stream)
    BY <1>2, <1>3, <1>4, <1>5
  <2> QED BY <2>1, <2>2 DEF Placed
<1>8. Len(delivered') + Len(Front') = Len(delivered) + Len(Front)
  <2>1. \A x, y, z \in Nat : (x + y) + z = x + (y + z)
    OBVIOUS
  <2>2. Len(delivered') = Len(delivered) + Len(d) /\ Len(d) \in Nat
    BY <1>3
  <2>3. Len(d) + Len(Front') = Len(Front)
    OBVIOUS
  <2>4. (Len(delivered) + Len(d)) + Len(Front') = Len(delivered) + (Len(d) + Len(Front'))
    BY <1>2, <1>4, <2>1, <2>2
  <2> QED BY ONLY <2>2, <2>3, <2>4
<1>9. Laid(at)'
  BY <1>1, <1>2, <1>8, StreamTyped DEF Laid
<1> QED BY <1>1, <1>6, <1>7, <1>9 DEF StreamInv

LEMMA FrontSame ==
  ASSUME FrontFacts, FrontFacts', ~ oneshot,
         UNCHANGED <<oneshot, undrained, held>>,
         \A c \in Taken \cup Rest : buf'[c] = buf[c]
  PROVE  /\ Front' = Front
         /\ undrained # NoBuffer => buf'[undrained] = buf[undrained]
<1>1. undrained # NoBuffer => buf'[undrained] = buf[undrained]
  BY DEF Rest
<1>2. CASE undrained # NoBuffer
  <2>1. unread(undrained)' = unread(undrained)
    BY <1>1, <1>2 DEF unread
  <2> QED BY <1>1, <1>2, <2>1 DEF FrontFacts
<1>3. CASE \E r \in Reader : held[r] # NoBuffer
  <2>1. PICK r \in Reader : held[r] # NoBuffer
    BY <1>3
  <2>2. buf'[held[r]] = buf[held[r]]
    BY <2>1 DEF Taken
  <2>3. Front = buf[held[r]].data /\ Front' = buf'[held[r]].data
    BY <2>1 DEF FrontFacts
  <2> QED BY <1>1, <2>2, <2>3
<1>4. CASE undrained = NoBuffer /\ \A r \in Reader : held[r] = NoBuffer
  BY <1>1, <1>4 DEF FrontFacts
<1> QED BY <1>2, <1>3, <1>4

(* The other steps leave the stream alone. *)
LEMMA QuietStream ==
  ASSUME Inv, Base', StreamInv, Running, batched, ~ oneshot,
         FillSlot \/ (\E lens \in BatchLens : ReadBatch(lens)) \/ Discard
         \/ ReadFails \/ Close \/ UNCHANGED vars
         \/ \E r \in Reader : ReadCall(r) \/ Lock(r) \/ ReadDead(r)
  PROVE  StreamInv'
<1>1. Base /\ OwnInv /\ PoolInv
  BY DEF Inv
<1>2. UNCHANGED <<batched, oneshot, delivered, stream, rxqueue, undrained>>
  BY DEF FillSlot, ReadBatch, Discard, ReadFails, Close, vars, ReadCall, Lock,
         ReadDead, Running, mode, readVars
<1>3. held' = held
  <2>1. CASE FillSlot \/ Discard
    BY <2>1 DEF FillSlot, Discard, readVars
  <2>2. CASE ~ (FillSlot \/ Discard)
    BY <1>1, <2>2, QuietOwn
  <2> QED BY <2>1, <2>2
<1>4. \A c \in Queued \cup Taken \cup Rest : buf'[c] = buf[c]
  <2>1. CASE FillSlot
    BY <1>1, <2>1, FillSlotOwn
  <2>2. CASE Discard
    BY <2>2 DEF Discard, poolVars
  <2>3. CASE ~ (FillSlot \/ Discard)
    BY <1>1, <2>3, QuietOwn
  <2> QED BY <2>1, <2>2, <2>3
<1>5. FrontFacts /\ FrontFacts'
  BY <1>1, <1>2, FrontCases, FrontCasesNext
<1>6. Front' = Front /\ (undrained # NoBuffer => buf'[undrained] = buf[undrained])
  BY <1>2, <1>3, <1>4, <1>5, FrontSame
<1> QED BY <1>1, <1>2, <1>4, <1>6, StreamSame

(* Both loops put a packet behind the others, or drop it.                  *)
LEMMA PutStream ==
  ASSUME Inv, Base', StreamInv, Running, batched, ~ oneshot,
         PutRxQueue2 \/ \E len \in Lens : ListenerPut(len)
  PROVE  StreamInv'
<1>1. Base /\ OwnInv /\ PoolInv
  BY DEF Inv
<1>2. UNCHANGED <<batched, oneshot, delivered, undrained, held>>
  BY Zenon DEF PutRxQueue2, ListenerPut, Running, mode, readVars
<1>3. /\ \A c \in Queued \cup Taken \cup Rest : buf'[c] = buf[c]
      /\ \/ UNCHANGED <<rxqueue, stream>>
         \/ \E b \in Buffer, s \in Seq(Byte) :
              /\ buf'[b].data = s
              /\ rxqueue' = Append(rxqueue, b) /\ stream' = stream \o s
  <2>1. CASE PutRxQueue2
    <3> DEFINE b == buffers[i]
               s == inbox[i]
    <3>1. /\ b \in Buffer
          /\ \A c \in Queued \cup Taken \cup Rest : buf'[c] = buf[c]
          /\ \/ /\ buf'[b] = [ref |-> 1, data |-> s, roffset |-> 0]
                /\ rxqueue' = Append(rxqueue, b) /\ stream' = stream \o s
             \/ UNCHANGED <<rxqueue, stream>>
      BY <1>1, <2>1, PutRxQueue2Own
    <3>2. s \in Seq(Byte)
      BY <1>1, <2>1, SlotTyped DEF PutRxQueue2
    <3> HIDE DEF b, s
    <3>3. buf'[b] = [ref |-> 1, data |-> s, roffset |-> 0] => buf'[b].data = s
      OBVIOUS
    <3> QED BY <3>1, <3>2, <3>3
  <2>2. ASSUME NEW len \in Lens, ListenerPut(len)
        PROVE  /\ \A c \in Queued \cup Taken \cup Rest : buf'[c] = buf[c]
               /\ \/ UNCHANGED <<rxqueue, stream>>
                  \/ \E b \in Buffer, s \in Seq(Byte) :
                       /\ buf'[b].data = s
                       /\ rxqueue' = Append(rxqueue, b) /\ stream' = stream \o s
    <3> DEFINE b == Chosen
               s == Packet(arrived', len)
    <3>1. /\ b \in Buffer
          /\ \A c \in Queued \cup Taken \cup Rest : buf'[c] = buf[c]
          /\ \/ /\ buf'[b] = [ref |-> 1, data |-> s, roffset |-> 0]
                /\ rxqueue' = Append(rxqueue, b) /\ stream' = stream \o s
             \/ UNCHANGED <<rxqueue, stream>>
      BY <1>1, <2>2, ListenerPutOwn
    <3>2. s \in Seq(Byte)
      BY <1>1, <2>2, ListenerPutCases
    <3> HIDE DEF b, s
    <3>3. buf'[b] = [ref |-> 1, data |-> s, roffset |-> 0] => buf'[b].data = s
      OBVIOUS
    <3> QED BY <3>1, <3>2, <3>3
  <2> QED BY <2>1, <2>2
<1>4. FrontFacts /\ FrontFacts'
  BY <1>1, <1>2, FrontCases, FrontCasesNext
<1>5. Front' = Front /\ (undrained # NoBuffer => buf'[undrained] = buf[undrained])
  BY <1>2, <1>3, <1>4, FrontSame
<1>6. CASE UNCHANGED <<rxqueue, stream>>
  BY <1>1, <1>2, <1>3, <1>5, <1>6, StreamSame
<1>7. CASE \E b \in Buffer, s \in Seq(Byte) :
             /\ buf'[b].data = s
             /\ rxqueue' = Append(rxqueue, b) /\ stream' = stream \o s
  <2>1. PICK b \in Buffer, s \in Seq(Byte) :
          /\ buf'[b].data = s
          /\ rxqueue' = Append(rxqueue, b) /\ stream' = stream \o s
    BY <1>7
  <2> QED BY <1>1, <1>2, <1>3, <1>5, <2>1, StreamQueued
<1> QED BY <1>3, <1>6, <1>7

LEMMA TakeStream ==
  ASSUME NEW r \in Reader, Inv, Base', StreamInv, Running, batched, ~ oneshot,
         Take(r)
  PROVE  StreamInv'
<1>1. Base /\ OwnInv /\ PoolInv
  BY DEF Inv
<1>2. /\ rpc[r] = "select" /\ rxqueue # <<>> /\ rxqueue' = Tail(rxqueue)
      /\ UNCHANGED <<batched, oneshot, buf, delivered, stream, undrained>>
  BY DEF Take, Running, mode, poolVars
<1>3. undrained = NoBuffer /\ \A q \in Reader : held[q] = NoBuffer
  BY <1>1, <1>2 DEF Base, ReadShape
<1>4. held'[r] = Head(rxqueue) /\ Head(rxqueue) \in Buffer
  BY <1>1, OwnedTyped, TakeOwn
<1>5. FrontFacts /\ FrontFacts'
  BY <1>1, <1>2, FrontCases, FrontCasesNext
<1>6. Front = <<>> /\ Front' = buf[Head(rxqueue)].data
  BY <1>2, <1>3, <1>4, <1>5, BufferTyped DEF FrontFacts
<1> QED BY <1>1, <1>2, <1>3, <1>6, StreamTaken

(* What is left of s after its first k elements, and after m more.         *)
LEMMA RestOfRest ==
  ASSUME NEW S, NEW s \in Seq(S), NEW k \in Nat, NEW m \in Nat, k + m <= Len(s)
  PROVE  LET rest == SubSeq(s, k + 1, Len(s))
             more == SubSeq(s, k + m + 1, Len(s))
         IN /\ more \in Seq(S) /\ m + Len(more) = Len(rest)
            /\ \A j \in 1 .. Len(more) : more[j] = rest[m + j]
<1> DEFINE rest == SubSeq(s, k + 1, Len(s))
           more == SubSeq(s, (k + m) + 1, Len(s))
<1>1. Len(s) \in Nat /\ k \in 0 .. Len(s) /\ k + m \in 0 .. Len(s)
  OBVIOUS
<1>2. /\ Len(rest) = Len(s) - k
      /\ \A j \in 1 .. Len(s) - k : rest[j] = s[k + j]
  BY <1>1, RestElements
<1>3. /\ more \in Seq(S) /\ Len(more) = Len(s) - (k + m)
      /\ \A j \in 1 .. Len(s) - (k + m) : more[j] = s[(k + m) + j]
  BY <1>1, RestElements
<1> HIDE DEF rest, more
<1>4. m + Len(more) = Len(rest)
  BY <1>1, <1>2, <1>3
<1>5. ASSUME NEW j \in 1 .. Len(more)
      PROVE  more[j] = rest[m + j]
  <2>1. /\ j \in 1 .. Len(s) - (k + m) /\ m + j \in 1 .. Len(s) - k
        /\ (k + m) + j = k + (m + j)
    BY <1>1, <1>3
  <2> QED BY <1>2, <1>3, <2>1
<1> QED BY <1>3, <1>4, <1>5 DEF rest, more

(* When a Read leaves with the lock, nobody has a packet.                  *)
LEMMA NobodyHolds ==
  ASSUME Base, Base', ~ oneshot, NEW r \in Reader, mux = r, Leave(r), UNCHANGED mode
  PROVE  \A q \in Reader : held'[q] = NoBuffer
<1>1. /\ held' = [held EXCEPT ![r] = NoBuffer]
      /\ held \in [Reader -> Buffer \cup {NoBuffer}]
  BY DEF Leave, Base, TypeOK
<1>2. \A q \in Reader : held[q] # NoBuffer => q = r
  BY DEF Base, ReadShape
<1> QED BY <1>1, <1>2

LEMMA ReadRestStream ==
  ASSUME NEW r \in Reader, Inv, Base', StreamInv, Running, batched, ~ oneshot,
         ReadRest(r)
  PROVE  StreamInv'
<1> DEFINE u == undrained
           rest == unread(u)
           d == Prefix(rest, Slice[r])
<1>1. Base /\ OwnInv /\ PoolInv
  BY DEF Inv
<1>2. /\ u \in Buffer /\ rpc[r] = "rest" /\ mux = r
      /\ rest \in Seq(Byte) /\ d \in Seq(Byte)
      /\ Len(d) \in Nat /\ Len(d) <= Len(rest)
      /\ \/ Len(d) = Len(rest) /\ undrained' = NoBuffer
         \/ /\ Len(d) < Len(rest)
            /\ buf' = [buf EXCEPT ![u].roffset = @ + Len(d)]
            /\ undrained' = u
      /\ Return(r, d, FALSE)
      /\ UNCHANGED <<mode, loopVars, rxqueue, rxqueueB, stream, dead>>
  BY <1>1, ReadRestCases
<1>3. \A j \in 1 .. Len(d) : d[j] = rest[j]
  <2>1. rest \in Seq(Byte) /\ Slice[r] \in Nat
    BY <1>2, ConstantsTyped
  <2> HIDE DEF rest
  <2> QED BY <2>1, PrefixElements
<1>4. rest = SubSeq(buf[u].data, buf[u].roffset + 1, Len(buf[u].data))
  BY DEF unread
<1> HIDE DEF rest, d
<1>5. UNCHANGED <<batched, oneshot>>
  BY <1>2 DEF mode
<1>6. FrontFacts /\ FrontFacts'
  BY <1>1, <1>5, FrontCases, FrontCasesNext
<1>7. u # NoBuffer /\ Front = rest
  BY <1>2, <1>6, BufferTyped DEF FrontFacts, rest
<1>8. \A c \in Queued : buf'[c] = buf[c]
  BY <1>1, ReadRestOwn
<1>9. delivered' = delivered \o d /\ Leave(r)
  BY <1>2 DEF Return
<1>10. CASE Len(d) = Len(rest) /\ undrained' = NoBuffer
  <2>1. \A q \in Reader : held'[q] = NoBuffer
    BY <1>1, <1>2, <1>9, NobodyHolds
  <2>2. Front' = <<>>
    BY <1>6, <1>10, <2>1 DEF FrontFacts
  <2>3. Len(<<>>) = 0 /\ <<>> \in Seq(Byte)
    OBVIOUS
  <2>4. Len(Front') = 0 /\ Front' \in Seq(Byte)
    BY <2>2, <2>3
  <2>5. Len(d) + 0 = Len(d)
    BY <1>2
  <2>6. /\ Len(d) + Len(Front') = Len(Front)
        /\ \A j \in 1 .. Len(Front') : Front'[j] = Front[Len(d) + j]
    BY <1>7, <1>10, <2>4, <2>5
  <2> QED BY <1>1, <1>2, <1>3, <1>7, <1>8, <1>9, <1>10, <2>4, <2>6, StreamReturned
<1>11. CASE /\ Len(d) < Len(rest)
            /\ buf' = [buf EXCEPT ![u].roffset = @ + Len(d)]
            /\ undrained' = u
  <2>1. /\ buf'[u].data = buf[u].data /\ buf'[u].roffset = buf[u].roffset + Len(d)
        /\ buf[u].roffset \in Nat
    BY <1>1, <1>2, <1>11, AdvanceTyped DEF Base
  <2> DEFINE s == buf[u].data
             k == buf[u].roffset
  <2>2. s \in Seq(Byte) /\ Len(s) \in Nat /\ k < Len(s)
    <3>1. s \in Seq(Byte)
      BY <1>1, <1>2 DEF Base, TypeOK
    <3> QED BY <1>7, <3>1 DEF StreamInv
  <2>3. Len(rest) = Len(s) - k
    <3>1. k \in 0 .. Len(s)
      BY <2>1, <2>2
    <3>2. rest = SubSeq(s, k + 1, Len(s))
      BY <1>4
    <3> HIDE DEF s, k
    <3> QED BY <2>2, <3>1, <3>2, RestElements
  <2>4. k + Len(d) < Len(s) /\ k + Len(d) <= Len(s) /\ k \in Nat
    <3>1. Len(d) \in Nat /\ Len(d) < Len(rest) /\ k \in Nat
      BY <1>2, <1>11, <2>1
    <3> HIDE DEF s, k
    <3> QED BY <2>2, <2>3, <3>1
  <2>5. Front' = SubSeq(s, k + Len(d) + 1, Len(s))
    <3>1. Front' = unread(u)'
      BY <1>6, <1>7, <1>11 DEF FrontFacts
    <3>2. unread(u)' = SubSeq(buf'[u].data, buf'[u].roffset + 1, Len(buf'[u].data))
      BY <1>11 DEF unread
    <3> QED BY <2>1, <3>1, <3>2
  <2>6. Front = SubSeq(s, k + 1, Len(s))
    BY <1>4, <1>7
  <2> HIDE DEF s, k
  <2>7. /\ Front' \in Seq(Byte) /\ Len(d) + Len(Front') = Len(Front)
        /\ \A j \in 1 .. Len(Front') : Front'[j] = Front[Len(d) + j]
    <3>1. Len(d) \in Nat
      BY <1>2
    <3>2. LET more == SubSeq(s, k + Len(d) + 1, Len(s))
              all == SubSeq(s, k + 1, Len(s))
          IN /\ more \in Seq(Byte) /\ Len(d) + Len(more) = Len(all)
             /\ \A j \in 1 .. Len(more) : more[j] = all[Len(d) + j]
      BY <2>2, <2>4, <3>1, RestOfRest
    <3> QED BY <2>5, <2>6, <3>2
  <2>8. buf'[undrained'].roffset < Len(buf'[undrained'].data)
    BY <1>11, <2>1, <2>4 DEF s, k
  <2> QED BY <1>1, <1>2, <1>3, <1>7, <1>8, <1>9, <2>7, <2>8, StreamReturned
<1> QED BY <1>2, <1>10, <1>11

LEMMA FinishStream ==
  ASSUME NEW r \in Reader, Inv, Base', PacketInv, StreamInv, Running,
         batched, ~ oneshot, Finish(r)
  PROVE  StreamInv'
<1> DEFINE b == held[r]
           rest == unread(b)
           d == Prefix(rest, Slice[r])
           whole == left(r) = <<>>
<1>1. Base /\ OwnInv /\ PoolInv
  BY DEF Inv
<1>2. /\ b \in Buffer /\ undrained = NoBuffer /\ mux = r
      /\ rest \in Seq(Byte) /\ d \in Seq(Byte) /\ Slice[r] \in Nat \ {0}
      /\ Len(rest) \in Nat
      /\ (whole <=> Len(rest) <= Slice[r])
      /\ \/ whole /\ undrained' = NoBuffer
         \/ /\ ~ whole /\ Len(d) = Slice[r]
            /\ undrained' = b
            /\ buf' = [buf EXCEPT ![b].roffset = @ + Slice[r]]
      /\ Return(r, d, oneshot /\ ~ whole)
      /\ UNCHANGED <<mode, loopVars, rxqueue, rxqueueB, stream, dead>>
  BY <1>1, FinishCases
<1>3. /\ Len(d) = IF Slice[r] < Len(rest) THEN Slice[r] ELSE Len(rest)
      /\ \A j \in 1 .. Len(d) : d[j] = rest[j]
  <2>1. rest \in Seq(Byte) /\ Slice[r] \in Nat
    BY <1>2
  <2> HIDE DEF rest
  <2> QED BY <2>1, PrefixElements
<1>4. rest = buf[b].data /\ buf[b].roffset = 0
  <2>1. b \in Busy
    BY <1>1, FinishOwn DEF Busy
  <2>2. buf[b].roffset = 0 /\ buf[b].data \in Seq(Byte)
    BY <1>1, <1>2, <2>1 DEF PacketInv, DataInv, Base, TypeOK
  <2>3. SubSeq(buf[b].data, 1, Len(buf[b].data)) = buf[b].data
    BY <2>2
  <2> QED BY <2>2, <2>3 DEF unread
<1>5. UNCHANGED <<batched, oneshot>>
  BY <1>2 DEF mode
<1>6. FrontFacts /\ FrontFacts'
  BY <1>1, <1>5, FrontCases, FrontCasesNext
<1>7. Front = rest
  BY <1>2, <1>4, <1>6, BufferTyped DEF FrontFacts
<1>8. \A c \in Queued : buf'[c] = buf[c]
  BY <1>1, FinishOwn
<1>9. delivered' = delivered \o d /\ Leave(r)
  BY <1>2 DEF Return
<1>10. \A q \in Reader : held'[q] = NoBuffer
  BY <1>1, <1>2, <1>9, NobodyHolds
<1> HIDE DEF rest, d, whole
<1>11. CASE whole /\ undrained' = NoBuffer
  <2>1. Front' = <<>>
    BY <1>6, <1>10, <1>11 DEF FrontFacts
  <2>2. Len(<<>>) = 0 /\ <<>> \in Seq(Byte)
    OBVIOUS
  <2>3. Len(Front') = 0 /\ Front' \in Seq(Byte)
    BY <2>1, <2>2
  <2>4. Len(d) = Len(rest) /\ Len(d) + 0 = Len(d)
    BY <1>2, <1>3, <1>11
  <2>5. /\ Len(d) + Len(Front') = Len(Front)
        /\ \A j \in 1 .. Len(Front') : Front'[j] = Front[Len(d) + j]
    BY <1>7, <2>3, <2>4
  <2> QED BY <1>1, <1>2, <1>3, <1>7, <1>8, <1>9, <1>11, <2>3, <2>5, StreamReturned
<1>12. CASE /\ ~ whole /\ Len(d) = Slice[r]
            /\ undrained' = b
            /\ buf' = [buf EXCEPT ![b].roffset = @ + Slice[r]]
  <2>1. /\ buf'[b].data = buf[b].data /\ buf'[b].roffset = 0 + Len(d)
        /\ Slice[r] \in Nat
    <3>1. Slice[r] \in Nat
      BY <1>2
    <3>2. /\ buf'[b].data = buf[b].data
          /\ buf'[b].roffset = buf[b].roffset + Slice[r]
      BY <1>1, <1>2, <1>12, <3>1, AdvanceTyped DEF Base
    <3> QED BY <1>4, <1>12, <3>1, <3>2
  <2>2. Len(d) \in Nat /\ 0 + Len(d) < Len(rest) /\ 0 + Len(d) <= Len(rest)
        /\ 0 \in Nat /\ 0 + Len(d) = Len(d)
    BY <1>2, <1>12
  <2>3. Front' = SubSeq(rest, 0 + Len(d) + 1, Len(rest))
    <3>1. Front' = unread(undrained)'
      BY <1>2, <1>6, <1>12, BufferTyped DEF FrontFacts
    <3>2. unread(undrained)' = SubSeq(buf'[b].data, buf'[b].roffset + 1, Len(buf'[b].data))
      BY <1>12 DEF unread
    <3> QED BY <1>4, <2>1, <3>1, <3>2
  <2>4. Front = SubSeq(rest, 0 + 1, Len(rest))
    BY <1>2, <1>7
  <2>5. /\ Front' \in Seq(Byte) /\ Len(d) + Len(Front') = Len(Front)
        /\ \A j \in 1 .. Len(Front') : Front'[j] = Front[Len(d) + j]
    BY <1>2, <2>2, <2>3, <2>4, RestOfRest
  <2>6. buf'[undrained'].roffset < Len(buf'[undrained'].data)
    BY <1>4, <1>12, <2>1, <2>2
  <2> QED BY <1>1, <1>2, <1>3, <1>7, <1>8, <1>9, <2>5, <2>6, StreamReturned
<1> QED BY <1>2, <1>11, <1>12

LEMMA StreamStep ==
  Inv /\ PacketInv /\ StreamInv /\ [Next]_vars => StreamInv'
<1> SUFFICES ASSUME Inv, PacketInv, StreamInv, [Next]_vars PROVE StreamInv'
  OBVIOUS
<1>1. Base /\ Base' /\ (Running \/ UNCHANGED vars) /\ (UNCHANGED vars => Running)
  BY InvStep DEF Inv, Next, PoolInv, Running, vars
<1>2. UNCHANGED <<batched, oneshot>>
  BY <1>1 DEF Running, mode
<1>3. CASE batched /\ ~ oneshot
  <2>1. \A len \in Lens : ~ HandlePacket(len)
    BY <1>3 DEF HandlePacket
  <2>2. \A r \in Reader : ~ TakeB(r)
    BY <1>1, <1>3 DEF TakeB, Base, LoopShape
  <2> QED BY <1>1, <1>3, <2>1, <2>2, NextCases, QuietStream, PutStream, TakeStream,
             ReadRestStream, FinishStream
<1>4. CASE ~ (batched /\ ~ oneshot)
  BY <1>2, <1>4 DEF StreamInv
<1> QED BY <1>3, <1>4

(* In stream mode with batches, what the Reads return, one after another,  *)
(* are the bytes that were queued: in order, none twice and none skipped,  *)
(* however the packets were cut and whichever goroutines read (Read, its   *)
(* lastUndrainedBuffer and undrainedBufferMux).                            *)
THEOREM ReadsReturnTheStream == Spec => []StreamInOrder
<1>1. Init => Inv /\ PacketInv /\ StreamInv
  BY BaseInit, OwnInit, PacketInit, StreamInit DEF Inv
<1>2. Inv /\ PacketInv /\ StreamInv /\ [Next]_vars => (Inv /\ PacketInv /\ StreamInv)'
  BY InvStep, PacketStep, StreamStep
<1>3. Inv /\ StreamInv => StreamInOrder
  <2>1. SUFFICES ASSUME Inv, StreamInv, batched, ~ oneshot
                 PROVE  delivered = Prefix(stream, Len(delivered))
    BY DEF StreamInOrder
  <2>2. /\ stream \in Seq(Byte) /\ delivered \in Seq(Byte)
        /\ Len(stream) \in Nat /\ Len(delivered) \in Nat
    BY <2>1, StreamTyped DEF Inv
  <2>3. /\ 0 + Len(delivered) <= Len(stream)
        /\ \A j \in 1 .. Len(delivered) : stream[0 + j] = delivered[j]
    BY <2>1 DEF StreamInv, Placed
  <2> DEFINE p == Prefix(stream, Len(delivered))
  <2>4. /\ p \in Seq(Byte) /\ \A j \in 1 .. Len(p) : p[j] = stream[j]
        /\ Len(p) = IF Len(delivered) < Len(stream) THEN Len(delivered) ELSE Len(stream)
    BY <2>2, PrefixElements
  <2> HIDE DEF p
  <2>5. Len(p) = Len(delivered)
    BY <2>2, <2>3, <2>4
  <2>6. \A j \in 1 .. Len(delivered) : delivered[j] = p[j]
    BY <2>2, <2>3, <2>4, <2>5
  <2>7. delivered = p
    BY <2>2, <2>4, <2>5, <2>6, SeqEqual
  <2> QED BY <2>7 DEF p
<1> QED BY <1>1, <1>2, <1>3, PTL DEF Spec

=============================================================================
