------------------------- MODULE PCBufioWriterProofs -------------------------
(***************************************************************************)
(* For every set of messages, every batch and queue capacity: the          *)
(* assertions of PCBufioWriter never fire, buffers are released exactly    *)
(* with their messages, no message lingers in the batch, and the loop      *)
(* implements TxLink.                                                      *)
(***************************************************************************)
EXTENDS PCBufioWriter, SequenceTheorems, TLAPS

(***************************************************************************)
(* The inductive invariant. Between two receives the batch starts at       *)
(* offset 0 and has room; during a Flush, what was sent and what is left   *)
(* add up to what it set out to send; a loop that quit without an error    *)
(* has left nothing anywhere.                                              *)
(***************************************************************************)
Gathering == pc \in {"range", "check"} => offset = 0 /\ Len(wms) < Cap

Flushing ==
  pc = "flush" =>
    /\ sended + buffered = needToSend
    /\ buffered = 0 => offset = 0

Quitting ==
  /\ err => pc = "quit"
  /\ pc = "quit" /\ ~ err => chClosed /\ txqueue = <<>> /\ wms = <<>>

BatchInv ==
  /\ TypeOK
  /\ NoPanic
  /\ SlotsInStep
  /\ ReleasedAsSent
  /\ NoLinger
  /\ Gathering
  /\ Flushing
  /\ Quitting

-----------------------------------------------------------------------------
(* The k elements of a sequence that follow the first n.                   *)
LEMMA Slice ==
  ASSUME NEW S, NEW s \in Seq(S), NEW n \in Nat, NEW k \in Nat, n + k <= Len(s)
  PROVE  /\ SubSeq(s, n + 1, n + k) \in Seq(S)
         /\ Len(SubSeq(s, n + 1, n + k)) = k
         /\ \A i \in 1 .. k : SubSeq(s, n + 1, n + k)[i] = s[n + i]
<1>1. \A i \in n + 1 .. n + k : s[i] \in S
  BY LenProperties, ElementOfSeq
<1>2. /\ SubSeq(s, n + 1, n + k) \in Seq(S)
      /\ Len(SubSeq(s, n + 1, n + k)) =
           IF n + 1 <= n + k THEN (n + k) - (n + 1) + 1 ELSE 0
      /\ \A i \in 1 .. (n + k) - (n + 1) + 1 :
           SubSeq(s, n + 1, n + k)[i] = s[(n + 1) + i - 1]
  BY <1>1, SubSeqProperties
<1>3. (n + k) - (n + 1) + 1 = k /\ (n + 1 <= n + k <=> k # 0)
  OBVIOUS
<1>4. \A i \in 1 .. k : (n + 1) + i - 1 = n + i
  OBVIOUS
<1> QED BY <1>2, <1>3, <1>4

(* Dropping a prefix of the first of two sequences commutes with their     *)
(* concatenation.                                                          *)
LEMMA RestOfConcat ==
  ASSUME NEW S, NEW s \in Seq(S), NEW t \in Seq(S), NEW n \in 0 .. Len(s)
  PROVE  SubSeq(s \o t, n + 1, Len(s \o t)) = SubSeq(s, n + 1, Len(s)) \o t
<1> DEFINE u == SubSeq(s \o t, n + 1, Len(s \o t))
           v == SubSeq(s, n + 1, Len(s))
<1>1. /\ Len(s) \in Nat /\ Len(t) \in Nat
      /\ s \o t \in Seq(S)
      /\ Len(s \o t) = Len(s) + Len(t)
      /\ \A i \in 1 .. Len(s) + Len(t) :
           (s \o t)[i] = IF i <= Len(s) THEN s[i] ELSE t[i - Len(s)]
  BY ConcatProperties, LenProperties
<1>2. /\ u \in Seq(S)
      /\ Len(u) = Len(s) + Len(t) - n
      /\ \A i \in 1 .. Len(u) : u[i] = (s \o t)[n + i]
  <2>1. \A i \in n + 1 .. Len(s \o t) : (s \o t)[i] \in S
    BY <1>1, ElementOfSeq
  <2> QED BY <1>1, <2>1, SubSeqProperties
<1>3. /\ v \in Seq(S)
      /\ Len(v) = Len(s) - n
      /\ \A i \in 1 .. Len(v) : v[i] = s[n + i]
  <2>1. \A i \in n + 1 .. Len(s) : s[i] \in S
    BY <1>1, ElementOfSeq
  <2> QED BY <1>1, <2>1, SubSeqProperties
<1> HIDE DEF u, v
<1>4. /\ v \o t \in Seq(S)
      /\ Len(v \o t) = Len(v) + Len(t)
      /\ \A i \in 1 .. Len(v) + Len(t) :
           (v \o t)[i] = IF i <= Len(v) THEN v[i] ELSE t[i - Len(v)]
  BY <1>3, ConcatProperties
<1>5. ASSUME NEW i \in 1 .. Len(u) PROVE u[i] = (v \o t)[i]
  <2>1. /\ n + i \in 1 .. Len(s) + Len(t)
        /\ n + i <= Len(s) <=> i <= Len(v)
        /\ n + i - Len(s) = i - Len(v)
    BY <1>1, <1>2, <1>3
  <2> QED BY <1>1, <1>2, <1>3, <1>4, <2>1
<1>6. u = v \o t
  <2>1. Len(u) = Len(v \o t)
    BY <1>1, <1>2, <1>3, <1>4
  <2> QED BY <1>2, <1>4, <1>5, <2>1, SeqEqual
<1> QED BY <1>6 DEF u, v

(* Moving the head of one sequence to the end of another leaves their      *)
(* concatenation as it is.                                                 *)
LEMMA MoveHead ==
  ASSUME NEW S, NEW s \in Seq(S), NEW t \in Seq(S), t # <<>>
  PROVE  Append(s, Head(t)) \o Tail(t) = s \o t
<1>1. /\ Head(t) \in S /\ Tail(t) \in Seq(S)
      /\ <<Head(t)>> \in Seq(S)
  BY HeadTailProperties
<1>2. Append(s, Head(t)) = s \o <<Head(t)>>
  BY <1>1, AppendIsConcat
<1>3. (s \o <<Head(t)>>) \o Tail(t) = s \o (<<Head(t)>> \o Tail(t))
  BY <1>1, ConcatAssociative
<1>4. <<Head(t)>> \o Tail(t) = t
  <2> DEFINE h == <<Head(t)>>
             u == h \o Tail(t)
  <2>1. h \in Seq(S) /\ Len(h) = 1 /\ h[1] = Head(t)
    BY <1>1
  <2>2. /\ Len(t) \in Nat \ {0} /\ Len(Tail(t)) = Len(t) - 1
        /\ \A i \in 1 .. Len(Tail(t)) : Tail(t)[i] = t[i + 1]
        /\ Head(t) = t[1]
    BY HeadTailProperties, EmptySeq
  <2>3. /\ u \in Seq(S)
        /\ Len(u) = Len(t)
        /\ \A i \in 1 .. Len(t) :
             u[i] = IF i <= 1 THEN h[i] ELSE Tail(t)[i - 1]
    BY <1>1, <2>1, <2>2, ConcatProperties
  <2>4. \A i \in 1 .. Len(t) : u[i] = t[i]
    BY <2>1, <2>2, <2>3
  <2> HIDE DEF u
  <2>5. u = t
    BY <2>2, <2>3, <2>4, SeqEqual
  <2> QED BY <2>5 DEF u
<1> QED BY <1>2, <1>3, <1>4

(* What commit leaves: the batch keeps its length and only the n slots     *)
(* from offset on are cleared, or it is empty.                             *)
LEMMA CommitSlots ==
  ASSUME TypeOK, SlotsInStep, NEW n \in Nat, n <= buffered, commit(n)
  PROVE  /\ wms' \in Seq(Slot)
         /\ buffers' = wms'
         /\ offset + n = Len(wms) => wms' = <<>> /\ offset' = 0
         /\ offset + n # Len(wms) =>
              /\ Len(wms') = Len(wms)
              /\ offset' = offset + n
              /\ \A i \in 1 .. Len(wms) :
                   wms'[i] = IF i \in offset + 1 .. offset + n
                               THEN Nil ELSE wms[i]
<1> DEFINE cleared == [i \in 1 .. Len(wms) |->
                         IF i \in offset + 1 .. offset + n THEN Nil ELSE wms[i]]
<1>1. /\ Len(wms) \in Nat /\ DOMAIN wms = 1 .. Len(wms)
      /\ \A i \in 1 .. Len(wms) : wms[i] \in Slot
  BY LenProperties, ElementOfSeq DEF TypeOK
<1>2. cleared \in [1 .. Len(wms) -> Slot]
  BY <1>1 DEF Slot
<1>3. cleared \in Seq(Slot) /\ Len(cleared) = Len(wms)
  BY <1>1, <1>2
<1>4. /\ wms' = IF offset + n = Len(wms) THEN <<>> ELSE cleared
      /\ buffers' = IF offset + n = Len(wms) THEN <<>> ELSE cleared
      /\ offset' = IF offset + n = Len(wms) THEN 0 ELSE offset + n
  BY <1>1 DEF commit, SlotsInStep
<1> QED BY <1>3, <1>4

-----------------------------------------------------------------------------
LEMMA InitBatchInv == Init => BatchInv
<1> SUFFICES ASSUME Init PROVE BatchInv
  OBVIOUS
<1>1. /\ <<>> \in Seq(Msg) /\ <<>> \in Seq(Slot)
      /\ Len(<<>>) = 0
  OBVIOUS
<1>2. TypeOK
  <2>1. /\ txqueue \in Seq(Msg) /\ Len(txqueue) <= QueueLen
        /\ wms \in Seq(Slot) /\ Len(wms) <= Cap
        /\ buffers \in Seq(Slot)
        /\ wire \in Seq(Slot)
        /\ released \in Seq(Slot)
    BY <1>1, PCBufioWriterAssumption DEF Init
  <2> QED BY <2>1 DEF Init, TypeOK
<1>3. SlotsInStep
  BY DEF Init, SlotsInStep
<1>4. NoPanic /\ ReleasedAsSent /\ NoLinger /\ Gathering /\ Flushing /\ Quitting
  BY <1>1, PCBufioWriterAssumption
     DEF Init, NoPanic, ReleasedAsSent, NoLinger, Gathering, Flushing,
         Quitting, buffered
<1> QED BY <1>2, <1>3, <1>4 DEF BatchInv

LEMMA PutInv == ASSUME BatchInv, NEW m \in Msg, Put(m) PROVE BatchInv'
<1>1. /\ txqueue' \in Seq(Msg) /\ Len(txqueue') <= QueueLen
      /\ txqueue' # <<>>
  BY PCBufioWriterAssumption, AppendProperties DEF Put, BatchInv, TypeOK
<1> QED
  BY <1>1 DEF Put, BatchInv, TypeOK, NoPanic, SlotsInStep, ReleasedAsSent,
     NoLinger, Gathering, Flushing, Quitting, buffered, batchVars, flushVars,
     sentVars

LEMMA CloseQueueInv == ASSUME BatchInv, CloseQueue PROVE BatchInv'
BY DEF CloseQueue, BatchInv, TypeOK, NoPanic, SlotsInStep, ReleasedAsSent,
   NoLinger, Gathering, Flushing, Quitting, buffered, batchVars, flushVars,
   sentVars

LEMMA ReceiveInv == ASSUME BatchInv, Receive PROVE BatchInv'
<1> DEFINE b == Head(txqueue)
<1>1. /\ b \in Msg /\ b \in Slot /\ b # Nil
      /\ txqueue' \in Seq(Msg) /\ Len(txqueue') = Len(txqueue) - 1
      /\ Len(txqueue) \in Nat
  BY PCBufioWriterAssumption, HeadTailProperties, LenProperties
     DEF Receive, BatchInv, TypeOK, Slot
<1>2. /\ offset = 0 /\ Len(wms) < Cap /\ Len(wms) \in Nat
      /\ ~ err /\ pc = "range" /\ buffers = wms /\ wms \in Seq(Slot)
  BY LenProperties
     DEF Receive, BatchInv, TypeOK, Gathering, Quitting, SlotsInStep
<1>3. wms' = Append(wms, b) /\ buffers' = Append(wms, b)
  BY <1>2, PCBufioWriterAssumption DEF Receive, addMsg
<1>4. /\ wms' \in Seq(Slot) /\ Len(wms') = Len(wms) + 1
      /\ \A i \in 1 .. Len(wms) : wms'[i] = wms[i]
      /\ wms'[Len(wms) + 1] = b
  BY <1>1, <1>2, <1>3, AppendProperties
<1>5. \/ /\ Len(wms') = Cap
         /\ pc' = "flush" /\ caller' = "Write"
         /\ sended' = 0 /\ needToSend' = Len(wms')
      \/ /\ Len(wms') # Cap
         /\ pc' = "check" /\ UNCHANGED flushVars
  BY <1>2, <1>4, PCBufioWriterAssumption DEF Receive, addMsg, EnterFlush
<1>6. UNCHANGED <<chClosed, offset, wire, released, err>>
  BY DEF Receive, sentVars
<1>7. TypeOK'
  <2>1. /\ txqueue' \in Seq(Msg) /\ Len(txqueue') <= QueueLen
        /\ wms' \in Seq(Slot) /\ Len(wms') <= Cap
        /\ buffers' \in Seq(Slot)
    <3>1. txqueue' \in Seq(Msg) /\ Len(txqueue') <= QueueLen
      BY <1>1, PCBufioWriterAssumption DEF BatchInv, TypeOK
    <3>2. Len(wms') <= Cap
      BY <1>2, <1>4, PCBufioWriterAssumption
    <3> QED BY <1>3, <1>4, <3>1, <3>2
  <2>2. /\ chClosed' \in BOOLEAN /\ offset' \in Nat /\ err' \in BOOLEAN
        /\ wire' \in Seq(Slot) /\ released' \in Seq(Slot)
    BY <1>6 DEF BatchInv, TypeOK
  <2>3. /\ pc' \in {"flush", "check"} /\ caller' \in {"Write", "WriteBatchLoop"}
        /\ sended' \in Nat /\ needToSend' \in Nat
    BY <1>2, <1>4, <1>5 DEF BatchInv, TypeOK, flushVars
  <2> QED BY <2>1, <2>2, <2>3 DEF TypeOK
<1>8. SlotsInStep'
  <2>1. \A i \in 1 .. Len(wms) : wms[i] # Nil
    BY <1>2, LenProperties DEF BatchInv, SlotsInStep
  <2>2. \A i \in 1 .. Len(wms') : wms'[i] # Nil
    BY <1>1, <1>2, <1>4, <2>1
  <2> QED BY <1>2, <1>3, <1>4, <1>6, <2>2, LenProperties DEF SlotsInStep
<1>9. NoPanic' /\ Gathering' /\ Flushing' /\ Quitting' /\ NoLinger'
  BY <1>2, <1>4, <1>5, <1>6, PCBufioWriterAssumption
     DEF NoPanic, Gathering, Flushing, Quitting, NoLinger, buffered, flushVars
<1> QED
  BY <1>6, <1>7, <1>8, <1>9 DEF BatchInv, ReleasedAsSent

LEMMA CheckQueueInv == ASSUME BatchInv, CheckQueue PROVE BatchInv'
BY LenProperties
   DEF CheckQueue, EnterFlush, BatchInv, TypeOK, NoPanic, SlotsInStep,
   ReleasedAsSent, NoLinger, Gathering, Flushing, Quitting, buffered, chanVars,
   batchVars, flushVars, sentVars

LEMMA SendFailsInv == ASSUME BatchInv, SendFails PROVE BatchInv'
BY DEF SendFails, BatchInv, TypeOK, NoPanic, SlotsInStep,
   ReleasedAsSent, NoLinger, Gathering, Flushing, Quitting, buffered, chanVars,
   batchVars, flushVars, sentVars

LEMMA FlushDoneInv == ASSUME BatchInv, FlushDone PROVE BatchInv'
BY LenProperties, PCBufioWriterAssumption
   DEF FlushDone, BatchInv, TypeOK, NoPanic, SlotsInStep,
   ReleasedAsSent, NoLinger, Gathering, Flushing, Quitting, buffered, chanVars,
   batchVars, flushVars, sentVars

LEMMA RangeEndsInv == ASSUME BatchInv, RangeEnds PROVE BatchInv'
<1>1. wms = <<>>
  BY LenProperties, EmptySeq
     DEF RangeEnds, BatchInv, TypeOK, NoPanic, NoLinger, Gathering, buffered
<1> QED
  BY <1>1 DEF RangeEnds, BatchInv, TypeOK, NoPanic, SlotsInStep,
     ReleasedAsSent, NoLinger, Gathering, Flushing, Quitting, buffered,
     chanVars, batchVars, flushVars, sentVars

LEMMA StutterInv == ASSUME BatchInv, UNCHANGED vars PROVE BatchInv'
BY DEF vars, BatchInv, TypeOK, NoPanic, SlotsInStep,
   ReleasedAsSent, NoLinger, Gathering, Flushing, Quitting, buffered, chanVars,
   batchVars, flushVars, sentVars

LEMMA SendBatchInv ==
  ASSUME BatchInv, NEW n \in 0 .. Cap, SendBatch(n)
  PROVE  BatchInv'
<1>1. /\ n \in Nat /\ n <= buffered /\ buffered > 0 /\ commit(n)
      /\ pc = "flush" /\ pc' = "flush"
      /\ sended' = sended + n
      /\ UNCHANGED <<chanVars, caller, needToSend, err>>
  BY PCBufioWriterAssumption DEF SendBatch
<1>2. /\ Len(wms) \in Nat /\ offset \in Nat /\ sended \in Nat
      /\ buffered \in Nat /\ wms \in Seq(Slot) /\ buffers = wms
      /\ Len(wms) <= Cap /\ ~ err
      /\ \A i \in 1 .. Len(wms) : wms[i] = Nil <=> i <= offset
      /\ \A i \in 1 .. Len(wms) : wms[i] \in Slot
      /\ sended + buffered = needToSend
  <2>1. /\ offset \in Nat /\ sended \in Nat /\ wms \in Seq(Slot)
        /\ Len(wms) <= Cap
    BY DEF BatchInv, TypeOK
  <2>2. /\ Len(wms) \in Nat /\ DOMAIN wms = 1 .. Len(wms)
        /\ \A i \in 1 .. Len(wms) : wms[i] \in Slot
    BY <2>1, LenProperties, ElementOfSeq
  <2>3. /\ buffers = wms /\ ~ err
        /\ \A i \in DOMAIN wms : wms[i] = Nil <=> i <= offset
        /\ sended + buffered = needToSend
    BY <1>1 DEF BatchInv, SlotsInStep, Flushing, Quitting
  <2>4. buffered \in Nat
    BY <1>1, <2>1, <2>2 DEF buffered
  <2> QED BY <2>1, <2>2, <2>3, <2>4
<1>3. /\ wms' \in Seq(Slot)
      /\ buffers' = wms'
      /\ offset + n = Len(wms) => wms' = <<>> /\ offset' = 0
      /\ offset + n # Len(wms) =>
           /\ Len(wms') = Len(wms)
           /\ offset' = offset + n
           /\ \A i \in 1 .. Len(wms) :
                wms'[i] = IF i \in offset + 1 .. offset + n
                            THEN Nil ELSE wms[i]
  BY <1>1, CommitSlots DEF BatchInv
<1>4. wire' = released' /\ wire' \in Seq(Slot)
  <2> DEFINE part == SubSeq(wms, offset + 1, offset + n)
  <2>1. \A i \in offset + 1 .. offset + n : wms[i] \in Slot
    BY <1>1, <1>2 DEF buffered
  <2>2. /\ part \in Seq(Slot) /\ Len(part) = n
        /\ \A i \in 1 .. n : part[i] = wms[offset + i]
    BY <1>1, <1>2, Slice DEF buffered
  <2>3. SubSeq(msgBuffered, 1, n) = part
    <3> DEFINE head == SubSeq(msgBuffered, 1, n)
    <3>1. offset + buffered = Len(wms)
      BY <1>2 DEF buffered
    <3>2. /\ msgBuffered \in Seq(Slot) /\ Len(msgBuffered) = buffered
          /\ \A i \in 1 .. buffered : msgBuffered[i] = wms[offset + i]
      <4> DEFINE k == buffered
      <4>1. /\ wms \in Seq(Slot) /\ offset \in Nat /\ k \in Nat
            /\ offset + k = Len(wms)
        BY <1>2, <3>1
      <4>2. msgBuffered = SubSeq(wms, offset + 1, offset + k)
        BY <4>1 DEF msgBuffered
      <4> HIDE DEF k
      <4>3. /\ SubSeq(wms, offset + 1, offset + k) \in Seq(Slot)
            /\ Len(SubSeq(wms, offset + 1, offset + k)) = k
            /\ \A i \in 1 .. k :
                 SubSeq(wms, offset + 1, offset + k)[i] = wms[offset + i]
        BY <4>1, Slice
      <4> QED BY <4>2, <4>3 DEF k
    <3>3. /\ head \in Seq(Slot) /\ Len(head) = n
          /\ \A i \in 1 .. n : head[i] = msgBuffered[i]
      <4> DEFINE front == msgBuffered
      <4>1. front \in Seq(Slot) /\ Len(front) = buffered /\ n \in 0 .. Len(front)
        BY <1>1, <1>2, <3>2
      <4> HIDE DEF front
      <4>2. /\ SubSeq(front, 1, n) \in Seq(Slot) /\ Len(SubSeq(front, 1, n)) = n
            /\ \A i \in 1 .. n : SubSeq(front, 1, n)[i] = front[i]
        BY <4>1
      <4> QED BY <4>2 DEF front
    <3> HIDE DEF part, head
    <3>4. ASSUME NEW i \in 1 .. n PROVE head[i] = part[i]
      <4>1. i \in 1 .. buffered
        BY <1>1, <1>2
      <4> QED BY <2>2, <3>2, <3>3, <4>1
    <3>5. head = part
      BY <2>2, <3>3, <3>4, SeqEqual
    <3> QED BY <3>5 DEF head
  <2>4. wire' = wire \o part /\ released' = released \o part
    BY <1>2, <2>3 DEF SendBatch, commit
  <2> QED
    BY <2>2, <2>4, ConcatProperties DEF BatchInv, TypeOK, ReleasedAsSent
<1>5. SlotsInStep'
  <2>1. CASE offset + n = Len(wms)
    BY <1>3, <2>1 DEF SlotsInStep
  <2>2. CASE offset + n # Len(wms)
    <3>1. ASSUME NEW i \in 1 .. Len(wms)
          PROVE  wms'[i] = Nil <=> i <= offset'
      BY <1>1, <1>2, <1>3, <2>2
    <3> QED BY <1>2, <1>3, <2>2, <3>1, LenProperties DEF SlotsInStep
  <2> QED BY <2>1, <2>2
<1>6. /\ offset' \in Nat /\ offset' <= Len(wms') /\ Len(wms') <= Cap
      /\ buffered' = buffered - n
      /\ buffered' = 0 => offset' = 0
      /\ sended' \in Nat
  BY <1>1, <1>2, <1>3, EmptySeq, PCBufioWriterAssumption DEF buffered
<1>7. TypeOK'
  BY <1>1, <1>3, <1>4, <1>6 DEF BatchInv, TypeOK, chanVars
<1>8. Flushing'
  BY <1>1, <1>2, <1>6 DEF Flushing
<1>9. NoPanic' /\ Gathering' /\ Quitting' /\ NoLinger' /\ ReleasedAsSent'
  BY <1>1, <1>2, <1>4, <1>6
     DEF NoPanic, Gathering, Quitting, NoLinger, ReleasedAsSent
<1> QED BY <1>5, <1>7, <1>8, <1>9 DEF BatchInv

(* The invariant is inductive.                                             *)
LEMMA StepBatchInv == ASSUME BatchInv, [Next]_vars PROVE BatchInv'
<1>1. ASSUME NEW m \in Msg, Put(m) PROVE BatchInv'
  BY <1>1, PutInv
<1>2. CASE CloseQueue
  BY <1>2, CloseQueueInv
<1>3. CASE Receive
  BY <1>3, ReceiveInv
<1>4. CASE CheckQueue
  BY <1>4, CheckQueueInv
<1>5. ASSUME NEW n \in 0 .. Cap, SendBatch(n) PROVE BatchInv'
  BY <1>5, SendBatchInv
<1>6. CASE SendFails
  BY <1>6, SendFailsInv
<1>7. CASE FlushDone
  BY <1>7, FlushDoneInv
<1>8. CASE RangeEnds
  BY <1>8, RangeEndsInv
<1>9. CASE UNCHANGED vars
  BY <1>9, StutterInv
<1> QED
  BY <1>1, <1>2, <1>3, <1>4, <1>5, <1>6, <1>7, <1>8, <1>9
     DEF Next, WriteBatchLoop

LEMMA BatchInvariant == Spec => []BatchInv
<1>1. BatchInv /\ [Next]_vars => BatchInv'
  BY StepBatchInv
<1> QED BY InitBatchInv, <1>1, PTL DEF Spec

(* The state of the writer is well typed: in particular the batch never    *)
(* outgrows the capacity it was made with.                                 *)
THEOREM TypeCorrect == Spec => []TypeOK
BY BatchInvariant, PTL DEF BatchInv

(* The assertions of addMsg, Flush and commit never fire, whatever part of *)
(* each batch the kernel takes.                                            *)
THEOREM AssertionsHold == Spec => []NoPanic
BY BatchInvariant, PTL DEF BatchInv

(* Buffers and messages stay in step, so that a buffer is released exactly *)
(* when its own message was sent.                                          *)
THEOREM BuffersReleasedOnce == Spec => [](SlotsInStep /\ ReleasedAsSent)
BY BatchInvariant, PTL DEF BatchInv

(* The loop never sleeps on an empty channel with messages in its batch.   *)
THEOREM NothingLingers == Spec => []NoLinger
BY BatchInvariant, PTL DEF BatchInv

-----------------------------------------------------------------------------
(***************************************************************************)
(* Refinement. pending is the rest of the batch followed by the channel.   *)
(***************************************************************************)
pending == msgBuffered \o txqueue

link == IF err THEN "failed" ELSE IF pc = "quit" THEN "finished" ELSE "up"

LEMMA PendingType ==
  ASSUME BatchInv
  PROVE  /\ msgBuffered \in Seq(Slot) /\ Len(msgBuffered) = buffered
         /\ \A i \in 1 .. buffered : msgBuffered[i] = wms[offset + i]
         /\ txqueue \in Seq(Slot)
         /\ pending \in Seq(Slot)
         /\ Len(pending) = buffered + Len(txqueue)
         /\ buffered \in Nat /\ Len(txqueue) \in Nat
<1>1. /\ offset \in Nat /\ buffered \in Nat /\ offset + buffered = Len(wms)
      /\ wms \in Seq(Slot) /\ txqueue \in Seq(Msg)
  BY LenProperties DEF BatchInv, TypeOK, NoPanic, buffered
<1>2. txqueue \in Seq(Slot) /\ Len(txqueue) \in Nat
  BY <1>1, SeqMonotonic, LenProperties DEF Slot
<1>3. /\ msgBuffered \in Seq(Slot) /\ Len(msgBuffered) = buffered
      /\ \A i \in 1 .. buffered : msgBuffered[i] = wms[offset + i]
  BY <1>1, Slice DEF msgBuffered
<1> QED BY <1>1, <1>2, <1>3, ConcatProperties DEF pending

LEMMA SendBatchTransmits ==
  ASSUME BatchInv, NEW n \in 0 .. Cap, SendBatch(n)
  PROVE  /\ n \in 0 .. Len(pending)
         /\ wire' = wire \o SubSeq(pending, 1, n)
         /\ pending' = SubSeq(pending, n + 1, Len(pending))
<1>1. /\ n \in Nat /\ n <= buffered /\ buffered > 0 /\ commit(n)
      /\ txqueue' = txqueue
      /\ wire' = wire \o SubSeq(msgBuffered, 1, n)
  BY PCBufioWriterAssumption DEF SendBatch, chanVars
<1>2. /\ msgBuffered \in Seq(Slot) /\ Len(msgBuffered) = buffered
      /\ \A i \in 1 .. buffered : msgBuffered[i] = wms[offset + i]
      /\ txqueue \in Seq(Slot)
      /\ Len(pending) = buffered + Len(txqueue)
      /\ buffered \in Nat /\ Len(txqueue) \in Nat
  BY PendingType
<1>3. n \in 0 .. Len(msgBuffered) /\ n \in 0 .. Len(pending)
  BY <1>1, <1>2
<1>4. SubSeq(pending, 1, n) = SubSeq(msgBuffered, 1, n)
  <2>1. CASE n = 0
    BY <2>1, SubSeqEmpty
  <2>2. CASE n # 0
    BY <1>2, <1>3, <2>2, SubSeqOfConcat1 DEF pending
  <2> QED BY <2>1, <2>2
<1>5. SubSeq(pending, n + 1, Len(pending))
        = SubSeq(msgBuffered, n + 1, Len(msgBuffered)) \o txqueue
  BY <1>2, <1>3, RestOfConcat DEF pending
<1>6. msgBuffered' = SubSeq(msgBuffered, n + 1, Len(msgBuffered))
  <2> DEFINE rest == SubSeq(msgBuffered, n + 1, Len(msgBuffered))
             k == buffered - n
  <2>1. /\ k \in Nat /\ n + k = Len(msgBuffered)
    BY <1>1, <1>2
  <2>2. /\ rest \in Seq(Slot) /\ Len(rest) = k
        /\ \A i \in 1 .. k : rest[i] = msgBuffered[n + i]
    BY <1>1, <1>2, <2>1, Slice
  <2>3. BatchInv'
    BY SendBatchInv
  <2>4. /\ msgBuffered' \in Seq(Slot) /\ Len(msgBuffered') = buffered'
        /\ \A i \in 1 .. buffered' : msgBuffered'[i] = wms'[offset' + i]
    <3>1. /\ offset' \in Nat /\ wms' \in Seq(Slot) /\ Len(wms') \in Nat
          /\ buffered' \in Nat /\ offset' + buffered' = Len(wms')
      <4>1. offset' \in Nat /\ wms' \in Seq(Slot) /\ offset' <= Len(wms')
        BY <2>3 DEF BatchInv, TypeOK, NoPanic
      <4>2. Len(wms') \in Nat
        BY <4>1, LenProperties
      <4> QED BY <4>1, <4>2 DEF buffered
    <3>2. msgBuffered' = SubSeq(wms', offset' + 1, offset' + buffered')
      BY <3>1 DEF msgBuffered
    <3> DEFINE ws == wms'
               from == offset'
               len == buffered'
               all == SubSeq(ws, from + 1, from + len)
    <3>3. ws \in Seq(Slot) /\ from \in Nat /\ len \in Nat /\ from + len <= Len(ws)
      BY <3>1
    <3> HIDE DEF rest, k, ws, from, len
    <3>4. /\ all \in Seq(Slot) /\ Len(all) = len
          /\ \A i \in 1 .. len : all[i] = ws[from + i]
      BY <3>3, Slice
    <3> QED BY <3>2, <3>4 DEF ws, from, len
  <2>5. /\ offset \in Nat /\ Len(wms) \in Nat /\ buffered = Len(wms) - offset
        /\ TypeOK /\ SlotsInStep
    BY LenProperties DEF BatchInv, TypeOK, buffered
  <2>6. /\ offset + n = Len(wms) => wms' = <<>> /\ offset' = 0
        /\ offset + n # Len(wms) =>
             /\ Len(wms') = Len(wms)
             /\ offset' = offset + n
             /\ \A i \in 1 .. Len(wms) :
                  wms'[i] = IF i \in offset + 1 .. offset + n
                              THEN Nil ELSE wms[i]
    BY <1>1, <2>5, CommitSlots
  <2>7. buffered' = k
    BY <1>1, <2>5, <2>6, EmptySeq DEF buffered
  <2>8. ASSUME NEW i \in 1 .. k PROVE msgBuffered'[i] = rest[i]
    <3>1. /\ offset + n # Len(wms)
          /\ n + i \in 1 .. buffered
          /\ offset + n + i \in 1 .. Len(wms)
          /\ offset + n + i \notin offset + 1 .. offset + n
          /\ offset + (n + i) = offset + n + i
      BY <1>1, <2>1, <2>5
    <3>2. msgBuffered'[i] = wms[offset + n + i]
      BY <2>4, <2>6, <2>7, <3>1
    <3>3. rest[i] = wms[offset + n + i]
      BY <1>2, <2>2, <3>1
    <3> QED BY <3>2, <3>3
  <2> HIDE DEF rest, k
  <2>9. msgBuffered' = rest
    BY <2>2, <2>4, <2>7, <2>8, SeqEqual
  <2> QED BY <2>9 DEF rest
<1> QED BY <1>1, <1>3, <1>4, <1>5, <1>6 DEF pending

LEMMA InitLink == Init => Link!LinkInit
<1> SUFFICES ASSUME Init PROVE Link!LinkInit
  OBVIOUS
<1>1. msgBuffered = <<>>
  BY SubSeqEmpty DEF Init, msgBuffered
<1>2. <<>> \o <<>> = <<>>
  BY ConcatEmptySeq, EmptySeq
<1> QED BY <1>1, <1>2 DEF Init, Link!LinkInit

LEMMA StepLink ==
  ASSUME BatchInv, [Next]_vars
  PROVE  [Link!LinkNext]_(Link!linkVars)
<1> USE DEF pending, link
<1>1. ASSUME NEW m \in Msg, Put(m) PROVE Link!Accept(m)
  <2>1. /\ txqueue' = txqueue \o <<m>> /\ msgBuffered' = msgBuffered
        /\ wire' = wire /\ link' = link /\ link # "finished"
    BY <1>1, AppendIsConcat
       DEF Put, BatchInv, TypeOK, Quitting, batchVars, sentVars, msgBuffered
  <2>2. pending' = pending \o <<m>>
    <3>1. msgBuffered \in Seq(Slot) /\ txqueue \in Seq(Slot) /\ m \in Slot
      BY PendingType DEF Slot
    <3> QED BY <2>1, <3>1, ConcatAssociative
  <2>3. pending' = Append(pending, m)
    BY <2>2, PendingType, AppendIsConcat DEF Slot
  <2> QED BY <2>1, <2>3 DEF Link!Accept
<1>2. CASE CloseQueue
  BY <1>2 DEF CloseQueue, batchVars, sentVars, msgBuffered, Link!linkVars
<1>3. CASE Receive
  <2>1. /\ wms \in Seq(Slot) /\ txqueue \in Seq(Slot) /\ txqueue # <<>>
        /\ offset = 0 /\ offset' = 0 /\ Len(wms) < Cap
        /\ txqueue' = Tail(txqueue)
        /\ ~ err /\ err' = err /\ wire' = wire /\ pc = "range"
    BY <1>3, PendingType
       DEF Receive, BatchInv, TypeOK, Gathering, Quitting, sentVars
  <2>2. wms' = Append(wms, Head(txqueue)) /\ pc' # "quit"
    BY <1>3, <2>1, PCBufioWriterAssumption, LenProperties
       DEF Receive, addMsg, EnterFlush
  <2>3. wms' \in Seq(Slot)
    BY <2>1, <2>2, HeadTailProperties, AppendProperties
  <2>4. msgBuffered = wms /\ msgBuffered' = wms'
    BY <2>1, <2>3, SubSeqFull DEF msgBuffered
  <2>5. pending' = pending
    BY <2>1, <2>2, <2>4, MoveHead
  <2> QED BY <2>1, <2>2, <2>5 DEF Link!linkVars
<1>4. CASE CheckQueue
  BY <1>4 DEF CheckQueue, EnterFlush, BatchInv, Quitting, chanVars, batchVars,
     sentVars, msgBuffered, Link!linkVars
<1>5. ASSUME NEW n \in 0 .. Cap, SendBatch(n)
      PROVE  Link!LinkNext \/ UNCHANGED Link!linkVars
  <2>1. /\ n \in 0 .. Len(pending)
        /\ wire' = wire \o SubSeq(pending, 1, n)
        /\ pending' = SubSeq(pending, n + 1, Len(pending))
    BY <1>5, SendBatchTransmits
  <2>2. link = "up" /\ link' = "up"
    BY <1>5 DEF SendBatch, BatchInv, Quitting
  <2>3. CASE n = 0
    <3>1. SubSeq(pending, 1, n) = <<>>
      BY <2>3, SubSeqEmpty
    <3>2. pending' = pending /\ wire' = wire
      <4>1. wire \in Seq(Slot)
        BY DEF BatchInv, TypeOK
      <4>2. pending \in Seq(Slot) /\ pending' = SubSeq(pending, 1, Len(pending))
        BY <2>1, <2>3, PendingType
      <4>3. pending' = pending
        BY <4>2, SubSeqFull
      <4> QED BY <2>1, <2>3, <3>1, <4>1, <4>3, ConcatEmptySeq
    <3> QED BY <2>2, <3>2 DEF Link!linkVars
  <2>4. CASE n # 0
    <3>1. n \in 1 .. Len(pending)
      BY <2>1, <2>4, PendingType
    <3>2. Link!Transmit(n)
      BY <2>1, <2>2 DEF Link!Transmit
    <3> QED BY <3>1, <3>2 DEF Link!LinkNext, Link!Depart
  <2> QED BY <2>3, <2>4
<1>6. CASE SendFails
  <2>1. Link!Fail
    BY <1>6 DEF SendFails, BatchInv, Quitting, chanVars, batchVars, sentVars,
       msgBuffered, Link!Fail
  <2> QED BY <2>1 DEF Link!LinkNext, Link!Depart
<1>7. CASE FlushDone
  BY <1>7 DEF FlushDone, BatchInv, Quitting, chanVars, batchVars, sentVars,
     msgBuffered, Link!linkVars
<1>8. CASE RangeEnds
  <2>1. /\ ~ err /\ err' = err /\ pc = "range" /\ pc' = "quit"
        /\ wire' = wire /\ txqueue' = txqueue
        /\ msgBuffered' = msgBuffered /\ txqueue = <<>>
    BY <1>8 DEF RangeEnds, BatchInv, Quitting, chanVars, batchVars, sentVars,
       msgBuffered
  <2>2. Len(pending) = 0
    BY <2>1, PendingType, EmptySeq DEF BatchInv, NoLinger
  <2>3. pending = <<>>
    BY <2>2, PendingType, EmptySeq
  <2>4. Link!Finish
    BY <2>1, <2>3 DEF Link!Finish
  <2> QED BY <2>4 DEF Link!LinkNext
<1>9. CASE UNCHANGED vars
  BY <1>9 DEF vars, chanVars, batchVars, sentVars, msgBuffered, Link!linkVars
<1>10. (\E m \in Msg : Put(m)) => Link!LinkNext
  BY <1>1 DEF Link!LinkNext
<1> QED
  BY <1>2, <1>3, <1>4, <1>5, <1>6, <1>7, <1>8, <1>9, <1>10
     DEF Next, WriteBatchLoop

(* Whatever WriteBatch sends at a time and however the channel is filled   *)
(* and closed meanwhile, the messages leave in the order they were put,    *)
(* each once, and all of them before the loop quits without an error.      *)
THEOREM WriterImplementsLink == Spec => ImplementsLink
<1>1. BatchInv /\ [Next]_vars => [Link!LinkNext]_(Link!linkVars)
  BY StepLink
<1> QED
  BY InitLink, BatchInvariant, <1>1, PTL DEF Spec, ImplementsLink, Link!LinkSpec

=============================================================================
