--------------------------- MODULE ListenerTxProofs ---------------------------
(***************************************************************************)
(* Proofs about the one txqueue of a Listener, for every set of UDPConns,  *)
(* every queue length and every size of a batch.                           *)
(***************************************************************************)
EXTENDS ListenerTx, TLAPS

(* What an action keeps, once for every action that Next is made of. *)
LEMMA NextCases ==
  ASSUME NEW P,
         LoopStart => P, LoopReceive => P, LoopCheck => P,
         \A n \in 1 .. Cap : LoopSend(n) => P,
         LoopFails => P, LoopOver => P,
         \A c \in Conn : WriteCall(c) => P,
         \A c \in Conn, txBlocked \in BOOLEAN : WriteTest(c, txBlocked) => P,
         \A c \in Conn : PutTxQueue(c) => P,
         \A c \in Conn : PutDrop(c) => P,
         \A c \in Conn, ok \in BOOLEAN : WriteTo(c, ok) => P,
         \A c \in Conn : Close(c) => P,
         UNCHANGED vars => P
  PROVE  [Next]_vars => P
BY DEF Next, WriteBatchLoop, Write

(***************************************************************************)
(* The elements of the sequences that the actions make.                    *)
(***************************************************************************)
LEMMA AppendElements ==
  ASSUME NEW S, NEW s \in Seq(S), NEW m \in S
  PROVE  /\ Append(s, m) \in Seq(S)
         /\ Len(Append(s, m)) = Len(s) + 1
         /\ DOMAIN Append(s, m) = 1 .. Len(s) + 1
         /\ \A k \in DOMAIN s : (Append(s, m))[k] = s[k]
         /\ (Append(s, m))[Len(s) + 1] = m
OBVIOUS

LEMMA TailElements ==
  ASSUME NEW S, NEW s \in Seq(S), s # <<>>
  PROVE  /\ Head(s) \in S /\ Head(s) = s[1] /\ 1 \in DOMAIN s
         /\ Tail(s) \in Seq(S)
         /\ Len(Tail(s)) = Len(s) - 1
         /\ \A k \in DOMAIN Tail(s) : /\ k + 1 \in DOMAIN s
                                      /\ (Tail(s))[k] = s[k + 1]
                                      /\ k \in Nat /\ 1 <= k
OBVIOUS

LEMMA PrefixElements ==
  ASSUME NEW S, NEW s \in Seq(S), NEW b \in Seq(S), NEW n \in 1 .. Len(b)
  PROVE  /\ s \o SubSeq(b, 1, n) \in Seq(S)
         /\ DOMAIN (s \o SubSeq(b, 1, n)) = 1 .. Len(s) + n
         /\ \A k \in DOMAIN s : (s \o SubSeq(b, 1, n))[k] = s[k]
         /\ \A k \in 1 .. n : (s \o SubSeq(b, 1, n))[Len(s) + k] = b[k]
<1>1. /\ SubSeq(b, 1, n) \in Seq(S)
      /\ Len(SubSeq(b, 1, n)) = n
      /\ \A k \in 1 .. n : (SubSeq(b, 1, n))[k] = b[k]
  OBVIOUS
<1> QED
  BY <1>1

LEMMA SuffixElements ==
  ASSUME NEW S, NEW b \in Seq(S), NEW n \in 1 .. Len(b)
  PROVE  /\ SubSeq(b, n + 1, Len(b)) \in Seq(S)
         /\ Len(SubSeq(b, n + 1, Len(b))) = Len(b) - n
         /\ \A k \in DOMAIN SubSeq(b, n + 1, Len(b)) :
              /\ k + n \in DOMAIN b
              /\ (SubSeq(b, n + 1, Len(b)))[k] = b[k + n]
              /\ k \in 1 .. Len(b) - n
OBVIOUS

-----------------------------------------------------------------------------
(* A batch is full only while it is looked at or sent. *)
TypeInv ==
  /\ TypeOK
  /\ loop = "range" => Len(batch) < Cap
  /\ loop = "start" => Len(batch) = 0
  /\ \A c \in Conn : wpc[c] # "idle" => count[c] \in 1 .. MaxWrite

LEMMA TypeInit == Init => TypeInv
<1> SUFFICES ASSUME Init PROVE TypeInv
  OBVIOUS
<1>1. 0 \in 0 .. MaxWrite /\ 0 <= QueueLen /\ 0 < Cap
  BY ListenerTxAssumption
<1>2. <<>> \in Seq(Message) /\ Len(<<>>) = 0
  OBVIOUS
<1>3. TypeOK
  <2>1. txqueue = <<>> /\ batch = <<>> /\ sent = <<>> /\ queued = {}
    BY DEF Init
  <2>2. /\ wpc \in [Conn -> {"idle", "test", "put", "try", "direct"}]
        /\ count \in [Conn -> 0 .. MaxWrite]
        /\ closed \in [Conn -> BOOLEAN]
        /\ able \in BOOLEAN /\ loop = "start"
    BY <1>1 DEF Init
  <2>3. Len(txqueue) <= QueueLen /\ Len(batch) <= Cap
    <3>1. Len(txqueue) = 0 /\ Len(batch) = 0
      BY <2>1
    <3> QED
      BY <3>1, ListenerTxAssumption
  <2> QED
    BY <1>2, <2>1, <2>2, <2>3 DEF TypeOK
<1>4. loop # "range" /\ Len(batch) = 0 /\ \A c \in Conn : wpc[c] = "idle"
  BY <1>2 DEF Init
<1> QED
  BY <1>3, <1>4 DEF TypeInv

LEMMA TypeStep == TypeInv /\ [Next]_vars => TypeInv'
<1> SUFFICES ASSUME TypeInv PROVE [Next]_vars => TypeInv'
  OBVIOUS
<1>a. QueueLen \in Nat \ {0} /\ Cap \in Nat \ {0} /\ MaxWrite \in Nat
  BY ListenerTxAssumption
<1>b. \A c \in Conn : wpc[c] # "idle" => <<c, count[c]>> \in Message
  BY DEF TypeInv, Message
<1> USE <1>a DEF TypeInv, TypeOK, loopVars, writeVars
<1>1. LoopStart => TypeInv'
  <2> SUFFICES ASSUME LoopStart PROVE TypeInv'
    OBVIOUS
  <2> QED
    BY DEF LoopStart
<1>2. LoopReceive => TypeInv'
  <2> SUFFICES ASSUME LoopReceive PROVE TypeInv'
    OBVIOUS
  <2>1. /\ Head(txqueue) \in Message
        /\ Tail(txqueue) \in Seq(Message)
        /\ Len(Tail(txqueue)) = Len(txqueue) - 1
    BY TailElements DEF LoopReceive
  <2>3. Len(batch) < Cap
    BY DEF LoopReceive
  <2>2. /\ Append(batch, Head(txqueue)) \in Seq(Message)
        /\ Len(Append(batch, Head(txqueue))) = Len(batch) + 1
    BY <2>1, AppendElements
  <2> QED
    BY <2>1, <2>2, <2>3 DEF LoopReceive
<1>3. LoopCheck => TypeInv'
  BY DEF LoopCheck
<1>4. \A n \in 1 .. Cap : LoopSend(n) => TypeInv'
  <2> SUFFICES ASSUME NEW n \in 1 .. Cap, LoopSend(n) PROVE TypeInv'
    OBVIOUS
  <2>1. n \in 1 .. Len(batch)
    BY DEF LoopSend
  <2>2. /\ sent' \in Seq(Message)
        /\ batch' \in Seq(Message)
        /\ Len(batch') = Len(batch) - n
    BY <2>1, PrefixElements, SuffixElements DEF LoopSend
  <2>3. loop' \in {"range", "flush"} /\ (loop' = "range" => batch' = <<>>)
    BY DEF LoopSend
  <2>4. UNCHANGED <<txqueue, able, wpc, count, queued, closed>>
    BY DEF LoopSend
  <2>5. Len(batch') <= Cap /\ Len(<<>>) = 0
    BY <2>1, <2>2
  <2>6. TypeOK'
    BY <2>2, <2>3, <2>4, <2>5
  <2>7. loop' = "range" => Len(batch') < Cap
    BY <2>3, <2>5
  <2>8. loop' # "start" /\ \A c \in Conn : wpc'[c] # "idle"
                                          => count'[c] \in 1 .. MaxWrite
    BY <2>3, <2>4
  <2> QED
    BY <2>6, <2>7, <2>8
<1>5. LoopFails => TypeInv'
  BY DEF LoopFails
<1>6. LoopOver => TypeInv'
  BY DEF LoopOver
<1>7. \A c \in Conn : WriteCall(c) => TypeInv'
  BY DEF WriteCall
<1>8. \A c \in Conn, txBlocked \in BOOLEAN : WriteTest(c, txBlocked) => TypeInv'
  BY DEF WriteTest
<1>9. \A c \in Conn : PutTxQueue(c) => TypeInv'
  <2> SUFFICES ASSUME NEW c \in Conn, PutTxQueue(c) PROVE TypeInv'
    OBVIOUS
  <2>1. <<c, count[c]>> \in Message
    BY <1>b DEF PutTxQueue
  <2>2. txqueue' \in Seq(Message) /\ Len(txqueue') = Len(txqueue) + 1
    BY <2>1, AppendElements DEF PutTxQueue
  <2>3. queued' \subseteq Message
    BY <2>1 DEF PutTxQueue
  <2> QED
    BY <2>2, <2>3 DEF PutTxQueue, Return
<1>10. \A c \in Conn : PutDrop(c) => TypeInv'
  BY DEF PutDrop, Return
<1>11. \A c \in Conn, ok \in BOOLEAN : WriteTo(c, ok) => TypeInv'
  <2> SUFFICES ASSUME NEW c \in Conn, NEW ok \in BOOLEAN, WriteTo(c, ok)
               PROVE  TypeInv'
    OBVIOUS
  <2>1. <<c, count[c]>> \in Message
    BY <1>b DEF WriteTo
  <2>2. sent' \in Seq(Message)
    BY <2>1, AppendElements DEF WriteTo
  <2> QED
    BY <2>2 DEF WriteTo, Return
<1>12. \A c \in Conn : Close(c) => TypeInv'
  BY DEF Close
<1>13. UNCHANGED vars => TypeInv'
  BY DEF vars
<1> HIDE DEF TypeInv
<1> QED
  BY <1>1, <1>2, <1>3, <1>4, <1>5, <1>6, <1>7, <1>8, <1>9, <1>10, <1>11,
     <1>12, <1>13, NextCases

LEMMA TypeHolds == Spec => []TypeInv
BY TypeInit, TypeStep, PTL DEF Spec

(* Every variable has its type: neither the queue nor a batch outgrows its *)
(* length, although the room is looked at by many writers.                 *)
THEOREM ListenerTxTypeCorrect == Spec => []TypeOK
<1>1. TypeInv => TypeOK
  BY DEF TypeInv
<1> QED
  BY <1>1, TypeHolds, PTL

-----------------------------------------------------------------------------
(***************************************************************************)
(* The order of the messages. While the loop runs, what it has sent comes  *)
(* before its batch and its batch before the queue, UDPConn by UDPConn; a  *)
(* Write that goes to the socket itself has nothing in either.             *)
(***************************************************************************)
Running == loop \notin {"quit", "over"}

Before(s, t) ==
  \A j \in DOMAIN s, k \in DOMAIN t : s[j][1] = t[k][1] => s[j][2] < t[k][2]

Sorted(s) ==
  \A j, k \in DOMAIN s : j < k /\ s[j][1] = s[k][1] => s[j][2] < s[k][2]

(* The messages of s were written, and before one that is under way. *)
Written(s) ==
  \A k \in DOMAIN s :
    /\ s[k][2] <= count[s[k][1]]
    /\ wpc[s[k][1]] # "idle" => s[k][2] < count[s[k][1]]

Without(s, c) == \A k \in DOMAIN s : s[k][1] # c

WrittenInv == Written(sent) /\ Written(batch) /\ Written(txqueue)

LineInv ==
  Running => /\ Sorted(batch) /\ Sorted(txqueue)
             /\ Before(sent, batch) /\ Before(sent, txqueue)
             /\ Before(batch, txqueue)

DirectInv ==
  /\ able = (loop \notin {"start", "over"})
  /\ loop = "start" => /\ batch = <<>> /\ txqueue = <<>>
                       /\ \A c \in Conn : wpc[c] \notin {"put", "try"}
  /\ \A c \in Conn : Running /\ wpc[c] = "direct"
                       => Without(batch, c) /\ Without(txqueue, c)

OrderInv == Sorted(sent) /\ WrittenInv /\ LineInv /\ DirectInv

LEMMA EmptyFacts ==
  /\ Sorted(<<>>)
  /\ \A s : Before(s, <<>>) /\ Before(<<>>, s)
BY DEF Sorted, Before

LEMMA OrderInit == Init => OrderInv
<1> SUFFICES ASSUME Init PROVE OrderInv
  OBVIOUS
<1>1. /\ sent = <<>> /\ batch = <<>> /\ txqueue = <<>>
      /\ loop = "start" /\ able = FALSE
      /\ \A c \in Conn : wpc[c] = "idle"
  BY DEF Init
<1>2. Sorted(sent) /\ LineInv
  BY <1>1, EmptyFacts DEF LineInv
<1>3. WrittenInv
  BY <1>1 DEF WrittenInv, Written
<1>4. DirectInv
  BY <1>1 DEF DirectInv
<1> QED
  BY <1>2, <1>3, <1>4 DEF OrderInv

LEMMA AppendSorted ==
  ASSUME NEW s \in Seq(Message), NEW m \in Message, Sorted(s),
         \A j \in DOMAIN s : s[j][1] = m[1] => s[j][2] < m[2]
  PROVE  Sorted(Append(s, m))
<1> DEFINE t == Append(s, m)
<1>1. /\ DOMAIN t = 1 .. Len(s) + 1
      /\ \A k \in DOMAIN s : t[k] = s[k]
      /\ t[Len(s) + 1] = m
      /\ DOMAIN s = 1 .. Len(s) /\ Len(s) \in Nat
  BY AppendElements
<1> SUFFICES ASSUME NEW j \in DOMAIN t, NEW k \in DOMAIN t, j < k,
                    t[j][1] = t[k][1]
             PROVE  t[j][2] < t[k][2]
  BY DEF Sorted
<1> HIDE DEF t
<1>2. j \in DOMAIN s /\ t[j] = s[j]
  BY <1>1
<1>3. CASE k = Len(s) + 1
  BY <1>1, <1>2, <1>3
<1>4. CASE k \in DOMAIN s
  BY <1>1, <1>2, <1>4 DEF Sorted
<1> QED
  BY <1>1, <1>3, <1>4

(* What is said of the messages of two sequences is said of any sequence   *)
(* that has only messages of theirs.                                       *)
LEMMA BeforeFrom ==
  ASSUME NEW s, NEW t, NEW u, NEW v, Before(s, v), Before(t, v),
         \A k \in DOMAIN u : \/ \E j \in DOMAIN s : u[k] = s[j]
                             \/ \E j \in DOMAIN t : u[k] = t[j]
  PROVE  Before(u, v)
BY DEF Before

LEMMA WrittenFrom ==
  ASSUME NEW s, NEW t, NEW u, Written(s), Written(t),
         \A k \in DOMAIN u : \/ \E j \in DOMAIN s : u[k] = s[j]
                             \/ \E j \in DOMAIN t : u[k] = t[j]
  PROVE  Written(u)
BY DEF Written

LEMMA AppendBefore ==
  ASSUME NEW s, NEW t, NEW u, NEW m, Before(s, t),
         \A k \in DOMAIN u : (\E j \in DOMAIN t : u[k] = t[j]) \/ u[k] = m,
         \A j \in DOMAIN s : s[j][1] = m[1] => s[j][2] < m[2]
  PROVE  Before(s, u)
BY DEF Before

LEMMA AppendAfter ==
  ASSUME NEW s, NEW t, NEW u, NEW m, Before(t, s),
         \A k \in DOMAIN u : (\E j \in DOMAIN t : u[k] = t[j]) \/ u[k] = m,
         \A j \in DOMAIN s : s[j][1] # m[1]
  PROVE  Before(u, s)
BY DEF Before

LEMMA WithoutFrom ==
  ASSUME NEW s, NEW u, NEW c, Without(s, c),
         \A k \in DOMAIN u : \E j \in DOMAIN s : u[k] = s[j]
  PROVE  Without(u, c)
BY DEF Without

LEMMA ReceiveOrder ==
  TypeInv /\ OrderInv /\ LoopReceive => OrderInv'
<1> SUFFICES ASSUME TypeInv, OrderInv, LoopReceive PROVE OrderInv'
  OBVIOUS
<1>1. /\ batch \in Seq(Message) /\ txqueue \in Seq(Message)
      /\ txqueue # <<>> /\ Running /\ loop # "start"
      /\ batch' = Append(batch, Head(txqueue))
      /\ txqueue' = Tail(txqueue)
      /\ loop' = "check" /\ UNCHANGED <<able, sent, wpc, count>>
  BY DEF TypeInv, TypeOK, LoopReceive, Running, writeVars
<1>2. /\ Head(txqueue) \in Message /\ Head(txqueue) = txqueue[1]
      /\ 1 \in DOMAIN txqueue
      /\ \A k \in DOMAIN txqueue' : /\ k + 1 \in DOMAIN txqueue
                                     /\ txqueue'[k] = txqueue[k + 1]
                                     /\ k \in Nat /\ 1 <= k
  BY <1>1, TailElements
<1>3. /\ DOMAIN batch' = 1 .. Len(batch) + 1
      /\ DOMAIN batch = 1 .. Len(batch) /\ Len(batch) \in Nat
      /\ \A k \in DOMAIN batch : batch'[k] = batch[k]
      /\ batch'[Len(batch) + 1] = txqueue[1]
  BY <1>1, <1>2, AppendElements
<1>4. \A k \in DOMAIN batch' :
        \/ k \in DOMAIN batch /\ batch'[k] = batch[k]
        \/ batch'[k] = txqueue[1]
  BY <1>3
<1>5. /\ Sorted(batch) /\ Sorted(txqueue) /\ Before(sent, batch)
      /\ Before(sent, txqueue) /\ Before(batch, txqueue)
  BY <1>1 DEF OrderInv, LineInv
<1>6. Sorted(batch')
  BY <1>1, <1>2, <1>5, AppendSorted DEF Before
<1>7. Sorted(txqueue')
  BY <1>2, <1>5 DEF Sorted
<1>8. Before(sent, batch') /\ Before(sent, txqueue')
  BY <1>2, <1>4, <1>5 DEF Before
<1>9. Before(batch', txqueue')
  <2> SUFFICES ASSUME NEW j \in DOMAIN batch', NEW k \in DOMAIN txqueue',
                      batch'[j][1] = txqueue'[k][1]
               PROVE  batch'[j][2] < txqueue'[k][2]
    BY DEF Before
  <2>1. CASE j \in DOMAIN batch /\ batch'[j] = batch[j]
    BY <1>2, <1>5, <2>1 DEF Before
  <2>2. CASE batch'[j] = txqueue[1]
    <3>1. 1 < k + 1
      BY <1>2
    <3> QED
      BY <1>2, <1>5, <2>2, <3>1 DEF Sorted
  <2> QED
    BY <1>4, <2>1, <2>2
<1>10. WrittenInv'
  BY <1>1, <1>2, <1>4 DEF OrderInv, WrittenInv, Written
<1>11. DirectInv'
  BY <1>1, <1>2, <1>4 DEF OrderInv, DirectInv, Without, Running
<1> QED
  BY <1>1, <1>5, <1>6, <1>7, <1>8, <1>9, <1>10, <1>11
     DEF OrderInv, LineInv, Sorted

LEMMA SendOrder ==
  TypeInv /\ OrderInv /\ (\E n \in 1 .. Cap : LoopSend(n)) => OrderInv'
<1> SUFFICES ASSUME TypeInv, OrderInv, NEW n \in 1 .. Cap, LoopSend(n)
             PROVE  OrderInv'
  OBVIOUS
<1>1. /\ batch \in Seq(Message) /\ sent \in Seq(Message)
      /\ Running /\ Running' /\ loop # "start" /\ loop # "over"
      /\ loop' # "start" /\ loop' # "over"
      /\ n \in 1 .. Len(batch)
      /\ sent' = sent \o SubSeq(batch, 1, n)
      /\ batch' = SubSeq(batch, n + 1, Len(batch))
      /\ UNCHANGED <<txqueue, able, wpc, count>>
  BY DEF TypeInv, TypeOK, LoopSend, Running, writeVars
<1>2. \A k \in DOMAIN batch' : /\ k + n \in DOMAIN batch
                               /\ batch'[k] = batch[k + n]
                               /\ k \in 1 .. Len(batch) - n
  BY <1>1, SuffixElements
<1>3. /\ DOMAIN sent' = 1 .. Len(sent) + n
      /\ DOMAIN sent = 1 .. Len(sent) /\ Len(sent) \in Nat
      /\ DOMAIN batch = 1 .. Len(batch) /\ Len(batch) \in Nat
      /\ \A k \in DOMAIN sent : sent'[k] = sent[k]
      /\ \A k \in 1 .. n : sent'[Len(sent) + k] = batch[k]
  BY <1>1, PrefixElements
<1>4. \A k \in DOMAIN sent' :
        \/ k \in DOMAIN sent /\ sent'[k] = sent[k]
        \/ /\ k - Len(sent) \in 1 .. n /\ k - Len(sent) \in DOMAIN batch
           /\ sent'[k] = batch[k - Len(sent)]
  <2> SUFFICES ASSUME NEW k \in DOMAIN sent', k \notin DOMAIN sent
               PROVE  /\ k - Len(sent) \in 1 .. n
                      /\ k - Len(sent) \in DOMAIN batch
                      /\ sent'[k] = batch[k - Len(sent)]
    BY <1>3
  <2>1. k - Len(sent) \in 1 .. n /\ k = Len(sent) + (k - Len(sent))
    BY <1>1, <1>3
  <2> QED
    BY <1>1, <1>3, <2>1
<1>5. /\ Sorted(sent) /\ Sorted(batch) /\ Before(sent, batch)
      /\ Before(sent, txqueue) /\ Before(batch, txqueue) /\ Sorted(txqueue)
  BY <1>1 DEF OrderInv, LineInv
<1>6. Sorted(sent')
  <2> SUFFICES ASSUME NEW j \in DOMAIN sent', NEW k \in DOMAIN sent', j < k,
                      sent'[j][1] = sent'[k][1]
               PROVE  sent'[j][2] < sent'[k][2]
    BY DEF Sorted
  <2>1. CASE k \in DOMAIN sent
    <3>1. j \in DOMAIN sent
      BY <1>3, <2>1
    <3> QED
      BY <1>3, <1>5, <2>1, <3>1 DEF Sorted
  <2>2. CASE k \notin DOMAIN sent /\ j \in DOMAIN sent
    <3>1. /\ sent'[k] = batch[k - Len(sent)] /\ sent'[j] = sent[j]
          /\ k - Len(sent) \in DOMAIN batch
      BY <1>3, <1>4, <2>2
    <3> QED
      BY <1>5, <2>2, <3>1 DEF Before
  <2>3. CASE k \notin DOMAIN sent /\ j \notin DOMAIN sent
    <3>1. /\ sent'[k] = batch[k - Len(sent)] /\ sent'[j] = batch[j - Len(sent)]
          /\ k - Len(sent) \in DOMAIN batch /\ j - Len(sent) \in DOMAIN batch
      BY <1>4, <2>3
    <3>2. j \in Nat /\ k \in Nat
      BY <1>1, <1>3
    <3>4. j - Len(sent) < k - Len(sent)
      BY <1>3, <3>2
    <3> QED
      BY <1>5, <3>1, <3>4 DEF Sorted
  <2> QED
    BY <2>1, <2>2, <2>3
<1>7. Sorted(batch')
  <2> SUFFICES ASSUME NEW j \in DOMAIN batch', NEW k \in DOMAIN batch', j < k,
                      batch'[j][1] = batch'[k][1]
               PROVE  batch'[j][2] < batch'[k][2]
    BY DEF Sorted
  <2>1. j + n < k + n
    BY <1>2
  <2> QED
    BY <1>2, <1>5, <2>1 DEF Sorted
<1>8. Before(sent', batch')
  <2> SUFFICES ASSUME NEW j \in DOMAIN sent', NEW k \in DOMAIN batch',
                      sent'[j][1] = batch'[k][1]
               PROVE  sent'[j][2] < batch'[k][2]
    BY DEF Before
  <2>1. CASE j \in DOMAIN sent /\ sent'[j] = sent[j]
    BY <1>2, <1>5, <2>1 DEF Before
  <2>2. CASE j \notin DOMAIN sent
    <3>1. /\ j - Len(sent) \in 1 .. n /\ j - Len(sent) \in DOMAIN batch
          /\ sent'[j] = batch[j - Len(sent)]
      BY <1>4, <2>2
    <3>2. j - Len(sent) < k + n
      BY <1>2, <3>1
    <3> QED
      BY <1>2, <1>5, <3>1, <3>2 DEF Sorted
  <2> QED
    BY <1>4, <2>1, <2>2
<1>s. /\ \A k \in DOMAIN sent' : \/ \E j \in DOMAIN sent : sent'[k] = sent[j]
                                \/ \E j \in DOMAIN batch : sent'[k] = batch[j]
      /\ \A k \in DOMAIN batch' : \E j \in DOMAIN batch : batch'[k] = batch[j]
  BY <1>2, <1>4
<1>9. Before(sent', txqueue) /\ Before(batch', txqueue)
  <2>1. Before(sent', txqueue)
    BY <1>s, <1>5, BeforeFrom
  <2>2. Before(batch', txqueue)
    BY <1>s, <1>5, BeforeFrom
  <2> QED
    BY <2>1, <2>2
<1>10. WrittenInv'
  <2>1. Written(sent) /\ Written(batch) /\ Written(txqueue)
    BY DEF OrderInv, WrittenInv
  <2>2. Written(sent')
    BY <1>s, <2>1, WrittenFrom
  <2>3. Written(batch')
    BY <1>s, <2>1, WrittenFrom
  <2>4. UNCHANGED <<txqueue, wpc, count>>
    BY <1>1
  <2> QED
    BY <2>1, <2>2, <2>3, <2>4 DEF WrittenInv, Written
<1>11. DirectInv'
  <2>1. \A c \in Conn : Running' /\ wpc'[c] = "direct"
                         => Without(batch', c) /\ Without(txqueue', c)
    <3> SUFFICES ASSUME NEW c \in Conn, wpc[c] = "direct"
                 PROVE  Without(batch', c) /\ Without(txqueue, c)
      BY <1>1
    <3>1. Without(batch, c) /\ Without(txqueue, c)
      BY <1>1 DEF OrderInv, DirectInv
    <3> QED
      BY <1>s, <3>1, WithoutFrom
  <2> QED
    BY <1>1, <2>1 DEF OrderInv, DirectInv, Without
<1>12. LineInv'
  <2>1. Sorted(txqueue') /\ txqueue' = txqueue
    BY <1>1, <1>5
  <2> QED
    BY <1>7, <1>8, <1>9, <2>1 DEF LineInv, Sorted, Before
<1> QED
  BY <1>6, <1>10, <1>11, <1>12 DEF OrderInv, Sorted

LEMMA PutOrder ==
  TypeInv /\ OrderInv /\ (\E c \in Conn : PutTxQueue(c)) => OrderInv'
<1> SUFFICES ASSUME TypeInv, OrderInv, NEW c \in Conn, PutTxQueue(c)
             PROVE  OrderInv'
  OBVIOUS
<1> DEFINE m == <<c, count[c]>>
<1>1. /\ txqueue \in Seq(Message) /\ wpc[c] # "idle" /\ wpc[c] # "direct"
      /\ wpc \in [Conn -> {"idle", "test", "put", "try", "direct"}]
      /\ m \in Message /\ m[1] = c /\ m[2] = count[c] /\ count[c] \in Nat
      /\ loop # "start"
      /\ txqueue' = Append(txqueue, m)
      /\ wpc' = [wpc EXCEPT ![c] = "idle"]
      /\ UNCHANGED <<able, loop, batch, sent, count>>
  <2>1. /\ txqueue' = Append(txqueue, m) /\ wpc[c] \in {"put", "try"}
        /\ wpc' = [wpc EXCEPT ![c] = "idle"]
        /\ UNCHANGED <<able, loop, batch, sent, count>>
    BY DEF PutTxQueue, Return, loopVars
  <2>2. /\ txqueue \in Seq(Message) /\ count[c] \in 0 .. MaxWrite
        /\ wpc \in [Conn -> {"idle", "test", "put", "try", "direct"}]
        /\ wpc[c] # "idle" => count[c] \in 1 .. MaxWrite
    BY DEF TypeInv, TypeOK
  <2>3. m \in Message /\ m[1] = c /\ m[2] = count[c] /\ count[c] \in Nat
    BY <2>1, <2>2, ListenerTxAssumption DEF Message
  <2>4. loop # "start"
    BY <2>1 DEF OrderInv, DirectInv
  <2> QED
    BY <2>1, <2>2, <2>3, <2>4
<1> HIDE DEF m
<1>2. /\ DOMAIN txqueue' = 1 .. Len(txqueue) + 1
      /\ DOMAIN txqueue = 1 .. Len(txqueue) /\ Len(txqueue) \in Nat
      /\ \A k \in DOMAIN txqueue : txqueue'[k] = txqueue[k]
      /\ txqueue'[Len(txqueue) + 1] = m
  BY <1>1, AppendElements
<1>3. \A k \in DOMAIN txqueue' :
        (\E j \in DOMAIN txqueue : txqueue'[k] = txqueue[j]) \/ txqueue'[k] = m
  BY <1>2
<1>w. Written(sent) /\ Written(batch) /\ Written(txqueue)
  BY DEF OrderInv, WrittenInv
<1>4. /\ \A k \in DOMAIN sent : sent[k][1] = c => sent[k][2] < count[c]
      /\ \A k \in DOMAIN batch : batch[k][1] = c => batch[k][2] < count[c]
      /\ \A k \in DOMAIN txqueue : txqueue[k][1] = c => txqueue[k][2] < count[c]
  BY <1>1, <1>w DEF Written
<1>5. Sorted(sent')
  BY <1>1 DEF OrderInv
<1>6. LineInv'
  <2> SUFFICES ASSUME Running PROVE /\ Sorted(batch) /\ Sorted(txqueue')
                                    /\ Before(sent, batch)
                                    /\ Before(sent, txqueue')
                                    /\ Before(batch, txqueue')
    <3>1. UNCHANGED <<loop, batch, sent>>
      BY <1>1
    <3> QED
      BY <3>1 DEF LineInv, Running, Sorted, Before
  <2>1. /\ Sorted(batch) /\ Sorted(txqueue) /\ Before(sent, batch)
        /\ Before(sent, txqueue) /\ Before(batch, txqueue)
    BY DEF OrderInv, LineInv
  <2>2. Sorted(txqueue')
    BY <1>1, <1>4, <2>1, AppendSorted
  <2>m. m[1] = c /\ m[2] = count[c]
    BY <1>1
  <2>3. Before(sent, txqueue')
    BY <1>3, <1>4, <2>1, <2>m, AppendBefore
  <2>4. Before(batch, txqueue')
    BY <1>3, <1>4, <2>1, <2>m, AppendBefore
  <2> QED
    BY <2>1, <2>2, <2>3, <2>4
<1>i. /\ \A d \in Conn : d # c => wpc'[d] = wpc[d]
      /\ wpc'[c] = "idle"
      /\ UNCHANGED <<able, loop, batch, sent, count>>
  BY <1>1
<1>m. m[1] = c /\ m[2] = count[c] /\ count[c] \in Nat
  BY <1>1
<1>d. /\ \A k \in DOMAIN sent : sent[k][1] \in Conn
      /\ \A k \in DOMAIN batch : batch[k][1] \in Conn
      /\ \A k \in DOMAIN txqueue : txqueue[k][1] \in Conn
  BY DEF TypeInv, TypeOK, Message
<1>7. WrittenInv'
  <2>1. Written(sent)'
    BY <1>w, <1>i, <1>d DEF Written
  <2>2. Written(batch)'
    BY <1>w, <1>i, <1>d DEF Written
  <2>3. Written(txqueue)'
    <3> SUFFICES ASSUME NEW k \in DOMAIN txqueue'
                 PROVE  /\ txqueue'[k][2] <= count[txqueue'[k][1]]
                        /\ wpc'[txqueue'[k][1]] # "idle"
                             => txqueue'[k][2] < count[txqueue'[k][1]]
      BY <1>i DEF Written
    <3>1. CASE txqueue'[k] = m
      BY <1>i, <1>m, <3>1
    <3>2. CASE \E j \in DOMAIN txqueue : txqueue'[k] = txqueue[j]
      BY <1>w, <1>i, <1>d, <3>2 DEF Written
    <3> QED
      BY <1>3, <3>1, <3>2
  <2> QED
    BY <2>1, <2>2, <2>3 DEF WrittenInv
<1>8. DirectInv'
  <2>1. \A d \in Conn : Running' /\ wpc'[d] = "direct"
                         => Without(batch', d) /\ Without(txqueue', d)
    <3> SUFFICES ASSUME NEW d \in Conn, Running, wpc'[d] = "direct"
                 PROVE  Without(batch, d) /\ Without(txqueue', d)
      BY <1>i DEF Running
    <3>1. d # c /\ Without(batch, d) /\ Without(txqueue, d)
      BY <1>i DEF OrderInv, DirectInv
    <3> QED
      BY <1>3, <1>m, <3>1 DEF Without
  <2> QED
    BY <1>1, <1>i, <2>1 DEF OrderInv, DirectInv
<1> QED
  BY <1>5, <1>6, <1>7, <1>8 DEF OrderInv

LEMMA WriteToOrder ==
  TypeInv /\ OrderInv /\ (\E c \in Conn, ok \in BOOLEAN : WriteTo(c, ok))
    => OrderInv'
<1> SUFFICES ASSUME TypeInv, OrderInv, NEW c \in Conn, NEW ok \in BOOLEAN,
                    WriteTo(c, ok)
             PROVE  OrderInv'
  OBVIOUS
<1> DEFINE m == <<c, count[c]>>
<1>1. /\ sent \in Seq(Message) /\ wpc[c] = "direct"
      /\ wpc \in [Conn -> {"idle", "test", "put", "try", "direct"}]
      /\ m \in Message /\ m[1] = c /\ m[2] = count[c] /\ count[c] \in Nat
      /\ sent' = IF ok THEN Append(sent, m) ELSE sent
      /\ wpc' = [wpc EXCEPT ![c] = "idle"]
      /\ UNCHANGED <<able, loop, batch, txqueue, count>>
  BY DEF TypeInv, TypeOK, WriteTo, Return, Message, loopVars
<1> HIDE DEF m
<1>2. \A k \in DOMAIN sent' :
        (\E j \in DOMAIN sent : sent'[k] = sent[j]) \/ sent'[k] = m
  <2>1. CASE ok
    BY <1>1, <2>1, AppendElements
  <2>2. CASE ~ ok
    BY <1>1, <2>2
  <2> QED
    BY <2>1, <2>2
<1>3. \A k \in DOMAIN sent : sent[k][1] = c => sent[k][2] < count[c]
  BY <1>1 DEF OrderInv, WrittenInv, Written
<1>4. Sorted(sent')
  BY <1>1, <1>3, AppendSorted DEF OrderInv
<1>5. LineInv'
  <2> SUFFICES ASSUME Running PROVE /\ Sorted(batch) /\ Sorted(txqueue)
                                    /\ Before(sent', batch)
                                    /\ Before(sent', txqueue)
                                    /\ Before(batch, txqueue)
    BY <1>1 DEF LineInv, Running, Sorted, Before
  <2>1. /\ Sorted(batch) /\ Sorted(txqueue) /\ Before(sent, batch)
        /\ Before(sent, txqueue) /\ Before(batch, txqueue)
    BY DEF OrderInv, LineInv
  <2>2. Without(batch, c) /\ Without(txqueue, c)
    BY <1>1 DEF OrderInv, DirectInv
  <2>m. m[1] = c
    BY <1>1
  <2>3. Before(sent', batch)
    BY <1>2, <2>1, <2>2, <2>m, AppendAfter DEF Without
  <2>4. Before(sent', txqueue)
    BY <1>2, <2>1, <2>2, <2>m, AppendAfter DEF Without
  <2> QED
    BY <2>1, <2>3, <2>4
<1>i. /\ \A d \in Conn : d # c => wpc'[d] = wpc[d]
      /\ wpc'[c] = "idle"
      /\ UNCHANGED <<able, loop, batch, txqueue, count>>
  BY <1>1
<1>m. m[1] = c /\ m[2] = count[c] /\ count[c] \in Nat
  BY <1>1
<1>d. /\ \A k \in DOMAIN sent : sent[k][1] \in Conn
      /\ \A k \in DOMAIN batch : batch[k][1] \in Conn
      /\ \A k \in DOMAIN txqueue : txqueue[k][1] \in Conn
  BY DEF TypeInv, TypeOK, Message
<1>w. Written(sent) /\ Written(batch) /\ Written(txqueue)
  BY DEF OrderInv, WrittenInv
<1>6. WrittenInv'
  <2>1. Written(batch)'
    BY <1>w, <1>i, <1>d DEF Written
  <2>2. Written(txqueue)'
    BY <1>w, <1>i, <1>d DEF Written
  <2>3. Written(sent)'
    <3> SUFFICES ASSUME NEW k \in DOMAIN sent'
                 PROVE  /\ sent'[k][2] <= count[sent'[k][1]]
                        /\ wpc'[sent'[k][1]] # "idle"
                             => sent'[k][2] < count[sent'[k][1]]
      BY <1>i DEF Written
    <3>1. CASE sent'[k] = m
      BY <1>i, <1>m, <3>1
    <3>2. CASE \E j \in DOMAIN sent : sent'[k] = sent[j]
      BY <1>w, <1>i, <1>d, <3>2 DEF Written
    <3> QED
      BY <1>2, <3>1, <3>2
  <2> QED
    BY <2>1, <2>2, <2>3 DEF WrittenInv
<1>7. DirectInv'
  BY <1>1, <1>i DEF OrderInv, DirectInv, Without, Running
<1> QED
  BY <1>4, <1>5, <1>6, <1>7 DEF OrderInv

LEMMA OrderStep == TypeInv /\ OrderInv /\ [Next]_vars => OrderInv'
<1> SUFFICES ASSUME TypeInv, OrderInv PROVE [Next]_vars => OrderInv'
  OBVIOUS
<1>t. /\ wpc \in [Conn -> {"idle", "test", "put", "try", "direct"}]
      /\ count \in [Conn -> 0 .. MaxWrite]
      /\ \A s \in {sent, batch, txqueue} : \A k \in DOMAIN s :
           s[k][1] \in Conn /\ s[k][2] \in Nat
  <2>1. ASSUME NEW s \in Seq(Message), NEW k \in DOMAIN s
        PROVE  s[k][1] \in Conn /\ s[k][2] \in Nat
    <3>1. s[k] \in Message
      BY <2>1
    <3> QED
      BY <3>1 DEF Message
  <2>2. sent \in Seq(Message) /\ batch \in Seq(Message) /\ txqueue \in Seq(Message)
    BY DEF TypeInv, TypeOK
  <2> QED
    BY <2>1, <2>2 DEF TypeInv, TypeOK
<1> USE DEF OrderInv, WrittenInv, Written, LineInv, Running, DirectInv, Without,
        Sorted, Before, loopVars, writeVars
<1>1. LoopStart => OrderInv'
  BY DEF LoopStart
<1>2. LoopReceive => OrderInv'
  BY ReceiveOrder
<1>3. LoopCheck => OrderInv'
  BY DEF LoopCheck
<1>4. \A n \in 1 .. Cap : LoopSend(n) => OrderInv'
  BY SendOrder
<1>5. LoopFails => OrderInv'
  BY DEF LoopFails
<1>6. LoopOver => OrderInv'
  BY DEF LoopOver
<1>7. \A c \in Conn : WriteCall(c) => OrderInv'
  BY <1>t DEF WriteCall
<1>8. \A c \in Conn, txBlocked \in BOOLEAN : WriteTest(c, txBlocked)
                                               => OrderInv'
  <2> SUFFICES ASSUME NEW c \in Conn, NEW txBlocked \in BOOLEAN,
                      WriteTest(c, txBlocked)
               PROVE  OrderInv'
    OBVIOUS
  <2>1. /\ wpc[c] = "test"
        /\ wpc' = [wpc EXCEPT ![c] = IF ~ able THEN "direct"
                                     ELSE IF txBlocked THEN "put" ELSE "try"]
        /\ UNCHANGED <<txqueue, able, loop, batch, sent, count>>
    BY DEF WriteTest
  <2>2. WrittenInv'
    BY <1>t, <2>1
  <2>3. \A d \in Conn : Running' /\ wpc'[d] = "direct"
                         => Without(batch, d) /\ Without(txqueue, d)
    <3> SUFFICES ASSUME NEW d \in Conn, Running', wpc'[d] = "direct"
                 PROVE  Without(batch, d) /\ Without(txqueue, d)
      OBVIOUS
    <3>1. CASE d = c
      <4>1. loop = "start"
        BY <1>t, <2>1, <3>1
      <4> QED
        BY <4>1
    <3>2. CASE d # c
      BY <1>t, <2>1, <3>2
    <3> QED
      BY <3>1, <3>2
  <2>4. DirectInv'
    BY <1>t, <2>1, <2>3
  <2> QED
    BY <2>1, <2>2, <2>4
<1>9. \A c \in Conn : PutTxQueue(c) => OrderInv'
  BY PutOrder
<1>10. \A c \in Conn : PutDrop(c) => OrderInv'
  BY <1>t DEF PutDrop, Return
<1>11. \A c \in Conn, ok \in BOOLEAN : WriteTo(c, ok) => OrderInv'
  BY WriteToOrder
<1>12. \A c \in Conn : Close(c) => OrderInv'
  BY DEF Close
<1>13. UNCHANGED vars => OrderInv'
  BY DEF vars
<1> HIDE DEF OrderInv
<1> QED
  BY <1>1, <1>2, <1>3, <1>4, <1>5, <1>6, <1>7, <1>8, <1>9, <1>10, <1>11,
     <1>12, <1>13, NextCases

(* The messages of each UDPConn leave in the order they were written and   *)
(* none twice, whichever way each takes (UDPConn.Write and                 *)
(* Listener.writeBatchLoop).                                               *)
THEOREM ConnOrderKept == Spec => []PerConnOrder
<1>1. OrderInv => PerConnOrder
  BY DEF OrderInv, Sorted, PerConnOrder
<1> QED
  BY <1>1, TypeHolds, TypeStep, OrderInit, OrderStep, PTL DEF Spec

=============================================================================
