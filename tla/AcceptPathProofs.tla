--------------------------- MODULE AcceptPathProofs ---------------------------
(***************************************************************************)
(* Proofs about the way of a UDPConn to the application, for every number  *)
(* of Listeners and of callers of Accept and every capacity of the         *)
(* channels.                                                               *)
(***************************************************************************)
EXTENDS AcceptPath, TLAPS

(* What an action keeps, once for every action that Next is made of. *)
LEMMA NextCases ==
  ASSUME NEW P,
         NewListener => P, StartFails => P, Listen => P,
         \A l \in Listener : MakeConn(l) => P,
         \A l \in Listener : Offer(l) => P,
         \A l \in Listener : ReadFails(l) => P,
         \A l \in Listener : CloseNilDead(l) => P,
         \A l \in Listener : ForwardTake(l) => P,
         \A l \in Listener : ForwardPut(l) => P,
         \A l \in Listener : ForwardPanic(l) => P,
         \A c \in Caller : AcceptCall(c) => P,
         \A c \in Caller : AcceptCheck(c) => P,
         \A c \in Caller : AcceptReceive(c) => P,
         \A c \in Caller : AcceptError(c) => P,
         CloseCall => P, CloseDead => P, CloseAccept => P,
         \A l \in Listener : CloseListener(l) => P,
         UNCHANGED vars => P
  PROVE  [Next]_vars => P
BY DEF Next, Start, Forward, Accept

-----------------------------------------------------------------------------
(***************************************************************************)
(* Sequences.                                                              *)
(***************************************************************************)
LEMMA AppendElements ==
  ASSUME NEW S, NEW s \in Seq(S), NEW e \in S
  PROVE  /\ Append(s, e) \in Seq(S)
         /\ Len(Append(s, e)) = Len(s) + 1
         /\ DOMAIN Append(s, e) = 1 .. Len(s) + 1
         /\ DOMAIN s = 1 .. Len(s) /\ Len(s) \in Nat
         /\ \A k \in DOMAIN s : (Append(s, e))[k] = s[k]
         /\ (Append(s, e))[Len(s) + 1] = e
OBVIOUS

LEMMA TailElements ==
  ASSUME NEW S, NEW s \in Seq(S), s # <<>>
  PROVE  /\ Head(s) \in S /\ Head(s) = s[1] /\ 1 \in DOMAIN s
         /\ Tail(s) \in Seq(S)
         /\ Len(s) \in Nat \ {0}
         /\ Len(Tail(s)) = Len(s) - 1
         /\ DOMAIN Tail(s) = 1 .. Len(s) - 1
         /\ \A k \in DOMAIN Tail(s) : k + 1 \in DOMAIN s /\ (Tail(s))[k] = s[k + 1]
OBVIOUS

LEMMA ConcatElements ==
  ASSUME NEW S, NEW s \in Seq(S), NEW t \in Seq(S)
  PROVE  /\ s \o t \in Seq(S)
         /\ Len(s) \in Nat /\ Len(t) \in Nat
         /\ Len(s \o t) = Len(s) + Len(t)
         /\ DOMAIN (s \o t) = 1 .. Len(s) + Len(t)
         /\ \A k \in 1 .. Len(s) : (s \o t)[k] = s[k]
         /\ \A k \in 1 .. Len(t) : (s \o t)[Len(s) + k] = t[k]
OBVIOUS

-----------------------------------------------------------------------------
(***************************************************************************)
(* Type correctness.                                                       *)
(***************************************************************************)
LEMMA ConstantsTyped ==
  /\ ListenerNum \in Nat /\ LnCap \in Nat /\ UdpCap \in Nat /\ MaxConn \in Nat
  /\ \A l : l \in Listener <=> l \in Nat /\ 1 <= l /\ l <= ListenerNum
  /\ \A l \in Listener : l + 1 \in 1 .. ListenerNum + 1 /\ l \in 1 .. ListenerNum + 1
BY AcceptPathAssumption DEF Listener

LEMMA TypeInit == Init => TypeOK
<1> SUFFICES ASSUME Init PROVE TypeOK
  OBVIOUS
<1>1. 0 \in 0 .. ListenerNum /\ 0 \in 0 .. MaxConn
  BY ConstantsTyped
<1>2. <<>> \in Seq(Conn) /\ Len(<<>>) = 0 /\ <<>> \in Seq(Conn \X BOOLEAN)
  OBVIOUS
<1>3. lnAccept \in [Listener -> Seq(Conn)] /\ \A l \in Listener : Len(lnAccept[l]) <= LnCap
  BY <1>2, ConstantsTyped DEF Init
<1>4. /\ conns \in [Listener -> 0 .. MaxConn]
      /\ hand \in [Listener -> Conn \cup {NoConn}]
      /\ lnClosed \in [Listener -> BOOLEAN]
      /\ reader \in [Listener -> {"none", "loop", "offer", "close", "over"}]
      /\ caller \in [Caller -> {"idle", "check", "select"}]
      /\ late \in [Caller -> BOOLEAN]
  BY <1>1 DEF Init
<1>5. accept \in Seq(Conn) /\ Len(accept) <= UdpCap /\ accepted \in Seq(Conn \X BOOLEAN)
  BY <1>2, ConstantsTyped DEF Init
<1> QED BY <1>1, <1>3, <1>4, <1>5 DEF Init, TypeOK

(* The places where Close may be. *)
Place == {<<"none">>, <<"dead">>, <<"accept">>}
           \cup (1 .. ListenerNum + 1) \X {"lock", "close"}

LEMMA PlaceTyped ==
  /\ <<"none">> \in Place /\ <<"dead">> \in Place /\ <<"accept">> \in Place
  /\ <<1, "lock">> \in Place
  /\ \A l \in Listener : <<l + 1, "lock">> \in Place /\ <<l, "close">> \in Place
<1>1. 1 \in 1 .. ListenerNum + 1
  BY ConstantsTyped
<1> QED BY <1>1, ConstantsTyped DEF Place

LEMMA TypeStep == TypeOK /\ [Next]_vars => TypeOK'
<1> SUFFICES ASSUME TypeOK PROVE [Next]_vars => TypeOK'
  OBVIOUS
<1> USE DEF startVars, forwardVars, closeVars, callVars
<1>1. NewListener => TypeOK'
  <2> SUFFICES ASSUME NewListener PROVE TypeOK'
    OBVIOUS
  <2>1. made' \in 0 .. ListenerNum
    BY ConstantsTyped DEF NewListener, TypeOK
  <2>2. reader' \in [Listener -> {"none", "loop", "offer", "close", "over"}]
    BY DEF NewListener, TypeOK
  <2>3. \A l \in Listener : l > made' => l > made /\ l # made + 1
    BY ConstantsTyped DEF NewListener, TypeOK
  <2>4. \A l \in Listener : /\ reader'[l] = "offer" => conns'[l] > 0
                           /\ l > made' => reader'[l] = "none"
    BY <2>3 DEF NewListener, TypeOK
  <2> QED BY <2>1, <2>2, <2>4 DEF NewListener, TypeOK
<1>2. StartFails => TypeOK'
  BY DEF StartFails, TypeOK
<1>3. Listen => TypeOK'
  BY DEF Listen, TypeOK
<1>4. ASSUME NEW l \in Listener PROVE Offer(l) => TypeOK'
  <2> SUFFICES ASSUME Offer(l) PROVE TypeOK'
    OBVIOUS
  <2> DEFINE k == conns[l]
  <2>1. <<l, k>> \in Conn
    BY ConstantsTyped DEF Offer, TypeOK, Conn
  <2>2. lnAccept' = [lnAccept EXCEPT ![l] = Append(lnAccept[l], <<l, k>>)]
    BY DEF Offer, TypeOK
  <2>3. /\ Append(lnAccept[l], <<l, k>>) \in Seq(Conn)
        /\ Len(Append(lnAccept[l], <<l, k>>)) = Len(lnAccept[l]) + 1
        /\ Len(lnAccept[l]) \in Nat
    BY <2>1, AppendElements DEF TypeOK
  <2>4. Len(Append(lnAccept[l], <<l, k>>)) <= LnCap
    BY <2>3, ConstantsTyped DEF Offer
  <2>5. /\ lnAccept' \in [Listener -> Seq(Conn)]
        /\ \A m \in Listener : Len(lnAccept'[m]) <= LnCap
    BY <2>2, <2>3, <2>4 DEF TypeOK
  <2>6. reader' \in [Listener -> {"none", "loop", "offer", "close", "over"}]
    BY DEF Offer, TypeOK
  <2>7. \A m \in Listener : /\ reader'[m] = "offer" => conns'[m] > 0
                           /\ m > made' => reader'[m] = "none"
    BY DEF Offer, TypeOK
  <2> QED BY <2>5, <2>6, <2>7 DEF Offer, TypeOK
<1>5. ASSUME NEW l \in Listener PROVE ReadFails(l) => TypeOK'
  BY DEF ReadFails, TypeOK
<1>6. ASSUME NEW l \in Listener PROVE CloseNilDead(l) => TypeOK'
  BY DEF CloseNilDead, TypeOK
<1>7. ASSUME NEW l \in Listener PROVE ForwardTake(l) => TypeOK'
  <2> SUFFICES ASSUME ForwardTake(l) PROVE TypeOK'
    OBVIOUS
  <2>1. lnAccept[l] \in Seq(Conn) /\ lnAccept[l] # <<>> /\ Len(lnAccept[l]) <= LnCap
    BY DEF ForwardTake, TypeOK
  <2>2. /\ Head(lnAccept[l]) \in Conn /\ Tail(lnAccept[l]) \in Seq(Conn)
        /\ Len(Tail(lnAccept[l])) <= LnCap
    BY <2>1, TailElements, ConstantsTyped
  <2>3. /\ lnAccept' \in [Listener -> Seq(Conn)]
        /\ \A m \in Listener : Len(lnAccept'[m]) <= LnCap
    BY <2>2 DEF ForwardTake, TypeOK
  <2>4. hand' \in [Listener -> Conn \cup {NoConn}]
    BY <2>2 DEF ForwardTake, TypeOK
  <2> QED BY <2>3, <2>4 DEF ForwardTake, TypeOK
<1>8. ASSUME NEW l \in Listener PROVE ForwardPut(l) => TypeOK'
  <2> SUFFICES ASSUME ForwardPut(l) PROVE TypeOK'
    OBVIOUS
  <2>1. hand[l] \in Conn /\ accept \in Seq(Conn) /\ accept' = Append(accept, hand[l])
    BY DEF ForwardPut, TypeOK
  <2>2. accept' \in Seq(Conn) /\ Len(accept') = Len(accept) + 1 /\ Len(accept) \in Nat
    BY <2>1, AppendElements
  <2>3. Len(accept') <= UdpCap
    BY <2>2, ConstantsTyped DEF ForwardPut
  <2>4. hand' \in [Listener -> Conn \cup {NoConn}]
    BY DEF ForwardPut, TypeOK
  <2> QED BY <2>2, <2>3, <2>4 DEF ForwardPut, TypeOK
<1>9. ASSUME NEW l \in Listener PROVE ForwardPanic(l) => TypeOK'
  BY DEF ForwardPanic, TypeOK
<1>10. ASSUME NEW c \in Caller PROVE AcceptCall(c) => TypeOK'
  BY DEF AcceptCall, TypeOK
<1>11. ASSUME NEW c \in Caller PROVE AcceptCheck(c) => TypeOK'
  BY DEF AcceptCheck, TypeOK
<1>12. ASSUME NEW c \in Caller PROVE AcceptReceive(c) => TypeOK'
  <2> SUFFICES ASSUME AcceptReceive(c) PROVE TypeOK'
    OBVIOUS
  <2>1. accept \in Seq(Conn) /\ accept # <<>> /\ Len(accept) <= UdpCap
    BY DEF AcceptReceive, TypeOK
  <2>2. /\ Head(accept) \in Conn /\ Tail(accept) \in Seq(Conn)
        /\ Len(Tail(accept)) <= UdpCap
    BY <2>1, TailElements, ConstantsTyped
  <2>3. <<Head(accept), late[c]>> \in Conn \X BOOLEAN
    BY <2>2 DEF TypeOK
  <2>4. accepted' \in Seq(Conn \X BOOLEAN)
    BY <2>3, AppendElements DEF AcceptReceive, TypeOK
  <2>5. caller' \in [Caller -> {"idle", "check", "select"}]
    BY DEF AcceptReceive, TypeOK
  <2> QED BY <2>2, <2>4, <2>5 DEF AcceptReceive, TypeOK
<1>13. ASSUME NEW c \in Caller PROVE AcceptError(c) => TypeOK'
  BY DEF AcceptError, TypeOK
<1>14. CloseCall => TypeOK'
  <2> SUFFICES ASSUME CloseCall PROVE TypeOK'
    OBVIOUS
  <2>1. closer' \in Place
    BY PlaceTyped DEF CloseCall
  <2> QED BY <2>1 DEF CloseCall, TypeOK, Place
<1>15. CloseDead => TypeOK'
  <2> SUFFICES ASSUME CloseDead PROVE TypeOK'
    OBVIOUS
  <2>1. closer' \in Place
    BY PlaceTyped DEF CloseDead
  <2> QED BY <2>1 DEF CloseDead, TypeOK, Place
<1>16. CloseAccept => TypeOK'
  <2> SUFFICES ASSUME CloseAccept PROVE TypeOK'
    OBVIOUS
  <2>1. closer' \in Place
    BY PlaceTyped DEF CloseAccept
  <2> QED BY <2>1 DEF CloseAccept, TypeOK, Place
<1>17. ASSUME NEW l \in Listener PROVE CloseListener(l) => TypeOK'
  <2> SUFFICES ASSUME CloseListener(l) PROVE TypeOK'
    OBVIOUS
  <2>1. closer' \in Place
    BY PlaceTyped DEF CloseListener
  <2>2. lnClosed' \in [Listener -> BOOLEAN]
    BY DEF CloseListener, TypeOK
  <2> QED BY <2>1, <2>2 DEF CloseListener, TypeOK, Place
<1>18. ASSUME NEW l \in Listener PROVE MakeConn(l) => TypeOK'
  <2> SUFFICES ASSUME MakeConn(l) PROVE TypeOK'
    OBVIOUS
  <2> DEFINE k == conns[l] + 1
  <2>1. k \in 0 .. MaxConn /\ k > 0
    <3>1. conns[l] \in 0 .. MaxConn /\ conns[l] < MaxConn
      BY DEF MakeConn, TypeOK
    <3> QED BY <3>1, ConstantsTyped
  <2>2. conns' = [conns EXCEPT ![l] = k]
    BY DEF MakeConn, TypeOK
  <2> HIDE DEF k
  <2>3. conns' \in [Listener -> 0 .. MaxConn]
    BY <2>1, <2>2 DEF TypeOK
  <2>4. reader' = [reader EXCEPT ![l] = "offer"]
    BY DEF MakeConn
  <2>5. reader' \in [Listener -> {"none", "loop", "offer", "close", "over"}]
    BY <2>4 DEF TypeOK
  <2>6. \A m \in Listener : /\ reader'[m] = "offer" => conns'[m] > 0
                           /\ m > made' => reader'[m] = "none"
    BY <2>1, <2>2, <2>4 DEF MakeConn, TypeOK
  <2> QED BY <2>3, <2>5, <2>6 DEF MakeConn, TypeOK
<1>19. UNCHANGED vars => TypeOK'
  BY DEF vars, TypeOK
<1> QED
  BY <1>1, <1>2, <1>3, <1>4, <1>5, <1>6, <1>7, <1>8, <1>9, <1>10, <1>11, <1>12,
     <1>13, <1>14, <1>15, <1>16, <1>17, <1>18, <1>19, NextCases

(* Every variable keeps its type; no channel holds more than it has room   *)
(* for.                                                                    *)
THEOREM AcceptPathTyped == Spec => []TypeOK
BY TypeInit, TypeStep, PTL DEF Spec

-----------------------------------------------------------------------------
(***************************************************************************)
(* Accept and Close.  A call that is past the test of dead began before    *)
(* dead was closed.                                                        *)
(***************************************************************************)
LateInv ==
  /\ \A c \in Caller : late[c] => dead
  /\ \A c \in Caller : caller[c] = "select" => ~ late[c]
  /\ NoneAfterClose

LEMMA LateInit == Init => LateInv
BY DEF Init, LateInv, NoneAfterClose

LEMMA LateStep == TypeOK /\ LateInv /\ [Next]_vars => LateInv'
<1> SUFFICES ASSUME TypeOK, LateInv PROVE [Next]_vars => LateInv'
  OBVIOUS
<1> DEFINE Same == UNCHANGED <<dead, caller, late, accepted>>
<1>0. Same => LateInv'
  BY DEF LateInv, NoneAfterClose
<1> USE DEF startVars, forwardVars, closeVars, callVars
<1>1. NewListener => Same
  BY DEF NewListener
<1>2. StartFails => Same
  BY DEF StartFails
<1>3. Listen => Same
  BY DEF Listen
<1>4. \A l \in Listener : (MakeConn(l) => Same) /\ (Offer(l) => Same)
  BY DEF MakeConn, Offer
<1>5. \A l \in Listener : ReadFails(l) => Same
  BY DEF ReadFails
<1>6. \A l \in Listener : CloseNilDead(l) => Same
  BY DEF CloseNilDead
<1>7. \A l \in Listener : ForwardTake(l) => Same
  BY DEF ForwardTake
<1>8. \A l \in Listener : ForwardPut(l) => Same
  BY DEF ForwardPut
<1>9. \A l \in Listener : ForwardPanic(l) => Same
  BY DEF ForwardPanic
<1>10. ASSUME NEW c \in Caller PROVE AcceptCall(c) => LateInv'
  BY DEF AcceptCall, TypeOK, LateInv, NoneAfterClose
<1>11. ASSUME NEW c \in Caller PROVE AcceptCheck(c) => LateInv'
  BY DEF AcceptCheck, TypeOK, LateInv, NoneAfterClose
<1>12. ASSUME NEW c \in Caller PROVE AcceptReceive(c) => LateInv'
  <2> SUFFICES ASSUME AcceptReceive(c) PROVE LateInv'
    OBVIOUS
  <2>1. ~ late[c] /\ dead' = dead /\ late' = late
        /\ caller' = [caller EXCEPT ![c] = "idle"]
    BY DEF AcceptReceive, LateInv
  <2>2. Head(accept) \in Conn /\ accepted' = Append(accepted, <<Head(accept), late[c]>>)
    BY TailElements DEF AcceptReceive, TypeOK
  <2>3. <<Head(accept), late[c]>> \in Conn \X BOOLEAN
    BY <2>2 DEF TypeOK
  <2>4. /\ DOMAIN accepted' = 1 .. Len(accepted) + 1
        /\ DOMAIN accepted = 1 .. Len(accepted) /\ Len(accepted) \in Nat
        /\ \A k \in DOMAIN accepted : accepted'[k] = accepted[k]
        /\ accepted'[Len(accepted) + 1] = <<Head(accept), late[c]>>
    BY <2>2, <2>3, AppendElements DEF TypeOK
  <2>5. NoneAfterClose'
    <3>1. ASSUME NEW k \in DOMAIN accepted' PROVE ~ accepted'[k][2]
      <4>1. CASE k \in DOMAIN accepted
        BY <2>4, <4>1 DEF LateInv, NoneAfterClose
      <4>2. CASE k = Len(accepted) + 1
        BY <2>1, <2>4, <4>2
      <4> QED BY <2>4, <3>1, <4>1, <4>2
    <3> QED BY <3>1 DEF NoneAfterClose
  <2> QED BY <2>1, <2>5 DEF LateInv, TypeOK
<1>13. ASSUME NEW c \in Caller PROVE AcceptError(c) => LateInv'
  BY DEF AcceptError, TypeOK, LateInv, NoneAfterClose
<1>14. CloseCall => Same
  BY DEF CloseCall
<1>15. CloseDead => LateInv'
  BY DEF CloseDead, LateInv, NoneAfterClose
<1>16. CloseAccept => Same
  BY DEF CloseAccept
<1>17. \A l \in Listener : CloseListener(l) => Same
  BY DEF CloseListener
<1>18. UNCHANGED vars => Same
  BY DEF vars
<1> HIDE DEF Same
<1> QED
  BY <1>0, <1>1, <1>2, <1>3, <1>4, <1>5, <1>6, <1>7, <1>8, <1>9, <1>10, <1>11,
     <1>12, <1>13, <1>14, <1>15, <1>16, <1>17, <1>18, NextCases

(* An Accept that begins after Close has closed dead returns no UDPConn,   *)
(* whatever still waits in accept. (UdpListen.Accept, UdpListen.Close)     *)
THEOREM ClosedAcceptsNothing == Spec => []NoneAfterClose
<1>1. LateInv => NoneAfterClose
  BY DEF LateInv
<1> QED BY <1>1, LateInit, LateStep, AcceptPathTyped, PTL DEF Spec

-----------------------------------------------------------------------------
(***************************************************************************)
(* The order of UDPConns. InOrderOnce is inductive: it says where each     *)
(* UDPConn is, and which comes next at every place.                        *)
(***************************************************************************)
(* The head of one sequence becomes the end of another. *)
LEMMA HeadMoved ==
  ASSUME NEW S, NEW p \in Seq(S), NEW s \in Seq(S), s # <<>>
  PROVE  Append(p, Head(s)) \o Tail(s) = p \o s
OBVIOUS

LEMMA FirstsAppended ==
  ASSUME NEW S, NEW a \in Seq(S \X BOOLEAN), NEW e \in S \X BOOLEAN
  PROVE  [k \in 1 .. Len(Append(a, e)) |-> Append(a, e)[k][1]]
           = Append([k \in 1 .. Len(a) |-> a[k][1]], e[1])
OBVIOUS

LEMMA NoConnIsNone == \A c \in Conn : c # NoConn
<1>1. ASSUME NEW l, NEW k PROVE <<l, k>> # <<>>
  OBVIOUS
<1> QED BY <1>1 DEF Conn, NoConn

(* The first fields of what Accept returned. *)
Firsts(a) == [k \in DOMAIN a |-> a[k][1]]

LEMMA FirstsElements ==
  ASSUME NEW a \in Seq(Conn \X BOOLEAN)
  PROVE  /\ Firsts(a) \in Seq(Conn)
         /\ Len(Firsts(a)) = Len(a) /\ Len(a) \in Nat
         /\ \A k \in 1 .. Len(a) : Firsts(a)[k] = a[k][1]
<1>1. DOMAIN a = 1 .. Len(a) /\ Len(a) \in Nat /\ \A k \in 1 .. Len(a) : a[k] \in Conn \X BOOLEAN
  OBVIOUS
<1>2. \A k \in 1 .. Len(a) : a[k][1] \in Conn
  BY <1>1
<1> DEFINE f == [k \in 1 .. Len(a) |-> a[k][1]]
<1>3. f \in [1 .. Len(a) -> Conn]
  BY <1>2
<1>4. f \in Seq(Conn) /\ Len(f) = Len(a)
  BY <1>1, <1>3
<1> QED BY <1>1, <1>4 DEF Firsts

(* Accept takes the first UDPConn of accept and leaves the line as it was. *)
LEMMA LineReceived ==
  ASSUME NEW a \in Seq(Conn \X BOOLEAN), NEW s \in Seq(Conn), s # <<>>,
         NEW b \in BOOLEAN
  PROVE  Firsts(Append(a, <<Head(s), b>>)) \o Tail(s) = Firsts(a) \o s
<1> DEFINE e == <<Head(s), b>>
           c == Append(a, e)
<1>1. e \in Conn \X BOOLEAN /\ e[1] = Head(s)
  BY TailElements
<1> HIDE DEF e
<1>2. DOMAIN a = 1 .. Len(a) /\ DOMAIN c = 1 .. Len(c)
  BY <1>1
<1>3. Firsts(c) = Append(Firsts(a), e[1])
  BY <1>1, <1>2, FirstsAppended DEF Firsts
<1>4. Append(Firsts(a), Head(s)) \o Tail(s) = Firsts(a) \o s
  <2>1. Firsts(a) \in Seq(Conn)
    BY FirstsElements
  <2> QED BY <2>1, HeadMoved
<1> QED BY <1>1, <1>3, <1>4 DEF e, c

LEMMA LineTyped ==
  ASSUME TypeOK
  PROVE  Line \in Seq(Conn) /\ Line = Firsts(accepted) \o accept
<1>1. Firsts(accepted) \in Seq(Conn) /\ accept \in Seq(Conn)
  BY FirstsElements DEF TypeOK
<1> QED BY <1>1, ConcatElements DEF Line, Firsts

(* What InOrderOnce says of one Listener. *)
Behind(l) ==
  /\ \A k \in DOMAIN lnAccept[l] : lnAccept[l][k] = <<l, Taken(l) + k>>
  /\ hand[l] # NoConn => hand[l] = <<l, Taken(l)>>

Ahead(l) ==
  /\ \A m \in 1 .. Forwarded(l) : \E k \in DOMAIN Line : Line[k] = <<l, m>>
  /\ \A k \in DOMAIN Line : Line[k][1] = l => Line[k][2] <= Forwarded(l)

LEMMA OrderCases ==
  InOrderOnce <=>
    /\ \A l \in Listener : Behind(l) /\ Ahead(l)
    /\ \A j, k \in DOMAIN Line :
         j < k /\ Line[j][1] = Line[k][1] => Line[j][2] < Line[k][2]
BY DEF InOrderOnce, Behind, Ahead

LEMMA OrderInit == Init => InOrderOnce
<1> SUFFICES ASSUME Init PROVE InOrderOnce
  OBVIOUS
<1>1. /\ DOMAIN accepted = {} /\ accept = <<>> /\ accepted = <<>>
      /\ \A l \in Listener : lnAccept[l] = <<>> /\ hand[l] = NoConn /\ conns[l] = 0
  BY DEF Init
<1>2. Line \in Seq(Conn) /\ Len(Line) = 0
  <2>1. <<>> \in Seq(Conn \X BOOLEAN) /\ <<>> \in Seq(Conn) /\ Len(<<>>) = 0
    OBVIOUS
  <2>2. Firsts(<<>>) \in Seq(Conn) /\ Len(Firsts(<<>>)) = 0
    BY <2>1, FirstsElements
  <2>3. Line = Firsts(<<>>) \o <<>>
    BY <1>1 DEF Line, Firsts
  <2> QED BY <2>1, <2>2, <2>3, ConcatElements
<1>3. DOMAIN Line = {}
  BY <1>2
<1>4. ASSUME NEW l \in Listener PROVE Behind(l) /\ Ahead(l)
  <2>1. Len(lnAccept[l]) = 0 /\ DOMAIN lnAccept[l] = {}
    BY <1>1
  <2>2. Waiting(l) = 0 /\ Taken(l) = 0 /\ Forwarded(l) = 0
    BY <1>1, <2>1 DEF Init, Waiting, Taken, Forwarded
  <2>3. 1 .. 0 = {}
    OBVIOUS
  <2> QED BY <1>1, <1>3, <2>1, <2>2, <2>3 DEF Behind, Ahead
<1> QED BY <1>3, <1>4, OrderCases

(* Numbers that the steps below reckon with. *)
LEMMA OrderTyped ==
  ASSUME TypeOK, InOrderOnce, NEW l \in Listener
  PROVE  /\ conns[l] \in Nat /\ Len(lnAccept[l]) \in Nat
         /\ DOMAIN lnAccept[l] = 1 .. Len(lnAccept[l])
         /\ Taken(l) \in Int /\ Forwarded(l) \in Int
         /\ DOMAIN Line = 1 .. Len(Line) /\ Len(Line) \in Nat
         /\ \A k \in DOMAIN Line : Line[k][1] \in Listener /\ Line[k][2] \in Nat
<1>1. conns[l] \in Nat /\ lnAccept[l] \in Seq(Conn)
  BY ConstantsTyped DEF TypeOK
<1>2. Len(lnAccept[l]) \in Nat /\ DOMAIN lnAccept[l] = 1 .. Len(lnAccept[l])
  BY <1>1
<1>3. Taken(l) \in Int /\ Forwarded(l) \in Int
  BY <1>1, <1>2 DEF Waiting, Taken, Forwarded
<1>4. DOMAIN Line = 1 .. Len(Line) /\ Len(Line) \in Nat
      /\ \A k \in DOMAIN Line : Line[k] \in Conn
  BY LineTyped
<1>5. \A c \in Conn : c[1] \in Listener /\ c[2] \in Nat
  BY ConstantsTyped DEF Conn
<1> QED BY <1>1, <1>2, <1>3, <1>4, <1>5

(* The line stays as it is, and so does what was forwarded. *)
LEMMA OrderBehind ==
  ASSUME TypeOK, InOrderOnce, Line' = Line,
         \A l \in Listener : Forwarded(l)' = Forwarded(l) /\ Behind(l)'
  PROVE  InOrderOnce'
BY OrderCases DEF Ahead, InOrderOnce, Behind

LEMMA OrderSame ==
  ASSUME TypeOK, InOrderOnce, Line' = Line, UNCHANGED <<conns, lnAccept, hand>>,
         \A l \in Listener : Waiting(l)' = Waiting(l)
  PROVE  InOrderOnce'
<1>1. \A l \in Listener : Taken(l)' = Taken(l) /\ Forwarded(l)' = Forwarded(l)
  BY DEF Taken, Forwarded
<1> QED BY <1>1 DEF InOrderOnce

(* A UDPConn is made: it waits for its place. *)
LEMMA OrderMake ==
  ASSUME TypeOK, InOrderOnce, NEW l \in Listener, MakeConn(l)
  PROVE  InOrderOnce'
<1>1. /\ conns' = [conns EXCEPT ![l] = conns[l] + 1]
      /\ reader[l] = "loop" /\ reader' = [reader EXCEPT ![l] = "offer"]
      /\ UNCHANGED <<lnAccept, hand, accept, accepted>>
  BY DEF MakeConn, forwardVars, callVars
<1>2. Line' = Line
  BY <1>1 DEF Line
<1>3. ASSUME NEW m \in Listener PROVE Taken(m)' = Taken(m)
  <2>1. lnAccept'[m] = lnAccept[m] /\ conns[m] \in Nat /\ Len(lnAccept[m]) \in Nat
    BY <1>1, OrderTyped
  <2>2. CASE m = l
    <3>1. /\ conns'[l] = conns[l] + 1
          /\ Waiting(l) = 0 /\ Waiting(l)' = 1
      BY <1>1 DEF Waiting, TypeOK
    <3> QED BY <2>1, <2>2, <3>1 DEF Taken
  <2>3. CASE m # l
    <3>1. conns'[m] = conns[m] /\ Waiting(m)' = Waiting(m)
      BY <1>1, <2>3 DEF Waiting, TypeOK
    <3> QED BY <2>1, <3>1 DEF Taken
  <2> QED BY <2>2, <2>3
<1>4. ASSUME NEW m \in Listener PROVE Forwarded(m)' = Forwarded(m) /\ Behind(m)'
  BY <1>1, <1>3, OrderCases DEF Behind, Forwarded
<1> QED BY <1>2, <1>4, OrderBehind

(* The UDPConn that waits takes the last place in the channel of its       *)
(* Listener.                                                               *)
LEMMA OrderOffer ==
  ASSUME TypeOK, InOrderOnce, NEW l \in Listener, Offer(l)
  PROVE  InOrderOnce'
<1> DEFINE s == lnAccept[l]
           n == conns[l]
<1>1. /\ reader[l] = "offer" /\ reader' = [reader EXCEPT ![l] = "loop"]
      /\ lnAccept' = [lnAccept EXCEPT ![l] = Append(s, <<l, n>>)]
      /\ conns' = conns /\ hand' = hand /\ accept' = accept /\ accepted' = accepted
  BY DEF Offer, TypeOK, forwardVars, callVars
<1>2. Line' = Line
  BY <1>1 DEF Line
<1>3. s \in Seq(Conn) /\ <<l, n>> \in Conn /\ n \in Nat
  BY <1>1, ConstantsTyped DEF TypeOK, Conn
<1>4. lnAccept'[l] = Append(s, <<l, n>>)
  BY <1>1 DEF TypeOK
<1>5. /\ Len(lnAccept'[l]) = Len(s) + 1 /\ Len(s) \in Nat
      /\ DOMAIN lnAccept'[l] = 1 .. Len(s) + 1 /\ DOMAIN s = 1 .. Len(s)
      /\ \A k \in 1 .. Len(s) : lnAccept'[l][k] = s[k]
      /\ lnAccept'[l][Len(s) + 1] = <<l, n>>
  BY <1>3, <1>4, AppendElements
<1>6. Taken(l)' = Taken(l) /\ Taken(l) + (Len(s) + 1) = n
  <2>1. /\ Taken(l) = conns[l] - Waiting(l) - Len(s)
        /\ Taken(l)' = conns'[l] - Waiting(l)' - Len(lnAccept'[l])
    BY DEF Taken
  <2>2. Waiting(l) = 1 /\ Waiting(l)' = 0
    BY <1>1 DEF Waiting, TypeOK
  <2>3. conns'[l] = conns[l] /\ Len(lnAccept'[l]) = Len(s) + 1
    BY <1>1, <1>5
  <2>4. conns[l] \in Nat /\ Len(s) \in Nat
    BY <1>3, <1>5
  <2> HIDE DEF s
  <2> QED BY <2>1, <2>2, <2>3, <2>4
<1>7. ASSUME NEW m \in Listener PROVE Forwarded(m)' = Forwarded(m) /\ Behind(m)'
  <2>1. CASE m # l
    <3>1. /\ lnAccept'[m] = lnAccept[m] /\ conns'[m] = conns[m]
          /\ hand'[m] = hand[m] /\ Waiting(m)' = Waiting(m)
      BY <1>1, <2>1 DEF Waiting, TypeOK
    <3>2. Taken(m)' = Taken(m)
      BY <3>1 DEF Taken
    <3> QED BY <3>1, <3>2, OrderCases DEF Behind, Forwarded
  <2>2. CASE m = l
    <3>1. Forwarded(l)' = Forwarded(l)
      BY <1>1, <1>6 DEF Forwarded
    <3>2. ASSUME NEW k \in DOMAIN lnAccept'[l]
          PROVE  lnAccept'[l][k] = <<l, Taken(l)' + k>>
      <4>1. CASE k \in 1 .. Len(s)
        BY <1>5, <1>6, <4>1, OrderCases DEF Behind
      <4>2. CASE k = Len(s) + 1
        BY <1>5, <1>6, <4>2
      <4> QED BY <1>5, <3>2, <4>1, <4>2
    <3>3. hand'[l] # NoConn => hand'[l] = <<l, Taken(l)'>>
      BY <1>1, <1>6, OrderCases DEF Behind
    <3> QED BY <2>2, <3>1, <3>2, <3>3 DEF Behind
  <2> QED BY <2>1, <2>2
<1> QED BY <1>2, <1>7, OrderBehind

(* The goroutine takes the next UDPConn of the Listener. *)
LEMMA OrderTake ==
  ASSUME TypeOK, InOrderOnce, NEW l \in Listener, ForwardTake(l)
  PROVE  InOrderOnce'
<1> DEFINE s == lnAccept[l]
<1>1. /\ hand[l] = NoConn /\ s # <<>>
      /\ hand' = [hand EXCEPT ![l] = Head(s)]
      /\ lnAccept' = [lnAccept EXCEPT ![l] = Tail(s)]
      /\ UNCHANGED <<conns, accept, accepted, reader>>
  BY DEF ForwardTake, TypeOK, callVars
<1>2. Line' = Line
  BY <1>1 DEF Line
<1>3. s \in Seq(Conn) /\ conns[l] \in Nat
  BY ConstantsTyped DEF TypeOK
<1>4. lnAccept'[l] = Tail(s) /\ hand'[l] = Head(s) /\ conns'[l] = conns[l]
  BY <1>1 DEF TypeOK
<1>5. /\ Head(s) \in Conn /\ Head(s) = s[1] /\ 1 \in DOMAIN s
      /\ Len(s) \in Nat \ {0} /\ Len(lnAccept'[l]) = Len(s) - 1
      /\ DOMAIN lnAccept'[l] = 1 .. Len(s) - 1
      /\ \A k \in 1 .. Len(s) - 1 : k + 1 \in DOMAIN s /\ lnAccept'[l][k] = s[k + 1]
  <2>1. /\ Head(s) \in Conn /\ Head(s) = s[1] /\ 1 \in DOMAIN s
        /\ Len(s) \in Nat \ {0} /\ Len(Tail(s)) = Len(s) - 1
        /\ DOMAIN Tail(s) = 1 .. Len(s) - 1
        /\ \A k \in DOMAIN Tail(s) : k + 1 \in DOMAIN s /\ (Tail(s))[k] = s[k + 1]
    <3>1. s \in Seq(Conn) /\ s # <<>>
      BY <1>1, <1>3
    <3> HIDE DEF s
    <3> QED BY <3>1, TailElements
  <2> HIDE DEF s
  <2> QED BY <1>4, <2>1
<1>6. /\ Taken(l)' = Taken(l) + 1 /\ Taken(l) \in Int
      /\ \A k \in 1 .. Len(s) - 1 : Taken(l)' + k = Taken(l) + (k + 1)
  <2>1. /\ Taken(l) = conns[l] - Waiting(l) - Len(s)
        /\ Taken(l)' = conns'[l] - Waiting(l)' - Len(lnAccept'[l])
    BY DEF Taken
  <2>2. /\ conns'[l] = conns[l] /\ Waiting(l)' = Waiting(l)
        /\ Len(lnAccept'[l]) = Len(s) - 1
    BY <1>1, <1>4, <1>5 DEF Waiting
  <2>3. conns[l] \in Nat /\ Waiting(l) \in Nat /\ Len(s) \in Nat
    BY <1>3, <1>5 DEF Waiting
  <2> HIDE DEF s
  <2>4. Taken(l)' = Taken(l) + 1 /\ Taken(l) \in Int
    BY <2>1, <2>2, <2>3
  <2> QED BY <2>4
<1>7. \A k \in DOMAIN s : s[k] = <<l, Taken(l) + k>>
  BY OrderCases DEF Behind
<1>8. Head(s) # NoConn
  BY <1>5, NoConnIsNone
<1>9. ASSUME NEW m \in Listener PROVE Forwarded(m)' = Forwarded(m) /\ Behind(m)'
  <2>1. CASE m # l
    <3>1. lnAccept'[m] = lnAccept[m] /\ conns'[m] = conns[m] /\ hand'[m] = hand[m]
      BY <1>1, <2>1 DEF TypeOK
    <3>2. Taken(m)' = Taken(m)
      BY <1>1, <3>1 DEF Waiting, Taken
    <3> QED BY <3>1, <3>2, OrderCases DEF Behind, Forwarded
  <2>2. CASE m = l
    <3>1. Forwarded(l)' = Forwarded(l)
      BY <1>1, <1>4, <1>6, <1>8 DEF Forwarded
    <3>2. \A k \in DOMAIN lnAccept'[l] : lnAccept'[l][k] = <<l, Taken(l)' + k>>
      BY <1>5, <1>6, <1>7
    <3>3. hand'[l] = <<l, Taken(l)'>>
      BY <1>4, <1>5, <1>6, <1>7
    <3> QED BY <2>2, <3>1, <3>2, <3>3 DEF Behind
  <2> QED BY <2>1, <2>2
<1> QED BY <1>2, <1>9, OrderBehind

(* The goroutine puts it into the channel of the UdpListen: it is the next *)
(* of its Listener there.                                                  *)
LEMMA OrderPut ==
  ASSUME TypeOK, InOrderOnce, NEW l \in Listener, ForwardPut(l)
  PROVE  InOrderOnce'
<1> DEFINE c == hand[l]
           N == Len(Line)
<1>1. /\ c # NoConn /\ accept' = Append(accept, c)
      /\ hand' = [hand EXCEPT ![l] = NoConn]
      /\ UNCHANGED <<conns, lnAccept, accepted, reader>>
  BY DEF ForwardPut, callVars
<1>2. /\ c = <<l, Taken(l)>> /\ c \in Conn
      /\ Taken(l) \in Int /\ Forwarded(l) = Taken(l) - 1
  BY <1>1, OrderTyped, OrderCases DEF Behind, Forwarded, TypeOK
<1>3. Line' = Append(Line, c) /\ Line \in Seq(Conn)
  <2>1. Firsts(accepted) \in Seq(Conn) /\ accept \in Seq(Conn)
    BY FirstsElements DEF TypeOK
  <2>2. \A p \in Seq(Conn), q \in Seq(Conn) : p \o Append(q, c) = Append(p \o q, c)
    BY <1>2
  <2>3. Firsts(accepted) \o Append(accept, c) = Append(Firsts(accepted) \o accept, c)
    BY <2>1, <2>2
  <2> QED BY <1>1, <2>3, LineTyped DEF Line, Firsts
<1>4. /\ DOMAIN Line' = 1 .. N + 1 /\ DOMAIN Line = 1 .. N /\ N \in Nat
      /\ \A k \in 1 .. N : Line'[k] = Line[k]
      /\ Line'[N + 1] = c
  BY <1>2, <1>3, AppendElements
<1> HIDE DEF c, N
<1>5. \A m \in Listener : Taken(m)' = Taken(m)
  BY <1>1 DEF Waiting, Taken
<1>6. /\ Forwarded(l)' = Forwarded(l) + 1 /\ Forwarded(l) \in Int
      /\ Forwarded(l)' = Taken(l)
      /\ \A m \in Listener : m # l => Forwarded(m)' = Forwarded(m)
  BY <1>1, <1>2, <1>5 DEF Forwarded, TypeOK
<1>7. ASSUME NEW m \in Listener PROVE Behind(m)'
  BY <1>1, <1>5, OrderCases DEF Behind, TypeOK
<1>8. \A k \in 1 .. N : Line[k][1] \in Listener /\ Line[k][2] \in Nat
  BY <1>4, OrderTyped
<1>9. ASSUME NEW m \in Listener PROVE Ahead(m)'
  <2>1. ASSUME NEW j \in 1 .. Forwarded(m)'
        PROVE  \E k \in DOMAIN Line' : Line'[k] = <<m, j>>
    <3>1. CASE j \in 1 .. Forwarded(m)
      <4>1. PICK k \in DOMAIN Line : Line[k] = <<m, j>>
        BY <3>1, OrderCases DEF Ahead
      <4>2. k \in DOMAIN Line' /\ Line'[k] = <<m, j>>
        BY <1>4, <4>1
      <4> QED BY <4>2
    <3>2. CASE m = l /\ j = Taken(l)
      <4>1. N + 1 \in DOMAIN Line'
        BY <1>4
      <4> QED BY <1>2, <1>4, <3>2, <4>1
    <3>3. j \in 1 .. Forwarded(m) \/ (m = l /\ j = Taken(l))
      BY <1>2, <1>6, <2>1
    <3> QED BY <3>1, <3>2, <3>3
  <2>2. ASSUME NEW k \in DOMAIN Line', Line'[k][1] = m
        PROVE  Line'[k][2] <= Forwarded(m)'
    <3>1. CASE k \in 1 .. N
      <4>1. Line'[k] = Line[k] /\ Line[k][1] = m /\ Line[k][2] \in Nat
        BY <1>4, <1>8, <2>2, <3>1
      <4>2. Line[k][2] <= Forwarded(m)
        BY <1>4, <3>1, <4>1, OrderCases DEF Ahead
      <4>3. /\ Forwarded(m) \in Int
            /\ Forwarded(m)' = Forwarded(m) \/ Forwarded(m)' = Forwarded(m) + 1
        BY <1>6, OrderTyped
      <4> QED BY <4>1, <4>2, <4>3
    <3>2. CASE k = N + 1
      <4>1. Line'[k][2] = Taken(l) /\ m = l
        BY <1>2, <1>4, <2>2, <3>2
      <4> QED BY <1>2, <1>6, <4>1
    <3> QED BY <1>4, <2>2, <3>1, <3>2
  <2> QED BY <2>1, <2>2 DEF Ahead
<1>10. ASSUME NEW j \in DOMAIN Line', NEW k \in DOMAIN Line',
              j < k, Line'[j][1] = Line'[k][1]
       PROVE  Line'[j][2] < Line'[k][2]
  <2>1. j \in 1 .. N /\ Line'[j] = Line[j]
    BY <1>4, <1>10
  <2>2. CASE k \in 1 .. N
    BY <1>4, <1>10, <2>1, <2>2, OrderCases
  <2>3. CASE k = N + 1
    <3>1. Line[j][1] = l /\ Line[j][2] \in Nat
      BY <1>2, <1>4, <1>8, <1>10, <2>1, <2>3
    <3>2. Line[j][2] <= Forwarded(l)
      BY <1>4, <2>1, <3>1, OrderCases DEF Ahead
    <3> QED BY <1>2, <1>4, <1>6, <2>1, <2>3, <3>1, <3>2
  <2> QED BY <1>4, <1>10, <2>2, <2>3
<1> QED BY <1>7, <1>9, <1>10 DEF InOrderOnce, Behind, Ahead

LEMMA OrderReceive ==
  ASSUME TypeOK, InOrderOnce, NEW c \in Caller, AcceptReceive(c)
  PROVE  InOrderOnce'
<1>1. /\ accept # <<>> /\ accepted' = Append(accepted, <<Head(accept), late[c]>>)
      /\ accept' = Tail(accept)
      /\ UNCHANGED <<conns, lnAccept, hand, reader>>
  BY DEF AcceptReceive
<1>2. Firsts(Append(accepted, <<Head(accept), late[c]>>)) \o Tail(accept)
        = Firsts(accepted) \o accept
  <2>1. /\ accepted \in Seq(Conn \X BOOLEAN) /\ accept \in Seq(Conn)
        /\ late[c] \in BOOLEAN
    BY DEF TypeOK
  <2> QED BY <1>1, <2>1, LineReceived
<1>3. Line' = Line
  BY <1>1, <1>2 DEF Line, Firsts
<1> QED BY <1>1, <1>3, OrderSame DEF Waiting

LEMMA OrderStep == TypeOK /\ InOrderOnce /\ [Next]_vars => InOrderOnce'
<1> SUFFICES ASSUME TypeOK, InOrderOnce PROVE [Next]_vars => InOrderOnce'
  OBVIOUS
<1> DEFINE Same == /\ UNCHANGED <<conns, lnAccept, hand, accept, accepted>>
                   /\ \A l \in Listener : reader'[l] = "offer" <=> reader[l] = "offer"
<1>0. Same => InOrderOnce'
  <2> SUFFICES ASSUME Same PROVE InOrderOnce'
    OBVIOUS
  <2>1. Line' = Line
    BY DEF Line
  <2>2. \A l \in Listener : Waiting(l)' = Waiting(l)
    BY DEF Waiting
  <2> QED BY <2>1, <2>2, OrderSame
<1> USE DEF startVars, forwardVars, closeVars, callVars
<1>1. NewListener => Same
  <2> SUFFICES ASSUME NewListener PROVE Same
    OBVIOUS
  <2>1. /\ made + 1 \in Listener /\ made + 1 > made
        /\ reader' = [reader EXCEPT ![made + 1] = "loop"]
    <3>1. made \in 0 .. ListenerNum /\ made < ListenerNum
      BY DEF NewListener, TypeOK
    <3>2. made + 1 \in Nat /\ 1 <= made + 1 /\ made + 1 <= ListenerNum
      BY <3>1, ConstantsTyped
    <3> QED BY <3>1, <3>2, ConstantsTyped DEF NewListener
  <2>2. \A l \in Listener : reader'[l] = "offer" <=> reader[l] = "offer"
    BY <2>1 DEF TypeOK
  <2> QED BY <2>2 DEF NewListener
<1>2. StartFails => Same
  BY DEF StartFails
<1>3. Listen => Same
  BY DEF Listen
<1>4. \A l \in Listener : ReadFails(l) => Same
  BY DEF ReadFails, TypeOK
<1>5. \A l \in Listener : CloseNilDead(l) => Same
  BY DEF CloseNilDead
<1>6. \A l \in Listener : ForwardPanic(l) => Same
  BY DEF ForwardPanic
<1>7. \A c \in Caller : AcceptCall(c) => Same
  BY DEF AcceptCall
<1>8. \A c \in Caller : AcceptCheck(c) => Same
  BY DEF AcceptCheck
<1>9. \A c \in Caller : AcceptError(c) => Same
  BY DEF AcceptError
<1>10. CloseCall => Same
  BY DEF CloseCall
<1>11. CloseDead => Same
  BY DEF CloseDead
<1>12. CloseAccept => Same
  BY DEF CloseAccept
<1>13. \A l \in Listener : CloseListener(l) => Same
  BY DEF CloseListener
<1>14. UNCHANGED vars => Same
  BY DEF vars
<1> HIDE DEF Same
<1> QED
  BY <1>0, <1>1, <1>2, <1>3, <1>4, <1>5, <1>6, <1>7, <1>8, <1>9, <1>10, <1>11,
     <1>12, <1>13, <1>14, OrderMake, OrderOffer, OrderTake, OrderPut,
     OrderReceive, NextCases

(* Every UDPConn a Listener made is in one place on its way to the         *)
(* application, and those of a Listener keep their order: none is lost,    *)
(* doubled or overtaken, for every number of Listeners and every capacity, *)
(* through Close and panics. (UdpListen.Listen, UdpListen.Accept)    *)
THEOREM ConnsReachAcceptInOrder == Spec => []InOrderOnce
BY OrderInit, OrderStep, AcceptPathTyped, PTL DEF Spec

=============================================================================
