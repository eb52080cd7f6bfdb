--------------------------- MODULE HandshakeProofs ---------------------------
(***************************************************************************)
(* Handshake for every set of clients and hosts, every digest, every start *)
(* of the clock and clocks that differ: type correctness, when a token is  *)
(* good, that the two ends of a handshake agree, and what reaches the      *)
(* application while the sockets are handed over.                          *)
(***************************************************************************)
EXTENDS Handshake, TLAPS

-----------------------------------------------------------------------------
(***************************************************************************)
(* The token, for every pair of clocks and every digest. The window lets a *)
(* token of its own second through, and up to ten seconds' worth of tokens *)
(* whose clock is ahead; the distance of one from the past wraps to more   *)
(* than any window. What then decides is the digest of the verifier's      *)
(* second, not of the token's.                                             *)
(***************************************************************************)
LEMMA MaxUint16Value == MaxUint16 = 65535 /\ MaxUint16 \in Int
BY DEF MaxUint16

LEMMA IntervalDef ==
  ASSUME NEW m \in Int
  PROVE  \A n : n \in 0 .. m <=> n \in Int /\ 0 <= n /\ n <= m
OBVIOUS

LEMMA Uint16Def == \A n : n \in Uint16 <=> n \in Int /\ 0 <= n /\ n <= MaxUint16
<1>1. MaxUint16 \in Int
  BY MaxUint16Value
<1> QED BY <1>1, IntervalDef DEF Uint16

LEMMA Uint16Range == \A n \in Int : uint16(n) \in Uint16
<1>1. \A n \in Int : uint16(n) \in Int /\ 0 <= uint16(n) /\ uint16(n) <= MaxUint16
  BY MaxUint16Value DEF uint16
<1> QED BY <1>1, Uint16Def

(* The distance from now to the token's time, in unsigned 16 bits: what is *)
(* past is further than the window, unless by more than 65525 seconds.     *)
LEMMA Distance ==
  ASSUME NEW g \in Int, NEW s \in Int, s - g < 65526, g - s < 65536
  PROVE  uint16(uint16(g) - uint16(s)) <= 10 <=> g - s \in 0 .. 10
<1>1. uint16(uint16(g) - uint16(s)) = (g - s) % 65536
  BY DEF uint16
<1>2. CASE g - s >= 0
  <2>1. (g - s) % 65536 = g - s
    BY <1>2
  <2> QED BY <1>1, <1>2, <2>1
<1>3. CASE g - s < 0
  <2>1. (g - s) % 65536 = g - s + 65536
    BY <1>3
  <2> QED BY <1>1, <1>3, <2>1
<1> QED BY <1>2, <1>3

LEMMA WindowHolds == TokenTimeWindow = 10 /\ uint16(TokenTimeWindow) = 10
BY DEF TokenTimeWindow, uint16

(* A token of second g is accepted in second s exactly when g is s or up   *)
(* to ten seconds after it and the two seconds share their digest, however *)
(* the 16 bits wrap, as long as g is no more than 65525 seconds before s   *)
(* and 65535 after it. (token.go:76, token.go:88)                          *)
THEOREM VerifyExact ==
  ASSUME NEW g \in Int, NEW s \in Int, s - g < 65526, g - s < 65536
  PROVE  verifyToken(generateToken(g), s, TokenTimeWindow)
           <=> /\ g - s \in 0 .. 10
               /\ Hash(uint16(g)) = Hash(uint16(s))
<1>1. verifyToken(generateToken(g), s, TokenTimeWindow)
        <=> /\ uint16(uint16(g) - uint16(s)) <= 10
            /\ Hash(uint16(g)) = Hash(uint16(s))
  BY WindowHolds DEF verifyToken, generateToken
<1> QED BY <1>1, Distance

LEMMA TokenTyped ==
  ASSUME NEW s \in Int
  PROVE  generateToken(s) \in [time : Uint16, digest : Uint16]
BY Uint16Range, HashAssumption DEF generateToken

(* Tokens of different seconds differ, within 16 bits of seconds.          *)
LEMMA TokenDiffers ==
  ASSUME NEW g \in Int, NEW s \in Int, g - s < 65526, s - g < 65526,
         generateToken(g) = generateToken(s)
  PROVE  g = s
<1>1. uint16(g) = uint16(s)
  BY DEF generateToken
<1> QED BY <1>1 DEF uint16

-----------------------------------------------------------------------------
(***************************************************************************)
(* The handshake.                                                          *)
(***************************************************************************)

(* One step of the system is one of these, for some client or packet.      *)
LEMMA NextCases ==
  ASSUME NEW P,
         \A c \in Clients : Dial(c) => P,
         \A c \in Clients, p \in down : Answer(c, p) => P,
         \A c \in Clients : GiveUp(c) => P,
         \A c \in Clients : ClientWrite(c) => P,
         \A p \in up : ArriveOwn(p) => P,
         \A p \in up, c \in Clients : ArriveBound(p, c) => P,
         \A p \in up : ArriveListener(p) => P,
         \A p \in up : ListenerData(p) => P,
         \A p \in up : DropEmpty(p) => P,
         \A p \in up : Refuse(p) => P,
         \A p \in up : AcceptShared(p) => P,
         \A p \in up : Bind(p) => P,
         \A c \in Clients : Connect(c) => P,
         \A c \in Clients : Measure(c) => P,
         \A c \in Clients : OpenConn(c) => P,
         \A c \in Clients : EchoFails(c) => P,
         \A c \in Clients, p \in up : ReadLoop(c, p) => P,
         \A c \in Clients : ServerWrite(c) => P,
         \A c \in Clients : ServerClose(c) => P,
         \A d \in Jumps : Tick(d) => P,
         UNCHANGED vars => P,
         [Next]_vars
  PROVE  P
BY DEF Next, ClientStep, Arrive, ListenerStep, ConnStep

-----------------------------------------------------------------------------
(***************************************************************************)
(* Type correctness.                                                       *)
(***************************************************************************)

LEMMA BodyTyped ==
  ASSUME NEW b \in Body, IsToken(b)
  PROVE  b \in Nat /\ Bytes(b) \in TokenBytes
<1>1. b \in Nat
  BY DEF Body, IsToken
<1> QED BY <1>1, TokenTyped DEF Bytes, TokenBytes

LEMMA SizeTyped == \A b \in Body : Size(b) \in Nat
BY HandshakeAssumption DEF Size, tokenSize, IsToken

LEMMA SecondIsToken == \A n \in Int : IsToken(n)
BY HandshakeAssumption DEF IsToken

(* The clock of a client reads a second that is neither negative nor far   *)
(* from the server's.                                                      *)
LEMMA ClockTyped ==
  ASSUME TypeOK, NEW c \in Clients
  PROVE  /\ start \in Nat /\ now \in Nat /\ start <= now /\ now <= start + MaxTicks
         /\ MaxTicks \in Nat /\ MaxSkew \in Nat /\ MaxSkew + MaxTicks < 65526
         /\ ahead[c] \in Int /\ -MaxSkew <= ahead[c] /\ ahead[c] <= MaxSkew
         /\ start + ahead[c] >= 0
         /\ Clock(c) \in Nat
<1>1. MaxSkew \in Nat /\ MaxTicks \in Nat /\ MaxSkew + MaxTicks < 65526
  BY HandshakeAssumption DEF TokenTimeWindow
<1>2. start \in Nat /\ start >= MaxSkew
  BY HandshakeAssumption DEF TypeOK
<1>3. ahead[c] \in Int /\ -MaxSkew <= ahead[c] /\ ahead[c] <= MaxSkew
  <2>1. ahead[c] \in Skews
    BY DEF TypeOK
  <2> QED BY <2>1, HandshakeAssumption
<1>4. now \in start .. start + MaxTicks
  BY DEF TypeOK
<1> QED BY <1>1, <1>2, <1>3, <1>4 DEF Clock

LEMMA NoConnTyped ==
  NoConn \in [phase : Phase, born : Nat, needCheck : Nat, checkLen : Nat]
BY DEF NoConn, Phase

(* Every variable keeps its type, and a token in flight is 16 bits of time *)
(* and two bytes of digest whatever the second. (generateToken)            *)
THEOREM HandshakeTypeCorrect == Spec => []TypeOK
<1>1. Init => TypeOK
  BY HandshakeAssumption, NoConnTyped DEF Init, TypeOK
<1>2. TypeOK /\ [Next]_vars => TypeOK'
  <2> SUFFICES ASSUME TypeOK, [Next]_vars PROVE TypeOK'
    OBVIOUS
  <2> USE DEF TypeOK, clockVars, serverVars, Quiet
  <2>0. /\ start \in Nat /\ now \in Nat /\ MaxTicks \in Nat
        /\ Jumps \subseteq Nat
    BY HandshakeAssumption
  <2>1. \A c \in Clients, b \in Body :
          Send(c, b) => /\ up' \subseteq Packet
                        /\ \A p \in up' : IsToken(p.body) => Bytes(p.body) \in TokenBytes
    <3> TAKE c \in Clients, b \in Body
    <3> HAVE Send(c, b)
    <3>1. [peer |-> c, body |-> b] \in Packet
      BY DEF Packet
    <3>2. up' = up \cup {[peer |-> c, body |-> b]}
      BY DEF Send
    <3> QED BY <3>1, <3>2, BodyTyped DEF Packet
  <2>a. \A p \in up : p \in Packet /\ p.peer \in Clients /\ p.body \in Body
    BY DEF Packet
  <2>2. ASSUME NEW c \in Clients, Dial(c) PROVE TypeOK'
    <3>1. Clock(c) \in Nat /\ Clock(c) \in Body
      BY ClockTyped DEF Body
    <3> QED BY <2>0, <2>1, <2>2, <3>1 DEF Dial
  <2>3. ASSUME NEW c \in Clients, NEW p \in down, Answer(c, p) PROVE TypeOK'
    <3>1. \E st \in {"idle", "waiting", "ok"} : dial' = [dial EXCEPT ![c].st = st]
      BY <2>3 DEF Answer
    <3>2. dial' \in [Clients -> [st : {"idle", "waiting", "ok"}, born : Nat]]
      <4>1. PICK st \in {"idle", "waiting", "ok"} :
              dial' = [dial EXCEPT ![c] = [dial[c] EXCEPT !.st = st]]
        BY <3>1
      <4>2. dial \in [Clients -> [st : {"idle", "waiting", "ok"}, born : Nat]]
        OBVIOUS
      <4>3. [dial[c] EXCEPT !.st = st] \in [st : {"idle", "waiting", "ok"}, born : Nat]
        BY <4>1, <4>2
      <4> QED BY <4>1, <4>2, <4>3
    <3> QED BY <2>3, <3>2 DEF Answer
  <2>4. ASSUME NEW c \in Clients, GiveUp(c) PROVE TypeOK'
    BY <2>4 DEF GiveUp
  <2>5. ASSUME NEW c \in Clients, ClientWrite(c) PROVE TypeOK'
    <3>1. Payload \subseteq Body
      BY DEF Body
    <3> QED BY <2>1, <2>5, <3>1 DEF ClientWrite
  <2>6. ASSUME NEW p \in up, ArriveOwn(p) PROVE TypeOK'
    BY <2>6, <2>a DEF ArriveOwn
  <2>7. ASSUME NEW p \in up, NEW c \in Clients, ArriveBound(p, c) PROVE TypeOK'
    <3>1. sock' \in [Clients -> Seq(Packet)]
      BY <2>7, <2>a DEF ArriveBound
    <3> QED BY <2>7, <3>1 DEF ArriveBound
  <2>8. ASSUME NEW p \in up, ArriveListener(p) PROVE TypeOK'
    BY <2>8, <2>a DEF ArriveListener
  <2>9. ASSUME NEW p \in up, ListenerData(p) PROVE TypeOK'
    <3>1. [to |-> p.peer, packet |-> p] \in Outcome
      BY <2>a DEF Outcome
    <3>2. out' \in Outcome \cup {Nothing}
      BY <2>9, <3>1 DEF ListenerData
    <3>3. lq' \in Seq(Packet)
      BY <2>9 DEF ListenerData, ReadPacket
    <3> QED BY <2>9, <3>2, <3>3 DEF ListenerData
  <2>10. ASSUME NEW p \in up, Refuse(p) \/ DropEmpty(p) PROVE TypeOK'
    <3>1. ReadPacket(p) /\ UNCHANGED <<clockVars, dial, up, down, conn, sock>>
      BY <2>10 DEF Refuse, DropEmpty
    <3>2. out' = Nothing
      BY <2>10 DEF Refuse, DropEmpty
    <3>3. lq' \in Seq(Packet)
      BY <3>1 DEF ReadPacket
    <3> QED BY <3>1, <3>2, <3>3
  <2>11. ASSUME NEW p \in up, AcceptShared(p) PROVE TypeOK'
    <3>1. p.peer \in Clients /\ p.body \in Nat /\ [peer |-> p.peer, body |-> p.body] \in Packet
      BY <2>11, BodyTyped DEF AcceptShared, Valid, ValidAt, Packet
    <3>2. [NoConn EXCEPT !.phase = "open", !.born = p.body]
            \in [phase : Phase, born : Nat, needCheck : Nat, checkLen : Nat]
      BY <3>1, NoConnTyped DEF Phase
    <3>3. conn' \in [Clients -> [phase : Phase, born : Nat, needCheck : Nat, checkLen : Nat]]
      BY <2>11, <3>1, <3>2 DEF AcceptShared
    <3>4. lq' \in Seq(Packet) /\ down' \subseteq Packet
      BY <2>11, <3>1 DEF AcceptShared, ReadPacket, Echo
    <3> QED BY <2>11, <3>3, <3>4 DEF AcceptShared
  <2>12. ASSUME NEW p \in up, Bind(p) PROVE TypeOK'
    <3>1. p.peer \in Clients /\ p.body \in Nat
      BY <2>12, BodyTyped DEF Bind, Valid, ValidAt, Packet
    <3>2. [NoConn EXCEPT !.phase = "bound", !.born = p.body]
            \in [phase : Phase, born : Nat, needCheck : Nat, checkLen : Nat]
      BY <3>1, NoConnTyped DEF Phase
    <3>3. conn' \in [Clients -> [phase : Phase, born : Nat, needCheck : Nat, checkLen : Nat]]
      BY <2>12, <3>1, <3>2 DEF Bind
    <3>4. lq' \in Seq(Packet)
      BY <2>12 DEF Bind, ReadPacket
    <3> QED BY <2>12, <3>3, <3>4 DEF Bind
  <2>13. ASSUME NEW c \in Clients, Connect(c) PROVE TypeOK'
    BY <2>13 DEF Connect, Phase
  <2>14. ASSUME NEW c \in Clients, Measure(c) PROVE TypeOK'
    <3>1. sock[c] # <<>> => Head(sock[c]) \in Packet
      OBVIOUS
    <3>2. sock[c] # <<>> => Size(Head(sock[c]).body) \in Nat
      BY <3>1, SizeTyped DEF Packet
    <3>3. \E n \in Nat : conn' = [conn EXCEPT ![c] =
            [conn[c] EXCEPT !.phase = "measured", !.needCheck = n]]
      BY <2>14, <3>2 DEF Measure
    <3>4. conn' \in [Clients -> [phase : Phase, born : Nat, needCheck : Nat, checkLen : Nat]]
      <4>1. PICK n \in Nat : conn' = [conn EXCEPT ![c] =
              [conn[c] EXCEPT !.phase = "measured", !.needCheck = n]]
        BY <3>3
      <4>2. [conn[c] EXCEPT !.phase = "measured", !.needCheck = n]
              \in [phase : Phase, born : Nat, needCheck : Nat, checkLen : Nat]
        BY DEF Phase
      <4> QED BY <4>1, <4>2
    <3> QED BY <2>14, <3>4 DEF Measure
  <2>15. ASSUME NEW c \in Clients, OpenConn(c) PROVE TypeOK'
    <3>1. [peer |-> c, body |-> conn[c].born] \in Packet
      BY DEF Packet, Body
    <3>2. conn' \in [Clients -> [phase : Phase, born : Nat, needCheck : Nat, checkLen : Nat]]
      BY <2>15 DEF OpenConn, Phase
    <3> QED BY <2>15, <3>1, <3>2 DEF OpenConn, Echo
  <2>16. ASSUME NEW c \in Clients, EchoFails(c) PROVE TypeOK'
    <3>1. sock' \in [Clients -> Seq(Packet)]
      BY <2>16 DEF EchoFails
    <3> QED BY <2>16, <3>1, NoConnTyped DEF EchoFails
  <2>17. ASSUME NEW c \in Clients, NEW p \in up, ReadLoop(c, p) PROVE TypeOK'
    <3>1. Size(p.body) \in Nat
      BY SizeTyped DEF Packet
    <3>2. sock' \in [Clients -> Seq(Packet)]
      BY <2>17 DEF ReadLoop
    <3>3. conn' \in [Clients -> [phase : Phase, born : Nat, needCheck : Nat, checkLen : Nat]]
      <4>1. conn' = conn \/ conn' = [conn EXCEPT ![c].checkLen = @ + Size(p.body)]
        BY <2>17 DEF ReadLoop
      <4>2. conn[c].checkLen + Size(p.body) \in Nat
        BY <3>1
      <4>3. CASE conn' = [conn EXCEPT ![c].checkLen = @ + Size(p.body)]
        BY <4>2, <4>3
      <4> QED BY <4>1, <4>3
    <3>4. out' \in Outcome \cup {Nothing}
      <4>1. [to |-> c, packet |-> p] \in Outcome
        BY <2>a DEF Outcome
      <4>2. out' = Nothing \/ out' = [to |-> c, packet |-> p]
        BY <2>17 DEF ReadLoop
      <4> QED BY <4>1, <4>2
    <3> QED BY <2>17, <3>2, <3>3, <3>4 DEF ReadLoop
  <2>18. ASSUME NEW c \in Clients, ServerWrite(c) PROVE TypeOK'
    <3>1. \A b \in Payload : [peer |-> c, body |-> b] \in Packet
      BY DEF Packet, Body
    <3> QED BY <2>18, <3>1 DEF ServerWrite
  <2>19. ASSUME NEW c \in Clients, ServerClose(c) PROVE TypeOK'
    <3>1. sock' \in [Clients -> Seq(Packet)]
      BY <2>19 DEF ServerClose
    <3> QED BY <2>19, <3>1, NoConnTyped DEF ServerClose
  <2>20. ASSUME NEW d \in Jumps, Tick(d) PROVE TypeOK'
    BY <2>0, <2>20 DEF Tick
  <2>21. ASSUME UNCHANGED vars PROVE TypeOK'
    BY <2>21 DEF vars
  <2> QED
    BY <2>2, <2>3, <2>4, <2>5, <2>6, <2>7, <2>8, <2>9, <2>10, <2>11, <2>12,
       <2>13, <2>14, <2>15, <2>16, <2>17, <2>18, <2>19, <2>20, <2>21, NextCases
<1> QED BY <1>1, <1>2, PTL DEF Spec

-----------------------------------------------------------------------------
(***************************************************************************)
(* Agreement. The seconds of the tokens of a client are ordered, by its    *)
(* own clock: a token is no younger than its last Dial. Unless one was good*)
(* early, a UDPConn is made in the second of its token by the server's     *)
(* clock, after all that were made before, so that no echo under way is of *)
(* a later second than the UDPConn the server has.                         *)
(***************************************************************************)
Past(c, s) == start + ahead[c] <= s /\ s <= Clock(c)

Early(c) == \E p \in up : p.peer = c /\ GoodEarly(c, p.body)

TokensPast ==
  \A p \in up : IsToken(p.body) =>
    Past(p.peer, p.body) /\ p.body <= dial[p.peer].born

DialsPast ==
  \A c \in Clients : /\ dial[c].born <= Clock(c)
                     /\ dial[c].st # "idle" => Past(c, dial[c].born)

EchoesPast ==
  \A p \in down : IsToken(p.body) =>
    Past(p.peer, p.body) /\ (Early(p.peer) \/ p.body <= now)

ConnsPast ==
  \A c \in Clients : conn[c].phase # "none" =>
    /\ Past(c, conn[c].born) /\ conn[c].born <= dial[c].born
    /\ Early(c) \/ conn[c].born <= now

EchoesBefore ==
  \A p \in down : IsToken(p.body) /\ conn[p.peer].phase # "none" =>
    Early(p.peer) \/ p.body <= conn[p.peer].born

OkEchoed ==
  \A c \in Clients : dial[c].st = "ok" => [peer |-> c, body |-> dial[c].born] \in down

AgreeInv ==
  /\ TokensPast /\ DialsPast /\ EchoesPast
  /\ ConnsPast /\ EchoesBefore /\ OkEchoed

(* What VerifyExact says of a token under way.                             *)
LEMMA ValidWhen ==
  ASSUME TypeOK, NEW c \in Clients, NEW b \in Body, IsToken(b), Past(c, b)
  PROVE  Valid(b) <=> b - now \in 0 .. 10 /\ Hash(uint16(b)) = Hash(uint16(now))
<1>1. b \in Nat
  BY BodyTyped
<1>2. now - b < 65526 /\ b - now < 65536
  BY <1>1, ClockTyped DEF Past, Clock
<1>3. verifyToken(generateToken(b), now, TokenTimeWindow)
        <=> b - now \in 0 .. 10 /\ Hash(uint16(b)) = Hash(uint16(now))
  BY <1>1, <1>2, ClockTyped, VerifyExact
<1> QED BY <1>3 DEF Valid, ValidAt

(* A token that is good in another second than its own is good early.      *)
LEMMA ValidExact ==
  ASSUME TypeOK, NEW p \in up, Past(p.peer, p.body), Valid(p.body), ~ Early(p.peer)
  PROVE  p.body = now
<1>1. p.peer \in Clients /\ p.body \in Body /\ IsToken(p.body)
  BY DEF TypeOK, Packet, Valid, ValidAt
<1>2. p.body \in Nat /\ p.body - now \in 0 .. 10
  BY <1>1, ValidWhen, BodyTyped
<1>3. now \in p.body - ahead[p.peer] .. now
  BY <1>1, <1>2, ClockTyped DEF Past, Clock
<1>4. ~ (now < p.body)
  BY <1>1, <1>3 DEF Early, GoodEarly, Valid
<1> QED BY <1>1, <1>2, <1>4, ClockTyped

(* Two packets with the same bytes, both of tokens of one client's past.   *)
LEMMA SameToken ==
  ASSUME TypeOK, NEW c \in Clients, NEW b \in Body, IsToken(b), Past(c, b),
         NEW d \in Nat, Past(c, d), Bytes(b) = generateToken(d)
  PROVE  b = d
<1>1. b \in Nat
  BY BodyTyped
<1>2. b - d < 65526 /\ d - b < 65526
  BY <1>1, ClockTyped DEF Past, Clock
<1>3. generateToken(b) = generateToken(d)
  BY DEF Bytes
<1> QED BY <1>1, <1>2, <1>3, TokenDiffers

(* The network keeps what it was given and clocks do not go back.          *)
LEMMA NextGrows ==
  ASSUME TypeOK, [Next]_vars
  PROVE  up \subseteq up' /\ now' \in Nat /\ now <= now' /\ start' = start /\ ahead' = ahead
<1> DEFINE grows == up \subseteq up' /\ now' \in Nat /\ now <= now' /\ start' = start /\ ahead' = ahead
<1>0. now \in Nat /\ \A d \in Jumps : d \in Nat
  BY HandshakeAssumption DEF TypeOK
<1>1. ASSUME NEW c \in Clients, ClientStep(c) PROVE grows
  BY <1>0, <1>1
  DEF ClientStep, Dial, Send, Answer, GiveUp, ClientWrite, clockVars, serverVars
<1>2. ASSUME NEW c \in Clients, ConnStep(c) PROVE grows
  BY <1>0, <1>2
  DEF ConnStep, Connect, Measure, OpenConn, EchoFails, ServerWrite, ServerClose,
      ReadLoop, clockVars, serverVars
<1>3. ASSUME NEW p \in up, Arrive(p) \/ ListenerStep(p) PROVE grows
  BY <1>0, <1>3
  DEF Arrive, ArriveOwn, ArriveListener, ArriveBound, ListenerStep, ListenerData,
      DropEmpty, Refuse, AcceptShared, Bind, clockVars, serverVars
<1>4. ASSUME NEW d \in Jumps, Tick(d) PROVE grows
  BY <1>0, <1>4 DEF Tick
<1>5. CASE UNCHANGED vars
  BY <1>0, <1>5 DEF vars, clockVars
<1> QED BY <1>1, <1>2, <1>3, <1>4, <1>5 DEF Next

LEMMA EarlyStays ==
  ASSUME TypeOK, [Next]_vars
  PROVE  \A c \in Clients : Early(c) => Early(c)'
<1> SUFFICES ASSUME NEW c \in Clients, NEW p \in up, p.peer = c, GoodEarly(c, p.body)
             PROVE  p \in up' /\ GoodEarly(c, p.body)'
  BY DEF Early
<1>1. p \in up' /\ now <= now' /\ ahead' = ahead
  BY NextGrows
<1>2. IsToken(p.body) /\ p.body \in Nat /\ ahead[c] \in Int /\ now \in Nat
  <2>1. p.body \in Body
    BY DEF TypeOK, Packet
  <2>2. IsToken(p.body)
    BY DEF GoodEarly
  <2> QED BY <2>1, <2>2, BodyTyped, ClockTyped
<1>3. now' \in Int
  BY <1>2, NextGrows
<1>4. PICK s \in p.body - ahead[c] .. now : s < p.body /\ ValidAt(p.body, s)
  BY DEF GoodEarly
<1>5. s \in p.body - ahead'[c] .. now'
  BY <1>1, <1>2, <1>3, <1>4
<1> QED BY <1>1, <1>2, <1>4, <1>5 DEF GoodEarly, ValidAt

LEMMA DataIsNoToken ==
  \A b \in Payload, n \in Int : n # b /\ b # generateToken(n)
BY HandshakeAssumption, TokenTyped DEF TokenBytes

LEMMA LaterStill ==
  ASSUME NEW s \in Nat, NEW t \in Nat, s <= t
  PROVE  \A n \in Nat, a \in Int : /\ n <= s => n <= t
                                   /\ n <= s + a => n <= t + a
OBVIOUS

LEMMA AgreeInit == Init => AgreeInv
<1> SUFFICES ASSUME Init PROVE AgreeInv
  OBVIOUS
<1>1. \A c \in Clients : Clock(c) >= 0
  <2> SUFFICES ASSUME NEW c \in Clients PROVE now + ahead[c] >= 0
    BY DEF Clock
  <2>1. ahead[c] \in Skews /\ now \in Starts
    BY DEF Init
  <2>2. MaxSkew \in Nat /\ ahead[c] \in Int /\ -MaxSkew <= ahead[c]
    BY <2>1, HandshakeAssumption
  <2>3. now \in Nat /\ now >= MaxSkew
    BY <2>1, HandshakeAssumption
  <2> QED BY <2>2, <2>3
<1> QED
  BY <1>1
  DEF Init, AgreeInv, TokensPast, DialsPast, EchoesPast, ConnsPast, EchoesBefore,
      OkEchoed, NoConn

LEMMA AgreeStep ==
  ASSUME TypeOK, AgreeInv, [Next]_vars
  PROVE  AgreeInv'
<1> USE DEF clockVars, serverVars, Quiet
<1> DEFINE unmoved == UNCHANGED <<start, now, ahead, dial, up, down>>
<1>0. /\ start \in Nat /\ now \in Nat /\ start <= now
      /\ dial \in [Clients -> [st : {"idle", "waiting", "ok"}, born : Nat]]
      /\ conn \in [Clients -> [phase : Phase, born : Nat, needCheck : Nat, checkLen : Nat]]
      /\ \A p \in up : p.peer \in Clients /\ p.body \in Body
      /\ \A p \in down : p.peer \in Clients /\ p.body \in Body
  BY HandshakeAssumption DEF TypeOK, Packet
<1>e. \A c \in Clients : Early(c) => Early(c)'
  BY EarlyStays
<1>k. \A c \in Clients : Clock(c) \in Nat /\ ahead[c] \in Int
  BY ClockTyped
<1> USE DEF AgreeInv, TokensPast, DialsPast, EchoesPast, ConnsPast, EchoesBefore,
            OkEchoed, Past, Clock
(* The steps that leave the clock, the clients, the network and the        *)
(* UDPConns' tokens alone.                                                 *)
<1>a. ASSUME unmoved,
             \A c \in Clients : conn'[c].phase # "none" =>
               conn[c].phase # "none" /\ conn'[c].born = conn[c].born
      PROVE  AgreeInv'
  BY <1>0, <1>e, <1>a
(* The steps of a client that sends nothing.                               *)
<1>b. ASSUME UNCHANGED <<start, now, ahead, up, down, conn>>,
             NEW c \in Clients, NEW st \in {"idle", "ok"},
             dial' = [dial EXCEPT ![c].st = st], dial[c].st # "idle",
             st = "ok" => [peer |-> c, body |-> dial[c].born] \in down
      PROVE  AgreeInv'
  BY <1>0, <1>e, <1>b
(* A token that was verified becomes the token of a UDPConn.               *)
<1>c. ASSUME NEW p \in up, Valid(p.body), NEW ph \in Phase, ph # "none",
             UNCHANGED <<start, now, ahead, dial, up>>,
             conn' = [conn EXCEPT ![p.peer] = [NoConn EXCEPT !.phase = ph, !.born = p.body]],
             \/ down' = down
             \/ down' = down \cup {[peer |-> p.peer, body |-> p.body]}
      PROVE  AgreeInv'
  <2>1. IsToken(p.body) /\ p.body \in Nat /\ p.peer \in Clients
    BY <1>0, <1>c, BodyTyped DEF Valid, ValidAt
  <2>2. Early(p.peer)' \/ p.body = now
    BY <1>c, <1>e, <2>1, ValidExact
  <2>3. conn'[p.peer].phase = ph /\ conn'[p.peer].born = p.body
    BY <1>0, <1>c, <2>1 DEF NoConn
  <2>4. \A c \in Clients : c # p.peer => conn'[c] = conn[c]
    BY <1>0, <1>c
  <2>5. TokensPast' /\ DialsPast'
    BY <1>c
  <2>6. EchoesPast' /\ OkEchoed'
    BY <1>0, <1>c, <1>e, <2>1, <2>2
  <2>7. ConnsPast'
    BY <1>0, <1>c, <1>e, <2>1, <2>2, <2>3, <2>4
  <2>8. EchoesBefore'
    <3> SUFFICES ASSUME NEW q \in down', IsToken(q.body), conn'[q.peer].phase # "none"
                 PROVE  Early(q.peer)' \/ q.body <= conn'[q.peer].born
      OBVIOUS
    <3>1. CASE q \in down /\ q.peer # p.peer
      BY <1>0, <1>e, <2>4, <3>1
    <3>2. CASE q \in down /\ q.peer = p.peer
      <4>1. Early(p.peer)' \/ q.body <= now
        BY <1>0, <1>e, <3>2
      <4> QED BY <2>2, <2>3, <3>2, <4>1
    <3>3. CASE q = [peer |-> p.peer, body |-> p.body]
      BY <2>1, <2>3, <3>3
    <3> QED BY <1>c, <3>1, <3>2, <3>3
  <2> QED BY <2>5, <2>6, <2>7, <2>8
<1>1. ASSUME NEW c \in Clients, Dial(c) PROVE AgreeInv'
  <2>1. /\ up' = up \cup {[peer |-> c, body |-> Clock(c)]}
        /\ dial' = [dial EXCEPT ![c] = [st |-> "waiting", born |-> Clock(c)]]
        /\ UNCHANGED <<start, now, ahead, down, conn>>
    BY <1>1 DEF Dial, Send
  <2>2. dial'[c].born = Clock(c) /\ dial'[c].st = "waiting"
    BY <1>0, <1>k, <2>1
  <2>3. \A d \in Clients : d # c => dial'[d] = dial[d]
    BY <1>0, <2>1
  <2>4. \A d \in Clients : dial[d].born <= dial'[d].born
    BY <1>0, <1>k, <2>2, <2>3
  <2>5. TokensPast'
    <3> SUFFICES ASSUME NEW p \in up', IsToken(p.body)
                 PROVE  Past(p.peer, p.body)' /\ p.body <= dial'[p.peer].born
      OBVIOUS
    <3>1. CASE p \in up
      <4>1. p.body \in Nat
        BY <1>0, <3>1, BodyTyped
      <4>2. dial[p.peer].born \in Nat /\ dial'[p.peer].born \in Nat
        BY <1>0, <1>k, <2>1, <3>1
      <4> QED BY <1>0, <2>1, <2>4, <3>1, <4>1, <4>2
    <3>2. CASE p = [peer |-> c, body |-> Clock(c)]
      BY <1>0, <1>k, <2>1, <2>2, <3>2
    <3> QED BY <2>1, <3>1, <3>2
  <2>6. DialsPast' /\ OkEchoed'
    BY <1>0, <1>k, <2>1, <2>2, <2>3
  <2>7. EchoesPast' /\ EchoesBefore'
    BY <1>0, <1>e, <2>1
  <2>8. ConnsPast'
    <3> SUFFICES ASSUME NEW d \in Clients, conn'[d].phase # "none"
                 PROVE  /\ Past(d, conn[d].born)' /\ conn'[d].born <= dial'[d].born
                        /\ Early(d)' \/ conn'[d].born <= now'
      OBVIOUS
    <3>1. conn[d].born \in Nat /\ dial[d].born \in Nat /\ dial'[d].born \in Nat
      BY <1>0, <1>k, <2>1
    <3> QED BY <1>e, <2>1, <2>4, <3>1
  <2> QED BY <2>5, <2>6, <2>7, <2>8
<1>2. ASSUME NEW c \in Clients, NEW p \in down, Answer(c, p) PROVE AgreeInv'
  <2>1. CASE Bytes(p.body) = generateToken(dial[c].born)
    <3>1. dial[c].born \in Nat /\ Past(c, dial[c].born)
      BY <1>0, <1>2 DEF Answer
    <3>2. IsToken(p.body)
      BY <2>1, <3>1, DataIsNoToken DEF Bytes, IsToken
    <3>3. p.body = dial[c].born
      <4>1. p.body \in Body /\ Past(c, p.body)
        BY <1>0, <1>2, <3>2 DEF Answer
      <4> HIDE DEF Past
      <4> QED BY <2>1, <3>1, <3>2, <4>1, SameToken
    <3>4. p = [peer |-> c, body |-> dial[c].born]
      BY <1>2, <3>3 DEF Answer, TypeOK, Packet
    <3> QED BY <1>2, <2>1, <3>4, <1>b DEF Answer
  <2>2. CASE Bytes(p.body) # generateToken(dial[c].born)
    BY <1>2, <2>2, <1>b DEF Answer
  <2> QED BY <2>1, <2>2
<1>3. ASSUME NEW c \in Clients, GiveUp(c) PROVE AgreeInv'
  BY <1>3, <1>b DEF GiveUp
<1>4. ASSUME NEW c \in Clients, ClientWrite(c) PROVE AgreeInv'
  <2>1. \A p \in up' : IsToken(p.body) => p \in up
    BY <1>4 DEF ClientWrite, Send, IsToken
  <2>2. UNCHANGED <<start, now, ahead, dial, down, conn>>
    BY <1>4 DEF ClientWrite
  <2> QED BY <1>0, <1>e, <2>1, <2>2
<1>5. ASSUME NEW p \in up, ArriveOwn(p) PROVE AgreeInv'
  BY <1>5, <1>a DEF ArriveOwn
<1>6. ASSUME NEW p \in up, NEW c \in Clients, ArriveBound(p, c) PROVE AgreeInv'
  BY <1>6, <1>a DEF ArriveBound
<1>7. ASSUME NEW p \in up, ArriveListener(p) PROVE AgreeInv'
  BY <1>7, <1>a DEF ArriveListener
<1>8. ASSUME NEW p \in up, ListenerData(p) PROVE AgreeInv'
  BY <1>8, <1>a DEF ListenerData
<1>9. ASSUME NEW p \in up, Refuse(p) \/ DropEmpty(p) PROVE AgreeInv'
  BY <1>9, <1>a DEF Refuse, DropEmpty
<1>10. ASSUME NEW p \in up, AcceptShared(p) PROVE AgreeInv'
  BY <1>10, <1>c DEF AcceptShared, Echo, Phase
<1>11. ASSUME NEW p \in up, Bind(p) PROVE AgreeInv'
  BY <1>11, <1>c DEF Bind, Phase
<1>12. ASSUME NEW c \in Clients, Connect(c) PROVE AgreeInv'
  BY <1>0, <1>12, <1>a DEF Connect
<1>13. ASSUME NEW c \in Clients, Measure(c) PROVE AgreeInv'
  BY <1>0, <1>13, <1>a DEF Measure
<1>14. ASSUME NEW c \in Clients, OpenConn(c) PROVE AgreeInv'
  <2>1. /\ down' = down \cup {[peer |-> c, body |-> conn[c].born]}
        /\ conn[c].phase = "measured"
        /\ conn' = [conn EXCEPT ![c].phase = "open"]
        /\ UNCHANGED <<start, now, ahead, dial, up>>
    BY <1>14 DEF OpenConn, Echo
  <2>2. \A d \in Clients : /\ conn'[d].born = conn[d].born
                           /\ conn'[d].phase # "none" <=> conn[d].phase # "none"
    BY <1>0, <2>1
  <2>3. EchoesPast'
    BY <1>0, <1>e, <2>1
  <2>4. EchoesBefore'
    BY <1>0, <1>e, <2>1, <2>2
  <2>5. TokensPast' /\ DialsPast' /\ ConnsPast' /\ OkEchoed'
    BY <1>0, <1>e, <2>1, <2>2
  <2> QED BY <2>3, <2>4, <2>5
<1>15. ASSUME NEW c \in Clients, EchoFails(c) PROVE AgreeInv'
  BY <1>0, <1>15, <1>a DEF EchoFails, NoConn
<1>16. ASSUME NEW c \in Clients, NEW p \in up, ReadLoop(c, p) PROVE AgreeInv'
  <2>1. \A d \in Clients : conn'[d].phase = conn[d].phase /\ conn'[d].born = conn[d].born
    BY <1>0, <1>16 DEF ReadLoop
  <2> QED BY <1>16, <2>1, <1>a DEF ReadLoop
<1>17. ASSUME NEW c \in Clients, ServerWrite(c) PROVE AgreeInv'
  <2>1. /\ \A p \in down' : IsToken(p.body) => p \in down
        /\ down \subseteq down'
    BY <1>17 DEF ServerWrite, IsToken
  <2>2. UNCHANGED <<start, now, ahead, dial, up, conn>>
    BY <1>17 DEF ServerWrite
  <2> QED BY <1>0, <1>e, <2>1, <2>2
<1>18. ASSUME NEW c \in Clients, ServerClose(c) PROVE AgreeInv'
  BY <1>0, <1>18, <1>a DEF ServerClose, NoConn
<1>19. ASSUME NEW d \in Jumps, Tick(d) PROVE AgreeInv'
  <2>1. now' \in Nat /\ now <= now'
    BY <1>0, <1>19, HandshakeAssumption DEF Tick
  <2>2. UNCHANGED <<start, ahead, dial, up, down, conn>>
    BY <1>19 DEF Tick
  <2>3. \A n \in Nat, a \in Int : /\ n <= now => n <= now'
                                  /\ n <= now + a => n <= now' + a
    BY <1>0, <2>1, LaterStill
  <2>4. /\ \A p \in up \cup down : IsToken(p.body) => p.body \in Nat
        /\ \A c \in Clients : dial[c].born \in Nat /\ conn[c].born \in Nat
    BY <1>0, BodyTyped
  <2>5. \A c \in Clients, n \in Nat : Past(c, n) => Past(c, n)'
    BY <1>k, <2>2, <2>3
  <2>6. TokensPast' /\ DialsPast' /\ OkEchoed'
    BY <1>0, <1>k, <2>2, <2>3, <2>4, <2>5
  <2>7. EchoesPast' /\ ConnsPast' /\ EchoesBefore'
    BY <1>0, <1>e, <2>2, <2>3, <2>4, <2>5
  <2> QED BY <2>6, <2>7
<1>20. ASSUME UNCHANGED vars PROVE AgreeInv'
  BY <1>20, <1>a DEF vars
<1> QED
  BY <1>1, <1>2, <1>3, <1>4, <1>5, <1>6, <1>7, <1>8, <1>9, <1>10, <1>11, <1>12,
     <1>13, <1>14, <1>15, <1>16, <1>17, <1>18, <1>19, <1>20, NextCases

LEMMA AgreeHolds == Spec => []AgreeInv
BY AgreeInit, AgreeStep, HandshakeTypeCorrect, PTL DEF Spec

(* The Listener accepts no token more than TokenTimeWindow away from its   *)
(* second, for every digest and every start of the clock. (verifyToken)    *)
THEOREM TokenWithinWindow == Spec => []ValidIsNear
<1>1. TypeOK /\ AgreeInv => ValidIsNear
  <2> SUFFICES ASSUME TypeOK, AgreeInv, NEW p \in up, Valid(p.body)
               PROVE  Near(p.body, now)
    BY DEF ValidIsNear
  <2>1. p.peer \in Clients /\ p.body \in Body /\ IsToken(p.body) /\ p.body \in Nat
    BY BodyTyped DEF TypeOK, Packet, Valid, ValidAt
  <2>2. p.body - now \in 0 .. 10
    BY <2>1, ValidWhen DEF AgreeInv, TokensPast
  <2> QED BY <2>1, <2>2, ClockTyped DEF Near, TokenTimeWindow
<1> QED BY <1>1, AgreeHolds, HandshakeTypeCorrect, PTL

(* When Dial succeeded, the UDPConn the server has for the client holds the*)
(* token of that Dial, unless a token of the client was good early.        *)
(* (handshake, getUDPConn, CreateUDPConnByDstAddr)                         *)
THEOREM BothEndsAgree == Spec => []AgreedToken
<1>1. TypeOK /\ AgreeInv => AgreedToken
  <2> SUFFICES ASSUME TypeOK, AgreeInv, NEW c \in Clients,
                      dial[c].st = "ok", conn[c].phase = "open", ~ Early(c)
               PROVE  conn[c].born = dial[c].born
    BY DEF AgreedToken, Early
  <2>1. conn[c].born \in Nat /\ dial[c].born \in Nat
    BY DEF TypeOK
  <2>2. conn[c].born <= dial[c].born
    BY DEF AgreeInv, ConnsPast
  <2>3. IsToken(dial[c].born)
    BY <2>1, SecondIsToken
  <2>4. dial[c].born <= conn[c].born
    BY <2>3 DEF AgreeInv, OkEchoed, EchoesBefore
  <2> QED BY <2>1, <2>2, <2>4
<1> QED BY <1>1, AgreeHolds, HandshakeTypeCorrect, PTL

-----------------------------------------------------------------------------
(***************************************************************************)
(* What reaches the application.                                           *)
(***************************************************************************)

(* Only two steps give a packet to an application.                         *)
LEMMA OnlyTwoGive ==
  ASSUME [Next]_vars, out' # Nothing, ~ UNCHANGED vars
  PROVE  \/ \E p \in up : ListenerData(p)
         \/ \E c \in Clients, p \in up : ReadLoop(c, p)
BY DEF Next, ClientStep, Arrive, ListenerStep, ConnStep, Quiet, Dial, Answer,
       GiveUp, ClientWrite, ArriveOwn, ArriveBound, ArriveListener, DropEmpty, Refuse,
       AcceptShared, Bind, Connect, Measure, OpenConn, EchoFails, ServerWrite,
       ServerClose, Tick

(***************************************************************************)
(* As long as nobody sends an empty packet, a socket that was found empty  *)
(* when it was measured holds packets of its peer only; a UDPConn that does*)
(* not exist has no packets.                                               *)
(***************************************************************************)
OwnPackets(c) == \A i \in 1 .. Len(sock[c]) : sock[c][i] \in {p \in Packet : p.peer = c}

SentPackets(c) == \A i \in 1 .. Len(sock[c]) : sock[c][i] \in up

NoneEmpty == \A p \in up : Size(p.body) > 0

MeasuredOwn(c) ==
  /\ conn[c].phase = "none" => sock[c] = <<>>
  /\ NoneEmpty /\ conn[c].phase \in {"measured", "open"} /\ conn[c].needCheck = 0
       => OwnPackets(c)

MeasuredInv == \A c \in Clients : SentPackets(c) /\ MeasuredOwn(c)

LEMMA AllAppend ==
  ASSUME NEW s \in Seq(Packet), NEW p \in Packet, NEW S,
         \A i \in 1 .. Len(s) : s[i] \in S, p \in S
  PROVE  \A i \in 1 .. Len(Append(s, p)) : Append(s, p)[i] \in S
OBVIOUS

LEMMA AllTail ==
  ASSUME NEW s \in Seq(Packet), s # <<>>, NEW S, \A i \in 1 .. Len(s) : s[i] \in S
  PROVE  \A i \in 1 .. Len(Tail(s)) : Tail(s)[i] \in S
OBVIOUS

LEMMA MeasuredInit == Init => MeasuredInv
BY DEF Init, MeasuredInv, MeasuredOwn, SentPackets, NoConn

LEMMA MeasuredStep ==
  ASSUME TypeOK, MeasuredInv, [Next]_vars
  PROVE  MeasuredInv'
<1> USE DEF clockVars, serverVars
<1>0. /\ conn \in [Clients -> [phase : Phase, born : Nat, needCheck : Nat, checkLen : Nat]]
      /\ sock \in [Clients -> Seq(Packet)]
      /\ \A p \in up : p \in Packet /\ p.peer \in Clients /\ p.body \in Body
      /\ \A c \in Clients : SentPackets(c) /\ MeasuredOwn(c)
  BY DEF TypeOK, Packet, MeasuredInv
<1>u. up \subseteq up' /\ (NoneEmpty' => NoneEmpty)
  BY NextGrows DEF NoneEmpty
(* A UDPConn that keeps its socket, its phase and its length.              *)
<1>s. ASSUME NEW c \in Clients, sock'[c] = sock[c], conn'[c].phase = conn[c].phase,
             conn'[c].needCheck = conn[c].needCheck
      PROVE  SentPackets(c)' /\ MeasuredOwn(c)'
  BY <1>0, <1>s, <1>u DEF SentPackets, MeasuredOwn, OwnPackets
<1>a. ASSUME UNCHANGED <<conn, sock>> PROVE MeasuredInv'
  BY <1>a, <1>s DEF MeasuredInv
(* One UDPConn changes, its socket is empty afterwards or as it was.       *)
<1>b. ASSUME NEW c \in Clients, NEW r, conn' = [conn EXCEPT ![c] = r],
             \/ sock' = [sock EXCEPT ![c] = <<>>]
             \/ sock' = sock /\ conn[c].phase = "none"
             \/ sock' = sock /\ r.phase \notin {"none", "measured", "open"}
             \/ /\ sock' = sock /\ r.phase = "open" /\ conn[c].phase = "measured"
                /\ r.needCheck = conn[c].needCheck
      PROVE  MeasuredInv'
  <2>1. conn'[c] = r /\ \A d \in Clients : d # c => conn'[d] = conn[d] /\ sock'[d] = sock[d]
    BY <1>0, <1>b
  <2>2. SentPackets(c)' /\ MeasuredOwn(c)'
    <3>1. CASE sock'[c] = <<>>
      BY <3>1 DEF OwnPackets, SentPackets, MeasuredOwn
    <3>2. CASE sock' = sock /\ r.phase = "open" /\ conn[c].phase = "measured"
               /\ r.needCheck = conn[c].needCheck
      BY <1>0, <1>u, <2>1, <3>2 DEF OwnPackets, SentPackets, MeasuredOwn
    <3>3. CASE sock' = sock /\ r.phase \notin {"none", "measured", "open"}
      BY <1>0, <1>u, <2>1, <3>3 DEF SentPackets, MeasuredOwn
    <3>4. CASE sock' = sock /\ conn[c].phase = "none"
      <4>1. sock'[c] = <<>>
        BY <1>0, <3>4 DEF MeasuredOwn
      <4> QED BY <3>1, <4>1
    <3> QED BY <1>0, <1>b, <3>1, <3>2, <3>3, <3>4
  <2> QED BY <1>s, <2>1, <2>2 DEF MeasuredInv
(* One socket takes a packet.                                              *)
<1>c. ASSUME NEW c \in Clients, NEW p \in up, conn' = conn,
             sock' = [sock EXCEPT ![c] = Append(@, p)],
             conn[c].phase # "none",
             conn[c].phase \in {"measured", "open"} => p.peer = c
      PROVE  MeasuredInv'
  <2>1. \A d \in Clients : d # c => sock'[d] = sock[d]
    BY <1>0, <1>c
  <2>2. sock'[c] = Append(sock[c], p) /\ p \in Packet /\ p \in up'
    BY <1>0, <1>c, <1>u
  <2>3. SentPackets(c)'
    <3>1. \A i \in 1 .. Len(sock[c]) : sock[c][i] \in up'
      BY <1>0, <1>u DEF SentPackets
    <3> QED BY <1>0, <2>2, <3>1, AllAppend DEF SentPackets
  <2>4. MeasuredOwn(c)'
    <3> SUFFICES ASSUME NoneEmpty', conn[c].phase \in {"measured", "open"},
                        conn[c].needCheck = 0
                 PROVE  OwnPackets(c)'
      BY <1>c DEF MeasuredOwn
    <3>1. OwnPackets(c) /\ p \in {q \in Packet : q.peer = c}
      BY <1>0, <1>c, <1>u, <2>2 DEF MeasuredOwn
    <3> QED BY <1>0, <2>2, <3>1, AllAppend DEF OwnPackets
  <2> QED BY <1>c, <1>s, <2>1, <2>3, <2>4 DEF MeasuredInv
<1>1. ASSUME NEW c \in Clients, Dial(c) PROVE MeasuredInv'
  BY <1>1, <1>a DEF Dial
<1>2. ASSUME NEW c \in Clients, NEW p \in down, Answer(c, p) PROVE MeasuredInv'
  BY <1>2, <1>a DEF Answer
<1>3. ASSUME NEW c \in Clients, GiveUp(c) PROVE MeasuredInv'
  BY <1>3, <1>a DEF GiveUp
<1>4. ASSUME NEW c \in Clients, ClientWrite(c) PROVE MeasuredInv'
  BY <1>4, <1>a DEF ClientWrite
<1>5. ASSUME NEW p \in up, ArriveOwn(p) PROVE MeasuredInv'
  BY <1>0, <1>5, <1>c DEF ArriveOwn, Connected
<1>6. ASSUME NEW p \in up, NEW c \in Clients, ArriveBound(p, c) PROVE MeasuredInv'
  BY <1>0, <1>6, <1>c DEF ArriveBound
<1>7. ASSUME NEW p \in up, ArriveListener(p) PROVE MeasuredInv'
  BY <1>7, <1>a DEF ArriveListener
<1>8. ASSUME NEW p \in up, ListenerData(p) PROVE MeasuredInv'
  BY <1>8, <1>a DEF ListenerData
<1>9. ASSUME NEW p \in up, Refuse(p) \/ DropEmpty(p) PROVE MeasuredInv'
  BY <1>9, <1>a DEF Refuse, DropEmpty
<1>d. ASSUME NEW p \in up, ReadPacket(p), ~ Known(p.peer)
      PROVE  conn[p.peer].phase = "none"
  BY <1>0, <1>d DEF ReadPacket, Reading, Known
<1>10. ASSUME NEW p \in up, AcceptShared(p) PROVE MeasuredInv'
  <2>1. conn[p.peer].phase = "none"
    BY <1>10, <1>d DEF AcceptShared
  <2> QED BY <1>0, <1>10, <1>b, <2>1 DEF AcceptShared
<1>11. ASSUME NEW p \in up, Bind(p) PROVE MeasuredInv'
  <2>1. conn[p.peer].phase = "none"
    BY <1>11, <1>d DEF Bind
  <2> QED BY <1>0, <1>11, <1>b, <2>1 DEF Bind
<1>12. ASSUME NEW c \in Clients, Connect(c) PROVE MeasuredInv'
  <2>1. conn' = [conn EXCEPT ![c] = [conn[c] EXCEPT !.phase = "connected"]]
    BY <1>0, <1>12 DEF Connect
  <2>2. [conn[c] EXCEPT !.phase = "connected"].phase = "connected"
    BY <1>0
  <2> QED BY <1>12, <1>b, <2>1, <2>2 DEF Connect
<1>13. ASSUME NEW c \in Clients, Measure(c) PROVE MeasuredInv'
  <2>1. UNCHANGED sock /\ conn'[c].phase = "measured"
    BY <1>0, <1>13 DEF Measure
  <2>2. NoneEmpty /\ conn'[c].needCheck = 0 => sock[c] = <<>>
    <3>1. sock[c] # <<>> => Head(sock[c]) \in up /\ Head(sock[c]) \in Packet
      BY <1>0 DEF SentPackets
    <3>2. NoneEmpty /\ sock[c] # <<>> => Size(Head(sock[c]).body) # 0
      BY <3>1 DEF NoneEmpty
    <3>3. conn'[c].needCheck = IF sock[c] = <<>> THEN 0 ELSE Size(Head(sock[c]).body)
      BY <1>0, <1>13 DEF Measure
    <3> QED BY <3>2, <3>3
  <2>3. \A d \in Clients : d # c => conn'[d] = conn[d]
    BY <1>0, <1>13 DEF Measure
  <2>4. SentPackets(c)' /\ MeasuredOwn(c)'
    BY <1>0, <1>u, <2>1, <2>2 DEF SentPackets, MeasuredOwn, OwnPackets
  <2> QED BY <1>s, <2>1, <2>3, <2>4 DEF MeasuredInv
<1>14. ASSUME NEW c \in Clients, OpenConn(c) PROVE MeasuredInv'
  <2>1. conn' = [conn EXCEPT ![c] = [conn[c] EXCEPT !.phase = "open"]]
    BY <1>0, <1>14 DEF OpenConn
  <2>2. /\ [conn[c] EXCEPT !.phase = "open"].phase = "open"
        /\ [conn[c] EXCEPT !.phase = "open"].needCheck = conn[c].needCheck
    BY <1>0
  <2> QED BY <1>14, <1>b, <2>1, <2>2 DEF OpenConn
<1>15. ASSUME NEW c \in Clients, EchoFails(c) PROVE MeasuredInv'
  BY <1>15, <1>b DEF EchoFails
<1>16. ASSUME NEW c \in Clients, NEW p \in up, ReadLoop(c, p) PROVE MeasuredInv'
  <2>1. /\ sock[c] # <<>> /\ conn[c].phase = "open"
        /\ sock'[c] = Tail(sock[c])
        /\ \A d \in Clients : d # c => sock'[d] = sock[d]
    BY <1>0, <1>16 DEF ReadLoop, Known
  <2>2. \A d \in Clients : conn'[d].phase = conn[d].phase /\ conn'[d].needCheck = conn[d].needCheck
    BY <1>0, <1>16 DEF ReadLoop
  <2>3. SentPackets(c)' /\ MeasuredOwn(c)'
    <3>1. \A i \in 1 .. Len(sock[c]) : sock[c][i] \in up'
      BY <1>0, <1>u DEF SentPackets
    <3>2. SentPackets(c)'
      BY <1>0, <2>1, <3>1, AllTail DEF SentPackets
    <3>3. OwnPackets(c) => OwnPackets(c)'
      BY <1>0, <2>1, AllTail DEF OwnPackets
    <3> QED BY <1>0, <1>u, <2>1, <2>2, <3>2, <3>3 DEF MeasuredOwn
  <2> QED BY <1>s, <2>1, <2>2, <2>3 DEF MeasuredInv
<1>17. ASSUME NEW c \in Clients, ServerWrite(c) PROVE MeasuredInv'
  BY <1>17, <1>a DEF ServerWrite
<1>18. ASSUME NEW c \in Clients, ServerClose(c) PROVE MeasuredInv'
  BY <1>18, <1>b DEF ServerClose
<1>19. ASSUME NEW d \in Jumps, Tick(d) PROVE MeasuredInv'
  BY <1>19, <1>a DEF Tick
<1>20. ASSUME UNCHANGED vars PROVE MeasuredInv'
  BY <1>20, <1>a DEF vars
<1> QED
  BY <1>1, <1>2, <1>3, <1>4, <1>5, <1>6, <1>7, <1>8, <1>9, <1>10, <1>11, <1>12,
     <1>13, <1>14, <1>15, <1>16, <1>17, <1>18, <1>19, <1>20, NextCases

LEMMA MeasuredHolds == Spec => []MeasuredInv
BY MeasuredInit, MeasuredStep, HandshakeTypeCorrect, PTL DEF Spec

(* Of the packets a socket took before it was connected, the first that is *)
(* no repeated token is given to the application only if it comes from the *)
(* client's host, as long as nobody sends an empty packet. (needCheck,     *)
(* dial.go:149)                                                            *)
THEOREM FirstForeignCaught == Spec => ForeignCaught
<1>1. ASSUME TypeOK, MeasuredInv, [Next]_vars, NEW c \in Clients, NoneEmpty,
             conn[c].checkLen = 0, out' # Nothing, out'.to = c, ~ UNCHANGED vars
      PROVE  Host[out'.packet.peer] = Host[c]
  <2>1. ASSUME NEW p \in up, ListenerData(p) PROVE Host[out'.packet.peer] = Host[c]
    <3>1. out' = [to |-> p.peer, packet |-> p]
      BY <1>1, <2>1 DEF ListenerData
    <3>2. out'.to = p.peer /\ out'.packet = p
      BY <3>1
    <3> QED BY <1>1, <3>2
  <2>2. ASSUME NEW d \in Clients, NEW p \in up, ReadLoop(d, p)
        PROVE  Host[out'.packet.peer] = Host[c]
    <3>1. /\ out' = [to |-> d, packet |-> p]
          /\ ~ (conn[d].checkLen < conn[d].needCheck /\ Host[p.peer] # Host[d])
      BY <1>1, <2>2 DEF ReadLoop
    <3>2. out'.to = d /\ out'.packet = p
      BY <3>1
    <3>3. conn[c].needCheck \in Nat /\ conn[c].phase = "open" /\ d = c
      BY <1>1, <2>2, <3>2 DEF TypeOK, ReadLoop, Known
    <3>4. CASE conn[c].needCheck = 0
      <4>1. OwnPackets(c)
        BY <1>1, <3>3, <3>4 DEF MeasuredInv, MeasuredOwn
      <4>2. sock[c] \in Seq(Packet) /\ sock[c] # <<>> /\ p = Head(sock[c])
        BY <1>1, <2>2, <3>3 DEF TypeOK, ReadLoop
      <4>3. p.peer = c
        BY <4>1, <4>2 DEF OwnPackets
      <4> QED BY <3>2, <4>3
    <3>5. CASE conn[c].needCheck # 0
      BY <1>1, <3>1, <3>2, <3>3, <3>5
    <3> QED BY <3>4, <3>5
  <2> QED BY <1>1, <2>1, <2>2, OnlyTwoGive
<1>2. TypeOK /\ MeasuredInv /\ [Next]_vars =>
        [\A c \in Clients :
           /\ \A p \in up : Size(p.body) > 0
           /\ conn[c].checkLen = 0 /\ out' # Nothing /\ out'.to = c
           => Host[out'.packet.peer] = Host[c]]_vars
  BY <1>1 DEF NoneEmpty
<1> QED BY <1>2, MeasuredHolds, HandshakeTypeCorrect, PTL DEF Spec, ForeignCaught

(* A queue that loses its head is neither the queue that was, nor that     *)
(* queue with one more packet.                                             *)
LEMMA TailIsShorter ==
  ASSUME NEW S, NEW s \in Seq(S), NEW x \in S, s # <<>>
  PROVE  Tail(s) # s /\ Tail(s) # Append(s, x)
<1>1. Len(Tail(s)) = Len(s) - 1 /\ Len(Append(s, x)) = Len(s) + 1 /\ Len(s) \in Nat
  OBVIOUS
<1>2. \A n \in Nat : n - 1 # n /\ n - 1 # n + 1
  OBVIOUS
<1> QED BY <1>1, <1>2, Zenon

(* Data that the server takes from one of its queues for a UDPConn that    *)
(* exists is given to it, whatever its length but 0. (getUDPConn,          *)
(* CreateUDPConnByDstAddr, readBatchLoopv2)                                *)
THEOREM DataIsGiven == Spec => DataKept
<1> USE DEF clockVars, serverVars
<1>1. ASSUME TypeOK, [Next]_vars, NEW c \in Clients, NEW b \in Payload, NEW p,
             p = [peer |-> c, body |-> b], Size(b) > 0, Known(c), Known(c)',
             \/ lq # <<>> /\ Head(lq) = p /\ lq' = Tail(lq)
             \/ sock[c] # <<>> /\ Head(sock[c]) = p /\ sock'[c] = Tail(sock[c])
      PROVE  out' = [to |-> c, packet |-> p]
  <2>0. /\ lq \in Seq(Packet) /\ sock[c] \in Seq(Packet)
        /\ sock \in [Clients -> Seq(Packet)]
        /\ conn \in [Clients -> [phase : Phase, born : Nat, needCheck : Nat, checkLen : Nat]]
        /\ \A q \in up : q \in Packet
        /\ p.peer = c /\ p.body = b
    BY <1>1 DEF TypeOK
  <2>a. ~ (lq' = lq /\ sock'[c] = sock[c])
    BY <1>1, <2>0, TailIsShorter
  <2>b. ASSUME NEW q \in up, lq' = Append(lq, q), sock' = sock PROVE FALSE
    BY <1>1, <2>0, <2>b, TailIsShorter
  <2>c. ASSUME NEW q \in up, NEW d \in Clients, lq' = lq,
               sock' = [sock EXCEPT ![d] = Append(@, q)]
        PROVE  FALSE
    <3>1. sock'[c] = sock[c] \/ sock'[c] = Append(sock[c], q)
      BY <2>0, <2>c
    <3> QED BY <1>1, <2>0, <2>c, <3>1, TailIsShorter
  <2>d. ASSUME NEW q \in up, ReadPacket(q), sock' = sock
        PROVE  q = p
    BY <1>1, <2>0, <2>d, TailIsShorter DEF ReadPacket
  <2>e. \A d \in Clients : ~ IsControl(d, p)
    BY <2>0, DataIsNoToken DEF IsControl, Bytes, IsToken
  <2>f. ASSUME NEW d \in Clients, ~ Known(d) \/ ~ Known(d)', lq' = lq,
               sock' = [sock EXCEPT ![d] = <<>>]
        PROVE  FALSE
    <3>1. d # c /\ sock'[c] = sock[c]
      BY <1>1, <2>0, <2>f
    <3> QED BY <2>a, <2>f, <3>1
  <2>1. ASSUME NEW q \in up, ListenerData(q) PROVE out' = [to |-> c, packet |-> p]
    BY <2>0, <2>1, <2>d, <2>e DEF ListenerData
  <2>2. ASSUME NEW d \in Clients, NEW q \in up, ReadLoop(d, q)
        PROVE  out' = [to |-> c, packet |-> p]
    <3>1. d = c
      BY <2>0, <2>2, <2>a DEF ReadLoop
    <3>2. q = p
      BY <1>1, <2>0, <2>2, <2>a, <3>1, TailIsShorter DEF ReadLoop
    <3> QED BY <2>0, <2>2, <2>e, <3>1, <3>2 DEF ReadLoop
  <2>3. ASSUME NEW d \in Clients, Dial(d) PROVE FALSE
    BY <2>3, <2>a DEF Dial
  <2>4. ASSUME NEW d \in Clients, NEW q \in down, Answer(d, q) PROVE FALSE
    BY <2>4, <2>a DEF Answer
  <2>5. ASSUME NEW d \in Clients, GiveUp(d) PROVE FALSE
    BY <2>5, <2>a DEF GiveUp
  <2>6. ASSUME NEW d \in Clients, ClientWrite(d) PROVE FALSE
    BY <2>6, <2>a DEF ClientWrite
  <2>7. ASSUME NEW q \in up, ArriveOwn(q) PROVE FALSE
    BY <2>0, <2>7, <2>c DEF ArriveOwn, Packet
  <2>8. ASSUME NEW q \in up, NEW d \in Clients, ArriveBound(q, d) PROVE FALSE
    BY <2>8, <2>c DEF ArriveBound
  <2>9. ASSUME NEW q \in up, ArriveListener(q) PROVE FALSE
    BY <2>9, <2>b DEF ArriveListener
  <2>10. ASSUME NEW q \in up, Refuse(q) \/ DropEmpty(q) PROVE FALSE
    <3>1. q = p
      BY <2>10, <2>d DEF Refuse, DropEmpty
    <3> QED BY <1>1, <2>0, <2>10, <3>1 DEF Refuse, DropEmpty
  <2>11. ASSUME NEW q \in up, AcceptShared(q) PROVE FALSE
    BY <1>1, <2>0, <2>11, <2>d DEF AcceptShared
  <2>12. ASSUME NEW q \in up, Bind(q) PROVE FALSE
    BY <1>1, <2>0, <2>12, <2>d DEF Bind
  <2>13. ASSUME NEW d \in Clients, Connect(d) PROVE FALSE
    BY <2>13, <2>a DEF Connect
  <2>14. ASSUME NEW d \in Clients, Measure(d) PROVE FALSE
    BY <2>14, <2>a DEF Measure
  <2>15. ASSUME NEW d \in Clients, OpenConn(d) PROVE FALSE
    BY <2>15, <2>a DEF OpenConn
  <2>16. ASSUME NEW d \in Clients, EchoFails(d) PROVE FALSE
    <3>1. ~ Known(d)
      BY <2>16 DEF EchoFails, Known
    <3> QED BY <2>16, <2>f, <3>1 DEF EchoFails
  <2>17. ASSUME NEW d \in Clients, ServerWrite(d) PROVE FALSE
    BY <2>17, <2>a DEF ServerWrite
  <2>18. ASSUME NEW d \in Clients, ServerClose(d) PROVE FALSE
    <3>1. ~ Known(d)'
      BY <2>0, <2>18 DEF ServerClose, Known, NoConn
    <3> QED BY <2>18, <2>f, <3>1 DEF ServerClose
  <2>19. ASSUME NEW d \in Jumps, Tick(d) PROVE FALSE
    BY <2>19, <2>a DEF Tick
  <2>20. ASSUME UNCHANGED vars PROVE FALSE
    BY <2>20, <2>a DEF vars
  <2> QED
    BY <1>1, <2>1, <2>2, <2>3, <2>4, <2>5, <2>6, <2>7, <2>8, <2>9, <2>10,
       <2>11, <2>12, <2>13, <2>14, <2>15, <2>16, <2>17, <2>18, <2>19, <2>20,
       NextCases
<1>2. TypeOK /\ [Next]_vars =>
        [\A c \in Clients, b \in Payload :
           LET p == [peer |-> c, body |-> b]
               fromListener == lq # <<>> /\ Head(lq) = p /\ lq' = Tail(lq)
               fromOwn == sock[c] # <<>> /\ Head(sock[c]) = p /\ sock'[c] = Tail(sock[c])
           IN Size(b) > 0 /\ Known(c) /\ Known(c)' /\ (fromListener \/ fromOwn) =>
                out' = [to |-> c, packet |-> p]]_vars
  BY <1>1
<1> QED BY <1>2, HandshakeTypeCorrect, PTL DEF Spec, DataKept

=============================================================================
