------------------------------ MODULE Handshake ------------------------------
(***************************************************************************)
(* The handshake between the clients that Dial and one Listener, and how   *)
(* packets are told apart while it runs.                                   *)
(*                                                                         *)
(* A client sends a token once, waits up to two seconds, and takes the     *)
(* first packet it reads for the answer. The Listener verifies the first   *)
(* packet of an address it does not know, echoes it and stores a UDPConn.  *)
(* With a shared socket everything reaches the Listener (getUDPConn). With *)
(* IP_PKTINFO the new UDPConn gets a socket of its own, which is bound,    *)
(* then connected, then measured (CreateUDPConnByDstAddr): a socket that   *)
(* is bound and not yet connected takes packets of any client.             *)
(*                                                                         *)
(* The network keeps every packet it was given: a packet may be lost (it   *)
(* never arrives), late, out of order or duplicated. The clock of a client *)
(* may be ahead of the server's or behind it; all run at the same rate and *)
(* none is set.                                                            *)
(***************************************************************************)
EXTENDS Token, Sequences, FiniteSets, Functions

CONSTANTS
  Clients,     (* the clients, each by its local address                     *)
  Hosts,       (* their IP addresses                                         *)
  Host,        (* Host[c]: the IP in the address of client c                 *)
  Payload,     (* what a packet that is no token carries                     *)
  PayloadSize, (* its length, which may be 0                                 *)
  Nothing,     (* no packet was given to an application                      *)
  Starts,      (* the seconds a behaviour may start in                       *)
  Skews,       (* how far the clock of a client may be ahead                 *)
  Jumps,       (* the seconds that may pass between two steps                *)
  MaxSkew,     (* bound: the seconds between two clocks                      *)
  MaxTicks,    (* bound: the seconds a behaviour lasts                       *)
  MaxSent,     (* bound: the packets, all different, that clients send       *)
  MaxWritten,  (* bound: the packets, all different, that the server writes  *)
  MaxHeld      (* bound: packets that wait in the sockets of the server      *)

TokenBytes == [time : Uint16, digest : Uint16]

(* A packet is its client and its body: the second its token was made in,  *)
(* or a payload.                                                           *)
Body   == Nat \cup Payload
Packet == [peer : Clients, body : Body]
Outcome == [to : Clients, packet : Packet]

(* A token is accepted again when the 16 bits come round: behaviours are   *)
(* shorter than that, and the clocks nearer to each other.                 *)
ASSUME HandshakeAssumption ==
  /\ Host \in [Clients -> Hosts]
  /\ \A b \in Payload : b \notin Int /\ b \notin TokenBytes
  /\ PayloadSize \in [Payload -> Nat]
  /\ Nothing \notin Outcome
  /\ MaxSkew \in Nat /\ MaxTicks \in Nat
  /\ MaxSkew + MaxTicks < 65536 - TokenTimeWindow
  /\ Starts \subseteq {s \in Nat : s >= MaxSkew}
  /\ \A k \in Skews : k \in Int /\ -MaxSkew <= k /\ k <= MaxSkew
  /\ Jumps \subseteq Nat
  /\ MaxSent \in Nat /\ MaxWritten \in Nat
  /\ MaxHeld \in Nat \ {0}

VARIABLES
  standalone,  (* IP_PKTINFO_ENABLE                                          *)
  start,       (* the second the behaviour started in                        *)
  now,         (* the clock of the server                                    *)
  ahead,       (* per client: the seconds its clock is ahead                 *)
  dial,        (* per client: its UDPConn, the second of its token           *)
  up,          (* the packets sent to the server                             *)
  down,        (* the packets sent to clients                                *)
  lq,          (* the receive queue of the Listener's socket                 *)
  conn,        (* per address: the UDPConn of the server                     *)
  sock,        (* per address: the receive queue of its own socket           *)
  out          (* the packet this step gave to a UDPConn's application       *)

clockVars  == <<standalone, start, now, ahead>>
serverVars == <<lq, conn, sock>>
vars == <<clockVars, dial, up, down, serverVars, out>>

tokenSize == 4

IsToken(b) == b \notin Payload
Bytes(b) == IF IsToken(b) THEN generateToken(b) ELSE b
Size(b)  == IF IsToken(b) THEN tokenSize ELSE PayloadSize[b]

NoConn == [phase |-> "none", born |-> 0, needCheck |-> 0, checkLen |-> 0]

(* Most steps give nothing to an application. *)
Quiet == out' = Nothing

Phase == {"none", "bound", "connected", "measured", "open"}

TypeOK ==
  /\ standalone \in BOOLEAN
  /\ start \in Starts
  /\ now \in start .. start + MaxTicks
  /\ ahead \in [Clients -> Skews]
  /\ dial \in [Clients -> [st : {"idle", "waiting", "ok"}, born : Nat]]
  /\ up \subseteq Packet /\ down \subseteq Packet
  /\ \A p \in up : IsToken(p.body) => Bytes(p.body) \in TokenBytes
  /\ lq \in Seq(Packet)
  /\ conn \in [Clients -> [phase : Phase, born : Nat, needCheck : Nat,
                           checkLen : Nat]]
  /\ sock \in [Clients -> Seq(Packet)]
  /\ out \in Outcome \cup {Nothing}

Init ==
  /\ standalone \in BOOLEAN
  /\ start \in Starts
  /\ now = start
  /\ ahead \in [Clients -> Skews]
  /\ dial = [c \in Clients |-> [st |-> "idle", born |-> 0]]
  /\ up = {} /\ down = {}
  /\ lq = <<>>
  /\ conn = [c \in Clients |-> NoConn]
  /\ sock = [c \in Clients |-> <<>>]
  /\ out = Nothing

-----------------------------------------------------------------------------
(***************************************************************************)
(* The client: DialWithOpt and handshake.                                  *)
(***************************************************************************)

Send(c, b) ==
  /\ up' = up \cup {[peer |-> c, body |-> b]}
  /\ Cardinality(up') <= MaxSent

Clock(c) == now + ahead[c]

(* NewUDPConn makes the token, handshake sends it, once.                   *)
Dial(c) ==
  /\ dial[c].st = "idle"
  /\ dial' = [dial EXCEPT ![c] = [st |-> "waiting", born |-> Clock(c)]]
  /\ Send(c, Clock(c))
  /\ Quiet
  /\ UNCHANGED <<clockVars, down, serverVars>>

(* Mutant: whatever is read first completes the handshake. *)
Answer_Any(c, p) ==
  /\ dial[c].st = "waiting"
  /\ p.peer = c
  /\ dial' = [dial EXCEPT ![c].st = "ok"]
  /\ Quiet
  /\ UNCHANGED <<clockVars, up, down, serverVars>>

(* The one packet that is read: the token that was sent, or the handshake  *)
(* fails and the socket is closed.                                         *)
Answer(c, p) ==
  /\ dial[c].st = "waiting"
  /\ p.peer = c
  /\ dial' = [dial EXCEPT ![c].st =
                IF Bytes(p.body) = generateToken(dial[c].born) THEN "ok" ELSE "idle"]
  /\ Quiet
  /\ UNCHANGED <<clockVars, up, down, serverVars>>

(* Nothing came for two seconds, or the client closes its UDPConn.         *)
GiveUp(c) ==
  /\ dial[c].st # "idle"
  /\ dial' = [dial EXCEPT ![c].st = "idle"]
  /\ Quiet
  /\ UNCHANGED <<clockVars, up, down, serverVars>>

ClientWrite(c) ==
  /\ dial[c].st = "ok"
  /\ \E b \in Payload : Send(c, b)
  /\ Quiet
  /\ UNCHANGED <<clockVars, dial, down, serverVars>>

-----------------------------------------------------------------------------
(***************************************************************************)
(* The kernel of the server. A connected socket takes the packets of its   *)
(* peer. The Listener's socket takes the others, except that a socket that *)
(* is bound to the same port and not connected may take them instead.      *)
(***************************************************************************)
Room == FoldFunction(LAMBDA q, n : Len(q) + n, Len(lq), sock) < MaxHeld

Connected(c) == conn[c].phase \in {"connected", "measured", "open"}

ArriveOwn(p) ==
  /\ standalone /\ Connected(p.peer)
  /\ Room
  /\ sock' = [sock EXCEPT ![p.peer] = Append(@, p)]
  /\ Quiet
  /\ UNCHANGED <<clockVars, dial, up, down, lq, conn>>

ArriveBound(p, c) ==
  /\ conn[c].phase = "bound"
  /\ ~ Connected(p.peer)
  /\ Room
  /\ sock' = [sock EXCEPT ![c] = Append(@, p)]
  /\ Quiet
  /\ UNCHANGED <<clockVars, dial, up, down, lq, conn>>

ArriveListener(p) ==
  /\ standalone => ~ Connected(p.peer)
  /\ Room
  /\ lq' = Append(lq, p)
  /\ Quiet
  /\ UNCHANGED <<clockVars, dial, up, down, conn, sock>>

-----------------------------------------------------------------------------
(***************************************************************************)
(* The read loop of the Listener.                                          *)
(***************************************************************************)

(* The loop is not busy making a UDPConn with its own socket. *)
Reading == \A c \in Clients : conn[c].phase \in {"none", "open"}

Known(c) == conn[c].phase = "open"

ValidAt(b, s) == IsToken(b) /\ verifyToken(generateToken(b), s, TokenTimeWindow)

Valid(b) == ValidAt(b, now)

ReadPacket(p) ==
  /\ Reading
  /\ lq # <<>> /\ p = Head(lq)
  /\ lq' = Tail(lq)

(* Mutant: every packet of the length of a token is taken for one. *)
IsControl_BySize(c, p) == Size(p.body) = tokenSize

(* A repeated token of the UDPConn is no data. *)
IsControl(c, p) == Bytes(p.body) = generateToken(conn[c].born)

(* A packet of an address in the table. A shared socket gives it to the    *)
(* UDPConn unless it repeats its token; with IP_PKTINFO the token is not   *)
(* looked for here.                                                        *)
ListenerData(p) ==
  /\ ReadPacket(p)
  /\ Known(p.peer)
  /\ out' = IF ~ standalone /\ IsControl(p.peer, p) THEN Nothing
            ELSE [to |-> p.peer, packet |-> p]
  /\ UNCHANGED <<clockVars, dial, up, down, conn, sock>>

(* handlePacket, which serves a Listener that does not read in batches,    *)
(* leaves at once for an empty packet.                                     *)
DropEmpty(p) ==
  /\ ~ standalone
  /\ ReadPacket(p)
  /\ Size(p.body) = 0
  /\ Quiet
  /\ UNCHANGED <<clockVars, dial, up, down, conn, sock>>

(* The first packet of an address, and no valid token; or the echo of the  *)
(* token cannot be written. Nothing is stored.                             *)
Refuse(p) ==
  /\ ReadPacket(p)
  /\ ~ Known(p.peer)
  /\ standalone => ~ Valid(p.body)
  /\ Quiet
  /\ UNCHANGED <<clockVars, dial, up, down, conn, sock>>

(* The token is written back. *)
Echo(c, born) == down' = down \cup {[peer |-> c, body |-> born]}

AcceptShared(p) ==
  /\ ~ standalone
  /\ ReadPacket(p)
  /\ ~ Known(p.peer)
  /\ Valid(p.body)
  /\ Echo(p.peer, p.body)
  /\ conn' = [conn EXCEPT ![p.peer] = [NoConn EXCEPT !.phase = "open", !.born = p.body]]
  /\ Quiet
  /\ UNCHANGED <<clockVars, dial, up, sock>>

(* ListenPacket on the address and port the client sent to. *)
Bind(p) ==
  /\ standalone
  /\ ReadPacket(p)
  /\ ~ Known(p.peer)
  /\ Valid(p.body)
  /\ conn' = [conn EXCEPT ![p.peer] = [NoConn EXCEPT !.phase = "bound", !.born = p.body]]
  /\ Quiet
  /\ UNCHANGED <<clockVars, dial, up, down, sock>>

(* Mutant: the queue is measured before the socket is connected. *)
Connect_Measured(c) ==
  /\ conn[c].phase = "bound"
  /\ conn' = [conn EXCEPT ![c].phase = "measured", ![c].needCheck = 0]
  /\ Quiet
  /\ UNCHANGED <<clockVars, dial, up, down, lq, sock>>

(* connect keeps what the socket has received. *)
Connect(c) ==
  /\ conn[c].phase = "bound"
  /\ conn' = [conn EXCEPT ![c].phase = "connected"]
  /\ Quiet
  /\ UNCHANGED <<clockVars, dial, up, down, lq, sock>>

(* SIOCINQ of a UDP socket is the length of the first packet in its queue. *)
Measure(c) ==
  /\ conn[c].phase = "connected"
  /\ LET len == IF sock[c] = <<>> THEN 0 ELSE Size(Head(sock[c]).body)
     IN conn' = [conn EXCEPT ![c] = [@ EXCEPT !.phase = "measured", !.needCheck = len]]
  /\ Quiet
  /\ UNCHANGED <<clockVars, dial, up, down, lq, sock>>

OpenConn(c) ==
  /\ conn[c].phase = "measured"
  /\ Echo(c, conn[c].born)
  /\ conn' = [conn EXCEPT ![c].phase = "open"]
  /\ Quiet
  /\ UNCHANGED <<clockVars, dial, up, lq, sock>>

(* The echo cannot be written: the socket is closed again. *)
EchoFails(c) ==
  /\ conn[c].phase = "measured"
  /\ conn' = [conn EXCEPT ![c] = NoConn]
  /\ sock' = [sock EXCEPT ![c] = <<>>]
  /\ Quiet
  /\ UNCHANGED <<clockVars, dial, up, down, lq>>

-----------------------------------------------------------------------------
(***************************************************************************)
(* The UDPConn of the server.                                              *)
(***************************************************************************)

(* readBatchLoopv2, one packet: a repeated token is skipped; as long as    *)
(* fewer bytes were looked at than the queue held at first, a packet of    *)
(* another host is dropped.                                                *)
ReadLoop(c, p) ==
  LET checking == conn[c].checkLen < conn[c].needCheck
      control  == IsControl(c, p)
  IN /\ Known(c)
     /\ sock[c] # <<>> /\ p = Head(sock[c])
     /\ sock' = [sock EXCEPT ![c] = Tail(@)]
     /\ conn' = IF checking /\ ~ control
                  THEN [conn EXCEPT ![c].checkLen = @ + Size(p.body)]
                  ELSE conn
     /\ out' = IF control \/ (checking /\ Host[p.peer] # Host[c]) THEN Nothing
               ELSE [to |-> c, packet |-> p]
     /\ UNCHANGED <<clockVars, dial, up, down, lq>>

ServerWrite(c) ==
  /\ Known(c)
  /\ \E b \in Payload : down' = down \cup {[peer |-> c, body |-> b]}
  /\ Cardinality({p \in down' : ~ IsToken(p.body)}) <= MaxWritten
  /\ Quiet
  /\ UNCHANGED <<clockVars, dial, up, serverVars>>

(* The application, or checkExpire. *)
ServerClose(c) ==
  /\ Known(c)
  /\ conn' = [conn EXCEPT ![c] = NoConn]
  /\ sock' = [sock EXCEPT ![c] = <<>>]
  /\ Quiet
  /\ UNCHANGED <<clockVars, dial, up, down, lq>>

Tick(d) ==
  /\ now + d <= start + MaxTicks
  /\ now' = now + d
  /\ Quiet
  /\ UNCHANGED <<standalone, start, ahead, dial, up, down, serverVars>>

ClientStep(c) ==
  \/ Dial(c) \/ GiveUp(c) \/ ClientWrite(c)
  \/ \E p \in down : Answer(c, p)

Arrive(p) ==
  \/ ArriveOwn(p) \/ ArriveListener(p)
  \/ \E c \in Clients : ArriveBound(p, c)

ListenerStep(p) ==
  \/ ListenerData(p) \/ DropEmpty(p) \/ Refuse(p)
  \/ AcceptShared(p) \/ Bind(p)

ConnStep(c) ==
  \/ Connect(c) \/ Measure(c) \/ OpenConn(c) \/ EchoFails(c)
  \/ ServerWrite(c) \/ ServerClose(c)
  \/ \E p \in up : ReadLoop(c, p)

Next ==
  \/ \E c \in Clients : ClientStep(c) \/ ConnStep(c)
  \/ \E p \in up : Arrive(p) \/ ListenerStep(p)
  \/ \E d \in Jumps : Tick(d)

Spec == Init /\ [][Next]_vars

-----------------------------------------------------------------------------
Near(s, t) == s - t <= TokenTimeWindow /\ t - s <= TokenTimeWindow

(* The Listener accepts no token further than TokenTimeWindow from the     *)
(* second it was made in, by whatever clock, although tokens and now wrap  *)
(* at 16 bits on their own and digests may collide.                        *)
ValidIsNear ==
  \A p \in up : Valid(p.body) => Near(p.body, now)

(* A token of client c that was good before its own second: its clock is   *)
(* ahead, and the digest happens to be that of an earlier second.          *)
GoodEarly(c, b) ==
  IsToken(b) /\ \E s \in b - ahead[c] .. now : s < b /\ ValidAt(b, s)

(* The two ends agree: when Dial succeeded and the server has a UDPConn    *)
(* for the client, both hold the same token, however late or often tokens  *)
(* and their echoes arrive: the UDPConn is never that of a Dial of an      *)
(* earlier second. A Dial is known by its second only: two in one second   *)
(* are not told apart. Left out are clients one of whose tokens was good   *)
(* before its second.                                                      *)
AgreedToken ==
  \A c \in Clients :
    /\ dial[c].st = "ok" /\ conn[c].phase = "open"
    /\ \A p \in up : p.peer = c => ~ GoodEarly(c, p.body)
    => conn[c].born = dial[c].born

(* Of the packets that a socket took before it was connected, the first    *)
(* that is no repeated token reaches the application only if it comes from *)
(* the client's host, as long as nobody sends an empty packet: the length  *)
(* that Measure reads covers it.                                           *)
ForeignCaught ==
  [][\A c \in Clients :
       /\ \A p \in up : Size(p.body) > 0
       /\ conn[c].checkLen = 0 /\ out' # Nothing /\ out'.to = c
       => Host[out'.packet.peer] = Host[c]]_vars

(* Data that the server reads from a client it has a UDPConn for reaches   *)
(* that UDPConn, on either path, though it may be as long as a token. (An  *)
(* empty packet need not.)                                                 *)
DataKept ==
  [][\A c \in Clients, b \in Payload :
       LET p == [peer |-> c, body |-> b]
           fromListener == lq # <<>> /\ Head(lq) = p /\ lq' = Tail(lq)
           fromOwn == sock[c] # <<>> /\ Head(sock[c]) = p /\ sock'[c] = Tail(sock[c])
       IN Size(b) > 0 /\ Known(c) /\ Known(c)' /\ (fromListener \/ fromOwn) =>
            out' = [to |-> c, packet |-> p]]_vars

(* What TokenTimeWindow is said to mean: a token is good for ten seconds   *)
(* ("Token 有效期, 单位: 秒", token.go:13). The code does not have it.      *)
ValidForWindow ==
  \A p \in up : IsToken(p.body) /\ now - p.body \in 0 .. TokenTimeWindow => Valid(p.body)

=============================================================================
