------------------------------ MODULE AcceptPath ------------------------------
(***************************************************************************)
(* How a new UDPConn reaches the application.  Each Listener offers the    *)
(* UDPConns it makes on its own accept channel; one goroutine per Listener *)
(* forwards them to the accept channel of the UdpListen, from which Accept *)
(* takes them.  NewUdpListen, Accept and Close of UdpListen are modelled   *)
(* with the Close of a Listener that UdpListen.Close and a read loop whose *)
(* socket fails both call.                                                 *)
(*                                                                         *)
(* No code makes Listener.dead: the close of it that every first           *)
(* Listener.Close performs panics, and a panic ends the process.  What     *)
(* comes after it in Listener.Close never runs and is not modelled.        *)
(***************************************************************************)
EXTENDS Integers, Sequences

CONSTANTS
  ListenerNum,  (* ListenConfig.ListenerNum                                  *)
  Caller,       (* the goroutines of the application that call Accept        *)
  LnCap,        (* capacity of Listener.accept: 512                          *)
  UdpCap,       (* capacity of UdpListen.accept: 1024                        *)
  MaxConn       (* bound: how many UDPConns each Listener makes              *)

ASSUME AcceptPathAssumption ==
  /\ ListenerNum \in Nat \ {0}
  /\ LnCap \in Nat \ {0}
  /\ UdpCap \in Nat \ {0}
  /\ MaxConn \in Nat

Listener == 1 .. ListenerNum
Conn == Listener \X (1 .. MaxConn)
NoConn == <<>>

VARIABLES
  phase,     (* NewUdpListen is making Listeners, has failed, or returned    *)
  made,      (* the Listeners made so far are 1 .. made                      *)
  conns,     (* how many UDPConns each Listener made                         *)
  lnAccept,  (* Listener.accept                                              *)
  hand,      (* the UDPConn that the forwarding goroutine holds              *)
  accept,    (* UdpListen.accept                                             *)
  open,      (* UdpListen.accept is not closed                               *)
  dead,      (* UdpListen.dead is closed                                     *)
  closer,    (* where UdpListen.Close is: before a step, or in the Close of  *)
             (* a Listener, before it locks or before it closes dead         *)
  lnClosed,  (* Listener.closed                                              *)
  reader,    (* where the read loop of each Listener is                      *)
  caller,    (* where each call of Accept is                                 *)
  late,      (* whether that call began after dead was closed                *)
  accepted,  (* what Accept returned, in order, with late of the call        *)
  panicked   (* what ended the process, or "no"                              *)

startVars   == <<phase, made>>
forwardVars == <<hand, accept>>
closeVars   == <<open, dead, closer, lnClosed>>
callVars    == <<caller, late, accepted>>
vars == <<startVars, conns, lnAccept, forwardVars, closeVars, reader,
          callVars, panicked>>

TypeOK ==
  /\ phase \in {"start", "failed", "listen"}
  /\ made \in 0 .. ListenerNum
  /\ conns \in [Listener -> 0 .. MaxConn]
  /\ lnAccept \in [Listener -> Seq(Conn)]
  /\ \A l \in Listener : Len(lnAccept[l]) <= LnCap
  /\ hand \in [Listener -> Conn \cup {NoConn}]
  /\ accept \in Seq(Conn) /\ Len(accept) <= UdpCap
  /\ open \in BOOLEAN
  /\ dead \in BOOLEAN
  /\ closer \in {<<"none">>, <<"dead">>, <<"accept">>}
                 \cup (1 .. ListenerNum + 1) \X {"lock", "close"}
  /\ lnClosed \in [Listener -> BOOLEAN]
  /\ reader \in [Listener -> {"none", "loop", "offer", "close", "over"}]
  /\ \A l \in Listener : /\ reader[l] = "offer" => conns[l] > 0
                         /\ l > made => reader[l] = "none"
  /\ caller \in [Caller -> {"idle", "check", "select"}]
  /\ late \in [Caller -> BOOLEAN]
  /\ accepted \in Seq(Conn \X BOOLEAN)
  /\ panicked \in {"no", "close", "forward"}

Init ==
  /\ phase = "start"
  /\ made = 0
  /\ conns = [l \in Listener |-> 0]
  /\ lnAccept = [l \in Listener |-> <<>>]
  /\ hand = [l \in Listener |-> NoConn]
  /\ accept = <<>>
  /\ open = TRUE
  /\ dead = FALSE
  /\ closer = <<"none">>
  /\ lnClosed = [l \in Listener |-> FALSE]
  /\ reader = [l \in Listener |-> "none"]
  /\ caller = [c \in Caller |-> "idle"]
  /\ late = [c \in Caller |-> FALSE]
  /\ accepted = <<>>
  /\ panicked = "no"

Up == panicked = "no"

-----------------------------------------------------------------------------
(***************************************************************************)
(* NewUdpListen                                                            *)
(***************************************************************************)

(* A Listener reads its socket as soon as it is made. *)
NewListener ==
  /\ Up /\ phase = "start"
  /\ made < ListenerNum
  /\ made' = made + 1
  /\ reader' = [reader EXCEPT ![made + 1] = "loop"]
  /\ UNCHANGED <<phase, conns, lnAccept, forwardVars, closeVars, callVars,
                 panicked>>

(* NewUdpListen returns the error; the Listeners it has made stay. *)
StartFails ==
  /\ Up /\ phase = "start"
  /\ made < ListenerNum
  /\ phase' = "failed"
  /\ UNCHANGED <<made, conns, lnAccept, forwardVars, closeVars, reader,
                 callVars, panicked>>

Listen ==
  /\ Up /\ phase = "start"
  /\ made = ListenerNum
  /\ phase' = "listen"
  /\ UNCHANGED <<made, conns, lnAccept, forwardVars, closeVars, reader,
                 callVars, panicked>>

-----------------------------------------------------------------------------
(***************************************************************************)
(* The read loop of a Listener                                             *)
(***************************************************************************)

(* A UDPConn is made, and stored in the table, before it is offered. *)
MakeConn(l) ==
  /\ Up /\ reader[l] = "loop"
  /\ conns[l] < MaxConn
  /\ conns' = [conns EXCEPT ![l] = @ + 1]
  /\ reader' = [reader EXCEPT ![l] = "offer"]
  /\ UNCHANGED <<startVars, lnAccept, forwardVars, closeVars, callVars,
                 panicked>>

(* Mutant: a UDPConn that finds the channel full is dropped. *)
Offer_Drop(l) ==
  /\ Up /\ reader[l] = "offer"
  /\ lnAccept' = IF Len(lnAccept[l]) < LnCap
                   THEN [lnAccept EXCEPT ![l] = Append(@, <<l, conns[l]>>)]
                   ELSE lnAccept
  /\ reader' = [reader EXCEPT ![l] = "loop"]
  /\ UNCHANGED <<startVars, conns, forwardVars, closeVars, callVars, panicked>>

(* A full channel blocks the loop, with the UDPConn that is made. *)
Offer(l) ==
  /\ Up /\ reader[l] = "offer"
  /\ Len(lnAccept[l]) < LnCap
  /\ lnAccept' = [lnAccept EXCEPT ![l] = Append(@, <<l, conns[l]>>)]
  /\ reader' = [reader EXCEPT ![l] = "loop"]
  /\ UNCHANGED <<startVars, conns, forwardVars, closeVars, callVars, panicked>>

(* The loop ends with Listener.Close, which finds closed set or sets it. *)
ReadFails(l) ==
  /\ Up /\ reader[l] = "loop"
  /\ reader' = [reader EXCEPT ![l] = IF lnClosed[l] THEN "over" ELSE "close"]
  /\ lnClosed' = [lnClosed EXCEPT ![l] = TRUE]
  /\ UNCHANGED <<startVars, conns, lnAccept, forwardVars, open, dead, closer,
                 callVars, panicked>>

(* Listener.Close, by the read loop or by UdpListen.Close, after it has set *)
(* closed: close(l.dead).                                                  *)
CloseNilDead(l) ==
  /\ Up
  /\ reader[l] = "close" \/ closer = <<l, "close">>
  /\ panicked' = "close"
  /\ UNCHANGED <<startVars, conns, lnAccept, forwardVars, closeVars, reader,
                 callVars>>

-----------------------------------------------------------------------------
(***************************************************************************)
(* The goroutine that forwards what a Listener accepts                     *)
(***************************************************************************)
ForwardTake(l) ==
  /\ Up /\ phase = "listen"
  /\ hand[l] = NoConn
  /\ lnAccept[l] # <<>>
  /\ hand' = [hand EXCEPT ![l] = Head(lnAccept[l])]
  /\ lnAccept' = [lnAccept EXCEPT ![l] = Tail(@)]
  /\ UNCHANGED <<startVars, conns, accept, closeVars, reader, callVars,
                 panicked>>

(* Mutants: the send does not wait for room; a full channel loses the      *)
(* UDPConn.                                                                *)
ForwardPut_NoRoom(l) ==
  /\ Up /\ hand[l] # NoConn
  /\ open
  /\ accept' = Append(accept, hand[l])
  /\ hand' = [hand EXCEPT ![l] = NoConn]
  /\ UNCHANGED <<startVars, conns, lnAccept, closeVars, reader, callVars,
                 panicked>>
ForwardPut_Drop(l) ==
  /\ Up /\ hand[l] # NoConn
  /\ open
  /\ accept' = IF Len(accept) < UdpCap THEN Append(accept, hand[l]) ELSE accept
  /\ hand' = [hand EXCEPT ![l] = NoConn]
  /\ UNCHANGED <<startVars, conns, lnAccept, closeVars, reader, callVars,
                 panicked>>

ForwardPut(l) ==
  /\ Up /\ hand[l] # NoConn
  /\ open /\ Len(accept) < UdpCap
  /\ accept' = Append(accept, hand[l])
  /\ hand' = [hand EXCEPT ![l] = NoConn]
  /\ UNCHANGED <<startVars, conns, lnAccept, closeVars, reader, callVars,
                 panicked>>

(* A send on a closed channel. *)
ForwardPanic(l) ==
  /\ Up /\ hand[l] # NoConn
  /\ ~ open
  /\ panicked' = "forward"
  /\ UNCHANGED <<startVars, conns, lnAccept, forwardVars, closeVars, reader,
                 callVars>>

-----------------------------------------------------------------------------
(***************************************************************************)
(* UdpListen.Accept                                                        *)
(***************************************************************************)
AcceptCall(c) ==
  /\ Up /\ phase = "listen"
  /\ caller[c] = "idle"
  /\ caller' = [caller EXCEPT ![c] = "check"]
  /\ late' = [late EXCEPT ![c] = dead]
  /\ UNCHANGED <<startVars, conns, lnAccept, forwardVars, closeVars, reader,
                 accepted, panicked>>

(* Mutant: Accept goes straight to the second select. *)
AcceptCheck_Skip(c) ==
  /\ Up /\ caller[c] = "check"
  /\ caller' = [caller EXCEPT ![c] = "select"]
  /\ UNCHANGED <<startVars, conns, lnAccept, forwardVars, closeVars, reader,
                 late, accepted, panicked>>

(* The select with a default: ErrLnClosed once dead is closed. *)
AcceptCheck(c) ==
  /\ Up /\ caller[c] = "check"
  /\ caller' = [caller EXCEPT ![c] = IF dead THEN "idle" ELSE "select"]
  /\ UNCHANGED <<startVars, conns, lnAccept, forwardVars, closeVars, reader,
                 late, accepted, panicked>>

(* The second select: of the cases that are ready, either. *)
AcceptReceive(c) ==
  /\ Up /\ caller[c] = "select"
  /\ accept # <<>>
  /\ accepted' = Append(accepted, <<Head(accept), late[c]>>)
  /\ accept' = Tail(accept)
  /\ caller' = [caller EXCEPT ![c] = "idle"]
  /\ UNCHANGED <<startVars, conns, lnAccept, hand, closeVars, reader, late,
                 panicked>>

AcceptError(c) ==
  /\ Up /\ caller[c] = "select"
  /\ dead \/ (~ open /\ accept = <<>>)
  /\ caller' = [caller EXCEPT ![c] = "idle"]
  /\ UNCHANGED <<startVars, conns, lnAccept, forwardVars, closeVars, reader,
                 late, accepted, panicked>>

-----------------------------------------------------------------------------
(***************************************************************************)
(* UdpListen.Close.  A second call finds closed set and changes nothing.   *)
(***************************************************************************)
CloseCall ==
  /\ Up /\ phase = "listen"
  /\ closer = <<"none">>
  /\ closer' = <<"dead">>
  /\ UNCHANGED <<startVars, conns, lnAccept, forwardVars, open, dead, lnClosed,
                 reader, callVars, panicked>>

CloseDead ==
  /\ Up /\ closer = <<"dead">>
  /\ dead' = TRUE
  /\ closer' = <<"accept">>
  /\ UNCHANGED <<startVars, conns, lnAccept, forwardVars, open, lnClosed,
                 reader, callVars, panicked>>

CloseAccept ==
  /\ Up /\ closer = <<"accept">>
  /\ open' = FALSE
  /\ closer' = <<1, "lock">>
  /\ UNCHANGED <<startVars, conns, lnAccept, forwardVars, dead, lnClosed,
                 reader, callVars, panicked>>

(* Listener.Close of the next Listener: it sets closed and goes on to      *)
(* CloseNilDead, or returns since the read loop has set it.                *)
CloseListener(l) ==
  /\ Up /\ closer = <<l, "lock">>
  /\ lnClosed' = [lnClosed EXCEPT ![l] = TRUE]
  /\ closer' = IF lnClosed[l] THEN <<l + 1, "lock">> ELSE <<l, "close">>
  /\ UNCHANGED <<startVars, conns, lnAccept, forwardVars, open, dead, reader,
                 callVars, panicked>>

-----------------------------------------------------------------------------
Start == NewListener \/ StartFails \/ Listen
Forward(l) == ForwardTake(l) \/ ForwardPut(l) \/ ForwardPanic(l)
Accept(c) ==
  AcceptCall(c) \/ AcceptCheck(c) \/ AcceptReceive(c) \/ AcceptError(c)

Next ==
  \/ Start
  \/ \E l \in Listener :
       \/ MakeConn(l) \/ Offer(l) \/ ReadFails(l)
       \/ CloseNilDead(l) \/ Forward(l)
  \/ \E c \in Caller : Accept(c)
  \/ CloseCall \/ CloseDead \/ CloseAccept
  \/ \E l \in Listener : CloseListener(l)

Spec == Init /\ [][Next]_vars

(* The goroutines run, and the application keeps calling Accept.  Go       *)
(* serves those who wait to send on a channel in the order they came.      *)
FairSpec ==
  /\ Spec
  /\ WF_vars(Start)
  /\ \A l \in Listener : WF_vars(Offer(l)) /\ SF_vars(Forward(l))
  /\ WF_vars(\E c \in Caller : Accept(c))

-----------------------------------------------------------------------------
(***************************************************************************)
(* Properties                                                              *)
(***************************************************************************)
(* What was ever put into the accept channel of the UdpListen, in order.   *)
Line == [k \in DOMAIN accepted |-> accepted[k][1]] \o accept

(* The UDPConn that a Listener has made and not yet offered. *)
Waiting(l) == IF reader[l] = "offer" THEN 1 ELSE 0

(* How many UDPConns of a Listener have left its own accept channel, and   *)
(* how many of these were put into that of the UdpListen.                  *)
Taken(l) == conns[l] - Waiting(l) - Len(lnAccept[l])
Forwarded(l) == IF hand[l] = NoConn THEN Taken(l) ELSE Taken(l) - 1

(* Every UDPConn a Listener made is in one place on its way to the         *)
(* application, and those of a Listener keep their order to the end: none  *)
(* is lost, doubled or overtaken, through Close and panics too.            *)
InOrderOnce ==
  /\ \A l \in Listener :
       /\ \A k \in DOMAIN lnAccept[l] : lnAccept[l][k] = <<l, Taken(l) + k>>
       /\ hand[l] # NoConn => hand[l] = <<l, Taken(l)>>
       /\ \A m \in 1 .. Forwarded(l) : \E k \in DOMAIN Line : Line[k] = <<l, m>>
       /\ \A k \in DOMAIN Line : Line[k][1] = l => Line[k][2] <= Forwarded(l)
  /\ \A j, k \in DOMAIN Line :
       j < k /\ Line[j][1] = Line[k][1] => Line[j][2] < Line[k][2]

(* An Accept that begins after Close has closed dead returns an error,     *)
(* whatever still waits in accept.                                         *)
NoneAfterClose == \A k \in DOMAIN accepted : ~ accepted[k][2]

(* A UDPConn that a Listener makes is returned by Accept, though it may    *)
(* have to wait for room in two channels, unless NewUdpListen fails, the   *)
(* UdpListen is closed, or the process ends.                               *)
EachIsAccepted ==
  \A c \in Conn :
    conns[c[1]] >= c[2]
      ~> \/ \E k \in DOMAIN accepted : accepted[k][1] = c
         \/ phase = "failed" \/ dead \/ ~ Up

=============================================================================
