-------------------------------- MODULE Expire --------------------------------
(***************************************************************************)
(* The clock of checkExpire: which of the UDPConns of a Listener it closes.*)
(*                                                                         *)
(* Every three minutes the goroutine lists the table, sets how long a      *)
(* UDPConn may be silent from the length of the list, and visits the       *)
(* UDPConns one by one while packets arrive, UDPConns come and the         *)
(* application closes others. A visit compares the counter of received     *)
(* packets with its value at the last visit, and closes the UDPConn in a   *)
(* step of its own; a packet is counted in a step after the one that queues*)
(* it, and no lock covers either pair.                                     *)
(*                                                                         *)
(* Time is counted in passes: lastAliveAt is only ever set during a pass,  *)
(* so every elapsed time that is compared is a number of intervals. A pass *)
(* takes no time on that scale, and a packet that is queued is counted     *)
(* before the pass after the next. One goroutine queues the packets of a   *)
(* UDPConn; that the Listener may still queue some for a UDPConn that has  *)
(* its own socket is left out.                                             *)
(***************************************************************************)
EXTENDS Integers, FiniteSets

CONSTANTS
  Conn,         (* the UDPConns of one Listener                              *)
  SomeConns,    (* 500: from here on the Listener is less patient            *)
  ManyConns,    (* 1000: and from here on less still                         *)
  ExpireFew,    (* 20 minutes, in intervals                                  *)
  ExpireSome,   (* 10 minutes                                                *)
  ExpireMany,   (* 5 minutes                                                 *)
  MaxPass       (* bound: the passes of a behaviour                          *)

ASSUME ExpireAssumption ==
  /\ SomeConns \in Nat /\ ManyConns \in Nat
  /\ ExpireFew \in Nat /\ ExpireSome \in Nat /\ ExpireMany \in Nat
  /\ MaxPass \in Nat

VARIABLES
  batched,   (* whether packets come in batches, through PutRxQueue2         *)
  running,   (* the goroutine runs                                           *)
  pass,      (* the passes begun                                             *)
  list,      (* the UDPConns this pass has still to visit                    *)
  doomed,    (* the one that this pass is about to close                     *)
  expire,    (* Listener.expire                                              *)
  life,      (* per UDPConn; "expired" when it was checkExpire that closed it*)
  pending,   (* a packet is in rxqueue that rxPackets does not count yet     *)
  counted,   (* rxPackets differs from check.lastRxPkts                      *)
  aliveAt,   (* check.lastAliveAt, 0 before it is set                        *)
  heard      (* when it was made or last queued a packet                     *)

connVars == <<life, pending, counted, aliveAt, heard>>
expireVars == <<batched, running, pass, list, doomed, expire, connVars>>

ExpireTypeOK ==
  /\ batched \in BOOLEAN /\ running \in BOOLEAN
  /\ pass \in 0 .. MaxPass
  /\ list \subseteq Conn /\ doomed \subseteq Conn
  /\ expire \in {ExpireFew, ExpireSome, ExpireMany}
  /\ life \in [Conn -> {"none", "open", "closed", "expired"}]
  /\ pending \in [Conn -> BOOLEAN] /\ counted \in [Conn -> BOOLEAN]
  /\ aliveAt \in [Conn -> 0 .. MaxPass]
  /\ heard \in [Conn -> 0 .. MaxPass]

ExpireInit ==
  /\ batched \in BOOLEAN
  /\ running = TRUE
  /\ pass = 0
  /\ list = {} /\ doomed = {}
  /\ expire = ExpireFew
  /\ life = [c \in Conn |-> "none"]
  /\ pending = [c \in Conn |-> FALSE]
  /\ counted = [c \in Conn |-> FALSE]
  /\ aliveAt = [c \in Conn |-> 0]
  /\ heard = [c \in Conn |-> 0]

Open == {c \in Conn : life[c] = "open"}

-----------------------------------------------------------------------------
(* The Listener stores a UDPConn. *)
Create(c) ==
  /\ life[c] = "none"
  /\ life' = [life EXCEPT ![c] = "open"]
  /\ heard' = [heard EXCEPT ![c] = pass]
  /\ UNCHANGED <<batched, running, pass, list, doomed, expire, pending, counted,
                 aliveAt>>

(* A packet is put into the queue of a UDPConn. PutRxQueue2 has still to   *)
(* count it; PutRxQueue, which serves a Listener that does not read in     *)
(* batches, never does. A packet that finds the queue full is dropped and  *)
(* changes nothing.                                                        *)
Receive(c) ==
  /\ life[c] = "open" /\ ~ pending[c]
  /\ pending' = [pending EXCEPT ![c] = batched]
  /\ heard' = [heard EXCEPT ![c] = pass]
  /\ UNCHANGED <<batched, running, pass, list, doomed, expire, life, counted, aliveAt>>

(* PutRxQueue2 counts the packet that it has queued. *)
Count(c) ==
  /\ pending[c]
  /\ pending' = [pending EXCEPT ![c] = FALSE]
  /\ counted' = [counted EXCEPT ![c] = TRUE]
  /\ UNCHANGED <<batched, running, pass, list, doomed, expire, life, aliveAt, heard>>

ConnClose(c) ==
  /\ life[c] = "open"
  /\ life' = [life EXCEPT ![c] = "closed"]
  /\ UNCHANGED <<batched, running, pass, list, doomed, expire, pending, counted,
                 aliveAt, heard>>

-----------------------------------------------------------------------------
updateClientExpire(n) ==
  CASE n > ManyConns -> ExpireMany
    [] n > SomeConns /\ n <= ManyConns -> ExpireSome
    [] OTHER -> ExpireFew

PassOver == list = {} /\ doomed = {}

(* The ticker fires once the last pass is over. *)
Tick ==
  /\ running /\ PassOver
  /\ \A c \in Conn : pending[c] => heard[c] = pass
  /\ pass < MaxPass
  /\ pass' = pass + 1
  /\ list' = Open
  /\ expire' = updateClientExpire(Cardinality(Open))
  /\ UNCHANGED <<batched, running, doomed, connVars>>

(* The pass comes to a UDPConn of its list. *)
Visit(c) ==
  /\ c \in list /\ doomed = {}
  /\ list' = list \ {c}
  /\ UNCHANGED <<batched, running, pass, expire, life, pending, heard>>

(* Mutant: the packets seen by this visit stay to be seen by the next.     *)
VisitAlive_Sticky(c) ==
  /\ Visit(c)
  /\ counted[c] \/ aliveAt[c] = 0
  /\ aliveAt' = [aliveAt EXCEPT ![c] = pass]
  /\ UNCHANGED <<counted, doomed>>

(* The counter has moved, or this is the first visit. *)
VisitAlive(c) ==
  /\ Visit(c)
  /\ counted[c] \/ aliveAt[c] = 0
  /\ aliveAt' = [aliveAt EXCEPT ![c] = pass]
  /\ counted' = [counted EXCEPT ![c] = FALSE]
  /\ UNCHANGED doomed

(* Mutant: the time is compared before the counter.                        *)
VisitIdle_TimeFirst(c) ==
  /\ Visit(c)
  /\ aliveAt[c] # 0
  /\ doomed' = {d \in {c} : pass - aliveAt[d] > expire}
  /\ UNCHANGED <<counted, aliveAt>>

(* Nothing was counted since the last visit: the UDPConn is to be closed   *)
(* when that is too long ago.                                              *)
VisitIdle(c) ==
  /\ Visit(c)
  /\ ~ counted[c] /\ aliveAt[c] # 0
  /\ doomed' = {d \in {c} : pass - aliveAt[d] > expire}
  /\ UNCHANGED <<counted, aliveAt>>

(* The Close of that visit, whatever came in since. Close does nothing if  *)
(* the UDPConn is closed already.                                          *)
CloseIdle(c) ==
  /\ c \in doomed
  /\ life' = IF life[c] = "open" THEN [life EXCEPT ![c] = "expired"] ELSE life
  /\ doomed' = doomed \ {c}
  /\ UNCHANGED <<batched, running, pass, list, expire, pending, counted, aliveAt, heard>>

(* The UdpListen is closed, or its context is done. *)
ExpireStop ==
  /\ running /\ PassOver
  /\ running' = FALSE
  /\ UNCHANGED <<batched, pass, list, doomed, expire, connVars>>

ExpireNext ==
  \/ Tick \/ ExpireStop
  \/ \E c \in Conn : \/ Create(c) \/ Receive(c) \/ Count(c) \/ ConnClose(c)
                     \/ VisitAlive(c) \/ VisitIdle(c) \/ CloseIdle(c)

ExpireSpec == ExpireInit /\ [][ExpireNext]_expireVars

-----------------------------------------------------------------------------
(* A visit decides to close a UDPConn that queued a packet within what is  *)
(* in force for the Listener at that moment, and not one that is in the    *)
(* queue while PutRxQueue2 has not come to count it (dial.go:170-171).     *)
DoomedAlive(c) ==
  c \in doomed' \ doomed /\ pass - heard[c] <= expire /\ ~ pending[c]

(* With batches, no visit does, even if the packet came between the        *)
(* listing and the visit and though the expiry follows the size of the     *)
(* table.                                                                  *)
OnlyIdleExpired == [][\A c \in Conn : batched => ~ DoomedAlive(c)]_expireVars

(* No UDPConn outlives its silence: when a pass is over, every UDPConn     *)
(* that is left was heard within the expiry of that pass and two           *)
(* intervals, the second for a packet that is counted in the next pass.    *)
NoneOutlivesSilence ==
  PassOver /\ running => \A c \in Open : pass - heard[c] <= expire + 2

(* The same as OnlyIdleExpired for every Listener: the pass is there       *)
(* against dead UDPConns (listen.go:644), those that received nothing      *)
(* (listen.go:673).                                                        *)
OnlyDeadExpired == [][\A c \in Conn : ~ DoomedAlive(c)]_expireVars

=============================================================================
