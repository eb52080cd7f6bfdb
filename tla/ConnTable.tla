------------------------------ MODULE ConnTable ------------------------------
(***************************************************************************)
(* The life cycle of the UDPConns that one Listener produces.              *)
(*                                                                         *)
(* Four kinds of goroutine meet on the clients table of a Listener:        *)
(*   - the listener's read loop, which creates a UDPConn for the first     *)
(*     handshake packet of a remote address (getUDPConn when the listener  *)
(*     socket is shared, CreateUDPConnByDstAddr when IP_PKTINFO gives each *)
(*     UDPConn a socket of its own);                                       *)
(*   - the read loop of each standalone UDPConn, which closes the UDPConn  *)
(*     when its socket returns an error;                                   *)
(*   - the application, which accepts and closes;                          *)
(*   - checkExpire, which closes the UDPConns that stay silent.            *)
(* UDPConn.Close runs in the goroutine of whoever calls it first, one      *)
(* shared access per step, so it interleaves with everything else.         *)
(***************************************************************************)
EXTENDS Integers, Sequences, FiniteSets

CONSTANTS
  Addr,        (* the remote addresses, keys of the clients table            *)
  NoAddr,      (* the address of a UDPConn that was not created yet          *)
  MaxConn,     (* bound: how many UDPConns a behaviour creates               *)
  AcceptLen    (* capacity of the accept channel (512 in the code)           *)

ASSUME ConnTableAssumption ==
  /\ NoAddr \notin Addr
  /\ MaxConn \in Nat
  /\ AcceptLen \in Nat \ {0}

Conn == 1 .. MaxConn
NoConn == 0

VARIABLES
  standalone,   (* IP_PKTINFO_ENABLE: whether a UDPConn has its own socket   *)
  clients,      (* Listener.clients: the UDPConn stored for each address     *)
  clientCount,  (* Listener.clientCount                                      *)
  accept,       (* Listener.accept, the channel of UDPConns to accept        *)
  peer,         (* UDPConn.raddr                                             *)
  life,         (* how far creation and Close have gone, per UDPConn         *)
  openSock,     (* the standalone UDPConns whose own lconn is open           *)
  readers,      (* the UDPConns whose readBatchLoopv2 goroutine runs         *)
  accepted,     (* the UDPConns the application holds                        *)
  lpc,          (* where the listener's read loop is                         *)
  cur,          (* the UDPConn the listener's read loop is creating          *)
  epc,          (* where checkExpire is                                      *)
  toRange,      (* the keys ListClientConns has still to visit               *)
  list,         (* the UDPConns checkExpire has still to look at             *)
  expiring,     (* the UDPConn whose Close checkExpire is running            *)
  seenAlive,    (* the UDPConns whose check.lastAliveAt is set               *)
  panic         (* "none", or the call that panicked: the process is gone    *)

tableVars  == <<clients, clientCount>>
connVars   == <<peer, life, openSock, readers>>
listenVars == <<lpc, cur>>
expireVars == <<epc, toRange, list, expiring, seenAlive>>
vars == <<standalone, tableVars, connVars, listenVars, expireVars, accept, accepted, panic>>

(***************************************************************************)
(* The stages of a UDPConn. "closing" says that closed is set, dead is     *)
(* closed and deleteConn comes next; "removed" that LoadAndDelete is done  *)
(* and the decrement comes next; "uncounted" that the socket comes next.   *)
(***************************************************************************)
Stage == {"unused", "open", "closing", "removed", "uncounted", "closed",
          "discarded"}

IsClosed(c) == life[c] \in {"closing", "removed", "uncounted", "closed"}

(* c was created and not taken out of the table yet. *)
Live(c) == life[c] \in {"open", "closing"}

Stored == {a \in Addr : clients[a] # NoConn}

TypeOK ==
  /\ standalone \in BOOLEAN
  /\ clients \in [Addr -> Conn \cup {NoConn}]
  /\ clientCount \in Int
  /\ accept \in Seq(Conn)
  /\ Len(accept) <= AcceptLen
  /\ peer \in [Conn -> Addr \cup {NoAddr}]
  /\ life \in [Conn -> Stage]
  /\ openSock \subseteq Conn
  /\ readers \subseteq Conn
  /\ accepted \subseteq Conn
  /\ lpc \in {"read", "spawn", "store", "count", "accept"}
  /\ cur \in Conn \cup {NoConn}
  /\ epc \in {"wait", "range", "visit"}
  /\ toRange \subseteq Addr
  /\ list \subseteq Conn
  /\ expiring \in Conn \cup {NoConn}
  /\ seenAlive \subseteq Conn
  /\ panic \in {"none", "deleteConn", "makeslice"}

Init ==
  /\ standalone \in BOOLEAN
  /\ clients = [a \in Addr |-> NoConn]
  /\ clientCount = 0
  /\ accept = <<>>
  /\ peer = [c \in Conn |-> NoAddr]
  /\ life = [c \in Conn |-> "unused"]
  /\ openSock = {}
  /\ readers = {}
  /\ accepted = {}
  /\ lpc = "read"
  /\ cur = NoConn
  /\ epc = "wait"
  /\ toRange = {}
  /\ list = {}
  /\ expiring = NoConn
  /\ seenAlive = {}
  /\ panic = "none"

-----------------------------------------------------------------------------
(***************************************************************************)
(* The listener's read loop: one handshake packet at a time.               *)
(***************************************************************************)

(* Mutant: the table is not looked up first. *)
Handshake_NoLookup(a, c) ==
  /\ lpc = "read"
  /\ life[c] = "unused"
  /\ \A d \in Conn : d < c => life[d] # "unused"
  /\ peer' = [peer EXCEPT ![c] = a]
  /\ UNCHANGED <<tableVars, accept, accepted, readers, expireVars, panic>>

(* A verified token from an address the table does not know: the UDPConn   *)
(* is made and the token is echoed. Packets of known addresses, and first  *)
(* packets that are no valid token, leave this state as it is.             *)
Handshake(a, c) ==
  /\ lpc = "read"
  /\ clients[a] = NoConn
  /\ life[c] = "unused"
  /\ \A d \in Conn : d < c => life[d] # "unused"
  /\ peer' = [peer EXCEPT ![c] = a]
  /\ UNCHANGED <<tableVars, accept, accepted, readers, expireVars, panic>>

(* The echo of the token was written. *)
NewConn(a, c) ==
  /\ Handshake(a, c)
  /\ life' = [life EXCEPT ![c] = "open"]
  /\ openSock' = IF standalone THEN openSock \cup {c} ELSE openSock
  /\ lpc' = IF standalone THEN "spawn" ELSE "store"
  /\ cur' = c

(* The echo failed: the UDPConn is dropped, with its own socket if any. *)
DropConn(a, c) ==
  /\ Handshake(a, c)
  /\ life' = [life EXCEPT ![c] = "discarded"]
  /\ UNCHANGED <<openSock, listenVars>>

(* go uc.readBatchLoopv2(), before the table knows the UDPConn. *)
SpawnReader ==
  /\ lpc = "spawn"
  /\ readers' = readers \cup {cur}
  /\ lpc' = "store"
  /\ UNCHANGED <<tableVars, accept, accepted, peer, life, openSock, cur,
                 expireVars, panic>>

StoreConn ==
  /\ lpc = "store"
  /\ clients' = [clients EXCEPT ![peer[cur]] = cur]
  /\ lpc' = "count"
  /\ UNCHANGED <<clientCount, accept, accepted, connVars, cur, expireVars,
                 panic>>

(* Mutant: the UDPConn is not counted. *)
CountConn_Missing ==
  /\ lpc = "count"
  /\ lpc' = "accept"
  /\ UNCHANGED <<tableVars, accept, accepted, connVars, cur, expireVars,
                 panic>>

CountConn ==
  /\ lpc = "count"
  /\ clientCount' = clientCount + 1
  /\ lpc' = "accept"
  /\ UNCHANGED <<clients, accept, accepted, connVars, cur, expireVars, panic>>

(* l.accept <- uc: waits while the channel is full. *)
OfferConn ==
  /\ lpc = "accept"
  /\ Len(accept) < AcceptLen
  /\ accept' = Append(accept, cur)
  /\ lpc' = "read"
  /\ cur' = NoConn
  /\ UNCHANGED <<tableVars, accepted, connVars, expireVars, panic>>

-----------------------------------------------------------------------------
(***************************************************************************)
(* UDPConn.Close. The first caller sets closed under mux and runs the rest *)
(* of the function; every later caller returns at once.                    *)
(***************************************************************************)

(* Mutant: closed is not tested. *)
SetClosed_Again(c) == life' = [life EXCEPT ![c] = "closing"]

SetClosed(c) ==
  life' = IF IsClosed(c) THEN life ELSE [life EXCEPT ![c] = "closing"]

(* Mutant: the entry stays in the table. *)
CloseDelete_Skip(c) ==
  /\ life[c] = "closing"
  /\ life' = [life EXCEPT ![c] = "removed"]
  /\ UNCHANGED <<tableVars, accept, accepted, peer, openSock, readers,
                 listenVars, expireVars, panic>>

(* deleteConn removes whatever is stored under the key, and panics when    *)
(* nothing is.                                                             *)
CloseDelete(c) ==
  /\ life[c] = "closing"
  /\ IF clients[peer[c]] = NoConn
       THEN /\ panic' = "deleteConn"
            /\ UNCHANGED <<clients, life>>
       ELSE /\ clients' = [clients EXCEPT ![peer[c]] = NoConn]
            /\ life' = [life EXCEPT ![c] = "removed"]
            /\ UNCHANGED panic
  /\ UNCHANGED <<clientCount, accept, accepted, peer, openSock, readers,
                 listenVars, expireVars>>

(* Mutant: no decrement. *)
CloseCount_Missing(c) ==
  /\ life[c] = "removed"
  /\ life' = [life EXCEPT ![c] = "uncounted"]
  /\ UNCHANGED <<tableVars, accept, accepted, peer, openSock, readers,
                 listenVars, expireVars, panic>>

CloseCount(c) ==
  /\ life[c] = "removed"
  /\ clientCount' = clientCount - 1
  /\ life' = [life EXCEPT ![c] = "uncounted"]
  /\ UNCHANGED <<clients, accept, accepted, peer, openSock, readers,
                 listenVars, expireVars, panic>>

(* Mutant: the socket of the UDPConn stays open. *)
CloseSocket_LeftOpen(c) ==
  /\ life[c] = "uncounted"
  /\ life' = [life EXCEPT ![c] = "closed"]
  /\ UNCHANGED <<tableVars, accept, accepted, peer, openSock, readers,
                 listenVars, expireVars, panic>>

(* A standalone UDPConn closes its own lconn; the others share the one of  *)
(* the listener and leave it open.                                         *)
CloseSocket(c) ==
  /\ life[c] = "uncounted"
  /\ life' = [life EXCEPT ![c] = "closed"]
  /\ openSock' = openSock \ {c}
  /\ UNCHANGED <<tableVars, accept, accepted, peer, readers, listenVars,
                 expireVars, panic>>

-----------------------------------------------------------------------------
(* ReadBatch of a standalone UDPConn fails, because its socket was closed  *)
(* or reports an error of its own: the loop closes the UDPConn and quits.  *)
ReaderError(c) ==
  /\ c \in readers
  /\ readers' = readers \ {c}
  /\ SetClosed(c)
  /\ UNCHANGED <<tableVars, accept, accepted, peer, openSock, listenVars,
                 expireVars, panic>>

(* The application takes the next UDPConn from the accept channel. *)
AppAccept ==
  /\ accept # <<>>
  /\ accepted' = accepted \cup {Head(accept)}
  /\ accept' = Tail(accept)
  /\ UNCHANGED <<tableVars, connVars, listenVars, expireVars, panic>>

(* The application, or a deadline timer it armed, closes a UDPConn. *)
AppClose(c) ==
  /\ c \in accepted
  /\ ~ IsClosed(c)
  /\ SetClosed(c)
  /\ UNCHANGED <<tableVars, accept, accepted, peer, openSock, readers,
                 listenVars, expireVars, panic>>

-----------------------------------------------------------------------------
(***************************************************************************)
(* checkExpire: each tick lists the table, which need not be one snapshot, *)
(* and looks at the UDPConns of the list one by one.                       *)
(***************************************************************************)

(* ListClientConns makes a slice whose capacity is clientCount. *)
ExpireTick ==
  /\ epc = "wait"
  /\ IF clientCount < 0
       THEN /\ panic' = "makeslice"
            /\ UNCHANGED <<epc, toRange>>
       ELSE /\ epc' = "range"
            /\ toRange' = Addr
            /\ UNCHANGED panic
  /\ UNCHANGED <<tableVars, accept, accepted, connVars, listenVars, list,
                 expiring, seenAlive>>

ExpireRange(a) ==
  /\ epc = "range"
  /\ a \in toRange
  /\ toRange' = toRange \ {a}
  /\ list' = list \cup ({clients[a]} \ {NoConn})
  /\ epc' = IF toRange' = {} THEN "visit" ELSE "range"
  /\ UNCHANGED <<tableVars, accept, accepted, connVars, listenVars, expiring,
                 seenAlive, panic>>

(* The Close that checkExpire started, if any, has returned. *)
ExpireFree == expiring \in {NoConn} \cup {c \in Conn : life[c] = "closed"}

(* The UDPConn received packets since the last tick, or is seen for the    *)
(* first time.                                                             *)
ExpireAlive(c) ==
  /\ epc = "visit" /\ ExpireFree
  /\ c \in list
  /\ list' = list \ {c}
  /\ seenAlive' = seenAlive \cup {c}
  /\ expiring' = NoConn
  /\ UNCHANGED <<tableVars, accept, accepted, connVars, listenVars, epc,
                 toRange, panic>>

(* The UDPConn received nothing since it was last seen alive. It may still *)
(* be within l.expire, or be past it and closed here. l.expire is at least *)
(* five minutes, so this is never a UDPConn that the listener's read loop  *)
(* has only just stored and not counted yet.                               *)
ExpireIdle(c, past) ==
  /\ epc = "visit" /\ ExpireFree
  /\ c \in list \cap seenAlive
  /\ past => ~ (lpc = "count" /\ cur = c)
  /\ list' = list \ {c}
  /\ expiring' = IF past /\ ~ IsClosed(c) THEN c ELSE NoConn
  /\ IF past THEN SetClosed(c) ELSE UNCHANGED life
  /\ UNCHANGED <<tableVars, accept, accepted, peer, openSock, readers,
                 listenVars, epc, toRange, seenAlive, panic>>

ExpireDone ==
  /\ epc = "visit" /\ ExpireFree
  /\ list = {}
  /\ epc' = "wait"
  /\ expiring' = NoConn
  /\ UNCHANGED <<tableVars, accept, accepted, connVars, listenVars, toRange,
                 list, seenAlive, panic>>

-----------------------------------------------------------------------------
Listen ==
  \/ \E a \in Addr, c \in Conn : NewConn(a, c) \/ DropConn(a, c)
  \/ SpawnReader
  \/ StoreConn
  \/ CountConn
  \/ OfferConn

Close(c) == CloseDelete(c) \/ CloseCount(c) \/ CloseSocket(c)

CheckExpire ==
  \/ ExpireTick
  \/ \E a \in Addr : ExpireRange(a)
  \/ \E c \in Conn : ExpireAlive(c)
  \/ \E c \in Conn, past \in BOOLEAN : ExpireIdle(c, past)
  \/ ExpireDone

(* A panic in any of these goroutines ends the process. Which kind of      *)
(* socket its UDPConns have is settled before a Listener starts.           *)
Running == panic = "none" /\ UNCHANGED standalone

Next ==
  /\ Running
  /\ \/ Listen
     \/ \E c \in Conn : Close(c) \/ ReaderError(c) \/ AppClose(c)
     \/ AppAccept
     \/ CheckExpire

Spec == Init /\ [][Next]_vars

(* The goroutines that are ready to run do run, the application keeps      *)
(* accepting, and a ReadBatch on a closed socket returns its error. Nobody *)
(* has to connect, to fail, or to close, and checkExpire need not run.     *)
Fairness ==
  /\ WF_vars(Running /\ (SpawnReader \/ StoreConn \/ CountConn))
  /\ WF_vars(Running /\ OfferConn)
  /\ WF_vars(Running /\ AppAccept)
  /\ \A c \in Conn :
       /\ WF_vars(Running /\ Close(c))
       /\ WF_vars(Running /\ c \notin openSock /\ ReaderError(c))

FairSpec == Spec /\ Fairness

-----------------------------------------------------------------------------
(* The clients table never holds a UDPConn under an address that is not    *)
(* its own, nor one whose Close has gone past deleteConn: a packet is not  *)
(* delivered to a connection that was already taken down.                  *)
TableOwned ==
  \A a \in Stored :
    /\ peer[clients[a]] = a
    /\ Live(clients[a])

(* At most one UDPConn of an address is between its creation and its       *)
(* deleteConn, however creations and closes of that address interleave.    *)
OneConnPerAddr ==
  \A c, d \in Conn : Live(c) /\ Live(d) /\ peer[c] = peer[d] => c = d

(* deleteConn works by address, yet an entry is only ever removed by the   *)
(* Close of the UDPConn it holds, and a reconnect never overwrites it.     *)
EntryRemovedByOwner ==
  [][\A a \in Stored :
       clients'[a] # clients[a] =>
         /\ clients'[a] = NoConn
         /\ life[clients[a]] = "closing"
         /\ life'[clients[a]] = "removed"]_vars

(* clientCount is the size of the table, up to the creation and the Closes *)
(* that are between their access to the table and their access to the      *)
(* counter.                                                                *)
CountMatchesTable ==
  clientCount = Cardinality(Stored)
                + Cardinality({c \in Conn : life[c] = "removed"})
                - (IF lpc = "count" THEN 1 ELSE 0)

(* No socket leaks: an open standalone socket belongs to a UDPConn that is *)
(* still being created, that the table holds, or whose Close is running.   *)
SocketAccounted ==
  \A c \in openSock :
    \/ c = cur
    \/ clients[peer[c]] = c
    \/ life[c] \in {"closing", "removed", "uncounted"}

(* deleteConn asserts that the key it is given exists (listen.go, the      *)
(* Panicf of deleteConn). Only the read loop of a standalone UDPConn that  *)
(* fails before the listener has stored the UDPConn can make it fail: not  *)
(* the application, not checkExpire, and nobody on a shared socket.        *)
DeleteFindsEntry ==
  panic = "deleteConn" => standalone /\ lpc = "store" /\ cur \notin readers

(* ListClientConns sizes its slice by clientCount, which must not be       *)
(* negative when it does. It is only while the listener has yet to count a *)
(* standalone UDPConn that was closed by its read loop already.            *)
ListCapacityValid ==
  panic = "makeslice" => standalone /\ lpc = "count" /\ cur \notin readers

(* A closed UDPConn is eventually out of the table, with its socket closed *)
(* and its read loop gone.                                                 *)
CloseCompletes ==
  \A c \in Conn :
    life[c] = "closing" ~>
      \/ panic # "none"
      \/ life[c] = "closed" /\ c \notin openSock /\ c \notin readers

=============================================================================
