--------------------------- MODULE ConnTableProofs ---------------------------
(***************************************************************************)
(* For every set of addresses and any number of UDPConns: the clients      *)
(* table of a Listener stays consistent with the UDPConns' own idea of     *)
(* their life, an entry is only removed by the Close of its own UDPConn,   *)
(* and deleteConn finds its entry unless a read loop fails too early.      *)
(***************************************************************************)
EXTENDS ConnTable, SequenceTheorems, FiniteSetTheorems, TLAPS

(***************************************************************************)
(* The inductive invariant.                                                *)
(***************************************************************************)

(* The UDPConns somebody can hold: they were created and not discarded. *)
Made == {c \in Conn : life[c] \notin {"unused", "discarded"}}

InAccept == {accept[i] : i \in DOMAIN accept}

Creating == lpc \in {"spawn", "store"}

Uncounted == lpc \in {"spawn", "store", "count"}

HoldersMade ==
  /\ readers \subseteq Made
  /\ accepted \subseteq Made
  /\ list \subseteq Made
  /\ InAccept \subseteq Made
  /\ lpc # "read" => cur \in Made

MadeHasPeer == \A c \in Made : peer[c] \in Addr

(* The UDPConn being created is live, and its address is still free. *)
CreatingFree == Creating => Live(cur) /\ clients[peer[cur]] = NoConn

(* Every other live UDPConn is in the table. *)
LiveStored ==
  \A c \in Conn : Live(c) => clients[peer[c]] = c \/ (Creating /\ c = cur)

TableInv ==
  /\ TypeOK
  /\ TableOwned
  /\ HoldersMade
  /\ MadeHasPeer
  /\ CreatingFree
  /\ LiveStored

(* Until it is stored, nobody holds the UDPConn that is being created but  *)
(* its own read loop, if it has one.                                       *)
HandOverInv ==
  /\ ~ standalone => readers = {} /\ lpc # "spawn"
  /\ lpc = "spawn" => cur \notin readers
  /\ Creating => cur \notin list
  /\ Uncounted => cur \notin accepted \cup InAccept
  /\ Uncounted /\ life[cur] # "open" =>
       standalone /\ lpc # "spawn" /\ cur \notin readers
  /\ DeleteFindsEntry

-----------------------------------------------------------------------------
LEMMA ConnFacts == Conn \subseteq Nat /\ NoConn \notin Conn
BY ConnTableAssumption DEF Conn, NoConn

(* A UDPConn that is stored, or that is held by somebody, was created. *)
LEMMA LiveMade == \A c \in Conn : Live(c) => c \in Made
BY DEF Live, Made

LEMMA InitTableInv == Init => TableInv
<1> SUFFICES ASSUME Init PROVE TableInv
  OBVIOUS
<1>1. accept \in Seq(Conn) /\ Len(accept) <= AcceptLen
  BY EmptySeq, ConnTableAssumption DEF Init
<1>2. TypeOK
  BY <1>1, ConnTableAssumption DEF Init, TypeOK, Stage
<1>3. InAccept = {}
  BY DEF Init, InAccept
<1> QED
  BY <1>2, <1>3 DEF Init, TableInv, TableOwned, Stored, HoldersMade, MadeHasPeer,
     Made, CreatingFree, Creating, LiveStored, Live

(***************************************************************************)
(* The read loop of the listener.                                          *)
(***************************************************************************)
LEMMA NewConnInv ==
  ASSUME TableInv, UNCHANGED standalone,
         NEW a \in Addr, NEW c \in Conn, NewConn(a, c)
  PROVE  TableInv'
<1>1. /\ lpc = "read" /\ clients[a] = NoConn /\ life[c] = "unused"
      /\ life' = [life EXCEPT ![c] = "open"]
      /\ peer' = [peer EXCEPT ![c] = a]
      /\ cur' = c /\ lpc' \in {"spawn", "store"}
      /\ openSock' \subseteq openSock \cup {c}
      /\ UNCHANGED <<clients, clientCount, accept, accepted, readers, epc,
                     toRange, list, expiring, seenAlive, panic>>
  BY DEF NewConn, Handshake, tableVars, expireVars
<1>2. TypeOK'
  BY <1>1 DEF TableInv, TypeOK, Stage
<1>3. /\ \A d \in Conn \ {c} : life'[d] = life[d] /\ peer'[d] = peer[d]
      /\ life'[c] = "open" /\ peer'[c] = a
  BY <1>1 DEF TableInv, TypeOK
<1>4. Made \subseteq Made' /\ c \in Made' /\ Made' \subseteq Made \cup {c}
  BY <1>3 DEF Made
<1>5. \A b \in Addr : clients[b] # c
  BY <1>1 DEF TableInv, TableOwned, Stored, Live, Conn, NoConn
<1>6. TableOwned'
  BY <1>1, <1>3, <1>5
     DEF TableInv, TypeOK, TableOwned, Stored, Live
<1>7. HoldersMade'
  BY <1>1, <1>4 DEF TableInv, HoldersMade, InAccept
<1>8. MadeHasPeer'
  BY <1>3, <1>4 DEF TableInv, MadeHasPeer, Made
<1>9. CreatingFree'
  BY <1>1, <1>3 DEF CreatingFree, Live
<1>10. LiveStored'
  BY <1>1, <1>3 DEF TableInv, LiveStored, Creating, Live
<1> QED BY <1>2, <1>6, <1>7, <1>8, <1>9, <1>10 DEF TableInv

LEMMA DropConnInv ==
  ASSUME TableInv, UNCHANGED standalone,
         NEW a \in Addr, NEW c \in Conn, DropConn(a, c)
  PROVE  TableInv'
<1>1. /\ lpc = "read" /\ life[c] = "unused"
      /\ life' = [life EXCEPT ![c] = "discarded"]
      /\ peer' = [peer EXCEPT ![c] = a]
      /\ UNCHANGED <<clients, clientCount, accept, accepted, readers, openSock,
                     lpc, cur, epc, toRange, list, expiring, seenAlive, panic>>
  BY DEF DropConn, Handshake, tableVars, expireVars, listenVars
<1>2. TypeOK'
  BY <1>1 DEF TableInv, TypeOK, Stage
<1>3. /\ \A d \in Conn \ {c} : life'[d] = life[d] /\ peer'[d] = peer[d]
      /\ life'[c] = "discarded"
  BY <1>1 DEF TableInv, TypeOK
<1>4. Made' = Made /\ c \notin Made
  BY <1>1, <1>3 DEF Made
<1>5. TableOwned'
  BY <1>1, <1>3 DEF TableInv, TypeOK, TableOwned, Stored, Live
<1>6. HoldersMade' /\ MadeHasPeer'
  BY <1>1, <1>3, <1>4 DEF TableInv, HoldersMade, InAccept, MadeHasPeer, Made
<1>7. CreatingFree' /\ LiveStored'
  BY <1>1, <1>3 DEF TableInv, CreatingFree, LiveStored, Creating, Live
<1> QED BY <1>2, <1>5, <1>6, <1>7 DEF TableInv

LEMMA SpawnReaderInv ==
  ASSUME TableInv, UNCHANGED standalone, SpawnReader
  PROVE  TableInv'
<1>1. cur \in Conn
  BY DEF SpawnReader, TableInv, HoldersMade, Made
<1> QED
  BY <1>1 DEF SpawnReader, tableVars, expireVars, TableInv, TypeOK, TableOwned,
     Stored, HoldersMade, InAccept, MadeHasPeer, Made, CreatingFree,
     LiveStored, Creating, Live

LEMMA StoreConnInv ==
  ASSUME TableInv, UNCHANGED standalone, StoreConn
  PROVE  TableInv'
<1>1. /\ cur \in Conn /\ cur \in Made /\ peer[cur] \in Addr /\ Live(cur)
      /\ clients[peer[cur]] = NoConn
      /\ clients' = [clients EXCEPT ![peer[cur]] = cur]
      /\ lpc = "store" /\ lpc' = "count"
      /\ UNCHANGED <<clientCount, accept, accepted, connVars, cur, expireVars,
                     panic>>
  BY DEF StoreConn, TableInv, HoldersMade, MadeHasPeer, Made, CreatingFree,
     Creating
<1>2. TypeOK'
  BY <1>1 DEF TableInv, TypeOK, connVars, expireVars
<1>3. TableOwned'
  BY <1>1 DEF TableInv, TypeOK, TableOwned, Stored, Live, connVars
<1>4. HoldersMade' /\ MadeHasPeer' /\ CreatingFree'
  BY <1>1 DEF TableInv, HoldersMade, InAccept, MadeHasPeer, Made, CreatingFree,
     Creating, connVars, expireVars
<1>5. LiveStored'
  <2> SUFFICES ASSUME NEW c \in Conn, Live(c)
               PROVE  clients'[peer[c]] = c
    BY <1>1 DEF LiveStored, Live, connVars
  <2>1. peer[c] \in Addr
    BY LiveMade DEF TableInv, MadeHasPeer
  <2>2. CASE c = cur
    BY <1>1, <2>2 DEF TableInv, TypeOK
  <2>3. CASE c # cur
    <3>1. clients[peer[c]] = c
      BY <2>3 DEF TableInv, LiveStored
    <3>2. peer[c] # peer[cur]
      BY <1>1, <3>1, ConnFacts
    <3> QED BY <1>1, <2>1, <3>1, <3>2 DEF TableInv, TypeOK
  <2> QED BY <2>2, <2>3
<1> QED BY <1>2, <1>3, <1>4, <1>5 DEF TableInv

LEMMA CountConnInv ==
  ASSUME TableInv, UNCHANGED standalone, CountConn
  PROVE  TableInv'
BY DEF CountConn, connVars, expireVars, TableInv, TypeOK, TableOwned, Stored,
   HoldersMade, InAccept, MadeHasPeer, Made, CreatingFree, LiveStored,
   Creating, Live

LEMMA OfferConnInv ==
  ASSUME TableInv, UNCHANGED standalone, OfferConn
  PROVE  TableInv'
<1>1. cur \in Made /\ cur \in Conn
  BY DEF OfferConn, TableInv, HoldersMade, Made
<1>2. /\ accept' \in Seq(Conn) /\ Len(accept') = Len(accept) + 1
      /\ InAccept' = InAccept \cup {cur}
  <2>1. /\ accept' = Append(accept, cur) /\ accept \in Seq(Conn)
        /\ Len(accept) \in Nat
    BY LenProperties DEF OfferConn, TableInv, TypeOK
  <2>2. /\ accept' \in Seq(Conn) /\ Len(accept') = Len(accept) + 1
        /\ \A i \in 1 .. Len(accept) : accept'[i] = accept[i]
        /\ accept'[Len(accept) + 1] = cur
    BY <1>1, <2>1, AppendProperties
  <2>3. DOMAIN accept = 1 .. Len(accept) /\ DOMAIN accept' = 1 .. Len(accept) + 1
    BY <2>1, <2>2, LenProperties
  <2> QED BY <2>1, <2>2, <2>3 DEF InAccept
<1>3. TypeOK'
  BY <1>2, ConnTableAssumption, LenProperties
     DEF OfferConn, tableVars, connVars, expireVars, TableInv, TypeOK
<1> QED
  BY <1>1, <1>2, <1>3 DEF OfferConn, tableVars, connVars, expireVars, TableInv,
     TableOwned, Stored, HoldersMade, MadeHasPeer, Made, CreatingFree,
     LiveStored, Creating, Live

-----------------------------------------------------------------------------
(***************************************************************************)
(* Close, and whoever calls it.                                            *)
(***************************************************************************)

(* Setting closed on a UDPConn that somebody holds keeps it live, or       *)
(* leaves it as it is.                                                     *)
LEMMA SetClosedKeeps ==
  ASSUME TypeOK, NEW c \in Made, SetClosed(c)
  PROVE  /\ life' \in [Conn -> Stage]
         /\ Made' = Made
         /\ \A d \in Conn : Live(d)' <=> Live(d)
<1>1. c \in Conn /\ life[c] \in Stage \ {"unused", "discarded"}
  BY DEF Made, TypeOK
<1>2. CASE IsClosed(c)
  BY <1>2 DEF SetClosed, TypeOK, Made, Live
<1>3. CASE ~ IsClosed(c)
  <2>1. life[c] = "open"
    BY <1>1, <1>3 DEF IsClosed, Stage
  <2>2. life' = [life EXCEPT ![c] = "closing"]
    BY <1>3 DEF SetClosed
  <2>3. /\ life' \in [Conn -> Stage]
        /\ life'[c] = "closing"
        /\ \A d \in Conn \ {c} : life'[d] = life[d]
    BY <1>1, <2>2 DEF TypeOK, Stage
  <2> QED BY <1>1, <2>1, <2>3 DEF Made, Live
<1> QED BY <1>2, <1>3

(* So the invariant survives every step that does nothing else to the      *)
(* table, to the UDPConn being created and to the accept channel.          *)
LEMMA SetClosedInv ==
  ASSUME TableInv, UNCHANGED standalone, TypeOK', NEW c \in Made, SetClosed(c),
         readers' \subseteq readers, accepted' \subseteq accepted,
         list' \subseteq list,
         UNCHANGED <<clients, accept, peer, lpc, cur>>
  PROVE  TableInv'
<1>1. /\ Made' = Made
      /\ \A d \in Conn : Live(d)' <=> Live(d)
  BY SetClosedKeeps DEF TableInv
<1>2. TableOwned'
  BY <1>1 DEF TableInv, TypeOK, TableOwned, Stored, NoConn
<1>3. HoldersMade' /\ MadeHasPeer'
  BY <1>1 DEF TableInv, HoldersMade, InAccept, MadeHasPeer
<1>4. CreatingFree'
  <2> SUFFICES ASSUME Creating' PROVE Live(cur)' /\ clients'[peer'[cur']] = NoConn
    BY DEF CreatingFree
  <2>1. cur \in Conn /\ Live(cur) /\ clients[peer[cur]] = NoConn
    BY DEF TableInv, CreatingFree, Creating, HoldersMade, Made
  <2> QED BY <1>1, <2>1
<1>5. LiveStored'
  BY <1>1 DEF TableInv, LiveStored, Creating
<1> QED BY <1>2, <1>3, <1>4, <1>5 DEF TableInv

LEMMA ReaderErrorInv ==
  ASSUME TableInv, UNCHANGED standalone,
         NEW c \in Conn, ReaderError(c)
  PROVE  TableInv'
<1>1. c \in Made /\ SetClosed(c)
  BY DEF ReaderError, TableInv, HoldersMade
<1>2. TypeOK'
  BY <1>1, SetClosedKeeps
     DEF ReaderError, tableVars, listenVars, expireVars, TableInv, TypeOK
<1> QED
  BY <1>1, <1>2, SetClosedInv
     DEF ReaderError, tableVars, listenVars, expireVars

LEMMA AppCloseInv ==
  ASSUME TableInv, UNCHANGED standalone,
         NEW c \in Conn, AppClose(c)
  PROVE  TableInv'
<1>1. c \in Made /\ SetClosed(c)
  BY DEF AppClose, TableInv, HoldersMade
<1>2. TypeOK'
  BY <1>1, SetClosedKeeps
     DEF AppClose, tableVars, listenVars, expireVars, TableInv, TypeOK
<1> QED
  BY <1>1, <1>2, SetClosedInv
     DEF AppClose, tableVars, listenVars, expireVars

(* deleteConn finds nothing, or the entry of the very UDPConn that is      *)
(* being closed: the address of a live UDPConn leads to itself.            *)
LEMMA DeleteFindsOwn ==
  ASSUME TableInv, NEW c \in Conn, life[c] = "closing"
  PROVE  /\ peer[c] \in Addr
         /\ clients[peer[c]] \in {c, NoConn}
         /\ clients[peer[c]] = NoConn => Creating /\ c = cur
<1>1. Live(c) /\ c \in Made
  BY DEF Live, Made
<1> QED
  BY <1>1, ConnFacts
     DEF TableInv, MadeHasPeer, LiveStored, CreatingFree

LEMMA CloseDeleteInv ==
  ASSUME TableInv, UNCHANGED standalone,
         NEW c \in Conn, CloseDelete(c)
  PROVE  TableInv'
<1>1. /\ life[c] = "closing"
      /\ UNCHANGED <<clientCount, accept, accepted, peer, openSock, readers,
                     lpc, cur, epc, toRange, list, expiring, seenAlive>>
  BY DEF CloseDelete, listenVars, expireVars
<1>2. CASE clients[peer[c]] = NoConn
  BY <1>1, <1>2 DEF CloseDelete, TableInv, TypeOK, TableOwned, Stored,
     HoldersMade, InAccept, MadeHasPeer, Made, CreatingFree, LiveStored,
     Creating, Live
<1>3. CASE clients[peer[c]] # NoConn
  <2>1. /\ clients[peer[c]] = c /\ peer[c] \in Addr
        /\ clients' = [clients EXCEPT ![peer[c]] = NoConn]
        /\ life' = [life EXCEPT ![c] = "removed"]
        /\ panic' = panic
    BY <1>1, <1>3, DeleteFindsOwn DEF CloseDelete
  <2>2. TypeOK'
    BY <1>1, <2>1 DEF TableInv, TypeOK, Stage
  <2>3. /\ life'[c] = "removed"
        /\ \A d \in Conn \ {c} : life'[d] = life[d]
        /\ clients'[peer[c]] = NoConn
        /\ \A a \in Addr \ {peer[c]} : clients'[a] = clients[a]
    BY <2>1 DEF TableInv, TypeOK
  <2>4. Made' = Made
    BY <1>1, <2>3 DEF Made
  <2>5. TableOwned'
    BY <1>1, <2>1, <2>3 DEF TableInv, TypeOK, TableOwned, Stored, Live
  <2>6. HoldersMade' /\ MadeHasPeer'
    BY <1>1, <2>4 DEF TableInv, HoldersMade, InAccept, MadeHasPeer
  <2>7. CreatingFree'
    <3> SUFFICES ASSUME Creating
                 PROVE  Live(cur)' /\ clients'[peer[cur]] = NoConn
      BY <1>1 DEF CreatingFree, Creating
    <3>1. cur \in Made /\ Live(cur) /\ clients[peer[cur]] = NoConn
      BY DEF TableInv, CreatingFree, Creating, HoldersMade
    <3>2. cur # c /\ cur \in Conn /\ peer[cur] \in Addr
      BY <1>3, <3>1 DEF Made, TableInv, MadeHasPeer
    <3> QED BY <1>1, <2>3, <3>1, <3>2 DEF Live
  <2>8. LiveStored'
    <3> SUFFICES ASSUME NEW d \in Conn, Live(d)', ~ (Creating /\ d = cur)
                 PROVE  clients'[peer[d]] = d
      BY <1>1 DEF LiveStored, Creating
    <3>1. d # c /\ Live(d)
      BY <2>3 DEF Live
    <3>2. clients[peer[d]] = d /\ peer[d] \in Addr
      BY <3>1, LiveMade DEF TableInv, LiveStored, MadeHasPeer
    <3> QED BY <2>1, <2>3, <3>1, <3>2
  <2> QED BY <2>2, <2>5, <2>6, <2>7, <2>8 DEF TableInv
<1> QED BY <1>2, <1>3

(* The rest of Close touches neither the table nor a live UDPConn.         *)
LEMMA CloseRestInv ==
  ASSUME TableInv, UNCHANGED standalone,
         NEW c \in Conn, CloseCount(c) \/ CloseSocket(c)
  PROVE  TableInv'
<1>1. /\ life[c] \in {"removed", "uncounted"}
      /\ \E s \in {"uncounted", "closed"} : life' = [life EXCEPT ![c] = s]
      /\ clientCount' \in {clientCount, clientCount - 1}
      /\ openSock' \subseteq openSock
      /\ UNCHANGED <<clients, accept, accepted, peer, readers, lpc, cur, epc,
                     toRange, list, expiring, seenAlive, panic>>
  BY DEF CloseCount, CloseSocket, tableVars, listenVars, expireVars
<1>2. TypeOK'
  BY <1>1 DEF TableInv, TypeOK, Stage
<1>3. /\ life'[c] \in {"uncounted", "closed"}
      /\ \A d \in Conn \ {c} : life'[d] = life[d]
  BY <1>1 DEF TableInv, TypeOK
<1>4. Made' = Made /\ (\A d \in Conn : Live(d)' <=> Live(d))
  BY <1>1, <1>3 DEF Made, Live
<1>5. TableOwned'
  BY <1>1, <1>4 DEF TableInv, TypeOK, TableOwned, Stored, NoConn
<1>6. HoldersMade' /\ MadeHasPeer'
  BY <1>1, <1>4 DEF TableInv, HoldersMade, InAccept, MadeHasPeer
<1>7. CreatingFree'
  BY <1>1, <1>4 DEF TableInv, CreatingFree, Creating, HoldersMade, Made
<1>8. LiveStored'
  BY <1>1, <1>4 DEF TableInv, LiveStored, Creating
<1> QED BY <1>2, <1>5, <1>6, <1>7, <1>8 DEF TableInv

LEMMA AppAcceptInv ==
  ASSUME TableInv, UNCHANGED standalone, AppAccept
  PROVE  TableInv'
<1>1. /\ accept \in Seq(Conn) /\ accept # <<>> /\ accept' = Tail(accept)
      /\ Len(accept) \in Nat \ {0} /\ DOMAIN accept = 1 .. Len(accept)
  BY LenProperties, EmptySeq DEF AppAccept, TableInv, TypeOK
<1>2. /\ accept' \in Seq(Conn) /\ Len(accept') = Len(accept) - 1
      /\ DOMAIN accept' = 1 .. Len(accept) - 1
      /\ \A i \in 1 .. Len(accept) - 1 : accept'[i] = accept[i + 1]
      /\ Head(accept) = accept[1]
  BY <1>1, HeadTailProperties, LenProperties
<1>3. InAccept' \subseteq InAccept /\ Head(accept) \in InAccept
  BY <1>1, <1>2 DEF InAccept
<1>4. accepted' \subseteq Made
  BY <1>3 DEF AppAccept, TableInv, HoldersMade
<1>5. TypeOK'
  <2>1. Len(accept') <= AcceptLen /\ accepted' \subseteq Conn
    BY <1>1, <1>2, <1>4, ConnTableAssumption DEF TableInv, TypeOK, Made
  <2> QED
    BY <1>2, <2>1 DEF AppAccept, tableVars, connVars, listenVars, expireVars,
       TableInv, TypeOK
<1> QED
  BY <1>3, <1>4, <1>5
     DEF AppAccept, tableVars, connVars, listenVars, expireVars, TableInv,
         TableOwned, Stored, HoldersMade, MadeHasPeer, Made, CreatingFree,
         LiveStored, Creating, Live

(***************************************************************************)
(* checkExpire: what it lists is what the table holds, hence made.         *)
(***************************************************************************)
LEMMA ExpireRangeInv ==
  ASSUME TableInv, UNCHANGED standalone,
         NEW a \in Addr, ExpireRange(a)
  PROVE  TableInv'
<1>1. {clients[a]} \ {NoConn} \subseteq Made
  BY LiveMade DEF TableInv, TypeOK, TableOwned, Stored
<1>2. list' \subseteq Made
  BY <1>1 DEF ExpireRange, TableInv, HoldersMade
<1> QED
  BY <1>2 DEF ExpireRange, tableVars, connVars, listenVars, TableInv, TypeOK,
     TableOwned, Stored, HoldersMade, InAccept, MadeHasPeer, Made,
     CreatingFree, LiveStored, Creating, Live

LEMMA ExpireIdleInv ==
  ASSUME TableInv, UNCHANGED standalone,
         NEW c \in Conn, NEW past \in BOOLEAN, ExpireIdle(c, past)
  PROVE  TableInv'
<1>1. c \in Made
  BY DEF ExpireIdle, TableInv, HoldersMade
<1>2. CASE past
  <2>1. SetClosed(c)
    BY <1>2 DEF ExpireIdle
  <2>2. expiring' \in Conn \cup {NoConn}
    BY <1>2 DEF ExpireIdle
  <2>3. TypeOK'
    BY <1>1, <2>1, <2>2, SetClosedKeeps
       DEF ExpireIdle, tableVars, listenVars, TableInv, TypeOK
  <2> QED
    BY <1>1, <2>1, <2>3, SetClosedInv
       DEF ExpireIdle, tableVars, listenVars, expireVars
<1>3. CASE ~ past
  BY <1>3 DEF ExpireIdle, tableVars, listenVars, TableInv, TypeOK,
     TableOwned, Stored, HoldersMade, InAccept, MadeHasPeer, Made,
     CreatingFree, LiveStored, Creating, Live
<1> QED BY <1>2, <1>3

(* The other steps of checkExpire only move its own state.                 *)
LEMMA ExpireRestInv ==
  ASSUME TableInv, UNCHANGED standalone,
         ExpireTick \/ ExpireDone \/ \E c \in Conn : ExpireAlive(c)
  PROVE  TableInv'
<1>1. /\ UNCHANGED <<tableVars, connVars, listenVars, accept, accepted>>
      /\ list' \subseteq list
  BY DEF ExpireTick, ExpireDone, ExpireAlive
<1>2. TypeOK'
  BY <1>1, ConnFacts DEF ExpireTick, ExpireDone, ExpireAlive, tableVars, connVars,
     listenVars, TableInv, TypeOK
<1> QED
  BY <1>1, <1>2 DEF tableVars, connVars, listenVars, TableInv,
     TableOwned, Stored, HoldersMade, InAccept, MadeHasPeer, Made,
     CreatingFree, LiveStored, Creating, Live

LEMMA TableStutterInv == ASSUME TableInv, UNCHANGED vars PROVE TableInv'
BY DEF vars, tableVars, connVars, listenVars, expireVars, TableInv, TypeOK,
   TableOwned, Stored, HoldersMade, InAccept, MadeHasPeer, Made, CreatingFree,
   LiveStored, Creating, Live

(* The invariant is inductive.                                             *)
LEMMA StepTableInv == ASSUME TableInv, [Next]_vars PROVE TableInv'
<1>1. CASE UNCHANGED vars
  BY <1>1, TableStutterInv
<1>2. CASE Next
  <2>1. UNCHANGED standalone
    BY <1>2 DEF Next, Running
  <2>2. CASE Listen
    BY <2>1, <2>2, NewConnInv, DropConnInv, SpawnReaderInv, StoreConnInv,
       CountConnInv, OfferConnInv DEF Listen
  <2>3. ASSUME NEW c \in Conn, Close(c) \/ ReaderError(c) \/ AppClose(c)
        PROVE  TableInv'
    BY <2>1, <2>3, CloseDeleteInv, CloseRestInv, ReaderErrorInv, AppCloseInv
       DEF Close
  <2>4. CASE AppAccept
    BY <2>1, <2>4, AppAcceptInv
  <2>5. CASE CheckExpire
    BY <2>1, <2>5, ExpireRangeInv, ExpireIdleInv, ExpireRestInv DEF CheckExpire
  <2> QED BY <1>2, <2>2, <2>3, <2>4, <2>5 DEF Next
<1> QED BY <1>1, <1>2

LEMMA TableInvariant == Spec => []TableInv
<1>1. TableInv /\ [Next]_vars => TableInv'
  BY StepTableInv
<1> QED BY InitTableInv, <1>1, PTL DEF Spec

(* The state of the listener and of its UDPConns is well typed.            *)
THEOREM TableTypeCorrect == Spec => []TypeOK
BY TableInvariant, PTL DEF TableInv

(* A packet is only ever delivered to a UDPConn of its own address that    *)
(* was not taken down.                                                     *)
THEOREM TableIsOwned == Spec => []TableOwned
BY TableInvariant, PTL DEF TableInv

(* An address has at most one UDPConn, through any interleaving of         *)
(* handshakes, closes, read errors and expiry.                             *)
THEOREM OneConn == Spec => []OneConnPerAddr
<1>1. TableInv => OneConnPerAddr
  <2> SUFFICES ASSUME TableInv, NEW c \in Conn, NEW d \in Conn,
                      Live(c), Live(d), peer[c] = peer[d]
               PROVE  c = d
    BY DEF OneConnPerAddr
  <2>1. clients[peer[c]] = c \/ (Creating /\ c = cur)
    BY DEF TableInv, LiveStored
  <2>2. clients[peer[d]] = d \/ (Creating /\ d = cur)
    BY DEF TableInv, LiveStored
  <2>3. Creating => clients[peer[cur]] = NoConn
    BY DEF TableInv, CreatingFree
  <2> QED BY <2>1, <2>2, <2>3, ConnFacts
<1> QED BY <1>1, TableInvariant, PTL

(* deleteConn is given an address, and still removes nothing but the entry *)
(* of the UDPConn whose Close called it; a handshake never overwrites one. *)
THEOREM OnlyOwnerRemoves == Spec => EntryRemovedByOwner
<1> DEFINE Owner ==
      \A a \in Stored :
        clients'[a] # clients[a] =>
          /\ clients'[a] = NoConn
          /\ life[clients[a]] = "closing"
          /\ life'[clients[a]] = "removed"
<1>1. ASSUME TableInv, [Next]_vars PROVE Owner \/ UNCHANGED vars
  <2> SUFFICES ASSUME clients' # clients, Next PROVE Owner
    BY <1>1
  <2>1. CASE StoreConn
    <3>1. /\ clients' = [clients EXCEPT ![peer[cur]] = cur]
          /\ clients[peer[cur]] = NoConn
      BY <1>1, <2>1 DEF StoreConn, TableInv, CreatingFree, Creating
    <3> QED BY <1>1, <3>1 DEF TableInv, TypeOK, Stored
  <2>2. ASSUME NEW c \in Conn, CloseDelete(c) PROVE Owner
    <3>1. clients[peer[c]] # NoConn /\ life[c] = "closing"
      BY <2>2 DEF CloseDelete
    <3>2. clients[peer[c]] = c
      BY <1>1, <3>1, DeleteFindsOwn
    <3>3. /\ clients' = [clients EXCEPT ![peer[c]] = NoConn]
          /\ life' = [life EXCEPT ![c] = "removed"]
      BY <2>2, <3>1 DEF CloseDelete
    <3> QED BY <1>1, <3>1, <3>2, <3>3 DEF TableInv, TypeOK, Stored
  <2>3. StoreConn \/ \E c \in Conn : CloseDelete(c)
    BY DEF Next, Listen, NewConn, DropConn, Handshake, SpawnReader, CountConn,
       OfferConn, Close, CloseCount, CloseSocket, ReaderError, AppClose,
       AppAccept, CheckExpire, ExpireTick, ExpireRange, ExpireAlive,
       ExpireIdle, ExpireDone, tableVars
  <2> QED BY <2>1, <2>2, <2>3
<1>2. TableInv /\ [Next]_vars => [Owner]_vars
  BY <1>1
<1> QED BY <1>2, TableInvariant, PTL DEF Spec, EntryRemovedByOwner

-----------------------------------------------------------------------------
(***************************************************************************)
(* Who holds a UDPConn that is being created.                              *)
(***************************************************************************)
LEMMA InitHandOver == Init => HandOverInv
BY DEF Init, HandOverInv, Creating, Uncounted, DeleteFindsEntry

LEMMA AcceptHead ==
  ASSUME TableInv, AppAccept
  PROVE  Head(accept) \in InAccept /\ InAccept' \subseteq InAccept
<1>1. /\ accept \in Seq(Conn) /\ accept # <<>> /\ accept' = Tail(accept)
      /\ Len(accept) \in Nat \ {0} /\ DOMAIN accept = 1 .. Len(accept)
  BY LenProperties, EmptySeq DEF AppAccept, TableInv, TypeOK
<1>2. /\ DOMAIN accept' = 1 .. Len(accept) - 1
      /\ \A i \in 1 .. Len(accept) - 1 : accept'[i] = accept[i + 1]
      /\ Head(accept) = accept[1]
  BY <1>1, HeadTailProperties, LenProperties
<1> QED BY <1>1, <1>2 DEF InAccept

LEMMA StepHandOver ==
  ASSUME TableInv, HandOverInv, [Next]_vars
  PROVE  HandOverInv'
<1> USE DEF HandOverInv, Uncounted, DeleteFindsEntry
<1>0. CASE UNCHANGED vars
  BY <1>0 DEF vars, connVars, listenVars, expireVars, Creating, InAccept
<1> SUFFICES ASSUME Next, panic = "none", UNCHANGED standalone
             PROVE  HandOverInv'
  BY <1>0 DEF Next, Running
<1>1. ASSUME NEW a \in Addr, NEW c \in Conn, NewConn(a, c) PROVE HandOverInv'
  <2>1. c \notin Made /\ life'[c] = "open"
    BY <1>1 DEF NewConn, Handshake, Made, TableInv, TypeOK
  <2>2. c \notin readers \cup accepted \cup list \cup InAccept
    BY <2>1 DEF TableInv, HoldersMade
  <2> QED
    BY <1>1, <2>1, <2>2 DEF NewConn, Handshake, InAccept, expireVars, Creating
<1>2. ASSUME NEW a \in Addr, NEW c \in Conn, DropConn(a, c) PROVE HandOverInv'
  BY <1>2 DEF DropConn, Handshake, listenVars, Creating
<1>3. CASE SpawnReader
  BY <1>3 DEF SpawnReader, expireVars, Creating, InAccept
<1>4. CASE StoreConn \/ CountConn \/ OfferConn
  BY <1>4 DEF StoreConn, CountConn, OfferConn, connVars, expireVars, Creating,
     InAccept
<1>5. ASSUME NEW c \in Conn, CloseDelete(c) PROVE HandOverInv'
  <2>1. CASE clients[peer[c]] = NoConn
    <3>1. life[c] = "closing" /\ Creating /\ c = cur
      BY <1>5, <2>1, DeleteFindsOwn DEF CloseDelete
    <3> QED
      BY <1>5, <2>1, <3>1 DEF CloseDelete, listenVars, expireVars, Creating,
         InAccept
  <2>2. CASE clients[peer[c]] # NoConn
    <3>1. panic' = panic /\ life' = [life EXCEPT ![c] = "removed"]
      BY <1>5, <2>2 DEF CloseDelete
    <3>2. Creating => c # cur
      BY <2>2 DEF TableInv, CreatingFree
    <3> QED
      BY <1>5, <3>1, <3>2 DEF CloseDelete, listenVars, expireVars, Creating,
         InAccept, TableInv, TypeOK, HoldersMade, Made
  <2> QED BY <2>1, <2>2
<1>6. ASSUME NEW c \in Conn, CloseCount(c) \/ CloseSocket(c) PROVE HandOverInv'
  <2>1. life[c] \in {"removed", "uncounted"}
    BY <1>6 DEF CloseCount, CloseSocket
  <2>2. Creating => c # cur
    BY <2>1 DEF TableInv, CreatingFree, Live
  <2> QED
    BY <1>6, <2>1, <2>2 DEF CloseCount, CloseSocket, listenVars, expireVars, Creating,
       InAccept, TableInv, TypeOK, HoldersMade, Made
<1>7. ASSUME NEW c \in Conn, ReaderError(c) PROVE HandOverInv'
  <2>1. c \in Made /\ SetClosed(c) /\ standalone
    BY <1>7 DEF ReaderError, TableInv, HoldersMade
  <2>2. CASE Uncounted /\ c = cur
    BY <1>7, <2>1, <2>2 DEF ReaderError, listenVars, expireVars, Creating,
       InAccept
  <2>3. CASE ~ (Uncounted /\ c = cur)
    <3>1. Uncounted => life'[cur] = life[cur]
      BY <2>1, <2>3 DEF SetClosed, Creating, TableInv, TypeOK, HoldersMade, Made
    <3> QED
      BY <1>7, <2>1, <3>1 DEF ReaderError, listenVars, expireVars, Creating,
         InAccept
  <2> QED BY <2>2, <2>3
<1>8. ASSUME NEW c \in Conn, AppClose(c) PROVE HandOverInv'
  <2>1. SetClosed(c) /\ (Uncounted => c # cur)
    BY <1>8 DEF AppClose
  <2>2. Uncounted => life'[cur] = life[cur]
    BY <2>1 DEF SetClosed, Creating, TableInv, TypeOK, HoldersMade, Made
  <2> QED
    BY <1>8, <2>2 DEF AppClose, listenVars, expireVars, Creating, InAccept
<1>9. CASE AppAccept
  BY <1>9, AcceptHead DEF AppAccept, connVars, listenVars, expireVars, Creating
<1>10. ASSUME NEW a \in Addr, ExpireRange(a) PROVE HandOverInv'
  <2>1. Creating => clients[a] # cur
    BY ConnFacts DEF TableInv, TableOwned, Stored, CreatingFree, Creating,
       HoldersMade, Made
  <2> QED
    BY <1>10, <2>1 DEF ExpireRange, connVars, listenVars, Creating, InAccept
<1>11. ASSUME NEW c \in Conn, NEW past \in BOOLEAN, ExpireIdle(c, past)
       PROVE  HandOverInv'
  <2>1. Creating => c # cur
    BY <1>11 DEF ExpireIdle
  <2>2. Uncounted => life'[cur] = life[cur]
    BY <1>11, <2>1 DEF ExpireIdle, SetClosed, Creating, TableInv, TypeOK,
       HoldersMade, Made
  <2> QED
    BY <1>11, <2>2 DEF ExpireIdle, listenVars, Creating, InAccept
<1>12. CASE ExpireTick \/ ExpireDone \/ \E c \in Conn : ExpireAlive(c)
  BY <1>12 DEF ExpireTick, ExpireDone, ExpireAlive, connVars, listenVars,
     Creating, InAccept
<1> HIDE DEF HandOverInv, Uncounted, DeleteFindsEntry
<1>13. CASE Listen
  BY <1>1, <1>2, <1>3, <1>4, <1>13 DEF Listen
<1>14. CASE CheckExpire
  BY <1>10, <1>11, <1>12, <1>14 DEF CheckExpire
<1> QED
  BY <1>5, <1>6, <1>7, <1>8, <1>9, <1>13, <1>14 DEF Next, Close

LEMMA HandOver == Spec => []HandOverInv
<1>1. TableInv /\ HandOverInv /\ [Next]_vars => HandOverInv'
  BY StepHandOver
<1> QED BY InitHandOver, <1>1, TableInvariant, PTL DEF Spec

(* The Panicf of deleteConn is reached in one way only: the read loop of a *)
(* standalone UDPConn fails before the listener has stored the UDPConn. On *)
(* a shared socket it never is.                                            *)
THEOREM DeleteFindsItsEntry == Spec => []DeleteFindsEntry
<1>1. HandOverInv => DeleteFindsEntry
  BY DEF HandOverInv
<1> QED BY <1>1, HandOver, PTL

-----------------------------------------------------------------------------
(***************************************************************************)
(* Sockets.                                                                *)
(***************************************************************************)
SocketInv ==
  \A c \in openSock : life[c] \in {"open", "closing", "removed", "uncounted"}

LEMMA StepSocket ==
  ASSUME TableInv, SocketInv, [Next]_vars PROVE SocketInv'
<1> USE DEF SocketInv, TableInv, TypeOK
<1>1. ASSUME NEW c \in Conn, SetClosed(c), openSock' = openSock
      PROVE  SocketInv'
  BY <1>1 DEF SetClosed, IsClosed
<1>2. CASE Listen
  BY <1>2 DEF Listen, NewConn, DropConn, Handshake, SpawnReader, StoreConn,
     CountConn, OfferConn, connVars
<1>3. ASSUME NEW c \in Conn, Close(c) PROVE SocketInv'
  BY <1>3 DEF Close, CloseDelete, CloseCount, CloseSocket
<1>4. ASSUME NEW c \in Conn, ReaderError(c) \/ AppClose(c) PROVE SocketInv'
  BY <1>1, <1>4 DEF ReaderError, AppClose
<1>5. CASE AppAccept \/ ExpireTick \/ ExpireDone
  BY <1>5 DEF AppAccept, ExpireTick, ExpireDone, connVars
<1>6. ASSUME NEW a \in Addr, ExpireRange(a) PROVE SocketInv'
  BY <1>6 DEF ExpireRange, connVars
<1>7. ASSUME NEW c \in Conn, ExpireAlive(c) PROVE SocketInv'
  BY <1>7 DEF ExpireAlive, connVars
<1>8. ASSUME NEW c \in Conn, NEW past \in BOOLEAN, ExpireIdle(c, past)
      PROVE  SocketInv'
  BY <1>1, <1>8 DEF ExpireIdle
<1>9. CASE UNCHANGED vars
  BY <1>9 DEF vars, connVars
<1> HIDE DEF SocketInv, TableInv, TypeOK
<1> QED
  BY <1>2, <1>3, <1>4, <1>5, <1>6, <1>7, <1>8, <1>9 DEF Next, CheckExpire

(* No socket leaks: whatever socket is open belongs to a UDPConn that is   *)
(* being created, stored, or in its Close.                                 *)
THEOREM SocketsAccounted == Spec => []SocketAccounted
<1>1. Init => SocketInv
  BY DEF Init, SocketInv
<1>2. TableInv /\ SocketInv /\ [Next]_vars => SocketInv'
  BY StepSocket
<1>3. TableInv /\ SocketInv => SocketAccounted
  BY DEF TableInv, TypeOK, SocketInv, SocketAccounted, LiveStored, Live
<1> QED BY <1>1, <1>2, <1>3, TableInvariant, PTL DEF Spec

-----------------------------------------------------------------------------
(***************************************************************************)
(* The counter.                                                            *)
(***************************************************************************)
Removed == {c \in Conn : life[c] = "removed"}

CountInv == IsFiniteSet(Stored) /\ CountMatchesTable

LEMMA RemovedFinite == IsFiniteSet(Removed)
<1>1. IsFiniteSet(Conn)
  BY ConnTableAssumption, FS_Interval DEF Conn
<1> QED BY <1>1, FS_Subset DEF Removed

(* A step that leaves the table, the counter and the removed UDPConns      *)
(* alone, and does not move the listener over its count, keeps CountInv.   *)
LEMMA CountFrame ==
  ASSUME CountInv, clients' = clients, clientCount' = clientCount,
         Removed' = Removed, lpc' = "count" <=> lpc = "count"
  PROVE  CountInv'
BY DEF CountInv, CountMatchesTable, Stored, Removed

LEMMA SetClosedRemoved ==
  ASSUME TableInv, NEW c \in Made, SetClosed(c) PROVE Removed' = Removed
<1>1. life[c] \in Stage /\ c \in Conn /\ life[c] \notin {"unused", "discarded"}
  BY DEF Made, TableInv, TypeOK
<1> QED
  BY <1>1 DEF SetClosed, IsClosed, Removed, TableInv, TypeOK, Stage

LEMMA StoreCount == ASSUME TableInv, CountInv, StoreConn PROVE CountInv'
<1>1. /\ peer[cur] \in Addr /\ peer[cur] \notin Stored /\ cur \in Conn
      /\ clients' = [clients EXCEPT ![peer[cur]] = cur]
      /\ clientCount' = clientCount /\ lpc = "store" /\ lpc' = "count"
      /\ Removed' = Removed
  BY DEF StoreConn, TableInv, CreatingFree, Creating, HoldersMade, Made,
     MadeHasPeer, Stored, Removed, connVars
<1>2. Stored' = Stored \cup {peer[cur]}
  BY <1>1, ConnFacts DEF TableInv, TypeOK, Stored
<1>3. IsFiniteSet(Stored') /\ Cardinality(Stored') = Cardinality(Stored) + 1
  BY <1>1, <1>2, FS_AddElement DEF CountInv
<1>4. Cardinality(Removed) \in Nat /\ Cardinality(Stored) \in Nat
  BY RemovedFinite, FS_CardinalityType DEF CountInv
<1>5. clientCount = Cardinality(Stored) + Cardinality(Removed)
  BY <1>1, <1>4 DEF CountInv, CountMatchesTable, Removed
<1>6. clientCount' = Cardinality(Stored') + Cardinality(Removed') - 1
  BY <1>1, <1>3, <1>4, <1>5
<1> QED BY <1>1, <1>3, <1>6 DEF CountInv, CountMatchesTable, Removed

LEMMA DeleteCount ==
  ASSUME TableInv, CountInv, NEW c \in Conn, CloseDelete(c) PROVE CountInv'
<1>1. /\ life[c] = "closing" /\ clientCount' = clientCount /\ lpc' = lpc
  BY DEF CloseDelete, listenVars
<1>2. CASE clients[peer[c]] = NoConn
  <2>1. clients' = clients /\ Removed' = Removed
    BY <1>2 DEF CloseDelete, Removed
  <2> QED BY <1>1, <2>1, CountFrame
<1>3. CASE clients[peer[c]] # NoConn
  <2>1. /\ peer[c] \in Addr /\ peer[c] \in Stored
        /\ clients' = [clients EXCEPT ![peer[c]] = NoConn]
        /\ life' = [life EXCEPT ![c] = "removed"]
    BY <1>1, <1>3, DeleteFindsOwn DEF CloseDelete, Stored
  <2>2. Stored' = Stored \ {peer[c]}
    BY <2>1 DEF TableInv, TypeOK, Stored
  <2>3. Removed' = Removed \cup {c} /\ c \notin Removed
    BY <1>1, <2>1 DEF TableInv, TypeOK, Removed
  <2>4. /\ IsFiniteSet(Stored')
        /\ Cardinality(Stored') = Cardinality(Stored) - 1
    BY <2>1, <2>2, FS_RemoveElement DEF CountInv
  <2>5. Cardinality(Removed') = Cardinality(Removed) + 1
    BY <2>3, RemovedFinite, FS_AddElement
  <2>6. Cardinality(Removed) \in Nat /\ Cardinality(Stored) \in Nat
    BY RemovedFinite, FS_CardinalityType DEF CountInv
  <2>7. Cardinality(Stored') + Cardinality(Removed')
          = Cardinality(Stored) + Cardinality(Removed)
    BY <2>4, <2>5, <2>6
  <2>8. clientCount = Cardinality(Stored) + Cardinality(Removed)
                      - (IF lpc = "count" THEN 1 ELSE 0)
    BY DEF CountInv, CountMatchesTable, Removed
  <2>9. clientCount' = Cardinality(Stored') + Cardinality(Removed')
                       - (IF lpc' = "count" THEN 1 ELSE 0)
    <3>1. lpc' = lpc /\ clientCount' = clientCount
      BY <1>1
    <3> QED BY <2>4, <2>5, <2>6, <2>7, <2>8, <3>1
  <2> QED BY <2>4, <2>9 DEF CountInv, CountMatchesTable, Removed
<1> QED BY <1>2, <1>3

LEMMA DecrementCount ==
  ASSUME TableInv, CountInv, NEW c \in Conn, CloseCount(c) PROVE CountInv'
<1>1. /\ c \in Removed /\ life' = [life EXCEPT ![c] = "uncounted"]
      /\ clientCount' = clientCount - 1 /\ clients' = clients /\ lpc' = lpc
  BY DEF CloseCount, Removed, listenVars
<1>2. Removed' = Removed \ {c}
  BY <1>1 DEF TableInv, TypeOK, Removed
<1>3. Cardinality(Removed') = Cardinality(Removed) - 1
  BY <1>1, <1>2, RemovedFinite, FS_RemoveElement
<1>4. Cardinality(Removed) \in Nat /\ Cardinality(Stored) \in Nat
  BY RemovedFinite, FS_CardinalityType DEF CountInv
<1>5. Stored' = Stored
  BY <1>1 DEF Stored
<1> QED BY <1>1, <1>3, <1>4, <1>5 DEF CountInv, CountMatchesTable, Removed

LEMMA StepCount ==
  ASSUME TableInv, CountInv, [Next]_vars PROVE CountInv'
<1>1. ASSUME NEW a \in Addr, NEW c \in Conn, NewConn(a, c) \/ DropConn(a, c)
      PROVE  CountInv'
  <2>1. /\ UNCHANGED <<clients, clientCount>>
        /\ lpc' = "count" <=> lpc = "count"
        /\ life[c] = "unused"
        /\ \E s \in {"open", "discarded"} : life' = [life EXCEPT ![c] = s]
    BY <1>1 DEF NewConn, DropConn, Handshake, tableVars, listenVars
  <2>2. Removed' = Removed
    BY <2>1 DEF TableInv, TypeOK, Removed
  <2> QED BY <2>1, <2>2, CountFrame
<1>2. CASE SpawnReader \/ OfferConn
  BY <1>2, CountFrame DEF SpawnReader, OfferConn, tableVars, connVars, Removed
<1>3. CASE CountConn
  <2>1. Cardinality(Removed) \in Nat /\ Cardinality(Stored) \in Nat
    BY RemovedFinite, FS_CardinalityType DEF CountInv
  <2>2. /\ clientCount' = clientCount + 1 /\ lpc = "count" /\ lpc' = "accept"
        /\ Stored' = Stored /\ Removed' = Removed
    BY <1>3 DEF CountConn, connVars, Stored, Removed
  <2>3. clientCount = Cardinality(Stored) + Cardinality(Removed) - 1
    BY <2>2 DEF CountInv, CountMatchesTable, Removed
  <2>4. clientCount' = Cardinality(Stored') + Cardinality(Removed') - 0
    BY <2>1, <2>2, <2>3
  <2> QED BY <2>2, <2>4 DEF CountInv, CountMatchesTable, Removed
<1>4. ASSUME NEW c \in Conn, CloseSocket(c) PROVE CountInv'
  <2>1. /\ life[c] = "uncounted" /\ life' = [life EXCEPT ![c] = "closed"]
        /\ UNCHANGED <<clients, clientCount, lpc>>
    BY <1>4 DEF CloseSocket, tableVars, listenVars
  <2>2. Removed' = Removed
    BY <2>1 DEF TableInv, TypeOK, Removed
  <2> QED BY <2>1, <2>2, CountFrame
<1>5. ASSUME NEW c \in Conn, ReaderError(c) \/ AppClose(c) PROVE CountInv'
  <2>1. c \in Made
    BY <1>5 DEF ReaderError, AppClose, TableInv, HoldersMade
  <2>2. Removed' = Removed
    BY <1>5, <2>1, SetClosedRemoved DEF ReaderError, AppClose
  <2> QED
    BY <1>5, <2>2, CountFrame DEF ReaderError, AppClose, tableVars, listenVars
<1>6. ASSUME NEW c \in Conn, NEW past \in BOOLEAN, ExpireIdle(c, past)
      PROVE  CountInv'
  <2>1. c \in Made
    BY <1>6 DEF ExpireIdle, TableInv, HoldersMade
  <2>2. Removed' = Removed
    BY <1>6, <2>1, SetClosedRemoved DEF ExpireIdle, Removed
  <2> QED BY <1>6, <2>2, CountFrame DEF ExpireIdle, tableVars, listenVars
<1>7. CASE AppAccept \/ ExpireTick \/ ExpireDone
  BY <1>7, CountFrame
     DEF AppAccept, ExpireTick, ExpireDone, tableVars, connVars, listenVars,
         Removed
<1>8. ASSUME NEW a \in Addr, ExpireRange(a) PROVE CountInv'
  BY <1>8, CountFrame DEF ExpireRange, tableVars, connVars, listenVars, Removed
<1>9. ASSUME NEW c \in Conn, ExpireAlive(c) PROVE CountInv'
  BY <1>9, CountFrame DEF ExpireAlive, tableVars, connVars, listenVars, Removed
<1>10. CASE UNCHANGED vars
  BY <1>10, CountFrame DEF vars, tableVars, connVars, listenVars, Removed
<1> QED
  BY <1>1, <1>2, <1>3, <1>4, <1>5, <1>6, <1>7, <1>8, <1>9, <1>10, StoreCount,
     DeleteCount, DecrementCount DEF Next, Listen, Close, CheckExpire

LEMMA InitCount == Init => CountInv
<1> SUFFICES ASSUME Init PROVE CountInv
  OBVIOUS
<1>1. Stored = {} /\ Removed = {} /\ clientCount = 0 /\ lpc = "read"
  BY DEF Init, Stored, Removed
<1> QED BY <1>1, FS_EmptySet DEF CountInv, CountMatchesTable, Removed

LEMMA CountInvariant == Spec => []CountInv
<1>1. TableInv /\ CountInv /\ [Next]_vars => CountInv'
  BY StepCount
<1> QED BY InitCount, <1>1, TableInvariant, PTL DEF Spec

(* clientCount and the table, which two steps each of several goroutines   *)
(* update, differ by the goroutines between their two steps and no more.   *)
THEOREM CountIsExact == Spec => []CountMatchesTable
<1>1. CountInv => CountMatchesTable
  BY DEF CountInv
<1> QED BY <1>1, CountInvariant, PTL

(* ListClientConns can be given a negative capacity in one way only: the   *)
(* read loop of a standalone UDPConn closes it before it is counted.       *)
THEOREM CapacityIsValid == Spec => []ListCapacityValid
<1>1. Init => ListCapacityValid
  BY DEF Init, ListCapacityValid
<1>2. ASSUME TableInv, HandOverInv, CountInv, ListCapacityValid, [Next]_vars
      PROVE  ListCapacityValid'
  <2>1. CASE UNCHANGED vars
    BY <1>2, <2>1 DEF vars, connVars, listenVars, ListCapacityValid
  <2>2. CASE Next /\ ~ ExpireTick
    <3>1. panic = "none"
      BY <2>2 DEF Next, Running
    <3>2. panic' \in {panic, "deleteConn"}
      BY <2>2 DEF Next, Listen, NewConn, DropConn, Handshake, SpawnReader,
         StoreConn, CountConn, OfferConn, Close, CloseDelete, CloseCount,
         CloseSocket, ReaderError, AppClose, AppAccept, CheckExpire,
         ExpireRange, ExpireAlive, ExpireIdle, ExpireDone
    <3> QED BY <3>1, <3>2 DEF ListCapacityValid
  <2>3. CASE Next /\ ExpireTick
    <3>1. CASE clientCount >= 0
      <4>1. clientCount \in Int /\ panic = "none"
        BY <1>2, <2>3 DEF Next, Running, TableInv, TypeOK
      <4>2. panic' = "none"
        BY <3>1, <4>1, <2>3 DEF ExpireTick
      <4> QED BY <4>2 DEF ListCapacityValid
    <3>2. CASE clientCount < 0
      <4>1. Cardinality(Removed) \in Nat /\ Cardinality(Stored) \in Nat
        BY <1>2, RemovedFinite, FS_CardinalityType DEF CountInv
      <4>2. lpc = "count" /\ Cardinality(Stored) = 0
        BY <1>2, <3>2, <4>1 DEF CountInv, CountMatchesTable, Removed
      <4>3. Stored = {}
        BY <1>2, <4>2, FS_EmptySet DEF CountInv
      <4>4. cur \in Made /\ cur \in Conn /\ peer[cur] \in Addr
        BY <1>2, <4>2 DEF TableInv, HoldersMade, MadeHasPeer, Made
      <4>5. life[cur] # "open"
        BY <1>2, <4>2, <4>3, <4>4, ConnFacts
           DEF TableInv, LiveStored, Live, Creating, Stored
      <4> QED
        BY <1>2, <2>3, <4>2, <4>5 DEF HandOverInv, Uncounted, Next, Running,
           ExpireTick, connVars, listenVars, ListCapacityValid
    <3> QED BY <1>2, <3>1, <3>2 DEF TableInv, TypeOK
  <2> QED BY <1>2, <2>1, <2>2, <2>3
<1> QED
  BY <1>1, <1>2, TableInvariant, HandOver, CountInvariant, PTL DEF Spec

=============================================================================
