# A verification of udpx

`udpx` (package in `src/`) puts connections on top of UDP: a `UdpListen` with
several `Listener`s hands out a `UDPConn` per remote address, a client dials
one, and both sides read and write in batches through channels and pooled
buffers. Almost everything that can go wrong in it is an interleaving: Close
takes no lock but around one flag, queues are fields that other goroutines set
to nil, and a connection is known by its address while old and new ones of one
address overlap. This directory models that code in TLA+, checks the models
with TLC and proves the most important results with TLAPS.

Contents: [the system](#1-the-system), [the modules](#2-the-modules),
[the runs](#3-the-runs), [bounds](#4-bounds), [fairness](#5-fairness),
[proofs](#6-proofs), [disagreements](#7-disagreements),
[what is not modelled](#8-what-is-not-modelled), [plan](#9-plan).

## 1. The system

Paths are relative to `src/`. For each component: its state, its operations,
whom it meets, what makes it hard, and what makes it right.

**Client table and life cycle of accepted connections** (`listen.go`,
`listenv2.go`, `udpconn.go`). State: `Listener.clients` (a `sync.Map`),
`clientCount`, the `accept` channel, and in each `UDPConn` `closed`, `dead`,
`lconn`. Operations: `getUDPConn` (shared socket), `CreateUDPConnByDstAddr` (a
socket of its own, when `IP_PKTINFO` is on), `UDPConn.Close`, `deleteConn`,
`ListClientConns`, `checkExpire` with `updateClientExpire`. Four kinds of goroutine meet there: the
listener's read loop, the read loop of each standalone connection, the
application, and the expiry ticker. Hard: table, counter and socket are updated
in separate steps; `deleteConn` works by address and panics when the address is
absent; a standalone read loop runs before its connection is in the table;
`checkExpire` works on a list that grows old, by counters that others move.
Right: one live connection per address; an entry is removed by its own
connection only; the counter follows the table; no socket leaks; a Close
completes; a connection expires when it was silent, and then does expire.

**Accept path** (`listen.go`). State: `Listener.accept`, `UdpListen.accept`,
`UdpListen.dead`, one forwarding goroutine per Listener. Operations:
`NewUdpListen`, `Start`, `Listen`, `Accept`, `Close`. Hard: `Close` closes two
channels in two steps while `Accept` selects on both and forwarders send on
one; a full channel blocks the forwarder and then the read loop. Right: each
connection arrives once, in order; none is handed out by an `Accept` that
begins after `Close`; each is accepted.

**PCBufioWriter** (`lnwritebatch.go`). State: `writeBatchMsg` (`wms`,
`buffers`, `offset`), `err`. Operations: `Write`, `Flush`, `commit`,
`WriteBatchLoop`. Fed by a channel that others fill and close. Hard: the kernel
sends part of a batch; the loop must flush before it sleeps; three things
(`wms`, `buffers`, `offset`) must keep step. Right: first in, first out,
exactly once; each buffer released once, when its message was sent; nothing
lingers.

**Write path of a connection with its own socket** (`udpconn.go`, `dial.go`).
State: `txqueue`, `closed`, `dead`, `lconn`. `Write` and `PutTxQueue` read the
field `txqueue` that `Close` clears and that `writeBatchLoop` may make anew,
none of it under a lock. Right: nobody finds a closed channel in the field;
there is one queue while the connection is open; a Close that begins when the
loop already ranges over its channel ends it (one that overtakes the loop's
start need not, section 7); a Write on an open connection returns.

**Write path of a Listener** (`lnwritebatch.go`, `udpconn.go`). State:
`Listener.txqueue`, `writeBatchAble`. All connections on the shared socket put
their messages in one queue while `writeBatchLoop` runs and call `WriteTo`
otherwise. Hard: the flag is read a step before it is used, and the loop quits
for good on the first error. Right: the messages of a connection keep their
order; what was queued is sent while the loop runs (what is in the queue when it
quits stays there, section 7).

**Receive path and buffer pool** (`dial.go`, `listenv2.go`, `udpconn.go`,
`bufferpool.go`). State: the buffers behind the slots of `rms`, `rxqueue`,
`rxqueueB`, `lastUndrainedBuffer` under `undrainedBufferMux`, the pool.
Operations: `readBatchLoopv2`, `PutRxQueue2`, `handlePacket`, `Read`, `Get`,
`Put`. Hard: a buffer passes from pool to loop to queue to reader and back
with no lock; only the slots of the last batch are refilled; several
goroutines call `Read`. Right: one owner per buffer; packets whole in oneshot
mode, bytes in order in stream mode; a Read returns after Close.

**Handshake** (`dial.go`, `udpconn.go`, `listen.go`, `listenv2.go`). State: the
token of each `UDPConn`, the packets under way, the socket queues. Operations:
`DialWithOpt`, `handshake`, `getUDPConn`, `CreateUDPConnByDstAddr`. Hard: one
token, sent once, over a network that loses, delays, reorders and duplicates;
a client may dial again from the same address while packets, echoes and the
server's connection of its last dial are still there; the clocks of client and
server differ. Right: a token is accepted near its own second only; the two ends
never take connections of different seconds for one; data is not taken for a
token.

**Binding a standalone socket** (`listenv2.go`, `util.go`, `dial.go`). State:
the new socket's queue, `needCheck`, `checkLen`. Operations:
`newUDPConnBindAddr`, `getUDPSocketLen`, the tests of `readBatchLoopv2`. Hard:
between bind and connect the socket takes packets of any client. Right: what
came first and from another host does not reach the application (the code does
not do the same for what comes behind it, section 7).

**Handshake token** (`token.go`). A pure function of a secret and a clock, in
16-bit arithmetic. Right: which tokens are accepted, across the wrap.

**Deadlines of shared connections** (`deadline.go`, `udpconn.go`). State:
`readTimer`, `writeTimer`, `err`. Timers fire in goroutines of their own while
deadlines move and Close runs. Right: the timer that counts down is the one in
the field; Close leaves none behind; the reader of a timed-out connection finds
the timeout.

**Client-side bufio** (`bufio.go`), **legacy read loops**, **configuration**,
**socket options**, **logging and statistics**, **examples**: section 8.

How they interact: the read loop of a Listener creates a connection (client
table), offers it (accept path), and puts its packets in its `rxqueue` (receive
path). In the standalone mode it makes the connection's socket first and the
connection reads for itself from then on; packets that the listener still gets
go to the same `rxqueue`. `Write` puts in `UDPConn.txqueue` or `Listener.txqueue` (the two write
paths), both drained by a `PCBufioWriter`. `UDPConn.Close` is the meeting
point: it marks `closed`, stops the timers, closes `dead`, closes `txqueue`,
deletes the table entry and closes the socket, and anyone may call it.
Each module takes from Close the steps that touch its own state and keeps
their order.

## 2. The modules

| module | models | actions and the code |
|---|---|---|
| `ConnTable` | client table, life cycle | `Handshake`, `NewConn`, `DropConn`, `SpawnReader`, `StoreConn`, `CountConn`, `OfferConn`: creation, one shared access per step. `SetClosed`, `CloseDelete`, `CloseCount`, `CloseSocket`: `Close` and `deleteConn`. `ReaderError`: `readBatchLoopv2`. `ExpireTick` ... `ExpireDone`: `checkExpire` with `ListClientConns`. `AppAccept`, `AppClose` |
| `Expire` | the clock of `checkExpire` | `Tick` (ticker, `ListClientConns`, `updateClientExpire`), `Visit` as `VisitAlive` or `VisitIdle`, `CloseIdle` (the Close of that visit, a step later), `ExpireStop`; `Create`, `Receive` and `Count` (the two steps of `PutRxQueue2`; `PutRxQueue` has the first only), `ConnClose`: Close by anyone else |
| `Token` | the token | `generateToken`, `verifyToken` as operators on seconds |
| `Handshake` | handshake, binding of a socket | `Dial`, `Answer`, `GiveUp`, `ClientWrite`: the client. `ListenerData`, `DropEmpty`, `Refuse`, `AcceptShared`: `handlePacket`, `getUDPConn`. `Clock`: the clock of a client. `Bind`, `Connect`, `Measure`, `OpenConn`, `EchoFails`: `CreateUDPConnByDstAddr`. `ReadLoop`: `readBatchLoopv2`. `ServerWrite`, `ServerClose`. `ArriveOwn`, `ArriveBound`, `ArriveListener`, `Tick`: kernel and clock |
| `AcceptPath` | `UdpListen` | `NewListener`, `StartFails`, `Listen`: `NewUdpListen`. `MakeConn`, `Offer`, `ReadFails`: the read loop, which makes a connection and then blocks with it while the channel is full. `ForwardTake`, `ForwardPut`, `ForwardPanic`: the goroutine of `Listen`. `AcceptCall`, `AcceptCheck`, `AcceptReceive`, `AcceptError`. `CloseCall` ... `CloseListener`, `CloseNilDead` |
| `TxLink` | the promise of a batching writer | abstract: `Accept`, `Transmit` of any prefix, `Fail`, `Finish` |
| `PCBufioWriter` | `PCBufioWriter` and its loop | `Receive` (range and `Write`), `CheckQueue` (`len(fromCh)`), `SendBatch` with `commit`, `SendFails`, `FlushDone`, `RangeEnds`; `Put` and `CloseQueue` are the others |
| `ConnTx` | write path, own socket | `StartReader`, `MakeQueue`, `StartLoop`: creation. `CloseTake`, `CloseClear`, `CloseQueue`, `CloseSocket`. `LoopTest`, `LoopRemake`, `LoopPass`, `LoopSend`, `LoopEnds`: `writeBatchLoop`. `WriteTest`, `WriteOperand`, `WriteSend`, `WriteDrop`, `WritePanic`: `PutTxQueue`, whose channel operand is evaluated a step before the send |
| `ListenerTx` | write path of a Listener | `LoopStart`, `LoopReceive`, `LoopCheck`, `LoopSend`, `LoopFails`, `LoopOver`; `WriteCall`, `WriteTest`, `PutTxQueue`, `PutDrop`, `WriteTo`; `Close` |
| `RxPath` | receive path, pool | `FillSlot`, `ReadBatch`, `PutRxQueue2`, `Discard`, `ReadFails`: `readBatchLoopv2`. `ListenerPut`: the Listener's loop as a second producer. `HandlePacket`: the path without batches. `ReadCall`, `Lock`, `ReadRest`, `Take`, `TakeB`, `ReadDead`, `Finish`: `Read`. `Get`, `Release`: the pool |
| `Deadline` | deadlines | `Closed`, `Expired`, `Accepted`: the outcomes of the two setters, under `mux` one step each. `Fire`, `SetErr`, `TimerClose`: a timer. `CloseStop`, `CloseDead` |

Each `MC...` module instantiates a specification for TLC (symmetry, the values of
operators). The `...Proofs` modules hold theorems. Variables have the names of
the fields they stand for; the comment at each declaration says which. A few
definitions named `<definition>_<Change>` and commented "Mutant" state a
plausible bug in that definition: each property of a run is violated when the
definition is replaced by one of them, so no property holds by the shape of
the model.

Conventions. A step is one access to state that other goroutines see; what
runs under one lock, or touches local state only, is one step. A panic ends the
process: `panic` (or `panicked`) is set and no action is enabled any more.
Messages and packets are members of small sets; in `RxPath` a byte is its packet
and its place in it, so that cutting and joining packets is seen. System calls
return whatever they may return: any part of a batch, an error, nothing.

Abstractions worth knowing:

- `ConnTable` lets `checkExpire` run at any time and find a connection alive or
  not as it likes, so that what it shows holds for every timeout. `Expire` has
  the clock and the counters and leaves the table's steps out. It counts time
  in passes of three minutes, `lastAliveAt` being set during passes only; a pass
  takes no time on that scale, and a packet that is queued is counted before the
  pass after the next. One goroutine at a time queues the packets of a
  connection: that a Listener may still queue some for a connection that has its
  own socket is left out (two goroutines then increment `rxPackets`, with no
  lock).
- In `Handshake` the network keeps every packet it was given and delivers any of
  them at any time: losing, delaying, reordering and duplicating need no action
  of their own. The two seconds the client waits are not timed: it may give up
  at any moment. Every client has a clock of its own, ahead of the server's or
  behind it by less than the 16 bits allow; clocks are not set while a behaviour
  lasts. A packet that is no token is a payload with a length, which may be
  that of a token and may be 0. An application does not send bytes that are a token; it may
  send data as long as one. A packet that reaches a client that is not
  dialling is of no interest and stays in the network.
- A socket that is bound and not yet connected shares its port with the
  Listener's: the model lets the kernel give a packet to either. `SIOCINQ`
  returns the length of the first packet in the queue, as udp(7) says.
- In `PCBufioWriter` and `ListenerTx` the kernel sends any part of the batch;
  the queue's producers are one action. `ListenerTx` gathers and sends at a
  coarser grain, which `PCBufioWriter` justifies.
- In `ConnTx` messages are counted, not named: the order is `PCBufioWriter`'s.
- `RxPath` hands out a fixed free buffer (`Chosen`), one that was put back before a
  fresh one. Buffers are interchangeable, so only the reuse itself matters, and
  reuse is what could go wrong. A Read's work on the buffer it took is one step:
  by `SingleOwner` nobody else sees it. The list of packets of a batch is
  cleared when the loop is done with it.
- `Token` assumes nothing of the digest: TLC uses one that collides.

## 3. The runs

| run | question and answer |
|---|---|
| `ConnTable` | Two addresses, two connections, a shared socket or a socket and a read loop each. `OneConnPerAddr`, `TableOwned`, `EntryRemovedByOwner`: reconnects never meet an old connection's Close, although it deletes by address. `CountMatchesTable`: the counter follows the table. `DeleteFindsEntry`, `ListCapacityValid`: `deleteConn` and the slice of `ListClientConns` panic in no other place than the one window of section 7. `SocketAccounted`: no leak, also when the echo of the token fails. `CloseCompletes`: entry, socket and read loop are gone in the end |
| `Expire` | Three connections, five passes. `OnlyIdleExpired`: with batches no visit decides to close a connection that queued a packet within the expiry in force, unless that packet is not yet counted. `NoneOutlivesSilence`: what is left after a pass was heard within the expiry and two intervals |
| `ExpireAlive` | violation: without batches a connection that is heard expires (section 7) |
| `Handshake` | Two clients on two hosts, either mode, clocks that agree or run 9 or 12 seconds ahead, data as long as a token, empty packets. `ValidIsNear`: no token is accepted further than the window from its second, across the wrap of the 16 bits and with colliding digests. `AgreedToken`: a dial that succeeded and the server's connection have one token, whatever came late or twice, save for clients one of whose tokens was good before its second. `ForeignCaught`: the first packet a socket took too early passes only from the right host, unless somebody sends an empty one. `DataKept`: data is dropped on no path |
| `TokenWindow` | violation: a token is not accepted for the ten seconds the comment promises (section 7) |
| `AcceptPath` | Two Listeners, two accepting goroutines, Close at any moment, a Listener that fails to start. `InOrderOnce` follows every connection through the places on its way, the read loop that waits for room included; `NoneAfterClose`; `EachIsAccepted` |
| `PCBufioWriter` | Every split of every batch. No assertion fires (`NoPanic`), buffers go back as messages leave (`ReleasedAsSent`), nothing is left behind by a sleeping loop (`NoLinger`), and the writer implements `TxLink` with its fairness (`ImplementsLink`, `ImplementsFairLink`) |
| `ConnTx` | Two writers, the batch loop, the read loop and Close. `FieldNeverClosed`; `OneQueueWhileOpen`; `LoopQuits`: a Close that begins when the loop ranges over its channel ends the loop; `WriteReturns`: while the connection is open and its loop runs |
| `ConnTxPanic` | violation: a Write sends on the closed channel (section 7) |
| `ListenerTx` | Two connections on one queue, the loop starting late and quitting early. `PerConnOrder`, `QueuedIsSent`, `WriteReturns` |
| `RxPath` | Two concurrent Reads, one or two producers, with and without batches, oneshot and stream. `SingleOwner`, `NoPanic`, `ShortReadReported`, `OnePacketPerRead`, `StreamInOrder`, `ReadReturns` |
| `Deadline` | Three timers. `WriteTimerHeld`, `TimeoutIsReported` |

The deadlock check is off in every run: connections, writes and packets are
bounded, and a listener with nothing to do waits. That nobody waits who should
not is what the liveness properties say. Type invariants are proved
(section 6) and are checked by a run only where there is no proof.

## 4. Bounds

- `ConnTable`: two connections on one of two addresses let the address be used
  again while its old connection is still in Close; the accept channel has one
  place, so that it is full. For more the safety properties are proved.
- `Expire`: with three connections the table is below, at and above both
  thresholds (1 and 2 instead of 500 and 1000); expiries of 3, 2 and 1 intervals
  keep the order of 20, 10 and 5 minutes and are all outlived in five passes.
- `Handshake`: two clients on two hosts are one that dials and one that
  interferes; three packets are a token, a second one and data; one packet that
  the server writes is one that comes before the echo. The jump of twelve
  seconds goes across the wrap of the 16 bits, to a second of the same digest
  past the window. A clock 9 seconds ahead makes a token whose digest is that of
  the server's second, so that it is good early; one 12 seconds ahead makes a
  token that is refused for the window alone until the server comes to its
  second. One place in each of the server's sockets is where the first packet
  waits, of which `ForeignCaught` speaks; what queues behind it is in the proof.
  `MaxSkew + MaxTicks < 65526` in the assumption of the module: after 18 hours a
  token is good once more.
- `AcceptPath`: two Listeners interfere in `UdpListen.accept`; channels of one
  place block, with a connection waiting behind another; two connections each
  can be out of order.
- `PCBufioWriter`: a batch of three can be sent in one, two or three parts;
  five messages fill it twice with something left; a queue of two is full and
  empty.
- `ConnTx`, `ListenerTx`: a queue of one place is full after one message; two
  writers compete; two messages each can be reordered; `ListenerTx` has batches
  of two.
- `RxPath`: batches of one and two packets leave slots in use and unused; a
  queue of one place drops; one Read's slice is shorter than a packet, which
  then takes two Reads, the other's is as long; three packets fill a slot, the queue and a Read;
  with five buffers nobody waits for one (the states are the same with six).
- `Deadline`: three timers allow a deadline to be replaced while the other
  kind's timer fires.

Counters that the code lets grow (connections, messages, packets, timers) are
bounded in the guard of the one action that increments them, by a constant whose
comment says "bound".

## 5. Fairness

Weak fairness stands for a goroutine that runs when it can. It is assumed of
Close once it has begun, of the loops, and of a Write or Read under way. Strong
fairness is assumed where the Go runtime serves waiting goroutines in turn:
senders on a channel that several goroutines send on (`ListenerTx`, forwarding in
`AcceptPath`; the read loop is alone on its Listener's channel and needs weak
fairness only) and
`sync.Mutex` (`Lock` in `RxPath`). `PCBufioWriter` assumes that `WriteBatch` does not for ever return
without an error and without having sent a message. `ConnTable` and
`AcceptPath` assume that the application keeps calling Accept. Nothing is
assumed of the network (`Handshake` and `Expire` have no fairness and state
safety only: nothing need arrive), and nobody is obliged to connect, to write, to close,
or to fail.

## 6. Proofs

All theorems hold for every value of the constants that satisfies the named
`...Assumption` of the module, and need nothing else.

`ConnTableProofs`. `TableInv` is the inductive invariant: beside type
correctness and `TableOwned` it says that whoever holds a connection (read
loop, application, the list of `checkExpire`, the accept channel) holds one that
was made; that the address of the connection being created is still free in the
table (`CreatingFree`); and that every other live connection is in the table
(`LiveStored`). `TableOwned` alone is not inductive: that `StoreConn` does not
overwrite a live entry rests on `CreatingFree`, and that `deleteConn`, which is
given an address, hits the right entry rests on `LiveStored`. From it follow
`TableTypeCorrect`, `TableIsOwned`, `OneConn`, and the action property
`OnlyOwnerRemoves`. `HandOverInv` adds who may hold a connection before it is
stored and counted, namely its own read loop alone; hence `DeleteFindsItsEntry`
and `CapacityIsValid`. `SocketInv` (an open socket is not of a closed
connection) gives `SocketsAccounted` by `LiveStored`; `CountInv` (the counter
and the finite sets it counts) gives `CountIsExact`.

`PCBufioWriterProofs`. `BatchInv` joins the checked invariants with
`SlotsInStep` (buffers keep step with messages, and the cleared slots are those
before `offset`), `Gathering` (between two receives the batch begins at 0 and
has room), `Flushing` (what Flush has sent and what is left add up to what it
set out to send) and `Quitting` (a loop that quit without error has left
nothing). It gives `TypeCorrect`, `AssertionsHold`, `BuffersReleasedOnce` and
`NothingLingers`. `WriterImplementsLink` is the refinement of `TxLink` under
`pending <- msgBuffered \o txqueue`: a `SendBatch` is a `Transmit`, `CloseQueue`
and the steps that move a message from the queue to the batch stutter.

`HandshakeProofs`. First the token: modular arithmetic on 16 bits shows that the
distance from the verifier's second to the token's is small only if the token is
of that second or up to ten later; hence `VerifyExact`, for every digest
function and tokens ahead of the verifier too. `AgreeInv` orders the seconds of
tokens, echoes, dials and connections of a client: no token and no connection is
later than its last dial; a dial that succeeded had its echo sent; and, unless
one of the client's tokens was good before its second came on the server, no
echo and no connection is later than the server's clock and no echo later than
the connection the server has. With `VerifyExact` for the step that makes a
connection it gives `TokenWithinWindow` and `BothEndsAgree`, for any skew of the
clocks. `AgreedToken` alone is not inductive: which echo may still come is the
point. `MeasuredInv` says that a socket that was measured as empty holds packets
of its peer only, as long as no packet is empty; hence `FirstForeignCaught`.
`DataIsGiven` needs type correctness only, for every length of data but 0.

`TimeProofs`. The two clocks that close a connection. Deadlines: `HeldInv`, a
write timer that counts down is in the field and none is armed behind Close;
`ErrInv`, err is set before the timer calls Close and never reset. They give
`WriteTimerIsHeld` and `TimeoutReported`. `checkExpire`: `ExpireInv` relates
`lastAliveAt`, the counter and the last packet. With batches, a packet that came
after `lastAliveAt` was counted or is still to be counted (`NothingUncounted`);
it is counted in its own pass or the next (`PendingIsNew`), so that the visit
that finds the counter moved is at most two passes later than the packet
(`FreshIsNew`, `AliveWasHeard`); and a connection that this pass has done with
is young enough (`VisitedIsYoung`). It gives `SilenceIsBounded` and
`ExpiredWasIdle`, for any thresholds and expiries. The module extends both
specifications, which have no name in common.

`ConnTxProofs`. `CloseInv` and `FieldInv` say what Close has taken, what the
field holds and which channel is closed at each point of creation and Close;
`HolderInv` says that loop and Writes have the first channel while the
connection is open. Together they give `FieldIsNeverClosed` and `OneQueue`.

`ListenerTxProofs`. `OrderInv`: per connection, what was sent comes before the
batch and the batch before the queue (`LineInv`), nothing is ahead of the Write
under way (`WrittenInv`), and a Write that goes to the socket itself has nothing
in either (`DirectInv`). It gives `ConnOrderKept`, for any number of connections
and any size of batch and queue.

`AcceptPathProofs`. `InOrderOnce` says of every Listener which connection its
read loop holds and offers, which wait in its own channel, which one its
forwarding goroutine holds and which were put into the common line (what Accept
returned, then what waits for it), each place continuing where the next one
ends. So it is inductive once types are known: what the read loop makes comes
after all others (`OrderMake`) and goes to the end of the channel
(`OrderOffer`), what Accept takes leaves the line as it was (`LineReceived`),
and the connection that `ForwardPut` adds is the next of its Listener
(`OrderPut`). It gives `ConnsReachAcceptInOrder`. `LateInv`: a call that is past the test of `dead`
began before `dead` was closed; hence `ClosedAcceptsNothing`.

`RxPathProofs`. The receive path has no lock around a buffer, so its proof is
about who has which. Its invariants rest on each other:

- `Base`: types; at which points of the read loop its indices and its batch fit
  (`LoopShape`); who is inside the lock and what a Read holds where
  (`ReadShape`). It gives `RxPathTyped`.
- `OwnInv`: a buffer is in one slot of the loop, at one place of `rxqueue`, with
  one Read, or kept as the rest, and these four have nothing in common. None of
  the parts holds alone: that a slot of the last batch is not filled with a
  buffer that is queued rests on `NextSlot`, which takes it out of its slot, and
  on `PoolInv`.
- `PoolInv`: whoever is owned is held once and out of the pool, what is in the
  pool is clean, what lies in a slot is empty, and nothing has panicked. With
  `OwnInv` it gives `BufferHasOneOwner` and `PoolNeverPanics`.
- `PacketInv`: the buffers that are queued or taken hold whole packets that
  arrived, all different, and different from those the loop has still to queue
  and from those that were returned. It needs `OwnInv`: the buffer that a step
  writes is nobody else's. It gives `ReadsReturnPackets` and
  `ShortReadsAreReported`.
- `StreamInv`: laid end to end, what was returned, what the Read under way or
  the rest has still to give (`Front`), and the packets of `rxqueue` are the
  stream of what was queued. Where each packet of the queue begins is given by a
  function `at`, so that no sum over the queue is needed. It gives
  `ReadsReturnTheStream`; `StreamInOrder` alone says nothing of what is to come
  and is not inductive.

All five were checked by TLC on the instance of the run before they were proved.

Only model-checked: liveness (`CloseCompletes`, `EachIsAccepted`,
`ImplementsFairLink`, `LoopQuits`, `WriteReturns`, `QueuedIsSent`,
`ReadReturns`), which is out of the prover's reach. Every safety property of a
passing run is stated by a theorem. The three violations are
counterexamples of TLC.

## 7. Disagreements

Three are checked by a run that exhibits the behaviour:

- `ConnTxPanic`: Close clears `txqueue` before closing it "so that PutTxQueue
  does not panic" (`udpconn.go:236`); a Write that has evaluated the field
  before that panics.
- `TokenWindow`: a token is said to be valid for ten seconds (`token.go:13`);
  `verifyToken` accepts it only in the second it was made in, or before that if
  the digests of the two seconds are the same.
- `ExpireAlive`: `checkExpire` is there against dead connections
  (`listen.go:644`) that received nothing (`listen.go:673`); it looks at
  `rxPackets`, which the path without batches (`udpconn.go:202`) never
  increments, and decides to close connections that are heard all the time.

Met while modelling, visible in the models, without a run of their own:

- `AcceptPath`: nothing makes `Listener.dead`, so the first `Listener.Close`
  (`listen.go:573`) closes a nil channel and panics, and `UdpListen.Close` with
  it (`CloseNilDead`). A second `Listener.Close` would return with the lock held
  (`listen.go:566`). A forwarder may send on the accept channel that Close has
  closed (`listen.go:224`, `:266`; `ForwardPanic`); `InOrderOnce` speaks of the
  order and holds after the panic too.
- `ConnTable`, standalone: the read loop starts before the connection is stored
  and counted (`listenv2.go:202`, `:211`, `:212`). When it fails before the
  store, `deleteConn` panics; when it fails between store and count,
  `clientCount` may be -1 and a `checkExpire` at that moment panics on the
  capacity of its slice (`listen.go:602`). `DeleteFindsEntry` and
  `ListCapacityValid` say that there is no other place for either.
- `ConnTx`: a Close that overtakes the start of `writeBatchLoop` leaves it
  waiting for ever. It finds the field nil, because Close came before the queue
  was made (the read loop runs before it, `dial.go:53-60`) and had nothing to
  close, or because Close cleared it; then the loop makes a channel that nobody closes
  (`udpconn.go:377`), or passes nil to the range (`udpconn.go:380`).
  `LoopQuits` speaks of a Close that begins when the loop ranges over its
  channel.
- `ConnTx`: a Write on a closed connection is said to get an error from the
  socket (`udpconn.go:356`). A blocking one that passes the test of `closed` and
  evaluates `txqueue` after Close has cleared it sends on a nil channel and never
  returns (`udpconn.go:390`). `WriteReturns` speaks of open connections.
- `ListenerTx`: what is in the Listener's queue when its loop quits stays there,
  and a blocking Write that waits for a place in it waits for ever.
  `QueuedIsSent` and `WriteReturns` hold while the loop runs.
- `Expire`: a packet that is queued and not yet counted when the counter is
  compared (`dial.go:170-171`), or queued between the comparison and the Close
  (`listen.go:666`, `:677`), does not keep its connection from being closed. No
  lock covers either pair; `OnlyIdleExpired` speaks of the decision and exempts
  the first.
- `Handshake`, standalone: a token that the client repeats is dropped by
  `listen.go:520` and `dial.go:143`, lest it be taken for data; one that reaches
  the Listener again after the connection was stored is put in its `rxqueue`
  (`listenv2.go:126-138`). A late token of another dial goes the same way, on a
  shared socket too.
- `Handshake`, standalone: what a socket took before it was connected, and not
  from its peer, must not reach the application (`listenv2.go:308-309`); only as
  many bytes are tested as `SIOCINQ` returned (`listenv2.go:183`, `dial.go:149`),
  which is the length of the first packet and not of the queue. A second such
  packet reaches the application; `ForeignCaught` speaks of the first.
- `Handshake`: two dials of one client within a second have the same token
  (`udpconn.go:196`). The echo of the first is then good for the second, which
  is paired with a connection that the server made for the first. `AgreedToken`
  says that the two ends have one token, and no more.
- `Handshake`: a token of a client whose clock is ahead is accepted early when
  the digests of the two seconds collide; its echo and its connection can then
  be later ones than those of a later token. `AgreedToken` exempts such clients.
- `Handshake`: a client that dials again from an address whose connection the
  server still holds gets no answer until that one is closed: its token is
  taken for data, or dropped (`listen.go:518`, `listenv2.go:126`).
- `Handshake`, standalone: an empty packet at the head of the new socket's queue
  makes `needCheck` 0, and nothing is tested (`util.go:159`, `dial.go:149`);
  `ForeignCaught` exempts connections somebody sends one to. Packets are
  compared by IP only (`dial.go:152`), so that one from another port of the host
  passes. A token that the new socket takes never reaches the Listener.
- `RxPath`: `oneshotRead` promises `ErrShortRead` (`udpconn.go:41`); on the path
  without batches the rest of the packet is dropped and no error returned
  (`udpconn.go:297`). `ShortReadReported` and `StreamInOrder` speak of batches.
- `Deadline`: a refused `setWriteDeadline` forgets `readTimer`
  (`deadline.go:91`), which a later zero read deadline does not stop.
  `WriteTimerHeld` speaks of the write timer.

## 8. What is not modelled

- `Listener.readBatchLoop`, `UDPConn.ReadBatchLoop`, `getUDPConnByOOB`: called
  by nothing.
- Client-side bufio (`bufio.go`): `UDPBufioWriter` and `UDPBufioReader` are used
  by nothing in the repository and by one goroutine at a time; their send loop
  repeats that of `PCBufioWriter` without queue and without release.
- `InitPool`: the process has one pool, with the buffer size of the first call;
  a Listener or client started later with a larger packet size shares it.
  `RxPath` has buffers that hold any packet.
- Options, `LoadLnConfig`, `Tidy`: run once before any goroutine starts; the
  models take what they set as constants.
- Socket buffers, `IP_PKTINFO` parsing, address keys: system calls and layout.
  Addresses are abstract keys.
- Logging, error texts, statistics: only `checkExpire` decides anything by a
  counter, and only by whether it moved (`Expire`). Packets that found a full
  queue are not counted there.
- The deadlines of standalone connections are the kernel's.
- `rxhandler`: a callback of the application in place of the queue.

## 9. Plan

Order so far: the components where goroutines meet (`ConnTable`,
`PCBufioWriter`, `ConnTx`, `ListenerTx`, `RxPath`, `AcceptPath`, `Deadline`),
then the protocol between client and server (`Token`, `Handshake`), the clock of
`checkExpire` (`Expire`), and the proofs. Left:

1. `RxPath` with the size of the one pool, which the first `InitPool` decides.
2. `UDPBufioWriter` as a refinement of `TxLink`.
