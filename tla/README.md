# Verification of ws-cluster

ws-cluster is a cluster of websocket hubs in Go. Clients log in to any server,
send messages to other clients or to groups, and the servers relay what is
meant for clients elsewhere. This directory holds TLA+ modules of its logic,
TLC configurations that check them on small instances, and proofs for TLAPS.

    tlc -workers 2 -config MCPeer.cfg MCPeer.tla     # one run
    tlapm PeerProofs.tla                             # the proofs of one module

`PROJECT.json` says which lines of the source each definition models, lists the
hazards of the code with the properties aimed at them (or a note on why none is: most of
these go wrong, and section 6 has the run that shows it), and gives for each
property a plausible bug (a definition whose comment says "slip") that breaks it.

## 1. The system

### Components

| component | source | state | operations |
|---|---|---|---|
| **peer**, one connection | `peer/peer.go` | flag `connected`; channels `outQueue`, `sendQueue`, `sendDone`, `connclosed`, each of capacity 1; a list of pending packets | `SetConnection`, `PushMessage`, `Close`; goroutines `inMessageHandler`, `packetQueueHandler`, `packetHandler` with its ping ticker |
| **hub queue** | `hub/hub.go` | channels `packetQueue`, `packetRelay`, `packetRelayDone`; pending list; the message log | `packetQueueHandler`, `packetHandler`; callers send a packet and wait for `resp` |
| **routing** | `hub/hub.go`, `hub/clent_peer.go`, `hub/server_peer.go` | per server `clientPeers`, `location`; per client `sessions` | registration, its end, relay, `recordSession`, `recordLocation`, location, offline and kill messages |
| **groups** | `hub/group.go`, `hub/hub.go` | per group a goroutine with `Members`, `MemCount`, a bounded channel; the hub's map of groups; each client's set of groups | join, leave, message, cleaning of empty groups |
| **membership** | `hub/hub.go`, `hub/server_peer.go`, `hub/http_handler.go` | `serverPeers` at each server | `startCluster` (ask the seed, dial), registration, end of a connection |
| **filelog** | `filelog/filelog.go` | a file of blocks with two block numbers as its header; a block in memory | `Write`, `writeloop`, `readloop`, `getBlock`, `truncate`, `Close`; `Block.write`, `Block.read` |
| **wire** | `wire/*.go` | none | encoding and decoding of messages |
| **database** | `database/*.go` | SQL store; caches of groups, clients and servers, nowhere called but in tests | save and query; `SetServer`, `DelServer`, `Clean`, `GetServers` |
| configuration, start | `hub/config.go`, `hub/hubmain.go`, `main.go` | none after the start | flags, wiring |
| HTTP interface | `hub/http_handler.go` | none | websocket handshakes, `POST /msg/send`, queries |
| clients | `chat/client.go`, `send/client.go` | counters | load generation |

### How they interact

Every client and every other server has a *peer*. A message a peer reads is
handled in a goroutine of its own, which sends a packet into the *hub queue*
and waits for its answer. The hub's one handler takes packets one at a time: it
changes the maps of *routing*, *groups* and *membership*, and pushes messages
into other peers. Messages to keep go through the *filelog* first, whose second
loop hands blocks of them to the *database*. Servers reach one another through
peers too, so what one handler pushes is what another hub's queue receives.

### What is hard in it

* **Hand-over by token.** Peer and hub queue both keep an unbounded list between
  two channels of capacity 1 and pass a "done" token back. A token too many or
  too few blocks a goroutine, and with it, in the hub, the server.
* **Who ends a connection.** A read error, a failing ping and `Close` race.
* **Order.** A goroutine per message read: nothing keeps the order of two
  messages of one connection. A message, a registration and the end of the same
  connection may arrive in any order.
* **Stale maps.** Locations, sessions and `serverPeers` are learnt from packets
  that were sent before they are handled. `MemCount` is read by another goroutine.
* **One handler for all.** Whatever blocks in the handler stops the server.
* **Crashes and failures.** The filelog must hand over what it accepted after a
  restart, and not twice; an append, a read or a save may fail in between.
* **Links between servers break**, one end at a time, while messages and
  locations that rely on them are under way; nobody dials again.
* **Many commands, one at a time.** The list of servers in redis is changed by
  calls of several commands each, from several servers.
* **Widths.** Lengths and counts of 8 and 16 bits, read limits per kind of peer.

### What makes each component correct

* peer: a FIFO queue that loses nothing while the connection is open, flushes
  ahead of `Close`, answers those who wait, reports its end once, never blocks
  between its own goroutines.
* hub queue: one packet at a time, each once, in order; every caller is answered
  once, after its packet was handled or refused.
* routing: the maps speak of connections and servers that were there; no message
  is pushed twice to a connection; a client that stays logged in gets its
  messages; of two logins of one client one is ended.
* groups: the members the goroutine has are those the hub believes in; messages
  arrive in order; the hub waits for a group only while that is stuck.
* membership: servers that start one after another are all connected; an ended
  connection is forgotten by both ends.
* filelog: what was accepted and survived is handed over, once, in order; both
  block numbers stay in step with the file; both loops go on.
* wire and blocks: what is decoded was encoded, whatever the lengths and addresses.
* the list of servers: who goes on setting its key is listed, who stopped is not.

## 2. Modules

| module | models | composed with |
|---|---|---|
| `Outbox` | what a peer promises to those who push | implemented by `Peer` |
| `Peer` | `peer/peer.go` | |
| `PeerProofs` | theorems about `Peer`: it implements `Outbox` | extends `Peer`, `ChannelFacts` |
| `ChannelFacts` | lemmas about sequences, sequences of sequences, channels with room for one element, and induction over numbers and sequences | used by the proofs about `Peer`, `HubQueue`, `Group`, `FileLog` and `Codec` |
| `Serial` | what the hub promises to those who bring packets | implemented by `HubQueue` |
| `HubQueue` | the two goroutines of the hub | |
| `HubQueueProofs` | theorems about `HubQueue`: it implements `Serial` | extends `HubQueue`, `ChannelFacts` |
| `Cluster` | the handlers of several hubs | takes from `HubQueue` that a handler is atomic, from `Peer` that a push to an ended connection never returns |
| `ClusterProofs` | theorems about `Cluster` | extends `Cluster` |
| `Group` | a group's goroutines and the hub's side | the same two as `Cluster` |
| `GroupProofs` | theorems about `Group` | extends `Group`, `ChannelFacts` |
| `FileLog` | the log's loops, file, crashes | blocks are sequences of records |
| `FileLogProofs` | theorems about `FileLog` | extends `FileLog`, `ChannelFacts` |
| `Block` | the bytes of one block | what `FileLog` leaves out |
| `Membership` | start of the cluster, connections between servers | |
| `MembershipProofs` | theorems about `Membership` | extends `Membership` |
| `Addr` | addresses: 32 bytes, of which three bits are the type | used by `Codec` |
| `Codec` | messages, frames, lists, read limits, and the row a message becomes in the database | uses `Addr` |
| `ServerCache` | the list of servers in redis | |
| `DataProofs` | theorems about `Block`, `Codec` and `ServerCache` | extends the three and `ChannelFacts` |

`MC*.tla` give the constants values; `MC*.cfg` are the runs. `Codec` and `ServerCache`
are extended together with `Block`, so that their initial states, steps and
specifications have names of their own: `CodecInit`, `CodecNext`, `CodecSpec`,
`CacheInit`, `CacheNext`, `CacheSpec`.

### Peer

Each goroutine has a variable that says where it is (`queuer`, `writer`,
`reader`, `push[p]`, `closer`), each channel is a sequence or a counter of
capacity 1. `QueueTake`, `QueueOffer`, `QueueNext`, `QueueQuit` and `QueueClean`
are the cases of `packetQueueHandler`'s select and what follows them;
`WriterTake`, `WriteMessage`, `WriterReply`, `WriterAck`, `CloseConnect`,
`CloseSignal`, `PingFails`, `WriterSignal`, `WriterCallback` the steps of
`packetHandler`; `Receive`, `OnMessage`, `ReadFails`, `ReadError`,
`ReaderSignal`, `ReaderCallback` those of `inMessageHandler` and of the
goroutine per message it starts. A send on a channel is a step of its own, since
it may block. `LinkDown` is the network, `ReadDeadline` the time a read waits.
The end of the connection is one compare-and-swap, `ConnectionClosed`. A `Peer`
is connected once, as all callers use it.

Left out: the contents of messages and their numbers (`autoSeq`).

### HubQueue

`Arrive` and `Enqueue` are the callers, `QueueTake` to `QueueNext` the queue,
`HandlerTake`, `HandlerSelfSend`, `HandlerReply`, `HandlerDone` the handler. A
packet's effect is abstracted to the packets it makes the handler send to its
own queue (`hub.go:369`, the offline notices). `Oversized` are packets the log
refuses. The model is of a server with a log (`Logging = TRUE`); without one
`QueueLog` is a pass-through. As shipped, `config.go:111` reads `-db-source`
before `flag.Parse`, so that the program never has a store: the other case is
what the code means to be.
`HandlerHangs` is a handler that meets an ended connection (see `Peer`).

### Cluster

One action per handler: `Register` (`handleClientPeerRegistPacket`),
`Unregister`, `UnregisterServer`, `Relay` with `RecordSession`, `RecordLocation`
and `Forward`, `HandleLoc`, `HandleOffline`; what clients do: `Connect`,
`Disconnect`, `Send` (on a connection or by HTTP); and the network: `Break` cuts
a link of two servers, `LinkEnds` is the moment one end notices and sends its
hub the packet that unregisters the other. `calls[s]` is the set of packets
server `s` will still handle, unordered because each was read by a goroutine of
its own; two equal location messages under way at the same time merge into one.
What is pushed to a link that was cut and has not ended may be lost or still be
read. A push to a connection or a link that has ended leaves the server "hung" for
good; a nil dereference ends the model. A message to `Everyone` is a broadcast
in the domain of the clients. Two connections never have the same `RemoteAddr`.
`MapsTrue` has one exception: a message by HTTP needs no login, and the server it
came in by takes itself for the place of its source (`SpokenFor`).

Which server an ended client is found at, and the order of a Go map, are open.
A link that broke stays so: the code dials in `startCluster` only, and
`Membership` has what a new start does. Not modelled: several domains, queries
(they change no state), responses to senders, groups (see `Group`).

### Group

`Login`, `Drop`, `Logout`, `GroupIn`, `GroupOut`, `SendToGroup` are handlers of
the hub for one group address; `HubSend` is its send into the group's bounded
channel, `HubClean` the cleaning of the group it has just told of a leave.
`LoopJoin`, `LoopLeave`, `LoopMessage`, `LoopExit` are the cases of the group's
select. A group that is cleaned and joined again is another goroutine
(`Gen`): both run at once. The hub cleans only above 1000 groups; that number is
not counted, cleaning is a choice it may take or not. Members are pushed to in
any order (a Go map).

### FileLog and Block

`FileLog` has the steps of both loops between two system calls: `Write`,
`Tick`, `AppendBlock`, `AfterAppend`, `AppendHeader`, `Store` for `writeloop`;
`GetBlock`, `ZeroWriteOff`, `Truncate`, `NewReadOff`, `Advance` for `readloop`;
`SaveChats`, `SaveGroups` and `Poll` for the hub's `saveMessagesToDb`, which the
loop calls with a block. `Used` and `Only` are the sums and selections that the
proofs reason about: what a block holds, and what of a block goes to which table.
What can fail has an action of its own: `AppendFails` (the
disk is full: the block is dropped and nobody is told, for the error at
`filelog.go:191` is not the one that line 198 answers with), `ReadFails`,
`SaveChatsFails` (the group messages of the block are not tried) and
`SaveGroupsFails`. Writes in place, of the header and by truncation, do not fail.
`Crash` stops the process between any two steps and starts it with what the file
holds. `MaxTrouble` bounds crashes and failures together. The mutex is a
variable. It is the process that stops, not the machine, so that what was
written stays. The hub never calls `Close`; the model allows it once. After
`Close`, stopping and starting is not modelled: the block number that was read
is not flushed by it, and a block may be handed over again.

`Block` has the bytes: `BlockWrite`, `ReadBytes`, `Read` with the arithmetic
modulo 2^16 and slice expressions that panic out of range. A record whose length
plus 2 wraps passes the test for space (`LackOfSpace`) wherever the block ends: its
bytes are cut at the end of the block, and when the block is full so that not even the length field
lies inside it (`BytesInside`), the slice at `filelog.go:85` panics and the process ends
(`WritePanics`). `ReadPanics` is the same of the reader, for a length field at the last byte. A byte has `Base`
values and a uint16 `Base * Base`: with 4 and 16 in place of 256 and 65536 all the wraps
of the real widths occur. Writing and reading a block are one hand-over: the file in
between does not change the bytes.

### Membership

`Start` asks the seed, `Dial` dials one server of its answer, `StartHandlers`
ends the start; `HandleAdd` and `HandleDel` are the packets that register and
remove; `Break` and `Stop` are the network and a server's end. A request to a
seed that is itself starting waits for its handler. When `MaxLink` connections
were made, dialling fails.

### Addr and Codec

`Addr` has the fields of `wire.Addr`: one byte of type and length, domain, device,
name. `NewAddr`, `ParseAddr`, `ParseClientAddr` and `ParseServerAddr` build one from
the parts of a text between its slashes; `Type`, `AddrLen`, `Address` read it,
and `Panics` is a slice out of range. A name is what it is and its number of
bytes.

A frame of `Codec` is a sequence of fields: header, strings, addresses, counts,
runs of items. That is enough to see what a count modulo 2^8 or 2^16 leaves
behind and how decoding goes on in the middle of it. `BodyOf` has the fields of every
type of message. `WriteFrame` makes frames, `ReadFrame`, `DecodeMessage` and `DropRest`
are the loop in `inMessageHandler`, `Saved` and `Row` what `saveMessagesToDb` makes
of a chat message. An item read as a header has a command nobody knows: the items of
lists are runs of one value, and names are printable ASCII, whose bytes are no command.
What a leftover that does begin with a known command would be read as is thus not
covered. Message numbers are not in it.

### ServerCache

The methods of `RedisServerCache` that change the list of servers, and the one that
reads it, one redis command per step: `SAdd` and `Set` for `SetServer`,
`SMoveDel` and `Del` for `DelServer`, `CleanMembers`, `CleanExists`, `CleanMove`,
`CleanEnd` for `Clean`, `GetMembers`, `Get`, `GetReturn` for `GetServers`. Each
command may fail, as often as `MaxFault` allows (a first command that fails ends
the call and changes nothing: no step); `Expire` is redis, `Stop` a server that stops,
perhaps in the middle of a call. Nothing in the repository calls these methods but their
tests, so that who calls them, how often and at once, is open. `seen` is what a
reader could have seen, for `ReadsWhatWasThere`.

## 3. Runs

| run | instance | distinct states | shows |
|---|---|---|---|
| `MCPeer` | 2 pushers of 2 messages, one of them waits, 1 inbound message | 322 000 | types, token, no block, one ending; implements `Outbox`; everything pushed ahead of `Close` is written, `Close` returns, a drop is reported, a waiter is answered |
| `MCHubQueue` | 4 callers, 3 notices of the handler's own, 2 packets refused by the log | 7 400 | types, token; implements `Serial`; callers are answered, what was taken is finished |
| `MCCluster` | 2 servers whose link may break, a client with three logins, one of them asking for notices | 561 000 | maps speak of what was there; double login; a replaced login is killed |
| `MCClusterDelivery` | 2 servers whose link may break, 2 clients, a message and a broadcast, fair hubs | 251 000 | no duplicates; what is sent to a connection that stays, over a link that stays, arrives |
| `MCGroup` | 3 connections of 2 clients, 3 requests, 2 messages, 2 generations | 1 090 000 | members agree, messages in order, the hub waits only for a stuck group |
| `MCFileLog` | 4 records of 3 kinds in blocks of 2, 2 crashes or failures | 650 000 | nothing lost but what failed, at most once, in order while it stopped at most twice, header in step; writers answered, what was logged is saved |
| `MCMembership` | 3 servers, 3 connections, 2 failures | 71 000 | full mesh if one by one; ended connections forgotten |
| `MCBlock` | 3 records of 5 lengths, 2 contents | 247 000 | `sub` gets one entry per record of a block it is called with; records whose lengths fit are read back |
| `MCCodec` | 18 messages of all types, 2 per frame, 2 frames | 641 000 | frames stand alone, nothing is made up, the rows in the database name who sent and who was meant |
| `MCServerCache` | 2 servers, a cleaner, a reader, 2 failures | 348 000 | a reader gets what was there; who stays alive is listed, who stopped is forgotten |
| `MCPeerPushAfterEndReturns` | as `MCPeer` | | violated: see section 6 |
| `MCClusterLoc` | 2 servers | | violated: see section 6 |

**Why the bounds are enough.** Two messages per pusher and two pushers fill
`outQueue`, the pending list, `sendQueue` and the writer at the same time, so
that every queue is found empty, full and with more behind it. Four callers with
three notices do the same for the hub. Two servers are what a location, an
offline message and a kill need, and one link that breaks at both ends in either order;
three are the least for forwarding in a circle and for a double delivery:
`MCClusterThree.cfg` (3 servers, 659 000 states, `NoDuplicates` and
`SupersededKilled`) is run by hand with `tlc -config MCClusterThree.cfg MCCluster.tla`.
A group's buffer of 2 with five packets fills; two
generations are an old goroutine beside a new one. Records of 1 and 2 in blocks
of 2 give a block that fills exactly, one that is sent early and one too large
for any; two crashes or failures allow one in the recovery of another.
Three crashes are where the order of `AtMostOnceInOrder` ends (section 6); that no
record comes twice holds for any number of them by proof. `RoomAssumption` of
`Membership` leaves room for a connection between any two servers: with fewer,
dialling would fail by the bound and not by the network. Two servers, a
cleaner and a reader interleave any two calls of the cache. The lengths of `MCBlock` are on
both sides of the block's space and of the uint16's wrap, those of `MCCodec` on both
sides of 2^8 and of the read limit.

**Deadlock** is checked in `MCServerCache`, where readers and cleaners can always go
on, and not elsewhere: each of the other systems may come to rest, when all
connections have ended or nobody calls. That nobody who waits is left waiting is
what the liveness properties say.

**Symmetry** is not used.

## 4. Fairness

Weak fairness of a goroutine's steps: the Go scheduler runs what can run. In
`HubQueue` two senders compete for one channel; Go serves blocked senders first
in, first out, so each of them gets strong fairness. In `FileLog` the ticker makes
`writeloop` run. Nothing is assumed of clients, the network, crashes, starts
and calls of `Close`. In `Peer` a read on a broken connection returns in the end
(`ReadError` is a step of the reader), because the network says so or because
reads have a deadline; that the deadline passes on a connection that is up
(`ReadDeadline`) may happen or not. In `Cluster` every hub handles what it
has to handle. In `ServerCache` a call of a server that did not stop runs to its end,
redis lets the key of one that stopped expire, and somebody calls `Clean` again and again.

## 5. Proofs

Every safety property of the passing runs is a theorem, for every value of the
constants that the named assumptions allow. What the modules have in common:
an invariant of a run is seldom inductive, so each proof has a stronger one;
TLC agreed with it before it was proved; and its step is a lemma per action or
per group of actions that touch the same variables.

### Peer

`Inductive` is `Spec => []IInv`, with
`IInv == TypeOK /\ TokenInv /\ NeverBlocks /\ OneEnding`; `PeerTypeOK`, `PeerToken`,
`PeerNeverBlocks` and `PeerOneEnding` are its four parts, none of which is inductive
alone. `TokenInv` (while both goroutines run there is exactly one token, and
`waiting` says so) is needed to see that sends on `sendQueue` and `sendDone` find
room. `OneEnding` counts: the signal on `connclosed` and the callback follow from
one change of `connected`, and the closing packet is in one place only; without it
`connclosed` could be found full. `TypeOK` bounds the channels.

`PeerImplementsOutbox` is the refinement, `Spec => ImplementsOutbox`. The abstract
queue is a line of five parts: the packet being written, `sendQueue`, the packet
offered, the list and `outQueue`. A step of a goroutine appends to the line,
takes its first packet, or moves a packet from one part to the next, which leaves
the line as it is (`LineMoves`, `QueueKept`). The token is why the parts between
are empty when a packet moves past them. Packets are thrown away by a
write to a link that is not up and by `QueueClean`, and `QuitAfterEnd` says that the
connection is lost or closed by then, as `Outbox` asks. The abstract phase follows from `OneEnding`.

### HubQueue

For any callers, any packets sent back by handlers and any packets that the log
refuses:

* `HubTypeOK` and `HubToken`, from `Inductive` (`IInv == TypeOK /\ TokenInv`).
  `TokenInv` says that while `waiting` is true there is one packet or signal
  offered, in `packetRelay`, with the handler or in `packetRelayDone`, and none
  otherwise; it is what bounds `packetRelay` and `packetRelayDone`.
* `HubPlaces`: `Spec => [](PlaceInv /\ OrderInv)`. `PlaceInv` says of each packet that it is in one
  place only (`packetQueue`, `taken`, the relay, the list, the handler or finished),
  where it came from (its caller waits for it, or the handler's work on its
  caller's packet sent it), and that a caller is answered just when its packet
  was served. `OrderInv` says that of the packets the handler sends back for one
  packet, those sent first are nearest the handler and finished first. A packet that comes back is the
  newest of its kind (`SentBackStep`), and every other step moves a packet one place on
  without passing an older one (`OrderKept`); that it is then in no two places is
  what the order takes from `PlaceInv`, proved first (`Places`). Packets of
  different callers have no such order to keep here: the order in which the queue
  takes them is `HubImplementsSerial`.
* `HubImplementsSerial`: `Spec => ImplementsSerial`, the refinement of `Serial`.
  The line of the abstract hub is `packetRelay \o Offered \o pendingMsgs`: a
  packet enters it when the goroutine of the queue offers or appends it, keeps its
  place while it moves (`SerialStep`, a step for each action), and leaves it when
  the handler takes it. `Serial` takes only fresh packets, which `PlaceInv` gives:
  a packet in `taken` is nowhere else.

### Cluster

For any servers, clients, connections and chat messages, and links that break:

* `ClusterTypeOK`. A link is up at both ends or at neither (`Paired`), and nobody
  logs in as everyone.
* `ClusterMapsTrue`. The strengthening is `PacketsTrue`: every packet under way
  speaks of what was there when it was sent (`ChatTrue`, `KillTrue`, and for a
  location that the client has visited the server it names). A map is written from
  a packet, and what it says stays true: a connection that was there never becomes new
  again.
* `ClusterSupersededKilled`. A connection that replaces another pushes the kill in
  the same step. If the replaced one had ended, the push would hang the server, of
  which the property says nothing.
* `ClusterDoubleLoginKilled`. Of two logins of one client at two servers the one that
  was handled later was broadcast over a link that both still know (`LinksKnown`, a
  server is forgotten only after the link to it ended), so `RaceInv`: its kill is at
  the other server, or was pushed there.
* `ClusterNoDuplicates`. `Once` follows each message: a chat message waits where it
  entered, alone, and from then on there is one copy under way to each server, none
  where it has been pushed (`ChatOnce`); a kill is sent when its login is handled, and
  to other servers (`KillOnce`); a logout is told once, in messages with no target in
  common (`NoticeOnce`). A push takes its copy away.

### Group

For any clients, connections, requests and size of the channel. The argument is
about `UnderWay`, what the handler and the channel hold for the group, as one
sequence: the handler appends to it, the send on the channel moves a packet
within it, the group's goroutine takes its first packet.

* `GroupTypeOK`: `GInv` adds that nobody is told to exit while in the map (`Told`),
  that a goroutine not started is empty (`Quiet`), and that without cleaning there is
  only one (`Alone`).
* `GroupInOrder`: `Ordered` says that what was pushed to a connection comes before the
  messages under way, and that these rise.
* `GroupRecordsAgree`: `Recorded` adds that a connection that has not logged in is in
  neither record. What the group will make of `UnderWay` is decided by the last
  packet that speaks of a client. That there is a last one (`Decided`) is kept as part of
  the invariant: appending gives the new one, taking the first leaves it.

### Membership

For any servers, any seed among them, and connections and failures as the
bounds leave:

* `MembershipTypeOK`, from `PInv`: an entry of `serverPeers` is a connection with the
  server at one end.
* `MembershipMesh`: `OneByOne` says that, while servers start one after the other and
  nothing fails, two servers that have started are connected or about to be
  (`AboutToBe`), and no two connections join the same two. That dialling does not
  find all connections used is a count: there are no more connections than pairs
  of servers, and the pair being dialled has none yet (`RoomAssumption`).
* `MembershipEndsHandled`: an ended connection that is in a map, or waits to be
  registered, is about to leave it, unless its end was handled ahead of its
  registration (`early`). It is the safety half of `EndedIsForgotten`.

### FileLog

For any records, sizes, crashes and failures, from one invariant, `LogInv`:

* `LogHeader`: `OffInv` adds to `HeaderInStep` what holds at each step of who has the
  lock (the writer between block and header, the reader between zeroing,
  truncating and advancing), and `LockInv` that nobody is at such a step without it.
  A crash leaves only the header, which is why the header must never speak of a block
  that is not in the file yet.
* `LogTypeOK`: with the space used by the block in memory.
* `LogNothingLost`: `Whole`. Appending a header moves the block in memory behind the
  unread ones, `GetBlock` the first of them to the reader, `SaveChats` what it holds
  to what was handed on; a failing append takes away just the records of its block,
  since a record is logged once (`Contents`).
* `LogAtMostOnceInOrder`. `MemoryOrder` and `ComingOrder` are about what `readloop` will
  still read without a crash, `DiskOrder` about everything in the file behind the
  header's number, which is what it will read after one. The relation weakens by one
  crash between the two: records on disk are in order while there was at most one
  crash (`ForDisk`), those in memory while there were at most two (`ForMemory`), and
  always different. `Positions` says where the block being taken is. `TableOrder`
  carries the order over to the two tables, between whose saves the process may stop.

`Used`, `Only` and the flattening of blocks are recursive functions. What they
make of a sequence with one element more is proved from their definitions (`UsedAppend`,
`OnlyAppend`, and `FlattenAppend` of `ChannelFacts`): `StepByStep` of `ChannelFacts` says that a function
given value by value exists. What holds for every sequence (`OnlyConcat`, `OnlyTwice`,
`OnlyKeeps`, `FlattenFront`) is proved by `OneAfterAnother`, induction in the form of a
set of sequences, which rests on the library's theorem that a set of numbers that
is not empty has a least one.

### Block

`BlockReadsBack`: `Spec => []ReadsBack`, for bytes of any number of values, blocks of any
size a uint16 can count with two bytes to spare, and any records. It says that `sub`, which is not called
once a loop has panicked, gets one entry for every record its block accepted
(`SubIsCalled`, `EntryPerRecord`), and that a block whose lengths fit is read whole, in order and
without a panic. The invariant relates bytes to
records: `Laid` (with the places of the records in `LaidAt`) says that a block
begins with the number of its records and holds them one behind the other, each
as its length in two bytes and its bytes. `WriteInv` says so of the block being
written, `ReadInv` of what is left of the one being read: reading does not change
it behind the place it has come to, only the count at its front, and
that count and `left` go down together. Both hold only while every length fits into a
uint16 with its two bytes (`AllFit`), which is the condition of `ReadsBack` itself;
`CountInv` and `Entries` (the records read and those left are the accepted ones, in number) need no such condition. `Room` is the arithmetic
of uint16: while a length fits, the test for space cannot wrap. What is
written at one place leaves the others alone (`WriteElsewhere`, `CopyCells`), and
what is written is read back (`ReadWritten`).

### Codec

For any messages of any lengths, frames of any number of messages and any read limit,
from one invariant, `CodecInv`:

* `InTransit` says which of the frames written those on their way are, and that the
  others were read, but for the one that ended the connection.
* `FramesRead` says of every frame what was handed on of it (`ReadOf`) and, of the
  last, what is left of it (`LeftOf`): nothing; or exactly the tokens of the messages
  behind those handed on (`Rest`); or, after a message whose list was longer than its
  count, tokens that begin in the middle of the list. The step rests on
  `Decodes`: a buffer that begins with the tokens of a message gives that message back and
  leaves what is behind it, if the message fits; if not, it gives a message that is
  `Like` it and leaves no header. `Decodes` in turn rests on `FieldsInOrder`: a list is the
  last field of its body, so that the fields stand at the places where they are looked for.

`CodecFramesStandAlone`, `CodecNothingMadeUp` and `CodecRowsNamePeers` follow.
`FramesStandAlone` speaks of the first message that does not fit; that there is one is
`FirstThatDoesNotFit`. `CodecRowsNamePeers` has a hypothesis, since what it
says is not true of all messages: chats have an address as their destination, and one
that a server passes on has an address as its source that is not a broadcast address.
`MCCodec` is an instance of it, `MCCodecBroadcast` (section 6) shows that the
last part cannot go. `ParsedAddress` is what it needs of `Addr`: type, domain and name
are read back from an address as they were put in.

### ServerCache

`CacheReads`: `CacheSpec => []ReadsWhatWasThere`, for any number of servers, cleaners and
readers. The strengthening, `ReaderInv` in `CacheInv`, says of a call of `GetServers` under way
that who was alive all through it has been found, was missed by a command that
failed, or is still to be asked for and has its key; `Clean` and `DelServer` of
others can therefore take nobody from it.

### What the proofs assume

The assumptions named in the modules, which TLC checks with every run: the bounds
are natural numbers (`BoundAssumption`, `FrameAssumption`), handlers send a natural number of packets
(`SelfSendsAssumption`), a record takes space (`SizeAssumption` of `FileLog`), a byte has at least two values, a
block has room for its count and one length and is at least two bytes smaller than what a uint16 counts, and what records are made of is not the byte that
an empty block has (`SizeAssumption` of `Block`), a message has a number for each field of its
body (`MessageAssumption`), a peer has an address, without which it gets no
connection (`PeerAssumption`), connections belong to
a client and a server, chat messages to a client, and the kinds of names are
different (`ConnAssumption`, `ChatAssumption`, `DisjointAssumption` of `Cluster`,
`AddrAssumption` of `Group`), and `RoomAssumption` of `Membership`.

### Only model-checked

The properties of section 6, which do not hold; and, in every module, liveness and
what depends on ENABLED, which are out of TLAPS's reach.

## 6. Where the code disagrees with what is said of it

The first two are among the runs of `PROJECT.json`. Each of the others is found by
`tlc -config <cfg> <module>`, with the module named after the first part of the
cfg (`MCGroupLeft.cfg` goes with `MCGroup.tla`).

| cfg | property | what the code does |
|---|---|---|
| `MCPeerPushAfterEndReturns` | `PushAfterEndReturns` | `peer.go:290` says that a message to a closed connection is dropped. `PushMessage` then sends an error on `doneChan`; the hub passes nil, on which a send blocks for ever, and the hub's handler with it (`peer.go:293`). |
| `MCClusterLoc` | `LocNeverCrashes` | `hub.go:494` looks up a peer to register a server with; the peer may have logged out, and `hub.go:496` dereferences nil. |
| `MCPeerCleanReturns` | `CleanReturns` | The loop under `// clean` (`peer.go:284`) removes the first packet and never moves on to the next: with packets left it spins for ever. |
| `MCPeerHandledOneByOne` | `HandledOneByOne` | `peer.go:169` says that messages are handled one by one; each has a goroutine of its own. |
| `MCClusterMoved` | `LocationsFresh` | `hub.go:301` says that a new location is sent on; a location learnt from a late message is never corrected. |
| `MCClusterGone` | `LocationsConnected` | `hub.go:418` sends to the server a client was located at; the end of a link leaves the locations in the map, and `hub.go:426` sends nothing when the server is not connected. |
| `MCClusterLogout` | `LogoutTold` | `clent_peer.go:27` says that servers are told at logout; one whose session was not recorded is not, and `DelSession` (line 84) deletes only what is not there. |
| `MCClusterHttp` | `LocatedElsewhere` | `hub.go:260` speaks of a client on another server; for messages by HTTP the server records itself. |
| `MCGroupLeft` | `GroupsLeft` | `hub.go:345` says "leave groups"; a login that was replaced returns before and stays a member. |
| `MCGroupAsync` | `HubGoesOn` | `hub.go:437` says that messages to groups are asynchronous; an ended member blocks the group and, when its channel is full, the hub. |
| `MCGroupCleaned` | `OnlyEmptyCleaned` | `hub.go:482` cleans a group without members, by a `MemCount` that a join still in the channel has not reached. |
| `MCFileLogStuck` | `NeverStuck` | `getBlock` returns with the mutex locked when a read fails (`filelog.go:258`). |
| `MCFileLogOrder` | `HandedInOrder` | Stopped three times, the log hands on an old block after a newer one: one stop leaves a block in the file that the header does not speak of; each of two more falls between zeroing one half of the header and truncating (`filelog.go:267`), and the last makes `readloop` read on to that block. No comment promises this order. |
| `MCMembershipMesh` | `MeshAlways` | `server_peer.go:17` says that every server is connected to every other; two that start at once miss one another. |
| `MCBlockLong` | `WrittenIsRead` | A record whose length plus 2 wraps modulo 2^16 is accepted by `Write` and cannot be read back (`filelog.go:78`). When the block is full, it makes `filelog.go:85` panic, and the process ends with the records in memory (`WritePanics`). |
| `MCServerCacheLive` | `OnlyExpiredCleaned` | `redis_cache.go:141` says that `Clean` removes expired servers; one whose key is set between the test and the move is removed too, until it sets its key again. |
| `MCCodecBroadcast` | `RowsNamePeers` | A broadcast address as the source of a message (by HTTP) has a length that `Len` (`common.go:171`) reads as more than the address has, and `Address` panics. |
| `MCCodecLink` | `ReadsUpTo1M` | `server_peer.go:126` says 1M; the limit is 10 KiB, and an offline message of 317 targets (`hub.go:356`) ends the connection of two servers. |

## 7. Not modelled

* `database`: SQL through a library. `MemGroupCache`, which nothing but its tests
  calls and whose reads race with its goroutine, and `RedisClientCache`, one
  key per client.
* `chat`, `send`: programs for load tests.
* Configuration and start: run once, before anything concurrent.
* HTTP: URL parsing, digests, JSON; its packets are in `Cluster` and `Membership`,
  the limits it sets in `Codec`.
* Message numbers: `peer.go:223` numbers a message in a header that several
  connections share.

## 8. Plan

In place: the connection, the hub's queue, routing with links that break, the
log with its failures, groups, membership, blocks, messages and addresses, the
list of servers in redis. Next:

1. more of the model: message numbers shared between connections; responses
   and several domains in `Cluster`; servers that start again in `Cluster`
   (`Cluster` with `Membership`);
2. proofs: that `FileLog`'s blocks of records are those that `Block` has the bytes of, as
   a refinement; what of the liveness follows from invariants, such as which of the steps
   that somebody waits for is possible.
