# Frame backend: TLA+ specifications, checks and proofs

The repository is the backend of a browser conferencing application: an API
server in TypeScript (`src/frame`) that identifies clients, puts them into rooms
("frames") and chooses media servers for them, and media servers in Rust
(`src/rust`) that carry their audio, video and movement. This directory holds
TLA+ modules translated from that code, the TLC runs that check them, and proofs.

## 1. The system

```
 browser          webApplication worker     peerManager worker          media servers
 Avatar  --ws-->  wsRelay / wsServer  -IPC->  PeerConnectionManager      ingress  (one TCP
 (avatar.ts) <--  (bin/api.ts forwards) <--   + SignalRouter  <--TCP-->  egress    connection
                  statsRelay, webapp                                     movement  each)
                                                    ingress ==pipe transports==> egress
```

| Component | Source | State | Operations | Module |
|---|---|---|---|---|
| SignalRouter | `frame/libs/signalRouter.ts` | connection of every media server, region lists and load tables per kind, `routingTable`, `pipes` | register, load report, close, resolve a region, select a server, relay the pipe handshake, close a room | `SignalRouter`, `Announcements` |
| PeerConnectionManager | `frame/libs/peerConnectionManager.ts` | `peers`, `rooms`, `peerCount` | requestIdentity, joinRoom, leaveRoom, create/connect transports, produce and consume, indicators, counters, statistics, boot, disconnect, dropRoute | `PeerConnectionManager`, `Announcements`, `PeerIndicators`, `Relays` |
| Avatar (client) | `frame/webapp/core/avatar.ts` | websocket, identity, transports, producers, consumers | connect, enterFrame, participate, leaveFrame, answers to signals | the same, `Movement` |
| Client state, harnesses | `frame/webapp/core/peerState.js`, `mainline/avatar-harness.js` | the peers a client shows | indicators, disconnected peers, leaving | `PeerIndicators` |
| Movement protocol | `frame/webapp/core/movementProtocol.ts` | send buffer, header | merge an update, send, clear, read | `Movement` |
| Websocket relay | `frame/libs/wsRelay.js`, `wsServer.js` | `clients` by connection id | message in, close, answer out | `Relays` |
| Statistics relay | `frame/libs/statsRelay.js` | subscribed sockets, a timer in the manager | begin, end, ping | `Relays` |
| Process layer | `frame/bin/api.ts` | two worker processes | fork, forward IPC; an exited worker is logged and not restarted | `Relays`, `SignalRouter` |
| Media server handlers | `rust/src/server/message_handle.rs`, `rust/src/handlers` | nineteen tables, each behind its own tokio lock | one task per message | `MediaTasks`, `Announcements` |
| Media server relays | `rust/src/handlers/media_relay.rs`, `relay_egress.rs`, `relay_connect.rs`, `relay_producer.rs` | `relays`, `relayRouters`, `pendingRelays`, `pipetransports` | open, answer and connect a pipe, relay a producer | locks in `MediaTasks` |
| Media server stream | `rust/src/server/stream.rs` | bounded channel, write queue, timer | select loop | channel in `MediaTasks` |

What is hard in it:

* one client's joinRoom touches every other client of the room: a new egress
  server has to be announced to all of them, in any state they may be in;
* the state of a room is in four places (`rooms`, `routingTable`, `peerCount`, the
  media servers' router groups), updated by handlers that return early in the
  middle;
* a media server can go at any point, also before its first load report, and its
  clean-up runs in a socket handler in which an exception ends the process;
* clients act on answers that belong to a frame they have left;
* what a peer hears is decided by two parties, the client that asks once and the
  manager that announces once, between which the tasks of an egress server run in
  any order;
* what a peer knows of another comes from partial updates and replies that cross;
* a websocket id outlives its websocket, and two processes act on what the other was
  some messages ago;
* on a media server every message is a task of its own, and the tasks take the
  tables' locks in different orders.

`PROJECT.json` lists these hazards at their lines with the properties that would
catch them.

## 2. The modules

| Module | Models | Extends |
|---|---|---|
| `SignalRouter` | the registry of media servers | |
| `PeerConnectionManager` | peers, rooms, counters and routes, composed with the registry, the clients that signal, and what media servers and clients have been told | `SignalRouter` |
| `Frames` | the abstract specification that `PeerConnectionManager` implements while no media server goes and nobody changes frames | |
| `Announcements` | how producers, requests and announcements become consumers: a room's clients, the manager and the tasks of one egress server | |
| `Conference` | the abstract specification that `Announcements` implements | |
| `PeerIndicators` | what the clients of a room know of each other and whom they hear | |
| `Relays` | the websocket relay, the statistics relay and the two processes | |
| `Movement` | the packets of an avatar's movement, from the send buffer to the receiver | |
| `MediaTasks` | the tasks of one media server, the locks they take and the channel they answer through | |
| `MCSignalRouter`, `MCPeerConnectionManager`, `MCAnnouncements`, `MCPeerIndicators`, `MCRelays`, `MCMovement`, `MCMediaTasks` | instances for TLC | the module of that name |
| `SignalRouterProofs`, `PeerConnectionManagerProofs`, `AnnouncementsProofs`, `RelaysProofs`, `MediaTasksProofs`, `MovementProofs` | theorems | the module of that name, `TLAPS` |
| `RoomsProofs` | theorems about rooms and their peers | `PeerConnectionManagerProofs` |
| `PeerIndicatorsProofs` | theorems about what peers know of each other | `PeerIndicators` |

### SignalRouter

`link` is the TCP connection of each media server: a server registers once with a
fresh node id and is gone when its connection ends (`main.rs` exits with the
stream). `regions[m][rg]` is the list `ingressRegions[rg]`, `egressRegions[rg]` or
`movementRegions[rg]`. The insertion order of region names is state (`regionKeys`)
because the fallback of `getIngress`, `getEgress` and `getMovement` takes the
first region of the object. `loadKeys` records which load tables exist: reading the
least loaded server of an empty table, and deleting from a missing one, throws.
The names of airports in `resolveRegion` are abstracted to the region they map to;
`Unknown` is the default branch. Regions whose airports are listed (`Regions`
without `Local`) are the constants.

`Selection` is a set because two servers with the same load are ordered by their
first report, which is not state here: the answer is nondeterministic among them.

Actions: `Register`, `ServerLoad`, `CloseServer`, `StorePipeRelay`,
`ConnectPipeRelay`. A close whose clean-up throws is `Crash`: `running` becomes
FALSE and nothing happens any more, as `bin/api.ts` starts no new worker.
`StorePipeRelay` lets an ingress server name an egress server that has gone,
since it was told of it earlier.

### PeerConnectionManager

A client has one websocket and gets one peer, so an element of `Peers` stands for
both. `peers`, `rooms` and `peerCount` are the maps; a missing entry is `None`. The
three lists of a room are one set of servers, told apart by `ModeOf`.
`routingTable` is a separate variable because the close handler deletes from it
alone.

Two ghost-like variables stand for the receivers of signals: `groups[s]`, the rooms
server `s` was last told to have a router group for (`createRouterGroup`,
`destroyRouterGroup`), and `invited[p]`, the egress servers client `p` was told to
connect to in its present room.  A signal to a server that is not connected is
dropped, as `sendIngress` and `sendEgress` do.

The signals of one client are handled in the order it sent them, each to completion
(`command` awaits nothing that yields). `client` holds what decides which signal
can come next: the number of unanswered `joinedRoom` replies (also those that
belong to a frame it has left), whether it has a producer transport, whether it is
sending, whether it has asked for the room's movement. A client may stop at any
point: there is no fairness.

`LoseServer` composes the close handler of the router with `dropRoute` of the
manager: the peers on that server are disconnected, the rooms it served deleted, then
the router's own tables are cleaned. `DisconnectThrows` and `DeregisterThrows` are
the two places at which it fails.

Abstractions: `onLastPeerDisconnect` and `frameSettings` (database writes) change no
state here. A `createdIngressTransport` answer is taken to arrive with the request
that asked for it. The load selections of the composition use one load value, so
that servers of equal load are chosen between freely.

`Frames` is what a client may rely on: it enters a frame from outside and the frame is then open on
its servers, too; the last one to leave closes the frame, on all servers. `FramesSpec` is its
specification under the mapping `inside` = the room of a peer that is known, `servedBy` = its
ingress, egress and movement servers, `open` = the connected servers last told to have the router
group of the room. `joinRoom` is an `Enter`, a closing tab and `bootPeer` are a `Leave`, or nothing if
`disconnectPeerWebsocket` returns early or throws; all other signals change nothing of it. The
manager does not implement it across changes of frame or losses of servers, for the reasons in
section 3 under Findings.

### Announcements and Conference

A consumer of somebody's producer comes about in one of two ways: the client asks once
for everything of a kind (`consumeAllAudio` and its like), or the manager announces a
producer to the room when an egress server reports that it has it
(`createdRelayProducer`, `createConsumerMessages`). `Announcements` has the three parties
between which this happens: the manager's handlers, each atomic; the tasks of one egress
server, one at a time in any order (`CreateWebRTCEgress`, `CreateRelayProducer`, `Consume`,
`DisconnectTransport`); and a client that asks in the order `Asking`, of which the request
for movement ends the lobby. Messages are sets: the tasks reorder them anyway, and a
message that is sent twice has no other effect than once. The loops of `consume_audio` and the
others deal with one producer of a request at a time and await `consume` in between, so that a
turn of them is two steps: `Consume` finds transport and producer, of which the task then has a
clone each (`consuming`), and `Consumed` puts the consumer into the tables, whoever has gone
meanwhile. `DisconnectTransport` in between leaves a consumer of or for a peer that has gone;
mediasoup closes it if the producer has gone, once no task has a clone of that (`Open`).

`skipped` and `early` are history: the two gaps in which the code does leave a producer
out. A peer that has asked for audio and is still in the lobby is not announced the audio
producers that come then, and a request that is handled before the peer has its receive
transport is lost. Everything else is `EveryoneServed`.

Abstractions: one room, one egress server, a peer enters once; the filters of room and
server are in `PeerConnectionManager`. The contents of a consumer and its answer to the
client are left out.

`Conference` says what all this brings about: who listens, what there is, who hears what.
`ConferenceSpec` is its specification under the mapping `listening` = peers with a receive
transport, `sources` = relayed producers, `tuning` = what tasks are making consumers of, `hears` =
consumers: a peer begins to hear only what there is, while it listens; what it begins to hear it
hears, unless the source has gone and nobody else begins to hear it; and who leaves takes along
what it heard and what was heard of it, but for what was begun.

### PeerIndicators

`up[p]` and `down[p]` are the two directions of p's websocket, in order. A client sends
partial updates of its facade and avatar; `Command` is the manager's `command`, which passes
them to whoever is in the room at that moment; `IncomingSignal` is the client's dispatch,
with `PeerIndicators_handler` and `PeerDisconnect_handler` of `mainline/avatar-harness.js`.
`Merge` is `updatePeer` of `peerState.js`, and `Undefined` a field that is not given.
`hush[p][q]` is the wish that `mutePeer` keeps for a consumer that has not come,
`consumer[p][q]` p's consumer of q's microphone.

`SendAssetBindings` is the message that tells of bound assets only: who does not know its sender
creates the peer (`peersMap`) and replies, but has neither facade nor avatar of it (`Learn`), so
that the sender stays unknown and will be answered again. It is debounced, and may come from a
client that has left the room.

The departure of a client depends on two entries of the manager, `room` in `rooms` and `counter` in
`peerCount`. `LeaveRoom` returns early without the one before it tells anybody, without the other
after it; `DisconnectPeerWebsocket` deletes the peer silently without the one and throws without
the other. `joinRoom` makes the room, `CreateCounter` the counter, and a `leaveRoom` that counts
nobody who takes part or waits in the lobby closes both under those who stay. Whom it counts is
the matter of `PeerConnectionManager`: here a `leaveRoom` may always close the room, which is more
than the code does. `unsaid` is history: the peers whose going was not announced. They are shown
for ever, and nobody else is (`NoGhosts`).

A facade is a version number, so that an old value that overwrites a newer one is noticed.
`setFacade` with `broadcast = false`, which changes a facade and sends nothing, has no caller. A
consumer may arrive whenever both are in the room (`AudioAnnouncement`); when it does is
the subject of `Announcements`. `closeConsumersForPeer` leaves the audio consumer when there
is no movement consumer, which the model allows by a choice.

The harness of the quick page (`quick/avatar-harness.ts`) sends its indicators to the whole
room where that of the main line replies, and the one of the diagnostic page replies to
everything and forgets nobody who disconnects; they are not modelled.

### Relays

`clients` is the map of `wsRelay.js`, `peer` what the manager knows of a websocket id, `toApi`
and `toWeb` the messages between the two processes, which `bin/api.ts` forwards in order.
`Incoming` sends a client's requests in the order in which their answers allow them; `Close`
comes at any time after the client has gone, also after it reconnected with the id it had
(`Reused`). A message back for an id without an entry ends the process (`SendBackThrows`):
`running` becomes FALSE and the sockets close. Of the manager the module has only what
websocket ids decide, with the room's entries in `rooms` and `peerCount` (`routed`, `counted`):
`leaveRoom` and `DisconnectPeerWebsocket` return early or throw without them. Roles are left out,
so that a `leaveRoom` may always take the room for empty and close it. `abandoned` is history: the
peers that were in the room and had asked for their transport when it was closed, and have not
asked again. When somebody joins the room anew, it has no counter, the close of an abandoned peer's
socket throws and the peer outlives its socket; nobody else does (`NobodyOutlivesTheSocket`).

`timers` counts the chains of timers of `beginSendingStats`, of which `#statsTimeout` names at
most one (`latest`).

### Movement

`SetMovement` merges a frame of parts into `buffer` and the header, and adds `fullPacket` to
it, with the 16 bits of the header's Int16; `Timer` is the interval of
`startSendingMovement`, which sends 78 bytes, 36 bytes or nothing and clears the buffer;
`MovementToJSON` and `PackedSize` are what the receivers make of a packet. `MovementToJSON` also
reads the bit `frequent`, which nothing sets, but to which `fullPacket` carries. A part is a name
with a value, the numbers are left out. The data channel may lose or reorder packets, each
of which stands for itself: `channel` keeps one until it is received or lost.

### MediaTasks

A media server (`rust/src/server/stream.rs`) reads messages in one loop and spawns a
tokio task per message; mediasoup's close callbacks spawn tasks too. What can go wrong
between tasks is which locks they hold while they wait, so a handler is a set of paths
over five kinds of step:

| Step | In the code |
|---|---|
| `Lock(l)` | a guard bound by `let`: `let mut relays_guard = relays.lock().await` |
| `Use(l)` | a guard that dies with its statement: `relays.lock().await.get(..)` |
| `Drop(l)` | the end of the block or loop round the guard was bound in |
| `Try` | an await or a lookup after which the handler may return early |
| `Send` | `sender.send(..).await` on the channel of 128 responses |

The contents of the tables are abstracted, so that every branch on them is a choice of
path (`todo` is the set of what the task may still do) and every early return a possible
`Return`, which drops all guards, as Rust does. A handler that calls another one contains
its paths, with the caller's guards still held (`CreateMediaProducer` and
`ConsumerRelay`). A guard in the head of an `if let` lives until the end of the statement:
`LessLoadedRouter` holds `routers2workers` while it locks `loads`.

`Acquire` and `Enqueue` are tokio's mutex: first come, first served, no timeout, no
poisoning. `SendResponse` waits while the channel is full, `Receive` is the branch of the
loop that empties it. `loop` is the task the read branch awaits: only `restartIce` is
handled without `tokio::spawn`.

`Serving` are the messages of a server nobody leaves, and `ServingRank` is an order in which all of
their handlers take their locks. `Leaving` are messages that can be handled while rooms and
transports come and go. One order does not serve them: `createRouterGroup` takes `routers` before
`routers2workers`, `destroyRouterGroup` takes it last, so that there is a `CreatingRank` and a
`DestroyingRank`, which differ in `routers`, and both handlers hold `roomRouters` from their first
step to their last, so that they never run at once.

Left out: the `RwLock`s `workers` and `webrtc_server`, written before the loop starts; the
`Mut` tables (`transports`, `pipetransports` and others), locked without an await inside;
handlers that exit the process on a closed router. Two transports or producers of one
handler are the same paths, so `connectWebRTC`, `consumerPauseResume` and
`producerPauseResume` each stand for two messages.

Fairness is weak, per task and for `Receive`. The runtime polls every woken task; a task
takes a step only if the guard or the place in the channel is there, and a waiter at the
head of a queue stays there, so that weak fairness is enough for `Acquire`; every
`Receive` serves whoever sends next, and a task sends finitely often. `select!` picks
randomly among ready branches, so the receiving branch is taken eventually. Messages are
not fair: nothing has to arrive.

## 3. The runs

| Run | cfg | Shows |
|---|---|---|
| registry | `SignalRouter.cfg` | tables of the registry agree, selections return live servers, pipe handshakes find their pipes |
| peer_rooms | `PeerRooms.cfg` | three clients, one room, two egress servers: announcements, routes, closing of rooms, role counters; frames are opened and closed as `Frames` says |
| server_loss | `ServerLoss.cfg` | two clients, two frames, three entries in all, one lost server: nothing stays on it, tables agree, a peer is in the frame of its client |
| announcements | `Announcements.cfg` | whatever the order of requests, relays and announcements, who asked hears everybody, and eventually; nothing is heard that a conference does not allow |
| indicators | `PeerIndicators.cfg` | two clients that enter, change, walk, leave and close their tabs, while their room may be closed under them, end up showing and knowing each other as they are, and hear who they should |
| relays | `Relays.cfg` | reused ids, late closes, leaving and entering again: whom answers go to, who outlives its socket; statistics follow their viewers |
| movement | `Movement.cfg` | a packet that arrives has the parts that were given in its interval and no others, and is told apart in a batch |
| media_serving | `MediaServing.cfg` | any two messages of a server nobody leaves, with their callbacks: every handler gets its guards and returns |
| media_rooms | `MediaRooms.cfg` | any three of the messages of a server whose rooms and transports come and go do not deadlock |
| closed_tab_forgotten, disconnect_stalls, answer_to_closed_tab | one cfg each | the code does not do what a comment in it says; see Findings |

Each property has a mutant: a definition of the model with one mistake in it (marked
"Mistake" in the modules), under which TLC reports the property violated.

### Bounds

`registry`: two ingress servers, because the handshake has to tell two
openers apart; one egress server in the same region and one in another, because the
fallback looks at the first region only; two loads (less and more) and two pipe
routes (two handshakes at once). `peer_rooms`: three clients are needed for one that
enters while one is served and one is between; two egress servers for a room that
gains one; clients are symmetric. `server_loss`: two frames; one client enters twice, so that
replies of the first frame are answered in the second, and the other once, in the frame that is
left, the one that is entered, or neither (`ThreeEntries`); one loss of any of the servers. Clients,
frames and egress servers are symmetric. `MaxEntries` and `MaxLosses` are the only bounds in guards;
the theorems hold for every value of them.

The two passing runs of the composition divide the behaviours because the code does
not keep the properties of one in the other: `RoomStaysOpen` and `EmptyRoomReleased`
hold only while no client changes frames and no server is lost (`dropRoute` deletes a room
that may still have peers on its other servers), `RoutesAgree` only without movement
servers.

`announcements`: the properties speak of a pair of peers and a kind. Two peers, of which one
leaves; audio (video is handled alike), movement, which ends the lobby, and events, which
are relayed to their own peer and keep later data producers out. One peer sends audio, the other
movement and events, any two of these three in a behaviour (`MayProduce`). The theorems hold for
any peers, kinds and producers.

`indicators`: the properties are again about pairs. The peer that walks is the one that changes
frames, and the other closes its tab, so that each sees both; two changes, so that one is
overtaken by the next, in two zones, or one change and a change of frame (`TwoActs`).

`relays`: two sockets, numbered in the order in which they connect, that have the same id or
two, and two viewers, so that one goes while one stays, and comes when one has gone. The first
socket may leave the room and enter again while the second is in it or comes to it. `sent`
bounds a client to these requests. At most three messages are on their way to the peerManager
(`MaxQueue`): the late close of one socket, a request of the other and one about the statistics.

`movement`: six sets of parts in which the header bits meet in each way the code tells apart,
and four frames in an interval: the first that carries `fullPacket` into the next bit is the
second, and the fourth carries it further.

The media runs: a deadlock of two handlers needs two tasks, and the ones of
`media_serving` include every pair of its twenty messages, also a message with itself, so
that with `Capacity` 1 (for 128) a handler that sends while it keeps guards meets a full
channel. `media_rooms` has all messages of `Leaving`, and three tasks, for circles of three.
More tasks could wait in longer circles, and more rounds of a loop could leave more locked; that
they do not is proved (`ServingDoesNotDeadlock`, `LeavingDoesNotDeadlock`), and the assumption
`HandlersInOrder` of `MCMediaTasks` evaluates the orders these proofs use for every path of the
instance. `Rounds` bounds the loops over egress servers,
producers and workers: two rounds in `media_rooms`, so that what a round leaves locked
meets the next round, one in `media_serving`.

Runs switch off the deadlock check where clients may stop: one that has closed its tab does
nothing, and a crashed process does nothing.

### Fairness

* `MediaTasks`: weak fairness per task and for `Receive`, as said there.
* `Announcements`: weak fairness of `Announce` (the manager reads what an egress server sent)
  and of `Egress` (its runtime polls the tasks it has). `Egress` as a whole is enough: each
  step of it takes a message away or makes a request smaller, and the clients, which may
  stop, can add only finitely many. The clients' steps are not fair.
* `Relays`: weak fairness of `PeerManager`: node delivers what the other process sent. The
  browsers, the media servers and the timers are not fair.
* The other modules state no fairness: their handlers wait for nothing.

### Findings

1. `closed_tab_forgotten`: `joinRoom` makes no counter for its room. A websocket that closes
   before the first ingress transport or request for counts has `disconnectPeerWebsocket` throw
   at `peerCount.peerCount--`, in the middle: the peer stays in the room for ever. In this state
   the throw comes before the news, so that others go on showing it (`unsaid`).
2. `disconnect_stalls`: `disconnectTransport` locks `data_consumer`, `data_producers`,
   `peermovementconsumed` and `peerdataconsumed` in the reverse order of the two data
   producer handlers, and all keep what they have: one peer leaving while another one starts
   to send movement can block both, and with them all later messages that need a table of
   theirs.
3. `answer_to_closed_tab`: a message back to a websocket that has closed is a TypeError in the
   message handler of the webApplication process, which ends, with every other websocket.

What the models show besides, without a run of its own:

* `leaveRoom` closes a room when `participantCount` and `lobbyCount` are zero
  (`peerConnectionManager.ts:644`). A spectator is counted in neither, and neither is a peer
  that joined and has not asked for its ingress transport: the router group is destroyed
  under it. `peer_rooms` is without changes of frame for that reason. If one of two spectators so
  left behind closes its tab, it is deleted and the other is not told
  (`peerConnectionManager.ts:1645`; `unsaid`); if somebody has joined the room anew, the close
  throws instead and the peer outlives its socket (`abandoned`).
* A consumer that is being made while its peer or the producer's peer disconnects is put into the
  tables after `disconnectTransport` has cleaned them (`audio_consumer.rs:95-138`; `Consumed`).
* The close handler of a movement server deletes routing entries that include it
  (`signalRouter.ts:206`), `dropRoute` keeps the room (`peerConnectionManager.ts:1013`): signals
  along the route then go nowhere. `RoutesAgree` is without movement servers.
* A server that goes before the first load report of its region ends the peerManager process
  (`signalRouter.ts:141`; `DeregisterThrows`, `Crash`).
* `destroyRouterGroup` locks `pendingRelays`, `relays`, `relayRouters`, the opening of an egress
  relay the other way round (`message_handle.rs:435`), so that `destroyRouterGroup` is not in
  `Serving` and `createRelayProducer` not in `Leaving`.
* Which handlers can block `disconnectTransport`: the eight that are in `Serving` and not in
  `Leaving`, each of which locks two of its tables in the opposite order (found with TLC,
  for each of them alone with `disconnectTransport`).
* `restartIce` is handled inside the connection loop, and its answer waits for room in the
  channel that this loop empties (`message_handle.rs:635`); `media_serving` is without it.
* `Object.keys` of a `Map` is empty, so a request for all counters is answered with none
  (`RoomsAnswered`); `peerCount` goes up per ingress transport and down per disconnection, and is
  not the number of peers of a room; a region that lost its servers counts as registered
  (`ResolveRegion`); the fallback selection reads only the first region (`FirstServer`).
* An audio producer that reaches an egress server while a peer has asked for audio and is still in
  the lobby is never announced to it, and a consume request that is handled before the peer's
  receive transport exists is lost (`skipped`, `early` in `Announcements`). A movement producer is
  refused at an egress server that has the event producer of its peer (`Refused`).
* A client that first hears of another by a change of its avatar or of its bound assets may never
  learn its facade, because its reply goes to the other, which does not reply to a reply
  (`faceless`); nor then its avatar, after bound assets. A client that walks
  to another zone goes on hearing whom it heard, until they send something (`Walkers`).
* The header bit `fullPacket` is added once per update (`movementProtocol.ts:192`): after two
  updates with a hand in one interval the bit is clear again and the packet is not sent, contrary
  to the comment on merging at `movementProtocol.ts:153-155`; after three it is set again and so is
  `frequent`, which the receiver reads (`movementProtocol.ts:331`) and nobody gave. An
  update that gives exactly the four small parts has the header 15, which the test `< 15` leaves out. `SingleFrameIsSent` is
  about one update of the other kinds.
* Two clients with the same id: the late close of the older one deletes the entry of the newer
  (`superseded` in `Relays`), and the next message to it is the case of finding 3.

## 4. The proofs

`SignalRouterProofs`, for all servers, regions and loads that satisfy
`ServerAssumption`:

* `RegistryStaysLive`: `RouterSpec => []RegistryIsLive`. The inductive invariant is
  `RouterTypeOK /\ RegistryIsLive` itself: lists hold each connected server once, so that
  removing the first occurrence removes it.
* `SelectionStaysLive` follows: a selection is drawn from the lists.
* `HandshakeStaysConsistent`: `HandshakeInv` adds to the two properties that a pipe names
  the opener of its route, that only opened routes are offered, and that a server takes
  part only when connected.

`PeerConnectionManagerProofs`, for all peers, rooms, servers and bounds:

* `TypeCorrect`: `Spec => []TypeOK`.
* `NothingOnLostServers`: `NoPeerOnLostServer` and `NoRouteOnLostServer`. It needs
  `RegistryIsLive` (a joining peer gets live servers) and `Placed` (a peer outside a
  room has no servers, so the early return of `disconnectPeerWebsocket` leaves none).
* `RoutesStayEqual`: `RoutesAgree`, under the stated assumption that there are no
  movement servers, without which it does not hold.
* `RoomStaysFrame`: `RoomIsFrame`, with `OfflineOutside`: a tab has an identity before
  it enters a frame.

`AnnouncementsProofs`, for all peers, kinds, orders of asking and leavers that satisfy
`AnnouncementsAssumption`:

* `TypeCorrect`, `NobodyIsLeftOut` (`EveryoneServed`) and `LobbyStaysQuiet` (`LobbyIsQuiet`).
  The inductive invariant `IInv` adds to these three: who is absent has asked for nothing,
  produces nothing and has no requests (`AbsentAreSilent`); the egress is told to disconnect only
  who has gone (`LeaversAreGone`), without which a disconnection could take away consumers of a
  peer that is there; a peer in the lobby has asked for audio and video only
  (`LobbyAsksForMedia`); and every request asks only for what `LobbyIsQuiet` allows to be consumed
  (`RequestsAreQuiet`). It says the same of the consumers that are being made as of the requests.
* `ImplementsConference`: the refinement. `IInv` is needed for the two steps of a consume handler:
  `Consume` must be a `Tune`, of something audible while its peer listens, and `Consumed` a `Hear`
  of what was begun; `DisconnectTransport` is a `Leave` that keeps what is being begun.

`RoomsProofs`, for any clients, rooms and servers, with movement servers, under the assumption
`MaxLosses = 0` (no media server goes): a region that lost its servers leaves peers without any
(section 3).

* `RoomsAreServed`: `EgressMesh`, `RouteCoversPeers`, `RoomStaysOpen` and `EmptyRoomReleased`, with
  clients that enter, leave, change frames, are booted and close their tabs, for behaviours in which
  every `leaveRoom` finds the room and its counter, and closes the room just if nobody else is in it
  (`LeavesInOrder`, a condition on the steps). Without it the properties do not hold, for the reasons
  in section 3: it says what `leaveRoom` would have to do. The run `peer_rooms` checks the
  four properties without changes of frame. The inductive invariant `RoomInv` is the first two
  with four facts that tie the tables of the manager, the router and the servers to one another: a
  room has a peer, its route is the router's and every server of it is connected and has the router group (`RoomOnServers`); no other server
  has the group (`GroupHasRoom`); a tab that has not entered has a peer without room and servers
  (`Outside`), so that `joinRoom` never takes a peer out of another room; a peer outside rooms has
  no servers (`Placed`). `RouteCoversPeers` and `EgressMesh` are not inductive without them: a peer
  that enters gets a room with `rooms[r] = None`, and only `RoomOnServers` says that nobody is in it.
* `ImplementsFrames`: `Spec => FramesSpec`, under `~Transitions` as well (nobody walks from one frame
  to another), for which the condition of `RoomsAreServed` is shown to hold. `RoomInv` reduces what
  is open to the table: with it, a frame is open on exactly the servers of `rooms[r]`
  (`OpenIsRoute`), so that the messages to the servers need not be followed one by one. `Unmoved` adds that who is in no room has no movement
  server, without which `joinRoom` could serve a peer by one the frame is not open on.

Both rest on `EntryAssumption`, that `None` is neither a peer, nor a counter, nor a route, which
TLC evaluates on every run of the module.

`RelaysProofs`, for any sockets, ids, viewers and bounds that satisfy the module's assumptions, and
without using the fairness. The two processes know each other through one queue each way, so
`IInv` speaks of the messages in it and of their order:

* `TypeCorrect` (`TypeOK`).
* `OneChainStays` (`OneStatsChain`). `StatsInv` is a function on the positions of the queue to the
  peerManager: the number of chains there are when the first k messages have been handled. It
  starts at the present number, alternates between `begin` and `end`, stays in 0..1 and ends at
  1 exactly if somebody is watching.
* `NobodyLeftBehind` (`NobodyOutlivesTheSocket`). `CoverInv`: for every peer with a transport that is
  not abandoned, and for every request for one that is still in the queue at k, there is an open
  socket of that id or a `disconnect` of it later in the queue.
* `NewestStaysServed` (`NewestIsServed`). `ServedInv`: the newest open socket of an id that is not
  superseded has the entry in `clients`, and once it has sent anything, the peerManager knows the
  id or a `requestIdentity` of it is queued, and no `disconnect` of it comes after that.

`PeerIndicatorsProofs`, for any clients, zones, walkers, movers, closers and number of changes that
satisfy `IndicatorsAssumption`, and for values of `Undefined` and `NoPeer` that are not values of an
indicator (`UndefinedAssumption`). Every client has a queue each way, so `IInv` speaks of what is in
the queues and, for values, after which position:

* `TypeCorrect` (`TypeOK`). It needs `Shape`: a client shows complete indicators of itself,
  sends only its own, replies with complete ones, and sends nothing after it has closed; and
  `Created`: whom a client knows it has created.
* `NoGhostsStay` (`NoGhosts`). `GhostInv`: if p shows q, or has a message from q at k in its queue,
  then both are in the room, or the news that q has gone comes after k, or q is unsaid; and no such
  news is about somebody that is there. It needs `RoomInv`, that who tells or is told is in the room.
* `PeersGetAcquainted` (`Acquainted`). `AcquaintedInv`: of two clients that take part, p shows q, or
  a message is on its way that leads to it: indicators of q, a reply of q, or indicators of p, which
  q will answer if it does not know p. If it does know p, it will not answer, and `MutualInv` is
  needed: whom q shows shows q, or q's reply to it is on its way. They speak of who is shown, not of
  who is known, because bound assets make a peer shown and leave it unknown; who is known is shown
  (`Created`).
* `TheLatestIsKnown` (`KnowsTheLatest`). `LatestInv`: a value that is known, or in a queue at k, is the
  present one or a message that gives the field comes after it. When the peerManager takes such a
  message, `GhostInv` and `RoomInv` say that it reaches whoever has the older value.
* `FacesBecomeKnown` (`FacesAreKnown`). `FaceInv`: the facade of a peer that is shown and takes part is
  known, comes, or a change of the avatar or of the bound assets was heard before it was known.
* `MutingIsKept` (`PausedAsAsked`), inductive with the types.
* `OthersStaySilent` (`OtherZonesAreSilent`). `HushInv`: who is known to be in another zone is to be
  muted. What could break it is a message that gives both another zone and `audioMuted = false`,
  handled while the peer is still known to be in the own zone. Changes give one of the two; a reply
  gives both. `ZoneInv` orders each reply among the changes before it: the zone that it gives is the
  one given last before it, on the same way down, or on the way up and then down, or known. When the
  reply is sent this is what `LatestInv` says; it is kept because both queues are in order and what
  the peerManager takes before the reply reaches the peer it is for. `NoSelf`: nobody is told of
  itself.

`MediaTasksProofs`, for any tasks, capacity and rounds:

* `ServingDoesNotDeadlock`: if only messages of `Serving` arrive, `Spec => []NoCircularWait`.
* `LeavingDoesNotDeadlock`: the same for messages of `Leaving`.
* `OrderedHandlersDoNotDeadlock`, on which both rest, for any messages that agree on an order of the
  locks, or on two with a gate (`Agreed`). In a set of tasks that wait only for each other, the one
  that waits for the lock of the highest rank waits for a task that has it and asks for one of a
  higher rank. The inductive invariant `IInv` says what that needs: a task that waits has only that
  request among its next steps (`WaitInv`), what is left of its paths is in order with respect to
  the guards it has (`OrderInv`), a task that has not been spawned or has returned has no guard and
  nothing to do (`IdleInv`), and a task is in a queue at most once (`UniqueInv`). `GateInv` adds
  that who handles one of the messages that disagree has the guard of the gate, or has nothing and
  asks for it: of a stuck group only one can be past the gate, and its order holds for all of them.
* `TypeCorrect` (`TypeOK`), for any messages: a guard has one holder at most, only tasks queue for
  it, and the channel never has more responses than it takes.

That the handlers keep to their orders is proved from their definitions, handler by handler:
`Obeys(rank, H, P, G)` says that the paths of P, begun with the guards of H, ask in order and end
with guards of G, and `ObeysThen`, `ObeysOptional`, `ObeysUnion` and `ObeysLoop` put the parts of a
handler together. The function in `Loop` is shown to exist, round by round, from the
well-foundedness of the naturals (`Induction`, `UpToExists`), since the library's theorems about
recursive functions take an operator.

`MovementProofs`, for any sets of parts that are given together, any values and up to 31 updates in
an interval (the 32nd would make the header negative):

* `TypesKept` (`TypeOK`), `PacketsAreTheirIntervals` (`PacketIsItsInterval`), `BatchesAreToldApart`
  (`BatchIsToldApart`) and `SingleFramesAreSent` (`SingleFrameIsSent`). The header is a number to
  which bits are added, so the invariant says which: `HeaderTells`, that it is the sum of the bits
  of the parts given since the buffer was cleared and of 1024 for each update that found a limb,
  whose number is that of `LimbUpdates`. `fullPacket` is thus set or not as that number
  is odd or even, and in both cases sender and receiver read the same; `frequent` is the next bit
  of the same number. `BufferHolds` says that the
  buffer has the last value given of every part.

Every invariant and every action property of the passing runs but one is stated by one of these
theorems, and so are the two refinements. Only model-checked is `RolesCounted`: it holds for
`peer_rooms`, without changes of frame, and a theorem would have to leave out just what goes wrong
with the counters otherwise, early returns of `leaveRoom` and transports that a peer keeps from its
former frame. Only model-checked is also liveness (`ServedEventually`, `StatsFollowViewers`,
`HandlersReturn`), whose fairness is outside this prover. That it is the `roomRouters` guard
which keeps `Leaving` from a deadlock is shown by the mutant of `media_rooms`.

## 5. The plan

1. Done: `SignalRouter`, `PeerConnectionManager`, their runs and proofs.
2. Done: `MediaTasks`, the locks of the media server's tasks, and the proof that handlers
   that follow one order cannot block one another.
3. Done: `Announcements` and the conference it implements; `Frames`, which the manager implements;
   `PeerIndicators`; `Relays`; `Movement`.
4. `MediaRelay`: the relay tables of ingress and egress servers, with handlers cut at
   their awaits; an abstract handshake that `SignalRouter` and the tables implement;
   `is_connected`; relays and rooms that are destroyed and created again.
5. `ServerStream`: the timer of the select loop, and `QueuedWrite` as an implementation
   of a queue.
6. The client's own producers across changes of frame, with the ids they wait for.
7. Done: every safety property of the passing runs but `RolesCounted` proved, for any number of
   clients, tasks and rounds.

## 6. Not modelled

* Media and its encoding, display state and the DOM of the client, and the harnesses of the quick
  and diagnostic pages, which repeat that of the main line with the differences said above.
* The client's own producers, its connection to a movement server and its reconnection: promises
  that wait for ids of answers, planned in 5.6.
* The contents of the relay tables and router maps of the media servers, and which router of a
  room a transport gets (5.4); the write queue and the timer of their connection (5.5).
* HTTP routes, database and third-party APIs (stateless or outside the repository);
  configuration; the length-prefixed codec; deployment; tests and diagrams, which were read as
  documentation.
