-------------------------------- MODULE Relays --------------------------------
(***************************************************************************)
(* The webApplication process between the browsers and the peerManager     *)
(* process.                                                                *)
(*                                                                         *)
(* wsRelay gives every websocket an id, by which the peerManager knows the *)
(* client, and keeps the sockets by id in a map; a client that reconnects  *)
(* may present the id it had.  statsRelay has the peerManager start and    *)
(* stop its statistics with the first and the last viewer.  The two        *)
(* processes only send each other messages, which the master forwards in   *)
(* order, so that each acts on what the other was a while ago.             *)
(*                                                                         *)
(* Of the peerManager the identity, the room (there is one), its entries   *)
(* in rooms and in peerCount, what goes to all of the room, and the timer  *)
(* of the statistics are kept.                                             *)
(***************************************************************************)
EXTENDS Naturals, Sequences, FiniteSets, SequencesExt

CONSTANTS
    Sockets,    \* bound: the websockets of clients, numbered in order of use
    Ids,        \* that a socket may get
    Reused,     \* the ids that a reconnecting client presents
    Leavers,    \* bound: the sockets whose client leaves the room and enters again, once
    Viewers,    \* bound: the websockets of the statistics page, numbered likewise
    MaxQueue,   \* bound: of the messages on their way to the peerManager
    NoSocket    \* no entry in the map

ASSUME RelaysAssumption ==
    /\ Sockets \subseteq Nat /\ Viewers \subseteq Nat /\ MaxQueue \in Nat
    /\ Leavers \subseteq Sockets
    /\ IsFiniteSet(Ids)
    /\ Reused \subseteq Ids
    /\ NoSocket \notin Sockets

VARIABLES
    running,    \* the webApplication process
    state,      \* of a client's socket: "new", "open", "closed"
    id,         \* of a client's socket
    sent,       \* bound: how many of its requests a client has made
    got,        \* how many of them its client has the answer to, as far as it
                \* needs them: its identity, and that it joined the room
    clients,    \* the map of wsRelay, from ids to sockets
    viewer,     \* of a statistics socket: "new", "open", "closed"
    toApi,      \* messages to the peerManager
    toWeb,      \* messages to the webApplication
    peer,       \* of an id at the peerManager: "unknown", "roomless", "room"
    equipped,   \* ids of peers in the room that asked for their ingress transport
    routed,     \* rooms has the room
    counted,    \* peerCount has the room
    answering,  \* answers of media servers to come
    timers,     \* the chains of timers that send statistics
    latest,     \* #statsTimeout is the timer of such a chain
    superseded, \* (history) ids whose older socket closed under a newer one
    abandoned   \* (history) ids in equipped under which leaveRoom closed the room

web == <<state, id, sent, got, clients>>
room == <<peer, equipped, routed, counted, abandoned>>
api == <<room, answering, timers, latest>>
vars == <<running, web, viewer, toApi, toWeb, api, superseded>>

Requests ==
    <<"requestIdentity", "joinRoom", "createIngressTransport", "leaveRoom", "joinRoom">>
Answers == <<"identity", "joinedRoom">>

ToApi == [type : {Requests[i] : i \in DOMAIN Requests} \cup {"disconnect"}, ws : Ids]
            \cup [type : {"begin", "end"}]
ToWeb == [type : {"identity", "joinedRoom", "other"}, ws : Ids]

\* The type of the state; the socket of an id is one that was opened with it.
TypeOK ==
    /\ running \in BOOLEAN
    /\ state \in [Sockets -> {"new", "open", "closed"}]
    /\ id \in [Sockets -> Ids]
    /\ sent \in [Sockets -> 0..Len(Requests)]
    /\ got \in [Sockets -> 0..Len(Answers)]
    /\ clients \in [Ids -> Sockets \cup {NoSocket}]
    /\ \A i \in Ids : clients[i] # NoSocket => /\ id[clients[i]] = i
                                               /\ state[clients[i]] # "new"
    /\ viewer \in [Viewers -> {"new", "open", "closed"}]
    /\ toApi \in Seq(ToApi)
    /\ toWeb \in Seq(ToWeb)
    /\ peer \in [Ids -> {"unknown", "roomless", "room"}]
    /\ equipped \subseteq Ids
    /\ routed \in BOOLEAN /\ counted \in BOOLEAN
    /\ answering \subseteq ToWeb
    /\ timers \in Nat
    /\ latest \in BOOLEAN
    /\ superseded \subseteq Ids
    /\ abandoned \subseteq equipped

Init ==
    /\ running = TRUE
    /\ state = [s \in Sockets |-> "new"]
    /\ id \in [Sockets -> Ids]
    /\ \A s, t \in Sockets : t < s /\ id[t] = id[s] => id[s] \in Reused
    /\ sent = [s \in Sockets |-> 0]
    /\ got = [s \in Sockets |-> 0]
    /\ clients = [i \in Ids |-> NoSocket]
    /\ viewer = [v \in Viewers |-> "new"]
    /\ toApi = <<>> /\ toWeb = <<>>
    /\ peer = [i \in Ids |-> "unknown"]
    /\ equipped = {} /\ routed = FALSE /\ counted = FALSE
    /\ answering = {}
    /\ timers = 0 /\ latest = FALSE
    /\ superseded = {} /\ abandoned = {}

OpenSockets == {s \in Sockets : state[s] = "open"}

\* relayServer.clients of statsRelay.
Watching == {v \in Viewers : viewer[v] = "open"}

\* Variants of the definitions that follow them, each with one mistake in it,
\* are marked "Mistake"; a run checks that its property notices it.

-----------------------------------------------------------------------------
(* wsRelay.                                                                *)

\* Mistake: the entry of an id is made once.
ConnectionOnce(s) ==
    /\ running
    /\ state[s] = "new"
    /\ \A t \in Sockets : t < s => state[t] # "new"
    /\ state' = [state EXCEPT ![s] = "open"]
    /\ clients' = IF clients[id[s]] = NoSocket
                  THEN [clients EXCEPT ![id[s]] = s] ELSE clients
    /\ UNCHANGED <<running, id, sent, got, viewer, toApi, toWeb, api,
                   superseded>>

\* Mistake: the entry is made under an id of its own.
ConnectionAnyId(s) ==
    /\ running
    /\ state[s] = "new"
    /\ \A t \in Sockets : t < s => state[t] # "new"
    /\ state' = [state EXCEPT ![s] = "open"]
    /\ \E i \in Ids : clients' = [clients EXCEPT ![i] = s]
    /\ UNCHANGED <<running, id, sent, got, viewer, toApi, toWeb, api,
                   superseded>>

\* "connection": a new uuid, or the one of an earlier connection.
Connection(s) ==
    /\ running
    /\ state[s] = "new"
    /\ \A t \in Sockets : t < s => state[t] # "new"
    /\ state' = [state EXCEPT ![s] = "open"]
    /\ clients' = [clients EXCEPT ![id[s]] = s]
    /\ UNCHANGED <<running, id, sent, got, viewer, toApi, toWeb, api,
                   superseded>>

\* "message": whatever the client sends is passed on.  A client joins a room when it
\* knows its identity, asks for its transport when it has joined, and may leave
\* from then on.
Incoming(s) ==
    /\ state[s] = "open"
    /\ Len(toApi) < MaxQueue
    /\ \E n \in {sent[s] + 1} \cup IF sent[s] = 2 THEN {4} ELSE {} :
          /\ n <= Len(Requests)
          /\ n > 3 => s \in Leavers
          /\ got[s] >= IF n > 3 THEN Len(Answers) ELSE n - 1
          /\ sent' = [sent EXCEPT ![s] = n]
          /\ toApi' = Append(toApi, [type |-> Requests[n], ws |-> id[s]])
    /\ UNCHANGED <<running, state, id, got, clients, viewer, toWeb, api,
                   superseded>>

\* Mistake: the peerManager is told only by an explicit request to leave.
CloseUntold(s) ==
    /\ state[s] = "open"
    /\ Len(toApi) < MaxQueue
    /\ state' = [state EXCEPT ![s] = "closed"]
    /\ clients' = [clients EXCEPT ![id[s]] = NoSocket]
    /\ superseded' = superseded \cup
           {i \in {id[s]} : \E t \in OpenSockets : t > s /\ id[t] = i}
    /\ UNCHANGED <<running, id, sent, got, viewer, toApi, toWeb, api>>

\* "close", which may come long after the client has gone and reconnected; the
\* entry of the id is deleted whosever it is.
Close(s) ==
    /\ state[s] = "open"
    /\ Len(toApi) < MaxQueue
    /\ state' = [state EXCEPT ![s] = "closed"]
    /\ toApi' = Append(toApi, [type |-> "disconnect", ws |-> id[s]])
    /\ clients' = [clients EXCEPT ![id[s]] = NoSocket]
    /\ superseded' = superseded \cup
           {i \in {id[s]} : \E t \in OpenSockets : t > s /\ id[t] = i}
    /\ UNCHANGED <<running, id, sent, got, viewer, toWeb, api>>

\* sendBack and "ipcback" when the entry is there.
SendItBack ==
    /\ running
    /\ toWeb # <<>>
    /\ clients[Head(toWeb).ws] # NoSocket
    /\ toWeb' = Tail(toWeb)
    /\ got' = [got EXCEPT ![clients[Head(toWeb).ws]] =
                  IF @ < Len(Answers) /\ Head(toWeb).type = Answers[@ + 1]
                  THEN @ + 1 ELSE @]
    /\ UNCHANGED <<running, state, id, sent, clients, viewer, toApi, api,
                   superseded>>

\* When it is not, the handler of the process throws: nothing handles the
\* rejection, the process ends, and the master starts no other.
SendBackThrows ==
    /\ running
    /\ toWeb # <<>>
    /\ clients[Head(toWeb).ws] = NoSocket
    /\ running' = FALSE
    /\ toWeb' = <<>>
    /\ state' = [s \in Sockets |-> IF state[s] = "open" THEN "closed" ELSE state[s]]
    /\ viewer' = [v \in Viewers |-> IF v \in Watching THEN "closed" ELSE viewer[v]]
    /\ UNCHANGED <<id, sent, got, clients, toApi, api, superseded>>

-----------------------------------------------------------------------------
(* statsRelay.                                                             *)

\* Mistake: every viewer begins the statistics.
StatsConnectionBegins(v) ==
    /\ running
    /\ viewer[v] = "new" /\ \A u \in Viewers : u < v => viewer[u] # "new"
    /\ Len(toApi) < MaxQueue
    /\ viewer' = [viewer EXCEPT ![v] = "open"]
    /\ toApi' = Append(toApi, [type |-> "begin"])
    /\ UNCHANGED <<running, web, toWeb, api, superseded>>

\* Mistake: the size is compared before the viewer is in it.
StatsConnectionOff(v) ==
    /\ running
    /\ viewer[v] = "new" /\ \A u \in Viewers : u < v => viewer[u] # "new"
    /\ Len(toApi) < MaxQueue
    /\ viewer' = [viewer EXCEPT ![v] = "open"]
    /\ toApi' = IF Cardinality(Watching) = 1
                THEN Append(toApi, [type |-> "begin"]) ELSE toApi
    /\ UNCHANGED <<running, web, toWeb, api, superseded>>

StatsConnection(v) ==
    /\ running
    /\ viewer[v] = "new" /\ \A u \in Viewers : u < v => viewer[u] # "new"
    /\ Len(toApi) < MaxQueue
    /\ viewer' = [viewer EXCEPT ![v] = "open"]
    /\ toApi' = IF Watching = {} THEN Append(toApi, [type |-> "begin"]) ELSE toApi
    /\ UNCHANGED <<running, web, toWeb, api, superseded>>

\* Also of a viewer that ping terminates because it did not answer the last
\* one; what ping sends to the peerManager names no peer.
StatsClose(v) ==
    /\ v \in Watching
    /\ Len(toApi) < MaxQueue
    /\ viewer' = [viewer EXCEPT ![v] = "closed"]
    /\ toApi' = IF Watching = {v} THEN Append(toApi, [type |-> "end"]) ELSE toApi
    /\ UNCHANGED <<running, web, toWeb, api, superseded>>

-----------------------------------------------------------------------------
(* The peerManager, which handles one message at a time.                   *)

InRoom(p) == {i \in Ids : p[i] = "room"}

\* process.send: nothing reaches a process that ended.
Post(messages) == toWeb' = IF running THEN toWeb \o messages ELSE toWeb

ToRoom(p) == SetToSeq({[type |-> "other", ws |-> i] : i \in InRoom(p)})

Handle(type) ==
    /\ toApi # <<>>
    /\ Head(toApi).type = type
    /\ toApi' = Tail(toApi)
    /\ UNCHANGED <<running, web, viewer, superseded>>

\* createPeer: a peer of the same websocket id is taken for a reconnection.
RequestIdentity ==
    LET ws == Head(toApi).ws
    IN  /\ Handle("requestIdentity")
        /\ peer' = IF peer[ws] = "unknown"
                   THEN [peer EXCEPT ![ws] = "roomless"] ELSE peer
        /\ Post(<<[type |-> "identity", ws |-> ws]>>)
        /\ UNCHANGED <<equipped, routed, counted, abandoned, answering, timers, latest>>

\* joinRoom makes the entry of the room, but no counter; a media server answers.
JoinRoom ==
    LET ws == Head(toApi).ws
    IN  /\ Handle("joinRoom")
        /\ peer' = IF peer[ws] = "unknown" THEN peer ELSE [peer EXCEPT ![ws] = "room"]
        /\ answering' = answering \cup
               {[type |-> "joinedRoom", ws |-> i] : i \in {ws} \cap InRoom(peer')}
        /\ routed' = (routed \/ peer[ws] # "unknown")
        /\ UNCHANGED <<toWeb, equipped, counted, abandoned, timers, latest>>

\* createIngressTransport: the room is counted from now on, and the counts go
\* to everybody in it.
CreateIngressTransport ==
    LET asking == {Head(toApi).ws} \cap InRoom(peer)
    IN  /\ Handle("createIngressTransport")
        /\ equipped' = equipped \cup asking
        /\ abandoned' = abandoned \ asking
        /\ counted' = (counted \/ asking # {})
        /\ answering' = answering \cup {[type |-> "other", ws |-> i] : i \in asking}
        /\ Post(IF asking # {} THEN ToRoom(peer) ELSE <<>>)
        /\ UNCHANGED <<peer, routed, timers, latest>>

\* The answer is forwarded without a look at the peers.
ForwardAnswer(m) ==
    /\ m \in answering
    /\ answering' = answering \ {m}
    /\ Post(<<m>>)
    /\ UNCHANGED <<running, web, viewer, toApi, room, timers, latest, superseded>>

\* leaveRoom returns early without the entry of the room, and without the counter
\* when it has announced the peer; the peer stays in the room then.  It closes the
\* room when it counts nobody who takes part or waits in the lobby, whoever watches;
\* here it may always, since roles are left out.  The counter is kept if the peer is
\* not in the room any more.
LeaveRoom ==
    LET ws     == Head(toApi).ws
        others == [peer EXCEPT ![ws] = "roomless"]
    IN  /\ Handle("leaveRoom")
        /\ CASE peer[ws] = "unknown" \/ ~ routed -> UNCHANGED <<toWeb, room>>
             [] peer[ws] # "unknown" /\ routed /\ ~ counted ->
                   Post(ToRoom(others)) /\ UNCHANGED room
             [] OTHER ->
                   /\ Post(ToRoom(others))
                   /\ peer' = others
                   /\ equipped' = equipped \ {ws}
                   /\ \/ /\ UNCHANGED <<routed, counted>>
                         /\ abandoned' = abandoned \ {ws}
                      \/ /\ routed' = FALSE
                         /\ counted' = (peer[ws] = "roomless")
                         /\ abandoned' = equipped'
        /\ UNCHANGED <<answering, timers, latest>>

\* disconnectPeerWebsocket: a peer without a room is kept; without the entry of the
\* room it is deleted and nobody is told; without the counter the handler throws,
\* and the peer stays in the room.  The last one closes the room.
DisconnectPeerWebsocket ==
    LET leaver == {Head(toApi).ws} \cap IF counted \/ ~ routed THEN InRoom(peer) ELSE {}
        told   == routed /\ leaver # {}
    IN  /\ Handle("disconnect")
        /\ peer' = [i \in Ids |-> IF i \in leaver THEN "unknown" ELSE peer[i]]
        /\ equipped' = equipped \ leaver
        /\ abandoned' = abandoned \ leaver
        /\ routed' = (routed /\ (told => InRoom(peer') # {}))
        /\ counted' = (counted /\ (told => InRoom(peer') # {}))
        /\ Post(IF told THEN ToRoom(peer') ELSE <<>>)
        /\ UNCHANGED <<answering, timers, latest>>

BeginSendingStats ==
    /\ Handle("begin")
    /\ timers' = timers + 1
    /\ latest' = TRUE
    /\ UNCHANGED <<toWeb, room, answering>>

EndSendingStats ==
    /\ Handle("end")
    /\ timers' = IF latest THEN timers - 1 ELSE timers
    /\ latest' = FALSE
    /\ UNCHANGED <<toWeb, room, answering>>

\* A timer sends the statistics and sets the next one of its chain.
StatsTimer ==
    /\ timers > 0
    /\ latest' = TRUE
    /\ UNCHANGED <<running, web, viewer, toApi, toWeb, room, answering, timers,
                   superseded>>

-----------------------------------------------------------------------------
PeerManager ==
    \/ RequestIdentity
    \/ JoinRoom
    \/ CreateIngressTransport
    \/ LeaveRoom
    \/ DisconnectPeerWebsocket
    \/ BeginSendingStats
    \/ EndSendingStats

Next ==
    \/ \E s \in Sockets : Connection(s) \/ Incoming(s) \/ Close(s)
    \/ SendItBack
    \/ SendBackThrows
    \/ \E v \in Viewers : StatsConnection(v) \/ StatsClose(v)
    \/ PeerManager
    \/ \E m \in answering : ForwardAnswer(m)
    \/ StatsTimer

Spec == Init /\ [][Next]_vars

\* The peerManager reads its messages.  Browsers and media servers may stop
\* anywhere.
FairSpec == Spec /\ WF_vars(PeerManager)

-----------------------------------------------------------------------------
(* Properties.                                                             *)

Queued(type) == {m \in ToSet(toApi) : m.type = type}

\* A peer that has asked for its transport has an open socket, or the
\* peerManager is about to be told that it closed: no late request brings back a
\* peer whose tab is closed, and no other's close takes away the counter without
\* which it could not go.  Only a leaveRoom that closes the room under it does, if
\* it has not asked again since: when the room is joined anew its close throws.
NobodyOutlivesTheSocket ==
    running => \A i \in equipped \ abandoned :
        \/ \E s \in OpenSockets : id[s] = i
        \/ \E m \in Queued("disconnect") : m.ws = i

Newest(s) == \A t \in Sockets : id[t] = id[s] /\ state[t] # "new" => t <= s

\* The newest socket of an id is the one that answers go to, and once its
\* request for an identity was handled the peerManager knows it; unless an older
\* socket of the same id closed after it was opened.
NewestIsServed ==
    running => \A s \in OpenSockets :
        Newest(s) /\ id[s] \notin superseded
            => /\ clients[id[s]] = s
               /\ sent[s] > 0 => \/ peer[id[s]] # "unknown"
                                \/ \E m \in Queued("requestIdentity") : m.ws = id[s]

\* There is one chain of timers at most, although beginSendingStats starts one
\* whenever it is called and endSendingStats stops only the latest.
OneStatsChain == timers <= 1

\* Statistics are sent when there are viewers and not otherwise, again and
\* again, however viewers come and go.
StatsFollowViewers == []<>(running => (timers > 0 <=> Watching # {}))

\* "Ensure client is still connected/active, then send": an answer to a socket
\* that closed meanwhile does no harm.
WebApplicationKeepsRunning == running
=============================================================================
