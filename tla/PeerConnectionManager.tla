------------------------ MODULE PeerConnectionManager ------------------------
(***************************************************************************)
(* Peers, rooms and routes: frame/libs/peerConnectionManager.ts composed   *)
(* with the registry it owns (SignalRouter), and the clients that drive it.*)
(*                                                                         *)
(* Each client has one websocket and gets one peer id, so a peer stands    *)
(* for both.  A client's signals reach the peerManager process in the      *)
(* order it sent them and are handled one at a time; the state below is    *)
(* that of the process plus what a client knows and when it may send what  *)
(* (webapp/core/avatar.ts).  A client acts on a reply any time after it    *)
(* was sent, or never.                                                     *)
(*                                                                         *)
(* Signals to media servers are not messages here: groups records which    *)
(* rooms the process last told each server to have a router group for      *)
(* (createRouterGroup, destroyRouterGroup), and invited the servers whose  *)
(* router group a client was told about.  Media is not modelled.           *)
(***************************************************************************)
EXTENDS SignalRouter

CONSTANTS
  Peers,        \* clients
  HomeOf,       \* client -> client region
  Rooms,        \* frames
  MaxEntries,   \* how many frames a client enters, at most
  MaxLosses,    \* how many media server connections end, at most
  Transitions   \* whether clients may leave a frame without closing the tab

ASSUME PeerAssumption ==
  /\ IsFiniteSet(Peers)
  /\ HomeOf \in [Peers -> ClientRegions]
  /\ None \notin Rooms
  /\ MaxEntries \in Nat /\ MaxLosses \in Nat
  /\ Transitions \in BOOLEAN

VARIABLES
  peers,        \* the peers map: None, or the peer's data
  rooms,        \* the rooms map: None, or the servers of the room
  routingTable, \* the router's copy of rooms
  peerCount,    \* room -> None, or its four counters
  groups,       \* server -> rooms it was last told to have a router group for
  invited,      \* client -> servers it was told to connect to in its room
  client        \* what each client knows

managerVars == <<peers, rooms, routingTable, peerCount, groups, invited>>
vars == <<routerVars, managerVars, client>>

Known == {p \in Peers : peers[p] # None}
PeersIn(r) == {p \in Known : peers[p].room = r}

PeerData == [room : Rooms \union {None},
             isLobby : BOOLEAN, isParticipant : BOOLEAN, isSpectator : BOOLEAN,
             ingress : Servers \union {None}, egress : Servers \union {None},
             movement : Servers \union {None}]

NewPeer == [room |-> None, isLobby |-> TRUE, isParticipant |-> FALSE,
            isSpectator |-> FALSE, ingress |-> None, egress |-> None,
            movement |-> None]

\* Only lobbyCount is guarded from below.
Counter == [lobbyCount : Nat, spectatorCount : Int, peerCount : Int, participantCount : Int]

\* What a map has for a key is never taken for a missing entry.
ASSUME EntryAssumption ==
  /\ None \notin PeerData /\ None \notin Counter
  /\ \A route \in SUBSET Servers : route # None

ZeroCount == [lobbyCount |-> 0, spectatorCount |-> 0, peerCount |-> 0,
              participantCount |-> 0]

CountOf(r) == IF peerCount[r] = None THEN ZeroCount ELSE peerCount[r]

\* The servers of kind m on a route; a missing room has none.
RouteOf(route, m) == IF route = None THEN {} ELSE {s \in route : ModeOf[s] = m}

(* The client.  replies counts the joinedRoom answers of ingress servers it *)
(* has not acted on yet; transport says it has a producer transport for its *)
(* frame; ready is producerConnected, which leaving does not reset.         *)
ClientState == [stage : {"offline", "online", "closed"}, frame : Rooms \union {None},
                entries : 0..MaxEntries, replies : Nat, ready : BOOLEAN,
                transport : BOOLEAN, sending : BOOLEAN, watching : BOOLEAN]

NewClient == [stage |-> "offline", frame |-> None, entries |-> 0, replies |-> 0,
              ready |-> FALSE, transport |-> FALSE, sending |-> FALSE,
              watching |-> FALSE]

Online(p) == running /\ client[p].stage = "online"

-----------------------------------------------------------------------------
(* Signals that change the set of peers.                                   *)

\* requestIdentity.  A known websocket keeps its peer.
CreatePeer(p) ==
  /\ running
  /\ client[p].stage = "offline"
  /\ client' = [client EXCEPT ![p].stage = "online"]
  /\ peers' = [peers EXCEPT ![p] = IF @ = None THEN NewPeer ELSE @]
  /\ UNCHANGED <<routerVars, rooms, routingTable, peerCount, groups, invited>>

\* Mistake: only the peer that enters is told.
ToldOnlyEntering(p, r, e) == {p}

\* The peers an egress server is announced to when room r gains it.
ToldOfEgress(p, r, e) ==
  {q \in PeersIn(r) \ {p} : peers[q].egress # e} \union {p}

\* Mistake: the peer's room is set only once its servers are known.
EnterOnlyLater(p, r) ==
  /\ groups' = [s \in Servers |->
       IF s \in RouteOf(rooms[r], "egress") \intersect Up
       THEN groups[s] \union {r} ELSE groups[s]]
  /\ invited' = [invited EXCEPT ![p] = @ \union (RouteOf(rooms[r], "egress") \intersect Up)]
  /\ UNCHANGED <<peers, rooms, routingTable, peerCount>>

\* joinRoom up to the selection of servers: the peer is put into the room and
\* told of the room's egress servers, whether the rest succeeds or not.
EnterOnly(p, r) ==
  /\ peers' = [peers EXCEPT ![p].room = r]
  /\ groups' = [s \in Servers |->
       IF s \in RouteOf(rooms[r], "egress") \intersect Up
       THEN groups[s] \union {r} ELSE groups[s]]
  /\ invited' = [invited EXCEPT ![p] = @ \union (RouteOf(rooms[r], "egress") \intersect Up)]
  /\ UNCHANGED <<rooms, routingTable, peerCount>>

\* joinRoom with ingress i, egress e and movement m (None: no movement server).
EnterWith(p, r, i, e, m) ==
  LET old   == IF rooms[r] = None THEN {} ELSE rooms[r]
      route == old \union {i, e} \union ({m} \ {None})
      told  == IF e \in old THEN {} ELSE ToldOfEgress(p, r, e)
      asked == RouteOf(rooms[r], "egress") \union {i, e} \union ({m} \ {None})
  IN  /\ peers' = [peers EXCEPT ![p].room = r, ![p].ingress = i, ![p].egress = e,
                                ![p].movement = IF m = None THEN @ ELSE m]
      /\ rooms' = [rooms EXCEPT ![r] = route]
      /\ routingTable' = [routingTable EXCEPT ![r] = route]
      /\ groups' = [s \in Servers |->
           IF s \in asked \intersect Up THEN groups[s] \union {r} ELSE groups[s]]
      /\ invited' = [q \in Peers |->
           invited[q] \union (IF q = p THEN RouteOf(rooms[r], "egress") \intersect Up ELSE {})
                      \union (IF q \in told THEN {e} \intersect Up ELSE {})]
      /\ UNCHANGED peerCount

\* The client asks for frame r and will get n joinedRoom answers from ingress.
Entering(p, r, n) ==
  client' = [client EXCEPT ![p].frame = r, ![p].entries = @ + 1, ![p].replies = @ + n]

\* joinRoom.  A TypeError in a selection is caught by command().
EnterFrame(p, r) ==
  /\ Online(p)
  /\ client[p].frame = None
  /\ client[p].entries < MaxEntries
  /\ IF peers[p] = None THEN Entering(p, r, 0) /\ UNCHANGED managerVars
     ELSE \E i \in Selection("ingress", HomeOf[p]), e \in Selection("egress", HomeOf[p]),
             m \in Selection("movement", HomeOf[p]) :
            IF {i, e} \intersect {None, Throws} # {} \/ m = Throws
            THEN EnterOnly(p, r) /\ Entering(p, r, 0)
            ELSE EnterWith(p, r, i, e, m) /\ Entering(p, r, 1)
  /\ UNCHANGED routerVars

-----------------------------------------------------------------------------
(* Transports, participation, consumption: what the counters count.        *)

\* createIngressTransport, sent on each joinedRoom answer of an ingress server.
\* The created transport comes back if the server has the room's router group.
CreateIngressTransport(p) ==
  LET data == peers[p]
      made == data # None /\ data.ingress \in Up /\ data.room \in groups[data.ingress]
  IN  /\ Online(p)
      /\ client[p].replies > 0
      /\ peerCount' =
           IF data = None \/ data.room = None THEN peerCount
           ELSE [peerCount EXCEPT ![data.room] =
                  [CountOf(data.room) EXCEPT !.lobbyCount = @ + 1, !.peerCount = @ + 1]]
      /\ client' = [client EXCEPT ![p].replies = @ - 1,
                                  ![p].ready = @ \/ made,
                                  ![p].transport = @ \/ (made /\ client[p].frame # None),
                                  ![p].sending = @ /\ ~made]
      /\ UNCHANGED <<routerVars, peers, rooms, routingTable, groups, invited>>

\* connectIngressTransport: the first producer of a transport connects it.
\* isParticipant is set before the counter of a missing entry throws.
ConnectIngressTransport(p) ==
  LET data == peers[p]
  IN  /\ Online(p)
      /\ client[p].transport /\ ~client[p].sending
      /\ client' = [client EXCEPT ![p].sending = TRUE]
      /\ IF data = None \/ data.room = None THEN UNCHANGED <<peers, peerCount>>
         ELSE /\ peers' = [peers EXCEPT ![p].isParticipant = TRUE]
              /\ peerCount' = IF peerCount[data.room] = None THEN peerCount
                              ELSE [peerCount EXCEPT ![data.room].participantCount = @ + 1]
      /\ UNCHANGED <<routerVars, rooms, routingTable, groups, invited>>

\* Mistake: the counter is decremented unconditionally.
PlainDec(n, k) == n - k

\* lobbyCount is decremented only while it is positive.
FloorDec(n, k) == IF n > k THEN n - k ELSE 0

\* getRoomMovement, the last signal of participate(): the peer leaves the lobby.
\* A participant has sent something first; a spectator only watches.
GetRoomMovement(p, isSpectator) ==
  LET data == peers[p]
      r    == data.room
      left == data # None /\ data.isLobby /\ r # None /\ peerCount[r] # None
  IN  /\ Online(p)
      /\ client[p].frame # None /\ client[p].ready /\ ~client[p].watching
      /\ isSpectator \/ client[p].sending
      /\ client' = [client EXCEPT ![p].watching = TRUE]
      /\ IF ~left THEN UNCHANGED <<peers, peerCount>>
         ELSE /\ peers' = [peers EXCEPT ![p].isLobby = FALSE,
                                        ![p].isSpectator = @ \/ isSpectator]
              /\ peerCount' = [peerCount EXCEPT
                   ![r].lobbyCount = FloorDec(@, 1),
                   ![r].spectatorCount = IF isSpectator THEN @ + 1 ELSE @]
      /\ UNCHANGED <<routerVars, rooms, routingTable, groups, invited>>

\* The rooms getPeerCount answers for.  Without a list of names it takes the
\* Object.keys of peerCount, which is a Map and has none.
RoomsAnswered(names) == IF names = None THEN {} ELSE names

\* getRoomMetrics: a missing counter is created.
GetRoomMetrics(p, names) ==
  /\ Online(p)
  /\ peers[p] # None
  /\ peerCount' = [r \in Rooms |-> IF r \in RoomsAnswered(names) THEN CountOf(r)
                                    ELSE peerCount[r]]
  /\ UNCHANGED <<routerVars, peers, rooms, routingTable, groups, invited, client>>

-----------------------------------------------------------------------------
(* Leaving, being disconnected, losing a server.                           *)

\* Mistake: participants are not counted out.
CountWithoutRoles(r, gone) ==
  [peerCount[r] EXCEPT !.peerCount = @ - Cardinality(gone),
                       !.lobbyCount = FloorDec(@, Cardinality({p \in gone : peers[p].isLobby}))]

\* The counters of a room after the peers in gone have been taken out of it.
CountWithout(r, gone) ==
  LET Of(flag) == Cardinality({p \in gone : peers[p][flag]})
  IN  [peerCount[r] EXCEPT !.peerCount = @ - Cardinality(gone),
                           !.participantCount = @ - Of("isParticipant"),
                           !.spectatorCount = @ - Of("isSpectator"),
                           !.lobbyCount = FloorDec(@, Of("isLobby"))]

\* Mistake: only the ingress servers of the room are told.
GroupsWithoutIngress(closed) ==
  [s \in Servers |-> groups[s] \ {r \in closed : s \in Up /\ s \in RouteOf(routingTable[r], "ingress")}]

\* closeRoom: destroyRouterGroup to the connected servers routingTable names.
GroupsWithout(closed) ==
  [s \in Servers |-> groups[s] \ {r \in closed : s \in Up /\ routingTable[r] # None
                                                 /\ s \in routingTable[r]}]

\* leaveRoom.  Returns early, with the peer left as it was, when the room or
\* its counters are gone; closes the room when nobody else is counted in it.
LeaveRoom(p, r) ==
  LET data  == peers[p]
      count == CountWithout(r, {p})
      close == count.participantCount = 0 /\ count.lobbyCount = 0
  IN  IF data = None \/ rooms[r] = None \/ peerCount[r] = None
      THEN UNCHANGED <<peers, rooms, peerCount, groups>>
      ELSE /\ peers' = [peers EXCEPT ![p] = [NewPeer EXCEPT !.movement = data.movement]]
           /\ peerCount' = [peerCount EXCEPT ![r] =
                              IF close /\ data.room # None THEN None ELSE count]
           /\ rooms' = IF close THEN [rooms EXCEPT ![r] = None] ELSE rooms
           /\ groups' = IF close THEN GroupsWithout({data.room} \ {None}) ELSE groups

\* leaveFrame: the client drops its transports and sends leaveRoom.
LeaveFrame(p) ==
  /\ Transitions
  /\ Online(p)
  /\ client[p].frame # None
  /\ LeaveRoom(p, client[p].frame)
  /\ client' = [client EXCEPT ![p].frame = None, ![p].transport = FALSE,
                              ![p].sending = FALSE, ![p].watching = FALSE]
  /\ invited' = [invited EXCEPT ![p] = {}]
  /\ UNCHANGED <<routerVars, routingTable>>

(* disconnectPeerWebsocket for the peers in D, one after the other: a peer  *)
(* without a room stays, one whose room is missing is only forgotten, the  *)
(* others are counted out, and a room nobody is left in is closed.         *)
InRoom(D)  == {p \in D : peers[p].room # None}
Served(D)  == {p \in InRoom(D) : rooms[peers[p].room] # None}

\* Mistakes: the room of anyone who goes is deleted; only a peer of it that sends
\* media keeps a room.
EmptiedAlways(D) == {peers[p].room : p \in Served(D)}
EmptiedOfParticipants(D) ==
  {r \in {peers[p].room : p \in Served(D)} :
     {p \in PeersIn(r) : peers[p].isParticipant} \subseteq D}

Emptied(D) == {r \in {peers[p].room : p \in Served(D)} : PeersIn(r) \subseteq D}

\* A counter missing from peerCount: the TypeError of peerCount.peerCount--.
DisconnectThrows(D) == \E p \in Served(D) : peerCount[peers[p].room] = None

PeersWithout(D) == [p \in Peers |-> IF p \in InRoom(D) THEN None ELSE peers[p]]

CountsWithout(D) ==
  [r \in Rooms |-> IF r \in Emptied(D) THEN None
                   ELSE IF PeersIn(r) \intersect Served(D) = {} THEN peerCount[r]
                   ELSE CountWithout(r, PeersIn(r) \intersect Served(D))]

Without(map, R) == [r \in Rooms |-> IF r \in R THEN None ELSE map[r]]

\* disconnectPeerWebsocket through command(), which catches the TypeError.
DisconnectPeerWebsocket(p) ==
  IF p \notin Known \/ DisconnectThrows({p})
  THEN UNCHANGED <<peers, rooms, peerCount, groups>>
  ELSE /\ peers' = PeersWithout({p})
       /\ peerCount' = CountsWithout({p})
       /\ rooms' = Without(rooms, Emptied({p}))
       /\ groups' = GroupsWithout(Emptied({p}))

\* The websocket of a client closes; nothing of it is handled afterwards.
CloseTab(p) ==
  /\ Online(p)
  /\ DisconnectPeerWebsocket(p)
  /\ client' = [client EXCEPT ![p] = [NewClient EXCEPT !.stage = "closed"]]
  /\ invited' = [invited EXCEPT ![p] = {}]
  /\ UNCHANGED <<routerVars, routingTable>>

\* bootPeer: the peer is disconnected while its websocket is still open.
BootUser(p) ==
  /\ Online(p)
  /\ p \in Known
  /\ DisconnectPeerWebsocket(p)
  /\ UNCHANGED <<routerVars, routingTable, invited, client>>

\* Mistakes: dropRoute looks at one kind of server only, or leaves the router's
\* table to setRoute.
PeersOnEgress(s) == {p \in Known : peers[p].egress = s}
RoomsOnEgress(s) == {r \in Rooms : s \in RouteOf(rooms[r], "egress")}
RoutedOnNone(s) == {}

\* The peers dropRoute disconnects, and the rooms it deletes.
PeersOn(s) == {p \in Known : s \in {peers[p].ingress, peers[p].egress}}
RoomsOn(s) == {r \in Rooms : s \in RouteOf(rooms[r], "ingress") \union RouteOf(rooms[r], "egress")}
RoutedOn(s) == {r \in Rooms : routingTable[r] # None /\ s \in routingTable[r]}

\* The close handler of a server's connection: dropRoute, then the router's own
\* tables.  Nothing catches an exception here: it ends the process.
LoseServer(s) ==
  /\ running
  /\ link[s] = "up"
  /\ Cardinality({x \in Servers : link[x] = "closed"}) < MaxLosses
  /\ IF DisconnectThrows(PeersOn(s)) \/ DeregisterThrows(s)
     THEN Crash /\ UNCHANGED managerVars
     ELSE /\ Deregister(s)
          /\ peers' = PeersWithout(PeersOn(s))
          /\ peerCount' = CountsWithout(PeersOn(s))
          /\ rooms' = Without(rooms, Emptied(PeersOn(s)) \union RoomsOn(s))
          /\ routingTable' = Without(routingTable, RoutedOn(s))
          /\ groups' = [GroupsWithout(Emptied(PeersOn(s))) EXCEPT ![s] = {}]
          /\ UNCHANGED <<running, invited>>
  /\ UNCHANGED client

-----------------------------------------------------------------------------
Init ==
  /\ RouterInit
  /\ peers = [p \in Peers |-> None]
  /\ rooms = [r \in Rooms |-> None]
  /\ routingTable = [r \in Rooms |-> None]
  /\ peerCount = [r \in Rooms |-> None]
  /\ groups = [s \in Servers |-> {}]
  /\ invited = [p \in Peers |-> {}]
  /\ client = [p \in Peers |-> NewClient]

Registry ==
  \/ \E s \in Servers : Register(s)
  \/ \E s \in Servers, l \in Loads : ServerLoad(s, l)

Signal(p) ==
  \/ CreatePeer(p)
  \/ \E r \in Rooms : EnterFrame(p, r)
  \/ \E names \in {None} \union {{r} : r \in Rooms} : GetRoomMetrics(p, names)
  \/ CreateIngressTransport(p)
  \/ ConnectIngressTransport(p)
  \/ \E isSpectator \in BOOLEAN : GetRoomMovement(p, isSpectator)
  \/ LeaveFrame(p)
  \/ CloseTab(p)
  \/ BootUser(p)

Next ==
  \/ Registry /\ UNCHANGED <<managerVars, client>>
  \/ \E p \in Peers : Signal(p)
  \/ \E s \in Servers : LoseServer(s)

Spec == Init /\ [][Next]_vars

-----------------------------------------------------------------------------
ManagerTypeOK ==
  /\ peers \in [Peers -> PeerData \union {None}]
  /\ rooms \in [Rooms -> (SUBSET Servers) \union {None}]
  /\ routingTable \in [Rooms -> (SUBSET Servers) \union {None}]
  /\ peerCount \in [Rooms -> Counter \union {None}]
  /\ groups \in [Servers -> SUBSET Rooms]
  /\ invited \in [Peers -> SUBSET Servers]
  /\ client \in [Peers -> ClientState]

TypeOK == RouterTypeOK /\ ManagerTypeOK

Routed(p) == p \in Known /\ peers[p].ingress # None

(* dropRoute: "Clear all peers and objects with that route".  No peer the   *)
(* process keeps is routed through a media server that has gone.           *)
NoPeerOnLostServer ==
  \A p \in Known : {peers[p].ingress, peers[p].egress} \subseteq Up \union {None}

(* The same for the media servers in the two tables of rooms: what is sent  *)
(* along a route goes to servers that are there.                           *)
NoRouteOnLostServer ==
  \A r \in Rooms : \A m \in {"ingress", "egress"} :
    RouteOf(rooms[r], m) \union RouteOf(routingTable[r], m) \subseteq Up

(* The router's routing table is "As defined by peer connection manager":  *)
(* it has every room the manager has, with the same servers.               *)
RoutesAgree == \A r \in Rooms : rooms[r] # None => routingTable[r] = rooms[r]

(* "This logic makes sure each peer is connected to everywhere it needs to *)
(* be": every peer that got its servers in a room was told of all egress   *)
(* servers of the room, also of those that later peers brought.            *)
EgressMesh ==
  \A p \in Peers :
    Routed(p) /\ client[p].stage = "online" =>
      RouteOf(rooms[peers[p].room], "egress") \subseteq invited[p]

(* The route of a room holds the servers of each of its peers, so that what *)
(* is addressed to the room's servers reaches all of them.                 *)
RouteCoversPeers ==
  \A p \in Peers :
    Routed(p) => /\ rooms[peers[p].room] # None
                 /\ {peers[p].ingress, peers[p].egress} \subseteq rooms[peers[p].room]

(* A room is closed on the media servers "when the last peer has left the  *)
(* room": a peer still in it finds its router group on its own servers.    *)
RoomStaysOpen ==
  \A p \in Peers :
    Routed(p) => \A s \in {peers[p].ingress, peers[p].egress} \intersect Up :
                   peers[p].room \in groups[s]

(* While a client is in a frame, what it signals is done to the room of that *)
(* frame: leaveRoom may return early, with the peer still in the room left, *)
(* and joinRoom may fail half way, but neither lets it act on another room.*)
RoomIsFrame ==
  \A p \in Known :
    client[p].stage = "online" /\ client[p].frame # None => peers[p].room = client[p].frame

(* "Instruct media servers to close their routernetworks for empty rooms":  *)
(* nothing is left on a media server of a room that has no peers.          *)
EmptyRoomReleased ==
  \A r \in Rooms : PeersIn(r) = {} => \A s \in Up : r \notin groups[s]

(* participantCount and spectatorCount are the numbers of such peers.      *)
RolesCounted ==
  \A r \in Rooms : peerCount[r] # None =>
    /\ peerCount[r].participantCount = Cardinality({p \in PeersIn(r) : peers[p].isParticipant})
    /\ peerCount[r].spectatorCount = Cardinality({p \in PeersIn(r) : peers[p].isSpectator})

(* disconnectPeerWebsocket: "Remove a peer from the room, removing any      *)
(* associations to other peers".  Wherever on its way in or out of a frame a *)
(* tab closes, its peer is in no room and on no server afterwards.         *)
ClosedTabLeavesRoom ==
  \A p \in Known : client[p].stage = "closed" =>
    peers[p].room = None /\ peers[p].ingress = None /\ peers[p].egress = None

(* What makes the properties above inductive: a peer is given servers with  *)
(* a room and loses both together, and a tab enters a frame once it has an *)
(* identity.                                                               *)
Placed ==
  \A p \in Known : peers[p].room = None => peers[p].ingress = None /\ peers[p].egress = None
OfflineOutside == \A p \in Peers : client[p].stage = "offline" => client[p].frame = None

(* What a peer and a frame come to, for Frames.                            *)
Inside(p) == IF p \in Known THEN peers[p].room ELSE None
ServedBy(p) == IF p \in Known
               THEN {peers[p].ingress, peers[p].egress, peers[p].movement} \ {None} ELSE {}
OpenOn(r) == {s \in Up : r \in groups[s]}

F == INSTANCE Frames
       WITH inside   <- [p \in Peers |-> Inside(p)],
            servedBy <- [p \in Peers |-> ServedBy(p)],
            open     <- [r \in Rooms |-> OpenOn(r)]

(* While no media server goes and nobody changes frames, the signals do     *)
(* nothing but what Frames says: a frame is opened on the servers of those *)
(* who enter it, stays open on all of them until the last one leaves, and  *)
(* is then closed on every server; nobody is moved between frames, and     *)
(* nothing done for one frame changes another.                             *)
FramesSpec == F!Spec
=============================================================================
