----------------------------- MODULE RoomsProofs -----------------------------
(***************************************************************************)
(* Rooms and their peers while no media server is lost, for any clients,   *)
(* rooms and servers.                                                      *)
(***************************************************************************)
EXTENDS PeerConnectionManagerProofs

(* A tab that has not entered a frame yet has a peer without room and       *)
(* servers, so that joinRoom never takes a peer out of another room.       *)
Outside ==
  \A p \in Known :
    \/ client[p].stage = "offline"
    \/ client[p].stage = "online" /\ client[p].frame = None
    => peers[p].room = None /\ peers[p].ingress = None /\ peers[p].egress = None

NoneLost == \A s \in Servers : link[s] # "closed"

(* A room has a peer, and the servers of its route, which are connected and *)
(* which the router's table has too, have its router group.                *)
RoomOnServers ==
  \A r \in Rooms : rooms[r] # None =>
    /\ PeersIn(r) # {}
    /\ routingTable[r] = rooms[r]
    /\ \A s \in rooms[r] : s \in Up /\ r \in groups[s]

(* No other server has it.                                                 *)
GroupHasRoom ==
  \A s \in Servers : \A r \in groups[s] : rooms[r] # None /\ s \in rooms[r]

RoomInv == Outside /\ NoneLost /\ Placed /\ RoomOnServers /\ GroupHasRoom
           /\ RouteCoversPeers /\ EgressMesh

(* Steps that move nobody and open or close nothing.                       *)
LEMMA RoomKept ==
  ASSUME RoomInv, Up \subseteq Up', NoneLost', Known' = Known,
         \A p \in Known : /\ peers'[p].room = peers[p].room
                          /\ peers'[p].ingress = peers[p].ingress
                          /\ peers'[p].egress = peers[p].egress,
         \A p \in Peers : /\ client'[p].stage = client[p].stage
                          /\ client'[p].frame = None => client[p].frame = None,
         UNCHANGED <<rooms, routingTable, groups, invited>>
  PROVE  RoomInv'
<1> USE DEF RoomInv
<1>1. Outside'
  BY DEF Outside, Known
<1>2. Placed'
  BY DEF Placed
<1>3. RoomOnServers'
  BY DEF RoomOnServers, PeersIn
<1>4. GroupHasRoom'
  BY DEF GroupHasRoom
<1>5. RouteCoversPeers'
  BY DEF RouteCoversPeers, Routed
<1>6. EgressMesh'
  <2> SUFFICES ASSUME NEW p \in Peers, Routed(p)', client'[p].stage = "online"
               PROVE  RouteOf(rooms'[peers'[p].room], "egress") \subseteq invited'[p]
    BY DEF EgressMesh, RouteOf
  <2>1. Routed(p) /\ client[p].stage = "online" /\ p \in Known
    BY DEF Routed
  <2>2. RouteOf(rooms[peers[p].room], "egress") \subseteq invited[p]
    BY <2>1 DEF EgressMesh
  <2> QED BY <2>1, <2>2
<1> QED BY <1>1, <1>2, <1>3, <1>4, <1>5, <1>6

LEMMA NoneLostKept ==
  ASSUME NoneLost, UNCHANGED routerVars
  PROVE  NoneLost' /\ Up' = Up
BY DEF NoneLost, Up, routerVars

(* The signals of a client about its transports and about the counters.    *)
LEMMA TransportsKeepRooms ==
  ASSUME TypeOK, RoomInv, NEW p \in Peers, UNCHANGED routerVars,
         \/ CreateIngressTransport(p)
         \/ ConnectIngressTransport(p)
         \/ \E isSpectator \in BOOLEAN : GetRoomMovement(p, isSpectator)
         \/ \E names : GetRoomMetrics(p, names)
  PROVE  RoomInv'
<1> DEFINE c == client[p]
           data == peers[p]
<1>1. c \in ClientState /\ (data # None => data \in PeerData)
  BY DEF TypeOK, ManagerTypeOK
<1>2. NoneLost' /\ Up' = Up
  BY NoneLostKept DEF RoomInv
<1>3. UNCHANGED <<rooms, routingTable, groups, invited>>
  BY DEF CreateIngressTransport, ConnectIngressTransport, GetRoomMovement, GetRoomMetrics
<1>4. ASSUME \A q \in Peers : \/ peers'[q] = peers[q]
                              \/ /\ peers[q] # None /\ peers'[q] # None
                                 /\ peers'[q].room = peers[q].room
                                 /\ peers'[q].ingress = peers[q].ingress
                                 /\ peers'[q].egress = peers[q].egress,
             \A q \in Peers : client'[q].stage = client[q].stage /\ client'[q].frame = client[q].frame
      PROVE  RoomInv'
  <2>1. Known' = Known
    BY <1>4 DEF Known
  <2> QED BY <1>2, <1>3, <1>4, <2>1, RoomKept DEF Known
<1>5. CASE CreateIngressTransport(p)
  <2> DEFINE made == data # None /\ data.ingress \in Up /\ data.room \in groups[data.ingress]
  <2>1. client' = [client EXCEPT ![p] =
           [c EXCEPT !.replies = c.replies - 1, !.ready = c.ready \/ made,
                     !.transport = c.transport \/ (made /\ c.frame # None),
                     !.sending = c.sending /\ ~made]]
    BY <1>5 DEF CreateIngressTransport, TypeOK, ManagerTypeOK
  <2> HIDE DEF c, made
  <2>2. client'[p].stage = c.stage /\ client'[p].frame = c.frame
    BY <1>1, <2>1 DEF ClientState, TypeOK, ManagerTypeOK
  <2>3. \A q \in Peers \ {p} : client'[q] = client[q]
    BY <2>1 DEF TypeOK, ManagerTypeOK
  <2> QED BY <1>4, <1>5, <2>2, <2>3 DEF CreateIngressTransport, c
<1>6. CASE ConnectIngressTransport(p)
  <2>1. client' = [client EXCEPT ![p] = [c EXCEPT !.sending = TRUE]]
    BY <1>6 DEF ConnectIngressTransport, TypeOK, ManagerTypeOK
  <2>2. UNCHANGED peers \/ (data # None /\ peers' = [peers EXCEPT ![p] =
                                                     [data EXCEPT !.isParticipant = TRUE]])
    BY <1>6 DEF ConnectIngressTransport, TypeOK, ManagerTypeOK
  <2> HIDE DEF c, data
  <2>3. client'[p].stage = c.stage /\ client'[p].frame = c.frame
    BY <1>1, <2>1 DEF ClientState, TypeOK, ManagerTypeOK
  <2>4. \A q \in Peers \ {p} : client'[q] = client[q]
    BY <2>1 DEF TypeOK, ManagerTypeOK
  <2>5. CASE UNCHANGED peers
    BY <1>4, <2>3, <2>4, <2>5 DEF c
  <2>6. CASE data # None /\ peers' = [peers EXCEPT ![p] = [data EXCEPT !.isParticipant = TRUE]]
    <3>1. /\ peers'[p] \in PeerData
          /\ peers'[p].room = data.room /\ peers'[p].ingress = data.ingress
          /\ peers'[p].egress = data.egress
      BY <1>1, <2>6 DEF PeerData, TypeOK, ManagerTypeOK
    <3>2. \A q \in Peers \ {p} : peers'[q] = peers[q]
      BY <2>6 DEF TypeOK, ManagerTypeOK
    <3>3. peers'[p] # None
      BY <3>1, EntryAssumption
    <3> QED BY <1>4, <2>3, <2>4, <2>6, <3>1, <3>2, <3>3 DEF c, data
  <2> QED BY <2>2, <2>5, <2>6
<1>7. ASSUME NEW isSpectator \in BOOLEAN, GetRoomMovement(p, isSpectator) PROVE RoomInv'
  <2> DEFINE flag == data.isSpectator \/ isSpectator
  <2>1. client' = [client EXCEPT ![p] = [c EXCEPT !.watching = TRUE]]
    BY <1>7 DEF GetRoomMovement, TypeOK, ManagerTypeOK
  <2>2. UNCHANGED peers \/ (data # None /\ peers' = [peers EXCEPT ![p] =
                              [data EXCEPT !.isLobby = FALSE, !.isSpectator = flag]])
    BY <1>7 DEF GetRoomMovement, TypeOK, ManagerTypeOK
  <2> HIDE DEF c, data, flag
  <2>3. client'[p].stage = c.stage /\ client'[p].frame = c.frame
    BY <1>1, <2>1 DEF ClientState, TypeOK, ManagerTypeOK
  <2>4. \A q \in Peers \ {p} : client'[q] = client[q]
    BY <2>1 DEF TypeOK, ManagerTypeOK
  <2>5. CASE UNCHANGED peers
    BY <1>4, <2>3, <2>4, <2>5 DEF c
  <2>6. CASE data # None /\ peers' = [peers EXCEPT ![p] =
                                       [data EXCEPT !.isLobby = FALSE, !.isSpectator = flag]]
    <3>0. flag \in BOOLEAN
      BY <1>1, <2>6 DEF flag, PeerData
    <3>1. /\ peers'[p] \in PeerData
          /\ peers'[p].room = data.room /\ peers'[p].ingress = data.ingress
          /\ peers'[p].egress = data.egress
      BY <3>0, <1>1, <2>6 DEF PeerData, TypeOK, ManagerTypeOK
    <3>2. \A q \in Peers \ {p} : peers'[q] = peers[q]
      BY <2>6 DEF TypeOK, ManagerTypeOK
    <3>3. peers'[p] # None
      BY <3>1, EntryAssumption
    <3> QED BY <1>4, <2>3, <2>4, <2>6, <3>1, <3>2, <3>3 DEF c, data
  <2> QED BY <2>2, <2>5, <2>6
<1>8. ASSUME NEW names, GetRoomMetrics(p, names) PROVE RoomInv'
  BY <1>4, <1>8 DEF GetRoomMetrics
<1> QED BY <1>5, <1>6, <1>7, <1>8

(* An identity is given to a tab that has none: its peer is in no room.    *)
LEMMA CreatePeerRooms ==
  ASSUME TypeOK, RoomInv, NEW p \in Peers, CreatePeer(p)
  PROVE  RoomInv'
<1> DEFINE c == client[p]
<1>1. NoneLost' /\ Up' = Up
  BY NoneLostKept DEF RoomInv, CreatePeer
<1>2. /\ c.stage = "offline"
      /\ client'[p].stage = "online" /\ client'[p].frame = c.frame
      /\ \A q \in Peers \ {p} : client'[q] = client[q]
  <2>1. c \in ClientState /\ c.stage = "offline"
        /\ client' = [client EXCEPT ![p] = [c EXCEPT !.stage = "online"]]
    BY DEF CreatePeer, TypeOK, ManagerTypeOK
  <2> HIDE DEF c
  <2> QED BY <2>1 DEF ClientState, TypeOK, ManagerTypeOK
<1> HIDE DEF c
<1>3. /\ \A q \in Peers \ {p} : peers'[q] = peers[q]
      /\ peers'[p] = IF peers[p] = None THEN NewPeer ELSE peers[p]
      /\ UNCHANGED <<rooms, routingTable, groups, invited>>
  BY DEF CreatePeer, TypeOK, ManagerTypeOK
<1>4. NewPeer.room = None /\ NewPeer.ingress = None /\ NewPeer.egress = None
  BY DEF NewPeer
<1>5. /\ p \in Known => peers[p].room = None /\ peers[p].ingress = None
      /\ peers'[p].room = None /\ peers'[p].ingress = None /\ peers'[p].egress = None
  BY <1>2, <1>3, <1>4 DEF RoomInv, Outside, Known, c
<1>6. Known' \subseteq Known \union {p} /\ Known \ {p} \subseteq Known'
  BY <1>3 DEF Known
<1>7. \A r \in Rooms : PeersIn(r) \subseteq PeersIn(r)'
  <2> SUFFICES ASSUME NEW r \in Rooms, NEW q \in PeersIn(r) PROVE q \in PeersIn(r)'
    OBVIOUS
  <2>1. q \in Peers /\ q \in Known /\ peers[q].room = r /\ r # None
    BY PeerAssumption DEF PeersIn, Known
  <2>2. q # p
    BY <1>5, <2>1
  <2> QED BY <1>3, <1>6, <2>1, <2>2 DEF PeersIn
<1>8. Outside'
  BY <1>2, <1>3, <1>5, <1>6 DEF RoomInv, Outside, Known
<1>9. Placed'
  BY <1>3, <1>5, <1>6 DEF RoomInv, Placed, Known
<1>10. RoomOnServers'
  <2> SUFFICES ASSUME NEW r \in Rooms, rooms'[r] # None
               PROVE  /\ PeersIn(r)' # {}
                      /\ routingTable'[r] = rooms'[r]
                      /\ \A s \in rooms'[r] : s \in Up' /\ r \in groups'[s]
    BY DEF RoomOnServers
  <2> QED BY <1>1, <1>3, <1>7 DEF RoomInv, RoomOnServers
<1>11. GroupHasRoom'
  BY <1>3 DEF RoomInv, GroupHasRoom
<1>12. \A q \in Peers : Routed(q)' => q # p /\ Routed(q) /\ peers'[q] = peers[q]
  BY <1>3, <1>5, <1>6 DEF Routed
<1>13. RouteCoversPeers'
  BY <1>3, <1>12 DEF RoomInv, RouteCoversPeers
<1>14. EgressMesh'
  <2> SUFFICES ASSUME NEW q \in Peers, Routed(q)', client'[q].stage = "online"
               PROVE  RouteOf(rooms'[peers'[q].room], "egress") \subseteq invited'[q]
    BY DEF EgressMesh, RouteOf
  <2> QED BY <1>2, <1>3, <1>12 DEF RoomInv, EgressMesh
<1> QED BY <1>1, <1>8, <1>9, <1>10, <1>11, <1>13, <1>14 DEF RoomInv

(* joinRoom for a tab whose peer is in no room, as far as its room.        *)
LEMMA EnterOnlyRooms ==
  ASSUME TypeOK, RoomInv, NEW p \in Known, NEW r \in Rooms, EnterOnly(p, r),
         NoneLost', Up' = Up,
         peers[p].room = None, peers[p].ingress = None, peers[p].egress = None,
         client'[p].stage = "online", client'[p].frame # None,
         \A q \in Peers \ {p} : client'[q] = client[q]
  PROVE  RoomInv'
<1> DEFINE data == peers[p]
<1>1. p \in Peers /\ data \in PeerData
  BY DEF Known, TypeOK, ManagerTypeOK
<1>2. /\ peers'[p] \in PeerData /\ peers'[p].room = r
      /\ peers'[p].ingress = data.ingress /\ peers'[p].egress = data.egress
      /\ \A q \in Peers \ {p} : peers'[q] = peers[q]
  <2>1. peers' = [peers EXCEPT ![p] = [data EXCEPT !.room = r]]
    BY DEF EnterOnly, TypeOK, ManagerTypeOK
  <2> HIDE DEF data
  <2> QED BY <1>1, <2>1 DEF PeerData, TypeOK, ManagerTypeOK
<1>3. /\ \A s \in Servers : groups'[s] = IF s \in RouteOf(rooms[r], "egress") \intersect Up
                                         THEN groups[s] \union {r} ELSE groups[s]
      /\ \A q \in Peers \ {p} : invited'[q] = invited[q]
      /\ UNCHANGED <<rooms, routingTable>>
  BY DEF EnterOnly, TypeOK, ManagerTypeOK
<1>4. p \in Known' /\ Known' = Known
  BY <1>1, <1>2, EntryAssumption DEF Known
<1>5. Outside'
  BY <1>2, <1>4 DEF RoomInv, Outside, Known
<1>6. Placed'
  BY <1>2, <1>4, PeerAssumption DEF RoomInv, Placed, Known
<1>7. RoomOnServers'
  <2> SUFFICES ASSUME NEW k \in Rooms, rooms'[k] # None
               PROVE  /\ PeersIn(k)' # {}
                      /\ routingTable'[k] = rooms'[k]
                      /\ \A s \in rooms'[k] : s \in Up' /\ k \in groups'[s]
    BY DEF RoomOnServers
  <2>1. /\ PeersIn(k) # {} /\ routingTable[k] = rooms[k]
        /\ \A s \in rooms[k] : s \in Up /\ k \in groups[s]
    BY <1>3 DEF RoomInv, RoomOnServers
  <2>2. PICK q \in PeersIn(k) : TRUE
    BY <2>1
  <2>3. q \in Known /\ q # p /\ peers[q].room = k
    BY <2>2, PeerAssumption DEF PeersIn
  <2>4. q \in PeersIn(k)'
    BY <1>2, <1>4, <2>3 DEF PeersIn, Known
  <2>5. \A s \in rooms[k] : s \in Servers
    BY <2>1 DEF Up
  <2> QED BY <1>3, <2>1, <2>4, <2>5
<1>8. GroupHasRoom'
  <2> SUFFICES ASSUME NEW s \in Servers, NEW k \in groups'[s]
               PROVE  rooms[k] # None /\ s \in rooms[k]
    BY <1>3 DEF GroupHasRoom
  <2>1. CASE k \in groups[s]
    BY <2>1 DEF RoomInv, GroupHasRoom
  <2>2. CASE k \notin groups[s]
    <3>1. k = r /\ s \in RouteOf(rooms[r], "egress")
      BY <1>3, <2>2
    <3> QED BY <3>1 DEF RouteOf
  <2> QED BY <2>1, <2>2
<1>9. \A q \in Peers : Routed(q)' => q # p /\ Routed(q) /\ peers'[q] = peers[q]
  BY <1>2, <1>4 DEF Routed
<1>10. RouteCoversPeers'
  BY <1>3, <1>9 DEF RoomInv, RouteCoversPeers
<1>11. EgressMesh'
  <2> SUFFICES ASSUME NEW q \in Peers, Routed(q)', client'[q].stage = "online"
               PROVE  RouteOf(rooms'[peers'[q].room], "egress") \subseteq invited'[q]
    BY DEF EgressMesh, RouteOf
  <2> QED BY <1>3, <1>9 DEF RoomInv, EgressMesh
<1> QED BY <1>5, <1>6, <1>7, <1>8, <1>10, <1>11 DEF RoomInv

(* joinRoom with the servers selected.  The peers that were in the room are *)
(* told of an egress server that is new to it: their own is on the route   *)
(* already, so none is passed over.                                        *)
LEMMA EnterWithRooms ==
  ASSUME TypeOK, RoomInv, NEW p \in Known, NEW r \in Rooms,
         NEW i \in Up \intersect OfMode("ingress"), NEW e \in Up \intersect OfMode("egress"),
         NEW m \in (Up \intersect OfMode("movement")) \union {None},
         EnterWith(p, r, i, e, m), NoneLost', Up' = Up,
         peers[p].room = None,
         client'[p].stage = "online", client'[p].frame # None,
         \A q \in Peers \ {p} : client'[q] = client[q]
  PROVE  RoomInv'
<1> DEFINE data == peers[p]
           old == IF rooms[r] = None THEN {} ELSE rooms[r]
           route == old \union {i, e} \union ({m} \ {None})
           mv == IF m = None THEN data.movement ELSE m
           asked == RouteOf(rooms[r], "egress") \union {i, e} \union ({m} \ {None})
           told == IF e \in old THEN {} ELSE ToldOfEgress(p, r, e)
<1>1. p \in Peers /\ data \in PeerData /\ mv \in Servers \union {None}
  <2>1. p \in Peers /\ data \in PeerData
    BY DEF Known, TypeOK, ManagerTypeOK
  <2> HIDE DEF data
  <2> QED BY <2>1 DEF PeerData, Up
<1>2. /\ peers'[p] \in PeerData /\ peers'[p].room = r
      /\ peers'[p].ingress = i /\ peers'[p].egress = e
      /\ \A q \in Peers \ {p} : peers'[q] = peers[q]
  <2>1. peers' = [peers EXCEPT ![p] = [data EXCEPT !.room = r, !.ingress = i, !.egress = e,
                                                   !.movement = mv]]
    BY DEF EnterWith, TypeOK, ManagerTypeOK
  <2>2. i \in Servers /\ e \in Servers
    BY DEF Up
  <2> HIDE DEF data, mv
  <2> QED BY <1>1, <2>1, <2>2 DEF PeerData, TypeOK, ManagerTypeOK
<1>3. \A k \in Rooms : /\ rooms'[k] = IF k = r THEN route ELSE rooms[k]
                       /\ routingTable'[k] = IF k = r THEN route ELSE routingTable[k]
  BY DEF EnterWith, TypeOK, ManagerTypeOK
<1>4. \A s \in Servers : groups'[s] = IF s \in asked \intersect Up
                                      THEN groups[s] \union {r} ELSE groups[s]
  BY DEF EnterWith
<1>5. \A q \in Peers : invited'[q] =
           invited[q] \union (IF q = p THEN RouteOf(rooms[r], "egress") \intersect Up ELSE {})
                      \union (IF q \in told THEN {e} \intersect Up ELSE {})
  BY DEF EnterWith
<1>6. p \in Known' /\ Known' = Known
  BY <1>1, <1>2, EntryAssumption DEF Known
<1>7. /\ old \subseteq Up /\ \A s \in old : r \in groups[s]
      /\ asked \subseteq route /\ route \subseteq old \union asked
      /\ route \subseteq Up
  BY DEF RoomInv, RoomOnServers, RouteOf
<1>8. route # None /\ route \in SUBSET Servers
  <2>1. route \in SUBSET Servers
    BY <1>7 DEF Up
  <2> QED BY <2>1, EntryAssumption
<1> HIDE DEF old, route, asked, told, mv
<1>9. Outside'
  BY <1>2, <1>6 DEF RoomInv, Outside, Known
<1>10. Placed'
  BY <1>2, <1>6, PeerAssumption DEF RoomInv, Placed, Known
<1>11. \A k \in Rooms : PeersIn(k) \subseteq PeersIn(k)'
  <2> SUFFICES ASSUME NEW k \in Rooms, NEW q \in PeersIn(k) PROVE q \in PeersIn(k)'
    OBVIOUS
  <2>1. q \in Known /\ q # p /\ peers[q].room = k
    BY PeerAssumption DEF PeersIn
  <2> QED BY <1>2, <1>6, <2>1 DEF PeersIn, Known
<1>12. RoomOnServers'
  <2> SUFFICES ASSUME NEW k \in Rooms, rooms'[k] # None
               PROVE  /\ PeersIn(k)' # {}
                      /\ routingTable'[k] = rooms'[k]
                      /\ \A s \in rooms'[k] : s \in Up' /\ k \in groups'[s]
    BY DEF RoomOnServers
  <2>1. CASE k = r
    <3>1. p \in PeersIn(k)'
      BY <1>2, <1>6, <2>1 DEF PeersIn
    <3>2. ASSUME NEW s \in route PROVE s \in Up /\ r \in groups'[s]
      <4>1. s \in Up /\ s \in Servers /\ s \in old \union asked
        BY <1>7, <1>8
      <4> QED BY <1>4, <1>7, <4>1
    <3> QED BY <1>3, <2>1, <3>1, <3>2
  <2>2. CASE k # r
    <3>1. /\ PeersIn(k) # {} /\ routingTable[k] = rooms[k]
          /\ \A s \in rooms[k] : s \in Up /\ k \in groups[s]
      BY <1>3, <2>2 DEF RoomInv, RoomOnServers
    <3>2. \A s \in rooms[k] : s \in Servers
      BY <3>1 DEF Up
    <3> QED BY <1>3, <1>4, <1>11, <2>2, <3>1, <3>2
  <2> QED BY <2>1, <2>2
<1>13. GroupHasRoom'
  <2> SUFFICES ASSUME NEW s \in Servers, NEW k \in groups'[s]
               PROVE  rooms'[k] # None /\ s \in rooms'[k]
    BY DEF GroupHasRoom
  <2>1. k \in Rooms
    <3>1. groups[s] \subseteq Rooms
      BY DEF TypeOK, ManagerTypeOK
    <3> QED BY <1>4, <3>1
  <2>2. CASE k \in groups[s]
    <3>1. rooms[k] # None /\ s \in rooms[k]
      BY <2>2 DEF RoomInv, GroupHasRoom
    <3> QED BY <1>3, <1>8, <2>1, <3>1 DEF route, old
  <2>3. CASE k \notin groups[s]
    <3>1. k = r /\ s \in asked
      BY <1>4, <2>3
    <3> QED BY <1>3, <1>7, <1>8, <3>1
  <2> QED BY <2>2, <2>3
<1>14. \A q \in Peers : q # p /\ Routed(q)' =>
         Routed(q) /\ peers'[q] = peers[q] /\ peers[q].room \in Rooms
  <2> SUFFICES ASSUME NEW q \in Peers, q # p, Routed(q)'
               PROVE  Routed(q) /\ peers'[q] = peers[q] /\ peers[q].room \in Rooms
    OBVIOUS
  <2>1. Routed(q) /\ peers'[q] = peers[q]
    BY <1>2, <1>6 DEF Routed
  <2>2. q \in Known /\ peers[q] \in PeerData
    BY <2>1 DEF Routed, Known, TypeOK, ManagerTypeOK
  <2>3. peers[q].room # None
    BY <2>1, <2>2 DEF RoomInv, Placed, Routed
  <2> QED BY <2>1, <2>2, <2>3 DEF PeerData
<1>15. RouteCoversPeers'
  <2> SUFFICES ASSUME NEW q \in Peers, Routed(q)'
               PROVE  /\ rooms'[peers'[q].room] # None
                      /\ {peers'[q].ingress, peers'[q].egress} \subseteq rooms'[peers'[q].room]
    BY DEF RouteCoversPeers
  <2>1. CASE q = p
    BY <1>2, <1>3, <1>8, <2>1 DEF route
  <2>2. CASE q # p
    <3>1. /\ peers'[q] = peers[q] /\ peers[q].room \in Rooms
          /\ rooms[peers[q].room] # None
          /\ {peers[q].ingress, peers[q].egress} \subseteq rooms[peers[q].room]
      BY <1>14, <2>2 DEF RoomInv, RouteCoversPeers
    <3> QED BY <1>3, <1>8, <3>1 DEF route, old
  <2> QED BY <2>1, <2>2
<1>16. RouteOf(route, "egress") \subseteq RouteOf(rooms[r], "egress") \union {e}
  <2> SUFFICES ASSUME NEW s \in route, ModeOf[s] = "egress", s # e
               PROVE  s \in RouteOf(rooms[r], "egress")
    BY DEF RouteOf
  <2>1. s # i /\ s \notin {m} \ {None}
    BY DEF OfMode
  <2> QED BY <2>1 DEF route, old, RouteOf
<1>17. EgressMesh'
  <2> SUFFICES ASSUME NEW q \in Peers, Routed(q)', client'[q].stage = "online"
               PROVE  RouteOf(rooms'[peers'[q].room], "egress") \subseteq invited'[q]
    BY DEF EgressMesh, RouteOf
  <2>1. CASE q = p
    <3>1. e \in old => e \in RouteOf(rooms[r], "egress")
      BY DEF old, RouteOf, OfMode
    <3>2. e \notin old => p \in told
      BY DEF told, ToldOfEgress
    <3>3. RouteOf(rooms[r], "egress") \subseteq Up
      BY <1>7 DEF old, RouteOf
    <3>4. RouteOf(rooms[r], "egress") \union {e} \subseteq invited'[p]
      BY <1>1, <1>5, <3>1, <3>2, <3>3
    <3> QED BY <1>2, <1>3, <1>16, <2>1, <3>4
  <2>2. CASE q # p
    <3>1. Routed(q) /\ peers'[q] = peers[q] /\ peers[q].room \in Rooms
      BY <1>14, <2>2
    <3>2. RouteOf(rooms[peers[q].room], "egress") \subseteq invited[q]
      BY <2>2, <3>1 DEF RoomInv, EgressMesh
    <3>3. invited[q] \subseteq invited'[q]
      BY <1>5
    <3>4. CASE peers[q].room # r
      BY <1>3, <3>1, <3>2, <3>3, <3>4
    <3>5. CASE peers[q].room = r
      <4>1. e \in old => e \in RouteOf(rooms[r], "egress")
        BY DEF old, RouteOf, OfMode
      <4>2. ASSUME e \notin old PROVE e \in invited'[q]
        <5>1. peers[q].egress \in old
          BY <3>1, <3>5 DEF RoomInv, RouteCoversPeers, old
        <5>2. q \in told
          BY <2>2, <3>1, <3>5, <4>2, <5>1 DEF told, ToldOfEgress, PeersIn, Routed
        <5> QED BY <1>5, <5>2
      <4> QED BY <1>3, <1>16, <3>1, <3>2, <3>3, <3>5, <4>1, <4>2
    <3> QED BY <3>4, <3>5
  <2> QED BY <2>1, <2>2
<1> QED BY <1>9, <1>10, <1>12, <1>13, <1>15, <1>17 DEF RoomInv

LEMMA EnterFrameRooms ==
  ASSUME TypeOK, RegistryIsLive, RoomInv, NEW p \in Peers, NEW r \in Rooms, EnterFrame(p, r)
  PROVE  RoomInv'
<1>1. NoneLost' /\ Up' = Up
  BY NoneLostKept DEF RoomInv, EnterFrame
<1>2. client[p].stage = "online" /\ client[p].frame = None
  BY DEF EnterFrame, Online
<1>3. ASSUME NEW n, Entering(p, r, n)
      PROVE  /\ client'[p].frame # None /\ client'[p].stage = "online"
             /\ \A q \in Peers \ {p} : client'[q] = client[q]
  <2> DEFINE c == client[p]
  <2>1. c \in ClientState /\ c.stage = "online"
    BY <1>2 DEF TypeOK, ManagerTypeOK
  <2>2. client'[p] = [c EXCEPT !.frame = r, !.entries = @ + 1, !.replies = @ + n]
    BY <1>3 DEF Entering, TypeOK, ManagerTypeOK
  <2> HIDE DEF c
  <2>3. client'[p].frame = r /\ client'[p].stage = "online"
    BY <2>1, <2>2 DEF ClientState
  <2> QED BY <1>3, <2>3, PeerAssumption DEF Entering, TypeOK, ManagerTypeOK
<1>4. CASE peers[p] = None
  <2>1. Entering(p, r, 0) /\ UNCHANGED managerVars
    BY <1>4 DEF EnterFrame
  <2>2. \A q \in Peers : /\ client'[q].stage = client[q].stage
                         /\ client'[q].frame = None => client[q].frame = None
    BY <1>2, <1>3, <2>1
  <2> QED BY <1>1, <2>1, <2>2, RoomKept DEF managerVars, Known
<1>5. CASE peers[p] # None
  <2>1. PICK i \in Selection("ingress", HomeOf[p]), e \in Selection("egress", HomeOf[p]),
             m \in Selection("movement", HomeOf[p]) :
          IF {i, e} \intersect {None, Throws} # {} \/ m = Throws
          THEN EnterOnly(p, r) /\ Entering(p, r, 0)
          ELSE EnterWith(p, r, i, e, m) /\ Entering(p, r, 1)
    BY <1>5 DEF EnterFrame
  <2>2. p \in Known
    BY <1>5 DEF Known
  <2>3. peers[p].room = None /\ peers[p].ingress = None /\ peers[p].egress = None
    BY <1>2, <2>2 DEF RoomInv, Outside
  <2>4. CASE EnterOnly(p, r) /\ Entering(p, r, 0)
    BY <1>1, <1>3, <2>2, <2>3, <2>4, EnterOnlyRooms
  <2>5. CASE {i, e} \intersect {None, Throws} = {} /\ m # Throws
             /\ EnterWith(p, r, i, e, m) /\ Entering(p, r, 1)
    <3>1. /\ i \in Up \intersect OfMode("ingress") /\ e \in Up \intersect OfMode("egress")
          /\ m \in (Up \intersect OfMode("movement")) \union {None}
      BY <2>5, SelectedServers DEF Modes
    <3> QED BY <1>1, <1>3, <2>2, <2>3, <2>5, <3>1, EnterWithRooms
  <2> QED BY <2>1, <2>4, <2>5
<1> QED BY <1>4, <1>5

(* disconnectPeerWebsocket: the room is closed with its last peer, on all   *)
(* the servers that have its router group, and with no other.              *)
LEMMA DisconnectRooms ==
  ASSUME TypeOK, RoomInv, NEW p \in Peers, DisconnectPeerWebsocket(p),
         NoneLost', Up' = Up, UNCHANGED routingTable,
         client[p].stage = "online",
         \/ UNCHANGED <<client, invited>>
         \/ /\ client'[p].stage = "closed"
            /\ \A q \in Peers \ {p} : client'[q] = client[q] /\ invited'[q] = invited[q]
  PROVE  RoomInv'
<1>1. PICK E \in SUBSET Rooms :
        /\ \A q \in Peers : peers'[q] = peers[q] \/ (q = p /\ peers'[q] = None)
        /\ \A k \in Rooms : rooms'[k] = IF k \in E THEN None ELSE rooms[k]
        /\ \A s \in Servers : groups'[s] = groups[s] \ E
        /\ \A k \in E : PeersIn(k) \subseteq {p} /\ peers'[p] = None
        /\ \A k \in Rooms \ E : rooms[k] # None => PeersIn(k)' # {}
  <2>1. CASE p \notin Known \/ DisconnectThrows({p})
    <3>1. UNCHANGED <<peers, rooms, groups>>
      BY <2>1 DEF DisconnectPeerWebsocket
    <3>2. \A k \in Rooms : PeersIn(k)' = PeersIn(k)
      BY <3>1 DEF PeersIn, Known
    <3>3. \A k \in Rooms : rooms[k] # None => PeersIn(k) # {}
      BY DEF RoomInv, RoomOnServers
    <3> WITNESS {} \in SUBSET Rooms
    <3> QED BY <3>1, <3>2, <3>3
  <2>2. CASE p \in Known /\ ~DisconnectThrows({p})
    <3> DEFINE E == Emptied({p})
               r == peers[p].room
    <3>1. /\ peers' = PeersWithout({p})
          /\ rooms' = Without(rooms, E) /\ groups' = GroupsWithout(E)
      BY <2>2 DEF DisconnectPeerWebsocket
    <3>2. E = IF r # None /\ rooms[r] # None /\ PeersIn(r) \subseteq {p} THEN {r} ELSE {}
      BY DEF Emptied, Served, InRoom
    <3>3. r \in Rooms \union {None}
      BY <2>2 DEF Known, TypeOK, ManagerTypeOK, PeerData
    <3>4. E \in SUBSET Rooms
      BY <3>2, <3>3
    <3>5. \A q \in Peers : peers'[q] = IF q = p /\ r # None THEN None ELSE peers[q]
      BY <3>1 DEF PeersWithout, InRoom
    <3> HIDE DEF E
    <3>6. \A k \in Rooms : rooms'[k] = IF k \in E THEN None ELSE rooms[k]
      BY <3>1 DEF Without
    <3>7. \A s \in Servers : groups'[s] = groups[s] \ E
      <4> SUFFICES ASSUME NEW s \in Servers, NEW k \in groups[s] \intersect E
                   PROVE  s \in Up /\ routingTable[k] # None /\ s \in routingTable[k]
        BY <3>1 DEF GroupsWithout
      <4>1. rooms[k] # None /\ s \in rooms[k]
        BY DEF RoomInv, GroupHasRoom
      <4> QED BY <3>4, <4>1 DEF RoomInv, RoomOnServers
    <3>8. \A k \in E : PeersIn(k) \subseteq {p} /\ peers'[p] = None
      BY <3>2, <3>5
    <3>9. ASSUME NEW k \in Rooms \ E, rooms[k] # None PROVE PeersIn(k)' # {}
      <4>1. PICK q \in PeersIn(k) : r = k => q # p
        <5>1. PeersIn(k) # {}
          BY <3>9 DEF RoomInv, RoomOnServers
        <5>2. r = k => ~(PeersIn(k) \subseteq {p})
          BY <3>2, <3>9, PeerAssumption
        <5> QED BY <5>1, <5>2
      <4>2. q \in Known /\ peers[q].room = k /\ q # p
        BY <4>1 DEF PeersIn
      <4>3. q \in PeersIn(k)'
        BY <3>5, <4>2 DEF PeersIn, Known
      <4> QED BY <4>3
    <3> QED BY <3>4, <3>5, <3>6, <3>7, <3>8, <3>9
  <2> QED BY <2>1, <2>2
<1>2. Known' \subseteq Known /\ \A q \in Known' : peers'[q] = peers[q]
  BY <1>1 DEF Known
<1>3. \A q \in Peers : \/ client'[q] = client[q] /\ invited'[q] = invited[q]
                       \/ q = p /\ client'[q].stage = "closed"
  OBVIOUS
<1>4. Outside'
  BY <1>2, <1>3 DEF RoomInv, Outside, Known
<1>5. Placed'
  BY <1>2 DEF RoomInv, Placed
<1>6. RoomOnServers'
  <2> SUFFICES ASSUME NEW k \in Rooms, rooms'[k] # None
               PROVE  /\ PeersIn(k)' # {}
                      /\ routingTable'[k] = rooms'[k]
                      /\ \A s \in rooms'[k] : s \in Up' /\ k \in groups'[s]
    BY DEF RoomOnServers
  <2>1. k \notin E /\ rooms'[k] = rooms[k]
    BY <1>1
  <2>2. routingTable[k] = rooms[k] /\ \A s \in rooms[k] : s \in Up /\ k \in groups[s]
    BY <2>1 DEF RoomInv, RoomOnServers
  <2>3. \A s \in rooms[k] : s \in Servers
    BY <2>2 DEF Up
  <2> QED BY <1>1, <2>1, <2>2, <2>3
<1>7. GroupHasRoom'
  <2> SUFFICES ASSUME NEW s \in Servers, NEW k \in groups'[s]
               PROVE  rooms'[k] # None /\ s \in rooms'[k]
    BY DEF GroupHasRoom
  <2>1. k \in groups[s] /\ k \notin E /\ groups[s] \subseteq Rooms
    BY <1>1 DEF TypeOK, ManagerTypeOK
  <2> QED BY <1>1, <2>1 DEF RoomInv, GroupHasRoom
<1>8. ASSUME NEW q \in Peers, Routed(q)'
      PROVE  /\ Routed(q) /\ peers'[q] = peers[q]
             /\ peers[q].room \in Rooms /\ rooms'[peers[q].room] = rooms[peers[q].room]
  <2>1. q \in Known' /\ q \in Known /\ peers'[q] = peers[q] /\ Routed(q)
    BY <1>2, <1>8 DEF Routed
  <2>2. peers[q] \in PeerData
    BY <2>1 DEF Known, TypeOK, ManagerTypeOK
  <2>3. peers[q].room # None
    BY <2>1, <2>2 DEF RoomInv, Placed, Routed
  <2>4. peers[q].room \in Rooms
    BY <2>2, <2>3 DEF PeerData
  <2>5. q \in PeersIn(peers[q].room)
    BY <2>1 DEF PeersIn
  <2>6. peers[q].room \notin E
    BY <1>1, <2>1, <2>5 DEF Known
  <2> QED BY <1>1, <2>1, <2>4, <2>6
<1>9. RouteCoversPeers'
  BY <1>8 DEF RoomInv, RouteCoversPeers
<1>10. EgressMesh'
  <2> SUFFICES ASSUME NEW q \in Peers, Routed(q)', client'[q].stage = "online"
               PROVE  RouteOf(rooms'[peers'[q].room], "egress") \subseteq invited'[q]
    BY DEF EgressMesh, RouteOf
  <2>1. client'[q] = client[q] /\ invited'[q] = invited[q]
    BY <1>3
  <2> QED BY <1>8, <2>1 DEF RoomInv, EgressMesh
<1> QED BY <1>4, <1>5, <1>6, <1>7, <1>9, <1>10 DEF RoomInv

(* leaveRoom finds the room and its counter, and what it counts there tells *)
(* it rightly whether the peer is the last.                                *)
LeavesInOrder ==
  \A p \in Known : LeaveFrame(p) =>
    LET r == client[p].frame
    IN  /\ rooms[r] # None /\ peerCount[r] # None
        /\ rooms'[r] = None <=> PeersIn(r) \subseteq {p}

(* Such a leaveRoom takes the peer out of the room and closes it behind the *)
(* last one.                                                               *)
LEMMA LeaveFrameRooms ==
  ASSUME TypeOK, RoomInv, RoomIsFrame, NEW p \in Peers, LeaveFrame(p), LeavesInOrder,
         NoneLost', Up' = Up
  PROVE  RoomInv'
<1> DEFINE r == client[p].frame
<1>0. /\ r \in Rooms /\ client[p].stage = "online" /\ UNCHANGED routingTable
      /\ client'[p].stage = "online"
      /\ \A q \in Peers \ {p} : client'[q] = client[q] /\ invited'[q] = invited[q]
  BY DEF LeaveFrame, Online, TypeOK, ManagerTypeOK, ClientState
<1>1. PICK E \in SUBSET Rooms :
        /\ Known' = Known
        /\ \A q \in Known \ {p} : peers'[q] = peers[q]
        /\ p \in Known => /\ peers'[p].room = None
                          /\ peers'[p].ingress = None /\ peers'[p].egress = None
        /\ \A k \in Rooms : rooms'[k] = IF k \in E THEN None ELSE rooms[k]
        /\ \A s \in Servers : groups'[s] = groups[s] \ E
        /\ \A k \in E : PeersIn(k) \subseteq {p} /\ p \in Known
        /\ \A k \in Rooms \ E : rooms[k] # None => PeersIn(k)' # {}
  <2>1. CASE p \notin Known
    <3>1. UNCHANGED <<peers, rooms, groups>>
      BY <2>1 DEF LeaveFrame, LeaveRoom, Known
    <3>2. Known' = Known /\ \A k \in Rooms : PeersIn(k)' = PeersIn(k)
      BY <3>1 DEF PeersIn, Known
    <3>3. \A k \in Rooms : rooms[k] # None => PeersIn(k) # {}
      BY DEF RoomInv, RoomOnServers
    <3> WITNESS {} \in SUBSET Rooms
    <3> QED BY <2>1, <3>1, <3>2, <3>3
  <2>2. CASE p \in Known
    <3> DEFINE data == peers[p]
               new == [NewPeer EXCEPT !.movement = data.movement]
               count == CountWithout(r, {p})
               close == count.participantCount = 0 /\ count.lobbyCount = 0
               E == IF close THEN {r} ELSE {}
    <3>1. data # None /\ data \in PeerData /\ data.room = r /\ r # None
      BY <1>0, <2>2, PeerAssumption DEF Known, RoomIsFrame, TypeOK, ManagerTypeOK
    <3>2. /\ rooms[r] # None /\ peerCount[r] # None
          /\ rooms'[r] = None <=> PeersIn(r) \subseteq {p}
      BY <2>2 DEF LeavesInOrder
    <3>3. LeaveRoom(p, r)
      BY DEF LeaveFrame
    <3>4. peers' = [peers EXCEPT ![p] = new]
      BY <3>1, <3>2, <3>3 DEF LeaveRoom
    <3>5. rooms' = IF close THEN [rooms EXCEPT ![r] = None] ELSE rooms
      BY <3>1, <3>2, <3>3 DEF LeaveRoom
    <3>6. groups' = IF close THEN GroupsWithout({r}) ELSE groups
      <4>1. groups' = IF close THEN GroupsWithout({data.room} \ {None}) ELSE groups
        BY <3>1, <3>2, <3>3 DEF LeaveRoom
      <4>2. {data.room} \ {None} = {r}
        BY <3>1
      <4> QED BY <4>1, <4>2
    <3> HIDE DEF close
    <3>7. close <=> PeersIn(r) \subseteq {p}
      BY <1>0, <3>2, <3>5 DEF TypeOK, ManagerTypeOK
    <3>8. /\ new \in PeerData /\ new.room = None
          /\ new.ingress = None /\ new.egress = None
      BY <3>1 DEF NewPeer, PeerData
    <3> HIDE DEF new, data
    <3>9. peers'[p] = new /\ \A q \in Peers \ {p} : peers'[q] = peers[q]
      BY <3>4 DEF TypeOK, ManagerTypeOK
    <3>10. Known' = Known
      BY <2>2, <3>8, <3>9, EntryAssumption DEF Known
    <3>11. E \in SUBSET Rooms
      BY <1>0
    <3>12. \A k \in Rooms : rooms'[k] = IF k \in E THEN None ELSE rooms[k]
      BY <1>0, <3>5 DEF TypeOK, ManagerTypeOK
    <3>13. \A s \in Servers : groups'[s] = groups[s] \ E
      <4>1. CASE ~close
        BY <3>6, <4>1
      <4>2. CASE close
        <5>1. E = {r} /\ groups' = GroupsWithout({r})
          BY <3>6, <4>2
        <5>2. ASSUME NEW s \in Servers, r \in groups[s]
              PROVE  s \in Up /\ routingTable[r] # None /\ s \in routingTable[r]
          <6>1. rooms[r] # None /\ s \in rooms[r]
            BY <5>2 DEF RoomInv, GroupHasRoom
          <6> QED BY <1>0, <6>1 DEF RoomInv, RoomOnServers
        <5> HIDE DEF E
        <5> QED BY <5>1, <5>2 DEF GroupsWithout
      <4> QED BY <4>1, <4>2
    <3>14. \A k \in E : PeersIn(k) \subseteq {p} /\ p \in Known
      BY <2>2, <3>7
    <3>15. ASSUME NEW k \in Rooms \ E, rooms[k] # None PROVE PeersIn(k)' # {}
      <4>1. PICK q \in PeersIn(k) : k = r => q # p
        <5>1. PeersIn(k) # {}
          BY <3>15 DEF RoomInv, RoomOnServers
        <5>2. k = r => ~(PeersIn(k) \subseteq {p})
          BY <3>7, <3>15
        <5> QED BY <5>1, <5>2
      <4>2. q \in Known /\ peers[q].room = k /\ q # p
        BY <3>1, <4>1 DEF PeersIn, data
      <4>3. q \in PeersIn(k)'
        BY <3>9, <3>10, <4>2 DEF PeersIn, Known
      <4> QED BY <4>3
    <3>16. /\ \A q \in Known \ {p} : peers'[q] = peers[q]
           /\ peers'[p].room = None
           /\ peers'[p].ingress = None /\ peers'[p].egress = None
      BY <3>8, <3>9 DEF Known
    <3> HIDE DEF E
    <3> QED BY <3>10, <3>11, <3>12, <3>13, <3>14, <3>15, <3>16
  <2> QED BY <2>1, <2>2
<1> HIDE DEF r
<1>4. Outside'
  BY <1>0, <1>1 DEF RoomInv, Outside, Known
<1>5. Placed'
  BY <1>1 DEF RoomInv, Placed
<1>6. RoomOnServers'
  <2> SUFFICES ASSUME NEW k \in Rooms, rooms'[k] # None
               PROVE  /\ PeersIn(k)' # {}
                      /\ routingTable'[k] = rooms'[k]
                      /\ \A s \in rooms'[k] : s \in Up' /\ k \in groups'[s]
    BY DEF RoomOnServers
  <2>1. k \notin E /\ rooms'[k] = rooms[k]
    BY <1>1
  <2>2. routingTable[k] = rooms[k] /\ \A s \in rooms[k] : s \in Up /\ k \in groups[s]
    BY <2>1 DEF RoomInv, RoomOnServers
  <2>3. \A s \in rooms[k] : s \in Servers
    BY <2>2 DEF Up
  <2> QED BY <1>0, <1>1, <2>1, <2>2, <2>3
<1>7. GroupHasRoom'
  <2> SUFFICES ASSUME NEW s \in Servers, NEW k \in groups'[s]
               PROVE  rooms'[k] # None /\ s \in rooms'[k]
    BY DEF GroupHasRoom
  <2>1. k \in groups[s] /\ k \notin E /\ groups[s] \subseteq Rooms
    BY <1>1 DEF TypeOK, ManagerTypeOK
  <2> QED BY <1>1, <2>1 DEF RoomInv, GroupHasRoom
<1>8. ASSUME NEW q \in Peers, Routed(q)'
      PROVE  /\ Routed(q) /\ q # p /\ peers'[q] = peers[q]
             /\ peers[q].room \in Rooms /\ rooms'[peers[q].room] = rooms[peers[q].room]
  <2>1. q \in Known' /\ q \in Known /\ q # p /\ peers'[q] = peers[q] /\ Routed(q)
    BY <1>1, <1>8 DEF Routed
  <2>2. peers[q] \in PeerData
    BY <2>1 DEF Known, TypeOK, ManagerTypeOK
  <2>3. peers[q].room # None
    BY <2>1, <2>2 DEF RoomInv, Placed, Routed
  <2>4. peers[q].room \in Rooms
    BY <2>2, <2>3 DEF PeerData
  <2>5. q \in PeersIn(peers[q].room)
    BY <2>1 DEF PeersIn
  <2>6. peers[q].room \notin E
    BY <1>1, <2>1, <2>5
  <2> QED BY <1>1, <2>1, <2>4, <2>6
<1>9. RouteCoversPeers'
  BY <1>8 DEF RoomInv, RouteCoversPeers
<1>10. EgressMesh'
  <2> SUFFICES ASSUME NEW q \in Peers, Routed(q)', client'[q].stage = "online"
               PROVE  RouteOf(rooms'[peers'[q].room], "egress") \subseteq invited'[q]
    BY DEF EgressMesh, RouteOf
  <2>1. client'[q] = client[q] /\ invited'[q] = invited[q]
    BY <1>0, <1>8
  <2> QED BY <1>8, <2>1 DEF RoomInv, EgressMesh
<1> QED BY <1>4, <1>5, <1>6, <1>7, <1>9, <1>10 DEF RoomInv

LEMMA SignalRooms ==
  ASSUME TypeOK, RegistryIsLive, RoomInv, RoomIsFrame, LeavesInOrder,
         NEW p \in Peers, Signal(p)
  PROVE  RoomInv'
<1>1. UNCHANGED routerVars
  BY SignalKeepsRegistry
<1>2. NoneLost' /\ Up' = Up
  BY <1>1, NoneLostKept DEF RoomInv
<1>3. CASE CloseTab(p)
  <2>1. client'[p].stage = "closed"
    BY <1>3 DEF CloseTab, NewClient, TypeOK, ManagerTypeOK
  <2>2. \A q \in Peers \ {p} : client'[q] = client[q] /\ invited'[q] = invited[q]
    BY <1>3 DEF CloseTab, TypeOK, ManagerTypeOK
  <2> QED BY <1>2, <1>3, <2>1, <2>2, DisconnectRooms DEF CloseTab, Online
<1>4. CASE BootUser(p)
  BY <1>2, <1>4, DisconnectRooms DEF BootUser, Online
<1>5. ASSUME NEW r \in Rooms, EnterFrame(p, r) PROVE RoomInv'
  BY <1>5, EnterFrameRooms
<1>6. CASE CreatePeer(p)
  BY <1>6, CreatePeerRooms
<1>7. CASE \/ CreateIngressTransport(p)
           \/ ConnectIngressTransport(p)
           \/ \E isSpectator \in BOOLEAN : GetRoomMovement(p, isSpectator)
           \/ \E names : GetRoomMetrics(p, names)
  BY <1>1, <1>7, TransportsKeepRooms
<1>8. CASE LeaveFrame(p)
  BY <1>2, <1>8, LeaveFrameRooms
<1> QED BY <1>3, <1>4, <1>5, <1>6, <1>7, <1>8 DEF Signal

LEMMA NoLoss ==
  ASSUME MaxLosses = 0, RoomInv, NEW s \in Servers
  PROVE  ~LoseServer(s)
<1>1. {x \in Servers : link[x] = "closed"} = {}
  BY DEF RoomInv, NoneLost
<1>2. Cardinality({x \in Servers : link[x] = "closed"}) = 0
  BY <1>1, FS_EmptySet
<1> QED BY <1>2 DEF LoseServer

(* The invariant, in a process that has lost no media server.              *)
LEMMA RoomInvHolds ==
  ASSUME MaxLosses = 0
  PROVE  Spec /\ [][LeavesInOrder]_vars => []RoomInv
<1>1. Init => RoomInv
  <2> SUFFICES ASSUME Init PROVE RoomInv
    OBVIOUS
  <2>1. Known = {} /\ \A p \in Peers : ~Routed(p)
    BY DEF Init, Known, Routed
  <2>2. RoomOnServers /\ GroupHasRoom /\ NoneLost
    BY DEF Init, RouterInit, RoomOnServers, GroupHasRoom, NoneLost
  <2> QED BY <2>1, <2>2 DEF RoomInv, Outside, Placed, RouteCoversPeers, EgressMesh
<1>2. TypeOK /\ RegistryIsLive /\ RoomInv /\ RoomIsFrame /\ [Next]_vars
        /\ [LeavesInOrder]_vars => RoomInv'
  <2> SUFFICES ASSUME TypeOK, RegistryIsLive, RoomInv, RoomIsFrame, [Next]_vars,
                      [LeavesInOrder]_vars
               PROVE  RoomInv'
    OBVIOUS
  <2>1. CASE Registry /\ UNCHANGED <<managerVars, client>>
    <3>1. Up \subseteq Up'
      BY <2>1, RegistryStep DEF TypeOK, RegistryInv
    <3>2. NoneLost'
      BY <2>1 DEF Registry, Register, ServerLoad, RoomInv, NoneLost, TypeOK, RouterTypeOK
    <3> QED BY <2>1, <3>1, <3>2, RoomKept DEF managerVars, Known
  <2>2. ASSUME NEW p \in Peers, Signal(p), LeavesInOrder PROVE RoomInv'
    BY <2>2, SignalRooms
  <2>3. ASSUME NEW s \in Servers, LoseServer(s) PROVE FALSE
    BY <2>3, NoLoss
  <2>4. CASE UNCHANGED vars
    <3>1. NoneLost' /\ Up' = Up
      BY <2>4, NoneLostKept DEF vars, RoomInv
    <3> QED BY <2>4, <3>1, RoomKept DEF vars, managerVars, Known
  <2> QED BY <2>1, <2>2, <2>3, <2>4 DEF Next
<1> QED BY <1>1, <1>2, TypeCorrect, RoomStaysFrame, PTL DEF Spec

(* In a process that has lost no media server, whoever enters, leaves,      *)
(* changes frames, is booted or closes the tab: everyone in a room is told  *)
(* of all its egress servers, its route has everyone's servers, and its    *)
(* router group is there exactly as long as somebody is.  This may end only *)
(* with a leaveRoom that does not find the room or its counter or that     *)
(* takes what it counts for the number of those who are there.             *)
THEOREM RoomsAreServed ==
  ASSUME MaxLosses = 0
  PROVE  Spec /\ [][LeavesInOrder]_vars
            => [](EgressMesh /\ RouteCoversPeers /\ RoomStaysOpen /\ EmptyRoomReleased)
<1>1. Spec /\ [][LeavesInOrder]_vars => []RoomInv
  BY RoomInvHolds
<1>2. TypeOK /\ RoomInv => EgressMesh /\ RouteCoversPeers /\ RoomStaysOpen /\ EmptyRoomReleased
  <2> SUFFICES ASSUME TypeOK, RoomInv PROVE RoomStaysOpen /\ EmptyRoomReleased
    BY DEF RoomInv
  <2>1. RoomStaysOpen
    <3> SUFFICES ASSUME NEW p \in Peers, Routed(p),
                        NEW s \in {peers[p].ingress, peers[p].egress} \intersect Up
                 PROVE  peers[p].room \in groups[s]
      BY DEF RoomStaysOpen
    <3>1. peers[p].room \in Rooms
      BY DEF Routed, Known, RoomInv, Placed, TypeOK, ManagerTypeOK, PeerData
    <3> QED BY <3>1 DEF RoomInv, RouteCoversPeers, RoomOnServers
  <2>2. EmptyRoomReleased
    BY DEF RoomInv, EmptyRoomReleased, GroupHasRoom, RoomOnServers, Up
  <2> QED BY <2>1, <2>2
<1> QED BY <1>1, <1>2, TypeCorrect, PTL
-----------------------------------------------------------------------------
(* Frames, the abstract specification of rooms and their peers.            *)

(* Who is in no room has no movement server either.                        *)
Unmoved == \A p \in Known : peers[p].room = None => peers[p].movement = None

(* A frame is open on the servers of its route.                            *)
LEMMA OpenIsRoute ==
  ASSUME RoomInv, NEW r \in Rooms
  PROVE  OpenOn(r) = IF rooms[r] = None THEN {} ELSE rooms[r]
BY DEF RoomInv, RoomOnServers, GroupHasRoom, OpenOn, Up

LEMMA OpenIsRouteNext ==
  ASSUME RoomInv', NEW r \in Rooms
  PROVE  OpenOn(r)' = IF rooms'[r] = None THEN {} ELSE rooms'[r]
BY DEF RoomInv, RoomOnServers, GroupHasRoom, OpenOn, Up

(* Steps that move nobody.                                                 *)
LEMMA FramesKept ==
  ASSUME RoomInv, RoomInv', UNCHANGED rooms, Unmoved,
         Known \subseteq Known',
         \A p \in Known : /\ peers'[p].room = peers[p].room
                          /\ peers'[p].ingress = peers[p].ingress
                          /\ peers'[p].egress = peers[p].egress
                          /\ peers'[p].movement = peers[p].movement,
         \A p \in Known' \ Known : peers'[p] = NewPeer
  PROVE  Unmoved' /\ UNCHANGED F!vars
<1>1. NewPeer.room = None /\ NewPeer.ingress = None /\ NewPeer.egress = None
      /\ NewPeer.movement = None
  BY DEF NewPeer
<1>2. \A r \in Rooms : OpenOn(r)' = OpenOn(r)
  BY OpenIsRoute, OpenIsRouteNext
<1>3. \A p \in Peers : Inside(p)' = Inside(p) /\ ServedBy(p)' = ServedBy(p)
  BY <1>1 DEF Inside, ServedBy
<1>4. Unmoved'
  BY <1>1 DEF Unmoved
<1> QED BY <1>2, <1>3, <1>4 DEF F!vars

(* The signals that move nobody.                                           *)
LEMMA TransportsKeepFrames ==
  ASSUME TypeOK, RoomInv, RoomInv', Unmoved, NEW p \in Peers,
         \/ CreatePeer(p)
         \/ CreateIngressTransport(p)
         \/ ConnectIngressTransport(p)
         \/ \E isSpectator \in BOOLEAN : GetRoomMovement(p, isSpectator)
         \/ \E names : GetRoomMetrics(p, names)
  PROVE  Unmoved' /\ UNCHANGED F!vars
<1> DEFINE data == peers[p]
<1>1. data # None => data \in PeerData
  BY DEF TypeOK, ManagerTypeOK
<1>2. UNCHANGED rooms
  <2>1. CreatePeer(p) \/ CreateIngressTransport(p) \/ ConnectIngressTransport(p)
          => UNCHANGED rooms
    BY DEF CreatePeer, CreateIngressTransport, ConnectIngressTransport
  <2>2. \A isSpectator \in BOOLEAN : GetRoomMovement(p, isSpectator) => UNCHANGED rooms
    BY DEF GetRoomMovement
  <2>3. \A names : GetRoomMetrics(p, names) => UNCHANGED rooms
    BY DEF GetRoomMetrics
  <2> QED BY <2>1, <2>2, <2>3
<1>3. CASE CreatePeer(p)
  <2>1. \A q \in Peers : peers'[q] = peers[q] \/ (peers[q] = None /\ peers'[q] = NewPeer)
    BY <1>3 DEF CreatePeer, TypeOK, ManagerTypeOK
  <2>2. Known \subseteq Known' /\ \A q \in Known : peers'[q] = peers[q]
    BY <2>1 DEF Known
  <2>3. \A q \in Known' \ Known : peers'[q] = NewPeer
    BY <2>1 DEF Known
  <2> QED BY <1>2, <2>2, <2>3, FramesKept
<1>4. CASE UNCHANGED peers
  <2>1. Known' = Known
    BY <1>4 DEF Known
  <2> QED BY <1>2, <1>4, <2>1, FramesKept
<1>5. ASSUME data # None, NEW new, peers' = [peers EXCEPT ![p] = new],
             new \in PeerData, new.room = data.room, new.ingress = data.ingress,
             new.egress = data.egress, new.movement = data.movement
      PROVE  Unmoved' /\ UNCHANGED F!vars
  <2>1. peers'[p] = new /\ \A q \in Peers \ {p} : peers'[q] = peers[q]
    BY <1>5 DEF TypeOK, ManagerTypeOK
  <2>2. Known' = Known
    BY <1>5, <2>1, EntryAssumption DEF Known
  <2>3. \A q \in Known : /\ peers'[q].room = peers[q].room
                         /\ peers'[q].ingress = peers[q].ingress
                         /\ peers'[q].egress = peers[q].egress
                         /\ peers'[q].movement = peers[q].movement
    BY <1>5, <2>1 DEF Known
  <2> QED BY <1>2, <2>2, <2>3, FramesKept
<1>6. CASE ConnectIngressTransport(p)
  <2>1. UNCHANGED peers \/ (data # None /\ peers' = [peers EXCEPT ![p] =
                                                     [data EXCEPT !.isParticipant = TRUE]])
    BY <1>6 DEF ConnectIngressTransport, TypeOK, ManagerTypeOK
  <2> HIDE DEF data
  <2>2. CASE data # None /\ peers' = [peers EXCEPT ![p] = [data EXCEPT !.isParticipant = TRUE]]
    <3> DEFINE new == [data EXCEPT !.isParticipant = TRUE]
    <3>1. new \in PeerData /\ new.room = data.room /\ new.ingress = data.ingress
          /\ new.egress = data.egress /\ new.movement = data.movement
      BY <1>1, <2>2 DEF PeerData
    <3>2. peers' = [peers EXCEPT ![p] = new]
      BY <2>2
    <3> HIDE DEF new
    <3> QED BY <1>5, <2>2, <3>1, <3>2
  <2> QED BY <1>4, <2>1, <2>2
<1>7. ASSUME NEW isSpectator \in BOOLEAN, GetRoomMovement(p, isSpectator)
      PROVE  Unmoved' /\ UNCHANGED F!vars
  <2> DEFINE flag == data.isSpectator \/ isSpectator
             new == [data EXCEPT !.isLobby = FALSE, !.isSpectator = flag]
  <2>1. UNCHANGED peers \/ (data # None /\ peers' = [peers EXCEPT ![p] = new])
    BY <1>7 DEF GetRoomMovement, TypeOK, ManagerTypeOK
  <2> HIDE DEF data
  <2>2. CASE data # None /\ peers' = [peers EXCEPT ![p] = new]
    <3>1. flag \in BOOLEAN
      BY <1>1, <2>2 DEF PeerData
    <3> HIDE DEF flag
    <3>2. new \in PeerData /\ new.room = data.room /\ new.ingress = data.ingress
          /\ new.egress = data.egress /\ new.movement = data.movement
      BY <1>1, <2>2, <3>1 DEF PeerData
    <3> HIDE DEF new
    <3> QED BY <1>5, <2>2, <3>2
  <2> QED BY <1>4, <2>1, <2>2
<1>8. ASSUME NEW names, GetRoomMetrics(p, names) PROVE UNCHANGED peers
  BY <1>8 DEF GetRoomMetrics
<1>9. CASE CreateIngressTransport(p)
  BY <1>4, <1>9 DEF CreateIngressTransport
<1> QED BY <1>3, <1>4, <1>6, <1>7, <1>8, <1>9

(* joinRoom is an Enter with the servers the peer gets.                    *)
LEMMA EnterIsEnter ==
  ASSUME TypeOK, RoomInv, RoomInv', Unmoved, NEW p \in Known, NEW r \in Rooms,
         peers[p].room = None, NEW S \in SUBSET Servers,
         peers'[p] \in PeerData, peers'[p].room = r,
         {peers'[p].ingress, peers'[p].egress, peers'[p].movement} \ {None} = S,
         \A q \in Peers \ {p} : peers'[q] = peers[q],
         \A k \in Rooms \ {r} : rooms'[k] = rooms[k],
         \/ S = {} /\ rooms'[r] = rooms[r]
         \/ rooms'[r] # None
            /\ rooms'[r] = (IF rooms[r] = None THEN {} ELSE rooms[r]) \union S
  PROVE  Unmoved' /\ F!Enter(p, r)
<1>1. p \in Peers /\ p \in Known' /\ Known' = Known
  BY EntryAssumption DEF Known
<1>2. Inside(p) = None /\ Inside(p)' = r /\ \A q \in Peers \ {p} : Inside(q)' = Inside(q)
  BY <1>1 DEF Inside
<1>3. ServedBy(p)' = S /\ \A q \in Peers \ {p} : ServedBy(q)' = ServedBy(q)
  BY <1>1 DEF ServedBy
<1>4. OpenOn(r)' = OpenOn(r) \union S /\ \A k \in Rooms \ {r} : OpenOn(k)' = OpenOn(k)
  BY OpenIsRoute, OpenIsRouteNext
<1>5. Unmoved'
  BY <1>1, PeerAssumption DEF Unmoved, Known
<1>6. [q \in Peers |-> Inside(q)]' = [[q \in Peers |-> Inside(q)] EXCEPT ![p] = r]
  BY <1>2
<1>7. [q \in Peers |-> ServedBy(q)]' = [[q \in Peers |-> ServedBy(q)] EXCEPT ![p] = S]
  BY <1>3
<1>8. [k \in Rooms |-> OpenOn(k)]'
        = [[k \in Rooms |-> OpenOn(k)] EXCEPT ![r] = OpenOn(r) \union S]
  BY <1>4
<1> QED BY <1>1, <1>2, <1>5, <1>6, <1>7, <1>8 DEF F!Enter

LEMMA EnterFrameIsEnter ==
  ASSUME TypeOK, RegistryIsLive, RoomInv, RoomInv', Unmoved, NEW p \in Peers, NEW r \in Rooms,
         EnterFrame(p, r)
  PROVE  Unmoved' /\ (F!Enter(p, r) \/ UNCHANGED F!vars)
<1>1. CASE peers[p] = None
  <2>1. UNCHANGED <<peers, rooms>>
    BY <1>1 DEF EnterFrame, managerVars
  <2>2. Known' = Known
    BY <2>1 DEF Known
  <2> QED BY <2>1, <2>2, FramesKept
<1>2. CASE peers[p] # None
  <2> DEFINE data == peers[p]
  <2>1. PICK i \in Selection("ingress", HomeOf[p]), e \in Selection("egress", HomeOf[p]),
             m \in Selection("movement", HomeOf[p]) :
          IF {i, e} \intersect {None, Throws} # {} \/ m = Throws
          THEN EnterOnly(p, r) /\ Entering(p, r, 0)
          ELSE EnterWith(p, r, i, e, m) /\ Entering(p, r, 1)
    BY <1>2 DEF EnterFrame
  <2>2. p \in Known /\ data \in PeerData
    BY <1>2 DEF Known, TypeOK, ManagerTypeOK
  <2>3. data.room = None /\ data.ingress = None /\ data.egress = None /\ data.movement = None
    BY <2>2 DEF EnterFrame, Online, RoomInv, Outside, Unmoved
  <2>4. CASE EnterOnly(p, r)
    <3>1. peers' = [peers EXCEPT ![p] = [data EXCEPT !.room = r]] /\ UNCHANGED rooms
      BY <2>4 DEF EnterOnly, TypeOK, ManagerTypeOK
    <3> HIDE DEF data
    <3>2. /\ peers'[p] \in PeerData /\ peers'[p].room = r
          /\ peers'[p].ingress = None /\ peers'[p].egress = None /\ peers'[p].movement = None
          /\ \A q \in Peers \ {p} : peers'[q] = peers[q]
      BY <2>2, <2>3, <3>1 DEF PeerData, TypeOK, ManagerTypeOK
    <3>3. {peers'[p].ingress, peers'[p].egress, peers'[p].movement} \ {None} = {}
      BY <3>2
    <3> QED BY <2>2, <2>3, <3>1, <3>2, <3>3, EnterIsEnter DEF data
  <2>5. CASE {i, e} \intersect {None, Throws} = {} /\ m # Throws /\ EnterWith(p, r, i, e, m)
    <3> DEFINE S == {i, e} \union ({m} \ {None})
               old == IF rooms[r] = None THEN {} ELSE rooms[r]
    <3>1. i \in Servers /\ e \in Servers /\ m \in Servers \union {None} /\ i # None /\ e # None
      BY <2>5, SelectedServers DEF Modes, Up
    <3>2. peers' = [peers EXCEPT ![p] = [data EXCEPT !.room = r, !.ingress = i, !.egress = e,
                                                     !.movement = m]]
      BY <2>3, <2>5 DEF EnterWith, TypeOK, ManagerTypeOK
    <3>3. rooms' = [rooms EXCEPT ![r] = old \union S]
      <4>1. rooms' = [rooms EXCEPT ![r] = old \union {i, e} \union ({m} \ {None})]
        BY <2>5 DEF EnterWith
      <4>2. old \union {i, e} \union ({m} \ {None}) = old \union S
        OBVIOUS
      <4> QED BY <4>1, <4>2
    <3> HIDE DEF data
    <3>4. /\ peers'[p] \in PeerData /\ peers'[p].room = r
          /\ peers'[p].ingress = i /\ peers'[p].egress = e /\ peers'[p].movement = m
          /\ \A q \in Peers \ {p} : peers'[q] = peers[q]
      BY <2>2, <3>1, <3>2 DEF PeerData, TypeOK, ManagerTypeOK
    <3>5. S \in SUBSET Servers
          /\ {peers'[p].ingress, peers'[p].egress, peers'[p].movement} \ {None} = S
      BY <3>1, <3>4
    <3>6. /\ rooms'[r] = old \union S /\ \A k \in Rooms \ {r} : rooms'[k] = rooms[k]
      BY <3>3 DEF TypeOK, ManagerTypeOK
    <3>7. rooms'[r] # None
      <4>1. old \union S \in SUBSET Servers
        BY <3>5 DEF TypeOK, ManagerTypeOK
      <4> HIDE DEF S, old
      <4> QED BY <3>6, <4>1, EntryAssumption
    <3> HIDE DEF S
    <3> QED BY <2>2, <2>3, <3>4, <3>5, <3>6, <3>7, EnterIsEnter DEF data
  <2> QED BY <2>1, <2>4, <2>5
<1> QED BY <1>1, <1>2

(* disconnectPeerWebsocket is a Leave, unless it returns early or throws.  *)
LEMMA DisconnectIsLeave ==
  ASSUME TypeOK, RoomInv, RoomInv', Unmoved, NEW p \in Peers, DisconnectPeerWebsocket(p)
  PROVE  Unmoved' /\ (F!Leave(p) \/ UNCHANGED F!vars)
<1> DEFINE r == peers[p].room
           E == Emptied({p})
<1>1. CASE UNCHANGED <<peers, rooms>>
  <2>1. Known' = Known
    BY <1>1 DEF Known
  <2> QED BY <1>1, <2>1, FramesKept
<1>2. CASE p \in Known /\ ~DisconnectThrows({p}) /\ r = None
  <2>1. InRoom({p}) = {} /\ E = {}
    BY <1>2 DEF InRoom, Served, Emptied
  <2>2. peers' = PeersWithout({p}) /\ rooms' = Without(rooms, {})
    BY <1>2, <2>1 DEF DisconnectPeerWebsocket
  <2>3. UNCHANGED <<peers, rooms>>
    BY <2>1, <2>2 DEF PeersWithout, Without, TypeOK, ManagerTypeOK
  <2> QED BY <1>1, <2>3
<1>3. CASE p \in Known /\ ~DisconnectThrows({p}) /\ r # None
  <2>1. peers' = PeersWithout({p}) /\ rooms' = Without(rooms, E)
    BY <1>3 DEF DisconnectPeerWebsocket
  <2>2. r \in Rooms
    BY <1>3 DEF Known, TypeOK, ManagerTypeOK, PeerData
  <2>3. \A q \in Peers : peers'[q] = IF q = p THEN None ELSE peers[q]
    BY <1>3, <2>1 DEF PeersWithout, InRoom
  <2>4. Known' = Known \ {p}
    BY <2>3 DEF Known
  <2>5. E = IF rooms[r] # None /\ PeersIn(r) \subseteq {p} THEN {r} ELSE {}
    BY <1>3 DEF Emptied, Served, InRoom
  <2>6. \A k \in Rooms : rooms'[k] = IF k \in E THEN None ELSE rooms[k]
    BY <2>1 DEF Without
  <2>7. PeersIn(r) \subseteq {p} <=> ~\E q \in Peers \ {p} : Inside(q) = Inside(p)
    BY <1>3, <2>2, PeerAssumption DEF Inside, PeersIn, Known
  <2> HIDE DEF E
  <2>8. Inside(p) = r /\ Inside(p)' = None /\ \A q \in Peers \ {p} : Inside(q)' = Inside(q)
    BY <1>3, <2>3, <2>4 DEF Inside
  <2>9. ServedBy(p)' = {} /\ \A q \in Peers \ {p} : ServedBy(q)' = ServedBy(q)
    BY <2>3, <2>4 DEF ServedBy
  <2>10. \A k \in Rooms :
           OpenOn(k)' = IF k = r /\ PeersIn(r) \subseteq {p} THEN {} ELSE OpenOn(k)
    <3> SUFFICES ASSUME NEW k \in Rooms
                 PROVE  OpenOn(k)' = IF k = r /\ PeersIn(r) \subseteq {p} THEN {} ELSE OpenOn(k)
      OBVIOUS
    <3>1. /\ OpenOn(k) = IF rooms[k] = None THEN {} ELSE rooms[k]
          /\ OpenOn(k)' = IF rooms'[k] = None THEN {} ELSE rooms'[k]
      BY OpenIsRoute, OpenIsRouteNext
    <3> QED BY <2>5, <2>6, <3>1
  <2>11. Unmoved'
    BY <2>3, <2>4 DEF Unmoved, Known
  <2>12. [q \in Peers |-> Inside(q)]' = [[q \in Peers |-> Inside(q)] EXCEPT ![p] = None]
    BY <2>8
  <2>13. [q \in Peers |-> ServedBy(q)]' = [[q \in Peers |-> ServedBy(q)] EXCEPT ![p] = {}]
    BY <2>9
  <2>14. [k \in Rooms |-> OpenOn(k)]' =
           IF \E q \in Peers \ {p} : Inside(q) = Inside(p) THEN [k \in Rooms |-> OpenOn(k)]
           ELSE [[k \in Rooms |-> OpenOn(k)] EXCEPT ![r] = {}]
    BY <2>7, <2>10
  <2> HIDE DEF r
  <2>15. F!Leave(p)
    BY <1>3, <2>8, <2>12, <2>13, <2>14 DEF F!Leave
  <2> QED BY <2>11, <2>15
<1> QED BY <1>1, <1>2, <1>3 DEF DisconnectPeerWebsocket

LEMMA SignalFrames ==
  ASSUME ~Transitions, TypeOK, RegistryIsLive, RoomInv, RoomInv', Unmoved,
         NEW p \in Peers, Signal(p)
  PROVE  Unmoved' /\ [F!Next]_(F!vars)
<1>1. CASE CloseTab(p) \/ BootUser(p)
  <2>1. Unmoved' /\ (F!Leave(p) \/ UNCHANGED F!vars)
    BY <1>1, DisconnectIsLeave DEF CloseTab, BootUser
  <2> QED BY <2>1 DEF F!Next
<1>2. ASSUME NEW r \in Rooms, EnterFrame(p, r) PROVE Unmoved' /\ [F!Next]_(F!vars)
  <2>1. Unmoved' /\ (F!Enter(p, r) \/ UNCHANGED F!vars)
    BY <1>2, EnterFrameIsEnter
  <2> QED BY <2>1 DEF F!Next
<1>3. CASE \/ CreatePeer(p)
           \/ CreateIngressTransport(p)
           \/ ConnectIngressTransport(p)
           \/ \E isSpectator \in BOOLEAN : GetRoomMovement(p, isSpectator)
           \/ \E names : GetRoomMetrics(p, names)
  BY <1>3, TransportsKeepFrames
<1> QED BY <1>1, <1>2, <1>3 DEF Signal, LeaveFrame

(* In a process that has lost no media server and whose clients do not      *)
(* change frames, the manager implements Frames: for any number of clients, *)
(* rooms and servers, each signal is an Enter, a Leave, or changes nothing *)
(* of who is where and what is open.                                       *)
THEOREM ImplementsFrames ==
  ASSUME MaxLosses = 0, ~Transitions
  PROVE  Spec => FramesSpec
<1>1. Init => Unmoved /\ F!Init
  BY DEF Init, RouterInit, Unmoved, Known, F!Init, Inside, ServedBy, OpenOn, Up
<1>2. TypeOK /\ RegistryIsLive /\ RoomInv /\ RoomInv' /\ Unmoved /\ [Next]_vars
        => Unmoved' /\ [F!Next]_(F!vars)
  <2> SUFFICES ASSUME TypeOK, RegistryIsLive, RoomInv, RoomInv', Unmoved, [Next]_vars
               PROVE  Unmoved' /\ [F!Next]_(F!vars)
    OBVIOUS
  <2>1. ASSUME NEW p \in Peers, Signal(p) PROVE Unmoved' /\ [F!Next]_(F!vars)
    BY <2>1, SignalFrames
  <2>2. ASSUME NEW s \in Servers, LoseServer(s) PROVE FALSE
    BY <2>2, NoLoss
  <2>3. CASE UNCHANGED <<peers, rooms>>
    <3>1. Known' = Known
      BY <2>3 DEF Known
    <3> QED BY <2>3, <3>1, FramesKept
  <2> QED BY <2>1, <2>2, <2>3 DEF Next, vars, managerVars
<1>3. [Next]_vars => [LeavesInOrder]_vars
  <2>1. \A p \in Known : ~LeaveFrame(p)
    BY DEF LeaveFrame
  <2>2. LeavesInOrder
    BY <2>1 DEF LeavesInOrder
  <2> QED BY <2>2
<1>4. Spec => [][LeavesInOrder]_vars
  BY <1>3, PTL DEF Spec
<1>5. Spec => []RoomInv
  BY <1>4, RoomInvHolds, PTL
<1> QED BY <1>1, <1>2, <1>5, TypeCorrect, PTL DEF Spec, FramesSpec, F!Spec
=============================================================================
