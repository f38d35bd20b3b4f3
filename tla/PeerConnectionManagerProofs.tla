--------------------- MODULE PeerConnectionManagerProofs ---------------------
(***************************************************************************)
(* Theorems about peers, rooms and routes, for every set of clients, rooms *)
(* and media servers and every number of entries and losses.               *)
(***************************************************************************)
EXTENDS PeerConnectionManager, SignalRouterProofs, FiniteSetTheorems

(* What the actions have in common.                                        *)

LEMMA SelectedServers ==
  ASSUME TypeOK, RegistryIsLive, NEW m \in Modes, NEW p \in Peers,
         NEW s \in Selection(m, HomeOf[p])
  PROVE  s \in (Up \intersect OfMode(m)) \union {None, Throws}
<1>1. HomeOf[p] \in ClientRegions
  BY PeerAssumption
<1> QED BY <1>1, LiveSelection DEF TypeOK, RegistryInv

LEMMA RouteOfIsRoute ==
  ASSUME NEW route \in (SUBSET Servers) \union {None}, NEW m
  PROVE  /\ RouteOf(route, m) \subseteq Servers
         /\ RouteOf(route, m) \subseteq {s \in Servers : ModeOf[s] = m}
BY DEF RouteOf

LEMMA CardinalityOfPeers ==
  ASSUME NEW D \in SUBSET Peers
  PROVE  Cardinality(D) \in Nat
BY PeerAssumption, FS_Subset, FS_CardinalityType

LEMMA CountersAreTyped ==
  ASSUME ManagerTypeOK, NEW r \in Rooms
  PROVE  CountOf(r) \in Counter
<1>1. ZeroCount \in Counter
  BY DEF ZeroCount, Counter
<1> QED BY <1>1 DEF CountOf, ManagerTypeOK

LEMMA CountWithoutIsTyped ==
  ASSUME ManagerTypeOK, NEW r \in Rooms, peerCount[r] # None, NEW gone \in SUBSET Peers
  PROVE  CountWithout(r, gone) \in Counter
<1> DEFINE count == peerCount[r]
           some(flag) == {p \in gone : peers[p][flag]}
<1>1. count \in Counter
  BY DEF ManagerTypeOK
<1>2. /\ Cardinality(gone) \in Nat
      /\ Cardinality(some("isParticipant")) \in Nat
      /\ Cardinality(some("isSpectator")) \in Nat
      /\ Cardinality(some("isLobby")) \in Nat
  BY CardinalityOfPeers
<1>3. CountWithout(r, gone) =
        [count EXCEPT !.peerCount = @ - Cardinality(gone),
                      !.participantCount = @ - Cardinality(some("isParticipant")),
                      !.spectatorCount = @ - Cardinality(some("isSpectator")),
                      !.lobbyCount = FloorDec(@, Cardinality(some("isLobby")))]
  BY DEF CountWithout
<1> HIDE DEF count, some
<1>4. FloorDec(count.lobbyCount, Cardinality(some("isLobby"))) \in Nat
  BY <1>1, <1>2 DEF Counter, FloorDec
<1> DEFINE k == count.peerCount - Cardinality(gone)
           m == count.participantCount - Cardinality(some("isParticipant"))
           n == count.spectatorCount - Cardinality(some("isSpectator"))
           l == FloorDec(count.lobbyCount, Cardinality(some("isLobby")))
<1>5. k \in Int /\ m \in Int /\ n \in Int /\ l \in Nat
  BY <1>1, <1>2, <1>4 DEF Counter
<1>6. CountWithout(r, gone) =
        [count EXCEPT !.peerCount = k, !.participantCount = m,
                      !.spectatorCount = n, !.lobbyCount = l]
  BY <1>3
<1> HIDE DEF k, l, m, n
<1> QED BY <1>1, <1>5, <1>6 DEF Counter

(* A leaving or disconnected client's effect on the peers.                 *)
LEMMA PeersWithoutIsTyped ==
  ASSUME ManagerTypeOK, NEW D \in SUBSET Known
  PROVE  PeersWithout(D) \in [Peers -> PeerData \union {None}]
BY DEF PeersWithout, ManagerTypeOK

LEMMA CountsWithoutIsTyped ==
  ASSUME ManagerTypeOK, NEW D \in SUBSET Known, ~DisconnectThrows(D)
  PROVE  CountsWithout(D) \in [Rooms -> Counter \union {None}]
<1> SUFFICES ASSUME NEW r \in Rooms, r \notin Emptied(D),
                    PeersIn(r) \intersect Served(D) # {}
             PROVE  CountWithout(r, PeersIn(r) \intersect Served(D)) \in Counter
  BY DEF CountsWithout, ManagerTypeOK
<1>1. PICK p \in Served(D) : peers[p].room = r
  BY DEF PeersIn
<1>2. peerCount[r] # None
  BY <1>1 DEF DisconnectThrows
<1>3. PeersIn(r) \intersect Served(D) \in SUBSET Peers
  BY DEF PeersIn, Known
<1> QED BY <1>2, <1>3, CountWithoutIsTyped

LEMMA MapWithoutIsTyped ==
  ASSUME NEW V, NEW map \in [Rooms -> V \union {None}], NEW R
  PROVE  Without(map, R) \in [Rooms -> V \union {None}]
BY DEF Without

LEMMA GroupsWithoutIsTyped ==
  ASSUME ManagerTypeOK, NEW R
  PROVE  GroupsWithout(R) \in [Servers -> SUBSET Rooms]
BY DEF GroupsWithout, ManagerTypeOK

LEMMA DisconnectIsTyped ==
  ASSUME ManagerTypeOK, NEW p \in Peers, DisconnectPeerWebsocket(p)
  PROVE  /\ peers' \in [Peers -> PeerData \union {None}]
         /\ peerCount' \in [Rooms -> Counter \union {None}]
         /\ rooms' \in [Rooms -> (SUBSET Servers) \union {None}]
         /\ groups' \in [Servers -> SUBSET Rooms]
<1>1. CASE p \notin Known \/ DisconnectThrows({p})
  BY <1>1 DEF DisconnectPeerWebsocket, ManagerTypeOK
<1>2. CASE p \in Known /\ ~DisconnectThrows({p})
  <2>1. {p} \in SUBSET Known
    BY <1>2
  <2>2. /\ peers' = PeersWithout({p}) /\ peerCount' = CountsWithout({p})
        /\ rooms' = Without(rooms, Emptied({p})) /\ groups' = GroupsWithout(Emptied({p}))
    BY <1>2 DEF DisconnectPeerWebsocket
  <2>3. rooms' \in [Rooms -> (SUBSET Servers) \union {None}]
    BY <2>2, MapWithoutIsTyped DEF ManagerTypeOK
  <2> QED BY <1>2, <2>1, <2>2, <2>3, PeersWithoutIsTyped, CountsWithoutIsTyped,
             GroupsWithoutIsTyped
<1> QED BY <1>1, <1>2

-----------------------------------------------------------------------------
(* Type correctness, one lemma per action.                                 *)

LEMMA RegistryKept ==
  ASSUME RegistryInv, UNCHANGED routerVars
  PROVE  RegistryInv' /\ Up' = Up
<1>1. Up' = Up
  BY DEF routerVars, Up
<1> QED BY <1>1 DEF RegistryInv, RouterTypeOK, RegistryIsLive, routerVars, registryVars, pipeVars

LEMMA CreatePeerTyped ==
  ASSUME ManagerTypeOK, NEW p \in Peers, CreatePeer(p)
  PROVE  ManagerTypeOK'
<1>1. peers' \in [Peers -> PeerData \union {None}]
  <2>1. NewPeer \in PeerData
    BY DEF NewPeer, PeerData
  <2> QED BY <2>1 DEF CreatePeer, ManagerTypeOK
<1>2. client' \in [Peers -> ClientState]
  BY DEF CreatePeer, ManagerTypeOK, ClientState
<1> QED BY <1>1, <1>2 DEF CreatePeer, ManagerTypeOK

LEMMA EnterOnlyTyped ==
  ASSUME ManagerTypeOK, NEW p \in Known, NEW r \in Rooms, EnterOnly(p, r)
  PROVE  /\ peers' \in [Peers -> PeerData \union {None}]
         /\ groups' \in [Servers -> SUBSET Rooms]
         /\ invited' \in [Peers -> SUBSET Servers]
<1>1. p \in Peers /\ peers[p] \in PeerData
  BY DEF Known, ManagerTypeOK
<1>2. [peers[p] EXCEPT !.room = r] \in PeerData
  BY <1>1 DEF PeerData
<1>3. peers' \in [Peers -> PeerData \union {None}]
  BY <1>2 DEF EnterOnly, ManagerTypeOK
<1>4. groups' \in [Servers -> SUBSET Rooms]
  BY DEF EnterOnly, ManagerTypeOK
<1>5. invited' \in [Peers -> SUBSET Servers]
  BY DEF EnterOnly, ManagerTypeOK, Up
<1> QED BY <1>3, <1>4, <1>5

LEMMA EnterWithTyped ==
  ASSUME ManagerTypeOK, NEW p \in Known, NEW r \in Rooms,
         NEW i \in Servers, NEW e \in Servers, NEW m \in Servers \union {None},
         EnterWith(p, r, i, e, m)
  PROVE  /\ peers' \in [Peers -> PeerData \union {None}]
         /\ rooms' \in [Rooms -> (SUBSET Servers) \union {None}]
         /\ routingTable' \in [Rooms -> (SUBSET Servers) \union {None}]
         /\ groups' \in [Servers -> SUBSET Rooms]
         /\ invited' \in [Peers -> SUBSET Servers]
<1> DEFINE old == IF rooms[r] = None THEN {} ELSE rooms[r]
           route == old \union {i, e} \union ({m} \ {None})
           data == peers[p]
           new == [data EXCEPT !.room = r, !.ingress = i, !.egress = e,
                               !.movement = IF m = None THEN @ ELSE m]
<1>1. p \in Peers /\ data \in PeerData
  BY DEF Known, ManagerTypeOK
<1>2. new \in PeerData
  <2> HIDE DEF data
  <2>1. data.movement \in Servers \union {None}
    BY <1>1 DEF PeerData
  <2> QED BY <1>1, <2>1 DEF PeerData
<1>3. route \in SUBSET Servers
  BY DEF ManagerTypeOK
<1>4. peers' = [peers EXCEPT ![p] = new]
  BY <1>1 DEF EnterWith, ManagerTypeOK
<1>5. rooms' = [rooms EXCEPT ![r] = route] /\ routingTable' = [routingTable EXCEPT ![r] = route]
  BY DEF EnterWith
<1>6. groups' \in [Servers -> SUBSET Rooms]
  BY DEF EnterWith, ManagerTypeOK
<1>7. invited' \in [Peers -> SUBSET Servers]
  <2> DEFINE told == IF e \in old THEN {} ELSE ToldOfEgress(p, r, e)
  <2>1. invited' = [q \in Peers |->
           invited[q] \union (IF q = p THEN RouteOf(rooms[r], "egress") \intersect Up ELSE {})
                      \union (IF q \in told THEN {e} \intersect Up ELSE {})]
    BY DEF EnterWith
  <2>2. \A q \in Peers : invited[q] \subseteq Servers
    BY DEF ManagerTypeOK
  <2>3. Up \subseteq Servers
    BY DEF Up
  <2> HIDE DEF told
  <2> QED BY <2>1, <2>2, <2>3
<1> HIDE DEF new, route
<1> QED BY <1>2, <1>3, <1>4, <1>5, <1>6, <1>7 DEF ManagerTypeOK

LEMMA EnterFrameTyped ==
  ASSUME TypeOK, RegistryIsLive, NEW p \in Peers, NEW r \in Rooms, EnterFrame(p, r)
  PROVE  ManagerTypeOK'
<1> USE DEF TypeOK
<1>1. \A n \in {0, 1} : Entering(p, r, n) => client' \in [Peers -> ClientState]
  <2> SUFFICES ASSUME NEW n \in {0, 1}, Entering(p, r, n)
               PROVE  client' \in [Peers -> ClientState]
    OBVIOUS
  <2> DEFINE c == client[p]
  <2>1. c \in ClientState /\ c.entries < MaxEntries
    BY DEF ManagerTypeOK, EnterFrame
  <2>2. client' = [client EXCEPT ![p] = [c EXCEPT !.frame = r, !.entries = c.entries + 1,
                                                  !.replies = c.replies + n]]
    BY DEF Entering, ManagerTypeOK
  <2> HIDE DEF c
  <2>3. c.entries + 1 \in 0..MaxEntries /\ c.replies + n \in Nat
    BY <2>1, PeerAssumption DEF ClientState
  <2>4. [c EXCEPT !.frame = r, !.entries = c.entries + 1, !.replies = c.replies + n]
          \in ClientState
    BY <2>1, <2>3 DEF ClientState
  <2> QED BY <2>2, <2>4 DEF ManagerTypeOK
<1>2. CASE peers[p] = None
  BY <1>1, <1>2 DEF EnterFrame, ManagerTypeOK, managerVars
<1>3. CASE peers[p] # None
  <2>1. PICK i \in Selection("ingress", HomeOf[p]), e \in Selection("egress", HomeOf[p]),
             m \in Selection("movement", HomeOf[p]) :
          IF {i, e} \intersect {None, Throws} # {} \/ m = Throws
          THEN EnterOnly(p, r) /\ Entering(p, r, 0)
          ELSE EnterWith(p, r, i, e, m) /\ Entering(p, r, 1)
    BY <1>3 DEF EnterFrame
  <2>2. p \in Known
    BY <1>3 DEF Known
  <2>3. CASE EnterOnly(p, r) /\ Entering(p, r, 0)
    BY <1>1, <2>2, <2>3, EnterOnlyTyped DEF ManagerTypeOK, EnterOnly
  <2>4. CASE {i, e} \intersect {None, Throws} = {} /\ m # Throws
             /\ EnterWith(p, r, i, e, m) /\ Entering(p, r, 1)
    <3>1. i \in Servers /\ e \in Servers /\ m \in Servers \union {None}
      BY <2>4, SelectedServers DEF Modes, Up
    <3>2. /\ peers' \in [Peers -> PeerData \union {None}]
          /\ rooms' \in [Rooms -> (SUBSET Servers) \union {None}]
          /\ routingTable' \in [Rooms -> (SUBSET Servers) \union {None}]
          /\ groups' \in [Servers -> SUBSET Rooms]
          /\ invited' \in [Peers -> SUBSET Servers]
      BY <2>2, <2>4, <3>1, EnterWithTyped
    <3>3. peerCount' \in [Rooms -> Counter \union {None}]
      BY <2>4 DEF EnterWith, ManagerTypeOK
    <3> QED BY <1>1, <2>4, <3>2, <3>3 DEF ManagerTypeOK
  <2> QED BY <2>1, <2>3, <2>4
<1> QED BY <1>2, <1>3

LEMMA CreateIngressTransportTyped ==
  ASSUME TypeOK, NEW p \in Peers, CreateIngressTransport(p)
  PROVE  ManagerTypeOK'
<1> USE DEF TypeOK
<1> DEFINE data == peers[p]
           c == client[p]
<1>1. data \in PeerData \union {None} /\ c \in ClientState /\ c.replies > 0
  BY DEF ManagerTypeOK, CreateIngressTransport
<1>2. peerCount' \in [Rooms -> Counter \union {None}]
  <2>1. CASE data = None \/ data.room = None
    BY <2>1 DEF CreateIngressTransport, ManagerTypeOK
  <2>2. CASE data # None /\ data.room # None
    <3> DEFINE count == CountOf(data.room)
               l == count.lobbyCount + 1
               k == count.peerCount + 1
    <3>1. data.room \in Rooms
      BY <1>1, <2>2 DEF PeerData
    <3>2. count \in Counter
      BY <3>1, CountersAreTyped
    <3>3. peerCount' = [peerCount EXCEPT ![data.room] =
             [count EXCEPT !.lobbyCount = l, !.peerCount = k]]
      BY <2>2 DEF CreateIngressTransport
    <3> HIDE DEF count
    <3>4. l \in Nat /\ k \in Int
      BY <3>2 DEF Counter
    <3> HIDE DEF l, k
    <3>5. [count EXCEPT !.lobbyCount = l, !.peerCount = k] \in Counter
      BY <3>2, <3>4 DEF Counter
    <3> QED BY <3>3, <3>5 DEF ManagerTypeOK
  <2> QED BY <2>1, <2>2
<1>3. client' \in [Peers -> ClientState]
  <2> DEFINE made == data # None /\ data.ingress \in Up /\ data.room \in groups[data.ingress]
  <2>1. client' = [client EXCEPT ![p] =
           [c EXCEPT !.replies = c.replies - 1, !.ready = c.ready \/ made,
                     !.transport = c.transport \/ (made /\ c.frame # None),
                     !.sending = c.sending /\ ~made]]
    BY DEF CreateIngressTransport, ManagerTypeOK
  <2> HIDE DEF made, c
  <2>2. c.replies - 1 \in Nat
    BY <1>1 DEF ClientState
  <2>3. ASSUME NEW a \in BOOLEAN, NEW b \in BOOLEAN, NEW d \in BOOLEAN, NEW n \in Nat
        PROVE  [c EXCEPT !.replies = n, !.ready = a, !.transport = b, !.sending = d]
                 \in ClientState
    BY <1>1 DEF ClientState
  <2> DEFINE a == c.ready \/ made
             b == c.transport \/ (made /\ c.frame # None)
             d == c.sending /\ ~made
             n == c.replies - 1
  <2>4. a \in BOOLEAN /\ b \in BOOLEAN /\ d \in BOOLEAN /\ n \in Nat
    BY <2>2
  <2>5. client' = [client EXCEPT ![p] =
           [c EXCEPT !.replies = n, !.ready = a, !.transport = b, !.sending = d]]
    BY <2>1
  <2> HIDE DEF a, b, d, n
  <2>6. [c EXCEPT !.replies = n, !.ready = a, !.transport = b, !.sending = d] \in ClientState
    BY <2>3, <2>4
  <2> QED BY <2>5, <2>6 DEF ManagerTypeOK
<1> QED BY <1>2, <1>3 DEF CreateIngressTransport, ManagerTypeOK

LEMMA ConnectIngressTransportTyped ==
  ASSUME TypeOK, NEW p \in Peers, ConnectIngressTransport(p)
  PROVE  ManagerTypeOK'
<1> USE DEF TypeOK
<1> DEFINE data == peers[p]
<1>1. client' \in [Peers -> ClientState]
  <2> DEFINE c == client[p]
  <2>1. c \in ClientState /\ client' = [client EXCEPT ![p] = [c EXCEPT !.sending = TRUE]]
    BY DEF ConnectIngressTransport, ManagerTypeOK
  <2> HIDE DEF c
  <2>2. [c EXCEPT !.sending = TRUE] \in ClientState
    BY <2>1 DEF ClientState
  <2> QED BY <2>1, <2>2 DEF ManagerTypeOK
<1>2. CASE data = None \/ data.room = None
  BY <1>1, <1>2 DEF ConnectIngressTransport, ManagerTypeOK
<1>3. CASE data # None /\ data.room # None
  <2>1. data \in PeerData /\ data.room \in Rooms
    BY <1>3 DEF ManagerTypeOK, PeerData
  <2>2. peers' \in [Peers -> PeerData \union {None}]
    <3>1. peers' = [peers EXCEPT ![p] = [data EXCEPT !.isParticipant = TRUE]]
      BY <1>3 DEF ConnectIngressTransport, ManagerTypeOK
    <3> HIDE DEF data
    <3>2. [data EXCEPT !.isParticipant = TRUE] \in PeerData
      BY <2>1 DEF PeerData
    <3> QED BY <3>1, <3>2 DEF ManagerTypeOK
  <2>3. peerCount' \in [Rooms -> Counter \union {None}]
    <3>1. CASE peerCount[data.room] = None
      BY <1>3, <3>1 DEF ConnectIngressTransport, ManagerTypeOK
    <3>2. CASE peerCount[data.room] # None
      <4> DEFINE count == peerCount[data.room]
      <4>1. count \in Counter
        BY <2>1, <3>2 DEF ManagerTypeOK
      <4>2. peerCount' = [peerCount EXCEPT ![data.room] =
               [count EXCEPT !.participantCount = @ + 1]]
        BY <1>3, <2>1, <3>2 DEF ConnectIngressTransport, ManagerTypeOK
      <4> HIDE DEF count
      <4>3. [count EXCEPT !.participantCount = @ + 1] \in Counter
        BY <4>1 DEF Counter
      <4> QED BY <4>2, <4>3 DEF ManagerTypeOK
    <3> QED BY <3>1, <3>2
  <2> QED BY <1>1, <2>2, <2>3 DEF ConnectIngressTransport, ManagerTypeOK
<1> QED BY <1>2, <1>3

LEMMA GetRoomMovementTyped ==
  ASSUME TypeOK, NEW p \in Peers, NEW isSpectator \in BOOLEAN,
         GetRoomMovement(p, isSpectator)
  PROVE  ManagerTypeOK'
<1> USE DEF TypeOK
<1> DEFINE data == peers[p]
           r == data.room
           left == data # None /\ data.isLobby /\ r # None /\ peerCount[r] # None
<1>1. client' \in [Peers -> ClientState]
  <2> DEFINE c == client[p]
  <2>1. c \in ClientState /\ client' = [client EXCEPT ![p] = [c EXCEPT !.watching = TRUE]]
    BY DEF GetRoomMovement, ManagerTypeOK
  <2> HIDE DEF c
  <2>2. [c EXCEPT !.watching = TRUE] \in ClientState
    BY <2>1 DEF ClientState
  <2> QED BY <2>1, <2>2 DEF ManagerTypeOK
<1>2. CASE ~left
  BY <1>1, <1>2 DEF GetRoomMovement, ManagerTypeOK
<1>3. CASE left
  <2> DEFINE count == peerCount[r]
  <2>1. data \in PeerData /\ r \in Rooms /\ count \in Counter
    BY <1>3 DEF ManagerTypeOK, PeerData
  <2>2. peers' \in [Peers -> PeerData \union {None}]
    <3> DEFINE flag == data.isSpectator \/ isSpectator
    <3>1. peers' = [peers EXCEPT ![p] =
             [data EXCEPT !.isLobby = FALSE, !.isSpectator = flag]]
      BY <1>3 DEF GetRoomMovement, ManagerTypeOK
    <3>2. flag \in BOOLEAN
      OBVIOUS
    <3> HIDE DEF data, flag
    <3>3. [data EXCEPT !.isLobby = FALSE, !.isSpectator = flag] \in PeerData
      BY <2>1, <3>2 DEF PeerData
    <3> QED BY <3>1, <3>3 DEF ManagerTypeOK
  <2>3. peerCount' \in [Rooms -> Counter \union {None}]
    <3> DEFINE l == FloorDec(count.lobbyCount, 1)
               k == IF isSpectator THEN count.spectatorCount + 1 ELSE count.spectatorCount
    <3>1. peerCount' = [peerCount EXCEPT ![r] =
             [count EXCEPT !.lobbyCount = l, !.spectatorCount = k]]
      BY <1>3, <2>1 DEF GetRoomMovement, ManagerTypeOK
    <3>2. l \in Nat /\ k \in Int
      BY <2>1 DEF Counter, FloorDec
    <3> HIDE DEF count, l, k
    <3>3. [count EXCEPT !.lobbyCount = l, !.spectatorCount = k] \in Counter
      BY <2>1, <3>2 DEF Counter
    <3> QED BY <3>1, <3>3 DEF ManagerTypeOK
  <2> QED BY <1>1, <2>2, <2>3 DEF GetRoomMovement, ManagerTypeOK
<1> QED BY <1>2, <1>3

LEMMA GetRoomMetricsTyped ==
  ASSUME TypeOK, NEW p \in Peers, NEW names, GetRoomMetrics(p, names)
  PROVE  ManagerTypeOK'
BY CountersAreTyped DEF GetRoomMetrics, TypeOK, ManagerTypeOK

LEMMA LeaveFrameTyped ==
  ASSUME TypeOK, NEW p \in Peers, LeaveFrame(p)
  PROVE  ManagerTypeOK'
<1> USE DEF TypeOK
<1> DEFINE r == client[p].frame
           data == peers[p]
           c == client[p]
<1>1. c \in ClientState /\ r \in Rooms /\ LeaveRoom(p, r)
  BY DEF LeaveFrame, ManagerTypeOK, ClientState
<1>2. client' \in [Peers -> ClientState]
  <2>1. client' = [client EXCEPT ![p] =
           [c EXCEPT !.frame = None, !.transport = FALSE, !.sending = FALSE, !.watching = FALSE]]
    BY DEF LeaveFrame, ManagerTypeOK
  <2> HIDE DEF c
  <2>2. [c EXCEPT !.frame = None, !.transport = FALSE, !.sending = FALSE, !.watching = FALSE]
          \in ClientState
    BY <1>1 DEF ClientState
  <2> QED BY <2>1, <2>2 DEF ManagerTypeOK
<1>3. invited' \in [Peers -> SUBSET Servers] /\ UNCHANGED routingTable
  BY DEF LeaveFrame, ManagerTypeOK
<1> HIDE DEF r
<1>4. CASE data = None \/ rooms[r] = None \/ peerCount[r] = None
  BY <1>1, <1>2, <1>3, <1>4 DEF LeaveRoom, ManagerTypeOK
<1>5. CASE data # None /\ rooms[r] # None /\ peerCount[r] # None
  <2> DEFINE count == CountWithout(r, {p})
             close == count.participantCount = 0 /\ count.lobbyCount = 0
  <2>1. /\ peers' = [peers EXCEPT ![p] = [NewPeer EXCEPT !.movement = data.movement]]
        /\ peerCount' = [peerCount EXCEPT ![r] = IF close /\ data.room # None THEN None
                                                                             ELSE count]
        /\ rooms' = IF close THEN [rooms EXCEPT ![r] = None] ELSE rooms
        /\ groups' = IF close THEN GroupsWithout({data.room} \ {None}) ELSE groups
    BY <1>1, <1>5 DEF LeaveRoom
  <2>2. count \in Counter
    BY <1>1, <1>5, CountWithoutIsTyped
  <2>3. [NewPeer EXCEPT !.movement = data.movement] \in PeerData
    <3>1. data.movement \in Servers \union {None}
      BY <1>5 DEF ManagerTypeOK, PeerData
    <3> HIDE DEF data
    <3> QED BY <3>1 DEF NewPeer, PeerData
  <2>4. groups' \in [Servers -> SUBSET Rooms]
    BY <2>1, GroupsWithoutIsTyped DEF ManagerTypeOK
  <2> HIDE DEF count, close
  <2>5. peerCount' \in [Rooms -> Counter \union {None}]
    BY <2>1, <2>2 DEF ManagerTypeOK
  <2>6. peers' \in [Peers -> PeerData \union {None}]
    BY <2>1, <2>3 DEF ManagerTypeOK
  <2>7. rooms' \in [Rooms -> (SUBSET Servers) \union {None}]
    BY <2>1 DEF ManagerTypeOK
  <2> QED BY <1>2, <1>3, <2>4, <2>5, <2>6, <2>7 DEF ManagerTypeOK
<1> QED BY <1>4, <1>5

LEMMA ClosedClientTyped == [NewClient EXCEPT !.stage = "closed"] \in ClientState
<1>1. NewClient \in ClientState
  BY PeerAssumption DEF NewClient, ClientState
<1> QED BY <1>1 DEF ClientState

LEMMA CloseTabTyped ==
  ASSUME TypeOK, NEW p \in Peers, CloseTab(p)
  PROVE  ManagerTypeOK'
<1> USE DEF TypeOK
<1>2. client' \in [Peers -> ClientState]
  BY ClosedClientTyped DEF CloseTab, ManagerTypeOK
<1>3. invited' \in [Peers -> SUBSET Servers] /\ UNCHANGED routingTable
  BY DEF CloseTab, ManagerTypeOK
<1>4. DisconnectPeerWebsocket(p)
  BY DEF CloseTab
<1> QED BY <1>2, <1>3, <1>4, DisconnectIsTyped DEF ManagerTypeOK

LEMMA BootUserTyped ==
  ASSUME TypeOK, NEW p \in Peers, BootUser(p)
  PROVE  ManagerTypeOK'
<1> USE DEF TypeOK
<1>1. DisconnectPeerWebsocket(p)
  BY DEF BootUser
<1>2. UNCHANGED <<routingTable, invited, client>>
  BY DEF BootUser
<1> QED BY <1>1, <1>2, DisconnectIsTyped DEF ManagerTypeOK

LEMMA LoseServerTyped ==
  ASSUME TypeOK, NEW s \in Servers, LoseServer(s)
  PROVE  ManagerTypeOK'
<1> USE DEF TypeOK
<1> DEFINE D == PeersOn(s)
<1>1. CASE DisconnectThrows(D) \/ DeregisterThrows(s)
  BY <1>1 DEF LoseServer, ManagerTypeOK, managerVars
<1>2. CASE ~(DisconnectThrows(D) \/ DeregisterThrows(s))
  <2>1. D \in SUBSET Known
    BY DEF PeersOn
  <2>2. /\ peers' = PeersWithout(D)
        /\ peerCount' = CountsWithout(D)
        /\ rooms' = Without(rooms, Emptied(D) \union RoomsOn(s))
        /\ routingTable' = Without(routingTable, RoutedOn(s))
        /\ groups' = [GroupsWithout(Emptied(D)) EXCEPT ![s] = {}]
        /\ UNCHANGED invited /\ UNCHANGED client
    BY <1>2 DEF LoseServer
  <2> HIDE DEF D
  <2>3. rooms' \in [Rooms -> (SUBSET Servers) \union {None}]
    BY <2>2, MapWithoutIsTyped DEF ManagerTypeOK
  <2>4. routingTable' \in [Rooms -> (SUBSET Servers) \union {None}]
    BY <2>2, MapWithoutIsTyped DEF ManagerTypeOK
  <2>5. groups' \in [Servers -> SUBSET Rooms]
    BY <2>2, GroupsWithoutIsTyped
  <2>6. peers' \in [Peers -> PeerData \union {None}]
    BY <2>1, <2>2, PeersWithoutIsTyped
  <2>7. peerCount' \in [Rooms -> Counter \union {None}]
    BY <1>2, <2>1, <2>2, CountsWithoutIsTyped
  <2> QED BY <2>2, <2>3, <2>4, <2>5, <2>6, <2>7 DEF ManagerTypeOK
<1> QED BY <1>1, <1>2

(* The registry's part of a step: signals leave it alone, the registry's    *)
(* own steps and the loss of a server preserve its invariant.              *)
LEMMA RegistryStep ==
  ASSUME RegistryInv, Registry
  PROVE  RegistryInv' /\ Up \subseteq Up'
<1>1. RegistryInv'
  BY RegisterPreserves, ServerLoadPreserves DEF Registry
<1>2. ASSUME NEW s \in Servers, Register(s) PROVE Up \subseteq Up'
  BY <1>2 DEF Register, RegistryInv, RouterTypeOK, Up
<1>3. ASSUME NEW s \in Servers, NEW l \in Loads, ServerLoad(s, l) PROVE Up \subseteq Up'
  BY <1>3 DEF ServerLoad, Up
<1> QED BY <1>1, <1>2, <1>3 DEF Registry

LEMMA SignalKeepsRegistry ==
  ASSUME NEW p \in Peers, Signal(p)
  PROVE  UNCHANGED routerVars
BY DEF Signal, CreatePeer, EnterFrame, GetRoomMetrics, CreateIngressTransport,
       ConnectIngressTransport, GetRoomMovement, LeaveFrame, CloseTab, BootUser

LEMMA LoseServerStep ==
  ASSUME RegistryInv, NEW s \in Servers, LoseServer(s)
  PROVE  RegistryInv'
BY DeregisterPreserves, CrashPreserves DEF LoseServer

LEMMA SignalTyped ==
  ASSUME TypeOK, RegistryIsLive, NEW p \in Peers, Signal(p)
  PROVE  ManagerTypeOK'
BY CreatePeerTyped, EnterFrameTyped, GetRoomMetricsTyped, CreateIngressTransportTyped,
   ConnectIngressTransportTyped, GetRoomMovementTyped, LeaveFrameTyped, CloseTabTyped,
   BootUserTyped DEF Signal, TypeOK

(* Every variable of the manager, the registry and the clients keeps its    *)
(* type: in particular lobbyCount never goes below zero, and a selection   *)
(* never puts undefined into a peer's data or a route.                     *)
THEOREM TypeCorrect == Spec => [](TypeOK /\ RegistryIsLive)
<1>1. Init => TypeOK /\ RegistryIsLive
  <2> SUFFICES ASSUME Init PROVE TypeOK /\ RegistryIsLive
    OBVIOUS
  <2>1. NewClient \in ClientState
    BY PeerAssumption DEF NewClient, ClientState
  <2>2. ManagerTypeOK
    BY <2>1 DEF Init, ManagerTypeOK
  <2>3. RegistryInv
    BY RouterInitRegistry DEF Init
  <2> QED BY <2>2, <2>3 DEF TypeOK, RegistryInv
<1>2. TypeOK /\ RegistryIsLive /\ [Next]_vars => TypeOK' /\ RegistryIsLive'
  <2> SUFFICES ASSUME TypeOK, RegistryIsLive, [Next]_vars
               PROVE  RegistryInv' /\ ManagerTypeOK'
    BY DEF TypeOK, RegistryInv
  <2>0. RegistryInv
    BY DEF TypeOK, RegistryInv
  <2>1. CASE Registry /\ UNCHANGED <<managerVars, client>>
    BY <2>0, <2>1, RegistryStep DEF TypeOK, ManagerTypeOK, managerVars
  <2>2. ASSUME NEW p \in Peers, Signal(p) PROVE RegistryInv' /\ ManagerTypeOK'
    BY <2>0, <2>2, SignalTyped, SignalKeepsRegistry, RegistryKept
  <2>3. ASSUME NEW s \in Servers, LoseServer(s) PROVE RegistryInv' /\ ManagerTypeOK'
    BY <2>0, <2>3, LoseServerStep, LoseServerTyped
  <2>4. CASE UNCHANGED vars
    <3>1. UNCHANGED routerVars /\ UNCHANGED <<managerVars, client>>
      BY <2>4 DEF vars
    <3> QED BY <2>0, <3>1, RegistryKept DEF TypeOK, ManagerTypeOK, managerVars
  <2> QED BY <2>1, <2>2, <2>3, <2>4 DEF Next
<1> QED BY <1>1, <1>2, PTL DEF Spec

-----------------------------------------------------------------------------
(* Nobody and nothing stays on a media server that has gone.               *)
LiveInv == NoPeerOnLostServer /\ NoRouteOnLostServer /\ Placed

(* Every action but the loss of a server leaves each peer as it was, takes  *)
(* it away, takes it out of its room, or keeps its servers and its room.   *)
LEMMA LiveKept ==
  ASSUME TypeOK, LiveInv, Up \subseteq Up',
         \A p \in Known' :
           \/ peers'[p].ingress = None /\ peers'[p].egress = None
           \/ /\ p \in Known
              /\ peers'[p].ingress = peers[p].ingress
              /\ peers'[p].egress = peers[p].egress
              /\ peers'[p].room # None \/ peers'[p].room = peers[p].room,
         \A r \in Rooms : rooms'[r] \in {None, rooms[r]},
         UNCHANGED routingTable
  PROVE  LiveInv'
<1>1. NoPeerOnLostServer'
  BY DEF LiveInv, NoPeerOnLostServer
<1>2. NoRouteOnLostServer'
  <2> SUFFICES ASSUME NEW r \in Rooms, NEW m \in {"ingress", "egress"}
               PROVE  RouteOf(rooms'[r], m) \union RouteOf(routingTable'[r], m) \subseteq Up'
    BY DEF NoRouteOnLostServer, RouteOf
  <2>1. RouteOf(rooms[r], m) \union RouteOf(routingTable[r], m) \subseteq Up
    BY DEF LiveInv, NoRouteOnLostServer
  <2>2. RouteOf(None, m) = {}
    BY DEF RouteOf
  <2> QED BY <2>1, <2>2
<1>3. Placed'
  BY DEF LiveInv, Placed
<1> QED BY <1>1, <1>2, <1>3 DEF LiveInv

LEMMA EnterFrameLive ==
  ASSUME TypeOK, RegistryIsLive, LiveInv, NEW p \in Peers, NEW r \in Rooms, EnterFrame(p, r)
  PROVE  LiveInv'
<1>0. Up' = Up /\ r # None
  BY PeerAssumption DEF EnterFrame, routerVars, Up
<1>1. CASE peers[p] = None
  BY <1>0, <1>1, LiveKept DEF EnterFrame, managerVars, Known, LiveInv, Placed
<1>2. CASE peers[p] # None
  <2>1. PICK i \in Selection("ingress", HomeOf[p]), e \in Selection("egress", HomeOf[p]),
             m \in Selection("movement", HomeOf[p]) :
          IF {i, e} \intersect {None, Throws} # {} \/ m = Throws
          THEN EnterOnly(p, r) /\ Entering(p, r, 0)
          ELSE EnterWith(p, r, i, e, m) /\ Entering(p, r, 1)
    BY <1>2 DEF EnterFrame
  <2>2. p \in Known /\ peers[p] \in PeerData
    BY <1>2 DEF Known, TypeOK, ManagerTypeOK
  <2>3. CASE EnterOnly(p, r)
    <3>1. \A q \in Peers : peers'[q] = IF q = p THEN [peers[p] EXCEPT !.room = r] ELSE peers[q]
      BY <2>3 DEF EnterOnly, TypeOK, ManagerTypeOK
    <3>2. ASSUME NEW q \in Known'
          PROVE  /\ q \in Known
                 /\ peers'[q].ingress = peers[q].ingress
                 /\ peers'[q].egress = peers[q].egress
                 /\ peers'[q].room # None \/ peers'[q].room = peers[q].room
      <4>1. CASE q = p
        BY <1>0, <2>2, <3>1, <4>1 DEF PeerData
      <4>2. CASE q # p
        BY <3>1, <4>2 DEF Known
      <4> QED BY <4>1, <4>2
    <3> QED BY <1>0, <2>3, <3>2, LiveKept DEF EnterOnly
  <2>4. CASE {i, e} \intersect {None, Throws} = {} /\ m # Throws /\ EnterWith(p, r, i, e, m)
    <3> DEFINE old == IF rooms[r] = None THEN {} ELSE rooms[r]
               route == old \union {i, e} \union ({m} \ {None})
               new == [peers[p] EXCEPT !.room = r, !.ingress = i, !.egress = e,
                                       !.movement = IF m = None THEN @ ELSE m]
    <3>1. i \in Up /\ e \in Up /\ m \in Up \union {None}
      BY <2>4, SelectedServers DEF Modes
    <3>2. \A q \in Peers : peers'[q] = IF q = p THEN new ELSE peers[q]
      BY <2>4 DEF EnterWith, TypeOK, ManagerTypeOK
    <3>3. new.room = r /\ new.ingress = i /\ new.egress = e
      BY <2>2 DEF PeerData
    <3>4. \A q \in Rooms : /\ rooms'[q] = IF q = r THEN route ELSE rooms[q]
                           /\ routingTable'[q] = IF q = r THEN route ELSE routingTable[q]
      BY <2>4 DEF EnterWith, TypeOK, ManagerTypeOK
    <3> HIDE DEF new
    <3>5. NoPeerOnLostServer'
      <4> SUFFICES ASSUME NEW q \in Known'
                   PROVE  {peers'[q].ingress, peers'[q].egress} \subseteq Up' \union {None}
        BY DEF NoPeerOnLostServer
      <4>1. CASE q = p
        BY <1>0, <3>1, <3>2, <3>3, <4>1 DEF Known
      <4>2. CASE q # p
        BY <1>0, <3>2, <4>2 DEF Known, LiveInv, NoPeerOnLostServer
      <4> QED BY <4>1, <4>2
    <3>6. NoRouteOnLostServer'
      <4> SUFFICES ASSUME NEW q \in Rooms, NEW k \in {"ingress", "egress"}
                   PROVE  RouteOf(rooms'[q], k) \union RouteOf(routingTable'[q], k) \subseteq Up'
        BY DEF NoRouteOnLostServer, RouteOf
      <4>1. RouteOf(rooms[q], k) \union RouteOf(routingTable[q], k) \subseteq Up
        BY DEF LiveInv, NoRouteOnLostServer
      <4>2. CASE q = r
        <5>1. RouteOf(route, k) \subseteq RouteOf(rooms[r], k) \union Up
          BY <3>1 DEF RouteOf
        <5> HIDE DEF route
        <5> QED BY <1>0, <3>4, <4>1, <4>2, <5>1
      <4>3. CASE q # r
        BY <1>0, <3>4, <4>1, <4>3
      <4> QED BY <4>2, <4>3
    <3>7. Placed'
      <4> SUFFICES ASSUME NEW q \in Known', peers'[q].room = None
                   PROVE  peers'[q].ingress = None /\ peers'[q].egress = None
        BY DEF Placed
      <4>1. q # p
        BY <1>0, <3>2, <3>3 DEF Known
      <4> QED BY <3>2, <4>1 DEF Known, LiveInv, Placed
    <3> QED BY <3>5, <3>6, <3>7 DEF LiveInv
  <2> QED BY <2>1, <2>3, <2>4
<1> QED BY <1>1, <1>2

LEMMA DisconnectLive ==
  ASSUME TypeOK, LiveInv, NEW p \in Peers, DisconnectPeerWebsocket(p),
         UNCHANGED <<link, routingTable>>
  PROVE  LiveInv'
<1>1. Up' = Up
  BY DEF Up
<1>2. \A q \in Peers : peers'[q] \in {None, peers[q]}
  BY DEF DisconnectPeerWebsocket, PeersWithout, TypeOK, ManagerTypeOK
<1>3. \A r \in Rooms : rooms'[r] \in {None, rooms[r]}
  BY DEF DisconnectPeerWebsocket, Without, TypeOK, ManagerTypeOK
<1>4. \A q \in Known' : q \in Known /\ peers'[q] = peers[q]
  BY <1>2 DEF Known
<1> QED BY <1>1, <1>3, <1>4, LiveKept

LEMMA LeaveFrameLive ==
  ASSUME TypeOK, LiveInv, NEW p \in Peers, LeaveFrame(p)
  PROVE  LiveInv'
<1> DEFINE r == client[p].frame
           out == [NewPeer EXCEPT !.movement = peers[p].movement]
<1>1. LeaveRoom(p, r) /\ Up' = Up /\ UNCHANGED routingTable
  BY DEF LeaveFrame, routerVars, Up
<1> HIDE DEF r
<1>2. \A q \in Peers : peers'[q] = peers[q] \/ peers'[q] = out
  BY <1>1 DEF LeaveRoom, TypeOK, ManagerTypeOK
<1>3. out.ingress = None /\ out.egress = None
  BY DEF NewPeer
<1> HIDE DEF out
<1>4. \A q \in Rooms : rooms'[q] \in {None, rooms[q]}
  BY <1>1 DEF LeaveRoom, TypeOK, ManagerTypeOK
<1>5. \A q \in Known' :
        \/ peers'[q].ingress = None /\ peers'[q].egress = None
        \/ q \in Known /\ peers'[q] = peers[q]
  BY <1>2, <1>3 DEF Known
<1> QED BY <1>1, <1>4, <1>5, LiveKept

LEMMA SignalLive ==
  ASSUME TypeOK, RegistryIsLive, LiveInv, NEW p \in Peers, Signal(p)
  PROVE  LiveInv'
<1>0. Up' = Up
  BY SignalKeepsRegistry DEF routerVars, Up
<1>1. CASE CreatePeer(p)
  <2>1. \A q \in Peers : peers'[q] = peers[q] \/ peers'[q] = NewPeer
    BY <1>1 DEF CreatePeer, TypeOK, ManagerTypeOK
  <2>2. NewPeer.ingress = None /\ NewPeer.egress = None
    BY DEF NewPeer
  <2> QED BY <1>0, <1>1, <2>1, <2>2, LiveKept DEF CreatePeer, Known
<1>2. ASSUME NEW r \in Rooms, EnterFrame(p, r) PROVE LiveInv'
  BY <1>2, EnterFrameLive
<1>3. ASSUME NEW names, GetRoomMetrics(p, names) PROVE LiveInv'
  BY <1>0, <1>3, LiveKept DEF GetRoomMetrics, Known
<1>4. CASE CreateIngressTransport(p)
  BY <1>0, <1>4, LiveKept DEF CreateIngressTransport, Known
<1>5. CASE ConnectIngressTransport(p)
  <2>1. \A q \in Known' : /\ q \in Known
                          /\ peers'[q].ingress = peers[q].ingress
                          /\ peers'[q].egress = peers[q].egress
                          /\ peers'[q].room = peers[q].room
    <3> SUFFICES ASSUME NEW q \in Known'
                 PROVE  /\ q \in Known
                        /\ peers'[q].ingress = peers[q].ingress
                        /\ peers'[q].egress = peers[q].egress
                        /\ peers'[q].room = peers[q].room
      OBVIOUS
    <3>1. CASE peers'[q] = peers[q]
      BY <3>1 DEF Known
    <3>2. CASE peers'[q] # peers[q]
      <4> DEFINE data == peers[p]
      <4>1. q = p /\ data # None /\ peers'[p] = [data EXCEPT !.isParticipant = TRUE]
        BY <1>5, <3>2 DEF ConnectIngressTransport, TypeOK, ManagerTypeOK, Known
      <4>2. data \in PeerData
        BY <4>1 DEF TypeOK, ManagerTypeOK
      <4> HIDE DEF data
      <4>3. /\ peers'[p].ingress = data.ingress /\ peers'[p].egress = data.egress
            /\ peers'[p].room = data.room
        BY <4>1, <4>2 DEF PeerData
      <4> QED BY <4>1, <4>3 DEF data, Known
    <3> QED BY <3>1, <3>2
  <2> QED BY <1>0, <1>5, <2>1, LiveKept DEF ConnectIngressTransport
<1>6. ASSUME NEW isSpectator \in BOOLEAN, GetRoomMovement(p, isSpectator) PROVE LiveInv'
  <2>1. \A q \in Known' : /\ q \in Known
                          /\ peers'[q].ingress = peers[q].ingress
                          /\ peers'[q].egress = peers[q].egress
                          /\ peers'[q].room = peers[q].room
    <3> SUFFICES ASSUME NEW q \in Known'
                 PROVE  /\ q \in Known
                        /\ peers'[q].ingress = peers[q].ingress
                        /\ peers'[q].egress = peers[q].egress
                        /\ peers'[q].room = peers[q].room
      OBVIOUS
    <3>1. CASE peers'[q] = peers[q]
      BY <3>1 DEF Known
    <3>2. CASE peers'[q] # peers[q]
      <4> DEFINE data == peers[p]
                 flag == data.isSpectator \/ isSpectator
      <4>1. q = p /\ data # None
            /\ peers'[p] = [data EXCEPT !.isLobby = FALSE, !.isSpectator = flag]
        BY <1>6, <3>2 DEF GetRoomMovement, TypeOK, ManagerTypeOK, Known
      <4>2. data \in PeerData
        BY <4>1 DEF TypeOK, ManagerTypeOK
      <4> HIDE DEF data, flag
      <4>3. /\ peers'[p].ingress = data.ingress /\ peers'[p].egress = data.egress
            /\ peers'[p].room = data.room
        BY <4>1, <4>2 DEF PeerData
      <4> QED BY <4>1, <4>3 DEF data, Known
    <3> QED BY <3>1, <3>2
  <2> QED BY <1>0, <1>6, <2>1, LiveKept DEF GetRoomMovement
<1>7. CASE LeaveFrame(p)
  BY <1>7, LeaveFrameLive
<1>8. CASE CloseTab(p)
  BY <1>8, DisconnectLive DEF CloseTab, routerVars
<1>9. CASE BootUser(p)
  BY <1>9, DisconnectLive DEF BootUser, routerVars
<1> QED BY <1>1, <1>2, <1>3, <1>4, <1>5, <1>6, <1>7, <1>8, <1>9 DEF Signal

LEMMA LoseServerLive ==
  ASSUME TypeOK, RegistryIsLive, LiveInv, NEW s \in Servers, LoseServer(s)
  PROVE  LiveInv'
<1> DEFINE D == PeersOn(s)
<1>1. CASE DisconnectThrows(D) \/ DeregisterThrows(s)
  <2>1. UNCHANGED managerVars /\ Up' = Up
    BY <1>1 DEF LoseServer, Crash, Up
  <2> QED BY <2>1, LiveKept DEF managerVars, Known
<1>2. CASE ~(DisconnectThrows(D) \/ DeregisterThrows(s))
  <2>1. /\ peers' = PeersWithout(D)
        /\ rooms' = Without(rooms, Emptied(D) \union RoomsOn(s))
        /\ routingTable' = Without(routingTable, RoutedOn(s))
    BY <1>2 DEF LoseServer
  <2>2. Up' = Up \ {s} /\ s # None
    BY <1>2, DeregisterPreserves, ServerAssumption DEF LoseServer, TypeOK, RegistryInv
  <2>3. \A q \in Known' : q \in Known /\ peers'[q] = peers[q] /\ q \notin InRoom(D)
    BY <2>1 DEF PeersWithout, Known
  <2>4. ASSUME NEW q \in Known' PROVE q \notin D
    BY <2>2, <2>3 DEF PeersOn, InRoom, LiveInv, Placed
  <2>5. NoPeerOnLostServer'
    BY <2>2, <2>3, <2>4 DEF LiveInv, NoPeerOnLostServer, PeersOn
  <2>6. NoRouteOnLostServer'
    <3> SUFFICES ASSUME NEW r \in Rooms, NEW m \in {"ingress", "egress"}
                 PROVE  RouteOf(rooms'[r], m) \union RouteOf(routingTable'[r], m) \subseteq Up'
      BY DEF NoRouteOnLostServer, RouteOf
    <3>1. RouteOf(rooms[r], m) \union RouteOf(routingTable[r], m) \subseteq Up
      BY DEF LiveInv, NoRouteOnLostServer
    <3>2. s \notin RouteOf(rooms'[r], m)
      BY <2>1 DEF Without, RoomsOn, RouteOf
    <3>3. s \notin RouteOf(routingTable'[r], m)
      BY <2>1 DEF Without, RoutedOn, RouteOf
    <3>4. /\ RouteOf(rooms'[r], m) \subseteq RouteOf(rooms[r], m)
          /\ RouteOf(routingTable'[r], m) \subseteq RouteOf(routingTable[r], m)
      BY <2>1 DEF Without, RouteOf
    <3> QED BY <2>2, <3>1, <3>2, <3>3, <3>4
  <2>7. Placed'
    BY <2>3 DEF LiveInv, Placed
  <2> QED BY <2>5, <2>6, <2>7 DEF LiveInv
<1> QED BY <1>1, <1>2

(* dropRoute and the close handler leave neither a peer nor a route on the  *)
(* media server that has gone, and no later signal brings one back: a      *)
(* selection never returns it, and a peer's data only ever gets a          *)
(* selection.  This holds with any number of clients changing rooms.       *)
THEOREM NothingOnLostServers == Spec => [](NoPeerOnLostServer /\ NoRouteOnLostServer)
<1>1. Init => LiveInv
  BY DEF Init, LiveInv, NoPeerOnLostServer, NoRouteOnLostServer, Placed, Known, RouteOf
<1>2. TypeOK /\ RegistryIsLive /\ LiveInv /\ [Next]_vars => LiveInv'
  <2> SUFFICES ASSUME TypeOK, RegistryIsLive, LiveInv, [Next]_vars PROVE LiveInv'
    OBVIOUS
  <2>0. RegistryInv
    BY DEF TypeOK, RegistryInv
  <2>1. CASE Registry /\ UNCHANGED <<managerVars, client>>
    BY <2>0, <2>1, RegistryStep, LiveKept DEF managerVars, Known
  <2>2. ASSUME NEW p \in Peers, Signal(p) PROVE LiveInv'
    BY <2>2, SignalLive
  <2>3. ASSUME NEW s \in Servers, LoseServer(s) PROVE LiveInv'
    BY <2>3, LoseServerLive
  <2>4. CASE UNCHANGED vars
    <3>1. Up' = Up
      BY <2>4 DEF vars, routerVars, Up
    <3> QED BY <2>4, <3>1, LiveKept DEF vars, managerVars, Known
  <2> QED BY <2>1, <2>2, <2>3, <2>4 DEF Next
<1>3. LiveInv => NoPeerOnLostServer /\ NoRouteOnLostServer
  BY DEF LiveInv
<1> QED BY <1>1, <1>2, <1>3, TypeCorrect, PTL DEF Spec

-----------------------------------------------------------------------------
(* The two tables of rooms.                                                *)

LEMMA RoutesKept ==
  ASSUME RoutesAgree, \A r \in Rooms : rooms'[r] \in {None, rooms[r]}, UNCHANGED routingTable
  PROVE  RoutesAgree'
BY DEF RoutesAgree

LEMMA SignalRoutes ==
  ASSUME TypeOK, RoutesAgree, NEW p \in Peers, Signal(p)
  PROVE  RoutesAgree'
<1>1. ASSUME NEW r \in Rooms, EnterFrame(p, r) PROVE RoutesAgree'
  <2>1. CASE UNCHANGED <<rooms, routingTable>>
    BY <2>1, RoutesKept
  <2>2. ASSUME NEW i, NEW e, NEW m, EnterWith(p, r, i, e, m) PROVE RoutesAgree'
    <3> DEFINE route == (IF rooms[r] = None THEN {} ELSE rooms[r])
                          \union {i, e} \union ({m} \ {None})
    <3>1. \A q \in Rooms : /\ rooms'[q] = IF q = r THEN route ELSE rooms[q]
                           /\ routingTable'[q] = IF q = r THEN route ELSE routingTable[q]
      BY <2>2 DEF EnterWith, TypeOK, ManagerTypeOK
    <3> HIDE DEF route
    <3> QED BY <3>1 DEF RoutesAgree
  <2> QED BY <1>1, <2>1, <2>2 DEF EnterFrame, EnterOnly, managerVars
<1>2. CASE LeaveFrame(p)
  <2>1. \A r \in Rooms : rooms'[r] \in {None, rooms[r]}
    BY <1>2 DEF LeaveFrame, LeaveRoom, TypeOK, ManagerTypeOK
  <2> QED BY <1>2, <2>1, RoutesKept DEF LeaveFrame
<1>3. CASE DisconnectPeerWebsocket(p) /\ UNCHANGED routingTable
  <2>1. \A r \in Rooms : rooms'[r] \in {None, rooms[r]}
    BY <1>3 DEF DisconnectPeerWebsocket, Without, TypeOK, ManagerTypeOK
  <2> QED BY <1>3, <2>1, RoutesKept
<1>4. CASE UNCHANGED <<rooms, routingTable>>
  BY <1>4, RoutesKept
<1> QED BY <1>1, <1>2, <1>3, <1>4
        DEF Signal, CreatePeer, GetRoomMetrics, CreateIngressTransport,
            ConnectIngressTransport, GetRoomMovement, CloseTab, BootUser

(* Without movement servers, the loss of a server takes the same rooms out  *)
(* of the manager's table (dropRoute) and of the router's (close handler), *)
(* and nothing else ever makes them differ.  With a movement server they   *)
(* do: its close handler deletes the router's entry and dropRoute, which   *)
(* looks at ingress and egress servers, keeps the room.                    *)
THEOREM RoutesStayEqual ==
  ASSUME OfMode("movement") = {}
  PROVE  Spec => []RoutesAgree
<1>1. Init => RoutesAgree
  BY DEF Init, RoutesAgree
<1>2. TypeOK /\ RoutesAgree /\ [Next]_vars => RoutesAgree'
  <2> SUFFICES ASSUME TypeOK, RoutesAgree, [Next]_vars PROVE RoutesAgree'
    OBVIOUS
  <2>1. CASE Registry /\ UNCHANGED <<managerVars, client>>
    BY <2>1, RoutesKept DEF managerVars
  <2>2. ASSUME NEW p \in Peers, Signal(p) PROVE RoutesAgree'
    BY <2>2, SignalRoutes
  <2>3. ASSUME NEW s \in Servers, LoseServer(s) PROVE RoutesAgree'
    <3>1. CASE UNCHANGED <<rooms, routingTable>>
      BY <3>1, RoutesKept
    <3>2. CASE /\ rooms' = Without(rooms, Emptied(PeersOn(s)) \union RoomsOn(s))
               /\ routingTable' = Without(routingTable, RoutedOn(s))
      <4> SUFFICES ASSUME NEW r \in Rooms, rooms'[r] # None
                   PROVE  routingTable'[r] = rooms'[r]
        BY DEF RoutesAgree
      <4>1. rooms'[r] = rooms[r] /\ r \notin RoomsOn(s) /\ rooms[r] # None
        BY <3>2 DEF Without
      <4>2. routingTable[r] = rooms[r]
        BY <4>1 DEF RoutesAgree
      <4>3. ModeOf[s] \in {"ingress", "egress"}
        BY ServerAssumption DEF OfMode, Modes
      <4>4. s \notin rooms[r]
        BY <4>1, <4>3 DEF RoomsOn, RouteOf
      <4>5. r \notin RoutedOn(s)
        BY <4>2, <4>4 DEF RoutedOn
      <4> QED BY <3>2, <4>1, <4>2, <4>5 DEF Without
    <3> QED BY <2>3, <3>1, <3>2 DEF LoseServer, managerVars
  <2>4. CASE UNCHANGED vars
    BY <2>4, RoutesKept DEF vars, managerVars
  <2> QED BY <2>1, <2>2, <2>3, <2>4 DEF Next
<1> QED BY <1>1, <1>2, TypeCorrect, PTL DEF Spec

-----------------------------------------------------------------------------
(* The client's frame and the peer's room.                                 *)
FrameInv == RoomIsFrame /\ OfflineOutside

LEMMA FrameKept ==
  ASSUME FrameInv,
         \A p \in Known' : p \in Known /\ peers'[p].room = peers[p].room,
         \A p \in Peers : /\ client'[p].stage = client[p].stage
                          /\ client'[p].frame = client[p].frame
  PROVE  FrameInv'
<1>1. RoomIsFrame'
  BY DEF FrameInv, RoomIsFrame, Known
<1>2. OfflineOutside'
  BY DEF FrameInv, OfflineOutside
<1> QED BY <1>1, <1>2 DEF FrameInv

(* A step that changes one client's record and, at most, that client's     *)
(* peer, and leaves the two consistent.                                    *)
LEMMA FrameMoved ==
  ASSUME FrameInv, NEW p \in Peers,
         \A q \in Peers \ {p} : client'[q] = client[q]
                                /\ (peers'[q] = peers[q] \/ peers'[q] = None),
         \/ client'[p].frame = None
         \/ client'[p].stage # "offline" /\ (p \in Known' => peers'[p].room = client'[p].frame)
  PROVE  FrameInv'
<1>1. RoomIsFrame'
  <2> SUFFICES ASSUME NEW q \in Known', client'[q].stage = "online", client'[q].frame # None
               PROVE  peers'[q].room = client'[q].frame
    BY DEF RoomIsFrame
  <2>1. CASE q = p
    BY <2>1
  <2>2. CASE q # p
    BY <2>2 DEF Known, FrameInv, RoomIsFrame
  <2> QED BY <2>1, <2>2
<1>2. OfflineOutside'
  BY DEF FrameInv, OfflineOutside
<1> QED BY <1>1, <1>2 DEF FrameInv

LEMMA EnterFrameFrame ==
  ASSUME TypeOK, FrameInv, NEW p \in Peers, NEW r \in Rooms, EnterFrame(p, r)
  PROVE  FrameInv'
<1>1. ASSUME NEW n, Entering(p, r, n)
      PROVE  /\ client'[p].frame = r /\ client'[p].stage = "online"
             /\ \A q \in Peers \ {p} : client'[q] = client[q]
  <2> DEFINE c == client[p]
  <2>1. c \in ClientState /\ c.stage = "online"
    BY DEF EnterFrame, Online, TypeOK, ManagerTypeOK
  <2>2. client'[p] = [c EXCEPT !.frame = r, !.entries = @ + 1, !.replies = @ + n]
    BY <1>1 DEF Entering, TypeOK, ManagerTypeOK
  <2> HIDE DEF c
  <2>3. client'[p].frame = r /\ client'[p].stage = "online"
    BY <2>1, <2>2 DEF ClientState
  <2> QED BY <1>1, <2>3 DEF Entering, TypeOK, ManagerTypeOK
<1>2. CASE peers[p] = None
  BY <1>1, <1>2, FrameMoved DEF EnterFrame, managerVars, Known
<1>3. CASE peers[p] # None
  <2> DEFINE data == peers[p]
  <2>1. data \in PeerData
    BY <1>3 DEF TypeOK, ManagerTypeOK
  <2>2. ASSUME EnterOnly(p, r)
        PROVE  peers'[p].room = r /\ \A q \in Peers \ {p} : peers'[q] = peers[q]
    <3>1. peers' = [peers EXCEPT ![p] = [data EXCEPT !.room = r]]
      BY <2>2 DEF EnterOnly, TypeOK, ManagerTypeOK
    <3> HIDE DEF data
    <3> QED BY <2>1, <3>1 DEF PeerData, TypeOK, ManagerTypeOK
  <2>3. ASSUME NEW i, NEW e, NEW m, EnterWith(p, r, i, e, m)
        PROVE  peers'[p].room = r /\ \A q \in Peers \ {p} : peers'[q] = peers[q]
    <3> DEFINE mv == IF m = None THEN data.movement ELSE m
    <3>1. peers' = [peers EXCEPT ![p] = [data EXCEPT !.room = r, !.ingress = i, !.egress = e,
                                                     !.movement = mv]]
      BY <2>3 DEF EnterWith, TypeOK, ManagerTypeOK
    <3> HIDE DEF data, mv
    <3> QED BY <2>1, <3>1 DEF PeerData, TypeOK, ManagerTypeOK
  <2>4. PICK n \in {0, 1} : Entering(p, r, n)
    BY <1>3 DEF EnterFrame
  <2>5. peers'[p].room = r /\ \A q \in Peers \ {p} : peers'[q] = peers[q]
    BY <1>3, <2>2, <2>3 DEF EnterFrame
  <2>6. client'[p].stage # "offline"
    BY <1>1, <2>4
  <2> QED BY <1>1, <2>4, <2>5, <2>6, FrameMoved
<1> QED BY <1>2, <1>3

LEMMA SignalFrame ==
  ASSUME TypeOK, FrameInv, NEW p \in Peers, Signal(p)
  PROVE  FrameInv'
<1>1. CASE CreatePeer(p)
  <2>1. client[p].frame = None
    BY <1>1 DEF CreatePeer, FrameInv, OfflineOutside
  <2>2. client'[p].frame = None /\ \A q \in Peers \ {p} : client'[q] = client[q]
    <3> DEFINE c == client[p]
    <3>1. c \in ClientState /\ client' = [client EXCEPT ![p] = [c EXCEPT !.stage = "online"]]
      BY <1>1 DEF CreatePeer, TypeOK, ManagerTypeOK
    <3>2. c.frame = None
      BY <2>1
    <3> HIDE DEF c
    <3> QED BY <3>1, <3>2 DEF ClientState, TypeOK, ManagerTypeOK
  <2>3. \A q \in Peers \ {p} : peers'[q] = peers[q]
    BY <1>1 DEF CreatePeer, TypeOK, ManagerTypeOK
  <2> QED BY <2>2, <2>3, FrameMoved
<1>2. ASSUME NEW r \in Rooms, EnterFrame(p, r) PROVE FrameInv'
  BY <1>2, EnterFrameFrame
<1>3. ASSUME NEW names, GetRoomMetrics(p, names) PROVE FrameInv'
  BY <1>3, FrameKept DEF GetRoomMetrics, Known
<1>5. CASE LeaveFrame(p)
  <2>1. client'[p].frame = None /\ \A q \in Peers \ {p} : client'[q] = client[q]
    <3> DEFINE c == client[p]
    <3>1. c \in ClientState /\ client' = [client EXCEPT ![p] =
            [c EXCEPT !.frame = None, !.transport = FALSE, !.sending = FALSE, !.watching = FALSE]]
      BY <1>5 DEF LeaveFrame, TypeOK, ManagerTypeOK
    <3> HIDE DEF c
    <3> QED BY <3>1 DEF ClientState, TypeOK, ManagerTypeOK
  <2>2. \A q \in Peers \ {p} : peers'[q] = peers[q]
    BY <1>5 DEF LeaveFrame, LeaveRoom, TypeOK, ManagerTypeOK
  <2> QED BY <2>1, <2>2, FrameMoved
<1>6. CASE CloseTab(p)
  <2>1. client'[p].frame = None /\ \A q \in Peers \ {p} : client'[q] = client[q]
    <3>1. client' = [client EXCEPT ![p] = [NewClient EXCEPT !.stage = "closed"]]
      BY <1>6 DEF CloseTab
    <3> QED BY <3>1 DEF NewClient, TypeOK, ManagerTypeOK
  <2>2. \A q \in Peers \ {p} : peers'[q] = peers[q]
    BY <1>6 DEF CloseTab, DisconnectPeerWebsocket, PeersWithout, InRoom
  <2> QED BY <2>1, <2>2, FrameMoved
<1>7. CASE BootUser(p)
  <2>1. \A q \in Known' : q \in Known /\ peers'[q] = peers[q]
    BY <1>7 DEF BootUser, DisconnectPeerWebsocket, PeersWithout, Known
  <2> QED BY <1>7, <2>1, FrameKept DEF BootUser
<1>8. CASE CreateIngressTransport(p)
  <2> DEFINE c == client[p]
             new == client'[p]
  <2>1. c \in ClientState
    BY DEF TypeOK, ManagerTypeOK
  <2>2. new.stage = c.stage /\ new.frame = c.frame /\ \A q \in Peers \ {p} : client'[q] = client[q]
    <3> DEFINE made == peers[p] # None /\ peers[p].ingress \in Up
                       /\ peers[p].room \in groups[peers[p].ingress]
    <3>1. client' = [client EXCEPT ![p] =
             [c EXCEPT !.replies = c.replies - 1, !.ready = c.ready \/ made,
                       !.transport = c.transport \/ (made /\ c.frame # None),
                       !.sending = c.sending /\ ~made]]
      BY <1>8 DEF CreateIngressTransport, TypeOK, ManagerTypeOK
    <3> HIDE DEF c, made
    <3> QED BY <2>1, <3>1 DEF ClientState, TypeOK, ManagerTypeOK
  <2>3. \A q \in Peers : client'[q].stage = client[q].stage /\ client'[q].frame = client[q].frame
    BY <2>2
  <2> QED BY <1>8, <2>3, FrameKept DEF CreateIngressTransport, Known
<1>9. ASSUME NEW c, c = client[p],
             \/ client' = [client EXCEPT ![p] = [c EXCEPT !.sending = TRUE]]
             \/ client' = [client EXCEPT ![p] = [c EXCEPT !.watching = TRUE]]
      PROVE  \A q \in Peers : client'[q].stage = client[q].stage /\ client'[q].frame = client[q].frame
  <2>1. c \in ClientState
    BY <1>9 DEF TypeOK, ManagerTypeOK
  <2>2. client'[p].stage = c.stage /\ client'[p].frame = c.frame
    BY <1>9, <2>1 DEF ClientState, TypeOK, ManagerTypeOK
  <2> QED BY <1>9, <2>2 DEF TypeOK, ManagerTypeOK
<1>10. CASE ConnectIngressTransport(p)
  <2>1. \A q \in Known' : q \in Known /\ peers'[q].room = peers[q].room
    <3> DEFINE data == peers[p]
    <3>1. UNCHANGED peers \/ (data # None /\ peers' = [peers EXCEPT ![p] =
                                                       [data EXCEPT !.isParticipant = TRUE]])
      BY <1>10 DEF ConnectIngressTransport, TypeOK, ManagerTypeOK
    <3>2. data # None => data \in PeerData
      BY DEF TypeOK, ManagerTypeOK
    <3> HIDE DEF data
    <3>3. data # None => [data EXCEPT !.isParticipant = TRUE].room = data.room
      BY <3>2 DEF PeerData
    <3> QED BY <3>1, <3>3 DEF data, Known, TypeOK, ManagerTypeOK
  <2>2. client' = [client EXCEPT ![p] = [client[p] EXCEPT !.sending = TRUE]]
    BY <1>10 DEF ConnectIngressTransport, TypeOK, ManagerTypeOK
  <2> QED BY <1>9, <2>1, <2>2, FrameKept
<1>11. ASSUME NEW isSpectator \in BOOLEAN, GetRoomMovement(p, isSpectator) PROVE FrameInv'
  <2>1. \A q \in Known' : q \in Known /\ peers'[q].room = peers[q].room
    <3> DEFINE data == peers[p]
               flag == data.isSpectator \/ isSpectator
    <3>1. UNCHANGED peers \/ (data # None /\ peers' = [peers EXCEPT ![p] =
             [data EXCEPT !.isLobby = FALSE, !.isSpectator = flag]])
      BY <1>11 DEF GetRoomMovement, TypeOK, ManagerTypeOK
    <3>2. data # None => data \in PeerData
      BY DEF TypeOK, ManagerTypeOK
    <3> HIDE DEF data, flag
    <3>3. data # None => [data EXCEPT !.isLobby = FALSE, !.isSpectator = flag].room = data.room
      BY <3>2 DEF PeerData
    <3> QED BY <3>1, <3>3 DEF data, Known, TypeOK, ManagerTypeOK
  <2>2. client' = [client EXCEPT ![p] = [client[p] EXCEPT !.watching = TRUE]]
    BY <1>11 DEF GetRoomMovement, TypeOK, ManagerTypeOK
  <2> QED BY <1>9, <2>1, <2>2, FrameKept
<1> QED BY <1>1, <1>2, <1>3, <1>5, <1>6, <1>7, <1>8, <1>10, <1>11 DEF Signal

(* While a client is in a frame, the room the peer manager has for its peer *)
(* is that frame, however often it changes frames, whatever fails on the   *)
(* way in or out and whichever media servers are lost meanwhile.           *)
THEOREM RoomStaysFrame == Spec => []RoomIsFrame
<1>1. Init => FrameInv
  BY DEF Init, FrameInv, RoomIsFrame, OfflineOutside, Known, NewClient
<1>2. TypeOK /\ FrameInv /\ [Next]_vars => FrameInv'
  <2> SUFFICES ASSUME TypeOK, FrameInv, [Next]_vars PROVE FrameInv'
    OBVIOUS
  <2>1. CASE UNCHANGED <<managerVars, client>>
    BY <2>1, FrameKept DEF managerVars, Known
  <2>2. ASSUME NEW p \in Peers, Signal(p) PROVE FrameInv'
    BY <2>2, SignalFrame
  <2>3. ASSUME NEW s \in Servers, LoseServer(s) PROVE FrameInv'
    <3>1. \A q \in Known' : q \in Known /\ peers'[q] = peers[q]
      BY <2>3 DEF LoseServer, PeersWithout, Known, managerVars
    <3> QED BY <2>3, <3>1, FrameKept DEF LoseServer
  <2>4. CASE UNCHANGED vars
    BY <2>1, <2>4 DEF vars
  <2> QED BY <2>1, <2>2, <2>3, <2>4 DEF Next
<1>3. FrameInv => RoomIsFrame
  BY DEF FrameInv
<1> QED BY <1>1, <1>2, <1>3, TypeCorrect, PTL DEF Spec
=============================================================================
