-------------------------- MODULE AnnouncementsProofs --------------------------
(***************************************************************************)
(* Proofs about Announcements: its types, that nobody is left out of what  *)
(* they asked for, that the lobby is quiet, and that the messages          *)
(* implement the conference.                                               *)
(***************************************************************************)
EXTENDS Announcements, TLAPS

\* Who is not there has asked for nothing, and who has not come yet owns and
\* hears nothing.
AbsentAreSilent ==
    /\ \A p \in Peers \ Present : asked[p] = {}
    /\ \A s \in produced \cup relaying \cup relayed : stage[s[1]] # "out"
    /\ \A r \in requests \cup consuming : stage[r.peer] # "out"
    /\ \A c \in consumers : stage[c[1]] # "out"

\* The egress is told to disconnect only peers that the API has forgotten.
LeaversAreGone == \A p \in leaving : stage[p] = "gone"

\* Before it leaves the lobby a peer asks for nothing but audio and video.
LobbyAsksForMedia ==
    \A p \in Peers : stage[p] = "lobby" => asked[p] \subseteq MediaKinds

\* Requests are for what LobbyIsQuiet allows, and so is what they begin.
RequestsAreQuiet ==
    /\ \A r \in requests \cup consuming :
          /\ \A q \in r.from : r.peer = q => r.kind = Events
          /\ stage[r.peer] = "lobby" => r.kind \in asked[r.peer]
    /\ \A t \in consuming : t.peer = t.at => t.kind = Events

\* The inductive invariant.
IInv ==
    /\ TypeOK
    /\ AbsentAreSilent
    /\ LeaversAreGone
    /\ LobbyAsksForMedia
    /\ RequestsAreQuiet
    /\ LobbyIsQuiet
    /\ EveryoneServed

\* The types, but for the order in which a client asks.
Typed ==
    /\ stage \in [Peers -> {"out", "lobby", "in", "gone"}]
    /\ asked \in [Peers -> SUBSET Kinds]
    /\ transport \in [Peers -> {"none", "requested", "receiving", "closed"}]
    /\ produced \subseteq Peers \X Kinds
    /\ relaying \subseteq Peers \X Kinds
    /\ relayed \subseteq Peers \X Kinds
    /\ created \subseteq Peers \X Kinds
    /\ requests \subseteq Request
    /\ consuming \subseteq Consuming
    /\ leaving \subseteq Peers
    /\ consumers \subseteq Triples
    /\ skipped \subseteq Triples
    /\ early \subseteq Triples

\* What is asked for first is some of the kinds.
LEMMA FirstAreKinds == \A i \in 0..Len(Asking) : First(i) \subseteq Kinds
<1>1. DOMAIN Asking = 1..Len(Asking) /\ Len(Asking) \in Nat
  BY AnnouncementsAssumption
<1> QED
  BY <1>1 DEF First, Kinds

\* The order adds to the types.
LEMMA TypeParts ==
    TypeOK <=> Typed /\ asked \in [Peers -> {First(i) : i \in 0..Len(Asking)}]
<1> DEFINE order == {First(i) : i \in 0..Len(Asking)}
<1>1. order \subseteq SUBSET Kinds
  BY FirstAreKinds
<1> HIDE DEF order
<1>2. asked \in [Peers -> order] => asked \in [Peers -> SUBSET Kinds]
  BY <1>1
<1> QED
  BY <1>2 DEF TypeOK, Typed, order

\* The same of the next state.
LEMMA TypePartsNext ==
    ASSUME Typed', (asked \in [Peers -> {First(i) : i \in 0..Len(Asking)}])'
    PROVE  TypeOK'
BY DEF TypeOK, Typed

\* A client that asks for the next kind has asked in order.
LEMMA OrderStep ==
    ASSUME TypeOK, [Next]_vars
    PROVE  asked' \in [Peers -> {First(i) : i \in 0..Len(Asking)}]
<1> DEFINE order == {First(i) : i \in 0..Len(Asking)}
<1>1. asked \in [Peers -> order]
  BY DEF TypeOK
<1>2. DOMAIN Asking = 1..Len(Asking) /\ Len(Asking) \in Nat
  BY AnnouncementsAssumption
<1>3. ASSUME NEW p \in Peers, Disconnect(p)
      PROVE  asked' \in [Peers -> order]
  <2>1. {} \in order
    <3>1. First(0) = {} /\ 0 \in 0..Len(Asking)
      BY <1>2 DEF First
    <3> QED
      BY <3>1
  <2> HIDE DEF order
  <2> QED
    BY <1>1, <1>3, <2>1 DEF Disconnect
<1>4. ASSUME NEW p \in Peers, NEW k \in Kinds, ConsumeAll(p, k)
      PROVE  asked' \in [Peers -> order]
  <2>1. PICK i \in DOMAIN Asking : Asking[i] = k /\ asked[p] = First(i - 1)
    BY <1>4 DEF ConsumeAll
  <2>2. First(i) = First(i - 1) \cup {k}
    BY <1>2, <2>1 DEF First
  <2>3. asked[p] \cup {k} \in order
    BY <1>2, <2>1, <2>2
  <2> HIDE DEF order
  <2> QED
    BY <1>1, <1>4, <2>3 DEF ConsumeAll
<1>5. UNCHANGED asked => asked' \in [Peers -> order]
  BY <1>1
<1> HIDE DEF order
<1>6. ASSUME NEW p \in Peers, JoinRoom(p) \/ CreateEgressTransport(p)
      PROVE  UNCHANGED asked
  BY <1>6 DEF JoinRoom, CreateEgressTransport
<1>7. ASSUME NEW q \in Peers, NEW k \in Kinds, CreateProducer(q, k)
      PROVE  UNCHANGED asked
  BY <1>7 DEF CreateProducer
<1>8. Announce \/ Egress => UNCHANGED asked
  BY DEF Announce, Egress, CreatedRelayProducer, CreateWebRTCEgress,
         CreateRelayProducer, Consume, Consumed, DisconnectTransport
<1>9. UNCHANGED vars => UNCHANGED asked
  BY DEF vars
<1>10. Next => asked' \in [Peers -> order]
  BY <1>3, <1>4, <1>5, <1>6, <1>7, <1>8 DEF Next
<1>11. UNCHANGED vars => asked' \in [Peers -> order]
  BY <1>5, <1>9
<1>12. asked' \in [Peers -> order]
  BY <1>10, <1>11
<1> QED
  BY <1>12 DEF order

\* Every step keeps the types.
LEMMA TypedStep ==
    ASSUME Typed, [Next]_vars
    PROVE  Typed'
<1> USE DEF Typed, DataKinds
<1>1. ASSUME NEW p \in Peers, JoinRoom(p)
      PROVE  Typed'
  BY <1>1 DEF JoinRoom
<1>2. ASSUME NEW p \in Peers, CreateEgressTransport(p)
      PROVE  Typed'
  BY <1>2 DEF CreateEgressTransport
<1>3. ASSUME NEW p \in Peers, Disconnect(p)
      PROVE  Typed'
  BY <1>3 DEF Disconnect, Present, Triples
<1>4. ASSUME NEW q \in Peers, NEW k \in Kinds, CreateProducer(q, k)
      PROVE  Typed'
  BY <1>4 DEF CreateProducer
<1>5. ASSUME NEW p \in Peers, NEW k \in Kinds, ConsumeAll(p, k)
      PROVE  Typed'
  BY <1>5 DEF ConsumeAll, EndsLobby, Request, Present
<1>6. ASSUME NEW q \in Peers, NEW k \in Kinds, CreatedRelayProducer(q, k)
      PROVE  Typed'
  BY <1>6 DEF CreatedRelayProducer, ConsumerMessages, Request, Present, Triples
<1>7. ASSUME NEW p \in Peers, CreateWebRTCEgress(p)
      PROVE  Typed'
  BY <1>7 DEF CreateWebRTCEgress
<1>8. ASSUME NEW q \in Peers, NEW k \in Kinds, CreateRelayProducer(q, k)
      PROVE  Typed'
  BY <1>8 DEF CreateRelayProducer, Refused
<1>9. ASSUME NEW r \in requests, NEW q \in r.from, Consume(r, q)
      PROVE  Typed'
  BY <1>9 DEF Consume, Left, Request, Consuming, Present, Triples
<1>10. ASSUME NEW t \in consuming, Consumed(t)
      PROVE  Typed'
  <2>1. /\ consumers' \subseteq consumers \cup {<<t.peer, t.at, t.kind>>}
        /\ \A n \in requests' \ requests :
              n = [peer |-> t.peer, kind |-> t.kind, from |-> t.from]
        /\ consuming' \subseteq consuming
        /\ UNCHANGED <<stage, asked, transport, produced, relaying, relayed,
                       created, leaving, skipped, early>>
    BY <1>10 DEF Consumed, Left, Open
  <2>2. /\ t.peer \in Peers /\ t.at \in Peers
        /\ t.kind \in Kinds /\ t.from \subseteq Peers
    BY DEF Consuming
  <2>3. <<t.peer, t.at, t.kind>> \in Triples
    BY <2>2 DEF Triples
  <2>4. requests' \subseteq Request
    BY <2>1, <2>2 DEF Request
  <2> QED
    BY <2>1, <2>3, <2>4
<1>11. ASSUME NEW p \in Peers, DisconnectTransport(p)
      PROVE  Typed'
  BY <1>11 DEF DisconnectTransport, Open
<1>12. CASE UNCHANGED vars
  BY <1>12 DEF vars
<1> QED
  BY <1>1, <1>2, <1>3, <1>4, <1>5, <1>6, <1>7, <1>8, <1>9, <1>10, <1>11,
     <1>12 DEF Next, Announce, Egress

\* Every step keeps the types and the order.
LEMMA TypeStep ==
    ASSUME TypeOK, [Next]_vars
    PROVE  TypeOK'
BY TypedStep, OrderStep, TypeParts, TypePartsNext

\* Every step keeps the absent silent.
LEMMA AbsentStep ==
    ASSUME Typed, AbsentAreSilent, [Next]_vars
    PROVE  AbsentAreSilent'
<1> USE DEF Typed, AbsentAreSilent, Present
<1>1. ASSUME NEW p \in Peers, JoinRoom(p)
      PROVE  AbsentAreSilent'
  BY <1>1 DEF JoinRoom
<1>2. ASSUME NEW p \in Peers, CreateEgressTransport(p)
      PROVE  AbsentAreSilent'
  BY <1>2 DEF CreateEgressTransport
<1>3. ASSUME NEW p \in Peers, Disconnect(p)
      PROVE  AbsentAreSilent'
  BY <1>3 DEF Disconnect, Triples
<1>4. ASSUME NEW q \in Peers, NEW k \in Kinds, CreateProducer(q, k)
      PROVE  AbsentAreSilent'
  BY <1>4 DEF CreateProducer
<1>5. ASSUME NEW p \in Peers, NEW k \in Kinds, ConsumeAll(p, k)
      PROVE  AbsentAreSilent'
  BY <1>5 DEF ConsumeAll, EndsLobby, Request
<1>6. ASSUME NEW q \in Peers, NEW k \in Kinds, CreatedRelayProducer(q, k)
      PROVE  AbsentAreSilent'
  BY <1>6 DEF CreatedRelayProducer, ConsumerMessages, Request
<1>7. ASSUME NEW p \in Peers, CreateWebRTCEgress(p)
      PROVE  AbsentAreSilent'
  BY <1>7 DEF CreateWebRTCEgress
<1>8. ASSUME NEW q \in Peers, NEW k \in Kinds, CreateRelayProducer(q, k)
      PROVE  AbsentAreSilent'
  BY <1>8 DEF CreateRelayProducer, Refused
<1>9. ASSUME NEW r \in requests, NEW q \in r.from, Consume(r, q)
      PROVE  AbsentAreSilent'
  BY <1>9 DEF Consume, Left, Request, Consuming
<1>10. ASSUME NEW t \in consuming, Consumed(t)
      PROVE  AbsentAreSilent'
  BY <1>10 DEF Consumed, Left, Open, Request, Consuming
<1>11. ASSUME NEW p \in Peers, DisconnectTransport(p)
      PROVE  AbsentAreSilent'
  BY <1>11 DEF DisconnectTransport, Open
<1>12. CASE UNCHANGED vars
  BY <1>12 DEF vars
<1> QED
  BY <1>1, <1>2, <1>3, <1>4, <1>5, <1>6, <1>7, <1>8, <1>9, <1>10, <1>11,
     <1>12 DEF Next, Announce, Egress

\* Who is told to leave stays gone: a peer enters once.
LEMMA LeaversStep ==
    ASSUME Typed, LeaversAreGone, [Next]_vars
    PROVE  LeaversAreGone'
<1> USE DEF Typed, LeaversAreGone
<1>1. ASSUME NEW p \in Peers, JoinRoom(p)
      PROVE  LeaversAreGone'
  BY <1>1 DEF JoinRoom
<1>2. ASSUME NEW p \in Peers, CreateEgressTransport(p)
      PROVE  LeaversAreGone'
  BY <1>2 DEF CreateEgressTransport
<1>3. ASSUME NEW p \in Peers, Disconnect(p)
      PROVE  LeaversAreGone'
  BY <1>3 DEF Disconnect, Present
<1>4. ASSUME NEW q \in Peers, NEW k \in Kinds, CreateProducer(q, k)
      PROVE  LeaversAreGone'
  BY <1>4 DEF CreateProducer
<1>5. ASSUME NEW p \in Peers, NEW k \in Kinds, ConsumeAll(p, k)
      PROVE  LeaversAreGone'
  BY <1>5 DEF ConsumeAll, Present
<1>6. ASSUME NEW q \in Peers, NEW k \in Kinds, CreatedRelayProducer(q, k)
      PROVE  LeaversAreGone'
  BY <1>6 DEF CreatedRelayProducer
<1>7. ASSUME NEW p \in Peers, CreateWebRTCEgress(p)
      PROVE  LeaversAreGone'
  BY <1>7 DEF CreateWebRTCEgress
<1>8. ASSUME NEW q \in Peers, NEW k \in Kinds, CreateRelayProducer(q, k)
      PROVE  LeaversAreGone'
  BY <1>8 DEF CreateRelayProducer
<1>9. ASSUME NEW r \in requests, NEW q \in r.from, Consume(r, q)
      PROVE  LeaversAreGone'
  BY <1>9 DEF Consume
<1>10. ASSUME NEW t \in consuming, Consumed(t)
      PROVE  LeaversAreGone'
  BY <1>10 DEF Consumed, Left, Open, Request, Consuming
<1>11. ASSUME NEW p \in Peers, DisconnectTransport(p)
      PROVE  LeaversAreGone'
  BY <1>11 DEF DisconnectTransport, Open
<1>12. CASE UNCHANGED vars
  BY <1>12 DEF vars
<1> QED
  BY <1>1, <1>2, <1>3, <1>4, <1>5, <1>6, <1>7, <1>8, <1>9, <1>10, <1>11,
     <1>12 DEF Next, Announce, Egress

\* The request for movement ends the lobby, and only audio and video come before it.
LEMMA LobbyAsksStep ==
    ASSUME Typed, AbsentAreSilent, LobbyAsksForMedia, [Next]_vars
    PROVE  LobbyAsksForMedia'
<1> USE DEF Typed, LobbyAsksForMedia
<1>1. ASSUME NEW p \in Peers, JoinRoom(p)
      PROVE  LobbyAsksForMedia'
  BY <1>1 DEF JoinRoom, AbsentAreSilent, Present
<1>2. ASSUME NEW p \in Peers, CreateEgressTransport(p)
      PROVE  LobbyAsksForMedia'
  BY <1>2 DEF CreateEgressTransport
<1>3. ASSUME NEW p \in Peers, Disconnect(p)
      PROVE  LobbyAsksForMedia'
  BY <1>3 DEF Disconnect
<1>4. ASSUME NEW q \in Peers, NEW k \in Kinds, CreateProducer(q, k)
      PROVE  LobbyAsksForMedia'
  BY <1>4 DEF CreateProducer
<1>5. ASSUME NEW p \in Peers, NEW k \in Kinds, ConsumeAll(p, k)
      PROVE  LobbyAsksForMedia'
  <2>1. SUFFICES ASSUME stage'[p] = "lobby"
                 PROVE  k \in MediaKinds
    BY <1>5 DEF ConsumeAll
  <2>2. k # Movement /\ asked[p] \subseteq MediaKinds /\ Movement \notin MediaKinds
    BY AnnouncementsAssumption, <1>5, <2>1 DEF ConsumeAll, EndsLobby
  <2>3. PICK i \in DOMAIN Asking : /\ Asking[i] = k
                                  /\ asked[p] = First(i - 1)
    BY <1>5 DEF ConsumeAll
  <2>4. PICK m \in DOMAIN Asking : /\ Asking[m] = Movement
                                  /\ \A j \in DOMAIN Asking :
                                        j < m => Asking[j] \in MediaKinds
    BY AnnouncementsAssumption
  <2>5. m \notin 1..(i - 1)
    BY <2>2, <2>3, <2>4 DEF First
  <2>6. i < m
    BY <2>2, <2>3, <2>4, <2>5, AnnouncementsAssumption
  <2> QED
    BY <2>3, <2>4, <2>6
<1>6. ASSUME NEW q \in Peers, NEW k \in Kinds, CreatedRelayProducer(q, k)
      PROVE  LobbyAsksForMedia'
  BY <1>6 DEF CreatedRelayProducer
<1>7. ASSUME NEW p \in Peers, CreateWebRTCEgress(p)
      PROVE  LobbyAsksForMedia'
  BY <1>7 DEF CreateWebRTCEgress
<1>8. ASSUME NEW q \in Peers, NEW k \in Kinds, CreateRelayProducer(q, k)
      PROVE  LobbyAsksForMedia'
  BY <1>8 DEF CreateRelayProducer
<1>9. ASSUME NEW r \in requests, NEW q \in r.from, Consume(r, q)
      PROVE  LobbyAsksForMedia'
  BY <1>9 DEF Consume
<1>10. ASSUME NEW t \in consuming, Consumed(t)
      PROVE  LobbyAsksForMedia'
  BY <1>10 DEF Consumed, Left, Open, Request, Consuming
<1>11. ASSUME NEW p \in Peers, DisconnectTransport(p)
      PROVE  LobbyAsksForMedia'
  BY <1>11 DEF DisconnectTransport, Open
<1>12. CASE UNCHANGED vars
  BY <1>12 DEF vars
<1> QED
  BY <1>1, <1>2, <1>3, <1>4, <1>5, <1>6, <1>7, <1>8, <1>9, <1>10, <1>11,
     <1>12 DEF Next, Announce, Egress

\* Requests are made for who asked, or for who is in the room.
LEMMA RequestsStep ==
    ASSUME Typed, AbsentAreSilent, RequestsAreQuiet, [Next]_vars
    PROVE  RequestsAreQuiet'
<1> USE DEF Typed, AbsentAreSilent, RequestsAreQuiet, Present
<1>1. ASSUME NEW p \in Peers, JoinRoom(p)
      PROVE  RequestsAreQuiet'
  BY <1>1 DEF JoinRoom
<1>2. ASSUME NEW p \in Peers, CreateEgressTransport(p)
      PROVE  RequestsAreQuiet'
  BY <1>2 DEF CreateEgressTransport
<1>3. ASSUME NEW p \in Peers, Disconnect(p)
      PROVE  RequestsAreQuiet'
  BY <1>3 DEF Disconnect
<1>4. ASSUME NEW q \in Peers, NEW k \in Kinds, CreateProducer(q, k)
      PROVE  RequestsAreQuiet'
  BY <1>4 DEF CreateProducer
<1>5. ASSUME NEW p \in Peers, NEW k \in Kinds, ConsumeAll(p, k)
      PROVE  RequestsAreQuiet'
  BY <1>5 DEF ConsumeAll, EndsLobby, Request
<1>6. ASSUME NEW q \in Peers, NEW k \in Kinds, CreatedRelayProducer(q, k)
      PROVE  RequestsAreQuiet'
  BY <1>6 DEF CreatedRelayProducer, ConsumerMessages, Request
<1>7. ASSUME NEW p \in Peers, CreateWebRTCEgress(p)
      PROVE  RequestsAreQuiet'
  BY <1>7 DEF CreateWebRTCEgress
<1>8. ASSUME NEW q \in Peers, NEW k \in Kinds, CreateRelayProducer(q, k)
      PROVE  RequestsAreQuiet'
  BY <1>8 DEF CreateRelayProducer
<1>9. ASSUME NEW r \in requests, NEW q \in r.from, Consume(r, q)
      PROVE  RequestsAreQuiet'
  BY <1>9 DEF Consume, Left, Request, Consuming
<1>10. ASSUME NEW t \in consuming, Consumed(t)
      PROVE  RequestsAreQuiet'
  BY <1>10 DEF Consumed, Left, Open, Request, Consuming
<1>11. ASSUME NEW p \in Peers, DisconnectTransport(p)
      PROVE  RequestsAreQuiet'
  BY <1>11 DEF DisconnectTransport, Open
<1>12. CASE UNCHANGED vars
  BY <1>12 DEF vars
<1> QED
  BY <1>1, <1>2, <1>3, <1>4, <1>5, <1>6, <1>7, <1>8, <1>9, <1>10, <1>11,
     <1>12 DEF Next, Announce, Egress

\* A consumer is created by a request, which is quiet.
LEMMA QuietStep ==
    ASSUME Typed, AbsentAreSilent, RequestsAreQuiet, LobbyIsQuiet, [Next]_vars
    PROVE  LobbyIsQuiet'
<1> USE DEF Typed, AbsentAreSilent, LobbyIsQuiet, Present, Triples, Request
<1>1. ASSUME NEW p \in Peers, JoinRoom(p)
      PROVE  LobbyIsQuiet'
  BY <1>1 DEF JoinRoom
<1>2. ASSUME NEW p \in Peers, CreateEgressTransport(p)
      PROVE  LobbyIsQuiet'
  BY <1>2 DEF CreateEgressTransport
<1>3. ASSUME NEW p \in Peers, Disconnect(p)
      PROVE  LobbyIsQuiet'
  BY <1>3 DEF Disconnect
<1>4. ASSUME NEW q \in Peers, NEW k \in Kinds, CreateProducer(q, k)
      PROVE  LobbyIsQuiet'
  BY <1>4 DEF CreateProducer
<1>5. ASSUME NEW p \in Peers, NEW k \in Kinds, ConsumeAll(p, k)
      PROVE  LobbyIsQuiet'
  BY <1>5 DEF ConsumeAll, EndsLobby
<1>6. ASSUME NEW q \in Peers, NEW k \in Kinds, CreatedRelayProducer(q, k)
      PROVE  LobbyIsQuiet'
  BY <1>6 DEF CreatedRelayProducer
<1>7. ASSUME NEW p \in Peers, CreateWebRTCEgress(p)
      PROVE  LobbyIsQuiet'
  BY <1>7 DEF CreateWebRTCEgress
<1>8. ASSUME NEW q \in Peers, NEW k \in Kinds, CreateRelayProducer(q, k)
      PROVE  LobbyIsQuiet'
  BY <1>8 DEF CreateRelayProducer
<1>9. ASSUME NEW r \in requests, NEW q \in r.from, Consume(r, q)
      PROVE  LobbyIsQuiet'
  BY <1>9 DEF Consume, RequestsAreQuiet
<1>10. ASSUME NEW t \in consuming, Consumed(t)
      PROVE  LobbyIsQuiet'
  <2>1. /\ consumers' \subseteq consumers \cup {<<t.peer, t.at, t.kind>>}
        /\ UNCHANGED <<stage, asked>>
    BY <1>10 DEF Consumed, Open
  <2>2. /\ t.peer = t.at => t.kind = Events
        /\ stage[t.peer] = "lobby" => t.kind \in asked[t.peer]
    BY DEF RequestsAreQuiet
  <2> QED
    BY <2>1, <2>2
<1>11. ASSUME NEW p \in Peers, DisconnectTransport(p)
      PROVE  LobbyIsQuiet'
  BY <1>11 DEF DisconnectTransport, Open
<1>12. CASE UNCHANGED vars
  BY <1>12 DEF vars
<1> QED
  BY <1>1, <1>2, <1>3, <1>4, <1>5, <1>6, <1>7, <1>8, <1>9, <1>10, <1>11,
     <1>12 DEF Next, Announce, Egress

\* Nobody is left out: what covers a producer is replaced by what covers it.
LEMMA ServedStep ==
    ASSUME Typed, AbsentAreSilent, LeaversAreGone, LobbyAsksForMedia, EveryoneServed, [Next]_vars
    PROVE  EveryoneServed'
<1> USE DEF Typed, EveryoneServed, Settled, Pending, Present
<1>1. ASSUME NEW p \in Peers, JoinRoom(p)
      PROVE  EveryoneServed'
  BY <1>1 DEF JoinRoom, AbsentAreSilent
<1>2. ASSUME NEW p \in Peers, CreateEgressTransport(p)
      PROVE  EveryoneServed'
  BY <1>2 DEF CreateEgressTransport
<1>3. ASSUME NEW p \in Peers, Disconnect(p)
      PROVE  EveryoneServed'
  BY <1>3 DEF Disconnect, Triples
<1>4. ASSUME NEW q \in Peers, NEW k \in Kinds, CreateProducer(q, k)
      PROVE  EveryoneServed'
  BY <1>4 DEF CreateProducer
<1>5. ASSUME NEW p \in Peers, NEW k \in Kinds, ConsumeAll(p, k)
      PROVE  EveryoneServed'
  <2> SUFFICES ASSUME NEW a \in Peers, NEW b \in Peers, NEW j \in Kinds,
                      stage'[a] \in {"lobby", "in"}, stage'[b] \in {"lobby", "in"},
                      a # b, j \in asked'[a], <<b, j>> \in relayed'
               PROVE  Settled(a, b, j)' \/ Pending(a, b, j)'
    OBVIOUS
  <2>1. a \in Present /\ b \in Present /\ <<b, j>> \in relayed
    BY <1>5 DEF ConsumeAll, EndsLobby
  <2>2. CASE j \in asked[a]
    <3>1. Settled(a, b, j) \/ Pending(a, b, j)
      BY <2>1, <2>2
    <3>2. requests \subseteq requests'
      BY <1>5 DEF ConsumeAll
    <3> QED
      BY <1>5, <3>1, <3>2 DEF ConsumeAll
  <2>3. CASE j \notin asked[a]
    <3> DEFINE new == [peer |-> p, kind |-> k, from |-> Present \ {p}]
    <3>1. a = p /\ j = k
      BY <1>5, <2>3 DEF ConsumeAll
    <3>2. b \in new.from
      BY <2>1, <3>1
    <3>3. new \in requests'
      BY <1>5, <3>2 DEF ConsumeAll
    <3> QED
      BY <3>1, <3>2, <3>3
  <2> QED
    BY <2>2, <2>3
<1>6. ASSUME NEW q \in Peers, NEW k \in Kinds, CreatedRelayProducer(q, k)
      PROVE  EveryoneServed'
  <2> SUFFICES ASSUME NEW a \in Peers, NEW b \in Peers, NEW j \in Kinds,
                      stage[a] \in {"lobby", "in"}, stage[b] \in {"lobby", "in"},
                      a # b, j \in asked[a], <<b, j>> \in relayed
               PROVE  Settled(a, b, j)' \/ Pending(a, b, j)'
    BY <1>6 DEF CreatedRelayProducer
  <2>1. Settled(a, b, j) \/ Pending(a, b, j)
    OBVIOUS
  <2>2. requests \subseteq requests' /\ skipped \subseteq skipped'
    BY <1>6 DEF CreatedRelayProducer
  <2>3. CASE b = q /\ j = k /\ stage[a] = "in"
    <3> DEFINE new == [peer |-> a, kind |-> k, from |-> {q}]
    <3>1. requests' = requests \cup ConsumerMessages(q, k)
      BY <1>6 DEF CreatedRelayProducer
    <3>2. new \in ConsumerMessages(q, k)
      BY <2>3 DEF ConsumerMessages
    <3>3. new \in requests'
      BY <3>1, <3>2
    <3> QED
      BY <2>3, <3>3
  <2>4. CASE b = q /\ j = k /\ stage[a] = "lobby"
    <3>1. <<a, b, j>> \in skipped' /\ j \in MediaKinds
      BY <1>6, <2>4 DEF CreatedRelayProducer, LobbyAsksForMedia
    <3> QED
      BY <3>1
  <2>5. CASE ~ (b = q /\ j = k)
    BY <1>6, <2>1, <2>2, <2>5 DEF CreatedRelayProducer
  <2> QED
    BY <2>3, <2>4, <2>5
<1>7. ASSUME NEW p \in Peers, CreateWebRTCEgress(p)
      PROVE  EveryoneServed'
  BY <1>7 DEF CreateWebRTCEgress
<1>8. ASSUME NEW q \in Peers, NEW k \in Kinds, CreateRelayProducer(q, k)
      PROVE  EveryoneServed'
  BY <1>8 DEF CreateRelayProducer, Refused
<1>9. ASSUME NEW r \in requests, NEW q \in r.from, Consume(r, q)
      PROVE  EveryoneServed'
  <2> SUFFICES ASSUME NEW a \in Peers, NEW b \in Peers, NEW j \in Kinds,
                      a \in Present, b \in Present,
                      a # b, j \in asked[a], <<b, j>> \in relayed
               PROVE  Settled(a, b, j)' \/ Pending(a, b, j)'
    <3>1. UNCHANGED <<stage, asked, relayed>>
      BY <1>9 DEF Consume
    <3> QED
      BY <3>1
  <2>1. Settled(a, b, j) \/ Pending(a, b, j)
    OBVIOUS
  <2>2. Settled(a, b, j) => Settled(a, b, j)'
    BY <1>9 DEF Consume
  <2>3. ASSUME NEW o \in requests, o # r, o.peer = a, o.kind = j, b \in o.from
        PROVE  Pending(a, b, j)'
    <3>1. o \in requests'
      BY <1>9, <2>3 DEF Consume, Left
    <3> QED
      BY <2>3, <3>1
  <2>4. CASE r.peer = a /\ r.kind = j /\ b \in r.from
    <3>1. CASE b = q
      <4> DEFINE begun == [peer |-> a, kind |-> j, at |-> b, from |-> r.from \ {b}]
      <4>1. CASE transport[a] = "receiving"
        <5>1. begun \in consuming'
          BY <1>9, <2>4, <3>1, <4>1 DEF Consume
        <5> QED
          BY <5>1
      <4>2. CASE transport[a] # "receiving"
        BY <1>9, <2>4, <3>1, <4>2 DEF Consume
      <4> QED
        BY <4>1, <4>2
    <3>2. CASE b # q /\ ~ (transport[a] # "receiving" /\ j \in MediaKinds /\ <<q, j>> \in relayed)
      <4> DEFINE rest  == [peer |-> a, kind |-> j, from |-> r.from \ {q}]
                 begun == [peer |-> a, kind |-> j, at |-> q, from |-> r.from \ {q}]
      <4>1. b \in rest.from /\ b \in begun.from
        BY <2>4, <3>2
      <4>2. CASE <<q, j>> \in relayed /\ transport[a] = "receiving"
        <5>1. begun \in consuming'
          BY <1>9, <2>4, <4>2 DEF Consume
        <5> QED
          BY <4>1, <5>1
      <4>3. CASE ~ (<<q, j>> \in relayed /\ transport[a] = "receiving")
        <5>1. rest \in Left(a, j, r.from, {q})
          BY <4>1 DEF Left
        <5>2. rest \in requests'
          BY <1>9, <2>4, <3>2, <4>3, <5>1 DEF Consume
        <5> QED
          BY <4>1, <5>2
      <4> QED
        BY <4>2, <4>3
    <3>3. CASE b # q /\ transport[a] # "receiving" /\ j \in MediaKinds /\ <<q, j>> \in relayed
      <4>1. <<a, b, j>> \in early'
        BY <1>9, <2>4, <3>3 DEF Consume
      <4> QED
        BY <4>1
    <3> QED
      BY <3>1, <3>2, <3>3
  <2>5. <<b, j>> \in created => Pending(a, b, j)'
    BY <1>9 DEF Consume
  <2>6. (\E t \in consuming : t.peer = a /\ t.kind = j /\ b \in t.from \cup {t.at})
           => Pending(a, b, j)'
    <3>1. consuming \subseteq consuming'
      BY <1>9 DEF Consume
    <3> QED
      BY <3>1
  <2> QED
    BY <2>1, <2>2, <2>3, <2>4, <2>5, <2>6
<1>10. ASSUME NEW t \in consuming, Consumed(t)
      PROVE  EveryoneServed'
  <2> SUFFICES ASSUME NEW a \in Peers, NEW b \in Peers, NEW j \in Kinds,
                      a \in Present, b \in Present,
                      a # b, j \in asked[a], <<b, j>> \in relayed
               PROVE  Settled(a, b, j)' \/ Pending(a, b, j)'
    <3>1. UNCHANGED <<stage, asked, relayed>>
      BY <1>10 DEF Consumed
    <3> QED
      BY <3>1
  <2>1. Settled(a, b, j) \/ Pending(a, b, j)
    OBVIOUS
  <2>2. Settled(a, b, j) => Settled(a, b, j)'
    BY <1>10 DEF Consumed, Open
  <2>3. <<b, j>> \in created => Pending(a, b, j)'
    BY <1>10 DEF Consumed
  <2>4. requests \subseteq requests'
    BY <1>10 DEF Consumed
  <2>5. (\E r \in requests : r.peer = a /\ r.kind = j /\ b \in r.from)
           => Pending(a, b, j)'
    BY <2>4
  <2>6. ASSUME NEW o \in consuming, o # t, o.peer = a, o.kind = j,
               b \in o.from \cup {o.at}
        PROVE  Pending(a, b, j)'
    <3>1. o \in consuming'
      BY <1>10, <2>6 DEF Consumed
    <3> QED
      BY <2>6, <3>1
  <2>7. CASE t.peer = a /\ t.kind = j /\ b = t.at
    <3>1. <<a, b, j>> \in consumers'
      BY <1>10, <2>7 DEF Consumed, Open
    <3> QED
      BY <3>1
  <2>8. CASE t.peer = a /\ t.kind = j /\ b \in t.from
    <3> DEFINE rest == [peer |-> a, kind |-> j, from |-> t.from]
    <3>1. rest \in Left(a, j, t.from, {})
      BY <2>8 DEF Left
    <3>2. rest \in requests'
      BY <1>10, <2>8, <3>1 DEF Consumed
    <3> QED
      BY <2>8, <3>2
  <2> QED
    BY <2>1, <2>2, <2>3, <2>5, <2>6, <2>7, <2>8
<1>11. ASSUME NEW p \in Peers, DisconnectTransport(p)
      PROVE  EveryoneServed'
  BY <1>11 DEF DisconnectTransport, Open, LeaversAreGone
<1>12. CASE UNCHANGED vars
  BY <1>12 DEF vars
<1> QED
  BY <1>1, <1>2, <1>3, <1>4, <1>5, <1>6, <1>7, <1>8, <1>9, <1>10, <1>11,
     <1>12 DEF Next, Announce, Egress

\* The invariant holds throughout.
LEMMA InductiveInvariant == Spec => []IInv
<1>1. Init => IInv
  <2> SUFFICES ASSUME Init PROVE IInv
    OBVIOUS
  <2>1. asked \in [Peers -> {First(i) : i \in 0..Len(Asking)}]
    <3>1. First(0) = {} /\ 0 \in 0..Len(Asking)
      BY AnnouncementsAssumption DEF First
    <3>2. {} \in {First(i) : i \in 0..Len(Asking)}
      BY <3>1
    <3> QED
      BY <3>2 DEF Init
  <2>2. Typed
    BY DEF Init, Typed
  <2>3. TypeOK
    BY <2>1, <2>2, TypeParts
  <2> QED
    BY <2>3 DEF Init, IInv, AbsentAreSilent, LeaversAreGone, LobbyAsksForMedia,
                RequestsAreQuiet, LobbyIsQuiet, EveryoneServed, Present
<1>2. IInv /\ [Next]_vars => IInv'
  BY TypeStep, TypeParts, AbsentStep, LeaversStep, LobbyAsksStep, RequestsStep, QuietStep,
     ServedStep DEF IInv
<1> QED
  BY <1>1, <1>2, PTL DEF Spec

\* Every variable keeps its type.
THEOREM TypeCorrect == Spec => []TypeOK
BY InductiveInvariant, PTL DEF IInv

\* No order of the requests of clients, the relays of the egress server and the
\* announcements of the peerManager leaves out a producer of a kind that was
\* asked for, but for requests before the transport and the lobby's gap.
THEOREM NobodyIsLeftOut == Spec => []EveryoneServed
BY InductiveInvariant, PTL DEF IInv

\* A peer in the lobby gets nothing it has not asked for, and nobody but for
\* frame events gets what is their own.
THEOREM LobbyStaysQuiet == Spec => []LobbyIsQuiet
BY InductiveInvariant, PTL DEF IInv

-----------------------------------------------------------------------------
(* The refinement: five actions bring about a step of the conference, the  *)
(* others nothing.                                                         *)

\* A producer that a task has found sounds on.
LEMMA OpenIsSounding ==
    ASSUME NEW all, NEW producers, NEW tasks
    PROVE  Open(all, producers, tasks) =
             C!Sounding(all, producers, {<<t.peer, t.at, t.kind>> : t \in tasks})
<1> DEFINE begun == {<<t.peer, t.at, t.kind>> : t \in tasks}
           pairs == {<<b[2], b[3]>> : b \in begun}
<1>1. ASSUME NEW c
      PROVE  <<c[2], c[3]>> \in pairs <=> \E t \in tasks : t.at = c[2] /\ t.kind = c[3]
  <2>1. ASSUME NEW t \in tasks, t.at = c[2], t.kind = c[3]
        PROVE  <<c[2], c[3]>> \in pairs
    <3>1. <<t.peer, t.at, t.kind>> \in begun
      OBVIOUS
    <3> HIDE DEF begun
    <3>2. <<t.at, t.kind>> \in pairs
      BY <3>1
    <3> QED
      BY <2>1, <3>2
  <2>2. ASSUME <<c[2], c[3]>> \in pairs
        PROVE  \E t \in tasks : t.at = c[2] /\ t.kind = c[3]
    <3>1. PICK t \in tasks : <<c[2], c[3]>> = <<t.at, t.kind>>
      BY <2>2
    <3> QED
      BY <3>1
  <2> QED
    BY <2>1, <2>2
<1> HIDE DEF pairs
<1>2. Open(all, producers, tasks) = {c \in all : <<c[2], c[3]>> \in producers \cup pairs}
  BY <1>1 DEF Open
<1> QED
  BY <1>2 DEF C!Sounding, pairs

\* A step that leaves the four tables of the conference as they are.
Same ==
    /\ UNCHANGED <<relayed, consuming, consumers>>
    /\ {p \in Peers : transport[p] = "receiving"}' = {p \in Peers : transport[p] = "receiving"}

\* Such a step is none of the conference.
LEMMA SameIsNone == Same => UNCHANGED C!vars
<1> SUFFICES ASSUME Same PROVE UNCHANGED C!vars
  OBVIOUS
<1> DEFINE heard == {<<t.peer, t.at, t.kind>> : t \in consuming}
<1>1. heard' = heard
  BY DEF Same
<1> QED
  BY <1>1 DEF Same, C!vars

\* The egress server finds a producer, and a consumer of it begins.
LEMMA ConsumeIsTune ==
    ASSUME Typed, RequestsAreQuiet, NEW r \in requests, NEW q \in r.from, Consume(r, q)
    PROVE  C!Next \/ Same
<1> USE DEF Typed
<1>1. r.peer \in Peers /\ r.kind \in Kinds /\ q \in Peers
  BY DEF Request
<1>2. UNCHANGED <<relayed, transport, consumers>>
  BY DEF Consume
<1>3. CASE transport[r.peer] = "receiving" /\ <<q, r.kind>> \in relayed
  <2> DEFINE new == [peer |-> r.peer, kind |-> r.kind, at |-> q, from |-> r.from \ {q}]
             tuning == {<<t.peer, t.at, t.kind>> : t \in consuming}
  <2>1. consuming' = consuming \cup {new}
    BY <1>3 DEF Consume
  <2>2. tuning' = tuning \cup {<<r.peer, q, r.kind>>}
    <3>1. new.peer = r.peer /\ new.at = q /\ new.kind = r.kind
      OBVIOUS
    <3> HIDE DEF new
    <3> QED
      BY <2>1, <3>1
  <2>3. C!Audible(r.peer, q, r.kind)
    BY DEF C!Audible, RequestsAreQuiet
  <2>4. r.peer \in {p \in Peers : transport[p] = "receiving"}
    BY <1>1, <1>3
  <2> HIDE DEF new
  <2>5. C!Tune(r.peer, q, r.kind)
    BY <1>2, <1>3, <2>2, <2>3, <2>4 DEF C!Tune
  <2> QED
    BY <1>1, <2>5 DEF C!Next
<1>4. CASE ~ (transport[r.peer] = "receiving" /\ <<q, r.kind>> \in relayed)
  <2>1. UNCHANGED consuming
    BY <1>4 DEF Consume
  <2> QED
    BY <1>2, <2>1 DEF Same
<1> QED
  BY <1>3, <1>4

\* What was begun is put into the tables.
LEMMA ConsumedIsHear ==
    ASSUME Typed, NEW t \in consuming, Consumed(t)
    PROVE  C!Next
<1> DEFINE tuning == {<<u.peer, u.at, u.kind>> : u \in consuming}
           hear == <<t.peer, t.at, t.kind>>
<1>1. t.peer \in Peers /\ t.at \in Peers /\ t.kind \in Kinds
  BY DEF Typed, Consuming
<1>2. hear \in tuning
  OBVIOUS
<1>3. consuming' = consuming \ {t}
  BY DEF Consumed
<1>4. tuning' \in {tuning, tuning \ {hear}}
  <2>1. tuning' \subseteq tuning
    BY <1>3
  <2>2. \A x \in tuning : x # hear => x \in tuning'
    BY <1>3
  <2> HIDE DEF tuning, hear
  <2> QED
    BY <2>1, <2>2
<1>5. consumers' = C!Sounding(consumers \cup {hear}, relayed, tuning')
  BY OpenIsSounding DEF Consumed
<1>6. UNCHANGED <<transport, relayed>>
  BY DEF Consumed
<1>7. C!Hear(t.peer, t.at, t.kind)
  BY <1>2, <1>4, <1>5, <1>6 DEF C!Hear
<1> QED
  BY <1>1, <1>7 DEF C!Next

\* Who is disconnected hears no more and is heard no more.
LEMMA DisconnectIsLeave ==
    ASSUME Typed, NEW p \in Peers, DisconnectTransport(p)
    PROVE  C!Next
<1> DEFINE tuning == {<<u.peer, u.at, u.kind>> : u \in consuming}
           listening == {o \in Peers : transport[o] = "receiving"}
<1>1. tuning' = tuning
  BY DEF DisconnectTransport
<1>2. listening' = listening \ {p}
  BY DEF DisconnectTransport, Typed
<1>3. relayed' = {s \in relayed : s[1] # p}
  BY DEF DisconnectTransport
<1>4. consumers' = C!Sounding({c \in consumers : c[1] # p}, relayed', tuning)
  BY OpenIsSounding DEF DisconnectTransport
<1>5. C!Leave(p)
  BY <1>1, <1>2, <1>3, <1>4 DEF C!Leave
<1> QED
  BY <1>5 DEF C!Next

\* Every step of the messages is one of the conference, or none.
LEMMA ConferenceStep ==
    ASSUME Typed, RequestsAreQuiet, [Next]_vars
    PROVE  [C!Next]_(C!vars)
<1> USE DEF Typed
<1>1. ASSUME NEW p \in Peers, JoinRoom(p) \/ CreateEgressTransport(p) \/ Disconnect(p)
      PROVE  Same
  BY <1>1 DEF Same, JoinRoom, CreateEgressTransport, Disconnect
<1>2. ASSUME NEW q \in Peers, NEW k \in Kinds,
             CreateProducer(q, k) \/ ConsumeAll(q, k) \/ CreatedRelayProducer(q, k)
      PROVE  Same
  BY <1>2 DEF Same, CreateProducer, ConsumeAll, CreatedRelayProducer
<1>3. ASSUME NEW p \in Peers, CreateWebRTCEgress(p)
      PROVE  C!Next
  <2> DEFINE listening == {o \in Peers : transport[o] = "receiving"}
             tuning == {<<u.peer, u.at, u.kind>> : u \in consuming}
  <2>1. listening' = listening \cup {p}
    BY <1>3 DEF CreateWebRTCEgress
  <2>2. UNCHANGED <<relayed, consumers>> /\ tuning' = tuning
    BY <1>3 DEF CreateWebRTCEgress
  <2>3. C!Listen(p)
    BY <2>1, <2>2 DEF C!Listen
  <2> QED
    BY <2>3 DEF C!Next
<1>4. ASSUME NEW q \in Peers, NEW k \in Kinds, CreateRelayProducer(q, k)
      PROVE  C!Next \/ Same
  <2>1. UNCHANGED <<transport, consuming, consumers>>
    BY <1>4 DEF CreateRelayProducer
  <2>2. CASE Refused(q, k)
    BY <1>4, <2>1, <2>2 DEF CreateRelayProducer, Same
  <2>3. CASE ~ Refused(q, k)
    <3> DEFINE tuning == {<<u.peer, u.at, u.kind>> : u \in consuming}
    <3>1. relayed' = relayed \cup {<<q, k>>} /\ tuning' = tuning
      BY <1>4, <2>1, <2>3 DEF CreateRelayProducer
    <3>2. C!Offer(q, k)
      BY <2>1, <3>1 DEF C!Offer
    <3> QED
      BY <3>2 DEF C!Next
  <2> QED
    BY <2>2, <2>3
<1>5. UNCHANGED vars => Same
  BY DEF vars, Same
<1>6. ASSUME NEW r \in requests, NEW q \in r.from, Consume(r, q)
      PROVE  C!Next \/ Same
  BY <1>6, ConsumeIsTune
<1>7. ASSUME NEW t \in consuming, Consumed(t)
      PROVE  C!Next
  BY <1>7, ConsumedIsHear
<1>8. ASSUME NEW p \in Peers, DisconnectTransport(p)
      PROVE  C!Next
  BY <1>8, DisconnectIsLeave
<1>9. C!Next \/ Same
  BY <1>1, <1>2, <1>3, <1>4, <1>5, <1>6, <1>7, <1>8 DEF Next, Announce, Egress
<1> QED
  BY <1>9, SameIsNone

\* The messages of the API, the egress server and the clients implement the
\* conference, a consumer being begun and put into the tables in two steps: one
\* begins to hear only what there is, while one listens, and who leaves is heard
\* only until what was begun is done.
THEOREM ImplementsConference == Spec => ConferenceSpec
<1>1. Init => C!Init
  BY DEF Init, C!Init
<1>2. Typed /\ RequestsAreQuiet /\ [Next]_vars => [C!Next]_(C!vars)
  BY ConferenceStep
<1>3. IInv => Typed /\ RequestsAreQuiet
  BY TypeParts DEF IInv
<1> QED
  BY <1>1, <1>2, <1>3, InductiveInvariant, PTL DEF Spec, ConferenceSpec, C!Spec

=============================================================================
