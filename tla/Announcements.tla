---------------------------- MODULE Announcements ----------------------------
(***************************************************************************)
(* How a peer comes to hear the others of its room.                        *)
(*                                                                         *)
(* A consumer of q's producer at p's egress server is asked for twice: by  *)
(* p, which asks once for everything of a kind there is (consumeAllAudio   *)
(* and its like), and by the peerManager, which announces every producer   *)
(* relayed to an egress server to the peers of the room                    *)
(* (createdRelayProducer, createConsumerMessages).  Neither is repeated,   *)
(* so that they have to cover each other's gaps whatever the order in      *)
(* which the API process, the tasks of the egress server and the client    *)
(* proceed.                                                                *)
(*                                                                         *)
(* One room and one egress server: the filter on rooms and the fan-out to  *)
(* the egress servers of a room are those of PeerConnectionManager, and a  *)
(* server serves only the peers whose receive transport it has.  A peer    *)
(* enters once.  How often a consumer is created is not counted.           *)
(***************************************************************************)
EXTENDS Naturals, Sequences, FiniteSets

CONSTANTS
    Peers,
    Asking,     \* the kinds a client asks for, in order
    MediaKinds, \* the kinds served by consume_audio and consume_video
    Movement,   \* the kind whose request ends the lobby
    Events,     \* the kind of the frame events
    Leavers,    \* the peers that may leave
    MayProduce  \* bound: the sets of producers that may be created together

Kinds == {Asking[i] : i \in DOMAIN Asking}

ASSUME AnnouncementsAssumption ==
    /\ Asking \in Seq(Kinds)
    /\ MediaKinds \subseteq Kinds
    /\ Movement # Events
    /\ {Movement, Events} \cap MediaKinds = {}
    /\ \E m \in DOMAIN Asking :
          /\ Asking[m] = Movement
          /\ \A i \in DOMAIN Asking : i < m => Asking[i] \in MediaKinds
    /\ Leavers \subseteq Peers
    /\ MayProduce \subseteq SUBSET (Peers \X Kinds)

VARIABLES
    stage,      \* of a peer at the API: "out", "lobby", "in", "gone"
    asked,      \* the kinds a peer of the room has asked for
    transport,  \* of a peer at the egress: "none", "requested", "receiving", "closed"
    produced,   \* producers at the ingress, of which the egress was told
    relaying,   \* createRelayProducer messages the egress has not handled
    relayed,    \* producers that exist at the egress
    created,    \* createdRelayProducer messages the API has not handled
    requests,   \* consume messages the egress works on
    consuming,  \* of these, the producer a task is making a consumer of
    leaving,    \* disconnectTransport messages the egress has not handled
    consumers,  \* <<p, q, k>>: p has a consumer of q's producer of kind k
    skipped,    \* (history) left out of an announcement, in the lobby, after p asked
    early       \* (history) handled before p had its receive transport

vars == <<stage, asked, transport, produced, relaying, relayed, created,
          requests, consuming, leaving, consumers, skipped, early>>

DataKinds == Kinds \ MediaKinds

Triples == Peers \X Peers \X Kinds

Request == [peer : Peers, kind : Kinds, from : SUBSET Peers]

Consuming == [peer : Peers, kind : Kinds, at : Peers, from : SUBSET Peers]

\* What has been asked for when the first i requests are sent.
First(i) == {Asking[j] : j \in 1..i}

\* The type of the state; a client asks in order.
TypeOK ==
    /\ stage \in [Peers -> {"out", "lobby", "in", "gone"}]
    /\ asked \in [Peers -> {First(i) : i \in 0..Len(Asking)}]
    /\ transport \in [Peers -> {"none", "requested", "receiving", "closed"}]
    /\ produced \subseteq Peers \X Kinds
    /\ relaying \subseteq Peers \X Kinds
    /\ relayed \subseteq Peers \X Kinds
    /\ created \subseteq Peers \X Kinds
    /\ requests \subseteq Request
    /\ consuming \subseteq Consuming
    /\ leaving \subseteq Peers
    /\ consumers \subseteq Triples
    /\ skipped \subseteq Triples
    /\ early \subseteq Triples

Present == {p \in Peers : stage[p] \in {"lobby", "in"}}

Init ==
    /\ stage = [p \in Peers |-> "out"]
    /\ asked = [p \in Peers |-> {}]
    /\ transport = [p \in Peers |-> "none"]
    /\ produced = {} /\ relaying = {} /\ relayed = {} /\ created = {}
    /\ requests = {} /\ consuming = {} /\ leaving = {}
    /\ consumers = {} /\ skipped = {} /\ early = {}

-----------------------------------------------------------------------------
(* The peerManager, which handles one message at a time.                   *)

JoinRoom(p) ==
    /\ stage[p] = "out"
    /\ stage' = [stage EXCEPT ![p] = "lobby"]
    /\ UNCHANGED <<asked, transport, produced, relaying, relayed, created,
                   requests, consuming, leaving, consumers, skipped, early>>

\* The client asks for the transport when it is told of the room, before it
\* asks for any consumer; it does not wait for the answer.
CreateEgressTransport(p) ==
    /\ p \in Present
    /\ transport[p] = "none"
    /\ transport' = [transport EXCEPT ![p] = "requested"]
    /\ UNCHANGED <<stage, asked, produced, relaying, relayed, created,
                   requests, consuming, leaving, consumers, skipped, early>>

\* createAudioProducer, createVideoProducer, createDataProducer and
\* createEventProducer, and the ingress server that relays what it creates.
CreateProducer(q, k) ==
    /\ q \in Present
    /\ <<q, k>> \notin produced
    /\ \E may \in MayProduce : produced \cup {<<q, k>>} \subseteq may
    /\ produced' = produced \cup {<<q, k>>}
    /\ relaying' = relaying \cup {<<q, k>>}
    /\ UNCHANGED <<stage, asked, transport, relayed, created, requests,
                   consuming, leaving, consumers, skipped, early>>

\* Variants of the definitions that follow them, each with one mistake in it,
\* are marked "Mistake"; a run checks that its property notices it.

\* Mistake: the peers of the lobby are included.
ConsumerMessagesToLobby(q, k) ==
    {[peer |-> p, kind |-> k, from |-> {q}] :
        p \in {p \in Present : q \in Present /\ (p # q \/ k = Events)}}

\* createConsumerMessages: the peers of the producer's room, but the producer
\* (unless they are frame events) and those in the lobby.
ConsumerMessages(q, k) ==
    {[peer |-> p, kind |-> k, from |-> {q}] :
        p \in {p \in Present : /\ q \in Present
                               /\ p # q \/ k = Events
                               /\ stage[p] = "in"}}

\* Mistake: a producer is announced when nobody is in the lobby any more.
CreatedRelayProducerWaits(q, k) ==
    /\ <<q, k>> \in created
    /\ \A p \in Present : stage[p] = "in"
    /\ created' = created \ {<<q, k>>}
    /\ requests' = requests \cup ConsumerMessages(q, k)
    /\ UNCHANGED <<stage, asked, transport, produced, relaying, relayed,
                   consuming, leaving, consumers, skipped, early>>

\* The egress server has q's producer; what it created is announced.
CreatedRelayProducer(q, k) ==
    /\ <<q, k>> \in created
    /\ created' = created \ {<<q, k>>}
    /\ requests' = requests \cup ConsumerMessages(q, k)
    /\ skipped' = skipped \cup
           {<<p, q, k>> : p \in {p \in Present \ {q} : /\ q \in Present
                                                       /\ stage[p] = "lobby"
                                                       /\ k \in asked[p]}}
    /\ UNCHANGED <<stage, asked, transport, produced, relaying, relayed,
                   consuming, leaving, consumers, early>>

\* Mistake: the lobby ends with the last request instead.
EndsLobbyLate(k) == k = Asking[Len(Asking)]

\* consumeAllMovement ends the lobby before it lists the producers.
EndsLobby(k) == k = Movement

\* Mistake: the client asks in any order.
ConsumeAllUnordered(p, k) ==
    /\ p \in Present
    /\ transport[p] # "none"
    /\ k \notin asked[p]
    /\ asked' = [asked EXCEPT ![p] = @ \cup {k}]
    /\ stage' = IF EndsLobby(k) THEN [stage EXCEPT ![p] = "in"] ELSE stage
    /\ requests' = requests \cup
           {r \in {[peer |-> p, kind |-> k, from |-> Present \ {p}]} : r.from # {}}
    /\ UNCHANGED <<transport, produced, relaying, relayed, created, consuming,
                   leaving, consumers, skipped, early>>

\* consumeAllAudio, consumeAllVideo, consumeAllMovement and consumeAllEvents:
\* the client asks in this order, for all other peers of the room.  A request
\* for nobody has no effect.
ConsumeAll(p, k) ==
    /\ p \in Present
    /\ transport[p] # "none"
    /\ \E i \in DOMAIN Asking :
          /\ Asking[i] = k
          /\ asked[p] = First(i - 1)
    /\ k \notin asked[p]
    /\ asked' = [asked EXCEPT ![p] = @ \cup {k}]
    /\ stage' = IF EndsLobby(k) THEN [stage EXCEPT ![p] = "in"] ELSE stage
    /\ requests' = requests \cup
           {r \in {[peer |-> p, kind |-> k, from |-> Present \ {p}]} : r.from # {}}
    /\ UNCHANGED <<transport, produced, relaying, relayed, created, consuming,
                   leaving, consumers, skipped, early>>

\* disconnectPeerWebsocket.
Disconnect(p) ==
    /\ p \in Leavers \cap Present
    /\ stage' = [stage EXCEPT ![p] = "gone"]
    /\ leaving' = leaving \cup {p}
    /\ asked' = [asked EXCEPT ![p] = {}]
    /\ skipped' = {c \in skipped : p \notin {c[1], c[2]}}
    /\ early' = {c \in early : p \notin {c[1], c[2]}}
    /\ UNCHANGED <<transport, produced, relaying, relayed, created, requests,
                   consuming, consumers>>

-----------------------------------------------------------------------------
(* The tasks of the egress server, in any order.                           *)

CreateWebRTCEgress(p) ==
    /\ transport[p] = "requested"
    /\ transport' = [transport EXCEPT ![p] = "receiving"]
    /\ UNCHANGED <<stage, asked, produced, relaying, relayed, created,
                   requests, consuming, leaving, consumers, skipped, early>>

\* A data producer is refused once its peer's event producer is relayed.
Refused(q, k) == k \in DataKinds /\ <<q, Events>> \in relayed

\* The producer is in the table before the API is told of it.
CreateRelayProducer(q, k) ==
    /\ <<q, k>> \in relaying
    /\ relaying' = relaying \ {<<q, k>>}
    /\ IF Refused(q, k)
       THEN UNCHANGED <<relayed, created>>
       ELSE /\ relayed' = relayed \cup {<<q, k>>}
            /\ created' = created \cup {<<q, k>>}
    /\ UNCHANGED <<stage, asked, transport, produced, requests, consuming,
                   leaving, consumers, skipped, early>>

\* What is left to do of a request when the peers in done are dealt with.
Left(p, k, from, done) ==
    {r \in {[peer |-> p, kind |-> k, from |-> from \ done]} : r.from # {}}

\* consume_audio, consume_video, consume_movement and consume_event, one
\* producer of the request at a time, up to the await of consume: the task holds
\* the producer and the transport it has found.  Without a transport
\* consume_audio and consume_video give up, the others go on.
Consume(r, q) ==
    LET served == transport[r.peer] = "receiving"
        there  == <<q, r.kind>> \in relayed
        rest   == Left(r.peer, r.kind, r.from, {q})
    IN  /\ r \in requests
        /\ q \in r.from
        /\ requests' = (requests \ {r}) \cup
               IF there /\ (served \/ r.kind \in MediaKinds) THEN {} ELSE rest
        /\ consuming' = IF there /\ served
                        THEN consuming \cup {[peer |-> r.peer, kind |-> r.kind,
                                              at |-> q, from |-> r.from \ {q}]}
                        ELSE consuming
        /\ early' = IF there /\ ~ served /\ r.peer \in Present
                    THEN early \cup {<<r.peer, o, r.kind>> : o \in Present \cap
                             IF r.kind \in MediaKinds THEN r.from ELSE {q}}
                    ELSE early
        /\ UNCHANGED <<stage, asked, transport, produced, relaying, relayed,
                       created, leaving, consumers, skipped>>

\* mediasoup closes the consumers of a producer with it, which is when neither a
\* table nor a task holds it any more.
Open(all, producers, tasks) ==
    {c \in all : \/ <<c[2], c[3]>> \in producers
                \/ \E t \in tasks : t.at = c[2] /\ t.kind = c[3]}

\* The rest of the handler: the consumer is put into the tables, whoever has gone
\* meanwhile, and the task goes on to the next producer of the request.
Consumed(t) ==
    /\ t \in consuming
    /\ consuming' = consuming \ {t}
    /\ consumers' = Open(consumers \cup {<<t.peer, t.at, t.kind>>}, relayed, consuming')
    /\ requests' = requests \cup Left(t.peer, t.kind, t.from, {})
    /\ UNCHANGED <<stage, asked, transport, produced, relaying, relayed,
                   created, leaving, skipped, early>>

\* Mistake: only what the peer hears is closed.
DisconnectTransportHalf(p) ==
    /\ p \in leaving
    /\ leaving' = leaving \ {p}
    /\ transport' = IF transport[p] = "receiving"
                    THEN [transport EXCEPT ![p] = "closed"] ELSE transport
    /\ relayed' = {s \in relayed : s[1] # p}
    /\ consumers' = {c \in consumers : c[1] # p}
    /\ UNCHANGED <<stage, asked, produced, relaying, created, requests,
                   consuming, skipped, early>>

\* The peer's transport, producers and consumers are taken from the tables.
\* What a task creates later is kept.
DisconnectTransport(p) ==
    /\ p \in leaving
    /\ leaving' = leaving \ {p}
    /\ transport' = IF transport[p] = "receiving"
                    THEN [transport EXCEPT ![p] = "closed"] ELSE transport
    /\ relayed' = {s \in relayed : s[1] # p}
    /\ consumers' = Open({c \in consumers : c[1] # p}, relayed', consuming)
    /\ UNCHANGED <<stage, asked, produced, relaying, created, requests,
                   consuming, skipped, early>>

-----------------------------------------------------------------------------
Announce == \E q \in Peers, k \in Kinds : CreatedRelayProducer(q, k)

Egress ==
    \/ \E p \in Peers : CreateWebRTCEgress(p)
    \/ \E q \in Peers, k \in Kinds : CreateRelayProducer(q, k)
    \/ \E r \in requests : \E q \in r.from : Consume(r, q)
    \/ \E t \in consuming : Consumed(t)
    \/ \E p \in Peers : DisconnectTransport(p)

Next ==
    \/ \E p \in Peers : JoinRoom(p) \/ CreateEgressTransport(p) \/ Disconnect(p)
    \/ \E q \in Peers, k \in Kinds : CreateProducer(q, k)
    \/ \E p \in Peers, k \in Kinds : ConsumeAll(p, k)
    \/ Announce
    \/ Egress

Spec == Init /\ [][Next]_vars

\* Messages that were sent are handled: the API reads its queue, the egress
\* server polls its tasks.  Clients may stop anywhere.
FairSpec == Spec /\ WF_vars(Announce) /\ WF_vars(Egress)

-----------------------------------------------------------------------------
(* Properties.                                                             *)

Pending(p, q, k) ==
    \/ <<q, k>> \in created
    \/ \E r \in requests : r.peer = p /\ r.kind = k /\ q \in r.from
    \/ \E t \in consuming : t.peer = p /\ t.kind = k /\ q \in t.from \cup {t.at}

\* Between its request for audio and its request for movement a peer is in the
\* lobby and left out of announcements; movement and events have no such gap.
Settled(p, q, k) ==
    \/ <<p, q, k>> \in consumers \cup early
    \/ k \in MediaKinds /\ <<p, q, k>> \in skipped

\* Once a peer has asked for a kind, every producer of the kind at its egress
\* server is consumed, or a message that will have it consumed is on its way;
\* or the request came before the peer's transport, or (audio and video only)
\* the announcement while the peer was in the lobby.  No order of the requests,
\* the relays and the announcements leaves a producer out otherwise.
EveryoneServed ==
    \A p, q \in Present, k \in Kinds :
        p # q /\ k \in asked[p] /\ <<q, k>> \in relayed
            => Settled(p, q, k) \/ Pending(p, q, k)

\* A peer in the lobby has no consumer it has not asked for, and nobody has one
\* of its own producers but for frame events.
LobbyIsQuiet ==
    \A c \in consumers :
        /\ c[1] = c[2] => c[3] = Events
        /\ stage[c[1]] = "lobby" => c[3] \in asked[c[1]]

\* The messages bring about nothing but what a conference allows: one begins to
\* hear only what there is, while one listens; who leaves hears no more, but for
\* what it was beginning to hear, and is heard no more as soon as nobody is
\* beginning to hear it.
C == INSTANCE Conference
         WITH OwnKinds <- {Events},
              listening <- {p \in Peers : transport[p] = "receiving"},
              sources <- relayed,
              tuning <- {<<t.peer, t.at, t.kind>> : t \in consuming},
              hears <- consumers

ConferenceSpec == C!Spec

\* What is pending is settled: again and again there is a moment when every
\* producer of a kind a peer has asked for is heard, but for the gaps above.
ServedEventually ==
    []<>(\A p, q \in Present, k \in Kinds :
            p # q /\ k \in asked[p] /\ <<q, k>> \in relayed => Settled(p, q, k))
=============================================================================
