---------------------------- MODULE PeerIndicators ----------------------------
(***************************************************************************)
(* What the peers of a room know of each other, and whom they hear.        *)
(*                                                                         *)
(* A client tells the others how it looks and in which voice zone it is by *)
(* partial updates (peerIndicators), which the peerManager passes on to    *)
(* whoever is in the room at that moment.  A client that gets indicators   *)
(* of somebody it does not know creates the peer and replies with its own  *)
(* (replyPeerIndicators).  It does so even if they tell of neither facade  *)
(* nor avatar, as those that name a client's bound assets, and then knows  *)
(* as little of the peer as before.  A client mutes the peers of other     *)
(* zones, also those whose audio consumer has not arrived yet.  Modelled   *)
(* are the harness of the main line, the avatar and the peerManager, for   *)
(* one room.                                                               *)
(*                                                                         *)
(* The websocket keeps each direction of a client in order.  A facade is   *)
(* a version number; of the avatar's state the voice zone and audioMuted   *)
(* have an effect and are kept.  Nobody calls setFacade with broadcast =   *)
(* false.  Whom the peerManager counts in the room is PeerConnectionManager*)
(* 's matter; here leaveRoom may close the room under those who stay.      *)
(***************************************************************************)
EXTENDS Naturals, Sequences, FiniteSets

CONSTANTS
    Peers,
    Zones,
    MainZone,   \* the zone a client starts in
    Walkers,    \* the peers whose zone changes
    Undefined,  \* an indicator that is not given
    NoPeer,     \* no entry in the store
    MaxChanges, \* bound on the changes of indicators
    Movers,     \* the peers that may leave the room and enter again, once
    Closers     \* the peers that may close their tab

ASSUME IndicatorsAssumption ==
    /\ MainZone \in Zones
    /\ Walkers \subseteq Peers
    /\ Movers \cup Closers \subseteq Peers
    /\ MaxChanges \in Nat

VARIABLES
    place,      \* of a client: "out", "joining", "lobby", "frame", "closed"
    self,       \* its own indicators
    store,      \* what it knows of the others (peerState)
    peersMap,   \* the peers it has created and shows (PeerManager)
    hush,       \* audioConsumerState: "unset", "mute" or "unmute"
    consumer,   \* its consumer of a peer's microphone: "none", "playing", "paused"
    present,    \* the peers that are in the room for the peerManager
    room,       \* whether the peerManager has an entry of the room in rooms
    counter,    \* and one in peerCount
    up,         \* messages from a client to the peerManager
    down,       \* messages from the peerManager to a client
    changes,    \* how often indicators changed
    moved,      \* (history) the peers that left the room
    faceless,   \* (history) <<p, q>>: p heard of q, which it did not know, by a
                \* change of q's avatar or assets, while q took part already
    unsaid      \* (history) the peers whose leaving was not announced

client == <<self, hush, consumer, changes, moved>>

vars == <<place, client, store, peersMap, present, room, counter, up, down,
          faceless, unsaid>>

Looks == 0..MaxChanges

Indicators == [look  : Looks \cup {Undefined},
               zone  : Zones \cup {Undefined},
               muted : BOOLEAN \cup {Undefined}]

\* Undefined and NoPeer are values of their own.
ASSUME UndefinedAssumption ==
    /\ Undefined \notin Looks /\ Undefined \notin Zones /\ Undefined \notin BOOLEAN
    /\ NoPeer \notin Indicators

Nothing == [look |-> Undefined, zone |-> Undefined, muted |-> Undefined]

Message ==
         [type : {"joinRoom", "leaveRoom", "closed", "joined"}]
    \cup [type : {"peerIndicators", "reply", "peerDisconnect"},
          peer : Peers, body : Indicators]

\* The type of the state; nobody is a peer of its own.
TypeOK ==
    /\ place \in [Peers -> {"out", "joining", "lobby", "frame", "closed"}]
    /\ self \in [Peers -> Indicators]
    /\ store \in [Peers -> [Peers -> Indicators \cup {NoPeer}]]
    /\ peersMap \in [Peers -> SUBSET Peers]
    /\ \A p \in Peers : store[p][p] = NoPeer /\ p \notin peersMap[p]
    /\ hush \in [Peers -> [Peers -> {"unset", "mute", "unmute"}]]
    /\ consumer \in [Peers -> [Peers -> {"none", "playing", "paused"}]]
    /\ present \subseteq Peers
    /\ room \in BOOLEAN /\ counter \in BOOLEAN
    /\ up \in [Peers -> Seq(Message)]
    /\ down \in [Peers -> Seq(Message)]
    /\ changes \in 0..MaxChanges
    /\ moved \subseteq Movers
    /\ faceless \subseteq Peers \X Peers
    /\ unsaid \subseteq Peers

Init ==
    /\ place = [p \in Peers |-> "out"]
    /\ self = [p \in Peers |-> [look |-> 0, zone |-> MainZone, muted |-> FALSE]]
    /\ store = [p \in Peers |-> [q \in Peers |-> NoPeer]]
    /\ peersMap = [p \in Peers |-> {}]
    /\ hush = [p \in Peers |-> [q \in Peers |-> "unset"]]
    /\ consumer = [p \in Peers |-> [q \in Peers |-> "none"]]
    /\ present = {} /\ room = FALSE /\ counter = FALSE
    /\ up = [p \in Peers |-> <<>>]
    /\ down = [p \in Peers |-> <<>>]
    /\ changes = 0
    /\ moved = {}
    /\ faceless = {}
    /\ unsaid = {}

Signal(t) == [type |-> t]
Tell(t, p, body) == [type |-> t, peer |-> p, body |-> body]

Send(p, msgs) == up' = [up EXCEPT ![p] = @ \o msgs]

\* Variants of the definitions that follow them, each with one mistake in it,
\* are marked "Mistake"; a run checks that its property notices it.

\* Mistake: a look that is known is not replaced.
MergeKeepsLook(old, new) ==
    [i \in DOMAIN new |->
        IF new[i] # Undefined /\ (old = NoPeer \/ i # "look" \/ old[i] = Undefined)
        THEN new[i]
        ELSE IF old = NoPeer THEN Undefined ELSE old[i]]

\* updatePeer: what is given replaces what is known.
Merge(old, new) ==
    [i \in DOMAIN new |-> IF new[i] # Undefined THEN new[i]
                          ELSE IF old = NoPeer THEN Undefined ELSE old[i]]

-----------------------------------------------------------------------------
(* A client.                                                               *)

EnterFrame(p) ==
    /\ place[p] = "out"
    /\ place' = [place EXCEPT ![p] = "joining"]
    /\ Send(p, <<Signal("joinRoom")>>)
    /\ UNCHANGED <<client, store, peersMap, present, room, counter, down, faceless,
                   unsaid>>

\* participate: the whole facade; what it tells of the avatar is not kept here.
Participate(p) ==
    /\ place[p] = "lobby"
    /\ place' = [place EXCEPT ![p] = "frame"]
    /\ Send(p, <<Tell("peerIndicators", p, [Nothing EXCEPT !.look = self[p].look])>>)
    /\ UNCHANGED <<client, store, peersMap, present, room, counter, down, faceless,
                   unsaid>>

\* setFacade and setAvatar: the change is kept and sent.
Change(p, new) ==
    /\ place[p] \in {"lobby", "frame"}
    /\ changes < MaxChanges
    /\ changes' = changes + 1
    /\ self' = [self EXCEPT ![p] = Merge(@, new)]
    /\ Send(p, <<Tell("peerIndicators", p, new)>>)
    /\ UNCHANGED <<place, store, peersMap, hush, consumer, present, room, counter,
                   down, moved, faceless, unsaid>>

SetFacade(p) == Change(p, [Nothing EXCEPT !.look = changes + 1])

SetZone(p) ==
    /\ p \in Walkers
    /\ \E z \in Zones \ {self[p].zone} : Change(p, [Nothing EXCEPT !.zone = z])

SetMuted(p) == Change(p, [Nothing EXCEPT !.muted = ~ self[p].muted])

\* sendAssetBindings tells of neither facade nor avatar.  It is debounced, so that
\* it may come when the client has left the room.
SendAssetBindings(p) ==
    /\ \/ place[p] \in {"lobby", "frame"}
       \/ p \in moved /\ place[p] # "closed"
    /\ changes < MaxChanges
    /\ changes' = changes + 1
    /\ Send(p, <<Tell("peerIndicators", p, Nothing)>>)
    /\ UNCHANGED <<place, self, hush, consumer, moved, store, peersMap, present,
                   room, counter, down, faceless, unsaid>>

\* leaveFrame: Leave_handler deletes the peers and empties the store; the consumers
\* are closed, and audioConsumerState is kept.
LeaveFrame(p) ==
    /\ place[p] \in {"lobby", "frame"}
    /\ p \in Movers \ moved
    /\ place' = [place EXCEPT ![p] = "out"]
    /\ store' = [store EXCEPT ![p] = [q \in Peers |-> NoPeer]]
    /\ peersMap' = [peersMap EXCEPT ![p] = {}]
    /\ consumer' = [consumer EXCEPT ![p] = [q \in Peers |-> "none"]]
    /\ moved' = moved \cup {p}
    /\ Send(p, <<Signal("leaveRoom")>>)
    /\ UNCHANGED <<self, hush, present, room, counter, down, changes, faceless,
                   unsaid>>

CloseTab(p) ==
    /\ p \in Closers
    /\ place[p] # "closed"
    /\ place' = [place EXCEPT ![p] = "closed"]
    /\ down' = [down EXCEPT ![p] = <<>>]
    /\ Send(p, <<Signal("closed")>>)
    /\ UNCHANGED <<client, store, peersMap, present, room, counter, faceless, unsaid>>

\* mutePeer: the intent is kept for a consumer that comes later.
Muted(p, q, mute) ==
    /\ hush' = [hush EXCEPT ![p][q] = IF mute THEN "mute" ELSE "unmute"]
    /\ consumer' = IF consumer[p][q] = "none" THEN consumer
                   ELSE [consumer EXCEPT ![p][q] =
                            IF mute THEN "paused" ELSE "playing"]

\* Mistake: what was asked for before the consumer came is forgotten.
AudioAnnouncementUnmuted(p, q) ==
    /\ p # q
    /\ place[p] = "frame"
    /\ {p, q} \subseteq present
    /\ consumer[p][q] = "none"
    /\ consumer' = [consumer EXCEPT ![p][q] = "playing"]
    /\ UNCHANGED <<place, self, store, peersMap, hush, present, room, counter, up,
                   down, changes, moved, faceless, unsaid>>

\* A consumer of q's microphone arrives.
AudioAnnouncement(p, q) ==
    /\ p # q
    /\ place[p] = "frame"
    /\ {p, q} \subseteq present
    /\ consumer[p][q] = "none"
    /\ consumer' = [consumer EXCEPT ![p][q] =
                       IF hush[p][q] = "mute" THEN "paused" ELSE "playing"]
    /\ UNCHANGED <<place, self, store, peersMap, hush, present, room, counter, up,
                   down, changes, moved, faceless, unsaid>>

\* Mistake: audioMuted has its way whatever the zone.
VerdictAnyZone(p, q, body) ==
    IF body.muted # Undefined THEN body.muted
    ELSE IF body.zone # Undefined THEN body.zone # self[p].zone ELSE Undefined

\* The verdicts of PeerIndicators_handler on a message: the zone it names, then
\* audioMuted if the peer's zone, as known before, is the own one.
Verdict(p, q, body) ==
    LET mine  == self[p].zone
        known == IF store[p][q] = NoPeer THEN Undefined ELSE store[p][q].zone
    IN  IF body.muted # Undefined /\ known = mine
        THEN body.muted
        ELSE IF body.zone # Undefined THEN body.zone # mine ELSE Undefined

\* What is told is kept, if it is of the facade or of the avatar at all.
Learn(p, m) ==
    store' = IF m.body = Nothing THEN store
             ELSE [store EXCEPT ![p][m.peer] = Merge(@, m.body)]

\* Mistake: a peer that is not known yet gets no reply.
IndicatorsWithoutReply(p, m) ==
    LET v == Verdict(p, m.peer, m.body)
    IN  /\ IF v = Undefined THEN UNCHANGED <<hush, consumer>>
           ELSE Muted(p, m.peer, v)
        /\ Learn(p, m)
        /\ peersMap' = [peersMap EXCEPT ![p] = @ \cup {m.peer}]
        /\ UNCHANGED up

\* Mistake: the reply tells of the avatar only.
IndicatorsReplyAvatar(p, m) ==
    LET v == Verdict(p, m.peer, m.body)
    IN  /\ IF v = Undefined THEN UNCHANGED <<hush, consumer>>
           ELSE Muted(p, m.peer, v)
        /\ Learn(p, m)
        /\ peersMap' = [peersMap EXCEPT ![p] = @ \cup {m.peer}]
        /\ IF store[p][m.peer] = NoPeer /\ m.type = "peerIndicators"
           THEN Send(p, <<Tell("reply", m.peer, [self[p] EXCEPT !.look = Undefined])>>)
           ELSE UNCHANGED up

\* PeerIndicators_handler: a peer of which neither facade nor avatar is known is
\* created, and gets a reply with everything unless this is one.
PeerIndicatorsHandler(p, m) ==
    LET v   == Verdict(p, m.peer, m.body)
        new == store[p][m.peer] = NoPeer
    IN  /\ IF v = Undefined THEN UNCHANGED <<hush, consumer>>
           ELSE Muted(p, m.peer, v)
        /\ Learn(p, m)
        /\ peersMap' = IF new THEN [peersMap EXCEPT ![p] = @ \cup {m.peer}]
                       ELSE peersMap
        /\ IF new /\ m.type = "peerIndicators"
           THEN Send(p, <<Tell("reply", m.peer, self[p])>>)
           ELSE UNCHANGED up

\* closeConsumersForPeer returns early, and leaves the audio consumer, if there
\* is no movement consumer.
CloseConsumersForPeer(p, q) ==
    \E c \in {"none", consumer[p][q]} : consumer' = [consumer EXCEPT ![p][q] = c]

PeerDisconnectHandler(p, q) ==
    /\ CloseConsumersForPeer(p, q)
    /\ store' = [store EXCEPT ![p][q] = NoPeer]
    /\ peersMap' = [peersMap EXCEPT ![p] = @ \ {q}]
    /\ UNCHANGED <<hush, up>>

\* incomingSignal.
IncomingSignal(p) ==
    /\ place[p] # "closed"
    /\ down[p] # <<>>
    /\ LET m == Head(down[p])
       IN  /\ down' = [down EXCEPT ![p] = Tail(@)]
           /\ place' = IF m.type = "joined" /\ place[p] = "joining"
                       THEN [place EXCEPT ![p] = "lobby"] ELSE place
           /\ CASE m.type = "joined" -> UNCHANGED <<store, peersMap, hush, consumer, up>>
                [] m.type = "peerDisconnect" -> PeerDisconnectHandler(p, m.peer)
                [] OTHER -> PeerIndicatorsHandler(p, m)
           /\ faceless' = IF /\ m.type = "peerIndicators"
                            /\ store[p][m.peer] = NoPeer
                            /\ m.body.look = Undefined /\ place[m.peer] = "frame"
                         THEN faceless \cup {<<p, m.peer>>} ELSE faceless
    /\ UNCHANGED <<self, present, room, counter, changes, moved, unsaid>>

-----------------------------------------------------------------------------
(* The peerManager, which handles one message at a time.                   *)

\* Append m to what goes to each of the peers in ps, unless its tab is closed.
Cast(ps, m) ==
    down' = [p \in Peers |-> IF p \in ps /\ place[p] # "closed"
                             THEN Append(down[p], m) ELSE down[p]]

Announce(p) == Cast(present \ {p}, Tell("peerDisconnect", p, Nothing))

\* joinRoom makes the entry of the room, but no counter.
JoinRoom(p) ==
    /\ present' = present \cup {p}
    /\ room' = TRUE
    /\ Cast({p}, Signal("joined"))
    /\ UNCHANGED <<counter, unsaid>>

\* leaveRoom returns early without the room, before it announces anything, and
\* without the counter; the peer stays in the room then.  It closes the room if it
\* counts nobody who takes part or waits in the lobby.
LeaveRoom(p) ==
    IF room
    THEN /\ Announce(p)
         /\ present' = IF counter THEN present \ {p} ELSE present
         /\ \/ UNCHANGED <<room, counter>>
            \/ counter /\ room' = FALSE /\ counter' = FALSE
         /\ UNCHANGED unsaid
    ELSE /\ unsaid' = unsaid \cup {p}
         /\ UNCHANGED <<present, down, room, counter>>

\* Mistake: the others are not told.
DisconnectPeerWebsocketSilently(p) ==
    /\ present' = IF counter THEN present \ {p} ELSE present
    /\ UNCHANGED <<down, room, counter, unsaid>>

\* disconnectPeerWebsocket: without the room the peer is deleted silently; without
\* the counter it throws, and the peer stays in the room.  The last one closes it.
DisconnectPeerWebsocket(p) ==
    CASE p \notin present -> UNCHANGED <<present, down, room, counter, unsaid>>
      [] p \in present /\ room /\ counter ->
            /\ present' = present \ {p}
            /\ room' = (present' # {}) /\ counter' = (present' # {})
            /\ Announce(p)
            /\ UNCHANGED unsaid
      [] OTHER ->
            /\ unsaid' = unsaid \cup {p}
            /\ present' = IF room THEN present ELSE present \ {p}
            /\ UNCHANGED <<down, room, counter>>

\* Mistake: indicators are sent to everybody in the room.
SendPeerIndicatorsToAll(p, m) ==
    /\ Cast(IF p \in present THEN present ELSE {}, m)
    /\ UNCHANGED <<present, room, counter, unsaid>>

\* sendPeerIndicators: to the others in the sender's room, if it is in one.
SendPeerIndicators(p, m) ==
    /\ Cast(IF p \in present THEN present \ {p} ELSE {}, m)
    /\ UNCHANGED <<present, room, counter, unsaid>>

\* replyPeerIndicators: to the peer it is for, wherever that is.
ReplyPeerIndicators(p, m) ==
    /\ Cast({m.peer}, Tell("reply", p, m.body))
    /\ UNCHANGED <<present, room, counter, unsaid>>

Command(p) ==
    /\ up[p] # <<>>
    /\ LET m == Head(up[p])
       IN  /\ up' = [up EXCEPT ![p] = Tail(@)]
           /\ CASE m.type = "joinRoom" -> JoinRoom(p)
                [] m.type = "leaveRoom" -> LeaveRoom(p)
                [] m.type = "closed" -> DisconnectPeerWebsocket(p)
                [] m.type = "peerIndicators" -> SendPeerIndicators(p, m)
                [] m.type = "reply" -> ReplyPeerIndicators(p, m)
    /\ UNCHANGED <<place, client, store, peersMap, faceless>>

\* createIngressTransport and getRoomMetrics make a counter that is missing.
CreateCounter ==
    /\ ~ counter
    /\ \E p \in Peers : place[p] # "closed"
    /\ counter' = TRUE
    /\ UNCHANGED <<place, client, store, peersMap, present, room, up, down, faceless,
                   unsaid>>

-----------------------------------------------------------------------------
Deliver == \E p \in Peers : Command(p) \/ IncomingSignal(p)

Next ==
    \/ \E p \in Peers : \/ EnterFrame(p) \/ Participate(p) \/ LeaveFrame(p)
                        \/ CloseTab(p)
                        \/ SetFacade(p) \/ SetZone(p) \/ SetMuted(p)
                        \/ SendAssetBindings(p)
    \/ \E p, q \in Peers : AudioAnnouncement(p, q)
    \/ Deliver
    \/ CreateCounter

Spec == Init /\ [][Next]_vars

-----------------------------------------------------------------------------
(* Properties.                                                             *)

\* Nothing is on its way, to the peerManager or from it.
Quiet == \A p \in Peers : up[p] = <<>> /\ down[p] = <<>>

Knows(p, q) == store[p][q] # NoPeer

\* Peers that have not changed frames, for which messages of the former frame
\* may still come in.
Settlers == Peers \ moved

Shown(p, q) == q \in peersMap[p]

\* Two peers that take part in a room have created each other once nothing is on
\* its way, whoever came first and whatever they changed meanwhile.
Acquainted ==
    Quiet => \A p, q \in Settlers :
                 p # q /\ place[p] = "frame" /\ place[q] = "frame" => Shown(p, q)

\* What a peer knows of another is what the other shows: an older value never
\* overwrites a newer one.
KnowsTheLatest ==
    Quiet => \A p, q \in Settlers :
                 /\ p # q /\ place[p] = "frame" /\ place[q] = "frame" /\ Knows(p, q)
                 => \A i \in {"look", "zone", "muted"} :
                        store[p][q][i] \in {Undefined, self[q][i]}

\* Nobody is shown who is not in the room: the indicators and replies of a peer
\* that closed its tab are never handled after the news that it did.  There is no
\* news only of a peer that left or was disconnected when the entry of the room, or
\* for disconnecting its counter, was missing: it is shown for ever.
NoGhosts ==
    Quiet => \A p, q \in Settlers :
                 place[p] \in {"lobby", "frame"} /\ Shown(p, q)
                 => (q \in present /\ place[q] # "closed") \/ q \in unsaid

\* A consumer is paused just if muting the peer was the last that was asked,
\* whether it came before or after.
PausedAsAsked ==
    \A p, q \in Peers :
        consumer[p][q] # "none" =>
            (consumer[p][q] = "paused" <=> hush[p][q] = "mute")

\* A peer whose zone does not change does not hear a peer that it knows to be in
\* another zone, also if the consumer arrives after the news.
OtherZonesAreSilent ==
    \A p \in Settlers \ Walkers, q \in Settlers :
        /\ Knows(p, q)
        /\ store[p][q].zone \notin {Undefined, self[p].zone}
        => consumer[p][q] # "playing"

\* What the comment of replyPeerIndicators promises, that who has sent its
\* indicators to all peers also knows what all of them look like, holds but for
\* the peers of which a change of the avatar or of the bound assets was the first
\* it heard: the reply to it goes to the peer that changed, which then knows the
\* new one and never replies itself.
FacesAreKnown ==
    Quiet => \A p, q \in Settlers :
                 p # q /\ place[p] = "frame" /\ place[q] = "frame"
                 => \/ Knows(p, q) /\ store[p][q].look # Undefined
                    \/ <<p, q>> \in faceless
=============================================================================
