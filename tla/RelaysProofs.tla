------------------------------ MODULE RelaysProofs ------------------------------
(***************************************************************************)
(* Proofs about Relays: its types, that statistics have one chain of       *)
(* timers, that nobody outlives its socket, and that the newest socket of  *)
(* an id is served.  The two processes know each other through queues, so  *)
(* that the inductive invariants speak of the messages that are on their   *)
(* way and of their order.                                                 *)
(***************************************************************************)
EXTENDS Relays, SequenceTheorems, FiniteSetTheorems, TLAPS

Told(k, type, i) == toApi[k].type = type /\ toApi[k].ws = i

\* What message m does to the number of chains, from a to b.
Turn(m, a, b) ==
    CASE m.type = "begin" -> a = 0 /\ b = 1
      [] m.type = "end" -> a = 1 /\ b = 0
      [] OTHER -> b = a

\* The timers there are when the first k messages of the queue are handled:
\* begin and end alternate, and the last of them agrees with the viewers.
Course(f) ==
    /\ f \in [0..Len(toApi) -> {0, 1}]
    /\ f[0] = timers
    /\ running => (f[Len(toApi)] = 1 <=> Watching # {})
    /\ \A k \in 1..Len(toApi) : Turn(toApi[k], f[k - 1], f[k])

StatsInv ==
    /\ \E f \in [0..Len(toApi) -> {0, 1}] : Course(f)
    /\ timers = 1 <=> latest
    /\ ~ running => Watching = {}

\* The client of i is there, or that it has gone is told after message k.
Covered(i, k) ==
    \/ \E s \in OpenSockets : id[s] = i
    \/ \E j \in 1..Len(toApi) : j > k /\ Told(j, "disconnect", i)

CoverInv ==
    /\ equipped \subseteq InRoom(peer)
    /\ equipped \ abandoned # {} => counted
    /\ running =>
          /\ \A i \in equipped \ abandoned : Covered(i, 0)
          /\ \A k \in 1..Len(toApi) :
                toApi[k].type = "createIngressTransport" => Covered(toApi[k].ws, k)

\* No message after the k-th tells that the client of i has gone.
Stays(i, k) == \A j \in 1..Len(toApi) : j > k => ~ Told(j, "disconnect", i)

\* The peerManager knows i, or will, when it has read its messages.
Recognised(i) ==
    \/ peer[i] # "unknown" /\ Stays(i, 0)
    \/ \E k \in 1..Len(toApi) : Told(k, "requestIdentity", i) /\ Stays(i, k)

ServedInv ==
    /\ \A s \in Sockets : state[s] = "new" => sent[s] = 0
    /\ \A s, t \in Sockets : t < s /\ state[t] = "new" => state[s] = "new"
    /\ running => \A s \in OpenSockets :
          Newest(s) /\ id[s] \notin superseded
              => clients[id[s]] = s /\ (sent[s] > 0 => Recognised(id[s]))

\* The inductive invariant.
IInv == TypeOK /\ StatsInv /\ CoverInv /\ ServedInv

-----------------------------------------------------------------------------
(* The queues.                                                             *)

\* What Append does to the messages for the peerManager.
LEMMA AppendFacts ==
    ASSUME toApi \in Seq(ToApi), NEW m \in ToApi, toApi' = Append(toApi, m)
    PROVE  /\ toApi' \in Seq(ToApi)
           /\ Len(toApi) \in Nat
           /\ Len(toApi') = Len(toApi) + 1
           /\ \A k \in 1..Len(toApi) : toApi'[k] = toApi[k]
           /\ toApi'[Len(toApi) + 1] = m
  BY AppendProperties, LenProperties

\* What the handling of a message does to them.
LEMMA HandleFacts ==
    ASSUME toApi \in Seq(ToApi), NEW type, Handle(type)
    PROVE  /\ toApi' \in Seq(ToApi)
           /\ Len(toApi) \in Nat \ {0}
           /\ Len(toApi') = Len(toApi) - 1
           /\ Head(toApi) = toApi[1]
           /\ toApi[1] \in ToApi
           /\ toApi[1].type = type
           /\ \A k \in 1..Len(toApi') : toApi'[k] = toApi[k + 1]
<1>1. toApi # <<>> /\ toApi' = Tail(toApi) /\ Head(toApi).type = type
  BY DEF Handle
<1>2. Len(toApi) \in Nat \ {0}
  BY <1>1, EmptySeq
<1>3. Head(toApi) = toApi[1]
  BY <1>2
<1> QED
  BY <1>1, <1>2, <1>3, HeadTailProperties

\* The first request of a client is for its identity.
LEMMA RequestFacts ==
    /\ Len(Requests) = 5
    /\ Requests[1] = "requestIdentity"
    /\ \A n \in 1..5 : Requests[n] # "disconnect"
    /\ \A n \in 1..5 : Requests[n] \notin {"begin", "end"}
    /\ \A n \in 1..5, i \in Ids : [type |-> Requests[n], ws |-> i] \in ToApi
<1>1. Len(Requests) = 5 /\ DOMAIN Requests = 1..5
  BY DEF Requests
<1>2. /\ Requests[1] = "requestIdentity" /\ Requests[2] = "joinRoom"
      /\ Requests[3] = "createIngressTransport"
      /\ Requests[4] = "leaveRoom" /\ Requests[5] = "joinRoom"
  BY DEF Requests
<1>3. \A n \in 1..5 : n = 1 \/ n = 2 \/ n = 3 \/ n = 4 \/ n = 5
  OBVIOUS
<1>4. \A n \in 1..5 : Requests[n] \notin {"disconnect", "begin", "end"}
  BY <1>2, <1>3
<1>5. \A n \in 1..5, i \in Ids : [type |-> Requests[n], ws |-> i] \in ToApi
  BY <1>1 DEF ToApi
<1> QED
  BY <1>1, <1>2, <1>4, <1>5

\* What a client sends is one of its requests, and the first for its identity.
LEMMA NextRequest ==
    ASSUME sent \in [Sockets -> 0..Len(Requests)], NEW s \in Sockets, Incoming(s)
    PROVE  \E n \in 1..5 :
              /\ sent[s] = 0 => n = 1
              /\ n > 3 => s \in Leavers
              /\ sent' = [sent EXCEPT ![s] = n]
              /\ toApi' = Append(toApi, [type |-> Requests[n], ws |-> id[s]])
<1>1. PICK n \in {sent[s] + 1} \cup IF sent[s] = 2 THEN {4} ELSE {} :
         /\ n <= Len(Requests)
         /\ n > 3 => s \in Leavers
         /\ sent' = [sent EXCEPT ![s] = n]
         /\ toApi' = Append(toApi, [type |-> Requests[n], ws |-> id[s]])
  BY DEF Incoming
<1>2. sent[s] \in 0..5 /\ Len(Requests) = 5
  BY RequestFacts
<1>3. n \in 1..5 /\ (sent[s] = 0 => n = 1)
  BY <1>1, <1>2
<1> QED
  BY <1>1, <1>3

\* Messages for the statistics and of leaving are in the queue's type.
LEMMA OtherMessages ==
    /\ \A i \in Ids : [type |-> "disconnect", ws |-> i] \in ToApi
    /\ [type |-> "begin"] \in ToApi
    /\ [type |-> "end"] \in ToApi
  BY DEF ToApi

\* What goes to all of a room is a sequence of messages.
LEMMA RoomMessages ==
    ASSUME NEW p \in [Ids -> {"unknown", "roomless", "room"}]
    PROVE  ToRoom(p) \in Seq(ToWeb)
<1> DEFINE message == [i \in InRoom(p) |-> [type |-> "other", ws |-> i]]
           S == {[type |-> "other", ws |-> i] : i \in InRoom(p)}
<1>1. IsFiniteSet(InRoom(p))
  BY RelaysAssumption, FS_Subset DEF InRoom
<1>2. message \in Surjection(InRoom(p), S)
  BY DEF Surjection
<1>3. IsFiniteSet(S)
  BY <1>1, <1>2, FS_Surjection
<1>4. Cardinality(S) \in Nat /\ \E f \in [1..Cardinality(S) -> S] : IsInjective(f)
  BY <1>3, FS_CardinalityType DEF ExistsBijection, Bijection, Injection
<1>5. SetToSeq(S) \in [1..Cardinality(S) -> S]
  BY <1>4 DEF SetToSeq
<1>6. S \subseteq ToWeb
  BY DEF ToWeb, InRoom
<1>7. SetToSeq(S) \in Seq(ToWeb)
  <2> HIDE DEF S
  <2> DEFINE n == Cardinality(S)
             g == SetToSeq(S)
  <2>1. n \in Nat /\ g \in [1..n -> ToWeb]
    BY <1>4, <1>5, <1>6
  <2> HIDE DEF n, g
  <2>2. g \in Seq(ToWeb)
    BY <2>1, SeqDef
  <2> QED
    BY <2>2 DEF g
<1> QED
  BY <1>7 DEF ToRoom

-----------------------------------------------------------------------------
(* Types.                                                                  *)

\* Messages that are posted are messages to the web application.
LEMMA PostType ==
    ASSUME toWeb \in Seq(ToWeb), NEW ms \in Seq(ToWeb), Post(ms)
    PROVE  toWeb' \in Seq(ToWeb)
  BY ConcatProperties DEF Post

\* Every step of the web application and of the browsers keeps the types.
LEMMA WebTypeStep ==
    ASSUME TypeOK,
           \/ \E s \in Sockets : Connection(s) \/ Incoming(s) \/ Close(s)
           \/ SendItBack
           \/ SendBackThrows
           \/ \E v \in Viewers : StatsConnection(v) \/ StatsClose(v)
    PROVE  TypeOK'
<1> USE DEF TypeOK, web, api, room
<1>1. ASSUME NEW s \in Sockets, Connection(s)
      PROVE  TypeOK'
  BY <1>1 DEF Connection
<1>2. ASSUME NEW s \in Sockets, Incoming(s)
      PROVE  TypeOK'
  <2>1. PICK n \in 1..5 :
           /\ sent' = [sent EXCEPT ![s] = n]
           /\ toApi' = Append(toApi, [type |-> Requests[n], ws |-> id[s]])
    BY <1>2, NextRequest
  <2>2. [type |-> Requests[n], ws |-> id[s]] \in ToApi
    BY RequestFacts
  <2>3. toApi' \in Seq(ToApi)
    BY <2>1, <2>2, AppendFacts
  <2>4. sent' \in [Sockets -> 0..Len(Requests)]
    BY <2>1, RequestFacts
  <2> QED
    BY <1>2, <2>3, <2>4 DEF Incoming
<1>3. ASSUME NEW s \in Sockets, Close(s)
      PROVE  TypeOK'
  <2>1. toApi' \in Seq(ToApi)
    BY <1>3, OtherMessages, AppendFacts DEF Close
  <2> QED
    BY <1>3, <2>1 DEF Close
<1>4. CASE SendItBack
  <2>1. Head(toWeb) \in ToWeb /\ toWeb' \in Seq(ToWeb)
    BY <1>4, HeadTailProperties DEF SendItBack
  <2>2. Len(Answers) = 2
    BY DEF Answers
  <2>3. clients[Head(toWeb).ws] \in Sockets
    BY <1>4, <2>1 DEF SendItBack, ToWeb
  <2>4. got' \in [Sockets -> 0..Len(Answers)]
    <3>1. PICK t \in Sockets : t = clients[Head(toWeb).ws]
      BY <2>3
    <3>2. got[t] \in 0..2
      BY <2>2
    <3>3. got' = [got EXCEPT ![t] =
                     IF @ < Len(Answers) /\ Head(toWeb).type = Answers[@ + 1]
                     THEN @ + 1 ELSE @]
      BY <1>4, <3>1 DEF SendItBack
    <3>4. PICK n : n = IF /\ got[t] < Len(Answers)
                          /\ Head(toWeb).type = Answers[got[t] + 1]
                       THEN got[t] + 1 ELSE got[t]
      OBVIOUS
    <3>5. n \in 0..2
      BY <2>2, <3>2, <3>4
    <3>6. got' = [got EXCEPT ![t] = n]
      BY <3>3, <3>4
    <3> QED
      BY <2>2, <3>5, <3>6
  <2> QED
    BY <1>4, <2>1, <2>4 DEF SendItBack
<1>5. CASE SendBackThrows
  <2>1. toWeb' \in Seq(ToWeb)
    BY <1>5, EmptySeq DEF SendBackThrows
  <2>2. \A i \in Ids : clients[i] # NoSocket => state'[clients[i]] # "new"
    BY <1>5, RelaysAssumption DEF SendBackThrows
  <2>3. /\ state' \in [Sockets -> {"new", "open", "closed"}]
        /\ viewer' \in [Viewers -> {"new", "open", "closed"}]
    BY <1>5 DEF SendBackThrows
  <2> QED
    BY <1>5, <2>1, <2>2, <2>3 DEF SendBackThrows
<1>6. ASSUME NEW v \in Viewers, StatsConnection(v)
      PROVE  TypeOK'
  <2>1. toApi' \in Seq(ToApi)
    BY <1>6, OtherMessages, AppendFacts DEF StatsConnection
  <2> QED
    BY <1>6, <2>1 DEF StatsConnection
<1>7. ASSUME NEW v \in Viewers, StatsClose(v)
      PROVE  TypeOK'
  <2>1. toApi' \in Seq(ToApi)
    BY <1>7, OtherMessages, AppendFacts DEF StatsClose
  <2> QED
    BY <1>7, <2>1 DEF StatsClose
<1> QED
  BY <1>1, <1>2, <1>3, <1>4, <1>5, <1>6, <1>7

\* The message that is handled names an id that there is.
LEMMA NamesAnId ==
    ASSUME toApi \in Seq(ToApi), NEW type, type \notin {"begin", "end"}, Handle(type)
    PROVE  Head(toApi).ws \in Ids
<1>1. Head(toApi) \in ToApi /\ Head(toApi).type = type
  BY HandleFacts
<1> QED
  BY <1>1 DEF ToApi

\* Every step of the peerManager keeps the types.
LEMMA ApiTypeStep ==
    ASSUME TypeOK, latest => timers = 1,
           \/ PeerManager
           \/ \E m \in answering : ForwardAnswer(m)
           \/ StatsTimer
    PROVE  TypeOK'
<1> USE DEF TypeOK, web, api, room
<1>1. CASE RequestIdentity
  <2>1. Handle("requestIdentity")
    BY <1>1 DEF RequestIdentity
  <2>2. toApi' \in Seq(ToApi)
    BY <2>1, HandleFacts
  <2>2a. Head(toApi).ws \in Ids
    BY <2>1, NamesAnId
  <2>3. <<[type |-> "identity", ws |-> Head(toApi).ws]>> \in Seq(ToWeb)
    BY <2>2a DEF ToWeb
  <2>4. toWeb' \in Seq(ToWeb)
    BY <1>1, <2>3, PostType DEF RequestIdentity
  <2> QED
    BY <1>1, <2>1, <2>2, <2>2a, <2>4 DEF RequestIdentity, Handle
<1>2. CASE JoinRoom
  <2>1. Handle("joinRoom")
    BY <1>2 DEF JoinRoom
  <2>2. toApi' \in Seq(ToApi)
    BY <2>1, HandleFacts
  <2>2a. Head(toApi).ws \in Ids
    BY <2>1, NamesAnId
  <2>3. answering' \subseteq ToWeb
    BY <1>2, <2>2a DEF JoinRoom, ToWeb
  <2> QED
    BY <1>2, <2>1, <2>2, <2>2a, <2>3 DEF JoinRoom, Handle
<1>3. CASE CreateIngressTransport
  <2>1. Handle("createIngressTransport")
    BY <1>3 DEF CreateIngressTransport
  <2>2. toApi' \in Seq(ToApi)
    BY <2>1, HandleFacts
  <2>2a. Head(toApi).ws \in Ids
    BY <2>1, NamesAnId
  <2>3. ToRoom(peer) \in Seq(ToWeb) /\ <<>> \in Seq(ToWeb)
    BY RoomMessages, EmptySeq
  <2>4. toWeb' \in Seq(ToWeb)
    BY <1>3, <2>3, PostType DEF CreateIngressTransport
  <2>5. answering' \subseteq ToWeb
    BY <1>3, <2>2a DEF CreateIngressTransport, ToWeb
  <2>6. /\ equipped' \subseteq Ids /\ counted' \in BOOLEAN
        /\ abandoned' \subseteq equipped'
    BY <1>3, <2>2a DEF CreateIngressTransport
  <2> QED
    BY <1>3, <2>1, <2>2, <2>4, <2>5, <2>6 DEF CreateIngressTransport, Handle
<1>4. CASE DisconnectPeerWebsocket
  <2>1. Handle("disconnect")
    BY <1>4 DEF DisconnectPeerWebsocket
  <2>2. toApi' \in Seq(ToApi)
    BY <2>1, HandleFacts
  <2>3. peer' \in [Ids -> {"unknown", "roomless", "room"}]
    BY <1>4 DEF DisconnectPeerWebsocket
  <2>4. ToRoom(peer') \in Seq(ToWeb) /\ <<>> \in Seq(ToWeb)
    BY <2>3, RoomMessages, EmptySeq
  <2>5. toWeb' \in Seq(ToWeb)
    BY <1>4, <2>4, PostType DEF DisconnectPeerWebsocket
  <2>6. /\ equipped' \subseteq Ids /\ abandoned' \subseteq equipped'
        /\ routed' \in BOOLEAN /\ counted' \in BOOLEAN
    BY <1>4 DEF DisconnectPeerWebsocket
  <2> QED
    BY <1>4, <2>1, <2>2, <2>3, <2>5, <2>6 DEF DisconnectPeerWebsocket, Handle
<1>5. CASE BeginSendingStats
  <2>1. Handle("begin")
    BY <1>5 DEF BeginSendingStats
  <2>2. toApi' \in Seq(ToApi)
    BY <2>1, HandleFacts
  <2> QED
    BY <1>5, <2>1, <2>2 DEF BeginSendingStats, Handle
<1>6. CASE EndSendingStats
  <2>1. Handle("end")
    BY <1>6 DEF EndSendingStats
  <2>2. toApi' \in Seq(ToApi)
    BY <2>1, HandleFacts
  <2>3. timers' \in Nat
    BY <1>6 DEF EndSendingStats
  <2> QED
    BY <1>6, <2>1, <2>2, <2>3 DEF EndSendingStats, Handle
<1>7. ASSUME NEW m \in answering, ForwardAnswer(m)
      PROVE  TypeOK'
  <2>1. <<m>> \in Seq(ToWeb)
    OBVIOUS
  <2>2. toWeb' \in Seq(ToWeb)
    BY <1>7, <2>1, PostType DEF ForwardAnswer
  <2> QED
    BY <1>7, <2>2 DEF ForwardAnswer
<1>8. CASE StatsTimer
  BY <1>8 DEF StatsTimer
<1>9. CASE LeaveRoom
  <2>1. Handle("leaveRoom")
    BY <1>9 DEF LeaveRoom
  <2>2. toApi' \in Seq(ToApi)
    BY <2>1, HandleFacts
  <2>3. Head(toApi).ws \in Ids
    BY <2>1, NamesAnId
  <2>4. PICK others \in [Ids -> {"unknown", "roomless", "room"}] :
           others = [peer EXCEPT ![Head(toApi).ws] = "roomless"]
    BY <2>3
  <2>5. ToRoom(others) \in Seq(ToWeb)
    BY RoomMessages
  <2>6. toWeb' = toWeb \/ Post(ToRoom(others))
    BY <1>9, <2>4 DEF LeaveRoom
  <2>7. toWeb' \in Seq(ToWeb)
    BY <2>5, <2>6, PostType
  <2>8. /\ peer' \in [Ids -> {"unknown", "roomless", "room"}]
        /\ equipped' \subseteq Ids /\ abandoned' \subseteq equipped'
        /\ routed' \in BOOLEAN /\ counted' \in BOOLEAN
    <3>1. PICK ws \in Ids : ws = Head(toApi).ws
      BY <2>3
    <3>2. CASE UNCHANGED room
      BY <3>2
    <3>3. CASE /\ peer' = others
               /\ equipped' = equipped \ {ws}
               /\ \/ UNCHANGED <<routed, counted>> /\ abandoned' = abandoned \ {ws}
                  \/ /\ routed' = FALSE
                     /\ counted' = (peer[ws] = "roomless")
                     /\ abandoned' = equipped'
      BY <2>4, <3>3
    <3>4. \/ peer[ws] = "unknown" \/ ~ routed
          \/ peer[ws] # "unknown" /\ routed /\ ~ counted
          \/ peer[ws] # "unknown" /\ routed /\ counted
      OBVIOUS
    <3>5. CASE \/ peer[ws] = "unknown" \/ ~ routed
               \/ peer[ws] # "unknown" /\ routed /\ ~ counted
      <4>1. UNCHANGED room
        BY <1>9, <3>1, <3>5 DEF LeaveRoom
      <4> QED
        BY <4>1, <3>2
    <3>6. CASE peer[ws] # "unknown" /\ routed /\ counted
      <4>1. /\ peer' = [peer EXCEPT ![ws] = "roomless"]
            /\ equipped' = equipped \ {ws}
            /\ \/ UNCHANGED <<routed, counted>> /\ abandoned' = abandoned \ {ws}
               \/ /\ routed' = FALSE
                  /\ counted' = (peer[ws] = "roomless")
                  /\ abandoned' = equipped'
        BY <1>9, <3>1, <3>6 DEF LeaveRoom
      <4> QED
        BY <4>1, <2>4, <3>1, <3>3
    <3> QED
      BY <3>4, <3>5, <3>6
  <2> QED
    BY <1>9, <2>1, <2>2, <2>7, <2>8 DEF LeaveRoom, Handle
<1> QED
  BY <1>1, <1>2, <1>3, <1>4, <1>5, <1>6, <1>7, <1>8, <1>9 DEF PeerManager

-----------------------------------------------------------------------------
(* The statistics.                                                         *)

\* Messages of another kind do not change the course of the timers.
LEMMA CourseOther ==
    ASSUME TypeOK, StatsInv, NEW m \in ToApi, m.type \notin {"begin", "end"},
           toApi' = Append(toApi, m), UNCHANGED <<viewer, running, timers, latest>>
    PROVE  StatsInv'
<1> USE DEF TypeOK
<1>1. PICK f \in [0..Len(toApi) -> {0, 1}] : Course(f)
  BY DEF StatsInv
<1>2. /\ Len(toApi) \in Nat
      /\ Len(toApi') = Len(toApi) + 1
      /\ \A k \in 1..Len(toApi) : toApi'[k] = toApi[k]
      /\ toApi'[Len(toApi) + 1] = m
  BY AppendFacts
<1> DEFINE n == Len(toApi)
           g == [k \in 0..(n + 1) |-> IF k <= n THEN f[k] ELSE f[n]]
<1>3. g \in [0..Len(toApi') -> {0, 1}]
  <2>1. n \in 0..n /\ \A k \in 0..(n + 1) : k <= n => k \in 0..n
    BY <1>2
  <2>2. \A k \in 0..n : f[k] \in {0, 1}
    BY <1>1
  <2> QED
    BY <1>2, <2>1, <2>2
<1>4. Watching' = Watching
  BY DEF Watching
<1>5. g[0] = timers' /\ (running' => (g[Len(toApi')] = 1 <=> Watching' # {}))
  BY <1>1, <1>2, <1>4 DEF Course
<1>6. ASSUME NEW k \in 1..Len(toApi')
      PROVE  Turn(toApi'[k], g[k - 1], g[k])
  <2>1. CASE k = n + 1
    BY <2>1, <1>2 DEF Turn
  <2>2. CASE k # n + 1
    <3>1. k \in 1..n /\ toApi'[k] = toApi[k] /\ g[k] = f[k] /\ g[k - 1] = f[k - 1]
      BY <2>2, <1>2
    <3> QED
      BY <3>1, <1>1 DEF Course
  <2> QED
    BY <2>1, <2>2
<1> HIDE DEF g
<1>7. PICK h \in [0..Len(toApi') -> {0, 1}] : h = g
  BY <1>3
<1>8. Course(h)'
  BY <1>5, <1>6, <1>7 DEF Course
<1> QED
  BY <1>7, <1>8, <1>4 DEF StatsInv

\* The first viewer begins a course that is at rest.
LEMMA CourseBegins ==
    ASSUME TypeOK, StatsInv, NEW v \in Viewers, StatsConnection(v)
    PROVE  StatsInv'
<1> USE DEF TypeOK
<1>1. PICK f \in [0..Len(toApi) -> {0, 1}] : Course(f)
  BY DEF StatsInv
<1>2. Watching' = Watching \cup {v}
  BY DEF StatsConnection, Watching
<1>3. running /\ running' /\ timers' = timers /\ latest' = latest
  BY DEF StatsConnection, api
<1>4. CASE Watching # {}
  <2>1. toApi' = toApi
    BY <1>4 DEF StatsConnection
  <2>2. Course(f)'
    BY <1>1, <1>2, <1>3, <1>4, <2>1 DEF Course
  <2> QED
    BY <1>1, <2>1, <2>2, <1>3 DEF StatsInv
<1>5. CASE Watching = {}
  <2>1. toApi' = Append(toApi, [type |-> "begin"]) /\ [type |-> "begin"] \in ToApi
    BY <1>5, OtherMessages DEF StatsConnection
  <2>2. /\ Len(toApi) \in Nat
        /\ Len(toApi') = Len(toApi) + 1
        /\ \A k \in 1..Len(toApi) : toApi'[k] = toApi[k]
        /\ toApi'[Len(toApi) + 1] = [type |-> "begin"]
    BY <2>1, AppendFacts
  <2> DEFINE n == Len(toApi)
             g == [k \in 0..(n + 1) |-> IF k <= n THEN f[k] ELSE 1]
  <2>3. g \in [0..Len(toApi') -> {0, 1}] /\ f[n] = 0
    <3>1. n \in 0..n /\ \A k \in 0..(n + 1) : k <= n => k \in 0..n
      BY <2>2
    <3>2. \A k \in 0..n : f[k] \in {0, 1}
      BY <1>1
    <3>3. f[n] = 0
      BY <1>1, <1>3, <1>5, <3>1, <3>2 DEF Course
    <3> QED
      BY <2>2, <3>1, <3>2, <3>3
  <2>4. g[0] = timers' /\ (running' => (g[Len(toApi')] = 1 <=> Watching' # {}))
    BY <1>1, <1>2, <1>3, <2>2 DEF Course
  <2>5. ASSUME NEW k \in 1..Len(toApi')
        PROVE  Turn(toApi'[k], g[k - 1], g[k])
    <3>1. CASE k = n + 1
      BY <3>1, <2>2, <2>3 DEF Turn
    <3>2. CASE k # n + 1
      <4>1. k \in 1..n /\ toApi'[k] = toApi[k] /\ g[k] = f[k] /\ g[k - 1] = f[k - 1]
        BY <3>2, <2>2
      <4> QED
        BY <4>1, <1>1 DEF Course
    <3> QED
      BY <3>1, <3>2
  <2> HIDE DEF g
  <2>6. PICK h \in [0..Len(toApi') -> {0, 1}] : h = g
    BY <2>3
  <2>7. Course(h)'
    BY <2>4, <2>5, <2>6 DEF Course
  <2> QED
    BY <2>6, <2>7, <1>3 DEF StatsInv
<1> QED
  BY <1>4, <1>5

\* The last viewer ends it.
LEMMA CourseEnds ==
    ASSUME TypeOK, StatsInv, NEW v \in Viewers, StatsClose(v)
    PROVE  StatsInv'
<1> USE DEF TypeOK
<1>1. PICK f \in [0..Len(toApi) -> {0, 1}] : Course(f)
  BY DEF StatsInv
<1>2. v \in Watching /\ Watching' = Watching \ {v}
  BY DEF StatsClose, Watching
<1>3. running /\ running' /\ timers' = timers /\ latest' = latest
  BY <1>2 DEF StatsClose, api, StatsInv
<1>4. CASE Watching # {v}
  <2>1. toApi' = toApi
    BY <1>4 DEF StatsClose
  <2>2. Course(f)'
    BY <1>1, <1>2, <1>3, <1>4, <2>1 DEF Course
  <2> QED
    BY <1>1, <2>1, <2>2, <1>3 DEF StatsInv
<1>5. CASE Watching = {v}
  <2>1. toApi' = Append(toApi, [type |-> "end"]) /\ [type |-> "end"] \in ToApi
    BY <1>5, OtherMessages DEF StatsClose
  <2>2. /\ Len(toApi) \in Nat
        /\ Len(toApi') = Len(toApi) + 1
        /\ \A k \in 1..Len(toApi) : toApi'[k] = toApi[k]
        /\ toApi'[Len(toApi) + 1] = [type |-> "end"]
    BY <2>1, AppendFacts
  <2> DEFINE n == Len(toApi)
             g == [k \in 0..(n + 1) |-> IF k <= n THEN f[k] ELSE 0]
  <2>3. g \in [0..Len(toApi') -> {0, 1}] /\ f[n] = 1
    <3>1. n \in 0..n /\ \A k \in 0..(n + 1) : k <= n => k \in 0..n
      BY <2>2
    <3>2. \A k \in 0..n : f[k] \in {0, 1}
      BY <1>1
    <3>3. f[n] = 1
      BY <1>1, <1>3, <1>5, <3>1, <3>2 DEF Course
    <3> QED
      BY <2>2, <3>1, <3>2, <3>3
  <2>4. g[0] = timers' /\ (running' => (g[Len(toApi')] = 1 <=> Watching' # {}))
    BY <1>1, <1>2, <1>3, <1>5, <2>2 DEF Course
  <2>5. ASSUME NEW k \in 1..Len(toApi')
        PROVE  Turn(toApi'[k], g[k - 1], g[k])
    <3>1. CASE k = n + 1
      BY <3>1, <2>2, <2>3 DEF Turn
    <3>2. CASE k # n + 1
      <4>1. k \in 1..n /\ toApi'[k] = toApi[k] /\ g[k] = f[k] /\ g[k - 1] = f[k - 1]
        BY <3>2, <2>2
      <4> QED
        BY <4>1, <1>1 DEF Course
    <3> QED
      BY <3>1, <3>2
  <2> HIDE DEF g
  <2>6. PICK h \in [0..Len(toApi') -> {0, 1}] : h = g
    BY <2>3
  <2>7. Course(h)'
    BY <2>4, <2>5, <2>6 DEF Course
  <2> QED
    BY <2>6, <2>7, <1>3 DEF StatsInv
<1> QED
  BY <1>4, <1>5

\* The peerManager follows the course: its timers are where f has them after
\* the message that it handles.
LEMMA CourseFollowed ==
    ASSUME TypeOK, StatsInv, PeerManager
    PROVE  StatsInv'
<1> USE DEF TypeOK
<1>1. PICK f \in [0..Len(toApi) -> {0, 1}] : Course(f)
  BY DEF StatsInv
<1>2. PICK type : Handle(type)
  BY DEF PeerManager, RequestIdentity, JoinRoom, CreateIngressTransport,
         LeaveRoom, DisconnectPeerWebsocket, BeginSendingStats, EndSendingStats
<1>3. /\ Len(toApi) \in Nat \ {0}
      /\ Len(toApi') = Len(toApi) - 1
      /\ Head(toApi) = toApi[1]
      /\ \A k \in 1..Len(toApi') : toApi'[k] = toApi[k + 1]
  BY <1>2, HandleFacts
<1>4. running' = running /\ Watching' = Watching
  BY <1>2 DEF Handle, Watching
<1>5. Turn(toApi[1], f[0], f[1])
  BY <1>1, <1>3 DEF Course
<1>6. timers' = f[1] /\ (timers' = 1 <=> latest')
  <2>1. f[0] = timers /\ (timers = 1 <=> latest)
    BY <1>1 DEF Course, StatsInv
  <2>2. CASE BeginSendingStats
    <3>1. Head(toApi).type = "begin" /\ timers' = timers + 1 /\ latest' = TRUE
      BY <2>2 DEF BeginSendingStats, Handle
    <3> QED
      BY <3>1, <2>1, <1>3, <1>5 DEF Turn
  <2>3. CASE EndSendingStats
    <3>1. /\ Head(toApi).type = "end" /\ latest' = FALSE
          /\ timers' = IF latest THEN timers - 1 ELSE timers
      BY <2>3 DEF EndSendingStats, Handle
    <3> QED
      BY <3>1, <2>1, <1>3, <1>5 DEF Turn
  <2>4. CASE ~ BeginSendingStats /\ ~ EndSendingStats
    <3>1. /\ Head(toApi).type \notin {"begin", "end"}
          /\ timers' = timers /\ latest' = latest
      BY <2>4 DEF PeerManager, RequestIdentity, JoinRoom, CreateIngressTransport,
                  LeaveRoom, DisconnectPeerWebsocket, Handle
    <3> QED
      BY <3>1, <2>1, <1>3, <1>5 DEF Turn
  <2> QED
    BY <2>2, <2>3, <2>4
<1> DEFINE g == [k \in 0..(Len(toApi) - 1) |-> f[k + 1]]
<1>7. g \in [0..Len(toApi') -> {0, 1}]
  BY <1>1, <1>3
<1>8. g[0] = timers' /\ (running' => (g[Len(toApi')] = 1 <=> Watching' # {}))
  BY <1>1, <1>3, <1>4, <1>6 DEF Course
<1>9. ASSUME NEW k \in 1..Len(toApi')
      PROVE  Turn(toApi'[k], g[k - 1], g[k])
  <2>1. /\ k + 1 \in 1..Len(toApi) /\ toApi'[k] = toApi[k + 1]
        /\ g[k] = f[k + 1] /\ g[k - 1] = f[(k + 1) - 1]
    BY <1>3
  <2> QED
    BY <2>1, <1>1 DEF Course
<1> HIDE DEF g
<1>10. PICK h \in [0..Len(toApi') -> {0, 1}] : h = g
  BY <1>7
<1>11. Course(h)'
  BY <1>8, <1>9, <1>10 DEF Course
<1> QED
  BY <1>10, <1>11, <1>4, <1>6 DEF StatsInv

\* Every step keeps one chain of timers at most.
LEMMA StatsStep ==
    ASSUME TypeOK, StatsInv, [Next]_vars
    PROVE  StatsInv'
<1> USE DEF TypeOK
<1>1. ASSUME UNCHANGED <<running, viewer, toApi, timers, latest>>
      PROVE  StatsInv'
  <2>1. Watching' = Watching
    BY <1>1 DEF Watching
  <2>2. PICK f \in [0..Len(toApi) -> {0, 1}] : Course(f)
    BY DEF StatsInv
  <2>3. Course(f)'
    BY <1>1, <2>1, <2>2 DEF Course
  <2> QED
    BY <1>1, <2>1, <2>2, <2>3 DEF StatsInv
<1>2. ASSUME NEW s \in Sockets, Connection(s)
      PROVE  StatsInv'
  BY <1>1, <1>2 DEF Connection, api
<1>3. ASSUME NEW s \in Sockets, Incoming(s)
      PROVE  StatsInv'
  <2>1. PICK n \in 1..5 : toApi' = Append(toApi, [type |-> Requests[n], ws |-> id[s]])
    BY <1>3, NextRequest
  <2> DEFINE m == [type |-> Requests[n], ws |-> id[s]]
  <2>2. m \in ToApi /\ m.type \notin {"begin", "end"}
    BY RequestFacts
  <2>3. toApi' = Append(toApi, m) /\ UNCHANGED <<viewer, running, timers, latest>>
    BY <1>3, <2>1 DEF Incoming, api
  <2> HIDE DEF m
  <2> QED
    BY <2>2, <2>3, CourseOther
<1>4. ASSUME NEW s \in Sockets, Close(s)
      PROVE  StatsInv'
  <2> DEFINE m == [type |-> "disconnect", ws |-> id[s]]
  <2>1. m \in ToApi /\ m.type \notin {"begin", "end"}
    BY OtherMessages
  <2>2. toApi' = Append(toApi, m) /\ UNCHANGED <<viewer, running, timers, latest>>
    BY <1>4 DEF Close, api
  <2> HIDE DEF m
  <2> QED
    BY <2>1, <2>2, CourseOther
<1>5. CASE SendItBack
  BY <1>1, <1>5 DEF SendItBack, api
<1>6. CASE SendBackThrows
  <2>1. running' = FALSE /\ Watching' = {} /\ UNCHANGED <<toApi, timers, latest>>
    BY <1>6 DEF SendBackThrows, Watching, api
  <2>2. PICK f \in [0..Len(toApi) -> {0, 1}] : Course(f)
    BY DEF StatsInv
  <2>3. Course(f)'
    BY <2>1, <2>2 DEF Course
  <2> QED
    BY <2>1, <2>2, <2>3 DEF StatsInv
<1>7. ASSUME NEW v \in Viewers, StatsConnection(v)
      PROVE  StatsInv'
  BY <1>7, CourseBegins
<1>8. ASSUME NEW v \in Viewers, StatsClose(v)
      PROVE  StatsInv'
  BY <1>8, CourseEnds
<1>9. CASE PeerManager
  BY <1>9, CourseFollowed
<1>10. ASSUME NEW m \in answering, ForwardAnswer(m)
      PROVE  StatsInv'
  BY <1>1, <1>10 DEF ForwardAnswer
<1>11. CASE StatsTimer
  <2>1. PICK f \in [0..Len(toApi) -> {0, 1}] : Course(f)
    BY DEF StatsInv
  <2>2. timers = 1
    <3>1. Len(toApi) \in Nat /\ 0 \in 0..Len(toApi)
      BY LenProperties
    <3>2. f[0] \in {0, 1} /\ f[0] = timers
      BY <2>1, <3>1 DEF Course
    <3> QED
      BY <1>11, <3>2 DEF StatsTimer
  <2>3. latest' = latest
    BY <1>11, <2>2 DEF StatsTimer, StatsInv
  <2> QED
    BY <1>1, <1>11, <2>3 DEF StatsTimer
<1>12. CASE UNCHANGED vars
  BY <1>1, <1>12 DEF vars, api
<1> QED
  BY <1>2, <1>3, <1>4, <1>5, <1>6, <1>7, <1>8, <1>9, <1>10, <1>11, <1>12 DEF Next

-----------------------------------------------------------------------------
(* Who is covered.                                                         *)

\* A message that joins the queue, while no socket closes, uncovers nobody.
LEMMA AppendCovers ==
    ASSUME TypeOK, NEW m \in ToApi, toApi' = Append(toApi, m), UNCHANGED id,
           NEW i, NEW k \in Nat, Covered(i, k),
           (\E s \in OpenSockets : id[s] = i)
               => \/ \E s \in OpenSockets' : id[s] = i
                  \/ m.type = "disconnect" /\ m.ws = i /\ k <= Len(toApi)
    PROVE  Covered(i, k)'
<1>1. /\ Len(toApi) \in Nat
      /\ Len(toApi') = Len(toApi) + 1
      /\ \A j \in 1..Len(toApi) : toApi'[j] = toApi[j]
      /\ toApi'[Len(toApi) + 1] = m
  BY AppendFacts DEF TypeOK
<1>2. CASE \E s \in OpenSockets' : id[s] = i
  BY <1>2 DEF Covered
<1>3. CASE /\ m.type = "disconnect" /\ m.ws = i /\ k <= Len(toApi)
  BY <1>1, <1>3 DEF Covered, Told
<1>4. CASE \E j \in 1..Len(toApi) : j > k /\ Told(j, "disconnect", i)
  BY <1>1, <1>4 DEF Covered, Told
<1> QED
  BY <1>2, <1>3, <1>4 DEF Covered

\* Whatever joins the queue: the new message is covered if its client is there.
LEMMA AppendCoverInv ==
    ASSUME TypeOK, CoverInv, NEW m \in ToApi, toApi' = Append(toApi, m),
           UNCHANGED <<running, id, peer, equipped, counted, abandoned>>,
           \A i \in Ids : (\E s \in OpenSockets : id[s] = i)
               => \/ \E s \in OpenSockets' : id[s] = i
                  \/ m.type = "disconnect" /\ m.ws = i,
           m.type = "createIngressTransport" => \E s \in OpenSockets' : id[s] = m.ws
    PROVE  CoverInv'
<1> USE DEF TypeOK
<1>1. /\ Len(toApi) \in Nat
      /\ Len(toApi') = Len(toApi) + 1
      /\ \A j \in 1..Len(toApi) : toApi'[j] = toApi[j]
      /\ toApi'[Len(toApi) + 1] = m
  BY AppendFacts
<1>2. ASSUME running', NEW i \in equipped' \ abandoned'
      PROVE  Covered(i, 0)'
  <2>1. Covered(i, 0) /\ i \in Ids
    BY <1>2 DEF CoverInv
  <2>2. (\E s \in OpenSockets : id[s] = i)
            => \/ \E s \in OpenSockets' : id[s] = i
               \/ m.type = "disconnect" /\ m.ws = i /\ 0 <= Len(toApi)
    <3>1. 0 <= Len(toApi)
      BY <1>1
    <3> QED
      BY <2>1, <3>1
  <2>3. 0 \in Nat
    OBVIOUS
  <2> QED
    BY <2>1, <2>2, <2>3, AppendCovers
<1>3. ASSUME running', NEW k \in 1..Len(toApi'),
             toApi'[k].type = "createIngressTransport"
      PROVE  Covered(toApi[k].ws, k)'
  <2>1. CASE k = Len(toApi) + 1
    BY <2>1, <1>1, <1>3 DEF Covered
  <2>2. CASE k # Len(toApi) + 1
    <3>1. k \in 1..Len(toApi) /\ toApi'[k] = toApi[k]
      BY <2>2, <1>1
    <3>2. Covered(toApi[k].ws, k)
      BY <3>1, <1>3 DEF CoverInv
    <3>3. toApi[k] \in ToApi
      BY <3>1, ElementOfSeq
    <3>4. toApi[k].ws \in Ids
      BY <3>1, <3>3, <1>3 DEF ToApi
    <3>5. PICK i : i = toApi[k].ws /\ i \in Ids
      BY <3>4
    <3>6. (\E s \in OpenSockets : id[s] = i)
              => \/ \E s \in OpenSockets' : id[s] = i
                 \/ m.type = "disconnect" /\ m.ws = i /\ k <= Len(toApi)
      <4>1. k <= Len(toApi)
        BY <1>1, <3>1
      <4>2. i \in Ids
        BY <3>5
      <4> QED
        BY <4>1, <4>2
    <3>7. k \in Nat /\ Covered(i, k)
      BY <3>1, <3>2, <3>5
    <3>8. Covered(i, k)'
      BY <3>6, <3>7, AppendCovers
    <3> QED
      BY <3>1, <3>5, <3>8
  <2> QED
    BY <2>1, <2>2
<1>4. equipped' \subseteq InRoom(peer') /\ (equipped' \ abandoned' # {} => counted')
  BY DEF CoverInv
<1> QED
  BY <1>2, <1>3, <1>4 DEF CoverInv

\* What leaves the queue uncovers only the peer whose client it says has gone.
LEMMA HandleCovers ==
    ASSUME TypeOK, NEW type, Handle(type), NEW i, NEW k \in Nat, Covered(i, k),
           k = 0 => ~ (type = "disconnect" /\ Head(toApi).ws = i)
    PROVE  Covered(i, IF k = 0 THEN 0 ELSE k - 1)'
<1>1. /\ Len(toApi) \in Nat \ {0}
      /\ Len(toApi') = Len(toApi) - 1
      /\ Head(toApi) = toApi[1]
      /\ toApi[1].type = type
      /\ \A j \in 1..Len(toApi') : toApi'[j] = toApi[j + 1]
  BY HandleFacts DEF TypeOK
<1>2. OpenSockets' = OpenSockets /\ id' = id
  BY DEF Handle, web, OpenSockets
<1>3. CASE \E s \in OpenSockets : id[s] = i
  BY <1>2, <1>3 DEF Covered
<1>4. ASSUME NEW j \in 1..Len(toApi), j > k, Told(j, "disconnect", i)
      PROVE  Covered(i, IF k = 0 THEN 0 ELSE k - 1)'
  <2>1. j # 1
    BY <1>1, <1>4 DEF Told
  <2>2. j - 1 \in 1..Len(toApi') /\ toApi'[j - 1] = toApi[j]
    BY <1>1, <2>1
  <2>3. j - 1 > IF k = 0 THEN 0 ELSE k - 1
    BY <1>4, <2>1
  <2> QED
    BY <1>4, <2>2, <2>3 DEF Covered, Told
<1> QED
  BY <1>3, <1>4 DEF Covered

\* The peerManager equips only peers that are covered, and forgets those it is
\* told have gone.
LEMMA HandleCoverInv ==
    ASSUME TypeOK, CoverInv, PeerManager
    PROVE  CoverInv'
<1> USE DEF TypeOK
<1>1. PICK type : Handle(type)
  BY DEF PeerManager, RequestIdentity, JoinRoom, CreateIngressTransport,
         LeaveRoom, DisconnectPeerWebsocket, BeginSendingStats, EndSendingStats
<1>2. /\ Len(toApi) \in Nat \ {0}
      /\ Len(toApi') = Len(toApi) - 1
      /\ Head(toApi) = toApi[1]
      /\ toApi[1] \in ToApi
      /\ toApi[1].type = type
      /\ \A k \in 1..Len(toApi') : toApi'[k] = toApi[k + 1]
  BY <1>1, HandleFacts
<1>3. running' = running
  BY <1>1 DEF Handle
<1>4. ASSUME running, NEW k \in 1..Len(toApi'),
             toApi'[k].type = "createIngressTransport"
      PROVE  Covered(toApi[k].ws, k)'
  <2>1. k + 1 \in 1..Len(toApi) /\ toApi'[k] = toApi[k + 1]
    BY <1>2
  <2>2. Covered(toApi[k + 1].ws, k + 1)
    BY <1>4, <2>1 DEF CoverInv
  <2>3. PICK i : i = toApi[k + 1].ws
    OBVIOUS
  <2>4. k \in Nat /\ k + 1 \in Nat /\ k + 1 # 0 /\ (k + 1) - 1 = k
    OBVIOUS
  <2>5. Covered(i, IF k + 1 = 0 THEN 0 ELSE (k + 1) - 1)'
    BY <1>1, <2>2, <2>3, <2>4, HandleCovers
  <2>6. Covered(i, k)'
    BY <2>4, <2>5
  <2> QED
    BY <2>1, <2>3, <2>6
<1>5. ASSUME NEW i, running, Covered(i, 0),
             ~ (type = "disconnect" /\ Head(toApi).ws = i)
      PROVE  Covered(i, 0)'
  <2>1. Covered(i, IF 0 = 0 THEN 0 ELSE 0 - 1)'
    BY <1>1, <1>5, HandleCovers
  <2> QED
    BY <2>1
<1>6. CASE DisconnectPeerWebsocket
  <2>1. type = "disconnect"
    BY <1>1, <1>6 DEF DisconnectPeerWebsocket, Handle
  <2>2. PICK leaver :
           /\ leaver = {Head(toApi).ws}
                          \cap IF counted \/ ~ routed THEN InRoom(peer) ELSE {}
           /\ peer' = [i \in Ids |-> IF i \in leaver THEN "unknown" ELSE peer[i]]
           /\ equipped' = equipped \ leaver
           /\ abandoned' = abandoned \ leaver
           /\ counted' = (counted /\ ((routed /\ leaver # {}) => InRoom(peer') # {}))
    BY <1>6 DEF DisconnectPeerWebsocket
  <2>3. /\ equipped' \ abandoned' \subseteq equipped \ abandoned
        /\ Head(toApi).ws \notin equipped' \ abandoned'
    BY <2>2 DEF CoverInv
  <2>4. equipped' \subseteq InRoom(peer')
    BY <2>2 DEF CoverInv, InRoom
  <2>5. equipped' \ abandoned' # {} => counted'
    BY <2>2, <2>3, <2>4 DEF CoverInv
  <2>6. ASSUME running', NEW i \in equipped' \ abandoned'
        PROVE  Covered(i, 0)'
    BY <1>3, <1>5, <2>3, <2>6 DEF CoverInv
  <2> QED
    BY <1>3, <1>4, <2>4, <2>5, <2>6 DEF CoverInv
<1>7. CASE CreateIngressTransport
  <2>1. type = "createIngressTransport"
    BY <1>1, <1>7 DEF CreateIngressTransport, Handle
  <2>2. /\ equipped' = equipped \cup ({Head(toApi).ws} \cap InRoom(peer))
        /\ abandoned' = abandoned \ ({Head(toApi).ws} \cap InRoom(peer))
        /\ counted' = (counted \/ {Head(toApi).ws} \cap InRoom(peer) # {})
        /\ peer' = peer
    BY <1>7 DEF CreateIngressTransport
  <2>3. equipped' \subseteq InRoom(peer') /\ (equipped' \ abandoned' # {} => counted')
    BY <2>2 DEF CoverInv
  <2>4. ASSUME running', NEW i \in equipped' \ abandoned'
        PROVE  Covered(i, 0)'
    <3>1. CASE i \in equipped \ abandoned
      BY <3>1, <1>3, <1>5, <2>1, <2>4 DEF CoverInv
    <3>2. CASE i = Head(toApi).ws
      <4>1. Covered(i, 1)
        BY <3>2, <1>2, <1>3, <2>1, <2>4 DEF CoverInv
      <4>2. Covered(i, IF 1 = 0 THEN 0 ELSE 1 - 1)'
        BY <4>1, <1>1, HandleCovers
      <4> QED
        BY <4>2
    <3> QED
      BY <2>2, <2>4, <3>1, <3>2
  <2> QED
    BY <1>3, <1>4, <2>3, <2>4 DEF CoverInv
<1>8. CASE RequestIdentity \/ JoinRoom \/ BeginSendingStats \/ EndSendingStats
  <2>1. /\ type # "disconnect"
        /\ equipped' = equipped /\ counted' = counted /\ abandoned' = abandoned
    BY <1>1, <1>8 DEF RequestIdentity, JoinRoom, BeginSendingStats,
                      EndSendingStats, Handle, room
  <2>2. InRoom(peer) \subseteq InRoom(peer')
    BY <1>8 DEF RequestIdentity, JoinRoom, BeginSendingStats, EndSendingStats,
                room, InRoom
  <2>3. equipped' \subseteq InRoom(peer') /\ (equipped' \ abandoned' # {} => counted')
    BY <2>1, <2>2 DEF CoverInv
  <2>4. ASSUME running', NEW i \in equipped' \ abandoned'
        PROVE  Covered(i, 0)'
    BY <1>3, <1>5, <2>1, <2>4 DEF CoverInv
  <2> QED
    BY <1>3, <1>4, <2>3, <2>4 DEF CoverInv
<1>9. CASE LeaveRoom
  <2>1. type # "disconnect"
    BY <1>1, <1>9 DEF LeaveRoom, Handle
  <2>2. PICK ws : ws = Head(toApi).ws
    OBVIOUS
  <2>3. \/ UNCHANGED <<peer, equipped, counted, abandoned>>
        \/ /\ peer' = [peer EXCEPT ![ws] = "roomless"]
           /\ equipped' = equipped \ {ws}
           /\ \/ counted' = counted /\ abandoned' = abandoned \ {ws}
              \/ abandoned' = equipped'
    BY <1>9, <2>2 DEF LeaveRoom, room
  <2>4. equipped' \ abandoned' \subseteq equipped \ abandoned
    BY <2>3
  <2>5. equipped' \subseteq InRoom(peer')
    BY <2>3 DEF CoverInv, InRoom
  <2>6. equipped' \ abandoned' # {} => counted'
    BY <2>3, <2>4 DEF CoverInv
  <2>7. ASSUME running', NEW i \in equipped' \ abandoned'
        PROVE  Covered(i, 0)'
    BY <1>3, <1>5, <2>1, <2>4, <2>7 DEF CoverInv
  <2> QED
    BY <1>3, <1>4, <2>5, <2>6, <2>7 DEF CoverInv
<1> QED
  BY <1>6, <1>7, <1>8, <1>9 DEF PeerManager

\* Every step keeps who is covered.
LEMMA CoverStep ==
    ASSUME TypeOK, CoverInv, [Next]_vars
    PROVE  CoverInv'
<1> USE DEF TypeOK
<1>1. ASSUME UNCHANGED <<running, id, toApi, peer, equipped, counted, abandoned>>,
             OpenSockets \subseteq OpenSockets'
      PROVE  CoverInv'
  <2>1. ASSUME NEW i, NEW k, Covered(i, k)
        PROVE  Covered(i, k)'
    BY <1>1, <2>1 DEF Covered, Told
  <2>2. /\ toApi' = toApi /\ running' = running
        /\ equipped' = equipped /\ abandoned' = abandoned
    BY <1>1
  <2>3. ASSUME running', NEW i \in equipped' \ abandoned'
        PROVE  Covered(i, 0)'
    BY <2>1, <2>2, <2>3 DEF CoverInv
  <2>4. ASSUME running', NEW k \in 1..Len(toApi'),
               toApi'[k].type = "createIngressTransport"
        PROVE  Covered(toApi[k].ws, k)'
    <3>1. PICK i : i = toApi[k].ws
      OBVIOUS
    <3>2. Covered(i, k)
      BY <2>2, <2>4, <3>1 DEF CoverInv
    <3> QED
      BY <2>1, <2>2, <3>1, <3>2
  <2>5. equipped' \subseteq InRoom(peer') /\ (equipped' \ abandoned' # {} => counted')
    BY <1>1 DEF CoverInv
  <2> QED
    BY <2>3, <2>4, <2>5 DEF CoverInv
<1>2. ASSUME NEW s \in Sockets, Connection(s)
      PROVE  CoverInv'
  BY <1>1, <1>2 DEF Connection, api, room, OpenSockets
<1>3. ASSUME NEW s \in Sockets, Incoming(s)
      PROVE  CoverInv'
  <2>1. PICK n \in 1..5 : toApi' = Append(toApi, [type |-> Requests[n], ws |-> id[s]])
    BY <1>3, NextRequest
  <2> DEFINE m == [type |-> Requests[n], ws |-> id[s]]
  <2>2. m \in ToApi /\ m.ws = id[s] /\ m.type # "disconnect"
    BY RequestFacts
  <2>3. /\ toApi' = Append(toApi, m)
        /\ UNCHANGED <<running, id, peer, equipped, counted, abandoned>>
        /\ s \in OpenSockets' /\ OpenSockets' = OpenSockets
    BY <1>3, <2>1 DEF Incoming, api, room, OpenSockets
  <2> HIDE DEF m
  <2> QED
    BY <2>2, <2>3, AppendCoverInv
<1>4. ASSUME NEW s \in Sockets, Close(s)
      PROVE  CoverInv'
  <2> DEFINE m == [type |-> "disconnect", ws |-> id[s]]
  <2>1. m \in ToApi /\ m.type = "disconnect" /\ m.ws = id[s]
    BY OtherMessages
  <2>2. /\ toApi' = Append(toApi, m)
        /\ UNCHANGED <<running, id, peer, equipped, counted, abandoned>>
        /\ OpenSockets' = OpenSockets \ {s}
    BY <1>4 DEF Close, api, room, OpenSockets
  <2> HIDE DEF m
  <2> QED
    BY <2>1, <2>2, AppendCoverInv
<1>5. CASE SendItBack
  BY <1>1, <1>5 DEF SendItBack, api, room, OpenSockets
<1>6. CASE SendBackThrows
  BY <1>6 DEF SendBackThrows, api, room, CoverInv
<1>7. ASSUME NEW v \in Viewers, StatsConnection(v)
      PROVE  CoverInv'
  <2> DEFINE m == [type |-> "begin"]
  <2>1. UNCHANGED <<running, id, peer, equipped, counted, abandoned, OpenSockets>>
    BY <1>7 DEF StatsConnection, web, api, room, OpenSockets
  <2>2. m \in ToApi /\ m.type = "begin"
    BY OtherMessages
  <2>3. CASE toApi' = toApi
    BY <1>1, <2>1, <2>3
  <2>4. CASE toApi' = Append(toApi, m)
    <3> HIDE DEF m
    <3> QED
      BY <2>1, <2>2, <2>4, AppendCoverInv
  <2> QED
    BY <1>7, <2>3, <2>4 DEF StatsConnection
<1>8. ASSUME NEW v \in Viewers, StatsClose(v)
      PROVE  CoverInv'
  <2> DEFINE m == [type |-> "end"]
  <2>1. UNCHANGED <<running, id, peer, equipped, counted, abandoned, OpenSockets>>
    BY <1>8 DEF StatsClose, web, api, room, OpenSockets
  <2>2. m \in ToApi /\ m.type = "end"
    BY OtherMessages
  <2>3. CASE toApi' = toApi
    BY <1>1, <2>1, <2>3
  <2>4. CASE toApi' = Append(toApi, m)
    <3> HIDE DEF m
    <3> QED
      BY <2>1, <2>2, <2>4, AppendCoverInv
  <2> QED
    BY <1>8, <2>3, <2>4 DEF StatsClose
<1>9. CASE PeerManager
  BY <1>9, HandleCoverInv
<1>10. ASSUME NEW m \in answering, ForwardAnswer(m)
      PROVE  CoverInv'
  BY <1>1, <1>10 DEF ForwardAnswer, web, room, OpenSockets
<1>11. CASE StatsTimer
  BY <1>1, <1>11 DEF StatsTimer, web, room, OpenSockets
<1>12. CASE UNCHANGED vars
  BY <1>1, <1>12 DEF vars, web, api, room, OpenSockets
<1> QED
  BY <1>2, <1>3, <1>4, <1>5, <1>6, <1>7, <1>8, <1>9, <1>10, <1>11, <1>12 DEF Next

-----------------------------------------------------------------------------
(* Who is served.                                                          *)

\* A message that joins the queue is news of nobody's going but of its own id.
LEMMA AppendRecognised ==
    ASSUME TypeOK, NEW m \in ToApi, toApi' = Append(toApi, m), UNCHANGED peer,
           NEW i, Recognised(i), ~ (m.type = "disconnect" /\ m.ws = i)
    PROVE  Recognised(i)'
<1>1. /\ Len(toApi) \in Nat
      /\ Len(toApi') = Len(toApi) + 1
      /\ \A j \in 1..Len(toApi) : toApi'[j] = toApi[j]
      /\ toApi'[Len(toApi) + 1] = m
  BY AppendFacts DEF TypeOK
<1>2. ASSUME NEW k \in Nat, Stays(i, k)
      PROVE  Stays(i, k)'
  <2>1. ASSUME NEW j \in 1..Len(toApi'), j > k
        PROVE  ~ Told(j, "disconnect", i)'
    <3>1. CASE j = Len(toApi) + 1
      BY <3>1, <1>1 DEF Told
    <3>2. CASE j # Len(toApi) + 1
      BY <3>2, <1>1, <1>2, <2>1 DEF Told, Stays
    <3> QED
      BY <3>1, <3>2
  <2> QED
    BY <2>1 DEF Stays
<1>3. CASE peer[i] # "unknown" /\ Stays(i, 0)
  <2>1. Stays(i, 0)'
    BY <1>2, <1>3
  <2> QED
    BY <1>3, <2>1 DEF Recognised
<1>4. ASSUME NEW k \in 1..Len(toApi), Told(k, "requestIdentity", i), Stays(i, k)
      PROVE  Recognised(i)'
  <2>1. Stays(i, k)'
    BY <1>2, <1>4
  <2>2. k \in 1..Len(toApi') /\ Told(k, "requestIdentity", i)'
    BY <1>1, <1>4 DEF Told
  <2> QED
    BY <2>1, <2>2 DEF Recognised
<1> QED
  BY <1>3, <1>4 DEF Recognised

\* The peerManager knows whose request for an identity it handled, and forgets
\* only who it is told has gone.
LEMMA HandleRecognised ==
    ASSUME TypeOK, PeerManager, NEW i \in Ids, Recognised(i)
    PROVE  Recognised(i)'
<1> USE DEF TypeOK
<1>1. PICK type : Handle(type)
  BY DEF PeerManager, RequestIdentity, JoinRoom, CreateIngressTransport,
         LeaveRoom, DisconnectPeerWebsocket, BeginSendingStats, EndSendingStats
<1>2. /\ Len(toApi) \in Nat \ {0}
      /\ Len(toApi') = Len(toApi) - 1
      /\ Head(toApi) = toApi[1]
      /\ toApi[1].type = type
      /\ \A k \in 1..Len(toApi') : toApi'[k] = toApi[k + 1]
  BY <1>1, HandleFacts
<1>3. ASSUME NEW k \in Nat, Stays(i, k)
      PROVE  Stays(i, IF k = 0 THEN 0 ELSE k - 1)'
  <2>1. ASSUME NEW j \in 1..Len(toApi'), j > IF k = 0 THEN 0 ELSE k - 1
        PROVE  ~ Told(j, "disconnect", i)'
    <3>1. j + 1 \in 1..Len(toApi) /\ toApi'[j] = toApi[j + 1] /\ j + 1 > k
      BY <1>2, <2>1
    <3> QED
      BY <3>1, <1>3 DEF Stays, Told
  <2> QED
    BY <2>1 DEF Stays
<1>4. ASSUME peer'[i] # "unknown", Stays(i, 0) \/ Stays(i, 1)
      PROVE  Recognised(i)'
  <2>1. Stays(i, 0) => Stays(i, IF 0 = 0 THEN 0 ELSE 0 - 1)'
    BY <1>3
  <2>2. Stays(i, 1) => Stays(i, IF 1 = 0 THEN 0 ELSE 1 - 1)'
    BY <1>3
  <2>3. Stays(i, 0)'
    BY <1>4, <2>1, <2>2
  <2> QED
    BY <1>4, <2>3 DEF Recognised
<1>5. ASSUME ~ Told(1, "disconnect", i), peer[i] # "unknown"
      PROVE  peer'[i] # "unknown"
  <2>1. CASE DisconnectPeerWebsocket
    <3>1. Head(toApi).ws # i
      BY <1>1, <1>2, <1>5, <2>1 DEF DisconnectPeerWebsocket, Handle, Told
    <3> QED
      BY <1>5, <2>1, <3>1 DEF DisconnectPeerWebsocket
  <2>2. CASE RequestIdentity
    BY <1>5, <2>2 DEF RequestIdentity
  <2>3. CASE JoinRoom
    BY <1>5, <2>3 DEF JoinRoom
  <2>4. CASE CreateIngressTransport \/ BeginSendingStats \/ EndSendingStats
    BY <1>5, <2>4 DEF CreateIngressTransport, BeginSendingStats, EndSendingStats, room
  <2>5. CASE LeaveRoom
    BY <1>5, <2>5 DEF LeaveRoom, room
  <2> QED
    BY <2>1, <2>2, <2>3, <2>4, <2>5 DEF PeerManager
<1>6. CASE peer[i] # "unknown" /\ Stays(i, 0)
  <2>1. 1 \in 1..Len(toApi) /\ 1 > 0
    BY <1>2
  <2>2. ~ Told(1, "disconnect", i)
    BY <1>6, <2>1 DEF Stays
  <2> QED
    BY <1>4, <1>5, <1>6, <2>2
<1>7. ASSUME NEW k \in 1..Len(toApi), Told(k, "requestIdentity", i), Stays(i, k), k # 1
      PROVE  Recognised(i)'
  <2>1. k - 1 \in 1..Len(toApi') /\ toApi'[k - 1] = toApi[k]
    BY <1>2, <1>7
  <2>2. Stays(i, IF k = 0 THEN 0 ELSE k - 1)'
    BY <1>3, <1>7
  <2>3. PICK h \in 1..Len(toApi') : h = k - 1
    BY <2>1
  <2>4. Stays(i, h)' /\ Told(h, "requestIdentity", i)'
    BY <1>7, <2>1, <2>2, <2>3 DEF Told
  <2> QED
    BY <2>3, <2>4 DEF Recognised
<1>8. ASSUME Told(1, "requestIdentity", i), Stays(i, 1)
      PROVE  Recognised(i)'
  <2>1. RequestIdentity /\ Head(toApi).ws = i
    BY <1>2, <1>8 DEF PeerManager, RequestIdentity, JoinRoom,
       CreateIngressTransport, LeaveRoom, DisconnectPeerWebsocket, BeginSendingStats,
       EndSendingStats, Handle, Told
  <2>2. peer'[i] # "unknown"
    BY <2>1 DEF RequestIdentity
  <2> QED
    BY <1>4, <1>8, <2>2
<1> QED
  BY <1>6, <1>7, <1>8 DEF Recognised

\* Steps that change nothing an answer needs keep who is served.
LEMMA ServedUnchanged ==
    ASSUME TypeOK, ServedInv,
           UNCHANGED <<running, state, id, sent, clients, superseded>>,
           \A i \in Ids : Recognised(i) => Recognised(i)'
    PROVE  ServedInv'
<1> USE DEF TypeOK
<1>1. UNCHANGED <<running, state, id, sent, clients, superseded>>
  OBVIOUS
<1>2. OpenSockets' = OpenSockets
  BY <1>1 DEF OpenSockets
<1>3. ASSUME NEW s \in OpenSockets', running', Newest(s)', id'[s] \notin superseded'
      PROVE  clients'[id'[s]] = s /\ (sent'[s] > 0 => Recognised(id[s])')
  <2>1. Newest(s)
    BY <1>1, <1>3 DEF Newest
  <2>2. PICK i \in Ids : i = id[s]
    BY <1>2, <1>3 DEF OpenSockets
  <2>3. clients[i] = s /\ (sent[s] > 0 => Recognised(i))
    BY <1>1, <1>2, <1>3, <2>1, <2>2 DEF ServedInv
  <2> QED
    BY <1>1, <2>2, <2>3
<1> QED
  BY <1>1, <1>3 DEF ServedInv

\* A new socket takes over its id.
LEMMA ServedConnection ==
    ASSUME TypeOK, ServedInv, NEW s \in Sockets, Connection(s)
    PROVE  ServedInv'
<1> USE DEF TypeOK
<1>1. /\ running /\ running' /\ state[s] = "new"
      /\ \A t \in Sockets : t < s => state[t] # "new"
      /\ state' = [state EXCEPT ![s] = "open"]
      /\ clients' = [clients EXCEPT ![id[s]] = s]
      /\ UNCHANGED <<id, sent, toApi, peer, superseded>>
  BY DEF Connection, api, room
<1>2. \A i : Recognised(i) => Recognised(i)'
  BY <1>1 DEF Recognised, Stays, Told
<1>3. \A t, u \in Sockets : t < u \/ u < t \/ t = u
  BY RelaysAssumption
<1>4. \A t \in Sockets : t > s => state[t] = "new"
  BY <1>1 DEF ServedInv
<1>5. \A t \in Sockets : state'[t] = "new" => sent'[t] = 0
  BY <1>1 DEF ServedInv
<1>6. ASSUME NEW t \in Sockets, NEW u \in Sockets, u < t, state'[u] = "new"
      PROVE  state'[t] = "new"
  <2>1. u # s /\ state[u] = "new"
    BY <1>1, <1>6
  <2>2. state[t] = "new" /\ t # s
    BY <1>1, <1>6, <2>1 DEF ServedInv
  <2> QED
    BY <1>1, <2>2
<1>7. ASSUME NEW u \in OpenSockets', Newest(u)', id'[u] \notin superseded'
      PROVE  clients'[id'[u]] = u /\ (sent'[u] > 0 => Recognised(id[u])')
  <2>1. CASE u = s
    <3>1. sent'[u] = 0
      BY <1>1, <2>1 DEF ServedInv
    <3> QED
      BY <1>1, <2>1, <3>1
  <2>2. CASE u # s
    <3>1. u \in OpenSockets /\ u \in Sockets
      BY <1>1, <1>7, <2>2 DEF OpenSockets
    <3>2. u < s
      BY <1>3, <1>4, <2>2, <3>1 DEF OpenSockets
    <3>3. id[u] # id[s]
      <4>1. state'[s] # "new" /\ ~ (s <= u)
        BY <1>1, <3>1, <3>2, RelaysAssumption
      <4> QED
        BY <1>1, <1>7, <4>1 DEF Newest
    <3>4. Newest(u)
      BY <1>1, <1>7 DEF Newest
    <3>5. clients[id[u]] = u /\ (sent[u] > 0 => Recognised(id[u]))
      BY <1>1, <1>7, <3>1, <3>4 DEF ServedInv
    <3>6. PICK i \in Ids : i = id[u]
      BY <3>1
    <3>7. sent[u] > 0 => Recognised(i)'
      BY <1>2, <3>5, <3>6
    <3> QED
      BY <1>1, <3>1, <3>3, <3>5, <3>6, <3>7
  <2> QED
    BY <2>1, <2>2
<1> QED
  BY <1>5, <1>6, <1>7 DEF ServedInv

\* The first request of a socket makes it recognised.
LEMMA ServedIncoming ==
    ASSUME TypeOK, ServedInv, NEW s \in Sockets, Incoming(s)
    PROVE  ServedInv'
<1> USE DEF TypeOK
<1>0. PICK n \in 1..5 :
         /\ sent[s] = 0 => n = 1
         /\ sent' = [sent EXCEPT ![s] = n]
         /\ toApi' = Append(toApi, [type |-> Requests[n], ws |-> id[s]])
  BY NextRequest
<1> DEFINE m == [type |-> Requests[n], ws |-> id[s]]
<1>1. /\ state[s] = "open"
      /\ sent' = [sent EXCEPT ![s] = n]
      /\ toApi' = Append(toApi, m)
      /\ UNCHANGED <<running, state, id, clients, peer, superseded>>
  BY <1>0 DEF Incoming, api, room
<1>2. /\ m \in ToApi /\ m.type # "disconnect" /\ m.ws = id[s]
      /\ sent[s] = 0 => m.type = "requestIdentity"
  BY <1>0, RequestFacts
<1> HIDE DEF m
<1>3. \A i : Recognised(i) => Recognised(i)'
  BY <1>1, <1>2, AppendRecognised
<1>4. OpenSockets' = OpenSockets
  BY <1>1 DEF OpenSockets
<1>5. ASSUME sent[s] = 0
      PROVE  Recognised(id[s])'
  <2>1. /\ Len(toApi) \in Nat
        /\ Len(toApi') = Len(toApi) + 1
        /\ toApi'[Len(toApi) + 1] = m
    BY <1>1, <1>2, AppendFacts
  <2>2. PICK k : k = Len(toApi) + 1
    OBVIOUS
  <2>3. PICK i : i = id[s]
    OBVIOUS
  <2>4. k \in 1..Len(toApi') /\ Told(k, "requestIdentity", i)'
    BY <1>2, <1>5, <2>1, <2>2, <2>3 DEF Told
  <2>5. Stays(i, k)'
    BY <2>1, <2>2 DEF Stays
  <2>6. Recognised(i)'
    BY <2>4, <2>5 DEF Recognised
  <2> QED
    BY <1>1, <2>3, <2>6
<1>6. \A t \in Sockets : state'[t] = "new" => sent'[t] = 0
  BY <1>1 DEF ServedInv
<1>7. \A t, u \in Sockets : u < t /\ state'[u] = "new" => state'[t] = "new"
  BY <1>1 DEF ServedInv
<1>8. ASSUME running', NEW u \in OpenSockets', Newest(u)', id'[u] \notin superseded'
      PROVE  clients'[id'[u]] = u /\ (sent'[u] > 0 => Recognised(id[u])')
  <2>1. u \in OpenSockets /\ u \in Sockets /\ Newest(u)
    BY <1>1, <1>4, <1>8 DEF Newest, OpenSockets
  <2>2. clients[id[u]] = u /\ (sent[u] > 0 => Recognised(id[u]))
    BY <1>1, <1>8, <2>1 DEF ServedInv
  <2>3. PICK i \in Ids : i = id[u]
    BY <2>1
  <2>4. CASE sent[u] > 0
    <3>1. Recognised(i)'
      BY <1>3, <2>2, <2>3, <2>4
    <3> QED
      BY <1>1, <2>2, <2>3, <3>1
  <2>5. CASE ~ (sent[u] > 0) /\ u = s
    BY <1>1, <1>5, <2>2, <2>5
  <2>6. CASE ~ (sent[u] > 0) /\ u # s
    BY <1>1, <2>1, <2>2, <2>6
  <2> QED
    BY <2>4, <2>5, <2>6
<1> QED
  BY <1>6, <1>7, <1>8 DEF ServedInv

\* A socket that closes takes service only from a newer one of its id.
LEMMA ServedClose ==
    ASSUME TypeOK, ServedInv, NEW s \in Sockets, Close(s)
    PROVE  ServedInv'
<1> USE DEF TypeOK
<1> DEFINE m == [type |-> "disconnect", ws |-> id[s]]
<1>1. /\ state[s] = "open"
      /\ state' = [state EXCEPT ![s] = "closed"]
      /\ toApi' = Append(toApi, m)
      /\ clients' = [clients EXCEPT ![id[s]] = NoSocket]
      /\ superseded' = superseded \cup
             {i \in {id[s]} : \E t \in OpenSockets : t > s /\ id[t] = i}
      /\ UNCHANGED <<running, id, sent, peer>>
  BY DEF Close, api, room
<1>2. m \in ToApi /\ m.ws = id[s]
  BY OtherMessages
<1> HIDE DEF m
<1>3. ASSUME NEW i, i # id[s], Recognised(i)
      PROVE  Recognised(i)'
  BY <1>1, <1>2, <1>3, AppendRecognised
<1>4. \A t \in Sockets : state'[t] = "new" => sent'[t] = 0
  BY <1>1 DEF ServedInv
<1>5. \A t, u \in Sockets : u < t /\ state'[u] = "new" => state'[t] = "new"
  BY <1>1 DEF ServedInv
<1>6. ASSUME running', NEW u \in OpenSockets', Newest(u)', id'[u] \notin superseded'
      PROVE  clients'[id'[u]] = u /\ (sent'[u] > 0 => Recognised(id[u])')
  <2>1. u \in OpenSockets /\ u \in Sockets /\ u # s
    BY <1>1, <1>6 DEF OpenSockets
  <2>2. Newest(u)
    BY <1>1, <1>6 DEF Newest
  <2>3. id[u] # id[s]
    <3>1. SUFFICES ASSUME id[u] = id[s]
                   PROVE  FALSE
      OBVIOUS
    <3>2. s <= u
      BY <1>1, <2>2, <3>1 DEF Newest
    <3>3. u > s
      BY <2>1, <3>2, RelaysAssumption
    <3> QED
      BY <1>1, <1>6, <2>1, <3>1, <3>3
  <2>4. clients[id[u]] = u /\ (sent[u] > 0 => Recognised(id[u]))
    BY <1>1, <1>6, <2>1, <2>2 DEF ServedInv
  <2>5. PICK i \in Ids : i = id[u]
    BY <2>1
  <2>6. sent[u] > 0 => Recognised(i)'
    BY <1>3, <2>3, <2>4, <2>5
  <2> QED
    BY <1>1, <2>1, <2>3, <2>4, <2>5, <2>6
<1> QED
  BY <1>4, <1>5, <1>6 DEF ServedInv

LEMMA RecognisedKept ==
    ASSUME UNCHANGED <<toApi, peer>>, NEW i, Recognised(i)
    PROVE  Recognised(i)'
  BY DEF Recognised, Stays, Told

\* Every step keeps who is served.
LEMMA ServedStep ==
    ASSUME TypeOK, ServedInv, [Next]_vars
    PROVE  ServedInv'
<1> USE DEF TypeOK
<1>1. ASSUME UNCHANGED <<running, state, id, sent, clients, superseded, toApi, peer>>
      PROVE  ServedInv'
  <2>1. \A i : Recognised(i) => Recognised(i)'
    BY <1>1, RecognisedKept
  <2> QED
    BY <1>1, <2>1, ServedUnchanged
<1>2. ASSUME NEW s \in Sockets, Connection(s)
      PROVE  ServedInv'
  BY <1>2, ServedConnection
<1>3. ASSUME NEW s \in Sockets, Incoming(s)
      PROVE  ServedInv'
  BY <1>3, ServedIncoming
<1>4. ASSUME NEW s \in Sockets, Close(s)
      PROVE  ServedInv'
  BY <1>4, ServedClose
<1>5. CASE SendItBack
  BY <1>1, <1>5 DEF SendItBack, api, room
<1>6. CASE SendBackThrows
  BY <1>6 DEF SendBackThrows, ServedInv
<1>7. ASSUME NEW v \in Viewers, StatsConnection(v) \/ StatsClose(v)
      PROVE  ServedInv'
  <2>1. UNCHANGED <<running, state, id, sent, clients, superseded, peer>>
    BY <1>7 DEF StatsConnection, StatsClose, web, api, room
  <2>2. CASE toApi' = toApi
    BY <1>1, <2>1, <2>2
  <2>3. ASSUME NEW m \in ToApi, m.type # "disconnect", toApi' = Append(toApi, m)
        PROVE  ServedInv'
    <3>1. \A i : Recognised(i) => Recognised(i)'
      BY <2>1, <2>3, AppendRecognised
    <3> QED
      BY <2>1, <3>1, ServedUnchanged
  <2>4. \/ toApi' = toApi
        \/ toApi' = Append(toApi, [type |-> "begin"])
        \/ toApi' = Append(toApi, [type |-> "end"])
    BY <1>7 DEF StatsConnection, StatsClose
  <2> QED
    BY <2>2, <2>3, <2>4, OtherMessages
<1>8. CASE PeerManager
  <2>1. \A i \in Ids : Recognised(i) => Recognised(i)'
    BY <1>8, HandleRecognised
  <2>2. UNCHANGED <<running, state, id, sent, clients, superseded>>
    BY <1>8 DEF PeerManager, RequestIdentity, JoinRoom, CreateIngressTransport,
       LeaveRoom, DisconnectPeerWebsocket, BeginSendingStats, EndSendingStats, Handle,
       web
  <2> QED
    BY <2>1, <2>2, ServedUnchanged
<1>9. ASSUME NEW m \in answering, ForwardAnswer(m)
      PROVE  ServedInv'
  BY <1>1, <1>9 DEF ForwardAnswer, web, room
<1>10. CASE StatsTimer
  BY <1>1, <1>10 DEF StatsTimer, web, room
<1>11. CASE UNCHANGED vars
  BY <1>1, <1>11 DEF vars, web, api, room
<1> QED
  BY <1>2, <1>3, <1>4, <1>5, <1>6, <1>7, <1>8, <1>9, <1>10, <1>11 DEF Next

-----------------------------------------------------------------------------
(* The theorems.                                                           *)

\* The inductive invariant holds at the start.
LEMMA InitInv == Init => IInv
<1> SUFFICES ASSUME Init
             PROVE  IInv
  OBVIOUS
<1> USE DEF Init
<1>1. TypeOK
  <2>1. toApi \in Seq(ToApi) /\ toWeb \in Seq(ToWeb)
    BY EmptySeq
  <2>2. Len(Requests) = 5 /\ Len(Answers) = 2
    BY DEF Requests, Answers
  <2>3. sent \in [Sockets -> 0..Len(Requests)] /\ got \in [Sockets -> 0..Len(Answers)]
    BY <2>2
  <2> QED
    BY <2>1, <2>3 DEF TypeOK
<1>2. StatsInv
  <2>1. Watching = {}
    BY DEF Watching
  <2>2. Len(toApi) = 0 /\ 1..Len(toApi) = {} /\ 0..Len(toApi) = {0}
    OBVIOUS
  <2> DEFINE f == [k \in {0} |-> 0]
  <2>3. f \in [0..Len(toApi) -> {0, 1}] /\ f[0] = 0
    BY <2>2
  <2> HIDE DEF f
  <2>4. Course(f)
    BY <2>1, <2>2, <2>3 DEF Course
  <2> QED
    BY <2>1, <2>3, <2>4 DEF StatsInv
<1>3. CoverInv
  <2>1. 1..Len(toApi) = {}
    OBVIOUS
  <2> QED
    BY <2>1 DEF CoverInv
<1>4. ServedInv
  BY DEF ServedInv, OpenSockets
<1> QED
  BY <1>1, <1>2, <1>3, <1>4 DEF IInv

\* Every step keeps the inductive invariant.
LEMMA NextInv == IInv /\ [Next]_vars => IInv'
<1> SUFFICES ASSUME IInv, [Next]_vars
             PROVE  IInv'
  OBVIOUS
<1>1. TypeOK'
  <2>1. TypeOK /\ (latest => timers = 1)
    BY DEF IInv, StatsInv
  <2>2. CASE UNCHANGED vars
    BY <2>1, <2>2 DEF TypeOK, vars, web, api, room
  <2> QED
    BY <2>1, <2>2, WebTypeStep, ApiTypeStep DEF Next
<1>2. StatsInv'
  BY StatsStep DEF IInv
<1>3. CoverInv'
  BY CoverStep DEF IInv
<1>4. ServedInv'
  BY ServedStep DEF IInv
<1> QED
  BY <1>1, <1>2, <1>3, <1>4 DEF IInv

\* The inductive invariant holds in every state, whatever the fairness.
THEOREM InvariantHolds == FairSpec => []IInv
<1>1. Spec => []IInv
  BY InitInv, NextInv, PTL DEF Spec
<1> QED
  BY <1>1, PTL DEF FairSpec

\* Every variable keeps its type, for any sockets, ids and viewers.
THEOREM TypeCorrect == FairSpec => []TypeOK
<1>1. IInv => TypeOK
  BY DEF IInv
<1> QED
  BY <1>1, InvariantHolds, PTL

\* However viewers of the statistics come and go, and however late the
\* peerManager hears of it, there is one chain of timers at most.
THEOREM OneChainStays == FairSpec => []OneStatsChain
<1>1. IInv => OneStatsChain
  <2> SUFFICES ASSUME IInv
               PROVE  OneStatsChain
    OBVIOUS
  <2>1. PICK f \in [0..Len(toApi) -> {0, 1}] : Course(f)
    BY DEF IInv, StatsInv
  <2>2. Len(toApi) \in Nat /\ 0 \in 0..Len(toApi)
    BY LenProperties DEF IInv, TypeOK
  <2>3. f[0] \in {0, 1} /\ f[0] = timers
    BY <2>1, <2>2 DEF Course
  <2> QED
    BY <2>3 DEF OneStatsChain
<1> QED
  BY <1>1, InvariantHolds, PTL

\* No peer that asked for its transport is left behind by its websocket, whoever
\* comes, goes and reconnects, but under a leaveRoom that closed the room with the
\* peer in it and until the peer asks again.
THEOREM NobodyLeftBehind == FairSpec => []NobodyOutlivesTheSocket
<1>1. IInv => NobodyOutlivesTheSocket
  <2> SUFFICES ASSUME IInv, running, NEW i \in equipped \ abandoned,
                      ~ \E s \in OpenSockets : id[s] = i
               PROVE  \E m \in Queued("disconnect") : m.ws = i
    BY DEF NobodyOutlivesTheSocket
  <2>1. PICK j \in 1..Len(toApi) : Told(j, "disconnect", i)
    BY DEF IInv, CoverInv, Covered
  <2>2. toApi[j] \in ToSet(toApi)
    BY LenProperties DEF ToSet, IInv, TypeOK
  <2> QED
    BY <2>1, <2>2 DEF Queued, Told
<1> QED
  BY <1>1, InvariantHolds, PTL

\* The newest socket of an id gets its answers and is known, unless an older
\* one closed late.
THEOREM NewestStaysServed == FairSpec => []NewestIsServed
<1>1. IInv => NewestIsServed
  <2> SUFFICES ASSUME IInv, running, NEW s \in OpenSockets,
                      Newest(s), id[s] \notin superseded
               PROVE  /\ clients[id[s]] = s
                      /\ sent[s] > 0 => \/ peer[id[s]] # "unknown"
                                        \/ \E m \in Queued("requestIdentity") : m.ws = id[s]
    BY DEF NewestIsServed
  <2>1. clients[id[s]] = s /\ (sent[s] > 0 => Recognised(id[s]))
    BY DEF IInv, ServedInv
  <2>2. ASSUME NEW k \in 1..Len(toApi), Told(k, "requestIdentity", id[s])
        PROVE  \E m \in Queued("requestIdentity") : m.ws = id[s]
    <3>1. toApi[k] \in ToSet(toApi)
      BY LenProperties DEF ToSet, IInv, TypeOK
    <3> QED
      BY <2>2, <3>1 DEF Queued, Told
  <2> QED
    BY <2>1, <2>2 DEF Recognised
<1> QED
  BY <1>1, InvariantHolds, PTL
=============================================================================
