------------------------------ MODULE MediaTasks ------------------------------
(***************************************************************************)
(* The tasks of one media server (src/rust/src) and the locks they take.   *)
(*                                                                         *)
(* The connection loop (server/stream.rs) reads a message from the API     *)
(* and, for every message but restartIce, spawns a tokio task that runs    *)
(* the handler (server/message_handle.rs); mediasoup's close callbacks     *)
(* spawn tasks too.  The tasks share maps behind tokio mutexes and answer  *)
(* through one bounded channel that only the connection loop empties.      *)
(*                                                                         *)
(* A handler is the set of its paths: the locks it takes, in order, and    *)
(* how long it keeps each.  What the maps hold is abstracted, so that a    *)
(* branch on their contents is a choice between paths and an early return  *)
(* a step that may end the task.  A guard bound by `let` is Lock, a guard  *)
(* that dies with its statement is Use, the end of an inner scope is Drop; *)
(* a task that returns drops every guard it still has.  The RwLocks        *)
(* `workers` and `webrtc_server` are written only before the loop starts   *)
(* and are left out; transport2router is read in temporaries only, so its  *)
(* readers are treated like writers.                                       *)
(***************************************************************************)
EXTENDS Naturals, Sequences, FiniteSets

CONSTANTS
    Tasks,      \* the tasks that may be spawned in a behaviour
    Messages,   \* the messages and callbacks that arrive
    NoTask,
    Capacity,   \* of the response channel (128 in the code)
    Rounds      \* bound on the rounds of a handler's loops

ASSUME MediaTasksAssumption ==
    /\ NoTask \notin Tasks
    /\ Capacity \in Nat \ {0}
    /\ Rounds \in Nat

VARIABLES
    handling,   \* the message a task works on, "new" before, "done" after
    todo,       \* the ways its handler may still go
    guard,      \* per lock: the task that has its guard, or NoTask
    waiters,    \* per lock: the tasks that wait for its guard, in order
    channel,    \* how many responses the channel holds
    loop        \* "select", or the task that the read branch awaits

vars == <<handling, todo, guard, waiters, channel, loop>>

Locks == {"roomRouters", "audioProducers", "videoProducers", "producers",
          "relayRouters", "relays", "pendingRelays", "routers",
          "routers2workers", "loads", "transport2router", "endpoints",
          "peerconsumed", "peeraudioconsumed", "peermovementconsumed",
          "peerdataconsumed", "consumers", "data_producers", "data_consumer"}

-----------------------------------------------------------------------------
(* Paths.                                                                  *)

Lock(l) == [op |-> "lock", lock |-> l]
Use(l)  == [op |-> "use",  lock |-> l]
Drop(l) == [op |-> "drop", lock |-> l]
Try     == [op |-> "try",  lock |-> "none"]    \* may return here
Send    == [op |-> "send", lock |-> "none"]

Step == [op : {"lock", "use", "drop"}, lock : Locks] \cup {Try, Send}

\* Every path of P followed by every path of Q.
Then(P, Q) == {p \o q : p \in P, q \in Q}

Optional(P) == P \cup {<<>>}

\* At most Rounds rounds of a loop with the given body.
Loop(P) ==
    LET upTo[n \in 0..Rounds] ==
            IF n = 0 THEN {<<>>} ELSE Optional(Then(P, upTo[n - 1]))
    IN  upTo[Rounds]

\* utils/worker_load.rs: get_less_loaded_router.  The guard of routers2workers
\* is a temporary of the `if let`, alive while loads is locked.
LessLoadedRouter ==
    {<<Use("roomRouters"), Try, Lock("routers2workers"), Use("loads"),
       Drop("routers2workers")>>,
     <<Use("roomRouters"), Try, Use("routers2workers")>>}

\* Variants of the definitions that follow them, each with one mistake in it,
\* are marked "Mistake"; a run checks that its property notices it.

\* Mistake: the guard of roomRouters dies with its statement.
CreateRouterGroupUngated ==
    Then({<<Use("roomRouters")>>},
         Then(Loop({<<Try, Lock("routers"), Lock("routers2workers"),
                      Drop("routers2workers"), Drop("routers")>>}),
              {<<Use("roomRouters"), Try, Send>>}))

\* roomRouters is held through the creation of a router on every worker.
CreateRouterGroup ==
    Then({<<Lock("roomRouters")>>},
         Then(Loop({<<Try, Lock("routers"), Lock("routers2workers"),
                      Drop("routers2workers"), Drop("routers")>>}),
              {<<Try, Send>>}))

\* One pipe transport per egress server that has none yet.
IngressRelay ==
    Loop(Then({<<Lock("relays")>>},
              Then({<<>>,
                    <<Lock("routers"), Drop("routers")>>,
                    <<Lock("routers"), Try, Send, Drop("routers")>>},
                   {<<Drop("relays")>>})))

CreateWebRTCIngress ==
    Then(LessLoadedRouter,
         Then({<<Try, Use("routers"), Try, Use("transport2router")>>},
              Then(IngressRelay, {<<Use("endpoints"), Send>>})))

CreateWebRTCEgress ==
    Then(LessLoadedRouter,
         {<<Try, Lock("routers"), Try, Lock("transport2router"),
            Lock("endpoints"), Send>>})

ConnectWebRTC == {<<Try, Send>>}

\* The relay's guards are temporaries, but its caller's are not.
ConsumerRelay ==
    {<<Try, Use("transport2router"), Try, Use("relays"), Try, Send, Send,
       Use("consumers")>>}

CreateMediaProducer ==
    Then({<<Try, Lock("audioProducers"), Lock("producers")>>}, ConsumerRelay)
    \cup
    Then({<<Try, Lock("videoProducers")>>},
         Then(ConsumerRelay, {<<Lock("producers")>>}))

\* Both data producers record the relay's consumer under three guards, which
\* live through the two sends.
DataProducer(consumed) ==
    {<<Try, Use("transport2router"), Try, Use("relays"), Try,
       Use("endpoints"), Try, Lock(consumed), Lock("data_producers"),
       Lock("data_consumer"), Send, Send>>}

CreateEventProducer == DataProducer("peerdataconsumed")
CreateDataProducer  == DataProducer("peermovementconsumed")

\* For every producer of every peer: skipped, already consumed, or consumed.
MediaConsumer(producersOf, consumed) ==
    Then(Loop(Then({<<Use(producersOf)>>},
                   Loop(Then({<<Use(consumed)>>},
                             {<<>>,
                              <<Try, Use("transport2router"), Try,
                                Use("routers"), Try>>,
                              <<Try, Use("transport2router"), Try,
                                Use("routers"), Try, Lock(consumed),
                                Lock("consumers"), Drop("consumers"),
                                Drop(consumed)>>})))),
         Optional({<<Send>>}))

ConsumeAudio == MediaConsumer("audioProducers", "peeraudioconsumed")
ConsumeVideo == MediaConsumer("videoProducers", "peerconsumed")

DataConsumer(consumed) ==
    Then(Loop({<<Try, Lock(consumed), Lock("data_consumer"),
                 Drop("data_consumer"), Drop(consumed)>>}),
         Optional({<<Send>>}))

ConsumeEvents   == DataConsumer("peerdataconsumed")
ConsumeMovement == DataConsumer("peermovementconsumed")

\* The relay an egress server opens towards an ingress router, unless it has one.
EgressRelay ==
    Then({<<Use("relays")>>},
         Optional(Then(LessLoadedRouter,
                       {<<Try, Use("routers"), Try, Lock("relayRouters"), Try,
                          Lock("relays"), Use("pendingRelays"), Try, Send,
                          Drop("relays"), Drop("relayRouters")>>})))

MediaRelayProducer ==
    Then({<<Use("relays"), Try, Use("roomRouters"), Use("relayRouters")>>},
         Then(Loop({<<Use("routers"), Use("routers"), Try, Use("routers"), Try>>}),
              {<<Lock("audioProducers"), Send, Lock("producers")>>,
               <<Lock("videoProducers"), Send, Lock("producers")>>}))

DataRelayProducer ==
    Then({<<Try, Use("relays"), Try, Use("roomRouters"), Use("relayRouters")>>},
         Then(Loop({<<Use("routers"), Lock("routers"), Try, Drop("routers")>>}),
              {<<Try, Lock("data_producers"), Send>>}))

CreateRelayProducer ==
    Then(EgressRelay, Optional(MediaRelayProducer \cup DataRelayProducer))

\* Every guard but the last three lives until the end of the handler.
DisconnectTransport ==
    Then({<<Lock("producers"), Lock("consumers"), Lock("audioProducers"),
            Lock("data_consumer"), Lock("data_producers"),
            Lock("videoProducers"), Lock("peerconsumed"),
            Lock("peeraudioconsumed"), Lock("peermovementconsumed"),
            Lock("peerdataconsumed")>>},
         Optional({<<Use("transport2router"), Try, Use("routers2workers"), Try,
                     Use("loads")>>}))

DestroyRouterGroup ==
    {<<Lock("roomRouters"), Try, Lock("pendingRelays"), Lock("relays"),
       Lock("relayRouters"), Lock("routers2workers"), Lock("loads"),
       Lock("routers")>>}

ConsumerPauseResume == {<<Lock("consumers")>>}
ProducerPauseResume == {<<Lock("audioProducers"), Try, Send>>}
ProducerClose       == {<<Lock("videoProducers")>>}
StorePipeRelay      == {<<Use("pendingRelays")>>}
ConnectPipeRelay    == {<<Use("relays"), Try>>}
RestartIce          == {<<Try, Send>>}

\* on_close of a WebRTC transport, of an audio producer and of the router an
\* egress relay was opened on.
TransportClosed     == {<<Lock("transport2router"), Lock("endpoints")>>}
AudioProducerClosed == {<<Lock("producers"), Lock("consumers")>>}
EgressRouterClosed  == {<<Lock("relays")>>}

Callbacks == [transportClosed     |-> TransportClosed,
              audioProducerClosed |-> AudioProducerClosed,
              egressRouterClosed  |-> EgressRouterClosed]

\* server/message_handle.rs: handle_request_message.
Handlers == [createRouterGroup    |-> CreateRouterGroup,
             createWebRTCIngress  |-> CreateWebRTCIngress,
             createWebRTCEgress   |-> CreateWebRTCEgress,
             connectWebRTC        |-> ConnectWebRTC,
             createMediaProducer  |-> CreateMediaProducer,
             createEventProducer  |-> CreateEventProducer,
             createDataProducer   |-> CreateDataProducer,
             consumeAudio         |-> ConsumeAudio,
             consumeVideo         |-> ConsumeVideo,
             consumeEvents        |-> ConsumeEvents,
             consumeMovement      |-> ConsumeMovement,
             disconnectTransport  |-> DisconnectTransport,
             destroyRouterGroup   |-> DestroyRouterGroup,
             consumerPauseResume  |-> ConsumerPauseResume,
             producerPauseResume  |-> ProducerPauseResume,
             producerClose        |-> ProducerClose,
             restartIce           |-> RestartIce,
             storePipeRelay       |-> StorePipeRelay,
             createRelayProducer  |-> CreateRelayProducer,
             connectPipeRelay     |-> ConnectPipeRelay]

ASSUME MessagesAssumption == Messages \subseteq DOMAIN Handlers \cup DOMAIN Callbacks

Paths(m) == IF m \in DOMAIN Handlers THEN Handlers[m] ELSE Callbacks[m]

\* A path that asks for a guard only while every guard it keeps is of a lock
\* with a smaller rank.
Requests(s) == s.op \in {"lock", "use"}

InOrder(rank, p) ==
    \A i, j \in DOMAIN p :
        /\ i < j
        /\ p[i].op = "lock"
        /\ Requests(p[j])
        /\ \A k \in (i + 1)..(j - 1) : p[k] # Drop(p[i].lock)
        => rank[p[i].lock] < rank[p[j].lock]

\* The handlers of the messages in M agree on the order of the locks.
PathsInOrder(rank, M) ==
    \A m \in M : \A p \in Paths(m) : p \in Seq(Step) /\ InOrder(rank, p)

\* The messages and callbacks of a server nobody leaves.
Serving ==
    (DOMAIN Handlers \cup DOMAIN Callbacks)
        \ {"disconnectTransport", "destroyRouterGroup"}

\* An order in which the handlers of these messages lock the maps.
ServingRank ==
    [roomRouters |-> 1, audioProducers |-> 2, videoProducers |-> 3,
     producers |-> 4, relayRouters |-> 5, relays |-> 6, pendingRelays |-> 7,
     routers |-> 8, routers2workers |-> 9, loads |-> 10,
     transport2router |-> 11, endpoints |-> 12, peerconsumed |-> 13,
     peeraudioconsumed |-> 14, peermovementconsumed |-> 15,
     peerdataconsumed |-> 16, consumers |-> 17, data_producers |-> 18,
     data_consumer |-> 19]

\* The messages that can be handled while rooms and transports come and go:
\* the handlers left out lock two of the tables that disconnectTransport
\* locks, in the opposite order.
Leaving ==
    {"createRouterGroup", "destroyRouterGroup", "createWebRTCIngress",
     "createWebRTCEgress", "connectWebRTC", "disconnectTransport",
     "consumerPauseResume", "producerPauseResume", "producerClose",
     "restartIce", "storePipeRelay", "connectPipeRelay", "transportClosed",
     "audioProducerClosed", "egressRouterClosed"}

\* Their order, but for destroyRouterGroup, which takes routers last.
CreatingRank ==
    [producers |-> 1, consumers |-> 2, audioProducers |-> 3,
     data_consumer |-> 4, data_producers |-> 5, videoProducers |-> 6,
     peerconsumed |-> 7, peeraudioconsumed |-> 8, peermovementconsumed |-> 9,
     peerdataconsumed |-> 10, roomRouters |-> 11, pendingRelays |-> 12,
     relays |-> 13, relayRouters |-> 14, routers |-> 15,
     routers2workers |-> 16, loads |-> 17, transport2router |-> 19,
     endpoints |-> 20]

\* Their order, but for createRouterGroup, which takes routers first.
DestroyingRank == [CreatingRank EXCEPT !.routers = 18]

-----------------------------------------------------------------------------
(* The state a task is in.                                                 *)

Running(t) == handling[t] \in Messages

\* The steps t may take next, and what is left once it took step s.
Steps(t)    == {Head(p) : p \in todo[t] \ {<<>>}}
After(t, s) == {Tail(p) : p \in {q \in todo[t] \ {<<>>} : Head(q) = s}}

Waiting(t, l) == \E i \in DOMAIN waiters[l] : waiters[l][i] = t

Init ==
    /\ handling = [t \in Tasks |-> "new"]
    /\ todo = [t \in Tasks |-> {}]
    /\ guard = [l \in Locks |-> NoTask]
    /\ waiters = [l \in Locks |-> <<>>]
    /\ channel = 0
    /\ loop = "select"

-----------------------------------------------------------------------------
(* The connection loop.                                                    *)

Spawn(t, m) ==
    /\ handling[t] = "new"
    /\ handling' = [handling EXCEPT ![t] = m]
    /\ todo' = [todo EXCEPT ![t] = Paths(m)]
    /\ UNCHANGED <<guard, waiters, channel>>

\* Mistake: no handler is spawned, so the branch awaits each of them.
ReadMessageAwaits(t) ==
    /\ loop = "select"
    /\ \E m \in Messages \cap DOMAIN Handlers : Spawn(t, m)
    /\ loop' = t

\* read.next(): every handler is spawned, except that of restartIce, which the
\* branch awaits: until it ends, no branch of the select! is polled, neither
\* rx.recv() nor the timer of the heartbeat.
ReadMessage(t) ==
    /\ loop = "select"
    /\ \E m \in Messages \cap DOMAIN Handlers :
          /\ Spawn(t, m)
          /\ loop' = IF m = "restartIce" THEN t ELSE "select"

OnClose(t) ==
    /\ \E m \in Messages \cap DOMAIN Callbacks : Spawn(t, m)
    /\ UNCHANGED loop

\* rx.recv(): the response moves to the write queue, which is unbounded.
Receive ==
    /\ loop = "select"
    /\ channel > 0
    /\ channel' = channel - 1
    /\ UNCHANGED <<handling, todo, guard, waiters, loop>>

-----------------------------------------------------------------------------
(* A task.  A tokio mutex is fair: it serves its waiters in order.         *)

Acquire(t) ==
    \E s \in Steps(t) :
        /\ Requests(s)
        /\ guard[s.lock] = NoTask
        /\ waiters[s.lock] # <<>> => Head(waiters[s.lock]) = t
        /\ guard' = IF s.op = "lock" THEN [guard EXCEPT ![s.lock] = t] ELSE guard
        /\ waiters' = IF Waiting(t, s.lock)
                      THEN [waiters EXCEPT ![s.lock] = Tail(@)] ELSE waiters
        /\ todo' = [todo EXCEPT ![t] = After(t, s)]
        /\ UNCHANGED <<handling, channel, loop>>

Enqueue(t) ==
    \E s \in Steps(t) :
        /\ Requests(s)
        /\ guard[s.lock] # NoTask \/ waiters[s.lock] # <<>>
        /\ ~ Waiting(t, s.lock)
        /\ waiters' = [waiters EXCEPT ![s.lock] = Append(@, t)]
        /\ todo' = [todo EXCEPT ![t] = {p \in todo[t] \ {<<>>} : Head(p) = s}]
        /\ UNCHANGED <<handling, guard, channel, loop>>

DropGuard(t) ==
    \E s \in Steps(t) :
        /\ s.op = "drop"
        /\ guard[s.lock] = t
        /\ guard' = [guard EXCEPT ![s.lock] = NoTask]
        /\ todo' = [todo EXCEPT ![t] = After(t, s)]
        /\ UNCHANGED <<handling, waiters, channel, loop>>

GoOn(t) ==
    /\ Try \in Steps(t)
    /\ todo' = [todo EXCEPT ![t] = After(t, Try)]
    /\ UNCHANGED <<handling, guard, waiters, channel, loop>>

\* Mistake: the channel is not bounded.
SendUnbounded(t) ==
    /\ Send \in Steps(t)
    /\ channel' = channel + 1
    /\ todo' = [todo EXCEPT ![t] = After(t, Send)]
    /\ UNCHANGED <<handling, guard, waiters, loop>>

\* sender.send().await: blocks while the channel is full.
SendResponse(t) ==
    /\ Send \in Steps(t)
    /\ channel < Capacity
    /\ channel' = channel + 1
    /\ todo' = [todo EXCEPT ![t] = After(t, Send)]
    /\ UNCHANGED <<handling, guard, waiters, loop>>

\* The handler returns, early or at its end, and drops the guards it has.
Return(t) ==
    /\ Running(t)
    /\ Try \in Steps(t) \/ <<>> \in todo[t]
    /\ handling' = [handling EXCEPT ![t] = "done"]
    /\ todo' = [todo EXCEPT ![t] = {}]
    /\ guard' = [l \in Locks |-> IF guard[l] = t THEN NoTask ELSE guard[l]]
    /\ loop' = IF loop = t THEN "select" ELSE loop
    /\ UNCHANGED <<waiters, channel>>

TaskStep(t) ==
    \/ Acquire(t) \/ Enqueue(t) \/ DropGuard(t)
    \/ GoOn(t) \/ SendResponse(t) \/ Return(t)

Next ==
    \/ \E t \in Tasks : ReadMessage(t) \/ OnClose(t) \/ TaskStep(t)
    \/ Receive

\* The runtime polls every task that is woken, and select! picks among the
\* ready branches at random.  Nothing forces a message to arrive.
Fairness ==
    /\ \A t \in Tasks : WF_vars(TaskStep(t))
    /\ WF_vars(Receive)

Spec == Init /\ [][Next]_vars /\ Fairness

-----------------------------------------------------------------------------
(* Properties.                                                             *)

\* The variables have the values the code gives them: the responses waiting
\* never exceed the capacity of the channel.
TypeOK ==
    /\ handling \in [Tasks -> Messages \cup {"new", "done"}]
    /\ todo \in [Tasks -> SUBSET Seq(Step)]
    /\ guard \in [Locks -> Tasks \cup {NoTask}]
    /\ waiters \in [Locks -> Seq(Tasks)]
    /\ channel \in 0..Capacity
    /\ loop \in Tasks \cup {"select"}

Stuck(S) == \A t \in S : \E l \in Locks : Waiting(t, l) /\ guard[l] \in S

\* No group of handlers waits for guards that only members of the group have:
\* a tokio mutex has no timeout, so such a group would never run again, and
\* nobody would get those locks after it (the handlers of src/rust/src).
NoCircularWait == \A S \in (SUBSET Tasks) \ {{}} : ~ Stuck(S)

\* Every handler that starts returns: it gets each guard it asks for and room
\* in the response channel, whatever the other handlers do.
HandlersReturn == \A t \in Tasks : Running(t) ~> handling[t] = "done"

\* The handler of a data producer sends its signal to the egress server, or
\* gives up with an error (handlers/movement_producer.rs, event_producer.rs).
DataProducerSignals ==
    \A t \in Tasks : handling[t] \in {"createDataProducer", "createEventProducer"}
                     ~> handling[t] = "done"
=============================================================================
