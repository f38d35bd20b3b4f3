------------------------------ MODULE Conference ------------------------------
(***************************************************************************)
(* What the announcements of Announcements.tla bring about at one egress   *)
(* server, without the messages: who listens, what there is to listen to,  *)
(* who is beginning to hear what, and who hears it.                        *)
(***************************************************************************)
CONSTANTS
    Peers,
    Kinds,      \* of producers: audio, video, movement, events
    OwnKinds    \* those a peer may hear of itself

VARIABLES
    listening,  \* the peers that can hear
    sources,    \* pairs of a peer and a kind there is to hear
    tuning,     \* triples: who begins to hear whose source of which kind
    hears       \* triples: who hears it

vars == <<listening, sources, tuning, hears>>

Audible(p, q, k) == p # q \/ k \in OwnKinds

\* A source that is gone sounds on as long as somebody is tuning in to it.
Sounding(all, present, beginning) ==
    {h \in all : <<h[2], h[3]>> \in present \cup {<<t[2], t[3]>> : t \in beginning}}

Init == listening = {} /\ sources = {} /\ tuning = {} /\ hears = {}

Listen(p) ==
    /\ listening' = listening \cup {p}
    /\ UNCHANGED <<sources, tuning, hears>>

Offer(q, k) ==
    /\ sources' = sources \cup {<<q, k>>}
    /\ UNCHANGED <<listening, tuning, hears>>

\* One begins to hear only what there is, while one listens.
Tune(p, q, k) ==
    /\ p \in listening
    /\ <<q, k>> \in sources
    /\ Audible(p, q, k)
    /\ tuning' = tuning \cup {<<p, q, k>>}
    /\ UNCHANGED <<listening, sources, hears>>

\* What was begun is heard, though not if its source is gone by now; it may have
\* been begun twice.
Hear(p, q, k) ==
    /\ <<p, q, k>> \in tuning
    /\ tuning' \in {tuning, tuning \ {<<p, q, k>>}}
    /\ hears' = Sounding(hears \cup {<<p, q, k>>}, sources, tuning')
    /\ UNCHANGED <<listening, sources>>

\* Who leaves takes along what it hears and what is heard of it.
Leave(p) ==
    /\ listening' = listening \ {p}
    /\ sources' = {s \in sources : s[1] # p}
    /\ hears' = Sounding({h \in hears : h[1] # p}, sources', tuning)
    /\ UNCHANGED tuning

Next ==
    \/ \E p \in Peers : Listen(p) \/ Leave(p)
    \/ \E q \in Peers, k \in Kinds : Offer(q, k)
    \/ \E p, q \in Peers, k \in Kinds : Tune(p, q, k) \/ Hear(p, q, k)

Spec == Init /\ [][Next]_vars
=============================================================================
