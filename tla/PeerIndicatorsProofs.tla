------------------------- MODULE PeerIndicatorsProofs -------------------------
(***************************************************************************)
(* Proofs about PeerIndicators: its types, that peers of a room get to     *)
(* know each other, keep the latest of what the others show, drop who has  *)
(* gone and do not hear who is in another zone.  Clients know each other   *)
(* through two queues each, so that the invariants speak of the messages   *)
(* that are on their way.                                                  *)
(***************************************************************************)
EXTENDS PeerIndicators, SequenceTheorems, TLAPS

USE DEF client

\* Who is known has been created.
Created == \A p, q \in Peers : Knows(p, q) => Shown(p, q)

\* The types, and that.
Typed ==
    /\ Created
    /\ place \in [Peers -> {"out", "joining", "lobby", "frame", "closed"}]
    /\ self \in [Peers -> Indicators]
    /\ store \in [Peers -> [Peers -> Indicators \cup {NoPeer}]]
    /\ peersMap \in [Peers -> SUBSET Peers]
    /\ hush \in [Peers -> [Peers -> {"unset", "mute", "unmute"}]]
    /\ consumer \in [Peers -> [Peers -> {"none", "playing", "paused"}]]
    /\ present \subseteq Peers
    /\ room \in BOOLEAN /\ counter \in BOOLEAN
    /\ up \in [Peers -> Seq(Message)]
    /\ down \in [Peers -> Seq(Message)]
    /\ changes \in 0..MaxChanges
    /\ moved \subseteq Movers
    /\ faceless \subseteq Peers \X Peers
    /\ unsaid \subseteq Peers

\* A message of S is in s after the k-th.
After(s, k, S) == \E j \in 1..Len(s) : j > k /\ s[j] \in S
Has(s, S) == After(s, 0, S)

\* The indicators of q; the replies for q on their way up, from q on their way
\* down; the news that q has gone; and all that tells how somebody is.
Indicating(q) == {m \in Message : m.type = "peerIndicators" /\ m.peer = q}
Replying(q) == {m \in Message : m.type = "reply" /\ m.peer = q}
Leaving(q) == {m \in Message : m.type = "peerDisconnect" /\ m.peer = q}
Telling == {m \in Message : m.type \in {"peerIndicators", "reply"}}

\* Messages that give indicator i.
Fields == {"look", "zone", "muted"}
Giving(i) == {m \in Telling : m.body[i] # Undefined}

\* What a client shows of itself is complete.
Tabs == [look : Looks, zone : Zones, muted : BOOLEAN]

\* A change never gives the zone together with muting.
OneField(body) == body["zone"] = Undefined \/ body["muted"] = Undefined

\* Settlers whose tab is open.
Here == {p \in Settlers : place[p] # "closed"}

\* The messages that a client sends, and those that it gets.
UpOK(q, k) ==
    LET m == up[q][k]
    IN  /\ m.type = "peerIndicators" => m.peer = q
        /\ m.type = "peerIndicators" => OneField(m.body)
        /\ m.type = "reply" => m.body \in Tabs
        /\ m.type = "leaveRoom" => q \in moved
        /\ m.type = "closed" => k = Len(up[q]) /\ place[q] = "closed"
        /\ m.type \notin {"peerDisconnect", "joined"}

DownOK(p, k) ==
    LET m == down[p][k]
    IN  /\ m.type = "peerIndicators" => OneField(m.body)
        /\ m.type = "reply" => m.body \in Tabs
        /\ m.type \in {"joined", "peerIndicators", "reply", "peerDisconnect"}

Shape ==
    /\ self \in [Peers -> Tabs]
    /\ \A q \in Peers : \A k \in 1..Len(up[q]) : UpOK(q, k)
    /\ \A p \in Peers : \A k \in 1..Len(down[p]) : DownOK(p, k)

\* Who tells, is told or is answered is in the room for the peerManager.
RoomInv ==
    /\ \A q \in Settlers :
          /\ place[q] = "out" => q \notin present /\ up[q] = <<>>
          /\ place[q] \in {"lobby", "frame"} => q \in present
          /\ Has(up[q], Telling) => q \in present
    /\ \A q \in Here :
          /\ down[q] # <<>> => q \in present
          /\ \A r \in Peers :
                Has(up[r], Replying(q)) \/ Has(down[r], Indicating(q)) => q \in present

\* Both are in the room, or p will be told after the k-th message that q has gone,
\* or that is never announced.
Together(p, q, k) ==
    {p, q} \subseteq present \/ After(down[p], k, Leaving(q)) \/ q \in unsaid

GhostInv ==
    /\ \A p \in Here, q \in Settlers : p # q =>
          /\ Shown(p, q) => Together(p, q, 0)
          /\ \A k \in 1..Len(down[p]) :
                down[p][k] \in Indicating(q) \cup Replying(q) => Together(p, q, k)
    /\ \A q \in Here : q \notin unsaid /\ \A p \in Peers : ~ Has(down[p], Leaving(q))

\* A reply from q to p is on its way.
Answering(q, p) == Has(up[q], Replying(p)) \/ Has(down[p], Replying(q))

\* Whom p shows shows p, or will by p's reply; who replies shows whom it is for.
MutualInv ==
    \A p, q \in Here : p # q =>
        /\ Shown(p, q) => Shown(q, p) \/ Answering(p, q)
        /\ Answering(p, q) => Shown(p, q)

\* What leads to p showing q.
WillShow(p, q) ==
    \/ Shown(p, q) \/ Answering(q, p)
    \/ Has(down[p], Indicating(q)) \/ Has(down[q], Indicating(p))
    \/ Has(up[p], Indicating(p)) \/ Has(up[q], Indicating(q))

AcquaintedInv ==
    \A p, q \in Here :
        p # q /\ place[p] = "frame" /\ place[q] = "frame" => WillShow(p, q)

\* After what p knows of q's indicator i, or the k-th message to p, comes a message
\* that gives it.
ComesDown(p, q, i, k) == After(down[p], k, Giving(i) \cap (Indicating(q) \cup Replying(q)))
ComesUp(q, i, k) == After(up[q], k, Giving(i) \cap Indicating(q))

LatestUp(i, q, k) ==
    up[q][k] \in Telling
    => up[q][k].body[i] \in {Undefined, self[q][i]} \/ ComesUp(q, i, k)

LatestDown(i, p, q, k) ==
    down[p][k] \in Indicating(q) \cup Replying(q)
    => \/ down[p][k].body[i] \in {Undefined, self[q][i]}
       \/ ComesDown(p, q, i, k) \/ ComesUp(q, i, 0)

LatestKnown(i, p, q) ==
    Knows(p, q) => \/ store[p][q][i] \in {Undefined, self[q][i]}
                   \/ ComesDown(p, q, i, 0) \/ ComesUp(q, i, 0)

LatestInv ==
    \A i \in Fields :
        /\ \A q \in Peers : \A k \in 1..Len(up[q]) : LatestUp(i, q, k)
        /\ \A p, q \in Here : p # q =>
              /\ \A k \in 1..Len(down[p]) : LatestDown(i, p, q, k)
              /\ LatestKnown(i, p, q)

\* The facade of a peer that takes part is known, comes, or was missed for good.
FaceComes(p, q) ==
    \/ Knows(p, q) /\ store[p][q]["look"] # Undefined
    \/ <<p, q>> \in faceless
    \/ ComesDown(p, q, "look", 0) \/ ComesUp(q, "look", 0)

FaceInv ==
    \A p, q \in Here : p # q /\ place[q] = "frame" /\ Shown(p, q) => FaceComes(p, q)

\* Of a peer whose tab is closed the peerManager will hear so, or has done so, and
\* then it is not in the room, or that was not announced.
Closing == {m \in Message : m.type = "closed"}

GoneInv ==
    \A q \in Peers :
        place[q] = "closed"
        => Has(up[q], Closing) \/ (up[q] = <<>> /\ (q \notin present \/ q \in unsaid))

\* The inductive invariant.
IInv == /\ Typed /\ Shape /\ RoomInv /\ GhostInv /\ MutualInv /\ AcquaintedInv
        /\ LatestInv /\ FaceInv /\ GoneInv

-----------------------------------------------------------------------------
(* Indicators and messages.                                                *)

LEMMA IndicatorFields ==
    ASSUME NEW b \in Indicators
    PROVE  DOMAIN b = Fields
  BY DEF Indicators, Fields

LEMMA IndicatorsByField ==
    ASSUME NEW f, f = [i \in Fields |-> f[i]],
           f["look"] \in Looks \cup {Undefined},
           f["zone"] \in Zones \cup {Undefined},
           f["muted"] \in BOOLEAN \cup {Undefined}
    PROVE  f \in Indicators
  BY DEF Indicators, Fields

LEMMA TabsByField ==
    ASSUME NEW f, f = [i \in Fields |-> f[i]],
           f["look"] \in Looks, f["zone"] \in Zones, f["muted"] \in BOOLEAN
    PROVE  f \in Tabs
  BY DEF Tabs, Fields

\* What Merge makes of the fields.
LEMMA MergeFields ==
    ASSUME NEW old, NEW new \in Indicators, NEW i \in Fields
    PROVE  Merge(old, new)[i] = IF new[i] # Undefined THEN new[i]
                                ELSE IF old = NoPeer THEN Undefined ELSE old[i]
  BY IndicatorFields DEF Merge

LEMMA MergeTyped ==
    ASSUME NEW old \in Indicators \cup {NoPeer}, NEW new \in Indicators
    PROVE  Merge(old, new) \in Indicators
<1>1. Merge(old, new) = [i \in Fields |-> Merge(old, new)[i]]
  BY IndicatorFields DEF Merge
<1>2. Merge(old, new)["look"] \in Looks \cup {Undefined}
  BY MergeFields DEF Fields, Indicators
<1>3. Merge(old, new)["zone"] \in Zones \cup {Undefined}
  BY MergeFields DEF Fields, Indicators
<1>4. Merge(old, new)["muted"] \in BOOLEAN \cup {Undefined}
  BY MergeFields DEF Fields, Indicators
<1> QED
  BY <1>1, <1>2, <1>3, <1>4, IndicatorsByField

LEMMA TabsAreIndicators ==
    ASSUME NEW b \in Tabs
    PROVE  b \in Indicators /\ \A i \in Fields : b[i] # Undefined
<1>1. b \in Indicators
  BY DEF Tabs, Indicators
<1>2. b["look"] # Undefined /\ b["zone"] # Undefined /\ b["muted"] # Undefined
  BY UndefinedAssumption DEF Tabs
<1> QED
  BY <1>1, <1>2 DEF Fields

\* A tab stays complete when some of it changes.
LEMMA TabsMerge ==
    ASSUME NEW old \in Tabs, NEW new \in Indicators
    PROVE  Merge(old, new) \in Tabs
<1>1. Merge(old, new) = [i \in Fields |-> Merge(old, new)[i]]
  BY IndicatorFields DEF Merge
<1>2. old # NoPeer
  BY TabsAreIndicators, UndefinedAssumption
<1>3. Merge(old, new)["look"] \in Looks
  BY <1>2, MergeFields DEF Fields, Indicators, Tabs
<1>4. Merge(old, new)["zone"] \in Zones
  BY <1>2, MergeFields DEF Fields, Indicators, Tabs
<1>5. Merge(old, new)["muted"] \in BOOLEAN
  BY <1>2, MergeFields DEF Fields, Indicators, Tabs
<1> QED
  BY <1>1, <1>3, <1>4, <1>5, TabsByField

LEMMA SignalTyped ==
    ASSUME NEW t \in {"joinRoom", "leaveRoom", "closed", "joined"}
    PROVE  Signal(t) \in Message /\ Signal(t).type = t
  BY DEF Signal, Message

LEMMA TellTyped ==
    ASSUME NEW t \in {"peerIndicators", "reply", "peerDisconnect"}, NEW p \in Peers,
           NEW b \in Indicators
    PROVE  /\ Tell(t, p, b) \in Message
           /\ Tell(t, p, b).type = t /\ Tell(t, p, b).peer = p /\ Tell(t, p, b).body = b
  BY DEF Tell, Message

LEMMA MessageParts ==
    ASSUME NEW m \in Message,
           m.type \in {"peerIndicators", "reply", "peerDisconnect"}
    PROVE  m.peer \in Peers /\ m.body \in Indicators
  BY DEF Message

LEMMA NothingTyped ==
    /\ Nothing \in Indicators
    /\ \A v \in Looks : [Nothing EXCEPT !.look = v] \in Indicators
    /\ \A v \in Zones : [Nothing EXCEPT !.zone = v] \in Indicators
    /\ \A v \in BOOLEAN : [Nothing EXCEPT !.muted = v] \in Indicators
  BY DEF Nothing, Indicators

-----------------------------------------------------------------------------
(* Queues.                                                                 *)

LEMMA AppendOne ==
    ASSUME NEW s \in Seq(Message), NEW m \in Message
    PROVE  s \o <<m>> = Append(s, m)
  OBVIOUS

LEMMA AppendFacts ==
    ASSUME NEW s \in Seq(Message), NEW m \in Message
    PROVE  /\ Append(s, m) \in Seq(Message) /\ Append(s, m) # <<>>
           /\ Len(s) \in Nat /\ Len(Append(s, m)) = Len(s) + 1
           /\ \A k \in 1..Len(s) : Append(s, m)[k] = s[k]
           /\ Append(s, m)[Len(s) + 1] = m
  BY AppendProperties, LenProperties

LEMMA TailFacts ==
    ASSUME NEW s \in Seq(Message), s # <<>>
    PROVE  /\ Tail(s) \in Seq(Message)
           /\ Len(s) \in Nat \ {0} /\ Len(Tail(s)) = Len(s) - 1
           /\ Head(s) = s[1] /\ Head(s) \in Message
           /\ \A k \in 1..Len(Tail(s)) : k + 1 \in 1..Len(s) /\ Tail(s)[k] = s[k + 1]
<1>1. Len(s) \in Nat \ {0}
  BY EmptySeq, LenProperties
<1>2. Head(s) = s[1]
  BY <1>1
<1> QED
  BY <1>1, <1>2, HeadTailProperties

\* What comes after a message stays, and may come from a new one.
LEMMA AfterAppend ==
    ASSUME NEW s \in Seq(Message), NEW m \in Message, NEW S, NEW k \in 0..Len(s)
    PROVE  After(Append(s, m), k, S) <=> After(s, k, S) \/ m \in S
<1>1. /\ Len(s) \in Nat /\ Len(Append(s, m)) = Len(s) + 1
      /\ \A j \in 1..Len(s) : Append(s, m)[j] = s[j]
      /\ Append(s, m)[Len(s) + 1] = m
  BY AppendFacts
<1>2. ASSUME NEW j \in 1..Len(s)
      PROVE  j \in 1..Len(s) + 1
  BY <1>1, <1>2
<1> QED
  BY <1>1, <1>2 DEF After

LEMMA AfterLast ==
    ASSUME NEW s \in Seq(Message), NEW S
    PROVE  ~ After(s, Len(s), S)
  BY LenProperties DEF After

LEMMA AfterTail ==
    ASSUME NEW s \in Seq(Message), s # <<>>, NEW S, NEW k \in Nat
    PROVE  After(Tail(s), k, S) <=> After(s, k + 1, S)
<1>1. /\ Len(s) \in Nat \ {0} /\ Len(Tail(s)) = Len(s) - 1
      /\ \A j \in 1..Len(Tail(s)) : Tail(s)[j] = s[j + 1]
  BY TailFacts
<1>2. ASSUME After(Tail(s), k, S)
      PROVE  After(s, k + 1, S)
  <2>1. PICK j \in 1..Len(Tail(s)) : j > k /\ Tail(s)[j] \in S
    BY <1>2 DEF After
  <2>2. j + 1 \in 1..Len(s) /\ j + 1 > k + 1 /\ s[j + 1] \in S
    BY <1>1, <2>1
  <2> QED
    BY <2>2 DEF After
<1>3. ASSUME After(s, k + 1, S)
      PROVE  After(Tail(s), k, S)
  <2>1. PICK j \in 1..Len(s) : j > k + 1 /\ s[j] \in S
    BY <1>3 DEF After
  <2>2. j - 1 \in 1..Len(Tail(s)) /\ j - 1 > k /\ Tail(s)[j - 1] = s[j]
    BY <1>1, <2>1
  <2> QED
    BY <2>1, <2>2 DEF After
<1> QED
  BY <1>2, <1>3

\* The first message is in S, or one that comes after it is.
LEMMA HeadOrAfter ==
    ASSUME NEW s \in Seq(Message), s # <<>>, NEW S
    PROVE  /\ After(s, 0, S) <=> Head(s) \in S \/ After(s, 1, S)
           /\ Has(Tail(s), S) <=> After(s, 1, S)
<1>1. Len(s) \in Nat \ {0} /\ Head(s) = s[1]
  BY TailFacts
<1>2. After(s, 0, S) <=> Head(s) \in S \/ After(s, 1, S)
  BY <1>1 DEF After
<1>3. After(Tail(s), 0, S) <=> After(s, 0 + 1, S)
  BY AfterTail
<1> QED
  BY <1>2, <1>3 DEF Has

LEMMA HasNone ==
    ASSUME NEW S
    PROVE  ~ Has(<<>>, S)
  BY EmptySeq DEF Has, After
-----------------------------------------------------------------------------
(* The steps, and what they do to the queues.                              *)

\* p sends m.
Sends(p, m) == m \in Message /\ up' = [up EXCEPT ![p] = Append(up[p], m)]

LEMMA SendOne ==
    ASSUME up \in [Peers -> Seq(Message)], NEW p \in Peers, NEW m \in Message, Send(p, <<m>>)
    PROVE  Sends(p, m)
<1>1. up[p] \in Seq(Message)
  OBVIOUS
<1>2. up[p] \o <<m>> = Append(up[p], m)
  BY <1>1, AppendOne
<1> QED
  BY <1>2 DEF Sends, Send

\* What Sends does to the queues to the peerManager.
LEMMA SendsFacts ==
    ASSUME up \in [Peers -> Seq(Message)], NEW p \in Peers, NEW m, Sends(p, m)
    PROVE  /\ up' \in [Peers -> Seq(Message)]
           /\ up'[p] = Append(up[p], m)
           /\ \A q \in Peers \ {p} : up'[q] = up[q]
           /\ \A q \in Peers : Len(up[q]) \in Nat
           /\ \A q \in Peers : \A S : \A k \in 0..Len(up[q]) :
                 After(up'[q], k, S) <=> After(up[q], k, S) \/ (q = p /\ m \in S)
           /\ \A q \in Peers : \A S : Has(up'[q], S) <=> Has(up[q], S) \/ (q = p /\ m \in S)
           /\ \A q \in Peers : \A k \in 1..Len(up'[q]) :
                 \/ k \in 1..Len(up[q]) /\ up'[q][k] = up[q][k]
                 \/ q = p /\ k = Len(up[q]) + 1 /\ k = Len(up'[q]) /\ up'[q][k] = m
<1>1. /\ up'[p] = Append(up[p], m)
      /\ \A q \in Peers \ {p} : up'[q] = up[q]
      /\ m \in Message /\ Append(up[p], m) \in Seq(Message)
  BY AppendFacts DEF Sends
<1>2. up' \in [Peers -> Seq(Message)]
  BY <1>1 DEF Sends
<1>3. \A q \in Peers : Len(up[q]) \in Nat
  BY LenProperties
<1>4. ASSUME NEW q \in Peers, NEW S, NEW k \in 0..Len(up[q])
      PROVE  After(up'[q], k, S) <=> After(up[q], k, S) \/ (q = p /\ m \in S)
  <2>1. CASE q = p
    <3>1. up[p] \in Seq(Message) /\ k \in 0..Len(up[p])
      BY <1>4, <2>1
    <3>2. After(Append(up[p], m), k, S) <=> After(up[p], k, S) \/ m \in S
      BY <1>1, <3>1, AfterAppend
    <3> QED
      BY <1>1, <2>1, <3>2
  <2>2. CASE q # p
    BY <1>1, <2>2
  <2> QED
    BY <2>1, <2>2
<1>5. \A q \in Peers : 0 \in 0..Len(up[q])
  BY <1>3
<1>6. ASSUME NEW q \in Peers, NEW k \in 1..Len(up'[q])
      PROVE  \/ k \in 1..Len(up[q]) /\ up'[q][k] = up[q][k]
             \/ q = p /\ k = Len(up[q]) + 1 /\ k = Len(up'[q]) /\ up'[q][k] = m
  <2>1. CASE q = p
    <3>1. up[p] \in Seq(Message)
      OBVIOUS
    <3> QED
      BY <1>1, <1>6, <2>1, <3>1, AppendFacts
  <2>2. CASE q # p
    BY <1>1, <1>6, <2>2
  <2> QED
    BY <2>1, <2>2
<1> QED
  BY <1>1, <1>2, <1>3, <1>4, <1>5, <1>6 DEF Has

\* A client that only sends: it enters the frame, takes part, changes, or names its
\* assets, which changes nothing of what it shows.
Speaks(p, m) ==
    /\ Sends(p, m)
    /\ UNCHANGED <<store, peersMap, hush, consumer, present, room, counter, down, moved,
                   faceless, unsaid>>
    /\ \/ /\ m.type = "joinRoom"
          /\ place[p] = "out" /\ place' = [place EXCEPT ![p] = "joining"]
          /\ UNCHANGED <<self, changes>>
       \/ /\ m \in Indicating(p) /\ m.body.look = self[p].look
          /\ m.body["zone"] = Undefined /\ m.body["muted"] = Undefined
          /\ place[p] = "lobby" /\ place' = [place EXCEPT ![p] = "frame"]
          /\ UNCHANGED <<self, changes>>
       \/ /\ m \in Indicating(p) /\ OneField(m.body)
          /\ p \notin Walkers => m.body["zone"] = Undefined
          /\ \/ place[p] \in {"lobby", "frame"}
             \/ p \in moved /\ place[p] # "closed"
          /\ UNCHANGED place
          /\ self' = [self EXCEPT ![p] = Merge(self[p], m.body)]
          /\ changes < MaxChanges /\ changes' = changes + 1

LEMMA ChangeSpeaks ==
    ASSUME Typed, NEW p \in Peers, NEW new \in Indicators, Change(p, new),
           OneField(new), p \notin Walkers => new["zone"] = Undefined
    PROVE  \E m \in Message : Speaks(p, m)
<1> DEFINE m == Tell("peerIndicators", p, new)
<1>1. m \in Message /\ m \in Indicating(p) /\ m.body = new
  BY TellTyped DEF Indicating
<1>2. Sends(p, m)
  BY <1>1, SendOne DEF Change, Typed
<1>3. self' = [self EXCEPT ![p] = Merge(self[p], m.body)]
  BY <1>1 DEF Change
<1> HIDE DEF m
<1> QED
  BY <1>1, <1>2, <1>3 DEF Speaks, Change

\* Nothing leaves what is shown as it is.
LEMMA NothingMerges ==
    ASSUME NEW old \in Tabs
    PROVE  Merge(old, Nothing) = old
<1>1. old # NoPeer /\ Nothing \in Indicators
  BY TabsAreIndicators, NothingTyped, UndefinedAssumption
<1>2. \A i \in Fields : Nothing[i] = Undefined
  BY DEF Nothing, Fields
<1>3. \A i \in Fields : Merge(old, Nothing)[i] = old[i]
  BY <1>1, <1>2, MergeFields
<1>4. /\ Merge(old, Nothing) = [i \in Fields |-> Merge(old, Nothing)[i]]
      /\ old = [i \in Fields |-> old[i]]
  BY <1>1, IndicatorFields DEF Merge, Tabs, Fields
<1> QED
  BY <1>3, <1>4

LEMMA AssetsSpeak ==
    ASSUME Typed, Shape, NEW p \in Peers, SendAssetBindings(p)
    PROVE  \E m \in Message : Speaks(p, m)
<1> DEFINE m == Tell("peerIndicators", p, Nothing)
<1>1. m \in Message /\ m \in Indicating(p) /\ m.body = Nothing
  BY TellTyped, NothingTyped DEF Indicating
<1>2. Sends(p, m)
  BY <1>1, SendOne DEF SendAssetBindings, Typed
<1>3. Merge(self[p], Nothing) = self[p] /\ self = [self EXCEPT ![p] = self[p]]
  BY NothingMerges DEF Shape, Typed
<1>4. OneField(Nothing) /\ Nothing["zone"] = Undefined
  BY DEF OneField, Nothing
<1> HIDE DEF m
<1> QED
  BY <1>1, <1>2, <1>3, <1>4 DEF Speaks, SendAssetBindings

LEMMA ClientSpeaks ==
    ASSUME Typed, Shape, NEW p \in Peers,
           EnterFrame(p) \/ Participate(p) \/ SetFacade(p) \/ SetZone(p) \/ SetMuted(p)
             \/ SendAssetBindings(p)
    PROVE  \E m \in Message : Speaks(p, m)
<1>1. CASE EnterFrame(p)
  <2> DEFINE m == Signal("joinRoom")
  <2>1. m \in Message /\ m.type = "joinRoom"
    BY SignalTyped
  <2>2. Sends(p, m)
    BY <1>1, <2>1, SendOne DEF EnterFrame, Typed
  <2> HIDE DEF m
  <2> QED
    BY <1>1, <2>1, <2>2 DEF EnterFrame, Speaks
<1>2. CASE Participate(p)
  <2> DEFINE body == [Nothing EXCEPT !.look = self[p].look]
             m == Tell("peerIndicators", p, body)
  <2>1. self[p].look \in Looks
    BY DEF Shape, Tabs
  <2>2. body \in Indicators
    BY <2>1, NothingTyped
  <2>3. body.look = self[p].look /\ body["zone"] = Undefined /\ body["muted"] = Undefined
    BY DEF Nothing
  <2> HIDE DEF body
  <2>4. m \in Message /\ m \in Indicating(p) /\ m.body = body
    BY <2>2, TellTyped DEF Indicating
  <2>5. Sends(p, m)
    BY <1>2, <2>4, SendOne DEF Participate, Typed, body
  <2> HIDE DEF m
  <2> QED
    BY <1>2, <2>3, <2>4, <2>5 DEF Participate, Speaks
<1>3. CASE SetFacade(p)
  <2>1. changes < MaxChanges /\ changes \in 0..MaxChanges
    BY <1>3 DEF SetFacade, Change, Typed
  <2>2. changes + 1 \in Looks
    BY <2>1, IndicatorsAssumption DEF Looks
  <2>3. PICK new : new = [Nothing EXCEPT !.look = changes + 1]
    OBVIOUS
  <2>4. new \in Indicators /\ new["zone"] = Undefined
    BY <2>2, <2>3, NothingTyped DEF Nothing
  <2> QED
    BY <1>3, <2>3, <2>4, ChangeSpeaks DEF SetFacade, OneField
<1>4. CASE SetZone(p)
  <2>1. PICK z \in Zones : Change(p, [Nothing EXCEPT !.zone = z])
    BY <1>4 DEF SetZone
  <2>2. PICK new : new = [Nothing EXCEPT !.zone = z]
    OBVIOUS
  <2>3. new \in Indicators /\ new["muted"] = Undefined /\ p \in Walkers
    BY <1>4, <2>2, NothingTyped DEF Nothing, SetZone
  <2> QED
    BY <2>1, <2>2, <2>3, ChangeSpeaks DEF OneField
<1>5. CASE SetMuted(p)
  <2>1. (~ self[p].muted) \in BOOLEAN
    OBVIOUS
  <2>2. [Nothing EXCEPT !.muted = ~ self[p].muted] \in Indicators
    BY <2>1, NothingTyped
  <2>3. PICK new : new = [Nothing EXCEPT !.muted = ~ self[p].muted]
    OBVIOUS
  <2>4. new \in Indicators /\ new["zone"] = Undefined
    BY <2>2, <2>3 DEF Nothing
  <2> QED
    BY <1>5, <2>3, <2>4, ChangeSpeaks DEF SetMuted, OneField
<1> QED
  BY <1>1, <1>2, <1>3, <1>4, <1>5, AssetsSpeak

\* A client that leaves the frame.
LEMMA LeaveFrameSends ==
    ASSUME Typed, NEW p \in Peers, LeaveFrame(p)
    PROVE  \E m \in Message : m.type = "leaveRoom" /\ Sends(p, m)
<1> DEFINE m == Signal("leaveRoom")
<1>1. m \in Message /\ m.type = "leaveRoom"
  BY SignalTyped
<1>2. Sends(p, m)
  BY <1>1, SendOne DEF LeaveFrame, Typed
<1> QED
  BY <1>1, <1>2

LEMMA CloseTabSends ==
    ASSUME Typed, NEW p \in Peers, CloseTab(p)
    PROVE  \E m \in Message : m.type = "closed" /\ Sends(p, m)
<1> DEFINE m == Signal("closed")
<1>1. m \in Message /\ m.type = "closed"
  BY SignalTyped
<1>2. Sends(p, m)
  BY <1>1, SendOne DEF CloseTab, Typed
<1> QED
  BY <1>1, <1>2

\* t is s without its first message, m.
Taken(s, t, m) ==
    /\ m \in Message /\ m = s[1]
    /\ Len(s) \in Nat \ {0} /\ Len(t) = Len(s) - 1
    /\ \A k \in 1..Len(t) : k + 1 \in 1..Len(s) /\ t[k] = s[k + 1]
    /\ \A S : \A k \in Nat : After(t, k, S) <=> After(s, k + 1, S)
    /\ \A S : Has(t, S) <=> After(s, 1, S)
    /\ \A S : Has(s, S) <=> m \in S \/ Has(t, S)

LEMMA TakeFacts ==
    ASSUME NEW s \in Seq(Message), s # <<>>, NEW t, t = Tail(s), NEW m, m = Head(s)
    PROVE  Taken(s, t, m)
<1>1. /\ \A S : \A k \in Nat : After(t, k, S) <=> After(s, k + 1, S)
      /\ \A S : Has(t, S) <=> After(s, 1, S)
      /\ \A S : Has(s, S) <=> m \in S \/ Has(t, S)
  BY AfterTail, HeadOrAfter DEF Has
<1>2. /\ m \in Message /\ m = s[1]
      /\ Len(s) \in Nat \ {0} /\ Len(t) = Len(s) - 1
      /\ \A k \in 1..Len(t) : k + 1 \in 1..Len(s) /\ t[k] = s[k + 1]
  BY TailFacts
<1> QED
  BY <1>1, <1>2 DEF Taken

\* A client gets m.
Gets(p, m) ==
    /\ place[p] # "closed" /\ down[p] # <<>> /\ m = Head(down[p])
    /\ down' = [down EXCEPT ![p] = Tail(down[p])]
    /\ \/ UNCHANGED place
       \/ /\ m.type = "joined" /\ place[p] = "joining"
          /\ place' = [place EXCEPT ![p] = "lobby"]
    /\ UNCHANGED <<self, present, room, counter, changes, moved, unsaid>>

\* It is m about somebody's indicators.
Learns(p, m) ==
    /\ m \in Telling
    /\ \/ m.body = Nothing /\ UNCHANGED store
       \/ /\ m.body # Nothing
          /\ store' = [store EXCEPT ![p][m.peer] = Merge(store[p][m.peer], m.body)]
    /\ \/ /\ store[p][m.peer] = NoPeer
          /\ peersMap' = [peersMap EXCEPT ![p] = peersMap[p] \cup {m.peer}]
       \/ store[p][m.peer] # NoPeer /\ UNCHANGED peersMap
    /\ LET v == Verdict(p, m.peer, m.body)
       IN  IF v = Undefined THEN UNCHANGED <<hush, consumer>> ELSE Muted(p, m.peer, v)
    /\ \/ /\ store[p][m.peer] = NoPeer /\ m.type = "peerIndicators"
          /\ Sends(p, Tell("reply", m.peer, self[p]))
       \/ /\ ~ (store[p][m.peer] = NoPeer /\ m.type = "peerIndicators")
          /\ UNCHANGED up
    /\ faceless \subseteq faceless'
    /\ faceless' \subseteq faceless \cup {<<p, m.peer>>}
    /\ /\ m.type = "peerIndicators" /\ store[p][m.peer] = NoPeer
       /\ m.body.look = Undefined /\ place[m.peer] = "frame"
       => <<p, m.peer>> \in faceless'

LEMMA IncomingGets ==
    ASSUME Typed, Shape, NEW p \in Peers, IncomingSignal(p)
    PROVE  \E m \in Message :
              /\ Gets(p, m)
              /\ \/ /\ m.type = "joined"
                    /\ UNCHANGED <<store, peersMap, hush, consumer, up, faceless>>
                 \/ /\ m.type = "peerDisconnect" /\ m.peer \in Peers
                    /\ PeerDisconnectHandler(p, m.peer)
                    /\ UNCHANGED faceless
                 \/ Learns(p, m)
<1>1. PICK m : m = Head(down[p])
  OBVIOUS
<1>2. down[p] \in Seq(Message) /\ down[p] # <<>>
  BY DEF Typed, IncomingSignal
<1>3. m \in Message /\ m = down[p][1] /\ 1 \in 1..Len(down[p])
  BY <1>1, <1>2, TailFacts
<1>4. m.type \in {"joined", "peerIndicators", "reply", "peerDisconnect"}
  BY <1>3 DEF Shape, DownOK
<1>5. Gets(p, m)
  BY <1>1 DEF IncomingSignal, Gets
<1>6. CASE m.type = "joined"
  BY <1>1, <1>3, <1>5, <1>6 DEF IncomingSignal
<1>7. CASE m.type = "peerDisconnect"
  BY <1>1, <1>3, <1>5, <1>7, MessageParts DEF IncomingSignal, PeerDisconnectHandler
<1>8. CASE m \in Telling
  <2>1. m.peer \in Peers /\ m.type \in {"peerIndicators", "reply"} /\ self[p] \in Indicators
    BY <1>3, <1>8, MessageParts DEF Telling, Typed
  <2>2. PeerIndicatorsHandler(p, m)
    BY <1>1, <2>1 DEF IncomingSignal
  <2>3. faceless' = IF /\ m.type = "peerIndicators" /\ store[p][m.peer] = NoPeer
                       /\ m.body.look = Undefined /\ place[m.peer] = "frame"
                    THEN faceless \cup {<<p, m.peer>>} ELSE faceless
    BY <1>1 DEF IncomingSignal
  <2>4. Tell("reply", m.peer, self[p]) \in Message
    BY <2>1, TellTyped
  <2>5. Send(p, <<Tell("reply", m.peer, self[p])>>) => Sends(p, Tell("reply", m.peer, self[p]))
    BY <2>4, SendOne DEF Typed
  <2>6. Learns(p, m)
    BY <1>8, <2>2, <2>3, <2>5 DEF PeerIndicatorsHandler, Learn, Learns
  <2> QED
    BY <1>3, <1>5, <2>6
<1> QED
  BY <1>3, <1>4, <1>6, <1>7, <1>8 DEF Telling
\* The peerManager takes m from p's queue and sends n to ps.
Takes(p, m) ==
    /\ up[p] # <<>> /\ m = Head(up[p])
    /\ up' = [up EXCEPT ![p] = Tail(up[p])]
    /\ UNCHANGED <<place, self, store, peersMap, hush, consumer, changes, moved, faceless>>

Reaches(ps, n) ==
    /\ n \in Message
    /\ down' = [r \in Peers |-> IF r \in ps /\ place[r] # "closed"
                               THEN Append(down[r], n) ELSE down[r]]

\* p's leaving is announced by n, if p was in the room, or never is.
Goes(p, n, ps) ==
    \/ ps = present \ {p} /\ unsaid' = unsaid
    \/ p \notin present /\ ps = {} /\ unsaid' = unsaid
    \/ ps = {} /\ unsaid' = unsaid \cup {p}

Handles(p, m, n) ==
    /\ room' \in BOOLEAN /\ counter' \in BOOLEAN
    /\ \/ /\ m.type = "joinRoom" /\ present' = present \cup {p}
          /\ n.type = "joined" /\ Reaches({p}, n) /\ UNCHANGED unsaid
       \/ /\ m.type \in {"leaveRoom", "closed"} /\ present' \in {present, present \ {p}}
          /\ n \in Leaving(p)
          /\ \E ps : Reaches(ps, n) /\ Goes(p, n, ps)
          /\ m.type = "closed" => p \notin present' \/ p \in unsaid'
       \/ /\ m \in Indicating(p) /\ n = m /\ UNCHANGED <<present, unsaid>>
          /\ Reaches(IF p \in present THEN present \ {p} ELSE {}, n)
       \/ /\ m.type = "reply" /\ m.peer \in Peers /\ n \in Replying(p) /\ n.body = m.body
          /\ UNCHANGED <<present, unsaid>> /\ Reaches({m.peer}, n)

LEMMA NobodyReached ==
    ASSUME Typed, NEW n \in Message, UNCHANGED down
    PROVE  Reaches({}, n)
<1>1. [r \in Peers |-> IF r \in {} /\ place[r] # "closed" THEN Append(down[r], n) ELSE down[r]]
        = [r \in Peers |-> down[r]]
  OBVIOUS
<1>2. down' = [r \in Peers |-> down[r]]
  BY DEF Typed
<1> QED
  BY <1>1, <1>2 DEF Reaches

\* How a peer goes, by leaveRoom or as its tab is closed.
LEMMA LeavingHandled ==
    ASSUME Typed, Shape, NEW p \in Peers, NEW m \in Message,
           \/ m.type = "leaveRoom" /\ LeaveRoom(p)
           \/ m.type = "closed" /\ DisconnectPeerWebsocket(p)
    PROVE  \E n \in Message : Handles(p, m, n)
<1> DEFINE n == Tell("peerDisconnect", p, Nothing)
<1>1. n \in Message /\ n \in Leaving(p)
  BY TellTyped, NothingTyped DEF Leaving
<1>2. Cast(present \ {p}, n) => Reaches(present \ {p}, n)
  BY <1>1 DEF Cast, Reaches
<1>3. Announce(p) => Reaches(present \ {p}, n)
  BY <1>2 DEF Announce
<1> HIDE DEF n
<1>4. UNCHANGED down => Reaches({}, n)
  BY <1>1, NobodyReached
<1>5. CASE m.type = "leaveRoom" /\ LeaveRoom(p)
  <2>1. CASE room
    <3>1. /\ Reaches(present \ {p}, n) /\ unsaid' = unsaid
          /\ present' \in {present, present \ {p}}
          /\ room' \in BOOLEAN /\ counter' \in BOOLEAN
      BY <1>3, <1>5, <2>1 DEF LeaveRoom, Typed
    <3>2. Goes(p, n, present \ {p})
      BY <3>1 DEF Goes
    <3> QED
      BY <1>1, <1>5, <3>1, <3>2 DEF Handles
  <2>2. CASE ~ room
    <3>1. /\ Reaches({}, n) /\ unsaid' = unsaid \cup {p} /\ present' = present
          /\ room' \in BOOLEAN /\ counter' \in BOOLEAN
      BY <1>4, <1>5, <2>2 DEF LeaveRoom, Typed
    <3>2. Goes(p, n, {})
      BY <3>1 DEF Goes
    <3> QED
      BY <1>1, <1>5, <3>1, <3>2 DEF Handles
  <2> QED
    BY <2>1, <2>2
<1>6. CASE m.type = "closed" /\ DisconnectPeerWebsocket(p)
  <2>1. CASE p \notin present
    <3>1. UNCHANGED <<present, down, room, counter, unsaid>>
      BY <1>6, <2>1 DEF DisconnectPeerWebsocket
    <3>2. Goes(p, n, {})
      BY <2>1, <3>1 DEF Goes
    <3>3. Reaches({}, n) /\ room' \in BOOLEAN /\ counter' \in BOOLEAN
      BY <1>4, <3>1 DEF Typed
    <3> QED
      BY <1>1, <1>6, <2>1, <3>1, <3>2, <3>3 DEF Handles
  <2>2. CASE p \in present /\ room /\ counter
    <3>1. /\ Reaches(present \ {p}, n) /\ unsaid' = unsaid /\ present' = present \ {p}
          /\ room' \in BOOLEAN /\ counter' \in BOOLEAN
      BY <1>3, <1>6, <2>2 DEF DisconnectPeerWebsocket
    <3>2. Goes(p, n, present \ {p})
      BY <2>2, <3>1 DEF Goes
    <3> QED
      BY <1>1, <1>6, <3>1, <3>2 DEF Handles
  <2>3. CASE p \in present /\ ~ (room /\ counter)
    <3>1. /\ Reaches({}, n) /\ unsaid' = unsaid \cup {p}
          /\ present' \in {present, present \ {p}}
          /\ room' \in BOOLEAN /\ counter' \in BOOLEAN
      BY <1>4, <1>6, <2>3 DEF DisconnectPeerWebsocket, Typed
    <3>2. Goes(p, n, {})
      BY <3>1 DEF Goes
    <3> QED
      BY <1>1, <1>6, <3>1, <3>2 DEF Handles
  <2> QED
    BY <2>1, <2>2, <2>3
<1> QED
  BY <1>5, <1>6

LEMMA CommandTakes ==
    ASSUME Typed, Shape, NEW p \in Peers, Command(p)
    PROVE  \E m, n \in Message : Takes(p, m) /\ Handles(p, m, n)
<1>1. PICK m : m = Head(up[p])
  OBVIOUS
<1>2. up[p] \in Seq(Message) /\ up[p] # <<>>
  BY DEF Typed, Command
<1>3. m \in Message /\ m = up[p][1] /\ 1 \in 1..Len(up[p])
  BY <1>1, <1>2, TailFacts
<1>4. Takes(p, m)
  BY <1>1 DEF Command, Takes
<1>5. UpOK(p, 1)
  BY <1>3 DEF Shape
<1>6. CASE m.type = "joinRoom"
  <2> DEFINE n == Signal("joined")
  <2>1. n \in Message /\ n.type = "joined"
    BY SignalTyped
  <2>2. present' = present \cup {p} /\ Cast({p}, n) /\ room' = TRUE /\ UNCHANGED <<counter, unsaid>>
    BY <1>1, <1>6 DEF Command, JoinRoom
  <2> HIDE DEF n
  <2> QED
    BY <1>3, <1>4, <1>6, <2>1, <2>2 DEF Handles, Reaches, Cast, Typed
<1>7. CASE m.type \in {"leaveRoom", "closed"}
  <2>1. \/ m.type = "leaveRoom" /\ LeaveRoom(p)
        \/ m.type = "closed" /\ DisconnectPeerWebsocket(p)
    BY <1>1, <1>7 DEF Command
  <2> QED
    BY <1>3, <1>4, <2>1, LeavingHandled
<1>8. CASE m.type = "peerIndicators"
  <2>1. m \in Indicating(p)
    BY <1>3, <1>5, <1>8 DEF UpOK, Indicating
  <2>2. SendPeerIndicators(p, m)
    BY <1>1, <1>8 DEF Command
  <2> QED
    BY <1>3, <1>4, <2>1, <2>2 DEF Handles, Reaches, SendPeerIndicators, Cast, Typed
<1>9. CASE m.type = "reply"
  <2> DEFINE n == Tell("reply", p, m.body)
  <2>1. m.peer \in Peers /\ m.body \in Indicators
    BY <1>3, <1>9, MessageParts
  <2>2. n \in Message /\ n \in Replying(p) /\ n.body = m.body
    BY <2>1, TellTyped DEF Replying
  <2>3. ReplyPeerIndicators(p, m)
    BY <1>1, <1>9 DEF Command
  <2>4. Cast({m.peer}, n) /\ UNCHANGED <<present, room, counter, unsaid>>
    BY <2>3 DEF ReplyPeerIndicators
  <2> HIDE DEF n
  <2>5. Reaches({m.peer}, n)
    BY <2>2, <2>4 DEF Reaches, Cast
  <2>6. room' \in BOOLEAN /\ counter' \in BOOLEAN
    BY <2>4 DEF Typed
  <2> QED
    BY <1>3, <1>4, <1>9, <2>1, <2>2, <2>4, <2>5, <2>6 DEF Handles
<1> QED
  BY <1>3, <1>5, <1>6, <1>7, <1>8, <1>9 DEF UpOK, Message

\* How n, which m leads to, reaches ps.
Passes(p, m, n, ps) ==
    /\ Reaches(ps, n)
    /\ \/ /\ m.type = "joinRoom" /\ present' = present \cup {p}
          /\ n.type = "joined" /\ ps = {p} /\ unsaid' = unsaid
       \/ /\ m.type \in {"leaveRoom", "closed"} /\ present' \in {present, present \ {p}}
          /\ n \in Leaving(p) /\ Goes(p, n, ps)
       \/ /\ m \in Indicating(p) /\ n = m /\ present' = present /\ unsaid' = unsaid
          /\ p \in present => ps = present \ {p}
          /\ p \notin present => ps = {}
       \/ /\ m.type = "reply" /\ m.peer \in Peers /\ m \in Replying(m.peer)
          /\ n \in Replying(p) /\ n.body = m.body /\ present' = present /\ unsaid' = unsaid
          /\ ps = {m.peer}

LEMMA HandlesPasses ==
    ASSUME NEW p \in Peers, NEW m \in Message, NEW n \in Message, Handles(p, m, n)
    PROVE  \E ps : Passes(p, m, n, ps)
<1>1. PICK all : all = IF p \in present THEN present \ {p} ELSE {}
  OBVIOUS
<1>2. /\ p \in present => all = present \ {p}
      /\ p \notin present => all = {}
  BY <1>1
<1>3. CASE /\ m.type = "joinRoom" /\ present' = present \cup {p}
           /\ n.type = "joined" /\ Reaches({p}, n) /\ unsaid' = unsaid
  <2>1. Passes(p, m, n, {p})
    BY <1>3 DEF Passes
  <2> QED
    BY <2>1
<1>4. ASSUME m.type \in {"leaveRoom", "closed"}, present' \in {present, present \ {p}},
             n \in Leaving(p), NEW ps, Reaches(ps, n), Goes(p, n, ps)
      PROVE  Passes(p, m, n, ps)
  BY <1>4 DEF Passes
<1>5. CASE m \in Indicating(p) /\ n = m /\ UNCHANGED <<present, unsaid>> /\ Reaches(all, n)
  <2>1. Passes(p, m, n, all)
    BY <1>2, <1>5 DEF Passes
  <2> QED
    BY <2>1
<1>6. CASE /\ m.type = "reply" /\ m.peer \in Peers /\ n \in Replying(p) /\ n.body = m.body
           /\ UNCHANGED <<present, unsaid>> /\ Reaches({m.peer}, n)
  <2>1. m \in Replying(m.peer)
    BY <1>6 DEF Replying
  <2>2. Passes(p, m, n, {m.peer})
    BY <1>6, <2>1 DEF Passes
  <2> QED
    BY <2>2
<1> QED
  BY <1>1, <1>3, <1>4, <1>5, <1>6 DEF Handles

\* What Takes and Reaches do to the queues.
LEMMA TakesFacts ==
    ASSUME up \in [Peers -> Seq(Message)], NEW p \in Peers, NEW m, Takes(p, m)
    PROVE  /\ up' \in [Peers -> Seq(Message)]
           /\ \A q \in Peers \ {p} : up'[q] = up[q]
           /\ m \in Message /\ m = up[p][1]
           /\ Len(up[p]) \in Nat \ {0} /\ Len(up'[p]) = Len(up[p]) - 1
           /\ \A k \in 1..Len(up'[p]) : k + 1 \in 1..Len(up[p]) /\ up'[p][k] = up[p][k + 1]
           /\ \A S : \A k \in Nat : After(up'[p], k, S) <=> After(up[p], k + 1, S)
           /\ \A S : Has(up'[p], S) <=> After(up[p], 1, S)
           /\ \A S : Has(up[p], S) <=> m \in S \/ Has(up'[p], S)
<1>1. up[p] \in Seq(Message) /\ up[p] # <<>> /\ up'[p] = Tail(up[p]) /\ m = Head(up[p])
  BY DEF Takes
<1>2. up' \in [Peers -> Seq(Message)]
  BY <1>1, TailFacts DEF Takes
<1>3. \A q \in Peers \ {p} : up'[q] = up[q]
  BY DEF Takes
<1>4. Taken(up[p], up'[p], m)
  BY <1>1, TakeFacts
<1> QED
  BY <1>2, <1>3, <1>4 DEF Taken

LEMMA GetsFacts ==
    ASSUME down \in [Peers -> Seq(Message)], NEW p \in Peers, NEW m, Gets(p, m)
    PROVE  /\ down' \in [Peers -> Seq(Message)]
           /\ \A q \in Peers \ {p} : down'[q] = down[q]
           /\ m \in Message /\ m = down[p][1]
           /\ Len(down[p]) \in Nat \ {0} /\ Len(down'[p]) = Len(down[p]) - 1
           /\ \A k \in 1..Len(down'[p]) : k + 1 \in 1..Len(down[p]) /\ down'[p][k] = down[p][k + 1]
           /\ \A S : \A k \in Nat : After(down'[p], k, S) <=> After(down[p], k + 1, S)
           /\ \A S : Has(down'[p], S) <=> After(down[p], 1, S)
           /\ \A S : Has(down[p], S) <=> m \in S \/ Has(down'[p], S)
<1>1. down[p] \in Seq(Message) /\ down[p] # <<>> /\ down'[p] = Tail(down[p]) /\ m = Head(down[p])
  BY DEF Gets
<1>2. down' \in [Peers -> Seq(Message)]
  BY <1>1, TailFacts DEF Gets
<1>3. \A q \in Peers \ {p} : down'[q] = down[q]
  BY DEF Gets
<1>4. Taken(down[p], down'[p], m)
  BY <1>1, TakeFacts
<1> QED
  BY <1>2, <1>3, <1>4 DEF Taken

LEMMA ReachesFacts ==
    ASSUME down \in [Peers -> Seq(Message)], NEW ps, NEW n, Reaches(ps, n)
    PROVE  /\ down' \in [Peers -> Seq(Message)]
           /\ \A r \in Peers : Len(down[r]) \in Nat
           /\ \A r \in Peers : \A S : \A k \in 0..Len(down[r]) :
                 After(down'[r], k, S)
                   <=> After(down[r], k, S) \/ (r \in ps /\ place[r] # "closed" /\ n \in S)
           /\ \A r \in Peers : \A S :
                 Has(down'[r], S)
                   <=> Has(down[r], S) \/ (r \in ps /\ place[r] # "closed" /\ n \in S)
           /\ \A r \in Peers : r \notin ps \/ place[r] = "closed" => down'[r] = down[r]
           /\ \A r \in Peers : \A k \in 1..Len(down'[r]) :
                 \/ k \in 1..Len(down[r]) /\ down'[r][k] = down[r][k]
                 \/ /\ r \in ps /\ place[r] # "closed"
                    /\ k = Len(down[r]) + 1 /\ k = Len(down'[r]) /\ down'[r][k] = n
<1> USE DEF Reaches
<1>1. \A r \in Peers : Append(down[r], n) \in Seq(Message)
  BY AppendFacts
<1>2. down' \in [Peers -> Seq(Message)]
  BY <1>1
<1>3. \A r \in Peers : Len(down[r]) \in Nat
  BY LenProperties
<1>4. ASSUME NEW r \in Peers, NEW S, NEW k \in 0..Len(down[r])
      PROVE  After(down'[r], k, S)
               <=> After(down[r], k, S) \/ (r \in ps /\ place[r] # "closed" /\ n \in S)
  <2>1. down[r] \in Seq(Message)
    OBVIOUS
  <2>2. After(Append(down[r], n), k, S) <=> After(down[r], k, S) \/ n \in S
    BY <2>1, AfterAppend
  <2> QED
    BY <2>2
<1>5. \A r \in Peers : 0 \in 0..Len(down[r])
  BY <1>3
<1>6. ASSUME NEW r \in Peers, NEW k \in 1..Len(down'[r])
      PROVE  \/ k \in 1..Len(down[r]) /\ down'[r][k] = down[r][k]
             \/ /\ r \in ps /\ place[r] # "closed"
                /\ k = Len(down[r]) + 1 /\ k = Len(down'[r]) /\ down'[r][k] = n
  <2>1. down[r] \in Seq(Message)
    OBVIOUS
  <2>2. CASE r \in ps /\ place[r] # "closed"
    <3>1. down'[r] = Append(down[r], n)
      BY <2>2
    <3> QED
      BY <1>6, <2>1, <2>2, <3>1, AppendFacts
  <2>3. CASE ~ (r \in ps /\ place[r] # "closed")
    BY <2>3
  <2> QED
    BY <2>2, <2>3
<1> QED
  BY <1>2, <1>3, <1>4, <1>5, <1>6 DEF Has
-----------------------------------------------------------------------------
(* Every step is one of these.                                             *)

Leaves(p, m) == LeaveFrame(p) /\ m.type = "leaveRoom" /\ Sends(p, m)

Closes(p, m) == CloseTab(p) /\ m.type = "closed" /\ Sends(p, m)

Reads(p, m) ==
    /\ Gets(p, m)
    /\ \/ /\ m.type = "joined"
          /\ UNCHANGED <<store, peersMap, hush, consumer, up, faceless>>
       \/ /\ m.type = "peerDisconnect" /\ m.peer \in Peers
          /\ PeerDisconnectHandler(p, m.peer)
          /\ UNCHANGED faceless
       \/ Learns(p, m)

LEMMA EveryStep ==
    ASSUME Typed, Shape, [Next]_vars
    PROVE  \/ UNCHANGED vars
           \/ \E p \in Peers, m \in Message :
                 Speaks(p, m) \/ Leaves(p, m) \/ Closes(p, m) \/ Reads(p, m)
           \/ CreateCounter \/ \E p, q \in Peers : AudioAnnouncement(p, q)
           \/ \E p \in Peers : \E m, n \in Message : Takes(p, m) /\ Handles(p, m, n)
<1>1. ASSUME NEW p \in Peers,
             EnterFrame(p) \/ Participate(p) \/ SetFacade(p) \/ SetZone(p) \/ SetMuted(p)
               \/ SendAssetBindings(p)
      PROVE  \E m \in Message : Speaks(p, m)
  BY <1>1, ClientSpeaks
<1>2. ASSUME NEW p \in Peers, LeaveFrame(p)
      PROVE  \E m \in Message : Leaves(p, m)
  BY <1>2, LeaveFrameSends DEF Leaves, Sends
<1>3. ASSUME NEW p \in Peers, CloseTab(p)
      PROVE  \E m \in Message : Closes(p, m)
  BY <1>3, CloseTabSends DEF Closes, Sends
<1>4. ASSUME NEW p \in Peers, IncomingSignal(p)
      PROVE  \E m \in Message : Reads(p, m)
  BY <1>4, IncomingGets DEF Reads
<1>5. ASSUME NEW p \in Peers, Command(p)
      PROVE  \E m, n \in Message : Takes(p, m) /\ Handles(p, m, n)
  BY <1>5, CommandTakes
<1> QED
  BY <1>1, <1>2, <1>3, <1>4, <1>5 DEF Next, Deliver

\* What a step does to what p knows of q.
LEMMA StoreTyped ==
    ASSUME Typed, NEW p \in Peers, NEW q \in Peers
    PROVE  store[p][q] \in Indicators \cup {NoPeer}
<1>1. store[p] \in [Peers -> Indicators \cup {NoPeer}]
  BY DEF Typed
<1> QED
  BY <1>1

Puts(p, q, v) == store' = [store EXCEPT ![p][q] = v]

LEMMA StoreChanges ==
    ASSUME Typed, NEW p \in Peers, NEW q \in Peers, NEW v, Puts(p, q, v)
    PROVE  /\ store'[p][q] = v
           /\ \A r, o \in Peers : r # p \/ o # q => store'[r][o] = store[r][o]
<1>1. /\ store' = [r \in Peers |-> IF r = p THEN [store[p] EXCEPT ![q] = v] ELSE store[r]]
      /\ store[p] \in [Peers -> Indicators \cup {NoPeer}]
  BY DEF Typed, Puts
<1>2. /\ [store[p] EXCEPT ![q] = v][q] = v
      /\ \A o \in Peers : o # q => [store[p] EXCEPT ![q] = v][o] = store[p][o]
  BY <1>1
<1> QED
  BY <1>1, <1>2

LEMMA LearnsFacts ==
    ASSUME Typed, NEW p \in Peers, NEW m \in Message, Learns(p, m)
    PROVE  /\ m.peer \in Peers /\ m.body \in Indicators
           /\ \/ m.type = "peerIndicators" /\ m \in Indicating(m.peer)
              \/ m.type = "reply" /\ m \in Replying(m.peer)
           /\ Knows(p, m.peer) => Knows(p, m.peer)'
           /\ m.body = Nothing => store' = store
           /\ m.body # Nothing => /\ Knows(p, m.peer)'
                                 /\ store'[p][m.peer] = Merge(store[p][m.peer], m.body)
           /\ \A r, o \in Peers : r # p \/ o # m.peer => store'[r][o] = store[r][o]
<1>1. m.peer \in Peers /\ m.body \in Indicators
  BY MessageParts DEF Learns, Telling
<1>2. \/ m.type = "peerIndicators" /\ m \in Indicating(m.peer)
      \/ m.type = "reply" /\ m \in Replying(m.peer)
  BY DEF Learns, Telling, Indicating, Replying
<1>3. Merge(store[p][m.peer], m.body) \in Indicators
  BY <1>1, StoreTyped, MergeTyped
<1>4. CASE m.body = Nothing /\ UNCHANGED store
  BY <1>1, <1>2, <1>4 DEF Knows
<1>5. CASE /\ m.body # Nothing
           /\ store' = [store EXCEPT ![p][m.peer] = Merge(store[p][m.peer], m.body)]
  <2>1. PICK q, v : q = m.peer /\ v = Merge(store[p][m.peer], m.body)
    BY <1>1
  <2>2. Puts(p, q, v)
    BY <1>5, <2>1 DEF Puts
  <2>3. /\ store'[p][m.peer] = Merge(store[p][m.peer], m.body)
        /\ \A r, o \in Peers : r # p \/ o # m.peer => store'[r][o] = store[r][o]
    BY <1>1, <2>1, <2>2, StoreChanges
  <2>4. Knows(p, m.peer)'
    BY <1>3, <2>3, UndefinedAssumption DEF Knows
  <2> QED
    BY <1>1, <1>2, <1>5, <2>3, <2>4
<1> QED
  BY <1>4, <1>5 DEF Learns

\* Whom p learns of is shown.
LEMMA LearnsShows ==
    ASSUME Typed, NEW p \in Peers, NEW m \in Message, Learns(p, m)
    PROVE  /\ peersMap' \in [Peers -> SUBSET Peers]
           /\ peersMap'[p] = peersMap[p] \cup {m.peer}
           /\ \A r \in Peers \ {p} : peersMap'[r] = peersMap[r]
<1>1. m.peer \in Peers
  BY LearnsFacts
<1>2. CASE peersMap' = [peersMap EXCEPT ![p] = peersMap[p] \cup {m.peer}]
  BY <1>1, <1>2 DEF Typed
<1>3. CASE store[p][m.peer] # NoPeer /\ UNCHANGED peersMap
  <2>1. m.peer \in peersMap[p]
    BY <1>1, <1>3 DEF Typed, Created, Knows, Shown
  <2> QED
    BY <1>3, <2>1 DEF Typed
<1> QED
  BY <1>2, <1>3 DEF Learns

\* What a client reads creates and deletes whom it shows along with what it knows.
LEMMA ReadsCreates ==
    ASSUME Typed, NEW p \in Peers, NEW m \in Message, Reads(p, m)
    PROVE  /\ peersMap' \in [Peers -> SUBSET Peers]
           /\ Created'
<1>1. CASE UNCHANGED <<store, peersMap>>
  BY <1>1 DEF Typed, Created, Knows, Shown
<1>2. CASE m.peer \in Peers /\ PeerDisconnectHandler(p, m.peer)
  <2>1. Puts(p, m.peer, NoPeer)
    BY <1>2 DEF PeerDisconnectHandler, Puts
  <2>2. /\ store'[p][m.peer] = NoPeer
        /\ \A r, o \in Peers : r # p \/ o # m.peer => store'[r][o] = store[r][o]
    BY <1>2, <2>1, StoreChanges
  <2>3. /\ peersMap' \in [Peers -> SUBSET Peers]
        /\ peersMap'[p] = peersMap[p] \ {m.peer}
        /\ \A r \in Peers \ {p} : peersMap'[r] = peersMap[r]
    BY <1>2 DEF PeerDisconnectHandler, Typed
  <2>4. Created
    BY DEF Typed
  <2> QED
    BY <2>2, <2>3, <2>4 DEF Created, Knows, Shown
<1>3. CASE Learns(p, m)
  <2>1. Created
    BY DEF Typed
  <2>2. \A r, o \in Peers : r # p \/ o # m.peer => store'[r][o] = store[r][o]
    BY <1>3, LearnsFacts
  <2> QED
    BY <1>3, <2>1, <2>2, LearnsShows DEF Created, Knows, Shown
<1> QED
  BY <1>1, <1>2, <1>3 DEF Reads

\* The verdict of a message is to mute, to unmute, or nothing.
LEMMA MutedTyped ==
    ASSUME Typed, NEW p \in Peers, NEW q \in Peers, NEW v,
           IF v = Undefined THEN UNCHANGED <<hush, consumer>> ELSE Muted(p, q, v)
    PROVE  /\ hush' \in [Peers -> [Peers -> {"unset", "mute", "unmute"}]]
           /\ consumer' \in [Peers -> [Peers -> {"none", "playing", "paused"}]]
<1>1. CASE v = Undefined
  BY <1>1 DEF Typed
<1>2. CASE v # Undefined
  <2>1. PICK h \in {"mute", "unmute"} : hush' = [hush EXCEPT ![p][q] = h]
    BY <1>2 DEF Muted
  <2>2. PICK c \in {"paused", "playing"} :
          UNCHANGED consumer \/ consumer' = [consumer EXCEPT ![p][q] = c]
    BY <1>2 DEF Muted
  <2>3. hush' \in [Peers -> [Peers -> {"unset", "mute", "unmute"}]]
    <3> DEFINE S == {"unset", "mute", "unmute"}
    <3>1. hush \in [Peers -> [Peers -> S]] /\ h \in S
      BY DEF Typed
    <3> HIDE DEF S
    <3>2. hush' \in [Peers -> [Peers -> S]]
      BY <2>1, <3>1
    <3> QED
      BY <3>2 DEF S
  <2>4. consumer' \in [Peers -> [Peers -> {"none", "playing", "paused"}]]
    <3> DEFINE S == {"none", "playing", "paused"}
    <3>1. consumer \in [Peers -> [Peers -> S]] /\ c \in S
      BY DEF Typed
    <3> HIDE DEF S
    <3>2. consumer' \in [Peers -> [Peers -> S]]
      BY <2>2, <3>1
    <3> QED
      BY <3>2 DEF S
  <2> QED
    BY <2>3, <2>4
<1> QED
  BY <1>1, <1>2

LEMMA SameCreated ==
    ASSUME Typed, UNCHANGED <<store, peersMap>>
    PROVE  Created'
  BY DEF Typed, Created, Knows, Shown

LEMMA TypeStep ==
    ASSUME Typed, Shape, [Next]_vars
    PROVE  Typed'
<1> USE DEF Typed
<1>1. ASSUME NEW p \in Peers, NEW m \in Message, Speaks(p, m)
      PROVE  Typed'
  <2>1. up' \in [Peers -> Seq(Message)]
    BY <1>1, SendsFacts DEF Speaks
  <2>2. self' \in [Peers -> Indicators] /\ changes' \in 0..MaxChanges
    <3>1. CASE UNCHANGED <<self, changes>>
      BY <3>1
    <3>2. CASE /\ m \in Indicating(p)
               /\ self' = [self EXCEPT ![p] = Merge(self[p], m.body)]
               /\ changes < MaxChanges /\ changes' = changes + 1
      <4>1. m.body \in Indicators
        BY <3>2, MessageParts DEF Indicating
      <4>2. Merge(self[p], m.body) \in Indicators
        BY <4>1, MergeTyped
      <4> QED
        BY <3>2, <4>2, IndicatorsAssumption
    <3> QED
      BY <1>1, <3>1, <3>2 DEF Speaks
  <2>3. place' \in [Peers -> {"out", "joining", "lobby", "frame", "closed"}]
    BY <1>1 DEF Speaks
  <2>4. UNCHANGED <<store, peersMap>>
    BY <1>1 DEF Speaks
  <2>5. Created'
    BY <2>4, SameCreated
  <2> QED
    BY <1>1, <2>1, <2>2, <2>3, <2>5 DEF Speaks
<1>2. ASSUME NEW p \in Peers, NEW m \in Message, Leaves(p, m)
      PROVE  Typed'
  <2>1. up' \in [Peers -> Seq(Message)]
    BY <1>2, SendsFacts DEF Leaves
  <2>2. Created'
    BY <1>2 DEF Leaves, LeaveFrame, Created, Knows, Shown
  <2> QED
    BY <1>2, <2>1, <2>2 DEF Leaves, LeaveFrame
<1>3. ASSUME NEW p \in Peers, NEW m \in Message, Closes(p, m)
      PROVE  Typed'
  <2>1. up' \in [Peers -> Seq(Message)]
    BY <1>3, SendsFacts DEF Closes
  <2>2. <<>> \in Seq(Message)
    OBVIOUS
  <2> QED
    BY <1>3, <2>1, <2>2, SameCreated DEF Closes, CloseTab
<1>4. ASSUME NEW p \in Peers, NEW m \in Message, Reads(p, m)
      PROVE  Typed'
  <2>1. down' \in [Peers -> Seq(Message)]
    BY <1>4, GetsFacts DEF Reads
  <2>2. /\ place' \in [Peers -> {"out", "joining", "lobby", "frame", "closed"}]
        /\ UNCHANGED <<self, present, room, counter, changes, moved, unsaid>>
    BY <1>4 DEF Reads, Gets
  <2>0. /\ peersMap' \in [Peers -> SUBSET Peers]
        /\ Created'
    BY <1>4, ReadsCreates
  <2>3. CASE UNCHANGED <<store, hush, consumer, up, faceless>>
    BY <2>0, <2>1, <2>2, <2>3
  <2>4. CASE /\ m.peer \in Peers /\ PeerDisconnectHandler(p, m.peer)
             /\ UNCHANGED faceless
    <3>1. PICK c \in {"none", consumer[p][m.peer]} : consumer' = [consumer EXCEPT ![p][m.peer] = c]
      BY <2>4 DEF PeerDisconnectHandler, CloseConsumersForPeer
    <3>2. consumer' \in [Peers -> [Peers -> {"none", "playing", "paused"}]]
      <4> DEFINE S == {"none", "playing", "paused"}
      <4>1. consumer \in [Peers -> [Peers -> S]] /\ c \in S
        <5>1. consumer[p] \in [Peers -> S]
          OBVIOUS
        <5>2. consumer[p][m.peer] \in S
          BY <2>4, <5>1
        <5> QED
          BY <5>2
      <4> HIDE DEF S
      <4>2. consumer' \in [Peers -> [Peers -> S]]
        BY <2>4, <3>1, <4>1
      <4> QED
        BY <4>2 DEF S
    <3>3. store' \in [Peers -> [Peers -> Indicators \cup {NoPeer}]]
      BY <2>4 DEF PeerDisconnectHandler
    <3> QED
      BY <2>0, <2>1, <2>2, <2>4, <3>2, <3>3 DEF PeerDisconnectHandler
  <2>5. CASE Learns(p, m)
    <3>1. m.peer \in Peers /\ m.body \in Indicators
      BY <2>5, MessageParts DEF Learns, Telling
    <3>2. Merge(store[p][m.peer], m.body) \in Indicators
      <4>1. store[p] \in [Peers -> Indicators \cup {NoPeer}]
        OBVIOUS
      <4>2. store[p][m.peer] \in Indicators \cup {NoPeer}
        BY <3>1, <4>1
      <4> QED
        BY <3>1, <4>2, MergeTyped
    <3>3. store' \in [Peers -> [Peers -> Indicators \cup {NoPeer}]]
      <4> DEFINE S == Indicators \cup {NoPeer}
      <4>1. store \in [Peers -> [Peers -> S]] /\ Merge(store[p][m.peer], m.body) \in S
        BY <3>2
      <4>2. PICK v : v = Merge(store[p][m.peer], m.body)
        OBVIOUS
      <4>3. store' = [store EXCEPT ![p][m.peer] = v] \/ store' = store
        BY <2>5, <4>2 DEF Learns
      <4> HIDE DEF S
      <4>4. store' = [store EXCEPT ![p][m.peer] = v] => store' \in [Peers -> [Peers -> S]]
        BY <3>1, <4>1, <4>2
      <4> QED
        BY <4>1, <4>3, <4>4 DEF S
    <3>4. up' \in [Peers -> Seq(Message)]
      BY <2>5, SendsFacts DEF Learns
    <3>5. faceless' \subseteq Peers \X Peers
      BY <2>5, <3>1 DEF Learns
    <3>6. /\ hush' \in [Peers -> [Peers -> {"unset", "mute", "unmute"}]]
          /\ consumer' \in [Peers -> [Peers -> {"none", "playing", "paused"}]]
      BY <2>5, <3>1, MutedTyped DEF Learns
    <3> QED
      BY <2>0, <2>1, <2>2, <3>3, <3>4, <3>5, <3>6
  <2> QED
    BY <1>4, <2>3, <2>4, <2>5 DEF Reads
<1>5. ASSUME NEW p \in Peers, NEW q \in Peers, AudioAnnouncement(p, q)
      PROVE  Typed'
  <2>1. PICK c \in {"paused", "playing"} : consumer' = [consumer EXCEPT ![p][q] = c]
    BY <1>5 DEF AudioAnnouncement
  <2> QED
    BY <1>5, <2>1, SameCreated DEF AudioAnnouncement
<1>6. ASSUME NEW p \in Peers, NEW m \in Message, NEW n \in Message, Takes(p, m), Handles(p, m, n)
      PROVE  Typed'
  <2>1. up' \in [Peers -> Seq(Message)]
    BY <1>6, TakesFacts
  <2>2. down' \in [Peers -> Seq(Message)]
    BY <1>6, ReachesFacts DEF Handles
  <2>3. present' \subseteq Peers /\ unsaid' \subseteq Peers /\ room' \in BOOLEAN /\ counter' \in BOOLEAN
    BY <1>6 DEF Handles, Goes
  <2> QED
    BY <1>6, <2>1, <2>2, <2>3, SameCreated DEF Takes
<1>7. CASE UNCHANGED vars \/ CreateCounter
  BY <1>7, SameCreated DEF vars, CreateCounter
<1> QED
  BY <1>1, <1>2, <1>3, <1>4, <1>5, <1>6, <1>7, EveryStep

\* The shape of what is sent.
LEMMA ShapeStep ==
    ASSUME Typed, Shape, [Next]_vars
    PROVE  Shape'
<1>1. ASSUME NEW p \in Peers, NEW m \in Message, Sends(p, m),
             NEW l, l = Len(up[p]) + 1, UpOK(p, l)',
             ~ \E k \in 1..Len(up[p]) : up[p][k].type = "closed",
             moved \subseteq moved', \A q \in Peers \ {p} : place'[q] = place[q]
      PROVE  \A q \in Peers : \A k \in 1..Len(up'[q]) : UpOK(q, k)'
  <2> SUFFICES ASSUME NEW q \in Peers, NEW k \in 1..Len(up'[q])
               PROVE  UpOK(q, k)'
    OBVIOUS
  <2>1. \/ k \in 1..Len(up[q]) /\ up'[q][k] = up[q][k]
        \/ q = p /\ k = Len(up[p]) + 1
    BY <1>1, SendsFacts DEF Typed
  <2>2. q # p => up'[q] = up[q]
    BY <1>1, SendsFacts DEF Typed
  <2>3. CASE k \in 1..Len(up[q]) /\ up'[q][k] = up[q][k]
    <3>1. UpOK(q, k)
      BY <2>3 DEF Shape
    <3>2. up[q][k].type # "closed" \/ q # p
      BY <1>1, <2>3
    <3> QED
      BY <1>1, <2>2, <2>3, <3>1, <3>2 DEF UpOK
  <2>4. CASE q = p /\ k = Len(up[p]) + 1
    BY <1>1, <2>4
  <2> QED
    BY <2>1, <2>3, <2>4
<1>2. ASSUME NEW p \in Peers, place[p] # "closed"
      PROVE  ~ \E k \in 1..Len(up[p]) : up[p][k].type = "closed"
  <2> SUFFICES ASSUME NEW k \in 1..Len(up[p]) PROVE up[p][k].type # "closed"
    OBVIOUS
  <2>1. UpOK(p, k)
    BY DEF Shape
  <2> QED
    BY <1>2, <2>1 DEF UpOK
<1>3. ASSUME NEW p \in Peers, NEW m \in Message, Sends(p, m)
      PROVE  up'[p][Len(up[p]) + 1] = m /\ Len(up'[p]) = Len(up[p]) + 1
  <2>1. up[p] \in Seq(Message) /\ up'[p] = Append(up[p], m)
    BY <1>3, SendsFacts DEF Typed
  <2> QED
    BY <2>1, AppendFacts
<1>4. ASSUME NEW p \in Peers, NEW m \in Message, Speaks(p, m)
      PROVE  Shape'
  <2>1. place[p] # "closed" /\ Sends(p, m) /\ moved' = moved /\ down' = down
    BY <1>4 DEF Speaks
  <2>2. \A q \in Peers \ {p} : place'[q] = place[q]
    BY <1>4 DEF Speaks, Typed
  <2>0. PICK l : l = Len(up[p]) + 1
    OBVIOUS
  <2>3. UpOK(p, l)'
    BY <1>3, <1>4, <2>0, <2>1 DEF UpOK, OneField, Speaks, Indicating
  <2>4. self' \in [Peers -> Tabs]
    <3>1. CASE m \in Indicating(p) /\ self' = [self EXCEPT ![p] = Merge(self[p], m.body)]
      <4>1. m.body \in Indicators
        BY <3>1, MessageParts DEF Indicating
      <4>2. Merge(self[p], m.body) \in Tabs
        BY <4>1, TabsMerge DEF Shape
      <4> QED
        BY <3>1, <4>2 DEF Shape
    <3> QED
      BY <1>4, <3>1 DEF Speaks, Shape
  <2>5. \A q \in Peers : \A k \in 1..Len(down'[q]) : DownOK(q, k)'
    BY <2>1 DEF Shape, DownOK
  <2> QED
    BY <1>1, <1>2, <2>0, <2>1, <2>2, <2>3, <2>4, <2>5 DEF Shape
<1>5. ASSUME NEW p \in Peers, NEW m \in Message, Leaves(p, m)
      PROVE  Shape'
  <2>1. place[p] # "closed" /\ Sends(p, m) /\ moved' = moved \cup {p} /\ down' = down /\ self' = self
    BY <1>5 DEF Leaves, LeaveFrame
  <2>2. \A q \in Peers \ {p} : place'[q] = place[q]
    BY <1>5 DEF Leaves, LeaveFrame, Typed
  <2>0. PICK l : l = Len(up[p]) + 1
    OBVIOUS
  <2>3. UpOK(p, l)'
    BY <1>3, <1>5, <2>0, <2>1 DEF UpOK, Leaves
  <2>4. \A q \in Peers : \A k \in 1..Len(down'[q]) : DownOK(q, k)'
    BY <2>1 DEF Shape, DownOK
  <2> QED
    BY <1>1, <1>2, <2>0, <2>1, <2>2, <2>3, <2>4 DEF Shape
<1>6. ASSUME NEW p \in Peers, NEW m \in Message, Closes(p, m)
      PROVE  Shape'
  <2>1. place[p] # "closed" /\ Sends(p, m) /\ moved' = moved /\ self' = self
    BY <1>6 DEF Closes, CloseTab
  <2>2. place'[p] = "closed" /\ \A q \in Peers \ {p} : place'[q] = place[q]
    BY <1>6 DEF Closes, CloseTab, Typed
  <2>0. PICK l : l = Len(up[p]) + 1
    OBVIOUS
  <2>3. UpOK(p, l)'
    BY <1>3, <1>6, <2>0, <2>1, <2>2 DEF UpOK, Closes
  <2>4. \A q \in Peers : \A k \in 1..Len(down'[q]) : DownOK(q, k)'
    <3> SUFFICES ASSUME NEW q \in Peers, NEW k \in 1..Len(down'[q])
                 PROVE  DownOK(q, k)'
      OBVIOUS
    <3>1. q # p /\ down'[q] = down[q]
      BY <1>6, EmptySeq DEF Closes, CloseTab, Typed
    <3> QED
      BY <3>1 DEF Shape, DownOK
  <2> QED
    BY <1>1, <1>2, <2>0, <2>1, <2>2, <2>3, <2>4 DEF Shape
<1>7. ASSUME NEW p \in Peers, NEW m \in Message, Reads(p, m)
      PROVE  Shape'
  <2>1. place[p] # "closed" /\ moved' = moved /\ self' = self
    BY <1>7 DEF Reads, Gets
  <2>2. place'[p] # "closed" /\ \A q \in Peers \ {p} : place'[q] = place[q]
    BY <1>7 DEF Reads, Gets, Typed
  <2>3. \A q \in Peers : \A k \in 1..Len(down'[q]) : DownOK(q, k)'
    <3> SUFFICES ASSUME NEW q \in Peers, NEW k \in 1..Len(down'[q])
                 PROVE  DownOK(q, k)'
      OBVIOUS
    <3>1. CASE q = p
      <4>1. k + 1 \in 1..Len(down[p]) /\ down'[p][k] = down[p][k + 1]
        BY <1>7, <3>1, GetsFacts DEF Reads, Typed
      <4>2. DownOK(p, k + 1)
        BY <4>1 DEF Shape
      <4> QED
        BY <3>1, <4>1, <4>2 DEF DownOK
    <3>2. CASE q # p
      <4>1. down'[q] = down[q]
        BY <1>7, <3>2, GetsFacts DEF Reads, Typed
      <4> QED
        BY <4>1 DEF Shape, DownOK
    <3> QED
      BY <3>1, <3>2
  <2>4. \A q \in Peers : \A k \in 1..Len(up'[q]) : UpOK(q, k)'
    <3>1. CASE UNCHANGED up
      <4>1. \A q \in Peers : \A k : UpOK(q, k) => UpOK(q, k)'
        BY <2>1, <2>2, <3>1 DEF UpOK
      <4> QED
        BY <3>1, <4>1 DEF Shape
    <3>2. CASE Learns(p, m) /\ Sends(p, Tell("reply", m.peer, self[p]))
      <4> DEFINE n == Tell("reply", m.peer, self[p])
      <4>1. m.peer \in Peers /\ self[p] \in Tabs /\ self[p] \in Indicators
        BY <3>2, LearnsFacts DEF Shape, Typed
      <4>2. n \in Message /\ n.type = "reply" /\ n.body \in Tabs
        BY <4>1, TellTyped
      <4>3. Sends(p, n)
        BY <3>2
      <4> HIDE DEF n
      <4>0. PICK l : l = Len(up[p]) + 1
        OBVIOUS
      <4>4. UpOK(p, l)'
        BY <1>3, <4>0, <4>2, <4>3 DEF UpOK
      <4> QED
        BY <1>1, <1>2, <2>1, <2>2, <4>0, <4>2, <4>3, <4>4
    <3> QED
      BY <1>7, <3>1, <3>2 DEF Reads, Learns, PeerDisconnectHandler
  <2> QED
    BY <2>1, <2>3, <2>4 DEF Shape
<1>8. ASSUME NEW p \in Peers, NEW q \in Peers, AudioAnnouncement(p, q)
      PROVE  Shape'
  BY <1>8 DEF AudioAnnouncement, Shape, UpOK, DownOK
<1>9. ASSUME NEW p \in Peers, NEW m \in Message, NEW n \in Message, Takes(p, m), Handles(p, m, n)
      PROVE  Shape'
  <2>1. UNCHANGED <<place, self, moved>>
    BY <1>9 DEF Takes
  <2>2. \A q \in Peers : \A k \in 1..Len(up'[q]) : UpOK(q, k)'
    <3> SUFFICES ASSUME NEW q \in Peers, NEW k \in 1..Len(up'[q])
                 PROVE  UpOK(q, k)'
      OBVIOUS
    <3>1. CASE q = p
      <4>1. /\ k + 1 \in 1..Len(up[p]) /\ up'[p][k] = up[p][k + 1]
            /\ Len(up[p]) \in Nat \ {0} /\ Len(up'[p]) = Len(up[p]) - 1
        BY <1>9, <3>1, TakesFacts DEF Typed
      <4>2. UpOK(p, k + 1)
        BY <4>1 DEF Shape
      <4> QED
        BY <2>1, <3>1, <4>1, <4>2 DEF UpOK
    <3>2. CASE q # p
      <4>1. up'[q] = up[q]
        BY <1>9, <3>2, TakesFacts DEF Typed
      <4> QED
        BY <2>1, <4>1 DEF Shape, UpOK
    <3> QED
      BY <3>1, <3>2
  <2>3. /\ n.type \in {"joined", "peerIndicators", "reply", "peerDisconnect"}
        /\ n.type = "peerIndicators" => OneField(n.body)
        /\ n.type = "reply" => n.body \in Tabs
    <3>1. m = up[p][1] /\ 1 \in 1..Len(up[p])
      BY <1>9, TakesFacts DEF Typed
    <3>2. UpOK(p, 1)
      BY <3>1 DEF Shape
    <3> QED
      BY <1>9, <3>1, <3>2 DEF UpOK, Handles, Indicating, Replying, Leaving
  <2>4. PICK ps : Reaches(ps, n)
    BY <1>9 DEF Handles
  <2>5. \A q \in Peers : \A k \in 1..Len(down'[q]) : DownOK(q, k)'
    <3> SUFFICES ASSUME NEW q \in Peers, NEW k \in 1..Len(down'[q])
                 PROVE  DownOK(q, k)'
      OBVIOUS
    <3>1. (k \in 1..Len(down[q]) /\ down'[q][k] = down[q][k]) \/ down'[q][k] = n
      BY <2>4, ReachesFacts DEF Typed
    <3> QED
      BY <2>3, <3>1 DEF Shape, DownOK
  <2> QED
    BY <2>1, <2>2, <2>5 DEF Shape
<1>10. CASE UNCHANGED vars \/ CreateCounter
  BY <1>10 DEF vars, CreateCounter, Shape, UpOK, DownOK
<1> QED
  BY <1>4, <1>5, <1>6, <1>7, <1>8, <1>9, <1>10, EveryStep
-----------------------------------------------------------------------------
(* Who is in the room.                                                     *)

\* A tab that is closed, or has changed frames, stays so.
LEMMA HereShrinks ==
    ASSUME Typed, Shape, [Next]_vars
    PROVE  Settlers' \subseteq Settlers /\ Here' \subseteq Here
<1>1. moved \subseteq moved' /\ \A q \in Peers : place[q] = "closed" => place'[q] = "closed"
  <2>1. ASSUME NEW p \in Peers, NEW m \in Message, Speaks(p, m)
        PROVE  moved \subseteq moved' /\ \A q \in Peers : place[q] = "closed" => place'[q] = "closed"
    BY <2>1 DEF Speaks, Typed
  <2>2. ASSUME NEW p \in Peers, NEW m \in Message, Leaves(p, m)
        PROVE  moved \subseteq moved' /\ \A q \in Peers : place[q] = "closed" => place'[q] = "closed"
    BY <2>2 DEF Leaves, LeaveFrame, Typed
  <2>3. ASSUME NEW p \in Peers, NEW m \in Message, Closes(p, m)
        PROVE  moved \subseteq moved' /\ \A q \in Peers : place[q] = "closed" => place'[q] = "closed"
    BY <2>3 DEF Closes, CloseTab, Typed
  <2>4. ASSUME NEW p \in Peers, NEW m \in Message, Reads(p, m)
        PROVE  moved \subseteq moved' /\ \A q \in Peers : place[q] = "closed" => place'[q] = "closed"
    BY <2>4 DEF Reads, Gets, Typed
  <2>5. ASSUME NEW p \in Peers, NEW q \in Peers, AudioAnnouncement(p, q)
        PROVE  moved' = moved /\ place' = place
    BY <2>5 DEF AudioAnnouncement
  <2>6. ASSUME NEW p \in Peers, NEW m \in Message, Takes(p, m)
        PROVE  moved' = moved /\ place' = place
    BY <2>6 DEF Takes
  <2>7. CASE UNCHANGED vars \/ CreateCounter
    BY <2>7 DEF vars, CreateCounter
  <2> QED
    BY <2>1, <2>2, <2>3, <2>4, <2>5, <2>6, <2>7, EveryStep
<1> QED
  BY <1>1 DEF Settlers, Here

\* Only a settler whose tab is closed ceases to be present.
LEMMA StaysPresent ==
    ASSUME Typed, Shape, NEW p \in Peers, NEW m \in Message, NEW n \in Message,
           Takes(p, m), Handles(p, m, n)
    PROVE  /\ present' \subseteq present \cup {p}
           /\ \A q \in Peers \ {p} : q \in present' <=> q \in present
           /\ m.type # "closed" /\ p \in Settlers /\ p \in present => p \in present'
           /\ m.type = "closed" => place[p] = "closed" /\ up'[p] = <<>>
           /\ m.type = "leaveRoom" => p \notin Settlers
<1>1. /\ m = up[p][1] /\ 1 \in 1..Len(up[p]) /\ up' \in [Peers -> Seq(Message)]
      /\ Len(up[p]) \in Nat \ {0} /\ Len(up'[p]) = Len(up[p]) - 1
  BY TakesFacts DEF Typed
<1>2. UpOK(p, 1)
  BY <1>1 DEF Shape
<1>3. m.type = "leaveRoom" => p \in moved
  BY <1>1, <1>2 DEF UpOK
<1>4. m.type = "closed" => place[p] = "closed" /\ Len(up'[p]) = 0
  BY <1>1, <1>2 DEF UpOK
<1>5. /\ present' \subseteq present \cup {p}
      /\ \A q \in Peers \ {p} : q \in present' <=> q \in present
  BY DEF Handles, Typed
<1>6. m.type \notin {"closed", "leaveRoom"} /\ p \in present => p \in present'
  BY DEF Handles
<1>7. up'[p] \in Seq(Message)
  BY <1>1
<1> QED
  BY <1>3, <1>4, <1>5, <1>6, <1>7, EmptySeq DEF Settlers

\* A client that gets something was in the room.
LEMMA ReaderIsPresent ==
    ASSUME RoomInv, NEW p \in Peers, NEW m \in Message, Gets(p, m), p \in Settlers
    PROVE  p \in Here /\ p \in present /\ place[p] # "out"
<1>1. p \in Here
  BY DEF Gets, Here
<1> QED
  BY <1>1 DEF RoomInv, Gets

LEMMA RoomStep ==
    ASSUME Typed, Shape, RoomInv, [Next]_vars
    PROVE  RoomInv'
<1> USE DEF Typed
<1>0. Settlers' \subseteq Settlers /\ Here' \subseteq Here
  BY HereShrinks
<1>1. ASSUME NEW p \in Peers, NEW m \in Message, Speaks(p, m)
      PROVE  RoomInv'
  <2>1. /\ Sends(p, m) /\ down' = down /\ present' = present
        /\ \A q \in Peers \ {p} : place'[q] = place[q]
        /\ p \in Settlers => place'[p] # "out"
        /\ place'[p] \in {"lobby", "frame"} => place[p] \in {"lobby", "frame"}
        /\ p \in Settlers /\ m \in Telling => place[p] \in {"lobby", "frame"}
        /\ m.type # "reply"
    BY <1>1 DEF Speaks, Telling, Indicating, Settlers
  <2>2. /\ \A q \in Peers \ {p} : up'[q] = up[q]
        /\ \A q \in Peers : \A S : Has(up'[q], S) <=> Has(up[q], S) \/ (q = p /\ m \in S)
    BY <2>1, SendsFacts
  <2>3. ASSUME NEW q \in Settlers'
        PROVE  /\ place'[q] = "out" => q \notin present' /\ up'[q] = <<>>
               /\ place'[q] \in {"lobby", "frame"} => q \in present'
               /\ Has(up'[q], Telling) => q \in present'
    BY <1>0, <2>1, <2>2, <2>3 DEF RoomInv, Settlers
  <2>4. ASSUME NEW q \in Here', NEW r \in Peers,
               Has(up'[r], Replying(q)) \/ Has(down'[r], Indicating(q))
        PROVE  q \in present'
    <3>1. m \notin Replying(q)
      BY <2>1 DEF Replying
    <3> QED
      BY <1>0, <2>1, <2>2, <2>4, <3>1 DEF RoomInv
  <2> QED
    BY <1>0, <2>1, <2>3, <2>4 DEF RoomInv
<1>2. ASSUME NEW p \in Peers, NEW m \in Message, Leaves(p, m)
      PROVE  RoomInv'
  <2>1. /\ Sends(p, m) /\ down' = down /\ present' = present
        /\ \A q \in Peers \ {p} : place'[q] = place[q]
        /\ p \notin Settlers' /\ p \notin Here'
        /\ \A q : m \notin Replying(q)
    BY <1>2 DEF Leaves, LeaveFrame, Replying, Settlers, Here
  <2>2. /\ \A q \in Peers \ {p} : up'[q] = up[q]
        /\ \A q \in Peers : \A S : Has(up'[q], S) <=> Has(up[q], S) \/ (q = p /\ m \in S)
    BY <2>1, SendsFacts
  <2>3. ASSUME NEW q \in Settlers'
        PROVE  /\ place'[q] = "out" => q \notin present' /\ up'[q] = <<>>
               /\ place'[q] \in {"lobby", "frame"} => q \in present'
               /\ Has(up'[q], Telling) => q \in present'
    BY <1>0, <2>1, <2>2, <2>3 DEF RoomInv, Settlers
  <2>4. ASSUME NEW q \in Here', NEW r \in Peers,
               Has(up'[r], Replying(q)) \/ Has(down'[r], Indicating(q))
        PROVE  q \in present'
    BY <1>0, <2>1, <2>2, <2>4 DEF RoomInv
  <2> QED
    BY <1>0, <2>1, <2>3, <2>4 DEF RoomInv
<1>3. ASSUME NEW p \in Peers, NEW m \in Message, Closes(p, m)
      PROVE  RoomInv'
  <2>1. /\ Sends(p, m) /\ down' = [down EXCEPT ![p] = <<>>] /\ present' = present
        /\ \A q \in Peers \ {p} : place'[q] = place[q]
        /\ place'[p] = "closed" /\ p \notin Here'
        /\ m \notin Telling /\ \A q : m \notin Replying(q)
    BY <1>3 DEF Closes, CloseTab, Telling, Replying, Here
  <2>2. /\ \A q \in Peers \ {p} : up'[q] = up[q]
        /\ \A q \in Peers : \A S : Has(up'[q], S) <=> Has(up[q], S) \/ (q = p /\ m \in S)
    BY <2>1, SendsFacts
  <2>3. ASSUME NEW q \in Settlers'
        PROVE  /\ place'[q] = "out" => q \notin present' /\ up'[q] = <<>>
               /\ place'[q] \in {"lobby", "frame"} => q \in present'
               /\ Has(up'[q], Telling) => q \in present'
    BY <1>0, <2>1, <2>2, <2>3 DEF RoomInv, Settlers
  <2>4. ASSUME NEW q \in Here', NEW r \in Peers,
               Has(up'[r], Replying(q)) \/ Has(down'[r], Indicating(q))
        PROVE  q \in present'
    <3>1. ~ Has(down'[p], Indicating(q)) /\ (r # p => down'[r] = down[r])
      BY <2>1, HasNone
    <3> QED
      BY <1>0, <2>1, <2>2, <2>4, <3>1 DEF RoomInv
  <2>5. ASSUME NEW q \in Here', down'[q] # <<>>
        PROVE  q \in present'
    <3>1. down'[q] = down[q] /\ q \in Here
      BY <1>0, <2>1, <2>5 DEF Here, Settlers
    <3> QED
      BY <2>1, <2>5, <3>1 DEF RoomInv
  <2> QED
    BY <2>3, <2>4, <2>5 DEF RoomInv
<1>4. ASSUME NEW p \in Peers, NEW m \in Message, Reads(p, m)
      PROVE  RoomInv'
  <2>1. /\ Gets(p, m) /\ present' = present
        /\ \A q \in Peers \ {p} : place'[q] = place[q]
        /\ place'[p] = "out" => place[p] = "out"
    BY <1>4 DEF Reads, Gets
  <2>2. p \in Settlers => p \in Here /\ p \in present /\ place[p] # "out"
    BY <2>1, ReaderIsPresent
  <2>3. /\ \A q \in Peers \ {p} : down'[q] = down[q]
        /\ \A q \in Peers : \A S : Has(down'[q], S) => Has(down[q], S)
        /\ \A S : m \in S => Has(down[p], S)
        /\ down[p] # <<>>
    BY <2>1, GetsFacts DEF Gets
  <2>4. \/ up' = up
        \/ /\ Sends(p, Tell("reply", m.peer, self[p])) /\ m \in Indicating(m.peer)
           /\ m.peer \in Peers
    BY <1>4, LearnsFacts DEF Reads, PeerDisconnectHandler, Learns, Indicating
  <2>5. \A q \in Peers \ {p} : up'[q] = up[q]
    BY <2>4, SendsFacts
  <2>6. ASSUME NEW q \in Settlers'
        PROVE  /\ place'[q] = "out" => q \notin present' /\ up'[q] = <<>>
               /\ place'[q] \in {"lobby", "frame"} => q \in present'
               /\ Has(up'[q], Telling) => q \in present'
    BY <1>0, <2>1, <2>2, <2>5, <2>6 DEF RoomInv, Settlers
  <2>7. ASSUME NEW q \in Here', NEW r \in Peers,
               Has(up'[r], Replying(q)) \/ Has(down'[r], Indicating(q))
        PROVE  q \in present'
    <3>1. CASE Has(down[r], Indicating(q)) \/ Has(up[r], Replying(q))
      BY <1>0, <2>1, <3>1 DEF RoomInv
    <3>2. CASE ~ Has(up[r], Replying(q)) /\ Has(up'[r], Replying(q))
      <4>1. r = p /\ m \in Indicating(m.peer) /\ m.peer \in Peers
        BY <2>4, <2>5, <3>2
      <4>2. PICK n : n = Tell("reply", m.peer, self[p])
        OBVIOUS
      <4>3. n \in Replying(q)
        BY <2>4, <3>2, <4>1, <4>2, SendsFacts
      <4>4. q = m.peer
        BY <4>2, <4>3 DEF Replying, Tell
      <4> QED
        BY <1>0, <2>1, <2>3, <4>1, <4>4 DEF RoomInv
    <3> QED
      BY <2>3, <2>7, <3>1, <3>2
  <2>8. ASSUME NEW q \in Here', down'[q] # <<>>
        PROVE  q \in present'
    <3>1. down[q] # <<>> /\ q \in Here
      BY <1>0, <2>3, <2>8 DEF Here, Settlers
    <3> QED
      BY <2>1, <3>1 DEF RoomInv
  <2> QED
    BY <2>6, <2>7, <2>8 DEF RoomInv
<1>5. ASSUME NEW p \in Peers, NEW m \in Message, NEW n \in Message, Takes(p, m), Handles(p, m, n)
      PROVE  RoomInv'
  <2>1. UNCHANGED <<place, moved>> /\ up[p] # <<>>
    BY <1>5 DEF Takes
  <2>2. /\ present' \subseteq present \cup {p}
        /\ \A q \in Peers \ {p} : q \in present' <=> q \in present
        /\ m.type # "closed" /\ p \in Settlers /\ p \in present => p \in present'
        /\ m.type = "closed" => place[p] = "closed" /\ up'[p] = <<>>
    BY <1>5, StaysPresent
  <2>3. /\ \A q \in Peers \ {p} : up'[q] = up[q]
        /\ \A q \in Peers : \A S : Has(up'[q], S) => Has(up[q], S)
        /\ \A S : m \in S => Has(up[p], S)
    BY <1>5, TakesFacts
  <2>4. \A q \in Here : q \in present => q \in present'
    BY <2>2 DEF Here, Settlers
  <2>5. ASSUME NEW q \in Settlers'
        PROVE  /\ place'[q] = "out" => q \notin present' /\ up'[q] = <<>>
               /\ place'[q] \in {"lobby", "frame"} => q \in present'
               /\ Has(up'[q], Telling) => q \in present'
    <3>1. q \in Settlers /\ q \in Peers
      BY <1>0, <2>5 DEF Settlers
    <3>2. CASE q = p
      <4>1. place[p] # "out"
        BY <2>1, <3>1, <3>2 DEF RoomInv
      <4>2. Has(up'[p], Telling) => m.type # "closed"
        BY <2>2, HasNone
      <4> QED
        BY <2>1, <2>2, <2>3, <3>1, <3>2, <4>1, <4>2 DEF RoomInv
    <3>3. CASE q # p
      BY <2>1, <2>2, <2>3, <3>1, <3>3 DEF RoomInv
    <3> QED
      BY <3>2, <3>3
  <2>6. PICK ps : Passes(p, m, n, ps)
    BY <1>5, HandlesPasses
  <2>7. /\ \A r \in Peers : \A S : Has(down'[r], S) => Has(down[r], S) \/ (r \in ps /\ n \in S)
        /\ \A r \in Peers : r \notin ps => down'[r] = down[r]
    <3>1. Reaches(ps, n)
      BY <2>6 DEF Passes
    <3> QED
      BY <3>1, ReachesFacts
  <2>8. ASSUME NEW q \in Here', NEW r \in Peers,
               Has(up'[r], Replying(q)) \/ Has(down'[r], Indicating(q))
        PROVE  q \in present'
    <3>1. CASE Has(down[r], Indicating(q)) \/ Has(up[r], Replying(q))
      BY <1>0, <2>4, <3>1 DEF RoomInv
    <3>2. CASE r \in ps /\ n \in Indicating(q)
      <4>1. q = p /\ p \in present
        BY <2>6, <3>2 DEF Passes, Indicating, Leaving, Replying
      <4> QED
        BY <1>0, <2>4, <4>1
    <3> QED
      BY <2>3, <2>7, <2>8, <3>1, <3>2
  <2>9. ASSUME NEW q \in Here', down'[q] # <<>>
        PROVE  q \in present'
    <3>1. q \in Here /\ q \in Peers
      BY <1>0 DEF Here, Settlers
    <3>2. CASE down[q] # <<>>
      BY <2>4, <3>1, <3>2 DEF RoomInv
    <3>3. CASE q \in ps /\ m.type = "reply" /\ ps = {m.peer}
      <4>1. m \in Replying(q)
        BY <3>3 DEF Replying
      <4> QED
        BY <2>3, <2>4, <3>1, <4>1 DEF RoomInv
    <3>4. CASE q \in ps /\ ~ (m.type = "reply" /\ ps = {m.peer})
      <4>1. ps \subseteq present \/ (ps = {p} /\ p \in present')
        BY <2>6, <3>4 DEF Passes, Goes
      <4> QED
        BY <2>4, <3>1, <3>4, <4>1
    <3> QED
      BY <2>7, <2>9, <3>1, <3>2, <3>3, <3>4
  <2> QED
    BY <2>5, <2>8, <2>9 DEF RoomInv
<1>6. ASSUME NEW p \in Peers, NEW q \in Peers, AudioAnnouncement(p, q)
      PROVE  RoomInv'
  BY <1>6 DEF AudioAnnouncement, RoomInv, Settlers, Here
<1>7. CASE UNCHANGED vars \/ CreateCounter
  BY <1>7 DEF vars, CreateCounter, RoomInv, Settlers, Here
<1> QED
  BY <1>1, <1>2, <1>3, <1>4, <1>5, <1>6, <1>7, EveryStep
-----------------------------------------------------------------------------
(* Who has gone is dropped.                                                *)

\* Steps in which nothing comes to who is there, and nothing is learnt.
LEMMA GhostKept ==
    ASSUME GhostInv, Settlers' \subseteq Settlers, Here' \subseteq Here, present' = present,
           \A r \in Peers : down'[r] = down[r] \/ (r \notin Here' /\ down'[r] = <<>>),
           \A r \in Here' : peersMap'[r] = peersMap[r], unsaid' = unsaid
    PROVE  GhostInv'
<1>1. \A r \in Here' : r \in Here /\ r \in Peers /\ down'[r] = down[r]
  BY DEF Here, Settlers
<1>2. ASSUME NEW p \in Here', NEW q \in Settlers', p # q
      PROVE  /\ Shown(p, q)' => Together(p, q, 0)'
             /\ \A k \in 1..Len(down'[p]) :
                   down'[p][k] \in Indicating(q) \cup Replying(q) => Together(p, q, k)'
  <2>1. q \in Settlers /\ q \in Peers
    BY DEF Settlers
  <2>2. /\ Shown(p, q) => Together(p, q, 0)
        /\ \A k \in 1..Len(down[p]) :
              down[p][k] \in Indicating(q) \cup Replying(q) => Together(p, q, k)
    BY <1>1, <1>2, <2>1 DEF GhostInv
  <2> QED
    BY <1>1, <2>1, <2>2 DEF Together, Shown
<1>3. ASSUME NEW q \in Here'
      PROVE  q \notin unsaid' /\ \A p \in Peers : ~ Has(down'[p], Leaving(q))
  BY HasNone DEF GhostInv
<1> QED
  BY <1>2, <1>3 DEF GhostInv

LEMMA GhostReads ==
    ASSUME Typed, GhostInv, NEW p \in Peers, NEW m \in Message, Reads(p, m),
           Settlers' \subseteq Settlers, Here' \subseteq Here
    PROVE  GhostInv'
<1>1. Gets(p, m) /\ present' = present /\ unsaid' = unsaid
  BY DEF Reads, Gets
<1>2. /\ \A q \in Peers \ {p} : down'[q] = down[q]
      /\ m = down[p][1] /\ 1 \in 1..Len(down[p])
      /\ \A k \in 1..Len(down'[p]) : k + 1 \in 1..Len(down[p]) /\ down'[p][k] = down[p][k + 1]
      /\ \A S : \A k \in Nat : After(down'[p], k, S) <=> After(down[p], k + 1, S)
      /\ \A S : Has(down'[p], S) <=> After(down[p], 1, S)
      /\ \A S : Has(down[p], S) <=> m \in S \/ Has(down'[p], S)
  <2>1. Len(down[p]) \in Nat \ {0}
    BY <1>1, GetsFacts DEF Typed
  <2>2. 1 \in 1..Len(down[p])
    BY <2>1
  <2> QED
    BY <1>1, <2>2, GetsFacts DEF Typed
<1>3. /\ \A r \in Peers \ {p} : peersMap'[r] = peersMap[r]
      /\ \A q \in peersMap'[p] : \/ q \in peersMap[p] /\ m \notin Leaving(q)
                                \/ m \in Indicating(q) \cup Replying(q)
  <2>1. CASE m.type = "joined" /\ UNCHANGED peersMap
    BY <2>1 DEF Leaving
  <2>2. CASE m.type = "peerDisconnect" /\ m.peer \in Peers /\ PeerDisconnectHandler(p, m.peer)
    <3>1. peersMap' = [peersMap EXCEPT ![p] = peersMap[p] \ {m.peer}]
      BY <2>2 DEF PeerDisconnectHandler
    <3> QED
      BY <3>1 DEF Leaving, Typed
  <2>3. CASE Learns(p, m)
    <3>1. m \in Indicating(m.peer) \cup Replying(m.peer)
      BY <2>3, LearnsFacts
    <3>2. /\ peersMap'[p] = peersMap[p] \cup {m.peer}
          /\ \A r \in Peers \ {p} : peersMap'[r] = peersMap[r]
      BY <2>3, LearnsShows
    <3>3. \A q : m \notin Leaving(q)
      BY <2>3, LearnsFacts DEF Leaving
    <3> QED
      BY <3>1, <3>2, <3>3
  <2> QED
    BY <2>1, <2>2, <2>3 DEF Reads
<1>4. ASSUME NEW r \in Here', NEW q \in Settlers', r # q
      PROVE  /\ Shown(r, q)' => Together(r, q, 0)'
             /\ \A k \in 1..Len(down'[r]) :
                   down'[r][k] \in Indicating(q) \cup Replying(q) => Together(r, q, k)'
  <2>1. q \in Settlers /\ q \in Peers /\ r \in Here /\ r \in Peers
    BY DEF Settlers, Here
  <2>2. /\ Shown(r, q) => Together(r, q, 0)
        /\ \A k \in 1..Len(down[r]) :
              down[r][k] \in Indicating(q) \cup Replying(q) => Together(r, q, k)
    BY <1>4, <2>1 DEF GhostInv
  <2>3. CASE r # p
    BY <1>1, <1>2, <1>3, <2>1, <2>2, <2>3 DEF Together, Shown
  <2>4. CASE r = p
    <3>1. ASSUME NEW k \in 1..Len(down'[p]), down'[p][k] \in Indicating(q) \cup Replying(q)
          PROVE  Together(p, q, k)'
      <4>1. Together(p, q, k + 1)
        BY <1>2, <2>2, <2>4, <3>1
      <4>2. k \in Nat
        OBVIOUS
      <4> QED
        BY <1>1, <1>2, <4>1, <4>2 DEF Together
    <3>2. ASSUME Shown(p, q)'
          PROVE  Together(p, q, 0)'
      <4>1. CASE q \in peersMap[p] /\ m \notin Leaving(q)
        BY <1>1, <1>2, <2>2, <2>4, <3>2, <4>1 DEF Together, Shown, Has
      <4>2. CASE m \in Indicating(q) \cup Replying(q)
        <5>1. Together(p, q, 1)
          BY <1>2, <2>2, <2>4, <4>2
        <5> QED
          BY <1>1, <1>2, <5>1 DEF Together, Has
      <4> QED
        BY <1>3, <2>1, <3>2, <4>1, <4>2 DEF Shown
    <3> QED
      BY <2>4, <3>1, <3>2
  <2> QED
    BY <2>3, <2>4
<1>5. ASSUME NEW q \in Here'
      PROVE  q \notin unsaid' /\ \A r \in Peers : ~ Has(down'[r], Leaving(q))
  <2>1. q \notin unsaid /\ \A r \in Peers : ~ Has(down[r], Leaving(q))
    BY DEF GhostInv
  <2> QED
    BY <1>1, <1>2, <2>1
<1> QED
  BY <1>4, <1>5 DEF GhostInv

LEMMA GhostHandles ==
    ASSUME Typed, Shape, RoomInv, GhostInv, NEW p \in Peers, NEW m \in Message, NEW n \in Message,
           Takes(p, m), Handles(p, m, n), Settlers' \subseteq Settlers, Here' \subseteq Here
    PROVE  GhostInv'
<1>1. PICK ps : Passes(p, m, n, ps)
  BY HandlesPasses
<1>2. UNCHANGED <<place, moved, peersMap>>
  BY DEF Takes
<1>3. /\ \A q \in Peers \ {p} : q \in present' <=> q \in present
      /\ m.type # "closed" /\ p \in Settlers /\ p \in present => p \in present'
      /\ m.type = "closed" => place[p] = "closed"
      /\ m.type = "leaveRoom" => p \notin Settlers
  BY StaysPresent
<1>4. \A q \in Here : q \in present => q \in present'
  BY <1>3 DEF Here, Settlers
<1>5. \A S : m \in S => Has(up[p], S)
  BY TakesFacts DEF Typed
<1>6. /\ \A r \in Peers : Len(down[r]) \in Nat
      /\ \A r \in Peers : \A S : \A k \in 0..Len(down[r]) :
            After(down'[r], k, S)
              <=> After(down[r], k, S) \/ (r \in ps /\ place[r] # "closed" /\ n \in S)
      /\ \A r \in Peers : \A S :
            Has(down'[r], S)
              <=> Has(down[r], S) \/ (r \in ps /\ place[r] # "closed" /\ n \in S)
      /\ \A r \in Peers : \A k \in 1..Len(down'[r]) :
            \/ k \in 1..Len(down[r]) /\ down'[r][k] = down[r][k]
            \/ r \in ps /\ down'[r][k] = n
  <2>1. Reaches(ps, n)
    BY <1>1 DEF Passes
  <2> QED
    BY <2>1, ReachesFacts DEF Typed
<1>7. ASSUME NEW r \in Here, NEW q \in Settlers, r # q, NEW k \in 0..Len(down[r]), Together(r, q, k)
      PROVE  Together(r, q, k)'
  <2>1. r \in Peers /\ q \in Peers /\ place[r] # "closed"
    BY DEF Here, Settlers
  <2>2. CASE After(down[r], k, Leaving(q)) \/ q \in unsaid
    <3>1. unsaid \subseteq unsaid'
      BY <1>1 DEF Passes, Goes
    <3> QED
      BY <1>6, <2>1, <2>2, <3>1 DEF Together
  <2>3. CASE {r, q} \subseteq present
    <3>1. r \in present'
      BY <1>4, <2>3
    <3>2. CASE q \in present'
      BY <3>1, <3>2 DEF Together
    <3>3. CASE q \notin present'
      <4>1. q = p /\ m.type = "closed"
        BY <1>3, <2>1, <2>3, <3>3
      <4>2. n \in Leaving(q) /\ (r \in ps \/ q \in unsaid')
        BY <1>1, <1>7, <2>3, <4>1 DEF Passes, Goes, Indicating
      <4> QED
        BY <1>6, <2>1, <4>2 DEF Together
    <3> QED
      BY <3>2, <3>3
  <2> QED
    BY <1>7, <2>2, <2>3 DEF Together
<1>8. ASSUME NEW r \in Here', NEW q \in Settlers', r # q
      PROVE  /\ Shown(r, q)' => Together(r, q, 0)'
             /\ \A k \in 1..Len(down'[r]) :
                   down'[r][k] \in Indicating(q) \cup Replying(q) => Together(r, q, k)'
  <2>1. q \in Settlers /\ q \in Peers /\ r \in Here /\ r \in Peers
    BY DEF Settlers, Here
  <2>2. /\ Shown(r, q) => Together(r, q, 0)
        /\ \A k \in 1..Len(down[r]) :
              down[r][k] \in Indicating(q) \cup Replying(q) => Together(r, q, k)
    BY <1>8, <2>1 DEF GhostInv
  <2>3. ASSUME Shown(r, q)'
        PROVE  Together(r, q, 0)'
    <3>1. Shown(r, q) /\ 0 \in 0..Len(down[r])
      BY <1>2, <1>6, <2>1, <2>3 DEF Shown
    <3> QED
      BY <1>7, <1>8, <2>1, <2>2, <3>1
  <2>4. ASSUME NEW k \in 1..Len(down'[r]), down'[r][k] \in Indicating(q) \cup Replying(q)
        PROVE  Together(r, q, k)'
    <3>1. CASE k \in 1..Len(down[r]) /\ down'[r][k] = down[r][k]
      <4>1. k \in 0..Len(down[r]) /\ Together(r, q, k)
        BY <2>2, <2>4, <3>1
      <4> QED
        BY <1>7, <1>8, <2>1, <4>1
    <3>2. CASE r \in ps /\ n \in Indicating(q) \cup Replying(q)
      <4>1. CASE n \in Indicating(q)
        <5>1. q = p /\ {p, r} \subseteq present /\ present' = present
          BY <1>1, <3>2, <4>1 DEF Passes, Indicating, Leaving, Replying
        <5> QED
          BY <5>1 DEF Together
      <4>2. CASE n \in Replying(q)
        <5>1. q = p /\ r = m.peer /\ m \in Replying(r) /\ present' = present
          BY <1>1, <3>2, <4>2 DEF Passes, Indicating, Leaving, Replying
        <5>2. r \in present
          BY <1>5, <2>1, <5>1 DEF RoomInv
        <5>3. m \in Telling
          BY <5>1 DEF Telling, Replying
        <5>4. p \in present
          BY <1>5, <2>1, <5>1, <5>3 DEF RoomInv
        <5> QED
          BY <5>1, <5>2, <5>4 DEF Together
      <4> QED
        BY <3>2, <4>1, <4>2
    <3> QED
      BY <1>6, <2>1, <2>4, <3>1, <3>2
  <2> QED
    BY <2>3, <2>4
<1>9. ASSUME NEW q \in Here'
      PROVE  q \notin unsaid' /\ \A r \in Peers : ~ Has(down'[r], Leaving(q))
  <2>1. q \notin unsaid /\ (\A r \in Peers : ~ Has(down[r], Leaving(q))) /\ q \in Here
    BY DEF GhostInv
  <2>2. q \in Settlers /\ place[q] # "closed"
    BY <2>1 DEF Here
  <2>3. n \notin Leaving(q)
    BY <1>1, <1>3, <2>2 DEF Passes, Leaving, Indicating, Replying
  <2>4. q \notin unsaid'
    BY <1>1, <1>3, <2>1, <2>2 DEF Passes, Goes
  <2> QED
    BY <1>6, <2>1, <2>3, <2>4
<1> QED
  BY <1>8, <1>9 DEF GhostInv

LEMMA GhostStep ==
    ASSUME Typed, Shape, RoomInv, GhostInv, [Next]_vars
    PROVE  GhostInv'
<1>0. Settlers' \subseteq Settlers /\ Here' \subseteq Here
  BY HereShrinks
<1>1. ASSUME NEW p \in Peers, NEW m \in Message, Speaks(p, m)
      PROVE  GhostInv'
  BY <1>0, <1>1, GhostKept DEF Speaks
<1>2. ASSUME NEW p \in Peers, NEW m \in Message, Leaves(p, m)
      PROVE  GhostInv'
  <2>1. /\ p \notin Here' /\ down' = down /\ present' = present
        /\ unsaid' = unsaid /\ \A r \in Peers \ {p} : peersMap'[r] = peersMap[r]
    BY <1>2 DEF Leaves, LeaveFrame, Here, Settlers, Typed
  <2>2. \A r \in Here' : peersMap'[r] = peersMap[r]
    BY <2>1 DEF Here, Settlers
  <2> QED
    BY <1>0, <2>1, <2>2, GhostKept
<1>3. ASSUME NEW p \in Peers, NEW m \in Message, Closes(p, m)
      PROVE  GhostInv'
  <2>1. /\ p \notin Here' /\ down' = [down EXCEPT ![p] = <<>>] /\ present' = present
        /\ peersMap' = peersMap /\ unsaid' = unsaid
    BY <1>3 DEF Closes, CloseTab, Here, Typed
  <2>2. \A r \in Peers : down'[r] = down[r] \/ (r \notin Here' /\ down'[r] = <<>>)
    BY <2>1 DEF Typed
  <2> QED
    BY <1>0, <2>1, <2>2, GhostKept
<1>4. ASSUME NEW p \in Peers, NEW m \in Message, Reads(p, m)
      PROVE  GhostInv'
  BY <1>0, <1>4, GhostReads
<1>5. ASSUME NEW p \in Peers, NEW m \in Message, NEW n \in Message, Takes(p, m), Handles(p, m, n)
      PROVE  GhostInv'
  BY <1>0, <1>5, GhostHandles
<1>6. ASSUME NEW p \in Peers, NEW q \in Peers, AudioAnnouncement(p, q)
      PROVE  GhostInv'
  BY <1>0, <1>6, GhostKept DEF AudioAnnouncement
<1>7. CASE UNCHANGED vars \/ CreateCounter
  BY <1>0, <1>7, GhostKept DEF vars, CreateCounter
<1> QED
  BY <1>1, <1>2, <1>3, <1>4, <1>5, <1>6, <1>7, EveryStep
-----------------------------------------------------------------------------
(* What a step does to two clients that are there.                         *)

\* What p learns is of who told; it replies to whom it did not know.
LEMMA ReadsViews ==
    ASSUME Typed, Shape, GhostInv, NEW p \in Peers, NEW m \in Message, Reads(p, m),
           NEW r \in Here, NEW q \in Here
    PROVE  /\ Shown(r, q)' <=> Shown(r, q) \/ (r = p /\ m \in Indicating(q) \cup Replying(q))
           /\ Knows(r, q) => Knows(r, q)'
           /\ Has(up'[r], Replying(q))
                <=> \/ Has(up[r], Replying(q))
                    \/ r = p /\ m \in Indicating(q) /\ ~ Knows(p, q)
           /\ \A o : Has(up'[r], Indicating(o)) <=> Has(up[r], Indicating(o))
           /\ \A S : Has(down[r], S) <=> (r = p /\ m \in S) \/ Has(down'[r], S)
           /\ place'[r] = "frame" => place[r] = "frame"
<1>1. r \in Peers /\ q \in Peers
  BY DEF Here, Settlers
<1>2. Gets(p, m)
  BY DEF Reads
<1>3. /\ \A o \in Peers \ {p} : down'[o] = down[o]
      /\ \A S : Has(down[p], S) <=> m \in S \/ Has(down'[p], S)
  BY <1>2, GetsFacts DEF Typed
<1>4. \A S : Has(down[r], S) <=> (r = p /\ m \in S) \/ Has(down'[r], S)
  BY <1>1, <1>3
<1>5. place'[r] = "frame" => place[r] = "frame"
  BY <1>1, <1>2 DEF Gets, Typed
<1>6. CASE m.type = "joined" /\ UNCHANGED <<store, peersMap, up>>
  <2>1. m \notin Indicating(q) /\ m \notin Replying(q)
    BY <1>6 DEF Indicating, Replying
  <2> QED
    BY <1>4, <1>5, <1>6, <2>1 DEF Knows, Shown
<1>7. CASE m.type = "peerDisconnect" /\ m.peer \in Peers /\ PeerDisconnectHandler(p, m.peer)
  <2>1. m \notin Indicating(q) /\ m \notin Replying(q) /\ m \in Leaving(m.peer)
    BY <1>7 DEF Indicating, Replying, Leaving
  <2>2. q # m.peer
    BY <1>3, <2>1 DEF GhostInv
  <2>3. Puts(p, m.peer, NoPeer) /\ UNCHANGED up
    BY <1>7 DEF PeerDisconnectHandler, Puts
  <2>4. store'[r][q] = store[r][q]
    BY <1>1, <1>7, <2>2, <2>3, StoreChanges
  <2>5. peersMap' = [peersMap EXCEPT ![p] = peersMap[p] \ {m.peer}]
    BY <1>7 DEF PeerDisconnectHandler
  <2>6. Shown(r, q)' <=> Shown(r, q)
    BY <1>1, <2>2, <2>5 DEF Shown, Typed
  <2> QED
    BY <1>4, <1>5, <2>1, <2>3, <2>4, <2>6 DEF Knows
<1>8. CASE Learns(p, m)
  <2>1. /\ m.peer \in Peers /\ m.body \in Indicators
        /\ \/ m.type = "peerIndicators" /\ m \in Indicating(m.peer)
           \/ m.type = "reply" /\ m \in Replying(m.peer)
        /\ Knows(p, m.peer) => Knows(p, m.peer)'
        /\ \A t, o \in Peers : t # p \/ o # m.peer => store'[t][o] = store[t][o]
    BY <1>8, LearnsFacts
  <2>2. m \in Indicating(q) \cup Replying(q) <=> q = m.peer
    BY <2>1 DEF Indicating, Replying
  <2>3. /\ Shown(r, q)' <=> Shown(r, q) \/ (r = p /\ m \in Indicating(q) \cup Replying(q))
        /\ Knows(r, q) => Knows(r, q)'
    <3>1. /\ peersMap'[p] = peersMap[p] \cup {m.peer}
          /\ \A t \in Peers \ {p} : peersMap'[t] = peersMap[t]
      BY <1>8, LearnsShows
    <3>2. Shown(r, q)' <=> Shown(r, q) \/ (r = p /\ q = m.peer)
      BY <1>1, <3>1 DEF Shown
    <3>3. Knows(r, q) => Knows(r, q)'
      BY <1>1, <2>1 DEF Knows
    <3> QED
      BY <2>2, <3>2, <3>3
  <2>4. CASE store[p][m.peer] = NoPeer /\ m.type = "peerIndicators"
    <3>1. PICK n : n = Tell("reply", m.peer, self[p])
      OBVIOUS
    <3>2. Sends(p, n)
      BY <1>8, <2>4, <3>1 DEF Learns
    <3>3. \A S : Has(up'[r], S) <=> Has(up[r], S) \/ (r = p /\ n \in S)
      BY <1>1, <3>2, SendsFacts DEF Typed
    <3>4. /\ n \in Replying(q) <=> q = m.peer
          /\ \A o : n \notin Indicating(o)
      BY <3>1, <3>2 DEF Tell, Sends, Replying, Indicating
    <3>5. m \in Indicating(q) <=> q = m.peer
      BY <2>1, <2>4 DEF Indicating
    <3>6. q = m.peer => ~ Knows(p, q)
      BY <2>4 DEF Knows
    <3> QED
      BY <1>4, <1>5, <2>3, <3>3, <3>4, <3>5, <3>6
  <2>5. CASE ~ (store[p][m.peer] = NoPeer /\ m.type = "peerIndicators")
    <3>1. UNCHANGED up
      BY <1>8, <2>5 DEF Learns
    <3>2. ~ (m \in Indicating(q) /\ ~ Knows(p, q))
      BY <2>5 DEF Indicating, Knows
    <3> QED
      BY <1>4, <1>5, <2>3, <3>1, <3>2
  <2> QED
    BY <2>4, <2>5
<1> QED
  BY <1>6, <1>7, <1>8 DEF Reads

\* A message that the peerManager takes comes down to the others, if they are in
\* the room with its sender, and a reply to whom it is for.
LEMMA HandlesViews ==
    ASSUME Typed, Shape, RoomInv, NEW p \in Peers, NEW m \in Message, NEW n \in Message,
           Takes(p, m), Handles(p, m, n), NEW r \in Here, NEW q \in Here, r # q
    PROVE  /\ Answering(r, q)' <=> Answering(r, q)
           /\ \A S : Has(down[r], S) => Has(down'[r], S)
           /\ \A S : Has(up'[r], S) => Has(up[r], S)
           /\ \A S : q \in present /\ Has(up[r], S \cap Indicating(r))
                 => Has(up'[r], S \cap Indicating(r)) \/ Has(down'[q], S \cap Indicating(r))
<1>1. r \in Peers /\ q \in Peers /\ place[r] # "closed" /\ place[q] # "closed" /\ r \in Settlers
  BY DEF Here, Settlers
<1>2. PICK ps : Passes(p, m, n, ps)
  BY HandlesPasses
<1>3. /\ \A o \in Peers \ {p} : up'[o] = up[o]
      /\ \A S : Has(up[p], S) <=> m \in S \/ Has(up'[p], S)
  BY TakesFacts DEF Typed
<1>4. \A o \in {r, q} : \A S : Has(down'[o], S) <=> Has(down[o], S) \/ (o \in ps /\ n \in S)
  <2>1. Reaches(ps, n)
    BY <1>2 DEF Passes
  <2> QED
    BY <1>1, <2>1, ReachesFacts DEF Typed
<1>5. Answering(r, q)' <=> Answering(r, q)
  <2>1. r = p /\ m \in Replying(q) => q \in ps /\ n \in Replying(r)
    BY <1>2 DEF Passes, Replying, Indicating
  <2>2. q \in ps /\ n \in Replying(r) => r = p /\ m \in Replying(q)
    BY <1>2 DEF Passes, Replying, Indicating, Leaving
  <2> QED
    BY <1>1, <1>3, <1>4, <2>1, <2>2 DEF Answering
<1>6. ASSUME NEW S, q \in present, Has(up[r], S \cap Indicating(r)),
             ~ Has(up'[r], S \cap Indicating(r))
      PROVE  Has(down'[q], S \cap Indicating(r))
  <2>1. r = p /\ m \in S \cap Indicating(p)
    BY <1>1, <1>3, <1>6
  <2>2. m \in Telling
    BY <2>1 DEF Telling, Indicating
  <2>3. r \in present
    BY <1>1, <1>3, <2>1, <2>2 DEF RoomInv
  <2>4. n = m /\ q \in ps
    BY <1>1, <1>2, <1>6, <2>1, <2>3 DEF Passes, Indicating, Replying
  <2> QED
    BY <1>4, <2>1, <2>4
<1> QED
  BY <1>1, <1>3, <1>4, <1>5, <1>6
-----------------------------------------------------------------------------
(* Peers that are there get to know each other.                            *)

\* The other steps of a client, for those that are there and do not leave.
LEMMA OwnStepViews ==
    ASSUME Typed, Shape, NEW p \in Peers, NEW m \in Message,
           Speaks(p, m) \/ Leaves(p, m) \/ Closes(p, m),
           NEW r \in Here', Here' \subseteq Here
    PROVE  /\ \A q : Shown(r, q)' <=> Shown(r, q)
           /\ \A q : Knows(r, q)' <=> Knows(r, q)
           /\ down'[r] = down[r] /\ store'[r] = store[r]
           /\ \A S : Has(up'[r], S) <=> Has(up[r], S) \/ (r = p /\ m \in S)
           /\ \A q : m \notin Replying(q)
           /\ place'[r] = "frame"
                 => \/ place[r] = "frame"
                    \/ /\ r = p /\ m \in Indicating(p) /\ m.body.look = self[p].look
                       /\ place[r] = "lobby"
<1>1. r \in Peers /\ r \in Here /\ place[r] # "closed"
  BY DEF Here, Settlers
<1>2. Sends(p, m)
  BY DEF Speaks, Leaves, Closes
<1>3. \A S : Has(up'[r], S) <=> Has(up[r], S) \/ (r = p /\ m \in S)
  BY <1>1, <1>2, SendsFacts DEF Typed
<1>4. CASE Speaks(p, m)
  BY <1>1, <1>3, <1>4 DEF Speaks, Knows, Shown, Replying, Indicating, Typed
<1>5. CASE Leaves(p, m)
  <2>1. r # p
    BY <1>5 DEF Leaves, LeaveFrame, Here, Settlers
  <2> QED
    BY <1>1, <1>3, <1>5, <2>1 DEF Leaves, LeaveFrame, Knows, Shown, Replying, Typed
<1>6. CASE Closes(p, m)
  <2>1. r # p
    BY <1>6 DEF Closes, CloseTab, Here, Typed
  <2> QED
    BY <1>1, <1>3, <1>6, <2>1 DEF Closes, CloseTab, Knows, Shown, Replying, Typed
<1> QED
  BY <1>4, <1>5, <1>6

LEMMA MutualStep ==
    ASSUME Typed, Shape, RoomInv, GhostInv, MutualInv, [Next]_vars
    PROVE  MutualInv'
<1>0. Here' \subseteq Here
  BY HereShrinks
<1>1. SUFFICES ASSUME NEW r \in Here', NEW q \in Here', r # q
               PROVE  /\ Shown(r, q)' => Shown(q, r)' \/ Answering(r, q)'
                      /\ Answering(r, q)' => Shown(r, q)'
  BY DEF MutualInv
<1>2. /\ r \in Here /\ q \in Here
      /\ Shown(r, q) => Shown(q, r) \/ Answering(r, q)
      /\ Answering(r, q) => Shown(r, q)
      /\ Answering(q, r) => Shown(q, r)
  BY <1>0, <1>1 DEF MutualInv
<1>3. ASSUME NEW p \in Peers, NEW m \in Message,
             Speaks(p, m) \/ Leaves(p, m) \/ Closes(p, m)
      PROVE  /\ Shown(r, q)' <=> Shown(r, q)
             /\ Shown(q, r)' <=> Shown(q, r)
             /\ Answering(r, q)' <=> Answering(r, q)
  BY <1>0, <1>3, OwnStepViews DEF Answering
<1>4. ASSUME NEW p \in Peers, NEW m \in Message, Reads(p, m)
      PROVE  /\ Shown(r, q)' => Shown(q, r)' \/ Answering(r, q)'
             /\ Answering(r, q)' => Shown(r, q)'
  <2>1. /\ Shown(r, q)' <=> Shown(r, q) \/ (r = p /\ m \in Indicating(q) \cup Replying(q))
        /\ Has(up'[r], Replying(q))
             <=> \/ Has(up[r], Replying(q))
                 \/ r = p /\ m \in Indicating(q) /\ ~ Knows(p, q)
        /\ \A S : Has(down[r], S) <=> (r = p /\ m \in S) \/ Has(down'[r], S)
    BY <1>2, <1>4, ReadsViews
  <2>2. /\ Shown(q, r)' <=> Shown(q, r) \/ (q = p /\ m \in Indicating(r) \cup Replying(r))
        /\ \A S : Has(down[q], S) <=> (q = p /\ m \in S) \/ Has(down'[q], S)
    BY <1>2, <1>4, ReadsViews
  <2>3. Answering(r, q)' => Shown(r, q)'
    BY <1>2, <2>1, <2>2 DEF Answering
  <2>4. ASSUME Shown(r, q)'
        PROVE  Shown(q, r)' \/ Answering(r, q)'
    <3>1. CASE Shown(r, q)
      BY <1>2, <2>1, <2>2, <3>1 DEF Answering
    <3>2. CASE r = p /\ m \in Replying(q)
      BY <1>2, <2>1, <2>2, <3>2 DEF Answering
    <3>3. CASE ~ Shown(r, q) /\ r = p /\ m \in Indicating(q)
      <4>1. ~ Knows(r, q)
        BY <1>2, <3>3 DEF Typed, Created, Here, Settlers
      <4> QED
        BY <2>1, <3>3, <4>1 DEF Answering
    <3> QED
      BY <2>1, <2>4, <3>1, <3>2, <3>3
  <2> QED
    BY <2>3, <2>4
<1>5. ASSUME NEW p \in Peers, NEW m \in Message, NEW n \in Message, Takes(p, m), Handles(p, m, n)
      PROVE  /\ Shown(r, q)' <=> Shown(r, q)
             /\ Shown(q, r)' <=> Shown(q, r)
             /\ Answering(r, q)' <=> Answering(r, q)
  BY <1>1, <1>2, <1>5, HandlesViews DEF Takes, Shown
<1>6. CASE UNCHANGED vars \/ CreateCounter \/ \E p, o \in Peers : AudioAnnouncement(p, o)
  BY <1>2, <1>6 DEF vars, CreateCounter, AudioAnnouncement, Shown, Answering
<1> QED
  BY <1>2, <1>3, <1>4, <1>5, <1>6, EveryStep

LEMMA AcquaintedStep ==
    ASSUME Typed, Shape, RoomInv, GhostInv, MutualInv, AcquaintedInv, [Next]_vars
    PROVE  AcquaintedInv'
<1>0. Here' \subseteq Here
  BY HereShrinks
<1>1. SUFFICES ASSUME NEW r \in Here', NEW q \in Here', r # q,
                      place'[r] = "frame", place'[q] = "frame"
               PROVE  WillShow(r, q)'
  BY DEF AcquaintedInv
<1>2. /\ r \in Here /\ q \in Here
      /\ Shown(q, r) => Shown(r, q) \/ Answering(q, r)
      /\ place[r] = "frame" /\ place[q] = "frame" => WillShow(r, q)
  BY <1>0, <1>1 DEF MutualInv, AcquaintedInv
<1>3. ASSUME NEW p \in Peers, NEW m \in Message,
             Speaks(p, m) \/ Leaves(p, m) \/ Closes(p, m)
      PROVE  WillShow(r, q)'
  <2>1. /\ Shown(r, q)' <=> Shown(r, q)
        /\ down'[r] = down[r]
        /\ \A S : Has(up'[r], S) <=> Has(up[r], S) \/ (r = p /\ m \in S)
        /\ place[r] = "frame" \/ (r = p /\ m \in Indicating(p))
    BY <1>0, <1>1, <1>3, OwnStepViews
  <2>2. /\ down'[q] = down[q]
        /\ \A S : Has(up'[q], S) <=> Has(up[q], S) \/ (q = p /\ m \in S)
        /\ place[q] = "frame" \/ (q = p /\ m \in Indicating(p))
    BY <1>0, <1>1, <1>3, OwnStepViews
  <2> QED
    BY <1>2, <2>1, <2>2 DEF WillShow, Answering
<1>4. ASSUME NEW p \in Peers, NEW m \in Message, Reads(p, m)
      PROVE  WillShow(r, q)'
  <2>1. /\ Shown(r, q)' <=> Shown(r, q) \/ (r = p /\ m \in Indicating(q) \cup Replying(q))
        /\ \A o : Has(up'[r], Indicating(o)) <=> Has(up[r], Indicating(o))
        /\ \A S : Has(down[r], S) <=> (r = p /\ m \in S) \/ Has(down'[r], S)
        /\ place[r] = "frame"
    BY <1>1, <1>2, <1>4, ReadsViews
  <2>2. /\ Has(up'[q], Replying(r))
             <=> \/ Has(up[q], Replying(r))
                 \/ q = p /\ m \in Indicating(r) /\ ~ Knows(p, r)
        /\ \A o : Has(up'[q], Indicating(o)) <=> Has(up[q], Indicating(o))
        /\ \A S : Has(down[q], S) <=> (q = p /\ m \in S) \/ Has(down'[q], S)
        /\ place[q] = "frame"
    BY <1>1, <1>2, <1>4, ReadsViews
  <2>3. WillShow(r, q)
    BY <1>2, <2>1, <2>2
  <2>4. CASE Answering(q, r)
    BY <2>1, <2>2, <2>4 DEF WillShow, Answering
  <2>5. CASE Has(down[q], Indicating(r))
    <3>1. Knows(q, r) => Shown(q, r)
      BY <1>2 DEF Typed, Created, Here, Settlers
    <3> QED
      BY <1>2, <2>1, <2>2, <2>4, <2>5, <3>1 DEF WillShow, Answering
  <2> QED
    BY <2>1, <2>2, <2>3, <2>4, <2>5 DEF WillShow
<1>5. ASSUME NEW p \in Peers, NEW m \in Message, NEW n \in Message, Takes(p, m), Handles(p, m, n)
      PROVE  WillShow(r, q)'
  <2>1. place' = place /\ peersMap' = peersMap
    BY <1>5 DEF Takes
  <2>2. r \in present /\ q \in present
    BY <1>1, <1>2, <2>1 DEF RoomInv, Here
  <2>3. \A x, y \in {r, q} : x # y =>
          /\ Answering(x, y)' <=> Answering(x, y)
          /\ \A S : Has(down[x], S) => Has(down'[x], S)
          /\ \A S : Has(up[x], S \cap Indicating(x))
                => Has(up'[x], S \cap Indicating(x)) \/ Has(down'[y], S \cap Indicating(x))
    BY <1>2, <1>5, <2>2, HandlesViews
  <2>4. \A x, y \in {r, q} : x # y =>
          (Has(up[x], Indicating(x)) => Has(up'[x], Indicating(x)) \/ Has(down'[y], Indicating(x)))
    <3>1. \A x : Message \cap Indicating(x) = Indicating(x)
      BY DEF Indicating
    <3> QED
      BY <2>3, <3>1
  <2>5. WillShow(r, q)
    BY <1>1, <1>2, <2>1
  <2> QED
    BY <1>1, <2>1, <2>3, <2>4, <2>5 DEF WillShow, Shown
<1>6. CASE UNCHANGED vars \/ CreateCounter \/ \E p, o \in Peers : AudioAnnouncement(p, o)
  BY <1>1, <1>2, <1>6 DEF vars, CreateCounter, AudioAnnouncement, WillShow, Shown, Answering
<1> QED
  BY <1>3, <1>4, <1>5, <1>6, EveryStep
-----------------------------------------------------------------------------
(* What is known is the latest, or the latest comes.                       *)

\* A client that changes tells of it.
LEMMA OwnStepTells ==
    ASSUME Typed, Shape, NEW p \in Peers, NEW m \in Message,
           Speaks(p, m) \/ Leaves(p, m) \/ Closes(p, m), NEW i \in Fields
    PROVE  /\ Sends(p, m)
           /\ m \in Telling => m.body[i] \in {Undefined, self'[p][i]}
           /\ \A q \in Peers :
                 \/ self'[q][i] = self[q][i]
                 \/ q = p /\ m \in Giving(i) \cap Indicating(q)
<1>0. Sends(p, m)
  BY DEF Speaks, Leaves, Closes
<1>1. CASE self' = self /\ m.type \in {"joinRoom", "leaveRoom", "closed"}
  BY <1>0, <1>1 DEF Telling
<1>2. CASE /\ self' = self /\ m.body.look = self[p].look
           /\ m.body["zone"] = Undefined /\ m.body["muted"] = Undefined
  BY <1>0, <1>2 DEF Fields
<1>3. CASE m \in Indicating(p) /\ self' = [self EXCEPT ![p] = Merge(self[p], m.body)]
  <2>1. m.body \in Indicators /\ m \in Telling
    BY <1>3, MessageParts DEF Indicating, Telling
  <2>2. self[p] \in Indicators /\ self[p] # NoPeer
    BY UndefinedAssumption DEF Typed
  <2>3. self'[p] = Merge(self[p], m.body) /\ \A q \in Peers \ {p} : self'[q] = self[q]
    BY <1>3 DEF Typed
  <2>4. self'[p][i] = IF m.body[i] # Undefined THEN m.body[i] ELSE self[p][i]
    BY <2>1, <2>2, <2>3, MergeFields
  <2>5. m.body[i] # Undefined => m \in Giving(i) \cap Indicating(p)
    BY <1>3, <2>1 DEF Giving
  <2> QED
    BY <1>0, <2>3, <2>4, <2>5
<1>4. CASE Speaks(p, m)
  BY <1>1, <1>2, <1>3, <1>4 DEF Speaks
<1>5. CASE Leaves(p, m) \/ Closes(p, m)
  BY <1>1, <1>5 DEF Leaves, LeaveFrame, Closes, CloseTab
<1> QED
  BY <1>4, <1>5

LEMMA LatestOwn ==
    ASSUME Typed, Shape, LatestInv, NEW p \in Peers, NEW m \in Message,
           Speaks(p, m) \/ Leaves(p, m) \/ Closes(p, m), Here' \subseteq Here
    PROVE  LatestInv'
<1>1. SUFFICES ASSUME NEW i \in Fields
               PROVE  /\ \A q \in Peers : \A k \in 1..Len(up'[q]) : LatestUp(i, q, k)'
                      /\ \A r \in Here', q \in Here' : r # q =>
                            /\ \A k \in 1..Len(down'[r]) : LatestDown(i, r, q, k)'
                            /\ LatestKnown(i, r, q)'
  BY DEF LatestInv
<1>2. /\ Sends(p, m)
      /\ m \in Telling => m.body[i] \in {Undefined, self'[p][i]}
      /\ \A q \in Peers :
            \/ self'[q][i] = self[q][i]
            \/ q = p /\ m \in Giving(i) \cap Indicating(q)
  BY OwnStepTells
<1>3. /\ \A q \in Peers : Len(up[q]) \in Nat
      /\ \A q \in Peers : \A S : \A k \in 0..Len(up[q]) :
            After(up'[q], k, S) <=> After(up[q], k, S) \/ (q = p /\ m \in S)
      /\ \A q \in Peers : \A k \in 1..Len(up'[q]) :
            \/ k \in 1..Len(up[q]) /\ up'[q][k] = up[q][k]
            \/ q = p /\ up'[q][k] = m
  <2>1. Sends(p, m) /\ up \in [Peers -> Seq(Message)]
    BY <1>2 DEF Typed
  <2>2. /\ \A q \in Peers : Len(up[q]) \in Nat
        /\ \A q \in Peers : \A S : \A k \in 0..Len(up[q]) :
              After(up'[q], k, S) <=> After(up[q], k, S) \/ (q = p /\ m \in S)
    BY <2>1, SendsFacts
  <2>3. ASSUME NEW q \in Peers, NEW k \in 1..Len(up'[q])
        PROVE  \/ k \in 1..Len(up[q]) /\ up'[q][k] = up[q][k]
               \/ q = p /\ up'[q][k] = m
    BY <2>1, SendsFacts
  <2> QED
    BY <2>2, <2>3
<1>4. ASSUME NEW q \in Peers, NEW k \in 0..Len(up[q])
      PROVE  /\ ComesUp(q, i, k) => ComesUp(q, i, k)'
             /\ self'[q][i] = self[q][i] \/ ComesUp(q, i, k)'
  BY <1>2, <1>3 DEF ComesUp
<1>5. ASSUME NEW q \in Peers, NEW k \in 1..Len(up'[q])
      PROVE  LatestUp(i, q, k)'
  <2>1. CASE k \in 1..Len(up[q]) /\ up'[q][k] = up[q][k]
    <3>1. LatestUp(i, q, k) /\ k \in 0..Len(up[q])
      BY <2>1 DEF LatestInv
    <3> QED
      BY <1>4, <2>1, <3>1 DEF LatestUp
  <2>2. CASE q = p /\ up'[q][k] = m
    BY <1>2, <2>2 DEF LatestUp
  <2> QED
    BY <1>3, <2>1, <2>2
<1>6. ASSUME NEW r \in Here', NEW q \in Here', r # q
      PROVE  /\ \A k \in 1..Len(down'[r]) : LatestDown(i, r, q, k)'
             /\ LatestKnown(i, r, q)'
  <2>1. r \in Here /\ q \in Here /\ q \in Peers
    BY DEF Here, Settlers
  <2>2. /\ \A k \in 1..Len(down[r]) : LatestDown(i, r, q, k)
        /\ LatestKnown(i, r, q)
    BY <1>6, <2>1 DEF LatestInv
  <2>3. down'[r] = down[r] /\ store'[r] = store[r]
    BY OwnStepViews
  <2>4. 0 \in 0..Len(up[q])
    BY <1>3, <2>1
  <2>5. /\ ComesUp(q, i, 0) => ComesUp(q, i, 0)'
        /\ self'[q][i] = self[q][i] \/ ComesUp(q, i, 0)'
    BY <1>4, <2>1, <2>4
  <2> QED
    BY <2>2, <2>3, <2>5 DEF LatestDown, LatestKnown, ComesDown, Knows
<1> QED
  BY <1>5, <1>6

\* What a reader knows afterwards: the same, or what the message gives of who told.
LEMMA ReadsKnows ==
    ASSUME Typed, Shape, GhostInv, NEW p \in Peers, NEW m \in Message, Reads(p, m),
           NEW r \in Here, NEW q \in Here, NEW i \in Fields, Knows(r, q)'
    PROVE  \/ /\ Knows(r, q) /\ store'[r][q][i] = store[r][q][i]
              /\ r = p => m \notin Giving(i) \cap (Indicating(q) \cup Replying(q))
           \/ /\ r = p /\ m \in Indicating(q) \cup Replying(q)
              /\ m \in Giving(i) /\ store'[r][q][i] = m.body[i]
           \/ /\ r = p /\ m \in Indicating(q) \cup Replying(q) /\ ~ Knows(r, q)
              /\ m.body[i] = Undefined /\ store'[r][q][i] = Undefined
<1>1. r \in Peers /\ q \in Peers
  BY DEF Here, Settlers
<1>2. Gets(p, m) /\ (m \in Leaving(q) => r # p)
  <2>1. Gets(p, m)
    BY DEF Reads
  <2>2. \A S : m \in S => Has(down[p], S)
    BY <2>1, GetsFacts DEF Typed
  <2> QED
    BY <2>1, <2>2 DEF GhostInv
<1>3. CASE m.type = "joined" /\ UNCHANGED store
  <2>1. m \notin Giving(i)
    BY <1>3 DEF Giving, Telling
  <2> QED
    BY <1>3, <2>1 DEF Knows
<1>4. CASE m.type = "peerDisconnect" /\ m.peer \in Peers /\ PeerDisconnectHandler(p, m.peer)
  <2>1. m \notin Giving(i) /\ m \in Leaving(m.peer)
    BY <1>4 DEF Giving, Telling, Leaving
  <2>2. Puts(p, m.peer, NoPeer)
    BY <1>4 DEF PeerDisconnectHandler, Puts
  <2>3. \A t, o \in Peers : t # p \/ o # m.peer => store'[t][o] = store[t][o]
    BY <1>4, <2>2, StoreChanges
  <2> QED
    BY <1>1, <1>2, <2>1, <2>3 DEF Knows
<1>5. CASE Learns(p, m)
  <2>1. /\ m.peer \in Peers /\ m.body \in Indicators /\ m \in Telling
        /\ \/ m.type = "peerIndicators" /\ m \in Indicating(m.peer)
           \/ m.type = "reply" /\ m \in Replying(m.peer)
        /\ m.body = Nothing => store' = store
        /\ m.body # Nothing => store'[p][m.peer] = Merge(store[p][m.peer], m.body)
        /\ \A t, o \in Peers : t # p \/ o # m.peer => store'[t][o] = store[t][o]
    BY <1>5, LearnsFacts DEF Learns
  <2>2. m \in Indicating(q) \cup Replying(q) <=> q = m.peer
    BY <2>1 DEF Indicating, Replying
  <2>3. CASE r # p \/ q # m.peer
    <3>1. store'[r][q] = store[r][q]
      BY <1>1, <2>1, <2>3
    <3> QED
      BY <2>2, <2>3, <3>1 DEF Knows
  <2>5. CASE m.body = Nothing
    <3>1. store' = store
      BY <2>1, <2>5
    <3>2. m.body[i] = Undefined
      BY <2>5 DEF Nothing, Fields
    <3>3. m \notin Giving(i)
      BY <3>2 DEF Giving
    <3> QED
      BY <3>1, <3>3 DEF Knows
  <2>4. CASE r = p /\ q = m.peer /\ m.body # Nothing
    <3>1. store'[r][q][i] = IF m.body[i] # Undefined THEN m.body[i]
                            ELSE IF store[r][q] = NoPeer THEN Undefined ELSE store[r][q][i]
      BY <2>1, <2>4, MergeFields
    <3>2. m \in Giving(i) <=> m.body[i] # Undefined
      BY <2>1 DEF Giving
    <3>3. Knows(r, q) <=> store[r][q] # NoPeer
      BY DEF Knows
    <3> QED
      BY <2>2, <2>4, <3>1, <3>2, <3>3
  <2> QED
    BY <2>3, <2>4, <2>5
<1> QED
  BY <1>3, <1>4, <1>5 DEF Reads

\* What a reader may send is complete.
LEMMA ReadsSends ==
    ASSUME Typed, NEW p \in Peers, NEW m \in Message, Reads(p, m)
    PROVE  \/ up' = up
           \/ \E n : Sends(p, n) /\ n.body = self[p] /\ n.type = "reply"
<1>1. CASE Learns(p, m) /\ up' # up
  <2>1. PICK n : n = Tell("reply", m.peer, self[p])
    OBVIOUS
  <2>2. n.body = self[p] /\ n.type = "reply"
    BY <2>1 DEF Tell
  <2> QED
    BY <1>1, <2>1, <2>2 DEF Learns
<1> QED
  BY <1>1 DEF Reads, PeerDisconnectHandler

LEMMA LatestReads ==
    ASSUME Typed, Shape, GhostInv, LatestInv, NEW p \in Peers, NEW m \in Message,
           Reads(p, m), Here' \subseteq Here
    PROVE  LatestInv'
<1>1. SUFFICES ASSUME NEW i \in Fields
               PROVE  /\ \A q \in Peers : \A k \in 1..Len(up'[q]) : LatestUp(i, q, k)'
                      /\ \A r \in Here', q \in Here' : r # q =>
                            /\ \A k \in 1..Len(down'[r]) : LatestDown(i, r, q, k)'
                            /\ LatestKnown(i, r, q)'
  BY DEF LatestInv
<1>2. self' = self /\ Gets(p, m)
  BY DEF Reads, Gets
<1>3. \A q \in Peers : \A k \in 0..Len(up[q]) : ComesUp(q, i, k) => ComesUp(q, i, k)'
  <2>1. CASE up' = up
    BY <2>1 DEF ComesUp
  <2>2. ASSUME NEW n, Sends(p, n)
        PROVE  \A q \in Peers : \A k \in 0..Len(up[q]) : ComesUp(q, i, k) => ComesUp(q, i, k)'
    BY <2>2, SendsFacts DEF ComesUp, Typed
  <2> QED
    BY <2>1, <2>2, ReadsSends
<1>4. ASSUME NEW q \in Peers, NEW k \in 1..Len(up'[q])
      PROVE  LatestUp(i, q, k)'
  <2>1. CASE k \in 1..Len(up[q]) /\ up'[q][k] = up[q][k]
    <3>1. LatestUp(i, q, k) /\ k \in 0..Len(up[q])
      BY <2>1 DEF LatestInv
    <3> QED
      BY <1>2, <1>3, <2>1, <3>1 DEF LatestUp
  <2>2. CASE q = p /\ up'[q][k].body = self[p]
    BY <1>2, <2>2 DEF LatestUp
  <2>3. CASE up' = up
    BY <2>1, <2>3
  <2>4. ASSUME NEW n, Sends(p, n), n.body = self[p]
        PROVE  LatestUp(i, q, k)'
    <3>1. \/ k \in 1..Len(up[q]) /\ up'[q][k] = up[q][k]
          \/ q = p /\ up'[q][k] = n
      BY <2>4, SendsFacts DEF Typed
    <3> QED
      BY <2>1, <2>2, <2>4, <3>1
  <2> QED
    BY <2>3, <2>4, ReadsSends
<1>5. /\ \A q \in Peers \ {p} : down'[q] = down[q]
      /\ m = down[p][1] /\ Len(down[p]) \in Nat \ {0}
      /\ \A k \in 1..Len(down'[p]) : k + 1 \in 1..Len(down[p]) /\ down'[p][k] = down[p][k + 1]
      /\ \A S : \A k \in Nat : After(down'[p], k, S) <=> After(down[p], k + 1, S)
      /\ \A S : Has(down'[p], S) <=> After(down[p], 1, S)
      /\ \A S : Has(down[p], S) <=> m \in S \/ Has(down'[p], S)
  BY <1>2, GetsFacts DEF Typed
<1>6. ASSUME NEW r \in Here', NEW q \in Here', r # q
      PROVE  /\ \A k \in 1..Len(down'[r]) : LatestDown(i, r, q, k)'
             /\ LatestKnown(i, r, q)'
  <2>1. r \in Here /\ q \in Here /\ q \in Peers /\ r \in Peers
    BY DEF Here, Settlers
  <2>2. /\ \A k \in 1..Len(down[r]) : LatestDown(i, r, q, k)
        /\ LatestKnown(i, r, q)
    BY <1>6, <2>1 DEF LatestInv
  <2>3. ComesUp(q, i, 0) => ComesUp(q, i, 0)'
    <3>1. 0 \in 0..Len(up[q])
      BY <2>1, LenProperties DEF Typed
    <3> QED
      BY <1>3, <2>1, <3>1
  <2>4. ASSUME NEW k \in 1..Len(down'[r])
        PROVE  LatestDown(i, r, q, k)'
    <3>1. CASE r # p
      BY <1>2, <1>5, <2>1, <2>2, <2>3, <3>1 DEF LatestDown, ComesDown
    <3>2. CASE r = p
      <4>1. LatestDown(i, p, q, k + 1) /\ k \in Nat
        BY <1>5, <2>2, <3>2
      <4>2. ComesDown(p, q, i, k + 1) <=> ComesDown(p, q, i, k)'
        BY <1>5, <4>1 DEF ComesDown
      <4>3. down'[p][k] = down[p][k + 1]
        BY <1>5, <3>2
      <4> QED
        BY <1>2, <2>3, <3>2, <4>1, <4>2, <4>3 DEF LatestDown
    <3> QED
      BY <3>1, <3>2
  <2>5. ASSUME Knows(r, q)'
        PROVE  LatestKnown(i, r, q)'
    <3> DEFINE S == Giving(i) \cap (Indicating(q) \cup Replying(q))
    <3>1. ComesDown(r, q, i, 0) <=> Has(down[r], S)
      BY DEF ComesDown, Has
    <3>2. ComesDown(r, q, i, 0)' <=> Has(down'[r], S)
      BY DEF ComesDown, Has
    <3>3. Has(down[r], S) <=> (r = p /\ m \in S) \/ Has(down'[r], S)
      BY <1>5, <2>1
    <3>4. r = p => (ComesDown(r, q, i, 1) <=> ComesDown(r, q, i, 0)')
      BY <1>5, <3>2 DEF ComesDown
    <3>5. CASE /\ Knows(r, q) /\ store'[r][q][i] = store[r][q][i]
               /\ r = p => m \notin S
      BY <1>2, <2>2, <2>3, <3>1, <3>2, <3>3, <3>5 DEF LatestKnown
    <3>6. CASE r = p /\ m \in Indicating(q) \cup Replying(q) /\ store'[r][q][i] = m.body[i]
      <4>1. 1 \in 1..Len(down[p])
        BY <1>5
      <4>2. LatestDown(i, r, q, 1)
        BY <2>2, <3>6, <4>1
      <4> QED
        BY <1>2, <1>5, <2>3, <3>4, <3>6, <4>2 DEF LatestDown, LatestKnown
    <3>7. CASE store'[r][q][i] = Undefined
      BY <3>7 DEF LatestKnown
    <3> HIDE DEF S
    <3>8. \/ /\ Knows(r, q) /\ store'[r][q][i] = store[r][q][i]
             /\ r = p => m \notin S
          \/ r = p /\ m \in Indicating(q) \cup Replying(q) /\ store'[r][q][i] = m.body[i]
          \/ store'[r][q][i] = Undefined
      BY <2>1, <2>5, ReadsKnows DEF S
    <3> QED
      BY <3>5, <3>6, <3>7, <3>8
  <2> QED
    BY <2>4, <2>5 DEF LatestKnown
<1> QED
  BY <1>4, <1>6

\* What the peerManager takes of q's indicators comes to a client that is in the room
\* with q.
LEMMA ComesOn ==
    ASSUME Typed, Shape, RoomInv, NEW p \in Peers, NEW m \in Message, NEW n \in Message,
           Takes(p, m), Handles(p, m, n), NEW r \in Here, NEW q \in Here, r # q,
           NEW i \in Fields, NEW k \in 0..Len(down[r])
    PROVE  /\ ComesDown(r, q, i, k) => ComesDown(r, q, i, k)'
           /\ r \in present /\ ComesUp(q, i, 0)
                => ComesDown(r, q, i, k)' \/ ComesUp(q, i, 0)'
<1>1. r \in Peers /\ q \in Peers /\ place[r] # "closed" /\ q \in Settlers
  BY DEF Here, Settlers
<1>2. PICK ps : Passes(p, m, n, ps)
  BY HandlesPasses
<1>3. \A S : After(down'[r], k, S) <=> After(down[r], k, S) \/ (r \in ps /\ n \in S)
  <2>1. Reaches(ps, n)
    BY <1>2 DEF Passes
  <2> QED
    BY <1>1, <2>1, ReachesFacts DEF Typed
<1>4. /\ \A o \in Peers \ {p} : up'[o] = up[o]
      /\ \A S : Has(up[p], S) <=> m \in S \/ Has(up'[p], S)
  BY TakesFacts DEF Typed
<1>5. ASSUME r \in present, ComesUp(q, i, 0), ~ ComesUp(q, i, 0)'
      PROVE  ComesDown(r, q, i, k)'
  <2>1. q = p /\ m \in Giving(i) \cap Indicating(p)
    BY <1>1, <1>4, <1>5 DEF ComesUp, Has
  <2>2. m \in Telling
    BY <2>1 DEF Giving
  <2>3. q \in present
    BY <1>1, <1>4, <2>1, <2>2 DEF RoomInv
  <2>4. n = m /\ r \in ps
    BY <1>1, <1>2, <1>5, <2>1, <2>3 DEF Passes, Indicating, Replying
  <2> QED
    BY <1>3, <2>1, <2>4 DEF ComesDown
<1> QED
  BY <1>3, <1>5 DEF ComesDown

LEMMA LatestHandles ==
    ASSUME Typed, Shape, RoomInv, GhostInv, LatestInv,
           NEW p \in Peers, NEW m \in Message, NEW n \in Message,
           Takes(p, m), Handles(p, m, n), Here' \subseteq Here
    PROVE  LatestInv'
<1>1. SUFFICES ASSUME NEW i \in Fields
               PROVE  /\ \A q \in Peers : \A k \in 1..Len(up'[q]) : LatestUp(i, q, k)'
                      /\ \A r \in Here', q \in Here' : r # q =>
                            /\ \A k \in 1..Len(down'[r]) : LatestDown(i, r, q, k)'
                            /\ LatestKnown(i, r, q)'
  BY DEF LatestInv
<1>2. UNCHANGED <<self, store, place>>
  BY DEF Takes
<1>3. /\ \A q \in Peers \ {p} : up'[q] = up[q]
      /\ m = up[p][1] /\ Len(up[p]) \in Nat \ {0}
      /\ \A k \in 1..Len(up'[p]) : k + 1 \in 1..Len(up[p]) /\ up'[p][k] = up[p][k + 1]
      /\ \A S : \A k \in Nat : After(up'[p], k, S) <=> After(up[p], k + 1, S)
      /\ \A S : Has(up'[p], S) <=> After(up[p], 1, S)
  BY TakesFacts DEF Typed
<1>4. ASSUME NEW q \in Peers, NEW k \in 1..Len(up'[q])
      PROVE  LatestUp(i, q, k)'
  <2>1. CASE q # p
    BY <1>2, <1>3, <2>1 DEF LatestInv, LatestUp, ComesUp
  <2>2. CASE q = p
    <3>1. LatestUp(i, p, k + 1) /\ k \in Nat
      BY <1>3, <2>2 DEF LatestInv
    <3>2. ComesUp(p, i, k + 1) <=> ComesUp(p, i, k)'
      BY <1>3, <3>1 DEF ComesUp
    <3>3. up'[p][k] = up[p][k + 1]
      BY <1>3, <2>2
    <3> QED
      BY <1>2, <2>2, <3>1, <3>2, <3>3 DEF LatestUp
  <2> QED
    BY <2>1, <2>2
<1>5. PICK ps : Passes(p, m, n, ps)
  BY HandlesPasses
<1>6. /\ \A r \in Peers : Len(down[r]) \in Nat
      /\ \A r \in Peers : \A k \in 1..Len(down'[r]) :
            \/ k \in 1..Len(down[r]) /\ down'[r][k] = down[r][k]
            \/ r \in ps /\ down'[r][k] = n
  <2>1. Reaches(ps, n)
    BY <1>5 DEF Passes
  <2> QED
    BY <2>1, ReachesFacts DEF Typed
<1>7. ASSUME NEW r \in Here', NEW q \in Here', r # q
      PROVE  /\ \A k \in 1..Len(down'[r]) : LatestDown(i, r, q, k)'
             /\ LatestKnown(i, r, q)'
  <2>1. r \in Here /\ q \in Here /\ q \in Peers /\ r \in Peers /\ q \in Settlers
    BY DEF Here, Settlers
  <2>2. /\ \A k \in 1..Len(down[r]) : LatestDown(i, r, q, k)
        /\ LatestKnown(i, r, q)
    BY <1>7, <2>1 DEF LatestInv
  <2>3. \A k \in 0..Len(down[r]) :
          /\ ComesDown(r, q, i, k) => ComesDown(r, q, i, k)'
          /\ r \in present /\ ComesUp(q, i, 0)
               => ComesDown(r, q, i, k)' \/ ComesUp(q, i, 0)'
    BY <1>7, <2>1, ComesOn
  <2>4. ASSUME NEW k \in 1..Len(down[r]), down'[r][k] = down[r][k]
        PROVE  LatestDown(i, r, q, k)'
    <3>1. LatestDown(i, r, q, k) /\ k \in 0..Len(down[r])
      BY <2>2
    <3>2. r \in present
      <4>1. down[r] # <<>>
        BY <2>4, EmptySeq
      <4> QED
        BY <2>1, <4>1 DEF RoomInv
    <3> QED
      BY <1>2, <2>3, <2>4, <3>1, <3>2 DEF LatestDown
  <2>5. ASSUME NEW k \in 1..Len(down'[r]), down'[r][k] = n
        PROVE  LatestDown(i, r, q, k)'
    <3>1. SUFFICES ASSUME n \in Indicating(q) \cup Replying(q)
                   PROVE  n.body[i] \in {Undefined, self[q][i]} \/ ComesUp(q, i, 0)'
      BY <1>2, <2>5 DEF LatestDown
    <3>2. q = p /\ m \in Telling /\ n.body = m.body
      BY <1>5, <3>1 DEF Passes, Indicating, Replying, Leaving, Telling
    <3>3. LatestUp(i, p, 1)
      BY <1>3 DEF LatestInv
    <3>4. ComesUp(p, i, 1) <=> ComesUp(p, i, 0)'
      BY <1>3 DEF ComesUp, Has
    <3> QED
      BY <1>3, <3>2, <3>3, <3>4 DEF LatestUp
  <2>6. LatestKnown(i, r, q)'
    <3>1. SUFFICES ASSUME Knows(r, q)
                   PROVE  LatestKnown(i, r, q)'
      BY <1>2 DEF LatestKnown, Knows
    <3>2. 0 \in 0..Len(down[r])
      BY <1>6, <2>1
    <3>3. r \in present
      <4>1. Shown(r, q)
        BY <2>1, <3>1 DEF Typed, Created
      <4>2. Together(r, q, 0) /\ ~ Has(down[r], Leaving(q)) /\ q \notin unsaid
        BY <1>7, <2>1, <4>1 DEF GhostInv
      <4> QED
        BY <4>2 DEF Together, Has
    <3> QED
      BY <1>2, <2>2, <2>3, <3>1, <3>2, <3>3 DEF LatestKnown, Knows
  <2> QED
    BY <1>6, <2>1, <2>4, <2>5, <2>6
<1> QED
  BY <1>4, <1>7

LEMMA LatestStep ==
    ASSUME Typed, Shape, RoomInv, GhostInv, LatestInv, [Next]_vars
    PROVE  LatestInv'
<1>0. Here' \subseteq Here
  BY HereShrinks
<1>1. CASE UNCHANGED vars \/ CreateCounter \/ \E p, o \in Peers : AudioAnnouncement(p, o)
  <2>1. UNCHANGED <<up, down, self, store, place, moved>>
    BY <1>1 DEF vars, CreateCounter, AudioAnnouncement
  <2>2. Here' = Here
    BY <2>1 DEF Here, Settlers
  <2>3. ASSUME NEW i \in Fields
        PROVE  /\ \A q \in Peers : \A k \in 1..Len(up[q]) : LatestUp(i, q, k)' <=> LatestUp(i, q, k)
               /\ \A p, q \in Here :
                     /\ \A k \in 1..Len(down[p]) :
                           LatestDown(i, p, q, k)' <=> LatestDown(i, p, q, k)
                     /\ LatestKnown(i, p, q)' <=> LatestKnown(i, p, q)
    BY <2>1 DEF LatestUp, LatestDown, LatestKnown, ComesUp, ComesDown, Knows
  <2> QED
    BY <2>1, <2>2, <2>3 DEF LatestInv
<1> QED
  BY <1>0, <1>1, EveryStep, LatestOwn, LatestReads, LatestHandles
-----------------------------------------------------------------------------
(* The facades of those who take part.                                     *)

LEMMA FaceStep ==
    ASSUME Typed, Shape, RoomInv, GhostInv, FaceInv, [Next]_vars
    PROVE  FaceInv'
<1>0. Here' \subseteq Here
  BY HereShrinks
<1>1. "look" \in Fields
  BY DEF Fields
<1>2. SUFFICES ASSUME NEW r \in Here', NEW q \in Here', r # q,
                      place'[q] = "frame", Shown(r, q)'
               PROVE  FaceComes(r, q)'
  BY DEF FaceInv
<1>3. /\ r \in Here /\ q \in Here /\ r \in Peers /\ q \in Peers
      /\ place[q] = "frame" /\ Shown(r, q) => FaceComes(r, q)
  BY <1>0, <1>2 DEF FaceInv, Here, Settlers
<1>4. ASSUME NEW p \in Peers, NEW m \in Message,
             Speaks(p, m) \/ Leaves(p, m) \/ Closes(p, m)
      PROVE  FaceComes(r, q)'
  <2>1. /\ Shown(r, q)' <=> Shown(r, q)
        /\ Knows(r, q)' <=> Knows(r, q)
        /\ down'[r] = down[r] /\ store'[r] = store[r]
    BY <1>0, <1>4, OwnStepViews
  <2>2. \A S : Has(up'[q], S) <=> Has(up[q], S) \/ (q = p /\ m \in S)
    BY <1>0, <1>4, OwnStepViews
  <2>3. place[q] = "frame" \/ (q = p /\ m \in Indicating(p) /\ m.body.look = self[p].look)
    BY <1>0, <1>2, <1>4, OwnStepViews
  <2>4. faceless' = faceless
    BY <1>4 DEF Speaks, Leaves, LeaveFrame, Closes, CloseTab
  <2>5. CASE place[q] = "frame"
    BY <1>2, <1>3, <2>1, <2>2, <2>4, <2>5 DEF FaceComes, ComesDown, ComesUp, Has
  <2>6. CASE q = p /\ m \in Indicating(p) /\ m.body["look"] = self[p]["look"]
    <3>1. m.body["look"] # Undefined
      BY <1>1, <2>6, TabsAreIndicators DEF Shape
    <3>2. m \in Giving("look") \cap Indicating(q)
      BY <2>6, <3>1 DEF Giving, Telling, Indicating
    <3> QED
      BY <2>2, <2>6, <3>2 DEF FaceComes, ComesUp, Has
  <2> QED
    BY <2>3, <2>5, <2>6
<1>5. ASSUME NEW p \in Peers, NEW m \in Message, Reads(p, m)
      PROVE  FaceComes(r, q)'
  <2> DEFINE S == Giving("look") \cap (Indicating(q) \cup Replying(q))
  <2>1. /\ \A o : Has(up'[q], Indicating(o)) <=> Has(up[q], Indicating(o))
        /\ place[q] = "frame"
    BY <1>2, <1>3, <1>5, ReadsViews
  <2>2. \A T : Has(down[r], T) <=> (r = p /\ m \in T) \/ Has(down'[r], T)
    BY <1>3, <1>5, ReadsViews
  <2>3. ComesDown(r, q, "look", 0) => (r = p /\ m \in S) \/ ComesDown(r, q, "look", 0)'
    BY <2>2 DEF ComesDown, Has
  <2>4. ComesUp(q, "look", 0) => ComesUp(q, "look", 0)'
    <3>1. CASE up' = up
      BY <3>1 DEF ComesUp
    <3>2. ASSUME NEW n, Sends(p, n)
          PROVE  ComesUp(q, "look", 0) => ComesUp(q, "look", 0)'
      BY <1>3, <3>2, SendsFacts DEF ComesUp, Has, Typed
    <3> QED
      BY <1>5, <3>1, <3>2, ReadsSends
  <2>5. faceless \subseteq faceless'
    BY <1>5 DEF Reads, Learns
  <2>6. CASE /\ Shown(r, q)
             /\ r = p => m \notin S
             /\ Knows(r, q) => Knows(r, q)' /\ store'[r][q]["look"] = store[r][q]["look"]
    BY <1>3, <2>1, <2>3, <2>4, <2>5, <2>6 DEF FaceComes
  <2>7. CASE /\ m \in Giving("look") /\ Knows(r, q)'
             /\ store'[r][q]["look"] = m.body["look"]
    BY <2>7 DEF FaceComes, Giving
  <2>8. CASE /\ r = p /\ m \in Indicating(q) \cup Replying(q) /\ ~ Knows(r, q)
             /\ m.body["look"] = Undefined
    <3>1. m \notin Replying(q)
      <4>1. m = down[p][1] /\ 1 \in 1..Len(down[p])
        <5>1. Gets(p, m)
          BY <1>5 DEF Reads
        <5>2. m = down[p][1] /\ Len(down[p]) \in Nat \ {0}
          BY <5>1, GetsFacts DEF Typed
        <5> QED
          BY <5>2
      <4>2. m.type = "reply" => m.body \in Tabs
        BY <4>1 DEF Shape, DownOK
      <4> QED
        BY <1>1, <2>8, <4>2, TabsAreIndicators DEF Replying
    <3>2. m.type = "peerIndicators" /\ m.peer = q
      BY <2>8, <3>1 DEF Indicating
    <3>3. Learns(p, m)
      BY <1>5, <3>2 DEF Reads
    <3>4. store[p][m.peer] = NoPeer /\ m.body.look = Undefined /\ place[m.peer] = "frame"
      BY <2>1, <2>8, <3>2 DEF Knows
    <3> QED
      BY <2>8, <3>2, <3>3, <3>4 DEF Learns, FaceComes
  <2>9. CASE Knows(r, q)'
    <3>1. Knows(r, q) => Shown(r, q)
      BY <1>3 DEF Typed, Created
    <3> HIDE DEF S
    <3>2. \/ /\ Knows(r, q) /\ store'[r][q]["look"] = store[r][q]["look"]
             /\ r = p => m \notin S
          \/ m \in Giving("look") /\ store'[r][q]["look"] = m.body["look"]
          \/ /\ r = p /\ m \in Indicating(q) \cup Replying(q) /\ ~ Knows(r, q)
             /\ m.body["look"] = Undefined
      BY <1>1, <1>3, <1>5, <2>9, ReadsKnows DEF S
    <3> QED
      BY <2>6, <2>7, <2>8, <2>9, <3>1, <3>2
  <2>10. CASE ~ Knows(r, q)'
    <3>1. /\ ~ Knows(r, q)
          /\ Shown(r, q) \/ (r = p /\ m \in Indicating(q) \cup Replying(q))
      BY <1>2, <1>3, <1>5, <2>10, ReadsViews
    <3>2. CASE r = p /\ m \in Indicating(q) \cup Replying(q)
      <4>1. Learns(p, m) /\ m.peer = q
        BY <1>5, <3>2 DEF Reads, Indicating, Replying
      <4>2. m.body = Nothing
        BY <2>10, <3>2, <4>1, LearnsFacts
      <4>3. m.body["look"] = Undefined
        BY <4>2 DEF Nothing
      <4> QED
        BY <2>8, <3>1, <3>2, <4>3
    <3>3. CASE Shown(r, q) /\ ~ (r = p /\ m \in Indicating(q) \cup Replying(q))
      BY <2>6, <3>1, <3>3
    <3> QED
      BY <3>1, <3>2, <3>3
  <2> QED
    BY <2>9, <2>10
<1>6. ASSUME NEW p \in Peers, NEW m \in Message, NEW n \in Message, Takes(p, m), Handles(p, m, n)
      PROVE  FaceComes(r, q)'
  <2>1. UNCHANGED <<store, peersMap, place, faceless>>
    BY <1>6 DEF Takes
  <2>2. Shown(r, q) /\ 0 \in 0..Len(down[r])
    BY <1>2, <1>3, <2>1, LenProperties DEF Shown, Typed
  <2>3. r \in present
    <3>1. Together(r, q, 0) /\ ~ Has(down[r], Leaving(q)) /\ q \notin unsaid
      BY <1>2, <1>3, <2>2 DEF GhostInv, Here
    <3> QED
      BY <3>1 DEF Together, Has
  <2>4. /\ ComesDown(r, q, "look", 0) => ComesDown(r, q, "look", 0)'
        /\ r \in present /\ ComesUp(q, "look", 0)
             => ComesDown(r, q, "look", 0)' \/ ComesUp(q, "look", 0)'
    BY <1>1, <1>2, <1>3, <1>6, <2>2, ComesOn
  <2> QED
    BY <1>2, <1>3, <2>1, <2>2, <2>3, <2>4 DEF FaceComes, Knows
<1>7. CASE UNCHANGED vars \/ CreateCounter \/ \E p, o \in Peers : AudioAnnouncement(p, o)
  <2>1. UNCHANGED <<up, down, store, peersMap, place, faceless>>
    BY <1>7 DEF vars, CreateCounter, AudioAnnouncement
  <2> QED
    BY <1>2, <1>3, <2>1 DEF FaceComes, ComesUp, ComesDown, Knows, Shown
<1> QED
  BY <1>4, <1>5, <1>6, <1>7, EveryStep
-----------------------------------------------------------------------------
(* What is muted.                                                          *)

\* g is f with v at p, q.
PutIn(f, g, p, q, v) == g = [f EXCEPT ![p][q] = v]

Table(f) == /\ f = [r \in Peers |-> f[r]]
            /\ \A r \in Peers : f[r] = [o \in Peers |-> f[r][o]]

LEMMA Tables ==
    ASSUME Typed
    PROVE  Table(hush) /\ Table(consumer)
<1>1. /\ hush = [r \in Peers |-> hush[r]]
      /\ consumer = [r \in Peers |-> consumer[r]]
  BY DEF Typed
<1>2. ASSUME NEW r \in Peers
      PROVE  /\ hush[r] = [o \in Peers |-> hush[r][o]]
             /\ consumer[r] = [o \in Peers |-> consumer[r][o]]
  <2>1. /\ hush[r] \in [Peers -> {"unset", "mute", "unmute"}]
        /\ consumer[r] \in [Peers -> {"none", "playing", "paused"}]
    BY DEF Typed
  <2> QED
    BY <2>1
<1> QED
  BY <1>1, <1>2 DEF Table

LEMMA PutInFacts ==
    ASSUME NEW f, Table(f), NEW g, NEW p \in Peers, NEW q \in Peers, NEW v,
           PutIn(f, g, p, q, v)
    PROVE  /\ g[p][q] = v
           /\ \A r, o \in Peers : r # p \/ o # q => g[r][o] = f[r][o]
<1>1. g = [r \in Peers |-> IF r = p THEN [f[p] EXCEPT ![q] = v] ELSE f[r]]
  BY DEF PutIn, Table
<1>2. /\ [f[p] EXCEPT ![q] = v][q] = v
      /\ \A o \in Peers : o # q => [f[p] EXCEPT ![q] = v][o] = f[p][o]
  BY DEF Table
<1> QED
  BY <1>1, <1>2

\* A consumer is paused just if its peer is to be muted.
AsAsked(p, q) ==
    consumer[p][q] # "none" => (consumer[p][q] = "paused" <=> hush[p][q] = "mute")

LEMMA MutedAsAsked ==
    ASSUME Typed, NEW p \in Peers, NEW q \in Peers, NEW mute, Muted(p, q, mute),
           NEW r \in Peers, NEW o \in Peers, AsAsked(r, o)
    PROVE  AsAsked(r, o)'
<1>1. PICK h : h = (IF mute THEN "mute" ELSE "unmute") /\ PutIn(hush, hush', p, q, h)
  BY DEF Muted, PutIn
<1>2. /\ hush'[p][q] = h
      /\ r # p \/ o # q => hush'[r][o] = hush[r][o]
  BY <1>1, Tables, PutInFacts
<1>3. CASE consumer[p][q] = "none"
  BY <1>2, <1>3 DEF Muted, AsAsked
<1>4. CASE consumer[p][q] # "none"
  <2>1. PICK c \in {"paused", "playing"} :
          PutIn(consumer, consumer', p, q, c) /\ (c = "paused" <=> h = "mute")
    <3>1. CASE mute
      BY <1>1, <1>4, <3>1 DEF Muted, PutIn
    <3>2. CASE ~ mute
      BY <1>1, <1>4, <3>2 DEF Muted, PutIn
    <3> QED
      BY <3>1, <3>2
  <2>2. /\ consumer'[p][q] = c
        /\ r # p \/ o # q => consumer'[r][o] = consumer[r][o]
    BY <2>1, Tables, PutInFacts
  <2> QED
    BY <1>1, <1>2, <2>1, <2>2 DEF AsAsked
<1> QED
  BY <1>3, <1>4

LEMMA AsAskedStep ==
    ASSUME Typed, Shape, [Next]_vars, NEW r \in Peers, NEW o \in Peers, AsAsked(r, o)
    PROVE  AsAsked(r, o)'
<1>1. CASE UNCHANGED <<hush, consumer>>
  BY <1>1 DEF AsAsked
<1>2. ASSUME NEW p \in Peers, LeaveFrame(p)
      PROVE  AsAsked(r, o)'
  BY <1>2 DEF LeaveFrame, AsAsked, Typed
<1>3. ASSUME NEW p \in Peers, NEW m \in Message, Reads(p, m)
      PROVE  AsAsked(r, o)'
  <2>1. CASE m.peer \in Peers /\ PeerDisconnectHandler(p, m.peer)
    <3>1. PICK c \in {"none", consumer[p][m.peer]} : PutIn(consumer, consumer', p, m.peer, c)
      BY <2>1 DEF PeerDisconnectHandler, CloseConsumersForPeer, PutIn
    <3>2. /\ consumer'[p][m.peer] = c
          /\ r # p \/ o # m.peer => consumer'[r][o] = consumer[r][o]
      BY <2>1, <3>1, Tables, PutInFacts
    <3> QED
      BY <2>1, <3>1, <3>2 DEF PeerDisconnectHandler, AsAsked
  <2>2. CASE Learns(p, m)
    <3>1. m.peer \in Peers
      BY <2>2, LearnsFacts
    <3> QED
      BY <1>1, <2>2, <3>1, MutedAsAsked DEF Learns
  <2> QED
    BY <1>1, <1>3, <2>1, <2>2 DEF Reads
<1>4. ASSUME NEW p \in Peers, NEW q \in Peers, AudioAnnouncement(p, q)
      PROVE  AsAsked(r, o)'
  <2>1. PICK c \in {"paused", "playing"} :
          PutIn(consumer, consumer', p, q, c) /\ (c = "paused" <=> hush[p][q] = "mute")
    BY <1>4 DEF AudioAnnouncement, PutIn
  <2>2. /\ consumer'[p][q] = c
        /\ r # p \/ o # q => consumer'[r][o] = consumer[r][o]
    BY <2>1, Tables, PutInFacts
  <2> QED
    BY <1>4, <2>1, <2>2 DEF AudioAnnouncement, AsAsked
<1>5. ASSUME NEW p \in Peers, NEW m \in Message, Speaks(p, m) \/ Closes(p, m)
      PROVE  UNCHANGED <<hush, consumer>>
  BY <1>5 DEF Speaks, Closes, CloseTab
<1> QED
  BY <1>1, <1>2, <1>3, <1>4, <1>5, EveryStep DEF Leaves, Takes, vars, CreateCounter
-----------------------------------------------------------------------------
(* What is known of a zone, and the replies that come.                     *)

\* All that q tells; what gives its zone, on its way down and on its way up.
Of(q) == Indicating(q) \cup Replying(q)
Zoned(q) == Giving("zone") \cap Of(q)
ZonedUp(q) == Giving("zone") \cap Indicating(q)

\* A message of S is in s between the j-th and the k-th.
Between(s, j, k, S) == \E l \in 1..Len(s) : j < l /\ l < k /\ s[l] \in S

\* The zone of q that p knows, for k = 0, or gets by the k-th message.
KnownZone(p, q) == IF Knows(p, q) THEN store[p][q]["zone"] ELSE Undefined
ZoneAt(p, q, k) ==
    IF k = 0 THEN KnownZone(p, q)
    ELSE IF down[p][k] \in Of(q) THEN down[p][k].body["zone"] ELSE Undefined

\* The reply k gives the zone that was given last before it.
DownFollows(p, q, k) ==
    down[p][k] \in Replying(q)
    => \A j \in 0..k - 1 :
          \/ ZoneAt(p, q, j) \in {Undefined, down[p][k].body["zone"]}
          \/ Between(down[p], j, k, Zoned(q))

UpFollowsDown(p, q, k) ==
    up[q][k] \in Replying(p)
    => \A j \in 0..Len(down[p]) :
          \/ ZoneAt(p, q, j) \in {Undefined, up[q][k].body["zone"]}
          \/ After(down[p], j, Zoned(q)) \/ Between(up[q], 0, k, ZonedUp(q))

UpFollows(p, q, k) ==
    up[q][k] \in Replying(p)
    => \A j \in 1..k - 1 :
          up[q][j] \in Telling
          => \/ up[q][j].body["zone"] \in {Undefined, up[q][k].body["zone"]}
             \/ Between(up[q], j, k, ZonedUp(q))

Follows(p, q) ==
    /\ \A k \in 1..Len(down[p]) : DownFollows(p, q, k)
    /\ \A k \in 1..Len(up[q]) : UpFollowsDown(p, q, k) /\ UpFollows(p, q, k)

ZoneInv == \A p \in Here, q \in Settlers : p # q => Follows(p, q)

\* t is s, or has more messages at its end.
Extends(s, t) ==
    /\ Len(s) \in Nat /\ Len(t) \in Nat /\ Len(s) <= Len(t)
    /\ \A k \in 1..Len(s) : k \in 1..Len(t) /\ t[k] = s[k]

LEMMA AppendExtends ==
    ASSUME NEW s \in Seq(Message)
    PROVE  Extends(s, s) /\ \A m \in Message : Extends(s, Append(s, m))
<1>1. Len(s) \in Nat
  BY LenProperties
<1>2. ASSUME NEW m \in Message
      PROVE  /\ Len(Append(s, m)) = Len(s) + 1
             /\ \A k \in 1..Len(s) : Append(s, m)[k] = s[k]
  BY AppendFacts
<1> QED
  BY <1>1, <1>2 DEF Extends

LEMMA BetweenKept ==
    ASSUME NEW s, NEW t, Extends(s, t), NEW j \in Nat, NEW k \in Nat, NEW S,
           Between(s, j, k, S)
    PROVE  Between(t, j, k, S)
  BY DEF Extends, Between

LEMMA AfterBetween ==
    ASSUME NEW s, NEW t, Extends(s, t), NEW j \in Nat, NEW S, After(s, j, S)
    PROVE  Between(t, j, Len(s) + 1, S)
<1>1. PICK l \in 1..Len(s) : j < l /\ s[l] \in S
  BY DEF After
<1>2. l \in 1..Len(t) /\ t[l] = s[l] /\ l < Len(s) + 1
  BY <1>1 DEF Extends
<1> QED
  BY <1>1, <1>2 DEF Between

LEMMA BetweenTaken ==
    ASSUME NEW s, NEW t, NEW m, Taken(s, t, m), NEW j \in Nat, NEW k \in Nat, NEW S,
           Between(s, j + 1, k + 1, S)
    PROVE  Between(t, j, k, S)
<1>1. PICK l \in 1..Len(s) : j + 1 < l /\ l < k + 1 /\ s[l] \in S
  BY DEF Between
<1>2. PICK i \in Nat : l = i + 1
  BY <1>1
<1>3. i \in 1..Len(t) /\ t[i] = s[l] /\ j < i /\ i < k
  BY <1>1, <1>2 DEF Taken
<1> QED
  BY <1>1, <1>3 DEF Between

\* The first message is in S, or one that is left.
LEMMA BetweenFirst ==
    ASSUME NEW s, NEW t, NEW m, Taken(s, t, m), NEW k \in Nat, NEW S,
           Between(s, 0, k + 1, S)
    PROVE  m \in S \/ Between(t, 0, k, S)
<1>1. PICK l \in 1..Len(s) : 0 < l /\ l < k + 1 /\ s[l] \in S
  BY DEF Between
<1>2. CASE l = 1
  BY <1>1, <1>2 DEF Taken
<1>3. CASE l # 1
  <2>1. PICK i \in Nat : l = i + 1
    BY <1>1
  <2>2. i \in 1..Len(t) /\ t[i] = s[l] /\ 0 < i /\ i < k
    BY <1>1, <1>3, <2>1 DEF Taken
  <2> QED
    BY <1>1, <2>2 DEF Between
<1> QED
  BY <1>2, <1>3

\* p sees the same of q.
Still(p, q) == down'[p] = down[p] /\ store'[p][q] = store[p][q]

LEMMA StillZoneAt ==
    ASSUME NEW p, NEW q, Still(p, q), NEW k
    PROVE  ZoneAt(p, q, k)' = ZoneAt(p, q, k)
  BY DEF Still, ZoneAt, KnownZone, Knows

\* q sends, and p sees the same: what is new is no reply to p, or follows.
LEMMA FollowsSent ==
    ASSUME NEW p, NEW q, Follows(p, q), Still(p, q), Extends(up[q], up'[q]),
           \A k \in 1..Len(up'[q]) :
              \/ k \in 1..Len(up[q])
              \/ UpFollowsDown(p, q, k)' /\ UpFollows(p, q, k)'
    PROVE  Follows(p, q)'
<1>1. \A k : ZoneAt(p, q, k)' = ZoneAt(p, q, k)
  BY StillZoneAt
<1>2. \A k \in 1..Len(down'[p]) : DownFollows(p, q, k)'
  <2>1. down'[p] = down[p]
    BY DEF Still
  <2> QED
    BY <1>1, <2>1 DEF Follows, DownFollows
<1>3. ASSUME NEW k \in 1..Len(up[q])
      PROVE  UpFollowsDown(p, q, k)' /\ UpFollows(p, q, k)'
  <2>1. up'[q][k] = up[q][k] /\ k \in Nat /\ down'[p] = down[p]
    BY DEF Extends, Still
  <2>2. UpFollowsDown(p, q, k)'
    <3>1. Between(up[q], 0, k, ZonedUp(q)) => Between(up'[q], 0, k, ZonedUp(q))
      BY <2>1, BetweenKept
    <3>2. UpFollowsDown(p, q, k)
      BY DEF Follows
    <3> QED
      BY <1>1, <2>1, <3>1, <3>2 DEF UpFollowsDown
  <2>3. UpFollows(p, q, k)'
    <3>1. SUFFICES ASSUME up[q][k] \in Replying(p), NEW j \in 1..k - 1, up'[q][j] \in Telling
                   PROVE  \/ up'[q][j].body["zone"] \in {Undefined, up[q][k].body["zone"]}
                          \/ Between(up'[q], j, k, ZonedUp(q))
      BY <2>1 DEF UpFollows
    <3>2. j \in 1..Len(up[q]) /\ j \in Nat
      BY DEF Extends
    <3>3. up'[q][j] = up[q][j]
      BY <3>2 DEF Extends
    <3>4. UpFollows(p, q, k)
      BY DEF Follows
    <3>5. \/ up[q][j].body["zone"] \in {Undefined, up[q][k].body["zone"]}
          \/ Between(up[q], j, k, ZonedUp(q))
      BY <3>1, <3>3, <3>4 DEF UpFollows
    <3> QED
      BY <2>1, <3>2, <3>3, <3>5, BetweenKept
  <2> QED
    BY <2>2, <2>3
<1> QED
  BY <1>2, <1>3 DEF Follows

\* p handles a message.
LEMMA FollowsRead ==
    ASSUME NEW p, NEW q, NEW m, Follows(p, q), up'[q] = up[q], Taken(down[p], down'[p], m),
           \/ KnownZone(p, q)' = Undefined
           \/ KnownZone(p, q)' = ZoneAt(p, q, 1)
           \/ KnownZone(p, q)' = ZoneAt(p, q, 0) /\ m \notin Zoned(q)
    PROVE  Follows(p, q)'
<1> DEFINE s == down[p]
           t == down'[p]
<1>0. \A k \in 1..Len(t) : k \in Nat /\ k + 1 \in 1..Len(s) /\ t[k] = s[k + 1]
  BY DEF Taken
<1>1. /\ Len(s) \in Nat \ {0} /\ Len(t) = Len(s) - 1 /\ m = s[1]
      /\ \A k \in 1..Len(t) : k + 1 \in 1..Len(s) /\ t[k] = s[k + 1]
      /\ \A k \in Nat : After(t, k, Zoned(q)) <=> After(s, k + 1, Zoned(q))
  BY DEF Taken
<1>2. ASSUME NEW k \in 1..Len(t)
      PROVE  ZoneAt(p, q, k)' = ZoneAt(p, q, k + 1)
  <2>1. PICK i \in Nat : i = k + 1
    OBVIOUS
  <2>2. t[k] = s[k + 1]
    BY <1>0
  <2>3. k # 0 /\ i # 0
    BY <2>1
  <2>4. ZoneAt(p, q, k)' = ZoneAt(p, q, i)
    BY <2>1, <2>2, <2>3 DEF ZoneAt
  <2> QED
    BY <2>1, <2>4
<1>3. ZoneAt(p, q, 0)' = KnownZone(p, q)'
  BY DEF ZoneAt
<1>4. ASSUME NEW k \in 1..Len(t)
      PROVE  DownFollows(p, q, k)'
  <2>1. DownFollows(p, q, k + 1) /\ t[k] = s[k + 1] /\ k \in Nat
    BY <1>0 DEF Follows
  <2>2. SUFFICES ASSUME t[k] \in Replying(q), NEW j \in 0..k - 1
                 PROVE  \/ ZoneAt(p, q, j)' \in {Undefined, t[k].body["zone"]}
                        \/ Between(t, j, k, Zoned(q))
    BY DEF DownFollows
  <2>3. \A i \in 0..k : \/ ZoneAt(p, q, i) \in {Undefined, t[k].body["zone"]}
                        \/ Between(s, i, k + 1, Zoned(q))
    BY <2>1, <2>2 DEF DownFollows
  <2>4. \/ ZoneAt(p, q, j + 1) \in {Undefined, t[k].body["zone"]}
        \/ Between(t, j, k, Zoned(q))
    <3>1. j + 1 \in 0..k /\ j \in Nat
      OBVIOUS
    <3> QED
      BY <2>1, <2>3, <3>1, BetweenTaken
  <2>5. CASE j # 0
    <3>1. j \in 1..Len(t)
      BY <1>1, <2>5
    <3> QED
      BY <1>2, <2>4, <3>1
  <2>6. CASE j = 0 /\ KnownZone(p, q)' = ZoneAt(p, q, 0) /\ m \notin Zoned(q)
    <3>1. 0 \in 0..k
      OBVIOUS
    <3> QED
      BY <1>3, <2>1, <2>3, <2>6, <3>1, BetweenFirst
  <2>7. CASE j = 0 /\ KnownZone(p, q)' \in {Undefined, ZoneAt(p, q, 1)}
    BY <1>3, <2>4, <2>7
  <2> QED
    BY <2>5, <2>6, <2>7
<1>5. ASSUME NEW k \in 1..Len(up[q])
      PROVE  UpFollowsDown(p, q, k)'
  <2>1. UpFollowsDown(p, q, k)
    BY DEF Follows
  <2>2. SUFFICES ASSUME up[q][k] \in Replying(p), NEW j \in 0..Len(t)
                 PROVE  \/ ZoneAt(p, q, j)' \in {Undefined, up[q][k].body["zone"]}
                        \/ After(t, j, Zoned(q)) \/ Between(up[q], 0, k, ZonedUp(q))
    BY DEF UpFollowsDown
  <2>3. \A i \in 0..Len(s) :
          \/ ZoneAt(p, q, i) \in {Undefined, up[q][k].body["zone"]}
          \/ After(s, i, Zoned(q)) \/ Between(up[q], 0, k, ZonedUp(q))
    BY <2>1, <2>2 DEF UpFollowsDown
  <2>4. \/ ZoneAt(p, q, j + 1) \in {Undefined, up[q][k].body["zone"]}
        \/ After(t, j, Zoned(q)) \/ Between(up[q], 0, k, ZonedUp(q))
    <3>1. j + 1 \in 0..Len(s) /\ j \in Nat
      BY <1>1
    <3> QED
      BY <1>1, <2>3, <3>1
  <2>5. CASE j # 0
    <3>1. j \in 1..Len(t)
      BY <1>1, <2>5
    <3> QED
      BY <1>2, <2>4, <3>1
  <2>6. CASE j = 0 /\ KnownZone(p, q)' = ZoneAt(p, q, 0) /\ m \notin Zoned(q)
    <3>1. 0 \in 0..Len(s)
      BY <1>1
    <3>2. After(s, 0, Zoned(q)) => After(t, 0, Zoned(q))
      BY <2>6 DEF Taken, Has
    <3> QED
      BY <1>3, <2>3, <2>6, <3>1, <3>2
  <2>7. CASE j = 0 /\ KnownZone(p, q)' \in {Undefined, ZoneAt(p, q, 1)}
    BY <1>3, <2>4, <2>7
  <2> QED
    BY <2>5, <2>6, <2>7
<1>6. \A k : UpFollows(p, q, k) => UpFollows(p, q, k)'
  BY DEF UpFollows
<1> QED
  BY <1>4, <1>5, <1>6 DEF Follows

\* A message has come to p, or none.
Gains(p, q, n) ==
    /\ Extends(down[p], down'[p]) /\ store'[p][q] = store[p][q]
    /\ \A k \in 1..Len(down'[p]) :
          \/ k \in 1..Len(down[p])
          \/ k = Len(down[p]) + 1 /\ down'[p][k] = n

LEMMA GainsFacts ==
    ASSUME NEW p, NEW q, NEW n, Gains(p, q, n), \A k \in 1..Len(down[p]) : DownFollows(p, q, k)
    PROVE  /\ \A j \in 0..Len(down[p]) : ZoneAt(p, q, j)' = ZoneAt(p, q, j)
           /\ \A j \in Nat : After(down[p], j, Zoned(q)) => After(down'[p], j, Zoned(q))
           /\ \A k \in 1..Len(down[p]) : DownFollows(p, q, k)'
<1>1. /\ Len(down[p]) \in Nat
      /\ \A k \in 1..Len(down[p]) : k \in 1..Len(down'[p]) /\ down'[p][k] = down[p][k]
  BY DEF Gains, Extends
<1>2. ASSUME NEW j \in 0..Len(down[p])
      PROVE  ZoneAt(p, q, j)' = ZoneAt(p, q, j)
  <2>1. CASE j = 0
    BY <2>1 DEF ZoneAt, KnownZone, Knows, Gains
  <2>2. CASE j # 0
    <3>1. j \in 1..Len(down[p])
      BY <1>1, <2>2
    <3>2. down'[p][j] = down[p][j]
      BY <1>1, <3>1
    <3> QED
      BY <2>2, <3>2 DEF ZoneAt
  <2> QED
    BY <2>1, <2>2
<1>3. \A j \in Nat : After(down[p], j, Zoned(q)) => After(down'[p], j, Zoned(q))
  BY <1>1 DEF After
<1>4. ASSUME NEW k \in 1..Len(down[p])
      PROVE  DownFollows(p, q, k)'
  <2>1. SUFFICES ASSUME down[p][k] \in Replying(q), NEW j \in 0..k - 1
                 PROVE  \/ ZoneAt(p, q, j)' \in {Undefined, down[p][k].body["zone"]}
                        \/ Between(down'[p], j, k, Zoned(q))
    BY <1>1 DEF DownFollows
  <2>2. DownFollows(p, q, k) /\ j \in 0..Len(down[p]) /\ j \in Nat /\ k \in Nat
    BY <1>1
  <2>3. ZoneAt(p, q, j) \in {Undefined, down[p][k].body["zone"]}
          \/ Between(down[p], j, k, Zoned(q))
    BY <2>1, <2>2 DEF DownFollows
  <2>4. Between(down[p], j, k, Zoned(q)) => Between(down'[p], j, k, Zoned(q))
    BY <2>2, BetweenKept DEF Gains
  <2> QED
    BY <1>2, <2>2, <2>3, <2>4
<1> QED
  BY <1>2, <1>3, <1>4

\* The peerManager takes a message of another peer.
LEMMA FollowsReached ==
    ASSUME NEW p, NEW q, NEW n, Follows(p, q), Gains(p, q, n), up'[q] = up[q], n \notin Of(q)
    PROVE  Follows(p, q)'
<1>1. /\ \A j \in 0..Len(down[p]) : ZoneAt(p, q, j)' = ZoneAt(p, q, j)
      /\ \A j \in Nat : After(down[p], j, Zoned(q)) => After(down'[p], j, Zoned(q))
      /\ \A k \in 1..Len(down[p]) : DownFollows(p, q, k)'
  BY GainsFacts DEF Follows
<1>2. /\ Len(down[p]) \in Nat /\ Len(down'[p]) \in Nat
      /\ \A k \in 1..Len(down'[p]) : k \in 1..Len(down[p]) \/ down'[p][k] = n
  BY DEF Gains, Extends
<1>3. ASSUME NEW k \in 1..Len(down'[p])
      PROVE  DownFollows(p, q, k)'
  <2>1. CASE down'[p][k] = n
    BY <2>1 DEF DownFollows, Of
  <2> QED
    BY <1>1, <1>2, <2>1
<1>4. ASSUME NEW k \in 1..Len(up[q])
      PROVE  UpFollowsDown(p, q, k)'
  <2>1. SUFFICES ASSUME up[q][k] \in Replying(p), NEW j \in 0..Len(down'[p])
                 PROVE  \/ ZoneAt(p, q, j)' \in {Undefined, up[q][k].body["zone"]}
                        \/ After(down'[p], j, Zoned(q)) \/ Between(up[q], 0, k, ZonedUp(q))
    BY DEF UpFollowsDown
  <2>2. CASE j \in 0..Len(down[p])
    <3>1. UpFollowsDown(p, q, k) /\ j \in Nat
      BY DEF Follows
    <3> QED
      BY <1>1, <2>1, <2>2, <3>1 DEF UpFollowsDown
  <2>3. CASE j \notin 0..Len(down[p])
    <3>1. j # 0 /\ down'[p][j] = n
      BY <1>2, <2>3
    <3> QED
      BY <3>1 DEF ZoneAt
  <2> QED
    BY <2>2, <2>3
<1>5. \A k : UpFollows(p, q, k) => UpFollows(p, q, k)'
  BY DEF UpFollows
<1> QED
  BY <1>3, <1>4, <1>5 DEF Follows

\* The peerManager takes a message of q. A change of zone reaches p, if a reply to p
\* comes after it.
LEMMA FollowsTaken ==
    ASSUME NEW p, NEW q, NEW m, NEW n, Follows(p, q), Gains(p, q, n), Taken(up[q], up'[q], m),
           n \in Of(q) => n.body = m.body /\ m \in Telling,
           n \in Replying(q) /\ Len(down'[p]) # Len(down[p]) => m \in Replying(p),
           m \in ZonedUp(q) /\ Has(up'[q], Replying(p))
             => Len(down'[p]) # Len(down[p]) /\ n \in Zoned(q)
    PROVE  Follows(p, q)'
<1>1. /\ \A j \in 0..Len(down[p]) : ZoneAt(p, q, j)' = ZoneAt(p, q, j)
      /\ \A j \in Nat : After(down[p], j, Zoned(q)) => After(down'[p], j, Zoned(q))
      /\ \A k \in 1..Len(down[p]) : DownFollows(p, q, k)'
  BY GainsFacts DEF Follows
<1>2. /\ Len(down[p]) \in Nat /\ Len(down'[p]) \in Nat /\ Len(down[p]) <= Len(down'[p])
      /\ \A k \in 1..Len(down'[p]) :
            \/ k \in 1..Len(down[p])
            \/ k = Len(down[p]) + 1 /\ down'[p][k] = n
  BY DEF Gains, Extends
<1>3. /\ Len(up[q]) \in Nat \ {0} /\ Len(up'[q]) = Len(up[q]) - 1 /\ m = up[q][1]
      /\ \A k \in 1..Len(up'[q]) : k + 1 \in 1..Len(up[q]) /\ up'[q][k] = up[q][k + 1]
  BY DEF Taken
<1>4. ASSUME NEW k \in 1..Len(down'[p])
      PROVE  DownFollows(p, q, k)'
  <2>1. CASE k = Len(down[p]) + 1 /\ down'[p][k] = n
    <3>1. SUFFICES ASSUME n \in Replying(q), NEW j \in 0..k - 1
                   PROVE  \/ ZoneAt(p, q, j)' \in {Undefined, n.body["zone"]}
                          \/ Between(down'[p], j, k, Zoned(q))
      BY <2>1 DEF DownFollows
    <3>2. m \in Replying(p) /\ n.body = m.body
      BY <1>2, <2>1, <3>1 DEF Of
    <3>3. UpFollowsDown(p, q, 1) /\ j \in 0..Len(down[p]) /\ j \in Nat
      BY <1>2, <1>3, <2>1 DEF Follows
    <3>4. ~ Between(up[q], 0, 1, ZonedUp(q))
      BY DEF Between
    <3>5. ZoneAt(p, q, j) \in {Undefined, n.body["zone"]} \/ After(down[p], j, Zoned(q))
      BY <1>3, <3>2, <3>3, <3>4 DEF UpFollowsDown
    <3>6. After(down[p], j, Zoned(q)) => Between(down'[p], j, k, Zoned(q))
      BY <2>1, <3>3, AfterBetween DEF Gains
    <3> QED
      BY <1>1, <3>3, <3>5, <3>6
  <2> QED
    BY <1>1, <1>2, <2>1
<1>5. ASSUME NEW k \in 1..Len(up'[q])
      PROVE  UpFollowsDown(p, q, k)'
  <2>1. SUFFICES ASSUME up'[q][k] \in Replying(p), NEW j \in 0..Len(down'[p])
                 PROVE  \/ ZoneAt(p, q, j)' \in {Undefined, up'[q][k].body["zone"]}
                        \/ After(down'[p], j, Zoned(q)) \/ Between(up'[q], 0, k, ZonedUp(q))
    BY DEF UpFollowsDown
  <2>2. PICK i \in Nat : i = k + 1 /\ i \in 1..Len(up[q]) /\ up'[q][k] = up[q][i]
    BY <1>3
  <2>3. k \in Nat /\ j \in Nat
    BY <1>2
  <2>4. CASE j \in 0..Len(down[p])
    <3>1. UpFollowsDown(p, q, i)
      BY <2>2 DEF Follows
    <3>2. \/ ZoneAt(p, q, j) \in {Undefined, up'[q][k].body["zone"]}
          \/ After(down[p], j, Zoned(q)) \/ Between(up[q], 0, i, ZonedUp(q))
      BY <2>1, <2>2, <2>4, <3>1 DEF UpFollowsDown
    <3>3. ASSUME m \in ZonedUp(q)
          PROVE  After(down'[p], j, Zoned(q))
      <4>1. Has(up'[q], Replying(p))
        BY <2>1 DEF Has, After
      <4>2. Len(down'[p]) # Len(down[p]) /\ n \in Zoned(q)
        BY <3>3, <4>1
      <4>3. PICK l \in 1..Len(down'[p]) : l = Len(down[p]) + 1
        BY <1>2, <4>2
      <4>4. down'[p][l] = n /\ l > j
        BY <1>2, <2>4, <4>3
      <4> QED
        BY <4>2, <4>4 DEF After
    <3>4. Between(up[q], 0, i, ZonedUp(q)) => m \in ZonedUp(q) \/ Between(up'[q], 0, k, ZonedUp(q))
      BY <2>2, <2>3, BetweenFirst
    <3> QED
      BY <1>1, <2>3, <2>4, <3>2, <3>3, <3>4
  <2>5. CASE j \notin 0..Len(down[p])
    <3>1. j # 0 /\ down'[p][j] = n
      BY <1>2, <2>5
    <3>2. CASE n \notin Of(q)
      BY <3>1, <3>2 DEF ZoneAt
    <3>3. CASE n \in Of(q)
      <4>1. ZoneAt(p, q, j)' = m.body["zone"] /\ m \in Telling
        BY <3>1, <3>3 DEF ZoneAt
      <4>2. UpFollows(p, q, i) /\ 1 \in 1..i - 1
        BY <2>2, <2>3 DEF Follows
      <4>3. m.body["zone"] \in {Undefined, up'[q][k].body["zone"]} \/ Between(up[q], 1, i, ZonedUp(q))
        BY <1>3, <2>1, <2>2, <4>1, <4>2 DEF UpFollows
      <4>4. Between(up[q], 0 + 1, k + 1, ZonedUp(q)) => Between(up'[q], 0, k, ZonedUp(q))
        BY <2>3, BetweenTaken
      <4> QED
        BY <2>2, <4>1, <4>3, <4>4
    <3> QED
      BY <3>2, <3>3
  <2> QED
    BY <2>4, <2>5
<1>6. ASSUME NEW k \in 1..Len(up'[q])
      PROVE  UpFollows(p, q, k)'
  <2>1. SUFFICES ASSUME up'[q][k] \in Replying(p), NEW j \in 1..k - 1, up'[q][j] \in Telling
                 PROVE  \/ up'[q][j].body["zone"] \in {Undefined, up'[q][k].body["zone"]}
                        \/ Between(up'[q], j, k, ZonedUp(q))
    BY DEF UpFollows
  <2>2. PICK i \in Nat : i = k + 1 /\ i \in 1..Len(up[q]) /\ up'[q][k] = up[q][i]
    BY <1>3
  <2>3. j \in 1..Len(up'[q]) /\ j \in Nat /\ k \in Nat
    BY <1>3
  <2>4. PICK h \in Nat : h = j + 1 /\ up'[q][j] = up[q][h]
    BY <1>3, <2>3
  <2>5. UpFollows(p, q, i) /\ h \in 1..i - 1
    BY <2>2, <2>3, <2>4 DEF Follows
  <2>6. \/ up'[q][j].body["zone"] \in {Undefined, up'[q][k].body["zone"]}
        \/ Between(up[q], h, i, ZonedUp(q))
    BY <2>1, <2>2, <2>4, <2>5 DEF UpFollows
  <2>7. Between(up[q], j + 1, k + 1, ZonedUp(q)) => Between(up'[q], j, k, ZonedUp(q))
    BY <2>3, BetweenTaken
  <2> QED
    BY <2>2, <2>4, <2>6, <2>7
<1> QED
  BY <1>4, <1>5, <1>6 DEF Follows

\* A new reply gives the zone that whatever was told before leads to.
LEMMA ReplyFollows ==
    ASSUME Typed, LatestInv, NEW p \in Here, NEW q \in Here, p # q, Still(p, q),
           NEW n, Sends(q, n), n.body = self[q], NEW k, k = Len(up[q]) + 1
    PROVE  UpFollowsDown(p, q, k)' /\ UpFollows(p, q, k)'
<1> DEFINE z == self[q]["zone"]
<1>1. p \in Peers /\ q \in Peers /\ "zone" \in Fields
  BY DEF Here, Settlers, Fields
<1>2. /\ Len(up[q]) \in Nat /\ up'[q] = Append(up[q], n) /\ up[q] \in Seq(Message)
      /\ n \in Message
  BY <1>1, SendsFacts, LenProperties DEF Typed, Sends
<1>3. up'[q][k] = n /\ Extends(up[q], up'[q]) /\ \A j \in 1..Len(up[q]) : up'[q][j] = up[q][j]
  BY <1>2, AppendFacts, AppendExtends
<1>4. \A j \in Nat : ComesUp(q, "zone", j) => Between(up'[q], j, k, ZonedUp(q))
  BY <1>3, AfterBetween DEF ComesUp, ZonedUp
<1>5. \A j \in Nat : ComesDown(p, q, "zone", j) <=> After(down[p], j, Zoned(q))
  BY DEF ComesDown, Zoned, Of
<1>6. UpFollowsDown(p, q, k)'
  <2>1. \A j : ZoneAt(p, q, j)' = ZoneAt(p, q, j)
    BY StillZoneAt
  <2>2. SUFFICES ASSUME NEW j \in 0..Len(down[p])
                 PROVE  \/ ZoneAt(p, q, j) \in {Undefined, z}
                        \/ After(down[p], j, Zoned(q)) \/ Between(up'[q], 0, k, ZonedUp(q))
    BY <1>3, <2>1 DEF UpFollowsDown, Still
  <2>3. CASE j = 0
    <3>1. LatestKnown("zone", p, q)
      BY <1>1 DEF LatestInv
    <3> QED
      BY <1>4, <1>5, <2>3, <3>1 DEF ZoneAt, KnownZone, LatestKnown
  <2>4. CASE j # 0
    <3>1. j \in 1..Len(down[p]) /\ j \in Nat
      BY <1>1, <2>4, LenProperties DEF Typed
    <3>2. LatestDown("zone", p, q, j)
      BY <1>1, <3>1 DEF LatestInv
    <3> QED
      BY <1>4, <1>5, <2>4, <3>1, <3>2 DEF ZoneAt, LatestDown, Of
  <2> QED
    BY <2>3, <2>4
<1>7. UpFollows(p, q, k)'
  <2>1. SUFFICES ASSUME NEW j \in 1..k - 1, up'[q][j] \in Telling
                 PROVE  \/ up'[q][j].body["zone"] \in {Undefined, z}
                        \/ Between(up'[q], j, k, ZonedUp(q))
    BY <1>3 DEF UpFollows
  <2>2. j \in 1..Len(up[q]) /\ j \in Nat
    BY <1>2
  <2>3. LatestUp("zone", q, j)
    BY <1>1, <2>2 DEF LatestInv
  <2> QED
    BY <1>3, <1>4, <2>1, <2>2, <2>3 DEF LatestUp
<1> QED
  BY <1>6, <1>7

\* What a reader knows afterwards of a zone.
LEMMA ReadsZone ==
    ASSUME Typed, NEW p \in Peers, NEW m \in Message, Reads(p, m), NEW r \in Peers, NEW q \in Peers
    PROVE  /\ r # p => store'[r][q] = store[r][q]
           /\ \/ KnownZone(p, q)' = Undefined
              \/ m \in Of(q) /\ KnownZone(p, q)' = m.body["zone"]
              \/ KnownZone(p, q)' = KnownZone(p, q) /\ m \notin Zoned(q)
<1>1. CASE m.type = "joined" /\ UNCHANGED store
  BY <1>1 DEF Zoned, Giving, Telling, KnownZone, Knows
<1>2. CASE m.type = "peerDisconnect" /\ m.peer \in Peers /\ PeerDisconnectHandler(p, m.peer)
  <2>1. Puts(p, m.peer, NoPeer)
    BY <1>2 DEF PeerDisconnectHandler, Puts
  <2>2. /\ store'[p][m.peer] = NoPeer
        /\ \A t, o \in Peers : t # p \/ o # m.peer => store'[t][o] = store[t][o]
    BY <1>2, <2>1, StoreChanges
  <2>3. m \notin Zoned(q)
    BY <1>2 DEF Zoned, Giving, Telling
  <2>4. q = m.peer \/ store'[p][q] = store[p][q]
    BY <2>2
  <2> QED
    BY <2>2, <2>3, <2>4 DEF KnownZone, Knows
<1>3. CASE Learns(p, m)
  <2>1. /\ m.peer \in Peers /\ m.body \in Indicators /\ m \in Telling
        /\ m \in Of(m.peer)
        /\ m.body = Nothing => store' = store
        /\ m.body # Nothing => /\ Knows(p, m.peer)'
                              /\ store'[p][m.peer] = Merge(store[p][m.peer], m.body)
        /\ \A t, o \in Peers : t # p \/ o # m.peer => store'[t][o] = store[t][o]
    BY <1>3, LearnsFacts DEF Learns, Of
  <2>2. m \in Of(q) => q = m.peer
    BY DEF Of, Indicating, Replying
  <2>5. CASE m.body = Nothing
    <3>1. store' = store /\ m.body["zone"] = Undefined
      BY <2>1, <2>5 DEF Nothing
    <3>2. m \notin Zoned(q)
      BY <3>1 DEF Zoned, Giving
    <3> QED
      BY <3>1, <3>2 DEF KnownZone, Knows
  <2>3. CASE q # m.peer
    <3>1. store'[p][q] = store[p][q]
      BY <2>1, <2>3
    <3> QED
      BY <2>1, <2>2, <2>3, <3>1 DEF Zoned, KnownZone, Knows
  <2>4. CASE q = m.peer /\ m.body # Nothing
    <3>0. "zone" \in Fields
      BY DEF Fields
    <3>1. KnownZone(p, q)' = IF m.body["zone"] # Undefined THEN m.body["zone"] ELSE KnownZone(p, q)
      BY <2>1, <2>4, <3>0, MergeFields DEF KnownZone, Knows
    <3>2. m \in Zoned(q) => m.body["zone"] # Undefined
      BY DEF Zoned, Giving
    <3>3. \A t : t # p /\ t \in Peers => store'[t][q] = store[t][q]
      BY <2>1
    <3> QED
      BY <2>1, <2>4, <3>1, <3>2, <3>3
  <2> QED
    BY <2>3, <2>4, <2>5
<1> QED
  BY <1>1, <1>2, <1>3 DEF Reads

LEMMA ZoneOwn ==
    ASSUME Typed, Shape, ZoneInv, NEW p \in Peers, NEW m \in Message,
           Speaks(p, m) \/ Leaves(p, m) \/ Closes(p, m),
           Settlers' \subseteq Settlers, Here' \subseteq Here
    PROVE  ZoneInv'
<1> SUFFICES ASSUME NEW r \in Here', NEW q \in Settlers', r # q
             PROVE  Follows(r, q)'
  BY DEF ZoneInv
<1>1. r \in Here /\ q \in Settlers /\ r \in Peers /\ q \in Peers /\ Follows(r, q)
  BY DEF ZoneInv, Here, Settlers
<1>2. Still(r, q)
  BY <1>1, OwnStepViews DEF Still
<1>3. Sends(p, m) /\ m.type # "reply"
  BY DEF Speaks, Leaves, Closes, Indicating
<1>4. Extends(up[q], up'[q])
  BY <1>1, <1>3, SendsFacts, AppendExtends DEF Typed, Sends
<1>5. ASSUME NEW k \in 1..Len(up'[q]), k \notin 1..Len(up[q])
      PROVE  UpFollowsDown(r, q, k)' /\ UpFollows(r, q, k)'
  <2>1. up'[q][k] = m
    BY <1>1, <1>3, <1>5, SendsFacts DEF Typed
  <2> QED
    BY <1>3, <2>1 DEF UpFollowsDown, UpFollows, Replying
<1> QED
  BY <1>1, <1>2, <1>4, <1>5, FollowsSent

LEMMA ZoneReads ==
    ASSUME Typed, Shape, LatestInv, ZoneInv, NEW p \in Peers, NEW m \in Message, Reads(p, m),
           Settlers' \subseteq Settlers, Here' \subseteq Here
    PROVE  ZoneInv'
<1> SUFFICES ASSUME NEW r \in Here', NEW q \in Settlers', r # q
             PROVE  Follows(r, q)'
  BY DEF ZoneInv
<1>1. r \in Here /\ q \in Settlers /\ r \in Peers /\ q \in Peers /\ Follows(r, q)
  BY DEF ZoneInv, Here, Settlers
<1>2. Gets(p, m) /\ place[p] # "closed"
  BY DEF Reads, Gets
<1>3. \A t \in Peers \ {p} : up'[t] = up[t] /\ down'[t] = down[t]
  <2>1. \A t \in Peers \ {p} : down'[t] = down[t]
    BY <1>2, GetsFacts DEF Typed
  <2>2. ASSUME NEW n, Sends(p, n)
        PROVE  \A t \in Peers \ {p} : up'[t] = up[t]
    BY <2>2, SendsFacts DEF Typed
  <2> QED
    BY <2>1, <2>2, ReadsSends
<1>4. CASE r = p
  <2>1. Taken(down[p], down'[p], m)
    BY <1>2, TakeFacts DEF Gets, Typed
  <2>2. m = down[p][1]
    BY <2>1 DEF Taken
  <2>3. \/ KnownZone(p, q)' = Undefined
        \/ m \in Of(q) /\ KnownZone(p, q)' = m.body["zone"]
        \/ KnownZone(p, q)' = KnownZone(p, q) /\ m \notin Zoned(q)
    BY <1>1, ReadsZone
  <2>4. \/ KnownZone(p, q)' = Undefined
        \/ KnownZone(p, q)' = ZoneAt(p, q, 1)
        \/ KnownZone(p, q)' = ZoneAt(p, q, 0) /\ m \notin Zoned(q)
    BY <2>2, <2>3 DEF ZoneAt
  <2> QED
    BY <1>1, <1>3, <1>4, <2>1, <2>4, FollowsRead
<1>5. CASE r # p
  <2>1. Still(r, q)
    BY <1>1, <1>3, <1>5, ReadsZone DEF Still
  <2>2. CASE up' = up
    <3>1. up[q] \in Seq(Message)
      BY <1>1 DEF Typed
    <3>2. Extends(up[q], up'[q])
      BY <2>2, <3>1, AppendExtends
    <3> QED
      BY <1>1, <2>1, <2>2, <3>2, FollowsSent
  <2>3. ASSUME NEW n, Sends(p, n), n.body = self[p]
        PROVE  Follows(r, q)'
    <3>1. Extends(up[q], up'[q])
      <4>1. up[q] \in Seq(Message) /\ n \in Message
        BY <1>1, <2>3 DEF Typed, Sends
      <4>2. up'[q] = up[q] \/ up'[q] = Append(up[q], n)
        BY <1>1, <2>3, SendsFacts DEF Typed
      <4> QED
        BY <4>1, <4>2, AppendExtends
    <3>2. ASSUME NEW k \in 1..Len(up'[q]), k \notin 1..Len(up[q])
          PROVE  UpFollowsDown(r, q, k)' /\ UpFollows(r, q, k)'
      <4>1. q = p /\ k = Len(up[q]) + 1
        BY <1>1, <2>3, <3>2, SendsFacts DEF Typed
      <4>2. q \in Here
        BY <1>1, <1>2, <4>1 DEF Here
      <4> QED
        BY <1>1, <2>1, <2>3, <4>1, <4>2, ReplyFollows
    <3> QED
      BY <1>1, <2>1, <3>1, <3>2, FollowsSent
  <2> QED
    BY <2>2, <2>3, ReadsSends
<1> QED
  BY <1>4, <1>5

LEMMA ZoneHandles ==
    ASSUME Typed, Shape, RoomInv, ZoneInv,
           NEW p \in Peers, NEW m \in Message, NEW n \in Message,
           Takes(p, m), Handles(p, m, n), Settlers' \subseteq Settlers, Here' \subseteq Here
    PROVE  ZoneInv'
<1> SUFFICES ASSUME NEW r \in Here', NEW q \in Settlers', r # q
             PROVE  Follows(r, q)'
  BY DEF ZoneInv
<1>1. r \in Here /\ q \in Settlers /\ r \in Peers /\ q \in Peers /\ Follows(r, q) /\ r \in Settlers
  BY DEF ZoneInv, Here, Settlers
<1>2. PICK ps : Passes(p, m, n, ps)
  BY HandlesPasses
<1>3. Reaches(ps, n) /\ place[r] # "closed" /\ store' = store
  BY <1>1, <1>2 DEF Passes, Here, Takes
<1>4. /\ r \in ps => down'[r] = Append(down[r], n)
      /\ r \notin ps => down'[r] = down[r]
      /\ down[r] \in Seq(Message)
  BY <1>1, <1>3 DEF Reaches, Typed
<1>5. /\ r \in ps => Len(down'[r]) = Len(down[r]) + 1
      /\ Len(down[r]) \in Nat
  BY <1>4, AppendFacts
<1>6. Gains(r, q, n)
  <2>1. Extends(down[r], down'[r])
    BY <1>4, AppendExtends
  <2>2. ASSUME NEW k \in 1..Len(down'[r])
        PROVE  \/ k \in 1..Len(down[r])
               \/ k = Len(down[r]) + 1 /\ down'[r][k] = n
    <3>1. CASE r \in ps
      <4>1. k \in 1..Len(down[r]) + 1 /\ down'[r][Len(down[r]) + 1] = n
        BY <1>4, <1>5, <3>1, AppendFacts
      <4> QED
        BY <1>5, <4>1
    <3> QED
      BY <1>4, <3>1
  <2> QED
    BY <1>3, <2>1, <2>2 DEF Gains
<1>7. n \in Of(q) => q = p /\ n.body = m.body /\ m \in Telling
  BY <1>2 DEF Passes, Of, Indicating, Replying, Leaving, Telling
<1>8. CASE q # p
  <2>1. up'[q] = up[q]
    BY <1>1, <1>8, TakesFacts DEF Typed
  <2> QED
    BY <1>1, <1>6, <1>7, <1>8, <2>1, FollowsReached
<1>9. CASE q = p
  <2>1. up[p] \in Seq(Message) /\ up[p] # <<>> /\ up'[p] = Tail(up[p]) /\ m = Head(up[p])
    BY DEF Takes, Typed
  <2>2. Taken(up[q], up'[q], m)
    BY <1>9, <2>1, TakeFacts
  <2>3. n \in Replying(q) /\ Len(down'[r]) # Len(down[r]) => m \in Replying(r)
    BY <1>2, <1>4 DEF Passes, Replying, Indicating, Leaving
  <2>4. ASSUME m \in ZonedUp(q), Has(up'[q], Replying(r))
        PROVE  Len(down'[r]) # Len(down[r]) /\ n \in Zoned(q)
    <3>1. r \in present
      <4>1. Has(up[q], Replying(r))
        BY <2>2, <2>4 DEF Taken
      <4> QED
        BY <1>1, <4>1 DEF RoomInv
    <3>2. q \in present
      <4>1. Has(up[q], Telling)
        BY <2>2, <2>4 DEF Taken, ZonedUp, Giving
      <4> QED
        BY <1>1, <4>1 DEF RoomInv
    <3>3. r \in ps /\ n = m
      BY <1>1, <1>2, <1>9, <2>4, <3>1, <3>2 DEF Passes, ZonedUp, Indicating, Replying
    <3> QED
      BY <1>5, <2>4, <3>3 DEF Zoned, ZonedUp, Of
  <2> QED
    BY <1>1, <1>6, <1>7, <2>2, <2>3, <2>4, FollowsTaken
<1> QED
  BY <1>8, <1>9

LEMMA ZoneStep ==
    ASSUME Typed, Shape, RoomInv, LatestInv, ZoneInv, [Next]_vars
    PROVE  ZoneInv'
<1>1. Settlers' \subseteq Settlers /\ Here' \subseteq Here
  BY HereShrinks
<1>2. CASE UNCHANGED vars \/ CreateCounter \/ \E p, o \in Peers : AudioAnnouncement(p, o)
  <2>1. UNCHANGED <<up, down, store>>
    BY <1>2 DEF vars, CreateCounter, AudioAnnouncement
  <2>2. ASSUME NEW p \in Here, NEW q \in Settlers, Follows(p, q)
        PROVE  Follows(p, q)'
    <3>1. up[q] \in Seq(Message)
      BY DEF Typed, Settlers
    <3>2. Still(p, q) /\ Extends(up[q], up'[q])
      BY <2>1, <3>1, AppendExtends DEF Still
    <3> QED
      BY <2>1, <2>2, <3>2, FollowsSent
  <2> QED
    BY <1>1, <2>2 DEF ZoneInv
<1> QED
  BY <1>1, <1>2, EveryStep, ZoneOwn, ZoneReads, ZoneHandles

-----------------------------------------------------------------------------
(* Whom a client does not hear.                                            *)

\* Nobody is told of itself, or shows itself.
NoSelf ==
    \A p \in Peers :
        ~ Shown(p, p) /\ ~ Has(down[p], Of(p)) /\ ~ Has(up[p], Replying(p))

LEMMA NoSelfStep ==
    ASSUME Typed, Shape, NoSelf, [Next]_vars
    PROVE  NoSelf'
<1> SUFFICES ASSUME NEW r \in Peers
             PROVE  ~ Shown(r, r)' /\ ~ Has(down'[r], Of(r)) /\ ~ Has(up'[r], Replying(r))
  BY DEF NoSelf
<1>0. ~ Shown(r, r) /\ ~ Has(down[r], Of(r)) /\ ~ Has(up[r], Replying(r))
  BY DEF NoSelf
<1>1. ASSUME NEW p \in Peers, NEW m \in Message,
             Speaks(p, m) \/ Leaves(p, m) \/ Closes(p, m)
      PROVE  ~ Shown(r, r)' /\ ~ Has(down'[r], Of(r)) /\ ~ Has(up'[r], Replying(r))
  <2>1. Sends(p, m) /\ m \notin Replying(r)
    BY <1>1 DEF Speaks, Leaves, Closes, Indicating, Replying
  <2>2. ~ Has(up'[r], Replying(r))
    BY <1>0, <2>1, SendsFacts DEF Typed
  <2>3. down'[r] = down[r] \/ down'[r] = <<>>
    <3>1. CASE Closes(p, m)
      BY <3>1 DEF Closes, CloseTab, Typed
    <3> QED
      BY <1>1, <3>1 DEF Speaks, Leaves, LeaveFrame
  <2>4. peersMap'[r] = peersMap[r] \/ peersMap'[r] = {}
    <3>1. CASE Leaves(p, m)
      BY <3>1 DEF Leaves, LeaveFrame, Typed
    <3> QED
      BY <1>1, <3>1 DEF Speaks, Closes, CloseTab
  <2> QED
    BY <1>0, <2>2, <2>3, <2>4, HasNone DEF Shown
<1>2. ASSUME NEW p \in Peers, NEW m \in Message, Reads(p, m)
      PROVE  ~ Shown(r, r)' /\ ~ Has(down'[r], Of(r)) /\ ~ Has(up'[r], Replying(r))
  <2>1. Gets(p, m)
    BY <1>2 DEF Reads
  <2>2. /\ \A q \in Peers \ {p} : down'[q] = down[q]
        /\ \A S : Has(down[p], S) <=> m \in S \/ Has(down'[p], S)
    BY <2>1, GetsFacts DEF Typed
  <2>3. m \notin Of(p)
    BY <2>2 DEF NoSelf
  <2>4. CASE m.type = "joined" /\ UNCHANGED <<peersMap, up>>
    BY <1>0, <2>2, <2>4 DEF Shown
  <2>5. CASE m.type = "peerDisconnect" /\ m.peer \in Peers /\ PeerDisconnectHandler(p, m.peer)
    <3>1. up' = up
      BY <2>5 DEF PeerDisconnectHandler
    <3>2. peersMap'[r] \subseteq peersMap[r]
      BY <2>5 DEF PeerDisconnectHandler, Typed
    <3> QED
      BY <1>0, <2>2, <3>1, <3>2 DEF Shown
  <2>6. CASE Learns(p, m)
    <3>1. m.peer \in Peers /\ m \in Of(m.peer)
      BY <2>6, LearnsFacts DEF Of
    <3>2. m.peer # p
      BY <2>3, <3>1
    <3>3. peersMap'[r] = peersMap[r] \/ (r = p /\ peersMap'[r] = peersMap[r] \cup {m.peer})
      BY <2>6, LearnsShows
    <3>4. ~ Has(up'[r], Replying(r))
      <4>1. CASE up' = up
        BY <1>0, <4>1
      <4>2. ASSUME NEW n, n = Tell("reply", m.peer, self[p]), Sends(p, n)
            PROVE  ~ Has(up'[r], Replying(r))
        <5>1. n.peer = m.peer
          BY <4>2 DEF Tell
        <5>2. r = p => n \notin Replying(r)
          BY <3>2, <5>1 DEF Replying
        <5> QED
          BY <1>0, <4>2, <5>2, SendsFacts DEF Typed
      <4> QED
        BY <2>6, <4>1, <4>2 DEF Learns
    <3> QED
      BY <1>0, <2>2, <3>2, <3>3, <3>4 DEF Shown
  <2> QED
    BY <1>2, <2>4, <2>5, <2>6 DEF Reads
<1>3. ASSUME NEW p \in Peers, NEW m \in Message, NEW n \in Message, Takes(p, m), Handles(p, m, n)
      PROVE  ~ Shown(r, r)' /\ ~ Has(down'[r], Of(r)) /\ ~ Has(up'[r], Replying(r))
  <2>1. /\ \A q \in Peers \ {p} : up'[q] = up[q]
        /\ \A S : Has(up[p], S) <=> m \in S \/ Has(up'[p], S)
    BY <1>3, TakesFacts DEF Typed
  <2>2. m \notin Replying(p)
    BY <2>1 DEF NoSelf
  <2>3. PICK ps : Passes(p, m, n, ps)
    BY <1>3, HandlesPasses
  <2>4. \A S : Has(down'[r], S) <=> Has(down[r], S) \/ (r \in ps /\ place[r] # "closed" /\ n \in S)
    <3>1. Reaches(ps, n)
      BY <2>3 DEF Passes
    <3> QED
      BY <3>1, ReachesFacts DEF Typed
  <2>5. ~ (r \in ps /\ n \in Of(r))
    BY <2>2, <2>3 DEF Passes, Of, Indicating, Replying, Leaving
  <2> QED
    BY <1>0, <1>3, <2>1, <2>4, <2>5 DEF Takes, Shown
<1>4. CASE UNCHANGED vars \/ CreateCounter \/ \E p, o \in Peers : AudioAnnouncement(p, o)
  BY <1>0, <1>4 DEF vars, CreateCounter, AudioAnnouncement, Shown
<1> QED
  BY <1>1, <1>2, <1>3, <1>4, EveryStep

\* A client that knows a peer in another zone wants it muted.
Hushed(p, q) ==
    Knows(p, q) /\ store[p][q]["zone"] \notin {Undefined, self[p]["zone"]}
    => hush[p][q] = "mute"

HushInv == \A p \in Settlers \ Walkers, q \in Settlers : Hushed(p, q)

\* What the verdict on a message makes of the wish to mute.
LEMMA LearnsHush ==
    ASSUME Typed, NEW p \in Peers, NEW m \in Message, Learns(p, m), NEW r \in Peers, NEW q \in Peers
    PROVE  /\ r # p \/ q # m.peer => hush'[r][q] = hush[r][q]
           /\ LET v == Verdict(p, m.peer, m.body)
              IN  hush'[p][m.peer] = IF v = Undefined THEN hush[p][m.peer]
                                     ELSE IF v THEN "mute" ELSE "unmute"
<1>1. PICK v : v = Verdict(p, m.peer, m.body)
  OBVIOUS
<1>2. m.peer \in Peers
  BY LearnsFacts
<1>3. CASE v = Undefined
  BY <1>1, <1>3 DEF Learns
<1>4. CASE v # Undefined
  <2>1. PICK h : h = (IF v THEN "mute" ELSE "unmute") /\ PutIn(hush, hush', p, m.peer, h)
    BY <1>1, <1>4 DEF Learns, Muted, PutIn
  <2>2. /\ hush'[p][m.peer] = h
        /\ r # p \/ q # m.peer => hush'[r][q] = hush[r][q]
    BY <1>2, <2>1, Tables, PutInFacts
  <2> QED
    BY <1>1, <1>4, <2>1, <2>2
<1> QED
  BY <1>3, <1>4

\* What p makes of a message of q, if a reply gives the zone that p knows.
LEMMA HushedLearns ==
    ASSUME Typed, Shape, NEW p \in Peers, NEW m \in Message, Gets(p, m), Learns(p, m),
           Hushed(p, m.peer),
           m.type = "reply" => KnownZone(p, m.peer) \in {Undefined, m.body["zone"]}
    PROVE  Hushed(p, m.peer)'
<1> DEFINE q == m.peer
           mine == self[p]["zone"]
           known == KnownZone(p, q)
           zone == m.body["zone"]
           muted == m.body["muted"]
           v == Verdict(p, q, m.body)
<1>1. /\ q \in Peers /\ m.body \in Indicators
      /\ m.body = Nothing => store' = store
      /\ m.body # Nothing => store'[p][q] = Merge(store[p][q], m.body)
  BY LearnsFacts
<1>2. Knows(p, q)' => store'[p][q]["zone"] = IF zone # Undefined THEN zone ELSE known
  <2>1. "zone" \in Fields
    BY DEF Fields
  <2>2. CASE m.body = Nothing
    BY <1>1, <2>2 DEF Nothing, KnownZone, Knows
  <2> QED
    BY <1>1, <2>1, <2>2, MergeFields DEF KnownZone, Knows
<1>3. hush'[p][q] = IF v = Undefined THEN hush[p][q] ELSE IF v THEN "mute" ELSE "unmute"
  BY <1>1, LearnsHush
<1>4. self' = self /\ mine # Undefined
  BY TabsAreIndicators DEF Gets, Shape, Fields
<1>5. v = IF muted # Undefined /\ known = mine THEN muted
          ELSE IF zone # Undefined THEN zone # mine ELSE Undefined
  BY DEF Verdict, KnownZone, Knows
<1>6. SUFFICES ASSUME Knows(p, q)', store'[p][q]["zone"] \notin {Undefined, mine}
               PROVE  hush'[p][q] = "mute"
  BY <1>4 DEF Hushed
<1>7. CASE zone = Undefined
  <2>1. known \notin {Undefined, mine}
    BY <1>2, <1>6, <1>7
  <2>2. v = Undefined
    BY <1>5, <1>7, <2>1
  <2>3. hush[p][q] = "mute"
    BY <2>1 DEF Hushed, KnownZone
  <2> QED
    BY <1>3, <2>2, <2>3
<1>8. CASE zone # Undefined
  <2>1. zone # mine
    BY <1>2, <1>6, <1>8
  <2>2. muted = Undefined \/ m.type = "reply"
    <3>1. m = down[p][1] /\ 1 \in 1..Len(down[p])
      BY GetsFacts DEF Typed
    <3>2. m.type = "peerIndicators" => OneField(m.body)
      BY <3>1 DEF Shape, DownOK
    <3> QED
      BY <1>8, <3>2, LearnsFacts DEF OneField
  <2>3. ~ (muted # Undefined /\ known = mine)
    BY <1>4, <2>1, <2>2
  <2>4. v = TRUE
    BY <1>5, <1>8, <2>1, <2>3
  <2>5. v # Undefined
    BY <2>4, UndefinedAssumption
  <2> QED
    BY <1>3, <2>4, <2>5
<1> QED
  BY <1>7, <1>8

LEMMA HushStep ==
    ASSUME Typed, Shape, ZoneInv, NoSelf, HushInv, [Next]_vars
    PROVE  HushInv'
<1> SUFFICES ASSUME NEW r \in Settlers' \ Walkers, NEW q \in Settlers'
             PROVE  Hushed(r, q)'
  BY DEF HushInv
<1>1. r \in Settlers /\ q \in Settlers /\ r \in Peers /\ q \in Peers /\ Hushed(r, q)
  BY HereShrinks DEF HushInv, Settlers
<1>2. ASSUME NEW p \in Peers, NEW m \in Message, Speaks(p, m)
      PROVE  Hushed(r, q)'
  <2>1. self'[r]["zone"] = self[r]["zone"]
    <3>1. CASE self' = [self EXCEPT ![p] = Merge(self[p], m.body)] /\ m \in Indicating(p)
      <4>1. CASE r = p
        <5>1. m.body["zone"] = Undefined \/ self' = self
          BY <1>2, <4>1 DEF Speaks
        <5>2. m.body \in Indicators /\ "zone" \in Fields
          BY <3>1, MessageParts DEF Indicating, Fields
        <5>3. self[p] # NoPeer /\ self'[p] = Merge(self[p], m.body)
          BY <3>1, UndefinedAssumption DEF Typed
        <5> QED
          BY <4>1, <5>1, <5>2, <5>3, MergeFields
      <4> QED
        BY <1>1, <3>1, <4>1 DEF Typed
    <3> QED
      BY <1>2, <3>1 DEF Speaks
  <2> QED
    BY <1>1, <1>2, <2>1 DEF Speaks, Hushed, Knows
<1>3. ASSUME NEW p \in Peers, NEW m \in Message, Leaves(p, m) \/ Closes(p, m)
      PROVE  Hushed(r, q)'
  <2>1. self' = self /\ hush' = hush
    BY <1>3 DEF Leaves, LeaveFrame, Closes, CloseTab
  <2>2. store'[r][q] = store[r][q] \/ store'[r][q] = NoPeer
    <3>1. CASE Leaves(p, m)
      BY <1>1, <3>1 DEF Leaves, LeaveFrame, Typed
    <3> QED
      BY <1>3, <3>1 DEF Closes, CloseTab
  <2> QED
    BY <1>1, <2>1, <2>2 DEF Hushed, Knows
<1>4. ASSUME NEW p \in Peers, NEW m \in Message, Reads(p, m)
      PROVE  Hushed(r, q)'
  <2>1. Gets(p, m) /\ self' = self
    BY <1>4 DEF Reads, Gets
  <2>2. CASE UNCHANGED <<store, hush>>
    BY <1>1, <2>1, <2>2 DEF Hushed, Knows
  <2>3. CASE m.peer \in Peers /\ PeerDisconnectHandler(p, m.peer)
    <3>1. Puts(p, m.peer, NoPeer) /\ hush' = hush
      BY <2>3 DEF PeerDisconnectHandler, Puts
    <3>2. store'[r][q] = store[r][q] \/ store'[r][q] = NoPeer
      BY <1>1, <2>3, <3>1, StoreChanges
    <3> QED
      BY <1>1, <2>1, <3>1, <3>2 DEF Hushed, Knows
  <2>4. CASE Learns(p, m)
    <3>1. CASE r # p \/ q # m.peer
      <4>1. store'[r][q] = store[r][q] /\ hush'[r][q] = hush[r][q]
        BY <1>1, <2>4, <3>1, LearnsFacts, LearnsHush
      <4> QED
        BY <1>1, <2>1, <4>1 DEF Hushed, Knows
    <3>2. CASE r = p /\ q = m.peer
      <4>1. m = down[p][1] /\ 1 \in 1..Len(down[p])
        BY <2>1, GetsFacts DEF Typed
      <4>2. m \in Of(q)
        BY <2>4, <3>2, LearnsFacts DEF Of
      <4>3. p # q
        <5>1. Has(down[p], Of(q))
          BY <2>1, <4>2, GetsFacts DEF Typed
        <5> QED
          BY <1>1, <5>1 DEF NoSelf
      <4>4. p \in Here
        BY <1>1, <2>1, <3>2 DEF Here, Gets
      <4>5. DownFollows(p, q, 1)
        BY <1>1, <4>1, <4>3, <4>4 DEF ZoneInv, Follows
      <4>6. m.type = "reply" => KnownZone(p, q) \in {Undefined, m.body["zone"]}
        <5>1. m.type = "reply" => m \in Replying(q)
          BY <3>2, <4>2 DEF Of, Replying, Indicating
        <5>2. 0 \in 0..(1 - 1) /\ ~ Between(down[p], 0, 1, Zoned(q))
          BY DEF Between
        <5> QED
          BY <4>1, <4>5, <5>1, <5>2 DEF DownFollows, ZoneAt
      <4> QED
        BY <1>1, <2>1, <2>4, <3>2, <4>6, HushedLearns
    <3> QED
      BY <3>1, <3>2
  <2> QED
    BY <1>4, <2>2, <2>3, <2>4 DEF Reads
<1>5. CASE UNCHANGED vars \/ CreateCounter \/ \E p, o \in Peers : AudioAnnouncement(p, o)
  BY <1>1, <1>5 DEF vars, CreateCounter, AudioAnnouncement, Hushed, Knows
<1>6. ASSUME NEW p \in Peers, NEW m \in Message, Takes(p, m)
      PROVE  Hushed(r, q)'
  BY <1>1, <1>6 DEF Takes, Hushed, Knows
<1> QED
  BY <1>2, <1>3, <1>4, <1>5, <1>6, EveryStep

-----------------------------------------------------------------------------
(* Who has closed its tab.                                                 *)

LEMMA GoneStep ==
    ASSUME Typed, Shape, GoneInv, [Next]_vars
    PROVE  GoneInv'
<1> SUFFICES ASSUME NEW q \in Peers, place'[q] = "closed"
             PROVE  \/ Has(up'[q], Closing)
                    \/ up'[q] = <<>> /\ (q \notin present' \/ q \in unsaid')
  BY DEF GoneInv
<1>1. ASSUME place[q] = "closed", up'[q] = up[q],
             q \in present' => q \in present, unsaid \subseteq unsaid'
      PROVE  \/ Has(up'[q], Closing)
             \/ up'[q] = <<>> /\ (q \notin present' \/ q \in unsaid')
  BY <1>1 DEF GoneInv
<1>2. ASSUME NEW p \in Peers, NEW m \in Message, Speaks(p, m) \/ Leaves(p, m)
      PROVE  place[q] = "closed" /\ up'[q] = up[q] /\ UNCHANGED <<present, unsaid>>
  <2>1. Sends(p, m) /\ UNCHANGED <<present, unsaid>>
    BY <1>2 DEF Speaks, Leaves, LeaveFrame
  <2>2. place[p] # "closed"
    BY <1>2 DEF Speaks, Leaves, LeaveFrame
  <2>3. place'[p] # "closed" /\ \A o \in Peers \ {p} : place'[o] = place[o]
    <3>1. CASE Speaks(p, m)
      BY <2>2, <3>1 DEF Speaks, Typed
    <3>2. CASE Leaves(p, m)
      BY <3>2 DEF Leaves, LeaveFrame, Typed
    <3> QED
      BY <1>2, <3>1, <3>2
  <2>4. q # p
    BY <2>3
  <2> QED
    BY <2>1, <2>3, <2>4 DEF Sends, Typed
<1>3. ASSUME NEW p \in Peers, NEW m \in Message, Closes(p, m)
      PROVE  \/ Has(up'[q], Closing)
             \/ up'[q] = <<>> /\ (q \notin present' \/ q \in unsaid')
  <2>1. Sends(p, m) /\ m \in Closing /\ UNCHANGED <<present, unsaid>>
    BY <1>3 DEF Closes, CloseTab, Closing
  <2>2. CASE q = p
    BY <2>1, <2>2, SendsFacts DEF Typed
  <2>3. CASE q # p
    <3>1. place[q] = "closed"
      BY <1>3, <2>3 DEF Closes, CloseTab, Typed
    <3>2. up'[q] = up[q]
      BY <2>1, <2>3 DEF Sends, Typed
    <3> QED
      BY <1>1, <2>1, <3>1, <3>2
  <2> QED
    BY <2>2, <2>3
<1>4. ASSUME NEW p \in Peers, NEW m \in Message, Reads(p, m)
      PROVE  place[q] = "closed" /\ up'[q] = up[q] /\ UNCHANGED <<present, unsaid>>
  <2>1. Gets(p, m)
    BY <1>4 DEF Reads
  <2>2. UNCHANGED <<present, unsaid>> /\ place[p] # "closed"
    BY <2>1 DEF Gets
  <2>3. place'[p] # "closed" /\ \A o \in Peers \ {p} : place'[o] = place[o]
    BY <2>1 DEF Gets, Typed
  <2>4. q # p
    BY <2>3
  <2>5. up' = up \/ \E n : Sends(p, n)
    BY <1>4, ReadsSends
  <2> QED
    BY <2>2, <2>3, <2>4, <2>5 DEF Sends, Typed
<1>5. ASSUME NEW p \in Peers, NEW m \in Message, NEW n \in Message, Takes(p, m), Handles(p, m, n)
      PROVE  \/ Has(up'[q], Closing)
             \/ up'[q] = <<>> /\ (q \notin present' \/ q \in unsaid')
  <2>1. place' = place
    BY <1>5 DEF Takes
  <2>2. /\ q # p => (q \in present' => q \in present)
        /\ unsaid \subseteq unsaid'
        /\ m.type = "closed" => p \notin present' \/ p \in unsaid'
    BY <1>5 DEF Handles, Goes, Indicating
  <2>3. /\ \A o \in Peers \ {p} : up'[o] = up[o]
        /\ m = up[p][1] /\ Len(up[p]) \in Nat \ {0} /\ Len(up'[p]) = Len(up[p]) - 1
        /\ \A S : Has(up[p], S) <=> m \in S \/ Has(up'[p], S)
        /\ up'[p] \in Seq(Message)
    BY <1>5, TakesFacts DEF Typed
  <2>4. CASE q # p
    BY <1>1, <2>1, <2>2, <2>3, <2>4
  <2>5. CASE q = p
    <3>1. up[p] # <<>>
      BY <1>5 DEF Takes
    <3>2. m \in Closing \/ Has(up'[p], Closing)
      BY <2>1, <2>3, <2>5, <3>1 DEF GoneInv
    <3>3. ASSUME m \in Closing
          PROVE  up'[p] = <<>>
      <4>1. m.type = "closed" /\ 1 \in 1..Len(up[p])
        BY <2>3, <3>3 DEF Closing
      <4>2. 1 = Len(up[p])
        BY <2>3, <4>1 DEF Shape, UpOK
      <4>3. Len(up'[p]) = 0
        BY <2>3, <4>2
      <4> QED
        BY <2>3, <4>3, EmptySeq
    <3> QED
      BY <2>2, <2>5, <3>2, <3>3 DEF Closing
  <2> QED
    BY <2>4, <2>5
<1>6. CASE UNCHANGED vars \/ CreateCounter \/ \E p, o \in Peers : AudioAnnouncement(p, o)
  <2>1. UNCHANGED <<place, up, present, unsaid>>
    BY <1>6 DEF vars, CreateCounter, AudioAnnouncement
  <2> QED
    BY <1>1, <2>1
<1> QED
  BY <1>1, <1>2, <1>3, <1>4, <1>5, <1>6, EveryStep

-----------------------------------------------------------------------------
(* The theorems.                                                           *)

LEMMA InitInv ==
    ASSUME Init
    PROVE  IInv
<1>1. \A p \in Peers : up[p] = <<>> /\ down[p] = <<>> /\ place[p] = "out"
  BY DEF Init
<1>2. \A p, q \in Peers : ~ Knows(p, q) /\ ~ Shown(p, q)
  BY DEF Init, Knows, Shown
<1>3. \A p \in Peers : \A S : ~ Has(up[p], S) /\ ~ Has(down[p], S)
  BY <1>1, HasNone
<1>4. \A p \in Peers : Len(up[p]) = 0 /\ Len(down[p]) = 0 /\ 1..0 = {}
  BY <1>1, EmptySeq
<1>5. [look |-> 0, zone |-> MainZone, muted |-> FALSE] \in Tabs
  BY IndicatorsAssumption DEF Tabs, Looks
<1>6. self \in [Peers -> Tabs]
  BY <1>5 DEF Init
<1>7. Typed
  <2>1. Tabs \subseteq Indicators
    BY TabsAreIndicators
  <2>2. self \in [Peers -> Indicators]
    BY <1>6, <2>1
  <2>3. changes \in 0..MaxChanges
    BY IndicatorsAssumption DEF Init
  <2>4. up \in [Peers -> Seq(Message)] /\ down \in [Peers -> Seq(Message)]
    BY EmptySeq DEF Init
  <2> QED
    BY <1>2, <2>2, <2>3, <2>4 DEF Init, Typed, Created
<1>8. Shape
  BY <1>4, <1>6 DEF Shape
<1>9. RoomInv
  BY <1>1, <1>3 DEF RoomInv, Settlers, Here, Init
<1>10. Here \subseteq Peers /\ Settlers \subseteq Peers
  BY DEF Here, Settlers
<1>11. GhostInv
  BY <1>2, <1>3, <1>4, <1>10 DEF GhostInv, Init
<1>12. MutualInv /\ AcquaintedInv /\ FaceInv /\ GoneInv
  BY <1>1, <1>2, <1>3, <1>10 DEF MutualInv, AcquaintedInv, FaceInv, GoneInv, Answering
<1>13. LatestInv
  BY <1>2, <1>4, <1>10 DEF LatestInv, LatestKnown
<1> QED
  BY <1>7, <1>8, <1>9, <1>11, <1>12, <1>13 DEF IInv

LEMMA StepInv ==
    ASSUME IInv, [Next]_vars
    PROVE  IInv'
  BY TypeStep, ShapeStep, RoomStep, GhostStep, MutualStep, AcquaintedStep, LatestStep, FaceStep,
     GoneStep DEF IInv

LEMMA Inductive == Spec => []IInv
  BY InitInv, StepInv, PTL DEF Spec

\* What has to do with zones, on which the rest of the invariant does not depend.
ZonesInv == ZoneInv /\ NoSelf /\ HushInv

LEMMA ZonesInductive == Spec => []ZonesInv
<1>1. Init => ZonesInv
  <2> SUFFICES ASSUME Init
               PROVE  ZonesInv
    OBVIOUS
  <2>1. \A p \in Peers : Len(up[p]) = 0 /\ Len(down[p]) = 0 /\ 1..0 = {}
    BY EmptySeq DEF Init
  <2>2. \A p, q \in Peers : ~ Knows(p, q) /\ ~ Shown(p, q)
    BY DEF Init, Knows, Shown
  <2>3. \A p \in Peers : \A S : ~ Has(up[p], S) /\ ~ Has(down[p], S)
    BY HasNone DEF Init
  <2>4. Here \subseteq Peers /\ Settlers \subseteq Peers
    BY DEF Here, Settlers
  <2> QED
    BY <2>1, <2>2, <2>3, <2>4 DEF ZonesInv, ZoneInv, Follows, NoSelf, HushInv, Hushed
<1>2. IInv /\ ZonesInv /\ [Next]_vars => ZonesInv'
  BY ZoneStep, NoSelfStep, HushStep DEF IInv, ZonesInv
<1> QED
  BY <1>1, <1>2, Inductive, PTL DEF Spec

\* Clients and the peerManager keep to the types of their state and messages,
\* and nobody is a peer of its own, whatever the order in which the queues are served.
THEOREM TypeCorrect == Spec => []TypeOK
<1>1. IInv /\ ZonesInv => TypeOK
  <2> SUFFICES ASSUME IInv, ZonesInv
               PROVE  TypeOK
    OBVIOUS
  <2>1. Typed
    BY DEF IInv
  <2>2. ASSUME NEW p \in Peers
        PROVE  store[p][p] = NoPeer /\ p \notin peersMap[p]
    BY <2>1 DEF ZonesInv, NoSelf, Typed, Created, Knows, Shown
  <2> QED
    BY <2>1, <2>2 DEF Typed, TypeOK
<1> QED
  BY <1>1, Inductive, ZonesInductive, PTL

\* Two peers that take part have created each other once nothing is on its way.
THEOREM PeersGetAcquainted == Spec => []Acquainted
<1>1. ASSUME IInv, Quiet, NEW p \in Settlers, NEW q \in Settlers,
             p # q, place[p] = "frame", place[q] = "frame"
      PROVE  Shown(p, q)
  <2>1. p \in Here /\ q \in Here /\ p \in Peers /\ q \in Peers
    BY <1>1 DEF Here, Settlers
  <2>2. WillShow(p, q)
    BY <1>1, <2>1 DEF IInv, AcquaintedInv
  <2> QED
    BY <1>1, <2>1, <2>2, HasNone DEF WillShow, Answering, Quiet
<1>2. IInv => Acquainted
  BY <1>1 DEF Acquainted
<1> QED
  BY <1>2, Inductive, PTL

\* What is known of a peer is what it shows, once nothing is on its way.
THEOREM TheLatestIsKnown == Spec => []KnowsTheLatest
<1>1. ASSUME IInv, Quiet, NEW p \in Settlers, NEW q \in Settlers, p # q,
             place[p] = "frame", place[q] = "frame", Knows(p, q), NEW i \in Fields
      PROVE  store[p][q][i] \in {Undefined, self[q][i]}
  <2>1. p \in Here /\ q \in Here /\ p \in Peers /\ q \in Peers
    BY <1>1 DEF Here, Settlers
  <2>2. LatestKnown(i, p, q)
    BY <1>1, <2>1 DEF IInv, LatestInv
  <2> QED
    BY <1>1, <2>1, <2>2, HasNone DEF LatestKnown, ComesDown, ComesUp, Has, Quiet
<1>2. IInv => KnowsTheLatest
  BY <1>1 DEF KnowsTheLatest, Fields
<1> QED
  BY <1>2, Inductive, PTL

\* Who is not in the room, or has closed its tab, is not shown to anybody in it once
\* nothing is on its way, unless its leaving was never announced.
THEOREM NoGhostsStay == Spec => []NoGhosts
<1>1. ASSUME IInv, ZonesInv, Quiet, NEW p \in Settlers, NEW q \in Settlers,
             place[p] \in {"lobby", "frame"}, Shown(p, q)
      PROVE  (q \in present /\ place[q] # "closed") \/ q \in unsaid
  <2>1. p \in Here /\ p \in Peers /\ q \in Peers
    BY <1>1 DEF Here, Settlers
  <2>2. p # q
    BY <1>1, <2>1 DEF ZonesInv, NoSelf
  <2>3. q \in present \/ q \in unsaid
    <3>1. Together(p, q, 0)
      BY <1>1, <2>1, <2>2 DEF IInv, GhostInv
    <3> QED
      BY <1>1, <2>1, <3>1, HasNone DEF Together, Has, Quiet
  <2>4. place[q] = "closed" => q \notin present \/ q \in unsaid
    <3>1. ~ Has(up[q], Closing)
      BY <1>1, <2>1, HasNone DEF Quiet
    <3> QED
      BY <1>1, <2>1, <3>1 DEF IInv, GoneInv
  <2> QED
    BY <2>3, <2>4
<1>2. IInv /\ ZonesInv => NoGhosts
  BY <1>1 DEF NoGhosts
<1> QED
  BY <1>2, Inductive, ZonesInductive, PTL

\* Who takes part is known by its facade, once nothing is on its way, but for the
\* peers of which a change of the avatar or of the assets was the first that was heard.
THEOREM FacesBecomeKnown == Spec => []FacesAreKnown
<1>1. ASSUME IInv, Quiet, NEW p \in Settlers, NEW q \in Settlers,
             p # q, place[p] = "frame", place[q] = "frame"
      PROVE  \/ Knows(p, q) /\ store[p][q]["look"] # Undefined
             \/ <<p, q>> \in faceless
  <2>1. p \in Here /\ q \in Here /\ p \in Peers /\ q \in Peers
    BY <1>1 DEF Here, Settlers
  <2>2. WillShow(p, q)
    BY <1>1, <2>1 DEF IInv, AcquaintedInv
  <2>3. Shown(p, q)
    BY <1>1, <2>1, <2>2, HasNone DEF WillShow, Answering, Quiet
  <2>4. FaceComes(p, q)
    BY <1>1, <2>1, <2>3 DEF IInv, FaceInv
  <2> QED
    BY <1>1, <2>1, <2>4, HasNone DEF FaceComes, ComesDown, ComesUp, Has, Quiet
<1>2. IInv => FacesAreKnown
  BY <1>1 DEF FacesAreKnown
<1> QED
  BY <1>2, Inductive, PTL

\* A consumer is paused just if muting its peer was the last that was asked, also when
\* it came after the message that asked.
THEOREM MutingIsKept == Spec => []PausedAsAsked
<1>1. PausedAsAsked <=> \A p, q \in Peers : AsAsked(p, q)
  BY DEF PausedAsAsked, AsAsked
<1>2. Init => PausedAsAsked
  BY DEF Init, PausedAsAsked
<1>3. IInv /\ PausedAsAsked /\ [Next]_vars => PausedAsAsked'
  BY AsAskedStep DEF IInv, PausedAsAsked, AsAsked
<1> QED
  BY <1>2, <1>3, Inductive, PTL DEF Spec

\* A peer that stays in its zone does not hear those that it knows to be in another,
\* whatever the order of their changes, replies and consumers.
THEOREM OthersStaySilent == Spec => []OtherZonesAreSilent
<1>1. ZonesInv /\ PausedAsAsked => OtherZonesAreSilent
  <2> SUFFICES ASSUME ZonesInv, PausedAsAsked, NEW p \in Settlers \ Walkers, NEW q \in Settlers,
                      Knows(p, q), store[p][q].zone \notin {Undefined, self[p].zone}
               PROVE  consumer[p][q] # "playing"
    BY DEF OtherZonesAreSilent
  <2>1. hush[p][q] = "mute"
    BY DEF ZonesInv, HushInv, Hushed
  <2>2. p \in Peers /\ q \in Peers
    BY DEF Settlers
  <2> QED
    BY <2>1, <2>2 DEF PausedAsAsked
<1> QED
  BY <1>1, ZonesInductive, MutingIsKept, PTL
=============================================================================
