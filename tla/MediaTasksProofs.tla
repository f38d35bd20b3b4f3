-------------------------- MODULE MediaTasksProofs --------------------------
(***************************************************************************)
(* For any number of tasks, any capacity of the channel and any number of  *)
(* rounds of the loops: every variable keeps its type, and on a server     *)
(* nobody leaves (Serving), and on one whose rooms and transports come and *)
(* go (Leaving), the handlers never wait for each other in a circle.       *)
(*                                                                         *)
(* The argument: every way a handler may still go asks only for locks      *)
(* above those it has (OrderInv), and a task in a queue is at a request    *)
(* for that lock (WaitInv); so the member of a stuck group that waits for  *)
(* the highest lock waits for a task that waits for a higher one.  Where   *)
(* two handlers disagree about the order, both keep a gate from their      *)
(* first step to their last (GateInv): who has it decides on the order.    *)
(*                                                                         *)
(* That the handlers are in order is proved the way they are put together: *)
(* Obeys(rank, H, P, G) says that the paths of P, begun with the guards of *)
(* H, ask in order and end with guards of G, and Then, Optional and Loop   *)
(* keep it, the last by induction over the rounds.                         *)
(***************************************************************************)
EXTENDS MediaTasks, TLAPS, NaturalsInduction, WellFoundedInduction

Has(t) == {l \in Locks : guard[l] = t}

\* A path that is in order and asks, while a lock of H is kept, only for
\* locks above it.
OrderedFrom(rank, H, p) ==
    /\ InOrder(rank, p)
    /\ \A h \in H : \A j \in DOMAIN p :
          Requests(p[j]) /\ (\A k \in 1..(j - 1) : p[k] # Drop(h))
          => rank[h] < rank[p[j].lock]

\* The paths of the handlers of M are sequences of steps.
Typed(M) == \A m \in M : Paths(m) \subseteq Seq(Step)

StateInv ==
    /\ todo \in [Tasks -> SUBSET Seq(Step)]
    /\ guard \in [Locks -> Tasks \cup {NoTask}]
    /\ waiters \in [Locks -> Seq(Tasks)]
    /\ handling \in [Tasks -> Messages \cup {"new", "done"}]

\* A task that was not spawned or has returned has nothing to do and no guard.
IdleInv ==
    \A t \in Tasks :
        handling[t] \in {"new", "done"} => todo[t] = {} /\ Has(t) = {}

\* The tasks that handle a message of M keep to the order.
OrderInv(rank, M) ==
    \A t \in Tasks :
        handling[t] \in M => \A p \in todo[t] : OrderedFrom(rank, Has(t), p)

WaitInv ==
    \A t \in Tasks, l \in Locks :
        Waiting(t, l) =>
            /\ todo[t] # {}
            /\ \A p \in todo[t] : p # <<>> /\ Requests(Head(p)) /\ Head(p).lock = l

UniqueInv ==
    \A l \in Locks : \A i, j \in DOMAIN waiters[l] :
        waiters[l][i] = waiters[l][j] => i = j

\* A task that handles a message of G has the guard of the gate, or nothing yet
\* and takes that guard next; and it never drops it before its end.
GateInv(gate, G) ==
    \A t \in Tasks :
        handling[t] \in G =>
            \A p \in todo[t] :
                /\ \A k \in DOMAIN p : p[k] # Drop(gate)
                /\ gate \notin Has(t) =>
                      Has(t) = {} /\ p # <<>> /\ Head(p) = Lock(gate)

IInv(rank, M) == StateInv /\ IdleInv /\ OrderInv(rank, M) /\ WaitInv /\ UniqueInv

-----------------------------------------------------------------------------
(* Lemmas about paths.                                                     *)

\* The kinds of step, and what a request asks for.
LEMMA StepForm ==
    ASSUME NEW s \in Step
    PROVE  /\ s \in {Try, Send} \/ s.lock \in Locks
           /\ Requests(s) => s.lock \in Locks
           /\ s.op = "drop" => s = Drop(s.lock) /\ s.lock \in Locks
BY DEF Step, Try, Send, Requests, Drop

LEMMA TailFacts ==
    ASSUME NEW p \in Seq(Step), p # <<>>
    PROVE  /\ Tail(p) \in Seq(Step)
           /\ Head(p) = p[1]
           /\ 1 \in DOMAIN p
           /\ Head(p) \in Step
           /\ \A i \in DOMAIN Tail(p) : i + 1 \in DOMAIN p /\ Tail(p)[i] = p[i + 1]
           /\ DOMAIN Tail(p) \subseteq Nat \ {0}
           /\ DOMAIN p \subseteq Nat \ {0}
OBVIOUS

\* What is left of an ordered path is ordered.
LEMMA InOrderTail ==
    ASSUME NEW rank, NEW p \in Seq(Step), p # <<>>, InOrder(rank, p)
    PROVE  InOrder(rank, Tail(p))
<1> SUFFICES ASSUME NEW i \in DOMAIN Tail(p), NEW j \in DOMAIN Tail(p), i < j,
                    Tail(p)[i].op = "lock", Requests(Tail(p)[j]),
                    \A k \in (i + 1)..(j - 1) : Tail(p)[k] # Drop(Tail(p)[i].lock)
             PROVE  rank[Tail(p)[i].lock] < rank[Tail(p)[j].lock]
  BY DEF InOrder
<1>1. /\ i + 1 \in DOMAIN p /\ Tail(p)[i] = p[i + 1] /\ i \in Nat
      /\ j + 1 \in DOMAIN p /\ Tail(p)[j] = p[j + 1] /\ j \in Nat
  BY TailFacts
<1>2. \A k \in (i + 2)..j : p[k] # Drop(p[i + 1].lock)
  <2> SUFFICES ASSUME NEW k \in (i + 2)..j PROVE p[k] # Drop(p[i + 1].lock)
    OBVIOUS
  <2>1. k - 1 \in (i + 1)..(j - 1) /\ k - 1 \in DOMAIN Tail(p)
    BY <1>1
  <2>2. Tail(p)[k - 1] = p[k]
    BY <2>1, TailFacts, <1>1
  <2> QED BY <2>1, <2>2, <1>1
<1>3. i + 1 < j + 1 /\ (i + 1) + 1 = i + 2 /\ (j + 1) - 1 = j
  BY <1>1
<1> QED BY <1>1, <1>2, <1>3 DEF InOrder

\* After any step but a drop, the locks kept stay below what is asked for.
LEMMA OrderedTail ==
    ASSUME NEW rank, NEW H, NEW p \in Seq(Step), p # <<>>,
           OrderedFrom(rank, H, p), \A h \in H : Head(p) # Drop(h)
    PROVE  OrderedFrom(rank, H, Tail(p))
<1>1. InOrder(rank, Tail(p))
  BY InOrderTail DEF OrderedFrom
<1>2. ASSUME NEW h \in H, NEW j \in DOMAIN Tail(p), Requests(Tail(p)[j]),
             \A k \in 1..(j - 1) : Tail(p)[k] # Drop(h)
      PROVE  rank[h] < rank[Tail(p)[j].lock]
  <2>1. j + 1 \in DOMAIN p /\ Tail(p)[j] = p[j + 1] /\ j \in Nat
    BY TailFacts
  <2>2. \A k \in 1..j : p[k] # Drop(h)
    <3> SUFFICES ASSUME NEW k \in 1..j PROVE p[k] # Drop(h)
      OBVIOUS
    <3>1. CASE k = 1
      BY <3>1, TailFacts
    <3>2. CASE k > 1
      <4>1. k - 1 \in 1..(j - 1) /\ k - 1 \in DOMAIN Tail(p)
        BY <3>2, <2>1
      <4>2. Tail(p)[k - 1] = p[k]
        BY <4>1, TailFacts, <3>2
      <4> QED BY <4>1, <4>2, <1>2
    <3> QED BY <3>1, <3>2, <2>1
  <2>3. (j + 1) - 1 = j
    BY <2>1
  <2> QED BY <2>1, <2>2, <2>3, <1>2 DEF OrderedFrom
<1> QED BY <1>1, <1>2 DEF OrderedFrom

\* Fewer locks kept ask less of a path.
LEMMA OrderedFewer ==
    ASSUME NEW rank, NEW H, NEW G \in SUBSET H, NEW p, OrderedFrom(rank, H, p)
    PROVE  OrderedFrom(rank, G, p)
BY DEF OrderedFrom

\* Taking a guard: the path asked only for locks above it from then on.
LEMMA OrderedLock ==
    ASSUME NEW rank, NEW H, NEW p \in Seq(Step), p # <<>>,
           OrderedFrom(rank, H, p), Head(p).op = "lock"
    PROVE  OrderedFrom(rank, H \cup {Head(p).lock}, Tail(p))
<1>1. \A h \in H : Head(p) # Drop(h)
  BY DEF Drop
<1>2. OrderedFrom(rank, H, Tail(p))
  BY <1>1, OrderedTail
<1>3. ASSUME NEW j \in DOMAIN Tail(p), Requests(Tail(p)[j]),
             \A k \in 1..(j - 1) : Tail(p)[k] # Drop(Head(p).lock)
      PROVE  rank[Head(p).lock] < rank[Tail(p)[j].lock]
  <2>1. j + 1 \in DOMAIN p /\ Tail(p)[j] = p[j + 1] /\ j \in Nat \ {0}
    BY TailFacts
  <2>2. \A k \in 2..j : p[k] # Drop(p[1].lock)
    <3> SUFFICES ASSUME NEW k \in 2..j PROVE p[k] # Drop(p[1].lock)
      OBVIOUS
    <3>1. k - 1 \in 1..(j - 1) /\ k - 1 \in DOMAIN Tail(p)
      BY <2>1
    <3>2. Tail(p)[k - 1] = p[k]
      BY <3>1, TailFacts, <2>1
    <3> QED BY <3>1, <3>2, <1>3, TailFacts
  <2>3. 1 < j + 1 /\ 1 + 1 = 2 /\ (j + 1) - 1 = j /\ 1 \in DOMAIN p /\ Head(p) = p[1]
    BY <2>1, TailFacts
  <2>4. InOrder(rank, p)
    BY DEF OrderedFrom
  <2> QED BY <2>1, <2>2, <2>3, <2>4, <1>3 DEF InOrder
<1> QED BY <1>2, <1>3 DEF OrderedFrom

-----------------------------------------------------------------------------
(* Whole handlers.                                                         *)

\* p, begun with the guards of H, asks in order and ends with guards of G only.
Walk(rank, H, p, G) ==
    /\ p \in Seq(Step)
    /\ OrderedFrom(rank, H, p)
    /\ \A h \in H : h \in G \/ \E k \in DOMAIN p : p[k] = Drop(h)
    /\ \A i \in DOMAIN p :
          p[i].op = "lock" =>
              p[i].lock \in G \/ \E k \in DOMAIN p : i < k /\ p[k] = Drop(p[i].lock)

Obeys(rank, H, P, G) == \A p \in P : Walk(rank, H, p, G)

\* The positions of a path that follows another.
LEMMA JoinFacts ==
    ASSUME NEW p \in Seq(Step), NEW q \in Seq(Step)
    PROVE  /\ p \o q \in Seq(Step)
           /\ Len(p) \in Nat
           /\ \A i \in DOMAIN p : i \in DOMAIN (p \o q) /\ (p \o q)[i] = p[i]
           /\ \A i \in DOMAIN q :
                 i + Len(p) \in DOMAIN (p \o q) /\ (p \o q)[i + Len(p)] = q[i]
           /\ \A i \in DOMAIN (p \o q) :
                 \/ i \in DOMAIN p
                 \/ \E n \in DOMAIN q : i = n + Len(p)
<1>1. \A i \in DOMAIN (p \o q) : i \in DOMAIN p \/ i - Len(p) \in DOMAIN q
  OBVIOUS
<1>2. \A i \in DOMAIN (p \o q) : i = (i - Len(p)) + Len(p)
  OBVIOUS
<1>3. p \o q \in Seq(Step) /\ Len(p) \in Nat
  OBVIOUS
<1>4. \A i \in DOMAIN p : i \in DOMAIN (p \o q) /\ (p \o q)[i] = p[i]
  OBVIOUS
<1>5. \A i \in DOMAIN q :
         i + Len(p) \in DOMAIN (p \o q) /\ (p \o q)[i + Len(p)] = q[i]
  OBVIOUS
<1> QED BY <1>1, <1>2, <1>3, <1>4, <1>5

LEMMA WalkThen ==
    ASSUME NEW rank, NEW H, NEW K, NEW G, NEW p, NEW q,
           Walk(rank, H, p, K), Walk(rank, K, q, G)
    PROVE  Walk(rank, H, p \o q, G)
<1> DEFINE w == p \o q
           L == Len(p)
<1>1. p \in Seq(Step) /\ q \in Seq(Step)
  BY DEF Walk
<1>2. /\ w \in Seq(Step)
      /\ L \in Nat
      /\ \A i \in DOMAIN p : i \in DOMAIN w /\ w[i] = p[i]
      /\ \A i \in DOMAIN q : i + L \in DOMAIN w /\ w[i + L] = q[i]
      /\ \A i \in DOMAIN w : i \in DOMAIN p \/ \E n \in DOMAIN q : i = n + L
      /\ DOMAIN p = 1..L
      /\ Len(q) \in Nat /\ DOMAIN q = 1..Len(q)
  BY <1>1, JoinFacts
<1> HIDE DEF w, L
\* A guard that was there before q and is not dropped by q.
<1>3. ASSUME NEW h \in K, NEW n \in DOMAIN q, Requests(q[n]),
             \A k \in (1 + L)..(n + L - 1) : w[k] # Drop(h)
      PROVE  rank[h] < rank[q[n].lock]
  <2> SUFFICES ASSUME NEW k \in 1..(n - 1) PROVE q[k] # Drop(h)
    BY <1>3 DEF Walk, OrderedFrom
  <2>1. k \in DOMAIN q /\ k + L \in (1 + L)..(n + L - 1)
    BY <1>1, <1>2
  <2> QED BY <2>1, <1>2, <1>3
<1>4. ASSUME NEW i \in DOMAIN w, NEW j \in DOMAIN w, i < j,
             w[i].op = "lock", Requests(w[j]),
             \A k \in (i + 1)..(j - 1) : w[k] # Drop(w[i].lock)
      PROVE  rank[w[i].lock] < rank[w[j].lock]
  <2>1. CASE j \in DOMAIN p
    <3>1. i \in DOMAIN p
      BY <1>2, <1>4, <2>1
    <3>2. \A k \in (i + 1)..(j - 1) : k \in DOMAIN p
      BY <1>2, <2>1, <3>1
    <3>3. \A k \in (i + 1)..(j - 1) : p[k] # Drop(p[i].lock)
      BY <1>2, <1>4, <3>1, <3>2
    <3> QED BY <1>2, <1>4, <2>1, <3>1, <3>3 DEF Walk, OrderedFrom, InOrder
  <2>2. ASSUME NEW n \in DOMAIN q, j = n + L, i \in DOMAIN p
        PROVE  rank[w[i].lock] < rank[w[j].lock]
    <3>1. \A k \in DOMAIN p : i < k => k \in (i + 1)..(j - 1)
      BY <1>2, <2>2
    <3>2. \A k \in DOMAIN p : i < k => p[k] # Drop(p[i].lock)
      BY <1>2, <1>4, <2>2, <3>1
    <3>3. p[i].lock \in K
      BY <1>2, <1>4, <2>2, <3>2 DEF Walk
    <3>4. \A k \in (1 + L)..(n + L - 1) : k \in (i + 1)..(j - 1)
      BY <1>2, <2>2
    <3> QED BY <1>2, <1>3, <1>4, <2>2, <3>3, <3>4
  <2>3. ASSUME NEW n \in DOMAIN q, j = n + L, NEW m \in DOMAIN q, i = m + L
        PROVE  rank[w[i].lock] < rank[w[j].lock]
    <3>1. m < n
      BY <1>2, <1>4, <2>3
    <3>2. ASSUME NEW k \in (m + 1)..(n - 1) PROVE q[k] # Drop(q[m].lock)
      <4>1. k \in Nat /\ k >= 1 /\ k <= Len(q) /\ m + 1 <= k /\ k <= n - 1
        BY <1>2
      <4>2. k \in DOMAIN q
        BY <1>2, <4>1
      <4>3. k + L \in (i + 1)..(j - 1)
        BY <1>2, <2>3, <4>1
      <4> QED BY <4>2, <4>3, <1>2, <1>4, <2>3
    <3>3. q[m].op = "lock" /\ Requests(q[n])
      BY <1>2, <1>4, <2>3
    <3>4. rank[q[m].lock] < rank[q[n].lock]
      BY <3>1, <3>2, <3>3 DEF Walk, OrderedFrom, InOrder
    <3> QED BY <1>2, <2>3, <3>4
  <2> QED BY <1>2, <2>1, <2>2, <2>3, <1>4
<1>5. ASSUME NEW h \in H, NEW j \in DOMAIN w, Requests(w[j]),
             \A k \in 1..(j - 1) : w[k] # Drop(h)
      PROVE  rank[h] < rank[w[j].lock]
  <2>1. CASE j \in DOMAIN p
    <3>1. \A k \in 1..(j - 1) : k \in DOMAIN p
      BY <1>2, <2>1
    <3>2. Requests(p[j]) /\ \A k \in 1..(j - 1) : p[k] # Drop(h)
      BY <1>2, <1>5, <2>1, <3>1
    <3>3. rank[h] < rank[p[j].lock]
      BY <2>1, <3>2 DEF Walk, OrderedFrom
    <3> QED BY <1>2, <2>1, <3>3
  <2>2. ASSUME NEW n \in DOMAIN q, j = n + L
        PROVE  rank[h] < rank[w[j].lock]
    <3>1. \A k \in DOMAIN p : k \in 1..(j - 1)
      BY <1>2, <2>2
    <3>2. h \in K
      BY <1>2, <1>5, <3>1 DEF Walk
    <3>3. \A k \in (1 + L)..(n + L - 1) : k \in 1..(j - 1)
      BY <1>2, <2>2
    <3> QED BY <1>2, <1>3, <1>5, <2>2, <3>2, <3>3
  <2> QED BY <1>2, <2>1, <2>2
\* What q was begun with it keeps within G, or drops.
<1>6. ASSUME NEW h \in K
      PROVE  h \in G \/ \E k \in DOMAIN w : L < k /\ w[k] = Drop(h)
  <2> SUFFICES ASSUME NEW k \in DOMAIN q, q[k] = Drop(h)
               PROVE  \E n \in DOMAIN w : L < n /\ w[n] = Drop(h)
    BY DEF Walk
  <2>1. k + L \in DOMAIN w /\ w[k + L] = Drop(h) /\ L < k + L
    BY <1>2
  <2> QED BY <2>1
<1>7. ASSUME NEW h \in H
      PROVE  h \in G \/ \E k \in DOMAIN w : w[k] = Drop(h)
  <2>1. CASE h \in K
    BY <1>6, <2>1
  <2>2. CASE \E k \in DOMAIN p : p[k] = Drop(h)
    BY <1>2, <2>2
  <2> QED BY <2>1, <2>2 DEF Walk
<1>8. ASSUME NEW i \in DOMAIN w, w[i].op = "lock"
      PROVE  w[i].lock \in G \/ \E k \in DOMAIN w : i < k /\ w[k] = Drop(w[i].lock)
  <2>1. CASE i \in DOMAIN p
    <3>1. p[i].lock \in K \/ \E k \in DOMAIN p : i < k /\ p[k] = Drop(p[i].lock)
      BY <1>2, <1>8, <2>1 DEF Walk
    <3>2. CASE p[i].lock \in K
      <4>1. \A k \in DOMAIN w : L < k => i < k
        <5>1. i \in Nat /\ i <= L
          BY <1>2, <2>1
        <5>2. DOMAIN w \subseteq Nat
          BY <1>2
        <5> QED BY <5>1, <5>2, <1>2
      <4> QED BY <1>2, <1>6, <2>1, <3>2, <4>1
    <3>3. CASE \E k \in DOMAIN p : i < k /\ p[k] = Drop(p[i].lock)
      BY <1>2, <2>1, <3>3
    <3> QED BY <3>1, <3>2, <3>3
  <2>2. ASSUME NEW n \in DOMAIN q, i = n + L
        PROVE  w[i].lock \in G \/ \E k \in DOMAIN w : i < k /\ w[k] = Drop(w[i].lock)
    <3> SUFFICES ASSUME NEW k \in DOMAIN q, n < k, q[k] = Drop(q[n].lock)
                 PROVE  \E r \in DOMAIN w : i < r /\ w[r] = Drop(w[i].lock)
      BY <1>2, <1>8, <2>2 DEF Walk
    <3>1. k + L \in DOMAIN w /\ w[k + L] = Drop(w[i].lock) /\ i < k + L
      BY <1>2, <2>2
    <3> QED BY <3>1
  <2> QED BY <1>2, <2>1, <2>2
<1>9. OrderedFrom(rank, H, w)
  BY <1>4, <1>5 DEF OrderedFrom, InOrder
<1>10. Walk(rank, H, w, G)
  BY <1>2, <1>7, <1>8, <1>9 DEF Walk
<1> QED BY <1>10 DEF w

LEMMA ThenForm ==
    ASSUME NEW P, NEW Q, NEW w \in Then(P, Q)
    PROVE  \E p \in P : \E q \in Q : w = p \o q
BY DEF Then

LEMMA ObeysThen ==
    ASSUME NEW rank, NEW H, NEW K, NEW G, NEW P, NEW Q,
           Obeys(rank, H, P, K), Obeys(rank, K, Q, G)
    PROVE  Obeys(rank, H, Then(P, Q), G)
<1> SUFFICES ASSUME NEW w \in Then(P, Q) PROVE Walk(rank, H, w, G)
  BY DEF Obeys
<1>1. PICK p \in P : \E q \in Q : w = p \o q
  BY ThenForm
<1>a. PICK q \in Q : w = p \o q
  BY <1>1
<1>2. Walk(rank, H, p, K) /\ Walk(rank, K, q, G)
  BY DEF Obeys
<1> QED BY <1>a, <1>2, WalkThen

LEMMA ObeysOptional ==
    ASSUME NEW rank, NEW H, NEW G, NEW P, Obeys(rank, H, P, G), H \subseteq G
    PROVE  Obeys(rank, H, Optional(P), G)
<1>1. Walk(rank, H, <<>>, G)
  BY DEF Walk, OrderedFrom, InOrder
<1> QED BY <1>1 DEF Obeys, Optional

LEMMA ObeysUnion ==
    ASSUME NEW rank, NEW H, NEW G, NEW P, NEW Q,
           Obeys(rank, H, P, G), Obeys(rank, H, Q, G)
    PROVE  Obeys(rank, H, P \cup Q, G)
BY DEF Obeys

\* A set that has 0, and with a number its successor, has every number.
LEMMA Induction ==
    ASSUME NEW T, 0 \in T, \A k \in Nat \cap T : k + 1 \in T
    PROVE  Nat \subseteq T
<1> SUFFICES ASSUME NEW k \in Nat \ T PROVE FALSE
  OBVIOUS
<1> DEFINE U == Nat \ T
<1>1. PICK x \in U : \A y \in U : ~ (<<y, x>> \in OpToRel(<, Nat))
  <2>1. U \subseteq Nat /\ U # {}
    OBVIOUS
  <2> HIDE DEF U
  <2> QED BY <2>1, NatLessThanWellFounded, WFMin
<1>2. x # 0 /\ x - 1 \in Nat
  OBVIOUS
<1>3. ~ (x - 1 < x) \/ x - 1 \in T
  BY <1>1, <1>2 DEF OpToRel
<1>4. x - 1 \in Nat \cap T
  BY <1>2, <1>3
<1>5. (x - 1) + 1 \in T
  BY <1>4
<1> QED BY <1>5

\* f has the paths of at most n rounds of a loop over P, for every n up to k.
UpTo(P, k, f) ==
    f = [n \in 0..k |-> IF n = 0 THEN {<<>>} ELSE Optional(Then(P, f[n - 1]))]

LEMMA UpToNext ==
    ASSUME NEW P, NEW k \in Nat, NEW f, UpTo(P, k, f)
    PROVE  \E g : UpTo(P, k + 1, g)
<1> DEFINE g == [n \in 0..(k + 1) |->
                    IF n = 0 THEN {<<>>} ELSE Optional(Then(P, f[n - 1]))]
<1>1. f = [n \in 0..k |-> IF n = 0 THEN {<<>>} ELSE Optional(Then(P, f[n - 1]))]
  BY DEF UpTo
<1>2. ASSUME NEW n \in 0..k PROVE g[n] = f[n]
  <2>1. n \in 0..(k + 1)
    OBVIOUS
  <2>2. f[n] = IF n = 0 THEN {<<>>} ELSE Optional(Then(P, f[n - 1]))
    BY <1>1, Zenon
  <2> QED BY <2>1, <2>2
<1>3. ASSUME NEW n \in 0..(k + 1), n # 0 PROVE g[n - 1] = f[n - 1]
  <2>1. n - 1 \in 0..k
    BY <1>3
  <2> HIDE DEF g
  <2> QED BY <1>2, <2>1
<1>4. g = [n \in 0..(k + 1) |-> IF n = 0 THEN {<<>>} ELSE Optional(Then(P, g[n - 1]))]
  <2>1. ASSUME NEW n \in 0..(k + 1)
        PROVE  (IF n = 0 THEN {<<>>} ELSE Optional(Then(P, f[n - 1])))
             = (IF n = 0 THEN {<<>>} ELSE Optional(Then(P, g[n - 1])))
    <3> HIDE DEF g
    <3> QED BY <1>3
  <2> QED BY <2>1, Zenon
<1> QED BY <1>4 DEF UpTo

LEMMA UpToExists ==
    ASSUME NEW P
    PROVE  \A k \in Nat : \E f : UpTo(P, k, f)
<1> DEFINE T == {k \in Nat : \E f : UpTo(P, k, f)}
<1>1. 0 \in T
  <2> DEFINE f == [n \in 0..0 |-> {<<>>}]
  <2>1. UpTo(P, 0, f)
    BY DEF UpTo
  <2> HIDE DEF f
  <2> QED BY <2>1
<1>2. \A k \in Nat \cap T : k + 1 \in T
  BY UpToNext
<1>3. Nat \subseteq T
  <2> HIDE DEF T
  <2> QED BY <1>1, <1>2, Induction
<1> QED BY <1>3

\* The rounds of a loop, as the recursive function in Loop has them.
LEMMA LoopRounds ==
    ASSUME NEW P
    PROVE  \E f : UpTo(P, Rounds, f) /\ Loop(P) = f[Rounds]
<1> DEFINE f == CHOOSE upTo : UpTo(P, Rounds, upTo)
<1>1. UpTo(P, Rounds, f)
  <2>1. \E g : UpTo(P, Rounds, g)
    BY UpToExists, MediaTasksAssumption
  <2> QED BY <2>1, Zenon
<1>2. Loop(P) = f[Rounds]
  BY DEF Loop, UpTo
<1> QED BY <1>1, <1>2

\* What holds of the empty path, and of every path of P followed by one it
\* holds of, holds of every path of the loop.
LEMMA LoopInduction ==
    ASSUME NEW P, NEW S, <<>> \in S, \A p \in P, q \in S : p \o q \in S
    PROVE  Loop(P) \subseteq S
<1>1. PICK f : UpTo(P, Rounds, f) /\ Loop(P) = f[Rounds]
  BY LoopRounds
<1>2. ASSUME NEW n \in 0..Rounds
      PROVE  f[n] = IF n = 0 THEN {<<>>} ELSE Optional(Then(P, f[n - 1]))
  BY <1>1, Zenon DEF UpTo
<1> DEFINE T == {k \in Nat : k <= Rounds => f[k] \subseteq S}
<1>3. 0 \in T
  BY <1>2, MediaTasksAssumption
<1>4. \A k \in Nat \cap T : k + 1 \in T
  <2> SUFFICES ASSUME NEW k \in Nat, k \in T, k + 1 <= Rounds
               PROVE  f[k + 1] \subseteq S
    OBVIOUS
  <2>1. f[k] \subseteq S
    BY MediaTasksAssumption
  <2>2. f[k + 1] = Optional(Then(P, f[k]))
    <3>1. k + 1 \in 0..Rounds /\ k + 1 # 0 /\ (k + 1) - 1 = k
      BY MediaTasksAssumption
    <3> QED BY <1>2, <3>1
  <2> SUFFICES ASSUME NEW w \in Then(P, f[k]) PROVE w \in S
    BY <2>2 DEF Optional
  <2>3. PICK p \in P, q \in f[k] : w = p \o q
    BY DEF Then
  <2> QED BY <2>1, <2>3
<1>5. Nat \subseteq T
  <2> HIDE DEF T
  <2> QED BY <1>3, <1>4, Induction
<1> QED BY <1>1, <1>5, MediaTasksAssumption

\* A loop over a body that leaves the guards it found leaves them too.
LEMMA ObeysLoop ==
    ASSUME NEW rank, NEW H, NEW P, Obeys(rank, H, P, H)
    PROVE  Obeys(rank, H, Loop(P), H)
<1> DEFINE S == {q \in Seq(Step) : Walk(rank, H, q, H)}
<1>1. <<>> \in S
  BY DEF Walk, OrderedFrom, InOrder
<1>2. ASSUME NEW p \in P, NEW q \in S PROVE p \o q \in S
  <2>1. Walk(rank, H, p \o q, H)
    BY WalkThen DEF Obeys
  <2> QED BY <2>1 DEF Walk
<1>3. Loop(P) \subseteq S
  <2> HIDE DEF S
  <2> QED BY <1>1, <1>2, LoopInduction
<1> QED BY <1>3 DEF Obeys

-----------------------------------------------------------------------------
(* The handlers, one by one.                                               *)

LEMMA ObeysOne ==
    ASSUME NEW rank, NEW H, NEW G, NEW p, Walk(rank, H, p, G)
    PROVE  Obeys(rank, H, {p}, G)
BY DEF Obeys

\* What the handlers of Serving and of Leaving ask of an order alike.
Common(rank) ==
    /\ rank.routers2workers < rank.loads
    /\ rank.relays < rank.routers
    /\ rank.routers < rank.transport2router /\ rank.routers < rank.endpoints
    /\ rank.transport2router < rank.endpoints
    /\ rank.producers < rank.consumers

\* What createRouterGroup asks of it besides.
Creating(rank) ==
    /\ rank.roomRouters < rank.routers
    /\ rank.roomRouters < rank.routers2workers
    /\ rank.routers < rank.routers2workers

\* What destroyRouterGroup asks of it.
Destroying(rank) ==
    /\ rank.roomRouters < rank.pendingRelays
    /\ rank.pendingRelays < rank.relays
    /\ rank.relays < rank.relayRouters
    /\ rank.relayRouters < rank.routers2workers
    /\ rank.routers2workers < rank.loads
    /\ rank.loads < rank.routers

LEMMA LessLoadedRouterObeys ==
    ASSUME NEW rank, Common(rank)
    PROVE  Obeys(rank, {}, LessLoadedRouter, {})
<1>1. Walk(rank, {}, <<Use("roomRouters"), Try, Lock("routers2workers"),
                       Use("loads"), Drop("routers2workers")>>, {})
  BY DEF Common, Walk, OrderedFrom, InOrder, Requests, Step, Locks, Use, Lock,
         Drop, Try, Send
<1>2. Walk(rank, {}, <<Use("roomRouters"), Try, Use("routers2workers")>>, {})
  BY DEF Walk, OrderedFrom, InOrder, Requests, Step, Locks, Use, Lock, Drop,
         Try, Send
<1> QED BY <1>1, <1>2 DEF LessLoadedRouter, Obeys

LEMMA CreateRouterGroupObeys ==
    ASSUME NEW rank, Creating(rank)
    PROVE  Obeys(rank, {}, CreateRouterGroup, Locks)
<1> DEFINE H == {"roomRouters"}
           gate == <<Lock("roomRouters")>>
           body == <<Try, Lock("routers"), Lock("routers2workers"),
                     Drop("routers2workers"), Drop("routers")>>
           end  == <<Try, Send>>
<1>1. Walk(rank, {}, gate, H)
  BY DEF Walk, OrderedFrom, InOrder, Requests, Step, Locks, Use, Lock, Drop,
         Try, Send
<1>2. Walk(rank, H, body, H)
  BY DEF Creating, Walk, OrderedFrom, InOrder, Requests, Step, Locks, Use, Lock,
         Drop, Try, Send
<1>3. Walk(rank, H, end, Locks)
  BY DEF Walk, OrderedFrom, InOrder, Requests, Step, Locks, Use, Lock, Drop,
         Try, Send
<1> HIDE DEF H, gate, body, end
<1>4. Obeys(rank, H, Loop({body}), H)
  BY <1>2, ObeysOne, ObeysLoop
<1>5. Obeys(rank, H, Then(Loop({body}), {end}), Locks)
  BY <1>3, <1>4, ObeysOne, ObeysThen
<1>6. Obeys(rank, {}, Then({gate}, Then(Loop({body}), {end})), Locks)
  BY <1>1, <1>5, ObeysOne, ObeysThen
<1> QED BY <1>6 DEF CreateRouterGroup, gate, body, end

LEMMA IngressRelayObeys ==
    ASSUME NEW rank, Common(rank)
    PROVE  Obeys(rank, {}, IngressRelay, {})
<1> DEFINE H == {"relays"}
           take == <<Lock("relays")>>
           open == {<<>>,
                    <<Lock("routers"), Drop("routers")>>,
                    <<Lock("routers"), Try, Send, Drop("routers")>>}
           leave == <<Drop("relays")>>
<1>1. Walk(rank, {}, take, H)
  BY DEF Walk, OrderedFrom, InOrder, Requests, Step, Locks, Use, Lock, Drop,
         Try, Send
<1>2. Walk(rank, H, leave, {})
  BY DEF Walk, OrderedFrom, InOrder, Requests, Step, Locks, Use, Lock, Drop,
         Try, Send
<1>3. Obeys(rank, H, open, H)
  <2>1. Walk(rank, H, <<>>, H)
    BY DEF Walk, OrderedFrom, InOrder, Requests, Step, Locks, Use, Lock, Drop,
           Try, Send
  <2>2. Walk(rank, H, <<Lock("routers"), Drop("routers")>>, H)
    BY DEF Common, Walk, OrderedFrom, InOrder, Requests, Step, Locks, Use, Lock,
           Drop, Try, Send
  <2>3. Walk(rank, H, <<Lock("routers"), Try, Send, Drop("routers")>>, H)
    BY DEF Common, Walk, OrderedFrom, InOrder, Requests, Step, Locks, Use, Lock,
           Drop, Try, Send
  <2> QED BY <2>1, <2>2, <2>3 DEF Obeys
<1> HIDE DEF H, take, open, leave
<1>4. Obeys(rank, H, Then(open, {leave}), {})
  BY <1>2, <1>3, ObeysOne, ObeysThen
<1>5. Obeys(rank, {}, Then({take}, Then(open, {leave})), {})
  BY <1>1, <1>4, ObeysOne, ObeysThen
<1> QED BY <1>5, ObeysLoop DEF IngressRelay, take, open, leave

LEMMA CreateWebRTCIngressObeys ==
    ASSUME NEW rank, Common(rank)
    PROVE  Obeys(rank, {}, CreateWebRTCIngress, Locks)
<1> DEFINE p == <<Try, Use("routers"), Try, Use("transport2router")>>
           q == <<Use("endpoints"), Send>>
<1>1. Walk(rank, {}, p, {})
  BY DEF Walk, OrderedFrom, InOrder, Requests, Step, Locks, Use, Lock, Drop,
         Try, Send
<1>2. Walk(rank, {}, q, Locks)
  BY DEF Walk, OrderedFrom, InOrder, Requests, Step, Locks, Use, Lock, Drop,
         Try, Send
<1> HIDE DEF p, q
<1>3. Obeys(rank, {}, Then(IngressRelay, {q}), Locks)
  BY <1>2, IngressRelayObeys, ObeysOne, ObeysThen
<1>4. Obeys(rank, {}, Then({p}, Then(IngressRelay, {q})), Locks)
  BY <1>1, <1>3, ObeysOne, ObeysThen
<1>5. Obeys(rank, {}, Then(LessLoadedRouter, Then({p}, Then(IngressRelay, {q}))), Locks)
  BY <1>4, LessLoadedRouterObeys, ObeysThen
<1> QED BY <1>5 DEF CreateWebRTCIngress, p, q

LEMMA CreateWebRTCEgressObeys ==
    ASSUME NEW rank, Common(rank)
    PROVE  Obeys(rank, {}, CreateWebRTCEgress, Locks)
<1> DEFINE p == <<Try, Lock("routers"), Try, Lock("transport2router"),
                  Lock("endpoints"), Send>>
<1>1. Walk(rank, {}, p, Locks)
  BY DEF Common, Walk, OrderedFrom, InOrder, Requests, Step, Locks, Use, Lock,
         Drop, Try, Send
<1> HIDE DEF p
<1>2. Obeys(rank, {}, Then(LessLoadedRouter, {p}), Locks)
  BY <1>1, LessLoadedRouterObeys, ObeysOne, ObeysThen
<1> QED BY <1>2 DEF CreateWebRTCEgress, p

\* The handlers and callbacks of a single path, but the two that end things.
LEMMA ShortHandlersObey ==
    ASSUME NEW rank, Common(rank)
    PROVE  /\ Obeys(rank, {}, ConnectWebRTC, Locks)
           /\ Obeys(rank, {}, RestartIce, Locks)
           /\ Obeys(rank, {}, ConsumerPauseResume, Locks)
           /\ Obeys(rank, {}, ProducerPauseResume, Locks)
           /\ Obeys(rank, {}, ProducerClose, Locks)
           /\ Obeys(rank, {}, StorePipeRelay, Locks)
           /\ Obeys(rank, {}, ConnectPipeRelay, Locks)
           /\ Obeys(rank, {}, TransportClosed, Locks)
           /\ Obeys(rank, {}, AudioProducerClosed, Locks)
           /\ Obeys(rank, {}, EgressRouterClosed, Locks)
<1>1. Walk(rank, {}, <<Try, Send>>, Locks)
  BY DEF Walk, OrderedFrom, InOrder, Requests, Step, Locks, Use, Lock, Drop,
         Try, Send
<1>2. Walk(rank, {}, <<Lock("consumers")>>, Locks)
  BY DEF Walk, OrderedFrom, InOrder, Requests, Step, Locks, Use, Lock, Drop,
         Try, Send
<1>3. Walk(rank, {}, <<Lock("audioProducers"), Try, Send>>, Locks)
  BY DEF Walk, OrderedFrom, InOrder, Requests, Step, Locks, Use, Lock, Drop,
         Try, Send
<1>4. Walk(rank, {}, <<Lock("videoProducers")>>, Locks)
  BY DEF Walk, OrderedFrom, InOrder, Requests, Step, Locks, Use, Lock, Drop,
         Try, Send
<1>5. Walk(rank, {}, <<Use("pendingRelays")>>, Locks)
  BY DEF Walk, OrderedFrom, InOrder, Requests, Step, Locks, Use, Lock, Drop,
         Try, Send
<1>6. Walk(rank, {}, <<Use("relays"), Try>>, Locks)
  BY DEF Walk, OrderedFrom, InOrder, Requests, Step, Locks, Use, Lock, Drop,
         Try, Send
<1>7. Walk(rank, {}, <<Lock("transport2router"), Lock("endpoints")>>, Locks)
  BY DEF Common, Walk, OrderedFrom, InOrder, Requests, Step, Locks, Use, Lock,
         Drop, Try, Send
<1>8. Walk(rank, {}, <<Lock("producers"), Lock("consumers")>>, Locks)
  BY DEF Common, Walk, OrderedFrom, InOrder, Requests, Step, Locks, Use, Lock,
         Drop, Try, Send
<1>9. Walk(rank, {}, <<Lock("relays")>>, Locks)
  BY DEF Walk, OrderedFrom, InOrder, Requests, Step, Locks, Use, Lock, Drop,
         Try, Send
<1> QED BY <1>1, <1>2, <1>3, <1>4, <1>5, <1>6, <1>7, <1>8, <1>9, ObeysOne
           DEF ConnectWebRTC, RestartIce, ConsumerPauseResume,
               ProducerPauseResume, ProducerClose, StorePipeRelay,
               ConnectPipeRelay, TransportClosed, AudioProducerClosed,
               EgressRouterClosed

LEMMA DestroyRouterGroupObeys ==
    ASSUME NEW rank \in [Locks -> Nat], Destroying(rank)
    PROVE  Obeys(rank, {}, DestroyRouterGroup, Locks)
<1>1. /\ rank["roomRouters"] \in Nat /\ rank["pendingRelays"] \in Nat
      /\ rank["relays"] \in Nat /\ rank["relayRouters"] \in Nat
      /\ rank["routers2workers"] \in Nat /\ rank["loads"] \in Nat
      /\ rank["routers"] \in Nat
  BY DEF Locks
<1>2. Walk(rank, {}, <<Lock("roomRouters"), Try, Lock("pendingRelays"), Lock("relays"),
                       Lock("relayRouters"), Lock("routers2workers"), Lock("loads"),
                       Lock("routers")>>, Locks)
  BY <1>1 DEF Destroying, Walk, OrderedFrom, InOrder, Requests, Step, Locks,
              Use, Lock, Drop, Try, Send
<1> QED BY <1>2, ObeysOne DEF DestroyRouterGroup

\* What disconnectTransport asks of an order.
Disconnecting(rank) ==
    /\ rank.producers < rank.consumers
    /\ rank.consumers < rank.audioProducers
    /\ rank.audioProducers < rank.data_consumer
    /\ rank.data_consumer < rank.data_producers
    /\ rank.data_producers < rank.videoProducers
    /\ rank.videoProducers < rank.peerconsumed
    /\ rank.peerconsumed < rank.peeraudioconsumed
    /\ rank.peeraudioconsumed < rank.peermovementconsumed
    /\ rank.peermovementconsumed < rank.peerdataconsumed
    /\ rank.peerdataconsumed < rank.transport2router
    /\ rank.peerdataconsumed < rank.routers2workers
    /\ rank.peerdataconsumed < rank.loads

LEMMA DisconnectTransportObeys ==
    ASSUME NEW rank \in [Locks -> Nat], Disconnecting(rank)
    PROVE  Obeys(rank, {}, DisconnectTransport, Locks)
<1> DEFINE H1 == {"producers", "consumers", "audioProducers", "data_consumer",
                  "data_producers"}
           H2 == H1 \cup {"videoProducers", "peerconsumed", "peeraudioconsumed",
                          "peermovementconsumed", "peerdataconsumed"}
           first == <<Lock("producers"), Lock("consumers"), Lock("audioProducers"),
                      Lock("data_consumer"), Lock("data_producers")>>
           second == <<Lock("videoProducers"), Lock("peerconsumed"),
                       Lock("peeraudioconsumed"), Lock("peermovementconsumed"),
                       Lock("peerdataconsumed")>>
           tables == <<Lock("producers"), Lock("consumers"), Lock("audioProducers"),
                       Lock("data_consumer"), Lock("data_producers"),
                       Lock("videoProducers"), Lock("peerconsumed"),
                       Lock("peeraudioconsumed"), Lock("peermovementconsumed"),
                       Lock("peerdataconsumed")>>
           rest == <<Use("transport2router"), Try, Use("routers2workers"), Try,
                     Use("loads")>>
<1>1. \A l \in H2 \cup {"transport2router", "routers2workers", "loads"} : rank[l] \in Nat
  BY DEF Locks
<1>2. /\ \A l \in H1 : rank[l] <= rank["data_producers"]
      /\ \A l \in H2 : rank[l] <= rank["peerdataconsumed"]
  BY <1>1 DEF Disconnecting
<1>3. /\ rank["data_producers"] < rank["videoProducers"]
      /\ rank["videoProducers"] < rank["peerconsumed"]
      /\ rank["peerconsumed"] < rank["peeraudioconsumed"]
      /\ rank["peeraudioconsumed"] < rank["peermovementconsumed"]
      /\ rank["peermovementconsumed"] < rank["peerdataconsumed"]
      /\ rank["peerdataconsumed"] < rank["transport2router"]
      /\ rank["peerdataconsumed"] < rank["routers2workers"]
      /\ rank["peerdataconsumed"] < rank["loads"]
  BY DEF Disconnecting
<1>4. Walk(rank, {}, first, H1)
  BY <1>1 DEF Disconnecting, Walk, OrderedFrom, InOrder, Requests, Step, Locks,
              Use, Lock, Drop, Try, Send
<1>5. /\ second \in Seq(Step)
      /\ InOrder(rank, second)
  BY <1>1, <1>3 DEF Walk, OrderedFrom, InOrder, Requests, Step, Locks, Use,
                    Lock, Drop, Try, Send
<1>6. ASSUME NEW h \in H1, NEW j \in DOMAIN second
      PROVE  rank[h] < rank[second[j].lock]
  <2>1. /\ rank["data_producers"] < rank["videoProducers"]
        /\ rank["data_producers"] < rank["peerconsumed"]
        /\ rank["data_producers"] < rank["peeraudioconsumed"]
        /\ rank["data_producers"] < rank["peermovementconsumed"]
        /\ rank["data_producers"] < rank["peerdataconsumed"]
    BY <1>1, <1>3
  <2>2. rank["data_producers"] < rank[second[j].lock] /\ second[j].lock \in H2
    BY <2>1 DEF Lock
  <2>3. /\ rank[h] \in Nat /\ rank["data_producers"] \in Nat
        /\ rank[second[j].lock] \in Nat
    BY <1>1, <2>2
  <2>4. rank[h] <= rank["data_producers"]
    BY <1>2
  <2> HIDE DEF second, H1, H2
  <2> QED BY <2>2, <2>3, <2>4
<1>7. OrderedFrom(rank, H1, second)
  <2> HIDE DEF second, H1
  <2> QED BY <1>5, <1>6 DEF OrderedFrom
<1>8. Walk(rank, H1, second, H2)
  <2>1. \A i \in DOMAIN second : second[i].lock \in H2
    BY DEF Lock
  <2> HIDE DEF second
  <2> QED BY <1>5, <1>7, <2>1 DEF Walk
<1>9. tables = first \o second
  OBVIOUS
<1>10. Walk(rank, H2, rest, Locks)
  <2>1. rest \in Seq(Step) /\ InOrder(rank, rest)
    BY DEF Walk, OrderedFrom, InOrder, Requests, Step, Locks, Use, Lock, Drop,
           Try, Send
  <2>2. ASSUME NEW h \in H2, NEW j \in DOMAIN rest, Requests(rest[j])
        PROVE  rank[h] < rank[rest[j].lock]
    <3>1. rest[j].lock \in {"transport2router", "routers2workers", "loads"}
      BY <2>2 DEF Use, Try, Requests
    <3>2. /\ rank[h] \in Nat /\ rank["peerdataconsumed"] \in Nat
          /\ rank[rest[j].lock] \in Nat
      BY <1>1, <3>1
    <3>3. rank[h] <= rank["peerdataconsumed"]
      BY <1>2
    <3>4. rank["peerdataconsumed"] < rank[rest[j].lock]
      BY <1>3, <3>1
    <3> HIDE DEF rest, H2
    <3> QED BY <3>2, <3>3, <3>4
  <2>3. H2 \subseteq Locks
    BY DEF Locks
  <2>4. \A i \in DOMAIN rest : rest[i].op # "lock"
    BY DEF Use, Try
  <2> HIDE DEF rest, H2
  <2> QED BY <2>1, <2>2, <2>3, <2>4 DEF Walk, OrderedFrom
<1>11. H2 \subseteq Locks
  BY DEF Locks
<1> HIDE DEF H1, H2, first, second, tables, rest
<1>12. Walk(rank, {}, tables, H2)
  BY <1>4, <1>8, <1>9, WalkThen
<1>13. Obeys(rank, H2, Optional({rest}), Locks)
  BY <1>10, <1>11, ObeysOne, ObeysOptional
<1>14. Obeys(rank, {}, Then({tables}, Optional({rest})), Locks)
  BY <1>12, <1>13, ObeysOne, ObeysThen
<1> QED BY <1>14 DEF DisconnectTransport, tables, rest

\* What the producers, consumers and relays ask of an order.
Producing(rank) ==
    /\ rank.audioProducers < rank.producers
    /\ rank.videoProducers < rank.producers
    /\ rank.producers < rank.relays
    /\ rank.relayRouters < rank.relays
    /\ rank.relays < rank.pendingRelays
    /\ rank.pendingRelays < rank.transport2router
    /\ rank.transport2router < rank.consumers
    /\ rank.peerconsumed < rank.consumers
    /\ rank.peeraudioconsumed < rank.consumers
    /\ rank.peerdataconsumed < rank.data_producers
    /\ rank.peermovementconsumed < rank.data_producers
    /\ rank.data_producers < rank.data_consumer

LEMMA ConsumerRelayObeys ==
    ASSUME NEW rank \in [Locks -> Nat], Producing(rank),
           NEW H \in {{"audioProducers", "producers"}, {"videoProducers"}}
    PROVE  Obeys(rank, H, ConsumerRelay, H)
<1> DEFINE p == <<Try, Use("transport2router"), Try, Use("relays"), Try, Send, Send,
                  Use("consumers")>>
<1>1. /\ rank["audioProducers"] \in Nat /\ rank["videoProducers"] \in Nat
      /\ rank["producers"] \in Nat /\ rank["relays"] \in Nat
      /\ rank["pendingRelays"] \in Nat /\ rank["transport2router"] \in Nat
      /\ rank["consumers"] \in Nat
  BY DEF Locks
<1>2. CASE H = {"audioProducers", "producers"}
  <2>1. Walk(rank, {"audioProducers", "producers"}, p, {"audioProducers", "producers"})
    BY <1>1 DEF Producing, Walk, OrderedFrom, InOrder, Requests, Step, Locks,
                Use, Lock, Drop, Try, Send
  <2> QED BY <1>2, <2>1, ObeysOne DEF ConsumerRelay
<1>3. CASE H = {"videoProducers"}
  <2>1. Walk(rank, {"videoProducers"}, p, {"videoProducers"})
    BY <1>1 DEF Producing, Walk, OrderedFrom, InOrder, Requests, Step, Locks,
                Use, Lock, Drop, Try, Send
  <2> QED BY <1>3, <2>1, ObeysOne DEF ConsumerRelay
<1> QED BY <1>2, <1>3

LEMMA CreateMediaProducerObeys ==
    ASSUME NEW rank \in [Locks -> Nat], Producing(rank)
    PROVE  Obeys(rank, {}, CreateMediaProducer, Locks)
<1> DEFINE A == {"audioProducers", "producers"}
           V == {"videoProducers"}
           audio == <<Try, Lock("audioProducers"), Lock("producers")>>
           video == <<Try, Lock("videoProducers")>>
           last  == <<Lock("producers")>>
<1>1. Walk(rank, {}, audio, A)
  BY DEF Producing, Walk, OrderedFrom, InOrder, Requests, Step, Locks, Use,
         Lock, Drop, Try, Send
<1>2. Walk(rank, {}, video, V)
  BY DEF Walk, OrderedFrom, InOrder, Requests, Step, Locks, Use, Lock, Drop,
         Try, Send
<1>3. Walk(rank, V, last, Locks)
  BY DEF Producing, Walk, OrderedFrom, InOrder, Requests, Step, Locks, Use,
         Lock, Drop, Try, Send
<1>4. Obeys(rank, A, ConsumerRelay, A) /\ Obeys(rank, V, ConsumerRelay, V)
  BY ConsumerRelayObeys
<1>5. A \subseteq Locks
  BY DEF Locks
<1> HIDE DEF A, V, audio, video, last
<1>6. Obeys(rank, A, ConsumerRelay, Locks)
  BY <1>4, <1>5 DEF Obeys, Walk
<1>7. Obeys(rank, {}, Then({audio}, ConsumerRelay), Locks)
  BY <1>1, <1>6, ObeysOne, ObeysThen
<1>8. Obeys(rank, V, Then(ConsumerRelay, {last}), Locks)
  BY <1>3, <1>4, ObeysOne, ObeysThen
<1>9. Obeys(rank, {}, Then({video}, Then(ConsumerRelay, {last})), Locks)
  BY <1>2, <1>8, ObeysOne, ObeysThen
<1> QED BY <1>7, <1>9, ObeysUnion DEF CreateMediaProducer, audio, video, last

LEMMA DataProducerObeys ==
    ASSUME NEW rank \in [Locks -> Nat], Producing(rank),
           NEW consumed \in {"peerdataconsumed", "peermovementconsumed"}
    PROVE  Obeys(rank, {}, DataProducer(consumed), Locks)
<1>1. /\ rank[consumed] \in Nat /\ rank["data_producers"] \in Nat
      /\ rank["data_consumer"] \in Nat
      /\ rank[consumed] < rank["data_producers"]
      /\ rank["data_producers"] < rank["data_consumer"]
  BY DEF Locks, Producing
<1>2. Walk(rank, {}, <<Try, Use("transport2router"), Try, Use("relays"), Try,
                       Use("endpoints"), Try, Lock(consumed), Lock("data_producers"),
                       Lock("data_consumer"), Send, Send>>, Locks)
  BY <1>1 DEF Walk, OrderedFrom, InOrder, Requests, Step, Locks, Use, Lock,
              Drop, Try, Send
<1> QED BY <1>2, ObeysOne DEF DataProducer

LEMMA MediaConsumerObeys ==
    ASSUME NEW rank, Producing(rank),
           NEW producersOf \in {"audioProducers", "videoProducers"},
           NEW consumed \in {"peerconsumed", "peeraudioconsumed"}
    PROVE  Obeys(rank, {}, MediaConsumer(producersOf, consumed), Locks)
<1> DEFINE peer == <<Use(producersOf)>>
           look == <<Use(consumed)>>
           skip == <<Try, Use("transport2router"), Try, Use("routers"), Try>>
           take == <<Try, Use("transport2router"), Try, Use("routers"), Try,
                     Lock(consumed), Lock("consumers"), Drop("consumers"),
                     Drop(consumed)>>
           each == {<<>>, skip, take}
           answer == <<Send>>
<1>1. rank[consumed] < rank["consumers"]
  BY DEF Producing
<1>2. Walk(rank, {}, peer, {})
  BY DEF Walk, OrderedFrom, InOrder, Requests, Step, Locks, Use, Lock, Drop,
         Try, Send
<1>3. Walk(rank, {}, look, {})
  BY DEF Walk, OrderedFrom, InOrder, Requests, Step, Locks, Use, Lock, Drop,
         Try, Send
<1>4. Obeys(rank, {}, each, {})
  <2>1. Walk(rank, {}, <<>>, {})
    BY DEF Walk, OrderedFrom, InOrder, Requests, Step, Locks, Use, Lock, Drop,
           Try, Send
  <2>2. Walk(rank, {}, skip, {})
    BY DEF Walk, OrderedFrom, InOrder, Requests, Step, Locks, Use, Lock, Drop,
           Try, Send
  <2>3. Walk(rank, {}, take, {})
    BY <1>1 DEF Walk, OrderedFrom, InOrder, Requests, Step, Locks, Use, Lock,
                Drop, Try, Send
  <2> HIDE DEF skip, take
  <2> QED BY <2>1, <2>2, <2>3 DEF Obeys
<1>5. Walk(rank, {}, answer, Locks)
  BY DEF Walk, OrderedFrom, InOrder, Requests, Step, Locks, Use, Lock, Drop,
         Try, Send
<1> HIDE DEF peer, look, each, answer
<1>6. Obeys(rank, {}, Loop(Then({look}, each)), {})
  BY <1>3, <1>4, ObeysOne, ObeysThen, ObeysLoop
<1>7. Obeys(rank, {}, Loop(Then({peer}, Loop(Then({look}, each)))), {})
  BY <1>2, <1>6, ObeysOne, ObeysThen, ObeysLoop
<1>8. Obeys(rank, {}, Optional({answer}), Locks)
  BY <1>5, ObeysOne, ObeysOptional
<1>9. Obeys(rank, {}, Then(Loop(Then({peer}, Loop(Then({look}, each)))),
                           Optional({answer})), Locks)
  BY <1>7, <1>8, ObeysThen
<1> QED BY <1>9 DEF MediaConsumer, peer, look, each, answer

LEMMA DataConsumerObeys ==
    ASSUME NEW rank \in [Locks -> Nat], Producing(rank),
           NEW consumed \in {"peerdataconsumed", "peermovementconsumed"}
    PROVE  Obeys(rank, {}, DataConsumer(consumed), Locks)
<1> DEFINE body == <<Try, Lock(consumed), Lock("data_consumer"),
                     Drop("data_consumer"), Drop(consumed)>>
           answer == <<Send>>
<1>1. rank[consumed] < rank["data_consumer"]
  <2>1. /\ rank[consumed] \in Nat /\ rank["data_producers"] \in Nat
        /\ rank["data_consumer"] \in Nat
    BY DEF Locks
  <2> QED BY <2>1 DEF Producing
<1>2. Walk(rank, {}, body, {})
  BY <1>1 DEF Walk, OrderedFrom, InOrder, Requests, Step, Locks, Use, Lock,
              Drop, Try, Send
<1>3. Walk(rank, {}, answer, Locks)
  BY DEF Walk, OrderedFrom, InOrder, Requests, Step, Locks, Use, Lock, Drop,
         Try, Send
<1> HIDE DEF body, answer
<1>4. Obeys(rank, {}, Loop({body}), {})
  BY <1>2, ObeysOne, ObeysLoop
<1>5. Obeys(rank, {}, Optional({answer}), Locks)
  BY <1>3, ObeysOne, ObeysOptional
<1>6. Obeys(rank, {}, Then(Loop({body}), Optional({answer})), Locks)
  BY <1>4, <1>5, ObeysThen
<1> QED BY <1>6 DEF DataConsumer, body, answer

LEMMA EgressRelayObeys ==
    ASSUME NEW rank \in [Locks -> Nat], Common(rank), Producing(rank)
    PROVE  Obeys(rank, {}, EgressRelay, {})
<1> DEFINE look == <<Use("relays")>>
           open == <<Try, Use("routers"), Try, Lock("relayRouters"), Try,
                     Lock("relays"), Use("pendingRelays"), Try, Send,
                     Drop("relays"), Drop("relayRouters")>>
<1>1. /\ rank["relayRouters"] \in Nat /\ rank["relays"] \in Nat
      /\ rank["pendingRelays"] \in Nat
  BY DEF Locks
<1>2. Walk(rank, {}, look, {})
  BY DEF Walk, OrderedFrom, InOrder, Requests, Step, Locks, Use, Lock, Drop,
         Try, Send
<1>3. Walk(rank, {}, open, {})
  BY <1>1 DEF Producing, Walk, OrderedFrom, InOrder, Requests, Step, Locks, Use,
              Lock, Drop, Try, Send
<1> HIDE DEF look, open
<1>4. Obeys(rank, {}, Then(LessLoadedRouter, {open}), {})
  BY <1>3, LessLoadedRouterObeys, ObeysOne, ObeysThen
<1>5. Obeys(rank, {}, Optional(Then(LessLoadedRouter, {open})), {})
  BY <1>4, ObeysOptional
<1>6. Obeys(rank, {}, Then({look}, Optional(Then(LessLoadedRouter, {open}))), {})
  BY <1>2, <1>5, ObeysOne, ObeysThen
<1> QED BY <1>6 DEF EgressRelay, look, open

LEMMA MediaRelayProducerObeys ==
    ASSUME NEW rank, Producing(rank)
    PROVE  Obeys(rank, {}, MediaRelayProducer, Locks)
<1> DEFINE look == <<Use("relays"), Try, Use("roomRouters"), Use("relayRouters")>>
           body == <<Use("routers"), Use("routers"), Try, Use("routers"), Try>>
           audio == <<Lock("audioProducers"), Send, Lock("producers")>>
           video == <<Lock("videoProducers"), Send, Lock("producers")>>
<1>1. Walk(rank, {}, look, {})
  BY DEF Walk, OrderedFrom, InOrder, Requests, Step, Locks, Use, Lock, Drop,
         Try, Send
<1>2. Walk(rank, {}, body, {})
  BY DEF Walk, OrderedFrom, InOrder, Requests, Step, Locks, Use, Lock, Drop,
         Try, Send
<1>3. Walk(rank, {}, audio, Locks)
  BY DEF Producing, Walk, OrderedFrom, InOrder, Requests, Step, Locks, Use,
         Lock, Drop, Try, Send
<1>4. Walk(rank, {}, video, Locks)
  BY DEF Producing, Walk, OrderedFrom, InOrder, Requests, Step, Locks, Use,
         Lock, Drop, Try, Send
<1> HIDE DEF look, body, audio, video
<1>5. Obeys(rank, {}, Loop({body}), {})
  BY <1>2, ObeysOne, ObeysLoop
<1>6. Obeys(rank, {}, {audio, video}, Locks)
  BY <1>3, <1>4 DEF Obeys
<1>7. Obeys(rank, {}, Then(Loop({body}), {audio, video}), Locks)
  BY <1>5, <1>6, ObeysThen
<1>8. Obeys(rank, {}, Then({look}, Then(Loop({body}), {audio, video})), Locks)
  BY <1>1, <1>7, ObeysOne, ObeysThen
<1> QED BY <1>8 DEF MediaRelayProducer, look, body, audio, video

LEMMA DataRelayProducerObeys ==
    ASSUME NEW rank
    PROVE  Obeys(rank, {}, DataRelayProducer, Locks)
<1> DEFINE look == <<Try, Use("relays"), Try, Use("roomRouters"), Use("relayRouters")>>
           body == <<Use("routers"), Lock("routers"), Try, Drop("routers")>>
           last == <<Try, Lock("data_producers"), Send>>
<1>1. Walk(rank, {}, look, {})
  BY DEF Walk, OrderedFrom, InOrder, Requests, Step, Locks, Use, Lock, Drop,
         Try, Send
<1>2. Walk(rank, {}, body, {})
  BY DEF Walk, OrderedFrom, InOrder, Requests, Step, Locks, Use, Lock, Drop,
         Try, Send
<1>3. Walk(rank, {}, last, Locks)
  BY DEF Walk, OrderedFrom, InOrder, Requests, Step, Locks, Use, Lock, Drop,
         Try, Send
<1> HIDE DEF look, body, last
<1>4. Obeys(rank, {}, Loop({body}), {})
  BY <1>2, ObeysOne, ObeysLoop
<1>5. Obeys(rank, {}, Then(Loop({body}), {last}), Locks)
  BY <1>3, <1>4, ObeysOne, ObeysThen
<1>6. Obeys(rank, {}, Then({look}, Then(Loop({body}), {last})), Locks)
  BY <1>1, <1>5, ObeysOne, ObeysThen
<1> QED BY <1>6 DEF DataRelayProducer, look, body, last

LEMMA CreateRelayProducerObeys ==
    ASSUME NEW rank \in [Locks -> Nat], Common(rank), Producing(rank)
    PROVE  Obeys(rank, {}, CreateRelayProducer, Locks)
<1>1. Obeys(rank, {}, MediaRelayProducer \cup DataRelayProducer, Locks)
  BY MediaRelayProducerObeys, DataRelayProducerObeys, ObeysUnion
<1>2. Obeys(rank, {}, Optional(MediaRelayProducer \cup DataRelayProducer), Locks)
  BY <1>1, ObeysOptional
<1> QED BY <1>2, EgressRelayObeys, ObeysThen DEF CreateRelayProducer

-----------------------------------------------------------------------------
(* The invariant.                                                          *)

LEMMA NotAMessage == "new" \notin Messages /\ "done" \notin Messages
BY MessagesAssumption DEF Handlers, Callbacks

LEMMA InitInv ==
    ASSUME NEW rank, NEW M, Init
    PROVE  IInv(rank, M)
<1>1. StateInv
  BY DEF Init, StateInv
<1>2. IdleInv
  BY MediaTasksAssumption DEF Init, IdleInv, Has
<1>3. OrderInv(rank, M)
  BY DEF Init, OrderInv
<1>4. WaitInv /\ UniqueInv
  BY DEF Init, WaitInv, UniqueInv, Waiting
<1> QED BY <1>1, <1>2, <1>3, <1>4 DEF IInv

\* A handler is spawned with paths that are in order, and without a guard.
LEMMA SpawnInv ==
    ASSUME Typed(Messages), NEW rank, NEW M, PathsInOrder(rank, M), IInv(rank, M),
           NEW t \in Tasks, NEW m \in Messages, Spawn(t, m)
    PROVE  IInv(rank, M)'
<1> USE DEF IInv
<1>1. /\ handling[t] = "new"
      /\ handling' = [handling EXCEPT ![t] = m]
      /\ todo' = [todo EXCEPT ![t] = Paths(m)]
      /\ guard' = guard /\ waiters' = waiters
  BY DEF Spawn
<1>2. todo[t] = {} /\ Has(t) = {}
  BY <1>1 DEF IdleInv
<1>3. \A p \in Paths(m) : p \in Seq(Step) /\ (m \in M => InOrder(rank, p))
  BY DEF PathsInOrder, Typed
<1>4. \A u \in Tasks : Has(u)' = Has(u)
  BY <1>1 DEF Has
<1>5. StateInv'
  BY <1>1, <1>3 DEF StateInv
<1>6. IdleInv'
  <2> SUFFICES ASSUME NEW u \in Tasks, handling'[u] \in {"new", "done"}
               PROVE  todo'[u] = {} /\ Has(u)' = {}
    BY DEF IdleInv
  <2>1. u # t
    BY <1>1, NotAMessage DEF StateInv
  <2> QED BY <2>1, <1>1, <1>4 DEF IdleInv, StateInv
<1>7. OrderInv(rank, M)'
  <2> SUFFICES ASSUME NEW u \in Tasks, handling'[u] \in M, NEW p \in todo'[u]
               PROVE  OrderedFrom(rank, Has(u), p)
    BY <1>4 DEF OrderInv
  <2>1. CASE u = t
    <3>1. p \in Paths(m) /\ m \in M
      BY <1>1, <2>1 DEF StateInv
    <3> QED BY <3>1, <1>2, <1>3, <2>1 DEF OrderedFrom
  <2>2. CASE u # t
    BY <2>2, <1>1 DEF OrderInv, StateInv
  <2> QED BY <2>1, <2>2
<1>8. WaitInv'
  <2> SUFFICES ASSUME NEW u \in Tasks, NEW l \in Locks, Waiting(u, l)
               PROVE  /\ todo'[u] # {}
                      /\ \A p \in todo'[u] :
                            p # <<>> /\ Requests(Head(p)) /\ Head(p).lock = l
    BY <1>1 DEF WaitInv, Waiting
  <2>1. u # t
    BY <1>2 DEF WaitInv
  <2> QED BY <2>1, <1>1 DEF WaitInv, StateInv
<1>9. UniqueInv'
  BY <1>1 DEF UniqueInv
<1> QED BY <1>5, <1>6, <1>7, <1>8, <1>9

\* What After and Steps give: paths of t, one step shorter.
LEMMA AfterFacts ==
    ASSUME StateInv, NEW t \in Tasks, NEW s \in Steps(t)
    PROVE  /\ After(t, s) \in SUBSET Seq(Step)
           /\ s \in Step
           /\ \A q \in After(t, s) :
                 \E p \in todo[t] : p \in Seq(Step) /\ p # <<>> /\ Head(p) = s /\ q = Tail(p)
           /\ \E p \in todo[t] : p \in Seq(Step) /\ p # <<>> /\ Head(p) = s
<1>1. \A p \in todo[t] : p \in Seq(Step)
  BY DEF StateInv
<1>2. PICK p \in todo[t] : p # <<>> /\ Head(p) = s
  BY DEF Steps
<1>3. s \in Step
  BY <1>1, <1>2, TailFacts
<1>4. \A q \in After(t, s) :
         \E r \in todo[t] : r \in Seq(Step) /\ r # <<>> /\ Head(r) = s /\ q = Tail(r)
  BY <1>1 DEF After
<1>5. After(t, s) \in SUBSET Seq(Step)
  BY <1>4, TailFacts
<1> QED BY <1>1, <1>2, <1>3, <1>4, <1>5

\* A task that is at a step other than a request waits for no guard; one that
\* requests a lock waits for no other.
LEMMA WaitsForOne ==
    ASSUME StateInv, WaitInv, NEW t \in Tasks, NEW s \in Steps(t),
           NEW l \in Locks, Waiting(t, l)
    PROVE  Requests(s) /\ s.lock = l
BY DEF WaitInv, Steps

\* A step of t that is no request leaves the waiting tasks as they are.
LEMMA WaitUnchanged ==
    ASSUME StateInv, WaitInv, NEW t \in Tasks,
           \A l \in Locks : ~ Waiting(t, l),
           waiters' = waiters,
           \A u \in Tasks \ {t} : todo'[u] = todo[u]
    PROVE  WaitInv'
<1> SUFFICES ASSUME NEW u \in Tasks, NEW l \in Locks, Waiting(u, l)
             PROVE  /\ todo'[u] # {}
                    /\ \A p \in todo'[u] :
                          p # <<>> /\ Requests(Head(p)) /\ Head(p).lock = l
  BY DEF WaitInv, Waiting
<1>1. u # t
  OBVIOUS
<1> QED BY <1>1 DEF WaitInv

\* A task at some step of its handler has been spawned and has not returned.
LEMMA NotNew ==
    ASSUME IdleInv, NEW t \in Tasks, NEW s \in Steps(t)
    PROVE  handling[t] \notin {"new", "done"}
BY DEF IdleInv, Steps

\* What is left after a step that takes and drops nothing.
LEMMA StepInv ==
    ASSUME NEW rank, NEW M, IInv(rank, M), NEW t \in Tasks, NEW s \in Steps(t),
           s \in {Try, Send},
           todo' = [todo EXCEPT ![t] = After(t, s)],
           UNCHANGED <<handling, guard, waiters>>
    PROVE  IInv(rank, M)'
<1> USE DEF IInv
<1>1. StateInv'
  BY AfterFacts DEF StateInv
<1>2. \A u \in Tasks : Has(u)' = Has(u)
  BY DEF Has
<1>3. \A u \in Tasks \ {t} : todo'[u] = todo[u]
  BY DEF StateInv
<1>4. todo'[t] = After(t, s)
  BY DEF StateInv
<1>5. IdleInv'
  BY <1>2, <1>3, NotNew DEF IdleInv
<1>6. OrderInv(rank, M)'
  <2> SUFFICES ASSUME NEW u \in Tasks, handling'[u] \in M, NEW q \in todo'[u]
               PROVE  OrderedFrom(rank, Has(u), q)
    BY <1>2 DEF OrderInv
  <2>1. CASE u # t
    BY <2>1, <1>3 DEF OrderInv
  <2>2. CASE u = t
    <3>1. PICK p \in todo[t] : p \in Seq(Step) /\ p # <<>> /\ Head(p) = s /\ q = Tail(p)
      BY <2>2, <1>4, AfterFacts
    <3>2. \A h \in Has(t) : Head(p) # Drop(h)
      BY <3>1 DEF Try, Send, Drop
    <3>3. OrderedFrom(rank, Has(t), p)
      BY <2>2 DEF OrderInv
    <3> QED BY <3>1, <3>2, <3>3, OrderedTail, <2>2
  <2> QED BY <2>1, <2>2
<1>7. WaitInv'
  <2>1. \A l \in Locks : ~ Waiting(t, l)
    BY WaitsForOne DEF Requests, Try, Send
  <2> QED BY <2>1, <1>3, WaitUnchanged
<1>8. UniqueInv'
  BY DEF UniqueInv
<1> QED BY <1>1, <1>5, <1>6, <1>7, <1>8

LEMMA DropInv ==
    ASSUME NEW rank, NEW M, IInv(rank, M), NEW t \in Tasks, DropGuard(t)
    PROVE  IInv(rank, M)'
<1> USE DEF IInv
<1>0. PICK s \in Steps(t) :
        /\ s.op = "drop"
        /\ guard[s.lock] = t
        /\ guard' = [guard EXCEPT ![s.lock] = NoTask]
        /\ todo' = [todo EXCEPT ![t] = After(t, s)]
        /\ UNCHANGED <<handling, waiters, channel, loop>>
  BY DEF DropGuard
<1>a. s \in Step /\ s.lock \in Locks /\ s = Drop(s.lock)
  BY <1>0, AfterFacts, StepForm
<1>1. StateInv'
  BY <1>0, <1>a, AfterFacts DEF StateInv
<1>2. /\ \A u \in Tasks \ {t} : Has(u)' \subseteq Has(u)
      /\ Has(t)' = Has(t) \ {s.lock}
  BY <1>0, <1>a, MediaTasksAssumption DEF Has, StateInv
<1>3. \A u \in Tasks \ {t} : todo'[u] = todo[u]
  BY <1>0 DEF StateInv
<1>4. todo'[t] = After(t, s)
  BY <1>0 DEF StateInv
<1>5. IdleInv'
  BY <1>0, <1>2, <1>3, NotNew DEF IdleInv
<1>6. OrderInv(rank, M)'
  <2> SUFFICES ASSUME NEW u \in Tasks, handling'[u] \in M, NEW q \in todo'[u]
               PROVE  OrderedFrom(rank, Has(u)', q)
    BY DEF OrderInv
  <2>1. CASE u # t
    <3>1. OrderedFrom(rank, Has(u), q)
      BY <2>1, <1>0, <1>3 DEF OrderInv
    <3> QED BY <2>1, <3>1, <1>2, OrderedFewer
  <2>2. CASE u = t
    <3>1. PICK p \in todo[t] : p \in Seq(Step) /\ p # <<>> /\ Head(p) = s /\ q = Tail(p)
      BY <2>2, <1>4, AfterFacts, <1>0
    <3>2. \A h \in Has(t) \ {s.lock} : Head(p) # Drop(h)
      BY <3>1, <1>a DEF Drop
    <3>3. OrderedFrom(rank, Has(t), p)
      BY <2>2, <1>0 DEF OrderInv
    <3>4. OrderedFrom(rank, Has(t) \ {s.lock}, p)
      BY <3>3, OrderedFewer
    <3>5. OrderedFrom(rank, Has(t) \ {s.lock}, Tail(p))
      BY <3>1, <3>2, <3>4, OrderedTail
    <3> QED BY <3>1, <3>5, <2>2, <1>2
  <2> QED BY <2>1, <2>2
<1>7. WaitInv'
  <2>1. \A l \in Locks : ~ Waiting(t, l)
    BY <1>0, WaitsForOne DEF Requests
  <2> QED BY <2>1, <1>0, <1>3, WaitUnchanged
<1>8. UniqueInv'
  BY <1>0 DEF UniqueInv
<1> QED BY <1>1, <1>5, <1>6, <1>7, <1>8

LEMMA ReturnInv ==
    ASSUME NEW rank, NEW M, IInv(rank, M), NEW t \in Tasks, Return(t)
    PROVE  IInv(rank, M)'
<1> USE DEF IInv
<1>0. /\ Try \in Steps(t) \/ <<>> \in todo[t]
      /\ handling' = [handling EXCEPT ![t] = "done"]
      /\ todo' = [todo EXCEPT ![t] = {}]
      /\ guard' = [l \in Locks |-> IF guard[l] = t THEN NoTask ELSE guard[l]]
      /\ waiters' = waiters
  BY DEF Return
<1>1. StateInv'
  BY <1>0 DEF StateInv
<1>2. \A u \in Tasks : Has(u)' \subseteq Has(u)
  BY <1>0, MediaTasksAssumption DEF Has
<1>3. \A u \in Tasks \ {t} : todo'[u] = todo[u]
  BY <1>0 DEF StateInv
<1>4. todo'[t] = {}
  BY <1>0 DEF StateInv
<1>9. Has(t)' = {}
  BY <1>0, MediaTasksAssumption DEF Has
<1>5. IdleInv'
  <2> SUFFICES ASSUME NEW u \in Tasks, handling'[u] \in {"new", "done"}
               PROVE  todo'[u] = {} /\ Has(u)' = {}
    BY DEF IdleInv
  <2>1. CASE u = t
    BY <2>1, <1>4, <1>9
  <2>2. CASE u # t
    BY <2>2, <1>0, <1>2, <1>3 DEF IdleInv, StateInv
  <2> QED BY <2>1, <2>2
<1>6. OrderInv(rank, M)'
  <2> SUFFICES ASSUME NEW u \in Tasks, handling'[u] \in M, NEW q \in todo'[u]
               PROVE  OrderedFrom(rank, Has(u)', q)
    BY DEF OrderInv
  <2>1. u # t
    BY <1>4
  <2>2. OrderedFrom(rank, Has(u), q)
    BY <2>1, <1>0, <1>3 DEF OrderInv
  <2> QED BY <2>2, <1>2, OrderedFewer
<1>7. WaitInv'
  <2>1. \A l \in Locks : ~ Waiting(t, l)
    BY <1>0, WaitsForOne DEF Requests, Try, WaitInv
  <2> QED BY <2>1, <1>0, <1>3, WaitUnchanged
<1>8. UniqueInv'
  BY <1>0 DEF UniqueInv
<1> QED BY <1>1, <1>5, <1>6, <1>7, <1>8

LEMMA QueueTail ==
    ASSUME NEW S, NEW w \in Seq(S), w # <<>>
    PROVE  /\ Tail(w) \in Seq(S)
           /\ Head(w) = w[1] /\ 1 \in DOMAIN w
           /\ \A i \in DOMAIN Tail(w) :
                 i \in Nat \ {0} /\ i + 1 \in DOMAIN w /\ Tail(w)[i] = w[i + 1]
OBVIOUS

LEMMA QueueAppend ==
    ASSUME NEW S, NEW w \in Seq(S), NEW t \in S
    PROVE  /\ Append(w, t) \in Seq(S)
           /\ \A i \in DOMAIN Append(w, t) :
                 \/ i \in DOMAIN w /\ Append(w, t)[i] = w[i]
                 \/ i = Len(w) + 1 /\ Append(w, t)[i] = t
           /\ Len(w) + 1 \notin DOMAIN w
OBVIOUS

\* The task at the head of a queue takes the lock and leaves the queue.
LEMMA AcquireInv ==
    ASSUME NEW rank, NEW M, IInv(rank, M), NEW t \in Tasks, Acquire(t)
    PROVE  IInv(rank, M)'
<1> USE DEF IInv
<1>0. PICK s \in Steps(t) :
        /\ Requests(s)
        /\ guard[s.lock] = NoTask
        /\ waiters[s.lock] # <<>> => Head(waiters[s.lock]) = t
        /\ guard' = IF s.op = "lock" THEN [guard EXCEPT ![s.lock] = t] ELSE guard
        /\ waiters' = IF Waiting(t, s.lock)
                      THEN [waiters EXCEPT ![s.lock] = Tail(@)] ELSE waiters
        /\ todo' = [todo EXCEPT ![t] = After(t, s)]
        /\ UNCHANGED <<handling, channel, loop>>
  BY DEF Acquire
<1> DEFINE l == s.lock
<1>a. s \in Step /\ l \in Locks
  BY <1>0, AfterFacts, StepForm
<1>b. waiters[l] \in Seq(Tasks)
  BY <1>a DEF StateInv
<1>c. Waiting(t, l) => waiters[l] # <<>>
  BY <1>b DEF Waiting
<1>1. StateInv'
  <2>1. waiters' \in [Locks -> Seq(Tasks)]
    BY <1>0, <1>a, <1>b, <1>c, QueueTail DEF StateInv
  <2>2. guard' \in [Locks -> Tasks \cup {NoTask}]
    BY <1>0, <1>a DEF StateInv
  <2> QED BY <2>1, <2>2, <1>0, AfterFacts DEF StateInv
<1>2. \A u \in Tasks \ {t} : Has(u)' = Has(u) /\ todo'[u] = todo[u]
  BY <1>0, <1>a, MediaTasksAssumption DEF Has, StateInv
<1>3. Has(t)' = IF s.op = "lock" THEN Has(t) \cup {l} ELSE Has(t)
  BY <1>0, <1>a DEF Has, StateInv
<1>4. todo'[t] = After(t, s)
  BY <1>0 DEF StateInv
<1>5. IdleInv'
  BY <1>0, <1>2, NotNew DEF IdleInv
<1>6. OrderInv(rank, M)'
  <2> SUFFICES ASSUME NEW u \in Tasks, handling'[u] \in M, NEW q \in todo'[u]
               PROVE  OrderedFrom(rank, Has(u)', q)
    BY DEF OrderInv
  <2>1. CASE u # t
    BY <2>1, <1>0, <1>2 DEF OrderInv
  <2>2. CASE u = t
    <3>1. PICK p \in todo[t] : p \in Seq(Step) /\ p # <<>> /\ Head(p) = s /\ q = Tail(p)
      BY <2>2, <1>4, AfterFacts, <1>0
    <3>2. OrderedFrom(rank, Has(t), p)
      BY <2>2, <1>0 DEF OrderInv
    <3>3. CASE s.op = "lock"
      BY <3>1, <3>2, <3>3, <1>3, <2>2, OrderedLock
    <3>4. CASE s.op # "lock"
      <4>1. \A h \in Has(t) : Head(p) # Drop(h)
        BY <3>1, <1>0 DEF Drop, Requests
      <4> QED BY <3>1, <3>2, <3>4, <4>1, <1>3, <2>2, OrderedTail
    <3> QED BY <3>3, <3>4
  <2> QED BY <2>1, <2>2
<1>7. \A k \in Locks : \A i \in DOMAIN waiters'[k] :
        \E j \in DOMAIN waiters[k] :
           /\ waiters'[k][i] = waiters[k][j]
           /\ Waiting(t, l) /\ k = l => i \in Nat /\ j = i + 1 /\ j # 1
           /\ ~ (Waiting(t, l) /\ k = l) => j = i
  <2> SUFFICES ASSUME NEW k \in Locks, NEW i \in DOMAIN waiters'[k]
               PROVE  \E j \in DOMAIN waiters[k] :
                         /\ waiters'[k][i] = waiters[k][j]
                         /\ Waiting(t, l) /\ k = l => i \in Nat /\ j = i + 1 /\ j # 1
                         /\ ~ (Waiting(t, l) /\ k = l) => j = i
    OBVIOUS
  <2>1. CASE Waiting(t, l) /\ k = l
    <3>1. waiters'[k] = Tail(waiters[l])
      BY <2>1, <1>0, <1>a DEF StateInv
    <3>2. /\ i \in Nat \ {0} /\ i + 1 \in DOMAIN waiters[l]
          /\ waiters'[k][i] = waiters[l][i + 1]
      BY <3>1, <2>1, <1>b, <1>c, QueueTail
    <3>3. i + 1 # 1
      BY <3>2
    <3> QED BY <3>2, <3>3, <2>1
  <2>2. CASE ~ (Waiting(t, l) /\ k = l)
    <3>1. waiters'[k] = waiters[k]
      BY <2>2, <1>0, <1>a DEF StateInv
    <3> QED BY <3>1, <2>2
  <2> QED BY <2>1, <2>2
<1>8. WaitInv'
  <2> SUFFICES ASSUME NEW u \in Tasks, NEW k \in Locks, Waiting(u, k)'
               PROVE  /\ todo'[u] # {}
                      /\ \A p \in todo'[u] :
                            p # <<>> /\ Requests(Head(p)) /\ Head(p).lock = k
    BY DEF WaitInv
  <2>1. PICK i \in DOMAIN waiters'[k] : waiters'[k][i] = u
    BY DEF Waiting
  <2>2. PICK j \in DOMAIN waiters[k] :
           /\ u = waiters[k][j]
           /\ Waiting(t, l) /\ k = l => j # 1
    BY <2>1, <1>7
  <2>3. Waiting(u, k)
    BY <2>2 DEF Waiting
  <2>4. u # t
    <3> SUFFICES ASSUME u = t PROVE FALSE
      OBVIOUS
    <3>1. k = l
      BY <2>3, WaitsForOne
    <3>2. waiters[l] # <<>> /\ Head(waiters[l]) = t
      BY <2>3, <3>1, <1>c, <1>0
    <3>3. waiters[l][1] = t /\ 1 \in DOMAIN waiters[l]
      BY <3>2, <1>b, QueueTail
    <3> QED BY <3>1, <3>3, <2>2, <2>3, <1>a DEF UniqueInv
  <2> QED BY <2>3, <2>4, <1>2 DEF WaitInv
<1>9. UniqueInv'
  <2> SUFFICES ASSUME NEW k \in Locks, NEW i1 \in DOMAIN waiters'[k],
                      NEW i2 \in DOMAIN waiters'[k],
                      waiters'[k][i1] = waiters'[k][i2]
               PROVE  i1 = i2
    BY DEF UniqueInv
  <2>1. PICK j1 \in DOMAIN waiters[k] :
           /\ waiters'[k][i1] = waiters[k][j1]
           /\ Waiting(t, l) /\ k = l => i1 \in Nat /\ j1 = i1 + 1
           /\ ~ (Waiting(t, l) /\ k = l) => j1 = i1
    BY <1>7
  <2>2. PICK j2 \in DOMAIN waiters[k] :
           /\ waiters'[k][i2] = waiters[k][j2]
           /\ Waiting(t, l) /\ k = l => i2 \in Nat /\ j2 = i2 + 1
           /\ ~ (Waiting(t, l) /\ k = l) => j2 = i2
    BY <1>7
  <2>3. j1 = j2
    BY <2>1, <2>2 DEF UniqueInv
  <2> QED BY <2>1, <2>2, <2>3
<1> QED BY <1>1, <1>5, <1>6, <1>8, <1>9

\* A task joins a queue once, and keeps to the request it made.
LEMMA EnqueueInv ==
    ASSUME NEW rank, NEW M, IInv(rank, M), NEW t \in Tasks, Enqueue(t)
    PROVE  IInv(rank, M)'
<1> USE DEF IInv
<1>0. PICK s \in Steps(t) :
        /\ Requests(s)
        /\ ~ Waiting(t, s.lock)
        /\ waiters' = [waiters EXCEPT ![s.lock] = Append(@, t)]
        /\ todo' = [todo EXCEPT ![t] = {p \in todo[t] \ {<<>>} : Head(p) = s}]
        /\ UNCHANGED <<handling, guard, channel, loop>>
  BY DEF Enqueue
<1> DEFINE l == s.lock
<1>a. s \in Step /\ l \in Locks
  BY <1>0, AfterFacts, StepForm
<1>b. waiters[l] \in Seq(Tasks)
  BY <1>a DEF StateInv
<1>1. StateInv'
  <2>1. waiters' \in [Locks -> Seq(Tasks)]
    BY <1>0, <1>a, <1>b, QueueAppend DEF StateInv
  <2> QED BY <2>1, <1>0 DEF StateInv
<1>2. \A u \in Tasks : Has(u)' = Has(u) /\ todo'[u] \subseteq todo[u]
  BY <1>0 DEF Has, StateInv
<1>3. \A u \in Tasks \ {t} : todo'[u] = todo[u]
  BY <1>0 DEF StateInv
<1>4. todo'[t] = {p \in todo[t] \ {<<>>} : Head(p) = s}
  BY <1>0 DEF StateInv
<1>5. IdleInv'
  BY <1>0, <1>2 DEF IdleInv
<1>6. OrderInv(rank, M)'
  BY <1>0, <1>2 DEF OrderInv
<1>7. \A k \in Locks : \A i \in DOMAIN waiters'[k] :
        \/ i \in DOMAIN waiters[k] /\ waiters'[k][i] = waiters[k][i]
        \/ k = l /\ i = Len(waiters[l]) + 1 /\ waiters'[k][i] = t
  BY <1>0, <1>a, <1>b, QueueAppend DEF StateInv
<1>8. WaitInv'
  <2> SUFFICES ASSUME NEW u \in Tasks, NEW k \in Locks, Waiting(u, k)'
               PROVE  /\ todo'[u] # {}
                      /\ \A p \in todo'[u] :
                            p # <<>> /\ Requests(Head(p)) /\ Head(p).lock = k
    BY DEF WaitInv
  <2>1. Waiting(u, k) \/ (u = t /\ k = l)
    BY <1>7 DEF Waiting
  <2>2. CASE u = t
    <3>1. k = l
      BY <2>1, <2>2, WaitsForOne
    <3>2. todo'[t] # {}
      BY <1>4, <1>0, AfterFacts
    <3> QED BY <3>1, <3>2, <2>2, <1>4, <1>0
  <2>3. CASE u # t
    BY <2>1, <2>3, <1>3 DEF WaitInv
  <2> QED BY <2>2, <2>3
<1>9. UniqueInv'
  <2> SUFFICES ASSUME NEW k \in Locks, NEW i \in DOMAIN waiters'[k],
                      NEW j \in DOMAIN waiters'[k],
                      waiters'[k][i] = waiters'[k][j]
               PROVE  i = j
    BY DEF UniqueInv
  <2>1. \A n \in DOMAIN waiters[l] : waiters[l][n] # t
    BY <1>0 DEF Waiting
  <2> QED BY <2>1, <1>7 DEF UniqueInv
<1> QED BY <1>1, <1>5, <1>6, <1>8, <1>9

-----------------------------------------------------------------------------
(* The theorem.                                                            *)

LEMMA StutterInv ==
    ASSUME NEW rank, NEW M, IInv(rank, M), UNCHANGED <<handling, todo, guard, waiters>>
    PROVE  IInv(rank, M)'
BY DEF IInv, StateInv, IdleInv, OrderInv, WaitInv, UniqueInv, Has, Waiting

LEMMA NextInv ==
    ASSUME Typed(Messages), NEW rank, NEW M, PathsInOrder(rank, M), IInv(rank, M), [Next]_vars
    PROVE  IInv(rank, M)'
<1>1. ASSUME NEW t \in Tasks, ReadMessage(t) PROVE IInv(rank, M)'
  BY <1>1, SpawnInv DEF ReadMessage
<1>2. ASSUME NEW t \in Tasks, OnClose(t) PROVE IInv(rank, M)'
  BY <1>2, SpawnInv DEF OnClose
<1>3. ASSUME NEW t \in Tasks, GoOn(t) PROVE IInv(rank, M)'
  BY <1>3, StepInv DEF GoOn
<1>4. ASSUME NEW t \in Tasks, SendResponse(t) PROVE IInv(rank, M)'
  BY <1>4, StepInv DEF SendResponse
<1>5. ASSUME NEW t \in Tasks, TaskStep(t) PROVE IInv(rank, M)'
  BY <1>3, <1>4, <1>5, AcquireInv, EnqueueInv, DropInv, ReturnInv DEF TaskStep
<1>6. CASE Receive
  BY <1>6, StutterInv DEF Receive
<1>7. CASE UNCHANGED vars
  BY <1>7, StutterInv DEF vars
<1> QED BY <1>1, <1>2, <1>5, <1>6, <1>7 DEF Next

-----------------------------------------------------------------------------
(* A gate: a lock that some handlers take first and keep.                  *)

Gated(gate, m) ==
    \A p \in Paths(m) :
        /\ p # <<>> /\ Head(p) = Lock(gate)
        /\ \A k \in DOMAIN p : p[k] # Drop(gate)

LEMMA SpawnGate ==
    ASSUME NEW gate, NEW G, \A m \in G \cap Messages : Gated(gate, m),
           StateInv, IdleInv, GateInv(gate, G),
           NEW t \in Tasks, NEW m \in Messages, Spawn(t, m)
    PROVE  GateInv(gate, G)'
<1>1. /\ handling[t] = "new"
      /\ handling' = [handling EXCEPT ![t] = m]
      /\ todo' = [todo EXCEPT ![t] = Paths(m)]
      /\ guard' = guard
  BY DEF Spawn
<1>2. Has(t) = {} /\ \A u \in Tasks : Has(u)' = Has(u)
  BY <1>1 DEF IdleInv, Has
<1>3. handling'[t] = m /\ todo'[t] = Paths(m)
  BY <1>1 DEF StateInv
<1>4. \A u \in Tasks \ {t} : handling'[u] = handling[u] /\ todo'[u] = todo[u]
  BY <1>1 DEF StateInv
<1> SUFFICES ASSUME NEW u \in Tasks, handling'[u] \in G, NEW p \in todo'[u]
             PROVE  /\ \A k \in DOMAIN p : p[k] # Drop(gate)
                    /\ gate \notin Has(u) =>
                          Has(u) = {} /\ p # <<>> /\ Head(p) = Lock(gate)
  BY <1>2 DEF GateInv
<1>5. CASE u = t
  BY <1>2, <1>3, <1>5 DEF Gated
<1>6. CASE u # t
  BY <1>4, <1>6 DEF GateInv
<1> QED BY <1>5, <1>6

\* What the gate says of a task that takes step s: it has the gate, or takes it.
LEMMA GateTail ==
    ASSUME NEW gate \in Locks, NEW G, StateInv, GateInv(gate, G),
           NEW t \in Tasks, handling[t] \in G, NEW s \in Steps(t), NEW q \in After(t, s)
    PROVE  /\ \A k \in DOMAIN q : q[k] # Drop(gate)
           /\ s # Drop(gate)
           /\ gate \in Has(t) \/ s = Lock(gate)
<1>1. PICK p \in todo[t] : p \in Seq(Step) /\ p # <<>> /\ Head(p) = s /\ q = Tail(p)
  BY AfterFacts
<1>2. \A k \in DOMAIN p : p[k] # Drop(gate)
  BY <1>1 DEF GateInv
<1>3. \A k \in DOMAIN q : q[k] # Drop(gate)
  <2> SUFFICES ASSUME NEW k \in DOMAIN Tail(p) PROVE Tail(p)[k] # Drop(gate)
    BY <1>1
  <2>1. k + 1 \in DOMAIN p /\ Tail(p)[k] = p[k + 1]
    BY <1>1, TailFacts
  <2> QED BY <2>1, <1>2
<1>4. p[1] = s /\ 1 \in DOMAIN p
  BY <1>1, TailFacts
<1>5. gate \in Has(t) \/ s = Lock(gate)
  BY <1>1 DEF GateInv
<1> QED BY <1>2, <1>3, <1>4, <1>5

\* A step of t that leaves the guards of the others and its message as they are.
LEMMA GateOthers ==
    ASSUME NEW gate, NEW G, StateInv, GateInv(gate, G), NEW t \in Tasks,
           \A u \in Tasks \ {t} : /\ handling'[u] = handling[u]
                                  /\ todo'[u] = todo[u]
                                  /\ Has(u)' = Has(u),
           \A p \in todo'[t] : handling'[t] \in G =>
               /\ \A k \in DOMAIN p : p[k] # Drop(gate)
               /\ gate \notin Has(t)' =>
                     Has(t)' = {} /\ p # <<>> /\ Head(p) = Lock(gate)
    PROVE  GateInv(gate, G)'
<1> SUFFICES ASSUME NEW u \in Tasks, handling'[u] \in G, NEW p \in todo'[u]
             PROVE  /\ \A k \in DOMAIN p : p[k] # Drop(gate)
                    /\ gate \notin Has(u)' =>
                          Has(u)' = {} /\ p # <<>> /\ Head(p) = Lock(gate)
  BY DEF GateInv
<1>1. CASE u = t
  BY <1>1
<1>2. CASE u # t
  BY <1>2 DEF GateInv
<1> QED BY <1>1, <1>2

\* Only who takes the gate passes it, and who passed it keeps its guard.
LEMMA TaskGate ==
    ASSUME NEW gate \in Locks, NEW G, StateInv, GateInv(gate, G),
           NEW t \in Tasks, TaskStep(t)
    PROVE  GateInv(gate, G)'
<1>1. CASE Acquire(t)
  <2>1. PICK s \in Steps(t) :
          /\ guard[s.lock] = NoTask /\ Requests(s)
          /\ guard' = IF s.op = "lock" THEN [guard EXCEPT ![s.lock] = t] ELSE guard
          /\ todo' = [todo EXCEPT ![t] = After(t, s)]
          /\ handling' = handling
    BY <1>1 DEF Acquire
  <2>2. s \in Step /\ s.lock \in Locks
    BY <2>1, AfterFacts, StepForm
  <2>3. \A u \in Tasks \ {t} : todo'[u] = todo[u] /\ Has(u)' = Has(u)
    BY <2>1, <2>2, MediaTasksAssumption DEF Has, StateInv
  <2>4. Has(t)' = IF s.op = "lock" THEN Has(t) \cup {s.lock} ELSE Has(t)
    BY <2>1, <2>2 DEF Has, StateInv
  <2>5. todo'[t] = After(t, s)
    BY <2>1 DEF StateInv
  <2>6. s = Lock(gate) => s.op = "lock" /\ s.lock = gate
    BY DEF Lock
  <2>7. ASSUME NEW p \in todo'[t], handling[t] \in G
        PROVE  (\A k \in DOMAIN p : p[k] # Drop(gate)) /\ gate \in Has(t)'
    BY <2>4, <2>5, <2>6, <2>7, GateTail
  <2> QED BY <2>1, <2>3, <2>7, GateOthers
<1>2. CASE Enqueue(t)
  <2>1. PICK s :
          /\ todo' = [todo EXCEPT ![t] = {p \in todo[t] \ {<<>>} : Head(p) = s}]
          /\ handling' = handling /\ guard' = guard
    BY <1>2 DEF Enqueue
  <2>2. \A u \in Tasks : Has(u)' = Has(u) /\ todo'[u] \subseteq todo[u]
    BY <2>1 DEF Has, StateInv
  <2> QED BY <2>1, <2>2 DEF GateInv
<1>3. CASE DropGuard(t)
  <2>1. PICK s \in Steps(t) :
          /\ s.op = "drop"
          /\ guard[s.lock] = t
          /\ guard' = [guard EXCEPT ![s.lock] = NoTask]
          /\ todo' = [todo EXCEPT ![t] = After(t, s)]
          /\ handling' = handling
    BY <1>3 DEF DropGuard
  <2>2. s \in Step /\ s.lock \in Locks /\ s = Drop(s.lock)
    BY <2>1, AfterFacts, StepForm
  <2>3. \A u \in Tasks \ {t} : todo'[u] = todo[u] /\ Has(u)' = Has(u)
    BY <2>1, <2>2, MediaTasksAssumption DEF Has, StateInv
  <2>4. Has(t)' = Has(t) \ {s.lock}
    BY <2>1, <2>2, MediaTasksAssumption DEF Has, StateInv
  <2>5. todo'[t] = After(t, s)
    BY <2>1 DEF StateInv
  <2>6. s # Lock(gate)
    BY <2>1 DEF Lock
  <2>7. ASSUME NEW p \in todo'[t], handling[t] \in G
        PROVE  (\A k \in DOMAIN p : p[k] # Drop(gate)) /\ gate \in Has(t)'
    BY <2>2, <2>4, <2>5, <2>6, <2>7, GateTail
  <2> QED BY <2>1, <2>3, <2>7, GateOthers
<1>4. CASE GoOn(t) \/ SendResponse(t)
  <2>1. PICK s \in Steps(t) :
          /\ s \in {Try, Send}
          /\ todo' = [todo EXCEPT ![t] = After(t, s)]
          /\ handling' = handling /\ guard' = guard
    BY <1>4 DEF GoOn, SendResponse
  <2>2. \A u \in Tasks : Has(u)' = Has(u)
    BY <2>1 DEF Has
  <2>3. /\ todo'[t] = After(t, s)
        /\ \A u \in Tasks \ {t} : todo'[u] = todo[u]
    BY <2>1 DEF StateInv
  <2>4. s # Lock(gate)
    BY <2>1 DEF Lock, Try, Send
  <2>5. ASSUME NEW p \in todo'[t], handling[t] \in G
        PROVE  (\A k \in DOMAIN p : p[k] # Drop(gate)) /\ gate \in Has(t)'
    BY <2>2, <2>3, <2>4, <2>5, GateTail
  <2> QED BY <2>1, <2>2, <2>3, <2>5, GateOthers
<1>5. CASE Return(t)
  <2>1. /\ handling' = [handling EXCEPT ![t] = "done"]
        /\ todo' = [todo EXCEPT ![t] = {}]
        /\ guard' = [l \in Locks |-> IF guard[l] = t THEN NoTask ELSE guard[l]]
    BY <1>5 DEF Return
  <2>2. todo'[t] = {}
    BY <2>1 DEF StateInv
  <2>3. \A u \in Tasks \ {t} : /\ handling'[u] = handling[u]
                               /\ todo'[u] = todo[u]
                               /\ Has(u)' = Has(u)
    BY <2>1, MediaTasksAssumption DEF Has, StateInv
  <2> QED BY <2>2, <2>3, GateOthers
<1> QED BY <1>1, <1>2, <1>3, <1>4, <1>5 DEF TaskStep

LEMMA NextGate ==
    ASSUME NEW gate \in Locks, NEW G, \A m \in G \cap Messages : Gated(gate, m),
           StateInv, IdleInv, GateInv(gate, G), [Next]_vars
    PROVE  GateInv(gate, G)'
<1>1. ASSUME NEW t \in Tasks, ReadMessage(t) PROVE GateInv(gate, G)'
  BY <1>1, SpawnGate DEF ReadMessage
<1>2. ASSUME NEW t \in Tasks, OnClose(t) PROVE GateInv(gate, G)'
  BY <1>2, SpawnGate DEF OnClose
<1>3. ASSUME NEW t \in Tasks, TaskStep(t) PROVE GateInv(gate, G)'
  BY <1>3, TaskGate
<1>4. CASE UNCHANGED <<handling, todo, guard>>
  BY <1>4 DEF GateInv, Has
<1> QED BY <1>1, <1>2, <1>3, <1>4 DEF Next, Receive, vars

-----------------------------------------------------------------------------
(* No circle.                                                              *)

\* The member of a stuck group that waits for the highest lock would wait for
\* a task that waits for a higher one.
LEMMA OrderNoCircularWait ==
    ASSUME NEW bound \in Nat, NEW rank \in [Locks -> 0..bound], NEW M, IInv(rank, M),
           \A t \in Tasks : todo[t] # {} /\ Has(t) # {} => handling[t] \in M
    PROVE  NoCircularWait
<1> SUFFICES ASSUME NEW S \in SUBSET Tasks, S # {}, Stuck(S)
             PROVE  FALSE
  BY DEF NoCircularWait
<1> DEFINE Awaited == {l \in Locks : guard[l] \in S /\ \E t \in S : Waiting(t, l)}
           Height(l) == bound - rank[l]
           T == {Height(l) : l \in Awaited}
<1>1. Awaited # {}
  BY DEF Stuck
<1>2. T \subseteq Nat /\ T # {}
  BY <1>1
<1>3. \E x \in T : \A y \in T : ~ (<<y, x>> \in OpToRel(<, Nat))
  <2> HIDE DEF T
  <2> QED BY <1>2, NatLessThanWellFounded, WFMin
<1>4. PICK l \in Awaited : \A m \in Awaited : ~ (Height(m) < Height(l))
  BY <1>2, <1>3 DEF OpToRel
<1>5. PICK m \in Locks : Waiting(guard[l], m) /\ guard[m] \in S
  BY <1>4 DEF Stuck
<1>6. m \in Awaited
  BY <1>4, <1>5
<1>7. PICK p \in todo[guard[l]] : p # <<>> /\ Requests(Head(p)) /\ Head(p).lock = m
  BY <1>4, <1>5 DEF IInv, WaitInv
<1>8. p \in Seq(Step) /\ OrderedFrom(rank, Has(guard[l]), p) /\ l \in Has(guard[l])
  <2>1. l \in Has(guard[l]) /\ guard[l] \in Tasks
    BY <1>4 DEF Has
  <2>2. handling[guard[l]] \in M
    BY <1>7, <2>1
  <2> QED BY <1>7, <2>1, <2>2 DEF IInv, OrderInv, StateInv
<1>9. rank[l] < rank[m]
  <2>1. 1 \in DOMAIN p /\ Head(p) = p[1]
    BY <1>7, <1>8, TailFacts
  <2>2. \A k \in 1..(1 - 1) : p[k] # Drop(l)
    OBVIOUS
  <2> QED BY <2>1, <2>2, <1>7, <1>8 DEF OrderedFrom
<1> QED BY <1>4, <1>6, <1>9

\* Handlers that disagree on the order of the locks pass one gate: then whoever
\* has the gate decides which order holds, for those that disagree with it have
\* no guard.
LEMMA GateNoCircularWait ==
    ASSUME NEW bound \in Nat,
           NEW rank1 \in [Locks -> 0..bound], NEW M1, IInv(rank1, M1),
           NEW rank2 \in [Locks -> 0..bound], NEW M2, IInv(rank2, M2),
           NEW gate \in Locks, NEW G, GateInv(gate, G),
           Messages \subseteq M1 \cup M2, Messages \subseteq (M1 \cap M2) \cup G
    PROVE  NoCircularWait
<1>1. \A t \in Tasks : todo[t] # {} => handling[t] \in Messages
  BY DEF IInv, IdleInv, StateInv
<1>2. \A t \in Tasks : todo[t] # {} /\ Has(t) # {} /\ handling[t] \in G => guard[gate] = t
  BY DEF GateInv, Has
<1>3. CASE guard[gate] \in Tasks /\ handling[guard[gate]] \notin M1
  <2>1. \A t \in Tasks : todo[t] # {} /\ Has(t) # {} => handling[t] \in M2
    BY <1>1, <1>2, <1>3
  <2> QED BY <2>1, OrderNoCircularWait
<1>4. CASE ~ (guard[gate] \in Tasks /\ handling[guard[gate]] \notin M1)
  <2>1. \A t \in Tasks : todo[t] # {} /\ Has(t) # {} => handling[t] \in M1
    BY <1>1, <1>2, <1>4
  <2> QED BY <2>1, OrderNoCircularWait
<1> QED BY <1>3, <1>4

-----------------------------------------------------------------------------
(* All handlers together.                                                  *)

LEMMA ServingRankFacts ==
    /\ ServingRank \in [Locks -> 0..20] /\ ServingRank \in [Locks -> Nat]
    /\ Common(ServingRank) /\ Creating(ServingRank) /\ Producing(ServingRank)
<1>1. ServingRank \in [Locks -> 0..20]
  BY DEF ServingRank, Locks
<1>2. Common(ServingRank) /\ Creating(ServingRank) /\ Producing(ServingRank)
  BY DEF ServingRank, Common, Creating, Producing
<1> QED BY <1>1, <1>2

LEMMA LeavingRankFacts ==
    /\ CreatingRank \in [Locks -> 0..20] /\ CreatingRank \in [Locks -> Nat]
    /\ Common(CreatingRank) /\ Creating(CreatingRank) /\ Disconnecting(CreatingRank)
    /\ DestroyingRank \in [Locks -> 0..20] /\ DestroyingRank \in [Locks -> Nat]
    /\ Common(DestroyingRank) /\ Destroying(DestroyingRank) /\ Disconnecting(DestroyingRank)
<1>1. CreatingRank \in [Locks -> 0..20]
  BY DEF CreatingRank, Locks
<1>2. Common(CreatingRank) /\ Creating(CreatingRank) /\ Disconnecting(CreatingRank)
  BY DEF CreatingRank, Common, Creating, Disconnecting
<1>3. DestroyingRank \in [Locks -> 0..20]
  BY <1>1 DEF DestroyingRank, Locks
<1>4. Common(DestroyingRank) /\ Destroying(DestroyingRank) /\ Disconnecting(DestroyingRank)
  BY DEF DestroyingRank, CreatingRank, Common, Destroying, Disconnecting
<1> QED BY <1>1, <1>2, <1>3, <1>4

\* The handlers of a server nobody leaves lock the maps in one order.
LEMMA ServingInOrder == PathsInOrder(ServingRank, Serving)
<1> SUFFICES ASSUME NEW m \in Serving
             PROVE  Obeys(ServingRank, {}, Paths(m), Locks)
  BY DEF PathsInOrder, Obeys, Walk, OrderedFrom
<1> HIDE DEF ServingRank
<1> USE ServingRankFacts
<1>1. CASE m \in DOMAIN Handlers
  <2>1. Paths(m) = Handlers[m] /\ m \in DOMAIN Handlers /\ m \in Serving
    BY <1>1 DEF Paths
  <2>2. \/ Paths(m) = CreateRouterGroup \/ Paths(m) = CreateWebRTCIngress
        \/ Paths(m) = CreateWebRTCEgress \/ Paths(m) = ConnectWebRTC
        \/ Paths(m) = CreateMediaProducer
        \/ Paths(m) = CreateEventProducer \/ Paths(m) = CreateDataProducer
        \/ Paths(m) = ConsumeAudio \/ Paths(m) = ConsumeVideo
        \/ Paths(m) = ConsumeEvents \/ Paths(m) = ConsumeMovement
        \/ Paths(m) = ConsumerPauseResume \/ Paths(m) = ProducerPauseResume
        \/ Paths(m) = ProducerClose \/ Paths(m) = StorePipeRelay
        \/ Paths(m) = CreateRelayProducer \/ Paths(m) = ConnectPipeRelay
        \/ Paths(m) = RestartIce
    BY <2>1 DEF Handlers, Serving
  <2>3. /\ Obeys(ServingRank, {}, CreateRouterGroup, Locks)
        /\ Obeys(ServingRank, {}, CreateWebRTCIngress, Locks)
        /\ Obeys(ServingRank, {}, CreateWebRTCEgress, Locks)
        /\ Obeys(ServingRank, {}, CreateMediaProducer, Locks)
        /\ Obeys(ServingRank, {}, CreateRelayProducer, Locks)
    BY CreateRouterGroupObeys, CreateWebRTCIngressObeys, CreateWebRTCEgressObeys,
       CreateMediaProducerObeys, CreateRelayProducerObeys
  <2>4. /\ Obeys(ServingRank, {}, CreateEventProducer, Locks)
        /\ Obeys(ServingRank, {}, CreateDataProducer, Locks)
    BY DataProducerObeys DEF CreateEventProducer, CreateDataProducer
  <2>5. /\ Obeys(ServingRank, {}, ConsumeAudio, Locks)
        /\ Obeys(ServingRank, {}, ConsumeVideo, Locks)
    BY MediaConsumerObeys DEF ConsumeAudio, ConsumeVideo
  <2>6. /\ Obeys(ServingRank, {}, ConsumeEvents, Locks)
        /\ Obeys(ServingRank, {}, ConsumeMovement, Locks)
    BY DataConsumerObeys DEF ConsumeEvents, ConsumeMovement
  <2> QED BY <2>2, <2>3, <2>4, <2>5, <2>6, ShortHandlersObey
<1>2. CASE m \notin DOMAIN Handlers
  <2>1. Paths(m) = Callbacks[m] /\ m \in DOMAIN Callbacks
    BY <1>2 DEF Paths, Serving
  <2>2. \/ Paths(m) = TransportClosed \/ Paths(m) = AudioProducerClosed
        \/ Paths(m) = EgressRouterClosed
    BY <2>1 DEF Callbacks
  <2> QED BY <2>2, ShortHandlersObey
<1> QED BY <1>1, <1>2

\* The paths of the messages of Leaving but those that create and destroy rooms.
LEMMA LeavingObeys ==
    ASSUME NEW rank \in [Locks -> Nat], Common(rank), Disconnecting(rank),
           NEW m \in Leaving \ {"createRouterGroup", "destroyRouterGroup"}
    PROVE  Obeys(rank, {}, Paths(m), Locks)
<1>1. \/ Paths(m) = CreateWebRTCIngress \/ Paths(m) = CreateWebRTCEgress
      \/ Paths(m) = ConnectWebRTC \/ Paths(m) = DisconnectTransport
      \/ Paths(m) = ConsumerPauseResume \/ Paths(m) = ProducerPauseResume
      \/ Paths(m) = ProducerClose \/ Paths(m) = RestartIce
      \/ Paths(m) = StorePipeRelay \/ Paths(m) = ConnectPipeRelay
      \/ Paths(m) = TransportClosed \/ Paths(m) = AudioProducerClosed
      \/ Paths(m) = EgressRouterClosed
  BY DEF Leaving, Paths, Handlers, Callbacks
<1> QED BY <1>1, CreateWebRTCIngressObeys, CreateWebRTCEgressObeys,
           DisconnectTransportObeys, ShortHandlersObey

\* All but destroyRouterGroup lock the maps in one order, and all but
\* createRouterGroup in another.
LEMMA LeavingInOrder ==
    /\ PathsInOrder(CreatingRank, Leaving \ {"destroyRouterGroup"})
    /\ PathsInOrder(DestroyingRank, Leaving \ {"createRouterGroup"})
<1>1. /\ Paths("createRouterGroup") = CreateRouterGroup
      /\ Paths("destroyRouterGroup") = DestroyRouterGroup
  BY DEF Paths, Handlers
<1>2. ASSUME NEW m \in Leaving \ {"destroyRouterGroup"}
      PROVE  Obeys(CreatingRank, {}, Paths(m), Locks)
  BY <1>1, LeavingObeys, LeavingRankFacts, CreateRouterGroupObeys
<1>3. ASSUME NEW m \in Leaving \ {"createRouterGroup"}
      PROVE  Obeys(DestroyingRank, {}, Paths(m), Locks)
  BY <1>1, LeavingObeys, LeavingRankFacts, DestroyRouterGroupObeys
<1> QED BY <1>2, <1>3 DEF PathsInOrder, Obeys, Walk, OrderedFrom

\* Every path of every handler is a sequence of steps.
LEMMA HandlersTyped == Typed(Messages)
<1> SUFFICES ASSUME NEW m \in Messages PROVE Paths(m) \subseteq Seq(Step)
  BY DEF Typed
<1>1. \/ m \in Serving \/ m \in Leaving \ {"createRouterGroup"}
  BY MessagesAssumption DEF Serving, Leaving
<1> QED BY <1>1, ServingInOrder, LeavingInOrder DEF PathsInOrder

\* No path of P takes the step s.
Avoids(s, P) == \A p \in P : p \in Seq(Step) /\ \A k \in DOMAIN p : p[k] # s

LEMMA AvoidsJoin ==
    ASSUME NEW s, NEW p \in Seq(Step), NEW q \in Seq(Step),
           \A k \in DOMAIN p : p[k] # s, \A k \in DOMAIN q : q[k] # s
    PROVE  p \o q \in Seq(Step) /\ \A k \in DOMAIN (p \o q) : (p \o q)[k] # s
<1> SUFFICES ASSUME NEW i \in DOMAIN (p \o q) PROVE (p \o q)[i] # s
  BY JoinFacts
<1>1. CASE i \in DOMAIN p
  BY <1>1, JoinFacts
<1>2. ASSUME NEW n \in DOMAIN q, i = n + Len(p) PROVE (p \o q)[i] # s
  BY <1>2, JoinFacts
<1> QED BY <1>1, <1>2, JoinFacts

LEMMA AvoidsThen ==
    ASSUME NEW s, NEW P, NEW Q, Avoids(s, P), Avoids(s, Q)
    PROVE  Avoids(s, Then(P, Q))
<1> SUFFICES ASSUME NEW w \in Then(P, Q)
             PROVE  w \in Seq(Step) /\ \A k \in DOMAIN w : w[k] # s
  BY DEF Avoids
<1>1. PICK p \in P : \E q \in Q : w = p \o q
  BY ThenForm
<1>2. PICK q \in Q : w = p \o q
  BY <1>1
<1>3. /\ p \in Seq(Step) /\ \A k \in DOMAIN p : p[k] # s
      /\ q \in Seq(Step) /\ \A k \in DOMAIN q : q[k] # s
  BY DEF Avoids
<1> QED BY <1>2, <1>3, AvoidsJoin

LEMMA AvoidsLoop ==
    ASSUME NEW s, NEW P, Avoids(s, P)
    PROVE  Avoids(s, Loop(P))
<1> DEFINE S == {q \in Seq(Step) : \A k \in DOMAIN q : q[k] # s}
<1>1. <<>> \in S
  OBVIOUS
<1>2. \A p \in P, q \in S : p \o q \in S
  BY AvoidsJoin DEF Avoids
<1>3. Loop(P) \subseteq S
  <2> HIDE DEF S
  <2> QED BY <1>1, <1>2, LoopInduction
<1> QED BY <1>3 DEF Avoids

LEMMA FirstThen ==
    ASSUME NEW P, NEW Q, NEW s \in Step, \A p \in P : p = <<s>>,
           \A q \in Q : q \in Seq(Step), NEW w \in Then(P, Q)
    PROVE  w # <<>> /\ Head(w) = s
<1>1. PICK p \in P : \E q \in Q : w = p \o q
  BY ThenForm
<1>2. PICK q \in Q : w = p \o q
  BY <1>1
<1>3. w = <<s>> \o q /\ q \in Seq(Step)
  BY <1>2
<1> QED BY <1>3

\* createRouterGroup and destroyRouterGroup hold roomRouters from their first
\* step to their last.
LEMMA RoomsGated ==
    /\ Gated("roomRouters", "createRouterGroup")
    /\ Gated("roomRouters", "destroyRouterGroup")
<1>1. /\ Paths("createRouterGroup") = CreateRouterGroup
      /\ Paths("destroyRouterGroup") = DestroyRouterGroup
  BY DEF Paths, Handlers
<1>2. Gated("roomRouters", "destroyRouterGroup")
  BY <1>1 DEF Gated, DestroyRouterGroup, Lock, Drop, Try
<1> DEFINE s == Drop("roomRouters")
           body == {<<Try, Lock("routers"), Lock("routers2workers"),
                      Drop("routers2workers"), Drop("routers")>>}
           gate == {<<Lock("roomRouters")>>}
           end == {<<Try, Send>>}
           rest == Then(Loop(body), end)
<1>3. Avoids(s, gate)
  <2>1. <<Lock("roomRouters")>> \in Seq(Step)
    BY DEF Step, Locks, Lock
  <2> QED BY <2>1 DEF Avoids, Lock, Drop
<1>4. Avoids(s, end)
  <2> DEFINE p == <<Try, Send>>
  <2>1. p \in Seq(Step) /\ \A k \in DOMAIN p : p[k] # Drop("roomRouters")
    BY DEF Step, Drop, Try, Send
  <2> HIDE DEF p
  <2>2. end = {p}
    BY DEF p
  <2> HIDE DEF end
  <2> QED BY <2>1, <2>2 DEF Avoids
<1>5. Avoids(s, body)
  <2> DEFINE p == <<Try, Lock("routers"), Lock("routers2workers"),
                    Drop("routers2workers"), Drop("routers")>>
  <2>1. p \in Seq(Step) /\ \A k \in DOMAIN p : p[k] # Drop("roomRouters")
    BY DEF Step, Locks, Lock, Drop, Try
  <2> HIDE DEF p
  <2>2. body = {p}
    BY DEF p
  <2> HIDE DEF body
  <2> QED BY <2>1, <2>2 DEF Avoids
<1>6. Lock("roomRouters") \in Step /\ \A p \in gate : p = <<Lock("roomRouters")>>
  BY DEF Step, Locks, Lock
<1>7. CreateRouterGroup = Then(gate, rest)
  BY DEF CreateRouterGroup
<1> HIDE DEF s, body, gate, end
<1>8. Avoids(s, rest)
  BY <1>4, <1>5, AvoidsLoop, AvoidsThen
<1> HIDE DEF rest
<1>9. Avoids(s, CreateRouterGroup)
  BY <1>3, <1>7, <1>8, AvoidsThen
<1>10. \A p \in CreateRouterGroup : p # <<>> /\ Head(p) = Lock("roomRouters")
  BY <1>6, <1>7, <1>8, FirstThen DEF Avoids
<1> QED BY <1>1, <1>2, <1>9, <1>10 DEF Gated, Avoids, s

-----------------------------------------------------------------------------
(* The theorems.                                                           *)

\* The handlers of M1 keep to the order rank1, those of M2 to rank2, and every
\* message is in both or is in one and has a handler that passes the gate.
Agreed(rank1, M1, rank2, M2, gate, G) ==
    /\ \E bound \in Nat : rank1 \in [Locks -> 0..bound] /\ rank2 \in [Locks -> 0..bound]
    /\ PathsInOrder(rank1, M1) /\ PathsInOrder(rank2, M2)
    /\ gate \in Locks /\ \A m \in G \cap Messages : Gated(gate, m)
    /\ Messages \subseteq M1 \cup M2
    /\ Messages \subseteq (M1 \cap M2) \cup G

\* When handlers agree on an order of the locks, or pass one gate where they
\* do not, no group of their tasks ever waits in a circle (the handlers of
\* src/rust/src).
THEOREM OrderedHandlersDoNotDeadlock ==
    ASSUME NEW rank1, NEW M1, NEW rank2, NEW M2, NEW gate, NEW G,
           Agreed(rank1, M1, rank2, M2, gate, G)
    PROVE  Spec => []NoCircularWait
<1> DEFINE Inv == IInv(rank1, M1) /\ IInv(rank2, M2) /\ GateInv(gate, G)
<1>0. PICK bound \in Nat : rank1 \in [Locks -> 0..bound] /\ rank2 \in [Locks -> 0..bound]
  BY DEF Agreed
<1>1. Init => Inv
  BY InitInv DEF Init, GateInv
<1>2. Inv /\ [Next]_vars => Inv'
  <2> SUFFICES ASSUME Inv, [Next]_vars PROVE Inv'
    OBVIOUS
  <2>1. IInv(rank1, M1)' /\ IInv(rank2, M2)'
    BY NextInv, HandlersTyped DEF Agreed
  <2>2. GateInv(gate, G)'
    BY NextGate DEF IInv, Agreed
  <2> QED BY <2>1, <2>2
<1>3. Inv => NoCircularWait
  BY <1>0, GateNoCircularWait DEF Agreed
<1> QED BY <1>1, <1>2, <1>3, PTL DEF Spec

\* On a server nobody leaves no handlers wait in a circle, however many there
\* are, however many rounds their loops make and however small the channel is.
THEOREM ServingDoesNotDeadlock ==
    ASSUME Messages \subseteq Serving
    PROVE  Spec => []NoCircularWait
<1>1. 20 \in Nat /\ ServingRank \in [Locks -> 0..20]
  BY ServingRankFacts
<1>2. PathsInOrder(ServingRank, Serving)
  BY ServingInOrder
<1>3. "roomRouters" \in Locks
  BY DEF Locks
<1>4. Agreed(ServingRank, Serving, ServingRank, Serving, "roomRouters", {})
  BY <1>1, <1>2, <1>3 DEF Agreed
<1> QED BY <1>4, OrderedHandlersDoNotDeadlock

\* Nor do they while rooms are created and destroyed and transports come and
\* go: createRouterGroup and destroyRouterGroup take the maps of the routers in
\* opposite orders, but not both at once, since each holds roomRouters meanwhile.
THEOREM LeavingDoesNotDeadlock ==
    ASSUME Messages \subseteq Leaving
    PROVE  Spec => []NoCircularWait
<1> DEFINE M1 == Leaving \ {"destroyRouterGroup"}
           M2 == Leaving \ {"createRouterGroup"}
           G == {"createRouterGroup", "destroyRouterGroup"}
<1>1. \A m \in G \cap Messages : Gated("roomRouters", m)
  BY RoomsGated
<1>2. Messages \subseteq M1 \cup M2 /\ Messages \subseteq (M1 \cap M2) \cup G
  OBVIOUS
<1>3. "roomRouters" \in Locks
  BY DEF Locks
<1>4. /\ 20 \in Nat
      /\ CreatingRank \in [Locks -> 0..20] /\ DestroyingRank \in [Locks -> 0..20]
  BY LeavingRankFacts
<1>5. PathsInOrder(CreatingRank, M1) /\ PathsInOrder(DestroyingRank, M2)
  BY LeavingInOrder
<1> HIDE DEF M1, M2, G
<1>6. Agreed(CreatingRank, M1, DestroyingRank, M2, "roomRouters", G)
  BY <1>1, <1>2, <1>3, <1>4, <1>5 DEF Agreed
<1> QED BY <1>6, OrderedHandlersDoNotDeadlock

-----------------------------------------------------------------------------
(* Types.                                                                  *)

\* What a step of a task leaves typed when it shortens the task's paths.
LEMMA ShortenTyped ==
    ASSUME TypeOK, NEW t \in Tasks, NEW s \in Steps(t),
           todo' = [todo EXCEPT ![t] = After(t, s)]
    PROVE  todo' \in [Tasks -> SUBSET Seq(Step)] /\ s \in Step
<1>1. StateInv
  BY DEF TypeOK, StateInv
<1> QED BY <1>1, AfterFacts DEF TypeOK

LEMMA SpawnTyped ==
    ASSUME TypeOK, NEW t \in Tasks, NEW m \in Messages, Typed(Messages),
           Spawn(t, m), loop' \in Tasks \cup {"select"}
    PROVE  TypeOK'
BY DEF TypeOK, Spawn, Typed

LEMMA AcquireTyped ==
    ASSUME TypeOK, NEW t \in Tasks, Acquire(t)
    PROVE  TypeOK'
<1>1. PICK s \in Steps(t) :
        /\ Requests(s)
        /\ guard' = IF s.op = "lock" THEN [guard EXCEPT ![s.lock] = t] ELSE guard
        /\ waiters' = IF Waiting(t, s.lock)
                      THEN [waiters EXCEPT ![s.lock] = Tail(@)] ELSE waiters
        /\ todo' = [todo EXCEPT ![t] = After(t, s)]
        /\ UNCHANGED <<handling, channel, loop>>
  BY DEF Acquire
<1>2. todo' \in [Tasks -> SUBSET Seq(Step)] /\ s.lock \in Locks
  BY <1>1, ShortenTyped, StepForm
<1>3. waiters' \in [Locks -> Seq(Tasks)]
  <2>1. CASE Waiting(t, s.lock)
    <3> DEFINE w == waiters[s.lock]
    <3>1. w \in Seq(Tasks) /\ w # <<>>
      BY <1>2, <2>1 DEF TypeOK, Waiting
    <3>2. Tail(w) \in Seq(Tasks)
      BY <3>1, QueueTail
    <3> QED BY <1>1, <2>1, <3>2 DEF TypeOK
  <2> QED BY <1>1, <2>1 DEF TypeOK
<1> QED BY <1>1, <1>2, <1>3 DEF TypeOK

LEMMA EnqueueTyped ==
    ASSUME TypeOK, NEW t \in Tasks, Enqueue(t)
    PROVE  TypeOK'
<1>1. PICK s \in Steps(t) :
        /\ Requests(s)
        /\ waiters' = [waiters EXCEPT ![s.lock] = Append(@, t)]
        /\ todo' = [todo EXCEPT ![t] = {p \in todo[t] \ {<<>>} : Head(p) = s}]
        /\ UNCHANGED <<handling, guard, channel, loop>>
  BY DEF Enqueue
<1>2. todo' \in [Tasks -> SUBSET Seq(Step)]
  BY <1>1 DEF TypeOK
<1>3. s.lock \in Locks
  <2>1. StateInv
    BY DEF TypeOK, StateInv
  <2> QED BY <1>1, <2>1, AfterFacts, StepForm
<1>4. waiters' \in [Locks -> Seq(Tasks)]
  BY <1>1, <1>3, QueueAppend DEF TypeOK
<1> QED BY <1>1, <1>2, <1>4 DEF TypeOK

\* The steps that take no guard: the channel is used only while it has room.
LEMMA OtherStepsTyped ==
    ASSUME TypeOK, NEW t \in Tasks,
           DropGuard(t) \/ GoOn(t) \/ SendResponse(t) \/ Return(t)
    PROVE  TypeOK'
<1>1. CASE DropGuard(t)
  <2>1. PICK s \in Steps(t) :
          /\ guard' = [guard EXCEPT ![s.lock] = NoTask]
          /\ todo' = [todo EXCEPT ![t] = After(t, s)]
          /\ UNCHANGED <<handling, waiters, channel, loop>>
    BY <1>1 DEF DropGuard
  <2> QED BY <2>1, ShortenTyped DEF TypeOK
<1>2. CASE GoOn(t)
  BY <1>2, ShortenTyped DEF GoOn, TypeOK
<1>3. CASE SendResponse(t)
  <2>1. channel + 1 \in 0..Capacity
    BY <1>3, MediaTasksAssumption DEF SendResponse, TypeOK
  <2> QED BY <1>3, <2>1, ShortenTyped DEF SendResponse, TypeOK
<1>4. CASE Return(t)
  BY <1>4 DEF Return, TypeOK
<1> QED BY <1>1, <1>2, <1>3, <1>4

\* Every guard is of one task or of none, only tasks queue for it, and never
\* are there more responses in the channel than it holds.
THEOREM TypeCorrect == Spec => []TypeOK
<1>1. Init => TypeOK
  BY MediaTasksAssumption DEF Init, TypeOK
<1>2. TypeOK /\ [Next]_vars => TypeOK'
  <2> SUFFICES ASSUME TypeOK, [Next]_vars PROVE TypeOK'
    OBVIOUS
  <2>1. ASSUME NEW t \in Tasks, ReadMessage(t) PROVE TypeOK'
    BY <2>1, SpawnTyped, HandlersTyped DEF ReadMessage
  <2>2. ASSUME NEW t \in Tasks, OnClose(t) PROVE TypeOK'
    BY <2>2, SpawnTyped, HandlersTyped DEF OnClose, TypeOK
  <2>3. ASSUME NEW t \in Tasks, TaskStep(t) PROVE TypeOK'
    BY <2>3, AcquireTyped, EnqueueTyped, OtherStepsTyped DEF TaskStep
  <2>4. CASE Receive
    BY <2>4, MediaTasksAssumption DEF Receive, TypeOK
  <2>5. CASE UNCHANGED vars
    BY <2>5 DEF vars, TypeOK
  <2> QED BY <2>1, <2>2, <2>3, <2>4, <2>5 DEF Next
<1> QED BY <1>1, <1>2, PTL DEF Spec
=============================================================================
