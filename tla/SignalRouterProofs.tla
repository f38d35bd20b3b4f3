------------------------- MODULE SignalRouterProofs -------------------------
(***************************************************************************)
(* Theorems about the registry of media servers, for every set of servers, *)
(* regions, loads and pipe routes.                                         *)
(***************************************************************************)
EXTENDS SignalRouter, SequenceTheorems, TLAPS

(* Removing the one occurrence of an element from a list without duplicates *)
(* takes exactly that element out, and leaves a list without duplicates.   *)
LEMMA RemoveFirstOfInjective ==
  ASSUME NEW S, NEW q \in Seq(S), NEW x, IsInjective(q)
  PROVE  /\ RemoveFirst(q, x) \in Seq(S)
         /\ ToSet(RemoveFirst(q, x)) = ToSet(q) \ {x}
         /\ IsInjective(RemoveFirst(q, x))
<1>1. CASE \A i \in 1..Len(q) : q[i] # x
  <2>1. RemoveFirst(q, x) = q
    BY <1>1 DEF RemoveFirst
  <2>2. x \notin ToSet(q)
    BY <1>1 DEF ToSet
  <2> QED BY <2>1, <2>2
<1>2. ASSUME NEW k \in 1..Len(q), q[k] = x
      PROVE  /\ RemoveFirst(q, x) \in Seq(S)
             /\ ToSet(RemoveFirst(q, x)) = ToSet(q) \ {x}
             /\ IsInjective(RemoveFirst(q, x))
  <2> DEFINE r == RemoveAt(q, k)
             n == Len(q)
  <2>1. {i \in 1..Len(q) : q[i] = x} = {k}
    BY <1>2 DEF IsInjective
  <2>2. Min({k}) = k
    BY DEF Min
  <2>3. RemoveFirst(q, x) = r
    BY <1>2, <2>1, <2>2, Zenon DEF RemoveFirst, SelectInSeq
  <2>4. /\ n \in Nat /\ k \in 1..n
        /\ SubSeq(q, 1, k-1) \in Seq(S)
        /\ Len(SubSeq(q, 1, k-1)) = k-1
        /\ \A j \in 1..(k-1) : SubSeq(q, 1, k-1)[j] = q[j]
        /\ SubSeq(q, k+1, n) \in Seq(S)
        /\ Len(SubSeq(q, k+1, n)) = n-k
        /\ \A j \in 1..(n-k) : SubSeq(q, k+1, n)[j] = q[k+j]
    BY <1>2
  <2> DEFINE a == SubSeq(q, 1, k-1)
             b == SubSeq(q, k+1, n)
  <2>5. /\ r \in Seq(S)
        /\ Len(r) = n-1
        /\ \A j \in 1..(n-1) : r[j] = IF j < k THEN q[j] ELSE q[j+1]
    <3>1. r = a \o b
      BY DEF RemoveAt
    <3>2. /\ a \o b \in Seq(S)
          /\ Len(a \o b) = Len(a) + Len(b)
          /\ \A j \in 1..(Len(a) + Len(b)) :
               (a \o b)[j] = IF j <= Len(a) THEN a[j] ELSE b[j - Len(a)]
      BY <2>4, ConcatProperties
    <3> HIDE DEF a, b, r
    <3>3. Len(a) = k-1 /\ Len(b) = n-k /\ n \in Nat /\ k \in 1..n
      BY <2>4 DEF a, b
    <3>4. ASSUME NEW j \in 1..(n-1) PROVE r[j] = IF j < k THEN q[j] ELSE q[j+1]
      <4>1. CASE j < k
        BY <2>4, <3>1, <3>2, <3>3, <4>1 DEF a
      <4>2. CASE j >= k
        <5>1. r[j] = b[j - (k-1)]
          BY <3>1, <3>2, <3>3, <4>2
        <5>2. j - (k-1) \in 1..(n-k) /\ k + (j - (k-1)) = j+1
          BY <3>3, <4>2
        <5>3. b[j - (k-1)] = q[j+1]
          BY <2>4, <5>2 DEF b
        <5> QED BY <3>3, <4>2, <5>1, <5>3
      <4> QED BY <3>3, <4>1, <4>2
    <3> QED BY <3>1, <3>2, <3>3, <3>4
  <2> HIDE DEF r, n
  <2>5a. n = Len(q) /\ n \in Nat /\ k \in 1..n /\ DOMAIN q = 1..n /\ DOMAIN r = 1..(n-1)
    BY <2>5, <2>4 DEF n
  <2>6. ToSet(r) = ToSet(q) \ {x}
    <3>1. ASSUME NEW y \in ToSet(r) PROVE y \in ToSet(q) \ {x}
      <4>1. PICK j \in 1..(n-1) : y = r[j]
        BY <2>5a DEF ToSet
      <4>2. PICK m \in 1..n : m # k /\ y = q[m]
        BY <2>5, <2>5a, <4>1
      <4> QED BY <1>2, <2>5a, <4>2 DEF ToSet, IsInjective
    <3>2. ASSUME NEW y \in ToSet(q) \ {x} PROVE y \in ToSet(r)
      <4>1. PICK m \in 1..n : y = q[m]
        BY <2>5a DEF ToSet
      <4>2. m # k
        BY <1>2, <4>1
      <4>3. CASE m < k
        <5>1. m \in 1..(n-1) /\ r[m] = y
          BY <2>5, <2>5a, <4>1, <4>3
        <5> QED BY <2>5a, <5>1 DEF ToSet
      <4>4. CASE m > k
        <5>1. m-1 \in 1..(n-1) /\ ~(m-1 < k) /\ (m-1)+1 = m
          BY <2>5a, <4>4
        <5>2. r[m-1] = y
          BY <2>5, <4>1, <5>1
        <5> QED BY <2>5a, <5>1, <5>2 DEF ToSet
      <4> QED BY <2>5a, <4>2, <4>3, <4>4
    <3> QED BY <3>1, <3>2
  <2>7. IsInjective(r)
    <3> DEFINE at(j) == IF j < k THEN j ELSE j+1
    <3>1. \A j \in 1..(n-1) : r[j] = q[at(j)] /\ at(j) \in 1..n
      BY <2>5, <2>5a
    <3>2. \A u, v \in 1..n : q[u] = q[v] => u = v
      BY <2>5a DEF IsInjective
    <3>3. \A i, j \in 1..(n-1) : at(i) = at(j) => i = j
      BY <2>5a
    <3> HIDE DEF at
    <3>4. \A i, j \in 1..(n-1) : r[i] = r[j] => at(i) = at(j)
      BY <3>1, <3>2
    <3> QED BY <2>5a, <3>3, <3>4 DEF IsInjective
  <2> QED BY <2>3, <2>5, <2>6, <2>7
<1> QED BY <1>1, <1>2

(* Appending an element a list does not have.                              *)
LEMMA AppendFresh ==
  ASSUME NEW S, NEW q \in Seq(S), NEW x \in S, x \notin ToSet(q), IsInjective(q)
  PROVE  /\ Append(q, x) \in Seq(S)
         /\ ToSet(Append(q, x)) = ToSet(q) \union {x}
         /\ IsInjective(Append(q, x))
<1> DEFINE n == Len(q)
           r == Append(q, x)
<1>1. /\ r \in Seq(S) /\ Len(r) = n+1 /\ n \in Nat
      /\ \A i \in 1..n : r[i] = q[i]
      /\ r[n+1] = x
  BY AppendProperties
<1>2. DOMAIN q = 1..n /\ DOMAIN r = 1..(n+1)
  BY <1>1
<1> HIDE DEF n, r
<1>3. ToSet(r) = ToSet(q) \union {x}
  <2>1. ASSUME NEW y \in ToSet(r) PROVE y \in ToSet(q) \union {x}
    <3>1. PICK i \in 1..(n+1) : y = r[i]
      BY <1>2 DEF ToSet
    <3>2. CASE i \in 1..n
      BY <1>1, <1>2, <3>1, <3>2 DEF ToSet
    <3>3. CASE i = n+1
      BY <1>1, <3>1, <3>3
    <3> QED BY <1>1, <3>2, <3>3
  <2>2. ASSUME NEW y \in ToSet(q) PROVE y \in ToSet(r)
    <3>1. PICK i \in 1..n : y = q[i]
      BY <1>2 DEF ToSet
    <3>2. i \in 1..(n+1) /\ r[i] = y
      BY <1>1, <3>1
    <3> QED BY <1>2, <3>2 DEF ToSet
  <2>3. x \in ToSet(r)
    <3>1. n+1 \in 1..(n+1)
      BY <1>1
    <3> QED BY <1>1, <1>2, <3>1 DEF ToSet
  <2> QED BY <2>1, <2>2, <2>3
<1>4. IsInjective(r)
  <2>1. \A i \in 1..n : q[i] # x
    BY <1>2 DEF ToSet
  <2>2. \A i, j \in 1..n : q[i] = q[j] => i = j
    BY <1>2 DEF IsInjective
  <2>3. \A i \in 1..(n+1) : i \in 1..n \/ i = n+1
    BY <1>1
  <2>4. \A i, j \in 1..(n+1) : r[i] = r[j] => i = j
    BY <1>1, <2>1, <2>2, <2>3
  <2> QED BY <1>2, <2>4 DEF IsInjective
<1> QED BY <1>1, <1>3, <1>4 DEF r

-----------------------------------------------------------------------------
(* One lemma per action: it preserves the type and the registry invariant. *)
RegistryInv == RouterTypeOK /\ RegistryIsLive

LEMMA RegisterPreserves ==
  ASSUME NEW s \in Servers, RegistryInv, Register(s)
  PROVE  RegistryInv'
<1> DEFINE m  == ModeOf[s]
           rg == RegionOf[s]
<1> USE DEF RegistryInv
<1>1. m \in Modes /\ rg \in Regions
  BY ServerAssumption
<1>2. s \notin ToSet(regions[m][rg])
  BY <1>1 DEF RegistryIsLive, Register, Up
<1>3. /\ regions[m][rg] \in Seq(Servers) /\ IsInjective(regions[m][rg])
      /\ ToSet(regions[m][rg]) = {t \in Up : ModeOf[t] = m /\ RegionOf[t] = rg}
  BY <1>1 DEF RouterTypeOK, RegistryIsLive
<1> DEFINE new == Append(regions[m][rg], s)
<1>4. /\ new \in Seq(Servers) /\ IsInjective(new)
      /\ ToSet(new) = ToSet(regions[m][rg]) \union {s}
  BY <1>2, <1>3, AppendFresh
<1>5. \A m2 \in Modes, rg2 \in Regions :
        regions'[m2][rg2] = IF m2 = m /\ rg2 = rg THEN new ELSE regions[m2][rg2]
  BY <1>1 DEF Register, RouterTypeOK
<1>6. Up' = Up \union {s}
  BY DEF Register, RouterTypeOK, Up
<1> HIDE DEF new
<1>7. RouterTypeOK'
  <2>1. regions' \in [Modes -> [Regions -> Seq(Servers)]]
    BY <1>1, <1>4 DEF Register, RouterTypeOK, new
  <2>2. regionKeys' \in [Modes -> Seq(Regions)]
    <3>1. Append(regionKeys[m], rg) \in Seq(Regions)
      BY <1>1 DEF RouterTypeOK
    <3> QED BY <1>1, <3>1 DEF Register, RouterTypeOK
  <2> QED BY <2>1, <2>2 DEF Register, RouterTypeOK, pipeVars
<1>8. RegistryIsLive'
  <2>1. ASSUME NEW m2 \in Modes, NEW rg2 \in Regions
        PROVE  /\ ToSet(regions'[m2][rg2]) =
                    {t \in Up' : ModeOf[t] = m2 /\ RegionOf[t] = rg2}
               /\ IsInjective(regions'[m2][rg2])
    <3>1. CASE m2 = m /\ rg2 = rg
      BY <1>3, <1>4, <1>5, <1>6, <3>1
    <3>2. CASE ~(m2 = m /\ rg2 = rg)
      BY <1>5, <1>6, <3>2 DEF RegistryIsLive
    <3> QED BY <3>1, <3>2
  <2>2. \A t \in Servers : load'[t] # None => t \in Up'
    BY <1>6 DEF RegistryIsLive, Register
  <2> QED BY <2>1, <2>2 DEF RegistryIsLive
<1> QED BY <1>7, <1>8

LEMMA ServerLoadPreserves ==
  ASSUME NEW s \in Servers, NEW l \in Loads, RegistryInv, ServerLoad(s, l)
  PROVE  RegistryInv'
<1> USE DEF RegistryInv
<1>1. RouterTypeOK'
  <2>1. ModeOf[s] \in Modes /\ RegionOf[s] \in Regions
    BY ServerAssumption
  <2>2. loadKeys' \in [Modes -> SUBSET Regions]
    BY <2>1 DEF ServerLoad, RouterTypeOK
  <2>3. load' \in [Servers -> Loads \union {None}]
    BY DEF ServerLoad, RouterTypeOK
  <2> QED BY <2>2, <2>3 DEF ServerLoad, RouterTypeOK, pipeVars
<1>2. Up' = Up
  BY DEF ServerLoad, Up
<1>3. \A t \in Servers : load'[t] # None => t \in Up'
  BY <1>2 DEF ServerLoad, RouterTypeOK, RegistryIsLive, Up
<1> QED BY <1>1, <1>2, <1>3 DEF RegistryIsLive, ServerLoad

LEMMA DeregisterPreserves ==
  ASSUME NEW s \in Servers, RegistryInv, Deregister(s), UNCHANGED running
  PROVE  RegistryInv' /\ Up' = Up \ {s}
<1> DEFINE m  == ModeOf[s]
           rg == RegionOf[s]
<1> USE DEF RegistryInv
<1>1. m \in Modes /\ rg \in Regions
  BY ServerAssumption
<1>2. /\ regions[m][rg] \in Seq(Servers) /\ IsInjective(regions[m][rg])
      /\ ToSet(regions[m][rg]) = {t \in Up : ModeOf[t] = m /\ RegionOf[t] = rg}
  BY <1>1 DEF RouterTypeOK, RegistryIsLive
<1> DEFINE new == RemoveFirst(regions[m][rg], s)
<1>3. /\ new \in Seq(Servers) /\ IsInjective(new)
      /\ ToSet(new) = ToSet(regions[m][rg]) \ {s}
  BY <1>2, RemoveFirstOfInjective
<1> HIDE DEF new
<1>4. regions' = [regions EXCEPT ![m][rg] = new]
  BY DEF Deregister, new
<1>5. \A m2 \in Modes, rg2 \in Regions :
        regions'[m2][rg2] = IF m2 = m /\ rg2 = rg THEN new ELSE regions[m2][rg2]
  BY <1>1, <1>4 DEF RouterTypeOK
<1>6. Up' = Up \ {s}
  BY DEF Deregister, RouterTypeOK, Up
<1>7. RouterTypeOK'
  <2>1. regions' \in [Modes -> [Regions -> Seq(Servers)]]
    BY <1>1, <1>3, <1>4 DEF RouterTypeOK
  <2> QED BY <2>1 DEF Deregister, RouterTypeOK
<1>8. RegistryIsLive'
  <2>1. ASSUME NEW m2 \in Modes, NEW rg2 \in Regions
        PROVE  /\ ToSet(regions'[m2][rg2]) =
                    {t \in Up' : ModeOf[t] = m2 /\ RegionOf[t] = rg2}
               /\ IsInjective(regions'[m2][rg2])
    <3>1. CASE m2 = m /\ rg2 = rg
      BY <1>2, <1>3, <1>5, <1>6, <3>1
    <3>2. CASE ~(m2 = m /\ rg2 = rg)
      BY <1>5, <1>6, <3>2 DEF RegistryIsLive
    <3> QED BY <3>1, <3>2
  <2>2. \A t \in Servers : load'[t] # None => t \in Up'
    BY <1>6 DEF RegistryIsLive, Deregister, RouterTypeOK
  <2> QED BY <2>1, <2>2 DEF RegistryIsLive
<1> QED BY <1>6, <1>7, <1>8

LEMMA CrashPreserves ==
  ASSUME RegistryInv, Crash
  PROVE  RegistryInv' /\ Up' = Up
<1>1. Up' = Up
  BY DEF Crash, Up
<1>2. RouterTypeOK'
  BY DEF RegistryInv, RouterTypeOK, Crash, registryVars, pipeVars
<1>3. RegistryIsLive'
  BY <1>1 DEF RegistryInv, RegistryIsLive, Crash, registryVars
<1> QED BY <1>1, <1>2, <1>3 DEF RegistryInv

LEMMA StorePipeRelayPreserves ==
  ASSUME NEW i \in Servers, NEW e \in Servers, NEW r \in PipeRoutes,
         RegistryInv, StorePipeRelay(i, e, r)
  PROVE  RegistryInv'
<1> USE DEF RegistryInv, StorePipeRelay
<1>1. RouterTypeOK'
  <2>1. pipes' \subseteq [ingress : Servers, egress : Servers,
                         ingressRoute : PipeRoutes, egressRoute : BOOLEAN]
    <3> DEFINE pipe == [ingress |-> i, egress |-> e, ingressRoute |-> r, egressRoute |-> FALSE]
    <3>1. pipe \in [ingress : Servers, egress : Servers,
                   ingressRoute : PipeRoutes, egressRoute : BOOLEAN]
      OBVIOUS
    <3>2. pipes' = pipes \union {pipe}
      OBVIOUS
    <3> HIDE DEF pipe, StorePipeRelay
    <3> QED BY <3>1, <3>2 DEF RouterTypeOK
  <2>2. opened' \in [PipeRoutes -> Servers \union {None}]
    BY DEF RouterTypeOK
  <2>3. offered' \in [Servers -> SUBSET PipeRoutes]
    <3>1. [offered EXCEPT ![e] = @ \union {r}] \in [Servers -> SUBSET PipeRoutes]
      BY DEF RouterTypeOK
    <3> QED BY <3>1 DEF RouterTypeOK
  <2>4. answered' \in [Servers -> SUBSET PipeRoutes]
    BY DEF RouterTypeOK
  <2>5. /\ running' \in BOOLEAN
        /\ link' \in [Servers -> {"offline", "up", "closed"}]
        /\ regionKeys' \in [Modes -> Seq(Regions)]
        /\ regions' \in [Modes -> [Regions -> Seq(Servers)]]
        /\ loadKeys' \in [Modes -> SUBSET Regions]
        /\ load' \in [Servers -> Loads \union {None}]
    BY DEF RouterTypeOK, registryVars
  <2> QED BY <2>1, <2>2, <2>3, <2>4, <2>5 DEF RouterTypeOK
<1>2. RegistryIsLive'
  BY DEF RegistryIsLive, Up, registryVars
<1> QED BY <1>1, <1>2

LEMMA BothRoutesTyped ==
  ASSUME NEW p \in [ingress : Servers, egress : Servers,
                    ingressRoute : PipeRoutes, egressRoute : BOOLEAN]
  PROVE  [p EXCEPT !.egressRoute = TRUE] \in
           [ingress : Servers, egress : Servers, ingressRoute : PipeRoutes, egressRoute : BOOLEAN]
OBVIOUS

LEMMA ConnectPipeRelayPreserves ==
  ASSUME NEW e \in Servers, NEW r \in PipeRoutes,
         RegistryInv, ConnectPipeRelay(e, r)
  PROVE  RegistryInv'
<1> USE DEF RegistryInv
<1>1. PICK p \in pipes :
        /\ p.egress = e /\ p.ingressRoute = r
        /\ pipes' = (pipes \ {p}) \union {[p EXCEPT !.egressRoute = TRUE]}
        /\ answered' = IF link[p.ingress] = "up"
                       THEN [answered EXCEPT ![p.ingress] = @ \union {r}] ELSE answered
  BY DEF ConnectPipeRelay, PipeOf
<1>2. RouterTypeOK'
  <2>1. [p EXCEPT !.egressRoute = TRUE] \in
          [ingress : Servers, egress : Servers, ingressRoute : PipeRoutes, egressRoute : BOOLEAN]
    BY BothRoutesTyped DEF RouterTypeOK
  <2>2. answered' \in [Servers -> SUBSET PipeRoutes]
    BY <1>1 DEF RouterTypeOK
  <2> QED BY <1>1, <2>1, <2>2 DEF ConnectPipeRelay, RouterTypeOK, registryVars
<1>3. RegistryIsLive'
  BY DEF ConnectPipeRelay, RegistryIsLive, Up, registryVars
<1> QED BY <1>2, <1>3

LEMMA RouterInitRegistry == RouterInit => RegistryInv
<1> SUFFICES ASSUME RouterInit PROVE RegistryInv
  OBVIOUS
<1>1. RouterTypeOK
  BY DEF RouterInit, RouterTypeOK
<1>2. Up = {}
  BY DEF RouterInit, Up
<1>3. ToSet(<<>>) = {} /\ IsInjective(<<>>)
  BY DEF ToSet, IsInjective
<1> QED BY <1>1, <1>2, <1>3 DEF RegistryInv, RegistryIsLive, RouterInit

-----------------------------------------------------------------------------
(* Whatever order any number of servers register, report and go in, the     *)
(* registry's tables keep their types and hold exactly the connected       *)
(* servers (signalRouter.ts, registerMediaServer and the close handler).   *)
THEOREM RegistryStaysLive == RouterSpec => [](RouterTypeOK /\ RegistryIsLive)
<1>1. RegistryInv /\ [RouterNext]_routerVars => RegistryInv'
  <2> SUFFICES ASSUME RegistryInv, [RouterNext]_routerVars PROVE RegistryInv'
    OBVIOUS
  <2>1. ASSUME NEW s \in Servers, Register(s) PROVE RegistryInv'
    BY <2>1, RegisterPreserves
  <2>2. ASSUME NEW s \in Servers, NEW l \in Loads, ServerLoad(s, l) PROVE RegistryInv'
    BY <2>2, ServerLoadPreserves
  <2>3. ASSUME NEW s \in Servers, CloseServer(s) PROVE RegistryInv'
    BY <2>3, DeregisterPreserves, CrashPreserves DEF CloseServer
  <2>4. ASSUME NEW i \in Servers, NEW e \in Servers, NEW r \in PipeRoutes,
               StorePipeRelay(i, e, r)
        PROVE  RegistryInv'
    BY <2>4, StorePipeRelayPreserves
  <2>5. ASSUME NEW e \in Servers, NEW r \in PipeRoutes, ConnectPipeRelay(e, r)
        PROVE  RegistryInv'
    BY <2>5, ConnectPipeRelayPreserves
  <2>6. CASE UNCHANGED routerVars
    BY <2>6 DEF RegistryInv, RouterTypeOK, RegistryIsLive, Up, routerVars,
                registryVars, pipeVars
  <2> QED BY <2>1, <2>2, <2>3, <2>4, <2>5, <2>6 DEF RouterNext
<1>2. RegistryInv => RouterTypeOK /\ RegistryIsLive
  BY DEF RegistryInv
<1> QED BY <1>1, <1>2, RouterInitRegistry, PTL DEF RouterSpec

(* A live registry selects live servers.                                   *)
LEMMA LiveSelection ==
  ASSUME RegistryInv, NEW m \in Modes, NEW home \in ClientRegions
  PROVE  Selection(m, home) \subseteq (Up \intersect OfMode(m)) \union {None, Throws}
<1> USE DEF RegistryInv
<1>1. \A rg \in Regions : ToSet(regions[m][rg]) \subseteq Up \intersect OfMode(m)
  BY DEF RegistryIsLive, OfMode, Up
<1>2. FirstServer(m) \in (Up \intersect OfMode(m)) \union {None}
  <2>1. CASE regionKeys[m] = <<>>
    BY <2>1 DEF FirstServer
  <2>2. CASE regionKeys[m] # <<>>
    <3> DEFINE rg == regionKeys[m][1]
               first == regions[m][rg]
    <3>1. regionKeys[m] \in Seq(Regions)
      BY DEF RouterTypeOK
    <3>2. rg \in Regions
      BY <2>2, <3>1, EmptySeq
    <3>3. first \in Seq(Servers)
      BY <3>2 DEF RouterTypeOK
    <3>4. CASE first = <<>>
      BY <2>2, <3>4 DEF FirstServer
    <3>5. CASE first # <<>>
      <4>1. 1 \in DOMAIN first
        BY <3>3, <3>5
      <4>2. first[1] \in ToSet(first)
        BY <4>1 DEF ToSet
      <4> QED BY <1>1, <2>2, <3>2, <3>5, <4>2 DEF FirstServer
    <3> QED BY <3>4, <3>5
  <2> QED BY <2>1, <2>2
<1>3. ResolveRegion(home) \in Regions
  BY ServerAssumption DEF ResolveRegion, ClientRegions
<1> QED BY <1>1, <1>2, <1>3 DEF Selection

(* A client is never given a server that has gone: getIngress, getEgress    *)
(* and getMovement return a connected server of their kind, or nothing.    *)
THEOREM SelectionStaysLive == RouterSpec => []SelectionIsLive
<1>1. RouterTypeOK /\ RegistryIsLive => SelectionIsLive
  BY LiveSelection DEF SelectionIsLive, RegistryInv
<1> QED BY <1>1, RegistryStaysLive, PTL

-----------------------------------------------------------------------------
(* The handshake between an ingress and an egress server.                  *)

LEMMA HandshakeKept ==
  ASSUME RouterTypeOK, HandshakeInv, UNCHANGED pipeVars,
         \A s \in Servers : \/ link'[s] = link[s]
                            \/ link[s] = "offline" /\ link'[s] = "up"
  PROVE  HandshakeInv'
<1>1. \A e \in Servers, r \in PipeRoutes : PipeOf(e, r)' = PipeOf(e, r)
  BY DEF PipeOf, pipeVars
<1>2. OfferHasPipe'
  <2> SUFFICES ASSUME NEW e \in Up', NEW r \in offered'[e], opened'[r] \in Up'
               PROVE  \E p \in PipeOf(e, r)' : p.ingress = opened'[r]
    BY DEF OfferHasPipe
  <2>1. r \in PipeRoutes /\ e \in Servers /\ opened[r] \in Servers
    BY DEF RouterTypeOK, pipeVars, Up
  <2>2. e \in Up /\ opened[r] \in Up
    BY <2>1 DEF HandshakeInv, pipeVars, Up
  <2> QED BY <1>1, <2>1, <2>2 DEF HandshakeInv, OfferHasPipe, pipeVars
<1>3. AnswerReachesOpener'
  BY DEF HandshakeInv, AnswerReachesOpener, pipeVars
<1>4. \A p \in pipes' : opened'[p.ingressRoute] = p.ingress
  BY DEF HandshakeInv, pipeVars
<1>5. \A e \in Servers : \A r \in offered'[e] : opened'[r] # None
  BY DEF HandshakeInv, pipeVars
<1>6. \A s \in Servers : link'[s] = "offline" =>
         offered'[s] = {} /\ \A r \in PipeRoutes : opened'[r] # s
  BY DEF HandshakeInv, pipeVars
<1> QED BY <1>2, <1>3, <1>4, <1>5, <1>6 DEF HandshakeInv

LEMMA HandshakeDeregister ==
  ASSUME NEW s \in Servers, RouterTypeOK, HandshakeInv, Deregister(s)
  PROVE  HandshakeInv'
<1>1. /\ pipes' = {p \in pipes : p.egress # s /\ p.ingress # s}
      /\ Up' = Up \ {s}
      /\ opened' = opened /\ offered' = offered /\ answered' = answered
      /\ \A t \in Servers : link'[t] = "offline" => link[t] = "offline"
  BY DEF Deregister, Up, RouterTypeOK
<1>2. OfferHasPipe'
  <2> SUFFICES ASSUME NEW e \in Up', NEW r \in offered'[e], opened'[r] \in Up'
               PROVE  \E p \in PipeOf(e, r)' : p.ingress = opened'[r]
    BY DEF OfferHasPipe
  <2>1. PICK p \in PipeOf(e, r) : p.ingress = opened[r]
    BY <1>1 DEF HandshakeInv, OfferHasPipe
  <2>2. p \in pipes' /\ p.egress = e /\ p.ingressRoute = r
    BY <1>1, <2>1 DEF PipeOf
  <2>3. p \in PipeOf(e, r)'
    BY <2>2 DEF PipeOf
  <2> QED BY <1>1, <2>1, <2>3
<1>3. AnswerReachesOpener'
  BY <1>1 DEF HandshakeInv, AnswerReachesOpener
<1> QED BY <1>1, <1>2, <1>3 DEF HandshakeInv

LEMMA HandshakeStore ==
  ASSUME NEW i \in Servers, NEW e \in Servers, NEW r \in PipeRoutes,
         RouterTypeOK, HandshakeInv, StorePipeRelay(i, e, r)
  PROVE  HandshakeInv'
<1> DEFINE pipe == [ingress |-> i, egress |-> e, ingressRoute |-> r, egressRoute |-> FALSE]
<1>1. /\ opened[r] = None /\ link[i] = "up" /\ link[e] # "offline"
      /\ \A q \in PipeRoutes : opened'[q] = IF q = r THEN i ELSE opened[q]
      /\ pipes' = pipes \union {pipe}
      /\ answered' = answered /\ link' = link /\ Up' = Up
  BY DEF StorePipeRelay, RouterTypeOK, Up
<1>2. \A f \in Servers : offered'[f] = IF f = e /\ link[e] = "up"
                                       THEN offered[f] \union {r} ELSE offered[f]
  BY DEF StorePipeRelay, RouterTypeOK
<1>3. /\ pipe.ingress = i /\ pipe.egress = e /\ pipe.ingressRoute = r
      /\ i # None
  BY ServerAssumption
<1> HIDE DEF pipe
<1>4. ASSUME NEW p \in pipes PROVE p.ingressRoute \in PipeRoutes /\ p.ingress # None
  <2>1. p \in [ingress : Servers, egress : Servers, ingressRoute : PipeRoutes,
              egressRoute : BOOLEAN]
    BY DEF RouterTypeOK
  <2> QED BY <2>1, ServerAssumption
<1>4a. \A f \in Servers : offered[f] \subseteq PipeRoutes
  BY DEF RouterTypeOK
<1>4b. /\ \A f \in Servers : \A q \in offered[f] : opened[q] # None
       /\ \A s \in Servers : link[s] = "offline" =>
            offered[s] = {} /\ \A q \in PipeRoutes : opened[q] # s
  BY DEF HandshakeInv
<1>5. OfferHasPipe'
  <2> SUFFICES ASSUME NEW f \in Up', NEW q \in offered'[f], opened'[q] \in Up'
               PROVE  \E p \in PipeOf(f, q)' : p.ingress = opened'[q]
    BY DEF OfferHasPipe
  <2>1. f \in Up /\ f \in Servers
    BY <1>1 DEF Up
  <2>2. CASE f = e /\ q = r
    BY <1>1, <1>3, <2>2 DEF PipeOf
  <2>3. CASE ~(f = e /\ q = r)
    <3>1. q \in offered[f] /\ q \in PipeRoutes
      BY <1>2, <1>4a, <2>1, <2>3
    <3>2. q # r /\ opened'[q] = opened[q]
      BY <1>1, <2>1, <3>1 DEF HandshakeInv
    <3>3. PICK p \in PipeOf(f, q) : p.ingress = opened[q]
      BY <1>1, <2>1, <3>1, <3>2 DEF HandshakeInv, OfferHasPipe
    <3>4. p \in PipeOf(f, q)'
      BY <1>1, <3>3 DEF PipeOf
    <3> QED BY <3>2, <3>3, <3>4
  <2> QED BY <2>2, <2>3
<1>6. AnswerReachesOpener'
  <2> SUFFICES ASSUME NEW j \in Servers, NEW q \in answered'[j]
               PROVE  opened'[q] = j /\ \E f \in Servers : q \in offered'[f]
    BY DEF AnswerReachesOpener
  <2>1. opened[q] = j /\ q \in PipeRoutes
    BY <1>1 DEF HandshakeInv, AnswerReachesOpener, RouterTypeOK
  <2>2. PICK f \in Servers : q \in offered[f]
    BY <1>1 DEF HandshakeInv, AnswerReachesOpener
  <2>3. j # None
    BY ServerAssumption
  <2>4. opened'[q] = j
    BY <1>1, <2>1, <2>3
  <2>5. q \in offered'[f]
    BY <1>2, <2>2
  <2> QED BY <2>4, <2>5
<1>7. \A p \in pipes' : opened'[p.ingressRoute] = p.ingress
  BY <1>1, <1>3, <1>4 DEF HandshakeInv
<1>8. ASSUME NEW f \in Servers, NEW q \in offered'[f] PROVE opened'[q] # None
  <2>1. q = r \/ q \in offered[f]
    BY <1>2
  <2>2. CASE q = r
    BY <1>1, <1>3, <2>2
  <2>3. CASE q # r
    BY <1>1, <1>4a, <1>4b, <2>1, <2>3
  <2> QED BY <2>2, <2>3
<1>9. ASSUME NEW s \in Servers, link'[s] = "offline"
      PROVE  offered'[s] = {} /\ \A q \in PipeRoutes : opened'[q] # s
  <2>1. link[s] = "offline" /\ s # i /\ s # e
    BY <1>1, <1>9
  <2>2. offered'[s] = {}
    BY <1>2, <1>4b, <2>1
  <2>3. \A q \in PipeRoutes : opened'[q] # s
    BY <1>1, <1>4b, <2>1
  <2> QED BY <2>2, <2>3
<1> QED BY <1>5, <1>6, <1>7, <1>8, <1>9 DEF HandshakeInv

LEMMA HandshakeConnect ==
  ASSUME NEW e \in Servers, NEW r \in PipeRoutes,
         RouterTypeOK, HandshakeInv, ConnectPipeRelay(e, r)
  PROVE  HandshakeInv'
<1>1. PICK p \in pipes :
        /\ p.egress = e /\ p.ingressRoute = r
        /\ pipes' = (pipes \ {p}) \union {[p EXCEPT !.egressRoute = TRUE]}
        /\ answered' = IF link[p.ingress] = "up"
                       THEN [answered EXCEPT ![p.ingress] = @ \union {r}] ELSE answered
  BY DEF ConnectPipeRelay, PipeOf
<1> DEFINE new == [p EXCEPT !.egressRoute = TRUE]
<1>2. /\ new.egress = e /\ new.ingressRoute = r /\ new.ingress = p.ingress
      /\ p.ingress \in Servers
  BY <1>1 DEF RouterTypeOK
<1>3. /\ r \in offered[e] /\ Up' = Up
      /\ opened' = opened /\ offered' = offered /\ link' = link
  BY DEF ConnectPipeRelay, Up
<1>4. \A j \in Servers : answered'[j] \subseteq
        answered[j] \union (IF j = p.ingress THEN {r} ELSE {})
  BY <1>1, <1>2 DEF RouterTypeOK
<1>5. pipes' = (pipes \ {p}) \union {new}
  BY <1>1
<1> HIDE DEF new
<1>6. opened[r] = p.ingress
  BY <1>1 DEF HandshakeInv
<1>7. OfferHasPipe'
  <2> SUFFICES ASSUME NEW f \in Up', NEW q \in offered'[f], opened'[q] \in Up'
               PROVE  \E x \in PipeOf(f, q)' : x.ingress = opened'[q]
    BY DEF OfferHasPipe
  <2>1. PICK x \in PipeOf(f, q) : x.ingress = opened[q]
    BY <1>3 DEF HandshakeInv, OfferHasPipe
  <2>2. CASE x = p
    BY <1>1, <1>2, <1>3, <1>5, <2>1, <2>2 DEF PipeOf
  <2>3. CASE x # p
    BY <1>3, <1>5, <2>1, <2>3 DEF PipeOf
  <2> QED BY <2>2, <2>3
<1>8. AnswerReachesOpener'
  BY <1>3, <1>4, <1>6 DEF HandshakeInv, AnswerReachesOpener
<1>9. \A x \in pipes' : opened'[x.ingressRoute] = x.ingress
  BY <1>2, <1>3, <1>5, <1>6 DEF HandshakeInv
<1> QED BY <1>3, <1>7, <1>8, <1>9 DEF HandshakeInv

(* A pipe handshake that began between two servers can be completed as long *)
(* as both are connected, and its answer goes to the server that began it, *)
(* whatever other servers come and go and however many pipes are set up.   *)
THEOREM HandshakeStaysConsistent == RouterSpec => [](OfferHasPipe /\ AnswerReachesOpener)
<1>1. RouterInit => HandshakeInv
  <2> SUFFICES ASSUME RouterInit PROVE HandshakeInv
    OBVIOUS
  <2>1. \A s \in Servers : offered[s] = {} /\ answered[s] = {}
    BY DEF RouterInit
  <2>2. pipes = {} /\ \A r \in PipeRoutes : opened[r] = None
    BY DEF RouterInit
  <2> QED BY <2>1, <2>2, ServerAssumption
          DEF HandshakeInv, OfferHasPipe, AnswerReachesOpener, Up
<1>2. RouterTypeOK /\ HandshakeInv /\ [RouterNext]_routerVars => HandshakeInv'
  <2> SUFFICES ASSUME RouterTypeOK, HandshakeInv, [RouterNext]_routerVars
               PROVE  HandshakeInv'
    OBVIOUS
  <2>1. ASSUME NEW s \in Servers, Register(s) PROVE HandshakeInv'
    BY <2>1, HandshakeKept DEF Register, RouterTypeOK
  <2>2. ASSUME NEW s \in Servers, NEW l \in Loads, ServerLoad(s, l) PROVE HandshakeInv'
    BY <2>2, HandshakeKept DEF ServerLoad
  <2>3. ASSUME NEW s \in Servers, CloseServer(s) PROVE HandshakeInv'
    <3>1. CASE Crash
      BY <3>1, HandshakeKept DEF Crash
    <3> QED BY <2>3, <3>1, HandshakeDeregister DEF CloseServer
  <2>4. ASSUME NEW i \in Servers, NEW e \in Servers, NEW r \in PipeRoutes,
               StorePipeRelay(i, e, r)
        PROVE  HandshakeInv'
    BY <2>4, HandshakeStore
  <2>5. ASSUME NEW e \in Servers, NEW r \in PipeRoutes, ConnectPipeRelay(e, r)
        PROVE  HandshakeInv'
    BY <2>5, HandshakeConnect
  <2>6. CASE UNCHANGED routerVars
    BY <2>6, HandshakeKept DEF routerVars
  <2> QED BY <2>1, <2>2, <2>3, <2>4, <2>5, <2>6 DEF RouterNext
<1>3. HandshakeInv => OfferHasPipe /\ AnswerReachesOpener
  BY DEF HandshakeInv
<1> QED BY <1>1, <1>2, <1>3, RegistryStaysLive, PTL DEF RouterSpec
=============================================================================
