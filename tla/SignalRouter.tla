---------------------------- MODULE SignalRouter ----------------------------
(***************************************************************************)
(* The API server's registry of media servers (frame/libs/signalRouter.ts).*)
(*                                                                         *)
(* A media server is one process: it draws a fresh node id when it starts, *)
(* keeps one TCP connection to the API server, registers on it, reports    *)
(* its load on it, and exits when it ends.  The router keeps, for each     *)
(* kind of server, the list of its servers region by region (in the order  *)
(* the regions and the servers registered, which the fallback selection    *)
(* observes) and the last load of each, and relays the signals by which an *)
(* ingress and an egress server interconnect a pair of pipe transports.    *)
(*                                                                         *)
(* A handler is one step: they run to completion on one JavaScript thread. *)
(* An exception a connection handler lets escape ends the process.         *)
(***************************************************************************)
EXTENDS Integers, Sequences, FiniteSets, SequencesExt

CONSTANTS
  Servers,      \* node ids of the media server processes
  ModeOf,       \* the kind each server registers as
  RegionOf,     \* the region each server registers in
  Regions,      \* the names of server regions
  UsEast,       \* "us-east-1", where clients go when theirs has no server
  Local,        \* "local", the region of a development server
  Unknown,      \* a client region the switch of resolveRegion does not list
  Loads,        \* the load values a server reports
  PipeRoutes,   \* the (fresh) pipe transports ingress servers open
  None,         \* JavaScript's undefined
  Throws        \* the outcome of a call that throws a TypeError

Modes == {"ingress", "egress", "movement"}
ClientRegions == (Regions \ {Local}) \union {Unknown}

ASSUME ServerAssumption ==
  /\ ModeOf \in [Servers -> Modes]
  /\ RegionOf \in [Servers -> Regions]
  /\ UsEast \in Regions /\ Local \in Regions /\ UsEast # Local
  /\ Unknown \notin Regions
  /\ Loads \subseteq Nat
  /\ None \notin Servers /\ None \notin Nat /\ Throws \notin Servers
  /\ None # Throws

VARIABLES
  running,      \* FALSE once an uncaught exception ended the peerManager process
  link,         \* the signaling connection of each media server
  regionKeys,   \* mode -> the region names its table has, in insertion order
  regions,      \* mode -> region -> the servers listed there
  loadKeys,     \* mode -> the region names its load table has
  load,         \* the last load of each server, None if it is not in the table
  pipes,        \* the pipe table
  opened,       \* pipe route -> the ingress server that opened it
  offered,      \* egress -> pipe routes whose storePipeRelay it was sent
  answered      \* ingress -> pipe routes whose connectPipeRelay it was sent

registryVars == <<regionKeys, regions, loadKeys, load>>
pipeVars == <<pipes, opened, offered, answered>>
routerVars == <<running, link, registryVars, pipeVars>>

Up == {s \in Servers : link[s] = "up"}
OfMode(m) == {s \in Servers : ModeOf[s] = m}

-----------------------------------------------------------------------------
(* Registration and load.                                                  *)

\* The table of mode m has a key rg, even when its list has become empty.
HasRegion(m, rg) == rg \in ToSet(regionKeys[m])

\* Variants of the definitions that follow them, each with one mistake in it,
\* are marked "Mistake"; a run checks that its property notices it.

\* Mistake: the region is pushed in place of the server's id.
RegisterRegion(s) ==
  LET m  == ModeOf[s]
      rg == RegionOf[s]
  IN  /\ running
      /\ link[s] = "offline"
      /\ link' = [link EXCEPT ![s] = "up"]
      /\ regionKeys' = IF HasRegion(m, rg) THEN regionKeys
                       ELSE [regionKeys EXCEPT ![m] = Append(@, rg)]
      /\ regions' = [regions EXCEPT ![m][rg] = Append(@, rg)]
      /\ UNCHANGED <<running, loadKeys, load, pipeVars>>

\* registerMediaServer, and registerMovementServer for the movement plugin.
Register(s) ==
  LET m  == ModeOf[s]
      rg == RegionOf[s]
  IN  /\ running
      /\ link[s] = "offline"
      /\ link' = [link EXCEPT ![s] = "up"]
      /\ regionKeys' = IF HasRegion(m, rg) THEN regionKeys
                       ELSE [regionKeys EXCEPT ![m] = Append(@, rg)]
      /\ regions' = [regions EXCEPT ![m][rg] = Append(@, s)]
      /\ UNCHANGED <<running, loadKeys, load, pipeVars>>

\* serverLoad, which a server sends after registering and then periodically.
ServerLoad(s, l) ==
  /\ running
  /\ link[s] = "up"
  /\ loadKeys' = [loadKeys EXCEPT ![ModeOf[s]] = @ \union {RegionOf[s]}]
  /\ load' = [load EXCEPT ![s] = l]
  /\ UNCHANGED <<running, link, regionKeys, regions, pipeVars>>

-----------------------------------------------------------------------------
(* Selecting a server for a client.                                        *)

\* The server region a client region maps to.
ResolveRegion(home) ==
  IF home = Unknown
  THEN IF HasRegion("egress", UsEast) THEN UsEast ELSE Local
  ELSE IF HasRegion("egress", home) THEN home ELSE UsEast

\* The servers of mode m with an entry in the load table of region rg.
Reporting(m, rg) ==
  {s \in OfMode(m) : RegionOf[s] = rg /\ load[s] # None}

LeastLoaded(m, rg) ==
  {s \in Reporting(m, rg) : \A t \in Reporting(m, rg) : load[s] <= load[t]}

\* Object.values(regions)[0]?.[0]
FirstServer(m) ==
  IF regionKeys[m] = <<>> THEN None
  ELSE LET first == regions[m][regionKeys[m][1]]
       IN  IF first = <<>> THEN None ELSE first[1]

(* What getIngress, getEgress and getMovement may return.  Servers with the *)
(* same load are ordered by their first report; any of them is allowed.    *)
(* The find() over a non-empty list reads leastLoaded[0], which throws when*)
(* the load table of the region is empty.                                  *)
Selection(m, home) ==
  LET rg == ResolveRegion(home)
      listed == ToSet(regions[m][rg])
  IN  IF rg \notin loadKeys[m] \/ ~HasRegion(m, rg) THEN {FirstServer(m)}
      ELSE IF Reporting(m, rg) = {}
           THEN IF listed = {} THEN {FirstServer(m)} ELSE {Throws}
           ELSE {IF s \in listed THEN s ELSE FirstServer(m) : s \in LeastLoaded(m, rg)}

-----------------------------------------------------------------------------
(* Losing a server.                                                        *)

\* The close handler deletes a load entry of a table that was never created.
DeregisterThrows(s) == RegionOf[s] \notin loadKeys[ModeOf[s]]

\* Mistake: the load entry is not deleted.
DeregisterKeepsLoad(s) ==
  LET m == ModeOf[s]
      rg == RegionOf[s]
  IN  /\ link' = [link EXCEPT ![s] = "closed"]
      /\ regions' = [regions EXCEPT ![m][rg] = RemoveFirst(@, s)]
      /\ pipes' = {p \in pipes : p.egress # s /\ p.ingress # s}
      /\ UNCHANGED <<regionKeys, loadKeys, load, opened, offered, answered>>

\* Mistake: the region's list is not filtered.
DeregisterKeepsRegion(s) ==
  /\ link' = [link EXCEPT ![s] = "closed"]
  /\ load' = [load EXCEPT ![s] = None]
  /\ pipes' = {p \in pipes : p.egress # s /\ p.ingress # s}
  /\ UNCHANGED <<regionKeys, regions, loadKeys, opened, offered, answered>>

\* Mistake: all pipes are dropped.
DeregisterDropsPipes(s) ==
  LET m == ModeOf[s]
      rg == RegionOf[s]
  IN  /\ link' = [link EXCEPT ![s] = "closed"]
      /\ load' = [load EXCEPT ![s] = None]
      /\ regions' = [regions EXCEPT ![m][rg] = RemoveFirst(@, s)]
      /\ pipes' = {}
      /\ UNCHANGED <<regionKeys, loadKeys, opened, offered, answered>>

(* What the close handler does to the router's own tables.  Its filter over *)
(* the region's list takes out one entry: a server registers once.         *)
Deregister(s) ==
  LET m == ModeOf[s]
      rg == RegionOf[s]
  IN  /\ link' = [link EXCEPT ![s] = "closed"]
      /\ load' = [load EXCEPT ![s] = None]
      /\ regions' = [regions EXCEPT ![m][rg] = RemoveFirst(@, s)]
      /\ pipes' = {p \in pipes : p.egress # s /\ p.ingress # s}
      /\ UNCHANGED <<regionKeys, loadKeys, opened, offered, answered>>

\* An exception that no handler catches.
Crash ==
  /\ running' = FALSE
  /\ UNCHANGED <<link, registryVars, pipeVars>>

\* The connection of a registered server ends.  The constructor's dropServer
\* callback is the composition's (PeerConnectionManager); here it does nothing.
CloseServer(s) ==
  /\ running
  /\ link[s] = "up"
  /\ IF DeregisterThrows(s) THEN Crash ELSE Deregister(s) /\ UNCHANGED running

-----------------------------------------------------------------------------
(* Interconnecting an ingress and an egress server.                        *)

\* An ingress server opened pipe transport r towards egress server e, which a
\* route told it of and which may have gone since.
StorePipeRelay(i, e, r) ==
  /\ running
  /\ link[i] = "up" /\ ModeOf[i] = "ingress"
  /\ link[e] # "offline" /\ ModeOf[e] = "egress"
  /\ opened[r] = None
  /\ opened' = [opened EXCEPT ![r] = i]
  /\ pipes' = pipes \union
       {[ingress |-> i, egress |-> e, ingressRoute |-> r, egressRoute |-> FALSE]}
  /\ offered' = IF link[e] = "up" THEN [offered EXCEPT ![e] = @ \union {r}] ELSE offered
  /\ UNCHANGED <<running, link, registryVars, answered>>

\* Mistake: the first pipe of the egress server is taken.
PipeOfEgress(e, r) == {p \in pipes : p.egress = e}

\* The pipe an egress server's answer about route r belongs to.
PipeOf(e, r) == {p \in pipes : p.egress = e /\ p.ingressRoute = r}

\* An egress server answers an offer; an unknown pipe drops the answer.
ConnectPipeRelay(e, r) ==
  /\ running
  /\ link[e] = "up"
  /\ r \in offered[e]
  /\ \E p \in PipeOf(e, r) :
       /\ pipes' = (pipes \ {p}) \union {[p EXCEPT !.egressRoute = TRUE]}
       /\ answered' = IF link[p.ingress] = "up"
                      THEN [answered EXCEPT ![p.ingress] = @ \union {r}] ELSE answered
  /\ UNCHANGED <<running, link, registryVars, opened, offered>>

-----------------------------------------------------------------------------
RouterInit ==
  /\ running = TRUE
  /\ link = [s \in Servers |-> "offline"]
  /\ regionKeys = [m \in Modes |-> <<>>]
  /\ regions = [m \in Modes |-> [rg \in Regions |-> <<>>]]
  /\ loadKeys = [m \in Modes |-> {}]
  /\ load = [s \in Servers |-> None]
  /\ pipes = {}
  /\ opened = [r \in PipeRoutes |-> None]
  /\ offered = [s \in Servers |-> {}]
  /\ answered = [s \in Servers |-> {}]

RouterNext ==
  \/ \E s \in Servers : Register(s)
  \/ \E s \in Servers, l \in Loads : ServerLoad(s, l)
  \/ \E s \in Servers : CloseServer(s)
  \/ \E i, e \in Servers, r \in PipeRoutes : StorePipeRelay(i, e, r)
  \/ \E e \in Servers, r \in PipeRoutes : ConnectPipeRelay(e, r)

RouterSpec == RouterInit /\ [][RouterNext]_routerVars

-----------------------------------------------------------------------------
RouterTypeOK ==
  /\ running \in BOOLEAN
  /\ link \in [Servers -> {"offline", "up", "closed"}]
  /\ regionKeys \in [Modes -> Seq(Regions)]
  /\ regions \in [Modes -> [Regions -> Seq(Servers)]]
  /\ loadKeys \in [Modes -> SUBSET Regions]
  /\ load \in [Servers -> Loads \union {None}]
  /\ pipes \subseteq [ingress : Servers, egress : Servers,
                      ingressRoute : PipeRoutes, egressRoute : BOOLEAN]
  /\ opened \in [PipeRoutes -> Servers \union {None}]
  /\ offered \in [Servers -> SUBSET PipeRoutes]
  /\ answered \in [Servers -> SUBSET PipeRoutes]

(* The three tables about a server agree: while the process runs, the       *)
(* region lists hold exactly the registered, connected servers, each once  *)
(* and in the list of its own kind and region, and only they have a load.  *)
(* (registerMediaServer pushes without looking; the close handler has to   *)
(* find the region again from the lists before it filters them.)           *)
RegistryIsLive ==
  /\ \A m \in Modes, rg \in Regions :
       /\ ToSet(regions[m][rg]) =
            {s \in Up : ModeOf[s] = m /\ RegionOf[s] = rg}
       /\ IsInjective(regions[m][rg])
  /\ \A s \in Servers : load[s] # None => s \in Up

(* Whatever order servers register, report and go in, a selection returns  *)
(* a connected server of the kind asked for, nothing, or throws: never the *)
(* id of a server that has gone, which every later send would drop.        *)
SelectionIsLive ==
  \A m \in Modes, home \in ClientRegions :
    Selection(m, home) \subseteq (Up \intersect OfMode(m)) \union {None, Throws}

(* An egress server's answer to an offer finds its pipe as long as the     *)
(* ingress server that opened it is there: the message PIPE NOT FOUND of   *)
(* the connectPipeRelay handler only ever concerns a lost ingress server.  *)
OfferHasPipe ==
  \A e \in Up : \A r \in offered[e] :
    opened[r] \in Up => \E p \in PipeOf(e, r) : p.ingress = opened[r]

(* The second half of the handshake returns to the server that began it,   *)
(* and only after the other end took part.                                 *)
AnswerReachesOpener ==
  \A i \in Servers : \A r \in answered[i] :
    opened[r] = i /\ \E e \in Servers : r \in offered[e]

(* What makes the two properties of the handshake inductive: a pipe names   *)
(* the server that opened its route, only opened routes are offered, and a *)
(* server takes part only once it is connected.                            *)
HandshakeInv ==
  /\ OfferHasPipe
  /\ AnswerReachesOpener
  /\ \A p \in pipes : opened[p.ingressRoute] = p.ingress
  /\ \A e \in Servers : \A r \in offered[e] : opened[r] # None
  /\ \A s \in Servers : link[s] = "offline" =>
       offered[s] = {} /\ \A r \in PipeRoutes : opened[r] # s
=============================================================================
