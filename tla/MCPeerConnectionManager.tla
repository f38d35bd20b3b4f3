----------------------- MODULE MCPeerConnectionManager -----------------------
(* One region, one ingress server, two egress servers a selection chooses  *)
(* between, and for some runs a movement server.                           *)
EXTENDS PeerConnectionManager, TLC

CONSTANTS i1, e1, e2, m1, usEast, local, p1, p2, p3, A, B, Ingresses, Egresses, Movements

MCServers == Ingresses \union Egresses \union Movements
MCModeOf == [s \in MCServers |-> IF s \in Ingresses THEN "ingress"
                                 ELSE IF s \in Egresses THEN "egress" ELSE "movement"]
MCRegionOf == [s \in MCServers |-> usEast]
MCRegions == {usEast, local}
MCHomeOf == [p \in Peers |-> usEast]
PeerSymmetry == Permutations(Peers)

\* Where a server is lost, also the frames and the egress servers are alike.
LossSymmetry == Permutations(Peers) \union Permutations(Rooms) \union Permutations(Egresses)

\* Bound: of two clients one enters one frame only, which the other may share, miss,
\* or leave for another.
ThreeEntries == \A p, q \in Peers : p # q => client[p].entries + client[q].entries <= 3
=============================================================================
