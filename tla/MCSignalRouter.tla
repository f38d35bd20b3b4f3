--------------------------- MODULE MCSignalRouter ---------------------------
(* Bounds: two ingress servers, an egress server beside them and one in    *)
(* another region, two load values, two pipe routes.                       *)
EXTENDS SignalRouter

CONSTANTS i1, i2, e1, e2, usEast, euCentral, local

MCServers == {i1, i2, e1, e2}
MCModeOf == [s \in MCServers |-> IF s \in {i1, i2} THEN "ingress" ELSE "egress"]
MCRegionOf == [s \in MCServers |-> IF s = e2 THEN euCentral ELSE usEast]
MCRegions == {usEast, euCentral, local}
IngressSymmetry == Permutations({i1, i2})
=============================================================================
