--------------------------- MODULE MCPeerIndicators ---------------------------
(***************************************************************************)
(* Instance of PeerIndicators for TLC.                                     *)
(***************************************************************************)
EXTENDS PeerIndicators

CONSTANTS p1, p2

\* Bound: two changes, or one and a change of the frame.
TwoActs == changes + Cardinality(moved) <= 2
=============================================================================
