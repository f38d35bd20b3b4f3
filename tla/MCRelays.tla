------------------------------- MODULE MCRelays -------------------------------
(***************************************************************************)
(* Instance of Relays for TLC: two connections, which may have the same    *)
(* id, and two viewers of the statistics.                                  *)
(***************************************************************************)
EXTENDS Relays

MCSockets == 1..2
MCViewers == 1..2
=============================================================================
