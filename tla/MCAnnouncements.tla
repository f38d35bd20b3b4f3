--------------------------- MODULE MCAnnouncements ---------------------------
(***************************************************************************)
(* Instance of Announcements for TLC: audio stands for video as well.      *)
(***************************************************************************)
EXTENDS Announcements, TLC

CONSTANTS p1, p2, audio, movement, events

AskingOrder == <<audio, movement, events>>

\* What the peers may send, two producers at a time; both listen.
Producible ==
    LET sent == {<<p1, audio>>, <<p2, movement>>, <<p2, events>>}
    IN  {pair \in SUBSET sent : Cardinality(pair) = 2}
=============================================================================
