-------------------------------- MODULE Frames --------------------------------
(***************************************************************************)
(* What PeerConnectionManager promises of frames, without signals, tables  *)
(* and counters: who is in which frame, on which media servers, and which  *)
(* media servers have a frame open.                                        *)
(***************************************************************************)
CONSTANTS
  Peers,
  Rooms,      \* frames
  Servers,
  None

VARIABLES
  inside,     \* peer -> the frame it is in, or None
  servedBy,   \* peer -> the media servers it was given there
  open        \* frame -> the media servers that have it open

vars == <<inside, servedBy, open>>

Init ==
  /\ inside = [p \in Peers |-> None]
  /\ servedBy = [p \in Peers |-> {}]
  /\ open = [r \in Rooms |-> {}]

\* Who enters comes from outside, and opens the frame on the servers it is
\* given.  There may be none for it.
Enter(p, r) ==
  /\ inside[p] = None
  /\ inside' = [inside EXCEPT ![p] = r]
  /\ \E S \in SUBSET Servers :
        /\ servedBy' = [servedBy EXCEPT ![p] = S]
        /\ open' = [open EXCEPT ![r] = @ \union S]

\* The last one to leave closes the frame, and nobody else does.
Leave(p) ==
  /\ inside[p] # None
  /\ inside' = [inside EXCEPT ![p] = None]
  /\ servedBy' = [servedBy EXCEPT ![p] = {}]
  /\ open' = IF \E q \in Peers \ {p} : inside[q] = inside[p] THEN open
             ELSE [open EXCEPT ![inside[p]] = {}]

Next ==
  \/ \E p \in Peers, r \in Rooms : Enter(p, r)
  \/ \E p \in Peers : Leave(p)

Spec == Init /\ [][Next]_vars
=============================================================================
