------------------------------ MODULE MCMovement ------------------------------
(***************************************************************************)
(* Instance of Movement for TLC: the frames of a walk, of a turning head,  *)
(* of all that fits the small packet, of a hand and of a game piece, and   *)
(* of a hand alone.                                                        *)
(***************************************************************************)
EXTENDS Movement

MCFrames ==
    { {"basePos", "headRot"},
      {"headRot"},
      {"basePos", "baseRot", "headPos", "headRot"},
      {"basePos", "baseRot", "leftHandPos", "leftHandRot"},
      {"basePos", "gamePiecePos"},
      {"rightHandPos", "rightHandRot"} }
=============================================================================
