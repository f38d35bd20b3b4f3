----------------------------- MODULE MCMediaTasks -----------------------------
(***************************************************************************)
(* Instances of MediaTasks for TLC: tasks for the messages of a server     *)
(* nobody leaves, or of one whose rooms come and go.                       *)
(***************************************************************************)
EXTENDS MediaTasks, TLC

CONSTANTS t1, t2, t3

TaskSymmetry == Permutations(Tasks)

\* The orders that MediaTasksProofs proves the handlers to keep to, for the
\* rounds of the instance and every path of src/rust/src/handlers.
ASSUME HandlersInOrder ==
    /\ PathsInOrder(ServingRank, Serving)
    /\ PathsInOrder(CreatingRank, Leaving \ {"destroyRouterGroup"})
    /\ PathsInOrder(DestroyingRank, Leaving \ {"createRouterGroup"})
=============================================================================
