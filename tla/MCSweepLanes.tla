---------------------------- MODULE MCSweepLanes -----------------------------
(***************************************************************************)
(* An instance of SweepLanes: three hosts share one slot and one of them   *)
(* has two repositories, so that two lanes can wait and a repository joins *)
(* a lane whose worker is waiting, at work, leaving or gone.               *)
(***************************************************************************)
EXTENDS SweepLanes, TLC

CONSTANTS l1, l2, l3, a1, a2, b1, c1

MCLaneOf == a1 :> l1 @@ a2 :> l1 @@ b1 :> l2 @@ c1 :> l3

=============================================================================
