------------------------------- MODULE MCBus -------------------------------
(***************************************************************************)
(* An instance of Bus: two connections that subscribe in any of the three  *)
(* ways, limits of one and two, so that a viewer overflows, a segment      *)
(* subscriber lags and the replay buffer trims within four publications.   *)
(***************************************************************************)
EXTENDS Bus
=============================================================================
