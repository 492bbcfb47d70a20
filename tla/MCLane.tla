------------------------------- MODULE MCLane -------------------------------
(***************************************************************************)
(* Instances of Lane for TLC.  Four tickets are enough for a stuck segment *)
(* with two waiters behind it, one of which gives up, and one claimed      *)
(* after the abandonment.                                                  *)
(***************************************************************************)
EXTENDS Lane
=============================================================================
