--------------------------- MODULE MCLivestreamVOD ---------------------------
(***************************************************************************)
(* An instance of LivestreamVOD: automatic publishing, one finalize by     *)
(* hand and two requests that publish or delete.                           *)
(***************************************************************************)
EXTENDS LivestreamVOD

(***************************************************************************)
(* Bound: requests come only while automatic publishing has not begun, and *)
(* only if the finalize by hand starts with this livestream.  What they do *)
(* to an upload does not depend on another upload or on which livestream   *)
(* it starts with, and an upload of automatic publishing is one of a       *)
(* finalize by hand with publish set.                                      *)
(***************************************************************************)
OneAtATime == \/ auto.at = "none" /\ leads = Hands
              \/ \A c \in Calls : call[c].at = "idle"

=============================================================================
