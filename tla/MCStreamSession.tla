--------------------------- MODULE MCStreamSession ---------------------------
(***************************************************************************)
(* An instance of StreamSession.  Three segments: one creates the session, *)
(* one arrives around its timeout, one creates or meets its successor.     *)
(***************************************************************************)
EXTENDS StreamSession
=============================================================================
