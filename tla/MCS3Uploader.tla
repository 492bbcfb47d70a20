----------------------------- MODULE MCS3Uploader ----------------------------
(***************************************************************************)
(* An instance of S3Uploader: segments smaller than a part, of one part    *)
(* and a half, of exactly a part, so that parts straddle segments; every   *)
(* kind of trouble.                                                        *)
(***************************************************************************)
EXTENDS S3Uploader

MCSize == <<1, 3, 2>>

MCAll == {"db", "reply", "crash"}

=============================================================================
