-------------------------- MODULE MCDetectorHandle --------------------------
(* DetectorHandle with a few threads; the sets are in the .cfg. *)
EXTENDS DetectorHandle
=============================================================================
