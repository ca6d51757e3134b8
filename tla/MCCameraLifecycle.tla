------------------------- MODULE MCCameraLifecycle -------------------------
(* Model-checking instance of CameraLifecycle; the bounds are in the .cfg. *)
EXTENDS CameraLifecycle
=============================================================================
