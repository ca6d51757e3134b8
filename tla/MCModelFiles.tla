---------------------------- MODULE MCModelFiles ----------------------------
(* ModelFiles with two writers, no delete and no activation. *)
EXTENDS ModelFiles

Spec == ModelFilesSpec
=============================================================================
