----------------------------- MODULE MCPresence -----------------------------
(* Presence on small instances. *)
EXTENDS Presence
=============================================================================
