-------------------------- MODULE CameraStateTable --------------------------
(***************************************************************************)
(* The transition table of core/camera_state.py and the effect of one      *)
(* CameraStateMachine.transition on the stream epoch.  Only operators: the *)
(* machine itself is CameraStateMachine, its use by the request handlers   *)
(* and worker threads is CameraLifecycle.                                  *)
(***************************************************************************)
EXTENDS Naturals, Sequences

CameraState ==
  {"DRAFT", "VALIDATING", "RESOLVING", "CONNECTING", "AUTHENTICATING",
   "PROBING", "DECODING", "PREVIEW_READY", "SAVING", "STARTING", "STREAMING",
   "DISABLED", "STOPPING", "RECONNECTING", "DEGRADED", "AUTH_FAILED",
   "BLOCKED_BY_POLICY", "UNREACHABLE", "UNSUPPORTED_MEDIA", "CLOCK_UNSTABLE",
   "STORAGE_PRESSURE", "FAILED"}

(* The targets of s other than DISABLED, which every state but DISABLED has. *)
Targets(s) ==
  CASE s = "DRAFT"             -> {"VALIDATING", "FAILED"}
    [] s = "VALIDATING"        -> {"RESOLVING", "BLOCKED_BY_POLICY", "FAILED", "SAVING"}
    [] s = "RESOLVING"         -> {"CONNECTING", "UNREACHABLE", "BLOCKED_BY_POLICY", "FAILED"}
    [] s = "CONNECTING"        -> {"AUTHENTICATING", "STREAMING", "UNREACHABLE", "FAILED"}
    [] s = "AUTHENTICATING"    -> {"PROBING", "AUTH_FAILED", "FAILED"}
    [] s = "PROBING"           -> {"DECODING", "UNSUPPORTED_MEDIA", "FAILED"}
    [] s = "DECODING"          -> {"PREVIEW_READY", "FAILED", "UNSUPPORTED_MEDIA"}
    [] s = "PREVIEW_READY"     -> {"SAVING", "FAILED", "STOPPING"}
    [] s = "SAVING"            -> {"STARTING", "FAILED"}
    [] s = "STARTING"          -> {"STREAMING", "FAILED"}
    [] s = "STREAMING"         -> {"RECONNECTING", "DEGRADED", "STOPPING", "FAILED",
                                   "CLOCK_UNSTABLE", "STORAGE_PRESSURE", "UNREACHABLE"}
    [] s = "RECONNECTING"      -> {"CONNECTING", "RESOLVING", "FAILED"}
    [] s = "DEGRADED"          -> {"STREAMING", "RECONNECTING", "STOPPING", "FAILED"}
    [] s = "STOPPING"          -> {"DRAFT", "FAILED"}
    [] s = "DISABLED"          -> {"DRAFT"}
    [] s = "FAILED"            -> {"DRAFT", "RECONNECTING"}
    [] s = "AUTH_FAILED"       -> {"DRAFT", "FAILED"}
    [] s = "BLOCKED_BY_POLICY" -> {"DRAFT", "FAILED"}
    [] s = "UNREACHABLE"       -> {"RECONNECTING", "DRAFT", "FAILED"}
    [] s = "UNSUPPORTED_MEDIA" -> {"DRAFT", "FAILED"}
    [] s = "CLOCK_UNSTABLE"    -> {"STREAMING", "RECONNECTING", "FAILED"}
    [] s = "STORAGE_PRESSURE"  -> {"DEGRADED", "STREAMING", "FAILED"}

(* can_transition: membership in the _ALLOWED table. *)
CanTransition(s, t) ==
  t \in Targets(s) \/ (t = "DISABLED" /\ s # "DISABLED")

(* Mutation: leaving DISABLED starts the epochs again. *)
NextEpoch_reset(epoch, t) ==
  IF t = "RECONNECTING" THEN epoch + 1 ELSE IF t = "DRAFT" THEN 0 ELSE epoch

(* transition bumps the epoch on entry to RECONNECTING and nowhere else. *)
NextEpoch(epoch, t) == IF t = "RECONNECTING" THEN epoch + 1 ELSE epoch

(* The transitions a request handler performs in a row. *)
DisablePath == <<"DISABLED">>
EnablePath == <<"DRAFT", "VALIDATING", "SAVING", "STARTING", "STREAMING">>
ReconnectPath == <<"RECONNECTING", "CONNECTING", "STREAMING">>
=============================================================================
