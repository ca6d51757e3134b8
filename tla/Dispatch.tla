------------------------------- MODULE Dispatch -------------------------------
(***************************************************************************)
(* The relay of events to the command and control webhook                  *)
(* (core/dispatcher.py), the settings it obeys, their file, and who asks   *)
(* for it: transactional_write (events/outbox.py) starts a dispatch only   *)
(* on a thread that runs an event loop.  The pipelines record what they    *)
(* detect on threads that run none (stream_worker.py, uploads.py); the     *)
(* mirror of a committed outbox row is written on the loop.                *)
(*                                                                         *)
(* The names of hosts, the receiver and the network are external.          *)
(***************************************************************************)
EXTENDS Naturals, FiniteSets

CONSTANTS Webhook, NoWebhook,
          Alert,       \* events that are written
          SeverityOf   \* how severe each is: 1 medium, 2 high, 3 critical

Severity == 1..3

ASSUME DispatchAssumption == NoWebhook \notin Webhook /\ SeverityOf \in [Alert -> Severity]

VARIABLES
  c2Settings,  \* _CURRENT_SETTINGS: [url, enabled, min]
  c2File,      \* settings.json: settings, NoSettings or Torn
  c2Reply,     \* the answer to the last update: "none", "saved", "refused"
  c2Allowed,   \* URLs that the egress policy admits, by today's DNS
  c2Task,      \* the dispatch of each event
  c2Post,      \* the URL each is being posted to
  c2Due        \* events that were written while the settings wanted them (history)

dispatchVars == <<c2Settings, c2File, c2Reply, c2Allowed, c2Task, c2Post, c2Due>>

Settings == [url : Webhook \cup {NoWebhook}, enabled : BOOLEAN, min : Severity]
Defaults == [url |-> NoWebhook, enabled |-> FALSE, min |-> 2]
NoSettings == [Defaults EXCEPT !.url = "no file"]
Torn == [Defaults EXCEPT !.url = "torn"]

DispatchTypeOK ==
  /\ c2Settings \in Settings /\ c2File \in Settings \cup {NoSettings, Torn}
  /\ c2Reply \in {"none", "saved", "refused"} /\ c2Allowed \subseteq Webhook
  /\ c2Task \in [Alert -> {"unwritten", "queued", "posting", "posted", "given up", "none"}]
  /\ c2Post \in [Alert -> Webhook \cup {NoWebhook}] /\ c2Due \subseteq Alert

DispatchInit ==
  /\ c2Settings = Defaults /\ c2File = NoSettings /\ c2Reply = "none" /\ c2Allowed = Webhook
  /\ c2Task = [e \in Alert |-> "unwritten"] /\ c2Post = [e \in Alert |-> NoWebhook] /\ c2Due = {}
-----------------------------------------------------------------------------
(* DNS answers differently. *)
Rebind ==
  /\ c2Allowed' \in SUBSET Webhook /\ c2Allowed' # c2Allowed
  /\ UNCHANGED <<c2Settings, c2File, c2Reply, c2Task, c2Post, c2Due>>

(* The settings route: a URL must pass the policy now.  The settings are in *)
(* force before they are written; an error of the write is logged, and the  *)
(* answer is the same.                                                      *)
UpdateSettings(s) ==
  IF s.url \in c2Allowed \cup {NoWebhook}
  THEN /\ c2Settings' = s /\ c2Reply' = "saved"
       /\ c2File' \in {s, c2File, Torn}
       /\ UNCHANGED <<c2Allowed, c2Task, c2Post, c2Due>>
  ELSE c2Reply' = "refused"
       /\ UNCHANGED <<c2Settings, c2File, c2Allowed, c2Task, c2Post, c2Due>>

(* A new process reads the file, if there is one that it can read. *)
Loaded == IF c2File \in {NoSettings, Torn} THEN Defaults ELSE c2File

RestartDispatch ==
  /\ c2Settings' = Loaded /\ c2Reply' = "none"
  /\ c2Task' = [e \in Alert |-> IF c2Task[e] \in {"queued", "posting"} THEN "given up"
                                ELSE c2Task[e]]
  /\ c2Post' = [e \in Alert |-> NoWebhook]
  /\ UNCHANGED <<c2File, c2Allowed, c2Due>>

Wanted(e) ==
  c2Settings.enabled /\ c2Settings.url # NoWebhook /\ SeverityOf[e] >= c2Settings.min

(* The end of transactional_write, on the loop and on a pipeline's thread.  *)
Record(e, task) ==
  /\ c2Task[e] = "unwritten" /\ c2Task' = [c2Task EXCEPT ![e] = task]
  /\ c2Due' = IF Wanted(e) THEN c2Due \cup {e} ELSE c2Due
  /\ UNCHANGED <<c2Settings, c2File, c2Reply, c2Allowed, c2Post>>

WriteOnLoop(e) == Record(e, "queued")
WriteOnThread(e) == Record(e, "none")

(* dispatch_c2_webhook up to its await: the settings are read once, and the *)
(* URL is resolved and validated again.                                     *)
Start(e) ==
  /\ c2Task[e] = "queued"
  /\ IF Wanted(e) /\ c2Settings.url \in c2Allowed
     THEN /\ c2Task' = [c2Task EXCEPT ![e] = "posting"]
          /\ c2Post' = [c2Post EXCEPT ![e] = c2Settings.url]
     ELSE c2Task' = [c2Task EXCEPT ![e] = "given up"] /\ UNCHANGED c2Post
  /\ UNCHANGED <<c2Settings, c2File, c2Reply, c2Allowed, c2Due>>

(* The receiver accepts it, or refuses it or does not answer in time; no    *)
(* one tries again.                                                         *)
Answer(e) ==
  /\ c2Task[e] = "posting" /\ c2Task' = [c2Task EXCEPT ![e] = "posted"]
  /\ UNCHANGED <<c2Settings, c2File, c2Reply, c2Allowed, c2Post, c2Due>>

Fail(e) ==
  /\ c2Task[e] = "posting" /\ c2Task' = [c2Task EXCEPT ![e] = "given up"]
  /\ UNCHANGED <<c2Settings, c2File, c2Reply, c2Allowed, c2Post, c2Due>>

DispatchNext ==
  \/ Rebind \/ RestartDispatch \/ \E s \in Settings : UpdateSettings(s)
  \/ \E e \in Alert : WriteOnLoop(e) \/ WriteOnThread(e) \/ Start(e) \/ Answer(e) \/ Fail(e)

(* The loop runs its tasks, and a post ends with its timeout at the latest. *)
DispatchFairness ==
  \A e \in Alert : WF_dispatchVars(Start(e)) /\ WF_dispatchVars(Answer(e) \/ Fail(e))
-----------------------------------------------------------------------------
(* "Events are persisted to a durable database, displayed in real-time on   *)
(* an operator dashboard, and optionally relayed to external Command &      *)
(* Control (C2) webhooks" (README.md:31): a dispatch of an event that is    *)
(* written while the settings want it is in the end answered or given up.   *)
(* False: what a pipeline detects is written on a thread, and nothing       *)
(* dispatches it.                                                           *)
AlertsAreRelayed == \A e \in Alert : e \in c2Due ~> c2Task[e] \in {"posted", "given up"}
=============================================================================
