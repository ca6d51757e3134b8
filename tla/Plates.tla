-------------------------------- MODULE Plates --------------------------------
(***************************************************************************)
(* Number plates of one camera: the analysis thread submits crops of       *)
(* vehicles to a one-thread OCR executor and drains the futures at the     *)
(* start of later frames (services/stream_worker.py); the OCR thread reads *)
(* a text and takes a vote among the last reads of that vehicle            *)
(* (core/anpr.py).  Track ids start again with every stream epoch.         *)
(*                                                                         *)
(* A frame is two steps of the analysis thread, before and after           *)
(* process_frame; a job is two steps of the OCR thread, before and after   *)
(* the engine runs; a reconnect may change the epoch between any of them.  *)
(* A frame submits at most one crop (bound; the code has no such limit,    *)
(* and submits in a row what one may submit in several frames).            *)
(*                                                                         *)
(* A vote carries the epoch in which its crop was taken, and a result the  *)
(* epochs of the votes for its text: histories, which no step looks at.    *)
(***************************************************************************)
EXTENDS Naturals, FiniteSets, SequencesExt, Subsequences

CONSTANTS Job,         \* OCR jobs
          Track,       \* track ids
          Text,        \* plate texts
          Listed,      \* plates on the watchlist
          MaxPending,  \* the submit cap, 3
          Window,      \* reads that vote, 10
          MaxTracks,   \* max_history_tracks
          MaxEpoch,    \* (bound)
          NoText

ASSUME PlatesAssumption ==
  /\ Listed \subseteq Text /\ NoText \notin Text
  /\ {MaxPending, Window, MaxTracks} \subseteq Nat \ {0} /\ MaxEpoch \in Nat

VARIABLES
  plCam,      \* cam["stream_epoch"]
  plPipe,     \* pipeline.stream_epoch
  plFrame,    \* the analysis thread is between the two halves of a frame
  plTracks,   \* track ids the tracker holds
  plJob,      \* the jobs
  plQueue,    \* jobs the executor has yet to run
  plPending,  \* pending_ocr
  plHist,     \* _history: votes by <<epoch, track>>, oldest key first
  plText,     \* track_plates, with the epoch of the job and those of the votes
  plLocked,   \* tracks locked to a watchlist entry, by the text that did it
  plCache,    \* plate_cache["plates"]: <<track, text>>
  plShown     \* the plates of the published observation: <<track, text>>

plateVars == <<plCam, plPipe, plFrame, plTracks, plJob, plQueue, plPending, plHist,
               plText, plLocked, plCache, plShown>>

NewJob == [at |-> "new", track |-> 0, epoch |-> 0, key |-> 0, text |-> NoText, from |-> {}]
Vote(e, p) == [epoch |-> e, text |-> p]
Plate(e, p, from) == [epoch |-> e, text |-> p, from |-> from]
NoPlate == Plate(0, NoText, {})
Clear == [t \in Track |-> NoPlate]

PlatesTypeOK ==
  /\ plCam \in 0..MaxEpoch /\ plPipe \in 0..plCam /\ plFrame \in BOOLEAN
  /\ plTracks \subseteq Track
  /\ plJob \in [Job -> [at : {"new", "queued", "running", "done", "cancelled"},
                        track : Track \cup {0}, epoch : 0..MaxEpoch, key : 0..MaxEpoch,
                        text : Text \cup {NoText}, from : SUBSET (0..MaxEpoch)]]
  /\ plQueue \in Seq(Job) /\ plPending \in Seq(Job)
  /\ Len(plPending) <= MaxPending
  /\ \A i \in DOMAIN plHist : plHist[i].key \in (0..MaxEpoch) \X Track
                              /\ plHist[i].votes \in Seq([epoch : 0..MaxEpoch, text : Text])
  /\ plText \in [Track -> [epoch : 0..MaxEpoch, text : Text \cup {NoText},
                          from : SUBSET (0..MaxEpoch)]]
  /\ plLocked \in [Track -> Job \cup {NoText}]
  /\ plCache \subseteq Track \X Text /\ plShown \subseteq Track \X Text

PlatesInit ==
  /\ plCam = 0 /\ plPipe = 0 /\ plFrame = FALSE /\ plTracks = {}
  /\ plJob = [j \in Job |-> NewJob] /\ plQueue = <<>> /\ plPending = <<>>
  /\ plHist = <<>> /\ plText = Clear
  /\ plLocked = [t \in Track |-> NoText]
  /\ plCache = {} /\ plShown = {}

At(j) == plJob[j].at
-----------------------------------------------------------------------------
(* reconnect_camera assigns the new epoch; the worker learns it later. *)
BumpEpoch ==
  /\ plCam < MaxEpoch
  /\ plCam' = plCam + 1
  /\ UNCHANGED <<plPipe, plFrame, plTracks, plJob, plQueue, plPending, plHist, plText,
                 plLocked, plCache, plShown>>

(* The epoch a job votes under is the one the camera has when it starts,    *)
(* which is not that of its crop if a reconnect came in between.            *)
StartJob ==
  /\ plQueue # <<>> /\ \A j \in Job : At(j) # "running"
  /\ plQueue' = Tail(plQueue)
  /\ LET j == Head(plQueue)
     IN  plJob' = IF At(j) = "queued"
                  THEN [plJob EXCEPT ![j].at = "running", ![j].key = plCam] ELSE plJob
  /\ UNCHANGED <<plCam, plPipe, plFrame, plTracks, plPending, plHist, plText, plLocked,
                 plCache, plShown>>

(* consensus_for: votes of other epochs are dropped, the read is added, and *)
(* the oldest track beyond the limit goes, unless it is this one.           *)
VotesOf(hist, key) ==
  LET own == Where(hist, LAMBDA h : h.key = key)
  IN  IF own = <<>> THEN <<>> ELSE own[1].votes

LastVotes(votes) == SubSeq(votes, IF Len(votes) > Window THEN 2 ELSE 1, Len(votes))

Voted(hist, key, v) ==
  LET kept == Where(hist, LAMBDA h : h.key[1] = key[1])
      votes == LastVotes(Append(VotesOf(kept, key), v))
      known == \E i \in DOMAIN kept : kept[i].key = key
      added == IF known
               THEN [i \in DOMAIN kept |->
                       IF kept[i].key = key THEN [key |-> key, votes |-> votes] ELSE kept[i]]
               ELSE Append(kept, [key |-> key, votes |-> votes])
  IN  IF Len(added) > MaxTracks /\ added[1].key # key THEN Tail(added) ELSE added

VotesFor(votes, p) == {i \in DOMAIN votes : votes[i].text = p}
Count(votes, p) == Cardinality(VotesFor(votes, p))

(* Counter.most_common: among equals the text that was read first. *)
MostCommon(votes) ==
  LET i == CHOOSE i \in DOMAIN votes :
             /\ \A k \in DOMAIN votes : Count(votes, votes[k].text) <= Count(votes, votes[i].text)
             /\ \A k \in 1..i - 1 : Count(votes, votes[k].text) < Count(votes, votes[i].text)
  IN  votes[i].text

(* The text of a finished job and whose votes it has: the consensus of two  *)
(* reads or more, otherwise the read itself.                                *)
Outcome(votes, v) ==
  LET c == MostCommon(votes)
  IN  IF Count(votes, c) >= 2
      THEN [text |-> c, from |-> {votes[i].epoch : i \in VotesFor(votes, c)}]
      ELSE [text |-> v.text, from |-> {v.epoch}]

(* recognize_vehicle: no plate in the crop, or a read; a read of too little *)
(* confidence votes and is not reported.                                    *)
FinishJob(j) ==
  /\ At(j) = "running"
  /\ \/ /\ plJob' = [plJob EXCEPT ![j].at = "done"]
        /\ UNCHANGED plHist
     \/ \E p \in Text, confident \in BOOLEAN :
          LET key == <<plJob[j].key, plJob[j].track>>
              v == Vote(plJob[j].epoch, p)
              out == Outcome(VotesOf(Voted(plHist, key, v), key), v)
          IN  /\ plHist' = Voted(plHist, key, v)
              /\ plJob' = [plJob EXCEPT ![j].at = "done",
                             ![j].text = IF confident THEN out.text ELSE NoText,
                             ![j].from = IF confident THEN out.from ELSE {}]
  /\ UNCHANGED <<plCam, plPipe, plFrame, plTracks, plQueue, plPending, plText, plLocked,
                 plCache, plShown>>
-----------------------------------------------------------------------------
Cancelled(jobs) ==
  [j \in Job |-> IF j \in jobs /\ At(j) = "queued" THEN [plJob[j] EXCEPT !.at = "cancelled"]
                                                   ELSE plJob[j]]

(* Mutation: the futures of the old epoch are drained like any other. *)
Resynced_keep == [pending |-> plPending, text |-> Clear, cache |-> {}]

(* _resync_epoch_if_bumped: the first thing a frame does.  The tracker, the *)
(* pending futures and the caches of the old epoch go.                      *)
Resynced ==
  IF plCam = plPipe
  THEN [pending |-> plPending, text |-> plText, cache |-> plCache]
  ELSE [pending |-> <<>>, text |-> Clear, cache |-> {}]

LastOf(results, t, texts) ==
  LET own == Where(results, LAMBDA j : plJob[j].track = t /\ plJob[j].text \in texts)
  IN  IF own = <<>> THEN NoText ELSE Last(own)

(* unique_plates: each text once, with the track it was last read from. *)
UniquePlates(results) ==
  {<<plJob[results[i]].track, plJob[results[i]].text>> :
     i \in {i \in DOMAIN results :
              /\ plJob[results[i]].text # NoText
              /\ \A k \in i + 1 .. Len(results) :
                   plJob[results[k]].text # plJob[results[i]].text}}

(* Results are applied in the order of submission: they label their track,  *)
(* and a listed plate locks the track if the tracker still has it.          *)
BeginFrame ==
  /\ ~plFrame
  /\ LET base == Resynced
         held == IF plCam = plPipe THEN plTracks ELSE {}
         done == Where(base.pending, LAMBDA j : At(j) = "done")
         open == {j \in ToSet(base.pending) : At(j) # "done"}
         read == [t \in Track |-> LastOf(done, t, Text)]
         hit  == [t \in Track |-> LastOf(done, t, Listed)]
     IN  /\ \E timedOut \in SUBSET open :
              /\ plPending' = Where(base.pending, LAMBDA j : j \in open \ timedOut)
              /\ plJob' = Cancelled(timedOut \cup (ToSet(plPending) \ ToSet(base.pending)))
         /\ plText' = [t \in Track |-> IF read[t] = NoText THEN base.text[t]
                         ELSE Plate(plJob[read[t]].epoch, plJob[read[t]].text,
                                    plJob[read[t]].from)]
         /\ plCache' = IF done = <<>> THEN base.cache ELSE UniquePlates(done)
         /\ plLocked' = [t \in Track |->
              IF t \notin held THEN NoText
              ELSE IF hit[t] # NoText THEN hit[t] ELSE plLocked[t]]
         /\ plTracks' = held
  /\ plPipe' = plCam /\ plFrame' = TRUE
  /\ UNCHANGED <<plCam, plQueue, plHist, plShown>>

(* A track that is ready and due has its crop submitted. *)
SubmitJob(t, j) ==
  /\ Len(plPending) < MaxPending /\ At(j) = "new"
  /\ plJob' = [plJob EXCEPT ![j].at = "queued", ![j].track = t, ![j].epoch = plPipe]
  /\ plPending' = Append(plPending, j) /\ plQueue' = Append(plQueue, j)

(* Dead tracks keep their votes for a grace period, other epochs do not. *)
Evicted(dead) ==
  Where(plHist, LAMBDA h : h.key[1] = plCam /\ h.key[2] \notin dead)

(* The plates shown: those of the live tracks; without any, the cached ones *)
(* of live tracks, and without those every cached one.                      *)
ShownPlates(labels, live) ==
  LET texts == {<<t, labels[t].text>> : t \in {t \in live : labels[t].text # NoText}}
      cached == {p \in plCache : p[1] \in live}
  IN  IF texts # {} THEN texts ELSE IF cached # {} THEN cached ELSE plCache

FinishFrame ==
  /\ plFrame
  /\ \E live \in SUBSET Track :
       /\ plTracks' = live
       /\ \/ UNCHANGED <<plJob, plPending, plQueue>>
          \/ \E t \in live, j \in Job : SubmitJob(t, j)
       /\ \E dead \in SUBSET (Track \ live) : plHist' = Evicted(dead)
       /\ LET labels == [t \in Track |-> IF t \in live THEN plText[t] ELSE NoPlate]
          IN  plText' = labels /\ plShown' = ShownPlates(labels, live)
       /\ plLocked' = [t \in Track |-> IF t \in live THEN plLocked[t] ELSE NoText]
  /\ plFrame' = FALSE
  /\ UNCHANGED <<plCam, plPipe, plCache>>

PlatesNext ==
  \/ BumpEpoch \/ StartJob \/ BeginFrame \/ FinishFrame
  \/ \E j \in Job : FinishJob(j)

PlatesSpec == PlatesInit /\ [][PlatesNext]_plateVars
-----------------------------------------------------------------------------
(* "A dead vehicle's votes can never decide a new vehicle's plate"           *)
(* (stream_worker.py:169, and anpr.py:267): whatever labels a track has a   *)
(* vote of a crop of this epoch.                                            *)
LabelsOfThisEpoch ==
  \A t \in Track : plText[t].text # NoText => plPipe \in plText[t].from

(* What the resync does achieve: once the pipeline is in a new epoch no     *)
(* crop of an earlier one is waiting to be read, so that at most the one    *)
(* the OCR thread is at still votes, and no result of such a crop labels a  *)
(* track, which may have the same id.  The votes that crops of the earlier  *)
(* epoch cast before the resync are not undone.                             *)
OldReadsEndWithTheEpoch ==
  /\ \A j \in Job : At(j) = "queued" => plJob[j].epoch = plPipe
  /\ \A t \in Track : plText[t].text # NoText => plText[t].epoch = plPipe
=============================================================================
