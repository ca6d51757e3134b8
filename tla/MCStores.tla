------------------------------- MODULE MCStores -------------------------------
(***************************************************************************)
(* The components that keep something, each on a small instance: events    *)
(* and their outbox in memory and in the database, cameras in the          *)
(* database, evidence, uploads and weights on disk, sightings, watchlist,  *)
(* the engines and the relay.  They share no state in these models, so a   *)
(* behaviour is one of the component that `part` names, and the states of  *)
(* the run are the sum of theirs.                                          *)
(***************************************************************************)
EXTENDS Outbox, CameraDurability, Evidence, Uploads, ModelFiles, DurableOutbox, Sightings,
        WatchlistStore, DatabaseEngine, Dispatch

CONSTANT Parts  \* the components to check

VARIABLE part

(* Plates on the watchlist, and what the OCR reads. *)
Plates == 2 :> <<"A", "B", "1">> @@ 3 :> <<"A", "8", "1">>
Reads == {<<"A", "B", "1">>, <<"A", "8", "I">>, <<"A", "8", "2">>, <<"A", "B">>,
          <<"X", "Y", "Z">>}

(* One critical alert. *)
Severities == [e \in Alert |-> 3]

StoresInit ==
  /\ part \in Parts
  /\ Init /\ DurabilityInit /\ EvidenceInit /\ UploadsInit /\ ModelFilesInit /\ DurableInit
  /\ SightingsInit /\ WatchlistInit /\ DatabaseInit /\ DispatchInit
  /\ part # "database" => dbLocal

Except(p, v) == IF part = p THEN TRUE ELSE UNCHANGED v

Rest ==
  /\ Except("outbox", vars) /\ Except("durability", durabilityVars)
  /\ Except("evidence", evidenceVars) /\ Except("uploads", uploadVars)
  /\ Except("models", modelVars) /\ Except("durable", durableVars)
  /\ Except("sightings", sightingsVars) /\ Except("watchlist", watchlistVars)
  /\ Except("database", databaseVars) /\ Except("dispatch", dispatchVars)
  /\ UNCHANGED part

StoresNext ==
  \/ part = "outbox" /\ Next /\ Rest
  \/ part = "durability" /\ DurabilityNext /\ Rest
  \/ part = "evidence" /\ EvidenceNext /\ Rest
  \/ part = "uploads" /\ UploadsNext /\ Rest
  \/ part = "models" /\ ModelFilesNext /\ Rest
  \/ part = "durable" /\ DurableNext /\ Rest
  \/ part = "sightings" /\ SightingsNext /\ Rest
  \/ part = "watchlist" /\ WatchlistNext /\ Rest
  \/ part = "database" /\ DatabaseNext /\ Rest
  \/ part = "dispatch" /\ DispatchNext /\ Rest

storesVars == <<part, vars, durabilityVars, evidenceVars, uploadVars, modelVars, durableVars,
                sightingsVars, watchlistVars, databaseVars, dispatchVars>>

StoresSpec == StoresInit /\ [][StoresNext]_storesVars
-----------------------------------------------------------------------------
(* Every component keeps to the types of its module. *)
TypesOK ==
  /\ TypeOK /\ DurabilityTypeOK /\ EvidenceTypeOK /\ UploadsTypeOK /\ ModelFilesTypeOK
  /\ DurableTypeOK /\ SightingsTypeOK /\ WatchlistTypeOK /\ DatabaseTypeOK /\ DispatchTypeOK
=============================================================================
