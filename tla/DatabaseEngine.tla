---------------------------- MODULE DatabaseEngine ----------------------------
(***************************************************************************)
(* The engines and session makers of db.py: one of each by database URL,   *)
(* an ambient URL for callers that name none, the creation of the tables   *)
(* at start, with the fallback to a local file when the configured         *)
(* database does not answer, and the disposal at shutdown.                 *)
(*                                                                         *)
(* Everything runs on the event loop, so a step lasts from one await to    *)
(* the next; save tasks may ask for a session between any two of them.     *)
(* The databases and the pools of connections are external.                *)
(***************************************************************************)
EXTENDS Naturals, FiniteSets

CONSTANTS Configured,  \* the configured URL
          Fallback,    \* the URL of the local file, which may be the same
          NoUrl,
          MaxEngines,  \* (bound)
          MaxRestarts  \* (bound)

ASSUME DatabaseAssumption ==
  NoUrl \notin {Configured, Fallback} /\ {MaxEngines, MaxRestarts} \subseteq Nat

Url == {Configured, Fallback}
Eng == 1..MaxEngines
NoEngine == 0

VARIABLES
  dbEngines,   \* _ENGINES
  dbMakers,    \* _SESSIONMAKERS: the engine of each maker
  dbCurrent,   \* _CURRENT_URL
  dbUrlOf,     \* the URL each engine connects to
  dbDisposed,  \* engines that were disposed of
  dbTables,    \* the databases that have the tables
  dbStep,      \* where init_db or dispose_engine is
  dbOld,       \* the engines that step still has to dispose of
  dbLocal,     \* what the environment allows: a local URL, or the fallback
  dbHome,      \* the database init_db made ready (history)
  dbRestarts

databaseVars == <<dbEngines, dbMakers, dbCurrent, dbUrlOf, dbDisposed, dbTables, dbStep, dbOld,
                  dbLocal, dbHome, dbRestarts>>

DatabaseTypeOK ==
  /\ dbEngines \in [Url -> Eng \cup {NoEngine}] /\ dbMakers \in [Url -> Eng \cup {NoEngine}]
  /\ dbCurrent \in Url \cup {NoUrl}
  /\ dbUrlOf \in [Eng -> Url \cup {NoUrl}] /\ dbDisposed \subseteq Eng
  /\ dbTables \subseteq Url
  /\ dbStep \in {"start", "create", "dispose", "fall back", "create local", "ready", "failed",
                 "shut", "down"}
  /\ dbOld \subseteq Eng /\ dbLocal \in BOOLEAN /\ dbHome \in Url \cup {NoUrl}
  /\ dbRestarts \in 0..MaxRestarts

Empty == [u \in Url |-> NoEngine]

DatabaseInit ==
  /\ dbEngines = Empty /\ dbMakers = Empty /\ dbCurrent = NoUrl
  /\ dbUrlOf = [e \in Eng |-> NoUrl] /\ dbDisposed = {} /\ dbTables = {}
  /\ dbStep = "start" /\ dbOld = {} /\ dbLocal \in BOOLEAN /\ dbHome = NoUrl /\ dbRestarts = 0

-----------------------------------------------------------------------------
(* get_engine_for_url: the cached engine or a new one; its URL becomes the  *)
(* ambient one.                                                             *)
Unused == {e \in Eng : dbUrlOf[e] = NoUrl}
NewEngine == CHOOSE e \in Unused : \A d \in Unused : e <= d

GetEngineForUrl(u) ==
  /\ dbCurrent' = u
  /\ IF dbEngines[u] # NoEngine THEN UNCHANGED <<dbEngines, dbUrlOf>>
     ELSE /\ Unused # {}
          /\ dbEngines' = [dbEngines EXCEPT ![u] = NewEngine]
          /\ dbUrlOf' = [dbUrlOf EXCEPT ![NewEngine] = u]

EngineOf(u) == IF dbEngines[u] # NoEngine THEN dbEngines[u] ELSE NewEngine

(* get_sessionmaker: for the settings, or for the ambient URL.  A maker is  *)
(* kept with the engine it was made for.                                    *)
Asked(ambient) == IF ambient /\ dbCurrent # NoUrl THEN dbCurrent ELSE Configured

GetSessionmaker(ambient) ==
  /\ dbStep # "down"
  /\ GetEngineForUrl(Asked(ambient))
  /\ dbMakers' = [dbMakers EXCEPT ![Asked(ambient)] =
                    IF @ # NoEngine THEN @ ELSE EngineOf(Asked(ambient))]
  /\ UNCHANGED <<dbDisposed, dbTables, dbStep, dbOld, dbLocal, dbHome, dbRestarts>>

(* init_db: the engine, then the tables, if the database answers.           *)
BeginInit ==
  /\ dbStep = "start" /\ dbStep' = "create"
  /\ GetEngineForUrl(Configured)
  /\ UNCHANGED <<dbMakers, dbDisposed, dbTables, dbOld, dbLocal, dbHome, dbRestarts>>

CreateTables ==
  /\ dbStep = "create" /\ dbStep' = "ready"
  /\ dbTables' = dbTables \cup {Configured} /\ dbHome' = Configured
  /\ UNCHANGED <<dbEngines, dbMakers, dbCurrent, dbUrlOf, dbDisposed, dbOld, dbLocal, dbRestarts>>

(* It does not: without leave to fall back the error goes up to the caller, *)
(* which goes on without a database.                                        *)
Refuse ==
  /\ dbStep = "create" /\ ~dbLocal /\ dbStep' = "failed"
  /\ UNCHANGED <<dbEngines, dbMakers, dbCurrent, dbUrlOf, dbDisposed, dbTables, dbOld, dbLocal,
                 dbHome, dbRestarts>>

GiveUpPrimary ==
  /\ dbStep = "create" /\ dbLocal
  /\ dbEngines' = [dbEngines EXCEPT ![Configured] = NoEngine]
  /\ dbMakers' = [dbMakers EXCEPT ![Configured] = NoEngine]
  /\ dbOld' = {dbEngines[Configured]} \ {NoEngine}
  /\ dbStep' = IF dbOld' = {} THEN "fall back" ELSE "dispose"
  /\ UNCHANGED <<dbCurrent, dbUrlOf, dbDisposed, dbTables, dbLocal, dbHome, dbRestarts>>

(* await dispose, here and at shutdown. *)
Dispose(e) ==
  /\ dbStep \in {"dispose", "shut"} /\ e \in dbOld
  /\ dbDisposed' = dbDisposed \cup {e} /\ dbOld' = dbOld \ {e}
  /\ dbStep' = CASE dbOld' # {} -> dbStep
                 [] dbStep = "dispose" -> "fall back"
                 [] OTHER -> "down"
  /\ UNCHANGED <<dbEngines, dbMakers, dbCurrent, dbUrlOf, dbTables, dbLocal, dbHome, dbRestarts>>

(* Mutation: the maker of the configured URL is left as it is. *)
AliasedMakers_not(e) ==
  [u \in Url |-> IF u = Fallback /\ dbMakers[u] = NoEngine THEN e ELSE dbMakers[u]]

(* Both URLs lead to the fallback's maker. *)
AliasedMakers(e) ==
  LET maker == IF dbMakers[Fallback] = NoEngine THEN e ELSE dbMakers[Fallback]
  IN  [u \in Url |-> maker]

FallBack ==
  /\ dbStep = "fall back" /\ dbStep' = "create local"
  /\ dbEngines[Fallback] = NoEngine => Unused # {}
  /\ LET e == EngineOf(Fallback)
     IN  /\ dbUrlOf' = [dbUrlOf EXCEPT ![e] = Fallback]
         /\ dbEngines' = [u \in Url |-> e]
         /\ dbMakers' = AliasedMakers(e)
  /\ dbCurrent' = Fallback
  /\ UNCHANGED <<dbDisposed, dbTables, dbOld, dbLocal, dbHome, dbRestarts>>

CreateLocal ==
  /\ dbStep = "create local"
  /\ \/ dbStep' = "ready" /\ dbTables' = dbTables \cup {Fallback} /\ dbHome' = Fallback
     \/ dbStep' = "failed" /\ UNCHANGED <<dbTables, dbHome>>
  /\ UNCHANGED <<dbEngines, dbMakers, dbCurrent, dbUrlOf, dbDisposed, dbOld, dbLocal, dbRestarts>>

(* dispose_engine forgets everything before it disposes of the engines, so  *)
(* that a save task that comes late gets a new one, for the configured URL. *)
BeginDispose ==
  /\ dbStep \in {"ready", "failed"}
  /\ dbOld' = {dbEngines[u] : u \in Url} \ {NoEngine}
  /\ dbStep' = IF dbOld' = {} THEN "down" ELSE "shut"
  /\ dbEngines' = Empty /\ dbMakers' = Empty /\ dbCurrent' = NoUrl
  /\ UNCHANGED <<dbUrlOf, dbDisposed, dbTables, dbLocal, dbHome, dbRestarts>>

(* The process ends, with what it had, and another one starts. *)
RestartDatabase ==
  /\ dbStep \in {"ready", "failed", "shut", "down"} /\ dbRestarts < MaxRestarts
  /\ dbRestarts' = dbRestarts + 1
  /\ dbEngines' = Empty /\ dbMakers' = Empty /\ dbCurrent' = NoUrl
  /\ dbUrlOf' = [e \in Eng |-> NoUrl] /\ dbDisposed' = {} /\ dbOld' = {}
  /\ dbStep' = "start" /\ dbLocal' \in BOOLEAN /\ dbHome' = NoUrl
  /\ UNCHANGED dbTables

InitStep == \/ BeginInit \/ CreateTables \/ Refuse \/ GiveUpPrimary \/ FallBack \/ CreateLocal
            \/ BeginDispose \/ \E e \in Eng : Dispose(e)

DatabaseNext == InitStep \/ RestartDatabase \/ \E ambient \in BOOLEAN : GetSessionmaker(ambient)

DatabaseSpec == DatabaseInit /\ [][DatabaseNext]_databaseVars
-----------------------------------------------------------------------------
(* "no silent split-brain" (db.py:201): from the end of init_db to the      *)
(* disposal, whoever asks for a session, with the settings or without,      *)
(* before or after others did, gets the one database whose tables were      *)
(* made, through an engine that was not disposed of: even if it or others   *)
(* asked while the configured database was being given up.                  *)
OneDatabase ==
  dbStep = "ready" =>
    \A u \in {Asked(TRUE), Configured} :
      LET e == IF dbMakers[u] # NoEngine THEN dbMakers[u] ELSE dbEngines[u]
      IN  /\ e # NoEngine
          /\ dbUrlOf[e] = dbHome /\ e \notin dbDisposed /\ dbHome \in dbTables
=============================================================================
