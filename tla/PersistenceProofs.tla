-------------------------- MODULE PersistenceProofs --------------------------
(***************************************************************************)
(* What the database keeps, for any number of engines, sessions, rows and  *)
(* save tasks: the engines of db.py, the save tasks of a camera and the    *)
(* outbox rows with their mirrors in the timeline.                         *)
(*                                                                         *)
(* Engines.  Up to the fallback only the configured URL has an engine;     *)
(* after it both URLs share one, made after the old one was given up.  No  *)
(* cached engine is, or is about to be, disposed of.                       *)
(*                                                                         *)
(* The module ends with the dispatcher and with the sum of all components  *)
(* that keep something, as the run stores checks it: its other parts are   *)
(* proved of in StoreProofs and OutboxProofs.                              *)
(***************************************************************************)
EXTENDS MCStores, StoreProofs, OutboxProofs

(* An engine that was ever made has a URL; the cached ones are alive, and a *)
(* maker belongs to the cached engine.                                      *)
CachedAreAlive ==
  /\ \A e \in dbDisposed \cup dbOld : dbUrlOf[e] # NoUrl
  /\ \A u \in Url : /\ dbMakers[u] \in {NoEngine, dbEngines[u]}
                    /\ dbEngines[u] # NoEngine => /\ dbUrlOf[dbEngines[u]] # NoUrl
                                                  /\ dbEngines[u] \notin dbDisposed \cup dbOld

(* Only the configured URL was asked for ... *)
OnPrimary ==
  /\ dbCurrent \in {NoUrl, Configured}
  /\ \A u \in Url \ {Configured} : dbEngines[u] = NoEngine
  /\ dbEngines[Configured] # NoEngine => dbUrlOf[dbEngines[Configured]] = Configured

(* ... or both lead to the local file. *)
OnFallback ==
  /\ dbCurrent # NoUrl
  /\ \A u \in Url : /\ dbEngines[u] # NoEngine /\ dbUrlOf[dbEngines[u]] = Fallback
                    /\ dbMakers[u] = dbEngines[u]

DatabaseInv ==
  /\ DatabaseTypeOK /\ CachedAreAlive
  /\ dbStep \in {"start", "create", "dispose", "fall back"} => OnPrimary
  /\ dbStep = "create" => dbEngines[Configured] # NoEngine /\ dbCurrent = Configured
  /\ dbStep = "create local" => OnFallback
  /\ dbStep = "ready" =>
       /\ dbHome \in dbTables
       /\ \/ dbHome = Configured /\ OnPrimary
             /\ dbEngines[Configured] # NoEngine /\ dbCurrent = Configured
          \/ dbHome = Fallback /\ OnFallback

(* Engines are numbers; what stands for no engine and no URL is neither. *)
LEMMA EnginesAreNumbers == Eng \subseteq Nat /\ NoEngine \notin Eng /\ NoUrl \notin Url
  BY DatabaseAssumption DEF Eng, NoEngine, Url

(* A new engine is one that was not used before. *)
LEMMA NewEngineIsUnused == Unused # {} => NewEngine \in Unused
<1>1. Unused \subseteq Nat BY EnginesAreNumbers DEF Unused
<1>2. Unused # {} => \E e \in Unused : \A d \in Unused : e <= d BY <1>1, LeastNumber
<1>3. QED BY <1>2 DEF NewEngine

(* The invariant holds at the start. *)
LEMMA DatabaseInitInv == DatabaseInit => DatabaseInv
<1> SUFFICES ASSUME DatabaseInit PROVE DatabaseInv OBVIOUS
<1> USE DatabaseAssumption DEF DatabaseInit, Empty
<1>1. DatabaseTypeOK BY DEF DatabaseTypeOK
<1>2. CachedAreAlive /\ OnPrimary BY DEF CachedAreAlive, OnPrimary, Url
<1>3. QED BY <1>1, <1>2 DEF DatabaseInv

(* What an engine for a URL does to the caches, when nothing else changes   *)
(* but a maker for the same URL.                                            *)
LEMMA GetEngineInv ==
  ASSUME DatabaseInv, NEW u \in Url, GetEngineForUrl(u),
         UNCHANGED <<dbDisposed, dbOld>>,
         dbMakers' \in {dbMakers,
                        [dbMakers EXCEPT ![u] = IF @ # NoEngine THEN @ ELSE EngineOf(u)]}
  PROVE  /\ dbEngines' \in [Url -> Eng \cup {NoEngine}]
         /\ dbMakers' \in [Url -> Eng \cup {NoEngine}]
         /\ dbUrlOf' \in [Eng -> Url \cup {NoUrl}] /\ dbCurrent' = u
         /\ CachedAreAlive'
         /\ u = Configured /\ OnPrimary =>
              OnPrimary' /\ dbEngines'[Configured] # NoEngine
         /\ OnFallback => OnFallback'
<1> USE EnginesAreNumbers DEF DatabaseInv, DatabaseTypeOK
<1>1. Configured \in Url BY DEF Url
<1>2. CASE dbEngines[u] # NoEngine
  <2>1. dbEngines' = dbEngines /\ dbUrlOf' = dbUrlOf /\ dbCurrent' = u
    BY <1>2 DEF GetEngineForUrl
  <2>2. EngineOf(u) = dbEngines[u] BY <1>2 DEF EngineOf
  <2>3. dbMakers' \in [Url -> Eng \cup {NoEngine}] BY <2>2
  <2>4. CachedAreAlive' BY <2>1, <2>2 DEF CachedAreAlive
  <2>5. u = Configured /\ OnPrimary => OnPrimary' /\ dbEngines'[Configured] # NoEngine
    BY <1>2, <2>1 DEF OnPrimary
  <2>6. OnFallback => OnFallback' BY <2>1, <2>2 DEF OnFallback
  <2>7. QED BY <2>1, <2>3, <2>4, <2>5, <2>6
<1>3. CASE dbEngines[u] = NoEngine
  <2> DEFINE e == NewEngine
  <2>1. /\ dbEngines' = [dbEngines EXCEPT ![u] = e] /\ dbUrlOf' = [dbUrlOf EXCEPT ![e] = u]
        /\ dbCurrent' = u /\ e \in Unused
    BY <1>3, NewEngineIsUnused DEF GetEngineForUrl
  <2>2. e \in Eng /\ dbUrlOf[e] = NoUrl BY <2>1 DEF Unused
  <2>3. EngineOf(u) = e BY <1>3 DEF EngineOf
  <2> HIDE DEF e
  <2>4. dbMakers[u] = NoEngine BY <1>3 DEF CachedAreAlive
  <2>5. dbMakers' \in [Url -> Eng \cup {NoEngine}] BY <2>2, <2>3
  <2>6. e \notin dbDisposed \cup dbOld BY <2>2 DEF CachedAreAlive
  <2>7. \A v \in Url : dbEngines[v] # e BY <2>2 DEF CachedAreAlive
  <2>8. CachedAreAlive'
    <3>1. \A d \in dbDisposed \cup dbOld : dbUrlOf'[d] # NoUrl
      BY <2>1, <2>2 DEF CachedAreAlive
    <3>2. \A v \in Url : dbMakers'[v] \in {NoEngine, dbEngines'[v]}
      BY <2>1, <2>3, <2>4 DEF CachedAreAlive
    <3>3. \A v \in Url : dbEngines'[v] # NoEngine =>
            dbUrlOf'[dbEngines'[v]] # NoUrl /\ dbEngines'[v] \notin dbDisposed \cup dbOld
      BY <2>1, <2>2, <2>6, <2>7 DEF CachedAreAlive
    <3>4. QED BY <3>1, <3>2, <3>3 DEF CachedAreAlive
  <2>9. u = Configured /\ OnPrimary => OnPrimary' /\ dbEngines'[Configured] # NoEngine
    <3> SUFFICES ASSUME u = Configured, OnPrimary
                 PROVE  OnPrimary' /\ dbEngines'[Configured] # NoEngine
      OBVIOUS
    <3>1. dbEngines'[u] = e /\ dbUrlOf'[e] = u /\ e # NoEngine BY <2>1, <2>2
    <3>2. \A v \in Url \ {Configured} : dbEngines'[v] = NoEngine
      BY <2>1 DEF OnPrimary
    <3>3. QED BY <2>1, <3>1, <3>2 DEF OnPrimary
  <2>10. ~OnFallback BY <1>3 DEF OnFallback
  <2>11. QED BY <2>1, <2>2, <2>5, <2>8, <2>9, <2>10
<1>4. QED BY <1>2, <1>3

(* Whoever asks for a session, up to the fallback means the configured      *)
(* database, and after it finds both makers made.                           *)
LEMMA GetSessionmakerInv ==
  ASSUME DatabaseInv, NEW ambient \in BOOLEAN, GetSessionmaker(ambient)
  PROVE  DatabaseInv'
<1> DEFINE u == Asked(ambient)
<1>1. u \in Url BY DEF Asked, DatabaseInv, DatabaseTypeOK, Url
<1>2. /\ GetEngineForUrl(u)
      /\ dbMakers' = [dbMakers EXCEPT ![u] = IF @ # NoEngine THEN @ ELSE EngineOf(u)]
      /\ UNCHANGED <<dbDisposed, dbTables, dbStep, dbOld, dbLocal, dbHome, dbRestarts>>
  BY DEF GetSessionmaker
<1>3. OnPrimary => u = Configured BY DEF OnPrimary, Asked
<1> HIDE DEF u
<1>4. /\ dbEngines' \in [Url -> Eng \cup {NoEngine}]
      /\ dbMakers' \in [Url -> Eng \cup {NoEngine}]
      /\ dbUrlOf' \in [Eng -> Url \cup {NoUrl}] /\ dbCurrent' = u
      /\ CachedAreAlive'
      /\ OnPrimary => OnPrimary' /\ dbEngines'[Configured] # NoEngine /\ u = Configured
      /\ OnFallback => OnFallback'
  BY <1>1, <1>2, <1>3, GetEngineInv
<1>5. DatabaseTypeOK' BY <1>1, <1>2, <1>4 DEF DatabaseInv, DatabaseTypeOK
<1>6. QED BY <1>2, <1>4, <1>5 DEF DatabaseInv

(* The invariant holds at the start. *)
LEMMA BeginInitInv == ASSUME DatabaseInv, BeginInit PROVE DatabaseInv'
<1>1. Configured \in Url BY DEF Url
<1>2. GetEngineForUrl(Configured) /\ OnPrimary /\ dbStep' = "create"
      /\ UNCHANGED <<dbMakers, dbDisposed, dbTables, dbOld, dbLocal, dbHome, dbRestarts>>
  BY DEF BeginInit, DatabaseInv
<1>3. /\ dbEngines' \in [Url -> Eng \cup {NoEngine}]
      /\ dbMakers' \in [Url -> Eng \cup {NoEngine}]
      /\ dbUrlOf' \in [Eng -> Url \cup {NoUrl}] /\ dbCurrent' = Configured
      /\ CachedAreAlive' /\ OnPrimary' /\ dbEngines'[Configured] # NoEngine
  BY <1>1, <1>2, GetEngineInv
<1>4. DatabaseTypeOK' BY <1>1, <1>2, <1>3 DEF DatabaseInv, DatabaseTypeOK
<1>5. QED BY <1>2, <1>3, <1>4 DEF DatabaseInv

(* The tables are made, in the one database or in the other, or are not. *)
LEMMA CreateInv ==
  ASSUME DatabaseInv, CreateTables \/ Refuse \/ CreateLocal PROVE DatabaseInv'
<1> USE DEF DatabaseInv
<1>1. UNCHANGED <<dbEngines, dbMakers, dbCurrent, dbUrlOf, dbDisposed, dbOld, dbLocal,
                  dbRestarts>>
  BY DEF CreateTables, Refuse, CreateLocal
<1>2. CachedAreAlive' BY <1>1 DEF CachedAreAlive
<1>3. OnPrimary' = OnPrimary /\ OnFallback' = OnFallback BY <1>1 DEF OnPrimary, OnFallback
<1>4. DatabaseTypeOK'
  BY <1>1 DEF DatabaseTypeOK, CreateTables, Refuse, CreateLocal, Url
<1>5. CASE CreateTables BY <1>1, <1>2, <1>3, <1>4, <1>5 DEF CreateTables
<1>6. CASE Refuse BY <1>1, <1>2, <1>3, <1>4, <1>6 DEF Refuse
<1>7. CASE CreateLocal BY <1>1, <1>2, <1>3, <1>4, <1>7 DEF CreateLocal
<1>8. QED BY <1>5, <1>6, <1>7

(* Giving up the configured database leaves no cached engine at all. *)
LEMMA GiveUpInv == ASSUME DatabaseInv, GiveUpPrimary PROVE DatabaseInv'
<1> USE EnginesAreNumbers DEF DatabaseInv, DatabaseTypeOK
<1>1. Configured \in Url BY DEF Url
<1>2. /\ dbEngines' = [dbEngines EXCEPT ![Configured] = NoEngine]
      /\ dbMakers' = [dbMakers EXCEPT ![Configured] = NoEngine]
      /\ dbOld' = {dbEngines[Configured]} \ {NoEngine}
      /\ dbStep' \in {"fall back", "dispose"}
      /\ UNCHANGED <<dbCurrent, dbUrlOf, dbDisposed, dbTables, dbLocal, dbHome, dbRestarts>>
  BY DEF GiveUpPrimary
<1>3. OnPrimary BY DEF GiveUpPrimary
<1>4. \A u \in Url : dbEngines'[u] = NoEngine /\ dbMakers'[u] = NoEngine
  BY <1>1, <1>2, <1>3 DEF OnPrimary, CachedAreAlive
<1>5. \A e \in dbOld' : e = dbEngines[Configured] /\ e # NoEngine BY <1>2
<1>6. DatabaseTypeOK' BY <1>1, <1>2, <1>5
<1>7. CachedAreAlive' BY <1>1, <1>2, <1>4, <1>5 DEF CachedAreAlive
<1>8. OnPrimary' BY <1>1, <1>2, <1>3, <1>4 DEF OnPrimary
<1>9. QED BY <1>2, <1>6, <1>7, <1>8

(* What is disposed of is in no cache. *)
LEMMA DisposeInv == ASSUME DatabaseInv, NEW e \in Eng, Dispose(e) PROVE DatabaseInv'
<1> USE DEF DatabaseInv, DatabaseTypeOK
<1>1. /\ e \in dbOld /\ dbDisposed' = dbDisposed \cup {e} /\ dbOld' = dbOld \ {e}
      /\ UNCHANGED <<dbEngines, dbMakers, dbCurrent, dbUrlOf, dbTables, dbLocal, dbHome,
                     dbRestarts>>
  BY DEF Dispose
<1>2. \/ dbStep = "dispose" /\ dbStep' \in {"dispose", "fall back"}
      \/ dbStep = "shut" /\ dbStep' \in {"shut", "down"}
  BY DEF Dispose
<1>3. dbDisposed' \cup dbOld' = dbDisposed \cup dbOld BY <1>1
<1>4. CachedAreAlive' BY <1>1, <1>3 DEF CachedAreAlive
<1>5. OnPrimary' = OnPrimary BY <1>1 DEF OnPrimary
<1>6. DatabaseTypeOK' BY <1>1, <1>2
<1>7. QED BY <1>2, <1>4, <1>5, <1>6

(* The fallback shares the local file's engine, and its maker if a save     *)
(* task asked for one meanwhile, between both URLs.                         *)
LEMMA FallBackInv == ASSUME DatabaseInv, FallBack PROVE DatabaseInv'
<1> DEFINE e == EngineOf(Fallback)
<1> USE EnginesAreNumbers DEF DatabaseInv, DatabaseTypeOK
<1>1. Fallback \in Url BY DEF Url
<1>2. OnPrimary BY DEF FallBack
<1>3. /\ dbUrlOf' = [dbUrlOf EXCEPT ![e] = Fallback] /\ dbEngines' = [u \in Url |-> e]
      /\ dbMakers' = AliasedMakers(e) /\ dbCurrent' = Fallback /\ dbStep' = "create local"
      /\ UNCHANGED <<dbDisposed, dbTables, dbOld, dbLocal, dbHome, dbRestarts>>
  BY DEF FallBack
<1>4. e \in Eng /\ e \notin dbDisposed \cup dbOld
  <2>1. CASE dbEngines[Fallback] # NoEngine
    BY <1>1, <2>1 DEF EngineOf, CachedAreAlive
  <2>2. CASE dbEngines[Fallback] = NoEngine
    <3>1. NewEngine \in Unused BY <2>2, NewEngineIsUnused DEF FallBack
    <3>2. QED BY <2>2, <3>1 DEF EngineOf, Unused, CachedAreAlive
  <2>3. QED BY <2>1, <2>2
<1>5. dbMakers[Fallback] \in {NoEngine, e}
  BY <1>1 DEF CachedAreAlive, EngineOf
<1> HIDE DEF e
<1>6. dbMakers' = [u \in Url |-> e]
  BY <1>3, <1>5, Zenon DEF AliasedMakers
<1>7. DatabaseTypeOK' BY <1>1, <1>3, <1>4, <1>6
<1>8. CachedAreAlive'
  <2>1. \A d \in dbDisposed \cup dbOld : dbUrlOf'[d] # NoUrl
    BY <1>1, <1>3, <1>4 DEF CachedAreAlive
  <2>2. QED BY <1>1, <1>3, <1>4, <1>6, <2>1 DEF CachedAreAlive
<1>9. OnFallback' BY <1>1, <1>3, <1>4, <1>6 DEF OnFallback
<1>10. QED BY <1>3, <1>7, <1>8, <1>9

(* Shutdown and restart forget every engine. *)
LEMMA ForgetInv == ASSUME DatabaseInv, BeginDispose \/ RestartDatabase PROVE DatabaseInv'
<1> USE EnginesAreNumbers, DatabaseAssumption DEF DatabaseInv, DatabaseTypeOK
<1>1. CASE BeginDispose
  <2>1. /\ dbEngines' = Empty /\ dbMakers' = Empty /\ dbCurrent' = NoUrl
        /\ dbOld' = {dbEngines[u] : u \in Url} \ {NoEngine} /\ dbStep' \in {"down", "shut"}
        /\ UNCHANGED <<dbUrlOf, dbDisposed, dbTables, dbLocal, dbHome, dbRestarts>>
    BY <1>1 DEF BeginDispose
  <2>2. DatabaseTypeOK' BY <2>1 DEF Empty
  <2>3. \A e \in dbOld' : dbUrlOf[e] # NoUrl
    <3>1. \A u \in Url : dbEngines[u] # NoEngine => dbUrlOf[dbEngines[u]] # NoUrl
      BY DEF CachedAreAlive
    <3>2. QED BY ONLY <2>1, <3>1
  <2>4. \A u \in Url : dbMakers'[u] = NoEngine /\ dbEngines'[u] = NoEngine BY <2>1 DEF Empty
  <2>5. CachedAreAlive' BY <2>1, <2>3, <2>4 DEF CachedAreAlive
  <2>6. QED BY <2>1, <2>2, <2>5
<1>2. CASE RestartDatabase
  <2>1. MaxRestarts \in Nat /\ dbRestarts \in 0..MaxRestarts OBVIOUS
  <2>2. dbRestarts' \in 0..MaxRestarts
    <3>1. dbRestarts' = dbRestarts + 1 /\ dbRestarts < MaxRestarts
      BY <1>2 DEF RestartDatabase
    <3>2. QED BY ONLY <2>1, <3>1
  <2> USE <1>2 DEF RestartDatabase, Empty
  <2>3. DatabaseTypeOK' BY <2>2
  <2>4. CachedAreAlive' /\ OnPrimary' BY DEF CachedAreAlive, OnPrimary, Url
  <2>5. QED BY <2>3, <2>4
<1>3. QED BY <1>1, <1>2

(* DatabaseInv holds in every reachable state of the engine module, in the  *)
(* midst of the start and of the fallback too.                              *)
THEOREM DatabaseInvariant == DatabaseSpec => []DatabaseInv
<1>1. ASSUME DatabaseInv, [DatabaseNext]_databaseVars PROVE DatabaseInv'
  <2>1. CASE InitStep
    BY <1>1, <2>1, BeginInitInv, CreateInv, GiveUpInv, DisposeInv, FallBackInv, ForgetInv
    DEF InitStep
  <2>2. CASE UNCHANGED databaseVars
    BY <1>1, <2>2 DEF databaseVars, DatabaseInv, DatabaseTypeOK, CachedAreAlive, OnPrimary,
                      OnFallback
  <2>3. QED BY <1>1, <2>1, <2>2, ForgetInv, GetSessionmakerInv DEF DatabaseNext
<1>2. QED BY <1>1, DatabaseInitInv, PTL DEF DatabaseSpec

(* The engines and makers keep to their types. *)
THEOREM DatabaseTypeCorrect == DatabaseSpec => []DatabaseTypeOK
<1>1. DatabaseInv => DatabaseTypeOK BY DEF DatabaseInv
<1>2. QED BY <1>1, DatabaseInvariant, PTL

(* From the end of init_db to the disposal whoever asks for a session gets  *)
(* the one database whose tables were made, through an engine that was not  *)
(* disposed of.                                                             *)
THEOREM DatabaseIsOne == DatabaseSpec => []OneDatabase
<1>1. DatabaseInv => OneDatabase
  <2> SUFFICES ASSUME DatabaseInv, dbStep = "ready", NEW u \in {Asked(TRUE), Configured}
               PROVE  LET e == IF dbMakers[u] # NoEngine THEN dbMakers[u] ELSE dbEngines[u]
                      IN  /\ e # NoEngine
                          /\ dbUrlOf[e] = dbHome /\ e \notin dbDisposed
                          /\ dbHome \in dbTables
    BY DEF OneDatabase
  <2>1. u \in Url BY DEF Asked, DatabaseInv, DatabaseTypeOK, Url
  <2>2. dbEngines[u] # NoEngine /\ dbUrlOf[dbEngines[u]] = dbHome
    BY <2>1 DEF DatabaseInv, OnPrimary, OnFallback, Asked
  <2>3. QED BY <2>1, <2>2 DEF DatabaseInv, CachedAreAlive
<1>2. QED BY <1>1, DatabaseInvariant, PTL
-----------------------------------------------------------------------------
(***************************************************************************)
(* Save tasks.  While no request overlapped a task there is one task at    *)
(* most, and what it has read is still so: the dict and the row change by  *)
(* requests and by tasks only.  Its columns then make the row equal to the *)
(* camera, whatever the row was before.                                    *)
(***************************************************************************)
OneTask ==
  /\ \A s, t \in Save : saves[s].pc # "none" /\ saves[t].pc # "none" => s = t
  /\ drop => phase = "gone" /\ \A t \in Save : saves[t].pc = "none"

ReadIsFresh ==
  \A t \in Save :
    /\ saves[t].pc # "none" => phase = "present"
    /\ saves[t].pc \in {"select", "selected", "commit"} => saves[t].fence = cam.fence
    /\ saves[t].pc \in {"selected", "commit"} => saves[t].seen = row
    /\ saves[t].pc = "commit" =>
         saves[t].new.desired = cam.desired /\ saves[t].new.fence = cam.fence

DurabilityInv ==
  /\ DurabilityTypeOK /\ SerialSavesAgree
  /\ ~overlapped => OneTask /\ ReadIsFresh

Agrees ==
  /\ phase = "present" =>
       /\ row # NoRow /\ row.desired = cam.desired
       /\ row.fence = cam.fence \/ cam.fence = NoFence
  /\ phase # "present" => row = NoRow

(* The invariant holds at the start. *)
LEMMA DurabilityInitInv == DurabilityInit => DurabilityInv
<1> SUFFICES ASSUME DurabilityInit PROVE DurabilityInv OBVIOUS
<1> USE DEF DurabilityInit, NoTask, NewCamera
<1>1. DurabilityTypeOK BY DEF DurabilityTypeOK, Task, Image, Desired
<1>2. OneTask /\ ReadIsFresh BY DEF OneTask, ReadIsFresh
<1>3. SerialSavesAgree BY DEF SerialSavesAgree
<1>4. QED BY <1>1, <1>2, <1>3 DEF DurabilityInv

(* A request that saves leaves the new task alone, if it overlaps no other. *)
LEMMA QueueSaveInv ==
  ASSUME DurabilityInv, Served, QueueSave, phase' = "present",
         cam' \in Image, smDisabled' \in BOOLEAN, UNCHANGED smEpoch
  PROVE  DurabilityInv'
<1> USE DEF DurabilityInv, Served
<1>1. PICK t \in Save : saves' = [saves EXCEPT ![t].pc = "queued"] BY DEF QueueSave
<1>2. DurabilityTypeOK'
  <2>1. saves' \in [Save -> Task] BY <1>1 DEF DurabilityTypeOK, Task
  <2>2. QED BY <2>1 DEF DurabilityTypeOK
<1>3. saves'[t].pc = "queued" BY <1>1 DEF DurabilityTypeOK, Task
<1>4. SerialSavesAgree' BY <1>3 DEF SerialSavesAgree, Quiet
<1>5. ASSUME ~overlapped' PROVE OneTask' /\ ReadIsFresh'
  <2>1. ~drop /\ \A s \in Save : saves[s].pc = "none" BY <1>5 DEF Quiet
  <2>2. \A s \in Save : s = t \/ saves'[s].pc = "none"
    BY <1>1, <2>1 DEF DurabilityTypeOK
  <2>3. QED BY <1>3, <2>1, <2>2 DEF OneTask, ReadIsFresh
<1>6. QED BY <1>2, <1>4, <1>5

(* A request that changes the camera starts a save. *)
LEMMA SavingRequestInv ==
  ASSUME DurabilityInv,
         \/ CreateCamera \/ EnableCamera \/ DisableCamera
         \/ \E f \in Fence \cup {NoFence} : SetFence(f)
  PROVE  DurabilityInv'
<1> USE DEF DurabilityInv, DurabilityTypeOK
<1>1. cam' \in Image
  BY DEF CreateCamera, EnableCamera, DisableCamera, SetFence, Image, Desired
<1>2. smDisabled' \in BOOLEAN
  BY DEF CreateCamera, EnableCamera, DisableCamera, SetFence
<1>3. Served /\ QueueSave /\ phase' = "present" /\ UNCHANGED smEpoch
  BY DEF CreateCamera, EnableCamera, DisableCamera, SetFence
<1>4. QED BY <1>1, <1>2, <1>3, QueueSaveInv

(* A request that saves nothing changes what nobody saves, or clears the    *)
(* fence.                                                                   *)
LEMMA UnsavedRequestInv ==
  ASSUME DurabilityInv, ReconnectCamera \/ PutEmptyFence PROVE DurabilityInv'
<1> USE DEF DurabilityInv
<1>1. DurabilityTypeOK'
  <2>1. cam \in Image /\ smEpoch \in Nat BY DEF DurabilityTypeOK
  <2>2. cam' \in Image /\ smEpoch' \in Nat
    BY ONLY <2>1, ReconnectCamera \/ PutEmptyFence DEF ReconnectCamera, PutEmptyFence, Image
  <2>3. QED BY <2>2 DEF DurabilityTypeOK, ReconnectCamera, PutEmptyFence, Served
<1>2. /\ phase = "present" /\ cam'.desired = cam.desired
      /\ cam'.fence = cam.fence \/ cam'.fence = NoFence
      /\ UNCHANGED <<phase, row, saves, drop, lost>>
      /\ overlapped' = (overlapped \/ ~Quiet)
  BY DEF ReconnectCamera, PutEmptyFence, Served, DurabilityTypeOK, Image
<1>3. SerialSavesAgree' BY <1>2 DEF SerialSavesAgree, Quiet
<1>4. ~overlapped' => OneTask' /\ ReadIsFresh' BY <1>2 DEF Quiet, OneTask, ReadIsFresh
<1>5. QED BY <1>1, <1>3, <1>4

(* A delete leaves the pending saves nothing to save. *)
LEMMA DeleteCameraInv == ASSUME DurabilityInv, DeleteCamera PROVE DurabilityInv'
<1> USE DEF DurabilityInv, DeleteCamera
<1>1. DurabilityTypeOK' BY DEF DurabilityTypeOK
<1>2. SerialSavesAgree' BY DEF SerialSavesAgree, Quiet
<1>3. ~overlapped' => OneTask' /\ ReadIsFresh' BY DEF Quiet, OneTask, ReadIsFresh
<1>4. QED BY <1>1, <1>2, <1>3

(* The steps of a task before its commit read what is so.                   *)
LEMMA ReadStepInv ==
  ASSUME DurabilityInv, NEW t \in Save, BeginSave(t) \/ SelectRow(t) \/ AssignColumns(t)
  PROVE  DurabilityInv'
<1> USE DEF DurabilityInv
<1>1. PICK changed \in Task :
         /\ saves' = [saves EXCEPT ![t] = changed]
         /\ \/ saves[t].pc = "queued" /\ changed.pc = "select" /\ changed.fence = cam.fence
            \/ /\ saves[t].pc = "select" /\ changed.pc = "selected"
               /\ changed.fence = saves[t].fence /\ changed.seen = row
            \/ /\ saves[t].pc = "selected" /\ changed.pc = "commit"
               /\ changed.fence = saves[t].fence /\ changed.seen = saves[t].seen
               /\ changed.new.desired = cam.desired /\ changed.new.fence = saves[t].fence
  <2>1. saves[t] \in Task /\ cam \in Image /\ row \in Image \cup {NoRow}
    BY DEF DurabilityTypeOK
  <2>2. CASE BeginSave(t)
    <3> DEFINE changed == [saves[t] EXCEPT !.pc = "select", !.fence = cam.fence]
    <3>1. changed \in Task /\ changed.pc = "select" /\ changed.fence = cam.fence
      BY <2>1 DEF Task, Image
    <3>2. saves[t].pc = "queued" /\ saves' = [saves EXCEPT ![t] = changed]
      BY <2>2 DEF BeginSave, TaskStep
    <3>3. QED BY <3>1, <3>2
  <2>3. CASE SelectRow(t)
    <3> DEFINE changed == [saves[t] EXCEPT !.pc = "selected", !.seen = row]
    <3>1. /\ changed \in Task /\ changed.pc = "selected" /\ changed.seen = row
          /\ changed.fence = saves[t].fence
      BY <2>1 DEF Task
    <3>2. saves[t].pc = "select" /\ saves' = [saves EXCEPT ![t] = changed]
      BY <2>3 DEF SelectRow, TaskStep
    <3>3. QED BY <3>1, <3>2
  <2>4. CASE AssignColumns(t)
    <3> DEFINE new == Columns(cam, saves[t])
               changed == [saves[t] EXCEPT !.pc = "commit", !.new = new]
    <3>1. new \in Image BY <2>1 DEF Columns, Task, Image
    <3>2. new.desired = cam.desired /\ new.fence = saves[t].fence BY DEF Columns
    <3>3. saves[t].pc = "selected" /\ saves' = [saves EXCEPT ![t] = changed]
      BY <2>4 DEF AssignColumns, TaskStep
    <3> HIDE DEF new
    <3>4. /\ changed \in Task /\ changed.pc = "commit" /\ changed.new = new
          /\ changed.fence = saves[t].fence /\ changed.seen = saves[t].seen
      BY <2>1, <3>1 DEF Task
    <3>5. QED BY <3>2, <3>3, <3>4
  <2>5. QED BY <2>2, <2>3, <2>4
<1>2. UNCHANGED <<phase, cam, smDisabled, smEpoch, row, drop, overlapped, lost>>
  BY DEF BeginSave, SelectRow, AssignColumns, TaskStep
<1>3. saves'[t] = changed /\ saves[t].pc # "none" /\ saves'[t].pc # "none"
      /\ \A s \in Save \ {t} : saves'[s] = saves[s]
  BY <1>1 DEF DurabilityTypeOK
<1>4. DurabilityTypeOK' BY <1>1, <1>2 DEF DurabilityTypeOK
<1>5. SerialSavesAgree' BY <1>3 DEF SerialSavesAgree, Quiet
<1>6. ASSUME ~overlapped PROVE OneTask' /\ ReadIsFresh'
  <2>1. OneTask' BY <1>2, <1>3, <1>6 DEF OneTask
  <2>2. ReadIsFresh' BY <1>1, <1>2, <1>3, <1>6 DEF ReadIsFresh
  <2>3. QED BY <2>1, <2>2
<1>7. QED BY <1>2, <1>4, <1>5, <1>6

(* The one task's commit makes the row agree; a failure is lost. *)
LEMMA CommitSaveInv ==
  ASSUME DurabilityInv, NEW t \in Save, CommitSave(t) \/ FailSave(t)
  PROVE  DurabilityInv'
<1> USE DEF DurabilityInv
<1>1. saves[t].pc = "commit" /\ saves' = [saves EXCEPT ![t] = NoTask]
      /\ UNCHANGED <<phase, cam, smDisabled, smEpoch, drop, overlapped>>
  BY DEF CommitSave, FailSave, TaskStep
<1>2. saves[t] \in Task /\ cam \in Image /\ row \in Image \cup {NoRow}
      /\ NoTask \in Task /\ NoTask.pc = "none"
  BY DEF DurabilityTypeOK, NoTask, NewCamera, Task, Image, Desired
<1>3. row' \in Image \cup {NoRow} /\ lost' \in BOOLEAN
  <2>1. CASE FailSave(t) BY <1>2, <2>1 DEF FailSave, DurabilityTypeOK
  <2>2. CASE CommitSave(t)
    <3>1. ASSUME row \in Image, saves[t].seen \in Image
          PROVE  Update(row, saves[t].seen, saves[t].new) \in Image
      BY <1>2, <3>1 DEF Update, Image, Task
    <3>2. saves[t].new \in Image /\ saves[t].seen \in Image \cup {NoRow} BY <1>2 DEF Task
    <3>3. lost' = lost
          /\ row' \in {saves[t].new, row, NoRow, Update(row, saves[t].seen, saves[t].new)}
          /\ (row' = Update(row, saves[t].seen, saves[t].new)
                \/ row' \in {saves[t].new, row, NoRow})
          /\ (saves[t].seen = NoRow \/ row = NoRow => row' \in {saves[t].new, row, NoRow})
      BY <2>2 DEF CommitSave
    <3>4. QED BY <1>2, <3>1, <3>2, <3>3 DEF DurabilityTypeOK
  <2>3. QED BY <2>1, <2>2
<1>4. DurabilityTypeOK' BY <1>1, <1>2, <1>3 DEF DurabilityTypeOK
<1>5. saves'[t].pc = "none" /\ \A s \in Save \ {t} : saves'[s] = saves[s]
  BY <1>1, <1>2 DEF DurabilityTypeOK
<1>6. ASSUME ~overlapped
      PROVE  /\ phase = "present" /\ \A s \in Save \ {t} : saves[s].pc = "none"
             /\ ~drop
  BY <1>1, <1>6 DEF OneTask, ReadIsFresh
<1>7. ~overlapped => OneTask' /\ ReadIsFresh'
  BY <1>1, <1>5, <1>6 DEF OneTask, ReadIsFresh
<1>8. ASSUME ~overlapped, CommitSave(t) PROVE Agrees'
  <2>1. saves[t].seen = row /\ saves[t].new.desired = cam.desired
        /\ saves[t].new.fence = cam.fence
    BY <1>1, <1>8 DEF ReadIsFresh
  <2>2. saves[t].new \in Image BY <1>2 DEF Task
  <2>3. CASE row = NoRow
    <3>1. row' = saves[t].new BY <1>8, <2>1, <2>3 DEF CommitSave
    <3>2. QED BY <1>1, <1>6, <1>8, <2>1, <2>2, <3>1, NoRowAssumption DEF Agrees
  <2>4. CASE row # NoRow
    <3>1. row' = Update(row, row, saves[t].new) BY <1>8, <2>1, <2>4 DEF CommitSave
    <3>2. row' \in Image /\ row'.desired = cam.desired /\ row'.fence = cam.fence
      BY <1>2, <2>1, <2>2, <2>4, <3>1 DEF Update, Image
    <3>3. QED BY <1>1, <1>6, <1>8, <3>2, NoRowAssumption DEF Agrees
  <2>5. QED BY <2>3, <2>4
<1>9. FailSave(t) => lost' BY DEF FailSave
<1>10. SerialSavesAgree' BY <1>1, <1>8, <1>9 DEF SerialSavesAgree, Agrees
<1>11. QED BY <1>1, <1>4, <1>7, <1>10

(* The row of a deleted camera goes, or the task is lost. *)
LEMMA DropRowInv == ASSUME DurabilityInv, DropRow PROVE DurabilityInv'
<1> USE DEF DurabilityInv, DropRow
<1>1. DurabilityTypeOK' BY DEF DurabilityTypeOK
<1>2. SerialSavesAgree' BY DEF SerialSavesAgree, OneTask
<1>3. ~overlapped' => OneTask' /\ ReadIsFresh' BY DEF OneTask, ReadIsFresh
<1>4. QED BY <1>1, <1>2, <1>3

(* A restart takes the camera from its row. *)
LEMMA RestartServerInv == ASSUME DurabilityInv, RestartServer PROVE DurabilityInv'
<1> USE DEF DurabilityInv, RestartServer
<1>1. NoTask \in Task /\ NoTask.pc = "none"
  BY DEF NoTask, NewCamera, Task, Image, Desired
<1>2. DurabilityTypeOK' BY <1>1 DEF DurabilityTypeOK
<1>3. Agrees' BY DEF Agrees, DurabilityTypeOK
<1>4. SerialSavesAgree' BY <1>3 DEF SerialSavesAgree, Agrees
<1>5. OneTask' /\ ReadIsFresh' BY <1>1 DEF OneTask, ReadIsFresh
<1>6. QED BY <1>2, <1>4, <1>5

(* DurabilityInv holds in every reachable state: while the requests of a    *)
(* camera do not overlap there is one task, and what it read is so.         *)
THEOREM DurabilityInvariant == DurabilitySpec => []DurabilityInv
<1>1. ASSUME DurabilityInv, [DurabilityNext]_durabilityVars PROVE DurabilityInv'
  <2>1. ASSUME NEW t \in Save, SaveStep(t) PROVE DurabilityInv'
    BY <1>1, <2>1, ReadStepInv, CommitSaveInv DEF SaveStep
  <2>2. CASE UNCHANGED durabilityVars
    BY <1>1, <2>2 DEF durabilityVars, DurabilityInv, DurabilityTypeOK, SerialSavesAgree, Quiet,
                      OneTask, ReadIsFresh
  <2>3. QED
    BY <1>1, <2>1, <2>2, SavingRequestInv, UnsavedRequestInv, DeleteCameraInv, DropRowInv,
       RestartServerInv DEF DurabilityNext
<1>2. QED BY <1>1, DurabilityInitInv, PTL DEF DurabilitySpec

(* The camera, its row and its tasks keep to their types. *)
THEOREM DurabilityTypeCorrect == DurabilitySpec => []DurabilityTypeOK
<1>1. DurabilityInv => DurabilityTypeOK BY DEF DurabilityInv
<1>2. QED BY <1>1, DurabilityInvariant, PTL

(* If no request came while a task was pending and none failed, the row is  *)
(* what the camera is: for any number of tasks, fences and restarts.        *)
THEOREM DurabilityAgrees == DurabilitySpec => []SerialSavesAgree
<1>1. DurabilityInv => SerialSavesAgree BY DEF DurabilityInv
<1>2. QED BY <1>1, DurabilityInvariant, PTL
-----------------------------------------------------------------------------
(***************************************************************************)
(* The outbox.  The first mirror of a session finds its hooks still to     *)
(* come, so the commit that makes its row visible also drains it, if no    *)
(* savepoint did before; a row flushed after that is muted.                *)
(* What is shown stays shown up to a restart, and the rows only grow.      *)
(***************************************************************************)
Shown(i) == i \in doTimeline \/ WithKey(doTimeline, doKey[i]) # {}

GivenIds ==
  LET Given == {i \in RowId : i < doNext}
  IN  /\ doRows \subseteq Given /\ doTimeline \subseteq Given
      /\ \A s \in Session : /\ doOpen[s] \subseteq Given /\ ToSet(doPending[s]) \subseteq Given
                            /\ doAt[s] = "adding" => doNew[s] \in Given

(* The event is to be shown by the commit hook of the session. *)
Awaited(s, i) == i \in ToSet(doPending[s]) /\ "commit" \in doHook[s]

OpenIsDeferred ==
  \A s \in Session : \A i \in doOpen[s] : Shown(i) \/ i \in doMuted \/ Awaited(s, i)

DurableInv ==
  DurableTypeOK /\ GivenIds /\ OpenIsDeferred /\ FirstMirrorsAreShown

(* There are finitely many row ids. *)
LEMMA RowIdsAreFinite ==
  /\ RowId \subseteq Nat /\ IsFiniteSet(RowId) /\ MaxSaves \in Nat
  /\ \A T \in SUBSET RowId : IsFiniteSet(T) /\ Cardinality(T) \in Nat
<1>1. MaxSaves \in Nat BY DurableAssumption
<1>2. IsFiniteSet(RowId) BY <1>1, FS_Interval DEF RowId
<1>3. \A T \in SUBSET RowId : IsFiniteSet(T) /\ Cardinality(T) \in Nat
  BY <1>2, FS_Subset, FS_CardinalityType
<1>4. QED BY <1>1, <1>2, <1>3 DEF RowId

(* Of the mirrors of a key that is not shown the first is put in.           *)
LEMMA MirroredShows ==
  ASSUME NEW shown, NEW mirrors \in Seq(RowId)
  PROVE  LET all == Mirrored(shown, mirrors)
         IN  /\ shown \subseteq all /\ all \subseteq shown \cup ToSet(mirrors)
             /\ \A i \in ToSet(mirrors) : i \in all \/ WithKey(all, doKey[i]) # {}
<1> DEFINE all == Mirrored(shown, mirrors)
           Before(j) == shown \cup {mirrors[i] : i \in 1..j - 1}
           Put == {j \in DOMAIN mirrors : WithKey(Before(j), doKey[mirrors[j]]) = {}}
<1>1. all = shown \cup {mirrors[j] : j \in Put} BY DEF Mirrored
<1>2. ASSUME NEW j \in DOMAIN mirrors
      PROVE  mirrors[j] \in all \/ WithKey(all, doKey[mirrors[j]]) # {}
  <2> DEFINE k == doKey[mirrors[j]]
             Same == {n \in DOMAIN mirrors : doKey[mirrors[n]] = k}
  <2>1. CASE k = NoRowKey BY <1>1, <2>1 DEF WithKey
  <2>2. CASE k # NoRowKey /\ WithKey(shown, k) # {} BY <1>1, <2>2 DEF WithKey
  <2>3. CASE k # NoRowKey /\ WithKey(shown, k) = {}
    <3>1. Same \subseteq Nat /\ j \in Same OBVIOUS
    <3>2. PICK n \in Same : \A m \in Same : n <= m BY <3>1, LeastNumber
    <3>3. \A m \in 1..n - 1 : m \in DOMAIN mirrors /\ m \notin Same BY <3>1, <3>2
    <3>4. \A m \in 1..n - 1 : doKey[mirrors[m]] # k BY <3>3
    <3>5. doKey[mirrors[n]] = k /\ n \in DOMAIN mirrors BY <3>2
    <3>6. WithKey(Before(n), k) = {} BY <2>3, <3>4 DEF WithKey
    <3>7. n \in Put BY <3>5, <3>6
    <3>8. mirrors[n] \in all BY <1>1, <3>7
    <3>9. mirrors[n] \in WithKey(all, k) BY <2>3, <3>5, <3>8 DEF WithKey
    <3>10. QED BY <3>9
  <2>4. QED BY <2>1, <2>2, <2>3
<1>3. shown \subseteq all /\ all \subseteq shown \cup ToSet(mirrors)
  BY <1>1 DEF ToSet
<1>4. QED BY <1>2, <1>3 DEF ToSet

(* The keys of the ids that were given stay. *)
KeysStay == \A i \in RowId : i < doNext => doKey'[i] = doKey[i]

(* What the timeline shows it goes on showing while it only grows. *)
LEMMA ShownStays ==
  ASSUME DurableInv, KeysStay, doTimeline \subseteq doTimeline',
         NEW i \in RowId, i < doNext, Shown(i)
  PROVE  Shown(i)'
<1>1. CASE i \in doTimeline BY <1>1 DEF Shown
<1>2. CASE WithKey(doTimeline, doKey[i]) # {}
  <2>1. PICK j \in doTimeline : doKey[j] = doKey[i] /\ doKey[i] # NoRowKey
    BY <1>2 DEF WithKey
  <2>2. doKey'[j] = doKey[j] /\ doKey'[i] = doKey[i]
    BY DEF KeysStay, DurableInv, GivenIds
  <2>3. j \in WithKey(doTimeline, doKey[i])' BY <2>1, <2>2 DEF WithKey
  <2>4. QED BY <2>3 DEF Shown
<1>3. QED BY <1>1, <1>2 DEF Shown

(* What a step owes to the rows: the mirrors a commit is about to show are   *)
(* kept or shown, and a new row is muted, shown or awaited.                 *)
LEMMA RowsStayShown ==
  ASSUME DurableInv, KeysStay, doTimeline \subseteq doTimeline',
         doRows \subseteq doRows', doRows' \subseteq RowId, doMuted \subseteq doMuted',
         \A s \in Session : \A i \in RowId : doAt[s] = "committed" /\ Awaited(s, i) =>
           Shown(i)' \/ (doAt'[s] = "committed" /\ Awaited(s, i)'),
         \A i \in doRows' \ doRows :
           \/ Shown(i)' \/ i \in doMuted'
           \/ \E s \in Session : doAt'[s] = "committed" /\ Awaited(s, i)'
  PROVE  FirstMirrorsAreShown'
<1>1. ASSUME NEW i \in doRows, i \notin doMuted
      PROVE  \/ Shown(i)'
             \/ \E s \in Session : doAt'[s] = "committed" /\ Awaited(s, i)'
             \/ Cardinality(Newer(i)') >= Limit
  <2>1. i \in RowId /\ i < doNext BY DEF DurableInv, GivenIds
  <2>2. CASE Shown(i) BY <2>1, <2>2, ShownStays
  <2>3. CASE \E s \in Session : doAt[s] = "committed" /\ Awaited(s, i)
    BY <2>1, <2>3
  <2>4. CASE Cardinality(Newer(i)) >= Limit
    <3>1. Newer(i) \subseteq Newer(i)' /\ Newer(i)' \subseteq RowId
      BY DEF Newer
    <3>2. Cardinality(Newer(i)) <= Cardinality(Newer(i)')
      BY <3>1, RowIdsAreFinite, FS_Subset
    <3>3. Cardinality(Newer(i)) \in Nat /\ Cardinality(Newer(i)') \in Nat
      BY <3>1, RowIdsAreFinite
    <3>4. QED BY <2>4, <3>2, <3>3, DurableAssumption
  <2>5. i \in doRows \ doMuted BY <1>1
  <2>6. QED
    BY <2>2, <2>3, <2>4, <2>5 DEF DurableInv, FirstMirrorsAreShown, Reaches, Shown, Awaited
<1>2. ASSUME NEW i \in doRows', i \notin doMuted' PROVE Reaches(i)'
  <2>1. \/ Shown(i)'
        \/ \E s \in Session : doAt'[s] = "committed" /\ Awaited(s, i)'
        \/ Cardinality(Newer(i)') >= Limit
    BY <1>1, <1>2
  <2>2. QED BY <2>1 DEF Reaches, Shown, Awaited
<1>3. QED BY <1>2 DEF FirstMirrorsAreShown

(* The invariant holds at the start. *)
LEMMA DurableInitInv == DurableInit => DurableInv
<1> SUFFICES ASSUME DurableInit PROVE DurableInv OBVIOUS
<1> USE DEF DurableInit, NoSession
<1>1. DurableTypeOK
  <2>1. 1 \in 1..MaxSaves + 1 BY RowIdsAreFinite
  <2>2. <<>> \in Seq(RowId) OBVIOUS
  <2>3. QED BY <2>1, <2>2 DEF DurableTypeOK
<1>2. GivenIds BY DEF GivenIds, ToSet
<1>3. OpenIsDeferred BY DEF OpenIsDeferred
<1>4. FirstMirrorsAreShown BY DEF FirstMirrorsAreShown
<1>5. QED BY <1>1, <1>2, <1>3, <1>4 DEF DurableInv

(* A drain shows what was deferred and leaves nothing, if the hook is still *)
(* to come; else it does nothing.                                           *)
LEMMA DrainShows ==
  ASSUME DurableInv, NEW s \in Session
  PROVE  /\ doTimeline \subseteq Drain(s).shown
         /\ Drain(s).shown \subseteq doTimeline \cup ToSet(doPending[s])
         /\ \A i \in ToSet(doPending[s]) : "commit" \in doHook[s] =>
              i \in Drain(s).shown \/ WithKey(Drain(s).shown, doKey[i]) # {}
         /\ Drain(s).pending \in Seq(RowId)
         /\ ToSet(Drain(s).pending) \subseteq ToSet(doPending[s])
         /\ Drain(s).hook \subseteq {"commit", "rollback"}
<1> USE DEF DurableInv, DurableTypeOK
<1>0. doPending[s] \in Seq(RowId) /\ doHook[s] \subseteq {"commit", "rollback"} OBVIOUS
<1>1. CASE "commit" \in doHook[s]
  <2>1. /\ Drain(s).shown = Mirrored(doTimeline, doPending[s]) /\ Drain(s).pending = <<>>
        /\ Drain(s).hook = doHook[s] \ {"commit"}
    BY <1>1 DEF Drain
  <2>2. <<>> \in Seq(RowId) /\ ToSet(<<>>) = {} BY DEF ToSet
  <2>3. QED BY <1>0, <2>1, <2>2, MirroredShows
<1>2. CASE "commit" \notin doHook[s]
  BY <1>0, <1>2 DEF Drain
<1>3. QED BY <1>1, <1>2

(* A deferred mirror is the last of its session's; the first one finds the  *)
(* hooks listening, a later one what is left of them.                       *)
LEMMA DeferListens ==
  ASSUME DurableInv, NEW s \in Session, NEW i \in RowId, NEW left, Defer(s, i, left),
         left.pending \in Seq(RowId), left.hook \subseteq {"commit", "rollback"}
  PROVE  /\ doPending' = [doPending EXCEPT ![s] = Append(left.pending, i)]
         /\ doPending' \in [Session -> Seq(RowId)]
         /\ ToSet(doPending'[s]) = ToSet(left.pending) \cup {i}
         /\ doGiven' \in [Session -> BOOLEAN]
         /\ doHook' \in [Session -> SUBSET {"commit", "rollback"}]
         /\ \A r \in Session \ {s} : doHook'[r] = doHook[r] /\ doPending'[r] = doPending[r]
         /\ IF doGiven[s] THEN doHook'[s] = left.hook ELSE "commit" \in doHook'[s]
<1> USE DEF DurableInv, DurableTypeOK
<1>1. Append(left.pending, i) \in Seq(RowId)
        /\ ToSet(Append(left.pending, i)) = ToSet(left.pending) \cup {i}
  BY AppendSet
<1>2. /\ doPending' = [doPending EXCEPT ![s] = Append(left.pending, i)]
      /\ doGiven' = [doGiven EXCEPT ![s] = TRUE]
      /\ doHook' = [doHook EXCEPT ![s] = IF doGiven[s] THEN left.hook
                                                      ELSE {"commit", "rollback"}]
  BY DEF Defer
<1>3. QED BY <1>1, <1>2

(* A save takes a new id, which nothing shows yet. *)
LEMMA SaveRowInv ==
  ASSUME DurableInv, NEW s \in Session, NEW k \in RowKey \cup {NoRowKey}, SaveRow(s, k)
  PROVE  DurableInv'
<1> USE DEF DurableInv, DurableTypeOK
<1>1. /\ doAt[s] = "open" /\ doNext \in RowId /\ doNext' = doNext + 1
      /\ doKey' = [doKey EXCEPT ![doNext] = k]
      /\ UNCHANGED <<doRows, doOpen, doTimeline, doMuted>>
  BY RowIdsAreFinite DEF SaveRow, RowId
<1>2. doNext' \in 1..MaxSaves + 1 BY <1>1, RowIdsAreFinite DEF RowId
<1>3. doKey' \in [RowId -> RowKey \cup {NoRowKey}] /\ KeysStay BY <1>1 DEF KeysStay
<1>4. \A i \in RowId : i < doNext \/ i = doNext => i < doNext'
  BY <1>1, RowIdsAreFinite
<1>5. CASE WithKey(doRows \cup doOpen[s], k) # {}
  <2>1. PICK i \in WithKey(doRows \cup doOpen[s], k) : Defer(s, i, Left(s))
    BY <1>5 DEF SaveRow
  <2>2. UNCHANGED <<doAt, doNew>> BY <1>5 DEF SaveRow
  <2>3. i \in RowId /\ i < doNext BY <2>1 DEF WithKey, GivenIds
  <2>4. Left(s).pending = doPending[s] /\ Left(s).hook = doHook[s]
    BY DEF Left
  <2>5. /\ doPending' \in [Session -> Seq(RowId)]
        /\ ToSet(doPending'[s]) = ToSet(doPending[s]) \cup {i}
        /\ doGiven' \in [Session -> BOOLEAN]
        /\ doHook' \in [Session -> SUBSET {"commit", "rollback"}]
        /\ \A r \in Session \ {s} : doHook'[r] = doHook[r] /\ doPending'[r] = doPending[r]
        /\ "commit" \in doHook[s] => "commit" \in doHook'[s]
    <3> DEFINE left == Left(s)
    <3>1. left.pending \in Seq(RowId) /\ left.hook \subseteq {"commit", "rollback"}
      BY <2>4
    <3> HIDE DEF left
    <3>2. Defer(s, i, left) BY <2>1 DEF left
    <3>3. left.pending = doPending[s] /\ left.hook = doHook[s] BY <2>4 DEF left
    <3>4. /\ doPending' \in [Session -> Seq(RowId)]
          /\ ToSet(doPending'[s]) = ToSet(left.pending) \cup {i}
          /\ doGiven' \in [Session -> BOOLEAN]
          /\ doHook' \in [Session -> SUBSET {"commit", "rollback"}]
          /\ \A r \in Session \ {s} : doHook'[r] = doHook[r] /\ doPending'[r] = doPending[r]
          /\ IF doGiven[s] THEN doHook'[s] = left.hook ELSE "commit" \in doHook'[s]
      BY ONLY DurableInv, s \in Session, <2>3, <3>1, <3>2, DeferListens
    <3>5. QED BY <3>3, <3>4
  <2>6. \A r \in Session : /\ ToSet(doPending[r]) \subseteq ToSet(doPending'[r])
                           /\ ToSet(doPending'[r]) \subseteq ToSet(doPending[r]) \cup {i}
    BY <2>5
  <2>7. DurableTypeOK' BY <1>1, <1>2, <1>3, <2>2, <2>5
  <2>8. GivenIds' BY <1>1, <1>4, <2>2, <2>3, <2>6 DEF GivenIds
  <2>9. \A r \in Session : \A j : Awaited(r, j) => Awaited(r, j)' BY <2>5, <2>6 DEF Awaited
  <2>10. OpenIsDeferred'
    BY <1>1, <1>3, <2>9, ShownStays DEF OpenIsDeferred, GivenIds
  <2>11. FirstMirrorsAreShown' BY <1>1, <1>3, <2>2, <2>9, RowsStayShown
  <2>12. QED BY <2>7, <2>8, <2>10, <2>11
<1>6. CASE WithKey(doRows \cup doOpen[s], k) = {}
  <2>1. /\ doAt' = [doAt EXCEPT ![s] = "adding"] /\ doNew' = [doNew EXCEPT ![s] = doNext]
        /\ UNCHANGED <<doPending, doGiven, doHook>>
    BY <1>6 DEF SaveRow
  <2>2. DurableTypeOK' BY <1>1, <1>2, <1>3, <2>1
  <2>3. GivenIds' BY <1>1, <1>4, <2>1 DEF GivenIds
  <2>4. \A r \in Session : \A j : Awaited(r, j) => Awaited(r, j)' BY <2>1 DEF Awaited
  <2>5. OpenIsDeferred'
    BY <1>1, <1>3, <2>4, ShownStays DEF OpenIsDeferred, GivenIds
  <2>6. FirstMirrorsAreShown' BY <1>1, <1>3, <2>1, <2>4, RowsStayShown
  <2>7. QED BY <2>2, <2>3, <2>5, <2>6
<1>7. QED BY <1>5, <1>6

(* A flush drains the earlier mirrors and defers its own, for a commit to   *)
(* show it if it is the first; else it is muted.                            *)
LEMMA FlushRowInv ==
  ASSUME DurableInv, NEW s \in Session, FlushRow(s) PROVE DurableInv'
<1> DEFINE left == Drain(s)
<1> USE DEF DurableInv, DurableTypeOK
<1>0. PICK i \in RowId : i = doNew[s] /\ i < doNext BY DEF FlushRow, GivenIds
<1>1. /\ doAt[s] = "adding" /\ doAt' = [doAt EXCEPT ![s] = "open"]
      /\ doNew' = [doNew EXCEPT ![s] = 0]
      /\ doOpen' = [doOpen EXCEPT ![s] = @ \cup {i}] /\ doTimeline' = left.shown
      /\ Defer(s, i, left)
      /\ doMuted' = IF doGiven[s] THEN doMuted \cup {i} ELSE doMuted
      /\ UNCHANGED <<doNext, doKey, doRows>>
  BY <1>0 DEF FlushRow
<1>2. i \in RowId /\ i < doNext BY <1>0
<1>3. /\ doTimeline \subseteq left.shown
      /\ left.shown \subseteq doTimeline \cup ToSet(doPending[s])
      /\ \A j \in ToSet(doPending[s]) : "commit" \in doHook[s] =>
           j \in left.shown \/ WithKey(left.shown, doKey[j]) # {}
      /\ left.pending \in Seq(RowId) /\ ToSet(left.pending) \subseteq ToSet(doPending[s])
      /\ left.hook \subseteq {"commit", "rollback"}
  BY DrainShows
<1> HIDE DEF left
<1>4. /\ doPending' \in [Session -> Seq(RowId)]
      /\ ToSet(doPending'[s]) = ToSet(left.pending) \cup {i}
      /\ doGiven' \in [Session -> BOOLEAN]
      /\ doHook' \in [Session -> SUBSET {"commit", "rollback"}]
      /\ \A r \in Session \ {s} : doHook'[r] = doHook[r] /\ doPending'[r] = doPending[r]
      /\ IF doGiven[s] THEN doHook'[s] = left.hook ELSE "commit" \in doHook'[s]
  BY <1>1, <1>2, <1>3, DeferListens
<1>5. \A r \in Session \ {s} : UNCHANGED <<doPending[r], doHook[r], doOpen[r], doAt[r], doNew[r]>>
  BY <1>1, <1>4
<1>6. KeysStay BY <1>1 DEF KeysStay
<1>7. \A j : Awaited(s, j) => Shown(j)'
  BY <1>1, <1>3 DEF Awaited, Shown, WithKey
<1>8. DurableTypeOK'
  <2>1. doTimeline' \subseteq RowId BY <1>1, <1>3 DEF GivenIds
  <2>2. doMuted' \subseteq RowId BY <1>1, <1>2
  <2>3. QED BY <1>1, <1>2, <1>4, <2>1, <2>2
<1>9. GivenIds'
  <2>1. /\ ToSet(doPending'[s]) \subseteq ToSet(doPending[s]) \cup {i}
        /\ doOpen'[s] = doOpen[s] \cup {i} /\ doAt'[s] = "open"
    BY <1>1, <1>3, <1>4
  <2> DEFINE Given == {j \in RowId : j < doNext}
  <2>2. Given' = Given /\ i \in Given BY <1>1, <1>2
  <2>3. ToSet(doPending[s]) \subseteq Given /\ doTimeline \subseteq Given BY DEF GivenIds
  <2>4. doRows' \subseteq Given /\ doTimeline' \subseteq Given
    BY <1>1, <1>3, <2>3 DEF GivenIds
  <2>5. doOpen'[s] \subseteq Given /\ ToSet(doPending'[s]) \subseteq Given
    BY <2>1, <2>2, <2>3 DEF GivenIds
  <2>6. \A r \in Session \ {s} :
          /\ doOpen'[r] \subseteq Given /\ ToSet(doPending'[r]) \subseteq Given
          /\ doAt'[r] = "adding" => doNew'[r] \in Given
    BY <1>5 DEF GivenIds
  <2>7. QED BY <2>1, <2>2, <2>4, <2>5, <2>6 DEF GivenIds
<1>10. OpenIsDeferred'
  <2>1. ASSUME NEW r \in Session, NEW j \in doOpen[r], Shown(j) PROVE Shown(j)'
    BY <1>1, <1>3, <1>6, <2>1, ShownStays DEF GivenIds
  <2>2. doMuted \subseteq doMuted' BY <1>1
  <2>3. ASSUME NEW r \in Session \ {s}, NEW j \in doOpen'[r]
        PROVE  Shown(j)' \/ j \in doMuted' \/ Awaited(r, j)'
    BY <1>5, <2>1, <2>2 DEF OpenIsDeferred, Awaited
  <2>4. ASSUME NEW j \in doOpen[s] PROVE Shown(j)' \/ j \in doMuted'
    BY <1>7, <2>1, <2>2 DEF OpenIsDeferred
  <2>5. i \in doMuted' \/ Awaited(s, i)' BY <1>1, <1>4 DEF Awaited
  <2>6. doOpen'[s] = doOpen[s] \cup {i} BY <1>1
  <2>7. QED BY <2>3, <2>4, <2>5, <2>6 DEF OpenIsDeferred
<1>11. FirstMirrorsAreShown'
  <2>1. \A r \in Session : \A j \in RowId : doAt[r] = "committed" /\ Awaited(r, j) =>
          Shown(j)' \/ (doAt'[r] = "committed" /\ Awaited(r, j)')
    BY <1>5, <1>7 DEF Awaited
  <2>2. QED BY <1>1, <1>3, <1>6, <2>1, RowsStayShown
<1>12. QED BY <1>8, <1>9, <1>10, <1>11

(* A session that lost the race keeps its mirrors up to its rollback. *)
LEMMA LoseRaceInv ==
  ASSUME DurableInv, NEW s \in Session, LoseRace(s) PROVE DurableInv'
<1> USE DEF DurableInv, DurableTypeOK, LoseRace
<1>1. DurableTypeOK' OBVIOUS
<1>2. GivenIds' BY DEF GivenIds
<1>3. \A r \in Session : \A j : Awaited(r, j) => Awaited(r, j)' BY DEF Awaited
<1>4. OpenIsDeferred' BY <1>3 DEF OpenIsDeferred, Shown, WithKey
<1>5. KeysStay BY DEF KeysStay
<1>6. FirstMirrorsAreShown' BY <1>3, <1>5, RowsStayShown
<1>7. QED BY <1>1, <1>2, <1>4, <1>6

(* What a commit makes visible is shown, or its mirror is about to be. *)
LEMMA CommitInv ==
  ASSUME DurableInv, NEW s \in Session, Commit(s) PROVE DurableInv'
<1> USE DEF DurableInv, DurableTypeOK
<1>1. /\ doAt[s] = "open" /\ doRows' = doRows \cup doOpen[s]
      /\ doOpen' = [doOpen EXCEPT ![s] = {}] /\ doAt' = [doAt EXCEPT ![s] = "committed"]
      /\ UNCHANGED <<doNext, doKey, doNew, doPending, doGiven, doHook, doTimeline, doMuted>>
  BY DEF Commit
<1>2. DurableTypeOK' BY <1>1
<1>3. GivenIds' BY <1>1 DEF GivenIds
<1>4. \A r \in Session : \A j : Awaited(r, j) => Awaited(r, j)' BY <1>1 DEF Awaited
<1>5. OpenIsDeferred' BY <1>1, <1>4 DEF OpenIsDeferred, Shown, WithKey
<1>6. KeysStay BY <1>1 DEF KeysStay
<1>7. \A i \in doOpen[s] : Shown(i)' \/ i \in doMuted' \/ Awaited(s, i)'
  BY <1>1, <1>4 DEF OpenIsDeferred, Shown, WithKey
<1>8. doAt'[s] = "committed" /\ \A r \in Session \ {s} : doAt'[r] = doAt[r] BY <1>1
<1>9. FirstMirrorsAreShown'
  <2>1. doRows \subseteq doRows' /\ doRows' \subseteq RowId BY <1>1
  <2>2. doTimeline \subseteq doTimeline' /\ doMuted \subseteq doMuted' BY <1>1
  <2>3. \A i \in doRows' \ doRows :
          \/ Shown(i)' \/ i \in doMuted'
          \/ \E r \in Session : doAt'[r] = "committed" /\ Awaited(r, i)'
    BY <1>1, <1>7, <1>8
  <2>4. \A r \in Session : \A i \in RowId : doAt[r] = "committed" /\ Awaited(r, i) =>
          Shown(i)' \/ (doAt'[r] = "committed" /\ Awaited(r, i)')
    BY <1>4, <1>8
  <2>5. QED BY <1>6, <2>1, <2>2, <2>3, <2>4, RowsStayShown
<1>10. QED BY <1>2, <1>3, <1>5, <1>9

(* The hook of a commit, if it is still to come, mirrors the rows. *)
LEMMA AfterCommitInv ==
  ASSUME DurableInv, NEW s \in Session, AfterCommit(s) PROVE DurableInv'
<1> DEFINE left == Drain(s)
<1> USE DEF DurableInv, DurableTypeOK
<1>1. /\ doTimeline' = left.shown
      /\ doPending' = [doPending EXCEPT ![s] = left.pending]
      /\ doHook' = [doHook EXCEPT ![s] = left.hook]
      /\ doAt' = [doAt EXCEPT ![s] = "open"]
      /\ UNCHANGED <<doNext, doKey, doRows, doOpen, doNew, doGiven, doMuted>>
  BY DEF AfterCommit
<1>2. /\ doTimeline \subseteq left.shown
      /\ left.shown \subseteq doTimeline \cup ToSet(doPending[s])
      /\ \A j \in ToSet(doPending[s]) : "commit" \in doHook[s] =>
           j \in left.shown \/ WithKey(left.shown, doKey[j]) # {}
      /\ left.pending \in Seq(RowId) /\ ToSet(left.pending) \subseteq ToSet(doPending[s])
      /\ left.hook \subseteq {"commit", "rollback"}
  BY DrainShows
<1> HIDE DEF left
<1>3. \A r \in Session \ {s} :
        UNCHANGED <<doPending[r], doHook[r], doAt[r], doOpen[r], doNew[r]>>
  BY <1>1
<1>4. doAt'[s] = "open" /\ ToSet(doPending'[s]) \subseteq ToSet(doPending[s])
  BY <1>1, <1>2
<1>5. KeysStay BY <1>1 DEF KeysStay
<1>6. \A j : Awaited(s, j) => Shown(j)' BY <1>1, <1>2 DEF Awaited, Shown, WithKey
<1>7. DurableTypeOK'
  <2>1. doTimeline' \subseteq RowId BY <1>1, <1>2 DEF GivenIds
  <2>2. doPending' \in [Session -> Seq(RowId)] BY <1>1, <1>2
  <2>3. QED BY <1>1, <1>2, <2>1, <2>2
<1>8. GivenIds' BY <1>1, <1>2, <1>3, <1>4 DEF GivenIds
<1>9. OpenIsDeferred'
  <2>1. ASSUME NEW r \in Session, NEW j \in doOpen[r], Shown(j) PROVE Shown(j)'
    BY <1>1, <1>2, <1>5, <2>1, ShownStays DEF GivenIds
  <2>2. QED BY <1>1, <1>3, <1>6, <2>1 DEF OpenIsDeferred, Awaited
<1>10. FirstMirrorsAreShown'
  <2>1. \A r \in Session : \A j \in RowId : doAt[r] = "committed" /\ Awaited(r, j) =>
          Shown(j)' \/ (doAt'[r] = "committed" /\ Awaited(r, j)')
    BY <1>3, <1>6 DEF Awaited
  <2>2. QED BY <1>1, <1>2, <1>5, <2>1, RowsStayShown
<1>11. QED BY <1>7, <1>8, <1>9, <1>10

(* A rollback takes the rows of the session, and its mirrors if the hook is *)
(* still to come; the end of the session takes both.                        *)
LEMMA RollbackInv ==
  ASSUME DurableInv, NEW s \in Session, Rollback(s) \/ EndSession(s) PROVE DurableInv'
<1> USE DEF DurableInv, DurableTypeOK
<1>1. /\ doAt[s] # "committed" /\ doAt' = [doAt EXCEPT ![s] = "open"]
      /\ doOpen' = [doOpen EXCEPT ![s] = {}]
      /\ doNew' \in {doNew, [doNew EXCEPT ![s] = 0]}
      /\ UNCHANGED <<doNext, doKey, doRows, doTimeline, doMuted>>
  BY DEF Rollback, EndSession
<1>2. /\ doPending' \in {doPending, [doPending EXCEPT ![s] = <<>>]}
      /\ doGiven' \in {doGiven, [doGiven EXCEPT ![s] = FALSE]}
      /\ doHook' \in {doHook, [doHook EXCEPT ![s] = @ \ {"rollback"}],
                      [doHook EXCEPT ![s] = {}]}
  BY DEF Rollback, EndSession
<1>3. doPending' \in [Session -> Seq(RowId)] /\ doGiven' \in [Session -> BOOLEAN]
        /\ doHook' \in [Session -> SUBSET {"commit", "rollback"}]
  <2>1. <<>> \in Seq(RowId) OBVIOUS
  <2>2. doHook[s] \ {"rollback"} \in SUBSET {"commit", "rollback"} OBVIOUS
  <2>3. doPending' \in [Session -> Seq(RowId)] BY <1>2, <2>1
  <2>4. doGiven' \in [Session -> BOOLEAN] BY <1>2
  <2>5. doHook' \in [Session -> SUBSET {"commit", "rollback"}] BY <1>2, <2>2
  <2>6. QED BY <2>3, <2>4, <2>5
<1>4. DurableTypeOK' BY <1>1, <1>3
<1>5. \A r \in Session \ {s} :
        UNCHANGED <<doPending[r], doHook[r], doAt[r], doOpen[r], doNew[r]>>
  BY <1>1, <1>2
<1>6. ToSet(doPending'[s]) \subseteq ToSet(doPending[s]) BY <1>2 DEF ToSet
<1>7. GivenIds' BY <1>1, <1>5, <1>6 DEF GivenIds
<1>8. \A r \in Session \ {s} : \A j : Awaited(r, j) => Awaited(r, j)' BY <1>5 DEF Awaited
<1>9. OpenIsDeferred' BY <1>1, <1>8 DEF OpenIsDeferred, Shown, WithKey
<1>10. KeysStay BY <1>1 DEF KeysStay
<1>11. FirstMirrorsAreShown'
  <2>1. \A r \in Session : \A j \in RowId : doAt[r] = "committed" /\ Awaited(r, j) =>
          Shown(j)' \/ (doAt'[r] = "committed" /\ Awaited(r, j)')
    BY <1>1, <1>5, <1>8
  <2>2. QED BY <1>1, <1>10, <2>1, RowsStayShown
<1>12. QED BY <1>4, <1>7, <1>9, <1>11

(* An event in memory is shown before its row is written. *)
LEMMA MemoryInv ==
  ASSUME DurableInv,
         \/ \E k \in RowKey \cup {NoRowKey} : WriteMemory(k)
         \/ \E i \in RowId : SaveEntry(i)
  PROVE  DurableInv'
<1> USE DEF DurableInv, DurableTypeOK
<1>1. ASSUME NEW k \in RowKey \cup {NoRowKey}, WriteMemory(k) PROVE DurableInv'
  <2>1. /\ doNext \in RowId /\ doNext' = doNext + 1
        /\ doKey' = [doKey EXCEPT ![doNext] = k]
        /\ doTimeline' \in {doTimeline, doTimeline \cup {doNext}}
        /\ UNCHANGED <<doRows, doOpen, doAt, doNew, doPending, doGiven, doHook, doMuted>>
    BY <1>1, RowIdsAreFinite DEF WriteMemory, RowId
  <2>2. doNext' \in 1..MaxSaves + 1 BY <2>1, RowIdsAreFinite DEF RowId
  <2>3. doKey' \in [RowId -> RowKey \cup {NoRowKey}] /\ KeysStay BY <2>1 DEF KeysStay
  <2>4. \A i \in RowId : i < doNext \/ i = doNext => i < doNext' BY <2>1, RowIdsAreFinite
  <2>5. DurableTypeOK' BY <2>1, <2>2, <2>3
  <2>6. GivenIds' BY <2>1, <2>4 DEF GivenIds
  <2>7. \A r \in Session : \A j : Awaited(r, j) => Awaited(r, j)' BY <2>1 DEF Awaited
  <2>8. OpenIsDeferred' BY <2>1, <2>3, <2>7, ShownStays DEF OpenIsDeferred, GivenIds
  <2>9. FirstMirrorsAreShown' BY <2>1, <2>3, <2>7, RowsStayShown
  <2>10. QED BY <2>5, <2>6, <2>8, <2>9
<1>2. ASSUME NEW i \in RowId, SaveEntry(i) PROVE DurableInv'
  <2>1. /\ i \in doTimeline /\ doRows' = doRows \cup {i}
        /\ UNCHANGED <<doNext, doKey, doOpen, doAt, doNew, doPending, doGiven, doHook,
                       doTimeline, doMuted>>
    BY <1>2 DEF SaveEntry
  <2>2. DurableTypeOK' BY <2>1
  <2>3. GivenIds' BY <2>1 DEF GivenIds
  <2>4. \A r \in Session : \A j : Awaited(r, j) => Awaited(r, j)' BY <2>1 DEF Awaited
  <2>5. OpenIsDeferred' BY <2>1, <2>4 DEF OpenIsDeferred, Shown, WithKey
  <2>6. KeysStay BY <2>1 DEF KeysStay
  <2>7. FirstMirrorsAreShown' BY <2>1, <2>4, <2>6, RowsStayShown DEF Shown
  <2>8. QED BY <2>2, <2>3, <2>5, <2>7
<1>3. QED BY <1>1, <1>2

(* A restart shows the newest rows, and no others count. *)
LEMMA RestartOutboxInv == ASSUME DurableInv, RestartOutbox PROVE DurableInv'
<1> USE DEF DurableInv, RestartOutbox
<1>1. DurableTypeOK'
  <2>1. <<>> \in Seq(RowId) OBVIOUS
  <2>2. QED BY <2>1 DEF DurableTypeOK
<1>2. GivenIds' BY DEF GivenIds, ToSet
<1>3. OpenIsDeferred' BY DEF OpenIsDeferred
<1>4. FirstMirrorsAreShown'
  <2>1. ASSUME NEW i \in doRows PROVE i \in doTimeline' \/ Cardinality(Newer(i)) >= Limit
    <3>1. Newer(i) \in SUBSET RowId BY DEF Newer, DurableTypeOK
    <3>2. Cardinality(Newer(i)) \in Nat /\ Limit \in Nat
      BY <3>1, RowIdsAreFinite, DurableAssumption
    <3>3. QED BY <3>2
  <2>2. \A i : Newer(i)' = Newer(i) BY DEF Newer
  <2>3. QED BY <2>1, <2>2 DEF FirstMirrorsAreShown, Reaches
<1>5. QED BY <1>1, <1>2, <1>3, <1>4

(* DurableInv holds in every reachable state of the outbox table: an open   *)
(* row is shown, awaited by its session's commit hook, or was flushed after *)
(* the session had been given its hooks.                                    *)
THEOREM DurableInvariant == DurableSpec => []DurableInv
<1>1. ASSUME DurableInv, [DurableNext]_durableVars PROVE DurableInv'
  <2>1. ASSUME NEW s \in Session, SessionStep(s) PROVE DurableInv'
    BY <1>1, <2>1, SaveRowInv, FlushRowInv, LoseRaceInv, CommitInv, AfterCommitInv, RollbackInv
    DEF SessionStep
  <2>2. CASE UNCHANGED durableVars
    BY <1>1, <2>2 DEF durableVars, DurableInv, DurableTypeOK, GivenIds, OpenIsDeferred,
                      Awaited, FirstMirrorsAreShown, Reaches, Shown, WithKey, Newer
  <2>3. QED BY <1>1, <2>1, <2>2, MemoryInv, RestartOutboxInv DEF DurableNext
<1>2. QED BY <1>1, DurableInitInv, PTL DEF DurableSpec

(* The rows, sessions and mirrors keep to their types. *)
THEOREM DurableTypeCorrect == DurableSpec => []DurableTypeOK
<1>1. DurableInv => DurableTypeOK BY DEF DurableInv
<1>2. QED BY <1>1, DurableInvariant, PTL

(* A committed event that its session flushed before it was given its hooks *)
(* reaches the timeline, itself or under its key, and is there again after  *)
(* a crash: for any number of sessions, keys and events.                    *)
THEOREM DurableFirstMirrorsAreShown == DurableSpec => []FirstMirrorsAreShown
<1>1. DurableInv => FirstMirrorsAreShown BY DEF DurableInv
<1>2. QED BY <1>1, DurableInvariant, PTL

(***************************************************************************)
(* Idempotency over sessions, memory and restarts.  A session adds a row   *)
(* only after it saw none with its key, and the flush waits for the        *)
(* sessions that hold the key, so no two rows share one, committed or not; *)
(* a mirror is put in only if its key is not shown; a restart shows rows.  *)
(***************************************************************************)
Unique(ids) == \A i \in ids, j \in ids : doKey[i] = doKey[j] /\ doKey[i] # NoRowKey => i = j

(* The rows that are committed or flushed. *)
Held == doRows \cup UNION {doOpen[s] : s \in Session}

(* No key has two rows, nor two events in the timeline. *)
OnePerKey == Unique(Held) /\ Unique(doTimeline)

(* What a session is about to flush is not among its own rows. *)
AddingIsNew ==
  \A s \in Session : doAt[s] = "adding" => WithKey(doOpen[s], doKey[doNew[s]]) = {}

(* Mirrors that are put in one by one are put in once per key. *)
LEMMA MirroredOnce ==
  ASSUME NEW shown, NEW mirrors \in Seq(RowId), Unique(shown)
  PROVE  Unique(Mirrored(shown, mirrors))
<1> DEFINE Before(j) == shown \cup {mirrors[i] : i \in 1..j - 1}
           Put == {j \in DOMAIN mirrors : WithKey(Before(j), doKey[mirrors[j]]) = {}}
<1>1. Mirrored(shown, mirrors) = shown \cup {mirrors[j] : j \in Put} BY DEF Mirrored
<1>2. ASSUME NEW i \in shown, NEW j \in Put, doKey[i] = doKey[mirrors[j]], doKey[i] # NoRowKey
      PROVE  FALSE
  BY <1>2 DEF WithKey
<1>3. ASSUME NEW i \in Put, NEW j \in Put, i < j, doKey[mirrors[i]] = doKey[mirrors[j]],
             doKey[mirrors[i]] # NoRowKey
      PROVE  FALSE
  <2>1. i \in 1..j - 1 BY <1>3
  <2>2. mirrors[i] \in Before(j) BY <2>1
  <2>3. QED BY <1>3, <2>2 DEF WithKey
<1>4. ASSUME NEW i \in Put, NEW j \in Put, doKey[mirrors[i]] = doKey[mirrors[j]],
             doKey[mirrors[i]] # NoRowKey
      PROVE  i = j
  <2>1. ~(i < j) BY <1>3, <1>4
  <2>2. ~(j < i) BY <1>3, <1>4
  <2>3. i \in Nat /\ j \in Nat OBVIOUS
  <2>4. QED BY <2>1, <2>2, <2>3
<1> HIDE DEF Put
<1>5. ASSUME NEW x \in Mirrored(shown, mirrors), NEW y \in Mirrored(shown, mirrors),
             doKey[x] = doKey[y], doKey[x] # NoRowKey
      PROVE  x = y
  <2>1. CASE x \in shown /\ y \in shown BY <1>5, <2>1 DEF Unique
  <2>2. CASE x \in shown /\ y \notin shown BY <1>1, <1>2, <1>5, <2>2
  <2>3. CASE x \notin shown /\ y \in shown BY <1>1, <1>2, <1>5, <2>3
  <2>4. CASE x \notin shown /\ y \notin shown BY <1>1, <1>4, <1>5, <2>4
  <2>5. QED BY <2>1, <2>2, <2>3, <2>4
<1>6. QED BY <1>5 DEF Unique

(* So a drain keeps the timeline unique. *)
LEMMA DrainOnce ==
  ASSUME DurableInv, OnePerKey, NEW s \in Session
  PROVE  Unique(Drain(s).shown)
<1>1. doPending[s] \in Seq(RowId) BY DEF DurableInv, DurableTypeOK
<1>2. Drain(s).shown \in {doTimeline, Mirrored(doTimeline, doPending[s])} BY DEF Drain
<1>3. QED BY <1>1, <1>2, MirroredOnce DEF OnePerKey

(* Rows that are held have been given. *)
LEMMA HeldAreGiven ==
  ASSUME DurableInv
  PROVE  Held \subseteq {i \in RowId : i < doNext} /\ doTimeline \subseteq {i \in RowId : i < doNext}
  BY DEF DurableInv, GivenIds, Held

(* What a step that takes no new row owes: rows may be committed or given   *)
(* up, and the timeline stays unique.                                       *)
LEMMA NoNewRow ==
  ASSUME DurableInv, OnePerKey, KeysStay, Held' \subseteq Held, Unique(doTimeline)'
  PROVE  OnePerKey'
<1>1. Unique(Held)' BY HeldAreGiven DEF OnePerKey, Unique, KeysStay
<1>2. QED BY <1>1 DEF OnePerKey

OnceInv == DurableInv /\ OnePerKey /\ AddingIsNew

LEMMA OnceSession ==
  ASSUME OnceInv, NEW s \in Session, SessionStep(s) PROVE (OnePerKey /\ AddingIsNew)'
<1> USE DEF OnceInv
<1>0. /\ doKey \in [RowId -> RowKey \cup {NoRowKey}] /\ doAt \in [Session -> {"open", "adding", "committed", "doomed"}]
      /\ doOpen \in [Session -> SUBSET RowId] /\ doNew \in [Session -> RowId \cup {0}]
      /\ doNext \in 1..MaxSaves + 1 /\ MaxSaves \in Nat /\ doTimeline \subseteq RowId
  BY RowIdsAreFinite DEF DurableInv, DurableTypeOK
<1>1. ASSUME NEW k \in RowKey \cup {NoRowKey}, SaveRow(s, k) PROVE (OnePerKey /\ AddingIsNew)'
  <2>1. /\ UNCHANGED <<doRows, doOpen, doTimeline>> /\ doKey' = [doKey EXCEPT ![doNext] = k]
        /\ doNext \in RowId
    BY <1>1, <1>0 DEF SaveRow, RowId
  <2>2. KeysStay BY <1>0, <2>1 DEF KeysStay
  <2>3. OnePerKey'
    <3>1. Held' = Held BY <2>1 DEF Held
    <3>2. Unique(doTimeline)' BY <2>1, <2>2, HeldAreGiven DEF OnePerKey, Unique, KeysStay
    <3>3. QED BY <2>2, <3>1, <3>2, NoNewRow
  <2>4. AddingIsNew'
    <3> SUFFICES ASSUME NEW r \in Session, doAt'[r] = "adding", NEW i \in doOpen[r],
                        doKey'[i] = doKey'[doNew'[r]], doKey'[i] # NoRowKey
                 PROVE  FALSE
      BY <2>1 DEF AddingIsNew, WithKey
    <3>1. i \in RowId /\ i < doNext BY DEF DurableInv, GivenIds
    <3>2. CASE doAt' = doAt /\ doNew' = doNew
      <4>1. doNew[r] \in RowId /\ doNew[r] < doNext BY <3>2 DEF DurableInv, GivenIds
      <4>2. doKey[i] = doKey[doNew[r]] BY <2>2, <3>1, <3>2, <4>1 DEF KeysStay
      <4>3. QED BY <2>2, <3>1, <3>2, <4>2 DEF AddingIsNew, WithKey, KeysStay
    <3>3. CASE /\ WithKey(doRows \cup doOpen[s], k) = {} /\ doAt' = [doAt EXCEPT ![s] = "adding"]
               /\ doNew' = [doNew EXCEPT ![s] = doNext]
      <4>1. CASE r = s
        <5>1. doKey'[doNew'[s]] = k BY <1>0, <2>1, <3>3
        <5>2. doKey[i] = k /\ k # NoRowKey BY <2>2, <3>1, <4>1, <5>1 DEF KeysStay
        <5>3. QED BY <3>3, <4>1, <5>2 DEF WithKey
      <4>2. CASE r # s
        <5>1. doAt[r] = "adding" /\ doNew'[r] = doNew[r] BY <1>0, <3>3, <4>2
        <5>2. doNew[r] \in RowId /\ doNew[r] < doNext BY <5>1 DEF DurableInv, GivenIds
        <5>3. doKey[i] = doKey[doNew[r]] BY <2>2, <3>1, <5>1, <5>2 DEF KeysStay
        <5>4. QED BY <2>2, <3>1, <5>1, <5>3 DEF AddingIsNew, WithKey, KeysStay
      <4>3. QED BY <4>1, <4>2
    <3>4. QED BY <1>1, <3>2, <3>3 DEF SaveRow
  <2>5. QED BY <2>3, <2>4
<1>2. CASE FlushRow(s)
  <2> DEFINE i == doNew[s]
             shown == Drain(s).shown
  <2>1. /\ doAt[s] = "adding" /\ doAt' = [doAt EXCEPT ![s] = "open"] /\ doNew' = [doNew EXCEPT ![s] = 0]
        /\ doOpen' = [doOpen EXCEPT ![s] = @ \cup {i}] /\ doTimeline' = shown
        /\ WithKey(doRows, doKey[i]) = {}
        /\ \A r \in Session \ {s} : WithKey(doOpen[r], doKey[i]) = {}
        /\ UNCHANGED <<doKey, doRows>>
    BY <1>2 DEF FlushRow
  <2>2. Unique(shown) BY DrainOnce
  <2> HIDE DEF i, shown
  <2>3. WithKey(doOpen[s], doKey[i]) = {} BY <2>1 DEF AddingIsNew, i
  <2>4. \A r \in Session : WithKey(doOpen[r], doKey[i]) = {} BY <2>1, <2>3
  <2>5. WithKey(Held, doKey[i]) = {} BY <2>1, <2>4 DEF Held, WithKey
  <2>6. Held' \subseteq Held \cup {i} BY <1>0, <2>1 DEF Held
  <2>7. Unique(Held)' BY <2>1, <2>5, <2>6 DEF OnePerKey, Unique, WithKey
  <2>8. Unique(doTimeline)' BY <2>1, <2>2 DEF Unique
  <2>9. AddingIsNew'
    <3>1. \A r \in Session : doAt'[r] = "adding" =>
            r # s /\ doAt[r] = "adding" /\ doOpen'[r] = doOpen[r] /\ doNew'[r] = doNew[r]
      BY <1>0, <2>1
    <3>2. QED BY <2>1, <3>1 DEF AddingIsNew, WithKey
  <2>10. QED BY <2>7, <2>8, <2>9 DEF OnePerKey
<1>3. CASE LoseRace(s) \/ Commit(s) \/ AfterCommit(s) \/ Rollback(s) \/ EndSession(s)
  <2>1. /\ doKey' = doKey /\ doNext' = doNext /\ doAt'[s] # "adding"
        /\ \A r \in Session \ {s} : doAt'[r] = doAt[r] /\ doOpen'[r] = doOpen[r] /\ doNew'[r] = doNew[r]
    BY <1>0, <1>3 DEF LoseRace, Commit, AfterCommit, Rollback, EndSession
  <2>2. doTimeline' \in {doTimeline, Drain(s).shown}
    BY <1>3 DEF LoseRace, Commit, AfterCommit, Rollback, EndSession
  <2>3. Held' \subseteq Held
    <3>1. doOpen' \in {doOpen, [doOpen EXCEPT ![s] = {}]} /\ doRows' \subseteq doRows \cup doOpen[s]
      BY <1>3 DEF LoseRace, Commit, AfterCommit, Rollback, EndSession
    <3>2. QED BY <1>0, <3>1 DEF Held
  <2>4. Unique(doTimeline') BY <2>2, DrainOnce DEF OnePerKey
  <2>5. Unique(doTimeline)' BY <2>1, <2>4 DEF Unique
  <2>6. Unique(Held)' BY <2>1, <2>3 DEF OnePerKey, Unique
  <2>7. AddingIsNew' BY <2>1 DEF AddingIsNew, WithKey
  <2>8. QED BY <2>5, <2>6, <2>7 DEF OnePerKey
<1>4. QED BY <1>1, <1>2, <1>3 DEF SessionStep

LEMMA OnceMemory ==
  ASSUME OnceInv, NEW k \in RowKey \cup {NoRowKey}, WriteMemory(k)
  PROVE  (OnePerKey /\ AddingIsNew)'
<1> USE DEF OnceInv
<1>0. /\ doKey \in [RowId -> RowKey \cup {NoRowKey}] /\ doNext \in RowId
      /\ doKey' = [doKey EXCEPT ![doNext] = k]
      /\ UNCHANGED <<doRows, doOpen, doAt, doNew>>
      /\ doTimeline' = IF WithKey(doTimeline, k) = {} THEN doTimeline \cup {doNext}
                                                      ELSE doTimeline
  BY RowIdsAreFinite DEF DurableInv, DurableTypeOK, WriteMemory, RowId
<1>1. KeysStay BY <1>0, RowIdsAreFinite DEF KeysStay
<1>2. Held' = Held BY <1>0 DEF Held
<1>3. Unique(doTimeline)'
  <2> SUFFICES ASSUME NEW i \in doTimeline', NEW j \in doTimeline', doKey'[i] = doKey'[j],
                      doKey'[i] # NoRowKey
               PROVE  i = j
    BY DEF Unique
  <2>1. \A n \in doTimeline : n \in RowId /\ n < doNext /\ doKey'[n] = doKey[n]
    BY <1>1, HeldAreGiven DEF KeysStay
  <2>2. CASE i \in doTimeline /\ j \in doTimeline BY <2>1, <2>2 DEF OnePerKey, Unique
  <2>3. CASE i = doNext /\ j = doNext BY <2>3
  <2>4. ASSUME NEW n \in doTimeline, doKey'[n] = k, k # NoRowKey
        PROVE  doTimeline' = doTimeline
    BY <1>0, <2>1, <2>4 DEF WithKey
  <2>5. doKey'[doNext] = k /\ doNext \notin doTimeline
    <3>1. doKey'[doNext] = k BY <1>0
    <3>2. doNext \in Nat /\ ~(doNext < doNext) BY <1>0, RowIdsAreFinite
    <3>3. QED BY <2>1, <3>1, <3>2
  <2>6. QED BY <1>0, <2>2, <2>3, <2>4, <2>5
<1>4. AddingIsNew'
  <2> SUFFICES ASSUME NEW r \in Session, doAt[r] = "adding", NEW i \in doOpen[r],
                      doKey'[i] = doKey'[doNew[r]], doKey'[i] # NoRowKey
               PROVE  FALSE
    BY <1>0 DEF AddingIsNew, WithKey
  <2>1. i \in RowId /\ i < doNext /\ doNew[r] \in RowId /\ doNew[r] < doNext
    BY DEF DurableInv, GivenIds
  <2>2. QED BY <1>1, <2>1 DEF KeysStay, AddingIsNew, WithKey
<1>5. QED BY <1>1, <1>2, <1>3, <1>4, NoNewRow

LEMMA OnceSaveEntry ==
  ASSUME OnceInv, NEW i \in RowId, SaveEntry(i) PROVE (OnePerKey /\ AddingIsNew)'
<1> USE DEF OnceInv
<1>1. /\ WithKey(doRows, doKey[i]) = {}
      /\ \A s \in Session : WithKey(doOpen[s], doKey[i]) = {}
      /\ doRows' = doRows \cup {i} /\ UNCHANGED <<doKey, doOpen, doAt, doNew, doTimeline>>
  BY DEF SaveEntry
<1>2. WithKey(Held, doKey[i]) = {} /\ Held' = Held \cup {i} BY <1>1 DEF Held, WithKey
<1>3. Unique(Held)' BY <1>1, <1>2 DEF OnePerKey, Unique, WithKey
<1>4. QED BY <1>1, <1>3 DEF OnePerKey, Unique, AddingIsNew, WithKey

LEMMA OnceRestart == ASSUME OnceInv, RestartOutbox PROVE (OnePerKey /\ AddingIsNew)'
<1> USE DEF OnceInv
<1>1. Held' = doRows /\ doTimeline' \subseteq doRows /\ doKey' = doKey
  BY DEF RestartOutbox, Held
<1>2. Unique(Held)' /\ Unique(doTimeline)' BY <1>1 DEF OnePerKey, Unique, Held
<1>3. AddingIsNew' BY DEF RestartOutbox, AddingIsNew
<1>4. QED BY <1>2, <1>3 DEF OnePerKey

(* An event is recorded once: no dedup key ever has two rows, committed or  *)
(* flushed, nor two events in the timeline, although sessions race, lose    *)
(* and roll back, pipelines write in memory only, and restarts make the     *)
(* timeline from the rows (save_event_with_outbox, save_outbox_event_to_db  *)
(* and init_persistence).                                                   *)
THEOREM DurableRecordsOnce == DurableSpec => []OnePerKey
<1>1. DurableInit => OnePerKey /\ AddingIsNew
  BY DEF DurableInit, NoSession, OnePerKey, Unique, Held, AddingIsNew
<1>2. DurableInv /\ OnePerKey /\ AddingIsNew /\ [DurableNext]_durableVars
        => OnePerKey' /\ AddingIsNew'
  <2> SUFFICES ASSUME OnceInv, [DurableNext]_durableVars PROVE (OnePerKey /\ AddingIsNew)'
    BY DEF OnceInv
  <2>1. CASE UNCHANGED durableVars
    BY <2>1 DEF durableVars, OnceInv, OnePerKey, Unique, Held, AddingIsNew, WithKey
  <2>2. QED BY <2>1, OnceSession, OnceMemory, OnceSaveEntry, OnceRestart DEF DurableNext
<1>3. QED BY <1>1, <1>2, DurableInvariant, PTL DEF DurableSpec
-----------------------------------------------------------------------------
(***************************************************************************)
(* The dispatcher: what a file may hold is checked when it is read, so     *)
(* that a torn one never gets into the settings.                           *)
(***************************************************************************)

(* The defaults are settings, and a loaded file is one or the defaults.     *)
LEMMA LoadedIsSettings ==
  ASSUME c2File \in Settings \cup {NoSettings, Torn}
  PROVE  Defaults \in Settings /\ Loaded \in Settings
<1>1. Defaults \in Settings BY DEF Defaults, Settings, Severity
<1>2. QED BY <1>1 DEF Loaded

(* A step of the dispatcher keeps the types.                                *)
LEMMA DispatchStep ==
  ASSUME DispatchTypeOK, [DispatchNext]_dispatchVars
  PROVE  DispatchTypeOK'
<1> DEFINE Stage == {"unwritten", "queued", "posting", "posted", "given up", "none"}
<1>1. CASE UNCHANGED dispatchVars BY <1>1 DEF DispatchTypeOK, dispatchVars
<1>2. CASE Rebind BY <1>2 DEF DispatchTypeOK, Rebind
<1>3. CASE RestartDispatch
  BY <1>3, LoadedIsSettings DEF DispatchTypeOK, RestartDispatch
<1>4. ASSUME NEW s \in Settings, UpdateSettings(s) PROVE DispatchTypeOK'
  BY <1>4 DEF DispatchTypeOK, UpdateSettings
<1>5. ASSUME NEW e \in Alert, NEW task \in {"queued", "none"}, Record(e, task)
      PROVE  DispatchTypeOK'
  <2>1. c2Due' \subseteq Alert BY <1>5 DEF DispatchTypeOK, Record
  <2>2. c2Task' \in [Alert -> Stage] BY <1>5 DEF DispatchTypeOK, Record
  <2>3. QED BY <1>5, <2>1, <2>2 DEF DispatchTypeOK, Record
<1>6. ASSUME NEW e \in Alert, Start(e) PROVE DispatchTypeOK'
  <2>1. c2Task' \in [Alert -> Stage] BY <1>6 DEF DispatchTypeOK, Start
  <2>2. c2Post' \in [Alert -> Webhook \cup {NoWebhook}]
    BY <1>6 DEF DispatchTypeOK, Start, Settings
  <2>3. QED BY <1>6, <2>1, <2>2 DEF DispatchTypeOK, Start
<1>7. ASSUME NEW e \in Alert, Answer(e) \/ Fail(e) PROVE DispatchTypeOK'
  BY <1>7 DEF DispatchTypeOK, Answer, Fail
<1>8. QED
  BY <1>1, <1>2, <1>3, <1>4, <1>5, <1>6, <1>7 DEF DispatchNext, WriteOnLoop, WriteOnThread

(* The dispatcher, its settings and their file (core/dispatcher.py) keep to *)
(* their types: what is in force is settings, whatever the file holds.      *)
THEOREM DispatchTypeCorrect == DispatchInit /\ [][DispatchNext]_dispatchVars => []DispatchTypeOK
<1>1. DispatchInit => DispatchTypeOK
  BY DEF DispatchInit, DispatchTypeOK, Defaults, Settings, Severity
<1>2. QED BY <1>1, DispatchStep, PTL
-----------------------------------------------------------------------------
(***************************************************************************)
(* The sum of the components that keep something, which the run stores     *)
(* checks.                                                                 *)
(***************************************************************************)

(* A step of the sum is a step of the component that moves and a stuttering *)
(* step of every other one.                                                 *)
LEMMA StoresStep ==
  ASSUME [StoresNext]_storesVars
  PROVE  /\ [Next]_vars /\ [DurabilityNext]_durabilityVars /\ [EvidenceNext]_evidenceVars
         /\ [UploadsNext]_uploadVars /\ [ModelFilesNext]_modelVars /\ [DurableNext]_durableVars
         /\ [SightingsNext]_sightingsVars /\ [WatchlistNext]_watchlistVars
         /\ [DatabaseNext]_databaseVars /\ [DispatchNext]_dispatchVars
<1>1. CASE UNCHANGED storesVars BY <1>1 DEF storesVars
<1>2. CASE part = "outbox" /\ Next /\ Rest BY <1>2 DEF Rest, Except
<1>3. CASE part = "durability" /\ DurabilityNext /\ Rest BY <1>3 DEF Rest, Except
<1>4. CASE part = "evidence" /\ EvidenceNext /\ Rest BY <1>4 DEF Rest, Except
<1>5. CASE part = "uploads" /\ UploadsNext /\ Rest BY <1>5 DEF Rest, Except
<1>6. CASE part = "models" /\ ModelFilesNext /\ Rest BY <1>6 DEF Rest, Except
<1>7. CASE part = "durable" /\ DurableNext /\ Rest BY <1>7 DEF Rest, Except
<1>8. CASE part = "sightings" /\ SightingsNext /\ Rest BY <1>8 DEF Rest, Except
<1>9. CASE part = "watchlist" /\ WatchlistNext /\ Rest BY <1>9 DEF Rest, Except
<1>10. CASE part = "database" /\ DatabaseNext /\ Rest BY <1>10 DEF Rest, Except
<1>11. CASE part = "dispatch" /\ DispatchNext /\ Rest BY <1>11 DEF Rest, Except
<1>12. QED BY <1>1, <1>2, <1>3, <1>4, <1>5, <1>6, <1>7, <1>8, <1>9, <1>10, <1>11 DEF StoresNext

(* The sum implements each of its components: what is proved of the         *)
(* specification of a component holds of the sum, in which the others run   *)
(* beside it.                                                               *)
THEOREM StoresImplement ==
  StoresSpec => /\ Spec /\ DurabilitySpec /\ EvidenceSpec /\ UploadsSpec /\ ModelFilesSpec
                /\ DurableSpec /\ SightingsSpec /\ WatchlistSpec /\ DatabaseSpec
                /\ DispatchInit /\ [][DispatchNext]_dispatchVars
<1>1. StoresInit => /\ Init /\ DurabilityInit /\ EvidenceInit /\ UploadsInit /\ ModelFilesInit
                    /\ DurableInit /\ SightingsInit /\ WatchlistInit /\ DatabaseInit
                    /\ DispatchInit
  BY DEF StoresInit
<1>2. QED BY <1>1, StoresStep, PTL
          DEF StoresSpec, Spec, DurabilitySpec, EvidenceSpec, UploadsSpec, ModelFilesSpec,
              DurableSpec, SightingsSpec, WatchlistSpec, DatabaseSpec

(* Whatever the others do, every component that keeps something keeps to    *)
(* its types.                                                               *)
THEOREM StoresTypeCorrect == StoresSpec => []TypesOK
<1>1. TypeOK /\ DurabilityTypeOK /\ EvidenceTypeOK /\ UploadsTypeOK /\ ModelFilesTypeOK
      /\ DurableTypeOK /\ SightingsTypeOK /\ WatchlistTypeOK /\ DatabaseTypeOK /\ DispatchTypeOK
      => TypesOK
  BY DEF TypesOK
<1>2. QED BY <1>1, StoresImplement, TypeCorrect, DurabilityTypeCorrect, EvidenceTypeCorrect,
             UploadsTypeCorrect, ModelFilesTypeCorrect, DurableTypeCorrect, SightingsTypeCorrect,
             WatchlistTypeCorrect, DatabaseTypeCorrect, DispatchTypeCorrect, PTL

(* The safety of the sum, as the run stores checks it: each component's     *)
(* properties hold while the others run beside it.                          *)
THEOREM StoresSafe ==
  StoresSpec => /\ [](Bounded /\ OneEventPerKey /\ DuplicateFindsItsEvent /\ UnreachableHaveTwins)
                /\ [](SerialSavesAgree /\ EvidenceBounded /\ FilesAccounted /\ DownloadingIsReal)
                /\ [](FirstMirrorsAreShown /\ StoreReachesFile /\ OneDatabase /\ IndexedAreListed)
                /\ ImplementsTimeline
BY StoresImplement, OutboxBounded, WritesIdempotent, DuplicatesAgree, MissedEntriesHaveTwins,
   DurabilityAgrees, EvidenceStaysBounded, UploadsAccounted, ModelFilesDownloadsAreReal,
   DurableFirstMirrorsAreShown, WatchlistReachesFile, DatabaseIsOne, SightingsIndexedAreListed,
   RefinesTimeline, PTL
=============================================================================
