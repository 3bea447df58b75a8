------------------------- MODULE ContainerLifeProofs -------------------------
(***************************************************************************)
(* Proofs about ContainerLife, for any settings, assets, releases and      *)
(* bounds.                                                                 *)
(***************************************************************************)
EXTENDS ContainerLife, TLAPS

-----------------------------------------------------------------------------
(* The start-up assets.                                                    *)

\* A .part file belongs to a sync that has found its destination missing.
PartInv ==
  /\ ~Syncing => listed = 0
  /\ part => /\ listed # 0
             /\ \A a \in Names : Turn(a) => assets[a] = 0

\* Either all files are there, of one release, or those that are come from
\* the sync that runs.
ReleaseInv ==
  ~unfinished =>
    \/ \A a, b \in Names : assets[a] # 0 /\ assets[a] = assets[b]
    \/ \A a \in Names : assets[a] = 0 \/ (Syncing /\ assets[a] = listed)

AssetInv == AssetTypeOK /\ PartInv /\ ReleaseInv /\ AssetsWhole

\* A step that concerns the assets.
AssetStep ==
  \/ PublishRelease
  \/ ~Syncing /\ BeginSync
  \/ SyncStep
  \/ EndSync
  \/ SyncFails

\* AssetMoves: whatever the container does, the assets see no other steps.
LEMMA AssetMoves == [Next]_vars => AssetStep \/ UNCHANGED assetVars
<1> SUFFICES ASSUME [Next]_vars, ~UNCHANGED assetVars PROVE AssetStep
  OBVIOUS
<1>1. CASE ContainerDown
  BY <1>1 DEF ContainerDown, AssetStep, SyncFails
<1>2. CASE MainStep
  BY <1>2 DEF MainStep, LoadSettings, InitializeLayoutAndSchema, StartApi, NoAssets,
              StartSync, Sync, AssetsSynced, Schedule, Shutdown, Exit, AssetStep
<1>3. CASE Edit \/ Signal \/ NewRelease \/ ContainerUp \/ StartFails \/ AssetsFail
  BY <1>3 DEF Edit, Signal, NewRelease, ContainerUp, StartFails, AssetsFail, AssetStep
<1>4. CASE CycleStep \/ CycleFails
  BY <1>4 DEF CycleStep, CycleFails, Tick, Reload, Ingest, EndCycle, Export
<1> QED
  BY <1>1, <1>2, <1>3, <1>4 DEF Next, vars

LEMMA AssetInvInit == Init => AssetInv
<1> SUFFICES ASSUME Init PROVE AssetInv
  OBVIOUS
<1>1. Len(Releases) \in Nat \ {0} /\ Len(Assets) \in Nat
  BY AssetsAssumption
<1>2. AssetTypeOK
  <2>1. 0 \in 0 .. Len(Releases) /\ 1 \in 1 .. Len(Releases) /\ 0 \in 0 .. Len(Assets) + 1
    BY <1>1
  <2>2. assets \in [Names -> 0 .. Len(Releases) \union {Cut}]
    BY <2>1 DEF Init, AssetInit
  <2> QED
    BY <2>1, <2>2 DEF Init, AssetInit, AssetTypeOK
<1>3. PartInv /\ ReleaseInv /\ AssetsWhole
  BY AssetsAssumption DEF Init, AssetInit, PartInv, ReleaseInv, AssetsWhole, Syncing
<1> QED
  BY <1>2, <1>3 DEF AssetInv

LEMMA AssetInvStep == AssetInv /\ AssetStep => AssetInv'
<1> SUFFICES ASSUME AssetInv, AssetStep PROVE AssetInv'
  OBVIOUS
<1>0. Len(Releases) \in Nat \ {0} /\ Len(Assets) \in Nat
  BY AssetsAssumption
<1> USE <1>0, AssetsAssumption
    DEF AssetInv, AssetTypeOK, PartInv, ReleaseInv, AssetsWhole, Syncing, Turn
<1>1. CASE PublishRelease
  BY <1>1 DEF PublishRelease
<1>2. CASE ~Syncing /\ BeginSync
  BY <1>2 DEF BeginSync
<1>3. CASE ListRelease
  BY <1>3 DEF ListRelease
<1>4. ASSUME NEW a \in Names, SkipAsset(a) PROVE AssetInv'
  BY <1>4 DEF SkipAsset
<1>5. ASSUME NEW a \in Names, WritePart(a) PROVE AssetInv'
  BY <1>5 DEF WritePart
<1>6. ASSUME NEW a \in Names, Replace(a) PROVE AssetInv'
  <2> USE <1>6 DEF Replace
  <2>1. listed \in 1 .. Len(Releases) /\ listed # Cut /\ next \in 1 .. Len(Assets)
    OBVIOUS
  <2>2. assets[a] = 0
    OBVIOUS
  <2>3. AssetTypeOK'
    <3>1. assets' \in [Names -> 0 .. Len(Releases) \union {Cut}]
      BY <2>1
    <3>2. next' \in 0 .. Len(Assets) + 1
      BY <2>1
    <3> QED
      BY <3>1, <3>2
  <2>4. PartInv'
    BY <2>1
  <2>5. AssetsWhole'
    BY <2>1
  <2>6. ReleaseInv'
    <3> SUFFICES ASSUME ~unfinished
                 PROVE  \A b \in Names : assets'[b] = 0 \/ assets'[b] = listed
      BY <2>1
    <3>1. \A b \in Names : assets[b] = 0 \/ assets[b] = listed
      BY <2>2
    <3> QED
      BY <3>1
  <2> QED
    BY <2>3, <2>4, <2>5, <2>6
<1>7. CASE EndSync \/ SyncFails
  <2>1. SyncOver /\ UNCHANGED <<assets, release>>
    BY <1>7 DEF EndSync, SyncFails
  <2> USE <2>1 DEF SyncOver
  <2>2. AssetTypeOK'
    <3>1. 0 \in 0 .. Len(Releases) /\ 0 \in 0 .. Len(Assets) + 1
      OBVIOUS
    <3>2. (unfinished \/ \E a \in Names : assets[a] = 0) \in BOOLEAN
      OBVIOUS
    <3> QED
      BY <3>1, <3>2
  <2>3. PartInv' /\ AssetsWhole'
    OBVIOUS
  <2>4. ReleaseInv'
    <3> SUFFICES ASSUME ~unfinished'
                 PROVE  \A a, b \in Names : assets[a] # 0 /\ assets[a] = assets[b]
      OBVIOUS
    <3>1. ~unfinished /\ \A a \in Names : assets[a] # 0
      OBVIOUS
    <3> QED
      BY <3>1
  <2> QED
    BY <2>2, <2>3, <2>4
<1> QED
  BY <1>1, <1>2, <1>3, <1>4, <1>5, <1>6, <1>7 DEF AssetStep, SyncStep

LEMMA AssetInvNext == AssetInv /\ [Next]_vars => AssetInv'
<1>1. AssetInv /\ UNCHANGED assetVars => AssetInv'
  BY DEF AssetInv, assetVars, AssetTypeOK, PartInv, ReleaseInv, AssetsWhole,
         Syncing, Turn
<1> QED
  BY <1>1, AssetMoves, AssetInvStep

LEMMA AssetInvariant == Spec => []AssetInv
  BY AssetInvInit, AssetInvNext, PTL DEF Spec

\* AssetsAreWhole: nothing nginx serves under update/ is ever cut.
THEOREM AssetsAreWhole == Spec => []AssetsWhole
  BY AssetInvariant, PTL DEF AssetInv

\* AssetsOfOneRelease: as long as no sync has left a file out, the files are of
\* one release, however many are published and whenever the container ends.
THEOREM AssetsOfOneRelease == Spec => []OneRelease
<1>1. AssetInv => OneRelease
  BY DEF AssetInv, ReleaseInv, OneRelease
<1> QED
  BY AssetInvariant, <1>1, PTL

-----------------------------------------------------------------------------
(* The worker.                                                             *)

\* What the stage of the main thread says about the rest.
StageInv ==
  /\ nginx = Down => main = "none"
  /\ main = "load" => cfg = NoSettings
  /\ main \notin {"none", "load", "ended"} => cfg \in Settings
  /\ cycle # "none" => main \in {"first", "serving", "joining"}
  /\ main = "joining" => stop
  /\ Syncing => main = "assets" /\ "hb-store" \in cfg.targets
  /\ todo # {} => cycle = "export"

LifeInv == AssetInv /\ TypeOK /\ StageInv

\* A count of failures, of whatever kind, never falls.
LEMMA FaultCounts ==
  ASSUME NEW k \in FaultKinds, Fault(k), faults \in [FaultKinds -> 0 .. MaxFaults]
  PROVE  /\ faults' \in [FaultKinds -> 0 .. MaxFaults]
         /\ faults'[k] > 0
         /\ \A j \in FaultKinds : faults'[j] >= faults[j]
<1> USE ContainerAssumption
<1>1. \A j \in FaultKinds : faults[j] \in Nat /\ faults[j] <= MaxFaults
  OBVIOUS
<1>2. faults[k] < MaxFaults
  BY <1>1 DEF Fault, FaultKinds
<1>3. faults' = [faults EXCEPT ![k] = faults[k] + 1]
  BY DEF Fault
<1>4. faults[k] + 1 \in 0 .. MaxFaults
  BY <1>1, <1>2
<1> QED
  BY <1>1, <1>3, <1>4

LEMMA SettingsFit ==
  ASSUME NEW s \in Settings
  PROVE  /\ s.targets \subseteq OutputTargets
         /\ ShownTargets(s) \subseteq OutputTargets
         /\ BaseUrl(s) \in Urls
BY ContainerAssumption DEF IsSettings, ShownTargets, Urls

LEMMA LifeInvInit == Init => LifeInv
<1> SUFFICES ASSUME Init PROVE LifeInv
  OBVIOUS
<1>1. AssetInv /\ AssetTypeOK
  BY AssetInvInit DEF AssetInv
<1>2. faults \in [FaultKinds -> 0 .. MaxFaults] /\ edits \in 0 .. MaxEdits
  BY ContainerAssumption DEF Init
<1>3. outputs \in [OutputTargets -> Urls \union {Missing}]
  BY DEF Init
<1>4. TypeOK
  BY <1>1, <1>2, <1>3 DEF Init, TypeOK, Stages
<1>5. StageInv
  BY DEF Init, AssetInit, StageInv, Syncing
<1> QED
  BY <1>1, <1>4, <1>5 DEF LifeInv

LEMMA LifeInvStep == LifeInv /\ [Next]_vars => LifeInv'
<1> SUFFICES ASSUME LifeInv, [Next]_vars PROVE TypeOK' /\ StageInv'
  BY AssetInvNext DEF LifeInv
<1>0. AssetTypeOK'
  BY AssetInvNext DEF LifeInv, AssetInv
<1> USE <1>0 DEF LifeInv, TypeOK, StageInv, vars, outside, container, worker, cycling
<1>1. CASE Edit
  BY <1>1, ContainerAssumption DEF Edit, assetVars, Syncing
<1>2. CASE Signal
  BY <1>2 DEF Signal, assetVars, Syncing, Stages
<1>3. CASE NewRelease
  BY <1>3 DEF NewRelease, PublishRelease, Syncing
<1>4. CASE ContainerUp
  BY <1>4, SettingsFit, ContainerAssumption DEF ContainerUp, assetVars, Syncing, Stages
<1>5. CASE ContainerDown
  <2>1. faults' \in [FaultKinds -> 0 .. MaxFaults]
    BY <1>5, FaultCounts DEF ContainerDown, FaultKinds
  <2>2. ~Syncing'
    BY <1>5 DEF ContainerDown, Syncing, SyncOver, assetVars
  <2> QED
    BY <1>5, <2>1, <2>2 DEF ContainerDown, Stages
<1>6. CASE LoadSettings
  BY <1>6 DEF LoadSettings, assetVars, Syncing, Stages
<1>7. CASE InitializeLayoutAndSchema \/ StartApi
  BY <1>7 DEF InitializeLayoutAndSchema, StartApi, GoesOn, assetVars, Syncing, Stages
<1>8. CASE NoAssets \/ AssetsSynced
  BY <1>8 DEF NoAssets, AssetsSynced, EndSync, SyncOver, FirstCycle, assetVars,
              Syncing, Stages
<1>9. CASE StartSync
  BY <1>9 DEF StartSync, BeginSync, Syncing
<1>10. CASE Sync
  <2>1. Syncing
    BY <1>10 DEF Sync, SyncStep, ListRelease, SkipAsset, WritePart, Replace, Turn,
                 AssetInv, PartInv
  <2> QED
    BY <1>10, <2>1 DEF Sync, Syncing
<1>11. CASE Schedule
  BY <1>11 DEF Schedule, GoesOn, assetVars, Syncing, Stages
<1>12. CASE Shutdown \/ Exit
  BY <1>12 DEF Shutdown, Exit, GoesOn, assetVars, Syncing, Stages
<1>13. CASE StartFails
  <2>1. faults' \in [FaultKinds -> 0 .. MaxFaults]
    BY <1>13, FaultCounts DEF StartFails, FaultKinds
  <2> QED
    BY <1>13, <2>1 DEF StartFails, GoesOn, assetVars, Syncing, Stages
<1>14. CASE AssetsFail
  <2>1. faults' \in [FaultKinds -> 0 .. MaxFaults]
    BY <1>14, FaultCounts DEF AssetsFail, FaultKinds
  <2> QED
    BY <1>14, <2>1 DEF AssetsFail, SyncFails, SyncOver, FirstCycle, Syncing, Stages
<1>15. CASE Tick \/ Reload \/ Ingest
  BY <1>15 DEF Tick, Reload, Ingest, assetVars, Syncing
<1>16. ASSUME NEW t \in OutputTargets, Export(t) PROVE TypeOK' /\ StageInv'
  <2>1. outputs' \in [OutputTargets -> Urls \union {Missing}]
    BY <1>16, SettingsFit DEF Export, Due
  <2> QED
    BY <1>16, <2>1 DEF Export, Due, assetVars, Syncing
<1>17. CASE EndCycle
  BY <1>17 DEF EndCycle, assetVars, Syncing, Stages
<1>18. CASE CycleFails
  <2>1. faults' \in [FaultKinds -> 0 .. MaxFaults]
    BY <1>18, FaultCounts DEF CycleFails, FaultKinds
  <2> QED
    BY <1>18, <2>1 DEF CycleFails, assetVars, Syncing, Stages
<1>19. CASE UNCHANGED vars
  BY <1>19 DEF assetVars, Syncing
<1> QED
  BY <1>1, <1>2, <1>3, <1>4, <1>5, <1>6, <1>7, <1>8, <1>9, <1>10, <1>11, <1>12,
     <1>13, <1>14, <1>15, <1>16, <1>17, <1>18, <1>19 DEF Next, MainStep, CycleStep

LEMMA LifeInvariant == Spec => []LifeInv
  BY LifeInvInit, LifeInvStep, PTL DEF Spec

\* ContainerTypeCorrect: every variable keeps its type.
THEOREM ContainerTypeCorrect == Spec => []TypeOK
  BY LifeInvariant, PTL DEF LifeInv

\* A worker ends only out of stages whose end has a reason.
LEMMA EndsStep == LifeInv /\ EndsForReason /\ [Next]_vars => EndsForReason'
<1> SUFFICES ASSUME LifeInv, EndsForReason, [Next]_vars, main' = "ended"
             PROVE  stop' \/ faults'["error"] > 0 \/ cfg' = NoSettings \/ cfg'.cron = Junk
  BY DEF EndsForReason
<1> USE DEF LifeInv, StageInv, TypeOK, EndsForReason, vars, worker, cycling, outside,
            container
<1>1. ASSUME Fault("error") PROVE faults'["error"] > 0
  BY <1>1, FaultCounts DEF FaultKinds
<1>2. CASE Edit \/ Signal \/ NewRelease \/ ContainerUp \/ ContainerDown \/ AssetsFail
  BY <1>2 DEF Edit, Signal, NewRelease, ContainerUp, ContainerDown, AssetsFail, FirstCycle
<1>3. CASE LoadSettings
  BY <1>3 DEF LoadSettings
<1>4. CASE InitializeLayoutAndSchema \/ StartApi \/ NoAssets \/ StartSync \/ AssetsSynced
  BY <1>4 DEF InitializeLayoutAndSchema, StartApi, NoAssets, StartSync, AssetsSynced,
              FirstCycle, GoesOn
<1>5. CASE Sync
  BY <1>5 DEF Sync
<1>6. CASE Schedule
  BY <1>6 DEF Schedule, GoesOn
<1>7. CASE Shutdown \/ Exit
  BY <1>7 DEF Shutdown, Exit, GoesOn
<1>8. CASE StartFails
  BY <1>1, <1>8 DEF StartFails
<1>9. CASE CycleStep
  BY <1>9 DEF CycleStep, Tick, Reload, Ingest, EndCycle, Export, Due
<1>10. CASE CycleFails
  <2>1. CASE main = "first"
    BY <1>1, <1>10, <2>1 DEF CycleFails
  <2>2. CASE main # "first"
    BY <1>10, <2>2 DEF CycleFails
  <2> QED
    BY <2>1, <2>2
<1>11. CASE UNCHANGED vars
  BY <1>11
<1> QED
  BY <1>2, <1>3, <1>4, <1>5, <1>6, <1>7, <1>8, <1>9, <1>10, <1>11 DEF Next, MainStep

\* WorkerEndsForReason: neither GitHub nor an edit of settings.ini, the cron
\* text apart, ends the worker.
THEOREM WorkerEndsForReason == Spec => []EndsForReason
<1>1. Init => EndsForReason
  BY DEF Init, EndsForReason
<1> QED
  BY LifeInvariant, <1>1, EndsStep, PTL DEF Spec

-----------------------------------------------------------------------------
(* The outputs.                                                            *)

Unfailed == faults["error"] + faults["down"] = 0

\* Before its exports a cycle has touched nothing; during them, what is no
\* longer to be done is as the settings in force want it.
OutInv ==
  Unfailed =>
    /\ cycle # "export" => \/ \A t \in OutputTargets : outputs[t] = Missing
                           \/ \E s \in Settings : WrittenFor(s)
    /\ cycle = "export" =>
         \A t \in OutputTargets \ todo :
           outputs[t] = IF t \in cfg.targets THEN BaseUrl(cfg) ELSE Missing

\* Failures are not forgotten.
LEMMA UnfailedBefore ==
  LifeInv /\ [Next]_vars /\ Unfailed' =>
    /\ Unfailed
    /\ ~ContainerDown
    /\ ~Fault("error")
<1> SUFFICES ASSUME LifeInv, [Next]_vars, Unfailed'
             PROVE  Unfailed /\ ~ContainerDown /\ ~Fault("error")
  OBVIOUS
<1>1. \A k \in FaultKinds : faults[k] \in Nat
  BY ContainerAssumption DEF LifeInv, TypeOK
<1>2. faults' = faults \/ \E k \in FaultKinds : Fault(k)
  BY DEF Next, vars, Edit, Signal, NewRelease, ContainerUp, ContainerDown, MainStep,
         StartFails, AssetsFail, CycleStep, CycleFails, LoadSettings,
         InitializeLayoutAndSchema, StartApi, NoAssets, StartSync, Sync, AssetsSynced,
         Schedule, Shutdown, Exit, Tick, Reload, Ingest, EndCycle, Export, FaultKinds
<1>3. ASSUME NEW k \in FaultKinds, Fault(k)
      PROVE  Unfailed /\ k = "net"
  <2>1. /\ \A j \in FaultKinds : faults'[j] \in Nat /\ faults'[j] >= faults[j]
        /\ faults'[k] > 0
    BY <1>3, FaultCounts, ContainerAssumption DEF LifeInv, TypeOK
  <2> QED
    BY <1>1, <2>1 DEF Unfailed, FaultKinds
<1>4. Unfailed
  BY <1>2, <1>3 DEF Unfailed
<1> QED
  BY <1>3, <1>4 DEF ContainerDown, FaultKinds

LEMMA OutInvStep == LifeInv /\ OutInv /\ [Next]_vars => OutInv'
<1> SUFFICES ASSUME LifeInv, OutInv, [Next]_vars, Unfailed' PROVE OutInv'
  BY DEF OutInv
<1>0. Unfailed /\ ~ContainerDown /\ ~Fault("error")
  BY UnfailedBefore
<1> USE <1>0 DEF LifeInv, StageInv, OutInv, WrittenFor
<1>1. CASE UNCHANGED <<cycle, todo, outputs, cfg>>
  BY <1>1
<1>2. CASE cycle # "export" /\ cycle' # "export" /\ UNCHANGED outputs
  BY <1>2
<1>3. CASE Ingest
  BY <1>3 DEF Ingest
<1>4. ASSUME NEW t \in OutputTargets, Export(t) PROVE OutInv'
  BY <1>4 DEF Export, Due, TypeOK, worker
<1>5. CASE EndCycle
  <2>1. WrittenFor(cfg) /\ cfg \in Settings
    BY <1>5 DEF EndCycle
  <2> QED
    BY <1>5, <2>1 DEF EndCycle
<1>6. CASE CycleFails
  BY <1>2, <1>6 DEF CycleFails
<1>7. CASE Edit \/ Signal \/ NewRelease \/ StartFails
  BY <1>1, <1>7 DEF Edit, Signal, NewRelease, StartFails, GoesOn, worker, cycling
<1>8. CASE ContainerUp \/ AssetsFail \/ Tick \/ Reload
  BY <1>2, <1>8 DEF ContainerUp, AssetsFail, FirstCycle, Tick, Reload, cycling, SyncFails
<1>9. CASE MainStep
  <2>1. CASE LoadSettings \/ NoAssets \/ AssetsSynced \/ Exit
    BY <1>2, <2>1 DEF LoadSettings, NoAssets, AssetsSynced, Exit, FirstCycle, cycling,
                      EndSync, Syncing, AssetInv, AssetTypeOK
  <2>2. CASE InitializeLayoutAndSchema \/ StartApi \/ StartSync \/ Sync \/ Schedule \/ Shutdown
    BY <1>1, <2>2 DEF InitializeLayoutAndSchema, StartApi, StartSync, Sync, Schedule,
                      Shutdown, GoesOn, worker, cycling
  <2> QED
    BY <1>9, <2>1, <2>2 DEF MainStep
<1> QED
  BY <1>0, <1>1, <1>3, <1>4, <1>5, <1>6, <1>7, <1>8, <1>9
  DEF Next, CycleStep, vars, cycling, worker

\* OutputsAgree: however settings.ini is edited, and whenever the worker is
\* told to stop, the outputs found between cycles are those of one settings.ini.
THEOREM OutputsAgree == Spec => []OutputsOfOneCycle
<1>1. Init => OutInv
  BY DEF Init, OutInv
<1>2. OutInv => OutputsOfOneCycle
  BY DEF OutInv, Unfailed, OutputsOfOneCycle
<1> QED
  BY LifeInvariant, <1>1, OutInvStep, <1>2, PTL DEF Spec
=============================================================================
