----------------------------- MODULE InSyncProofs -----------------------------
(***************************************************************************)
(* The safety half of Converges: a cycle that completes leaves everything  *)
(* in step, and from then on only users put it out of step.  What remains  *)
(* to be checked by TLC is that some cycle completes after the last edit.  *)
(***************************************************************************)
EXTENDS QuietCycleProofs

USE PackagesAssumption, WorkersAssumption, SettingsAssumption

-----------------------------------------------------------------------------
(* A cycle that completes.                                                 *)

LEMMA SavedInSync ==
  ASSUME PublishInv, CandidatesInv
  PROVE  SyncedWhenSaved
<1>. SUFFICES ASSUME SavingSettings, settings \in ValidSettings => settings = cfg
              PROVE  InSync
  BY DEF SyncedWhenSaved
<1>1. /\ \A x \in ScanPkgFiles : Settled(x)
      /\ \A r \in catalog : fs[Canonical[r.meta]] # NoPackage
      /\ writing = {}
      /\ \A f \in OutFiles : Enabled(f) => Fresh(f)
      /\ \A f \in OutFiles \ writing : ~Enabled(f) => outputs[f] = Absent
  BY DEF SavingSettings, PublishInv, ScannedInv, ExportInv, CandidatesInv, AfterScan, AfterPrune
<1>. QED BY <1>1 DEF InSync, Enabled, Fresh

\* SyncedWhenSaved, with one thread and users who touch packages between
\* cycles and put none back, whatever failed before in this cycle or others.
THEOREM SavedIsSynced ==
  ASSUME Sequential, QuietCycles, ~Restores
  PROVE  Spec => []SyncedWhenSaved
<1>. DEFINE Inv == TypeInv /\ PublishInv /\ TrackInv /\ SettledInv
<1>1. Init => Inv
  BY InitType, InitPublish, InitTrack, InitSettled
<1>2. Inv /\ [Next]_vars => Inv'
  BY NextType, NextPublish, NextTrack, NextSettled DEF Steady
<1>3. Inv => SyncedWhenSaved
  BY SavedInSync DEF SettledInv
<1>. QED BY <1>1, <1>2, <1>3, PTL DEF Spec

\* SyncedWhenSaved for a pool of any size, when its users also keep one
\* package of a path in the tree at a time and ingestions raise nothing.
THEOREM PoolSavedIsSynced ==
  ASSUME QuietCycles, ~Restores, NoExceptions
  PROVE  Spec /\ TidyUsers => []SyncedWhenSaved
<1>. DEFINE Inv == TypeInv /\ PublishInv /\ TrackInv /\ OnePerPlace /\ SettledInv
<1>1. Init => Inv
  BY InitType, InitPublish, InitTrack, InitTidy, InitSettled
<1>2. Inv /\ [Next]_vars /\ [UserStep => OnePerPlace']_vars => Inv'
  BY NextType, NextPublish, NextTrack, TidyStep, NextSettled DEF Steady
<1>3. Inv => SyncedWhenSaved
  BY SavedInSync DEF SettledInv
<1>. QED BY <1>1, <1>2, <1>3, PTL DEF Spec, TidyUsers

-----------------------------------------------------------------------------
(* The cycles after it.                                                    *)

\* The rows are of packages that can be read, one for each key.
RowsInv ==
  /\ \A r \in catalog : r.meta \in Packages \ Broken
  /\ \A r, s \in catalog : Key(r.meta) = Key(s.meta) => r = s

LEMMA InitRows == Init => RowsInv
BY DEF Init, IngestInit, RowsInv

LEMMA NextRows ==
  ASSUME TrackInv, RowsInv, [Next]_vars
  PROVE  RowsInv'
<1>1. ASSUME catalog' \subseteq catalog PROVE RowsInv'
  BY <1>1 DEF RowsInv
<1>2. ASSUME NEW w \in Workers, Upsert(w) PROVE RowsInv'
  <2>. DEFINE row == [meta |-> job[w].pkg, stat |-> job[w].stat]
  <2>1. row.meta \in Packages \ Broken
    BY <1>2 DEF Upsert, TrackInv, JobsTrack
  <2>2. catalog' = {r \in catalog : Key(r.meta) # Key(row.meta)} \union {row}
    BY <1>2 DEF Upsert, UpsertRow
  <2>. HIDE DEF row
  <2>. QED BY <2>1, <2>2 DEF RowsInv
<1>3. ASSUME NEW w \in Workers, Ingest(w) PROVE RowsInv'
  BY <1>1, <1>2, <1>3 DEF Ingest, IngestStep, Probe, ProbeFails, Claim, MoveToCanonical,
     MoveFails, StatAndFingerprint, StatFails, UpsertFails, Quarantine, QuarantineFails
<1>4. CASE Boot \/ Crash \/ User \/ UNCHANGED vars
  BY <1>1, <1>4 DEF Boot, Crash, User, EditSettings, vars
<1>5. CASE CycleStep
  BY <1>1, <1>3, <1>5 DEF CycleStep, Reload, Scan, Take, Raised, FinalScan, Prune, BeginTarget,
     WriteFile, RemoveFile, BeginCleanup, SaveSnapshot, SaveSettings, CycleFails, SaveFails
<1>. QED BY <1>3, <1>4, <1>5 DEF Next

\* What is in step is read off these variables.
LEMMA RestInSync ==
  ASSUME InSync, UNCHANGED <<storeVars, catalog, outputs, settings>>
  PROVE  InSync'
BY DEF InSync, storeVars, ScanPkgFiles, Settled, StatOf, Listing, RowsListed

\* The packages of a tree in step are at their places with their rows: a
\* thread that works on one moves and quarantines nothing, and its row is there.
LEMMA IngestInSync ==
  ASSUME TypeInv, TrackInv, ReasonsInv, RowsInv, InSync, NEW w \in Workers, IngestStep(w),
         UNCHANGED <<outputs, settings>>
  PROVE  InSync'
<1>. DEFINE x == job[w].path
            p == job[w].pkg
<1>0. job[w].at # "idle" => x \in Paths
  BY DEF TypeInv, JobsOK
<1>1. ASSUME x \in Paths, fs[x] # NoPackage
      PROVE  /\ Canonical[fs[x]] = x
             /\ [meta |-> fs[x], stat |-> StatOf(x)] \in catalog
             /\ fs[x] \in Packages \ Broken
  <2>1. Settled(x) BY <1>1 DEF InSync, ScanPkgFiles
  <2>. DEFINE row == [meta |-> fs[x], stat |-> StatOf(x)]
  <2>2. row \in catalog /\ row.meta = fs[x] BY <2>1 DEF Settled
  <2>3. fs[x] \in Packages \ Broken
    BY <2>2 DEF RowsInv
  <2>. QED BY <2>1, <2>3 DEF Settled
<1>2. ASSUME MoveToCanonical(w), fs[x] # NoPackage PROVE FALSE
  <2>1. x \in Paths /\ fs[x] = p /\ fs[Canonical[p]] = NoPackage
    BY <1>0, <1>2 DEF MoveToCanonical, TrackInv, JobsTrack
  <2>. QED BY <1>1, <1>2, <2>1
<1>3. ASSUME Quarantine(w), fs[x] # NoPackage PROVE FALSE
  <2>1. x \in Paths /\ job[w].at \in Reasons
    BY <1>0, <1>3 DEF Quarantine, Reasons
  <2>2. Canonical[fs[x]] = x /\ fs[x] \notin Broken
    BY <1>1, <1>3, <2>1
  <2>. QED BY <2>1, <2>2 DEF Reasons, ReasonsInv, TrackInv, JobsTrack
<1>4. ASSUME Upsert(w) PROVE UNCHANGED <<storeVars, catalog>>
  <2>. DEFINE row == [meta |-> p, stat |-> job[w].stat]
  <2>1. x \in Paths /\ fs[x] = p /\ p \in Packages /\ job[w].stat = StatOf(x)
    BY <1>0, <1>4 DEF Upsert, TrackInv, JobsTrack
  <2>2. row \in catalog
    BY <1>1, <2>1
  <2>3. /\ catalog' = {r \in catalog : Key(r.meta) # Key(row.meta)} \union {row}
        /\ UNCHANGED storeVars
    BY <1>4 DEF Upsert, UpsertRow
  <2>. HIDE DEF row
  <2>4. \A r \in catalog : Key(r.meta) = Key(row.meta) => r = row
    BY <2>2 DEF RowsInv
  <2>. QED BY <2>2, <2>3, <2>4
<1>5. UNCHANGED <<storeVars, catalog>>
  BY <1>2, <1>3, <1>4 DEF IngestStep, Probe, ProbeFails, Claim, MoveToCanonical, MoveFails,
     StatAndFingerprint, StatFails, UpsertFails, Quarantine, QuarantineFails
<1>. QED BY <1>5, RestInSync

LEMMA NextInSync ==
  ASSUME TypeInv, PublishInv, TrackInv, ReasonsInv, RowsInv, Next,
         InSync, ExportsCurrent, ~UserStep, settings' = settings
  PROVE  InSync'
<1>1. ASSUME UNCHANGED <<storeVars, catalog, outputs>> PROVE InSync'
  BY <1>1, RestInSync
<1>2. ASSUME NEW w \in Workers, Ingest(w) PROVE InSync'
  BY <1>2, IngestInSync DEF Ingest, ini
<1>3. CASE Prune
  <2>1. final = BuildSnapshot
    BY <1>3 DEF Prune, PublishInv, ScannedInv, AfterScan
  <2>2. ASSUME NEW r \in catalog PROVE Canonical[r.meta] \in PathsOf(final)
    <3>1. Canonical[r.meta] \in ScanPkgFiles
      BY DEF InSync, ScanPkgFiles, TypeInv, TypeOK, IngestTypeOK, Rows
    <3>2. PICK x \in ScanPkgFiles : x = Canonical[r.meta] BY <3>1
    <3>. DEFINE e == [path |-> x, stat |-> StatOf(x)]
    <3>3. e \in BuildSnapshot /\ e.path = x BY DEF BuildSnapshot
    <3>. QED BY <2>1, <3>2, <3>3 DEF PathsOf
  <2>3. UNCHANGED <<storeVars, catalog, outputs>>
    BY <1>3, <2>2 DEF Prune
  <2>. QED BY <1>1, <2>3
<1>4. ASSUME NEW f \in OutFiles, WriteFile(f) PROVE InSync'
  <2>1. /\ UNCHANGED <<storeVars, catalog>>
        /\ outputs'[f] = [rows |-> Listing(f), base |-> cfg]
        /\ \A g \in OutFiles \ {f} : outputs'[g] = outputs[g]
    BY <1>4 DEF WriteFile, TypeInv, TypeOK, CycleTypeOK
  <2>2. settings \in ValidSettings => cfg = settings /\ TargetOf[f] \in TargetsOf[settings]
    BY <1>4 DEF WriteFile, ExportsCurrent, PublishInv, ExportInv, FilesOf
  <2>3. \A g \in OutFiles : Listing(g)' = Listing(g)
    BY <2>1 DEF Listing, RowsListed
  <2>4. ASSUME settings \in ValidSettings, NEW g \in OutFiles
        PROVE  outputs'[g] = IF TargetOf[g] \in TargetsOf[settings]
                               THEN [rows |-> Listing(g), base |-> settings]
                               ELSE Absent
    BY <2>1, <2>2, <2>4 DEF InSync
  <2>. QED BY <2>1, <2>3, <2>4 DEF InSync, storeVars, ScanPkgFiles, Settled, StatOf
<1>5. ASSUME NEW f \in OutFiles, RemoveFile(f) PROVE InSync'
  <2>1. /\ UNCHANGED <<storeVars, catalog>>
        /\ outputs'[f] = Absent
        /\ \A g \in OutFiles \ {f} : outputs'[g] = outputs[g]
    BY <1>5 DEF RemoveFile, TypeInv, TypeOK, CycleTypeOK
  <2>2. settings \in ValidSettings => TargetOf[f] \notin TargetsOf[settings]
    BY <1>5 DEF RemoveFile, ExportsCurrent, PublishInv, ExportInv, FilesOf
  <2>3. \A g \in OutFiles : Listing(g)' = Listing(g)
    BY <2>1 DEF Listing, RowsListed
  <2>4. ASSUME settings \in ValidSettings, NEW g \in OutFiles
        PROVE  outputs'[g] = IF TargetOf[g] \in TargetsOf[settings]
                               THEN [rows |-> Listing(g), base |-> settings]
                               ELSE Absent
    BY <2>1, <2>2, <2>4 DEF InSync
  <2>. QED BY <2>1, <2>3, <2>4 DEF InSync, storeVars, ScanPkgFiles, Settled, StatOf
<1>6. CASE Boot \/ Crash
  BY <1>1, <1>6 DEF Boot, Crash
<1>7. CASE User
  BY <1>7 DEF User, EditSettings, TypeInv, TypeOK, CycleTypeOK
<1>8. CASE CycleStep
  BY <1>1, <1>2, <1>3, <1>4, <1>5, <1>8 DEF CycleStep, Reload, Scan, Take, Raised, FinalScan,
     BeginTarget, BeginCleanup, SaveSnapshot, SaveSettings, CycleFails, SaveFails
<1>. QED BY <1>6, <1>7, <1>8 DEF Next

\* StaysInSync, with one thread and users who hand over whole files between
\* cycles: re-ingesting everything after a lost snapshot or an edit of
\* settings.ini moves, quarantines and drops nothing that is in step.
THEOREM SyncIsKept ==
  ASSUME Sequential, QuietCycles, SoundFiles
  PROVE  Spec => StaysInSync
<1>. DEFINE Inv == TypeInv /\ PublishInv /\ TrackInv /\ ReasonsInv /\ RowsInv
            Kept == InSync /\ ExportsCurrent
                      => UserStep \/ settings' # settings \/ InSync'
<1>1. Init => Inv
  BY InitType, InitPublish, InitTrack, InitReasons, InitRows
<1>2. Inv /\ [Next]_vars => Inv'
  BY NextType, NextPublish, NextTrack, NextReasons, NextRows
<1>3. Inv /\ [Next]_vars => [Kept]_vars
  BY NextInSync
<1>. QED BY <1>1, <1>2, <1>3, PTL DEF Spec, StaysInSync

\* StaysInSync for a pool of any size and the careful users of
\* PoolQuarantinesJustly.
THEOREM PoolSyncIsKept ==
  ASSUME QuietCycles, SoundFiles
  PROVE  Spec /\ CarefulUsers => StaysInSync
<1>. DEFINE Inv == /\ TypeInv /\ PublishInv /\ TrackInv /\ ReasonsInv /\ RowsInv
                   /\ OnePerPlace /\ NoneInTheWay
            Kept == InSync /\ ExportsCurrent
                      => UserStep \/ settings' # settings \/ InSync'
<1>1. Init => Inv
  BY InitType, InitPublish, InitTrack, InitReasons, InitRows, InitTidy, InitCareful
<1>2. Inv /\ [Next]_vars /\ [UserStep => OnePerPlace' /\ NoneInTheWay']_vars => Inv'
  BY NextType, NextPublish, NextTrack, NextReasons, NextRows, CarefulStep
<1>3. Inv /\ [Next]_vars => [Kept]_vars
  BY NextInSync
<1>. QED BY <1>1, <1>2, <1>3, PTL DEF Spec, CarefulUsers, StaysInSync
=============================================================================
