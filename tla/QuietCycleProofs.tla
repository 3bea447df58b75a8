--------------------------- MODULE QuietCycleProofs ---------------------------
(***************************************************************************)
(* Theorems about ReconcileCatalog when users touch packages between       *)
(* cycles only: what a cycle has scanned is then what the tree holds until *)
(* the cycle ends.  settings.ini may be edited at any time.                *)
(***************************************************************************)
EXTENDS ReconcileCatalogProofs

USE PackagesAssumption, WorkersAssumption, SettingsAssumption

-----------------------------------------------------------------------------
(* Pruning and exporting.  Any number of threads.                          *)

AfterScan == pc \in {"prune", "export", "cleanup", "settings"}
AfterPrune == pc \in {"export", "cleanup", "settings"}

\* f is an enabled file and shows the catalog.
Fresh(f) == outputs[f] = [rows |-> Listing(f), base |-> cfg]

\* The tree is as scanned, the catalog as pruned.
ScannedInv ==
  /\ AfterScan => final = BuildSnapshot
  /\ AfterPrune => \A r \in catalog : fs[Canonical[r.meta]] # NoPackage

\* While exporting, what is not waiting is written; while cleaning up, what is
\* not waiting is gone.
ExportInv ==
  /\ pc = "export" =>
       /\ exporting \subseteq TargetsOf[cfg]
       /\ writing \subseteq FilesOf(TargetsOf[cfg])
       /\ \A f \in FilesOf(TargetsOf[cfg] \ exporting) \ writing : Fresh(f)
  /\ pc \in {"cleanup", "settings"} =>
       /\ writing \subseteq OutFiles \ FilesOf(TargetsOf[cfg])
       /\ \A f \in OutFiles : Enabled(f) => Fresh(f)
       /\ \A f \in OutFiles \ writing : ~Enabled(f) => outputs[f] = Absent
  /\ pc \notin {"export", "cleanup"} => writing = {}

PublishInv == ScannedInv /\ ExportInv

LEMMA InitPublish == Init => PublishInv
BY DEF Init, PublishInv, ScannedInv, ExportInv, AfterScan, AfterPrune

LEMMA NextPublish ==
  ASSUME QuietCycles, TypeInv, PublishInv, [Next]_vars
  PROVE  PublishInv'
<1>. USE DEF PublishInv, ScannedInv, ExportInv, AfterScan, AfterPrune
<1>1. ASSUME pc' \in {"idle", "scan", "ingest"},
             \/ writing' = {}
             \/ pc \notin {"export", "cleanup"} /\ UNCHANGED writing
      PROVE  PublishInv'
  BY <1>1
<1>2. CASE Boot
  BY <1>1, <1>2 DEF Boot, cycle, TypeInv, TypeOK, CycleTypeOK, ProcessOK
<1>3. CASE Crash
  BY <1>1, <1>3 DEF Crash, CycleOver
<1>4. CASE User
  <2>1. CASE pc = "idle"
    BY <1>1, <1>4, <2>1 DEF User, EditSettings, cycle
  <2>2. CASE EditSettings
    BY <2>2 DEF EditSettings, storeVars, process, cycle, BuildSnapshot, ScanPkgFiles, StatOf,
       FilesOf, Fresh, Enabled, Listing, RowsListed
  <2>. QED BY <1>4, <2>1, <2>2 DEF User
<1>5. CASE CycleStep
  <2>1. ASSUME Abort PROVE PublishInv'
    BY <1>1, <2>1 DEF Abort, CycleOver
  <2>2. ASSUME pc = "ingest", UNCHANGED <<pc, writing>> PROVE PublishInv'
    BY <1>1, <2>2
  <2>3. ASSUME NEW w \in Workers, pc # "ingest" PROVE job[w] = IdleJob
    BY <2>3 DEF TypeInv, ProcessOK
  <2>4. CASE Reload \/ Scan \/ SaveSettings
    BY <1>1, <2>4 DEF Reload, Scan, SaveSettings, CycleOver
  <2>5. ASSUME NEW w \in Workers, Take(w) PROVE PublishInv'
    BY <2>2, <2>5 DEF Take
  <2>6. ASSUME NEW w \in Workers, Ingest(w) PROVE PublishInv'
    <3>1. pc = "ingest"
      BY <2>3, <2>6 DEF Ingest, IngestStep, Probe, ProbeFails, Claim, MoveToCanonical, MoveFails,
         StatAndFingerprint, StatFails, Upsert, UpsertFails, Quarantine, QuarantineFails,
         Reasons, IdleJob
    <3>. QED BY <2>2, <2>6, <3>1 DEF Ingest, cycle
  <2>7. ASSUME NEW w \in Workers, Raised(w) PROVE PublishInv'
    <3>1. pc = "ingest" BY <2>3, <2>7 DEF Raised, IdleJob
    <3>. QED BY <2>1, <2>2, <2>7, <3>1 DEF Raised, cycle
  <2>8. CASE FinalScan
    BY <2>8 DEF FinalScan, BuildSnapshot, ScanPkgFiles, StatOf, storeVars
  <2>9. CASE Prune
    <3>1. \A r \in catalog' : fs'[Canonical[r.meta]] # NoPackage
      BY <2>9 DEF Prune, PathsOf, BuildSnapshot, ScanPkgFiles, storeVars
    <3>2. ScannedInv'
      BY <2>9, <3>1 DEF Prune, BuildSnapshot, ScanPkgFiles, StatOf, storeVars
    <3>3. ExportInv'
      BY <2>9 DEF Prune, FilesOf, process
    <3>. QED BY <3>2, <3>3
  <2>10. ASSUME pc \in {"export", "cleanup"}, pc' \in {"export", "cleanup", "settings"},
                UNCHANGED <<storeVars, catalog, process, final>>
         PROVE  ScannedInv' /\ (\A f \in OutFiles : outputs'[f] = outputs[f] => Fresh(f)' = Fresh(f))
    BY <2>10 DEF storeVars, process, BuildSnapshot, ScanPkgFiles, StatOf, Fresh, Listing, RowsListed
  <2>11. ASSUME NEW t \in Targets, BeginTarget(t) PROVE PublishInv'
    <3>1. CASE Unlistable(t)
      BY <2>1, <2>11, <3>1 DEF BeginTarget
    <3>2. CASE ~Unlistable(t)
      <4>1. /\ pc = "export" /\ writing = {} /\ t \in exporting
            /\ exporting' = exporting \ {t}
            /\ writing' = FilesOf({t})
            /\ UNCHANGED <<pc, process, final, storeVars, catalog, outputs>>
        BY <2>11, <3>2 DEF BeginTarget
      <4>2. ScannedInv' /\ \A f \in OutFiles : Fresh(f)' = Fresh(f)
        BY <2>10, <4>1
      <4>3. ExportInv'
        BY <4>1, <4>2 DEF FilesOf, process
      <4>. QED BY <4>2, <4>3
    <3>. QED BY <3>1, <3>2
  <2>12. ASSUME NEW f \in OutFiles, WriteFile(f) PROVE PublishInv'
    <3>1. Fresh(f)'
      BY <2>12 DEF WriteFile, process, Fresh, Listing, RowsListed, TypeInv, TypeOK, CycleTypeOK
    <3>2. \A g \in OutFiles \ {f} : outputs'[g] = outputs[g]
      BY <2>12 DEF WriteFile, TypeInv, TypeOK, CycleTypeOK
    <3>. QED BY <2>10, <2>12, <3>1, <3>2 DEF WriteFile, FilesOf, process
  <2>13. CASE BeginCleanup
    <3>1. ScannedInv' /\ \A f \in OutFiles : Fresh(f)' = Fresh(f)
      BY <2>10, <2>13 DEF BeginCleanup
    <3>. QED BY <2>13, <3>1 DEF BeginCleanup, FilesOf, process, Enabled
  <2>14. ASSUME NEW f \in OutFiles, RemoveFile(f) PROVE PublishInv'
    <3>1. outputs'[f] = Absent /\ f \notin FilesOf(TargetsOf[cfg])
      BY <2>14 DEF RemoveFile, TypeInv, TypeOK, CycleTypeOK
    <3>2. \A g \in OutFiles \ {f} : outputs'[g] = outputs[g]
      BY <2>14 DEF RemoveFile, TypeInv, TypeOK, CycleTypeOK
    <3>. QED BY <2>10, <2>14, <3>1, <3>2 DEF RemoveFile, FilesOf, process, Enabled
  <2>15. CASE SaveSnapshot
    <3>1. ScannedInv' /\ \A f \in OutFiles : Fresh(f)' = Fresh(f)
      BY <2>10, <2>15 DEF SaveSnapshot, SavingSnapshot
    <3>. QED BY <2>15, <3>1 DEF SaveSnapshot, SavingSnapshot, process, Enabled
  <2>16. CASE CycleFails \/ SaveFails
    BY <2>1, <2>16 DEF CycleFails, SaveFails
  <2>. QED
    BY <1>5, <2>4, <2>5, <2>6, <2>7, <2>8, <2>9, <2>11, <2>12, <2>13, <2>14, <2>15, <2>16
    DEF CycleStep
<1>6. CASE UNCHANGED vars
  BY <1>6 DEF vars, storeVars, process, cycle, BuildSnapshot, ScanPkgFiles, StatOf,
     FilesOf, Fresh, Enabled, Listing, RowsListed
<1>. QED BY <1>2, <1>3, <1>4, <1>5, <1>6 DEF Next

\* OutputsMirror, however many threads ingest: an export that is interrupted
\* by a failure or a crash is never followed by a save of the snapshot.
THEOREM OutputsFollow ==
  ASSUME QuietCycles
  PROVE  Spec => []OutputsMirror
<1>1. Init => TypeInv /\ PublishInv BY InitType, InitPublish
<1>2. TypeInv /\ PublishInv /\ [Next]_vars => TypeInv' /\ PublishInv'
  BY NextType, NextPublish
<1>3. PublishInv => OutputsMirror
  <2>. SUFFICES ASSUME PublishInv, SavingSnapshot \/ SavingSettings, NEW f \in OutFiles
                PROVE  IF Enabled(f)
                         THEN /\ Fresh(f)
                              /\ \A r \in outputs[f].rows : fs[Canonical[r.meta]] # NoPackage
                         ELSE outputs[f] = Absent
    BY DEF OutputsMirror, Fresh
  <2>1. /\ writing = {}
        /\ Enabled(f) => Fresh(f)
        /\ ~Enabled(f) => outputs[f] = Absent
        /\ \A r \in catalog : fs[Canonical[r.meta]] # NoPackage
    BY DEF PublishInv, ScannedInv, ExportInv, AfterPrune, SavingSnapshot, SavingSettings
  <2>2. Listing(f) \subseteq catalog BY DEF Listing, RowsListed
  <2>3. Fresh(f) => outputs[f].rows = Listing(f) BY DEF Fresh
  <2>. QED BY <2>1, <2>2, <2>3
<1>. QED BY <1>1, <1>2, <1>3, PTL DEF Spec

\* RowsOnlyDropWithFile, however many threads ingest.
THEOREM RowsFollowFiles ==
  ASSUME QuietCycles
  PROVE  Spec => RowsOnlyDropWithFile
<1>. DEFINE Kept == \A r \in catalog :
                      (\A s \in catalog' : Key(s.meta) # Key(r.meta))
                        => fs[Canonical[r.meta]] = NoPackage
<1>1. Init => TypeInv /\ PublishInv BY InitType, InitPublish
<1>2. TypeInv /\ PublishInv /\ [Next]_vars => TypeInv' /\ PublishInv'
  BY NextType, NextPublish
<1>3. TypeInv /\ PublishInv /\ [Next]_vars => [Kept]_vars
  <2>. SUFFICES ASSUME TypeInv, PublishInv, Next PROVE Kept
    BY DEF vars
  <2>1. ASSUME catalog \subseteq catalog' PROVE Kept
    BY <2>1
  <2>2. ASSUME NEW w \in Workers, Ingest(w) PROVE Kept
    <3>1. CASE Upsert(w)
      BY <3>1 DEF Upsert, UpsertRow
    <3>2. CASE ~Upsert(w)
      BY <2>1, <2>2, <3>2 DEF Ingest, IngestStep, Probe, ProbeFails, Claim, MoveToCanonical,
         MoveFails, StatAndFingerprint, StatFails, UpsertFails, Quarantine, QuarantineFails
    <3>. QED BY <3>1, <3>2
  <2>3. CASE Prune
    <3>1. ASSUME NEW r \in catalog, fs[Canonical[r.meta]] # NoPackage
          PROVE  r \in catalog'
      <4>1. Canonical[r.meta] \in Paths
        BY DEF TypeInv, TypeOK, IngestTypeOK, Rows
      <4>. DEFINE e == [path |-> Canonical[r.meta], stat |-> StatOf(Canonical[r.meta])]
      <4>2. e \in BuildSnapshot /\ e.path = Canonical[r.meta]
        BY <3>1, <4>1 DEF BuildSnapshot, ScanPkgFiles
      <4>3. final = BuildSnapshot
        BY <2>3 DEF Prune, PublishInv, ScannedInv, AfterScan
      <4>. QED BY <2>3, <4>2, <4>3 DEF Prune, PathsOf
    <3>. QED BY <3>1
  <2>4. CASE Boot \/ Crash \/ User
    BY <2>1, <2>4 DEF Boot, Crash, User, EditSettings
  <2>5. CASE CycleStep
    BY <2>1, <2>2, <2>3, <2>5 DEF CycleStep, Reload, Scan, Take, Raised, FinalScan, BeginTarget,
       WriteFile, RemoveFile, BeginCleanup, SaveSnapshot, SaveSettings, CycleFails, SaveFails
  <2>. QED BY <2>4, <2>5 DEF Next
<1>. QED BY <1>1, <1>2, <1>3, PTL DEF Spec, RowsOnlyDropWithFile

-----------------------------------------------------------------------------
(* The threads and their files.                                            *)

\* A package is at one path, and one not handed over at none.
PackagesApart ==
  /\ \A x, y \in Paths : fs[x] = fs[y] /\ fs[x] # NoPackage => x = y
  /\ \A x \in Paths : fs[x] \notin unseen
  /\ \A p \in uploading : p \notin unseen

Busy(w) == job[w].at # "idle"

\* No two threads have one file, and a file is there as long as it is a
\* candidate or some thread has it.
JobsApart ==
  /\ pc # "ingest" => todo = {}
  /\ \A x \in todo : fs[x] # NoPackage
  /\ \A w \in Workers :
       Busy(w) => job[w].path \notin todo /\ fs[job[w].path] # NoPackage
  /\ \A v, w \in Workers :
       Busy(v) /\ Busy(w) /\ job[v].path = job[w].path => v = w

\* A thread's file stays what its probe saw, and the place it goes to free.
JobsTrack ==
  \A w \in Workers :
    /\ job[w].at \in {"claim", "move", "organizer_failed", "stat", "upsert"}
         => job[w].pkg \in Packages \ Broken /\ fs[job[w].path] = job[w].pkg
    /\ job[w].at = "move" => fs[Canonical[job[w].pkg]] = NoPackage
    /\ job[w].at \in {"stat", "upsert"} => job[w].path = Canonical[job[w].pkg]
    /\ job[w].at = "upsert" => job[w].stat = StatOf(job[w].path)

TrackInv == PackagesApart /\ JobsApart /\ JobsTrack

\* A pool needs users who keep one package of a path in the tree at a time.
Readable(x) == fs[x] \in Packages \ Broken

OnePerPlace ==
  \A x, y \in Paths :
    Readable(x) /\ Readable(y) /\ Canonical[fs[x]] = Canonical[fs[y]] => x = y

TidyUsers == [][UserStep => OnePerPlace']_vars

LEMMA InitTidy == Init => OnePerPlace
BY DEF Init, StoreInit, OnePerPlace, Readable

LEMMA InitTrack == Init => TrackInv
BY DEF Init, StoreInit, IngestInit, TrackInv, PackagesApart, JobsApart, JobsTrack, Busy, IdleJob

\* A step of a thread, seen by the others: their jobs and their files stay.
LEMMA OthersKept ==
  ASSUME TypeInv, TrackInv, NEW w \in Workers, IngestStep(w)
  PROVE  /\ Busy(w) /\ job[w].path \in Paths /\ pc = "ingest"
         /\ UNCHANGED <<uploading, unseen>>
         /\ \A v \in Workers \ {w} :
              /\ job'[v] = job[v]
              /\ Busy(v) => fs'[job[v].path] = fs[job[v].path]
<1>0. /\ job \in [Workers -> Jobs] /\ fs \in [Paths -> Packages \union {NoPackage}]
  BY DEF TypeInv, TypeOK, StoreTypeOK, IngestTypeOK
<1>. USE DEF IngestStep, Probe, ProbeFails, Claim, MoveToCanonical, MoveFails,
         StatAndFingerprint, StatFails, Upsert, UpsertFails, Quarantine, QuarantineFails
<1>1. Busy(w) BY DEF Busy, Reasons
<1>2. job[w].path \in Paths /\ pc = "ingest"
  BY <1>1 DEF Busy, TypeInv, JobsOK, ProcessOK, IdleJob
<1>3. \A v \in Workers \ {w} : job'[v] = job[v]
  BY <1>0 DEF Goto
<1>4. UNCHANGED <<uploading, unseen>>
  BY DEF storeVars, Rename, MoveToErrors
<1>5. ASSUME NEW v \in Workers \ {w}, Busy(v)
      PROVE  fs'[job[v].path] = fs[job[v].path]
  <2>1. /\ job[v].path \in Paths /\ job[v].path # job[w].path
        /\ fs[job[v].path] # NoPackage
    BY <1>1, <1>5 DEF Busy, TypeInv, JobsOK, TrackInv, JobsApart
  <2>2. CASE UNCHANGED storeVars
    BY <2>2 DEF storeVars
  <2>3. CASE MoveToCanonical(w)
    <3>1. fs[Canonical[job[w].pkg]] = NoPackage
      BY <2>3 DEF TrackInv, JobsTrack
    <3>. QED BY <1>0, <2>1, <2>3, <3>1 DEF Rename
  <2>4. CASE Quarantine(w)
    BY <1>0, <2>1, <2>4 DEF MoveToErrors
  <2>. QED BY <2>2, <2>3, <2>4
<1>. QED BY <1>1, <1>2, <1>3, <1>4, <1>5

\* The steps of the worker that touch neither the tree nor the errors.
LEMMA TreeKept ==
  ASSUME Boot \/ Crash \/ EditSettings \/ CycleStep \/ UNCHANGED vars,
         \A w \in Workers : ~Ingest(w)
  PROVE  UNCHANGED storeVars
BY DEF Boot, Crash, EditSettings, CycleStep, Reload, Scan, Take, Raised, FinalScan, Prune,
   BeginTarget, WriteFile, RemoveFile, BeginCleanup, SaveSnapshot, SaveSettings, CycleFails,
   SaveFails, vars

\* Packages stay apart whoever acts, and when.
LEMMA NextApart ==
  ASSUME TypeInv, PackagesApart, [Next]_vars
  PROVE  PackagesApart'
<1>0. StoreTypeOK BY DEF TypeInv, TypeOK
<1>1. CASE UNCHANGED storeVars
  BY <1>1 DEF storeVars, PackagesApart
<1>2. CASE UserStep
  BY <1>0, <1>2 DEF UserStep, Deliver, FinishCopy, Discard, PutAside, PackagesApart, StoreTypeOK
<1>3. ASSUME NEW w \in Workers, Ingest(w) PROVE PackagesApart'
  <2>. DEFINE x == job[w].path
  <2>1. CASE MoveToCanonical(w)
    <3>1. x \in Paths /\ Canonical[job[w].pkg] \in Paths
      BY <2>1 DEF MoveToCanonical, TypeInv, JobsOK
    <3>. QED BY <1>0, <2>1, <3>1 DEF MoveToCanonical, Rename, PackagesApart, StoreTypeOK
  <2>2. CASE Quarantine(w)
    BY <1>0, <2>2 DEF Quarantine, MoveToErrors, PackagesApart, StoreTypeOK
  <2>3. CASE ~MoveToCanonical(w) /\ ~Quarantine(w)
    BY <1>1, <1>3, <2>3 DEF Ingest, IngestStep, Probe, ProbeFails, Claim, MoveFails,
       StatAndFingerprint, StatFails, Upsert, UpsertFails, QuarantineFails
  <2>. QED BY <2>1, <2>2, <2>3
<1>. QED BY <1>1, <1>2, <1>3, TreeKept DEF Next, User

\* A thread keeps to its file, and moves it to a place nobody else goes to.
LEMMA IngestTracks ==
  ASSUME Sequential \/ OnePerPlace, TypeInv, TrackInv, NEW w \in Workers, IngestStep(w),
         UNCHANGED <<pc, todo>>
  PROVE  JobsApart' /\ JobsTrack'
<1>. DEFINE x == job[w].path
            p == job[w].pkg
            t == Canonical[p]
<1>0. /\ job \in [Workers -> Jobs] /\ fs \in [Paths -> Packages \union {NoPackage}]
      /\ Busy(w) /\ x \in Paths /\ pc = "ingest" /\ todo \subseteq Paths
      /\ UNCHANGED uploading
      /\ \A v \in Workers \ {w} :
           /\ job'[v] = job[v]
           /\ Busy(v) => fs'[job[v].path] = fs[job[v].path]
      /\ PackagesApart /\ JobsApart /\ JobsTrack
  BY OthersKept DEF TypeInv, TypeOK, StoreTypeOK, IngestTypeOK, CycleTypeOK, TrackInv
<1>1. ASSUME NEW v \in Workers \ {w}, Busy(v)
      PROVE  /\ job[v].path \in Paths \ {x} /\ job[v].path \notin todo
             /\ fs'[job[v].path] = fs[job[v].path] /\ fs[job[v].path] # NoPackage
             /\ job'[v] = job[v] /\ StatOf(job[v].path)' = StatOf(job[v].path)
  <2>1. job[v].path \in Paths BY <1>1 DEF Busy, TypeInv, JobsOK
  <2>. QED BY <1>0, <1>1, <2>1 DEF JobsApart, StatOf
\* The thread has the same file, or another that nobody has, or none.
<1>2. ASSUME \A y \in todo : fs'[y] # NoPackage,
             Busy(w)' => /\ fs'[job'[w].path] # NoPackage
                         /\ job'[w].path # x => fs[job'[w].path] = NoPackage
      PROVE  JobsApart'
  <2>1. ASSUME NEW v \in Workers, NEW u \in Workers, Busy(v)', Busy(u)',
               job'[v].path = job'[u].path
        PROVE  v = u
    BY <1>0, <1>1, <1>2, <2>1 DEF JobsApart, Busy
  <2>2. ASSUME NEW v \in Workers, Busy(v)'
        PROVE  job'[v].path \notin todo /\ fs'[job'[v].path] # NoPackage
    BY <1>0, <1>1, <1>2, <2>2 DEF JobsApart, Busy
  <2>. QED BY <1>0, <1>2, <2>1, <2>2 DEF JobsApart
\* The others go on as before, when their places stay free.
<1>3. ASSUME \A v \in Workers \ {w} :
               job[v].at = "move" => fs'[Canonical[job[v].pkg]] = NoPackage,
             /\ job'[w].at \in {"claim", "move", "organizer_failed", "stat", "upsert"}
                  => job'[w].pkg \in Packages \ Broken /\ fs'[job'[w].path] = job'[w].pkg
             /\ job'[w].at = "move" => fs'[Canonical[job'[w].pkg]] = NoPackage
             /\ job'[w].at \in {"stat", "upsert"} => job'[w].path = Canonical[job'[w].pkg]
             /\ job'[w].at = "upsert" => job'[w].stat = StatOf(job[w].path)' /\ job'[w].path = x
      PROVE  JobsTrack'
  <2>1. ASSUME NEW v \in Workers \ {w}
        PROVE  /\ job'[v] = job[v]
               /\ job[v].at # "idle" =>
                    /\ fs'[job[v].path] = fs[job[v].path]
                    /\ StatOf(job[v].path)' = StatOf(job[v].path)
    BY <1>0, <1>1 DEF Busy
  <2>. QED BY <1>0, <1>3, <2>1 DEF JobsTrack
<1>4. CASE UNCHANGED storeVars
  <2>1. JobsApart'
    <3>1. Busy(w)' => job'[w].path = x
      <4>1. CASE MoveToCanonical(w)
        BY <1>0, <1>4, <4>1 DEF MoveToCanonical, Rename, storeVars, JobsApart, JobsTrack
      <4>2. CASE ~MoveToCanonical(w)
        BY <1>0, <4>2 DEF IngestStep, Probe, ProbeFails, Claim, MoveFails, StatAndFingerprint,
           StatFails, Upsert, UpsertFails, Quarantine, QuarantineFails, Goto, Jobs, IdleJob, Busy
      <4>. QED BY <4>1, <4>2
    <3>2. fs' = fs BY <1>4 DEF storeVars
    <3>3. fs[x] # NoPackage /\ \A y \in todo : fs[y] # NoPackage
      BY <1>0 DEF JobsApart
    <3>. QED BY <1>2, <3>1, <3>2, <3>3
  <2>2. \A v \in Workers \ {w} :
          job[v].at = "move" => fs'[Canonical[job[v].pkg]] = NoPackage
    BY <1>0, <1>4 DEF storeVars, JobsTrack
  <2>3. /\ job'[w].at \in {"claim", "move", "organizer_failed", "stat", "upsert"}
             => job'[w].pkg \in Packages \ Broken /\ fs[job'[w].path] = job'[w].pkg
        /\ job'[w].at = "move" => fs[Canonical[job'[w].pkg]] = NoPackage
        /\ job'[w].at \in {"stat", "upsert"} => job'[w].path = Canonical[job'[w].pkg]
        /\ job'[w].at = "upsert" => job'[w].stat = StatOf(x) /\ job'[w].path = x
    <3>1. CASE Probe(w) \/ ProbeFails(w)
      BY <1>0, <3>1 DEF Probe, ProbeFails, Goto, Jobs
    <3>2. CASE Claim(w)
      BY <1>0, <3>2 DEF Claim, Goto, Jobs, JobsTrack
    <3>3. CASE MoveToCanonical(w)
      BY <1>0, <1>4, <3>3 DEF MoveToCanonical, JobsApart, Busy, Rename, storeVars, JobsTrack
    <3>4. CASE StatAndFingerprint(w) \/ StatFails(w)
      BY <1>0, <3>4 DEF StatAndFingerprint, StatFails, Goto, Jobs, JobsTrack
    <3>5. CASE Upsert(w) \/ UpsertFails(w) \/ Quarantine(w) \/ QuarantineFails(w)
      BY <1>0, <3>5 DEF Upsert, UpsertFails, Quarantine, QuarantineFails, Goto, Jobs, IdleJob
    <3>6. CASE MoveFails(w)
      BY <1>0, <3>6 DEF MoveFails, Goto, Jobs, JobsTrack
    <3>. QED BY <3>1, <3>2, <3>3, <3>4, <3>5, <3>6 DEF IngestStep
  <2>4. fs' = fs /\ (job'[w].path = x => StatOf(x)' = StatOf(x))
    BY <1>4 DEF storeVars, StatOf
  <2>5. JobsTrack' BY <1>3, <2>2, <2>3, <2>4
  <2>. QED BY <2>1, <2>5
<1>5. CASE MoveToCanonical(w)
  <2>0. job[w].at = "move" /\ Rename(x, t)
    BY <1>5 DEF MoveToCanonical
  <2>1. /\ p \in Packages \ Broken /\ fs[x] = p /\ fs[t] = NoPackage /\ t \in Paths /\ x # t
        /\ job' = [job EXCEPT ![w].at = "stat", ![w].path = t]
        /\ fs' = [fs EXCEPT ![t] = p, ![x] = NoPackage]
    <3>1. p \in Packages \ Broken /\ fs[x] = p /\ fs[t] = NoPackage
      BY <1>0, <2>0 DEF JobsTrack
    <3>. QED BY <1>0, <1>5, <2>0, <3>1 DEF MoveToCanonical, Rename, JobsApart
  <2>2. /\ fs'[t] = p /\ \A y \in Paths \ {x, t} : fs'[y] = fs[y]
        /\ job'[w].at = "stat" /\ job'[w].path = t /\ job'[w].pkg = p
    BY <1>0, <2>1 DEF Jobs
  <2>3. JobsApart'
    <3>1. \A y \in todo : fs'[y] # NoPackage
      BY <1>0, <2>1, <2>2 DEF JobsApart
    <3>2. fs'[job'[w].path] # NoPackage /\ fs[job'[w].path] = NoPackage
      BY <2>1, <2>2
    <3>. QED BY <1>2, <3>1, <3>2
  <2>4. ASSUME NEW v \in Workers \ {w}, job[v].at = "move"
        PROVE  fs'[Canonical[job[v].pkg]] = NoPackage
    <3>1. /\ job[v].pkg \in Packages \ Broken /\ fs[job[v].path] = job[v].pkg
          /\ fs[Canonical[job[v].pkg]] = NoPackage /\ job[v].path \in Paths
          /\ job[v].path # x
      BY <1>0, <2>4 DEF JobsTrack, JobsApart, Busy, TypeInv, JobsOK
    <3>2. Canonical[job[v].pkg] # t
      BY <1>0, <2>1, <3>1 DEF Sequential, OnePerPlace, Readable
    <3>. QED BY <1>0, <2>1, <2>2, <3>1, <3>2
  <2>5. JobsTrack'
    BY <1>3, <2>1, <2>2, <2>4
  <2>. QED BY <2>3, <2>5
<1>6. CASE Quarantine(w)
  <2>1. /\ job' = [job EXCEPT ![w] = IdleJob]
        /\ fs' = [fs EXCEPT ![x] = NoPackage]
    BY <1>0, <1>6 DEF Quarantine, MoveToErrors, JobsApart, Busy
  <2>2. /\ job'[w] = IdleJob /\ \A y \in Paths \ {x} : fs'[y] = fs[y] /\ fs'[x] = NoPackage
    BY <1>0, <2>1
  <2>3. JobsApart'
    BY <1>0, <1>2, <2>1, <2>2 DEF JobsApart, Busy, IdleJob
  <2>4. JobsTrack'
    <3>1. ASSUME NEW v \in Workers \ {w}, job[v].at = "move"
          PROVE  fs'[Canonical[job[v].pkg]] = NoPackage
      BY <1>0, <2>1, <3>1 DEF JobsTrack
    <3>. QED BY <1>3, <2>2, <3>1 DEF IdleJob
  <2>. QED BY <2>3, <2>4
<1>. QED
  BY <1>4, <1>5, <1>6 DEF IngestStep, Probe, ProbeFails, Claim, MoveToCanonical, MoveFails,
     StatAndFingerprint, StatFails, Upsert, UpsertFails, Quarantine, QuarantineFails

LEMMA NextTrack ==
  ASSUME QuietCycles, Sequential \/ OnePerPlace, TypeInv, TrackInv, [Next]_vars
  PROVE  TrackInv'
<1>0. /\ job \in [Workers -> Jobs]
      /\ \A w \in Workers : pc # "ingest" => job[w] = IdleJob
      /\ PackagesApart /\ JobsApart /\ JobsTrack
  BY DEF TypeInv, TypeOK, IngestTypeOK, ProcessOK, TrackInv
<1>. SUFFICES JobsApart' /\ JobsTrack'
  BY <1>0, NextApart DEF TrackInv
<1>1. ASSUME UNCHANGED storeVars, todo' \subseteq todo, pc' # "ingest" => todo' = {},
             \A w \in Workers : job'[w] \in {job[w], IdleJob}
      PROVE  JobsApart' /\ JobsTrack'
  <2>1. fs' = fs /\ \A x : StatOf(x)' = StatOf(x)
    BY <1>1 DEF storeVars, StatOf
  <2>2. JobsApart' BY <1>0, <1>1, <2>1 DEF JobsApart, Busy, IdleJob
  <2>3. JobsTrack' BY <1>0, <1>1, <2>1 DEF JobsTrack, IdleJob
  <2>. QED BY <2>2, <2>3
<1>2. CASE Boot \/ EditSettings \/ UNCHANGED vars
  BY <1>0, <1>1, <1>2 DEF Boot, EditSettings, vars, cycle, JobsApart
<1>3. CASE Crash
  BY <1>1, <1>3 DEF Crash, CycleOver
<1>4. CASE /\ pc = "idle"
           /\ UserStep
           /\ UNCHANGED <<catalog, job, faults, process, cycle, saved, ini, outputs>>
  BY <1>0, <1>4 DEF cycle, JobsApart, JobsTrack, Busy, IdleJob
<1>5. CASE CycleStep
  <2>1. ASSUME Abort, UNCHANGED storeVars PROVE JobsApart' /\ JobsTrack'
    BY <1>1, <2>1 DEF Abort, CycleOver
  <2>2. CASE Reload \/ FinalScan \/ Prune \/ BeginCleanup \/ SaveSnapshot \/ SaveSettings
    BY <1>0, <1>1, <2>2 DEF Reload, FinalScan, Prune, BeginCleanup, SaveSnapshot, SaveSettings,
       CycleOver, JobsApart, SavingSnapshot, SavingSettings
  <2>3. CASE Scan
    <3>1. Candidates \subseteq ScanPkgFiles
      BY DEF Candidates, Delta, BuildSnapshot
    <3>2. /\ todo' = Candidates /\ pc = "scan" /\ pc' = "ingest"
          /\ UNCHANGED <<storeVars, job>>
      BY <2>3 DEF Scan
    <3>. QED BY <1>0, <3>1, <3>2 DEF storeVars, JobsApart, JobsTrack, Busy, IdleJob, ScanPkgFiles
  <2>4. ASSUME NEW w \in Workers, Take(w) PROVE JobsApart' /\ JobsTrack'
    <3>1. PICK x \in todo :
            /\ todo' = todo \ {x}
            /\ job' = [job EXCEPT ![w] = JobOn(x)]
      BY <2>4 DEF Take
    <3>2. UNCHANGED <<storeVars, pc>> BY <2>4 DEF Take
    <3>3. /\ fs' = fs /\ \A y : StatOf(y)' = StatOf(y)
          /\ job'[w] = JobOn(x) /\ \A v \in Workers \ {w} : job'[v] = job[v]
      BY <1>0, <3>1, <3>2 DEF storeVars, StatOf
    <3>4. JobsApart' BY <1>0, <3>1, <3>2, <3>3 DEF JobsApart, JobOn, Busy
    <3>5. JobsTrack' BY <1>0, <3>3 DEF JobsTrack, JobOn
    <3>. QED BY <3>4, <3>5
  <2>5. ASSUME NEW w \in Workers, Ingest(w) PROVE JobsApart' /\ JobsTrack'
    BY <2>5, IngestTracks DEF Ingest, cycle
  <2>6. ASSUME NEW w \in Workers, Raised(w) PROVE JobsApart' /\ JobsTrack'
    <3>1. CASE pooled
      BY <1>0, <1>1, <2>6, <3>1 DEF Raised, cycle, JobsApart
    <3>. QED BY <2>1, <2>6, <3>1 DEF Raised
  <2>7. ASSUME NEW t \in Targets, BeginTarget(t) PROVE JobsApart' /\ JobsTrack'
    <3>1. CASE Unlistable(t)
      BY <2>1, <2>7, <3>1 DEF BeginTarget
    <3>2. CASE ~Unlistable(t)
      BY <1>0, <1>1, <2>7, <3>2 DEF BeginTarget, JobsApart
    <3>. QED BY <3>1, <3>2
  <2>8. ASSUME NEW f \in OutFiles, WriteFile(f) \/ RemoveFile(f)
        PROVE  JobsApart' /\ JobsTrack'
    BY <1>0, <1>1, <2>8 DEF WriteFile, RemoveFile, JobsApart
  <2>9. CASE CycleFails \/ SaveFails
    BY <2>1, <2>9 DEF CycleFails, SaveFails
  <2>. QED BY <1>5, <2>2, <2>3, <2>4, <2>5, <2>6, <2>7, <2>8, <2>9 DEF CycleStep
<1>. QED BY <1>2, <1>3, <1>4, <1>5 DEF Next, User

\* The worker moves packages about, and away, and brings none in.
LEMMA TidyStep ==
  ASSUME TypeInv, TrackInv, OnePerPlace, [Next]_vars, [UserStep => OnePerPlace']_vars
  PROVE  OnePerPlace'
<1>1. CASE UNCHANGED storeVars
  BY <1>1 DEF storeVars, OnePerPlace, Readable
<1>2. ASSUME NEW w \in Workers, Ingest(w) PROVE OnePerPlace'
  <2>. DEFINE x == job[w].path
              t == Canonical[job[w].pkg]
  <2>1. CASE MoveToCanonical(w) /\ Rename(x, t)
    <3>1. /\ x \in Paths /\ t \in Paths /\ fs[x] = job[w].pkg /\ Readable(x)
          /\ fs' = [fs EXCEPT ![t] = fs[x], ![x] = NoPackage]
          /\ fs \in [Paths -> Packages \union {NoPackage}]
      BY <2>1 DEF MoveToCanonical, Rename, TypeInv, TypeOK, StoreTypeOK, JobsOK, TrackInv,
         JobsTrack, Readable
    <3>2. ASSUME NEW y \in Paths, Readable(y)'
          PROVE  \E z \in Paths :
                   /\ fs[z] = fs'[y] /\ Readable(z)
                   /\ z = IF y = t THEN x ELSE y
      BY <3>1, <3>2 DEF Readable
    <3>3. ASSUME NEW y \in Paths, NEW z \in Paths, Readable(y)', Readable(z)',
                 Canonical[fs'[y]] = Canonical[fs'[z]]
          PROVE  y = z
      <4>. DEFINE from(u) == IF u = t THEN x ELSE u
      <4>1. from(y) = from(z)
        BY <3>2, <3>3 DEF OnePerPlace
      <4>2. y # t => y # x
        BY <3>1, <3>3 DEF Readable
      <4>3. z # t => z # x
        BY <3>1, <3>3 DEF Readable
      <4>. QED BY <4>1, <4>2, <4>3
    <3>. QED BY <3>3 DEF OnePerPlace
  <2>2. CASE Quarantine(w) /\ MoveToErrors(x, job[w].at)
    BY <2>2 DEF MoveToErrors, OnePerPlace, Readable, TypeInv, TypeOK, StoreTypeOK
  <2>3. CASE UNCHANGED storeVars
    BY <1>1, <2>3
  <2>. QED
    BY <1>2, <2>1, <2>2, <2>3 DEF Ingest, IngestStep, Probe, ProbeFails, Claim,
       MoveToCanonical, MoveFails, StatAndFingerprint, StatFails, Upsert, UpsertFails,
       Quarantine, QuarantineFails
<1>3. CASE UserStep
  BY <1>1, <1>3 DEF vars
<1>. QED BY <1>1, <1>2, <1>3, TreeKept DEF Next, User

-----------------------------------------------------------------------------
(* Candidates.                                                             *)

\* An entry that is saved, or about to be, is about a canonical path, and its
\* package has been nowhere else since.
Recorded(e) ==
  /\ e.path = Canonical[e.stat.pkg]
  /\ e.stat.pkg \notin unseen
  /\ \A x \in Paths : fs[x] = e.stat.pkg => x = e.path
  /\ e.stat.whole => e.stat.pkg \notin uploading

RecordsInv == \A e \in snapshot \union final : Recorded(e)

\* A file is a candidate, or worked on, or settled; in the end all are settled.
\* A pool would forget an exception; without one it ends the cycle.
WorkedOn(x) == \E w \in Workers : Busy(w) /\ job[w].path = x

CandidatesInv ==
  /\ Sequential => ~pooled
  /\ pooled => \A w \in Workers : job[w].at # "raised"
  /\ pc = "ingest" =>
       \A x \in ScanPkgFiles : x \in todo \/ WorkedOn(x) \/ Settled(x)
  /\ AfterScan => \A x \in ScanPkgFiles : Settled(x)

SettledInv == RecordsInv /\ CandidatesInv /\ SnapshotSound

\* One thread; or a pool whose packages keep apart and whose ingestions raise
\* nothing: moves to errors and commits succeed.
NoExceptions == Faults \intersect {"errors", "db"} = {}

Steady == Sequential \/ (OnePerPlace /\ NoExceptions)

LEMMA InitSettled == Init => SettledInv
BY DEF Init, StoreInit, IngestInit, SettledInv, RecordsInv, IdleJob,
   CandidatesInv, AfterScan, SnapshotSound

\* The entries of the tree, spelled out.
LEMMA InTree ==
  ASSUME NEW e \in Entries
  PROVE  e \in BuildSnapshot <=> fs[e.path] # NoPackage /\ e.stat = StatOf(e.path)
<1>1. e = [path |-> e.path, stat |-> e.stat] /\ e.path \in Paths
  BY DEF Entries
<1>. QED BY <1>1 DEF BuildSnapshot, ScanPkgFiles

\* A package that arrives is new to the snapshot, one that leaves is gone, and
\* a copy that ends changes what stat says.
LEMMA UserSettled ==
  ASSUME ~Restores, StoreTypeOK, snapshot \subseteq Entries, final \subseteq Entries,
         PackagesApart, RecordsInv, SnapshotSound,
         UserStep, UNCHANGED <<catalog, snapshot, final>>
  PROVE  RecordsInv' /\ SnapshotSound'
<1>2. RecordsInv'
  <2>1. ASSUME NEW e \in snapshot \union final PROVE Recorded(e)'
    <3>1. Recorded(e) /\ e.stat.pkg \in Packages BY DEF RecordsInv, Entries, Stats
    <3>. USE DEF Recorded, StoreTypeOK
    <3>2. ASSUME NEW p \in Packages, NEW x \in Paths, Deliver(p, x) PROVE Recorded(e)'
      BY <3>1, <3>2 DEF Deliver
    <3>3. ASSUME NEW p \in Packages, FinishCopy(p) PROVE Recorded(e)'
      BY <3>1, <3>3 DEF FinishCopy
    <3>4. ASSUME NEW x \in Paths, Discard(x) PROVE Recorded(e)'
      BY <3>1, <3>4 DEF Discard
    <3>. QED BY <3>2, <3>3, <3>4 DEF UserStep, PutAside
  <2>. QED BY <2>1 DEF RecordsInv
<1>3. SnapshotSound'
  <2>. SUFFICES ASSUME NEW e \in snapshot, e \in BuildSnapshot'
                PROVE  Settled(e.path)'
    BY DEF SnapshotSound
  <2>1. e \in Entries /\ e.path \in Paths /\ Recorded(e) BY DEF RecordsInv, Entries
  <2>2. fs'[e.path] # NoPackage /\ e.stat = StatOf(e.path)'
    BY <2>1 DEF BuildSnapshot, ScanPkgFiles, StatOf
  <2>3. e.stat.pkg = fs'[e.path] /\ e.stat.whole = (e.stat.pkg \notin uploading')
    BY <2>2 DEF StatOf
  <2>4. fs[e.path] = e.stat.pkg
    <3>1. fs'[e.path] \in unseen \union {fs[e.path], NoPackage}
      BY <2>1 DEF UserStep, Deliver, FinishCopy, Discard, PutAside, StoreTypeOK
    <3>. QED BY <2>1, <2>2, <2>3, <3>1 DEF Recorded
  <2>5. e.stat.pkg \in uploading <=> e.stat.pkg \in uploading'
    BY <2>1, <2>2, <2>3, <2>4 DEF UserStep, Deliver, FinishCopy, Discard, PutAside, Recorded,
       StoreTypeOK, PackagesApart
  <2>6. StatOf(e.path)' = StatOf(e.path)
    BY <2>3, <2>4, <2>5 DEF StatOf
  <2>7. Settled(e.path)
    BY <2>1, <2>2, <2>3, <2>4, <2>6, InTree DEF SnapshotSound
  <2>. QED BY <2>3, <2>4, <2>6, <2>7 DEF Settled
<1>. QED BY <1>2, <1>3

\* The end of a cycle, wherever it comes, leaves the snapshot sound.
LEMMA EndSettled ==
  ASSUME SettledInv, UNCHANGED <<storeVars, catalog>>, snapshot' \in {snapshot, {}},
         CycleOver, job' = [w \in Workers |-> IdleJob]
  PROVE  SettledInv'
BY DEF SettledInv, storeVars, CycleOver, RecordsInv, Recorded, IdleJob,
   CandidatesInv, AfterScan, SnapshotSound, Settled, StatOf, BuildSnapshot, ScanPkgFiles

\* So does a step that only goes on, before or after the ingestion.
LEMMA GoOnSettled ==
  ASSUME SettledInv, UNCHANGED <<storeVars, catalog, job, snapshot, final, pooled>>,
         \/ pc' \in {"idle", "scan"}
         \/ AfterScan /\ pc' \in {"prune", "export", "cleanup", "settings"}
         \/ UNCHANGED <<pc, todo>>
  PROVE  SettledInv'
<1>1. /\ BuildSnapshot' = BuildSnapshot /\ ScanPkgFiles' = ScanPkgFiles
      /\ \A x : Settled(x)' = Settled(x)
      /\ \A x : WorkedOn(x)' = WorkedOn(x)
  BY DEF storeVars, BuildSnapshot, ScanPkgFiles, StatOf, Settled, WorkedOn, Busy
<1>2. RecordsInv' /\ SnapshotSound'
  BY <1>1 DEF SettledInv, storeVars, RecordsInv, Recorded, SnapshotSound
<1>3. CandidatesInv'
  BY <1>1 DEF SettledInv, CandidatesInv, AfterScan
<1>. QED BY <1>2, <1>3 DEF SettledInv

\* A thread leaves the file it was given settled, in the errors, or, without
\* a pool, raises; the other files are as they were.
LEMMA IngestSettled ==
  ASSUME Steady, TypeInv, TrackInv, TrackInv', SettledInv, NEW w \in Workers, IngestStep(w),
         UNCHANGED <<pc, todo, pooled, final, snapshot>>
  PROVE  SettledInv'
<1>. DEFINE x == job[w].path
            p == job[w].pkg
            t == Canonical[p]
<1>0. /\ job \in [Workers -> Jobs]
      /\ fs \in [Paths -> Packages \union {NoPackage}]
      /\ snapshot \subseteq Entries /\ final \subseteq Entries
      /\ unseen \subseteq Packages
      /\ PackagesApart /\ JobsApart /\ JobsTrack
      /\ RecordsInv /\ CandidatesInv /\ SnapshotSound
  BY DEF TypeInv, TypeOK, StoreTypeOK, IngestTypeOK, CycleTypeOK, TrackInv, SettledInv
<1>1. /\ Busy(w) /\ x \in Paths /\ pc = "ingest"
      /\ \A v \in Workers \ {w} : job'[v] = job[v]
  BY OthersKept
<1>2. job'[w].at = "raised" => ~pooled
  BY <1>0, <1>1 DEF IngestStep, Probe, ProbeFails, Claim, MoveToCanonical, MoveFails,
     StatAndFingerprint, StatFails, Upsert, UpsertFails, Quarantine, QuarantineFails, Goto,
     Fault, Jobs, IdleJob, Steady, NoExceptions,
     CandidatesInv, JobsApart, Busy
\* Files other than the thread's own are accounted for as before.
<1>3. ASSUME \A y \in Paths : fs'[y] # NoPackage =>
                \/ Busy(w)' /\ job'[w].path = y
                \/ fs[y] # NoPackage /\ y # x /\ (Settled(y) => Settled(y)')
                \/ Settled(y)'
      PROVE  CandidatesInv'
  <2>1. ASSUME NEW y \in Paths, WorkedOn(y), y # x PROVE WorkedOn(y)'
    BY <1>1, <2>1 DEF WorkedOn, Busy
  <2>2. ASSUME NEW y \in Paths, fs'[y] # NoPackage
        PROVE  y \in todo' \/ WorkedOn(y)' \/ Settled(y)'
    BY <1>0, <1>1, <1>3, <2>1, <2>2 DEF CandidatesInv, WorkedOn, ScanPkgFiles
  <2>3. pooled' => \A v \in Workers : job'[v].at # "raised"
    BY <1>0, <1>1, <1>2 DEF CandidatesInv
  <2>. QED BY <1>0, <1>1, <2>2, <2>3 DEF CandidatesInv, AfterScan, ScanPkgFiles
<1>4. ASSUME UNCHANGED <<storeVars, catalog>>, job'[w].path = x, Busy(w)'
      PROVE  SettledInv'
  <2>1. RecordsInv'
    BY <1>0, <1>4 DEF storeVars, RecordsInv, Recorded
  <2>2. \A y \in Paths : Settled(y)' = Settled(y) /\ fs'[y] = fs[y]
    BY <1>4 DEF storeVars, Settled, StatOf
  <2>3. CandidatesInv'
    BY <1>3, <1>4, <2>2
  <2>4. BuildSnapshot' = BuildSnapshot
    BY <1>4 DEF storeVars, BuildSnapshot, ScanPkgFiles, StatOf
  <2>5. SnapshotSound'
    BY <1>0, <2>2, <2>4 DEF SnapshotSound, Entries
  <2>. QED BY <2>1, <2>3, <2>5 DEF SettledInv
<1>5. CASE Probe(w) \/ ProbeFails(w) \/ Claim(w) \/ StatAndFingerprint(w) \/ StatFails(w)
             \/ MoveFails(w) \/ UpsertFails(w) \/ QuarantineFails(w)
  <2>1. UNCHANGED <<storeVars, catalog>>
    BY <1>5 DEF Probe, ProbeFails, Claim, MoveFails, StatAndFingerprint, StatFails, UpsertFails,
       QuarantineFails
  <2>2. job'[w].path = x /\ Busy(w)'
    BY <1>0, <1>5 DEF Probe, ProbeFails, Claim, MoveFails, StatAndFingerprint, StatFails,
       UpsertFails, QuarantineFails, Goto, Jobs, Busy
  <2>. QED BY <1>4, <2>1, <2>2
<1>6. CASE MoveToCanonical(w)
  <2>1. /\ p \in Packages /\ fs[x] = p /\ fs[t] = NoPackage /\ t \in Paths /\ x # t
        /\ job' = [job EXCEPT ![w].at = "stat", ![w].path = t]
        /\ fs' = [fs EXCEPT ![t] = p, ![x] = NoPackage]
        /\ UNCHANGED <<uploading, unseen, catalog>>
    BY <1>0, <1>6 DEF MoveToCanonical, Rename, JobsTrack
  <2>2. /\ fs'[t] = p /\ fs'[x] = NoPackage
        /\ \A y \in Paths \ {x, t} : fs'[y] = fs[y] /\ (Settled(y) => Settled(y)')
        /\ Busy(w)' /\ job'[w].path = t
    BY <1>0, <1>1, <2>1 DEF Settled, StatOf, Busy, Jobs
  <2>3. RecordsInv'
    <3>1. ASSUME NEW e \in snapshot \union final PROVE Recorded(e)'
      <4>1. Recorded(e) /\ e.stat.pkg \in Packages
        BY <1>0 DEF RecordsInv, Entries, Stats
      <4>2. \A y \in Paths : fs'[y] = e.stat.pkg => y = e.path
        BY <1>1, <2>1, <2>2, <4>1 DEF Recorded
      <4>. QED BY <2>1, <4>1, <4>2 DEF Recorded
    <3>. QED BY <3>1 DEF RecordsInv
  <2>4. CandidatesInv'
    BY <1>3, <2>2
  <2>5. SnapshotSound'
    <3>. SUFFICES ASSUME NEW e \in snapshot, e \in BuildSnapshot'
                  PROVE  Settled(e.path)'
      BY DEF SnapshotSound
    <3>1. e \in Entries /\ e.path \in Paths /\ Recorded(e)
      BY <1>0 DEF RecordsInv, Entries
    <3>2. fs'[e.path] # NoPackage /\ e.stat.pkg = fs'[e.path] /\ e.stat = StatOf(e.path)'
      BY <3>1 DEF BuildSnapshot, ScanPkgFiles, StatOf
    <3>3. e.path # t
      <4>1. ASSUME e.path = t PROVE e.stat.pkg = fs[x] /\ x # t /\ x \in Paths
        BY <1>1, <2>1, <2>2, <3>2, <4>1
      <4>. QED BY <3>1, <4>1 DEF Recorded
    <3>4. e.path \in Paths \ {x, t} /\ fs[e.path] = fs'[e.path] /\ uploading' = uploading
      BY <2>1, <2>2, <3>1, <3>2, <3>3
    <3>5. StatOf(e.path)' = StatOf(e.path)
      BY <3>4 DEF StatOf
    <3>. QED BY <1>0, <2>2, <3>1, <3>2, <3>4, <3>5, InTree DEF SnapshotSound
  <2>. QED BY <2>3, <2>4, <2>5 DEF SettledInv
<1>7. CASE Upsert(w)
  <2>1. /\ p \in Packages /\ fs[x] = p /\ x = t /\ job[w].stat = StatOf(x)
        /\ UpsertRow([meta |-> p, stat |-> job[w].stat])
        /\ UNCHANGED storeVars
    BY <1>0, <1>7 DEF Upsert, JobsTrack
  <2>2. ASSUME NEW y \in Paths, y = x \/ Settled(y) PROVE Settled(y)'
    <3>0. StatOf(y)' = StatOf(y) /\ fs'[y] = fs[y]
      BY <2>1 DEF StatOf, storeVars
    <3>1. CASE y = x
      <4>1. [meta |-> fs[y], stat |-> StatOf(y)] \in catalog' BY <2>1, <3>1 DEF UpsertRow
      <4>. QED BY <2>1, <3>0, <3>1, <4>1 DEF Settled
    <3>2. CASE y # x
      <4>. DEFINE r == [meta |-> fs[y], stat |-> StatOf(y)]
      <4>1. r \in catalog /\ r.meta = fs[y] /\ Canonical[fs[y]] = y
        BY <2>2, <3>2 DEF Settled
      <4>2. Key(r.meta) # Key(p) BY <2>1, <3>2, <4>1 DEF Key
      <4>3. r \in catalog' BY <2>1, <4>1, <4>2 DEF UpsertRow
      <4>. QED BY <3>0, <4>1, <4>3 DEF Settled
    <3>. QED BY <3>1, <3>2
  <2>3. RecordsInv' /\ BuildSnapshot' = BuildSnapshot /\ fs' = fs
    BY <1>0, <2>1 DEF storeVars, RecordsInv, Recorded, BuildSnapshot, ScanPkgFiles, StatOf
  <2>4. CandidatesInv'
    BY <1>3, <2>2, <2>3
  <2>5. SnapshotSound'
    BY <1>0, <2>2, <2>3 DEF SnapshotSound, Entries
  <2>. QED BY <2>3, <2>4, <2>5 DEF SettledInv
<1>8. CASE Quarantine(w)
  <2>1. /\ fs' = [fs EXCEPT ![x] = NoPackage]
        /\ UNCHANGED <<uploading, unseen, catalog>>
    BY <1>0, <1>1, <1>8 DEF Quarantine, MoveToErrors, JobsApart
  <2>2. /\ fs'[x] = NoPackage
        /\ \A y \in Paths \ {x} : fs'[y] = fs[y] /\ (Settled(y) => Settled(y)')
    BY <1>0, <1>1, <2>1 DEF Settled, StatOf
  <2>3. RecordsInv'
    <3>1. \A e \in snapshot \union final : e.stat.pkg \in Packages
      BY <1>0 DEF Entries, Stats
    <3>. QED BY <1>0, <2>1, <2>2, <3>1 DEF RecordsInv, Recorded
  <2>4. CandidatesInv'
    BY <1>3, <2>2
  <2>5. SnapshotSound'
    <3>. SUFFICES ASSUME NEW e \in snapshot, e \in BuildSnapshot'
                  PROVE  Settled(e.path)'
      BY DEF SnapshotSound
    <3>1. e \in Entries /\ e.path \in Paths BY <1>0 DEF Entries
    <3>2. fs'[e.path] # NoPackage /\ e.stat = StatOf(e.path)'
      BY <3>1 DEF BuildSnapshot, ScanPkgFiles, StatOf
    <3>3. fs[e.path] = fs'[e.path] /\ StatOf(e.path)' = StatOf(e.path)
      BY <2>1, <2>2, <3>1, <3>2 DEF StatOf
    <3>. QED BY <1>0, <2>2, <3>1, <3>2, <3>3, InTree DEF SnapshotSound
  <2>. QED BY <2>3, <2>4, <2>5 DEF SettledInv
<1>. QED
  BY <1>5, <1>6, <1>7, <1>8 DEF IngestStep

LEMMA NextSettled ==
  ASSUME Steady, QuietCycles, ~Restores, TypeInv, PublishInv, TrackInv, SettledInv, [Next]_vars
  PROVE  SettledInv'
<1>0. /\ TypeOK /\ StoreTypeOK /\ job \in [Workers -> Jobs]
      /\ snapshot \subseteq Entries /\ final \subseteq Entries
      /\ \A w \in Workers : pc # "ingest" => job[w] = IdleJob
      /\ PackagesApart /\ RecordsInv /\ JobsApart /\ CandidatesInv /\ SnapshotSound
      /\ TrackInv'
  BY NextTrack DEF TypeInv, TypeOK, IngestTypeOK, CycleTypeOK, ProcessOK, TrackInv, SettledInv,
     Steady
<1>1. CASE Boot \/ EditSettings
  BY <1>1, GoOnSettled DEF Boot, EditSettings, cycle, saved
<1>2. CASE Crash
  BY <1>2, EndSettled DEF Crash, SnapshotCut
<1>3. CASE /\ pc = "idle"
           /\ UserStep
           /\ UNCHANGED <<catalog, job, faults, process, cycle, saved, ini, outputs>>
  <2>1. RecordsInv' /\ SnapshotSound'
    BY <1>0, <1>3, UserSettled DEF cycle, saved
  <2>2. CandidatesInv'
    BY <1>0, <1>3 DEF cycle, CandidatesInv, AfterScan, IdleJob
  <2>. QED BY <2>1, <2>2 DEF SettledInv
<1>4. CASE CycleStep
  <2>1. ASSUME Abort, UNCHANGED <<storeVars, catalog>>, snapshot' \in {snapshot, {}}
        PROVE  SettledInv'
    BY <2>1, EndSettled DEF Abort
  <2>2. ASSUME UNCHANGED storeVars
        PROVE  /\ BuildSnapshot' = BuildSnapshot
               /\ \A e \in Entries : Recorded(e)' = Recorded(e)
    BY <1>0, <2>2 DEF storeVars, BuildSnapshot, ScanPkgFiles, StatOf, Recorded
  <2>3. ASSUME UNCHANGED <<storeVars, catalog>>
        PROVE  \A x \in Paths : Settled(x)' = Settled(x)
    BY <2>3 DEF storeVars, Settled, StatOf
  <2>4. CASE Reload
    BY <2>4, GoOnSettled DEF Reload, saved
  <2>5. CASE Scan
    <3>1. Sequential => ~pooled'
      BY <1>0, <2>5 DEF Scan, Sequential
    <3>2. ASSUME NEW x \in ScanPkgFiles, x \notin Candidates PROVE Settled(x)
      <4>. DEFINE e == [path |-> x, stat |-> StatOf(x)]
      <4>1. e \in BuildSnapshot /\ e.path = x BY DEF BuildSnapshot
      <4>2. e \in snapshot BY <3>2, <4>1 DEF Candidates, Delta
      <4>. QED BY <1>0, <4>1, <4>2 DEF SnapshotSound
    <3>3. CandidatesInv'
      BY <1>0, <2>3, <2>5, <3>1, <3>2 DEF Scan, CandidatesInv, AfterScan, ScanPkgFiles, storeVars,
         IdleJob
    <3>4. RecordsInv' /\ SnapshotSound'
      BY <1>0, <2>5, <2>2, <2>3 DEF Scan, saved, RecordsInv, SnapshotSound, Entries
    <3>. QED BY <2>2, <2>5, <3>3, <3>4 DEF Scan, SettledInv
  <2>6. ASSUME NEW w \in Workers, Take(w) PROVE SettledInv'
    <3>1. PICK x \in todo :
            /\ todo' = todo \ {x}
            /\ job' = [job EXCEPT ![w] = JobOn(x)]
      BY <2>6 DEF Take
    <3>2. /\ pc = "ingest" /\ job[w] = IdleJob
          /\ UNCHANGED <<storeVars, catalog, pc, pooled, final, saved>>
      BY <2>6 DEF Take
    <3>3. CandidatesInv'
      BY <1>0, <2>3, <3>1, <3>2 DEF CandidatesInv, AfterScan, ScanPkgFiles, storeVars, WorkedOn,
         Busy, JobOn, IdleJob
    <3>5. RecordsInv' /\ SnapshotSound'
      BY <1>0, <2>2, <2>3, <3>2 DEF saved, RecordsInv, SnapshotSound, Entries
    <3>. QED BY <3>3, <3>5 DEF SettledInv
  <2>7. ASSUME NEW w \in Workers, Ingest(w) PROVE SettledInv'
    BY <1>0, <2>7, IngestSettled DEF Ingest, cycle, saved
  <2>8. ASSUME NEW w \in Workers, Raised(w) PROVE SettledInv'
    BY <1>0, <2>1, <2>8 DEF Raised, saved, CandidatesInv
  <2>9. CASE FinalScan
    <3>1. /\ pc = "ingest" /\ todo = {} /\ \A w \in Workers : job[w] = IdleJob
          /\ final' = BuildSnapshot /\ pc' = "prune"
          /\ UNCHANGED <<storeVars, catalog, job, pooled, saved>>
      BY <2>9 DEF FinalScan
    <3>2. \A x \in ScanPkgFiles : Settled(x)
      BY <1>0, <3>1 DEF CandidatesInv, WorkedOn, Busy, IdleJob
    <3>3. CandidatesInv'
      BY <1>0, <2>3, <3>1, <3>2 DEF CandidatesInv, AfterScan, ScanPkgFiles, storeVars
    <3>4. ASSUME NEW e \in BuildSnapshot PROVE e \in Entries /\ Recorded(e)
      <4>1. PICK x \in ScanPkgFiles : e = [path |-> x, stat |-> StatOf(x)]
        BY DEF BuildSnapshot
      <4>2. /\ x \in Paths /\ fs[x] \in Packages /\ fs[x] \notin unseen
            /\ Canonical[fs[x]] = x /\ \A y \in Paths : fs[y] = fs[x] => y = x
        <5>1. Canonical[fs[x]] = x BY <3>2 DEF Settled
        <5>2. x \in Paths /\ fs[x] # NoPackage BY DEF ScanPkgFiles
        <5>. QED BY <1>0, <5>1, <5>2 DEF StoreTypeOK, PackagesApart
      <4>3. /\ e.path = x /\ e.stat.pkg = fs[x]
            /\ e.stat.whole = (fs[x] \notin uploading)
        BY <4>1 DEF StatOf
      <4>. QED BY <4>1, <4>2, <4>3 DEF Recorded, Entries, Stats, StatOf
    <3>5. RecordsInv'
      BY <1>0, <2>2, <3>1, <3>4 DEF RecordsInv, saved
    <3>6. SnapshotSound'
      BY <1>0, <2>2, <2>3, <3>1 DEF SnapshotSound, Entries, saved
    <3>. QED BY <3>3, <3>5, <3>6 DEF SettledInv
  <2>10. CASE Prune
    <3>1. /\ pc = "prune" /\ pc' = "export"
          /\ catalog' = {r \in catalog : Canonical[r.meta] \in PathsOf(final)}
          /\ UNCHANGED <<storeVars, job, pooled, final, saved>>
      BY <2>10 DEF Prune
    <3>2. final = BuildSnapshot
      BY <3>1 DEF PublishInv, ScannedInv, AfterScan
    <3>3. ASSUME NEW x \in ScanPkgFiles PROVE Settled(x)'
      <4>. DEFINE e == [path |-> x, stat |-> StatOf(x)]
                  r == [meta |-> fs[x], stat |-> StatOf(x)]
      <4>1. Canonical[fs[x]] = x /\ r \in catalog /\ r.meta = fs[x]
        BY <1>0, <3>1 DEF CandidatesInv, AfterScan, Settled
      <4>2. e \in final /\ e.path = x BY <3>2 DEF BuildSnapshot
      <4>3. r \in catalog' BY <3>1, <4>1, <4>2 DEF PathsOf
      <4>. QED BY <3>1, <4>1, <4>3 DEF Settled, StatOf, storeVars
    <3>4. CandidatesInv'
      BY <1>0, <3>1, <3>3 DEF CandidatesInv, AfterScan, ScanPkgFiles, storeVars
    <3>5. \A e \in BuildSnapshot : e.path \in ScanPkgFiles
      BY DEF BuildSnapshot
    <3>6. SnapshotSound'
      BY <2>2, <3>1, <3>3, <3>5 DEF SnapshotSound, saved
    <3>7. RecordsInv'
      BY <1>0, <2>2, <3>1 DEF RecordsInv, saved
    <3>. QED BY <3>4, <3>6, <3>7 DEF SettledInv
  <2>11. ASSUME NEW d \in Targets, BeginTarget(d) PROVE SettledInv'
    BY <2>1, <2>11, GoOnSettled DEF BeginTarget, saved
  <2>12. ASSUME NEW f \in OutFiles, WriteFile(f) \/ RemoveFile(f) PROVE SettledInv'
    BY <2>12, GoOnSettled DEF WriteFile, RemoveFile, saved
  <2>13. CASE BeginCleanup
    BY <2>13, GoOnSettled DEF BeginCleanup, saved, AfterScan
  <2>14. CASE SaveSnapshot
    <3>1. /\ pc = "cleanup" /\ pc' = "settings" /\ snapshot' = final
          /\ UNCHANGED <<storeVars, catalog, job, pooled, final>>
      BY <2>14 DEF SaveSnapshot, SavingSnapshot
    <3>2. final = BuildSnapshot /\ \A x \in ScanPkgFiles : Settled(x)
      BY <1>0, <3>1 DEF PublishInv, ScannedInv, CandidatesInv, AfterScan
    <3>3. SnapshotSound'
      <4>1. \A e \in BuildSnapshot : e.path \in ScanPkgFiles
        BY DEF BuildSnapshot
      <4>. QED BY <2>3, <3>1, <3>2, <4>1 DEF SnapshotSound, ScanPkgFiles
    <3>4. CandidatesInv'
      BY <1>0, <2>3, <3>1, <3>2 DEF CandidatesInv, AfterScan, ScanPkgFiles, storeVars
    <3>5. RecordsInv'
      BY <1>0, <2>2, <3>1 DEF RecordsInv
    <3>. QED BY <3>3, <3>4, <3>5 DEF SettledInv
  <2>15. CASE SaveSettings
    <3>1. job' = [w \in Workers |-> IdleJob]
      BY <1>0, <2>15 DEF SaveSettings, SavingSettings
    <3>. QED BY <2>15, <3>1, EndSettled DEF SaveSettings
  <2>16. CASE CycleFails \/ SaveFails
    BY <2>1, <2>16 DEF CycleFails, SaveFails, SnapshotCut, saved
  <2>. QED
    BY <1>4, <2>4, <2>5, <2>6, <2>7, <2>8, <2>9, <2>10, <2>11, <2>12, <2>13, <2>14, <2>15, <2>16
    DEF CycleStep
<1>5. CASE UNCHANGED vars
  BY <1>5, GoOnSettled DEF vars, cycle, saved
<1>. QED BY <1>1, <1>2, <1>3, <1>4, <1>5 DEF Next, User

\* SnapshotSound, with one worker thread and users who touch packages between
\* cycles and put none back: a cycle that fails or is lost at any step never leaves a
\* snapshot that hides an uncataloged file from the cycles after it.
THEOREM NothingHidden ==
  ASSUME Sequential, QuietCycles, ~Restores
  PROVE  Spec => []SnapshotSound
<1>. DEFINE Inv == TypeInv /\ PublishInv /\ TrackInv /\ SettledInv
<1>1. Init => Inv
  BY InitType, InitPublish, InitTrack, InitSettled
<1>2. Inv /\ [Next]_vars => Inv'
  BY NextType, NextPublish, NextTrack, NextSettled DEF Steady
<1>3. Inv => SnapshotSound BY DEF SettledInv
<1>. QED BY <1>1, <1>2, <1>3, PTL DEF Spec

\* SnapshotSound for a pool of any size, under the same hypotheses on users,
\* of whom none has two packages of one path in the tree, when moves to errors
\* and commits succeed: the pool forgets the exception of one that fails.
THEOREM PoolHidesNothing ==
  ASSUME QuietCycles, ~Restores, NoExceptions
  PROVE  Spec /\ TidyUsers => []SnapshotSound
<1>. DEFINE Inv == TypeInv /\ PublishInv /\ TrackInv /\ OnePerPlace /\ SettledInv
<1>1. Init => Inv
  BY InitType, InitPublish, InitTrack, InitTidy, InitSettled
<1>2. Inv /\ [Next]_vars /\ [UserStep => OnePerPlace']_vars => Inv'
  BY NextType, NextPublish, NextTrack, TidyStep, NextSettled DEF Steady
<1>3. Inv => SnapshotSound BY DEF SettledInv
<1>. QED BY <1>1, <1>2, <1>3, PTL DEF Spec, TidyUsers

-----------------------------------------------------------------------------
(* The quarantine.                                                         *)

\* Whole files, and a pkgtool and a file system that do not fail by chance.
SoundFiles == ~Copies /\ Faults \intersect {"probe", "move", "stat"} = {}

\* A pool then also needs users who put no package where another one of the
\* tree belongs.
NoneInTheWay ==
  \A x \in Paths : Readable(x) => fs[Canonical[fs[x]]] \in {NoPackage, fs[x]}

CarefulUsers == [][UserStep => OnePerPlace' /\ NoneInTheWay']_vars

\* What a thread is about to quarantine is broken, or finds its place taken.
ReasonsInv ==
  /\ uploading = {}
  /\ \A w \in Workers :
       /\ job[w].at = "probe_failed" => fs[job[w].path] \in Broken
       /\ job[w].at = "organizer_failed" =>
            job[w].path # Canonical[job[w].pkg] /\ fs[Canonical[job[w].pkg]] # NoPackage
       /\ job[w].at # "fingerprint_failed"

\* The worker puts no package into the way of another.
LEMMA CarefulStep ==
  ASSUME TypeInv, TrackInv, OnePerPlace, NoneInTheWay, [Next]_vars,
         [UserStep => OnePerPlace' /\ NoneInTheWay']_vars
  PROVE  OnePerPlace' /\ NoneInTheWay'
<1>1. OnePerPlace'
  BY TidyStep
<1>2. CASE UNCHANGED storeVars
  BY <1>1, <1>2 DEF storeVars, NoneInTheWay, Readable
<1>3. ASSUME NEW w \in Workers, Ingest(w) PROVE NoneInTheWay'
  <2>. DEFINE x == job[w].path
              t == Canonical[job[w].pkg]
  <2>1. CASE MoveToCanonical(w) /\ Rename(x, t)
    <3>1. /\ x \in Paths /\ t \in Paths /\ fs[x] = job[w].pkg /\ Readable(x)
          /\ fs' = [fs EXCEPT ![t] = fs[x], ![x] = NoPackage]
          /\ fs \in [Paths -> Packages \union {NoPackage}]
      BY <2>1 DEF MoveToCanonical, Rename, TypeInv, TypeOK, StoreTypeOK, JobsOK, TrackInv,
         JobsTrack, Readable
    <3>2. ASSUME NEW y \in Paths, Readable(y)'
          PROVE  fs'[Canonical[fs'[y]]] \in {NoPackage, fs'[y]}
      <4>1. CASE y = t
        BY <3>1, <3>2, <4>1 DEF Readable
      <4>2. CASE y # t
        <5>1. Readable(y) /\ fs'[y] = fs[y] /\ y # x /\ Canonical[fs[y]] \in Paths
          BY <3>1, <3>2, <4>2 DEF Readable
        <5>2. Canonical[fs[y]] # t
          BY <3>1, <5>1 DEF OnePerPlace
        <5>. QED BY <3>1, <5>1, <5>2 DEF NoneInTheWay
      <4>. QED BY <4>1, <4>2
    <3>. QED BY <3>2 DEF NoneInTheWay
  <2>2. CASE Quarantine(w) /\ MoveToErrors(x, job[w].at)
    <3>1. /\ fs' = [fs EXCEPT ![x] = NoPackage]
          /\ fs \in [Paths -> Packages \union {NoPackage}]
      BY <2>2 DEF MoveToErrors, TypeInv, TypeOK, StoreTypeOK
    <3>. QED BY <3>1 DEF NoneInTheWay, Readable
  <2>3. CASE UNCHANGED storeVars
    BY <1>2, <2>3
  <2>. QED
    BY <1>3, <2>1, <2>2, <2>3 DEF Ingest, IngestStep, Probe, ProbeFails, Claim,
       MoveToCanonical, MoveFails, StatAndFingerprint, StatFails, Upsert, UpsertFails,
       Quarantine, QuarantineFails
<1>4. CASE UserStep
  BY <1>2, <1>4 DEF vars
<1>. QED BY <1>1, <1>2, <1>3, <1>4, TreeKept DEF Next, User

LEMMA InitCareful == Init => NoneInTheWay
BY DEF Init, StoreInit, NoneInTheWay, Readable

LEMMA InitReasons == Init => ReasonsInv
BY DEF Init, StoreInit, IngestInit, ReasonsInv, IdleJob

LEMMA NextReasons ==
  ASSUME Sequential \/ NoneInTheWay, QuietCycles, SoundFiles,
         TypeInv, TrackInv, ReasonsInv, [Next]_vars
  PROVE  ReasonsInv'
<1>0. /\ job \in [Workers -> Jobs] /\ uploading = {}
      /\ \A w \in Workers : pc # "ingest" => job[w] = IdleJob
      /\ PackagesApart /\ JobsApart /\ JobsTrack
  BY DEF TypeInv, TypeOK, IngestTypeOK, ProcessOK, TrackInv, ReasonsInv
<1>1. ASSUME UNCHANGED storeVars,
             \A w \in Workers : job'[w].at \in {"idle", "probe"} \/ job'[w] = job[w]
      PROVE  ReasonsInv'
  BY <1>1 DEF ReasonsInv, storeVars
<1>2. CASE Boot \/ EditSettings
  BY <1>1, <1>2 DEF Boot, EditSettings
<1>3. CASE Crash
  BY <1>1, <1>3 DEF Crash, IdleJob
<1>4. CASE /\ pc = "idle"
           /\ UserStep
           /\ UNCHANGED <<catalog, job, faults, process, cycle, saved, ini, outputs>>
  <2>1. uploading' = {}
    BY <1>0, <1>4 DEF SoundFiles, UserStep, Deliver, FinishCopy, Discard, PutAside
  <2>. QED BY <1>0, <1>4, <2>1 DEF ReasonsInv, IdleJob
<1>5. CASE CycleStep
  <2>1. ASSUME Abort, UNCHANGED storeVars PROVE ReasonsInv'
    BY <1>1, <2>1 DEF Abort, IdleJob
  <2>2. ASSUME NEW w \in Workers, Take(w) PROVE ReasonsInv'
    BY <1>0, <1>1, <2>2 DEF Take, JobOn
  <2>3. ASSUME NEW w \in Workers, Ingest(w) PROVE ReasonsInv'
    <3>0. /\ IngestStep(w) /\ Busy(w) /\ job[w].path \in Paths
          /\ fs[job[w].path] # NoPackage
          /\ \A v \in Workers \ {w} :
               /\ job'[v] = job[v]
               /\ Busy(v) => fs'[job[v].path] = fs[job[v].path]
      BY <1>0, <2>3, OthersKept DEF Ingest, JobsApart
    <3>1. uploading' = {}
      BY <1>0, <3>0, OthersKept
    \* In a pool nobody finds the place taken.
    <3>2. ASSUME NEW v \in Workers \ {w}, job[v].at = "organizer_failed" PROVE FALSE
      <4>1. /\ job[v].path \in Paths /\ job[v].pkg \in Packages \ Broken
            /\ fs[job[v].path] = job[v].pkg
            /\ job[v].path # Canonical[job[v].pkg]
            /\ fs[Canonical[job[v].pkg]] # NoPackage
        BY <1>0, <3>2 DEF JobsTrack, ReasonsInv, TypeInv, JobsOK
      <4>2. NoneInTheWay BY DEF Sequential
      <4>3. fs[Canonical[job[v].pkg]] = job[v].pkg
        BY <4>1, <4>2 DEF NoneInTheWay, Readable
      <4>. QED BY <1>0, <4>1, <4>3 DEF PackagesApart
    <3>3. ASSUME NEW v \in Workers \ {w}
          PROVE  /\ job'[v].at = "probe_failed" => fs'[job'[v].path] \in Broken
                 /\ job'[v].at = "organizer_failed" =>
                      /\ job'[v].path # Canonical[job'[v].pkg]
                      /\ fs'[Canonical[job'[v].pkg]] # NoPackage
                 /\ job'[v].at # "fingerprint_failed"
      BY <3>0, <3>2 DEF ReasonsInv, Busy
    <3>. SUFFICES /\ job'[w].at = "probe_failed" => fs'[job'[w].path] \in Broken
                  /\ job'[w].at = "organizer_failed" =>
                       /\ job'[w].path # Canonical[job'[w].pkg]
                       /\ fs'[Canonical[job'[w].pkg]] # NoPackage
                  /\ job'[w].at # "fingerprint_failed"
      BY <3>1, <3>3 DEF ReasonsInv
    <3>4. CASE ProbeFails(w)
      BY <1>0, <3>0, <3>1, <3>4 DEF ProbeFails, Fault, SoundFiles, Goto, Jobs, storeVars
    <3>5. CASE StatFails(w)
      BY <1>0, <3>0, <3>5 DEF StatFails, Fault, SoundFiles
    <3>6. CASE Claim(w)
      BY <1>0, <3>0, <3>6 DEF Claim, Goto, Jobs, storeVars
    <3>7. ~MoveFails(w)
      BY <1>0, <3>0 DEF MoveFails, Fault, SoundFiles
    <3>8. CASE Probe(w) \/ MoveToCanonical(w) \/ StatAndFingerprint(w)
                 \/ Upsert(w) \/ UpsertFails(w) \/ Quarantine(w) \/ QuarantineFails(w)
      <4>1. job'[w].at \notin {"probe_failed", "organizer_failed", "fingerprint_failed"}
        BY <1>0, <3>0, <3>8 DEF Probe, MoveToCanonical, StatAndFingerprint, Upsert,
           UpsertFails, Quarantine, QuarantineFails, Goto, Jobs, IdleJob
      <4>. QED BY <4>1
    <3>. QED BY <3>0, <3>4, <3>5, <3>6, <3>7, <3>8 DEF IngestStep
  <2>4. ASSUME NEW w \in Workers, Raised(w) PROVE ReasonsInv'
    BY <1>0, <1>1, <2>1, <2>4 DEF Raised, IdleJob
  <2>5. ASSUME NEW t \in Targets, BeginTarget(t) PROVE ReasonsInv'
    BY <1>1, <2>1, <2>5 DEF BeginTarget
  <2>6. ASSUME NEW f \in OutFiles, WriteFile(f) \/ RemoveFile(f) PROVE ReasonsInv'
    BY <1>1, <2>6 DEF WriteFile, RemoveFile
  <2>7. CASE Reload \/ Scan \/ FinalScan \/ Prune \/ BeginCleanup \/ SaveSnapshot \/ SaveSettings
    BY <1>1, <2>7 DEF Reload, Scan, FinalScan, Prune, BeginCleanup, SaveSnapshot, SaveSettings
  <2>8. CASE CycleFails \/ SaveFails
    BY <2>1, <2>8 DEF CycleFails, SaveFails
  <2>. QED BY <1>5, <2>2, <2>3, <2>4, <2>5, <2>6, <2>7, <2>8 DEF CycleStep
<1>6. CASE UNCHANGED vars
  BY <1>1, <1>6 DEF vars
<1>. QED BY <1>2, <1>3, <1>4, <1>5, <1>6 DEF Next, User

\* What a step adds to the errors is broken, or its place is taken.
Justified ==
  \A e \in errors' \ errors :
    \/ e.pkg \in Broken
    \/ fs[Canonical[e.pkg]] \notin {e.pkg, NoPackage}

LEMMA StepJustified ==
  ASSUME TypeInv, TrackInv, ReasonsInv, Next
  PROVE  Justified
<1>. USE DEF Justified
<1>1. ASSUME errors' = errors PROVE Justified
  BY <1>1
<1>2. ASSUME NEW w \in Workers, Quarantine(w) PROVE Justified
  <2>1. job[w].path \in Paths BY <1>2 DEF Quarantine, Reasons, TypeInv, JobsOK
  <2>2. \A e \in errors' \ errors : e.pkg = fs[job[w].path]
    BY <1>2 DEF Quarantine, MoveToErrors
  <2>3. CASE job[w].at = "probe_failed"
    BY <2>2, <2>3 DEF ReasonsInv
  <2>4. CASE job[w].at = "organizer_failed"
    <3>1. /\ job[w].pkg \in Packages /\ fs[job[w].path] = job[w].pkg
          /\ job[w].path # Canonical[job[w].pkg]
          /\ fs[Canonical[job[w].pkg]] # NoPackage
      BY <2>4 DEF TrackInv, JobsTrack, ReasonsInv
    <3>2. fs[Canonical[job[w].pkg]] # job[w].pkg
      BY <2>1, <3>1 DEF TrackInv, PackagesApart
    <3>. QED BY <2>2, <3>1, <3>2
  <2>. QED BY <1>2, <2>3, <2>4 DEF Quarantine, Reasons, ReasonsInv
<1>3. ASSUME NEW w \in Workers, Ingest(w) PROVE Justified
  BY <1>1, <1>2, <1>3 DEF Ingest, IngestStep, Probe, ProbeFails, Claim, MoveToCanonical,
     MoveFails, StatAndFingerprint, StatFails, Upsert, UpsertFails, Quarantine,
     QuarantineFails, Rename, storeVars
<1>4. CASE User
  BY <1>1, <1>4 DEF User, EditSettings, UserStep, Deliver, FinishCopy, Discard, PutAside, storeVars
<1>5. CASE UNCHANGED storeVars
  BY <1>1, <1>5 DEF storeVars
<1>. QED BY <1>3, <1>4, <1>5, TreeKept DEF Next

\* QuarantineJustified, with one worker thread and users who hand over
\* whole files, between cycles: re-ingesting a package any number of times, after
\* a settings change or a lost snapshot, never quarantines it.
THEOREM OnlyJustifiedQuarantine ==
  ASSUME Sequential, QuietCycles, SoundFiles
  PROVE  Spec => QuarantineJustified
<1>. DEFINE Inv == TypeInv /\ TrackInv /\ ReasonsInv
<1>1. Init => Inv BY InitType, InitTrack, InitReasons
<1>2. Inv /\ [Next]_vars => Inv' BY NextType, NextTrack, NextReasons
<1>3. Inv /\ [Next]_vars => [Justified]_vars
  BY StepJustified
<1>. QED BY <1>1, <1>2, <1>3, PTL DEF Spec, QuarantineJustified, Justified

\* QuarantineJustified for a pool of any size, when its users also keep to
\* one package per path and put none where another belongs: what a thread
\* finds at the place of its package is then not about to move away.
THEOREM PoolQuarantinesJustly ==
  ASSUME QuietCycles, SoundFiles
  PROVE  Spec /\ CarefulUsers => QuarantineJustified
<1>. DEFINE Inv == TypeInv /\ TrackInv /\ OnePerPlace /\ NoneInTheWay /\ ReasonsInv
<1>1. Init => Inv
  BY InitType, InitTrack, InitTidy, InitCareful, InitReasons
<1>2. Inv /\ [Next]_vars /\ [UserStep => OnePerPlace' /\ NoneInTheWay']_vars => Inv'
  BY NextType, NextTrack, CarefulStep, NextReasons
<1>3. Inv /\ [Next]_vars => [Justified]_vars
  BY StepJustified
<1>. QED BY <1>1, <1>2, <1>3, PTL DEF Spec, CarefulUsers, QuarantineJustified, Justified
=============================================================================
