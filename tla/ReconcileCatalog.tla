-------------------------- MODULE ReconcileCatalog --------------------------
(***************************************************************************)
(* The reconcile cycle of the worker, ReconcileCatalog.__call__, from the  *)
(* reload of settings.ini to the two snapshot files, with the exports of   *)
(* ExportOutputs and the ways a cycle ends early: an exception aborts it,  *)
(* a crash of the container loses it.  The files of a cycle are ingested   *)
(* one after the other, or by a pool of threads (IngestPackage).           *)
(***************************************************************************)
EXTENDS IngestPackage

CONSTANTS
  Settings,       \* the contents settings.ini may have
  ValidSettings,  \* the contents UserSettings accepts
  NoSettings,     \* an absent hash, no configuration loaded
  TargetsOf,      \* TargetsOf[s] = EXPORT_TARGETS of s
  OutFiles,       \* the files the exporters write below data/share
  TargetOf,       \* TargetOf[f] = the export target that writes f
  Listed,         \* Listed[f] = the canonical paths whose rows f lists
  Absent,         \* "no such output file"
  QuietCycles,    \* TRUE when users touch packages between cycles only
  MaxEdits        \* bound: edits of settings.ini

Targets == {"hb-store", "fpkgi"}

ASSUME SettingsAssumption ==
  /\ ValidSettings \subseteq Settings
  /\ NoSettings \notin Settings
  /\ TargetsOf \in [Settings -> SUBSET Targets]
  /\ TargetOf \in [OutFiles -> Targets]
  /\ Listed \in [OutFiles -> SUBSET Paths]
  /\ QuietCycles \in BOOLEAN
  /\ MaxEdits \in Nat

VARIABLES
  worker,         \* the process: not running, in start(), scheduled, or ended
  pc,             \* the next step of the running cycle
  cfg,            \* the settings the process has loaded
  hash,           \* current_settings_hash of the cycle
  todo,           \* candidates of the cycle no thread has taken
  pooled,         \* the cycle ingests with a thread pool
  final,          \* final_snapshot of the cycle
  exporting,      \* enabled targets the cycle has not exported yet
  writing,        \* files the running exporter has yet to write or remove
  snapshot,       \* pkgs-snapshot.json
  savedSettings,  \* settings-snapshot.json
  settings,       \* settings.ini
  edits,          \* edits of settings.ini so far
  outputs         \* the output files

process == <<worker, cfg>>
cycle == <<pc, hash, todo, pooled, final, exporting, writing>>
saved == <<snapshot, savedSettings>>
ini == <<settings, edits>>
vars == <<storeVars, catalog, job, faults, process, cycle, saved, ini, outputs>>

Listings == [rows : SUBSET Rows, base : Settings]

CycleTypeOK ==
  /\ worker \in {"off", "starting", "scheduled", "dead"}
  /\ pc \in {"idle", "scan", "ingest", "prune", "export", "cleanup", "settings"}
  /\ cfg \in ValidSettings \union {NoSettings}
  /\ hash \in Settings \union {NoSettings}
  /\ todo \subseteq Paths
  /\ pooled \in BOOLEAN
  /\ final \subseteq Entries
  /\ exporting \subseteq Targets
  /\ writing \subseteq OutFiles
  /\ snapshot \subseteq Entries
  /\ savedSettings \in Settings \union {NoSettings}
  /\ settings \in Settings
  /\ edits \in Nat
  /\ outputs \in [OutFiles -> Listings \union {Absent}]

TypeOK == StoreTypeOK /\ IngestTypeOK /\ CycleTypeOK

Init ==
  /\ StoreInit
  /\ IngestInit
  /\ worker = "off"
  /\ pc = "idle"
  /\ cfg = NoSettings
  /\ hash = NoSettings
  /\ todo = {}
  /\ pooled = FALSE
  /\ final = {}
  /\ exporting = {}
  /\ writing = {}
  /\ snapshot = {}
  /\ savedSettings = NoSettings
  /\ settings \in Settings
  /\ edits = 0
  /\ outputs = [f \in OutFiles |-> Absent]

-----------------------------------------------------------------------------
(* How a cycle ends.                                                       *)

CycleOver ==
  /\ pc' = "idle"
  /\ hash' = NoSettings
  /\ todo' = {}
  /\ pooled' = FALSE
  /\ final' = {}
  /\ exporting' = {}
  /\ writing' = {}

\* An exception leaves __call__ through the finally clause.  The scheduler
\* logs it and calls again later; raised from start() it ends the process.
Abort ==
  /\ CycleOver
  /\ job' = [w \in Workers |-> IdleJob]
  /\ worker' = IF worker = "starting" THEN "dead" ELSE worker
  /\ UNCHANGED cfg

\* write_text truncates the file before it writes: a save that fails or is
\* cut off leaves the old file or one that load() reads as nothing.
SnapshotCut == snapshot' \in {snapshot, {}}
SettingsCut == savedSettings' \in {savedSettings, NoSettings}

SavingSnapshot == pc = "cleanup" /\ writing = {}
SavingSettings == pc = "settings"

-----------------------------------------------------------------------------
(* The process.                                                            *)

\* The container starts the worker, which loads its settings or ends.
Boot ==
  /\ worker = "off"
  /\ IF settings \in ValidSettings
       THEN worker' = "starting" /\ cfg' = settings
       ELSE worker' = "dead" /\ cfg' = NoSettings
  /\ UNCHANGED <<storeVars, catalog, job, faults, cycle, saved, ini, outputs>>

\* The container goes down: the files and the catalog stay.
Crash ==
  /\ worker # "off"
  /\ Fault("crash")
  /\ worker' = "off"
  /\ cfg' = NoSettings
  /\ CycleOver
  /\ job' = [w \in Workers |-> IdleJob]
  /\ IF SavingSnapshot THEN SnapshotCut ELSE UNCHANGED snapshot
  /\ IF SavingSettings THEN SettingsCut ELSE UNCHANGED savedSettings
  /\ UNCHANGED <<storeVars, catalog, ini, outputs>>

EditSettings ==
  /\ edits < MaxEdits
  /\ settings' \in Settings \ {settings}
  /\ edits' = edits + 1
  /\ UNCHANGED <<storeVars, catalog, job, faults, process, cycle, saved, outputs>>

-----------------------------------------------------------------------------
(* The cycle up to the ingestion.                                          *)

\* Wrong: the reload takes settings that do not validate.
ReloadUnvalidated ==
  /\ worker \in {"starting", "scheduled"}
  /\ pc = "idle"
  /\ cfg' = settings
  /\ pc' = "scan"
  /\ UNCHANGED <<storeVars, catalog, job, faults, worker, hash, todo, pooled,
                 final, exporting, writing, saved, ini, outputs>>

\* _run_reconcile_cycle: settings that do not load leave the old ones.
Reload ==
  /\ worker \in {"starting", "scheduled"}
  /\ pc = "idle"
  /\ cfg' = IF settings \in ValidSettings THEN settings ELSE cfg
  /\ pc' = "scan"
  /\ UNCHANGED <<storeVars, catalog, job, faults, worker, hash, todo, pooled,
                 final, exporting, writing, saved, ini, outputs>>

\* Wrong: a changed file at a known path is not a candidate.
DeltaAddedOnly(previous, current) ==
  {e.path : e \in current} \ {e.path : e \in previous}

\* build_delta: added and updated paths.
Delta(previous, current) == {e.path : e \in current \ previous}

Candidates ==
  IF savedSettings # settings
    THEN ScanPkgFiles
    ELSE Delta(snapshot, BuildSnapshot)

Scan ==
  /\ pc = "scan"
  /\ hash' = settings
  /\ todo' = Candidates
  /\ pooled' = /\ \E v, w \in Workers : v # w
               /\ \E x, y \in Candidates : x # y
  /\ pc' = "ingest"
  /\ UNCHANGED <<storeVars, catalog, job, faults, process, final, exporting,
                 writing, saved, ini, outputs>>

-----------------------------------------------------------------------------
(* _ingest_candidates.                                                     *)

\* A thread takes the next candidate, in any order; without a pool one call
\* ends before the next begins.
Take(w) ==
  /\ pc = "ingest"
  /\ job[w] = IdleJob
  /\ pooled \/ \A v \in Workers : job[v] = IdleJob
  /\ \E x \in todo :
       /\ todo' = todo \ {x}
       /\ job' = [job EXCEPT ![w] = JobOn(x)]
  /\ UNCHANGED <<storeVars, catalog, faults, process, pc, hash, pooled, final,
                 exporting, writing, saved, ini, outputs>>

Ingest(w) ==
  /\ IngestStep(w)
  /\ UNCHANGED <<process, cycle, saved, ini, outputs>>

\* Wrong: an exception never aborts the cycle.
RaisedCounted(w) ==
  /\ job[w].at = "raised"
  /\ job' = [job EXCEPT ![w] = IdleJob]
  /\ UNCHANGED <<process, cycle, storeVars, catalog, faults, saved, ini, outputs>>

\* The pool counts an exception as a failed file; without a pool it aborts
\* the cycle.
Raised(w) ==
  /\ job[w].at = "raised"
  /\ \/ /\ pooled
        /\ job' = [job EXCEPT ![w] = IdleJob]
        /\ UNCHANGED <<process, cycle>>
     \/ /\ ~pooled
        /\ Abort
  /\ UNCHANGED <<storeVars, catalog, faults, saved, ini, outputs>>

\* Wrong: the final scan does not wait for the threads.
FinalScanUnjoined ==
  /\ pc = "ingest"
  /\ todo = {}
  /\ final' = BuildSnapshot
  /\ pc' = "prune"
  /\ UNCHANGED <<storeVars, catalog, job, faults, process, hash, todo, pooled,
                 exporting, writing, saved, ini, outputs>>

FinalScan ==
  /\ pc = "ingest"
  /\ todo = {}
  /\ \A w \in Workers : job[w] = IdleJob
  /\ final' = BuildSnapshot
  /\ pc' = "prune"
  /\ UNCHANGED <<storeVars, catalog, job, faults, process, hash, todo, pooled,
                 exporting, writing, saved, ini, outputs>>

-----------------------------------------------------------------------------
(* Pruning and exporting.                                                  *)

PathsOf(entries) == {e.path : e \in entries}

\* Wrong: the rows to keep are those of the previous snapshot.
PruneByPrevious ==
  /\ pc = "prune"
  /\ catalog' = {r \in catalog : Canonical[r.meta] \in PathsOf(snapshot)}
  /\ exporting' = TargetsOf[cfg]
  /\ pc' = "export"
  /\ UNCHANGED <<storeVars, job, faults, process, hash, todo, pooled, final,
                 writing, saved, ini, outputs>>

\* delete_by_pkg_paths_not_in
Prune ==
  /\ pc = "prune"
  /\ catalog' = {r \in catalog : Canonical[r.meta] \in PathsOf(final)}
  /\ exporting' = TargetsOf[cfg]
  /\ pc' = "export"
  /\ UNCHANGED <<storeVars, job, faults, process, hash, todo, pooled, final,
                 writing, saved, ini, outputs>>

FilesOf(targets) == {f \in OutFiles : TargetOf[f] \in targets}

RowsListed(f) == {r \in catalog : Canonical[r.meta] \in Listed[f]}

\* The fPKGi lists are keyed by the URL, which names the canonical path: of
\* several versions the one list_items orders last remains.
Listing(f) ==
  IF TargetOf[f] = "fpkgi"
    THEN {r \in RowsListed(f) :
            \A s \in RowsListed(f) :
              Canonical[s.meta] = Canonical[r.meta]
                => Version[s.meta] <= Version[r.meta]}
    ELSE RowsListed(f)

\* FpkgiItem refuses a row with an empty version.
Unlistable(t) == t = "fpkgi" /\ \E r \in catalog : Version[r.meta] = 0

BeginTarget(t) ==
  /\ pc = "export"
  /\ writing = {}
  /\ t \in exporting
  /\ \/ /\ ~Unlistable(t)
        /\ exporting' = exporting \ {t}
        /\ writing' = FilesOf({t})
        /\ UNCHANGED <<process, job, pc, hash, todo, pooled, final>>
     \/ /\ Unlistable(t)
        /\ Abort
  /\ UNCHANGED <<storeVars, catalog, faults, saved, ini, outputs>>

\* Each file is written aside and replaces the old one.
WriteFile(f) ==
  /\ pc = "export"
  /\ f \in writing
  /\ outputs' = [outputs EXCEPT ![f] = [rows |-> Listing(f), base |-> cfg]]
  /\ writing' = writing \ {f}
  /\ UNCHANGED <<storeVars, catalog, job, faults, process, pc, hash, todo,
                 pooled, final, exporting, saved, ini>>

\* Wrong: the files of a disabled target stay.
BeginCleanupOfNothing ==
  /\ pc = "export"
  /\ writing = {}
  /\ exporting = {}
  /\ pc' = "cleanup"
  /\ UNCHANGED <<storeVars, catalog, job, faults, process, hash, todo, pooled,
                 final, exporting, writing, saved, ini, outputs>>

BeginCleanup ==
  /\ pc = "export"
  /\ writing = {}
  /\ exporting = {}
  /\ writing' = {f \in OutFiles \ FilesOf(TargetsOf[cfg]) : outputs[f] # Absent}
  /\ pc' = "cleanup"
  /\ UNCHANGED <<storeVars, catalog, job, faults, process, hash, todo, pooled,
                 final, exporting, saved, ini, outputs>>

RemoveFile(f) ==
  /\ pc = "cleanup"
  /\ f \in writing
  /\ outputs' = [outputs EXCEPT ![f] = Absent]
  /\ writing' = writing \ {f}
  /\ UNCHANGED <<storeVars, catalog, job, faults, process, pc, hash, todo,
                 pooled, final, exporting, saved, ini>>

\* A locked database or a full disk.
CycleFails ==
  /\ \/ pc \in {"prune", "export"} /\ Fault("db")
     \/ pc \in {"export", "cleanup"} /\ ~SavingSnapshot /\ Fault("disk")
  /\ Abort
  /\ UNCHANGED <<storeVars, catalog, saved, ini, outputs>>

-----------------------------------------------------------------------------
(* Saving.                                                                 *)

SaveSnapshot ==
  /\ SavingSnapshot
  /\ snapshot' = final
  /\ pc' = "settings"
  /\ UNCHANGED <<storeVars, catalog, job, faults, process, hash, todo, pooled,
                 final, exporting, writing, savedSettings, ini, outputs>>

SaveSettings ==
  /\ SavingSettings
  /\ savedSettings' = hash
  /\ CycleOver
  /\ worker' = "scheduled"
  /\ UNCHANGED <<storeVars, catalog, job, faults, cfg, snapshot, ini, outputs>>

SaveFails ==
  /\ Fault("disk")
  /\ \/ SavingSnapshot /\ SnapshotCut /\ UNCHANGED savedSettings
     \/ SavingSettings /\ SettingsCut /\ UNCHANGED snapshot
  /\ Abort
  /\ UNCHANGED <<storeVars, catalog, ini, outputs>>

-----------------------------------------------------------------------------

CycleStep ==
  \/ Reload \/ Scan
  \/ \E w \in Workers : Take(w) \/ Ingest(w) \/ Raised(w)
  \/ FinalScan \/ Prune
  \/ \E t \in Targets : BeginTarget(t)
  \/ \E f \in OutFiles : WriteFile(f) \/ RemoveFile(f)
  \/ BeginCleanup
  \/ SaveSnapshot \/ SaveSettings
  \/ CycleFails \/ SaveFails

\* settings.ini may be edited at any time.
User ==
  \/ EditSettings
  \/ /\ QuietCycles => pc = "idle"
     /\ UserStep
     /\ UNCHANGED <<catalog, job, faults, process, cycle, saved, ini, outputs>>

Next == Boot \/ Crash \/ CycleStep \/ User

Spec == Init /\ [][Next]_vars

\* docker starts a stopped container again, the scheduler calls a scheduled
\* worker again and again, and a running cycle goes on.  Nothing makes users
\* act, and nothing brings a dead worker back.
Fairness == WF_vars(Boot) /\ WF_vars(CycleStep)

FairSpec == Spec /\ Fairness

-----------------------------------------------------------------------------
(* What a cycle must never do.                                             *)

\* NoPackageLost: whatever users have handed over and not taken away is in
\* the tree or in data/internal/errors: no move of the worker (rename into
\* the canonical path, rename into errors) ever lands on another package.
NoPackageLost ==
  \A p \in Packages \ (unseen \union discarded) :
    \/ \E x \in Paths : fs[x] = p
    \/ \E e \in errors : e.pkg = p

\* The catalog has the row of the file at x, as it is, and x is canonical.
Settled(x) ==
  /\ Canonical[fs[x]] = x
  /\ [meta |-> fs[x], stat |-> StatOf(x)] \in catalog

\* SnapshotSound: a file that the saved snapshot makes the next delta skip
\* is in the catalog, with the metadata of its present content.  A snapshot
\* saved too early, or kept too long, hides a file from every later cycle.
SnapshotSound ==
  \A e \in snapshot :
    e \in BuildSnapshot => Settled(e.path)

\* RowsOnlyDropWithFile: a row leaves the catalog only when no file is at its
\* path; neither the move of its file in the same cycle, nor a failed or
\* repeated cycle, nor another version of the package drops it.
RowsOnlyDropWithFile ==
  [][\A r \in catalog :
       (\A s \in catalog' : Key(s.meta) # Key(r.meta))
         => fs[Canonical[r.meta]] = NoPackage]_vars

\* QuarantineJustified: a package goes to data/internal/errors only when
\* pkgtool cannot read it, or its canonical path holds another package; a
\* package that is where it belongs survives every retry, restart and
\* re-ingestion after a settings change.
QuarantineJustified ==
  [][\A e \in errors' \ errors :
       \/ e.pkg \in Broken
       \/ fs[Canonical[e.pkg]] \notin {e.pkg, NoPackage}]_vars

\* OutputsMirror: when the snapshot files are written, the enabled targets
\* list the rows of the catalog under the configured base URL, every listed
\* path has its file, and a disabled target has no file left.
Enabled(f) == TargetOf[f] \in TargetsOf[cfg]

OutputsMirror ==
  SavingSnapshot \/ SavingSettings =>
    \A f \in OutFiles :
      IF Enabled(f)
        THEN /\ outputs[f] = [rows |-> Listing(f), base |-> cfg]
             /\ \A r \in outputs[f].rows : fs[Canonical[r.meta]] # NoPackage
        ELSE outputs[f] = Absent

\* Converges: when users and failures stop, every file of the tree ends up
\* at its canonical path with its row, every row has a file, and the outputs
\* follow settings.ini; unless the process has ended.
InSync ==
  /\ \A x \in ScanPkgFiles : Settled(x)
  /\ \A r \in catalog : fs[Canonical[r.meta]] # NoPackage
  /\ settings \in ValidSettings =>
       \A f \in OutFiles :
         outputs[f] = IF TargetOf[f] \in TargetsOf[settings]
                        THEN [rows |-> Listing(f), base |-> settings]
                        ELSE Absent

Converges == <>[](worker = "dead" \/ InSync)

\* SyncedWhenSaved: a cycle that gets as far as saving the settings, with
\* settings.ini as it was loaded or not loadable, has everything in step:
\* whatever earlier cycles failed at is made up for before it counts as done.
SyncedWhenSaved ==
  SavingSettings /\ (settings \in ValidSettings => settings = cfg) => InSync

\* StaysInSync: what is in step is only put out of step by users.  Repeated
\* cycles, the re-ingestion of everything, a cycle that fails in the middle of
\* its exports and a crash take nothing away; an export under settings that
\* settings.ini no longer has may.
ExportsCurrent ==
  pc \in {"export", "cleanup"} /\ settings \in ValidSettings => cfg = settings

StaysInSync ==
  [][InSync /\ ExportsCurrent
       => UserStep \/ settings' # settings \/ InSync']_vars

=============================================================================
