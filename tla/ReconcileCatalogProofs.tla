----------------------- MODULE ReconcileCatalogProofs -----------------------
(***************************************************************************)
(* Theorems about ReconcileCatalog for every value of its constants.       *)
(***************************************************************************)
EXTENDS ReconcileCatalog, TLAPS

USE PackagesAssumption, WorkersAssumption, SettingsAssumption

-----------------------------------------------------------------------------
(* Types.                                                                  *)

\* A busy thread has a path, a probed one a package, a row to write a stat.
JobsOK ==
  \A w \in Workers :
    /\ job[w].at = "idle" => job[w] = IdleJob
    /\ job[w].at # "idle" => job[w].path \in Paths
    /\ job[w].at \in {"claim", "move", "stat", "upsert"} => job[w].pkg \in Packages
    /\ job[w].at = "upsert" => job[w].stat \in Stats

\* A process that is up has settings; only such a process runs a cycle, and
\* threads only work while the cycle ingests.
ProcessOK ==
  /\ worker \in {"starting", "scheduled"} => cfg \in ValidSettings
  /\ pc # "idle" => worker \in {"starting", "scheduled"}
  /\ pc # "ingest" => \A w \in Workers : job[w] = IdleJob

TypeInv == TypeOK /\ JobsOK /\ ProcessOK

\* Moving a file within the tree, or to the errors, keeps the types.
LEMMA RenameType ==
  ASSUME StoreTypeOK, NEW x \in Paths, NEW y \in Paths, Rename(x, y)
  PROVE  StoreTypeOK'
BY DEF StoreTypeOK, Rename

LEMMA MoveToErrorsType ==
  ASSUME StoreTypeOK, NEW x \in Paths, NEW reason \in Reasons,
         fs[x] # NoPackage, MoveToErrors(x, reason)
  PROVE  StoreTypeOK'
<1>1. fs' \in [Paths -> Packages \union {NoPackage}]
  BY DEF StoreTypeOK, MoveToErrors
<1>2. clock' \in Nat
  BY DEF StoreTypeOK, MoveToErrors
<1>3. [stem |-> Stem[x], reason |-> reason, second |-> clock', pkg |-> fs[x]]
        \in ErrorFiles
  BY <1>2 DEF StoreTypeOK, ErrorFiles
<1>4. errors' \subseteq ErrorFiles
  BY <1>3 DEF StoreTypeOK, MoveToErrors
<1>. QED
  BY <1>1, <1>2, <1>4 DEF StoreTypeOK, MoveToErrors

\* What the user does keeps the types.
LEMMA UserType ==
  ASSUME StoreTypeOK, UserStep
  PROVE  StoreTypeOK'
BY DEF StoreTypeOK, UserStep, Deliver, FinishCopy, Discard, PutAside

\* A step of a thread keeps its job well-formed.
LEMMA IngestType ==
  ASSUME StoreTypeOK, IngestTypeOK, JobsOK, NEW w \in Workers, IngestStep(w)
  PROVE  StoreTypeOK' /\ IngestTypeOK' /\ JobsOK'
<1>0. /\ job[w] \in Jobs
      /\ DOMAIN job = Workers
      /\ job[w].at # "idle" => job[w].path \in Paths
  BY DEF IngestTypeOK, JobsOK
<1>1. CASE Probe(w)
  <2>1. StoreTypeOK' BY <1>1 DEF Probe, StoreTypeOK, storeVars
  <2>2. IngestTypeOK' BY <1>1, <1>0 DEF Probe, StoreTypeOK, IngestTypeOK, Jobs, Steps
  <2>3. JobsOK' BY <1>1, <1>0 DEF Probe, JobsOK, IngestTypeOK, Jobs, IdleJob
  <2>. QED BY <2>1, <2>2, <2>3
<1>2. CASE ProbeFails(w)
  <2>1. StoreTypeOK' BY <1>2 DEF ProbeFails, StoreTypeOK, storeVars
  <2>2. IngestTypeOK' BY <1>2, <1>0 DEF ProbeFails, Goto, Fault, IngestTypeOK, Jobs, Steps,
     Reasons
  <2>3. JobsOK' BY <1>2, <1>0 DEF ProbeFails, Goto, JobsOK, IngestTypeOK, Jobs, IdleJob
  <2>. QED BY <2>1, <2>2, <2>3
<1>3. CASE Claim(w)
  <2>1. StoreTypeOK' BY <1>3 DEF Claim, StoreTypeOK, storeVars
  <2>2. PICK step \in {"stat", "organizer_failed", "move"} : Goto(w, step)
    BY <1>3 DEF Claim
  <2>3. IngestTypeOK'
    <3>1. job' \in [Workers -> Jobs]
      BY <1>0, <2>2 DEF Goto, IngestTypeOK, Jobs, Steps, Reasons
    <3>. QED BY <1>3, <3>1 DEF Claim, IngestTypeOK
  <2>4. job[w].pkg \in Packages
    BY <1>3 DEF Claim, JobsOK
  <2>5. JobsOK'
    BY <1>0, <1>3, <2>2, <2>4 DEF Claim, Goto, JobsOK, IngestTypeOK, Jobs
  <2>. QED BY <2>1, <2>3, <2>5
<1>4. CASE MoveToCanonical(w)
  <2>1. job[w].pkg \in Packages /\ Canonical[job[w].pkg] \in Paths
    BY <1>4 DEF MoveToCanonical, JobsOK
  <2>2. StoreTypeOK' BY <1>4, <1>0, <2>1, RenameType DEF MoveToCanonical, StoreTypeOK, storeVars
  <2>3. job' = [job EXCEPT ![w].at = "stat", ![w].path = Canonical[job[w].pkg]]
    BY <1>4 DEF MoveToCanonical
  <2>4. IngestTypeOK'
    <3>1. job' \in [Workers -> Jobs] BY <1>0, <2>1, <2>3 DEF IngestTypeOK, Jobs, Steps
    <3>. QED BY <1>4, <3>1 DEF MoveToCanonical, IngestTypeOK
  <2>5. JobsOK' BY <1>4, <1>0, <2>1, <2>3 DEF MoveToCanonical, JobsOK, IngestTypeOK, Jobs
  <2>. QED BY <2>2, <2>4, <2>5
<1>5. CASE StatAndFingerprint(w)
  <2>1. StatOf(job[w].path) \in Stats
    BY <1>5, <1>0 DEF StatAndFingerprint, StatOf, Stats, StoreTypeOK
  <2>2. StoreTypeOK' BY <1>5 DEF StatAndFingerprint, StoreTypeOK, storeVars
  <2>3. IngestTypeOK' BY <1>5, <1>0, <2>1 DEF StatAndFingerprint, IngestTypeOK, Jobs, Steps
  <2>4. JobsOK' BY <1>5, <1>0, <2>1 DEF StatAndFingerprint, JobsOK, IngestTypeOK, Jobs, IdleJob
  <2>. QED BY <2>2, <2>3, <2>4
<1>6. CASE StatFails(w)
  <2>1. StoreTypeOK' BY <1>6 DEF StatFails, StoreTypeOK, storeVars
  <2>2. IngestTypeOK' BY <1>6, <1>0 DEF StatFails, Goto, Fault, IngestTypeOK, Jobs, Steps,
     Reasons
  <2>3. JobsOK' BY <1>6, <1>0 DEF StatFails, Goto, JobsOK, IngestTypeOK, Jobs, IdleJob
  <2>. QED BY <2>1, <2>2, <2>3
<1>7. CASE Upsert(w)
  <2>1. [meta |-> job[w].pkg, stat |-> job[w].stat] \in Rows
    BY <1>7 DEF Upsert, JobsOK, Rows
  <2>2. IdleJob \in Jobs BY DEF IdleJob, Jobs, Steps
  <2>3. StoreTypeOK' BY <1>7 DEF Upsert, StoreTypeOK, storeVars
  <2>4. IngestTypeOK' BY <1>7, <2>1, <2>2 DEF Upsert, UpsertRow, IngestTypeOK
  <2>5. JobsOK' BY <1>7, <1>0 DEF Upsert, JobsOK, IngestTypeOK, IdleJob
  <2>. QED BY <2>3, <2>4, <2>5
<1>8. CASE UpsertFails(w)
  <2>1. StoreTypeOK' BY <1>8 DEF UpsertFails, StoreTypeOK, storeVars
  <2>2. IngestTypeOK' BY <1>8, <1>0 DEF UpsertFails, Goto, Fault, IngestTypeOK, Jobs, Steps
  <2>3. JobsOK' BY <1>8, <1>0 DEF UpsertFails, Goto, JobsOK, IngestTypeOK, Jobs, IdleJob
  <2>. QED BY <2>1, <2>2, <2>3
<1>9. CASE Quarantine(w)
  <2>1. job[w].at # "idle" /\ job[w].at \in Reasons BY <1>9 DEF Quarantine, Reasons
  <2>2. StoreTypeOK'
    BY <1>9, <1>0, <2>1, MoveToErrorsType DEF Quarantine, StoreTypeOK, storeVars
  <2>3. IdleJob \in Jobs BY DEF IdleJob, Jobs, Steps
  <2>4. IngestTypeOK' BY <1>9, <1>0, <2>3 DEF Quarantine, IngestTypeOK, Jobs, Steps
  <2>5. JobsOK' BY <1>9, <1>0, <2>1 DEF Quarantine, JobsOK, IngestTypeOK, Jobs, IdleJob
  <2>. QED BY <2>2, <2>4, <2>5
<1>10. CASE MoveFails(w)
  <2>1. job[w].at \in {"claim", "move"} /\ Goto(w, "organizer_failed")
    BY <1>10 DEF MoveFails
  <2>2. StoreTypeOK' BY <1>10 DEF MoveFails, StoreTypeOK, storeVars
  <2>3. IngestTypeOK'
    BY <1>10, <1>0, <2>1 DEF MoveFails, Goto, Fault, IngestTypeOK, Jobs, Steps, Reasons
  <2>4. JobsOK' BY <1>10, <1>0, <2>1 DEF MoveFails, Goto, JobsOK, IngestTypeOK, Jobs
  <2>. QED BY <2>2, <2>3, <2>4
<1>11. CASE QuarantineFails(w)
  <2>1. job[w].at \in Reasons /\ Goto(w, "raised") BY <1>11 DEF QuarantineFails
  <2>2. StoreTypeOK' BY <1>11 DEF QuarantineFails, StoreTypeOK, storeVars
  <2>3. IngestTypeOK' BY <1>11, <1>0, <2>1 DEF QuarantineFails, Goto, Fault, IngestTypeOK,
     Jobs, Steps
  <2>4. JobsOK'
    BY <1>11, <1>0, <2>1 DEF QuarantineFails, Goto, JobsOK, IngestTypeOK, Jobs, IdleJob, Reasons
  <2>. QED BY <2>2, <2>3, <2>4
<1>. QED
  BY <1>1, <1>2, <1>3, <1>4, <1>5, <1>6, <1>7, <1>8, <1>9, <1>10, <1>11 DEF IngestStep

\* Ending the cycle, in any way, leaves a state of the right type.
LEMMA AbortType ==
  ASSUME TypeInv, pc # "idle", Abort,
         UNCHANGED <<storeVars, catalog, ini, outputs>>, faults' \in Nat,
         snapshot' \in {snapshot, {}}, savedSettings' \in {savedSettings, NoSettings}
  PROVE  TypeInv'
<1>1. StoreTypeOK' BY DEF TypeInv, TypeOK, StoreTypeOK, storeVars
<1>2. IdleJob \in Jobs BY DEF IdleJob, Jobs, Steps
<1>3. IngestTypeOK' BY <1>2 DEF TypeInv, TypeOK, IngestTypeOK, Abort
<1>4. CycleTypeOK'
  BY DEF TypeInv, TypeOK, CycleTypeOK, Abort, CycleOver, ini
<1>5. JobsOK' BY DEF Abort, JobsOK, IdleJob
<1>6. ProcessOK' BY DEF TypeInv, ProcessOK, Abort, CycleOver
<1>. QED BY <1>1, <1>3, <1>4, <1>5, <1>6 DEF TypeInv, TypeOK

LEMMA InitType == Init => TypeInv
<1>. SUFFICES ASSUME Init PROVE TypeInv OBVIOUS
<1>1. StoreTypeOK BY DEF Init, StoreInit, StoreTypeOK
<1>2. IngestTypeOK BY DEF Init, IngestInit, IngestTypeOK, IdleJob, Jobs, Steps
<1>3. CycleTypeOK BY DEF Init, CycleTypeOK
<1>4. JobsOK BY DEF Init, IngestInit, JobsOK, IdleJob
<1>5. ProcessOK BY DEF Init, IngestInit, ProcessOK
<1>. QED BY <1>1, <1>2, <1>3, <1>4, <1>5 DEF TypeInv, TypeOK

LEMMA NextType == TypeInv /\ [Next]_vars => TypeInv'
<1>. SUFFICES ASSUME TypeInv, [Next]_vars PROVE TypeInv' OBVIOUS
<1>. USE DEF TypeInv, TypeOK
<1>1. CASE Boot
  BY <1>1 DEF Boot, StoreTypeOK, IngestTypeOK, CycleTypeOK, JobsOK, ProcessOK,
       storeVars, cycle, saved, ini
<1>2. CASE Crash
  <2>1. StoreTypeOK' BY <1>2 DEF Crash, StoreTypeOK, storeVars
  <2>2. IngestTypeOK'
    BY <1>2 DEF Crash, Fault, IngestTypeOK, IdleJob, Jobs, Steps
  <2>3. CycleTypeOK'
    BY <1>2 DEF Crash, CycleOver, CycleTypeOK, SnapshotCut, SettingsCut, ini
  <2>4. JobsOK' /\ ProcessOK'
    BY <1>2 DEF Crash, CycleOver, JobsOK, ProcessOK, IdleJob
  <2>. QED BY <2>1, <2>2, <2>3, <2>4
<1>3. CASE User
  <2>1. CASE EditSettings
    BY <2>1 DEF EditSettings, StoreTypeOK, IngestTypeOK, CycleTypeOK, JobsOK, ProcessOK,
       storeVars, process, cycle, saved
  <2>2. CASE /\ UserStep
             /\ UNCHANGED <<catalog, job, faults, process, cycle, saved, ini, outputs>>
    <3>1. StoreTypeOK' BY <2>2, UserType
    <3>. QED BY <2>2, <3>1 DEF IngestTypeOK, CycleTypeOK, JobsOK, ProcessOK,
               process, cycle, saved, ini
  <2>. QED BY <1>3, <2>1, <2>2 DEF User
<1>4. CASE CycleStep
  <2>1. CASE Reload
    BY <2>1 DEF Reload, StoreTypeOK, IngestTypeOK, CycleTypeOK, JobsOK, ProcessOK,
       storeVars, saved, ini
  <2>2. CASE Scan
    <3>1. Candidates \subseteq Paths
      BY DEF Candidates, ScanPkgFiles, Delta, BuildSnapshot
    <3>. QED BY <2>2, <3>1 DEF Scan, StoreTypeOK, IngestTypeOK, CycleTypeOK, JobsOK,
               ProcessOK, storeVars, process, saved, ini
  <2>3. ASSUME NEW w \in Workers, Take(w) PROVE TypeInv'
    <3>1. PICK x \in todo :
            /\ todo' = todo \ {x}
            /\ job' = [job EXCEPT ![w] = JobOn(x)]
      BY <2>3 DEF Take
    <3>2. x \in Paths BY DEF CycleTypeOK
    <3>4. StoreTypeOK' BY <2>3 DEF Take, StoreTypeOK, storeVars
    <3>5. IngestTypeOK' BY <2>3, <3>1, <3>2 DEF Take, IngestTypeOK, JobOn, Jobs, Steps
    <3>6. CycleTypeOK' BY <2>3, <3>1 DEF Take, CycleTypeOK, process, saved, ini
    <3>7. JobsOK' BY <3>1, <3>2 DEF JobsOK, IngestTypeOK, JobOn, IdleJob
    <3>8. ProcessOK' BY <2>3 DEF Take, ProcessOK, process
    <3>. QED BY <3>4, <3>5, <3>6, <3>7, <3>8
  <2>4. ASSUME NEW w \in Workers, Ingest(w) PROVE TypeInv'
    <3>1. pc = "ingest"
      BY <2>4 DEF Ingest, IngestStep, Probe, ProbeFails, Claim, MoveToCanonical, MoveFails,
         StatAndFingerprint, StatFails, Upsert, UpsertFails, Quarantine, QuarantineFails,
         Reasons, ProcessOK, IdleJob
    <3>. QED BY <2>4, <3>1, IngestType DEF Ingest, CycleTypeOK, ProcessOK, process, cycle,
               saved, ini
  <2>5. ASSUME NEW w \in Workers, Raised(w) PROVE TypeInv'
    <3>1. CASE pooled
      <4>1. job' = [job EXCEPT ![w] = IdleJob] /\ UNCHANGED <<process, cycle>>
        BY <2>5, <3>1 DEF Raised
      <4>2. IdleJob \in Jobs BY DEF IdleJob, Jobs, Steps
      <4>. QED BY <2>5, <4>1, <4>2 DEF Raised, StoreTypeOK, IngestTypeOK, CycleTypeOK,
                 JobsOK, ProcessOK, storeVars, process, cycle, saved, ini, IdleJob
    <3>2. CASE ~pooled
      <4>1. pc # "idle" BY <2>5 DEF Raised, ProcessOK, IdleJob
      <4>. QED BY <2>5, <3>2, <4>1, AbortType DEF Raised, saved, IngestTypeOK
    <3>. QED BY <3>1, <3>2 DEF CycleTypeOK
  <2>6. CASE FinalScan
    <3>1. ASSUME NEW x \in ScanPkgFiles
          PROVE  [path |-> x, stat |-> StatOf(x)] \in Entries
      <4>1. fs[x] \in Packages BY DEF ScanPkgFiles, StoreTypeOK
      <4>2. StatOf(x) \in Stats BY <4>1 DEF StatOf, Stats
      <4>. QED BY <4>2 DEF Entries, ScanPkgFiles
    <3>2. BuildSnapshot \subseteq Entries BY <3>1 DEF BuildSnapshot
    <3>. QED BY <2>6, <3>2 DEF FinalScan, StoreTypeOK, IngestTypeOK, CycleTypeOK, JobsOK,
               ProcessOK, storeVars, process, saved, ini
  <2>7. CASE Prune
    <3>1. TargetsOf[cfg] \subseteq Targets
      BY <2>7 DEF Prune, ProcessOK
    <3>. QED BY <2>7, <3>1 DEF Prune, StoreTypeOK, IngestTypeOK, CycleTypeOK, JobsOK,
               ProcessOK, storeVars, process, saved, ini
  <2>8. ASSUME NEW t \in Targets, BeginTarget(t) PROVE TypeInv'
    <3>1. CASE Unlistable(t)
      <4>1. Abort /\ pc # "idle" /\ UNCHANGED <<storeVars, catalog, faults, saved, ini, outputs>>
        BY <2>8, <3>1 DEF BeginTarget
      <4>. QED BY <4>1, AbortType DEF saved, IngestTypeOK
    <3>2. CASE ~Unlistable(t)
      BY <2>8, <3>2 DEF BeginTarget, FilesOf, StoreTypeOK, IngestTypeOK, CycleTypeOK, JobsOK,
         ProcessOK, storeVars, process, saved, ini
    <3>. QED BY <3>1, <3>2
  <2>9. ASSUME NEW f \in OutFiles, WriteFile(f) PROVE TypeInv'
    <3>1. Listing(f) \subseteq Rows
      BY DEF Listing, RowsListed, IngestTypeOK
    <3>2. cfg \in Settings BY <2>9 DEF WriteFile, ProcessOK
    <3>3. [rows |-> Listing(f), base |-> cfg] \in Listings
      BY <3>1, <3>2 DEF Listings
    <3>. QED BY <2>9, <3>3 DEF WriteFile, StoreTypeOK, IngestTypeOK, CycleTypeOK, JobsOK,
               ProcessOK, storeVars, process, saved, ini
  <2>10. ASSUME NEW f \in OutFiles, RemoveFile(f) PROVE TypeInv'
    BY <2>10 DEF RemoveFile, StoreTypeOK, IngestTypeOK, CycleTypeOK, JobsOK,
       ProcessOK, storeVars, process, saved, ini
  <2>11. CASE BeginCleanup
    BY <2>11 DEF BeginCleanup, StoreTypeOK, IngestTypeOK, CycleTypeOK, JobsOK,
       ProcessOK, storeVars, process, saved, ini
  <2>12. CASE SaveSnapshot
    BY <2>12 DEF SaveSnapshot, SavingSnapshot, StoreTypeOK, IngestTypeOK, CycleTypeOK, JobsOK,
       ProcessOK, storeVars, process, ini
  <2>13. CASE SaveSettings
    BY <2>13 DEF SaveSettings, SavingSettings, CycleOver, StoreTypeOK, IngestTypeOK,
       CycleTypeOK, JobsOK, ProcessOK, storeVars, ini
  <2>14. CASE CycleFails
    <3>1. pc # "idle" BY <2>14 DEF CycleFails
    <3>. QED BY <2>14, <3>1, AbortType DEF CycleFails, Fault, saved, IngestTypeOK
  <2>15. CASE SaveFails
    <3>1. pc # "idle" BY <2>15 DEF SaveFails, SavingSnapshot, SavingSettings
    <3>. QED BY <2>15, <3>1, AbortType DEF SaveFails, Fault, SnapshotCut, SettingsCut,
               IngestTypeOK
  <2>. QED
    BY <1>4, <2>1, <2>2, <2>3, <2>4, <2>5, <2>6, <2>7, <2>8, <2>9, <2>10, <2>11,
       <2>12, <2>13, <2>14, <2>15 DEF CycleStep
<1>5. CASE UNCHANGED vars
  BY <1>5 DEF vars, StoreTypeOK, IngestTypeOK, CycleTypeOK, JobsOK, ProcessOK,
     storeVars, process, cycle, saved, ini
<1>. QED
  BY <1>1, <1>2, <1>3, <1>4, <1>5 DEF Next

\* TypeOK, and with it that a running cycle always has settings to export
\* with and that a thread never works on a file it has not been given.
THEOREM TypeCorrect == Spec => []TypeOK
<1>1. Init => TypeInv BY InitType
<1>2. TypeInv /\ [Next]_vars => TypeInv' BY NextType
<1>3. TypeInv => TypeOK BY DEF TypeInv
<1>. QED BY <1>1, <1>2, <1>3, PTL DEF Spec

-----------------------------------------------------------------------------
(* No package is lost.                                                     *)

\* One worker thread, the default.
Sequential == \A v, w \in Workers : v = w

\* Users fill the canonical paths themselves between cycles only.
SafeDrops == QuietCycles \/ \A p \in Packages : Canonical[p] \notin DropPaths

\* No two moves to the errors happen in one second.
NewNames == 0 \notin ErrorGaps

\* From the check of the canonical path to the move it stays free; names of
\* the errors directory lie in the past.
TargetFree ==
  \A w \in Workers :
    job[w].at = "move" => fs[Canonical[job[w].pkg]] = NoPackage

ErrorsPast == \A e \in errors : e.second <= clock

KeptInv == TargetFree /\ ErrorsPast /\ NoPackageLost

\* Threads that are about to move files move them to different places.
MovesApart ==
  \A v, w \in Workers :
    job[v].at = "move" /\ job[w].at = "move"
      /\ Canonical[job[v].pkg] = Canonical[job[w].pkg] => v = w

LEMMA InitKept == Init => KeptInv
BY DEF Init, StoreInit, IngestInit, IdleJob, KeptInv, TargetFree, ErrorsPast, NoPackageLost

LEMMA UserKeeps ==
  ASSUME StoreTypeOK, NoPackageLost, UserStep
  PROVE  NoPackageLost'
<1>. USE DEF StoreTypeOK, NoPackageLost
<1>1. ASSUME NEW p \in Packages, NEW x \in Paths, Deliver(p, x) PROVE NoPackageLost'
  BY <1>1 DEF Deliver
<1>2. ASSUME NEW p \in Packages, FinishCopy(p) PROVE NoPackageLost'
  BY <1>2 DEF FinishCopy
<1>3. ASSUME NEW x \in Paths, Discard(x) PROVE NoPackageLost'
  BY <1>3 DEF Discard
<1>4. ASSUME NEW x \in Paths, PutAside(x) PROVE NoPackageLost'
  BY <1>4 DEF PutAside
<1>. QED BY <1>1, <1>2, <1>3, <1>4 DEF UserStep

LEMMA RenameKeeps ==
  ASSUME StoreTypeOK, NoPackageLost, NEW x \in Paths, NEW y \in Paths,
         fs[x] # NoPackage, fs[y] = NoPackage, Rename(x, y)
  PROVE  NoPackageLost'
<1>1. SUFFICES ASSUME NEW p \in Packages, p \notin unseen, p \notin discarded,
                      NEW z \in Paths, fs[z] = p
               PROVE  \E u \in Paths : fs'[u] = p
  BY DEF Rename, NoPackageLost
<1>2. CASE z = x  BY <1>1, <1>2 DEF Rename, StoreTypeOK
<1>3. CASE z # x  BY <1>1, <1>3 DEF Rename, StoreTypeOK
<1>. QED BY <1>2, <1>3

LEMMA MoveToErrorsKeeps ==
  ASSUME StoreTypeOK, NoPackageLost, ErrorsPast, NewNames, NEW x \in Paths,
         NEW reason \in Reasons, fs[x] # NoPackage, MoveToErrors(x, reason)
  PROVE  NoPackageLost' /\ ErrorsPast'
<1>1. clock' > clock /\ clock' \in Nat
  BY DEF MoveToErrors, NewNames, StoreTypeOK
<1>2. \A e \in errors : e.second \in Nat /\ e.second < clock'
  BY <1>1 DEF ErrorsPast, StoreTypeOK, ErrorFiles
<1>3. errors' = errors \union {[stem |-> Stem[x], reason |-> reason,
                               second |-> clock', pkg |-> fs[x]]}
  BY <1>1, <1>2 DEF MoveToErrors
<1>4. ErrorsPast'
  BY <1>1, <1>2, <1>3 DEF ErrorsPast
<1>5. NoPackageLost'
  <2>1. SUFFICES ASSUME NEW p \in Packages, p \notin unseen, p \notin discarded
                 PROVE  \/ \E y \in Paths : fs'[y] = p
                        \/ \E e \in errors' : e.pkg = p
    BY DEF MoveToErrors, NoPackageLost
  <2>2. CASE \E e \in errors : e.pkg = p  BY <2>2, <1>3
  <2>3. CASE fs[x] = p
    <3>. DEFINE new == [stem |-> Stem[x], reason |-> reason, second |-> clock', pkg |-> fs[x]]
    <3>1. new \in errors' /\ new.pkg = p  BY <2>3, <1>3
    <3>. QED BY <3>1
  <2>4. CASE \E y \in Paths \ {x} : fs[y] = p
    BY <2>4 DEF MoveToErrors, StoreTypeOK
  <2>5. (\E y \in Paths : fs[y] = p) \/ (\E e \in errors : e.pkg = p)
    BY <2>1 DEF NoPackageLost
  <2>. QED BY <2>2, <2>3, <2>4, <2>5
<1>. QED BY <1>4, <1>5

LEMMA NextKeeps ==
  ASSUME MovesApart, SafeDrops, NewNames, TypeInv, KeptInv, [Next]_vars
  PROVE  KeptInv'
<1>. USE DEF KeptInv
<1>0. StoreTypeOK /\ IngestTypeOK /\ JobsOK /\ ProcessOK BY DEF TypeInv, TypeOK
<1>1. CASE UserStep /\ (QuietCycles => pc = "idle")
           /\ UNCHANGED <<catalog, job, faults, process, cycle, saved, ini, outputs>>
  <2>1. NoPackageLost' BY <1>0, <1>1, UserKeeps
  <2>2. ErrorsPast'
    BY <1>1 DEF UserStep, Deliver, FinishCopy, Discard, PutAside, ErrorsPast
  <2>3. SUFFICES ASSUME NEW w \in Workers, job[w].at = "move"
                 PROVE  fs'[Canonical[job[w].pkg]] = NoPackage
    BY <1>1, <2>1, <2>2 DEF TargetFree
  <2>4. ~QuietCycles
    BY <1>0, <1>1, <2>3 DEF ProcessOK, IdleJob
  <2>5. job[w].pkg \in Packages /\ fs[Canonical[job[w].pkg]] = NoPackage
    BY <1>0, <2>3 DEF JobsOK, TargetFree
  <2>6. Canonical[job[w].pkg] \notin DropPaths BY <2>4, <2>5 DEF SafeDrops
  <2>. QED BY <1>0, <1>1, <2>5, <2>6 DEF UserStep, Deliver, FinishCopy, Discard, PutAside,
             StoreTypeOK
<1>2. ASSUME NEW w \in Workers, IngestStep(w) PROVE KeptInv'
  <2>1. /\ job \in [Workers -> Jobs]
        /\ job[w].at # "idle" => job[w].path \in Paths
        /\ \A v \in Workers : job[v].at = "move" =>
             job[v].pkg \in Packages /\ fs[Canonical[job[v].pkg]] = NoPackage
    BY <1>0 DEF IngestTypeOK, JobsOK, TargetFree
  <2>2. \A v \in Workers \ {w} : job'[v] = job[v]
    BY <1>2, <2>1 DEF IngestStep, Probe, ProbeFails, Claim, MoveToCanonical, MoveFails,
       StatAndFingerprint, StatFails, Upsert, UpsertFails, Quarantine, QuarantineFails, Goto
  <2>3. CASE MoveToCanonical(w)
    <3>1. /\ job[w].pkg \in Packages
          /\ job[w].path \in Paths
          /\ fs[job[w].path] # NoPackage
          /\ Rename(job[w].path, Canonical[job[w].pkg])
          /\ fs[Canonical[job[w].pkg]] = NoPackage
      BY <2>1, <2>3 DEF MoveToCanonical
    <3>2. NoPackageLost' BY <1>0, <3>1, RenameKeeps
    <3>3. ErrorsPast' BY <3>1 DEF Rename, ErrorsPast
    <3>4. job'[w].at # "move"
      BY <2>1, <2>3 DEF MoveToCanonical, Goto, Jobs
    <3>5. ASSUME NEW v \in Workers, job'[v].at = "move"
          PROVE  fs'[Canonical[job'[v].pkg]] = NoPackage
      <4>1. /\ job'[v] = job[v] /\ job[v].pkg \in Packages
            /\ fs[Canonical[job[v].pkg]] = NoPackage
            /\ Canonical[job[v].pkg] # Canonical[job[w].pkg]
        BY <2>1, <2>2, <2>3, <3>4, <3>5 DEF MovesApart, MoveToCanonical
      <4>. QED BY <1>0, <3>1, <4>1 DEF Rename, StoreTypeOK
    <3>. QED BY <3>2, <3>3, <3>5 DEF TargetFree
  <2>4. CASE Quarantine(w)
    <3>1. job[w].path \in Paths /\ job[w].at \in Reasons
      BY <2>1, <2>4 DEF Quarantine, Reasons
    <3>2. NoPackageLost' /\ ErrorsPast'
      BY <1>0, <2>4, <3>1, MoveToErrorsKeeps DEF Quarantine
    <3>3. job'[w].at # "move" /\ fs' = [fs EXCEPT ![job[w].path] = NoPackage]
      BY <2>1, <2>4 DEF Quarantine, MoveToErrors, IdleJob
    <3>4. TargetFree'
      BY <1>0, <2>1, <2>2, <3>3 DEF TargetFree, StoreTypeOK
    <3>. QED BY <3>2, <3>4
  <2>5. CASE UNCHANGED storeVars
    <3>1. NoPackageLost' /\ ErrorsPast' BY <2>5 DEF storeVars, NoPackageLost, ErrorsPast
    <3>2. ASSUME job'[w].at = "move"
          PROVE  fs[Canonical[job'[w].pkg]] = NoPackage
      BY <1>2, <2>1, <2>5, <3>2 DEF IngestStep, Probe, ProbeFails, Claim, MoveToCanonical,
         MoveFails, StatAndFingerprint, StatFails, Upsert, UpsertFails, Quarantine,
         QuarantineFails, Goto, IdleJob, Reasons, Jobs, storeVars
    <3>. QED BY <2>1, <2>2, <2>5, <3>1, <3>2 DEF TargetFree, storeVars
  <2>. QED
    BY <1>2, <2>3, <2>4, <2>5 DEF IngestStep, Probe, ProbeFails, Claim, MoveToCanonical,
       MoveFails, StatAndFingerprint, StatFails, Upsert, UpsertFails, Quarantine, QuarantineFails
<1>3. ASSUME UNCHANGED storeVars,
             \A w \in Workers : job'[w].at = "move" => job'[w] = job[w]
      PROVE  KeptInv'
  BY <1>3 DEF storeVars, TargetFree, ErrorsPast, NoPackageLost
<1>4. CASE Boot \/ EditSettings
  BY <1>3, <1>4 DEF Boot, EditSettings
<1>5. CASE Crash
  BY <1>3, <1>5 DEF Crash, IdleJob
<1>6. CASE CycleStep
  <2>1. ASSUME Abort, UNCHANGED storeVars PROVE KeptInv'
    BY <1>3, <2>1 DEF Abort, IdleJob
  <2>2. CASE Reload \/ Scan \/ FinalScan \/ Prune \/ BeginCleanup \/ SaveSnapshot \/ SaveSettings
    BY <1>3, <2>2 DEF Reload, Scan, FinalScan, Prune, BeginCleanup, SaveSnapshot, SaveSettings
  <2>3. ASSUME NEW w \in Workers, Take(w) PROVE KeptInv'
    BY <1>0, <1>3, <2>3 DEF Take, JobOn, IngestTypeOK
  <2>4. ASSUME NEW w \in Workers, Ingest(w) PROVE KeptInv'
    BY <1>2, <2>4 DEF Ingest
  <2>5. ASSUME NEW w \in Workers, Raised(w) PROVE KeptInv'
    BY <1>0, <1>3, <2>1, <2>5 DEF Raised, IdleJob, IngestTypeOK
  <2>6. ASSUME NEW t \in Targets, BeginTarget(t) PROVE KeptInv'
    BY <1>3, <2>1, <2>6 DEF BeginTarget
  <2>7. ASSUME NEW f \in OutFiles, WriteFile(f) \/ RemoveFile(f) PROVE KeptInv'
    BY <1>3, <2>7 DEF WriteFile, RemoveFile
  <2>8. CASE CycleFails \/ SaveFails
    BY <2>1, <2>8 DEF CycleFails, SaveFails
  <2>. QED BY <1>6, <2>2, <2>3, <2>4, <2>5, <2>6, <2>7, <2>8 DEF CycleStep
<1>7. CASE UNCHANGED vars
  BY <1>3, <1>7 DEF vars
<1>. QED BY <1>1, <1>4, <1>5, <1>6, <1>7 DEF Next, User

\* NoPackageLost: with one worker thread and users who leave the canonical
\* paths alone while a cycle runs, every package handed over stays in the
\* tree or in the errors through failures, crashes and settings changes.
THEOREM NothingLost ==
  ASSUME Sequential, SafeDrops, NewNames
  PROVE  Spec => []NoPackageLost
<1>1. Init => TypeInv /\ KeptInv BY InitType, InitKept
<1>2. TypeInv /\ KeptInv /\ [Next]_vars => TypeInv' /\ KeptInv'
  <2>1. MovesApart BY DEF MovesApart, Sequential
  <2>. QED BY <2>1, NextType, NextKeeps
<1>3. KeptInv => NoPackageLost BY DEF KeptInv
<1>. QED BY <1>1, <1>2, <1>3, PTL DEF Spec
=============================================================================
