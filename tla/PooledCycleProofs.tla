-------------------------- MODULE PooledCycleProofs --------------------------
(***************************************************************************)
(* NoPackageLost for a pool of any number of threads.  Two threads never   *)
(* move packages to one place, either because no two packages have one     *)
(* place, whenever users act, or because users touch packages between      *)
(* cycles only and keep one package of a place in the tree at a time.      *)
(***************************************************************************)
EXTENDS QuietCycleProofs

USE PackagesAssumption, WorkersAssumption, SettingsAssumption

-----------------------------------------------------------------------------
(* Every package has a place of its own.  Users act at any time.           *)

PlacesApart == \A p, q \in Packages : Canonical[p] = Canonical[q] => p = q

\* A thread that has not moved its file yet, one that knows its package.
Open(w) == job[w].at \in {"probe", "claim", "move"}
Moving(w) == job[w].at \in {"claim", "move"}

\* Open threads have different files.  A package that some thread is about to
\* move is nowhere but at that thread's path, and no other thread has it.
HeldInv ==
  /\ \A w \in Workers : Open(w) => job[w].path \notin todo
  /\ \A v, w \in Workers : Open(v) /\ Open(w) /\ job[v].path = job[w].path => v = w
  /\ \A w \in Workers : Moving(w) =>
       /\ job[w].pkg \notin unseen
       /\ \A x \in Paths : fs[x] = job[w].pkg => x = job[w].path
  /\ \A v, w \in Workers : Moving(v) /\ Moving(w) /\ job[v].pkg = job[w].pkg => v = w

LEMMA InitHeld == Init => HeldInv
BY DEF Init, IngestInit, HeldInv, Open, Moving, IdleJob

\* Threads go idle or stay, the tree and the candidates stay.
LEMMA RestHeld ==
  ASSUME HeldInv, UNCHANGED storeVars,
         \A w \in Workers : job'[w] = job[w] \/ job'[w].at = "idle",
         todo' \subseteq todo \/ \A w \in Workers : job'[w].at = "idle"
  PROVE  HeldInv'
BY DEF HeldInv, Open, Moving, storeVars

LEMMA IngestHolds ==
  ASSUME TypeInv, PackagesApart, HeldInv, NEW w \in Workers, IngestStep(w), UNCHANGED todo
  PROVE  HeldInv'
<1>0. /\ job \in [Workers -> Jobs] /\ fs \in [Paths -> Packages \union {NoPackage}]
      /\ job[w].at # "idle" => job[w].path \in Paths
      /\ Moving(w) => job[w].pkg \in Packages
  BY DEF TypeInv, TypeOK, StoreTypeOK, IngestTypeOK, JobsOK, Moving
<1>1. /\ \A v \in Workers \ {w} : job'[v] = job[v]
      /\ UNCHANGED unseen
  BY <1>0 DEF IngestStep, Probe, ProbeFails, Claim, MoveToCanonical, MoveFails,
     StatAndFingerprint, StatFails, Upsert, UpsertFails, Quarantine, QuarantineFails, Goto,
     storeVars, Rename, MoveToErrors
\* The others keep hold of their files, when theirs are not put elsewhere.
<1>2. ASSUME \A v \in Workers \ {w}, y \in Paths :
               Moving(v) /\ fs'[y] = job[v].pkg => y = job[v].path,
             Open(w)' => Open(w) /\ job'[w].path = job[w].path,
             Moving(w)' =>
               /\ job'[w].pkg \notin unseen
               /\ \A y \in Paths : fs'[y] = job'[w].pkg => y = job[w].path
               /\ \A v \in Workers \ {w} : Moving(v) => job[v].pkg # job'[w].pkg
      PROVE  HeldInv'
  <2>1. ASSUME NEW v \in Workers, Open(v)' PROVE Open(v) /\ job'[v].path = job[v].path
    BY <1>1, <1>2, <2>1 DEF Open
  <2>2. ASSUME NEW v \in Workers \ {w}, Moving(v)' PROVE Moving(v) /\ job'[v] = job[v]
    BY <1>1, <2>2 DEF Moving
  <2>3. ASSUME NEW v \in Workers, NEW u \in Workers, Open(v)', Open(u)',
               job'[v].path = job'[u].path
        PROVE  v = u
    BY <2>1, <2>3 DEF HeldInv
  <2>4. ASSUME NEW v \in Workers, Moving(v)'
        PROVE  /\ job'[v].pkg \notin unseen'
               /\ \A y \in Paths : fs'[y] = job'[v].pkg => y = job'[v].path
    <3>1. CASE v = w
      <4>1. job'[w].path = job[w].path BY <2>1, <2>4, <3>1 DEF Moving, Open
      <4>. QED BY <1>1, <1>2, <2>4, <3>1, <4>1
    <3>2. CASE v # w
      BY <1>1, <1>2, <2>2, <2>4, <3>2 DEF HeldInv
    <3>. QED BY <3>1, <3>2
  <2>5. ASSUME NEW v \in Workers, NEW u \in Workers, Moving(v)', Moving(u)',
               job'[v].pkg = job'[u].pkg
        PROVE  v = u
    BY <1>2, <2>2, <2>5 DEF HeldInv
  <2>6. ASSUME NEW v \in Workers, Open(v)' PROVE job'[v].path \notin todo'
    BY <2>1, <2>6 DEF HeldInv
  <2>. QED BY <2>3, <2>4, <2>5, <2>6 DEF HeldInv
<1>3. CASE Probe(w)
  <2>1. /\ Open(w) /\ job'[w].path = job[w].path /\ job'[w].pkg = fs[job[w].path]
        /\ fs[job[w].path] \in Packages /\ job[w].path \in Paths
        /\ fs' = fs
    BY <1>0, <1>3 DEF Probe, Open, Jobs, storeVars
  <2>2. ASSUME NEW v \in Workers \ {w}, Moving(v) PROVE job[v].pkg # fs[job[w].path]
    BY <2>1, <2>2 DEF HeldInv, Moving, Open
  <2>3. \A y \in Paths : fs[y] = fs[job[w].path] => y = job[w].path
    BY <2>1 DEF PackagesApart
  <2>4. fs[job[w].path] \notin unseen
    BY <2>1 DEF PackagesApart
  <2>. QED BY <1>2, <2>1, <2>2, <2>3, <2>4 DEF HeldInv
<1>4. CASE Claim(w)
  <2>1. /\ Open(w) /\ Moving(w) /\ job'[w].path = job[w].path /\ job'[w].pkg = job[w].pkg
        /\ fs' = fs
    BY <1>0, <1>4 DEF Claim, Goto, Open, Moving, Jobs, storeVars
  <2>. QED BY <1>2, <2>1 DEF HeldInv
<1>5. CASE MoveToCanonical(w)
  <2>. DEFINE x == job[w].path
              t == Canonical[job[w].pkg]
  <2>1. /\ x \in Paths /\ t \in Paths /\ Open(w)
        /\ fs' = [fs EXCEPT ![t] = fs[x], ![x] = NoPackage]
    BY <1>0, <1>5 DEF MoveToCanonical, Rename, Open, Moving
  <2>2. ~Open(w)' /\ ~Moving(w)'
    BY <1>0, <1>5 DEF MoveToCanonical, Open, Moving, Jobs
  <2>3. ASSUME NEW v \in Workers \ {w}, NEW y \in Paths, Moving(v), fs'[y] = job[v].pkg
        PROVE  y = job[v].path
    <3>1. job[v].pkg \in Packages BY <2>3 DEF Moving, TypeInv, JobsOK
    <3>2. fs[x] # job[v].pkg BY <2>1, <2>3 DEF HeldInv, Moving, Open
    <3>3. fs[y] = job[v].pkg BY <1>0, <2>1, <2>3, <3>1, <3>2
    <3>. QED BY <2>3, <3>3 DEF HeldInv
  <2>. QED BY <1>2, <2>2, <2>3
<1>6. CASE Quarantine(w)
  <2>1. /\ fs' = [fs EXCEPT ![job[w].path] = NoPackage]
        /\ ~Open(w)' /\ ~Moving(w)'
    BY <1>0, <1>6 DEF Quarantine, MoveToErrors, Reasons, Open, Moving, Jobs, IdleJob
  <2>2. ASSUME NEW v \in Workers \ {w}, NEW y \in Paths, Moving(v), fs'[y] = job[v].pkg
        PROVE  y = job[v].path
    <3>1. job[v].pkg \in Packages BY <2>2 DEF Moving, TypeInv, JobsOK
    <3>. QED BY <1>0, <2>1, <2>2, <3>1 DEF HeldInv
  <2>. QED BY <1>2, <2>1, <2>2
<1>7. CASE UNCHANGED storeVars /\ ~Probe(w) /\ ~Claim(w)
  <2>1. ~Open(w)' /\ ~Moving(w)'
    BY <1>0, <1>7 DEF IngestStep, ProbeFails, MoveToCanonical, MoveFails, StatAndFingerprint,
       StatFails, Upsert, UpsertFails, Quarantine, QuarantineFails, Goto, Reasons, Open,
       Moving, Jobs, IdleJob
  <2>. QED BY <1>2, <1>7, <2>1 DEF HeldInv, storeVars
<1>. QED
  BY <1>3, <1>4, <1>5, <1>6, <1>7 DEF IngestStep, ProbeFails, MoveToCanonical, MoveFails,
     StatAndFingerprint, StatFails, Upsert, UpsertFails, Quarantine, QuarantineFails

LEMMA NextHolds ==
  ASSUME ~Restores, TypeInv, PackagesApart, HeldInv, [Next]_vars
  PROVE  HeldInv'
<1>0. /\ job \in [Workers -> Jobs] /\ fs \in [Paths -> Packages \union {NoPackage}]
      /\ \A w \in Workers : pc # "ingest" => job[w] = IdleJob
      /\ todo \subseteq Paths
  BY DEF TypeInv, TypeOK, StoreTypeOK, IngestTypeOK, ProcessOK, CycleTypeOK
<1>1. ASSUME UserStep, UNCHANGED <<job, cycle>> PROVE HeldInv'
  <2>1. \A w \in Workers : Moving(w) => job[w].pkg \in Packages
    BY DEF Moving, TypeInv, JobsOK
  <2>2. unseen' \subseteq unseen
    BY <1>1 DEF UserStep, Deliver, FinishCopy, Discard, PutAside
  <2>3. \A y \in Paths : fs'[y] \in Packages => fs'[y] = fs[y] \/ fs'[y] \in unseen
    BY <1>0, <1>1 DEF UserStep, Deliver, FinishCopy, Discard, PutAside
  <2>. QED BY <1>1, <2>1, <2>2, <2>3 DEF HeldInv, Moving, Open, cycle
<1>2. CASE Boot \/ EditSettings
  BY <1>2, RestHeld DEF Boot, EditSettings, cycle
<1>3. ASSUME CycleOver, job' = [w \in Workers |-> IdleJob], UNCHANGED storeVars
      PROVE  HeldInv'
  BY <1>3, RestHeld DEF CycleOver, IdleJob
<1>4. CASE Crash
  BY <1>3, <1>4 DEF Crash
<1>5. CASE CycleStep
  <2>1. ASSUME Abort, UNCHANGED storeVars PROVE HeldInv'
    BY <1>3, <2>1 DEF Abort
  <2>2. ASSUME NEW w \in Workers, Take(w) PROVE HeldInv'
    <3>1. PICK x \in todo : todo' = todo \ {x} /\ job' = [job EXCEPT ![w] = JobOn(x)]
      BY <2>2 DEF Take
    <3>2. /\ Open(w)' /\ ~Moving(w)' /\ job'[w].path = x
          /\ \A v \in Workers \ {w} : job'[v] = job[v]
          /\ UNCHANGED storeVars
      BY <1>0, <2>2, <3>1 DEF Take, JobOn, Open, Moving
    <3>3. \A v \in Workers \ {w} : Open(v)' = Open(v) /\ Moving(v)' = Moving(v)
      BY <3>2 DEF Open, Moving
    <3>. QED BY <3>1, <3>2, <3>3 DEF HeldInv, storeVars
  <2>3. ASSUME NEW w \in Workers, Ingest(w) PROVE HeldInv'
    BY <2>3, IngestHolds DEF Ingest, cycle
  <2>4. ASSUME NEW w \in Workers, Raised(w) PROVE HeldInv'
    BY <1>0, <2>1, <2>4, RestHeld DEF Raised, IdleJob, cycle
  <2>5. ASSUME NEW t \in Targets, BeginTarget(t) PROVE HeldInv'
    BY <2>1, <2>5, RestHeld DEF BeginTarget
  <2>6. ASSUME NEW f \in OutFiles, WriteFile(f) \/ RemoveFile(f) PROVE HeldInv'
    BY <2>6, RestHeld DEF WriteFile, RemoveFile
  <2>7. CASE Scan
    BY <1>0, <2>7, RestHeld DEF Scan, IdleJob
  <2>8. CASE Reload \/ FinalScan \/ Prune \/ BeginCleanup \/ SaveSnapshot
    BY <2>8, RestHeld DEF Reload, FinalScan, Prune, BeginCleanup, SaveSnapshot
  <2>9. CASE SaveSettings
    BY <1>0, <2>9, RestHeld DEF SaveSettings, SavingSettings, CycleOver, IdleJob
  <2>10. CASE CycleFails \/ SaveFails
    BY <2>1, <2>10 DEF CycleFails, SaveFails
  <2>. QED
    BY <1>5, <2>2, <2>3, <2>4, <2>5, <2>6, <2>7, <2>8, <2>9, <2>10 DEF CycleStep
<1>6. CASE UNCHANGED vars
  BY <1>6, RestHeld DEF vars, cycle
<1>. QED BY <1>1, <1>2, <1>4, <1>5, <1>6 DEF Next, User

\* NoPackageLost for a pool of any size and users who act at any time: they
\* hand over one package per canonical path, leave those paths to the worker
\* and put no package aside and back, which would give it to two threads.
THEOREM PoolLosesNothing ==
  ASSUME PlacesApart, ~Restores, SafeDrops, NewNames
  PROVE  Spec => []NoPackageLost
<1>. DEFINE Inv == TypeInv /\ PackagesApart /\ HeldInv /\ KeptInv
<1>1. Init => Inv
  BY InitType, InitTrack, InitHeld, InitKept DEF TrackInv
<1>2. Inv => MovesApart
  BY DEF TypeInv, JobsOK, HeldInv, Moving, MovesApart, PlacesApart
<1>3. Inv /\ [Next]_vars => Inv'
  BY <1>2, NextType, NextApart, NextHolds, NextKeeps
<1>4. Inv => NoPackageLost BY DEF KeptInv
<1>. QED BY <1>1, <1>3, <1>4, PTL DEF Spec

-----------------------------------------------------------------------------
(* Packages may share a place.  Users act between cycles.                  *)

\* Two threads at one place would have one package, and so one file.
LEMMA TidyMovesApart ==
  ASSUME OnePerPlace, TypeInv, TrackInv
  PROVE  MovesApart
<1>. SUFFICES ASSUME NEW v \in Workers, NEW w \in Workers,
                     job[v].at = "move", job[w].at = "move",
                     Canonical[job[v].pkg] = Canonical[job[w].pkg]
              PROVE  v = w
  BY DEF MovesApart
<1>1. /\ job[v].path \in Paths /\ Readable(job[v].path) /\ fs[job[v].path] = job[v].pkg
      /\ job[w].path \in Paths /\ Readable(job[w].path) /\ fs[job[w].path] = job[w].pkg
  BY DEF TypeInv, JobsOK, TrackInv, JobsTrack, Readable
<1>2. job[v].path = job[w].path
  BY <1>1 DEF OnePerPlace
<1>. QED BY <1>2 DEF TrackInv, JobsApart, Busy

\* NoPackageLost for a pool of any size, whatever places packages share and
\* wherever users put them, when they act between cycles and never leave
\* two packages of one place in the tree.
THEOREM QuietPoolLosesNothing ==
  ASSUME QuietCycles, NewNames
  PROVE  Spec /\ TidyUsers => []NoPackageLost
<1>. DEFINE Inv == TypeInv /\ TrackInv /\ OnePerPlace /\ KeptInv
<1>1. Init => Inv
  BY InitType, InitTrack, InitTidy, InitKept
<1>2. Inv /\ [Next]_vars /\ [UserStep => OnePerPlace']_vars => Inv'
  BY NextType, NextTrack, TidyStep, TidyMovesApart, NextKeeps DEF SafeDrops
<1>3. Inv => NoPackageLost BY DEF KeptInv
<1>. QED BY <1>1, <1>2, <1>3, PTL DEF Spec, TidyUsers
=============================================================================
