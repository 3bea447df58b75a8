---------------------------- MODULE IngestPackage ----------------------------
(***************************************************************************)
(* IngestPackage.__call__, run by the workers of a reconcile cycle, one    *)
(* action per step that other threads or the user can come between: probe  *)
(* the file, compare its path with the canonical one, move it, stat it,    *)
(* commit its catalog row.  A failed step quarantines the file; what       *)
(* quarantining or committing raises escapes the call.                     *)
(***************************************************************************)
EXTENDS PackageStore

CONSTANTS
  Workers,      \* the threads that ingest: RECONCILE_PKG_PREPROCESS_WORKERS
  Faults,       \* the kinds of failure of the surroundings that are allowed
  MaxFaults     \* bound: how many of them happen

ASSUME WorkersAssumption ==
  /\ Workers # {}
  /\ Faults \subseteq {"probe", "move", "stat", "errors", "db", "disk", "crash"}
  /\ MaxFaults \in Nat

VARIABLES
  catalog,      \* the rows of catalog_items
  job,          \* job[w] = what worker w is doing
  faults        \* failures so far (counts up to MaxFaults)

\* A row is written from the probe of one package and the stat of one file.
Rows == [meta : Packages, stat : Stats]

Steps == {"idle", "probe", "claim", "move", "stat", "upsert", "raised"}
           \union Reasons

\* path, pkg and stat hold the parameter pkg_path (then canonical_path), the
\* probe and the (size, mtime_ns) of the running call.
Jobs == [at : Steps, path : Paths \union {NoPackage},
         pkg : Packages \union {NoPackage}, stat : Stats \union {NoPackage}]

IdleJob == [at |-> "idle", path |-> NoPackage, pkg |-> NoPackage,
            stat |-> NoPackage]

JobOn(x) == [at |-> "probe", path |-> x, pkg |-> NoPackage, stat |-> NoPackage]

IngestTypeOK ==
  /\ catalog \subseteq Rows
  /\ job \in [Workers -> Jobs]
  /\ faults \in Nat

IngestInit ==
  /\ catalog = {}
  /\ job = [w \in Workers |-> IdleJob]
  /\ faults = 0

Fault(kind) ==
  /\ kind \in Faults
  /\ faults < MaxFaults
  /\ faults' = faults + 1

Goto(w, step) == job' = [job EXCEPT ![w].at = step]

-----------------------------------------------------------------------------

\* The file is gone or unreadable, or half copied and pkgtool gives up on it,
\* or pkgtool times out.
ProbeFails(w) ==
  /\ job[w].at = "probe"
  /\ LET p == fs[job[w].path]
     IN  \/ p \in Broken \union uploading \union {NoPackage}  /\ UNCHANGED faults
         \/ Fault("probe")
  /\ Goto(w, "probe_failed")
  /\ UNCHANGED <<storeVars, catalog>>

Probe(w) ==
  /\ job[w].at = "probe"
  /\ fs[job[w].path] \in Packages \ Broken
  /\ job' = [job EXCEPT ![w].at = "claim", ![w].pkg = fs[job[w].path]]
  /\ UNCHANGED <<storeVars, catalog, faults>>

\* Wrong: the move replaces a package that is at the canonical path.
ClaimUnchecked(w) ==
  /\ job[w].at = "claim"
  /\ Goto(w, IF job[w].path = Canonical[job[w].pkg] THEN "stat" ELSE "move")
  /\ UNCHANGED <<storeVars, catalog, faults>>

\* Wrong: a file at its canonical path counts as taking its own place.
ClaimUnresolved(w) ==
  /\ job[w].at = "claim"
  /\ Goto(w, IF fs[Canonical[job[w].pkg]] # NoPackage
               THEN "organizer_failed" ELSE "move")
  /\ UNCHANGED <<storeVars, catalog, faults>>

\* move_to_canonical up to the move: a file that already is at its canonical
\* path stays, a taken path raises FileExistsError.
Claim(w) ==
  /\ job[w].at = "claim"
  /\ LET target == Canonical[job[w].pkg]
     IN  \/ job[w].path = target  /\ Goto(w, "stat")
         \/ /\ job[w].path # target
            /\ fs[target] # NoPackage
            /\ Goto(w, "organizer_failed")
         \/ /\ job[w].path # target
            /\ fs[target] = NoPackage
            /\ Goto(w, "move")
  /\ UNCHANGED <<storeVars, catalog, faults>>

\* The move itself takes whatever file the path holds by now.
MoveToCanonical(w) ==
  /\ job[w].at = "move"
  /\ fs[job[w].path] # NoPackage
  /\ LET target == Canonical[job[w].pkg]
     IN  /\ Rename(job[w].path, target)
         /\ job' = [job EXCEPT ![w].at = "stat", ![w].path = target]
  /\ UNCHANGED <<catalog, faults>>

\* The file is gone, or the system refuses the move; it may also refuse the
\* directory, which is made even for a file that is at its canonical path.
MoveFails(w) ==
  /\ \/ job[w].at = "move" /\ fs[job[w].path] = NoPackage /\ UNCHANGED faults
     \/ job[w].at \in {"claim", "move"} /\ Fault("move")
  /\ Goto(w, "organizer_failed")
  /\ UNCHANGED <<storeVars, catalog>>

\* stat and fingerprint_pkg of the file at the canonical path.
StatFails(w) ==
  /\ job[w].at = "stat"
  /\ \/ fs[job[w].path] = NoPackage  /\ UNCHANGED faults
     \/ Fault("stat")
  /\ Goto(w, "fingerprint_failed")
  /\ UNCHANGED <<storeVars, catalog>>

StatAndFingerprint(w) ==
  /\ job[w].at = "stat"
  /\ fs[job[w].path] # NoPackage
  /\ job' = [job EXCEPT ![w].at = "upsert", ![w].stat = StatOf(job[w].path)]
  /\ UNCHANGED <<storeVars, catalog, faults>>

\* upsert: ON CONFLICT(content_id, app_type, version) DO UPDATE.
UpsertRow(row) ==
  catalog' = {r \in catalog : Key(r.meta) # Key(row.meta)} \union {row}

\* The unit of work: upsert and commit, or an error that escapes.
Upsert(w) ==
  /\ job[w].at = "upsert"
  /\ UpsertRow([meta |-> job[w].pkg, stat |-> job[w].stat])
  /\ job' = [job EXCEPT ![w] = IdleJob]
  /\ UNCHANGED <<storeVars, faults>>

UpsertFails(w) ==
  /\ job[w].at = "upsert"
  /\ Fault("db")
  /\ Goto(w, "raised")
  /\ UNCHANGED <<storeVars, catalog>>

\* move_to_errors in the handlers.
Quarantine(w) ==
  /\ job[w].at \in Reasons
  /\ fs[job[w].path] # NoPackage
  /\ MoveToErrors(job[w].path, job[w].at)
  /\ job' = [job EXCEPT ![w] = IdleJob]
  /\ UNCHANGED <<catalog, faults>>

\* The file is gone, or the system refuses the move and the file stays: the
\* error escapes.
QuarantineFails(w) ==
  /\ job[w].at \in Reasons
  /\ \/ fs[job[w].path] = NoPackage  /\ UNCHANGED faults
     \/ Fault("errors")
  /\ Goto(w, "raised")
  /\ UNCHANGED <<storeVars, catalog>>

IngestStep(w) ==
  \/ Probe(w) \/ ProbeFails(w)
  \/ Claim(w) \/ MoveToCanonical(w) \/ MoveFails(w)
  \/ StatAndFingerprint(w) \/ StatFails(w)
  \/ Upsert(w) \/ UpsertFails(w)
  \/ Quarantine(w) \/ QuarantineFails(w)

=============================================================================
