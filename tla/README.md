# A TLA+ model of homebrew-cdn-m1-server

The service watches a tree of PS4 packages, moves each package to a canonical
path, keeps a catalog of them and publishes it in two formats; next to it a
small HTTP API counts and redirects downloads. This directory holds TLA+
modules translated from the code, the TLC configurations that check them on
small instances, and theorems that TLAPS checks for every value of the
constants. Paths below are relative to `src/homebrew_cdn_m1_server/` of the
repository unless they start with another directory.

## Inventory

| Part | State it keeps | Operations | What is hard |
|---|---|---|---|
| Package tree, `application/repositories/filesystem_repository.py` | `data/share/pkg/**/*.pkg`, `data/internal/errors` | scan, stat, `move_to_canonical`, `move_to_errors` | check-then-rename, names with the resolution of a second, users who act at any time |
| Ingestion, `domain/workflows/ingest_package.py` | one running call per thread | probe, move, stat and fingerprint, publisher, upsert | six steps that can each fail, and a handler that can fail itself |
| Reconcile cycle, `domain/workflows/reconcile_catalog.py`, `export_outputs.py` | lock, candidates, final snapshot | delta, sequential or pooled ingestion, prune, exports, clean-up, two saves | no step is undone: each failure or crash leaves what was done so far |
| Catalog, `application/repositories/sqlite_*.py`, `init/catalog_db.sql` | `catalog_items`, `download_counters` | upsert, prune, `list_items`, counters | transactions of several threads; one path, several versions |
| Snapshot files, `json_snapshot_repository.py`, `settings_snapshot_repository.py` | `pkgs-snapshot.json`, `settings-snapshot.json` | load, save | written in place; what they say decides what is ingested |
| Exporters, `application/exporters/` | `store.db`, `*.json` | export, clean-up | file by file; one row that does not validate |
| API, `application/hb_store_api.py` | handler threads, counters | hash, count, redirect | one sqlite connection per query, `store.db` replaced meanwhile |
| Process, `application/app.py`, `scheduler/`, `docker/entrypoint.sh` | stage of `start()`, loaded settings, stop flag, schedule | boot, start, reload, cycle, signal, shutdown, join | signals while it starts or a cycle runs, an exception in the first cycle, restarts |
| Settings, `config/`, `docker/entrypoint.sh` | `settings.ini` | load, validate; read by a second program for nginx and the status page | two parsers of one file, contents that do not validate, edits at any time |
| Probe and title metadata, `application/gateways/pkgtool_gateway.py`, `orbispatches_gateway.py` | extracted media, look-up cache | probe, extract, look-up | media shared by a game and its updates, time-outs, a cache that keeps failures |
| Start-up assets, `application/gateways/github_assets_gateway.py` | `homebrew.elf`, `remote.md5` | sync | files of two releases, downloads cut off |

How they interact: the scheduler calls the cycle in one thread, and a file
lock and `max_instances=1` keep cycles apart. The cycle owns the tree, the
catalog rows, the snapshots and the outputs; ingest threads share the tree and
the catalog with it and with each other. Users share the tree and
`settings.ini` with it. The API shares `catalog.db` and `store.db`, and nginx
serves the tree and the outputs.

What makes each part correct:

- tree: no move ever lands on another package; only bad or superfluous
  packages leave for the errors;
- cycle: a file the snapshot makes the next cycle skip is in the catalog; a
  row leaves only when its file has; outputs mirror the catalog when the
  snapshot is saved; once users and failures stop, everything gets in step;
- API: counts are exact under concurrency and never shrink, and no download is
  counted twice on the way from counters to `store.db` and back; a redirect is
  as good as the catalog allows;
- process and settings: a worker that is told to stop ends, and ends for no
  other reason than what its start or a cycle raises and bad settings; the outputs are those of one `settings.ini`;
  nginx, status page and outputs agree in the end;
- probe and metadata: a picture a row names is there and whole; a publisher is
  missing only after a failed look-up, and an export fills such gaps;
- assets: what nginx serves is whole, and of one release.

## Modules

`PackageStore` models the tree (`fs`: path to package), the quarantine and the
users. A package stands for one file handed over, so `(size, mtime_ns)`
identifies it; a copy in progress (`uploading`) changes what `stat` returns.
`Rename` replaces what is at the destination, as `shutil.move` does;
`MoveToErrors` replaces a file of the same stem, reason and second.

`IngestPackage` adds the catalog and the ingest threads. `job[w].at` is the
statement thread `w` executes next: `probe`, `claim` (the check of the
canonical path), `move`, `stat`, `upsert`, the handlers named after the reason
they pass to `move_to_errors`, and `raised` for an exception that leaves the
call. A move to a canonical path fails because the file is gone or because
mkdir or the rename raises (`MoveFails`, fault `"move"`), and the good package
goes to the errors; a move to the errors fails in the same two ways
(`QuarantineFails`, fault `"errors"`), and what it raises leaves the call. The
extraction of pictures and the publisher look-up leave rows here as they
are; they are in `PackageMetadata`.

`ReconcileCatalog` adds the process (`worker`: not running, in `start()`,
scheduled, ended), the cycle (`pc`), `settings.ini`, both snapshot files and
the outputs. A cycle is `Reload`, `Scan`, the ingestion, `FinalScan`, `Prune`,
one `BeginTarget` per target with a `WriteFile` per file, `BeginCleanup` with a
`RemoveFile` per file, `SaveSnapshot`, `SaveSettings`. `Abort` is an exception
that leaves the cycle, `Crash` the end of the container anywhere. Names are
those of the code, in TLA+ spelling.

`HbStoreApi` models `/download.php`: one thread per request, one step per
sqlite connection, and a worker that commits and prunes rows, lists them,
replaces `store.db` and removes it. A request that names no package (`Blank`) is
answered at once. `BestRows` is a set: rows of one app type and version are told
apart by `updated_at`, which any new commit of a row changes, so a look-up may
take any of them; and `Rank`, their order, may have ties. `seeded`, `counted`, `total` and `steady`
are history: the first two say what a counter should be, the third what no
number may exceed, the fourth which rows were in the catalog throughout a
request.

`CatalogMirror` is the abstract specification of the worker: packages have a
place (with the user, in the tree, aside), rows record packages on the shelf,
published files show rows. It knows no cycle, thread, snapshot or crash.
`MirroredCatalog` maps the state of `ReconcileCatalog` to it; `ImplementsMirror`
says that every step of the worker and of its users is one of its steps or
none. A package the worker destroys is at no place of `CatalogMirror`, a row
the prune drops must have an empty place, and a published file shows every
place that has a row.

`ServerSettings` has what the two readers of `settings.ini` make of one line:
`SettingsLoader` (`Loads`, `BaseUrl`) and `entrypoint.sh` (`Boots`, `Listen`,
`ShownTargets`). They differ in quotation marks, which only the loader strips,
and in a port that is no number, which the loader takes for none.

`StartupAssets` is the sync of the files of PS4-Store: one listing of the
latest release, then destination by destination skip, write to `.part`,
replace, while releases are published.

`ContainerLife` composes both with the process: `entrypoint.sh`, each call of
`start()`, the loop of `run()`, the scheduler's cycles, signals, shutdown, the
join at the end of the interpreter, and the end of the container anywhere with
the boot that follows. A cycle is cut down to the settings it loads and the
base URL each target is written with; `ReconcileCatalog` has the rest. nginx is
process 1, so a `docker stop` ends the container at whatever step the worker
is (`ContainerDown`); `Signal` is a signal the worker itself gets.

`PackageMetadata` is the rest of a row: pictures, which pkgtool extracts under
the name of the content id and which are reused when they exist, and the
publisher, whose look-ups go through a cache that keeps failures, for the
ingest threads and for the export. Every step of the call can fail
(`ExtractionFails`, `FetchFails`, `IngestionFails`): what has been extracted by
then stays, while a package is lost to the errors only before its commit.
`spoiled` and `failed` are history: which
pictures were cut off or written by two threads at once, and which look-ups
failed, in this process or an earlier one.

The modules with `MC` in front give the constants values for TLC, those ending
in `Proofs` hold the theorems. Operators
whose comment starts with "Wrong:" are variants of the definition that follows
them, as a plausible bug would make it; `PROJECT.json` says which property
finds which. No specification uses them.

    PackageStore <- IngestPackage <- ReconcileCatalog <- MirroredCatalog <- MCReconcileCatalog
    ReconcileCatalog <- ReconcileCatalogProofs <- QuietCycleProofs <- PooledCycleProofs, InSyncProofs
    CatalogMirror (instance) <- MirroredCatalog
    MirroredCatalog, PooledCycleProofs <- MirrorProofs
    HbStoreApi <- MCHbStoreApi, HbStoreApiProofs
    ServerSettings, StartupAssets <- ContainerLife <- MCContainerLife, ContainerLifeProofs
    PackageMetadata <- MCPackageMetadata, PackageMetadataProofs

### What is abstracted

- A package's contents are its canonical path (type and content id), the rank
  of its version text and whether pkgtool can read it. Content ids that the
  regular expression refuses are packages in `Broken`.
- The lock and the scheduler: cycles do not overlap, so there is one `pc`. A
  second process on the same data is not modelled.
- A cycle reads `settings.ini` twice, at `Reload` and at `Scan`; it may be
  edited in between, in every run with edits.
- `Scan` loads both snapshots, walks the tree and hashes the settings in one
  step, although a file may appear during the walk: it is then as if it had
  appeared just before or just after.
- Rows are identified by canonical path and version, as the UNIQUE constraint
  does, since the canonical path is made of type and content id.
- `store.db` is only ever written by its exporter, whose links point to
  `download.php`; the third look-up of a redirect therefore finds nothing.
- In `PackageMetadata` a package is ingested again at any time outside an
  export, which covers every delta; what the site answers is a constant.
- A move is a rename: tree and errors are below `data/`, which is one volume
  (`docker-compose.yml`). A copy between file systems that stops half-way is not
  modelled.
- In `ContainerLife` the cron text is one of empty, five fields or junk, and
  whatever `start()` or a cycle raises is one kind of failure (`"error"`): a
  locked database, a taken port, a full disk, a row fPKGi refuses, a file that
  vanished on its way to the errors. `ReconcileCatalog` tells these apart.

## Runs

| Run | Module, bounds | Checks |
|---|---|---|
| `quiet_sequential` | 3 packages (two versions of one content id, one broken), 4 paths, one thread, 2 settings, 1 edit, 2 failures of moves to errors, commits, exports and saves or the container | `NoPackageLost`, `SnapshotSound`, `SyncedWhenSaved`, `OutputsMirror`, `StaysInSync`, `RowsOnlyDropWithFile`, `QuarantineJustified`, `ImplementsMirror` |
| `quiet_pooled` | 2 packages of different paths, two threads, 1 failure of probe, move, stat or container | `NoPackageLost`, `SnapshotSound`, `SyncedWhenSaved`, `RowsOnlyDropWithFile` |
| `incoming_anytime` | 2 packages of one path, one thread, users at any time, copies that take time, 1 crash | `NoPackageLost` |
| `converging` | 2 packages, 3 settings of which one is invalid, 2 edits, 1 failure of moves, commits, exports and saves or the container, fairness | `TypeOK`, `OutputsMirror`, `Converges` |
| `api_counters` | 2 rows of a content id in two versions, 2 threads, 2 requests of 6 kinds, 1 sqlite failure | `TypeOK`, `EveryDownloadCounted`, `NumbersReal`, `AnswersBest`, `CountersGrow` |
| `container_life` | 7 settings (defaults, TLS, own port, no host and an unknown log level, a bad cron text, a quoted value, a port that is no number), 2 assets, 2 releases, 1 edit, 2 failures of GitHub, `start()` and cycles, or the container, a signal, fairness | `TypeOK`, `AssetsWhole`, `OneRelease`, `OutputsOfOneCycle`, `EndsForReason`, `StopEnds`, `Settles` |
| `package_metadata` | 4 packages (a game and its update of one content id, an update without a picture, a game that lacks the required one), 2 titles of which one has no publisher, 2 threads, 2 failures of pkgtool, moves, commits, the site or the process | `TypeOK`, `PicturesShown`, `GapsComeFromFailures`, `AuthorsComplete` |

The bounds: two packages that compete for one path and one that does not are
enough for every pair of steps on shared paths, since each step concerns one
file and one destination; two failures allow a failure during the recovery
from the first; one edit gives the settings a change, and in `converging` two
edits of three contents disable, enable and disable a target again, or pass
through settings that are invalid. Failures of probes, canonical moves and
stats are not in `quiet_sequential`: each quarantines a good package, so
`QuarantineJustified`, `StaysInSync` and `ImplementsMirror` are about packages
that do not meet one. `quiet_pooled` and `converging` have them. The models have no unbounded counter but `clock` and the
counters `faults`, `edits`, `served`, which are bounded in their guards;
`clock` advances by `ErrorGaps` at each quarantine and each package is
quarantined at most once.

In `container_life` the settings are one of each kind that a reader treats on
its own, and one edit leads from any of them to any other; two failures allow
one sync that leaves a file out, or a crash, and one more in the boot after it.
In `package_metadata` two packages of one content id and title meet in two
threads at every step, and two failures are a look-up that fails and a
restart, or two cut extractions.

`Settles` excuses three things TLC finds otherwise: settings changed since the
boot (nginx and the page are configured once), values in quotation marks (only
the worker understands them), and a worker that has ended.

Deadlock is not checked in the runs of `ReconcileCatalog` and `ContainerLife`:
a worker whose process has ended, with no packages left to hand over, really
stops. In `HbStoreApi` and `PackageMetadata` it is checked.

### Where code and documents disagree

Each of these runs checks one property that a document, a test or the code
itself claims, and TLC finds a behaviour that violates it. `PROJECT.json`,
"findings", quotes the claims.

| Run | What happens |
|---|---|
| `race_canonical` | two threads see the canonical path free, the second rename destroys the first package |
| `late_arrival` | a package that arrives during a cycle is saved in the snapshot, never ingested |
| `pooled_exception` | a failed commit in a pool thread is forgotten, the snapshot hides the package |
| `empty_version` | a package without version stops all exports and saves from then on |

The passing runs keep away from these behaviours by their constants only
(threads, drop paths, `QuietCycles`, `Faults`, versions), never by a change of
a definition. Five more behaviours can be reached by setting a constant. No run
checks them; `PROJECT.json` lists each as a hazard.

- `ErrorGaps = {0, 1}` and one stem for two inbox paths: two broken files of
  one name are quarantined in the same second and the second replaces the first
  (`NoPackageLost`).
- `Copies = TRUE`: a good package is probed and quarantined while it is being
  copied (`QuarantineJustified`); `reconcile_file_stable_seconds` is configured
  and unused.
- `"move"` in `Faults`: a good package whose move fails is quarantined as if it
  were at fault (`QuarantineJustified`).
- `Restores = TRUE` and a `"disk"` fault: a package is deleted, its row pruned,
  the cycle fails, the package is put back, and the old snapshot hides it
  (`SnapshotSound`).
- A `"db"` fault in the cycle of `start()`: the worker ends for good while the
  container stays up, which `Converges` allows.

The catalog also keeps the row of a version that another one replaced at the
same path (rows are unique by version, and the prune goes by path). No document
says otherwise; the models keep such rows and every property holds with them.

### Fairness

`FairSpec` assumes weak fairness of `Boot` (docker starts the container, and
starts it again after a crash) and of `CycleStep` (the scheduler calls a
scheduled worker for ever; a running cycle goes on, for every call it makes
returns: pkgtool runs under a time-out, unless `PKGTOOL_TIMEOUT_SECONDS` is left
empty, in which case a hung pkgtool hangs the worker). Failures are bounded by `MaxFaults`
and users act finitely often, so "once they stop" needs no further assumption.
Nothing is assumed about users, or about a worker that has ended.

`FairSpec` of `ContainerLife` assumes weak fairness of `ContainerUp` (docker's
`restart: unless-stopped`), `MainStep` and `CycleStep` (downloads, sqlite
and, with the same exception, pkgtool run under time-outs, so every call
returns). A signal, an edit, a
release and a failure need not happen.

## Proofs

The theorems about `ReconcileCatalog` come in two kinds: for one ingest thread
(`Sequential`), and for a pool of any number. What a pool needs of its users in
addition is stated over the tree and proved to survive every step of the worker:

| Hypothesis | Says | Why a pool needs it |
|---|---|---|
| `OnePerPlace` (`TidyUsers`: users leave it true) | no two packages in the tree that pkgtool can read have one canonical path | `race_canonical`: two threads that find the path free both move |
| `NoneInTheWay` (`CarefulUsers`: both) | no package is at the canonical path of another one of the tree | whether a package is quarantined depends on which thread comes first |
| `NoExceptions` | moves to errors and commits of rows succeed | `pooled_exception`: the pool forgets the exception |

A canonical path is a content id and a type, so `OnePerPlace` is one version of
each title in the tree at a time. The initial state satisfies both, and nothing
else keeps users from acting as they like between cycles.

`ReconcileCatalogProofs`

- `TypeCorrect`: `Spec => []TypeOK`. `TypeOK` alone is not inductive: a thread
  past its probe needs a package, one about to commit a stat, a cycle needs
  loaded settings (`TypeInv = TypeOK /\ JobsOK /\ ProcessOK`).
- `NothingLost`: `Spec => []NoPackageLost`, assuming `Sequential`,
  `SafeDrops` (cycles are quiet, or users keep off canonical paths)
  and `NewNames` (no two quarantines in one second). The run
  `race_canonical`, a user who acts during a cycle (the second hazard on
  `move_to_canonical`) and `ErrorGaps = {0, 1}` take one of them away each. The
  strengthening `KeptInv` says that at the move the destination is still free
  (`TargetFree`) and that every name in the errors is in the past
  (`ErrorsPast`). `NextKeeps` needs no more of the threads than that no two are
  about to move to one place (`MovesApart`).

`QuietCycleProofs`, for users who touch packages between cycles only (`QuietCycles`)

- `OutputsFollow` and `RowsFollowFiles`: `OutputsMirror` and
  `RowsOnlyDropWithFile` for any number of threads and users without further
  hypotheses. `PublishInv` says that from the final scan on the tree is as
  scanned, that from the prune on every row has a file, and which output files
  are already as they should be.
- `TrackInv` is the invariant about threads and files that the rest stands on: a
  package is at one path (`PackagesApart`, which holds whenever users act); a
  file is a candidate, or one thread's, and is there as long as it is
  (`JobsApart`); a thread's file stays what its probe saw, and the path it is
  about to move to stays free (`JobsTrack`). It is inductive with one
  thread, or under `OnePerPlace`: a thread that moves its file takes the free
  path of no other.
- `NothingHidden`: `Spec => []SnapshotSound`, assuming also `Sequential` and
  that nothing put aside comes back (`~Restores`). `SettledInv` is what makes
  it inductive. While a cycle ingests, every file is a candidate no thread has
  taken, the file of a thread, or settled (`CandidatesInv`); and an entry of a
  snapshot is about a canonical path, whose package has been nowhere else since
  (`RecordsInv`). Without the last an old entry could fit a file that arrives
  later. `PoolHidesNothing` is the theorem for a pool, under `TidyUsers` and
  `NoExceptions`.
- `OnlyJustifiedQuarantine`: `Spec => QuarantineJustified`, assuming also
  `Sequential`, and that files are whole and that pkgtool, canonical moves and
  `stat` do not fail by chance (`SoundFiles`). A re-ingested file is at its canonical path,
  and `PackagesApart` shows that a taken path holds another package.
  `PoolQuarantinesJustly` is the theorem for a pool, under `CarefulUsers`: no
  thread finds its path taken at all, so it does not matter that the taker may
  be about to move away.

`PooledCycleProofs`: `NoPackageLost` for a pool, in two ways

- `PoolLosesNothing`, whenever users act: no two packages have one canonical
  path at all (`PlacesApart`), users keep off those paths (`SafeDrops`), and
  `~Restores`. `HeldInv` says that a package some thread is about to move is
  nowhere but at that thread's path, and with no other thread. `~Restores` is
  needed: a package put aside at one inbox path and back at another during a
  cycle is probed by two threads, and the second moves whatever a user has put
  at the first path meanwhile onto it.
- `QuietPoolLosesNothing`, when they act between cycles, whatever paths
  packages share and wherever they are put, under `TidyUsers`.

`InSyncProofs`: the safety half of `Converges`

- `SavedIsSynced`, `PoolSavedIsSynced`: `SyncedWhenSaved`, a cycle that gets as
  far as saving its settings, when `settings.ini` is as it was loaded or cannot
  be loaded, leaves everything in step. It follows
  from the invariants of `OutputsFollow` and `NothingHidden`, under the
  hypotheses of the latter.
- `SyncIsKept`, `PoolSyncIsKept`: `StaysInSync`, under the hypotheses of
  `OnlyJustifiedQuarantine` and `PoolQuarantinesJustly`. Rows are of packages
  that can be read, one for each key (`RowsInv`); so a thread that works on a
  file that is in step moves nothing, quarantines nothing and finds its row as
  it would write it. `ExportsCurrent` leaves out an export that began under
  settings that were edited since.

Under these hypotheses TLC has to show for `Converges` only that, once users and
failures stop, some cycle completes.

`HbStoreApiProofs`, without assumptions beyond those on the constants

- `ApiTypeCorrect`, `AllDownloadsCounted`, `RedirectsToBest`: invariants of the
  run `api_counters` for any number of rows, requests and threads.
- `CountersNeverShrink`: the action property of that run.
- `NothingCountedTwice`: `NumbersReal`. It needs the whole circle in the
  invariant, `NumbersInv`: the counters, the listing of a running export,
  `store.db` and the seeds threads have read are all within `total`.

The invariant is `ApiInv`. Its part on threads, `ThreadInv`, carries what a
look-up found out across the steps of other threads: at `byTitle` no row that
was there throughout has the content id asked for; from `seed` on the row found
is as good as every such row. `steady` only shrinks with the catalog, so what
was established stays. `GreatestExists` and `BestRowIsBest` show that
`BestRows`, which stands for Python's `max`, is never empty and that all its
members are best.

`MirrorProofs`, with `QuietCycles`, `SoundFiles` and `NewNames`

- `WorkerMirrors`, for one thread: `Spec => ImplementsMirror`. Its invariant
  `AllInv` adds to those above that the catalog is finite (the listing picks a
  greatest row) and where packages have been (`HistoryInv`), so that a place can
  be read off the tree, the errors and the users' history. There is one lemma
  per step of `CatalogMirror` (`DeliverPuts`, `TakeAwayRemoves`,
  `RenameShelves`, `QuarantineSetsAside`, `UpsertRecords`, `PruneForgets`,
  `WritePublishes`, `RemoveWithdraws`); every other step of the worker is a
  stutter.
- `PoolMirrors`, for a pool, under `CarefulUsers`: threads take their steps in
  any order, and each step is one of `CatalogMirror`'s at the moment it happens.

`ContainerLifeProofs`, without assumptions beyond those on the constants

- `AssetsAreWhole`, `AssetsOfOneRelease`: `AssetsWhole` and `OneRelease`.
  `AssetMoves` reduces every step of the container to a step of
  `StartupAssets`; `ReleaseInv` says that either all files are there, of one
  release, or those there are from the sync that runs.
- `ContainerTypeCorrect`, `WorkerEndsForReason`: `TypeOK` and `EndsForReason`.
  `StageInv` says what the stage of the main thread implies: settings loaded
  past `load`, cycles in three stages only, a join only after a signal.
- `OutputsAgree`: `OutputsOfOneCycle`. `OutInv` says that, until `start()`
  or a cycle raises something or the container goes down, an export has left each target it is done with as the
  settings in force want it, and that nothing else touches a target.

`PackageMetadataProofs`, without assumptions beyond those on the constants

- `MetadataTypeCorrect`, `PicturesAreShown`, `GapsHaveFailed`,
  `ExportsFillGaps`: the properties of `package_metadata` for any packages,
  titles and threads. `PictureInv` follows a picture from the check to the row
  that names it: it exists from the extraction on, and is cut only while some
  thread writes it or once it is spoiled. `PublisherInv` follows an answer from
  the cache through a thread to the row and the draft of an export.

Only model-checked: liveness (`Converges`, `StopEnds`, `Settles`, and the
refutations of `Converges`), which with `ENABLED` is outside of what TLAPS
proves. Every other property of a passing run is stated by a theorem. A user who puts
packages aside and back (`Restores`) makes the instances too large for TLC;
that case rests on the theorems without `~Restores`.

## Not modelled, and why

- The locations and caches of nginx, the Dockerfile, logging: no state of the
  service. What nginx listens on and what the status page shows is modelled.
- The text of exported fields, the parsing of PARAM.SFO and of database
  columns: no property above depends on it. Versions are ranks, in one order;
  the code compares their text in three ways, which differ on text only.
- `/api.php`, which reads one file and changes nothing.
- The migration of an old database schema, which runs once, in one statement
  of `start()` (`InitializeLayoutAndSchema`).
- SQLite's limit on variables in `delete_by_pkg_paths_not_in`: a hazard beyond
  any instance TLC can enumerate.
- An empty `store.db` that sqlite creates when the file is removed between
  `exists()` and `connect()`: its reads fail and count 0, as `QueryFails` does.

## Plan

1. `PackageVersions`: the three version orders (padded tuples, trimmed tuples,
   text) and `_resolve_version` against reference definitions over bounded
   inputs.
2. `ServedDownloads`: the API composed with the package tree and the exports,
   for redirects to files that move.
3. Two processes on one lock.
