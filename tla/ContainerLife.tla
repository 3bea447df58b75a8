---------------------------- MODULE ContainerLife ----------------------------
(***************************************************************************)
(* One container from boot to end: entrypoint.sh configures nginx and the  *)
(* status page, starts the worker beside nginx and becomes nginx. WorkerApp *)
(* starts, runs a first cycle itself and then leaves cycles to a scheduler  *)
(* thread, until it is told to stop. A cycle is cut down here to the        *)
(* settings it works with and the outputs it writes: ReconcileCatalog has   *)
(* the rest.                                                               *)
(***************************************************************************)
EXTENDS ServerSettings, StartupAssets

CONSTANTS
  Settings,      \* what settings.ini may say
  Certs,         \* whether certificate and key are there
  Down,          \* nginx does not run
  Missing,       \* an output that is not there
  NoSettings,    \* nothing loaded yet
  MaxFaults,     \* bound on failures, of all kinds together
  MaxEdits       \* bound on edits of settings.ini

ASSUME ContainerAssumption ==
  /\ \A s \in Settings : IsSettings(s) /\ Listen(s) # Down
  /\ Certs \in BOOLEAN
  /\ NoSettings \notin Settings
  /\ MaxFaults \in Nat
  /\ MaxEdits \in Nat

\* A failing GitHub; an exception of start() or of a cycle, whatever raised it
\* (a locked database, a taken port, a full disk, a row fPKGi refuses, a file
\* that vanished on its way to errors); the end of the container.
FaultKinds == {"net", "error", "down"}

\* start() by its calls, then the loop of run(), and the join of the threads
\* of the scheduler when the interpreter ends.
Stages == {"none", "load", "layout", "api", "assets", "first", "schedule",
           "serving", "joining", "ended"}

VARIABLES
  ini,           \* settings.ini
  edits,
  faults,        \* faults[k] = the failures of kind k so far
  nginx,         \* the address nginx serves
  page,          \* the targets the status page shows
  booted,        \* what entrypoint.sh read (history)
  main,          \* the stage the worker's main thread has come to
  cfg,           \* WorkerApp._config
  stop,          \* _should_stop
  cycle,         \* the cycle that runs, in whichever thread
  todo,          \* the targets it has still to export or clean up
  outputs        \* outputs[t] = the base URL target t was written with

worker == <<main, cfg, stop>>
cycling == <<cycle, todo, outputs>>
container == <<nginx, page, booted>>
outside == <<ini, edits>>
vars == <<outside, faults, container, worker, cycling, assetVars>>

Urls == {BaseUrl(s) : s \in Settings}

TypeOK ==
  /\ AssetTypeOK
  /\ ini \in Settings
  /\ edits \in 0 .. MaxEdits
  /\ faults \in [FaultKinds -> 0 .. MaxFaults]
  /\ nginx \in {Down} \union {Listen(s) : s \in Settings}
  /\ page \subseteq OutputTargets
  /\ booted \in Settings \union {NoSettings}
  /\ main \in Stages
  /\ cfg \in {s \in Settings : Loads(s)} \union {NoSettings}
  /\ stop \in BOOLEAN
  /\ cycle \in {"none", "reload", "ingest", "export"}
  /\ todo \subseteq OutputTargets
  /\ outputs \in [OutputTargets -> Urls \union {Missing}]

Init ==
  /\ AssetInit
  /\ ini \in Settings
  /\ edits = 0
  /\ faults = [k \in FaultKinds |-> 0]
  /\ nginx = Down
  /\ page = {}
  /\ booted = NoSettings
  /\ main = "none"
  /\ cfg = NoSettings
  /\ stop = FALSE
  /\ cycle = "none"
  /\ todo = {}
  /\ outputs = [t \in OutputTargets |-> Missing]

Fault(k) ==
  /\ faults["net"] + faults["error"] + faults["down"] < MaxFaults
  /\ faults' = [faults EXCEPT ![k] = @ + 1]

GoesOn(stage) == main' = stage /\ UNCHANGED <<cfg, stop>>

-----------------------------------------------------------------------------
(* Around the worker.                                                      *)

Edit ==
  /\ edits < MaxEdits
  /\ edits' = edits + 1
  /\ ini' \in Settings \ {ini}
  /\ UNCHANGED <<faults, container, worker, cycling, assetVars>>

\* entrypoint.sh, which docker runs again and again while it exits.
ContainerUp ==
  /\ nginx = Down
  /\ Boots(ini, Certs)
  /\ nginx' = Listen(ini)
  /\ page' = ShownTargets(ini)
  /\ booted' = ini
  /\ main' = "load"
  /\ cfg' = NoSettings
  /\ stop' = FALSE
  /\ UNCHANGED <<outside, faults, cycling, assetVars>>

\* nginx is the first process: with it the container ends, wherever the worker is.
ContainerDown ==
  /\ nginx # Down
  /\ Fault("down")
  /\ nginx' = Down
  /\ main' = "none"
  /\ cycle' = "none"
  /\ todo' = {}
  /\ IF Syncing THEN SyncOver /\ UNCHANGED <<assets, release>>
                ELSE UNCHANGED assetVars
  /\ UNCHANGED <<outside, page, booted, cfg, stop, outputs>>

\* SIGTERM or SIGINT for the worker. It ends at once while the settings load,
\* for the handlers are installed later.
Signal ==
  /\ main \notin {"none", "ended"}
  /\ ~stop
  /\ stop' = TRUE
  /\ main' = IF main = "load" THEN "ended" ELSE main
  /\ UNCHANGED <<outside, faults, container, cfg, cycling, assetVars>>

NewRelease ==
  /\ PublishRelease
  /\ UNCHANGED <<outside, faults, container, worker, cycling>>

-----------------------------------------------------------------------------
(* The main thread.                                                        *)

LoadSettings ==
  /\ main = "load"
  /\ IF Loads(ini) THEN main' = "layout" /\ cfg' = ini
                   ELSE main' = "ended" /\ UNCHANGED cfg
  /\ UNCHANGED <<outside, faults, container, stop, cycling, assetVars>>

InitializeLayoutAndSchema ==
  /\ main = "layout"
  /\ GoesOn("api")
  /\ UNCHANGED <<outside, faults, container, cycling, assetVars>>

StartApi ==
  /\ main = "api"
  /\ GoesOn("assets")
  /\ UNCHANGED <<outside, faults, container, cycling, assetVars>>

\* Nothing in run() catches what start() raises.
StartFails ==
  /\ main \in {"layout", "api"}
  /\ Fault("error")
  /\ GoesOn("ended")
  /\ UNCHANGED <<outside, container, cycling, assetVars>>

FirstCycle ==
  /\ main' = "first"
  /\ cycle' = "reload"
  /\ UNCHANGED <<outside, container, cfg, stop, todo, outputs>>

NoAssets ==
  /\ main = "assets"
  /\ "hb-store" \notin cfg.targets
  /\ FirstCycle
  /\ UNCHANGED <<faults, assetVars>>

StartSync ==
  /\ main = "assets"
  /\ "hb-store" \in cfg.targets
  /\ ~Syncing
  /\ BeginSync
  /\ UNCHANGED <<outside, faults, container, worker, cycling>>

Sync ==
  /\ SyncStep
  /\ UNCHANGED <<outside, faults, container, worker, cycling>>

AssetsSynced ==
  /\ EndSync
  /\ FirstCycle
  /\ UNCHANGED faults

\* Wrong: what the gateway raises leaves start().
AssetsFailUncaught ==
  /\ SyncFails
  /\ Fault("net")
  /\ GoesOn("ended")
  /\ UNCHANGED <<outside, container, cycling>>

AssetsFail ==
  /\ SyncFails
  /\ Fault("net")
  /\ FirstCycle

\* Wrong: the flag is cleared when the service has started.
ScheduleAfresh ==
  /\ main = "schedule"
  /\ main' = IF cfg.cron = Junk THEN "ended" ELSE "serving"
  /\ stop' = FALSE
  /\ UNCHANGED <<outside, faults, container, cfg, cycling, assetVars>>

\* A cron expression that does not parse raises; none means every 30 seconds.
Schedule ==
  /\ main = "schedule"
  /\ GoesOn(IF cfg.cron = Junk THEN "ended" ELSE "serving")
  /\ UNCHANGED <<outside, faults, container, cycling, assetVars>>

\* The loop of run() sees the flag: API and scheduler stop, a running cycle
\* does not.
Shutdown ==
  /\ main = "serving"
  /\ stop
  /\ GoesOn("joining")
  /\ UNCHANGED <<outside, faults, container, cycling, assetVars>>

\* Wrong: the thread of the scheduler ends with the main thread.
ExitAtOnce ==
  /\ main = "joining"
  /\ main' = "ended"
  /\ cycle' = "none"
  /\ todo' = {}
  /\ UNCHANGED <<outside, faults, container, cfg, stop, outputs, assetVars>>

\* The interpreter joins the threads of the scheduler's pool.
Exit ==
  /\ main = "joining"
  /\ cycle = "none"
  /\ main' = "ended"
  /\ cycle' = "none"
  /\ todo' = {}
  /\ UNCHANGED <<outside, faults, container, cfg, stop, outputs, assetVars>>

-----------------------------------------------------------------------------
(* A cycle, in the main thread at "first", else in a thread of the         *)
(* scheduler, which starts none while another runs.                        *)

Tick ==
  /\ main = "serving"
  /\ cycle = "none"
  /\ cycle' = "reload"
  /\ UNCHANGED <<outside, faults, container, worker, todo, outputs, assetVars>>

\* Wrong: the settings are taken as they are.
ReloadUnvalidated ==
  /\ cycle = "reload"
  /\ cfg' = ini
  /\ cycle' = "ingest"
  /\ UNCHANGED <<outside, faults, container, main, stop, todo, outputs, assetVars>>

\* Settings that do not load are logged and the old ones stay.
Reload ==
  /\ cycle = "reload"
  /\ cfg' = IF Loads(ini) THEN ini ELSE cfg
  /\ cycle' = "ingest"
  /\ UNCHANGED <<outside, faults, container, main, stop, todo, outputs, assetVars>>

Ingest ==
  /\ cycle = "ingest"
  /\ cycle' = "export"
  /\ todo' = OutputTargets
  /\ UNCHANGED <<outside, faults, container, worker, outputs, assetVars>>

Due(t) ==
  /\ cycle = "export"
  /\ t \in todo
  /\ t \notin cfg.targets => todo \intersect cfg.targets = {}

\* The enabled targets are written, then the others are removed.
Export(t) ==
  /\ Due(t)
  /\ todo' = todo \ {t}
  /\ outputs' = [outputs EXCEPT ![t] =
                   IF t \in cfg.targets THEN BaseUrl(cfg) ELSE Missing]
  /\ UNCHANGED <<outside, faults, container, worker, cycle, assetVars>>

EndCycle ==
  /\ cycle = "export"
  /\ todo = {}
  /\ cycle' = "none"
  /\ main' = IF main = "first" THEN "schedule" ELSE main
  /\ UNCHANGED <<outside, faults, container, cfg, stop, todo, outputs, assetVars>>

\* Whatever a cycle raises, the scheduler logs; the first cycle has nobody to.
\* At the end of the interpreter no pool takes a package any more, which is an
\* exception as well.
CycleFails ==
  /\ cycle \in {"ingest", "export"}
  /\ \/ Fault("error")
     \/ main = "joining" /\ cycle = "ingest" /\ UNCHANGED faults
  /\ cycle' = "none"
  /\ todo' = {}
  /\ main' = IF main = "first" THEN "ended" ELSE main
  /\ UNCHANGED <<outside, container, cfg, stop, outputs, assetVars>>

-----------------------------------------------------------------------------

MainStep ==
  \/ LoadSettings \/ InitializeLayoutAndSchema \/ StartApi
  \/ NoAssets \/ StartSync \/ Sync \/ AssetsSynced
  \/ Schedule \/ Shutdown \/ Exit

CycleStep == Tick \/ Reload \/ Ingest \/ EndCycle \/ \E t \in OutputTargets : Export(t)

Next ==
  \/ Edit \/ Signal \/ NewRelease
  \/ ContainerUp \/ ContainerDown
  \/ MainStep \/ StartFails \/ AssetsFail
  \/ CycleStep \/ CycleFails

Spec == Init /\ [][Next]_vars

\* Docker restarts the container and every call of the worker returns:
\* downloads and sqlite run under a time-out, and pkgtool does unless
\* PKGTOOL_TIMEOUT_SECONDS is left empty.
Fairness == WF_vars(ContainerUp) /\ WF_vars(MainStep) /\ WF_vars(CycleStep)

FairSpec == Spec /\ Fairness

-----------------------------------------------------------------------------

WrittenFor(s) ==
  \A t \in OutputTargets : outputs[t] = IF t \in s.targets THEN BaseUrl(s) ELSE Missing

\* OutputsOfOneCycle: between cycles, and after a worker that was told to stop
\* in the middle of one, the outputs are those of one settings.ini, however it
\* was edited meanwhile; only an exception or a crash leaves them mixed.
OutputsOfOneCycle ==
  cycle = "none" /\ faults["error"] + faults["down"] = 0 =>
    \/ \A t \in OutputTargets : outputs[t] = Missing
    \/ \E s \in Settings : WrittenFor(s)

\* EndsForReason: the worker ends when it is told to, when its start or its
\* cycles raise something, or for settings that are bad at its start: never for
\* GitHub, and never for settings that become bad later, except the cron text.
EndsForReason ==
  main = "ended" => stop \/ faults["error"] > 0 \/ cfg = NoSettings \/ cfg.cron = Junk

\* StopEnds: a worker that is told to stop ends, also when it is told while it
\* is starting, or while a cycle runs.
StopEnds == stop /\ main # "none" ~> main \in {"ended", "none"}

\* What clients are told is what nginx does.
InStep ==
  /\ nginx # Down
  /\ \A t \in OutputTargets :
       outputs[t] \in IF t \in page THEN {nginx, NoUrl} ELSE {Missing}

\* Settles: once the settings stay as they were when the container booted,
\* status page, outputs and nginx agree, unless a value is in quotation marks,
\* which only the worker understands, or the worker has ended.
Settles ==
  <>[](\/ ~Boots(ini, Certs) \/ ini # booted \/ ini.quotes # {}
       \/ main = "ended"
       \/ InStep)
=============================================================================
