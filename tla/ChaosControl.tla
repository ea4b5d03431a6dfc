---------------------------- MODULE ChaosControl ----------------------------
(***************************************************************************)
(* The control plane of chaos mode for ONE browser session.                *)
(*                                                                         *)
(* Three kinds of goroutine share the session:                             *)
(*   - the HTTP handlers of cmd/3270Web/chaos.go, one goroutine a request; *)
(*   - the run loop of every chaos.Engine that was launched                *)
(*     (internal/chaos/engine.go, run);                                    *)
(*   - one syncChaosStatus goroutine for every engine that was registered. *)
(* They meet in the engine store (chaosEngineStore), in the session's      *)
(* Chaos field, in the engine and in the directory of saved runs.  Each of *)
(* these has a lock of its own, held for one access: a handler is therefore*)
(* a sequence of actions, one per access, and pc[r] is where it stands.    *)
(* The session lookup is part of a handler's first action.                 *)
(* A lookup followed by a test of the engine's Active flag is two actions  *)
(* (Status is read after the store's lock is released); the test is part of*)
(* the action that acts on it, which is exact because an engine that was   *)
(* seen inactive never becomes active again: handlers never restart one.   *)
(*                                                                         *)
(* A saved run is named after the engine whose snapshot it is: NewRunID is *)
(* drawn once for each engine, by its syncChaosStatus.                     *)
(***************************************************************************)
EXTENDS Naturals

CONSTANTS
    Requests,     \* the client's concurrent HTTP requests
    Engines,      \* the engines that can be created: bounds the runs of a behaviour
    EarlierRuns,  \* the runs an earlier session left in the runs directory
    Recording,    \* the run seeded from the session's loaded recording
    NoEngine, NoRun, NoChaos,   \* the nil values
    Ops,          \* the endpoints the client uses
    MaxSteps,     \* cfg.MaxSteps of every run
    EarlierSteps, \* StepsRun of the runs in EarlierRuns
    TimeBudget,   \* whether runs have a time budget
    DiskFaults    \* whether SaveRun may fail

Endpoints ==
    {"start", "stop", "resume", "remove", "load", "record", "export", "disconnect"}

Runs == Engines \cup EarlierRuns \cup {Recording}

ASSUME NilAssumption ==
    /\ NoEngine \notin Engines
    /\ NoRun \notin Runs

ASSUME RunsAssumption ==
    /\ Engines \cap EarlierRuns = {}
    /\ Recording \notin Engines \cup EarlierRuns

ASSUME LimitsAssumption ==
    /\ MaxSteps \in Nat \ {0}
    /\ EarlierSteps \in Nat
    /\ Ops \subseteq Endpoints
    /\ TimeBudget \in BOOLEAN
    /\ DiskFaults \in BOOLEAN

(* s.Chaos, reduced to what a status response is decided by: whose status  *)
(* it is (the code tells runs apart by StartedAt), Active and LoadedRunID. *)
ChaosState == [of : Engines, active : BOOLEAN, run : Runs \cup {NoRun}]

ASSUME NoChaosAssumption == NoChaos \notin ChaosState

VARIABLES
    sessionLive,  \* the session is in the session manager
    chaos,        \* s.Chaos
    registered,   \* store.engines[s.ID]
    loadedRun,    \* store.loadedRuns[s.ID]
    removed,      \* store.removed[s.ID]
    saved,        \* the runs in the runs directory
    snap,         \* StepsRun of each run's snapshot
    pc, eng, run, \* handlers: next step, local engine, local run
    loop,         \* engines: where the run loop is; inactive when "unused" or "done"
    stop,         \* engines: stopCh is closed
    steps,        \* engines: stepsRun
    from,         \* engines: loadedRunID, the run it was resumed from
    sync          \* sync goroutines: next step

sessionVars == <<sessionLive, chaos>>
storeVars   == <<registered, loadedRun, removed>>
requestVars == <<pc, eng, run>>
engineVars  == <<loop, stop, steps, from>>
diskVars    == <<saved, snap>>
vars == <<sessionVars, storeVars, requestVars, engineVars, sync, diskVars>>

Active(e) == e \in Engines /\ loop[e] \in {"top", "step"}

Unused == {e \in Engines : loop[e] = "unused"}

Init ==
    /\ sessionLive = TRUE
    /\ chaos = NoChaos
    /\ registered = NoEngine
    /\ loadedRun = NoRun
    /\ removed = FALSE
    /\ saved = EarlierRuns
    /\ snap = [x \in Runs |-> IF x \in EarlierRuns THEN EarlierSteps ELSE 0]
    /\ pc = [r \in Requests |-> "idle"]
    /\ eng = [r \in Requests |-> NoEngine]
    /\ run = [r \in Requests |-> NoRun]
    /\ loop = [e \in Engines |-> "unused"]
    /\ stop = [e \in Engines |-> FALSE]
    /\ steps = [e \in Engines |-> 0]
    /\ from = [e \in Engines |-> NoRun]
    /\ sync = [e \in Engines |-> "none"]

-----------------------------------------------------------------------------
(* Handlers: shared pieces                                                 *)

(* getSession succeeds and the handler of the endpoint begins. *)
Receive(r, endpoint, next) ==
    /\ pc[r] = "idle"
    /\ sessionLive
    /\ endpoint \in Ops
    /\ pc' = [pc EXCEPT ![r] = next]

Step(r, here, next) ==
    /\ pc[r] = here
    /\ pc' = [pc EXCEPT ![r] = next]

(* The handler answers; its locals go out of scope. *)
Reply(r, here) ==
    /\ Step(r, here, "idle")
    /\ eng' = [eng EXCEPT ![r] = NoEngine]
    /\ run' = [run EXCEPT ![r] = NoRun]

(* chaosEngines.get(s.ID) into the handler's local. *)
Lookup(r) == eng' = [eng EXCEPT ![r] = registered]

(* chaos.New and Start or Resume: a fresh engine whose loop goroutine is   *)
(* started, counting from n steps.                                         *)
Launch(r, n, origin) ==
    \E e \in Unused :
        /\ loop' = [loop EXCEPT ![e] = "top"]
        /\ steps' = [steps EXCEPT ![e] = n]
        /\ from' = [from EXCEPT ![e] = origin]
        /\ eng' = [eng EXCEPT ![r] = e]
        /\ UNCHANGED stop

(* A launch goes ahead unless the engine that was looked up is active.  It  *)
(* may be refused in any case: whether the host is connected, and a run    *)
(* fails, is the environment's choice.                                     *)
MayLaunch(r) == ~Active(eng[r])

(* chaosEngines.set(s.ID, eng). *)
Register(e) ==
    /\ removed' = FALSE
    /\ registered' = e

Spawn(e) == sync' = [sync EXCEPT ![e] = "poll"]

-----------------------------------------------------------------------------
(* POST /chaos/start                                                       *)

StartReceive(r) ==
    /\ Receive(r, "start", "start_get")
    /\ removed' = FALSE
    /\ UNCHANGED <<sessionVars, registered, loadedRun, eng, run, engineVars, sync, diskVars>>

StartGet(r) ==
    /\ Step(r, "start_get", "start_launch")
    /\ Lookup(r)
    /\ UNCHANGED <<sessionVars, storeVars, run, engineVars, sync, diskVars>>

StartRefuse(r) ==
    /\ Reply(r, "start_launch")
    /\ UNCHANGED <<sessionVars, storeVars, engineVars, sync, diskVars>>

StartLaunch(r) ==
    /\ MayLaunch(r)
    /\ Step(r, "start_launch", "start_set")
    /\ Launch(r, 0, NoRun)
    /\ UNCHANGED <<sessionVars, storeVars, run, sync, diskVars>>

(* set, go syncChaosStatus, answer: the goroutine's first step is its own. *)
StartRegister(r) ==
    /\ Reply(r, "start_set")
    /\ Register(eng[r])
    /\ Spawn(eng[r])
    /\ UNCHANGED <<sessionVars, loadedRun, engineVars, diskVars>>

-----------------------------------------------------------------------------
(* POST /chaos/resume: answered at once when no run is loaded.             *)

ResumeReceive(r) ==
    /\ Receive(r, "resume", "resume_get")
    /\ loadedRun # NoRun
    /\ run' = [run EXCEPT ![r] = loadedRun]
    /\ UNCHANGED <<sessionVars, storeVars, eng, engineVars, sync, diskVars>>

ResumeGet(r) ==
    /\ Step(r, "resume_get", "resume_launch")
    /\ Lookup(r)
    /\ UNCHANGED <<sessionVars, storeVars, run, engineVars, sync, diskVars>>

ResumeRefuse(r) ==
    /\ Reply(r, "resume_launch")
    /\ UNCHANGED <<sessionVars, storeVars, engineVars, sync, diskVars>>

(* Variant: Engine.Resume forgets to seed stepsRun. *)
ResumeLaunchFromZero(r) ==
    /\ MayLaunch(r)
    /\ Step(r, "resume_launch", "resume_set")
    /\ Launch(r, 0, run[r])
    /\ UNCHANGED <<sessionVars, storeVars, run, sync, diskVars>>

ResumeLaunch(r) ==
    /\ MayLaunch(r)
    /\ Step(r, "resume_launch", "resume_set")
    /\ Launch(r, snap[run[r]], run[r])
    /\ UNCHANGED <<sessionVars, storeVars, run, sync, diskVars>>

ResumeRegister(r) ==
    /\ Step(r, "resume_set", "resume_clear")
    /\ Register(eng[r])
    /\ UNCHANGED <<sessionVars, loadedRun, eng, run, engineVars, sync, diskVars>>

ResumeSpawn(r) ==
    /\ Reply(r, "resume_clear")
    /\ removed' = FALSE
    /\ Spawn(eng[r])
    /\ UNCHANGED <<sessionVars, registered, loadedRun, engineVars, diskVars>>

-----------------------------------------------------------------------------
(* POST /chaos/stop: "not running" when no engine is registered.           *)

StopReceive(r) ==
    /\ Receive(r, "stop", "stop_signal")
    /\ registered # NoEngine
    /\ Lookup(r)
    /\ UNCHANGED <<sessionVars, storeVars, run, engineVars, sync, diskVars>>

(* Engine.Stop closes stopCh of an active engine and ignores another one.  *)
StopSignal(r) ==
    /\ Reply(r, "stop_signal")
    /\ stop' = [stop EXCEPT ![eng[r]] = @ \/ Active(eng[r])]
    /\ UNCHANGED <<sessionVars, storeVars, loop, steps, from, sync, diskVars>>

-----------------------------------------------------------------------------
(* POST /chaos/remove                                                      *)

RemoveReceive(r) ==
    /\ Receive(r, "remove", "remove_check")
    /\ Lookup(r)
    /\ UNCHANGED <<sessionVars, storeVars, run, engineVars, sync, diskVars>>

RemoveRefuse(r) ==
    /\ Active(eng[r])
    /\ Reply(r, "remove_check")
    /\ UNCHANGED <<sessionVars, storeVars, engineVars, sync, diskVars>>

RemoveMark(r) ==
    /\ ~Active(eng[r])
    /\ Step(r, "remove_check", "remove_engine")
    /\ removed' = TRUE
    /\ UNCHANGED <<sessionVars, registered, loadedRun, eng, run, engineVars, sync, diskVars>>

RemoveEngine(r) ==
    /\ Step(r, "remove_engine", "remove_loaded")
    /\ registered' = NoEngine
    /\ UNCHANGED <<sessionVars, loadedRun, removed, eng, run, engineVars, sync, diskVars>>

RemoveLoaded(r) ==
    /\ Step(r, "remove_loaded", "remove_chaos")
    /\ loadedRun' = NoRun
    /\ UNCHANGED <<sessionVars, registered, removed, eng, run, engineVars, sync, diskVars>>

(* Variant: the handler forgets s.Chaos. *)
RemoveChaosKept(r) ==
    /\ Reply(r, "remove_chaos")
    /\ UNCHANGED <<sessionVars, storeVars, engineVars, sync, diskVars>>

RemoveChaos(r) ==
    /\ Reply(r, "remove_chaos")
    /\ chaos' = NoChaos
    /\ UNCHANGED <<sessionLive, storeVars, engineVars, sync, diskVars>>

-----------------------------------------------------------------------------
(* POST /chaos/load and /chaos/load-recording                              *)

LoadReceive(r) ==
    /\ Receive(r, "load", "load_set")
    /\ \E x \in saved : run' = [run EXCEPT ![r] = x]
    /\ removed' = FALSE
    /\ UNCHANGED <<sessionVars, registered, loadedRun, eng, engineVars, sync, diskVars>>

RecordReceive(r) ==
    /\ Receive(r, "record", "record_check")
    /\ Lookup(r)
    /\ UNCHANGED <<sessionVars, storeVars, run, engineVars, sync, diskVars>>

(* An active engine, or no recording that parses. *)
RecordRefuse(r) ==
    /\ Reply(r, "record_check")
    /\ UNCHANGED <<sessionVars, storeVars, engineVars, sync, diskVars>>

RecordSeed(r) ==
    /\ ~Active(eng[r])
    /\ Step(r, "record_check", "load_set")
    /\ run' = [run EXCEPT ![r] = Recording]
    /\ removed' = FALSE
    /\ UNCHANGED <<sessionVars, registered, loadedRun, eng, engineVars, sync, diskVars>>

LoadSet(r) ==
    /\ Step(r, "load_set", "load_chaos")
    /\ loadedRun' = run[r]
    /\ UNCHANGED <<sessionVars, registered, removed, eng, run, engineVars, sync, diskVars>>

LoadChaos(r) ==
    /\ Reply(r, "load_chaos")
    /\ chaos' = NoChaos
    /\ UNCHANGED <<sessionLive, storeVars, engineVars, sync, diskVars>>

-----------------------------------------------------------------------------
(* POST /chaos/export: changes state only when it falls back to the disk.  *)

ExportReceive(r) ==
    /\ Receive(r, "export", "export_get")
    /\ ~removed
    /\ UNCHANGED <<sessionVars, storeVars, eng, run, engineVars, sync, diskVars>>

ExportGet(r) ==
    /\ registered = NoEngine
    /\ Step(r, "export_get", "export_loaded")
    /\ UNCHANGED <<sessionVars, storeVars, eng, run, engineVars, sync, diskVars>>

ExportLoaded(r) ==
    /\ loadedRun = NoRun
    /\ Step(r, "export_loaded", "export_disk")
    /\ UNCHANGED <<sessionVars, storeVars, eng, run, engineVars, sync, diskVars>>

(* loadSessionChaosRunFromDisk: isRemoved, the run id of s.Chaos, LoadRun. *)
ExportUnremoved(r) ==
    /\ ~removed
    /\ Step(r, "export_disk", "export_id")
    /\ UNCHANGED <<sessionVars, storeVars, eng, run, engineVars, sync, diskVars>>

ExportID(r) ==
    /\ chaos # NoChaos
    /\ Step(r, "export_id", "export_file")
    /\ run' = [run EXCEPT ![r] = chaos.run]
    /\ UNCHANGED <<sessionVars, storeVars, eng, engineVars, sync, diskVars>>

ExportFile(r) ==
    /\ run[r] \in saved
    /\ Step(r, "export_file", "export_set")
    /\ UNCHANGED <<sessionVars, storeVars, eng, run, engineVars, sync, diskVars>>

ExportSet(r) ==
    /\ Reply(r, "export_set")
    /\ loadedRun' = run[r]
    /\ UNCHANGED <<sessionVars, registered, removed, engineVars, sync, diskVars>>

(* The engine's or the loaded run's steps are exported, or there are none. *)
ExportAnswer(r) ==
    /\ \/ registered # NoEngine /\ Reply(r, "export_get")
       \/ loadedRun # NoRun /\ Reply(r, "export_loaded")
       \/ removed /\ Reply(r, "export_disk")
       \/ chaos = NoChaos /\ Reply(r, "export_id")
       \/ run[r] \notin saved /\ Reply(r, "export_file")
    /\ UNCHANGED <<sessionVars, storeVars, engineVars, sync, diskVars>>

-----------------------------------------------------------------------------
(* POST /disconnect: the engines keep running.                             *)

DisconnectReceive(r) ==
    /\ Receive(r, "disconnect", "disconnect_loaded")
    /\ registered' = NoEngine
    /\ UNCHANGED <<sessionVars, loadedRun, removed, eng, run, engineVars, sync, diskVars>>

DisconnectLoaded(r) ==
    /\ Step(r, "disconnect_loaded", "disconnect_clear")
    /\ loadedRun' = NoRun
    /\ UNCHANGED <<sessionVars, registered, removed, eng, run, engineVars, sync, diskVars>>

DisconnectClear(r) ==
    /\ Step(r, "disconnect_clear", "disconnect_session")
    /\ removed' = FALSE
    /\ UNCHANGED <<sessionVars, registered, loadedRun, eng, run, engineVars, sync, diskVars>>

(* RemoveSession: Host.Stop, then out of the manager. *)
DisconnectSession(r) ==
    /\ Reply(r, "disconnect_session")
    /\ sessionLive' = FALSE
    /\ UNCHANGED <<chaos, storeVars, engineVars, sync, diskVars>>

-----------------------------------------------------------------------------
(* The run loop of an engine, one action from one lock to the next.        *)

(* Variant: one step too many. *)
RunBeginLate(e) ==
    /\ loop[e] = "top"
    /\ ~stop[e]
    /\ steps[e] <= MaxSteps
    /\ loop' = [loop EXCEPT ![e] = "step"]
    /\ UNCHANGED <<sessionVars, storeVars, requestVars, stop, steps, from, sync, diskVars>>

(* The stop signal and the limits are tested at the top only; a stop during*)
(* the delay between two steps leads to the same exit.                     *)
RunBegin(e) ==
    /\ loop[e] = "top"
    /\ ~stop[e]
    /\ steps[e] < MaxSteps
    /\ loop' = [loop EXCEPT ![e] = "step"]
    /\ UNCHANGED <<sessionVars, storeVars, requestVars, stop, steps, from, sync, diskVars>>

RunHalt(e) ==
    /\ loop[e] = "top"
    /\ stop[e] \/ steps[e] >= MaxSteps \/ TimeBudget
    /\ loop' = [loop EXCEPT ![e] = "done"]
    /\ UNCHANGED <<sessionVars, storeVars, requestVars, stop, steps, from, sync, diskVars>>

(* The host answered every command; S3270.withRetry restarts a stopped one.*)
RunStep(e) ==
    /\ loop[e] = "step"
    /\ loop' = [loop EXCEPT ![e] = "top"]
    /\ steps' = [steps EXCEPT ![e] = @ + 1]
    /\ UNCHANGED <<sessionLive, chaos, storeVars, requestVars, stop, from, sync, diskVars>>

RunFail(e) ==
    /\ loop[e] = "step"
    /\ loop' = [loop EXCEPT ![e] = "done"]
    /\ UNCHANGED <<sessionVars, storeVars, requestVars, stop, steps, from, sync, diskVars>>

-----------------------------------------------------------------------------
(* syncChaosStatus(s, e)                                                   *)

SyncStep(e, here, next) ==
    /\ sync[e] = here
    /\ sync' = [sync EXCEPT ![e] = next]

(* Variant: an engine that left the store is taken to have finished. *)
SyncPollStore(e) ==
    /\ ~removed
    /\ SyncStep(e, "poll", IF registered = e THEN "show_active" ELSE "show_final")
    /\ UNCHANGED <<sessionVars, storeVars, requestVars, engineVars, diskVars>>

(* The first isRemoved, then Status: st.Active is kept in the next step.   *)
SyncPoll(e) ==
    /\ ~removed
    /\ SyncStep(e, "poll", IF Active(e) THEN "show_active" ELSE "show_final")
    /\ UNCHANGED <<sessionVars, storeVars, requestVars, engineVars, diskVars>>

(* A return on isRemoved: before Status, after it, or before the snapshot. *)
SyncQuit(e) ==
    /\ removed
    /\ \E here \in {"poll", "show_active", "show_final", "check"} : SyncStep(e, here, "done")
    /\ UNCHANGED <<sessionVars, storeVars, requestVars, engineVars, diskVars>>

(* Variant: isRemoved is tested before the session lock only. *)
SyncPublishUnchecked(e, active) ==
    /\ IF active THEN SyncStep(e, "show_active", "poll") ELSE SyncStep(e, "show_final", "check")
    /\ chaos' = [of |-> e, active |-> active, run |-> from[e]]
    /\ UNCHANGED <<sessionLive, storeVars, requestVars, engineVars, diskVars>>

(* Variant: only the registered engine's status is shown. *)
SyncPublishRegistered(e, active) ==
    /\ IF active THEN SyncStep(e, "show_active", "poll") ELSE SyncStep(e, "show_final", "check")
    /\ chaos' = IF removed \/ registered # e THEN chaos
                ELSE [of |-> e, active |-> active, run |-> from[e]]
    /\ UNCHANGED <<sessionLive, storeVars, requestVars, engineVars, diskVars>>

(* The session lock is held over isRemoved and the assignment.  When a     *)
(* removal slips in between the test before the lock and this one, the     *)
(* assignment is skipped and the loop goes on.                             *)
SyncPublish(e, active) ==
    /\ IF active THEN SyncStep(e, "show_active", "poll") ELSE SyncStep(e, "show_final", "check")
    /\ chaos' = IF removed THEN chaos ELSE [of |-> e, active |-> active, run |-> from[e]]
    /\ UNCHANGED <<sessionLive, storeVars, requestVars, engineVars, diskVars>>

SyncCheck(e) ==
    /\ ~removed
    /\ SyncStep(e, "check", "snapshot")
    /\ UNCHANGED <<sessionVars, storeVars, requestVars, engineVars, diskVars>>

(* NewRunID, Snapshot, setLoadedRun *)
SyncSnapshot(e) ==
    /\ SyncStep(e, "snapshot", "id")
    /\ snap' = [snap EXCEPT ![e] = steps[e]]
    /\ loadedRun' = e
    /\ UNCHANGED <<sessionVars, registered, removed, requestVars, engineVars, saved>>

SyncSetID(e) ==
    /\ SyncStep(e, "id", "save")
    /\ chaos' = IF chaos = NoChaos THEN NoChaos ELSE [chaos EXCEPT !.run = e]
    /\ UNCHANGED <<sessionLive, storeVars, requestVars, engineVars, diskVars>>

(* Variant: the run is saved only while its engine is the registered one. *)
SyncSaveRegistered(e) ==
    /\ SyncStep(e, "save", "unregister")
    /\ saved' = IF registered = e THEN saved \cup {e} ELSE saved
    /\ UNCHANGED <<snap, sessionVars, storeVars, requestVars, engineVars>>

SyncSave(e) ==
    /\ SyncStep(e, "save", "unregister")
    /\ \/ saved' = saved \cup {e}
       \/ DiskFaults /\ saved' = saved
    /\ UNCHANGED <<snap, sessionVars, storeVars, requestVars, engineVars>>

(* Variant: the engine is left in the store. *)
SyncUnregisterSkipped(e) ==
    /\ SyncStep(e, "unregister", "done")
    /\ UNCHANGED <<sessionVars, storeVars, requestVars, engineVars, diskVars>>

SyncUnregister(e) ==
    /\ SyncStep(e, "unregister", "done")
    /\ registered' = NoEngine
    /\ UNCHANGED <<sessionVars, loadedRun, removed, requestVars, engineVars, diskVars>>

-----------------------------------------------------------------------------
(* A client sends a request. *)
Client(r) ==
    \/ StartReceive(r) \/ ResumeReceive(r) \/ StopReceive(r) \/ RemoveReceive(r)
    \/ LoadReceive(r) \/ RecordReceive(r) \/ ExportReceive(r) \/ DisconnectReceive(r)

(* A handler takes its next step. *)
Handler(r) ==
    \/ StartGet(r) \/ StartRefuse(r) \/ StartLaunch(r) \/ StartRegister(r)
    \/ ResumeGet(r) \/ ResumeRefuse(r) \/ ResumeLaunch(r) \/ ResumeRegister(r) \/ ResumeSpawn(r)
    \/ StopSignal(r)
    \/ RemoveRefuse(r) \/ RemoveMark(r) \/ RemoveEngine(r) \/ RemoveLoaded(r) \/ RemoveChaos(r)
    \/ RecordRefuse(r) \/ RecordSeed(r) \/ LoadSet(r) \/ LoadChaos(r)
    \/ ExportGet(r) \/ ExportLoaded(r) \/ ExportUnremoved(r) \/ ExportID(r)
    \/ ExportFile(r) \/ ExportSet(r) \/ ExportAnswer(r)
    \/ DisconnectLoaded(r) \/ DisconnectClear(r) \/ DisconnectSession(r)

RunLoop(e) == RunBegin(e) \/ RunHalt(e) \/ RunStep(e) \/ RunFail(e)

Sync(e) ==
    \/ SyncPoll(e) \/ SyncQuit(e) \/ SyncPublish(e, TRUE) \/ SyncPublish(e, FALSE)
    \/ SyncCheck(e) \/ SyncSnapshot(e)
    \/ SyncSetID(e) \/ SyncSave(e) \/ SyncUnregister(e)

Next ==
    \/ \E r \in Requests : Client(r) \/ Handler(r)
    \/ \E e \in Engines : RunLoop(e) \/ Sync(e)

Spec == Init /\ [][Next]_vars

(* Go runs every goroutine that can run, and every host command returns    *)
(* (the host layer bounds each by a timeout).  Clients owe nothing.        *)
Fairness ==
    /\ \A r \in Requests : WF_vars(Handler(r))
    /\ \A e \in Engines : WF_vars(RunLoop(e)) /\ WF_vars(Sync(e))

FairSpec == Spec /\ Fairness

-----------------------------------------------------------------------------
(* What must hold                                                          *)

StepLimit == IF EarlierSteps > MaxSteps THEN EarlierSteps ELSE MaxSteps

HandlerPoints ==
    {"idle", "start_get", "start_launch", "start_set", "resume_get", "resume_launch",
     "resume_set", "resume_clear", "stop_signal", "remove_check", "remove_engine",
     "remove_loaded", "remove_chaos", "record_check", "load_set", "load_chaos",
     "export_get", "export_loaded", "export_disk", "export_id", "export_file", "export_set",
     "disconnect_loaded", "disconnect_clear", "disconnect_session"}

LoopPoints == {"unused", "top", "step", "done"}

SyncPoints ==
    {"none", "poll", "show_active", "show_final", "check", "snapshot", "id", "save",
     "unregister", "done"}

(* Every variable has its type, and no run counts more steps than its      *)
(* limit or the run it resumes: the test of MaxSteps in run is effective.  *)
TypeOK ==
    /\ sessionLive \in BOOLEAN /\ removed \in BOOLEAN
    /\ chaos \in ChaosState \cup {NoChaos}
    /\ registered \in Engines \cup {NoEngine}
    /\ loadedRun \in Runs \cup {NoRun}
    /\ saved \in SUBSET Runs
    /\ snap \in [Runs -> 0..StepLimit]
    /\ pc \in [Requests -> HandlerPoints]
    /\ eng \in [Requests -> Engines \cup {NoEngine}]
    /\ run \in [Requests -> Runs \cup {NoRun}]
    /\ loop \in [Engines -> LoopPoints]
    /\ stop \in [Engines -> BOOLEAN]
    /\ steps \in [Engines -> 0..StepLimit]
    /\ from \in [Engines -> Runs \cup {NoRun}]
    /\ sync \in [Engines -> SyncPoints]

(* A ChaosRemoveHandler is between marking the session and clearing s.Chaos. *)
Removing == \E r \in Requests : pc[r] \in {"remove_engine", "remove_loaded", "remove_chaos"}

(* A removed run is not painted back: once a removal has cleared s.Chaos   *)
(* the field stays empty until a start, a resume or a load lifts the mark, *)
(* whatever syncChaosStatus goroutines were in flight.  It is what the     *)
(* isRemoved test under the session lock is for.                           *)
RemovedStaysBlank == removed => chaos = NoChaos \/ Removing

(* Where a syncChaosStatus goroutine still has a status to publish. *)
Correcting == {"poll", "show_active", "show_final"}

(* A status that says "active" is never left behind: the goroutine that    *)
(* will correct it is alive, or a removal is about to clear it.            *)
NoStuckActive ==
    chaos # NoChaos /\ chaos.active => sync[chaos.of] \in Correcting \/ Removing

(* Where the session can reach a run's snapshot: the runs directory, the   *)
(* store, a handler that is about to load, read or resume it.              *)
Reachable(x) == x \in saved \/ loadedRun = x \/ \E r \in Requests : run[r] = x

(* A run that can be exported, saved or resumed is complete: its engine    *)
(* has stopped and the snapshot misses none of its steps.                  *)
SnapshotsComplete ==
    \A e \in Engines : Reachable(e) => loop[e] = "done" /\ snap[e] = steps[e]

(* A resumed run counts on from the run it continues, however often the    *)
(* loaded run is replaced while the handler is under way.                  *)
ResumeCountsOn ==
    \A e \in Engines : from[e] \in Runs => steps[e] >= snap[from[e]]

(* A run id that a status response shows can be loaded from the directory, *)
(* or its goroutine is just about to save it: the fallback of              *)
(* ChaosExportHandler to the disk relies on it.  (Without disk faults.)    *)
ShownRunIsSaved ==
    chaos # NoChaos /\ chaos.run \in Engines =>
        \/ chaos.run \in saved
        \/ sync[chaos.run] \in {"id", "save"}

(* The client never has two explorations typing into the same terminal:    *)
(* ChaosStartHandler and ChaosResumeHandler say they reject a second run.  *)
AtMostOneActiveEngine ==
    \A d, e \in Engines : Active(d) /\ Active(e) => d = e

(* A handler still has to register the engine it launched. *)
Registering(e) ==
    \E r \in Requests : eng[r] = e /\ pc[r] \in {"start_set", "resume_set"}

(* A run that goes on can be stopped: POST /chaos/stop finds its engine in *)
(* the store as long as the session is there.                              *)
ActiveEngineIsStoppable ==
    \A e \in Engines : sessionLive /\ Active(e) => registered = e \/ Registering(e)

(* Every registration ends, "to avoid memory growth": by the engine's      *)
(* syncChaosStatus, a removal or the disconnect.                           *)
RegistrationEnds == \A e \in Engines : registered = e ~> registered # e

(* Unless the client removes a run, every launched run ends up in the runs *)
(* directory, also when the client disconnects or other runs come and go   *)
(* meanwhile.  (Without disk faults.)                                      *)
EveryRunIsSaved == []~Removing => \A e \in Engines : Active(e) ~> e \in saved

ShownActive(e) == chaos # NoChaos /\ chaos.of = e /\ chaos.active

(* The toolbar does not show a run as active for ever. *)
ActiveStatusIsCorrected == \A e \in Engines : ShownActive(e) ~> ~ShownActive(e)

(* What a run loop's position means to RunLifecycle. *)
Phase(e) ==
    IF loop[e] = "unused" THEN "new" ELSE IF loop[e] = "done" THEN "ended" ELSE "running"

Lifecycle == INSTANCE RunLifecycle WITH
    phase  <- [e \in Engines |-> Phase(e)],
    count  <- steps,
    origin <- from,
    shot   <- snap,
    loaded <- loadedRun

(* Requests, goroutines and removals in any order keep the promise of      *)
(* RunLifecycle: snapshots are taken of runs that have ended, and only     *)
(* final snapshots are loaded, saved or resumed from.                      *)
ImplementsLifecycle == Lifecycle!Spec
=============================================================================
