------------------------ MODULE ChaosControl_proofs ------------------------
(***************************************************************************)
(* Theorems about ChaosControl, for any number of requests, engines and    *)
(* earlier runs and every set of endpoints.                                *)
(***************************************************************************)
EXTENDS ChaosControl, TLAPS

(* What a handler's locals hold where it stands. *)
LocalsOK ==
    \A r \in Requests :
        /\ pc[r] \in {"resume_get", "resume_launch", "load_set", "load_chaos", "export_set"}
               => run[r] \in Runs
        /\ pc[r] \in {"start_set", "resume_set", "resume_clear"} => eng[r] \in Engines

(* The run loop passed the test of MaxSteps at the top of this step. *)
StepGuard == \A e \in Engines : loop[e] = "step" => steps[e] < MaxSteps

TypeInv == TypeOK /\ LocalsOK /\ StepGuard

(* The bound of the step counts is a number at or above both limits. *)
LEMMA StepLimitProperties ==
    /\ StepLimit \in Nat
    /\ MaxSteps \in Nat /\ EarlierSteps \in Nat
    /\ MaxSteps <= StepLimit /\ EarlierSteps <= StepLimit
BY LimitsAssumption DEF StepLimit

(* The initial state is well typed: the runs directory holds earlier runs. *)
LEMMA InitTypeInv == Init => TypeInv
<1> SUFFICES ASSUME Init PROVE TypeInv
  OBVIOUS
<1>1. TypeOK
  <2>1. snap \in [Runs -> 0..StepLimit]
    BY StepLimitProperties DEF Init
  <2>2. steps \in [Engines -> 0..StepLimit]
    BY StepLimitProperties DEF Init
  <2>3. pc \in [Requests -> HandlerPoints]
    BY DEF Init, HandlerPoints
  <2>4. loop \in [Engines -> LoopPoints] /\ sync \in [Engines -> SyncPoints]
    BY DEF Init, LoopPoints, SyncPoints
  <2> QED BY <2>1, <2>2, <2>3, <2>4 DEF Init, TypeOK, Runs
<1>2. LocalsOK /\ StepGuard
  BY DEF Init, LocalsOK, StepGuard
<1> QED BY <1>1, <1>2 DEF TypeInv

(* A request that begins keeps the types. *)
LEMMA ClientTypeInv ==
    ASSUME TypeInv, NEW r \in Requests, Client(r)
    PROVE  TypeInv'
<1> USE DEF TypeInv, TypeOK, LocalsOK, StepGuard, HandlerPoints, Receive, Lookup,
            sessionVars, storeVars, engineVars, diskVars
<1>1. CASE StartReceive(r)
  BY <1>1 DEF StartReceive
<1>2. CASE ResumeReceive(r)
  BY <1>2 DEF ResumeReceive
<1>3. CASE StopReceive(r)
  BY <1>3 DEF StopReceive
<1>4. CASE RemoveReceive(r)
  BY <1>4 DEF RemoveReceive
<1>5. CASE LoadReceive(r)
  BY <1>5 DEF LoadReceive
<1>6. CASE RecordReceive(r)
  BY <1>6 DEF RecordReceive
<1>7. CASE ExportReceive(r)
  BY <1>7 DEF ExportReceive
<1>8. CASE DisconnectReceive(r)
  BY <1>8 DEF DisconnectReceive
<1> QED BY <1>1, <1>2, <1>3, <1>4, <1>5, <1>6, <1>7, <1>8 DEF Client

(* A handler's step keeps the types: LocalsOK makes the engine it registers *)
(* and the run it resumes or loads exist.                                  *)
LEMMA HandlerTypeInv ==
    ASSUME TypeInv, NEW r \in Requests, Handler(r)
    PROVE  TypeInv'
<1> USE DEF TypeInv, TypeOK, LocalsOK, StepGuard, HandlerPoints, Step, Reply, Lookup,
            sessionVars, storeVars, requestVars, engineVars, diskVars
<1>1. CASE StartGet(r)
  BY <1>1 DEF StartGet
<1>2. CASE StartRefuse(r)
  BY <1>2 DEF StartRefuse
<1>3. CASE StartLaunch(r)
  BY <1>3, StepLimitProperties DEF StartLaunch, Launch, Unused, LoopPoints
<1>4. CASE StartRegister(r)
  BY <1>4 DEF StartRegister, Register, Spawn, SyncPoints
<1>5. CASE ResumeGet(r)
  BY <1>5 DEF ResumeGet
<1>6. CASE ResumeRefuse(r)
  BY <1>6 DEF ResumeRefuse
<1>7. CASE ResumeLaunch(r)
  BY <1>7, StepLimitProperties DEF ResumeLaunch, Launch, Unused, LoopPoints
<1>8. CASE ResumeRegister(r)
  BY <1>8 DEF ResumeRegister, Register
<1>9. CASE ResumeSpawn(r)
  BY <1>9 DEF ResumeSpawn, Spawn, SyncPoints
<1>10. CASE StopSignal(r)
  BY <1>10 DEF StopSignal
<1>11. CASE RemoveRefuse(r)
  BY <1>11 DEF RemoveRefuse
<1>12. CASE RemoveMark(r)
  BY <1>12 DEF RemoveMark
<1>13. CASE RemoveEngine(r)
  BY <1>13 DEF RemoveEngine
<1>14. CASE RemoveLoaded(r)
  BY <1>14 DEF RemoveLoaded
<1>15. CASE RemoveChaos(r)
  BY <1>15 DEF RemoveChaos
<1>16. CASE RecordRefuse(r)
  BY <1>16 DEF RecordRefuse
<1>17. CASE RecordSeed(r)
  BY <1>17 DEF RecordSeed, Runs
<1>18. CASE LoadSet(r)
  BY <1>18 DEF LoadSet
<1>19. CASE LoadChaos(r)
  BY <1>19 DEF LoadChaos
<1>20. CASE ExportGet(r)
  BY <1>20 DEF ExportGet
<1>21. CASE ExportLoaded(r)
  BY <1>21 DEF ExportLoaded
<1>22. CASE ExportUnremoved(r)
  BY <1>22 DEF ExportUnremoved
<1>23. CASE ExportID(r)
  BY <1>23 DEF ExportID, ChaosState
<1>24. CASE ExportFile(r)
  BY <1>24 DEF ExportFile
<1>25. CASE ExportSet(r)
  BY <1>25 DEF ExportSet
<1>26. CASE ExportAnswer(r)
  BY <1>26 DEF ExportAnswer
<1>27. CASE DisconnectLoaded(r)
  BY <1>27 DEF DisconnectLoaded
<1>28. CASE DisconnectClear(r)
  BY <1>28 DEF DisconnectClear
<1>29. CASE DisconnectSession(r)
  BY <1>29 DEF DisconnectSession
<1> QED
  BY <1>1, <1>2, <1>3, <1>4, <1>5, <1>6, <1>7, <1>8, <1>9, <1>10, <1>11,
     <1>12, <1>13, <1>14, <1>15, <1>16, <1>17, <1>18, <1>19, <1>20, <1>21,
     <1>22, <1>23, <1>24, <1>25, <1>26, <1>27, <1>28, <1>29 DEF Handler

(* A step of the run loop keeps the types: by StepGuard it counts up to    *)
(* MaxSteps at most.                                                       *)
LEMMA RunLoopTypeInv ==
    ASSUME TypeInv, NEW e \in Engines, RunLoop(e)
    PROVE  TypeInv'
<1> USE StepLimitProperties DEF TypeInv, TypeOK, LocalsOK, StepGuard, LoopPoints,
            sessionVars, storeVars, requestVars, diskVars
<1>1. CASE RunBegin(e)
  BY <1>1 DEF RunBegin
<1>2. CASE RunHalt(e)
  BY <1>2 DEF RunHalt
<1>3. CASE RunStep(e)
  BY <1>3 DEF RunStep
<1>4. CASE RunFail(e)
  BY <1>4 DEF RunFail
<1> QED BY <1>1, <1>2, <1>3, <1>4 DEF RunLoop

(* A step of a syncChaosStatus goroutine keeps the types. *)
LEMMA SyncTypeInv ==
    ASSUME TypeInv, NEW e \in Engines, Sync(e)
    PROVE  TypeInv'
<1> USE DEF TypeInv, TypeOK, LocalsOK, StepGuard, SyncPoints, SyncStep, ChaosState, Runs,
            sessionVars, storeVars, requestVars, engineVars, diskVars
<1>1. CASE SyncPoll(e)
  BY <1>1 DEF SyncPoll
<1>2. CASE SyncQuit(e)
  BY <1>2 DEF SyncQuit
<1>3. CASE SyncCheck(e)
  BY <1>3 DEF SyncCheck
<1>4. CASE SyncSnapshot(e)
  BY <1>4 DEF SyncSnapshot
<1>5. CASE SyncSetID(e)
  BY <1>5 DEF SyncSetID
<1>6. CASE SyncSave(e)
  BY <1>6 DEF SyncSave
<1>7. CASE SyncUnregister(e)
  BY <1>7 DEF SyncUnregister
<1>8. ASSUME NEW a \in BOOLEAN, SyncPublish(e, a)
  PROVE  TypeInv'
  BY <1>8 DEF SyncPublish
<1> QED BY <1>1, <1>2, <1>3, <1>4, <1>5, <1>6, <1>7, <1>8 DEF Sync

(* Every step keeps the types. *)
LEMMA NextTypeInv == TypeInv /\ [Next]_vars => TypeInv'
<1> SUFFICES ASSUME TypeInv, [Next]_vars PROVE TypeInv'
  OBVIOUS
<1>1. CASE Next
  BY <1>1, ClientTypeInv, HandlerTypeInv, RunLoopTypeInv, SyncTypeInv DEF Next
<1>2. CASE UNCHANGED vars
  BY <1>2 DEF TypeInv, TypeOK, LocalsOK, StepGuard, vars, sessionVars, storeVars,
              requestVars, engineVars, diskVars
<1> QED BY <1>1, <1>2

(* Every reachable state is well typed. *)
LEMMA AlwaysTypeInv == Spec => []TypeInv
BY InitTypeInv, NextTypeInv, PTL DEF Spec

(* Type correctness: in particular no run counts past its limit.           *)
THEOREM TypeCorrect == Spec => []TypeOK
<1>1. TypeInv => TypeOK
  BY DEF TypeInv
<1> QED BY <1>1, AlwaysTypeInv, PTL

-----------------------------------------------------------------------------
(* What the toolbar shows                                                  *)

(* NoStuckActive rests on RemovedStaysBlank: a goroutine quits, and skips  *)
(* its final status, only under the mark, and RemovedStaysBlank says that  *)
(* then nothing is shown or a removal is about to clear it.                *)
ShownInv == RemovedStaysBlank /\ NoStuckActive

(* Initially nothing is shown. *)
LEMMA InitShownInv == Init => ShownInv
BY DEF Init, ShownInv, RemovedStaysBlank, NoStuckActive

(* A request that begins lifts the mark or leaves what is shown alone. *)
LEMMA ClientShownInv ==
    ASSUME TypeInv, ShownInv, NEW r \in Requests, Client(r)
    PROVE  ShownInv'
<1> USE DEF TypeInv, TypeOK, LocalsOK, ChaosState, ShownInv, RemovedStaysBlank,
            NoStuckActive, Removing, Correcting, Receive, Lookup, sessionVars, storeVars, requestVars,
            engineVars, diskVars
<1>1. CASE StartReceive(r)
  BY <1>1 DEF StartReceive
<1>2. CASE ResumeReceive(r)
  BY <1>2 DEF ResumeReceive
<1>3. CASE StopReceive(r)
  BY <1>3 DEF StopReceive
<1>4. CASE RemoveReceive(r)
  BY <1>4 DEF RemoveReceive
<1>5. CASE LoadReceive(r)
  BY <1>5 DEF LoadReceive
<1>6. CASE RecordReceive(r)
  BY <1>6 DEF RecordReceive
<1>7. CASE ExportReceive(r)
  BY <1>7 DEF ExportReceive
<1>8. CASE DisconnectReceive(r)
  BY <1>8 DEF DisconnectReceive
<1> QED
  BY <1>1, <1>2, <1>3, <1>4, <1>5, <1>6, <1>7, <1>8 DEF Client

(* A handler sets the mark only where Removing begins, and ends Removing   *)
(* only by clearing s.Chaos.                                               *)
LEMMA HandlerShownInv ==
    ASSUME TypeInv, ShownInv, NEW r \in Requests, Handler(r)
    PROVE  ShownInv'
<1> USE DEF TypeInv, TypeOK, LocalsOK, ChaosState, ShownInv, RemovedStaysBlank,
            NoStuckActive, Removing, Correcting, Step, Reply, Lookup, sessionVars, storeVars, requestVars,
            engineVars, diskVars
<1>1. CASE StartGet(r)
  BY <1>1 DEF StartGet
<1>2. CASE StartRefuse(r)
  BY <1>2 DEF StartRefuse
<1>3. CASE StartLaunch(r)
  BY <1>3 DEF StartLaunch, Launch, Unused
<1>4. CASE StartRegister(r)
  BY <1>4 DEF StartRegister, Register, Spawn
<1>5. CASE ResumeGet(r)
  BY <1>5 DEF ResumeGet
<1>6. CASE ResumeRefuse(r)
  BY <1>6 DEF ResumeRefuse
<1>7. CASE ResumeLaunch(r)
  BY <1>7 DEF ResumeLaunch, Launch, Unused
<1>8. CASE ResumeRegister(r)
  BY <1>8 DEF ResumeRegister, Register
<1>9. CASE ResumeSpawn(r)
  BY <1>9 DEF ResumeSpawn, Spawn
<1>10. CASE StopSignal(r)
  BY <1>10 DEF StopSignal, Active
<1>11. CASE RemoveRefuse(r)
  BY <1>11 DEF RemoveRefuse
<1>12. CASE RemoveMark(r)
  BY <1>12 DEF RemoveMark
<1>13. CASE RemoveEngine(r)
  BY <1>13 DEF RemoveEngine
<1>14. CASE RemoveLoaded(r)
  BY <1>14 DEF RemoveLoaded
<1>15. CASE RemoveChaos(r)
  BY <1>15 DEF RemoveChaos
<1>16. CASE RecordRefuse(r)
  BY <1>16 DEF RecordRefuse
<1>17. CASE RecordSeed(r)
  BY <1>17 DEF RecordSeed
<1>18. CASE LoadSet(r)
  BY <1>18 DEF LoadSet
<1>19. CASE LoadChaos(r)
  BY <1>19 DEF LoadChaos
<1>20. CASE ExportGet(r)
  BY <1>20 DEF ExportGet
<1>21. CASE ExportLoaded(r)
  BY <1>21 DEF ExportLoaded
<1>22. CASE ExportUnremoved(r)
  BY <1>22 DEF ExportUnremoved
<1>23. CASE ExportID(r)
  BY <1>23 DEF ExportID
<1>24. CASE ExportFile(r)
  BY <1>24 DEF ExportFile
<1>25. CASE ExportSet(r)
  BY <1>25 DEF ExportSet
<1>26. CASE ExportAnswer(r)
  BY <1>26 DEF ExportAnswer
<1>27. CASE DisconnectLoaded(r)
  BY <1>27 DEF DisconnectLoaded
<1>28. CASE DisconnectClear(r)
  BY <1>28 DEF DisconnectClear
<1>29. CASE DisconnectSession(r)
  BY <1>29 DEF DisconnectSession
<1> QED
  BY <1>1, <1>2, <1>3, <1>4, <1>5, <1>6, <1>7, <1>8, <1>9, <1>10, <1>11,
     <1>12, <1>13, <1>14, <1>15, <1>16, <1>17, <1>18, <1>19, <1>20, <1>21,
     <1>22, <1>23, <1>24, <1>25, <1>26, <1>27, <1>28, <1>29 DEF Handler

(* The run loop does not touch what is shown. *)
LEMMA RunLoopShownInv ==
    ASSUME ShownInv, NEW e \in Engines, RunLoop(e)
    PROVE  ShownInv'
<1>1. UNCHANGED <<chaos, removed, pc, sync>>
  BY DEF RunLoop, RunBegin, RunHalt, RunStep, RunFail, sessionVars, storeVars, requestVars
<1> QED BY <1>1 DEF ShownInv, RemovedStaysBlank, NoStuckActive, Removing, Correcting

(* A goroutine publishes nothing under the mark, and gives up correcting   *)
(* only after it published the final status, or under the mark.            *)
LEMMA SyncShownInv ==
    ASSUME TypeInv, ShownInv, NEW e \in Engines, Sync(e)
    PROVE  ShownInv'
<1> USE DEF TypeInv, TypeOK, LocalsOK, ChaosState, ShownInv, RemovedStaysBlank,
            NoStuckActive, Removing, Correcting, SyncStep, sessionVars, storeVars, requestVars,
            engineVars, diskVars
<1>1. CASE SyncPoll(e)
  BY <1>1 DEF SyncPoll
<1>2. CASE SyncQuit(e)
  BY <1>2 DEF SyncQuit
<1>3. CASE SyncCheck(e)
  BY <1>3 DEF SyncCheck
<1>4. CASE SyncSnapshot(e)
  BY <1>4 DEF SyncSnapshot
<1>5. CASE SyncSetID(e)
  BY <1>5 DEF SyncSetID
<1>6. CASE SyncSave(e)
  BY <1>6 DEF SyncSave
<1>7. CASE SyncUnregister(e)
  BY <1>7 DEF SyncUnregister
<1>8. ASSUME NEW a \in BOOLEAN, SyncPublish(e, a)
  PROVE  ShownInv'
  BY <1>8 DEF SyncPublish
<1> QED
  BY <1>1, <1>2, <1>3, <1>4, <1>5, <1>6, <1>7, <1>8 DEF Sync

(* A removed run is not painted back, and a status that says "active" has  *)
(* a goroutine that will correct it.                                       *)
LEMMA ShownCorrect == Spec => []ShownInv
<1>1. Init => TypeInv /\ ShownInv
  BY InitTypeInv, InitShownInv
<1>2. TypeInv /\ ShownInv /\ [Next]_vars => TypeInv' /\ ShownInv'
  <2> SUFFICES ASSUME TypeInv, ShownInv, [Next]_vars PROVE TypeInv' /\ ShownInv'
    OBVIOUS
  <2>1. TypeInv'
    BY NextTypeInv
  <2>2. CASE Next
    BY <2>1, <2>2, ClientShownInv, HandlerShownInv, RunLoopShownInv, SyncShownInv DEF Next
  <2>3. CASE UNCHANGED vars
    BY <2>1, <2>3 DEF ShownInv, RemovedStaysBlank, NoStuckActive, Removing, vars,
                      sessionVars, storeVars, requestVars
  <2> QED BY <2>2, <2>3
<1> QED BY <1>1, <1>2, PTL DEF Spec

(* A removed run is not painted back. *)
THEOREM RemovalIsFinal == Spec => []RemovedStaysBlank
<1>1. ShownInv => RemovedStaysBlank
  BY DEF ShownInv
<1> QED BY <1>1, ShownCorrect, PTL

(* A status that says "active" is never left without a goroutine that will *)
(* correct it.                                                             *)
THEOREM ActiveStatusHasKeeper == Spec => []NoStuckActive
<1>1. ShownInv => NoStuckActive
  BY DEF ShownInv
<1> QED BY <1>1, ShownCorrect, PTL

-----------------------------------------------------------------------------
(* What a run can be saved, exported and resumed from                      *)

(* The engine has stopped and the run's snapshot misses none of its steps. *)
Complete(e) == loop[e] = "done" /\ snap[e] = steps[e]

(* A goroutine belongs to a launched engine, and so does a handler that    *)
(* registers one: Launch, which picks an unused engine, disturbs neither.  *)
LaunchedAreUsed ==
    /\ \A e \in Engines : sync[e] # "none" => loop[e] # "unused"
    /\ \A r \in Requests :
          pc[r] \in {"start_set", "resume_set", "resume_clear"} => loop[eng[r]] # "unused"

(* A goroutine leaves its polling only when the engine has stopped ... *)
FinalAfterEnd ==
    \A e \in Engines : sync[e] \in {"show_final", "check", "snapshot"} => loop[e] = "done"

(* ... so the snapshot it takes is complete, and stays so ... *)
TakenIsComplete ==
    \A e \in Engines : sync[e] \in {"id", "save", "unregister"} => Complete(e)

(* ... and the status shows, and an engine is resumed from, no other run.  *)
ShownIsComplete == chaos # NoChaos /\ chaos.run \in Engines => Complete(chaos.run)

OriginsComplete == \A e \in Engines : from[e] \in Engines => Complete(from[e])

CompleteInv ==
    /\ LaunchedAreUsed /\ FinalAfterEnd
    /\ TakenIsComplete /\ ShownIsComplete /\ OriginsComplete
    /\ SnapshotsComplete /\ ResumeCountsOn

(* Initially no engine was launched and the directory holds earlier runs.  *)
LEMMA InitCompleteInv == Init => CompleteInv
<1> SUFFICES ASSUME Init PROVE CompleteInv
  OBVIOUS
<1>1. \A e \in Engines : ~Reachable(e)
  BY NilAssumption, RunsAssumption DEF Init, Reachable, Runs
<1>2. \A e \in Engines : from[e] \notin Runs
  BY NilAssumption DEF Init
<1> QED BY <1>1, <1>2 DEF Init, CompleteInv, LaunchedAreUsed, FinalAfterEnd, TakenIsComplete,
                    ShownIsComplete, OriginsComplete, SnapshotsComplete, ResumeCountsOn, Runs

(* A request begins with a run that is loaded or saved, hence complete.    *)
LEMMA ClientCompleteInv ==
    ASSUME TypeInv, CompleteInv, NEW r \in Requests, Client(r)
    PROVE  CompleteInv'
<1> USE NilAssumption, RunsAssumption, StepLimitProperties
        DEF TypeInv, TypeOK, LocalsOK, ChaosState, CompleteInv, LaunchedAreUsed,
            FinalAfterEnd, TakenIsComplete, ShownIsComplete, OriginsComplete, SnapshotsComplete,
            ResumeCountsOn, Complete, Reachable, Receive, Lookup, Runs, sessionVars,
            storeVars, requestVars, engineVars, diskVars
<1>1. CASE StartReceive(r)
  BY <1>1 DEF StartReceive
<1>2. CASE ResumeReceive(r)
  BY <1>2 DEF ResumeReceive
<1>3. CASE StopReceive(r)
  BY <1>3 DEF StopReceive
<1>4. CASE RemoveReceive(r)
  BY <1>4 DEF RemoveReceive
<1>5. CASE LoadReceive(r)
  BY <1>5 DEF LoadReceive
<1>6. CASE RecordReceive(r)
  BY <1>6 DEF RecordReceive
<1>7. CASE ExportReceive(r)
  BY <1>7 DEF ExportReceive
<1>8. CASE DisconnectReceive(r)
  BY <1>8 DEF DisconnectReceive
<1> QED
  BY <1>1, <1>2, <1>3, <1>4, <1>5, <1>6, <1>7, <1>8 DEF Client

(* A handler passes on complete runs and launches unused engines.          *)
LEMMA HandlerCompleteInv ==
    ASSUME TypeInv, CompleteInv, NEW r \in Requests, Handler(r)
    PROVE  CompleteInv'
<1> USE NilAssumption, RunsAssumption, StepLimitProperties
        DEF TypeInv, TypeOK, LocalsOK, ChaosState, CompleteInv, LaunchedAreUsed,
            FinalAfterEnd, TakenIsComplete, ShownIsComplete, OriginsComplete, SnapshotsComplete,
            ResumeCountsOn, Complete, Reachable, Step, Reply, Lookup, Runs, sessionVars,
            storeVars, requestVars, engineVars, diskVars
<1>1. CASE StartGet(r)
  BY <1>1 DEF StartGet
<1>2. CASE StartRefuse(r)
  BY <1>2 DEF StartRefuse
<1>3. CASE StartLaunch(r)
  BY <1>3 DEF StartLaunch, Launch, Unused
<1>4. CASE StartRegister(r)
  BY <1>4 DEF StartRegister, Register, Spawn
<1>5. CASE ResumeGet(r)
  BY <1>5 DEF ResumeGet
<1>6. CASE ResumeRefuse(r)
  BY <1>6 DEF ResumeRefuse
<1>7. CASE ResumeLaunch(r)
  BY <1>7 DEF ResumeLaunch, Launch, Unused
<1>8. CASE ResumeRegister(r)
  BY <1>8 DEF ResumeRegister, Register
<1>9. CASE ResumeSpawn(r)
  BY <1>9 DEF ResumeSpawn, Spawn
<1>10. CASE StopSignal(r)
  BY <1>10 DEF StopSignal, Active
<1>11. CASE RemoveRefuse(r)
  BY <1>11 DEF RemoveRefuse
<1>12. CASE RemoveMark(r)
  BY <1>12 DEF RemoveMark
<1>13. CASE RemoveEngine(r)
  BY <1>13 DEF RemoveEngine
<1>14. CASE RemoveLoaded(r)
  BY <1>14 DEF RemoveLoaded
<1>15. CASE RemoveChaos(r)
  BY <1>15 DEF RemoveChaos
<1>16. CASE RecordRefuse(r)
  BY <1>16 DEF RecordRefuse
<1>17. CASE RecordSeed(r)
  BY <1>17 DEF RecordSeed
<1>18. CASE LoadSet(r)
  BY <1>18 DEF LoadSet
<1>19. CASE LoadChaos(r)
  BY <1>19 DEF LoadChaos
<1>20. CASE ExportGet(r)
  BY <1>20 DEF ExportGet
<1>21. CASE ExportLoaded(r)
  BY <1>21 DEF ExportLoaded
<1>22. CASE ExportUnremoved(r)
  BY <1>22 DEF ExportUnremoved
<1>23. CASE ExportID(r)
  BY <1>23 DEF ExportID
<1>24. CASE ExportFile(r)
  BY <1>24 DEF ExportFile
<1>25. CASE ExportSet(r)
  BY <1>25 DEF ExportSet
<1>26. CASE ExportAnswer(r)
  BY <1>26 DEF ExportAnswer
<1>27. CASE DisconnectLoaded(r)
  BY <1>27 DEF DisconnectLoaded
<1>28. CASE DisconnectClear(r)
  BY <1>28 DEF DisconnectClear
<1>29. CASE DisconnectSession(r)
  BY <1>29 DEF DisconnectSession
<1> QED
  BY <1>1, <1>2, <1>3, <1>4, <1>5, <1>6, <1>7, <1>8, <1>9, <1>10, <1>11,
     <1>12, <1>13, <1>14, <1>15, <1>16, <1>17, <1>18, <1>19, <1>20, <1>21,
     <1>22, <1>23, <1>24, <1>25, <1>26, <1>27, <1>28, <1>29 DEF Handler

(* Only an engine that has not stopped counts a step or stops.             *)
LEMMA RunLoopCompleteInv ==
    ASSUME TypeInv, CompleteInv, NEW e \in Engines, RunLoop(e)
    PROVE  CompleteInv'
<1> USE NilAssumption, RunsAssumption, StepLimitProperties
        DEF TypeInv, TypeOK, LocalsOK, ChaosState, CompleteInv, LaunchedAreUsed,
            FinalAfterEnd, TakenIsComplete, ShownIsComplete, OriginsComplete, SnapshotsComplete,
            ResumeCountsOn, Complete, Reachable, Runs, sessionVars, storeVars, requestVars, engineVars,
            diskVars
<1>1. CASE RunBegin(e)
  BY <1>1 DEF RunBegin
<1>2. CASE RunHalt(e)
  BY <1>2 DEF RunHalt
<1>3. CASE RunStep(e)
  BY <1>3 DEF RunStep
<1>4. CASE RunFail(e)
  BY <1>4 DEF RunFail
<1> QED
  BY <1>1, <1>2, <1>3, <1>4 DEF RunLoop

(* A goroutine leaves its polling when the engine has stopped, and takes   *)
(* the snapshot after that.                                                *)
LEMMA SyncCompleteInv ==
    ASSUME TypeInv, CompleteInv, NEW e \in Engines, Sync(e)
    PROVE  CompleteInv'
<1> USE NilAssumption, RunsAssumption, StepLimitProperties
        DEF TypeInv, TypeOK, LocalsOK, ChaosState, CompleteInv, LaunchedAreUsed,
            FinalAfterEnd, TakenIsComplete, ShownIsComplete, OriginsComplete, SnapshotsComplete,
            ResumeCountsOn, Complete, Reachable, SyncStep, Runs, sessionVars,
            storeVars, requestVars, engineVars, diskVars
<1>1. CASE SyncPoll(e)
  BY <1>1 DEF SyncPoll, Active, LoopPoints
<1>2. CASE SyncQuit(e)
  BY <1>2 DEF SyncQuit
<1>3. CASE SyncCheck(e)
  BY <1>3 DEF SyncCheck
<1>4. CASE SyncSnapshot(e)
  BY <1>4 DEF SyncSnapshot
<1>5. CASE SyncSetID(e)
  BY <1>5 DEF SyncSetID
<1>6. CASE SyncSave(e)
  BY <1>6 DEF SyncSave
<1>7. CASE SyncUnregister(e)
  BY <1>7 DEF SyncUnregister
<1>8. ASSUME NEW a \in BOOLEAN, SyncPublish(e, a)
  PROVE  CompleteInv'
  BY <1>8 DEF SyncPublish
<1> QED
  BY <1>1, <1>2, <1>3, <1>4, <1>5, <1>6, <1>7, <1>8 DEF Sync

(* Every reachable state satisfies the inductive invariant. *)
LEMMA AlwaysCompleteInv == Spec => []CompleteInv
<1>1. Init => TypeInv /\ CompleteInv
  BY InitTypeInv, InitCompleteInv
<1>2. TypeInv /\ CompleteInv /\ [Next]_vars => TypeInv' /\ CompleteInv'
  <2> SUFFICES ASSUME TypeInv, CompleteInv, [Next]_vars PROVE TypeInv' /\ CompleteInv'
    OBVIOUS
  <2>1. TypeInv'
    BY NextTypeInv
  <2>2. CASE Next
    BY <2>1, <2>2, ClientCompleteInv, HandlerCompleteInv, RunLoopCompleteInv, SyncCompleteInv
    DEF Next
  <2>3. CASE UNCHANGED vars
    BY <2>1, <2>3 DEF CompleteInv, LaunchedAreUsed, FinalAfterEnd, TakenIsComplete,
        ShownIsComplete, OriginsComplete, SnapshotsComplete, ResumeCountsOn, Complete,
        Reachable, vars, sessionVars, storeVars, requestVars, engineVars, diskVars
  <2> QED BY <2>2, <2>3
<1> QED BY <1>1, <1>2, PTL DEF Spec

(* A run that can be exported, saved or resumed misses none of its steps.  *)
THEOREM ReachableRunsAreComplete == Spec => []SnapshotsComplete
<1>1. CompleteInv => SnapshotsComplete
  BY DEF CompleteInv
<1> QED BY <1>1, AlwaysCompleteInv, PTL

(* A resumed run counts on from the run it continues.                      *)
THEOREM ResumedRunsCountOn == Spec => []ResumeCountsOn
<1>1. CompleteInv => ResumeCountsOn
  BY DEF CompleteInv
<1> QED BY <1>1, AlwaysCompleteInv, PTL

-----------------------------------------------------------------------------
(* Where a run is shown, it can be loaded                                  *)

(* Without disk faults a run that was given an id is saved next. *)
Kept(x) == x \in saved \/ sync[x] \in {"id", "save"}

(* Where the number of a run can come from when the status shows it. *)
Known(x) ==
    \/ loadedRun = x
    \/ \E r \in Requests : run[r] = x
    \/ \E e \in Engines : from[e] = x
    \/ chaos # NoChaos /\ chaos.run = x

KnownAreKept == \A x \in Engines : Known(x) => Kept(x)

(* A handler has an engine whose goroutine it has yet to start. *)
Starting(r) == pc[r] \in {"start_set", "resume_set", "resume_clear"}

(* A goroutine is started once for an engine, so that it never takes back  *)
(* how far it has come.                                                    *)
SpawnedOnce ==
    \A r \in Requests :
        Starting(r) =>
            /\ sync[eng[r]] = "none"
            /\ \A q \in Requests \ {r} : Starting(q) => eng[q] # eng[r]

KeptInv == SpawnedOnce /\ KnownAreKept

LEMMA InitKeptInv == Init => KeptInv
<1> SUFFICES ASSUME Init PROVE KeptInv
  OBVIOUS
<1>1. \A x \in Engines : x # NoRun
  BY NilAssumption DEF Runs
<1> QED BY <1>1 DEF Init, KeptInv, SpawnedOnce, KnownAreKept, Known, Starting

(* A request begins with a run that is loaded or saved, hence kept. *)
LEMMA ClientKeptInv ==
    ASSUME TypeInv, CompleteInv, KeptInv, NEW r \in Requests, Client(r)
    PROVE  KeptInv'
<1> USE NilAssumption, RunsAssumption
        DEF TypeInv, TypeOK, LocalsOK, ChaosState, CompleteInv, LaunchedAreUsed, KeptInv,
            SpawnedOnce, KnownAreKept, Known, Kept, Starting, Receive, Lookup, Runs, sessionVars, storeVars,
            requestVars, engineVars, diskVars
<1>1. CASE StartReceive(r)
  BY <1>1 DEF StartReceive
<1>2. CASE ResumeReceive(r)
  BY <1>2 DEF ResumeReceive
<1>3. CASE StopReceive(r)
  BY <1>3 DEF StopReceive
<1>4. CASE RemoveReceive(r)
  BY <1>4 DEF RemoveReceive
<1>5. CASE LoadReceive(r)
  BY <1>5 DEF LoadReceive
<1>6. CASE RecordReceive(r)
  BY <1>6 DEF RecordReceive
<1>7. CASE ExportReceive(r)
  BY <1>7 DEF ExportReceive
<1>8. CASE DisconnectReceive(r)
  BY <1>8 DEF DisconnectReceive
<1> QED
  BY <1>1, <1>2, <1>3, <1>4, <1>5, <1>6, <1>7, <1>8 DEF Client


(* A handler passes on runs that are known, and launches an engine without *)
(* a goroutine.                                                            *)
LEMMA HandlerKeptInv ==
    ASSUME TypeInv, CompleteInv, KeptInv, NEW r \in Requests, Handler(r)
    PROVE  KeptInv'
<1> USE NilAssumption, RunsAssumption
        DEF TypeInv, TypeOK, LocalsOK, ChaosState, CompleteInv, LaunchedAreUsed, KeptInv,
            SpawnedOnce, KnownAreKept, Known, Kept, Starting, Step, Reply, Lookup, Runs, sessionVars, storeVars,
            requestVars, engineVars, diskVars
<1>1. CASE StartGet(r)
  BY <1>1 DEF StartGet
<1>2. CASE StartRefuse(r)
  BY <1>2 DEF StartRefuse
<1>3. CASE StartLaunch(r)
  BY <1>3 DEF StartLaunch, Launch, Unused
<1>4. CASE StartRegister(r)
  BY <1>4 DEF StartRegister, Register, Spawn
<1>5. CASE ResumeGet(r)
  BY <1>5 DEF ResumeGet
<1>6. CASE ResumeRefuse(r)
  BY <1>6 DEF ResumeRefuse
<1>7. CASE ResumeLaunch(r)
  BY <1>7 DEF ResumeLaunch, Launch, Unused
<1>8. CASE ResumeRegister(r)
  BY <1>8 DEF ResumeRegister, Register
<1>9. CASE ResumeSpawn(r)
  BY <1>9 DEF ResumeSpawn, Spawn
<1>10. CASE StopSignal(r)
  BY <1>10 DEF StopSignal, Active
<1>11. CASE RemoveRefuse(r)
  BY <1>11 DEF RemoveRefuse
<1>12. CASE RemoveMark(r)
  BY <1>12 DEF RemoveMark
<1>13. CASE RemoveEngine(r)
  BY <1>13 DEF RemoveEngine
<1>14. CASE RemoveLoaded(r)
  BY <1>14 DEF RemoveLoaded
<1>15. CASE RemoveChaos(r)
  BY <1>15 DEF RemoveChaos
<1>16. CASE RecordRefuse(r)
  BY <1>16 DEF RecordRefuse
<1>17. CASE RecordSeed(r)
  BY <1>17 DEF RecordSeed
<1>18. CASE LoadSet(r)
  BY <1>18 DEF LoadSet
<1>19. CASE LoadChaos(r)
  BY <1>19 DEF LoadChaos
<1>20. CASE ExportGet(r)
  BY <1>20 DEF ExportGet
<1>21. CASE ExportLoaded(r)
  BY <1>21 DEF ExportLoaded
<1>22. CASE ExportUnremoved(r)
  BY <1>22 DEF ExportUnremoved
<1>23. CASE ExportID(r)
  BY <1>23 DEF ExportID
<1>24. CASE ExportFile(r)
  BY <1>24 DEF ExportFile
<1>25. CASE ExportSet(r)
  BY <1>25 DEF ExportSet
<1>26. CASE ExportAnswer(r)
  BY <1>26 DEF ExportAnswer
<1>27. CASE DisconnectLoaded(r)
  BY <1>27 DEF DisconnectLoaded
<1>28. CASE DisconnectClear(r)
  BY <1>28 DEF DisconnectClear
<1>29. CASE DisconnectSession(r)
  BY <1>29 DEF DisconnectSession
<1> QED
  BY <1>1, <1>2, <1>3, <1>4, <1>5, <1>6, <1>7, <1>8, <1>9, <1>10, <1>11,
     <1>12, <1>13, <1>14, <1>15, <1>16, <1>17, <1>18, <1>19, <1>20, <1>21,
     <1>22, <1>23, <1>24, <1>25, <1>26, <1>27, <1>28, <1>29 DEF Handler


LEMMA RunLoopKeptInv ==
    ASSUME KeptInv, NEW e \in Engines, RunLoop(e)
    PROVE  KeptInv'
<1>1. UNCHANGED <<chaos, loadedRun, pc, eng, run, from, sync, saved>>
  BY DEF RunLoop, RunBegin, RunHalt, RunStep, RunFail, sessionVars, storeVars, requestVars, diskVars
<1> QED BY <1>1 DEF KeptInv, SpawnedOnce, KnownAreKept, Known, Kept, Starting

(* A goroutine makes its run known when it draws the id, and saves it.     *)
LEMMA SyncKeptInv ==
    ASSUME ~DiskFaults, TypeInv, CompleteInv, KeptInv, NEW e \in Engines, Sync(e)
    PROVE  KeptInv'
<1> USE NilAssumption, RunsAssumption
        DEF TypeInv, TypeOK, LocalsOK, ChaosState, CompleteInv, LaunchedAreUsed, KeptInv,
            SpawnedOnce, KnownAreKept, Known, Kept, Starting, SyncStep, Runs, sessionVars, storeVars,
            requestVars, engineVars, diskVars
<1>1. CASE SyncPoll(e)
  BY <1>1 DEF SyncPoll, Active, LoopPoints
<1>2. CASE SyncQuit(e)
  BY <1>2 DEF SyncQuit
<1>3. CASE SyncCheck(e)
  BY <1>3 DEF SyncCheck
<1>4. CASE SyncSnapshot(e)
  BY <1>4 DEF SyncSnapshot
<1>5. CASE SyncSetID(e)
  BY <1>5 DEF SyncSetID
<1>6. CASE SyncSave(e)
  BY <1>6 DEF SyncSave
<1>7. CASE SyncUnregister(e)
  BY <1>7 DEF SyncUnregister
<1>8. ASSUME NEW a \in BOOLEAN, SyncPublish(e, a)
  PROVE  KeptInv'
  BY <1>8 DEF SyncPublish
<1> QED
  BY <1>1, <1>2, <1>3, <1>4, <1>5, <1>6, <1>7, <1>8 DEF Sync


LEMMA AlwaysKeptInv == ~DiskFaults => (Spec => []KeptInv)
<1> SUFFICES ASSUME ~DiskFaults PROVE Spec => []KeptInv
  OBVIOUS
<1>1. TypeInv /\ CompleteInv /\ KeptInv /\ [Next]_vars => KeptInv'
  <2> SUFFICES ASSUME TypeInv, CompleteInv, KeptInv, [Next]_vars PROVE KeptInv'
    OBVIOUS
  <2>1. CASE Next
    BY <2>1, ClientKeptInv, HandlerKeptInv, RunLoopKeptInv, SyncKeptInv DEF Next
  <2>2. CASE UNCHANGED vars
    BY <2>2 DEF KeptInv, SpawnedOnce, KnownAreKept, Known, Kept, Starting, vars,
                sessionVars, storeVars, requestVars, engineVars, diskVars
  <2> QED BY <2>1, <2>2
<1> QED BY <1>1, InitKeptInv, AlwaysTypeInv, AlwaysCompleteInv, PTL DEF Spec

(* As long as the disk takes every run, a run id that a status shows is    *)
(* that of a run in the directory, or of one that is just being saved.     *)
THEOREM ShownRunsAreSaved == ~DiskFaults => (Spec => []ShownRunIsSaved)
<1> SUFFICES ASSUME ~DiskFaults PROVE Spec => []ShownRunIsSaved
  OBVIOUS
<1>1. Spec => []KeptInv
  BY AlwaysKeptInv
<1>2. KeptInv => ShownRunIsSaved
  BY DEF KeptInv, KnownAreKept, Known, Kept, ShownRunIsSaved
<1> QED BY <1>1, <1>2, PTL

-----------------------------------------------------------------------------
(* ChaosControl implements RunLifecycle                                    *)

(* What the refinement mapping reads. *)
lifecycleVars == <<loop, steps, from, snap, loadedRun, saved>>

(* The phases are the abstract phase variable. *)
phases == [e \in Engines |-> Phase(e)]

(* An assignment to one run loop's position changes that run's phase only. *)
LEMMA PhaseChange ==
    ASSUME TypeOK, NEW e \in Engines, NEW point, loop' = [loop EXCEPT ![e] = point]
    PROVE  /\ point \in {"top", "step"} => phases' = [phases EXCEPT ![e] = "running"]
           /\ point = "done" => phases' = [phases EXCEPT ![e] = "ended"]
BY DEF phases, Phase, TypeOK

(* A step that leaves what the mapping reads is a stuttering step. *)
LEMMA LifecycleStutter ==
    ASSUME UNCHANGED lifecycleVars
    PROVE  UNCHANGED Lifecycle!vars
BY DEF lifecycleVars, Lifecycle!vars, Phase

(* The initial states are initial states of RunLifecycle. *)
LEMMA LifecycleInit == Init => Lifecycle!Init
BY DEF Init, Lifecycle!Init, Lifecycle!Runs, Runs, Phase

(* Whatever a handler or a file holds is the final snapshot of a run.      *)
LEMMA ReachableIsFinal ==
    ASSUME TypeInv, CompleteInv, NEW x, Reachable(x)
    PROVE  Lifecycle!Final(x)
BY DEF CompleteInv, SnapshotsComplete, Lifecycle!Final, Phase

(* Receiving a request changes nothing the mapping reads.                  *)
LEMMA ClientLifecycle ==
    ASSUME NEW r \in Requests, Client(r)
    PROVE  UNCHANGED lifecycleVars
BY DEF Client, StartReceive, ResumeReceive, StopReceive, RemoveReceive, LoadReceive,
       RecordReceive, ExportReceive, DisconnectReceive, lifecycleVars, sessionVars, storeVars,
       engineVars, diskVars

(* A launch begins a run; a resume begins it at a final snapshot.          *)
LEMMA LaunchLifecycle ==
    ASSUME TypeInv, NEW r \in Requests, NEW n, NEW x, Launch(r, n, x),
           UNCHANGED <<snap, loadedRun, saved>>
    PROVE  \E e \in Engines : Lifecycle!Begin(e, n, x)
<1>1. PICK e \in Unused :
        /\ loop' = [loop EXCEPT ![e] = "top"]
        /\ steps' = [steps EXCEPT ![e] = n]
        /\ from' = [from EXCEPT ![e] = x]
  BY DEF Launch
<1>2. e \in Engines /\ loop[e] = "unused"
  BY DEF Unused
<1>3. phases' = [phases EXCEPT ![e] = "running"]
  BY <1>1, <1>2, PhaseChange DEF TypeInv
<1>4. phases[e] = "new"
  BY <1>2 DEF phases, Phase
<1> QED BY <1>1, <1>2, <1>3, <1>4 DEF Lifecycle!Begin, phases

(* Every step of a handler is a step of RunLifecycle or a stutter.         *)
LEMMA HandlerLifecycle ==
    ASSUME TypeInv, CompleteInv, NEW r \in Requests, Handler(r)
    PROVE  Lifecycle!Next \/ UNCHANGED lifecycleVars
<1> USE DEF lifecycleVars, sessionVars, storeVars, engineVars, diskVars
<1>1. CASE StartLaunch(r)
  <2>1. \E e \in Engines : Lifecycle!Begin(e, 0, NoRun)
    BY <1>1, LaunchLifecycle DEF StartLaunch
  <2> QED BY <2>1 DEF Lifecycle!Next, Lifecycle!Launch
<1>2. CASE ResumeLaunch(r)
  <2>1. run[r] \in Runs
    BY <1>2 DEF ResumeLaunch, Step, TypeInv, LocalsOK
  <2>2. Lifecycle!Final(run[r])
    BY <2>1, ReachableIsFinal DEF Reachable
  <2>3. \E e \in Engines : Lifecycle!Begin(e, snap[run[r]], run[r])
    BY <1>2, LaunchLifecycle DEF ResumeLaunch
  <2>4. run[r] \in Lifecycle!Runs
    BY <2>1 DEF Runs, Lifecycle!Runs
  <2> QED BY <2>2, <2>3, <2>4 DEF Lifecycle!Next, Lifecycle!Resume
<1>3. CASE LoadSet(r) \/ ExportSet(r)
  <2>1. Lifecycle!Load(run[r]) /\ run[r] \in Runs
    <3>1. run[r] \in Runs
      BY <1>3 DEF LoadSet, ExportSet, Reply, Step, TypeInv, LocalsOK
    <3>2. Lifecycle!Final(run[r])
      BY ReachableIsFinal DEF Reachable
    <3>3. loadedRun' = run[r] /\ UNCHANGED <<loop, steps, from, snap, saved>>
      BY <1>3 DEF LoadSet, ExportSet
    <3> QED BY <3>1, <3>2, <3>3 DEF Lifecycle!Load, Phase
  <2> QED BY <2>1 DEF Lifecycle!Next, Lifecycle!Runs, Runs
<1>4. CASE RemoveLoaded(r) \/ DisconnectLoaded(r)
  <2>1. loadedRun' = NoRun /\ UNCHANGED <<loop, steps, from, snap, saved>>
    BY <1>4 DEF RemoveLoaded, DisconnectLoaded
  <2> QED BY <2>1 DEF Lifecycle!Next, Lifecycle!Unload, Phase
<1>5. CASE StartGet(r) \/ StartRefuse(r) \/ StartRegister(r) \/ StopSignal(r)
  BY <1>5 DEF StartGet, StartRefuse, StartRegister, StopSignal
<1>6. CASE ResumeGet(r) \/ ResumeRefuse(r) \/ ResumeRegister(r) \/ ResumeSpawn(r)
  BY <1>6 DEF ResumeGet, ResumeRefuse, ResumeRegister, ResumeSpawn
<1>7. CASE RemoveRefuse(r) \/ RemoveMark(r) \/ RemoveEngine(r) \/ RemoveChaos(r)
  BY <1>7 DEF RemoveRefuse, RemoveMark, RemoveEngine, RemoveChaos
<1>8. CASE RecordRefuse(r) \/ RecordSeed(r) \/ LoadChaos(r)
  BY <1>8 DEF RecordRefuse, RecordSeed, LoadChaos
<1>9. CASE ExportGet(r) \/ ExportLoaded(r) \/ ExportUnremoved(r) \/ ExportID(r)
           \/ ExportFile(r) \/ ExportAnswer(r)
  BY <1>9 DEF ExportGet, ExportLoaded, ExportUnremoved, ExportID, ExportFile, ExportAnswer
<1>10. CASE DisconnectClear(r) \/ DisconnectSession(r)
  BY <1>10 DEF DisconnectClear, DisconnectSession
<1> QED
  BY <1>1, <1>2, <1>3, <1>4, <1>5, <1>6, <1>7, <1>8, <1>9, <1>10 DEF Handler

(* The run loop counts below the limit and ends once.                      *)
LEMMA RunLoopLifecycle ==
    ASSUME TypeInv, NEW e \in Engines, RunLoop(e)
    PROVE  Lifecycle!Next \/ UNCHANGED Lifecycle!vars
<1> USE DEF TypeInv, storeVars, diskVars, phases
<1>1. CASE RunBegin(e)
  <2>1. phases' = phases
    BY <1>1 DEF RunBegin, Phase, TypeOK
  <2> QED BY <1>1, <2>1 DEF RunBegin, Lifecycle!vars
<1>2. CASE RunHalt(e) \/ RunFail(e)
  <2>1. phases' = [phases EXCEPT ![e] = "ended"] /\ phases[e] = "running"
    BY <1>2, PhaseChange DEF RunHalt, RunFail, Phase
  <2>2. Lifecycle!End(e)
    BY <1>2, <2>1 DEF RunHalt, RunFail, Lifecycle!End
  <2> QED BY <2>2 DEF Lifecycle!Next
<1>3. CASE RunStep(e)
  <2>1. phases' = phases /\ phases[e] = "running"
    BY <1>3 DEF RunStep, Phase, TypeOK
  <2>2. steps[e] < MaxSteps
    BY <1>3 DEF RunStep, StepGuard
  <2>3. Lifecycle!Count(e)
    BY <1>3, <2>1, <2>2 DEF RunStep, Lifecycle!Count
  <2> QED BY <2>3 DEF Lifecycle!Next
<1> QED BY <1>1, <1>2, <1>3 DEF RunLoop

(* A sync goroutine takes the snapshot of a run that has ended, and saves  *)
(* it when it is final.                                                    *)
LEMMA SyncLifecycle ==
    ASSUME TypeInv, CompleteInv, NEW e \in Engines, Sync(e)
    PROVE  Lifecycle!Next \/ UNCHANGED lifecycleVars
<1> USE DEF lifecycleVars, sessionVars, storeVars, engineVars, diskVars
<1>1. CASE SyncSnapshot(e)
  <2>1. phases[e] = "ended"
    BY <1>1 DEF SyncSnapshot, SyncStep, CompleteInv, FinalAfterEnd, phases, Phase
  <2>2. Lifecycle!Take(e)
    BY <1>1, <2>1 DEF SyncSnapshot, Lifecycle!Take, phases, Phase
  <2> QED BY <2>2 DEF Lifecycle!Next
<1>2. CASE SyncSave(e)
  <2>1. Lifecycle!Final(e)
    BY <1>2 DEF SyncSave, SyncStep, CompleteInv, TakenIsComplete, Complete, Lifecycle!Final, Phase
  <2>2. UNCHANGED <<loop, steps, from, snap, loadedRun>>
    BY <1>2 DEF SyncSave
  <2>3. CASE saved' = saved \cup {e}
    BY <2>1, <2>2, <2>3 DEF Lifecycle!Save, Lifecycle!Next, Phase
  <2>4. CASE saved' = saved
    BY <2>2, <2>4
  <2> QED BY <1>2, <2>3, <2>4 DEF SyncSave
<1>3. CASE SyncPoll(e) \/ SyncQuit(e) \/ SyncPublish(e, TRUE) \/ SyncPublish(e, FALSE)
           \/ SyncCheck(e) \/ SyncSetID(e) \/ SyncUnregister(e)
  BY <1>3 DEF SyncPoll, SyncQuit, SyncPublish, SyncCheck, SyncSetID, SyncUnregister
<1> QED BY <1>1, <1>2, <1>3 DEF Sync

(* Whatever requests, removals, disconnects and goroutines do in whichever *)
(* order, runs keep to the life cycle: they count up to the limit, end     *)
(* once, and only their final snapshots are loaded, saved and resumed.     *)
THEOREM ControlImplementsLifecycle == Spec => ImplementsLifecycle
<1>1. ASSUME TypeInv, CompleteInv, [Next]_vars PROVE [Lifecycle!Next]_(Lifecycle!vars)
  <2>1. CASE \E r \in Requests : Client(r)
    BY <2>1, ClientLifecycle, LifecycleStutter
  <2>2. CASE \E r \in Requests : Handler(r)
    BY <1>1, <2>2, HandlerLifecycle, LifecycleStutter
  <2>3. CASE \E e \in Engines : RunLoop(e)
    BY <1>1, <2>3, RunLoopLifecycle
  <2>4. CASE \E e \in Engines : Sync(e)
    BY <1>1, <2>4, SyncLifecycle, LifecycleStutter
  <2>5. CASE UNCHANGED vars
    <3>1. UNCHANGED lifecycleVars
      BY <2>5 DEF vars, lifecycleVars, storeVars, engineVars, diskVars
    <3> QED BY <3>1, LifecycleStutter
  <2> QED BY <1>1, <2>1, <2>2, <2>3, <2>4, <2>5 DEF Next
<1> QED
  BY <1>1, LifecycleInit, AlwaysTypeInv, AlwaysCompleteInv, PTL
  DEF Spec, ImplementsLifecycle, Lifecycle!Spec
=============================================================================
