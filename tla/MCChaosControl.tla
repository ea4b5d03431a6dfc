--------------------------- MODULE MCChaosControl ---------------------------
(* Instances of ChaosControl for TLC.                                      *)
EXTENDS ChaosControl, TLC

(* Requests and engines are interchangeable: they are only ever compared   *)
(* for equality, and no invariant names one.                               *)
Symmetry == Permutations(Requests) \cup Permutations(Engines)

(* The handler's engine while something still depends on it: once the      *)
(* engine that was looked up has stopped, a handler takes the same steps   *)
(* as with none.                                                           *)
LiveEngine(r) ==
    CASE pc[r] \in {"start_set", "resume_set", "resume_clear"} -> eng[r]
      [] pc[r] \in {"start_launch", "resume_launch", "remove_check", "record_check",
                    "stop_signal"} /\ Active(eng[r]) -> eng[r]
      [] OTHER -> NoEngine

(* States are told apart by what can still matter: not by the engine local *)
(* of a handler that is done with it, nor by the stop signal of an engine  *)
(* that has stopped (only the run loop reads it).  No invariant reads them,*)
(* TypeOK apart.                                                           *)
View ==
    <<sessionVars, storeVars, pc, run, [r \in Requests |-> LiveEngine(r)], loop,
      [e \in Engines |-> stop[e] /\ Active(e)], steps, from, sync, diskVars>>
=============================================================================
