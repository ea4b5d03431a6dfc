---------------------------- MODULE RunLifecycle ----------------------------
(***************************************************************************)
(* What chaos mode promises about runs, without requests, goroutines, the  *)
(* engine store or the status: a run is launched once, counts its steps up *)
(* to a limit and ends; only then its snapshot is taken, and only runs     *)
(* with a final snapshot are loaded, saved and resumed.                    *)
(***************************************************************************)
EXTENDS Naturals

CONSTANTS
    Engines,      \* the runs that can be launched
    EarlierRuns,  \* the runs that were saved before
    Recording,    \* the run made from a recording
    NoRun,
    MaxSteps,     \* the step limit of a run
    EarlierSteps  \* what each earlier run counted

VARIABLES
    phase,   \* of each run: "new", "running" or "ended"
    count,   \* the steps of each run
    origin,  \* the run that it resumes
    shot,    \* the steps in each run's snapshot
    loaded,  \* the run the session has loaded
    saved    \* the runs in the directory

vars == <<phase, count, origin, shot, loaded, saved>>

Runs == Engines \cup EarlierRuns \cup {Recording}

(* Nothing is missing from the snapshot, and nothing will be. *)
Final(x) == x \in Engines => phase[x] = "ended" /\ shot[x] = count[x]

Init ==
    /\ phase = [e \in Engines |-> "new"]
    /\ count = [e \in Engines |-> 0]
    /\ origin = [e \in Engines |-> NoRun]
    /\ shot = [x \in Runs |-> IF x \in EarlierRuns THEN EarlierSteps ELSE 0]
    /\ loaded = NoRun
    /\ saved = EarlierRuns

Begin(e, n, x) ==
    /\ phase[e] = "new"
    /\ phase' = [phase EXCEPT ![e] = "running"]
    /\ count' = [count EXCEPT ![e] = n]
    /\ origin' = [origin EXCEPT ![e] = x]
    /\ UNCHANGED <<shot, loaded, saved>>

Launch(e) == Begin(e, 0, NoRun)

Resume(e, x) == Final(x) /\ Begin(e, shot[x], x)

Count(e) ==
    /\ phase[e] = "running"
    /\ count[e] < MaxSteps
    /\ count' = [count EXCEPT ![e] = @ + 1]
    /\ UNCHANGED <<phase, origin, shot, loaded, saved>>

End(e) ==
    /\ phase[e] = "running"
    /\ phase' = [phase EXCEPT ![e] = "ended"]
    /\ UNCHANGED <<count, origin, shot, loaded, saved>>

(* The snapshot of a run that has ended becomes the loaded run. *)
Take(e) ==
    /\ phase[e] = "ended"
    /\ shot' = [shot EXCEPT ![e] = count[e]]
    /\ loaded' = e
    /\ UNCHANGED <<phase, count, origin, saved>>

Load(x) ==
    /\ Final(x)
    /\ loaded' = x
    /\ UNCHANGED <<phase, count, origin, shot, saved>>

Unload ==
    /\ loaded' = NoRun
    /\ UNCHANGED <<phase, count, origin, shot, saved>>

Save(e) ==
    /\ Final(e)
    /\ saved' = saved \cup {e}
    /\ UNCHANGED <<phase, count, origin, shot, loaded>>

Next ==
    \/ \E e \in Engines : Launch(e) \/ Count(e) \/ End(e) \/ Take(e) \/ Save(e)
    \/ \E e \in Engines, x \in Runs : Resume(e, x)
    \/ \E x \in Runs : Load(x)
    \/ Unload

Spec == Init /\ [][Next]_vars
=============================================================================
