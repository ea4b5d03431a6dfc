---------------------------- MODULE ChaosEngine -----------------------------
(***************************************************************************)
(* The exploration loop of chaos mode (internal/chaos/engine.go), the mind *)
(* map it learns (mindmap.go) and the runs it goes on from: its own        *)
(* snapshot, or a run seeded from a recording (chaos.go).                  *)
(*                                                                         *)
(* A run is one goroutine.  Nothing else writes what it has learned while  *)
(* it is active, so a lock section that only reads is part of the action   *)
(* that uses what it read; stop may be requested between any two actions.  *)
(* The goroutine reports itself inactive before it writes the output file: *)
(* the next run may have begun by then, and unwritten keeps what the       *)
(* goroutines of earlier runs have yet to write.                           *)
(*                                                                         *)
(* A screen is its hash.  Which one the host shows is left open: other     *)
(* users of the session's host may have moved it on between two looks.     *)
(* The label and the field summary of an area are left out.  Texts are     *)
(* plain ASCII: the engine counts their bytes, a seeded run their runes.   *)
(***************************************************************************)
EXTENDS KeyNames, SeqFilter, FiniteSets, FiniteSetsExt, SequencesExt

CONSTANTS
    Screens,         \* the screens' hashes
    FieldsOf,        \* the input fields of each screen, in order
    Values,          \* the texts typed
    Size,            \* the length of each
    Trimmed,         \* strings.TrimSpace of each
    Keys,            \* the keys runs may press, those of the recordings included
    KeyOrder,        \* the same in the order of sort.Strings
    Configs,         \* what a run is configured with
    Recordings,      \* the steps of the recordings a run can be seeded from
    MaxAttempts,     \* maxRecentAttempts: 40 in the code
    MaxValues,       \* maxKnownValuesPerField: 12
    MinPresses,      \* minPressesForPenalty: 5
    MaxFactor,       \* maxProgressionBoostFactor: 20
    BoostUnit,       \* 10
    MaxRuns,         \* bounds the runs of a behaviour
    NoScreen, NoSteps  \* the goroutine is at no screen, there is no output file

(* A row and a column; a field without any cell gets no value.             *)
Place == Nat \X Nat
NoPlace == <<0, 0>>
Fields == [at : Place, len : Nat \ {0}]

ASSUME KeysAssumption ==
    /\ Enter \in Keys
    /\ KeyOrder \in Seq(Keys) /\ IsInjective(KeyOrder) /\ ToSet(KeyOrder) = Keys

(* A hash is not the number of an area that was cut out of a recording.    *)
ASSUME ScreensAssumption == NoScreen \notin Screens /\ \A h \in Screens : h \notin Nat

ASSUME SizeAssumption ==
    /\ Size \in [Values -> Nat]
    /\ Trimmed \in [Values -> Values]
    /\ \A v \in Values : Size[Trimmed[v]] <= Size[v] /\ Trimmed[Trimmed[v]] = Trimmed[v]

IsBlank(v) == Size[Trimmed[v]] = 0

ASSUME FieldsAssumption == FieldsOf \in [Screens -> Seq(Fields)]

ASSUME BoundsAssumption ==
    /\ MaxAttempts \in Nat \ {0} /\ MaxValues \in Nat \ {0} /\ MinPresses \in Nat
    /\ MaxFactor \in Nat /\ BoostUnit \in Nat /\ MaxRuns \in Nat

(* Config.  A key without a weight is not in the domain of weights, and a  *)
(* request may give any number as one; the limit is never 0, since a       *)
(* request cannot set it to that.                                          *)
ASSUME ConfigsAssumption ==
    \A c \in Configs :
        /\ DOMAIN c.weights \subseteq Keys
        /\ \A k \in DOMAIN c.weights : c.weights[k] \in Int
        /\ c.limit \in Nat
        /\ c.exclude \in BOOLEAN

(* WorkflowStep: a fill, a key a run exports, or whatever a recording      *)
(* holds.  Coordinates and the length among them may be missing: zero.     *)
StepKinds ==
    {Plain("FillString")} \cup {ExportedStep(k) : k \in Keys}
        \cup UNION {{s.type : s \in ToSet(r)} : r \in Recordings}

StepTypes == [type : StepKinds, at : Place, len : Nat, text : Values \cup {NoKey}]

Press(step) == [type |-> step, at |-> NoPlace, len |-> 0, text |-> NoKey]
Fill(at, value) == [type |-> Plain("FillString"), at |-> at, len |-> 0, text |-> value]
IsFill(step) == step.type = Plain("FillString")
IsPress(step) ==
    step.type \notin {Plain("FillString"), Plain("Connect"), Plain("Disconnect")}

SeedKey(s) == IF KeyForStep(s.type) = NoKey THEN s.type ELSE KeyForStep(s.type)

ASSUME RecordingsAssumption ==
    /\ Recordings \subseteq Seq(StepTypes)
    /\ \A r \in Recordings : \A i \in DOMAIN r :
        /\ IsPress(r[i]) => SeedKey(r[i]) \in Keys
        /\ IsFill(r[i]) => r[i].text \in Values

ASSUME FiniteAssumption == IsFiniteSet(Screens) /\ IsFiniteSet(Keys) /\ IsFiniteSet(Recordings)

VARIABLES
    active, stop,  \* as the engine's status and its stop channel say
    cfg,
    stepsRun, keyCounts, transitions, steps, hashes, inputs, attempts, failed, mind,
    pc,            \* the goroutine: "none", "top", "press", "after", "delay" or "exit"
    from, key, writes,  \* its step: the screen it saw, its key, its field writes
    unwritten,     \* the workflows that earlier goroutines have yet to write
    output,        \* the output file
    runs,          \* the runs so far
    seeded,        \* how many of the steps come from a recording
    failures,      \* the keys pressed whose step did not count
    afterStop,     \* the keys pressed since the stop was requested
    disturbed      \* two runs had the file to write at once, or a write failed

stepVars == <<from, key, writes>>
learned == <<stepsRun, keyCounts, transitions, steps, hashes, inputs, attempts, mind>>
vars == <<active, stop, cfg, learned, failed, pc, stepVars, unwritten, output, runs, seeded,
          failures, afterStop, disturbed>>

-----------------------------------------------------------------------------
(* The mind map                                                            *)

(* The areas a recording is cut into are numbered: every key leads to the  *)
(* next one.                                                               *)
AreaAt(r, i) == 1 + Cardinality({j \in 1..(i - 1) : IsPress(r[j])})

Areas == Screens \cup UNION {1..AreaAt(r, Len(r) + 1) : r \in Recordings}

(* The steps of a recording that fill something in. *)
SeedFills(r) == {i \in DOMAIN r : IsFill(r[i]) /\ ~IsBlank(r[i].text)}

(* Where a seeded run files such a text: coordinates that are missing are  *)
(* made up, 24 to a column, and so is a length that is missing.            *)
SeedFieldKey(r, i) ==
    LET before == Cardinality({j \in SeedFills(r) : j < i})
        given(n, other) == IF n > 0 THEN n ELSE other
    IN  << <<given(r[i].at[1], 1 + (before % 24)), given(r[i].at[2], 1 + (before \div 24))>>,
           given(r[i].len, Size[Trimmed[r[i].text]]) >>

(* mindMapFieldKey: a place and a length, that of a field or of a value.   *)
Places == {f.at : f \in UNION {ToSet(FieldsOf[h]) : h \in Screens}}

FieldKeys ==
    (Places \X {Size[v] : v \in Values})
        \cup UNION {{<<f.at, f.len>> : f \in ToSet(FieldsOf[h])} : h \in Screens}
        \cup UNION {{SeedFieldKey(r, i) : i \in SeedFills(r)} : r \in Recordings}

MindMap ==
    [areas : SUBSET Areas,
     visits : [Areas -> Nat],
     presses : [Areas -> [Keys -> Nat]],
     progressions : [Areas -> [Keys -> Nat]],
     destinations : [Areas -> [Keys -> [Areas -> Nat]]],
     values : [Areas -> [FieldKeys -> Seq(Values)]]]

EmptyMap ==
    [areas |-> {},
     visits |-> [a \in Areas |-> 0],
     presses |-> [a \in Areas |-> [k \in Keys |-> 0]],
     progressions |-> [a \in Areas |-> [k \in Keys |-> 0]],
     destinations |-> [a \in Areas |-> [k \in Keys |-> [b \in Areas |-> 0]]],
     values |-> [a \in Areas |-> [f \in FieldKeys |-> << >>]]]

ObserveScreen(map, h) ==
    [map EXCEPT !.areas = @ \cup {h}, !.visits[h] = @ + 1]

(* Variant: the oldest value stays. *)
AppendUniqueUnlimited(values, v) == IF v \in ToSet(values) THEN values ELSE Append(values, v)

(* appendUniqueLimited: a new value evicts the oldest. *)
AppendUniqueLimited(values, v) ==
    CASE v \in ToSet(values) -> values
      [] v \notin ToSet(values) /\ Len(values) < MaxValues -> Append(values, v)
      [] OTHER -> Append(Tail(values), v)

(* The writes that are filed under field key fk, the earliest first: it    *)
(* has the length of what was written, blanks at the end included.         *)
Written(ws, fk) ==
    Filter(ws, {w \in ToSet(ws) : w.ok /\ ~IsBlank(w.text) /\ <<w.at, Size[w.text]>> = fk})

(* What is learned is the text without these blanks. *)
Learn(values, ws) ==
    [fk \in FieldKeys |->
        FoldLeft(LAMBDA vs, w : AppendUniqueLimited(vs, Trimmed[w.text]), values[fk],
                 Written(ws, fk))]

(* Variant: a press that led nowhere is no press. *)
RecordProgressOnly(map, a, ws) ==
    IF ~a.transitioned THEN map
    ELSE [map EXCEPT
            !.presses[a.from][a.key] = @ + 1,
            !.progressions[a.from][a.key] = @ + 1,
            !.destinations[a.from][a.key][a.to] = @ + 1,
            !.values[a.from] = Learn(@, ws)]

(* Variant: what was written is learned whether or not the key worked. *)
RecordAndLearn(map, a, ws) ==
    LET pressed == [map EXCEPT !.presses[a.from][a.key] = @ + 1,
                               !.values[a.from] = Learn(@, ws)]
    IN  IF ~a.transitioned THEN pressed
        ELSE [pressed EXCEPT
                !.progressions[a.from][a.key] = @ + 1,
                !.destinations[a.from][a.key][a.to] = @ + 1]

(* recordAttempt. *)
RecordAttempt(map, a, ws) ==
    LET pressed == [map EXCEPT !.presses[a.from][a.key] = @ + 1]
    IN  IF ~a.transitioned THEN pressed
        ELSE [pressed EXCEPT
                !.progressions[a.from][a.key] = @ + 1,
                !.destinations[a.from][a.key][a.to] = @ + 1,
                !.values[a.from] = Learn(@, ws)]

-----------------------------------------------------------------------------
(* The run a recording is turned into (chaosSeedRunFromWorkflow).          *)

(* The steps that are taken in area a, and those that press k there. *)
SeedUses(r, a) == {i \in DOMAIN r : (IsFill(r[i]) \/ IsPress(r[i])) /\ AreaAt(r, i) = a}
SeedPresses(r, a, k) == {i \in SeedUses(r, a) : IsPress(r[i]) /\ SeedKey(r[i]) = k}

(* Its own appendUniqueLimited keeps the oldest values. *)
KeepOldest(vs, v) == IF v \in ToSet(vs) \/ Len(vs) >= MaxValues THEN vs ELSE Append(vs, v)

(* A blank fill visits its area and leaves no value. *)
SeedValues(r, a, fk) ==
    LET fills == {i \in SeedFills(r) : AreaAt(r, i) = a /\ SeedFieldKey(r, i) = fk}
        keep(vs, i) == IF i \in fills THEN KeepOldest(vs, Trimmed[r[i].text]) ELSE vs
    IN  FoldLeftDomain(keep, << >>, r)

(* buildChaosSeedMindMap. *)
SeedMap(r) ==
    LET counts == [a \in Areas |-> [k \in Keys |-> Cardinality(SeedPresses(r, a, k))]]
    IN  [areas |-> {a \in Areas : SeedUses(r, a) # {}}
                     \cup {AreaAt(r, i) + 1 : i \in {j \in DOMAIN r : IsPress(r[j])}},
         visits |-> [a \in Areas |-> Cardinality(SeedUses(r, a))],
         presses |-> counts,
         progressions |-> counts,
         destinations |-> [a \in Areas |-> [k \in Keys |-> [b \in Areas |->
                Cardinality({i \in SeedPresses(r, a, k) : AreaAt(r, i) + 1 = b})]]],
         values |-> [a \in Areas |-> [fk \in FieldKeys |-> SeedValues(r, a, fk)]]]

(* SavedRun. *)
SeedRun(r) ==
    [stepsRun |-> 0, keyCounts |-> [k \in Keys |-> 0], transitions |-> << >>, steps |-> r,
     hashes |-> {}, inputs |-> {Trimmed[r[i].text] : i \in SeedFills(r)},
     attempts |-> << >>, mind |-> SeedMap(r)]

Snapshot ==
    [stepsRun |-> stepsRun, keyCounts |-> keyCounts, transitions |-> transitions,
     steps |-> steps, hashes |-> hashes, inputs |-> inputs, attempts |-> attempts,
     mind |-> mind]

-----------------------------------------------------------------------------
(* Start, resume and stop                                                  *)

Init ==
    /\ active = FALSE
    /\ stop = FALSE
    /\ cfg \in Configs
    /\ stepsRun = 0
    /\ keyCounts = [k \in Keys |-> 0]
    /\ transitions = << >>
    /\ steps = << >>
    /\ hashes = {}
    /\ inputs = {}
    /\ attempts = << >>
    /\ failed = FALSE
    /\ mind = EmptyMap
    /\ pc = "none"
    /\ from = NoScreen
    /\ key = NoKey
    /\ writes = << >>
    /\ unwritten = {}
    /\ output = NoSteps
    /\ runs = 0
    /\ seeded = 0
    /\ failures = 0
    /\ afterStop = 0
    /\ disturbed = FALSE

(* A new engine for the session's host, configured with c.                 *)
Begin(c) ==
    /\ ~active
    /\ runs < MaxRuns
    /\ runs' = runs + 1
    /\ active' = TRUE
    /\ stop' = FALSE
    /\ failed' = FALSE
    /\ cfg' = c
    /\ pc' = "top"
    /\ afterStop' = 0
    /\ disturbed' = (disturbed \/ unwritten # {})
    /\ UNCHANGED <<stepVars, unwritten, output>>

Start(c) ==
    /\ Begin(c)
    /\ stepsRun' = 0
    /\ keyCounts' = [k \in Keys |-> 0]
    /\ transitions' = << >>
    /\ steps' = << >>
    /\ hashes' = {}
    /\ inputs' = {}
    /\ attempts' = << >>
    /\ mind' = EmptyMap
    /\ seeded' = 0
    /\ failures' = 0

FilterProgress(as) == Filter(as, {a \in ToSet(as) : a.transitioned \/ a.failed})

(* Variant: the steps are counted anew. *)
ResumeFromZero(saved, c) ==
    /\ Begin(c)
    /\ stepsRun' = 0
    /\ keyCounts' = saved.keyCounts
    /\ transitions' = saved.transitions
    /\ steps' = saved.steps
    /\ hashes' = saved.hashes
    /\ inputs' = saved.inputs
    /\ attempts' = IF c.exclude THEN FilterProgress(saved.attempts) ELSE saved.attempts
    /\ mind' = saved.mind

(* Variant: what was learned is not taken over. *)
ResumeUnlearned(saved, c) ==
    /\ Begin(c)
    /\ stepsRun' = saved.stepsRun
    /\ keyCounts' = saved.keyCounts
    /\ transitions' = saved.transitions
    /\ steps' = saved.steps
    /\ hashes' = saved.hashes
    /\ inputs' = saved.inputs
    /\ attempts' = IF c.exclude THEN FilterProgress(saved.attempts) ELSE saved.attempts
    /\ mind' = EmptyMap

(* Resume: the new engine goes on where the saved run was. *)
ResumeFrom(saved, c) ==
    /\ Begin(c)
    /\ stepsRun' = saved.stepsRun
    /\ keyCounts' = saved.keyCounts
    /\ transitions' = saved.transitions
    /\ steps' = saved.steps
    /\ hashes' = saved.hashes
    /\ inputs' = saved.inputs
    /\ attempts' = IF c.exclude THEN FilterProgress(saved.attempts) ELSE saved.attempts
    /\ mind' = saved.mind

ResumeRun(c) ==
    /\ runs > 0
    /\ ResumeFrom(Snapshot, c)
    /\ UNCHANGED <<seeded, failures>>

ResumeRecording(r, c) ==
    /\ ResumeFrom(SeedRun(r), c)
    /\ seeded' = Len(r)
    /\ failures' = 0

Stop ==
    /\ active
    /\ ~stop
    /\ stop' = TRUE
    /\ UNCHANGED <<active, cfg, learned, failed, pc, stepVars, unwritten, output, runs, seeded,
                   failures, afterStop, disturbed>>

-----------------------------------------------------------------------------
(* One step of the loop                                                    *)

envVars == <<stop, cfg, unwritten, output, runs, seeded, disturbed>>

(* Back to the deferred function, with nothing left of the step. *)
Leave(here) ==
    /\ pc = here
    /\ pc' = "exit"
    /\ from' = NoScreen
    /\ key' = NoKey
    /\ writes' = << >>

(* Stopped, at the step limit, or (at any time) out of the time budget. *)
LoopEnds ==
    /\ Leave("top")
    /\ UNCHANGED <<envVars, active, learned, failed, failures, afterStop>>

ReadFails ==
    /\ ~stop
    /\ stepsRun < cfg.limit
    /\ Leave("top")
    /\ failed' = TRUE
    /\ UNCHANGED <<envVars, active, learned, failures, afterStop>>

(* Every input field gets a value that fits it and is not blank; a write   *)
(* may fail.                                                               *)
Attempted(f, w) == w.at = f.at /\ ~IsBlank(w.text) /\ Size[w.text] <= f.len

(* snapshotKeyBoostsLocked. *)
Boosts(h) ==
    LET moved(k) == mind.progressions[h][k] > 0
        stuck(k) == ~moved(k) /\ mind.presses[h][k] > 0 /\ mind.presses[h][k] >= MinPresses
        capped(n) == IF n > MaxFactor THEN MaxFactor ELSE n
    IN  [k \in {k \in Keys : moved(k) \/ stuck(k)} |->
            IF moved(k) THEN capped(mind.progressions[h][k]) * BoostUnit ELSE -mind.presses[h][k]]

(* Variant: a penalty is not clamped. *)
EffectiveUnclamped(h) ==
    LET weights == cfg.weights
        boosts == Boosts(h)
        of(f, k) == IF k \in DOMAIN f THEN f[k] ELSE 0
    IN  [k \in DOMAIN weights \cup DOMAIN boosts |-> of(weights, k) + of(boosts, k)]

(* What chooseAIDKeyBoosted weighs: once there is a boost, every key it    *)
(* knows of weighs at least 1; until then the weights are taken as given.  *)
Effective(h) ==
    LET weights == cfg.weights
        boosts == Boosts(h)
        of(f, k) == IF k \in DOMAIN f THEN f[k] ELSE 0
        clamped(n) == IF n < 1 THEN 1 ELSE n
    IN  IF DOMAIN boosts = {} THEN weights
        ELSE [k \in DOMAIN weights \cup DOMAIN boosts |-> clamped(of(weights, k) + of(boosts, k))]

WeightOf(h, k) == IF k \in DOMAIN Effective(h) THEN Effective(h)[k] ELSE 0

(* The sum of the weights of the first n keys. *)
Cumulative(h) ==
    LET sum[n \in 0..Len(KeyOrder)] ==
            IF n = 0 THEN 0 ELSE sum[n - 1] + WeightOf(h, KeyOrder[n])
    IN  sum

(* The keys it can pick: a number below the total is drawn, and the first  *)
(* key whose sum is above it is pressed.                                   *)
SelectableKeys(h) ==
    LET sum == Cumulative(h)
        total == sum[Len(KeyOrder)]
        picks(n, i) == n < sum[i] /\ \A j \in 1..(i - 1) : sum[j] <= n
    IN  IF DOMAIN cfg.weights = {} \/ total <= 0 THEN {Enter}
        ELSE {KeyOrder[i] : i \in {j \in DOMAIN KeyOrder : \E n \in 0..(total - 1) : picks(n, j)}}

(* Variant: the stop request is not looked at before a step. *)
ReadScreenAnyway(h) ==
    /\ pc = "top"
    /\ stepsRun < cfg.limit
    /\ pc' = "press"
    /\ from' = h
    /\ key' \in SelectableKeys(h)
    /\ writes' \in [1..Len(FieldsOf[h]) -> [at : Places, text : Values, ok : BOOLEAN]]
    /\ \A i \in 1..Len(FieldsOf[h]) : Attempted(FieldsOf[h][i], writes'[i])
    /\ UNCHANGED <<envVars, active, learned, failed, failures, afterStop>>

(* UpdateScreen succeeds; the field writes and the choice of the key. *)
ReadScreen(h) ==
    /\ pc = "top"
    /\ ~stop
    /\ stepsRun < cfg.limit
    /\ pc' = "press"
    /\ from' = h
    /\ key' \in SelectableKeys(h)
    /\ writes' \in [1..Len(FieldsOf[h]) -> [at : Places, text : Values, ok : BOOLEAN]]
    /\ \A i \in 1..Len(FieldsOf[h]) : Attempted(FieldsOf[h][i], writes'[i])
    /\ UNCHANGED <<envVars, active, learned, failed, failures, afterStop>>

Attempt(to, error) ==
    [attempt |-> stepsRun + 1, from |-> from, to |-> to, key |-> key,
     transitioned |-> to # NoScreen /\ to # from, failed |-> error]

(* Only the latest attempts are kept. *)
AppendAttempt(a) ==
    attempts' = IF Len(attempts) < MaxAttempts THEN Append(attempts, a)
                ELSE Append(SubSeq(attempts, Len(attempts) - MaxAttempts + 2, Len(attempts)), a)

(* A failed key or a failed look at its result: the attempt is recorded    *)
(* and the run ends, but nothing is counted.                               *)
BookFailure(here) ==
    /\ Leave(here)
    /\ failed' = TRUE
    /\ mind' = RecordAttempt(ObserveScreen(mind, from), Attempt(NoScreen, TRUE), writes)
    /\ AppendAttempt(Attempt(NoScreen, TRUE))
    /\ failures' = failures + 1
    /\ UNCHANGED <<envVars, active, stepsRun, keyCounts, transitions, steps, hashes, inputs>>

Sent == afterStop' = IF stop THEN afterStop + 1 ELSE afterStop

PressFails == BookFailure("press") /\ Sent

PressKey ==
    /\ pc = "press"
    /\ pc' = "after"
    /\ Sent
    /\ UNCHANGED <<envVars, active, learned, failed, failures, stepVars>>

RefreshFails == BookFailure("after") /\ UNCHANGED afterStop

(* What the step is exported as. *)
BatchSteps ==
    LET written == Filter(writes, {w \in ToSet(writes) : w.ok})
    IN  Append([i \in DOMAIN written |-> Fill(written[i].at, written[i].text)],
               Press(ExportedStep(key)))

CountStep(to) ==
    LET a == Attempt(to, FALSE) IN
    /\ mind' = RecordAttempt(ObserveScreen(ObserveScreen(mind, from), to), a, writes)
    /\ stepsRun' = stepsRun + 1
    /\ steps' = steps \o BatchSteps
    /\ hashes' = hashes \cup {from, to}
    /\ keyCounts' = [keyCounts EXCEPT ![key] = @ + 1]
    /\ inputs' = inputs \cup {w.text : w \in {x \in ToSet(writes) : x.ok}}
    /\ transitions' = IF ~a.transitioned THEN transitions
                      ELSE Append(transitions, [from |-> from, to |-> to, steps |-> BatchSteps])
    /\ IF cfg.exclude /\ ~a.transitioned THEN UNCHANGED attempts ELSE AppendAttempt(a)

RefreshScreen(to) ==
    /\ pc = "after"
    /\ pc' = "delay"
    /\ CountStep(to)
    /\ from' = NoScreen
    /\ key' = NoKey
    /\ writes' = << >>
    /\ UNCHANGED <<envVars, active, failed, failures, afterStop>>

DelayOver ==
    /\ pc = "delay"
    /\ pc' = "top"
    /\ UNCHANGED <<envVars, active, learned, failed, failures, stepVars, afterStop>>

DelayStopped ==
    /\ stop
    /\ Leave("delay")
    /\ UNCHANGED <<envVars, active, learned, failed, failures, afterStop>>

(* Variant: a run that failed leaves no file. *)
ExitUnwritten ==
    /\ pc = "exit"
    /\ pc' = "none"
    /\ active' = FALSE
    /\ unwritten' = IF failed THEN unwritten ELSE unwritten \cup {steps}
    /\ UNCHANGED <<stop, cfg, output, runs, seeded, disturbed, learned, failed, failures,
                   stepVars, afterStop>>

(* The deferred function, up to the unlock and after it. *)
Exit ==
    /\ pc = "exit"
    /\ pc' = "none"
    /\ active' = FALSE
    /\ unwritten' = unwritten \cup {steps}
    /\ UNCHANGED <<stop, cfg, output, runs, seeded, disturbed, learned, failed, failures,
                   stepVars, afterStop>>

WriteOutput(w) ==
    /\ w \in unwritten
    /\ unwritten' = unwritten \ {w}
    /\ \/ output' = w /\ UNCHANGED disturbed
       \/ UNCHANGED output /\ disturbed' = TRUE
    /\ UNCHANGED <<active, stop, cfg, learned, failed, pc, stepVars, runs, seeded, failures,
                   afterStop>>

Loop ==
    \/ LoopEnds \/ ReadFails \/ PressFails \/ PressKey \/ RefreshFails
    \/ DelayOver \/ DelayStopped \/ Exit
    \/ \E h \in Screens : ReadScreen(h) \/ RefreshScreen(h)

Next ==
    \/ \E c \in Configs : Start(c) \/ ResumeRun(c) \/ \E r \in Recordings : ResumeRecording(r, c)
    \/ Stop
    \/ Loop
    \/ \E w \in unwritten : WriteOutput(w)

Spec == Init /\ [][Next]_vars
-----------------------------------------------------------------------------
(* Properties                                                              *)

(* The type of every variable; the bounded lists keep to their bounds, and *)
(* the values learned for a field are distinct.                            *)
TypeOK ==
    /\ active \in BOOLEAN /\ stop \in BOOLEAN /\ failed \in BOOLEAN /\ disturbed \in BOOLEAN
    /\ cfg \in Configs
    /\ stepsRun \in Nat /\ runs \in Nat /\ seeded \in Nat
    /\ failures \in Nat /\ afterStop \in Nat
    /\ keyCounts \in [Keys -> Nat]
    /\ steps \in Seq(StepTypes)
    /\ transitions \in Seq([from : Screens, to : Screens, steps : Seq(StepTypes)])
    /\ hashes \subseteq Screens
    /\ inputs \subseteq Values
    /\ attempts \in Seq([attempt : Nat, from : Screens, to : Screens \cup {NoScreen},
                         key : Keys, transitioned : BOOLEAN, failed : BOOLEAN])
    /\ Len(attempts) <= MaxAttempts
    /\ mind \in MindMap
    /\ \A a \in Areas, fk \in FieldKeys :
        /\ Len(mind.values[a][fk]) <= MaxValues
        /\ IsInjective(mind.values[a][fk])
    /\ pc \in {"none", "top", "press", "after", "delay", "exit"}
    /\ active <=> pc # "none"
    /\ from \in Screens \cup {NoScreen}
    /\ writes \in Seq([at : Places, text : Values, ok : BOOLEAN])
    /\ pc \in {"press", "after"} <=> from # NoScreen
    /\ IF from = NoScreen THEN key = NoKey ELSE key \in Keys
    /\ unwritten \subseteq Seq(StepTypes)
    /\ output \in Seq(StepTypes) \cup {NoSteps}

(* The steps this run and the runs it goes on from have found themselves.  *)
OwnSteps == SubSeq(steps, seeded + 1, Len(steps))

PressesOf(k) == SumFunction([h \in Screens |-> mind.presses[h][k]])

(* The keys that are exported as k is. *)
ExportedAs(k) == {j \in Keys : ExportedStep(j) = ExportedStep(k)}

(* However often a run fails and is resumed, the counters that the status  *)
(* shows and the mind map are about the same steps: the steps run are the  *)
(* keys counted and the keys exported, step type by step type; the mind    *)
(* map has seen these and the presses that failed.                         *)
CountersAgree ==
    /\ stepsRun = SumFunction(keyCounts)
    /\ \A k \in Keys :
        SumFunction([j \in ExportedAs(k) |-> keyCounts[j]])
            = Quantify(DOMAIN OwnSteps, LAMBDA i : OwnSteps[i] = Press(ExportedStep(k)))
    /\ stepsRun + failures = SumFunction([k \in Keys |-> PressesOf(k)])
    /\ \A k \in Keys : PressesOf(k) >= keyCounts[k]

(* The mind map covers what the run has seen: every screen counted is an   *)
(* area, an area's destinations for all keys are the transitions out of it,*)
(* and a key has as many progressions as destinations, and no more than    *)
(* presses.                                                                *)
MapCoversRun ==
    /\ hashes \subseteq mind.areas
    /\ \A h, g \in Screens :
        Quantify(DOMAIN transitions, LAMBDA i : transitions[i].from = h /\ transitions[i].to = g)
            = SumFunction([k \in Keys |-> mind.destinations[h][k][g]])
    /\ \A a \in Areas, k \in Keys :
        /\ mind.progressions[a][k] = SumFunction(mind.destinations[a][k])
        /\ mind.progressions[a][k] <= mind.presses[a][k]

(* What the fills of transitions ts out of h left under field key fk. *)
WorkedOn(ts, h, fk) ==
    {v \in Values : \E i \in DOMAIN ts :
        /\ ts[i].from = h
        /\ \E s \in ToSet(ts[i].steps) :
            IsFill(s) /\ <<s.at, Size[s.text]>> = fk /\ Trimmed[s.text] = v}

(* What the map knows to work on a screen is what worked there ("values    *)
(* already known to work on this screen / field position").  A value is    *)
(* known only if the run, or one it goes on from, has left that screen by  *)
(* a transition whose exported steps fill it in, at that place and with    *)
(* that length: not if its write failed, its key led nowhere or failed, or *)
(* if it belongs to another screen, an earlier run or a recording.  And    *)
(* where some value other than blanks has worked, one is known, whatever   *)
(* was evicted.  The length is that of the value: the engine looks under   *)
(* the field's, and does not find one that is shorter.                     *)
KnownValuesWorked ==
    \A h \in Screens, fk \in FieldKeys :
        LET known == mind.values[h][fk]
            worked == WorkedOn(transitions, h, fk)
        IN  /\ ToSet(known) \subseteq worked
            /\ (\E v \in worked : Size[v] > 0) => known # << >>

(* An attempt's number tells it from the others: numbers grow, except that *)
(* the number of a failed attempt, with which a run ended, is given again  *)
(* to the first attempt of the run that goes on from it.                   *)
AttemptNumbers ==
    /\ \A i \in 1..(Len(attempts) - 1) :
        \/ attempts[i].attempt < attempts[i + 1].attempt
        \/ attempts[i].failed /\ attempts[i].attempt = attempts[i + 1].attempt
    /\ attempts # << >> =>
        LET latest == attempts[Len(attempts)]
        IN  latest.attempt <= stepsRun + (IF latest.failed THEN 1 ELSE 0)

(* No penalty takes a key out of the choice.  Where a screen has a boost   *)
(* or a penalty, every configured key can be picked, even one whose weight *)
(* is negative; where it has none, every key with a positive weight can,   *)
(* provided that no weight is negative.                                    *)
KeysStaySelectable ==
    \A h \in Screens :
        /\ DOMAIN Boosts(h) # {} => DOMAIN cfg.weights \subseteq SelectableKeys(h)
        /\ (\A k \in DOMAIN cfg.weights : cfg.weights[k] >= 0)
            => \A k \in DOMAIN cfg.weights : cfg.weights[k] > 0 => k \in SelectableKeys(h)

(* A stopped run presses at most one more key ("Stop signals the engine to *)
(* halt after the current step completes").                                *)
StopIsPrompt == afterStop <= 1

(* When no run is active and nothing is left to write, the output file     *)
(* holds all of what the last run has found, failed runs included, unless  *)
(* the disk refused it or two runs were about to write it at once.         *)
OutputComplete ==
    (runs > 0 /\ ~active /\ unwritten = {} /\ ~disturbed) => output = steps
=============================================================================
