------------------------- MODULE ChaosEngine_proofs -------------------------
(***************************************************************************)
(* Theorems about ChaosEngine, for any screens, keys, configurations and   *)
(* recordings, and any number of runs.                                     *)
(***************************************************************************)
EXTENDS ChaosEngine, DataTheorems, TLAPS

(* The goroutine's actions, and what all of them leave alone. *)
LEMMA LoopKeeps ==
    ASSUME Loop
    PROVE  /\ pc # "none"
           /\ UNCHANGED <<stop, cfg, output, runs, seeded, disturbed>>
           /\ \/ UNCHANGED <<unwritten, active>> /\ pc' # "none"
              \/ /\ pc' = "none" /\ active' = FALSE
                 /\ unwritten' = unwritten \cup {steps}
                 /\ UNCHANGED <<steps, afterStop, mind>>
<1> USE DEF envVars, learned, stepVars
<1>1. CASE LoopEnds \/ ReadFails \/ DelayOver \/ DelayStopped
  BY <1>1 DEF LoopEnds, ReadFails, DelayOver, DelayStopped, Leave
<1>2. CASE PressFails \/ RefreshFails
  BY <1>2 DEF PressFails, RefreshFails, BookFailure, Leave
<1>3. CASE PressKey \/ Exit
  BY <1>3 DEF PressKey, Exit
<1>4. ASSUME NEW h \in Screens, ReadScreen(h) \/ RefreshScreen(h)
      PROVE  /\ pc \in {"top", "after"} /\ pc' \in {"press", "delay"}
             /\ UNCHANGED <<stop, cfg, output, runs, seeded, disturbed, unwritten, active>>
  BY <1>4 DEF ReadScreen, RefreshScreen
<1> QED BY <1>1, <1>2, <1>3, <1>4 DEF Loop

(* A run begins. *)
LEMMA BeginKeeps ==
    ASSUME NEW c \in Configs, \/ Start(c)
                              \/ ResumeRun(c)
                              \/ \E r \in Recordings : ResumeRecording(r, c)
    PROVE  Begin(c)
BY DEF Start, ResumeRun, ResumeRecording, ResumeFrom

-----------------------------------------------------------------------------
(* Stopping                                                                *)

(* A key is only sent after the screen was read without a stop, so that at *)
(* the most the key of the step under way is sent after it.                *)
StopInv ==
    /\ afterStop \in {0, 1}
    /\ ~stop => afterStop = 0
    /\ pc = "press" => afterStop = 0

LEMMA NextStopInv == StopInv /\ [Next]_vars => StopInv'
<1> SUFFICES ASSUME StopInv, [Next]_vars PROVE StopInv'
  OBVIOUS
<1> USE DEF StopInv, envVars
<1>1. ASSUME NEW c \in Configs, Begin(c) PROVE StopInv'
  BY <1>1 DEF Begin
<1>2. CASE Stop
  BY <1>2 DEF Stop
<1>3. CASE LoopEnds \/ ReadFails \/ RefreshFails \/ DelayOver \/ DelayStopped \/ Exit
  BY <1>3 DEF LoopEnds, ReadFails, RefreshFails, BookFailure, DelayOver, DelayStopped, Exit, Leave
<1>4. CASE PressFails \/ PressKey
  <2>1. pc = "press" /\ pc' \in {"exit", "after"} /\ stop' = stop /\ Sent
    BY <1>4 DEF PressFails, PressKey, BookFailure, Leave
  <2>2. stop => afterStop' = 1
    BY <2>1 DEF Sent
  <2>3. ~stop => afterStop' = 0
    BY <2>1 DEF Sent
  <2> QED BY <2>1, <2>2, <2>3
<1>5. ASSUME NEW h \in Screens, ReadScreen(h) \/ RefreshScreen(h) PROVE StopInv'
  BY <1>5 DEF ReadScreen, RefreshScreen
<1>6. ASSUME NEW w \in unwritten, WriteOutput(w) PROVE StopInv'
  BY <1>6 DEF WriteOutput
<1>7. CASE UNCHANGED vars
  BY <1>7 DEF vars
<1> QED BY <1>1, <1>2, <1>3, <1>4, <1>5, <1>6, <1>7, BeginKeeps DEF Next, Loop

(* A run that was told to stop sends at most one more key to the host, at  *)
(* whichever point of its step the request reaches it.                     *)
THEOREM StoppedRunIsPrompt == Spec => []StopIsPrompt
<1>1. Init => StopInv
  BY DEF Init, StopInv
<1>2. StopInv => StopIsPrompt
  BY DEF StopInv, StopIsPrompt
<1> QED BY <1>1, <1>2, NextStopInv, PTL DEF Spec

-----------------------------------------------------------------------------
(* The output file                                                         *)

(* While nothing has disturbed it, the file is written by one goroutine at *)
(* a time: between the end of a run and the writing of its file nothing    *)
(* else is due to be written.                                              *)
OutputInv ==
    /\ active <=> pc # "none"
    /\ runs \in Nat
    /\ runs = 0 => ~active /\ unwritten = {}
    /\ ~disturbed /\ active => unwritten = {}
    /\ ~disturbed /\ ~active /\ runs > 0 =>
        unwritten = {steps} \/ (unwritten = {} /\ output = steps)

LEMMA NextOutputInv == OutputInv /\ [Next]_vars => OutputInv'
<1> SUFFICES ASSUME OutputInv, [Next]_vars PROVE OutputInv'
  OBVIOUS
<1>1. ASSUME NEW c \in Configs, Begin(c) PROVE OutputInv'
  <2>1. /\ active' = TRUE /\ pc' = "top" /\ runs' = runs + 1
        /\ unwritten' = unwritten
        /\ disturbed' = (disturbed \/ unwritten # {})
    BY <1>1 DEF Begin
  <2>2. ~disturbed' => unwritten = {}
    BY <2>1, Zenon
  <2>3. runs' \in Nat /\ runs' # 0
    BY <2>1 DEF OutputInv
  <2>4. active' /\ pc' # "none"
    BY <2>1
  <2> QED BY <2>1, <2>2, <2>3, <2>4, Zenon DEF OutputInv
<1>2. CASE Stop
  BY <1>2 DEF OutputInv, Stop, learned, stepVars
<1>3. CASE Loop
  BY <1>3, LoopKeeps DEF OutputInv
<1>4. ASSUME NEW w \in unwritten, WriteOutput(w) PROVE OutputInv'
  BY <1>4 DEF OutputInv, WriteOutput, learned
<1>5. CASE UNCHANGED vars
  BY <1>5 DEF OutputInv, vars, learned, stepVars
<1> QED BY <1>1, <1>2, <1>3, <1>4, <1>5, BeginKeeps DEF Next

(* When a run and its writing are over, the output file holds all the run  *)
(* has found, unless the disk or a second run was in the way.              *)
THEOREM OutputIsComplete == Spec => []OutputComplete
<1>1. Init => OutputInv
  BY DEF Init, OutputInv
<1>2. OutputInv => OutputComplete
  BY DEF OutputInv, OutputComplete
<1> QED BY <1>1, <1>2, NextOutputInv, PTL DEF Spec

-----------------------------------------------------------------------------
(* The values learned for a field                                          *)

ValueLists(V) == {vs \in Seq(V) : Len(vs) <= MaxValues /\ IsInjective(vs)}

LEMMA EmptyList == \A V : << >> \in ValueLists(V)
<1> SUFFICES ASSUME NEW V PROVE << >> \in ValueLists(V)
  OBVIOUS
<1>1. << >> \in Seq(V) /\ Len(<< >>) = 0 /\ DOMAIN << >> = {}
  OBVIOUS
<1>2. 0 <= MaxValues
  BY BoundsAssumption
<1> QED BY <1>1, <1>2 DEF ValueLists, IsInjective

LEMMA WiderLists ==
    ASSUME NEW V, NEW W, V \subseteq W
    PROVE  ValueLists(V) \subseteq ValueLists(W)
<1>1. Seq(V) \subseteq Seq(W)
  OBVIOUS
<1> QED BY <1>1 DEF ValueLists

LEMMA LongerList ==
    ASSUME NEW V, NEW vs \in ValueLists(V), NEW v \in V, v \notin ToSet(vs), Len(vs) < MaxValues
    PROVE  Append(vs, v) \in ValueLists(V)
<1> DEFINE n == Len(vs)
           more == Append(vs, v)
<1>1. vs \in Seq(V) /\ n \in Nat /\ DOMAIN vs = 1..n
  BY DEF ValueLists
<1>2. more \in Seq(V) /\ Len(more) = n + 1 /\ DOMAIN more = 1..(n + 1) /\ more[n + 1] = v
  BY <1>1
<1>3. \A i \in 1..n : more[i] = vs[i] /\ vs[i] # v
  BY <1>1 DEF ToSet
<1>4. \A i \in 1..(n + 1) : i \in 1..n \/ i = n + 1
  BY <1>1
<1>5. \A i, j \in 1..n : vs[i] = vs[j] => i = j
  BY <1>1 DEF ValueLists, IsInjective
<1> HIDE DEF more
<1>6. IsInjective(more)
  <2> SUFFICES ASSUME NEW i \in 1..(n + 1), NEW j \in 1..(n + 1), more[i] = more[j] PROVE i = j
    BY <1>2 DEF IsInjective
  <2> QED BY <1>2, <1>3, <1>4, <1>5
<1>7. Len(more) <= MaxValues
  BY <1>1, <1>2, BoundsAssumption
<1>8. more \in ValueLists(V)
  BY <1>2, <1>6, <1>7 DEF ValueLists
<1> QED BY <1>8 DEF more

LEMMA AppendedList ==
    ASSUME NEW V, NEW vs \in ValueLists(V), NEW v \in V
    PROVE  AppendUniqueLimited(vs, v) \in ValueLists(V)
<1>1. CASE v \in ToSet(vs)
  BY <1>1 DEF AppendUniqueLimited
<1>2. CASE v \notin ToSet(vs) /\ Len(vs) < MaxValues
  BY <1>2, LongerList DEF AppendUniqueLimited
<1>3. CASE v \notin ToSet(vs) /\ ~(Len(vs) < MaxValues)
  <2> DEFINE n == Len(vs)
             rest == Tail(vs)
  <2>1. vs \in Seq(V) /\ n \in Nat /\ n >= 1 /\ DOMAIN vs = 1..n /\ n <= MaxValues
    BY <1>3, BoundsAssumption DEF ValueLists
  <2>2. /\ rest \in Seq(V) /\ Len(rest) = n - 1 /\ DOMAIN rest = 1..(n - 1)
        /\ \A i \in 1..(n - 1) : rest[i] = vs[i + 1]
    <3>1. vs # << >>
      BY <2>1
    <3> QED BY <2>1, <3>1
  <2>3. \A i \in 1..(n - 1) : i + 1 \in 1..n
    BY <2>1
  <2>4. rest \in ValueLists(V)
    <3>1. \A i, j \in 1..n : vs[i] = vs[j] => i = j
      BY <2>1 DEF ValueLists, IsInjective
    <3>2. \A i, j \in 1..(n - 1) : i + 1 = j + 1 => i = j
      BY <2>1
    <3> HIDE DEF n, rest
    <3>3. IsInjective(rest)
      BY <2>2, <2>3, <3>1, <3>2 DEF IsInjective
    <3>4. Len(rest) <= MaxValues
      BY <2>1, <2>2, BoundsAssumption
    <3> QED BY <2>2, <3>3, <3>4 DEF ValueLists
  <2>5. v \notin ToSet(rest)
    <3> SUFFICES ASSUME NEW i \in 1..(n - 1), rest[i] = v PROVE FALSE
      BY <2>2 DEF ToSet
    <3> QED BY <1>3, <2>1, <2>2, <2>3 DEF ToSet
  <2>6. Len(rest) < MaxValues
    BY <2>1, <2>2, BoundsAssumption
  <2>7. Append(rest, v) \in ValueLists(V)
    <3> HIDE DEF rest
    <3> QED BY <2>4, <2>5, <2>6, LongerList
  <2> QED BY <1>3, <2>7 DEF AppendUniqueLimited
<1> QED BY <1>1, <1>2, <1>3

(* A value that is learned is known afterwards, so no list gets empty. *)
LEMMA AppendedSome ==
    ASSUME NEW V, NEW vs \in ValueLists(V), NEW v \in V
    PROVE  AppendUniqueLimited(vs, v) # << >>
<1>1. vs \in Seq(V)
  BY DEF ValueLists
<1>2. CASE v \in ToSet(vs)
  <2>1. vs # << >>
    BY <1>2 DEF ToSet
  <2> QED BY <1>2, <2>1 DEF AppendUniqueLimited
<1>3. CASE v \notin ToSet(vs) /\ Len(vs) < MaxValues
  <2>1. Len(Append(vs, v)) = Len(vs) + 1 /\ Len(vs) \in Nat
    BY <1>1
  <2>2. Append(vs, v) # << >>
    BY <2>1
  <2> QED BY <1>3, <2>2 DEF AppendUniqueLimited
<1>4. CASE v \notin ToSet(vs) /\ ~(Len(vs) < MaxValues)
  <2>1. vs # << >>
    BY <1>1, <1>4, BoundsAssumption
  <2>2. Tail(vs) \in Seq(V)
    BY <1>1, <2>1
  <2>3. Len(Append(Tail(vs), v)) = Len(Tail(vs)) + 1 /\ Len(Tail(vs)) \in Nat
    BY <2>2
  <2>4. Append(Tail(vs), v) # << >>
    BY <2>3
  <2> QED BY <1>4, <2>4 DEF AppendUniqueLimited
<1> QED BY <1>2, <1>3, <1>4

(* A fold that learns one value after another. *)
LEMMA LearnedList ==
    ASSUME NEW V, NEW R, NEW ws \in Seq(R), \A i \in 1..Len(ws) : Trimmed[ws[i].text] \in V,
           NEW base \in ValueLists(V)
    PROVE  LET list == FoldLeft(LAMBDA vs, w : AppendUniqueLimited(vs, Trimmed[w.text]), base, ws)
           IN  /\ list \in ValueLists(V)
               /\ base # << >> \/ Len(ws) > 0 => list # << >>
<1> DEFINE n == Len(ws)
           D == 1..n
           X == ValueLists(V)
           pick == [s \in SUBSET D |-> Max(s)]
           step == [i \in D |-> [vs \in X |-> AppendUniqueLimited(vs, Trimmed[ws[i].text])]]
           Fix(k) == k = [s \in SUBSET D |->
                            IF s = {} THEN base
                            ELSE AppendUniqueLimited(k[s \ {Max(s)}], Trimmed[ws[Max(s)].text])]
           chosen == CHOOSE k : Fix(k)
<1>1. n \in Nat /\ DOMAIN ws = D /\ IsFiniteSet(D)
  BY FS_Interval
<1> HIDE DEF n
<1>2. \A s \in SUBSET D : s # {} => Max(s) \in s
  BY <1>1, MaxInSet
<1> HIDE DEF X
<1>3. step \in [D -> [X -> X]]
  <2>1. ASSUME NEW i \in D, NEW vs \in X PROVE AppendUniqueLimited(vs, Trimmed[ws[i].text]) \in X
    BY AppendedList DEF X, n
  <2> QED BY <2>1
<1>4. PICK g \in [SUBSET D -> X] : RecursOn(g, SUBSET D, base, pick, step)
  <2>1. \A s \in SUBSET D : s # {} => pick[s] \in s
    BY <1>2
  <2>2. base \in X
    BY DEF X
  <2> HIDE DEF D, pick, step
  <2> QED BY <1>1, <1>3, <2>1, <2>2, SetRecursion
<1>5. ASSUME NEW s \in SUBSET D
      PROVE  g[s] = IF s = {} THEN base ELSE AppendUniqueLimited(g[s \ {Max(s)}], Trimmed[ws[Max(s)].text])
  <2>1. g[s] = IF s = {} THEN base ELSE step[pick[s]][g[s \ {pick[s]}]]
    <3> HIDE DEF pick, step
    <3> QED BY <1>4 DEF RecursOn
  <2>2. CASE s # {}
    <3>1. pick[s] = Max(s) /\ Max(s) \in D /\ s \ {Max(s)} \in SUBSET D
      BY <1>2, <2>2
    <3>2. g[s \ {Max(s)}] \in X
      BY <1>4, <3>1
    <3>3. step[Max(s)] = [vs \in X |-> AppendUniqueLimited(vs, Trimmed[ws[Max(s)].text])]
      BY <3>1
    <3> HIDE DEF pick, step
    <3> QED BY <2>1, <2>2, <3>1, <3>2, <3>3
  <2> QED BY <2>1, <2>2
<1>6. Fix(g)
  <2> HIDE DEF D
  <2> QED BY <1>4, <1>5
<1>7. Fix(chosen)
  <2> HIDE DEF Fix
  <2> QED BY <1>6
<1>8. FoldLeft(LAMBDA vs, w : AppendUniqueLimited(vs, Trimmed[w.text]), base, ws) = chosen[D]
  BY <1>1 DEF FoldLeft, MapThenFoldSet
<1> HIDE DEF chosen
<1>9. \A s \in SUBSET D : s \in {t \in SUBSET D : chosen[t] \in X}
  <2> DEFINE P == {t \in SUBSET D : chosen[t] \in X}
  <2>1. {} \in P
    <3>1. {} \in SUBSET D /\ chosen[{}] = base
      BY <1>7
    <3> QED BY <3>1 DEF X
  <2>2. ASSUME NEW s \in SUBSET D, s # {}, \A x \in s : s \ {x} \in P PROVE s \in P
    <3>1. Max(s) \in D /\ chosen[s \ {Max(s)}] \in X
      BY <1>2, <2>2
    <3>2. chosen[s] = AppendUniqueLimited(chosen[s \ {Max(s)}], Trimmed[ws[Max(s)].text])
      BY <1>7, <2>2
    <3>3. Trimmed[ws[Max(s)].text] \in V
      BY <3>1 DEF n
    <3> QED BY <3>1, <3>2, <3>3, AppendedList DEF X
  <2> HIDE DEF P, D
  <2>3. \A s \in SUBSET D : s \in P
    BY <1>1, <2>1, <2>2, SubsetInduction
  <2> QED BY <2>3 DEF P
<1>10. base # << >> \/ n > 0 => chosen[D] # << >>
  <2>1. CASE n = 0
    <3>1. D = {}
      BY <2>1
    <3>2. chosen[D] = base
      BY <1>7, <3>1
    <3> QED BY <2>1, <3>2
  <2>2. CASE n # 0
    <3>1. D # {}
      BY <1>1, <2>2
    <3>2. Max(D) \in D /\ D \ {Max(D)} \in SUBSET D
      BY <1>2, <3>1
    <3>3. chosen[D] = AppendUniqueLimited(chosen[D \ {Max(D)}], Trimmed[ws[Max(D)].text])
      BY <1>7, <3>1
    <3>4. chosen[D \ {Max(D)}] \in X /\ Trimmed[ws[Max(D)].text] \in V
      BY <1>9, <3>2 DEF n
    <3> HIDE DEF D
    <3> QED BY <3>3, <3>4, AppendedSome DEF X
  <2> QED BY <2>1, <2>2
<1> QED BY <1>8, <1>9, <1>10 DEF X, n

LEMMA KeptList ==
    ASSUME NEW V, NEW vs \in ValueLists(V), NEW v \in V
    PROVE  KeepOldest(vs, v) \in ValueLists(V)
<1>1. Len(vs) \in Nat
  BY DEF ValueLists
<1> QED BY <1>1, LongerList, BoundsAssumption DEF KeepOldest

(* A fold over the steps of a recording. *)
LEMMA SeedList ==
    ASSUME NEW V, NEW r \in Seq(StepTypes), NEW fills \in SUBSET (1..Len(r)),
           \A i \in fills : Trimmed[r[i].text] \in V
    PROVE  FoldLeftDomain(LAMBDA vs, i : IF i \in fills THEN KeepOldest(vs, Trimmed[r[i].text]) ELSE vs,
                          << >>, r) \in ValueLists(V)
<1> DEFINE n == Len(r)
           D == 1..n
           X == ValueLists(V)
           Keep(vs, i) == IF i \in fills THEN KeepOldest(vs, Trimmed[r[i].text]) ELSE vs
           places == [i \in DOMAIN r |-> i]
           pick == [s \in SUBSET D |-> Max(s)]
           step == [i \in D |-> [vs \in X |-> Keep(vs, i)]]
           Fix(k) == k = [s \in SUBSET D |->
                            IF s = {} THEN << >> ELSE Keep(k[s \ {Max(s)}], places[Max(s)])]
           chosen == CHOOSE k : Fix(k)
<1>1. n \in Nat /\ DOMAIN places = D /\ IsFiniteSet(D) /\ \A i \in D : places[i] = i
  BY FS_Interval
<1> HIDE DEF n
<1>2. \A s \in SUBSET D : s # {} => Max(s) \in s
  BY <1>1, MaxInSet
<1>3. << >> \in X
  BY EmptyList
<1> HIDE DEF X
<1>4. ASSUME NEW i \in D, NEW vs \in X PROVE Keep(vs, i) \in X
  BY KeptList DEF X, n
<1> HIDE DEF Keep, places
<1>5. step \in [D -> [X -> X]]
  BY <1>4
<1>6. PICK g \in [SUBSET D -> X] : RecursOn(g, SUBSET D, << >>, pick, step)
  <2>1. \A s \in SUBSET D : s # {} => pick[s] \in s
    BY <1>2
  <2> HIDE DEF D, pick, step
  <2> QED BY <1>1, <1>3, <1>5, <2>1, SetRecursion
<1>7. ASSUME NEW s \in SUBSET D
      PROVE  g[s] = IF s = {} THEN << >> ELSE Keep(g[s \ {Max(s)}], places[Max(s)])
  <2>1. g[s] = IF s = {} THEN << >> ELSE step[pick[s]][g[s \ {pick[s]}]]
    <3> HIDE DEF pick, step
    <3> QED BY <1>6 DEF RecursOn
  <2>2. CASE s # {}
    <3>1. pick[s] = Max(s) /\ Max(s) \in D /\ s \ {Max(s)} \in SUBSET D
      BY <1>2, <2>2
    <3>2. g[s \ {Max(s)}] \in X
      BY <1>6, <3>1
    <3>3. step[Max(s)] = [vs \in X |-> Keep(vs, Max(s))] /\ places[Max(s)] = Max(s)
      BY <1>1, <3>1
    <3> HIDE DEF pick, step
    <3> QED BY <2>1, <2>2, <3>1, <3>2, <3>3
  <2> QED BY <2>1, <2>2
<1>8. Fix(g)
  <2> HIDE DEF D
  <2> QED BY <1>6, <1>7
<1>9. Fix(chosen)
  <2> HIDE DEF Fix
  <2> QED BY <1>8
<1>10. FoldLeftDomain(LAMBDA vs, i : IF i \in fills THEN KeepOldest(vs, Trimmed[r[i].text]) ELSE vs,
                      << >>, r) = chosen[D]
  BY <1>1 DEF FoldLeftDomain, FoldLeft, MapThenFoldSet, Keep, places
<1> HIDE DEF chosen
<1>11. \A s \in SUBSET D : s \in {t \in SUBSET D : chosen[t] \in X}
  <2> DEFINE P == {t \in SUBSET D : chosen[t] \in X}
  <2>1. {} \in P
    <3>1. {} \in SUBSET D /\ chosen[{}] = << >>
      BY <1>9
    <3> QED BY <1>3, <3>1
  <2>2. ASSUME NEW s \in SUBSET D, s # {}, \A x \in s : s \ {x} \in P PROVE s \in P
    <3>1. Max(s) \in D /\ chosen[s \ {Max(s)}] \in X /\ places[Max(s)] = Max(s)
      BY <1>1, <1>2, <2>2
    <3>2. chosen[s] = Keep(chosen[s \ {Max(s)}], Max(s))
      BY <1>9, <2>2, <3>1
    <3> QED BY <1>4, <3>1, <3>2
  <2>3. IsFiniteSet(D)
    BY <1>1
  <2> HIDE DEF P, D
  <2>4. \A s \in SUBSET D : s \in P
    BY <2>1, <2>2, <2>3, SubsetInduction
  <2> QED BY <2>4 DEF P
<1> QED BY <1>10, <1>11 DEF X

-----------------------------------------------------------------------------
(* The areas                                                               *)

(* The steps of a recording that press a key, up to its n-th. *)
PressesUpTo(r, n) == {j \in 1..n : IsPress(r[j])}

LEMMA AreasNumbered ==
    ASSUME NEW r \in Recordings
    PROVE  /\ Len(r) \in Nat /\ DOMAIN r = 1..Len(r)
           /\ \A i \in 1..(Len(r) + 1) : AreaAt(r, i) \in Nat \ {0} /\ AreaAt(r, i) <= AreaAt(r, Len(r) + 1)
           /\ \A i \in 1..Len(r) : IsPress(r[i]) => AreaAt(r, i) + 1 <= AreaAt(r, Len(r) + 1)
<1> DEFINE n == Len(r)
           P(k) == PressesUpTo(r, k)
<1>1. n \in Nat /\ DOMAIN r = 1..n
  <2>1. r \in Seq(StepTypes)
    BY RecordingsAssumption
  <2> QED BY <2>1
<1> HIDE DEF n
<1>2. \A k \in Nat : IsFiniteSet(P(k)) /\ Cardinality(P(k)) \in Nat
  <2> SUFFICES ASSUME NEW k \in Nat PROVE IsFiniteSet(P(k)) /\ Cardinality(P(k)) \in Nat
    OBVIOUS
  <2>1. IsFiniteSet(1..k)
    BY FS_Interval
  <2>2. P(k) \in SUBSET (1..k)
    BY DEF PressesUpTo
  <2> QED BY <2>1, <2>2, FS_Subset, FS_CardinalityType
<1>3. \A i \in 1..(n + 1) : i - 1 \in Nat /\ AreaAt(r, i) = 1 + Cardinality(P(i - 1))
  BY <1>1 DEF AreaAt, PressesUpTo
<1>4. AreaAt(r, n + 1) = 1 + Cardinality(P(n))
  <2>1. n + 1 \in 1..(n + 1) /\ (n + 1) - 1 = n
    BY <1>1
  <2> HIDE DEF P
  <2> QED BY <1>3, <2>1
<1>5. ASSUME NEW i \in 1..(n + 1)
      PROVE  AreaAt(r, i) \in Nat \ {0} /\ AreaAt(r, i) <= AreaAt(r, n + 1)
  <2>1. i - 1 \in Nat /\ i - 1 <= n
    BY <1>1
  <2>2. P(i - 1) \in SUBSET P(n)
    BY <1>1, <2>1 DEF PressesUpTo
  <2> HIDE DEF P
  <2>3. Cardinality(P(i - 1)) <= Cardinality(P(n))
    BY <1>1, <1>2, <2>2, FS_Subset
  <2>4. Cardinality(P(i - 1)) \in Nat /\ Cardinality(P(n)) \in Nat
    BY <1>1, <1>2, <2>1
  <2> QED BY <1>3, <1>4, <2>3, <2>4
<1>6. ASSUME NEW i \in 1..n, IsPress(r[i])
      PROVE  AreaAt(r, i) + 1 <= AreaAt(r, n + 1)
  <2>1. i - 1 \in Nat /\ i \in 1..(n + 1)
    BY <1>1
  <2>2. P(i - 1) \cup {i} \in SUBSET P(n) /\ i \notin P(i - 1)
    BY <1>1, <1>6, <2>1 DEF PressesUpTo
  <2> HIDE DEF P
  <2>3. Cardinality(P(i - 1) \cup {i}) = Cardinality(P(i - 1)) + 1
    BY <1>2, <2>1, <2>2, FS_AddElement
  <2>4. Cardinality(P(i - 1) \cup {i}) <= Cardinality(P(n))
    BY <1>1, <1>2, <2>2, FS_Subset
  <2> QED BY <1>1, <1>2, <1>3, <1>4, <2>1, <2>3, <2>4
<1> QED BY <1>1, <1>5, <1>6 DEF n

LEMMA AreasFinite == IsFiniteSet(Areas)
<1> DEFINE Cut(s) == UNION {1..AreaAt(r, Len(r) + 1) : r \in s}
           P == {s \in SUBSET Recordings : IsFiniteSet(Cut(s))}
<1>1. {} \in P
  <2>1. Cut({}) = {}
    OBVIOUS
  <2> QED BY <2>1, FS_EmptySet
<1>2. ASSUME NEW s \in SUBSET Recordings, s # {}, \A x \in s : s \ {x} \in P PROVE s \in P
  <2>1. PICK x \in s : TRUE
    BY <1>2
  <2>2. Cut(s) = Cut(s \ {x}) \cup (1..AreaAt(x, Len(x) + 1))
    OBVIOUS
  <2>3. IsFiniteSet(Cut(s \ {x}))
    BY <1>2
  <2>4. IsFiniteSet(1..AreaAt(x, Len(x) + 1))
    <3>1. Len(x) + 1 \in 1..(Len(x) + 1)
      BY AreasNumbered
    <3>2. AreaAt(x, Len(x) + 1) \in Nat
      BY <3>1, AreasNumbered
    <3> HIDE DEF Cut
    <3> QED BY <3>2, FS_Interval
  <2> HIDE DEF Cut
  <2>5. IsFiniteSet(Cut(s))
    BY <2>2, <2>3, <2>4, FS_Union
  <2> QED BY <2>5
<1>3. IsFiniteSet(Cut(Recordings))
  <2>1. \A s \in SUBSET Recordings : s \in P
    <3> HIDE DEF P
    <3> QED BY <1>1, <1>2, FiniteAssumption, SubsetInduction
  <2> QED BY <2>1
<1> HIDE DEF Cut
<1>4. IsFiniteSet(Screens \cup Cut(Recordings))
  BY <1>3, FiniteAssumption, FS_Union
<1>5. Areas = Screens \cup Cut(Recordings)
  BY DEF Areas, Cut
<1> QED BY <1>4, <1>5

LEMMA SeedAreas ==
    ASSUME NEW r \in Recordings, NEW i \in DOMAIN r
    PROVE  /\ AreaAt(r, i) \in Areas /\ AreaAt(r, i) \in Nat
           /\ IsPress(r[i]) => AreaAt(r, i) + 1 \in Areas
<1>1. DOMAIN r = 1..Len(r) /\ Len(r) \in Nat
  BY AreasNumbered
<1> DEFINE n == AreaAt(r, Len(r) + 1)
           a == AreaAt(r, i)
<1>2. i \in 1..(Len(r) + 1) /\ Len(r) + 1 \in 1..(Len(r) + 1)
  BY <1>1
<1>3. n \in Nat /\ a \in Nat \ {0} /\ a <= n /\ (IsPress(r[i]) => a + 1 <= n)
  BY <1>1, <1>2, AreasNumbered
<1> HIDE DEF n, a
<1>4. a \in 1..n /\ (IsPress(r[i]) => a + 1 \in 1..n)
  BY <1>3
<1>5. 1..n \subseteq Areas
  BY DEF Areas, n
<1> QED BY <1>3, <1>4, <1>5 DEF a

-----------------------------------------------------------------------------
(* What a mind map says of itself                                          *)

TransitionTypes == [from : Screens, to : Screens, steps : Seq(StepTypes)]

(* What may be known: for every area and field key, a set of values.  Of a *)
(* screen, the values that worked on it in transitions ts.                 *)
Knowledge == [Areas -> [FieldKeys -> SUBSET Values]]

Known(ts) ==
    [a \in Areas |-> [fk \in FieldKeys |-> IF a \in Screens THEN WorkedOn(ts, a, fk) ELSE Values]]

LEMMA KnownType ==
    ASSUME NEW ts
    PROVE  /\ Known(ts) \in Knowledge
           /\ \A h \in Screens, fk \in FieldKeys : Known(ts)[h][fk] = WorkedOn(ts, h, fk)
           /\ \A a \in Areas \ Screens, fk \in FieldKeys : Known(ts)[a][fk] = Values
<1>1. \A h, fk : WorkedOn(ts, h, fk) \in SUBSET Values
  BY DEF WorkedOn
<1>2. Screens \subseteq Areas
  BY DEF Areas
<1> QED BY <1>1, <1>2 DEF Known, Knowledge

(* A longer run knows more. *)
LEMMA KnownMore ==
    ASSUME NEW ts \in Seq(TransitionTypes), NEW t \in TransitionTypes,
           NEW a \in Areas, NEW fk \in FieldKeys
    PROVE  Known(ts)[a][fk] \subseteq Known(Append(ts, t))[a][fk]
<1> DEFINE more == Append(ts, t)
<1>1. \A i \in DOMAIN ts : i \in DOMAIN more /\ more[i] = ts[i]
  OBVIOUS
<1> HIDE DEF more
<1>2. CASE a \in Screens
  <2>1. WorkedOn(ts, a, fk) \subseteq WorkedOn(more, a, fk)
    BY <1>1 DEF WorkedOn
  <2> QED BY <1>2, <2>1, KnownType DEF more
<1>3. CASE a \notin Screens
  BY <1>3, KnownType
<1> QED BY <1>2, <1>3

(* The progressions of a key are the places it led to, and presses of it.  *)
AddUp(presses, progressions, led) ==
    \A a \in Areas, k \in Keys :
        /\ progressions[a][k] = SumFunction(led[a][k])
        /\ progressions[a][k] <= presses[a][k]

(* A map that adds up and has learned nothing but what is known. *)
WellFormed(map, known) ==
    /\ map \in MindMap
    /\ AddUp(map.presses, map.progressions, map.destinations)
    /\ \A a \in Areas, fk \in FieldKeys : map.values[a][fk] \in ValueLists(known[a][fk])

LEMMA EmptyWellFormed == ASSUME NEW known PROVE WellFormed(EmptyMap, known)
<1> DEFINE none == [b \in Areas |-> 0]
<1>1. none \in [Areas -> Nat] /\ SumFunction(none) = 0
  <2>1. none \in [Areas -> Nat] /\ \A b \in Areas : none[b] = 0
    OBVIOUS
  <2> HIDE DEF none
  <2> QED BY <2>1, AreasFinite, SumOfZeros
<1>2. EmptyMap.destinations = [a \in Areas |-> [k \in Keys |-> none]]
  BY DEF EmptyMap
<1> HIDE DEF none
<1>3. /\ EmptyMap.presses = [a \in Areas |-> [k \in Keys |-> 0]]
      /\ EmptyMap.progressions = [a \in Areas |-> [k \in Keys |-> 0]]
      /\ EmptyMap.values = [a \in Areas |-> [f \in FieldKeys |-> << >>]]
      /\ EmptyMap.visits = [a \in Areas |-> 0]
      /\ EmptyMap.areas = {}
      /\ EmptyMap = [areas |-> EmptyMap.areas, visits |-> EmptyMap.visits,
                     presses |-> EmptyMap.presses, progressions |-> EmptyMap.progressions,
                     destinations |-> EmptyMap.destinations, values |-> EmptyMap.values]
  BY DEF EmptyMap
<1>4. EmptyMap \in MindMap
  <2>1. EmptyMap.destinations \in [Areas -> [Keys -> [Areas -> Nat]]]
    BY <1>1, <1>2
  <2>2. /\ EmptyMap.areas \in SUBSET Areas /\ EmptyMap.visits \in [Areas -> Nat]
        /\ EmptyMap.presses \in [Areas -> [Keys -> Nat]]
        /\ EmptyMap.progressions \in [Areas -> [Keys -> Nat]]
        /\ EmptyMap.values \in [Areas -> [FieldKeys -> Seq(Values)]]
    BY <1>3
  <2> QED BY <1>3, <2>1, <2>2 DEF MindMap
<1>5. ASSUME NEW a \in Areas, NEW k \in Keys
      PROVE  /\ EmptyMap.progressions[a][k] = SumFunction(EmptyMap.destinations[a][k])
             /\ EmptyMap.progressions[a][k] <= EmptyMap.presses[a][k]
  BY <1>1, <1>2, <1>3
<1>6. ASSUME NEW a \in Areas, NEW fk \in FieldKeys
      PROVE  EmptyMap.values[a][fk] \in ValueLists(known[a][fk])
  BY <1>3, EmptyList
<1> QED BY <1>4, <1>5, <1>6 DEF WellFormed, AddUp

LEMMA ObserveParts ==
    ASSUME NEW map \in MindMap, NEW h \in Areas
    PROVE  LET seen == ObserveScreen(map, h)
           IN  /\ seen \in MindMap
               /\ seen.areas = map.areas \cup {h}
               /\ seen.presses = map.presses
               /\ seen.progressions = map.progressions
               /\ seen.destinations = map.destinations
               /\ seen.values = map.values
<1> DEFINE areas == map.areas \cup {h}
           visits == [map.visits EXCEPT ![h] = @ + 1]
           seen == [areas |-> areas, visits |-> visits, presses |-> map.presses,
                    progressions |-> map.progressions, destinations |-> map.destinations,
                    values |-> map.values]
<1>1. areas \in SUBSET Areas /\ visits \in [Areas -> Nat]
  BY DEF MindMap
<1>2. map = [areas |-> map.areas, visits |-> map.visits, presses |-> map.presses,
             progressions |-> map.progressions, destinations |-> map.destinations,
             values |-> map.values]
  BY DEF MindMap
<1>3. ObserveScreen(map, h) = seen
  <2>1. ObserveScreen(map, h) = [[map EXCEPT !.areas = areas] EXCEPT !.visits = visits]
    <3>1. [map EXCEPT !.areas = areas].visits = map.visits
      BY <1>2
    <3> QED BY <3>1 DEF ObserveScreen
  <2> HIDE DEF areas, visits
  <2> QED BY <1>2, <2>1
<1> HIDE DEF areas, visits
<1>4. seen \in MindMap
  BY <1>1 DEF MindMap
<1> QED BY <1>3, <1>4 DEF areas

(* One more for a key pressed in an area, and for the area it led to. *)
Counted(counts, a, k) == [counts EXCEPT ![a][k] = @ + 1]
LedTo(led, a, k, to) == [led EXCEPT ![a][k][to] = @ + 1]
LearnedAt(values, a, ws) == [values EXCEPT ![a] = Learn(@, ws)]

LEMMA RecordParts ==
    ASSUME NEW map \in MindMap, NEW a, NEW ws, a.from \in Areas, a.key \in Keys,
           a.transitioned \in BOOLEAN, a.transitioned => a.to \in Areas,
           a.transitioned => Learn(map.values[a.from], ws) \in [FieldKeys -> Seq(Values)]
    PROVE  LET new == RecordAttempt(map, a, ws)
           IN  /\ new \in MindMap
               /\ new.areas = map.areas
               /\ new.presses = Counted(map.presses, a.from, a.key)
               /\ ~a.transitioned =>
                    /\ new.progressions = map.progressions
                    /\ new.destinations = map.destinations
                    /\ new.values = map.values
               /\ a.transitioned =>
                    /\ new.progressions = Counted(map.progressions, a.from, a.key)
                    /\ new.destinations = LedTo(map.destinations, a.from, a.key, a.to)
                    /\ new.values = LearnedAt(map.values, a.from, ws)
<1> DEFINE presses == [map.presses EXCEPT ![a.from][a.key] = @ + 1]
           progressions == [map.progressions EXCEPT ![a.from][a.key] = @ + 1]
           destinations == [map.destinations EXCEPT ![a.from][a.key][a.to] = @ + 1]
           values == [map.values EXCEPT ![a.from] = Learn(@, ws)]
<1>1. map = [areas |-> map.areas, visits |-> map.visits, presses |-> map.presses,
             progressions |-> map.progressions, destinations |-> map.destinations,
             values |-> map.values]
  BY DEF MindMap
<1>2. /\ map.areas \in SUBSET Areas
      /\ map.visits \in [Areas -> Nat]
      /\ map.presses \in [Areas -> [Keys -> Nat]]
      /\ map.progressions \in [Areas -> [Keys -> Nat]]
      /\ map.destinations \in [Areas -> [Keys -> [Areas -> Nat]]]
      /\ map.values \in [Areas -> [FieldKeys -> Seq(Values)]]
  BY DEF MindMap
<1>3. presses \in [Areas -> [Keys -> Nat]]
  BY <1>2
<1>4. progressions \in [Areas -> [Keys -> Nat]]
  BY <1>2
<1>5. ASSUME a.transitioned
      PROVE  destinations \in [Areas -> [Keys -> [Areas -> Nat]]]
  <2> DEFINE inner == [map.destinations[a.from][a.key] EXCEPT ![a.to] = @ + 1]
             outer == [map.destinations[a.from] EXCEPT ![a.key] = inner]
  <2>1. inner \in [Areas -> Nat]
    <3>1. map.destinations[a.from] \in [Keys -> [Areas -> Nat]]
      BY <1>2
    <3>2. map.destinations[a.from][a.key] \in [Areas -> Nat] /\ a.to \in Areas
      BY <1>5, <3>1
    <3>3. \A d \in [Areas -> Nat], x \in Areas : [d EXCEPT ![x] = d[x] + 1] \in [Areas -> Nat]
      OBVIOUS
    <3> QED BY <3>2, <3>3
  <2>2. outer \in [Keys -> [Areas -> Nat]]
    <3> HIDE DEF inner
    <3> QED BY <1>2, <2>1
  <2>3. destinations = [map.destinations EXCEPT ![a.from] = outer]
    OBVIOUS
  <2> HIDE DEF inner, outer, destinations
  <2> QED BY <1>2, <2>2, <2>3
<1>6. a.transitioned => values \in [Areas -> [FieldKeys -> Seq(Values)]]
  BY <1>2
<1>7. CASE ~a.transitioned
  <2>1. RecordAttempt(map, a, ws) =
          [areas |-> map.areas, visits |-> map.visits, presses |-> presses,
           progressions |-> map.progressions, destinations |-> map.destinations,
           values |-> map.values]
    BY <1>1, <1>7 DEF RecordAttempt
  <2> HIDE DEF presses
  <2>2. RecordAttempt(map, a, ws) \in MindMap
    BY <1>2, <1>3, <2>1 DEF MindMap
  <2> QED BY <1>7, <2>1, <2>2 DEF presses, Counted
<1>8. CASE a.transitioned
  <2>1. RecordAttempt(map, a, ws) =
          [areas |-> map.areas, visits |-> map.visits, presses |-> presses,
           progressions |-> progressions, destinations |-> destinations,
           values |-> values]
    BY <1>1, <1>8 DEF RecordAttempt
  <2>2. RecordAttempt(map, a, ws) \in MindMap
    <3>1. destinations \in [Areas -> [Keys -> [Areas -> Nat]]]
      BY <1>5, <1>8
    <3> HIDE DEF presses, progressions, destinations, values
    <3> QED BY <1>2, <1>3, <1>4, <1>6, <1>8, <2>1, <3>1 DEF MindMap
  <2>3. LET new == RecordAttempt(map, a, ws)
        IN  /\ new.areas = map.areas /\ new.presses = presses
            /\ new.progressions = progressions /\ new.destinations = destinations
            /\ new.values = values
    <3> HIDE DEF presses, progressions, destinations, values
    <3> QED BY <2>1
  <2> QED BY <1>8, <2>2, <2>3 DEF Counted, LedTo, LearnedAt
<1> QED BY <1>7, <1>8

WriteTypes == [at : Places, text : Values, ok : BOOLEAN]

(* What is learned is among what the writes made known. *)
LEMMA LearnFits ==
    ASSUME NEW ws \in Seq(WriteTypes), NEW values, NEW known \in [FieldKeys -> SUBSET Values],
           \A fk \in FieldKeys : values[fk] \in ValueLists(known[fk]),
           \A fk \in FieldKeys : \A w \in ToSet(ws) :
                w.ok /\ <<w.at, Size[w.text]>> = fk => Trimmed[w.text] \in known[fk]
    PROVE  /\ Learn(values, ws) \in [FieldKeys -> Seq(Values)]
           /\ \A fk \in FieldKeys : Learn(values, ws)[fk] \in ValueLists(known[fk])
<1> DEFINE Learned(fk) ==
             FoldLeft(LAMBDA vs, w : AppendUniqueLimited(vs, Trimmed[w.text]), values[fk],
                      Written(ws, fk))
<1>1. ASSUME NEW fk \in FieldKeys
      PROVE  Learned(fk) \in ValueLists(known[fk])
  <2> DEFINE S == {w \in ToSet(ws) :
                     w.ok /\ ~IsBlank(w.text) /\ <<w.at, Size[w.text]>> = fk}
             kept == Filter(ws, S)
  <2>1. kept \in Seq(WriteTypes)
    <3> HIDE DEF S
    <3> QED BY FilterType
  <2>2. \A i \in 1..Len(kept) : kept[i] \in S
    <3> HIDE DEF S
    <3>1. PICK at \in [1..Len(kept) -> 1..Len(ws)] :
            \A i \in DOMAIN at : kept[i] = ws[at[i]] /\ ws[at[i]] \in S
      BY FilterIndices
    <3> QED BY <3>1
  <2>3. \A w \in S : Trimmed[w.text] \in known[fk]
    OBVIOUS
  <2>4. Written(ws, fk) = kept
    BY DEF Written
  <2> HIDE DEF S, kept
  <2>5. \A i \in 1..Len(kept) : Trimmed[kept[i].text] \in known[fk]
    BY <2>2, <2>3
  <2>6. FoldLeft(LAMBDA vs, w : AppendUniqueLimited(vs, Trimmed[w.text]), values[fk], kept)
          \in ValueLists(known[fk])
    BY <2>1, <2>5, LearnedList
  <2> QED BY <2>4, <2>6
<1>2. Learn(values, ws) = [fk \in FieldKeys |-> Learned(fk)]
  BY DEF Learn
<1> HIDE DEF Learned
<1>3. \A fk \in FieldKeys : ValueLists(known[fk]) \subseteq Seq(Values)
  <2> SUFFICES ASSUME NEW fk \in FieldKeys PROVE ValueLists(known[fk]) \subseteq Seq(Values)
    OBVIOUS
  <2>1. ValueLists(known[fk]) \subseteq ValueLists(Values)
    BY WiderLists
  <2> QED BY <2>1 DEF ValueLists
<1> QED BY <1>1, <1>2, <1>3

(* Learning leaves no field without a value that had one or that was given *)
(* one.                                                                    *)
LEMMA LearnSome ==
    ASSUME NEW ws \in Seq(WriteTypes), NEW values, NEW fk \in FieldKeys,
           values[fk] \in ValueLists(Values),
           \/ values[fk] # << >>
           \/ \E w \in ToSet(ws) : w.ok /\ ~IsBlank(w.text) /\ <<w.at, Size[w.text]>> = fk
    PROVE  Learn(values, ws)[fk] # << >>
<1> DEFINE S == {w \in ToSet(ws) : w.ok /\ ~IsBlank(w.text) /\ <<w.at, Size[w.text]>> = fk}
           kept == Filter(ws, S)
<1>1. values[fk] # << >> \/ \E k \in 1..Len(ws) : ws[k] \in S
  BY DEF ToSet
<1>2. Learn(values, ws)[fk] =
        FoldLeft(LAMBDA vs, w : AppendUniqueLimited(vs, Trimmed[w.text]), values[fk], kept)
  BY DEF Learn, Written
<1> HIDE DEF S
<1>3. kept \in Seq(WriteTypes)
  BY FilterType
<1>4. \A i \in 1..Len(kept) : Trimmed[kept[i].text] \in Values
  <2> HIDE DEF kept
  <2>1. \A i \in 1..Len(kept) : kept[i] \in WriteTypes
    BY <1>3
  <2>2. \A w \in WriteTypes : w.text \in Values
    BY DEF WriteTypes
  <2> QED BY <2>1, <2>2, SizeAssumption
<1>5. values[fk] # << >> \/ Len(kept) > 0
  <2>1. ASSUME NEW k \in 1..Len(ws), ws[k] \in S PROVE Len(kept) > 0
    <3>1. PICK j \in 1..Len(kept) : kept[j] = ws[k]
      BY <2>1, FilterComplete
    <3> QED BY <1>3, <3>1
  <2> QED BY <1>1, <2>1
<1> HIDE DEF kept
<1> QED BY <1>2, <1>3, <1>4, <1>5, LearnedList

(* Whatever is written, what is learned are values. *)
LEMMA LearnType ==
    ASSUME NEW ws \in Seq(WriteTypes), NEW map, NEW known \in Knowledge, WellFormed(map, known),
           NEW a \in Areas
    PROVE  Learn(map.values[a], ws) \in [FieldKeys -> Seq(Values)]
<1> DEFINE all == [fk \in FieldKeys |-> Values]
<1>1. all \in [FieldKeys -> SUBSET Values] /\ \A fk \in FieldKeys : all[fk] = Values
  OBVIOUS
<1>2. \A fk \in FieldKeys : map.values[a][fk] \in ValueLists(all[fk])
  <2> SUFFICES ASSUME NEW fk \in FieldKeys PROVE map.values[a][fk] \in ValueLists(Values)
    OBVIOUS
  <2>1. known[a][fk] \subseteq Values
    BY DEF Knowledge
  <2> QED BY <2>1, WiderLists DEF WellFormed
<1>3. \A w \in ToSet(ws) : Trimmed[w.text] \in Values
  <2>1. \A w \in ToSet(ws) : w \in WriteTypes
    BY DEF ToSet
  <2>2. \A w \in WriteTypes : w.text \in Values
    BY DEF WriteTypes
  <2> QED BY <2>1, <2>2, SizeAssumption
<1> HIDE DEF all
<1> QED BY <1>1, <1>2, <1>3, LearnFits

LEMMA ObserveWellFormed ==
    ASSUME NEW map, NEW known, WellFormed(map, known), NEW h \in Areas
    PROVE  WellFormed(ObserveScreen(map, h), known)
<1>1. map \in MindMap
  BY DEF WellFormed
<1> QED BY <1>1, ObserveParts DEF WellFormed

OneMore(counts, x) == [counts EXCEPT ![x] = @ + 1]

(* One more for a key pressed in an area. *)
MoreAt(more, counts, a, k) ==
    \A b \in Areas, j \in Keys :
        /\ counts[b][j] \in Nat
        /\ b = a /\ j = k => more[b][j] = counts[b][j] + 1
        /\ b # a \/ j # k => more[b][j] = counts[b][j]

LEMMA CountedOnce ==
    ASSUME NEW counts \in [Areas -> [Keys -> Nat]], NEW a \in Areas, NEW k \in Keys
    PROVE  MoreAt(Counted(counts, a, k), counts, a, k)
<1> SUFFICES ASSUME NEW b \in Areas, NEW j \in Keys
             PROVE  /\ counts[b][j] \in Nat
                    /\ Counted(counts, a, k)[b][j] =
                         IF b = a /\ j = k THEN counts[b][j] + 1 ELSE counts[b][j]
  BY DEF MoreAt
<1>1. counts[b] \in [Keys -> Nat] /\ counts[a] \in [Keys -> Nat]
  OBVIOUS
<1> DEFINE row == [counts[a] EXCEPT ![k] = @ + 1]
<1>2. row[j] = IF j = k THEN counts[a][j] + 1 ELSE counts[a][j]
  BY <1>1
<1>3. [counts EXCEPT ![a][k] = @ + 1] = [counts EXCEPT ![a] = row]
  OBVIOUS
<1> HIDE DEF row
<1>4. [counts EXCEPT ![a] = row][b] = IF b = a THEN row ELSE counts[b]
  OBVIOUS
<1> QED BY <1>1, <1>2, <1>3, <1>4 DEF Counted

(* One more for the area that a key pressed in an area led to. *)
MoreLed(more, led, a, k, to) ==
    \A b \in Areas, j \in Keys :
        /\ led[b][j] \in [Areas -> Nat]
        /\ b = a /\ j = k => more[b][j] = OneMore(led[b][j], to)
        /\ b # a \/ j # k => more[b][j] = led[b][j]

LEMMA LedOnce ==
    ASSUME NEW led \in [Areas -> [Keys -> [Areas -> Nat]]], NEW a \in Areas, NEW k \in Keys,
           NEW to \in Areas
    PROVE  MoreLed(LedTo(led, a, k, to), led, a, k, to)
<1> SUFFICES ASSUME NEW b \in Areas, NEW j \in Keys
             PROVE  /\ led[b][j] \in [Areas -> Nat]
                    /\ LedTo(led, a, k, to)[b][j] =
                         IF b = a /\ j = k THEN OneMore(led[b][j], to) ELSE led[b][j]
  BY DEF MoreLed
<1>1. led[b] \in [Keys -> [Areas -> Nat]] /\ led[a] \in [Keys -> [Areas -> Nat]]
  OBVIOUS
<1>2. led[b][j] \in [Areas -> Nat]
  BY <1>1
<1> DEFINE cell == [led[a][k] EXCEPT ![to] = @ + 1]
           row == [led[a] EXCEPT ![k] = cell]
<1>3. [led EXCEPT ![a][k][to] = @ + 1] = [led EXCEPT ![a] = row]
  OBVIOUS
<1>4. row[j] = IF j = k THEN cell ELSE led[a][j]
  <2> HIDE DEF cell
  <2> QED BY <1>1
<1>5. [led EXCEPT ![a] = row][b] = IF b = a THEN row ELSE led[b]
  <2> HIDE DEF row
  <2> QED OBVIOUS
<1>6. b = a /\ j = k => cell = [led[b][j] EXCEPT ![to] = @ + 1]
  OBVIOUS
<1> HIDE DEF cell, row
<1> QED BY <1>2, <1>3, <1>4, <1>5, <1>6 DEF LedTo, OneMore

LEMMA StillAddUp ==
    ASSUME NEW presses \in [Areas -> [Keys -> Nat]], NEW progressions \in [Areas -> [Keys -> Nat]],
           NEW led \in [Areas -> [Keys -> [Areas -> Nat]]], AddUp(presses, progressions, led),
           NEW a \in Areas, NEW k \in Keys
    PROVE  /\ AddUp(Counted(presses, a, k), progressions, led)
           /\ \A to \in Areas :
                AddUp(Counted(presses, a, k), Counted(progressions, a, k), LedTo(led, a, k, to))
<1> DEFINE pressed == Counted(presses, a, k)
           progressed == Counted(progressions, a, k)
<1>1. MoreAt(pressed, presses, a, k) /\ MoreAt(progressed, progressions, a, k)
  BY CountedOnce
<1> HIDE DEF pressed, progressed
<1>2. AddUp(pressed, progressions, led)
  <2> SUFFICES ASSUME NEW b \in Areas, NEW j \in Keys
               PROVE  progressions[b][j] = SumFunction(led[b][j]) /\ progressions[b][j] <= pressed[b][j]
    BY DEF AddUp
  <2> DEFINE n == progressions[b][j]
             p == presses[b][j]
             more == pressed[b][j]
  <2>1. n <= p /\ n = SumFunction(led[b][j])
    BY DEF AddUp
  <2>2. n \in Nat /\ p \in Nat /\ (more = p \/ more = p + 1)
    BY <1>1 DEF MoreAt
  <2> HIDE DEF n, p, more
  <2>3. n <= more
    BY <2>1, <2>2
  <2> QED BY <2>1, <2>3 DEF n, more
<1>3. ASSUME NEW to \in Areas
      PROVE  AddUp(pressed, progressed, LedTo(led, a, k, to))
  <2> DEFINE now == LedTo(led, a, k, to)
  <2>1. MoreLed(now, led, a, k, to)
    BY LedOnce
  <2> HIDE DEF now
  <2>2. ASSUME NEW b \in Areas, NEW j \in Keys
        PROVE  progressed[b][j] = SumFunction(now[b][j]) /\ progressed[b][j] <= pressed[b][j]
    <3> DEFINE d == led[b][j]
               n == progressions[b][j]
               p == presses[b][j]
               morePressed == pressed[b][j]
               more == progressed[b][j]
               moreLed == now[b][j]
    <3>1. n <= p /\ n = SumFunction(d)
      BY DEF AddUp
    <3>2. /\ n \in Nat /\ p \in Nat
          /\ b = a /\ j = k => more = n + 1 /\ morePressed = p + 1
          /\ b # a \/ j # k => more = n /\ morePressed = p
      BY <1>1 DEF MoreAt
    <3>3. /\ d \in [Areas -> Nat]
          /\ b = a /\ j = k => moreLed = OneMore(d, to)
          /\ b # a \/ j # k => moreLed = d
      BY <2>1 DEF MoreLed
    <3> HIDE DEF d, n, p, more, morePressed, moreLed
    <3>4. SumFunction(OneMore(d, to)) = SumFunction(d) + 1
      BY <3>3, AreasFinite, SumIncrement DEF OneMore
    <3>5. more = SumFunction(moreLed)
      BY <3>1, <3>2, <3>3, <3>4
    <3>6. more <= morePressed
      BY <3>1, <3>2
    <3> QED BY <3>5, <3>6 DEF more, moreLed, morePressed
  <2> QED BY <2>2 DEF AddUp, now
<1> QED BY <1>2, <1>3 DEF pressed, progressed

LEMMA RecordWellFormed ==
    ASSUME NEW map, NEW known \in Knowledge, WellFormed(map, known), NEW more \in Knowledge,
           \A b \in Areas, fk \in FieldKeys : known[b][fk] \subseteq more[b][fk],
           NEW a, NEW ws \in Seq(WriteTypes),
           a.from \in Areas, a.key \in Keys,
           a.transitioned \in BOOLEAN, a.transitioned => a.to \in Areas,
           a.transitioned => \A fk \in FieldKeys : \A w \in ToSet(ws) :
                w.ok /\ <<w.at, Size[w.text]>> = fk => Trimmed[w.text] \in more[a.from][fk]
    PROVE  /\ ~a.transitioned => WellFormed(RecordAttempt(map, a, ws), known)
           /\ a.transitioned => WellFormed(RecordAttempt(map, a, ws), more)
<1> DEFINE new == RecordAttempt(map, a, ws)
           now == Learn(map.values[a.from], ws)
<1>1. map \in MindMap
  BY DEF WellFormed
<1>2. ASSUME a.transitioned
      PROVE  now \in [FieldKeys -> Seq(Values)]
             /\ \A fk \in FieldKeys : now[fk] \in ValueLists(more[a.from][fk])
  <2>1. \A fk \in FieldKeys : map.values[a.from][fk] \in ValueLists(more[a.from][fk])
    BY WiderLists DEF WellFormed
  <2>2. more[a.from] \in [FieldKeys -> SUBSET Values]
    BY DEF Knowledge
  <2> QED BY <1>2, <2>1, <2>2, LearnFits
<1>3. a.transitioned => now \in [FieldKeys -> Seq(Values)]
  BY <1>2
<1>4. /\ new \in MindMap
      /\ new.presses = Counted(map.presses, a.from, a.key)
      /\ ~a.transitioned =>
          /\ new.progressions = map.progressions
          /\ new.destinations = map.destinations
          /\ new.values = map.values
      /\ a.transitioned =>
          /\ new.progressions = Counted(map.progressions, a.from, a.key)
          /\ new.destinations = LedTo(map.destinations, a.from, a.key, a.to)
          /\ new.values = LearnedAt(map.values, a.from, ws)
  BY <1>1, <1>3, RecordParts
<1>5. /\ AddUp(Counted(map.presses, a.from, a.key), map.progressions, map.destinations)
      /\ a.transitioned => AddUp(Counted(map.presses, a.from, a.key),
                                 Counted(map.progressions, a.from, a.key),
                                 LedTo(map.destinations, a.from, a.key, a.to))
  <2>1. map.presses \in [Areas -> [Keys -> Nat]]
    BY <1>1 DEF MindMap
  <2>2. map.progressions \in [Areas -> [Keys -> Nat]]
    BY <1>1 DEF MindMap
  <2>3. map.destinations \in [Areas -> [Keys -> [Areas -> Nat]]]
    BY <1>1 DEF MindMap
  <2>4. AddUp(map.presses, map.progressions, map.destinations)
    BY DEF WellFormed
  <2> QED BY <2>1, <2>2, <2>3, <2>4, StillAddUp
<1>6. LearnedAt(map.values, a.from, ws) = [map.values EXCEPT ![a.from] = now]
  BY DEF LearnedAt
<1>7. map.values \in [Areas -> [FieldKeys -> Seq(Values)]]
  BY <1>1 DEF MindMap
<1> HIDE DEF new, now
<1>8. ASSUME ~a.transitioned PROVE WellFormed(new, known)
  <2>1. ASSUME NEW b \in Areas, NEW fk \in FieldKeys
        PROVE  new.values[b][fk] \in ValueLists(known[b][fk])
    BY <1>4, <1>8 DEF WellFormed
  <2>2. AddUp(new.presses, new.progressions, new.destinations)
    BY <1>4, <1>5, <1>8
  <2> QED BY <1>4, <2>1, <2>2 DEF WellFormed
<1>9. ASSUME a.transitioned PROVE WellFormed(new, more)
  <2>1. ASSUME NEW b \in Areas, NEW fk \in FieldKeys
        PROVE  new.values[b][fk] \in ValueLists(more[b][fk])
    <3>1. new.values = [map.values EXCEPT ![a.from] = now]
      BY <1>4, <1>6, <1>9
    <3>2. CASE b = a.from
      <4>1. new.values[b] = now
        BY <1>7, <3>1, <3>2
      <4> QED BY <1>2, <1>9, <3>2, <4>1
    <3>3. CASE b # a.from
      <4>1. new.values[b] = map.values[b]
        BY <1>7, <3>1, <3>3
      <4>2. map.values[b][fk] \in ValueLists(known[b][fk])
        BY DEF WellFormed
      <4>3. ValueLists(known[b][fk]) \subseteq ValueLists(more[b][fk])
        BY WiderLists
      <4> QED BY <4>1, <4>2, <4>3
    <3> QED BY <3>2, <3>3
  <2>2. AddUp(new.presses, new.progressions, new.destinations)
    BY <1>4, <1>5, <1>9
  <2> QED BY <1>4, <2>1, <2>2 DEF WellFormed
<1> QED BY <1>8, <1>9 DEF new

SeedLed(r, a, k, b) == {i \in SeedPresses(r, a, k) : AreaAt(r, i) + 1 = b}

LEMMA SeedCounts ==
    ASSUME NEW r \in Recordings, NEW a, NEW k
    PROVE  /\ IsFiniteSet(SeedUses(r, a)) /\ Cardinality(SeedUses(r, a)) \in Nat
           /\ IsFiniteSet(SeedPresses(r, a, k)) /\ Cardinality(SeedPresses(r, a, k)) \in Nat
           /\ \A b : Cardinality(SeedLed(r, a, k, b)) \in Nat
<1>1. DOMAIN r = 1..Len(r) /\ Len(r) \in Nat
  BY AreasNumbered
<1>2. IsFiniteSet(DOMAIN r)
  BY <1>1, FS_Interval
<1>3. /\ SeedUses(r, a) \in SUBSET DOMAIN r /\ SeedPresses(r, a, k) \in SUBSET DOMAIN r
      /\ \A b : SeedLed(r, a, k, b) \in SUBSET DOMAIN r
  BY DEF SeedUses, SeedPresses, SeedLed
<1> QED BY <1>2, <1>3, FS_Subset, FS_CardinalityType

(* Every key of a recording leads from its area to the next one. *)
LEMMA SeedLeads ==
    ASSUME NEW r \in Recordings, NEW a \in Areas, NEW k
    PROVE  SumFunction([b \in Areas |-> Cardinality(SeedLed(r, a, k, b))])
            = Cardinality(SeedPresses(r, a, k))
<1> DEFINE led == [b \in Areas |-> Cardinality(SeedLed(r, a, k, b))]
           presses == SeedPresses(r, a, k)
<1>1. led \in [Areas -> Nat]
  BY SeedCounts
<1>2. \A i \in presses : i \in DOMAIN r /\ AreaAt(r, i) = a /\ IsPress(r[i])
  BY DEF SeedPresses, SeedUses
<1>3. CASE presses = {}
  <2>1. \A b \in Areas : SeedLed(r, a, k, b) = {}
    BY <1>3 DEF SeedLed
  <2>2. \A b \in Areas : led[b] = 0
    BY <2>1, FS_EmptySet
  <2> HIDE DEF led
  <2>3. SumFunction(led) = 0
    BY <1>1, <2>2, AreasFinite, SumOfZeros
  <2> QED BY <1>3, <2>3, FS_EmptySet DEF led
<1>4. CASE presses # {}
  <2>1. PICK i \in presses : TRUE
    BY <1>4
  <2>2. a \in Nat /\ a + 1 \in Areas
    BY <1>2, <2>1, SeedAreas
  <2>3. \A b \in Areas : SeedLed(r, a, k, b) = IF b = a + 1 THEN presses ELSE {}
    BY <1>2 DEF SeedLed
  <2>4. /\ led[a + 1] = Cardinality(presses)
        /\ \A b \in Areas \ {a + 1} : led[b] = 0
    BY <2>2, <2>3, FS_EmptySet
  <2> DEFINE x == a + 1
  <2>5. x \in Areas /\ led[x] = Cardinality(presses) /\ \A b \in Areas \ {x} : led[b] = 0
    BY <2>2, <2>4
  <2> HIDE DEF led, presses, x
  <2>6. SumFunction(led) = led[x]
    BY <1>1, <2>5, AreasFinite, SumOfOne
  <2> QED BY <2>5, <2>6 DEF led, presses
<1> QED BY <1>3, <1>4

LEMMA SeedTextsTyped ==
    ASSUME NEW r \in Recordings
    PROVE  \A i \in SeedFills(r) : i \in DOMAIN r /\ Trimmed[r[i].text] \in Values
<1> SUFFICES ASSUME NEW i \in SeedFills(r) PROVE i \in DOMAIN r /\ Trimmed[r[i].text] \in Values
  OBVIOUS
<1>1. i \in DOMAIN r /\ IsFill(r[i])
  BY DEF SeedFills
<1>2. r[i].text \in Values
  BY <1>1, RecordingsAssumption
<1> QED BY <1>1, <1>2, SizeAssumption

(* A recording says nothing of a screen. *)
LEMMA SeedLearned ==
    ASSUME NEW r \in Recordings, NEW a \in Areas, NEW fk \in FieldKeys
    PROVE  SeedValues(r, a, fk) \in ValueLists(Known(<< >>)[a][fk])
<1> DEFINE fills == {i \in SeedFills(r) : AreaAt(r, i) = a /\ SeedFieldKey(r, i) = fk}
           V == Known(<< >>)[a][fk]
<1>1. r \in Seq(StepTypes) /\ DOMAIN r = 1..Len(r)
  BY RecordingsAssumption, AreasNumbered
<1>2. fills \in SUBSET (1..Len(r))
  BY <1>1, SeedTextsTyped
<1>3. ASSUME NEW i \in fills PROVE Trimmed[r[i].text] \in V
  <2>1. i \in DOMAIN r /\ Trimmed[r[i].text] \in Values
    BY SeedTextsTyped
  <2>2. a \in Nat
    BY <2>1, SeedAreas
  <2>3. a \notin Screens
    BY <2>2, ScreensAssumption
  <2> QED BY <2>1, <2>3, KnownType
<1>4. SeedValues(r, a, fk) =
        FoldLeftDomain(LAMBDA vs, i : IF i \in fills THEN KeepOldest(vs, Trimmed[r[i].text]) ELSE vs,
                       << >>, r)
  BY DEF SeedValues
<1> HIDE DEF fills, V
<1>5. FoldLeftDomain(LAMBDA vs, i : IF i \in fills THEN KeepOldest(vs, Trimmed[r[i].text]) ELSE vs,
                     << >>, r) \in ValueLists(V)
  BY <1>1, <1>2, <1>3, SeedList
<1> QED BY <1>4, <1>5 DEF V

LEMMA SeedWellFormed ==
    ASSUME NEW r \in Recordings
    PROVE  WellFormed(SeedMap(r), Known(<< >>))
<1> DEFINE map == SeedMap(r)
           counts == [a \in Areas |-> [k \in Keys |-> Cardinality(SeedPresses(r, a, k))]]
           led == [a \in Areas |-> [k \in Keys |->
                    [b \in Areas |-> Cardinality(SeedLed(r, a, k, b))]]]
           values == [a \in Areas |-> [fk \in FieldKeys |-> SeedValues(r, a, fk)]]
           areas == {a \in Areas : SeedUses(r, a) # {}}
                     \cup {AreaAt(r, i) + 1 : i \in {j \in DOMAIN r : IsPress(r[j])}}
           visits == [a \in Areas |-> Cardinality(SeedUses(r, a))]
<1>1. map = [areas |-> areas, visits |-> visits, presses |-> counts, progressions |-> counts,
             destinations |-> led, values |-> values]
  BY DEF SeedMap, SeedLed
<1>2. areas \in SUBSET Areas
  BY SeedAreas
<1>3. visits \in [Areas -> Nat]
  BY SeedCounts
<1>4. counts \in [Areas -> [Keys -> Nat]]
  BY SeedCounts
<1>5. led \in [Areas -> [Keys -> [Areas -> Nat]]]
  BY SeedCounts
<1>6. ASSUME NEW a \in Areas, NEW fk \in FieldKeys
      PROVE  /\ values[a][fk] \in ValueLists(Known(<< >>)[a][fk])
             /\ SeedValues(r, a, fk) \in Seq(Values)
  <2>1. SeedValues(r, a, fk) \in ValueLists(Known(<< >>)[a][fk])
    BY SeedLearned
  <2>2. Known(<< >>)[a][fk] \subseteq Values
    BY KnownType DEF Knowledge
  <2>3. SeedValues(r, a, fk) \in ValueLists(Values)
    BY <2>1, <2>2, WiderLists
  <2> QED BY <2>1, <2>3 DEF ValueLists
<1>7. values \in [Areas -> [FieldKeys -> Seq(Values)]]
  BY <1>6
<1>8. ASSUME NEW a \in Areas, NEW k \in Keys
      PROVE  counts[a][k] = SumFunction(led[a][k]) /\ counts[a][k] <= counts[a][k]
  <2>1. counts[a][k] = Cardinality(SeedPresses(r, a, k)) /\ Cardinality(SeedPresses(r, a, k)) \in Nat
    BY SeedCounts
  <2>2. led[a][k] = [b \in Areas |-> Cardinality(SeedLed(r, a, k, b))]
    OBVIOUS
  <2>3. SumFunction(led[a][k]) = Cardinality(SeedPresses(r, a, k))
    BY <2>2, SeedLeads
  <2> QED BY <2>1, <2>3
<1> HIDE DEF map, counts, led, values, areas, visits
<1>9. map \in MindMap
  BY <1>1, <1>2, <1>3, <1>4, <1>5, <1>7 DEF MindMap
<1>10. AddUp(map.presses, map.progressions, map.destinations)
  BY <1>1, <1>8 DEF AddUp
<1>11. \A a \in Areas, fk \in FieldKeys : map.values[a][fk] \in ValueLists(Known(<< >>)[a][fk])
  BY <1>1, <1>6
<1>12. WellFormed(map, Known(<< >>))
  BY <1>9, <1>10, <1>11 DEF WellFormed
<1> QED BY <1>12 DEF map

-----------------------------------------------------------------------------
(* The recent attempts and the steps of a batch                            *)

AttemptTypes ==
    [attempt : Nat, from : Screens, to : Screens \cup {NoScreen},
     key : Keys, transitioned : BOOLEAN, failed : BOOLEAN]

Appended(old, a) ==
    IF Len(old) < MaxAttempts THEN Append(old, a)
    ELSE Append(SubSeq(old, Len(old) - MaxAttempts + 2, Len(old)), a)

(* The latest attempts stay in their order, ahead of the new one.          *)
LEMMA AppendedForm ==
    ASSUME NEW old \in Seq(AttemptTypes), Len(old) <= MaxAttempts, NEW a \in AttemptTypes
    PROVE  /\ Appended(old, a) \in Seq(AttemptTypes)
           /\ Len(Appended(old, a)) \in 1..MaxAttempts
           /\ Appended(old, a)[Len(Appended(old, a))] = a
           /\ \E d \in Nat : \A i \in 1..(Len(Appended(old, a)) - 1) :
                i + d \in 1..Len(old) /\ Appended(old, a)[i] = old[i + d]
<1> DEFINE n == Len(old)
           m == MaxAttempts
<1>1. n \in Nat /\ m \in Nat /\ m >= 1 /\ n <= m
  <2>1. n \in Nat
    BY BoundsAssumption
  <2>2. m \in Nat /\ m >= 1
    BY BoundsAssumption
  <2> QED BY <2>1, <2>2
<1>0. n = Len(old) /\ m = MaxAttempts
  OBVIOUS
<1> HIDE DEF n, m
<1>2. CASE n < m
  <2> DEFINE new == Append(old, a)
  <2>1. Appended(old, a) = new
    BY <1>0, <1>2 DEF Appended
  <2>2. /\ new \in Seq(AttemptTypes) /\ Len(new) = n + 1 /\ new[n + 1] = a
        /\ \A i \in 1..n : new[i] = old[i]
    BY <1>0, <1>1
  <2>3. \A i \in 1..(Len(new) - 1) : i + 0 \in 1..n /\ new[i] = old[i + 0]
    <3> HIDE DEF new
    <3>1. Len(new) - 1 = n /\ \A i \in 1..n : i + 0 = i
      BY <1>1, <2>2
    <3> QED BY <2>2, <3>1
  <2> HIDE DEF new
  <2>4. Len(new) \in 1..m
    BY <1>1, <1>2, <2>2
  <2>5. 0 \in Nat
    OBVIOUS
  <2> QED BY <1>0, <2>1, <2>2, <2>3, <2>4, <2>5
<1>3. CASE ~(n < m)
  <2> DEFINE kept == SubSeq(old, 2, n)
             new == Append(kept, a)
  <2>1. n = m /\ n - m + 2 = 2
    BY <1>1, <1>3
  <2>2. Appended(old, a) = new
    BY <1>0, <1>3, <2>1 DEF Appended
  <2>3. /\ kept \in Seq(AttemptTypes) /\ Len(kept) = n - 1
        /\ \A i \in 1..(n - 1) : kept[i] = old[i + 1]
    <3>1. n >= 1 /\ 2 \in 1..(n + 1) /\ n - 2 + 1 = n - 1
      BY <1>1, <2>1
    <3>2. kept \in Seq(AttemptTypes) /\ Len(kept) = n - 2 + 1
      <4>1. 2 \in Nat /\ n \in Nat /\ 2 <= n + 1 /\ n <= Len(old)
        BY <1>0, <1>1, <3>1
      <4>2. \A i \in 2..n : old[i] \in AttemptTypes
        BY <1>0, <1>1
      <4> QED BY <3>1, <4>1, <4>2
    <3>3. \A i \in 1..(n - 2 + 1) : kept[i] = old[2 + i - 1] /\ 2 + i - 1 = i + 1
      BY <1>0, <1>1, <3>1
    <3> HIDE DEF kept
    <3> QED BY <3>1, <3>2, <3>3
  <2> HIDE DEF kept
  <2>4. /\ new \in Seq(AttemptTypes) /\ Len(new) = n /\ new[n] = a
        /\ \A i \in 1..(n - 1) : new[i] = kept[i]
    BY <1>1, <2>1, <2>3
  <2>5. \A i \in 1..(Len(new) - 1) : i + 1 \in 1..n /\ new[i] = old[i + 1]
    <3> HIDE DEF new
    <3>1. \A i \in 1..(n - 1) : i + 1 \in 1..n
      BY <1>1
    <3> QED BY <2>3, <2>4, <3>1
  <2> HIDE DEF new
  <2>6. Len(new) \in 1..m /\ 1 \in Nat
    BY <1>1, <2>1, <2>4
  <2> QED BY <1>0, <2>2, <2>4, <2>5, <2>6
<1> QED BY <1>2, <1>3

LEMMA PlacesTyped == Places \subseteq Place
<1> SUFFICES ASSUME NEW h \in Screens, NEW f \in ToSet(FieldsOf[h]) PROVE f.at \in Place
  BY DEF Places
<1>1. FieldsOf[h] \in Seq(Fields)
  BY FieldsAssumption
<1>2. f \in Fields
  BY <1>1 DEF ToSet
<1> QED BY <1>2 DEF Fields

LEMMA ExportedType ==
    ASSUME NEW k \in Keys
    PROVE  /\ ExportedStep(k) \in StepKinds
           /\ \A s : ExportedStep(k) = s.type => ~IsFill(s)
<1>1. ExportedStep(k).name # "FillString"
  BY DEF ExportedStep, PressName, KeyNameSet, Plain, Key
<1>2. Plain("FillString").name = "FillString"
  BY DEF Plain, Key
<1>3. ExportedStep(k) \in StepKinds
  BY DEF StepKinds
<1> QED BY <1>1, <1>2, <1>3 DEF IsFill

(* A batch is the fills and, last, the key. *)
LEMMA BatchForm ==
    ASSUME key \in Keys, writes \in Seq(WriteTypes)
    PROVE  /\ BatchSteps \in Seq(StepTypes)
           /\ Len(BatchSteps) > 0
           /\ BatchSteps[Len(BatchSteps)] = Press(ExportedStep(key))
           /\ \A i \in 1..(Len(BatchSteps) - 1) : IsFill(BatchSteps[i])
<1> DEFINE written == Filter(writes, {w \in ToSet(writes) : w.ok})
           fills == [i \in DOMAIN written |-> Fill(written[i].at, written[i].text)]
           last == Press(ExportedStep(key))
<1>1. written \in Seq(WriteTypes)
  BY FilterType
<1>2. BatchSteps = Append(fills, last)
  BY DEF BatchSteps
<1> HIDE DEF written
<1>3. ASSUME NEW i \in DOMAIN written
      PROVE  fills[i] \in StepTypes /\ IsFill(fills[i])
  <2>1. written[i] \in WriteTypes
    BY <1>1
  <2>2. written[i].at \in Place /\ written[i].text \in Values
    BY <2>1, PlacesTyped DEF WriteTypes
  <2>3. fills[i] = [type |-> Plain("FillString"), at |-> written[i].at, len |-> 0,
                    text |-> written[i].text]
    BY DEF Fill
  <2>4. Plain("FillString") \in StepKinds
    BY DEF StepKinds
  <2> QED BY <2>2, <2>3, <2>4 DEF StepTypes, IsFill
<1>4. DOMAIN written = 1..Len(written) /\ Len(written) \in Nat
  BY <1>1
<1>5. fills \in Seq(StepTypes) /\ Len(fills) = Len(written)
  <2>1. fills \in [1..Len(written) -> StepTypes]
    BY <1>3, <1>4
  <2> HIDE DEF fills
  <2> QED BY <1>4, <2>1
<1>6. last \in StepTypes
  BY ExportedType DEF Press, StepTypes, Place, NoPlace
<1> HIDE DEF fills, last
<1>7. /\ Append(fills, last) \in Seq(StepTypes)
      /\ Len(Append(fills, last)) = Len(written) + 1
      /\ Append(fills, last)[Len(written) + 1] = last
      /\ \A i \in 1..Len(written) : Append(fills, last)[i] = fills[i]
  BY <1>4, <1>5, <1>6
<1>8. \A i \in 1..((Len(written) + 1) - 1) : i \in DOMAIN written
  BY <1>4
<1> QED BY <1>2, <1>3, <1>4, <1>7, <1>8 DEF last

(* What is exported as a fill was written. *)
LEMMA BatchFillWritten ==
    ASSUME key \in Keys, writes \in Seq(WriteTypes), NEW s \in ToSet(BatchSteps), IsFill(s)
    PROVE  \E w \in ToSet(writes) : w.ok /\ w.at = s.at /\ w.text = s.text
<1> DEFINE done == {x \in ToSet(writes) : x.ok}
           written == Filter(writes, done)
           fills == [i \in DOMAIN written |-> Fill(written[i].at, written[i].text)]
           last == Press(ExportedStep(key))
<1>1. BatchSteps = Append(fills, last)
  BY DEF BatchSteps
<1>2. PICK at \in [1..Len(written) -> 1..Len(writes)] :
        \A i \in DOMAIN at : written[i] = writes[at[i]] /\ writes[at[i]] \in done
  <2> HIDE DEF done
  <2> QED BY FilterIndices
<1>3. written \in Seq(WriteTypes)
  <2> HIDE DEF done
  <2> QED BY FilterType
<1> HIDE DEF written
<1>4. DOMAIN written = 1..Len(written) /\ Len(written) \in Nat
  BY <1>3
<1>5. ~IsFill(last)
  BY ExportedType DEF Press
<1>6. PICK i \in 1..Len(written) : s = fills[i]
  <2>1. fills \in Seq({fills[n] : n \in 1..Len(written)} \cup {last}) /\ Len(fills) = Len(written)
    <3>1. fills \in [1..Len(written) -> {fills[n] : n \in 1..Len(written)} \cup {last}]
      BY <1>4
    <3> HIDE DEF fills, last
    <3> QED BY <1>4, <3>1
  <2> HIDE DEF fills, last
  <2>2. PICK i \in DOMAIN Append(fills, last) : s = Append(fills, last)[i]
    BY <1>1 DEF ToSet
  <2>3. i \in 1..Len(written) \/ Append(fills, last)[i] = last
    BY <1>4, <2>1
  <2> QED BY <1>4, <1>5, <2>1, <2>2, <2>3
<1>7. s.at = written[i].at /\ s.text = written[i].text
  BY <1>4, <1>6 DEF Fill
<1>8. written[i] \in done
  BY <1>2
<1> QED BY <1>7, <1>8

(* Every write that succeeded is exported. *)
LEMMA BatchHasFill ==
    ASSUME key \in Keys, writes \in Seq(WriteTypes), NEW w \in ToSet(writes), w.ok
    PROVE  \E s \in ToSet(BatchSteps) : IsFill(s) /\ s.at = w.at /\ s.text = w.text
<1> DEFINE done == {x \in ToSet(writes) : x.ok}
           written == Filter(writes, done)
           fills == [i \in DOMAIN written |-> Fill(written[i].at, written[i].text)]
           last == Press(ExportedStep(key))
<1>1. PICK k \in 1..Len(writes) : writes[k] = w
  BY DEF ToSet
<1>2. written \in Seq(WriteTypes)
  <2> HIDE DEF done
  <2> QED BY FilterType
<1>3. PICK j \in 1..Len(written) : written[j] = w
  <2>1. writes[k] \in done
    BY <1>1
  <2> HIDE DEF done
  <2> QED BY <1>1, <2>1, FilterComplete
<1>4. BatchSteps = Append(fills, last)
  BY DEF BatchSteps
<1> HIDE DEF written
<1>5. DOMAIN written = 1..Len(written) /\ Len(written) \in Nat
  BY <1>2
<1>6. fills[j] = Fill(w.at, w.text)
  BY <1>3, <1>5
<1>7. j \in DOMAIN BatchSteps /\ BatchSteps[j] = fills[j]
  <2>1. \A i \in 1..Len(written) : fills[i] \in {fills[n] : n \in 1..Len(written)}
    OBVIOUS
  <2>2. fills \in Seq({fills[n] : n \in 1..Len(written)} \cup {last}) /\ Len(fills) = Len(written)
    <3>1. fills \in [1..Len(written) -> {fills[n] : n \in 1..Len(written)} \cup {last}]
      BY <1>5
    <3> HIDE DEF fills, last
    <3> QED BY <1>5, <3>1
  <2> HIDE DEF fills, last
  <2> QED BY <1>3, <1>4, <1>5, <2>2
<1>8. IsFill(Fill(w.at, w.text)) /\ Fill(w.at, w.text).at = w.at /\ Fill(w.at, w.text).text = w.text
  BY DEF IsFill, Fill
<1> QED BY <1>6, <1>7, <1>8 DEF ToSet

-----------------------------------------------------------------------------
(* Types                                                                   *)

(* Where the goroutine is, and what its step has at hand. *)
ControlType ==
    /\ active \in BOOLEAN /\ stop \in BOOLEAN /\ failed \in BOOLEAN /\ disturbed \in BOOLEAN
    /\ cfg \in Configs
    /\ runs \in Nat /\ seeded \in Nat /\ afterStop \in Nat
    /\ pc \in {"none", "top", "press", "after", "delay", "exit"}
    /\ active <=> pc # "none"
    /\ from \in Screens \cup {NoScreen}
    /\ pc \in {"press", "after"} <=> from # NoScreen
    /\ IF from = NoScreen THEN key = NoKey ELSE key \in Keys
    /\ writes \in Seq(WriteTypes)

(* What a run keeps. *)
BookType ==
    /\ stepsRun \in Nat /\ failures \in Nat
    /\ keyCounts \in [Keys -> Nat]
    /\ steps \in Seq(StepTypes)
    /\ transitions \in Seq(TransitionTypes)
    /\ hashes \subseteq Screens
    /\ inputs \subseteq Values
    /\ attempts \in Seq(AttemptTypes) /\ Len(attempts) <= MaxAttempts
    /\ WellFormed(mind, Known(transitions))

FileType ==
    /\ unwritten \subseteq Seq(StepTypes)
    /\ output \in Seq(StepTypes) \cup {NoSteps}

TypeInv == ControlType /\ BookType /\ FileType

LEMMA TypeInvOK == TypeInv => TypeOK
<1> SUFFICES ASSUME TypeInv PROVE TypeOK
  OBVIOUS
<1>1. mind \in MindMap
  BY DEF TypeInv, BookType, WellFormed
<1>2. ASSUME NEW a \in Areas, NEW fk \in FieldKeys
      PROVE  Len(mind.values[a][fk]) <= MaxValues /\ IsInjective(mind.values[a][fk])
  BY DEF TypeInv, BookType, WellFormed, ValueLists
<1> QED BY <1>1, <1>2 DEF TypeInv, ControlType, BookType, FileType, TypeOK,
                          TransitionTypes, AttemptTypes, WriteTypes

(* Every key that can be picked is one of Keys. *)
LEMMA SelectableAreKeys == \A h : SelectableKeys(h) \subseteq Keys
<1> SUFFICES ASSUME NEW h, NEW k \in SelectableKeys(h) PROVE k \in Keys
  OBVIOUS
<1>1. k = Enter \/ \E i \in DOMAIN KeyOrder : k = KeyOrder[i]
  BY DEF SelectableKeys
<1> QED BY <1>1, KeysAssumption DEF ToSet

-----------------------------------------------------------------------------
(* One step's books                                                        *)

(* What an attempt of the step under way is. *)
LEMMA AttemptForm ==
    ASSUME ControlType, pc \in {"press", "after"}, stepsRun \in Nat,
           NEW to \in Screens \cup {NoScreen}, NEW error \in BOOLEAN
    PROVE  LET a == Attempt(to, error)
           IN  /\ a \in AttemptTypes
               /\ a.attempt = stepsRun + 1 /\ a.from = from /\ a.to = to /\ a.key = key
               /\ a.failed = error
               /\ from \in Screens /\ from \in Areas /\ key \in Keys
               /\ a.transitioned <=> to # NoScreen /\ to # from
               /\ a.transitioned => to \in Areas
               /\ a.from \in Areas /\ a.key \in Keys /\ a.transitioned \in BOOLEAN
<1>1. from \in Screens /\ key \in Keys
  BY DEF ControlType
<1>2. stepsRun + 1 \in Nat
  OBVIOUS
<1> QED BY <1>1, <1>2 DEF Attempt, AttemptTypes, Areas

LEMMA FailureBooks ==
    ASSUME TypeInv, NEW here \in {"press", "after"}, BookFailure(here)
    PROVE  BookType'
<1> DEFINE a == Attempt(NoScreen, TRUE)
           seen == ObserveScreen(mind, from)
<1>0. /\ pc = here
      /\ mind' = RecordAttempt(seen, a, writes) /\ AppendAttempt(a) /\ failures' = failures + 1
      /\ UNCHANGED <<stepsRun, keyCounts, transitions, steps, hashes, inputs>>
  BY DEF BookFailure, Leave
<1>1. /\ a \in AttemptTypes /\ from \in Areas /\ ~a.transitioned
      /\ a.from \in Areas /\ a.key \in Keys /\ a.transitioned \in BOOLEAN
  BY <1>0, AttemptForm, Zenon DEF TypeInv, BookType
<1> DEFINE known == Known(transitions)
<1>2. WellFormed(seen, known)
  BY <1>1, ObserveWellFormed DEF TypeInv, BookType
<1>3. known \in Knowledge /\ writes \in Seq(WriteTypes)
  BY KnownType DEF TypeInv, ControlType
<1> HIDE DEF a, seen, known
<1>4. WellFormed(RecordAttempt(seen, a, writes), known)
  BY <1>1, <1>2, <1>3, RecordWellFormed
<1>5. attempts' = Appended(attempts, a)
  BY <1>0 DEF AppendAttempt, Appended
<1>6. attempts' \in Seq(AttemptTypes) /\ Len(attempts') <= MaxAttempts
  <2>1. attempts \in Seq(AttemptTypes) /\ Len(attempts) <= MaxAttempts
    BY DEF TypeInv, BookType
  <2>2. Appended(attempts, a) \in Seq(AttemptTypes) /\ Len(Appended(attempts, a)) \in 1..MaxAttempts
    BY <1>1, <2>1, AppendedForm
  <2> QED BY <1>5, <2>2
<1>7. WellFormed(mind, Known(transitions))'
  BY <1>0, <1>4 DEF known
<1>8. failures' \in Nat
  BY <1>0 DEF TypeInv, BookType
<1> QED BY <1>0, <1>6, <1>7, <1>8 DEF TypeInv, BookType

LEMMA StepBooks ==
    ASSUME TypeInv, pc = "after", NEW to \in Screens, CountStep(to), failures' = failures
    PROVE  BookType'
<1> DEFINE a == Attempt(to, FALSE)
           seen == ObserveScreen(ObserveScreen(mind, from), to)
           t == [from |-> from, to |-> to, steps |-> BatchSteps]
           typed == {w.text : w \in {x \in ToSet(writes) : x.ok}}
           known == Known(transitions)
           more == Known(Append(transitions, t))
<1>0. /\ mind' = RecordAttempt(seen, a, writes)
      /\ stepsRun' = stepsRun + 1
      /\ steps' = steps \o BatchSteps
      /\ hashes' = hashes \cup {from, to}
      /\ keyCounts' = [keyCounts EXCEPT ![key] = @ + 1]
      /\ inputs' = inputs \cup typed
      /\ transitions' = IF ~a.transitioned THEN transitions ELSE Append(transitions, t)
      /\ attempts' = attempts \/ attempts' = Appended(attempts, a)
  BY DEF CountStep, AppendAttempt, Appended
<1>1. /\ a \in AttemptTypes /\ from \in Screens /\ from \in Areas /\ key \in Keys
      /\ a.from \in Areas /\ a.key \in Keys /\ a.transitioned \in BOOLEAN
      /\ a.transitioned => a.to \in Areas
      /\ a.from = from
  BY AttemptForm, Zenon DEF TypeInv, BookType
<1>2. to \in Areas
  BY DEF Areas
<1>3. WellFormed(seen, known)
  BY <1>1, <1>2, ObserveWellFormed DEF TypeInv, BookType
<1>4. /\ inputs \in SUBSET Values /\ writes \in Seq(WriteTypes)
      /\ transitions \in Seq(TransitionTypes)
  BY DEF TypeInv, BookType, ControlType
<1>7. BatchSteps \in Seq(StepTypes)
  BY <1>1, <1>4, BatchForm
<1>14. t \in TransitionTypes
  BY <1>1, <1>7 DEF TransitionTypes
<1>15. ASSUME NEW fk \in FieldKeys, NEW w \in ToSet(writes), w.ok, <<w.at, Size[w.text]>> = fk
       PROVE  Trimmed[w.text] \in more[from][fk]
  <2> DEFINE ts == Append(transitions, t)
             n == Len(transitions) + 1
  <2>1. PICK s \in ToSet(BatchSteps) : IsFill(s) /\ s.at = w.at /\ s.text = w.text
    BY <1>1, <1>4, <1>15, BatchHasFill
  <2>2. n \in DOMAIN ts /\ ts[n] = t
    BY <1>4, <1>14
  <2>3. t.from = from /\ t.steps = BatchSteps
    OBVIOUS
  <2>4. w.text \in Values
    <3>1. w \in WriteTypes
      BY <1>4 DEF ToSet
    <3> QED BY <3>1 DEF WriteTypes
  <2>5. Trimmed[w.text] \in Values
    BY <2>4, SizeAssumption
  <2> HIDE DEF ts, n, t
  <2>6. Trimmed[w.text] \in WorkedOn(ts, from, fk)
    BY <1>15, <2>1, <2>2, <2>3, <2>5 DEF WorkedOn
  <2> QED BY <1>1, <2>6, KnownType DEF ts
<1>16. \A b \in Areas, fk \in FieldKeys : known[b][fk] \subseteq more[b][fk]
  <2> HIDE DEF t
  <2> QED BY <1>4, <1>14, KnownMore
<1>17. known \in Knowledge /\ more \in Knowledge
  BY KnownType
<1> HIDE DEF a, seen, known, more, t
<1>5. WellFormed(mind, Known(transitions))'
  <2>1. /\ ~a.transitioned => WellFormed(RecordAttempt(seen, a, writes), known)
        /\ a.transitioned => WellFormed(RecordAttempt(seen, a, writes), more)
    BY <1>1, <1>3, <1>4, <1>15, <1>16, <1>17, RecordWellFormed
  <2> QED BY <1>0, <2>1 DEF known, more
<1>6. attempts' \in Seq(AttemptTypes) /\ Len(attempts') <= MaxAttempts
  <2>1. attempts \in Seq(AttemptTypes) /\ Len(attempts) <= MaxAttempts
    BY DEF TypeInv, BookType
  <2>2. Appended(attempts, a) \in Seq(AttemptTypes) /\ Len(Appended(attempts, a)) \in 1..MaxAttempts
    BY <1>1, <2>1, AppendedForm
  <2>3. Len(Appended(attempts, a)) <= MaxAttempts
    BY <2>2, BoundsAssumption
  <2> QED BY <1>0, <2>1, <2>2, <2>3
<1>8. stepsRun' \in Nat /\ failures' \in Nat
  BY <1>0 DEF TypeInv, BookType
<1>9. keyCounts' \in [Keys -> Nat]
  BY <1>0, <1>1 DEF TypeInv, BookType
<1>10. steps' \in Seq(StepTypes)
  BY <1>0, <1>7 DEF TypeInv, BookType
<1>11. transitions' \in Seq(TransitionTypes)
  BY <1>0, <1>4, <1>14
<1>12. hashes' \subseteq Screens
  BY <1>0, <1>1 DEF TypeInv, BookType
<1>13. inputs' \subseteq Values
  <2>1. \A w \in ToSet(writes) : w \in WriteTypes
    BY <1>4 DEF ToSet
  <2>2. typed \subseteq Values
    BY <2>1 DEF WriteTypes
  <2> QED BY <1>0, <1>4, <2>2
<1> QED BY <1>5, <1>6, <1>8, <1>9, <1>10, <1>11, <1>12, <1>13 DEF BookType

LEMMA InitType == Init => TypeInv
<1> SUFFICES ASSUME Init PROVE TypeInv
  OBVIOUS
<1>1. ControlType
  <2>1. << >> \in Seq(WriteTypes) /\ 0 \in Nat
    OBVIOUS
  <2>2. ~active /\ pc = "none" /\ from = NoScreen /\ key = NoKey /\ writes = << >>
    BY DEF Init
  <2> QED BY <2>1, <2>2 DEF Init, ControlType
<1>2. BookType
  <2>1. WellFormed(mind, Known(transitions))
    BY EmptyWellFormed DEF Init
  <2>2. Len(attempts) <= MaxAttempts
    BY BoundsAssumption DEF Init
  <2> QED BY <2>1, <2>2 DEF Init, BookType
<1>3. FileType
  BY DEF Init, FileType
<1> QED BY <1>1, <1>2, <1>3 DEF TypeInv

LEMMA BeginType ==
    ASSUME TypeInv, NEW c \in Configs, Begin(c), seeded' \in Nat
    PROVE  ControlType' /\ FileType'
<1>1. ControlType'
  <2>1. pc = "none" /\ from = NoScreen /\ key = NoKey /\ writes \in Seq(WriteTypes)
    BY DEF TypeInv, ControlType, Begin
  <2>2. /\ active' = TRUE /\ stop' = FALSE /\ failed' = FALSE /\ cfg' = c /\ pc' = "top"
        /\ afterStop' = 0 /\ from' = from /\ key' = key /\ writes' = writes
    BY DEF Begin, stepVars
  <2>3. runs' \in Nat /\ disturbed' \in BOOLEAN
    BY DEF TypeInv, ControlType, Begin
  <2> QED BY <2>1, <2>2, <2>3 DEF ControlType
<1>2. FileType'
  BY DEF TypeInv, FileType, Begin
<1> QED BY <1>1, <1>2

(* What a run that goes on is given. *)
ResumableType(saved) ==
    /\ saved.stepsRun \in Nat
    /\ saved.keyCounts \in [Keys -> Nat]
    /\ saved.steps \in Seq(StepTypes)
    /\ saved.transitions \in Seq(TransitionTypes)
    /\ saved.hashes \subseteq Screens
    /\ saved.inputs \subseteq Values
    /\ saved.attempts \in Seq(AttemptTypes) /\ Len(saved.attempts) <= MaxAttempts
    /\ WellFormed(saved.mind, Known(saved.transitions))

LEMMA SnapshotType == TypeInv => ResumableType(Snapshot)
BY DEF TypeInv, BookType, ResumableType, Snapshot

LEMMA SeedType == ASSUME NEW r \in Recordings PROVE ResumableType(SeedRun(r))
<1> DEFINE texts == {Trimmed[r[i].text] : i \in SeedFills(r)}
<1>1. /\ SeedRun(r).mind = SeedMap(r) /\ SeedRun(r).inputs = texts
      /\ SeedRun(r).stepsRun = 0 /\ SeedRun(r).keyCounts = [k \in Keys |-> 0]
      /\ SeedRun(r).steps = r /\ SeedRun(r).transitions = << >> /\ SeedRun(r).hashes = {}
      /\ SeedRun(r).attempts = << >>
  BY DEF SeedRun
<1>2. 0 <= MaxAttempts
  BY BoundsAssumption
<1>3. r \in Seq(StepTypes)
  BY RecordingsAssumption
<1>4. << >> \in Seq(TransitionTypes) /\ << >> \in Seq(AttemptTypes) /\ Len(<< >>) = 0
  OBVIOUS
<1>5. WellFormed(SeedMap(r), Known(<< >>)) /\ texts \subseteq Values
  BY SeedWellFormed, SeedTextsTyped
<1>6. [k \in Keys |-> 0] \in [Keys -> Nat]
  OBVIOUS
<1> HIDE DEF texts
<1> QED BY <1>1, <1>2, <1>3, <1>4, <1>5, <1>6 DEF ResumableType

LEMMA ResumeType ==
    ASSUME NEW saved, ResumableType(saved), NEW c \in Configs, ResumeFrom(saved, c),
           failures' \in Nat
    PROVE  BookType'
<1>1. attempts' \in Seq(AttemptTypes) /\ Len(attempts') <= MaxAttempts
  <2>1. saved.attempts \in Seq(AttemptTypes) /\ Len(saved.attempts) <= MaxAttempts
    BY DEF ResumableType
  <2> DEFINE old == saved.attempts
             kept == FilterProgress(old)
  <2>2. kept \in Seq(AttemptTypes) /\ Len(kept) <= Len(old)
    <3>1. old \in Seq(AttemptTypes)
      BY <2>1
    <3> HIDE DEF old
    <3> QED BY <3>1, FilterType, FilterShorter DEF FilterProgress
  <2>3. Len(kept) <= MaxAttempts
    <3>1. Len(kept) \in Nat /\ Len(old) \in Nat /\ MaxAttempts \in Nat
      BY <2>1, <2>2, BoundsAssumption
    <3>2. Len(old) <= MaxAttempts
      BY <2>1
    <3> HIDE DEF kept, old
    <3> QED BY <2>2, <3>1, <3>2
  <2>4. attempts' = kept \/ attempts' = old
    BY DEF ResumeFrom
  <2> QED BY <2>1, <2>2, <2>3, <2>4
<1> QED BY <1>1 DEF ResumableType, ResumeFrom, BookType

LEMMA LoopType ==
    ASSUME TypeInv, Loop
    PROVE  TypeInv'
<1> USE DEF envVars, stepVars
<1>1. CASE LoopEnds \/ ReadFails \/ DelayOver \/ DelayStopped
  <2>1. UNCHANGED <<learned, failures>>
    BY <1>1 DEF LoopEnds, ReadFails, DelayOver, DelayStopped
  <2>2. BookType'
    BY <2>1 DEF TypeInv, BookType, learned
  <2>3. ControlType'
    <3>1. << >> \in Seq(WriteTypes)
      OBVIOUS
    <3> QED BY <1>1, <3>1, ScreensAssumption
            DEF LoopEnds, ReadFails, DelayOver, DelayStopped, Leave, TypeInv, ControlType
  <2>4. FileType'
    BY <1>1 DEF LoopEnds, ReadFails, DelayOver, DelayStopped, TypeInv, FileType
  <2> QED BY <2>2, <2>3, <2>4 DEF TypeInv
<1>2. CASE PressFails \/ RefreshFails
  <2>1. PICK here \in {"press", "after"} : BookFailure(here)
    BY <1>2 DEF PressFails, RefreshFails
  <2>2. BookType'
    BY <2>1, FailureBooks
  <2>3. ControlType'
    <3>1. << >> \in Seq(WriteTypes)
      OBVIOUS
    <3>2. afterStop' \in Nat
      BY <1>2 DEF PressFails, RefreshFails, Sent, TypeInv, ControlType
    <3> QED BY <2>1, <3>1, <3>2, ScreensAssumption DEF BookFailure, Leave, TypeInv, ControlType
  <2>4. FileType'
    BY <2>1 DEF BookFailure, TypeInv, FileType
  <2> QED BY <2>2, <2>3, <2>4 DEF TypeInv
<1>3. CASE PressKey
  <2>1. BookType'
    BY <1>3 DEF PressKey, TypeInv, BookType, learned
  <2>2. ControlType'
    BY <1>3 DEF PressKey, Sent, TypeInv, ControlType
  <2>3. FileType'
    BY <1>3 DEF PressKey, TypeInv, FileType
  <2> QED BY <2>1, <2>2, <2>3 DEF TypeInv
<1>4. CASE Exit
  <2>1. BookType'
    BY <1>4 DEF Exit, TypeInv, BookType, learned
  <2>2. ControlType'
    BY <1>4 DEF Exit, TypeInv, ControlType
  <2>3. FileType'
    BY <1>4 DEF Exit, TypeInv, FileType, BookType
  <2> QED BY <2>1, <2>2, <2>3 DEF TypeInv
<1>5. ASSUME NEW h \in Screens, ReadScreen(h) PROVE TypeInv'
  <2>1. BookType'
    BY <1>5 DEF ReadScreen, TypeInv, BookType, learned
  <2>2. key' \in Keys
    BY <1>5, SelectableAreKeys DEF ReadScreen, TypeInv, ControlType
  <2>3. writes' \in Seq(WriteTypes)
    <3> DEFINE n == Len(FieldsOf[h])
    <3>1. FieldsOf[h] \in Seq(Fields)
      BY FieldsAssumption
    <3>2. n \in Nat
      BY <3>1
    <3>3. writes' \in [1..n -> WriteTypes]
      BY <1>5 DEF ReadScreen, WriteTypes
    <3> HIDE DEF n
    <3> QED BY <3>2, <3>3
  <2>4. ControlType'
    BY <1>5, <2>2, <2>3, ScreensAssumption DEF ReadScreen, TypeInv, ControlType
  <2>5. FileType'
    BY <1>5 DEF ReadScreen, TypeInv, FileType
  <2> QED BY <2>1, <2>4, <2>5 DEF TypeInv
<1>6. ASSUME NEW to \in Screens, RefreshScreen(to) PROVE TypeInv'
  <2>1. BookType'
    BY <1>6, StepBooks DEF RefreshScreen
  <2>2. << >> \in Seq(WriteTypes)
    OBVIOUS
  <2>3. ControlType'
    BY <1>6, <2>2, ScreensAssumption DEF RefreshScreen, TypeInv, ControlType
  <2>4. FileType'
    BY <1>6 DEF RefreshScreen, TypeInv, FileType
  <2> QED BY <2>1, <2>3, <2>4 DEF TypeInv
<1> QED BY <1>1, <1>2, <1>3, <1>4, <1>5, <1>6 DEF Loop

LEMMA NextType == TypeInv /\ [Next]_vars => TypeInv'
<1> SUFFICES ASSUME TypeInv, [Next]_vars PROVE TypeInv'
  OBVIOUS
<1>1. ASSUME NEW c \in Configs, Start(c) PROVE TypeInv'
  <2>1. WellFormed(mind, Known(transitions))'
    <3>1. mind' = EmptyMap
      BY <1>1 DEF Start
    <3> QED BY <3>1, EmptyWellFormed
  <2>2. 0 <= MaxAttempts
    BY BoundsAssumption
  <2>3. BookType'
    BY <1>1, <2>1, <2>2 DEF Start, BookType
  <2> QED BY <1>1, <2>3, BeginType DEF Start, TypeInv
<1>2. ASSUME NEW c \in Configs, ResumeRun(c) PROVE TypeInv'
  <2>1. BookType'
    BY <1>2, SnapshotType, ResumeType DEF ResumeRun, TypeInv, BookType
  <2> QED BY <1>2, <2>1, BeginType DEF ResumeRun, ResumeFrom, TypeInv, ControlType
<1>3. ASSUME NEW c \in Configs, NEW r \in Recordings, ResumeRecording(r, c) PROVE TypeInv'
  <2>1. BookType'
    BY <1>3, SeedType, ResumeType DEF ResumeRecording
  <2>2. Len(r) \in Nat
    BY AreasNumbered
  <2> QED BY <1>3, <2>1, <2>2, BeginType DEF ResumeRecording, ResumeFrom, TypeInv
<1>4. CASE Stop
  <2>1. BookType'
    BY <1>4 DEF Stop, TypeInv, BookType, learned
  <2>2. ControlType' /\ FileType'
    BY <1>4 DEF Stop, TypeInv, ControlType, FileType, stepVars
  <2> QED BY <2>1, <2>2 DEF TypeInv
<1>5. ASSUME NEW w \in unwritten, WriteOutput(w) PROVE TypeInv'
  <2>1. BookType'
    BY <1>5 DEF WriteOutput, TypeInv, BookType, learned
  <2>2. ControlType' /\ FileType'
    BY <1>5 DEF WriteOutput, TypeInv, ControlType, FileType, stepVars
  <2> QED BY <2>1, <2>2 DEF TypeInv
<1>6. CASE UNCHANGED vars
  <2>1. BookType'
    BY <1>6 DEF vars, TypeInv, BookType, learned
  <2>2. ControlType' /\ FileType'
    BY <1>6 DEF vars, TypeInv, ControlType, FileType, stepVars
  <2> QED BY <2>1, <2>2 DEF TypeInv
<1> QED BY <1>1, <1>2, <1>3, <1>4, <1>5, <1>6, LoopType DEF Next

(* Every variable has its type, the bounded lists keep to their bounds and *)
(* the values learned for a field are distinct, whatever the runs, the     *)
(* recordings they go on from and the order of their steps.                *)
THEOREM EngineTyped == Spec => []TypeOK
BY InitType, NextType, TypeInvOK, PTL DEF Spec

-----------------------------------------------------------------------------
(* The numbers of the attempts                                             *)

Ordered(a, b) == a.attempt < b.attempt \/ (a.failed /\ a.attempt = b.attempt)

(* Any two attempts are in order, not only neighbours, since a resumed run *)
(* may drop what was between them; no number is ahead of the run's steps   *)
(* but that of the failed attempt it ended with.                           *)
Numbered(as, n) ==
    /\ \A i, j \in 1..Len(as) : i < j => Ordered(as[i], as[j])
    /\ \A i \in 1..Len(as) : as[i].attempt <= n + (IF as[i].failed THEN 1 ELSE 0)

LEMMA NumberedStep ==
    ASSUME NEW old \in Seq(AttemptTypes), Len(old) <= MaxAttempts, NEW n \in Nat, Numbered(old, n),
           NEW a \in AttemptTypes, a.attempt = n + 1
    PROVE  /\ a.failed => Numbered(Appended(old, a), n)
           /\ Numbered(Appended(old, a), n + 1)
<1> DEFINE new == Appended(old, a)
           m == Len(new)
<1>1. /\ new \in Seq(AttemptTypes) /\ m \in 1..MaxAttempts /\ new[m] = a
      /\ \E d \in Nat : \A i \in 1..(m - 1) : i + d \in 1..Len(old) /\ new[i] = old[i + d]
  BY AppendedForm
<1>2. PICK d \in Nat : \A i \in 1..(m - 1) : i + d \in 1..Len(old) /\ new[i] = old[i + d]
  BY <1>1
<1>3. m \in Nat /\ m >= 1
  BY <1>1
<1> HIDE DEF new, m
<1>4. ASSUME NEW i \in 1..(m - 1)
      PROVE  /\ new[i].attempt \in Nat /\ new[i].failed \in BOOLEAN
             /\ new[i].attempt <= n + (IF new[i].failed THEN 1 ELSE 0)
             /\ Ordered(new[i], a)
             /\ \A j \in 1..(m - 1) : i < j => Ordered(new[i], new[j])
  <2>1. i + d \in 1..Len(old) /\ new[i] = old[i + d]
    BY <1>2
  <2>2. old[i + d] \in AttemptTypes
    BY <2>1
  <2>3. new[i].attempt \in Nat /\ new[i].failed \in BOOLEAN
    BY <2>1, <2>2 DEF AttemptTypes
  <2>4. new[i].attempt <= n + (IF new[i].failed THEN 1 ELSE 0)
    BY <2>1 DEF Numbered
  <2>5. Ordered(new[i], a)
    BY <2>3, <2>4 DEF Ordered
  <2>6. ASSUME NEW j \in 1..(m - 1), i < j
        PROVE  Ordered(new[i], new[j])
    <3>1. j + d \in 1..Len(old) /\ new[j] = old[j + d]
      BY <1>2
    <3>2. i + d < j + d
      BY <1>3, <2>6
    <3> QED BY <2>1, <3>1, <3>2 DEF Numbered
  <2> QED BY <2>3, <2>4, <2>5, <2>6
<1>5. \A i \in 1..m : i = m \/ i \in 1..(m - 1)
  BY <1>3
<1>6. ASSUME NEW i \in 1..m, NEW j \in 1..m, i < j
      PROVE  Ordered(new[i], new[j])
  <2>1. i \in 1..(m - 1)
    BY <1>3, <1>6
  <2> QED BY <1>1, <1>4, <1>5, <1>6, <2>1 DEF new, m
<1>7. ASSUME NEW i \in 1..m
      PROVE  /\ new[i].attempt <= n + 1
             /\ a.failed => new[i].attempt <= n + (IF new[i].failed THEN 1 ELSE 0)
  <2>1. CASE i = m
    <3>1. new[i] = a
      BY <1>1, <2>1 DEF new, m
    <3> QED BY <3>1
  <2>2. CASE i \in 1..(m - 1)
    BY <1>4, <2>2
  <2> QED BY <1>5, <2>1, <2>2
<1>8. a.failed => Numbered(new, n)
  BY <1>6, <1>7 DEF Numbered, m
<1>9. Numbered(new, n + 1)
  <2>1. ASSUME NEW i \in 1..m
        PROVE  new[i].attempt <= n + 1 + (IF new[i].failed THEN 1 ELSE 0)
    <3>1. new[i] \in AttemptTypes
      BY <1>1 DEF new, m
    <3>2. new[i].attempt \in Nat
      BY <3>1 DEF AttemptTypes
    <3> QED BY <1>7, <3>2
  <2> QED BY <1>6, <2>1 DEF Numbered, m
<1> QED BY <1>8, <1>9 DEF new

LEMMA NumberedFilter ==
    ASSUME NEW old \in Seq(AttemptTypes), NEW n, Numbered(old, n)
    PROVE  Numbered(FilterProgress(old), n)
<1> DEFINE kept == FilterProgress(old)
           S == {a \in ToSet(old) : a.transitioned \/ a.failed}
<1>0. kept = Filter(old, S)
  BY DEF FilterProgress
<1> HIDE DEF kept, S
<1>1. PICK at \in [1..Len(kept) -> 1..Len(old)] :
        /\ \A i \in DOMAIN at : kept[i] = old[at[i]]
        /\ \A i, j \in DOMAIN at : i < j => at[i] < at[j]
  <2>1. \E at \in [1..Len(Filter(old, S)) -> 1..Len(old)] :
            /\ \A i \in DOMAIN at : Filter(old, S)[i] = old[at[i]] /\ old[at[i]] \in S
            /\ \A i, j \in DOMAIN at : i < j => at[i] < at[j]
    BY FilterIndices
  <2> QED BY <1>0, <2>1
<1>2. DOMAIN at = 1..Len(kept) /\ \A i \in 1..Len(kept) : at[i] \in 1..Len(old)
  BY <1>1
<1>3. ASSUME NEW i \in 1..Len(kept), NEW j \in 1..Len(kept), i < j
      PROVE  Ordered(kept[i], kept[j])
  BY <1>1, <1>2, <1>3 DEF Numbered
<1>4. ASSUME NEW i \in 1..Len(kept)
      PROVE  kept[i].attempt <= n + (IF kept[i].failed THEN 1 ELSE 0)
  BY <1>1, <1>2 DEF Numbered
<1> QED BY <1>3, <1>4 DEF Numbered, kept

LEMMA NoneNumbered == \A n : Numbered(<< >>, n)
<1>1. Len(<< >>) = 0 /\ \A i \in 1..0 : FALSE
  OBVIOUS
<1> QED BY <1>1 DEF Numbered

NumberInv == TypeInv /\ Numbered(attempts, stepsRun)

LEMMA NextNumbers == NumberInv /\ [Next]_vars => NumberInv'
<1> SUFFICES ASSUME NumberInv, [Next]_vars PROVE Numbered(attempts, stepsRun)'
  BY NextType DEF NumberInv
<1>0. /\ TypeInv /\ Numbered(attempts, stepsRun)
      /\ attempts \in Seq(AttemptTypes) /\ Len(attempts) <= MaxAttempts /\ stepsRun \in Nat
  BY DEF NumberInv, TypeInv, BookType
<1>1. ASSUME NEW c \in Configs, Start(c) PROVE Numbered(attempts, stepsRun)'
  BY <1>1, NoneNumbered DEF Start
<1>2. ASSUME NEW c \in Configs, ResumeRun(c) PROVE Numbered(attempts, stepsRun)'
  <2>1. attempts' \in {attempts, FilterProgress(attempts)} /\ stepsRun' = stepsRun
    BY <1>2 DEF ResumeRun, ResumeFrom, Snapshot
  <2>2. Numbered(FilterProgress(attempts), stepsRun)
    BY <1>0, NumberedFilter
  <2> QED BY <1>0, <2>1, <2>2
<1>3. ASSUME NEW c \in Configs, NEW r \in Recordings, ResumeRecording(r, c)
      PROVE  Numbered(attempts, stepsRun)'
  <2>1. attempts' \in {<< >>, FilterProgress(<< >>)}
    BY <1>3 DEF ResumeRecording, ResumeFrom, SeedRun
  <2>2. FilterProgress(<< >>) = << >>
    BY FilterEmpty DEF FilterProgress
  <2> QED BY <2>1, <2>2, NoneNumbered
<1>4. CASE Stop
  BY <1>0, <1>4 DEF Stop, learned
<1>5. CASE LoopEnds \/ ReadFails \/ PressKey \/ DelayOver \/ DelayStopped \/ Exit
  <2>1. UNCHANGED learned
    BY <1>5 DEF LoopEnds, ReadFails, PressKey, DelayOver, DelayStopped, Exit
  <2> QED BY <1>0, <2>1 DEF learned
<1>6. CASE PressFails \/ RefreshFails
  <2> DEFINE a == Attempt(NoScreen, TRUE)
  <2>1. PICK here \in {"press", "after"} : BookFailure(here)
    BY <1>6 DEF PressFails, RefreshFails
  <2>2. pc = here /\ attempts' = Appended(attempts, a) /\ stepsRun' = stepsRun
    BY <2>1 DEF BookFailure, Leave, AppendAttempt, Appended
  <2>3. a \in AttemptTypes /\ a.attempt = stepsRun + 1 /\ a.failed
    BY <1>0, <2>2, AttemptForm, Zenon DEF TypeInv
  <2> HIDE DEF a
  <2>4. Numbered(Appended(attempts, a), stepsRun)
    BY <1>0, <2>3, NumberedStep
  <2> QED BY <2>2, <2>4
<1>7. ASSUME NEW h \in Screens, ReadScreen(h) PROVE Numbered(attempts, stepsRun)'
  BY <1>0, <1>7 DEF ReadScreen, learned
<1>8. ASSUME NEW to \in Screens, RefreshScreen(to) PROVE Numbered(attempts, stepsRun)'
  <2> DEFINE a == Attempt(to, FALSE)
  <2>1. /\ pc = "after" /\ stepsRun' = stepsRun + 1
        /\ attempts' = attempts \/ attempts' = Appended(attempts, a)
    BY <1>8 DEF RefreshScreen, CountStep, AppendAttempt, Appended
  <2>2. a \in AttemptTypes /\ a.attempt = stepsRun + 1
    BY <1>0, <2>1, AttemptForm, Zenon DEF TypeInv
  <2> HIDE DEF a
  <2>3. Numbered(Appended(attempts, a), stepsRun + 1)
    BY <1>0, <2>2, NumberedStep
  <2>4. Numbered(attempts, stepsRun + 1)
    <3>1. ASSUME NEW i \in 1..Len(attempts)
          PROVE  attempts[i].attempt <= stepsRun + 1 + (IF attempts[i].failed THEN 1 ELSE 0)
      <4>1. attempts[i] \in AttemptTypes
        BY <1>0
      <4>2. attempts[i].attempt \in Nat
        BY <4>1 DEF AttemptTypes
      <4>3. attempts[i].attempt <= stepsRun + (IF attempts[i].failed THEN 1 ELSE 0)
        BY <1>0 DEF Numbered
      <4> QED BY <1>0, <4>2, <4>3
    <3> QED BY <1>0, <3>1 DEF Numbered
  <2> QED BY <2>1, <2>3, <2>4
<1>9. ASSUME NEW w \in unwritten, WriteOutput(w) PROVE Numbered(attempts, stepsRun)'
  BY <1>0, <1>9 DEF WriteOutput, learned
<1>10. CASE UNCHANGED vars
  BY <1>0, <1>10 DEF vars, learned
<1> QED BY <1>1, <1>2, <1>3, <1>4, <1>5, <1>6, <1>7, <1>8, <1>9, <1>10 DEF Next, Loop

(* The recent attempts are in the order of their numbers, however often    *)
(* runs fail and are resumed and whatever attempts a resumed run drops.    *)
THEOREM AttemptsAreNumbered == Spec => []AttemptNumbers
<1>1. Init => NumberInv
  <2> SUFFICES ASSUME Init PROVE NumberInv
    OBVIOUS
  <2>1. attempts = << >>
    BY DEF Init
  <2> QED BY <2>1, InitType, NoneNumbered DEF NumberInv
<1>2. NumberInv => AttemptNumbers
  <2> SUFFICES ASSUME NumberInv PROVE AttemptNumbers
    OBVIOUS
  <2> DEFINE n == Len(attempts)
  <2>1. n \in Nat /\ (attempts # << >> => n \in 1..n)
    BY DEF NumberInv, TypeInv, BookType
  <2>2. \A i, j \in 1..n : i < j => Ordered(attempts[i], attempts[j])
    BY DEF NumberInv, Numbered
  <2>3. \A i \in 1..n : attempts[i].attempt <= stepsRun + (IF attempts[i].failed THEN 1 ELSE 0)
    BY DEF NumberInv, Numbered
  <2> HIDE DEF n
  <2>4. \A i \in 1..(n - 1) : i \in 1..n /\ i + 1 \in 1..n /\ i < i + 1
    BY <2>1
  <2>5. \A i \in 1..(n - 1) : Ordered(attempts[i], attempts[i + 1])
    BY <2>2, <2>4
  <2> QED BY <2>1, <2>3, <2>5 DEF AttemptNumbers, Ordered, n
<1> QED BY <1>1, <1>2, NextNumbers, PTL DEF Spec

-----------------------------------------------------------------------------
(* What a step adds to the mind map                                        *)

(* A step that counts. *)
LEMMA StepMap ==
    ASSUME TypeInv, pc = "after", NEW to \in Screens, CountStep(to)
    PROVE  /\ from \in Screens /\ key \in Keys
           /\ mind'.areas = mind.areas \cup {from, to}
           /\ mind'.presses = Counted(mind.presses, from, key)
           /\ to = from => mind'.destinations = mind.destinations
           /\ to # from => mind'.destinations = LedTo(mind.destinations, from, key, to)
           /\ to = from => mind'.values = mind.values
           /\ to # from => mind'.values = LearnedAt(mind.values, from, writes)
<1> DEFINE a == Attempt(to, FALSE)
           seen1 == ObserveScreen(mind, from)
           seen == ObserveScreen(seen1, to)
<1>0. mind' = RecordAttempt(seen, a, writes)
  BY DEF CountStep
<1>1. /\ a.from = from /\ a.to = to /\ a.key = key
      /\ from \in Screens /\ from \in Areas /\ key \in Keys
      /\ a.from \in Areas /\ a.key \in Keys /\ a.transitioned \in BOOLEAN
      /\ a.transitioned => a.to \in Areas
      /\ a.transitioned <=> to # NoScreen /\ to # from
  BY AttemptForm, Zenon DEF TypeInv, BookType
<1>2. to \in Areas /\ to # NoScreen
  BY ScreensAssumption DEF Areas
<1>3. mind \in MindMap
  BY DEF TypeInv, BookType, WellFormed
<1>4. /\ seen1 \in MindMap /\ seen1.areas = mind.areas \cup {from}
      /\ seen1.presses = mind.presses /\ seen1.destinations = mind.destinations
      /\ seen1.values = mind.values
  BY <1>1, <1>3, ObserveParts
<1>5. /\ seen \in MindMap /\ seen.areas = seen1.areas \cup {to}
      /\ seen.presses = seen1.presses /\ seen.destinations = seen1.destinations
      /\ seen.values = seen1.values
  <2> HIDE DEF seen1
  <2> QED BY <1>2, <1>4, ObserveParts
<1>6. /\ WellFormed(mind, Known(transitions)) /\ Known(transitions) \in Knowledge
      /\ writes \in Seq(WriteTypes)
  BY KnownType DEF TypeInv, BookType, ControlType
<1>7. Learn(seen.values[a.from], writes) \in [FieldKeys -> Seq(Values)]
  <2>1. seen.values = mind.values
    BY <1>4, <1>5
  <2> HIDE DEF seen, a
  <2> QED BY <1>1, <1>6, <2>1, LearnType
<1> HIDE DEF a, seen1, seen
<1> DEFINE new == RecordAttempt(seen, a, writes)
<1>8. /\ new.areas = seen.areas
      /\ new.presses = Counted(seen.presses, a.from, a.key)
      /\ ~a.transitioned => new.destinations = seen.destinations
      /\ a.transitioned => new.destinations = LedTo(seen.destinations, a.from, a.key, a.to)
      /\ ~a.transitioned => new.values = seen.values
      /\ a.transitioned => new.values = LearnedAt(seen.values, a.from, writes)
  BY <1>1, <1>5, <1>7, RecordParts
<1> HIDE DEF new
<1>9. mind' = new
  BY <1>0 DEF new
<1>10. mind'.areas = mind.areas \cup {from, to}
  BY <1>4, <1>5, <1>8, <1>9
<1>11. mind'.presses = Counted(mind.presses, from, key)
  BY <1>1, <1>4, <1>5, <1>8, <1>9
<1>12. to = from => mind'.destinations = mind.destinations
  BY <1>1, <1>4, <1>5, <1>8, <1>9
<1>13. to # from => mind'.destinations = LedTo(mind.destinations, from, key, to)
  BY <1>1, <1>2, <1>4, <1>5, <1>8, <1>9
<1>14. /\ to = from => mind'.values = mind.values
       /\ to # from => mind'.values = LearnedAt(mind.values, from, writes)
  BY <1>1, <1>2, <1>4, <1>5, <1>8, <1>9
<1> QED BY <1>1, <1>10, <1>11, <1>12, <1>13, <1>14

(* A step that failed. *)
LEMMA FailureMap ==
    ASSUME TypeInv, NEW here \in {"press", "after"}, BookFailure(here)
    PROVE  /\ from \in Screens /\ key \in Keys
           /\ mind'.areas = mind.areas \cup {from}
           /\ mind'.presses = Counted(mind.presses, from, key)
           /\ mind'.destinations = mind.destinations
           /\ mind'.values = mind.values
<1> DEFINE a == Attempt(NoScreen, TRUE)
           seen == ObserveScreen(mind, from)
<1>0. pc = here /\ mind' = RecordAttempt(seen, a, writes)
  BY DEF BookFailure, Leave
<1>1. /\ a.from = from /\ a.key = key /\ ~a.transitioned
      /\ from \in Screens /\ from \in Areas /\ key \in Keys
      /\ a.from \in Areas /\ a.key \in Keys /\ a.transitioned \in BOOLEAN
  BY <1>0, AttemptForm, Zenon DEF TypeInv, BookType
<1>2. mind \in MindMap
  BY DEF TypeInv, BookType, WellFormed
<1>3. /\ seen \in MindMap /\ seen.areas = mind.areas \cup {from}
      /\ seen.presses = mind.presses /\ seen.destinations = mind.destinations
      /\ seen.values = mind.values
  BY <1>1, <1>2, ObserveParts
<1>4. /\ WellFormed(mind, Known(transitions)) /\ Known(transitions) \in Knowledge
      /\ writes \in Seq(WriteTypes)
  BY KnownType DEF TypeInv, BookType, ControlType
<1> HIDE DEF a, seen
<1>5. Learn(seen.values[a.from], writes) \in [FieldKeys -> Seq(Values)]
  BY <1>1, <1>3, <1>4, LearnType
<1> DEFINE new == RecordAttempt(seen, a, writes)
<1>6. /\ new.areas = seen.areas
      /\ new.presses = Counted(seen.presses, a.from, a.key)
      /\ new.destinations = seen.destinations
      /\ new.values = seen.values
  BY <1>1, <1>3, <1>5, RecordParts
<1> HIDE DEF new
<1>7. mind' = new
  BY <1>0 DEF new
<1> QED BY <1>1, <1>3, <1>6, <1>7

-----------------------------------------------------------------------------
(* What the mind map knows to work                                         *)

(* Where a value has worked one is known. *)
Remembered(values, ts) ==
    \A h \in Screens, fk \in FieldKeys :
        (\E v \in WorkedOn(ts, h, fk) : Size[v] > 0) => values[h][fk] # << >>

LearnedInv == TypeInv /\ Remembered(mind.values, transitions)

LEMMA NothingRemembered == \A values : Remembered(values, << >>)
BY DEF Remembered, WorkedOn

(* A value list of a screen, whatever worked there. *)
LEMMA ScreenList ==
    ASSUME TypeInv, NEW h \in Screens, NEW fk \in FieldKeys
    PROVE  /\ h \in Areas
           /\ mind.values[h][fk] \in ValueLists(WorkedOn(transitions, h, fk))
           /\ mind.values[h][fk] \in ValueLists(Values)
<1>1. h \in Areas
  BY DEF Areas
<1>2. mind.values[h][fk] \in ValueLists(WorkedOn(transitions, h, fk))
  BY <1>1, KnownType DEF TypeInv, BookType, WellFormed
<1>3. WorkedOn(transitions, h, fk) \subseteq Values
  BY DEF WorkedOn
<1> QED BY <1>1, <1>2, <1>3, WiderLists

LEMMA StepRemembers ==
    ASSUME LearnedInv, pc = "after", NEW to \in Screens, CountStep(to)
    PROVE  Remembered(mind'.values, transitions')
<1> DEFINE t == [from |-> from, to |-> to, steps |-> BatchSteps]
<1>1. /\ from \in Screens /\ key \in Keys
      /\ to = from => mind'.values = mind.values
      /\ to # from => mind'.values = LearnedAt(mind.values, from, writes)
  BY StepMap DEF LearnedInv
<1>2. /\ to = from => transitions' = transitions
      /\ to # from => transitions' = Append(transitions, t)
  BY ScreensAssumption DEF CountStep, Attempt
<1>3. writes \in Seq(WriteTypes) /\ transitions \in Seq(TransitionTypes)
  BY DEF LearnedInv, TypeInv, ControlType, BookType
<1>4. CASE to = from
  BY <1>1, <1>2, <1>4 DEF LearnedInv
<1>5. CASE to # from
  <2> SUFFICES ASSUME NEW h \in Screens, NEW fk \in FieldKeys,
                      NEW v \in WorkedOn(Append(transitions, t), h, fk), Size[v] > 0
               PROVE  LearnedAt(mind.values, from, writes)[h][fk] # << >>
    BY <1>1, <1>2, <1>5 DEF Remembered
  <2>1. /\ h \in Areas /\ from \in Areas /\ mind.values[h][fk] \in ValueLists(Values)
        /\ mind.values \in [Areas -> [FieldKeys -> Seq(Values)]]
    BY <1>1, ScreenList DEF LearnedInv, TypeInv, BookType, WellFormed, MindMap, Areas
  <2>2. LearnedAt(mind.values, from, writes)[h] =
            IF h = from THEN Learn(mind.values[from], writes) ELSE mind.values[h]
    BY <2>1 DEF LearnedAt
  <2>3. PICK i \in DOMAIN Append(transitions, t) :
            /\ Append(transitions, t)[i].from = h
            /\ \E s \in ToSet(Append(transitions, t)[i].steps) :
                  IsFill(s) /\ <<s.at, Size[s.text]>> = fk /\ Trimmed[s.text] = v
    BY DEF WorkedOn
  <2>4. t.from = from /\ t.steps = BatchSteps
    OBVIOUS
  <2>5. CASE i \in DOMAIN transitions
    <3>1. Append(transitions, t)[i] = transitions[i]
      BY <1>3, <2>5
    <3>2. v \in WorkedOn(transitions, h, fk)
      BY <2>3, <2>5, <3>1 DEF WorkedOn
    <3>3. mind.values[h][fk] # << >>
      BY <3>2 DEF LearnedInv, Remembered
    <3> QED BY <1>3, <2>1, <2>2, <3>3, LearnSome
  <2>6. CASE i \notin DOMAIN transitions
    <3>1. Append(transitions, t)[i] = t
      <4> HIDE DEF t
      <4> QED BY <1>3, <2>3, <2>6
    <3> HIDE DEF t
    <3>2. h = from
      BY <2>3, <2>4, <3>1
    <3>3. PICK s \in ToSet(BatchSteps) :
            IsFill(s) /\ <<s.at, Size[s.text]>> = fk /\ Trimmed[s.text] = v
      BY <2>3, <2>4, <3>1
    <3>4. PICK w \in ToSet(writes) : w.ok /\ w.at = s.at /\ w.text = s.text
      BY <1>1, <1>3, <3>3, BatchFillWritten
    <3>5. ~IsBlank(w.text)
      BY <3>3, <3>4 DEF IsBlank
    <3> QED BY <1>3, <2>1, <2>2, <3>2, <3>3, <3>4, <3>5, LearnSome
  <2> QED BY <2>5, <2>6
<1> QED BY <1>4, <1>5

LEMMA FailureRemembers ==
    ASSUME LearnedInv, NEW here \in {"press", "after"}, BookFailure(here)
    PROVE  Remembered(mind'.values, transitions')
<1>1. mind'.values = mind.values
  BY FailureMap DEF LearnedInv
<1>2. UNCHANGED transitions
  BY DEF BookFailure
<1> QED BY <1>1, <1>2 DEF LearnedInv, Remembered

LEMMA NextLearned == LearnedInv /\ [Next]_vars => LearnedInv'
<1> SUFFICES ASSUME LearnedInv, [Next]_vars
             PROVE  Remembered(mind'.values, transitions')
  BY NextType DEF LearnedInv, Remembered
<1>1. ASSUME NEW c \in Configs, Start(c)
      PROVE  Remembered(mind'.values, transitions')
  BY <1>1, NothingRemembered DEF Start
<1>2. ASSUME NEW c \in Configs, ResumeRun(c)
      PROVE  Remembered(mind'.values, transitions')
  BY <1>2 DEF ResumeRun, ResumeFrom, Snapshot, LearnedInv
<1>3. ASSUME NEW c \in Configs, NEW r \in Recordings, ResumeRecording(r, c)
      PROVE  Remembered(mind'.values, transitions')
  BY <1>3, NothingRemembered DEF ResumeRecording, ResumeFrom, SeedRun
<1>4. CASE UNCHANGED <<mind, transitions>>
  BY <1>4 DEF LearnedInv
<1>5. CASE LoopEnds \/ ReadFails \/ PressKey \/ DelayOver \/ DelayStopped \/ Exit
  BY <1>4, <1>5 DEF LoopEnds, ReadFails, PressKey, DelayOver, DelayStopped, Exit, learned
<1>6. CASE PressFails \/ RefreshFails
  BY <1>6, FailureRemembers DEF PressFails, RefreshFails
<1>7. ASSUME NEW h \in Screens, ReadScreen(h) \/ RefreshScreen(h)
      PROVE  Remembered(mind'.values, transitions')
  <2>1. CASE ReadScreen(h)
    BY <1>4, <2>1 DEF ReadScreen, learned
  <2>2. CASE RefreshScreen(h)
    BY <2>2, StepRemembers DEF RefreshScreen
  <2> QED BY <1>7, <2>1, <2>2
<1>8. CASE Stop \/ (\E w \in unwritten : WriteOutput(w)) \/ UNCHANGED vars
  BY <1>4, <1>8 DEF Stop, WriteOutput, vars, learned
<1> QED BY <1>1, <1>2, <1>3, <1>5, <1>6, <1>7, <1>8 DEF Next, Loop

(* Whatever a run and those it goes on from have learned for a field of a  *)
(* screen was typed there by a transition that left the screen: nothing    *)
(* comes from a write that failed, from a key that led nowhere, from       *)
(* another screen, an earlier run or a recording.  Where a value has       *)
(* worked, one is known, however many were evicted.                        *)
THEOREM LearnedValuesWorked == Spec => []KnownValuesWorked
<1>1. Init => LearnedInv
  <2> SUFFICES ASSUME Init PROVE LearnedInv
    OBVIOUS
  <2>1. transitions = << >>
    BY DEF Init
  <2> QED BY <2>1, InitType, NothingRemembered DEF LearnedInv
<1>2. LearnedInv => KnownValuesWorked
  <2> SUFFICES ASSUME LearnedInv, NEW h \in Screens, NEW fk \in FieldKeys
               PROVE  /\ ToSet(mind.values[h][fk]) \subseteq WorkedOn(transitions, h, fk)
                      /\ (\E v \in WorkedOn(transitions, h, fk) : Size[v] > 0)
                            => mind.values[h][fk] # << >>
    BY DEF KnownValuesWorked
  <2>1. mind.values[h][fk] \in Seq(WorkedOn(transitions, h, fk))
    BY ScreenList DEF LearnedInv, ValueLists
  <2>2. ToSet(mind.values[h][fk]) \subseteq WorkedOn(transitions, h, fk)
    BY <2>1 DEF ToSet
  <2> QED BY <2>2 DEF LearnedInv, Remembered
<1> QED BY <1>1, <1>2, NextLearned, PTL DEF Spec

-----------------------------------------------------------------------------
(* What the mind map covers                                                *)

(* How often each key led from h to g. *)
Column(led, h, g) == [k \in Keys |-> led[h][k][g]]

LEMMA ColumnType ==
    ASSUME NEW led \in [Areas -> [Keys -> [Areas -> Nat]]], NEW h \in Areas, NEW g \in Areas
    PROVE  Column(led, h, g) \in [Keys -> Nat]
<1>1. ASSUME NEW k \in Keys PROVE led[h][k][g] \in Nat
  <2>1. led[h] \in [Keys -> [Areas -> Nat]]
    OBVIOUS
  <2>2. led[h][k] \in [Areas -> Nat]
    BY <2>1
  <2> QED BY <2>2
<1> QED BY <1>1 DEF Column

(* One more transition from a to to. *)
MoreBetween(new, led, a, to) ==
    \A h, g \in Areas :
        SumFunction(Column(new, h, g)) =
            IF h = a /\ g = to THEN SumFunction(Column(led, h, g)) + 1
            ELSE SumFunction(Column(led, h, g))

LEMMA ColumnMore ==
    ASSUME NEW led \in [Areas -> [Keys -> [Areas -> Nat]]], NEW a \in Areas, NEW k \in Keys,
           NEW to \in Areas
    PROVE  MoreBetween(LedTo(led, a, k, to), led, a, to)
<1> SUFFICES ASSUME NEW h \in Areas, NEW g \in Areas
             PROVE  SumFunction(Column(LedTo(led, a, k, to), h, g)) =
                        IF h = a /\ g = to THEN SumFunction(Column(led, h, g)) + 1
                        ELSE SumFunction(Column(led, h, g))
  BY DEF MoreBetween
<1> DEFINE new == LedTo(led, a, k, to)
           col == Column(led, h, g)
<1>1. MoreLed(new, led, a, k, to)
  BY LedOnce
<1>2. col \in [Keys -> Nat]
  BY ColumnType
<1> HIDE DEF new, col
<1>3. \A j \in Keys : col[j] = led[h][j][g]
  BY DEF col, Column
<1>4. ASSUME NEW j \in Keys
      PROVE  new[h][j][g] = IF h = a /\ j = k /\ g = to THEN col[j] + 1 ELSE col[j]
  <2>1. led[h][j] \in [Areas -> Nat] /\ col[j] = led[h][j][g]
    BY <1>1, <1>3 DEF MoreLed
  <2>2. CASE h = a /\ j = k
    <3>1. new[h][j] = OneMore(led[h][j], to)
      BY <1>1, <2>2 DEF MoreLed
    <3> DEFINE cell == led[h][j]
    <3>2. OneMore(cell, to)[g] = IF g = to THEN cell[g] + 1 ELSE cell[g]
      <4>1. cell \in [Areas -> Nat]
        BY <2>1
      <4> HIDE DEF cell
      <4> QED BY <4>1 DEF OneMore
    <3> QED BY <2>1, <2>2, <3>1, <3>2
  <2>3. CASE h # a \/ j # k
    <3>1. new[h][j] = led[h][j]
      BY <1>1, <2>3 DEF MoreLed
    <3> QED BY <2>1, <2>3, <3>1
  <2> QED BY <2>2, <2>3
<1>5. CASE h = a /\ g = to
  <2>1. Column(new, h, g) = [col EXCEPT ![k] = @ + 1]
    BY <1>2, <1>4, <1>5 DEF Column
  <2>2. SumFunction([col EXCEPT ![k] = @ + 1]) = SumFunction(col) + 1
    BY <1>2, FiniteAssumption, SumIncrement
  <2>3. SumFunction(Column(new, h, g)) = SumFunction(col) + 1
    BY <2>1, <2>2
  <2> QED BY <1>5, <2>3 DEF col, new
<1>6. CASE ~(h = a /\ g = to)
  <2>1. Column(new, h, g) = col
    BY <1>2, <1>4, <1>6 DEF Column
  <2> QED BY <1>6, <2>1 DEF col, new
<1> QED BY <1>5, <1>6

Between(h, g) == {t \in TransitionTypes : t.from = h /\ t.to = g}

(* The transitions between two screens are what their keys led to. *)
Covers(map, ts) ==
    \A h, g \in Screens :
        Cardinality(PlacesOf(ts, Between(h, g))) = SumFunction(Column(map.destinations, h, g))

LEMMA CoversNothing ==
    ASSUME NEW map, map.destinations \in [Areas -> [Keys -> [Areas -> Nat]]],
           \A h \in Screens, k \in Keys, g \in Screens : map.destinations[h][k][g] = 0
    PROVE  Covers(map, << >>)
<1> SUFFICES ASSUME NEW h \in Screens, NEW g \in Screens
             PROVE  Cardinality(PlacesOf(<< >>, Between(h, g)))
                        = SumFunction(Column(map.destinations, h, g))
  BY DEF Covers
<1> DEFINE col == Column(map.destinations, h, g)
<1>1. h \in Areas /\ g \in Areas
  BY DEF Areas
<1>2. col \in [Keys -> Nat]
  BY <1>1, ColumnType
<1>3. \A k \in Keys : col[k] = 0
  BY DEF Column
<1> HIDE DEF col
<1>4. SumFunction(col) = 0
  BY <1>2, <1>3, FiniteAssumption, SumOfZeros
<1> QED BY <1>4, PlacesEmpty DEF col

LEMMA EmptyCoversNothing == Covers(EmptyMap, << >>)
<1>1. EmptyMap.destinations \in [Areas -> [Keys -> [Areas -> Nat]]]
  BY EmptyWellFormed, KnownType DEF WellFormed, MindMap
<1>2. ASSUME NEW h \in Screens, NEW k \in Keys, NEW g \in Screens
      PROVE  EmptyMap.destinations[h][k][g] = 0
  <2>1. h \in Areas /\ g \in Areas
    BY DEF Areas
  <2> QED BY <2>1 DEF EmptyMap
<1> QED BY <1>1, <1>2, CoversNothing

LEMMA SeedCoversNothing ==
    ASSUME NEW r \in Recordings
    PROVE  Covers(SeedMap(r), << >>)
<1>1. SeedMap(r).destinations \in [Areas -> [Keys -> [Areas -> Nat]]]
  BY SeedWellFormed DEF WellFormed, MindMap
<1>2. ASSUME NEW h \in Screens, NEW k \in Keys, NEW g \in Screens
      PROVE  SeedMap(r).destinations[h][k][g] = 0
  <2>1. h \in Areas /\ g \in Areas /\ h \notin Nat
    BY ScreensAssumption DEF Areas
  <2>2. \A i \in DOMAIN r : AreaAt(r, i) # h
    BY <2>1, SeedAreas
  <2>3. SeedPresses(r, h, k) = {}
    BY <2>2 DEF SeedPresses, SeedUses
  <2>4. {i \in SeedPresses(r, h, k) : AreaAt(r, i) + 1 = g} = {}
    BY <2>3
  <2>5. SeedMap(r).destinations[h][k][g] =
            Cardinality({i \in SeedPresses(r, h, k) : AreaAt(r, i) + 1 = g})
    BY <2>1 DEF SeedMap
  <2> QED BY <2>4, <2>5, FS_EmptySet
<1> QED BY <1>1, <1>2, CoversNothing

CoverInv ==
    /\ TypeInv
    /\ hashes \subseteq mind.areas
    /\ Covers(mind, transitions)

LEMMA StepCovers ==
    ASSUME CoverInv, pc = "after", NEW to \in Screens, CountStep(to)
    PROVE  hashes' \subseteq mind'.areas /\ Covers(mind', transitions')
<1> DEFINE t == [from |-> from, to |-> to, steps |-> BatchSteps]
           led == mind.destinations
           newLed == LedTo(led, from, key, to)
<1>1. /\ from \in Screens /\ key \in Keys
      /\ mind'.areas = mind.areas \cup {from, to}
      /\ to = from => mind'.destinations = led
      /\ to # from => mind'.destinations = newLed
  BY StepMap DEF CoverInv
<1>2. /\ hashes' = hashes \cup {from, to}
      /\ to = from => transitions' = transitions
      /\ to # from => transitions' = Append(transitions, t)
  BY ScreensAssumption DEF CountStep, Attempt
<1>3. hashes' \subseteq mind'.areas
  BY <1>1, <1>2 DEF CoverInv
<1>4. CASE to = from
  BY <1>1, <1>2, <1>3, <1>4 DEF CoverInv, Covers
<1>5. CASE to # from
  <2>1. led \in [Areas -> [Keys -> [Areas -> Nat]]]
    BY DEF CoverInv, TypeInv, BookType, WellFormed, MindMap
  <2>2. transitions \in Seq(TransitionTypes) /\ t \in TransitionTypes
    <3>1. BatchSteps \in Seq(StepTypes)
      BY <1>1, BatchForm DEF CoverInv, TypeInv, ControlType
    <3>2. t \in TransitionTypes
      BY <1>1, <3>1 DEF TransitionTypes
    <3> QED BY <3>2 DEF CoverInv, TypeInv, BookType
  <2>3. t.from = from /\ t.to = to
    OBVIOUS
  <2> HIDE DEF t, led
  <2>4. from \in Areas /\ to \in Areas
    BY <1>1 DEF Areas
  <2>5. MoreBetween(newLed, led, from, to)
    BY <1>1, <2>1, <2>4, ColumnMore
  <2> HIDE DEF newLed
  <2>6. ASSUME NEW h \in Screens, NEW g \in Screens
        PROVE  Cardinality(PlacesOf(Append(transitions, t), Between(h, g)))
                  = SumFunction(Column(newLed, h, g))
    <3>1. h \in Areas /\ g \in Areas
      BY DEF Areas
    <3>2. SumFunction(Column(newLed, h, g)) =
              IF h = from /\ g = to THEN SumFunction(Column(led, h, g)) + 1
              ELSE SumFunction(Column(led, h, g))
      BY <2>5, <3>1 DEF MoreBetween
    <3>3. t \in Between(h, g) <=> h = from /\ g = to
      BY <2>2, <2>3 DEF Between
    <3>4. Cardinality(PlacesOf(Append(transitions, t), Between(h, g))) =
              IF t \in Between(h, g) THEN Cardinality(PlacesOf(transitions, Between(h, g))) + 1
              ELSE Cardinality(PlacesOf(transitions, Between(h, g)))
      BY <2>2, PlacesAppend
    <3>5. Cardinality(PlacesOf(transitions, Between(h, g))) = SumFunction(Column(led, h, g))
      BY DEF CoverInv, Covers, led
    <3> QED BY <3>2, <3>3, <3>4, <3>5
  <2>7. Covers(mind', transitions')
    BY <1>1, <1>2, <1>5, <2>6 DEF Covers
  <2> QED BY <1>3, <2>7
<1> QED BY <1>4, <1>5

LEMMA FailureCovers ==
    ASSUME CoverInv, NEW here \in {"press", "after"}, BookFailure(here)
    PROVE  hashes' \subseteq mind'.areas /\ Covers(mind', transitions')
<1>1. mind'.areas = mind.areas \cup {from} /\ mind'.destinations = mind.destinations
  BY FailureMap DEF CoverInv
<1>2. UNCHANGED <<transitions, hashes>>
  BY DEF BookFailure
<1> QED BY <1>1, <1>2 DEF CoverInv, Covers

LEMMA NextCovers == CoverInv /\ [Next]_vars => CoverInv'
<1> SUFFICES ASSUME CoverInv, [Next]_vars
             PROVE  hashes' \subseteq mind'.areas /\ Covers(mind', transitions')
  BY NextType DEF CoverInv
<1>1. ASSUME NEW c \in Configs, Start(c)
      PROVE  hashes' \subseteq mind'.areas /\ Covers(mind', transitions')
  <2>1. hashes' = {} /\ mind' = EmptyMap /\ transitions' = << >>
    BY <1>1 DEF Start
  <2> QED BY <2>1, EmptyCoversNothing
<1>2. ASSUME NEW c \in Configs, ResumeRun(c)
      PROVE  hashes' \subseteq mind'.areas /\ Covers(mind', transitions')
  BY <1>2 DEF ResumeRun, ResumeFrom, Snapshot, CoverInv
<1>3. ASSUME NEW c \in Configs, NEW r \in Recordings, ResumeRecording(r, c)
      PROVE  hashes' \subseteq mind'.areas /\ Covers(mind', transitions')
  <2>1. hashes' = {} /\ mind' = SeedMap(r) /\ transitions' = << >>
    BY <1>3 DEF ResumeRecording, ResumeFrom, SeedRun
  <2> QED BY <2>1, SeedCoversNothing
<1>4. CASE UNCHANGED <<hashes, mind, transitions>>
  BY <1>4 DEF CoverInv
<1>5. CASE LoopEnds \/ ReadFails \/ PressKey \/ DelayOver \/ DelayStopped \/ Exit
  BY <1>4, <1>5 DEF LoopEnds, ReadFails, PressKey, DelayOver, DelayStopped, Exit, learned
<1>6. CASE PressFails \/ RefreshFails
  BY <1>6, FailureCovers DEF PressFails, RefreshFails
<1>7. ASSUME NEW h \in Screens, ReadScreen(h) \/ RefreshScreen(h)
      PROVE  hashes' \subseteq mind'.areas /\ Covers(mind', transitions')
  <2>1. CASE ReadScreen(h)
    BY <1>4, <2>1 DEF ReadScreen, learned
  <2>2. CASE RefreshScreen(h)
    BY <2>2, StepCovers DEF RefreshScreen
  <2> QED BY <1>7, <2>1, <2>2
<1>8. CASE Stop \/ (\E w \in unwritten : WriteOutput(w)) \/ UNCHANGED vars
  BY <1>4, <1>8 DEF Stop, WriteOutput, vars, learned
<1> QED BY <1>1, <1>2, <1>3, <1>5, <1>6, <1>7, <1>8 DEF Next, Loop

(* The mind map covers what the run has seen, of every screen, transition  *)
(* and key, across failures, resumptions and seeding.                      *)
THEOREM MapCovers == Spec => []MapCoversRun
<1>1. Init => CoverInv
  <2> SUFFICES ASSUME Init PROVE CoverInv
    OBVIOUS
  <2>1. hashes = {} /\ mind = EmptyMap /\ transitions = << >>
    BY DEF Init
  <2> QED BY <2>1, InitType, EmptyCoversNothing DEF CoverInv
<1>2. CoverInv => MapCoversRun
  <2> SUFFICES ASSUME CoverInv PROVE MapCoversRun
    OBVIOUS
  <2>1. ASSUME NEW h \in Screens, NEW g \in Screens
        PROVE  Quantify(DOMAIN transitions,
                        LAMBDA i : transitions[i].from = h /\ transitions[i].to = g)
                 = SumFunction([k \in Keys |-> mind.destinations[h][k][g]])
    <3>1. transitions \in Seq(TransitionTypes)
      BY DEF CoverInv, TypeInv, BookType
    <3>2. DOMAIN transitions = 1..Len(transitions)
      BY <3>1
    <3>3. \A i \in 1..Len(transitions) : transitions[i] \in TransitionTypes
      BY <3>1
    <3>4. {i \in DOMAIN transitions : transitions[i].from = h /\ transitions[i].to = g}
            = PlacesOf(transitions, Between(h, g))
      BY <3>2, <3>3 DEF PlacesOf, Between
    <3>5. Quantify(DOMAIN transitions,
                   LAMBDA i : transitions[i].from = h /\ transitions[i].to = g)
            = Cardinality(PlacesOf(transitions, Between(h, g)))
      BY <3>4 DEF Quantify
    <3>6. Column(mind.destinations, h, g) = [k \in Keys |-> mind.destinations[h][k][g]]
      BY DEF Column
    <3>7. Cardinality(PlacesOf(transitions, Between(h, g)))
            = SumFunction(Column(mind.destinations, h, g))
      BY DEF CoverInv, Covers
    <3> QED BY <3>5, <3>6, <3>7
  <2>2. WellFormed(mind, Known(transitions))
    BY DEF CoverInv, TypeInv, BookType
  <2>3. ASSUME NEW a \in Areas, NEW k \in Keys
        PROVE  /\ mind.progressions[a][k] = SumFunction(mind.destinations[a][k])
               /\ mind.progressions[a][k] <= mind.presses[a][k]
    BY <2>2 DEF WellFormed, AddUp
  <2> QED BY <2>1, <2>3 DEF CoverInv, MapCoversRun
<1> QED BY <1>1, <1>2, NextCovers, PTL DEF Spec

-----------------------------------------------------------------------------
(* The counters                                                            *)

PressColumn(presses, k) == [h \in Screens |-> presses[h][k]]
Pressed(presses, k) == SumFunction(PressColumn(presses, k))
PressedRow(presses) == [k \in Keys |-> Pressed(presses, k)]

(* The key counters and the steps the run has found itself. *)
CountedRow(counts, k) == [j \in ExportedAs(k) |-> counts[j]]
Exports(own, k) == Cardinality(PlacesOf(own, {Press(ExportedStep(k))}))
Tallied(counts, own) == \A k \in Keys : SumFunction(CountedRow(counts, k)) = Exports(own, k)

(* The counters and the mind map. *)
Booked(run, fails, counts, presses) ==
    /\ run = SumFunction(counts)
    /\ run + fails = SumFunction(PressedRow(presses))
    /\ \A k \in Keys : Pressed(presses, k) >= counts[k]

LEMMA PressedType ==
    ASSUME NEW presses \in [Areas -> [Keys -> Nat]]
    PROVE  /\ \A k \in Keys : /\ PressColumn(presses, k) \in [Screens -> Nat]
                              /\ Pressed(presses, k) \in Nat
           /\ PressedRow(presses) \in [Keys -> Nat]
           /\ SumFunction(PressedRow(presses)) \in Nat
<1>1. ASSUME NEW k \in Keys
      PROVE  PressColumn(presses, k) \in [Screens -> Nat] /\ Pressed(presses, k) \in Nat
  <2> DEFINE col == PressColumn(presses, k)
  <2>1. ASSUME NEW h \in Screens PROVE presses[h][k] \in Nat
    <3>1. h \in Areas
      BY DEF Areas
    <3>2. presses[h] \in [Keys -> Nat]
      BY <3>1
    <3> QED BY <3>2
  <2>2. col \in [Screens -> Nat]
    BY <2>1 DEF PressColumn
  <2> HIDE DEF col
  <2>3. SumFunction(col) \in Nat
    BY <2>2, FiniteAssumption, SumType
  <2> QED BY <2>2, <2>3 DEF col, Pressed
<1> DEFINE row == PressedRow(presses)
<1>2. row \in [Keys -> Nat]
  BY <1>1 DEF PressedRow
<1> HIDE DEF row
<1>3. SumFunction(row) \in Nat
  BY <1>2, FiniteAssumption, SumType
<1> QED BY <1>1, <1>2, <1>3 DEF row

(* One more press of k. *)
MorePressed(more, presses, k) ==
    /\ \A j \in Keys : Pressed(more, j) = IF j = k THEN Pressed(presses, j) + 1 ELSE Pressed(presses, j)
    /\ SumFunction(PressedRow(more)) = SumFunction(PressedRow(presses)) + 1

LEMMA PressedOnce ==
    ASSUME NEW presses \in [Areas -> [Keys -> Nat]], NEW a \in Screens, NEW k \in Keys
    PROVE  MorePressed(Counted(presses, a, k), presses, k)
<1> DEFINE more == Counted(presses, a, k)
<1>1. a \in Areas /\ Screens \subseteq Areas
  BY DEF Areas
<1>2. MoreAt(more, presses, a, k)
  BY <1>1, CountedOnce
<1> HIDE DEF more
<1>3. ASSUME NEW j \in Keys
      PROVE  Pressed(more, j) = IF j = k THEN Pressed(presses, j) + 1 ELSE Pressed(presses, j)
  <2> DEFINE col == PressColumn(presses, j)
             new == PressColumn(more, j)
  <2>1. col \in [Screens -> Nat]
    BY PressedType
  <2>2. /\ col = [h \in Screens |-> presses[h][j]] /\ new = [h \in Screens |-> more[h][j]]
        /\ \A h \in Screens : col[h] = presses[h][j] /\ new[h] = more[h][j]
    BY DEF PressColumn
  <2> HIDE DEF col, new
  <2>3. CASE j = k
    <3>1. \A h \in Screens : new[h] = IF h = a THEN col[h] + 1 ELSE col[h]
      BY <1>1, <1>2, <2>2, <2>3 DEF MoreAt
    <3>2. new = [col EXCEPT ![a] = @ + 1]
      BY <2>1, <2>2, <3>1
    <3>3. SumFunction([col EXCEPT ![a] = @ + 1]) = SumFunction(col) + 1
      BY <2>1, FiniteAssumption, SumIncrement
    <3>4. SumFunction(new) = SumFunction(col) + 1
      BY <3>2, <3>3
    <3> QED BY <2>3, <3>4 DEF Pressed, col, new
  <2>4. CASE j # k
    <3>1. \A h \in Screens : new[h] = col[h]
      BY <1>1, <1>2, <2>2, <2>4 DEF MoreAt
    <3>2. new = col
      BY <2>1, <2>2, <3>1
    <3> QED BY <2>4, <3>2 DEF Pressed, col, new
  <2> QED BY <2>3, <2>4
<1>4. SumFunction(PressedRow(more)) = SumFunction(PressedRow(presses)) + 1
  <2> DEFINE row == PressedRow(presses)
             new == PressedRow(more)
  <2>1. row \in [Keys -> Nat]
    BY PressedType
  <2>2. /\ new = [j \in Keys |-> Pressed(more, j)]
        /\ \A j \in Keys : row[j] = Pressed(presses, j) /\ new[j] = Pressed(more, j)
    BY DEF PressedRow
  <2> HIDE DEF row, new
  <2>3. \A j \in Keys : new[j] = IF j = k THEN row[j] + 1 ELSE row[j]
    BY <1>3, <2>2
  <2>4. new = [row EXCEPT ![k] = @ + 1]
    BY <2>1, <2>2, <2>3
  <2>5. SumFunction([row EXCEPT ![k] = @ + 1]) = SumFunction(row) + 1
    BY <2>1, FiniteAssumption, SumIncrement
  <2>6. SumFunction(new) = SumFunction(row) + 1
    BY <2>4, <2>5
  <2> QED BY <2>6 DEF row, new
<1> QED BY <1>3, <1>4 DEF MorePressed, more

LEMMA BookedStep ==
    ASSUME NEW run \in Nat, NEW fails \in Nat, NEW counts \in [Keys -> Nat],
           NEW presses \in [Areas -> [Keys -> Nat]], NEW a \in Screens, NEW k \in Keys,
           Booked(run, fails, counts, presses)
    PROVE  Booked(run + 1, fails, OneMore(counts, k), Counted(presses, a, k))
<1> DEFINE more == Counted(presses, a, k)
           next == OneMore(counts, k)
<1>1. MorePressed(more, presses, k)
  BY PressedOnce
<1>2. \A j \in Keys : Pressed(presses, j) \in Nat
  BY PressedType
<1>3. \A j \in Keys : next[j] = IF j = k THEN counts[j] + 1 ELSE counts[j]
  BY DEF OneMore
<1>4. SumFunction(next) = SumFunction(counts) + 1
  BY FiniteAssumption, SumIncrement DEF OneMore
<1>5. SumFunction(PressedRow(presses)) \in Nat
  BY PressedType
<1> HIDE DEF more, next
<1>6. run + 1 = SumFunction(next)
  BY <1>4 DEF Booked
<1>7. run + 1 + fails = SumFunction(PressedRow(more))
  BY <1>1, <1>5 DEF Booked, MorePressed
<1>8. \A j \in Keys : Pressed(more, j) >= next[j]
  BY <1>1, <1>2, <1>3 DEF Booked, MorePressed
<1> QED BY <1>6, <1>7, <1>8 DEF Booked, more, next

LEMMA BookedFailure ==
    ASSUME NEW run \in Nat, NEW fails \in Nat, NEW counts \in [Keys -> Nat],
           NEW presses \in [Areas -> [Keys -> Nat]], NEW a \in Screens, NEW k \in Keys,
           Booked(run, fails, counts, presses)
    PROVE  Booked(run, fails + 1, counts, Counted(presses, a, k))
<1> DEFINE more == Counted(presses, a, k)
<1>1. MorePressed(more, presses, k)
  BY PressedOnce
<1>2. \A j \in Keys : Pressed(presses, j) \in Nat
  BY PressedType
<1>3. SumFunction(PressedRow(presses)) \in Nat
  BY PressedType
<1> HIDE DEF more
<1>4. run + (fails + 1) = SumFunction(PressedRow(more))
  BY <1>1, <1>3 DEF Booked, MorePressed
<1>5. \A j \in Keys : Pressed(more, j) >= counts[j]
  BY <1>1, <1>2 DEF Booked, MorePressed
<1> QED BY <1>4, <1>5 DEF Booked, more

NoCounts == [k \in Keys |-> 0]

LEMMA NothingBooked ==
    ASSUME NEW presses \in [Areas -> [Keys -> Nat]],
           \A h \in Screens, k \in Keys : presses[h][k] = 0
    PROVE  Booked(0, 0, NoCounts, presses)
<1> DEFINE row == PressedRow(presses)
<1>1. ASSUME NEW k \in Keys PROVE Pressed(presses, k) = 0
  <2> DEFINE col == PressColumn(presses, k)
  <2>1. col \in [Screens -> Nat]
    BY PressedType
  <2>2. \A h \in Screens : col[h] = 0
    BY DEF PressColumn
  <2> HIDE DEF col
  <2>3. SumFunction(col) = 0
    BY <2>1, <2>2, FiniteAssumption, SumOfZeros
  <2> QED BY <2>3 DEF Pressed, col
<1>2. row \in [Keys -> Nat]
  BY PressedType
<1>3. \A k \in Keys : row[k] = 0
  BY <1>1 DEF PressedRow
<1> HIDE DEF row
<1>4. SumFunction(row) = 0
  BY <1>2, <1>3, FiniteAssumption, SumOfZeros
<1>5. NoCounts \in [Keys -> Nat] /\ \A k \in Keys : NoCounts[k] = 0
  BY DEF NoCounts
<1>6. SumFunction(NoCounts) = 0
  BY <1>5, FiniteAssumption, SumOfZeros
<1> QED BY <1>1, <1>4, <1>5, <1>6 DEF Booked, row

LEMMA TalliedStep ==
    ASSUME NEW counts \in [Keys -> Nat], NEW own \in Seq(StepTypes), Tallied(counts, own),
           NEW k \in Keys, NEW batch \in Seq(StepTypes), Len(batch) > 0,
           batch[Len(batch)] = Press(ExportedStep(k)),
           \A i \in 1..(Len(batch) - 1) : IsFill(batch[i])
    PROVE  Tallied(OneMore(counts, k), own \o batch)
<1> SUFFICES ASSUME NEW j \in Keys
             PROVE  SumFunction(CountedRow(OneMore(counts, k), j)) = Exports(own \o batch, j)
  BY DEF Tallied
<1> DEFINE S == {Press(ExportedStep(j))}
           row == CountedRow(counts, j)
           new == CountedRow(OneMore(counts, k), j)
<1>1. \A i \in 1..(Len(batch) - 1) : batch[i] \notin S
  <2>1. ~IsFill(Press(ExportedStep(j)))
    BY ExportedType DEF Press
  <2> QED BY <2>1
<1>2. batch[Len(batch)] \in S <=> k \in ExportedAs(j)
  BY DEF ExportedAs, Press
<1>3. IsFiniteSet(ExportedAs(j)) /\ ExportedAs(j) \subseteq Keys
  BY FiniteAssumption, FS_Subset DEF ExportedAs
<1>4. row \in [ExportedAs(j) -> Nat]
  BY <1>3 DEF CountedRow
<1>5. /\ new = [i \in ExportedAs(j) |-> OneMore(counts, k)[i]]
      /\ \A i \in ExportedAs(j) : row[i] = counts[i]
  BY DEF CountedRow
<1>6. \A i \in Keys : OneMore(counts, k)[i] = IF i = k THEN counts[i] + 1 ELSE counts[i]
  BY DEF OneMore
<1>7. SumFunction(row) = Exports(own, j) /\ Exports(own, j) = Cardinality(PlacesOf(own, S))
  BY DEF Tallied, Exports
<1>8. Exports(own \o batch, j) = Cardinality(PlacesOf(own \o batch, S))
  BY DEF Exports
<1> HIDE DEF S, row, new
<1>9. CASE k \in ExportedAs(j)
  <2>1. Cardinality(PlacesOf(own \o batch, S)) = Cardinality(PlacesOf(own, S)) + 1
    BY <1>1, <1>2, <1>9, PlacesConcat
  <2>2. new = [row EXCEPT ![k] = @ + 1]
    BY <1>3, <1>4, <1>5, <1>6, <1>9
  <2>3. SumFunction([row EXCEPT ![k] = @ + 1]) = SumFunction(row) + 1
    BY <1>3, <1>4, <1>9, SumIncrement
  <2>4. SumFunction(new) = SumFunction(row) + 1
    BY <2>2, <2>3
  <2> QED BY <1>7, <1>8, <2>1, <2>4 DEF new
<1>10. CASE k \notin ExportedAs(j)
  <2>1. Cardinality(PlacesOf(own \o batch, S)) = Cardinality(PlacesOf(own, S))
    BY <1>1, <1>2, <1>10, PlacesConcat
  <2>2. new = row
    BY <1>3, <1>4, <1>5, <1>6, <1>10
  <2> QED BY <1>7, <1>8, <2>1, <2>2 DEF new
<1> QED BY <1>9, <1>10

LEMMA NothingTallied == Tallied(NoCounts, << >>)
<1> SUFFICES ASSUME NEW k \in Keys
             PROVE  SumFunction(CountedRow(NoCounts, k)) = Exports(<< >>, k)
  BY DEF Tallied
<1> DEFINE row == CountedRow(NoCounts, k)
<1>1. IsFiniteSet(ExportedAs(k)) /\ ExportedAs(k) \subseteq Keys
  BY FiniteAssumption, FS_Subset DEF ExportedAs
<1>2. row \in [ExportedAs(k) -> Nat] /\ \A j \in ExportedAs(k) : row[j] = 0
  BY <1>1 DEF CountedRow, NoCounts
<1> HIDE DEF row
<1>3. SumFunction(row) = 0
  BY <1>1, <1>2, SumOfZeros
<1> QED BY <1>3, PlacesEmpty DEF row, Exports

CountInv ==
    /\ TypeInv
    /\ seeded <= Len(steps)
    /\ Tallied(keyCounts, OwnSteps)
    /\ Booked(stepsRun, failures, keyCounts, mind.presses)

LEMMA NoPresses ==
    /\ EmptyMap.presses \in [Areas -> [Keys -> Nat]]
    /\ \A h \in Screens, k \in Keys : EmptyMap.presses[h][k] = 0
<1>1. EmptyMap.presses \in [Areas -> [Keys -> Nat]]
  BY EmptyWellFormed, KnownType DEF WellFormed, MindMap
<1>2. ASSUME NEW h \in Screens, NEW k \in Keys PROVE EmptyMap.presses[h][k] = 0
  <2>1. h \in Areas
    BY DEF Areas
  <2> QED BY <2>1 DEF EmptyMap
<1> QED BY <1>1, <1>2

LEMMA SeedNoPresses ==
    ASSUME NEW r \in Recordings
    PROVE  /\ SeedMap(r).presses \in [Areas -> [Keys -> Nat]]
           /\ \A h \in Screens, k \in Keys : SeedMap(r).presses[h][k] = 0
<1>1. SeedMap(r).presses \in [Areas -> [Keys -> Nat]]
  BY SeedWellFormed DEF WellFormed, MindMap
<1>2. ASSUME NEW h \in Screens, NEW k \in Keys PROVE SeedMap(r).presses[h][k] = 0
  <2>1. h \in Areas /\ h \notin Nat
    BY ScreensAssumption DEF Areas
  <2>2. \A i \in DOMAIN r : AreaAt(r, i) # h
    BY <2>1, SeedAreas
  <2>3. SeedPresses(r, h, k) = {}
    BY <2>2 DEF SeedPresses, SeedUses
  <2>4. SeedMap(r).presses[h][k] = Cardinality(SeedPresses(r, h, k))
    BY <2>1 DEF SeedMap
  <2> QED BY <2>3, <2>4, FS_EmptySet
<1> QED BY <1>1, <1>2

(* A new run has no steps of its own, and what it adds is its own. *)
LEMMA NoOwnSteps ==
    ASSUME NEW T, NEW seq \in Seq(T)
    PROVE  SubSeq(seq, Len(seq) + 1, Len(seq)) = << >>
OBVIOUS

LEMMA OwnGrows ==
    ASSUME NEW T, NEW seq \in Seq(T), NEW more \in Seq(T), NEW n \in Nat, n <= Len(seq)
    PROVE  /\ SubSeq(seq, n + 1, Len(seq)) \in Seq(T)
           /\ SubSeq(seq \o more, n + 1, Len(seq \o more)) = SubSeq(seq, n + 1, Len(seq)) \o more
           /\ n <= Len(seq \o more)
<1> DEFINE m == Len(seq)
           k == Len(more)
           left == SubSeq(seq \o more, n + 1, Len(seq \o more))
           right == SubSeq(seq, n + 1, Len(seq)) \o more
<1>1. m \in Nat /\ k \in Nat /\ seq \o more \in Seq(T) /\ Len(seq \o more) = m + k
  OBVIOUS
<1>2. SubSeq(seq, n + 1, Len(seq)) \in Seq(T) /\ Len(SubSeq(seq, n + 1, Len(seq))) = m - n
  OBVIOUS
<1>3. left \in Seq(T) /\ Len(left) = (m + k) - n
  BY <1>1
<1>4. right \in Seq(T) /\ Len(right) = (m + k) - n
  BY <1>1, <1>2
<1>5. ASSUME NEW i \in 1..((m + k) - n) PROVE left[i] = right[i]
  <2>0. i <= m - n \/ i > m - n
    BY <1>1
  <2>1. left[i] = (seq \o more)[n + i]
    BY <1>1
  <2>2. CASE i <= m - n
    <3>1. right[i] = seq[n + i]
      BY <1>1, <1>2, <2>2
    <3> QED BY <1>1, <2>1, <2>2, <3>1
  <2>3. CASE i > m - n
    <3>1. right[i] = more[i - (m - n)]
      BY <1>1, <1>2, <2>3
    <3> QED BY <1>1, <2>1, <2>3, <3>1
  <2> QED BY <2>0, <2>2, <2>3
<1>6. n <= m + k
  BY <1>1
<1> DEFINE len == (m + k) - n
<1> HIDE DEF left, right, len
<1>7. left = [i \in 1..len |-> left[i]] /\ right = [i \in 1..len |-> right[i]]
  BY <1>3, <1>4 DEF len
<1>8. left = right
  BY <1>5, <1>7 DEF len
<1> QED BY <1>1, <1>2, <1>6, <1>8 DEF left, right

(* The new counters of a run that begins, and of one that is seeded. *)
LEMMA NewCounts ==
    ASSUME TypeInv', stepsRun' = 0, failures' = 0, keyCounts' = NoCounts, seeded' = Len(steps'),
           \A h \in Screens, k \in Keys : mind'.presses[h][k] = 0
    PROVE  CountInv'
<1>1. steps' \in Seq(StepTypes) /\ mind'.presses \in [Areas -> [Keys -> Nat]]
  BY DEF TypeInv, BookType, WellFormed, MindMap
<1>2. OwnSteps' = << >>
  BY <1>1, NoOwnSteps DEF OwnSteps
<1>3. Tallied(NoCounts, << >>)
  BY NothingTallied
<1>4. Booked(0, 0, NoCounts, mind'.presses)
  BY <1>1, NothingBooked
<1>5. Tallied(keyCounts', OwnSteps')
  BY <1>2, <1>3
<1>6. Booked(stepsRun', failures', keyCounts', mind'.presses)
  BY <1>4
<1> QED BY <1>1, <1>5, <1>6 DEF CountInv

LEMMA NextCounts == CountInv /\ [Next]_vars => CountInv'
<1> SUFFICES ASSUME CountInv, [Next]_vars PROVE CountInv'
  OBVIOUS
<1>0. /\ TypeInv /\ TypeInv'
      /\ stepsRun \in Nat /\ failures \in Nat /\ keyCounts \in [Keys -> Nat]
      /\ steps \in Seq(StepTypes) /\ seeded \in Nat /\ mind.presses \in [Areas -> [Keys -> Nat]]
  BY NextType DEF CountInv, TypeInv, BookType, WellFormed, MindMap, ControlType
<1>1. ASSUME NEW c \in Configs, Start(c) PROVE CountInv'
  <2>1. /\ stepsRun' = 0 /\ failures' = 0 /\ keyCounts' = NoCounts /\ steps' = << >> /\ seeded' = 0
        /\ mind' = EmptyMap
    BY <1>1 DEF Start, NoCounts
  <2>2. seeded' = Len(steps')
    BY <2>1
  <2>3. \A h \in Screens, k \in Keys : mind'.presses[h][k] = 0
    BY <2>1, NoPresses
  <2> QED BY <1>0, <2>1, <2>2, <2>3, NewCounts
<1>2. ASSUME NEW c \in Configs, NEW r \in Recordings, ResumeRecording(r, c) PROVE CountInv'
  <2>1. /\ stepsRun' = 0 /\ failures' = 0 /\ keyCounts' = NoCounts /\ steps' = r
        /\ seeded' = Len(r) /\ mind' = SeedMap(r)
    BY <1>2 DEF ResumeRecording, ResumeFrom, SeedRun, NoCounts
  <2>2. \A h \in Screens, k \in Keys : mind'.presses[h][k] = 0
    BY <2>1, SeedNoPresses
  <2>3. seeded' = Len(steps')
    BY <2>1
  <2> QED BY <1>0, <2>1, <2>2, <2>3, NewCounts
<1>3. CASE UNCHANGED <<stepsRun, failures, keyCounts, steps, seeded, mind>>
  BY <1>0, <1>3 DEF CountInv, OwnSteps
<1>4. ASSUME NEW c \in Configs, ResumeRun(c) PROVE CountInv'
  BY <1>3, <1>4 DEF ResumeRun, ResumeFrom, Snapshot
<1>5. CASE LoopEnds \/ ReadFails \/ PressKey \/ DelayOver \/ DelayStopped \/ Exit
  BY <1>3, <1>5 DEF LoopEnds, ReadFails, PressKey, DelayOver, DelayStopped, Exit, learned, envVars
<1>6. CASE PressFails \/ RefreshFails
  <2>1. PICK here \in {"press", "after"} : BookFailure(here)
    BY <1>6 DEF PressFails, RefreshFails
  <2>2. mind'.presses = Counted(mind.presses, from, key) /\ from \in Screens /\ key \in Keys
    BY <1>0, <2>1, FailureMap
  <2>3. /\ failures' = failures + 1
        /\ UNCHANGED <<stepsRun, keyCounts, steps, seeded>>
    BY <2>1 DEF BookFailure, envVars
  <2>4. Booked(stepsRun, failures + 1, keyCounts, Counted(mind.presses, from, key))
    BY <1>0, <2>2, BookedFailure DEF CountInv
  <2>5. Booked(stepsRun', failures', keyCounts', mind'.presses)
    BY <2>2, <2>3, <2>4
  <2>6. Tallied(keyCounts', OwnSteps') /\ seeded' <= Len(steps')
    BY <2>3 DEF CountInv, OwnSteps
  <2> QED BY <1>0, <2>5, <2>6 DEF CountInv
<1>7. ASSUME NEW h \in Screens, ReadScreen(h) PROVE CountInv'
  BY <1>3, <1>7 DEF ReadScreen, learned, envVars
<1>8. ASSUME NEW to \in Screens, RefreshScreen(to) PROVE CountInv'
  <2>1. /\ pc = "after" /\ CountStep(to)
        /\ stepsRun' = stepsRun + 1 /\ failures' = failures /\ seeded' = seeded
        /\ keyCounts' = OneMore(keyCounts, key) /\ steps' = steps \o BatchSteps
    BY <1>8 DEF RefreshScreen, CountStep, envVars, OneMore
  <2>2. mind'.presses = Counted(mind.presses, from, key)
    BY <1>0, <2>1, StepMap
  <2>3. from \in Screens /\ key \in Keys /\ writes \in Seq(WriteTypes)
    BY <1>0, <2>1 DEF TypeInv, ControlType
  <2>4. /\ BatchSteps \in Seq(StepTypes) /\ Len(BatchSteps) > 0
        /\ BatchSteps[Len(BatchSteps)] = Press(ExportedStep(key))
        /\ \A i \in 1..(Len(BatchSteps) - 1) : IsFill(BatchSteps[i])
    BY <2>3, BatchForm
  <2> DEFINE batch == BatchSteps
  <2> HIDE DEF batch
  <2>5. /\ OwnSteps \in Seq(StepTypes) /\ OwnSteps' = OwnSteps \o batch
        /\ seeded' <= Len(steps')
    BY <1>0, <2>1, <2>4, OwnGrows DEF OwnSteps, CountInv, batch
  <2>6. Tallied(OneMore(keyCounts, key), OwnSteps \o batch)
    BY <1>0, <2>3, <2>4, <2>5, TalliedStep DEF CountInv, batch
  <2>7. Tallied(keyCounts', OwnSteps')
    BY <2>1, <2>5, <2>6
  <2>8. Booked(stepsRun + 1, failures, OneMore(keyCounts, key), Counted(mind.presses, from, key))
    BY <1>0, <2>3, BookedStep DEF CountInv
  <2>9. Booked(stepsRun', failures', keyCounts', mind'.presses)
    BY <2>1, <2>2, <2>8
  <2> QED BY <1>0, <2>5, <2>7, <2>9 DEF CountInv
<1>9. CASE Stop \/ (\E w \in unwritten : WriteOutput(w)) \/ UNCHANGED vars
  BY <1>3, <1>9 DEF Stop, WriteOutput, vars, learned
<1> QED BY <1>1, <1>2, <1>4, <1>5, <1>6, <1>7, <1>8, <1>9 DEF Next, Loop

(* The counters, the mind map and the exported steps are about the same    *)
(* steps, across failures, resumptions and seeding.                        *)
THEOREM CountersHold == Spec => []CountersAgree
<1>1. Init => CountInv
  <2> SUFFICES ASSUME Init PROVE CountInv
    OBVIOUS
  <2>1. /\ stepsRun = 0 /\ failures = 0 /\ keyCounts = NoCounts /\ steps = << >> /\ seeded = 0
        /\ mind = EmptyMap
    BY DEF Init, NoCounts
  <2>2. OwnSteps = << >> /\ seeded <= Len(steps)
    BY <2>1 DEF OwnSteps
  <2>3. Booked(0, 0, NoCounts, mind.presses)
    <3>1. mind.presses \in [Areas -> [Keys -> Nat]]
      BY <2>1, NoPresses
    <3>2. \A h \in Screens, k \in Keys : mind.presses[h][k] = 0
      BY <2>1, NoPresses
    <3> QED BY <3>1, <3>2, NothingBooked
  <2> QED BY <2>1, <2>2, <2>3, InitType, NothingTallied DEF CountInv
<1>2. CountInv => CountersAgree
  <2> SUFFICES ASSUME CountInv PROVE CountersAgree
    OBVIOUS
  <2>1. \A k \in Keys : PressesOf(k) = Pressed(mind.presses, k)
    BY DEF PressesOf, Pressed, PressColumn
  <2>2. [k \in Keys |-> PressesOf(k)] = PressedRow(mind.presses)
    BY <2>1 DEF PressedRow
  <2>3. ASSUME NEW k \in Keys
        PROVE  SumFunction([j \in ExportedAs(k) |-> keyCounts[j]])
                 = Quantify(DOMAIN OwnSteps, LAMBDA i : OwnSteps[i] = Press(ExportedStep(k)))
    <3>1. OwnSteps \in Seq(StepTypes)
      BY OwnGrows DEF OwnSteps, CountInv, TypeInv, BookType, ControlType
    <3>2. DOMAIN OwnSteps = 1..Len(OwnSteps)
      BY <3>1
    <3>3. {i \in DOMAIN OwnSteps : OwnSteps[i] = Press(ExportedStep(k))}
            = PlacesOf(OwnSteps, {Press(ExportedStep(k))})
      BY <3>2 DEF PlacesOf
    <3>4. Quantify(DOMAIN OwnSteps, LAMBDA i : OwnSteps[i] = Press(ExportedStep(k)))
            = Exports(OwnSteps, k)
      BY <3>3 DEF Quantify, Exports
    <3>5. SumFunction(CountedRow(keyCounts, k)) = Exports(OwnSteps, k)
      BY DEF CountInv, Tallied
    <3>6. CountedRow(keyCounts, k) = [j \in ExportedAs(k) |-> keyCounts[j]]
      BY DEF CountedRow
    <3> QED BY <3>4, <3>5, <3>6
  <2> QED BY <2>1, <2>2, <2>3 DEF CountersAgree, CountInv, Booked
<1> QED BY <1>1, <1>2, NextCounts, PTL DEF Spec

-----------------------------------------------------------------------------
(* The choice of a key                                                     *)

(* The running sums of the weights, when none is negative. *)
LEMMA CumulativeForm ==
    ASSUME NEW h, \A k \in Keys : WeightOf(h, k) \in Nat
    PROVE  LET n == Len(KeyOrder)
               sum == Cumulative(h)
           IN  /\ n \in Nat /\ DOMAIN KeyOrder = 1..n /\ \A i \in 1..n : KeyOrder[i] \in Keys
               /\ sum[0] = 0
               /\ \A i \in 1..n : sum[i] = sum[i - 1] + WeightOf(h, KeyOrder[i])
               /\ \A j \in 0..n : sum[j] \in Nat /\ \A i \in 0..j : sum[i] <= sum[j]
<1> DEFINE n == Len(KeyOrder)
           Weight(i) == WeightOf(h, KeyOrder[i])
           step == [i \in 1..n |-> [x \in Nat |-> x + Weight(i)]]
           Fix(f) == f = [i \in 0..n |-> IF i = 0 THEN 0 ELSE f[i - 1] + Weight(i)]
           chosen == CHOOSE f : Fix(f)
<1>1. KeyOrder \in Seq(Keys)
  BY KeysAssumption
<1>2. n \in Nat /\ DOMAIN KeyOrder = 1..n /\ \A i \in 1..n : KeyOrder[i] \in Keys
  BY <1>1
<1> HIDE DEF n
<1>3. \A i \in 1..n : Weight(i) \in Nat
  BY <1>2
<1>4. \A i \in 1..n : i # 0 /\ i - 1 \in 0..n /\ i \in 0..n
  BY <1>2
<1>5. \A i \in 0..n : i = 0 \/ i \in 1..n
  BY <1>2
<1> HIDE DEF Weight
<1>6. step \in [1..n -> [Nat -> Nat]]
  BY <1>3
<1>7. PICK g \in [0..n -> Nat] : Recurs(g, n, 0, step)
  <2> HIDE DEF step
  <2> QED BY <1>2, <1>6, Recursion
<1>8. Fix(g)
  <2>1. ASSUME NEW i \in 1..n PROVE g[i] = g[i - 1] + Weight(i)
    <3>1. g[i] = step[i][g[i - 1]]
      <4> HIDE DEF step
      <4> QED BY <1>7 DEF Recurs
    <3>2. g[i - 1] \in Nat
      BY <1>4, <1>7
    <3> QED BY <3>1, <3>2
  <2>2. g[0] = 0
    BY <1>7 DEF Recurs
  <2> QED BY <1>4, <1>5, <1>7, <2>1, <2>2
<1>9. Fix(chosen)
  <2> HIDE DEF Fix
  <2> QED BY <1>8
<1>10. Cumulative(h) = chosen
  BY DEF Cumulative, Weight, n
<1> HIDE DEF chosen
<1>11. chosen[0] = 0 /\ \A i \in 1..n : chosen[i] = chosen[i - 1] + Weight(i)
  <2>1. 0 \in 0..n
    BY <1>2
  <2> QED BY <1>4, <1>9, <2>1
<1> HIDE DEF Fix
<1>12. \A j \in 0..n :
         chosen[j] \in Nat /\ \A i \in 0..j : chosen[i] \in Nat /\ chosen[i] <= chosen[j]
  <2> DEFINE S == {j \in 0..n : /\ chosen[j] \in Nat
                                /\ \A i \in 0..j : chosen[i] \in Nat /\ chosen[i] <= chosen[j]}
  <2>1. 0 \in S
    BY <1>2, <1>11
  <2>2. ASSUME NEW j \in 1..n, j - 1 \in S PROVE j \in S
    <3>1. /\ chosen[j - 1] \in Nat
          /\ \A i \in 0..(j - 1) : chosen[i] \in Nat /\ chosen[i] <= chosen[j - 1]
      BY <2>2
    <3>2. chosen[j] = chosen[j - 1] + Weight(j) /\ Weight(j) \in Nat
      BY <1>3, <1>11
    <3>3. chosen[j] \in Nat /\ chosen[j - 1] <= chosen[j]
      BY <3>1, <3>2
    <3>4. ASSUME NEW i \in 0..j PROVE chosen[i] \in Nat /\ chosen[i] <= chosen[j]
      <4>1. CASE i = j
        BY <3>3, <4>1
      <4>2. CASE i # j
        <5>1. i \in 0..(j - 1)
          BY <1>2, <4>2
        <5>2. chosen[i] \in Nat /\ chosen[i] <= chosen[j - 1]
          BY <3>1, <5>1
        <5> QED BY <3>1, <3>3, <5>2
      <4> QED BY <4>1, <4>2
    <3> QED BY <1>4, <3>3, <3>4
  <2> HIDE DEF S
  <2>3. \A j \in 0..n : j \in S
    BY <1>2, <2>1, <2>2, UpToInduction
  <2> QED BY <2>3 DEF S
<1> QED BY <1>2, <1>10, <1>11, <1>12 DEF n, Weight

(* When no weight is negative, a key with a positive weight is picked by   *)
(* the number that the weights ahead of it add up to.                      *)
LEMMA PositiveIsSelectable ==
    ASSUME NEW h, \A k \in Keys : WeightOf(h, k) \in Nat,
           NEW k \in Keys, WeightOf(h, k) > 0, DOMAIN cfg.weights # {}
    PROVE  k \in SelectableKeys(h)
<1> DEFINE n == Len(KeyOrder)
           sum == Cumulative(h)
           total == sum[n]
           Picks(m, i) == m < sum[i] /\ \A j \in 1..(i - 1) : sum[j] <= m
<1>1. /\ n \in Nat /\ DOMAIN KeyOrder = 1..n
      /\ \A i \in 1..n : sum[i] = sum[i - 1] + WeightOf(h, KeyOrder[i])
      /\ \A j \in 0..n : sum[j] \in Nat /\ \A i \in 0..j : sum[i] <= sum[j]
  BY CumulativeForm
<1>2. PICK i \in 1..n : KeyOrder[i] = k
  BY <1>1, KeysAssumption DEF ToSet
<1> DEFINE m == sum[i - 1]
<1>3. i - 1 \in 0..n /\ i \in 0..n /\ n \in 0..n /\ i \in 0..n
  BY <1>1
<1> HIDE DEF n, sum
<1>4. m \in Nat /\ sum[i] \in Nat /\ total \in Nat
  BY <1>1, <1>3
<1>5. m < sum[i] /\ sum[i] <= total
  <2>1. sum[i] = m + WeightOf(h, k) /\ WeightOf(h, k) \in Nat
    BY <1>1, <1>2
  <2>2. sum[i] <= total
    BY <1>1, <1>3
  <2>3. m < sum[i]
    BY <1>4, <2>1
  <2> QED BY <2>2, <2>3
<1>6. m \in 0..(total - 1) /\ ~(total <= 0)
  BY <1>4, <1>5
<1>7. \A j \in 1..(i - 1) : sum[j] <= m
  <2>1. \A j \in 1..(i - 1) : j \in 0..(i - 1)
    BY <1>3
  <2> QED BY <1>1, <1>3, <2>1
<1>8. Picks(m, i)
  BY <1>5, <1>7
<1> HIDE DEF Picks, m, total
<1>9. k \in {KeyOrder[x] : x \in {j \in DOMAIN KeyOrder : \E d \in 0..(total - 1) : Picks(d, j)}}
  BY <1>1, <1>2, <1>6, <1>8
<1> QED BY <1>6, <1>9 DEF SelectableKeys, Picks, total, sum, n

(* What a key weighs on a screen. *)
LEMMA EffectiveWeights ==
    ASSUME TypeInv, NEW h \in Screens, NEW k \in Keys
    PROVE  /\ k \in DOMAIN cfg.weights => cfg.weights[k] \in Int
           /\ DOMAIN Boosts(h) # {} =>
                /\ WeightOf(h, k) \in Nat
                /\ k \in DOMAIN cfg.weights => WeightOf(h, k) > 0
           /\ DOMAIN Boosts(h) = {} =>
                WeightOf(h, k) = IF k \in DOMAIN cfg.weights THEN cfg.weights[k] ELSE 0
<1>1. k \in DOMAIN cfg.weights => cfg.weights[k] \in Int
  BY ConfigsAssumption DEF TypeInv, ControlType
<1>2. h \in Areas
  BY DEF Areas
<1>3. mind.presses[h][k] \in Nat /\ mind.progressions[h][k] \in Nat
  <2>1. mind.presses \in [Areas -> [Keys -> Nat]] /\ mind.progressions \in [Areas -> [Keys -> Nat]]
    BY DEF TypeInv, BookType, WellFormed, MindMap
  <2>2. mind.presses[h] \in [Keys -> Nat] /\ mind.progressions[h] \in [Keys -> Nat]
    BY <1>2, <2>1
  <2> QED BY <2>2
<1>4. k \in DOMAIN Boosts(h) => Boosts(h)[k] \in Int
  <2>1. \A m, n \in Nat : m * n \in Int
    OBVIOUS
  <2>2. /\ MaxFactor * BoostUnit \in Int
        /\ mind.progressions[h][k] * BoostUnit \in Int
        /\ -mind.presses[h][k] \in Int
    BY <1>3, <2>1, BoundsAssumption
  <2>3. k \in DOMAIN Boosts(h) =>
            Boosts(h)[k] \in {MaxFactor * BoostUnit, mind.progressions[h][k] * BoostUnit,
                              -mind.presses[h][k]}
    BY DEF Boosts
  <2> QED BY <2>2, <2>3
<1>5. ASSUME DOMAIN Boosts(h) # {}
      PROVE  WeightOf(h, k) \in Nat /\ (k \in DOMAIN cfg.weights => WeightOf(h, k) > 0)
  <2> DEFINE n == (IF k \in DOMAIN cfg.weights THEN cfg.weights[k] ELSE 0)
                    + (IF k \in DOMAIN Boosts(h) THEN Boosts(h)[k] ELSE 0)
             D == DOMAIN cfg.weights \cup DOMAIN Boosts(h)
  <2>1. n \in Int
    BY <1>1, <1>4
  <2>2. DOMAIN Effective(h) = D /\ (k \in D => Effective(h)[k] = IF n < 1 THEN 1 ELSE n)
    BY <1>5 DEF Effective
  <2>3. k \in DOMAIN cfg.weights => k \in D
    OBVIOUS
  <2> HIDE DEF n, D
  <2> QED BY <2>1, <2>2, <2>3 DEF WeightOf
<1>6. ASSUME DOMAIN Boosts(h) = {}
      PROVE  WeightOf(h, k) = IF k \in DOMAIN cfg.weights THEN cfg.weights[k] ELSE 0
  BY <1>6 DEF Effective, WeightOf
<1> QED BY <1>1, <1>5, <1>6

(* Once a screen has a boost or a penalty, every configured key can be     *)
(* picked there, whatever its weight and however often it was pressed in   *)
(* vain.  Before that a key with a positive weight can, provided that no   *)
(* weight is negative; without that condition it may not.                  *)
THEOREM ConfiguredKeysSelectable == Spec => []KeysStaySelectable
<1>1. TypeInv => KeysStaySelectable
  <2> SUFFICES ASSUME TypeInv, NEW h \in Screens
               PROVE  /\ DOMAIN Boosts(h) # {} => DOMAIN cfg.weights \subseteq SelectableKeys(h)
                      /\ (\A k \in DOMAIN cfg.weights : cfg.weights[k] >= 0)
                          => \A k \in DOMAIN cfg.weights :
                                cfg.weights[k] > 0 => k \in SelectableKeys(h)
    BY DEF KeysStaySelectable
  <2>1. DOMAIN cfg.weights \subseteq Keys
    BY ConfigsAssumption DEF TypeInv, ControlType
  <2>2. ASSUME DOMAIN Boosts(h) # {} PROVE DOMAIN cfg.weights \subseteq SelectableKeys(h)
    BY <2>1, <2>2, EffectiveWeights, PositiveIsSelectable
  <2>3. ASSUME DOMAIN Boosts(h) = {}, \A k \in DOMAIN cfg.weights : cfg.weights[k] >= 0,
               NEW k \in DOMAIN cfg.weights, cfg.weights[k] > 0
        PROVE  k \in SelectableKeys(h)
    <3>1. ASSUME NEW j \in Keys PROVE WeightOf(h, j) \in Nat
      BY <2>3, EffectiveWeights
    <3>2. k \in Keys /\ WeightOf(h, k) > 0
      BY <2>1, <2>3, EffectiveWeights
    <3> QED BY <3>1, <3>2, PositiveIsSelectable
  <2> QED BY <2>2, <2>3
<1> QED BY <1>1, InitType, NextType, PTL DEF Spec
=============================================================================
