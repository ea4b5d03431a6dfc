---------------------------- MODULE DataTheorems ----------------------------
(***************************************************************************)
(* Induction and recursion over numbers, finite sets and sequences in a    *)
(* form the provers can apply: what is proved by induction is a set, what  *)
(* a recursion does at each step is a function.  The facts about filtered  *)
(* sequences, sums and folds that the other modules' proofs need rest on   *)
(* them.                                                                   *)
(***************************************************************************)
EXTENDS SeqFilter, Integers, SequencesExt, FiniteSetsExt, FiniteSetTheorems, WellFoundedInduction, TLAPS

-----------------------------------------------------------------------------
(* Induction                                                               *)

(* A set that has 0 and with each number its successor has all of them.    *)
LEMMA NatSetInduction ==
    ASSUME NEW S, 0 \in S, \A n \in Nat : n \in S => n + 1 \in S
    PROVE  \A n \in Nat : n \in S
<1> SUFFICES ASSUME NEW m \in Nat, m \notin S PROVE FALSE
  OBVIOUS
<1> DEFINE T == {n \in Nat : n \notin S}
           R == OpToRel(<, Nat)
<1>1. IsWellFoundedOn(R, Nat)
  BY NatLessThanWellFounded
<1>2. \A x, y \in Nat : <<y, x>> \in R <=> y < x
  BY DEF OpToRel
<1>3. T \subseteq Nat /\ T # {}
  OBVIOUS
<1> HIDE DEF R
<1>4. \E x \in T : \A y \in T : ~(<<y, x>> \in R)
  BY <1>1, <1>3, WFMin
<1>5. PICK x \in T : \A y \in T : ~(y < x)
  BY <1>2, <1>4
<1>6. x # 0
  OBVIOUS
<1>7. x - 1 \in Nat /\ x - 1 \notin T
  BY <1>5, <1>6
<1> QED BY <1>5, <1>6, <1>7

(* The same up to a bound. *)
LEMMA UpToInduction ==
    ASSUME NEW N \in Nat, NEW S, 0 \in S, \A n \in 1..N : n - 1 \in S => n \in S
    PROVE  \A n \in 0..N : n \in S
<1> DEFINE T == {n \in Nat : n <= N => n \in S}
<1>1. 0 \in T
  OBVIOUS
<1>2. ASSUME NEW n \in Nat, n \in T PROVE n + 1 \in T
  <2>1. CASE n + 1 <= N
    <3>1. n + 1 \in 1..N /\ (n + 1) - 1 = n /\ n <= N
      BY <2>1
    <3>2. n \in S
      BY <1>2, <3>1
    <3> QED BY <3>1, <3>2
  <2> QED BY <2>1
<1>3. \A n \in Nat : n \in T
  <2> HIDE DEF T
  <2> QED BY <1>1, <1>2, NatSetInduction
<1> QED BY <1>3

(* A recursion in N steps, each of which is given by a function.           *)
Recurs(g, n, base, step) == g[0] = base /\ \A i \in 1..n : g[i] = step[i][g[i - 1]]

(* A recursion over the numbers up to N has a function.                    *)
LEMMA Recursion ==
    ASSUME NEW N \in Nat, NEW X, NEW base \in X, NEW step \in [1..N -> [X -> X]]
    PROVE  \E g \in [0..N -> X] : Recurs(g, N, base, step)
<1> DEFINE S == {n \in 0..N : \E g \in [0..n -> X] : Recurs(g, n, base, step)}
<1>1. 0 \in S
  <2> DEFINE h == [i \in 0..0 |-> base]
  <2>1. h \in [0..0 -> X] /\ h[0] = base
    OBVIOUS
  <2>2. 1..0 = {} /\ 0 \in 0..N
    OBVIOUS
  <2> HIDE DEF h
  <2>3. Recurs(h, 0, base, step)
    BY <2>1, <2>2 DEF Recurs
  <2> QED BY <2>1, <2>2, <2>3
<1>2. ASSUME NEW n \in 1..N, n - 1 \in S PROVE n \in S
  <2>1. PICK g \in [0..(n - 1) -> X] : Recurs(g, n - 1, base, step)
    BY <1>2
  <2> DEFINE h == [i \in 0..n |-> IF i = n THEN step[n][g[n - 1]] ELSE g[i]]
  <2>2. step[n] \in [X -> X] /\ n - 1 \in 0..(n - 1) /\ g[n - 1] \in X
    OBVIOUS
  <2>3. step[n][g[n - 1]] \in X
    BY <2>2
  <2>4. h \in [0..n -> X]
    BY <2>3
  <2>5. h[0] = base
    BY <2>1 DEF Recurs
  <2>6. ASSUME NEW i \in 1..n PROVE h[i] = step[i][h[i - 1]]
    <3>1. CASE i = n
      BY <3>1
    <3>2. CASE i # n
      <4>1. i \in 1..(n - 1) /\ i \in 0..n /\ i - 1 \in 0..n /\ i - 1 # n
        BY <3>2
      <4>2. g[i] = step[i][g[i - 1]]
        BY <2>1, <4>1 DEF Recurs
      <4> QED BY <3>2, <4>1, <4>2
    <3> QED BY <3>1, <3>2
  <2> HIDE DEF h
  <2>7. Recurs(h, n, base, step)
    BY <2>5, <2>6 DEF Recurs
  <2>8. n \in 0..N
    OBVIOUS
  <2> QED BY <2>4, <2>7, <2>8
<1>3. \A n \in 0..N : n \in S
  <2> HIDE DEF S
  <2> QED BY <1>1, <1>2, UpToInduction
<1>4. N \in 0..N
  OBVIOUS
<1> QED BY <1>3, <1>4

(* A set that has {}, and s when it has every s without one of its         *)
(* elements, has every subset of a finite set.                             *)
LEMMA SubsetInduction ==
    ASSUME NEW S, IsFiniteSet(S), NEW P, {} \in P,
           \A s \in SUBSET S : s # {} /\ (\A x \in s : s \ {x} \in P) => s \in P
    PROVE  \A s \in SUBSET S : s \in P
<1> DEFINE T == {n \in Nat : \A s \in SUBSET S : Cardinality(s) <= n => s \in P}
<1>1. \A s \in SUBSET S : IsFiniteSet(s) /\ Cardinality(s) \in Nat
  BY FS_Subset, FS_CardinalityType
<1>2. 0 \in T
  <2>1. ASSUME NEW s \in SUBSET S, Cardinality(s) <= 0 PROVE s \in P
    <3>1. Cardinality(s) = 0
      BY <1>1, <2>1
    <3> QED BY <1>1, <3>1, FS_EmptySet
  <2> QED BY <2>1
<1>3. ASSUME NEW n \in Nat, n \in T PROVE n + 1 \in T
  <2>1. ASSUME NEW s \in SUBSET S, Cardinality(s) <= n + 1 PROVE s \in P
    <3>1. ASSUME NEW x \in s PROVE s \ {x} \in P
      <4>1. Cardinality(s \ {x}) = Cardinality(s) - 1
        BY <1>1, FS_RemoveElement
      <4>2. Cardinality(s \ {x}) <= n /\ s \ {x} \in SUBSET S
        BY <1>1, <2>1, <4>1
      <4> QED BY <1>3, <4>2
    <3> QED BY <3>1
  <2> QED BY <2>1
<1>4. \A n \in Nat : n \in T
  <2> HIDE DEF T
  <2> QED BY <1>2, <1>3, NatSetInduction
<1> QED BY <1>1, <1>4

(* A recursion that takes the elements of a finite set one after another.  *)
RecursOn(g, D, base, pick, step) ==
    \A s \in D : g[s] = IF s = {} THEN base ELSE step[pick[s]][g[s \ {pick[s]}]]

(* A recursion over the subsets of a finite set has a function.            *)
LEMMA SetRecursion ==
    ASSUME NEW S, IsFiniteSet(S), NEW X, NEW base \in X,
           NEW pick, \A s \in SUBSET S : s # {} => pick[s] \in s,
           NEW step \in [S -> [X -> X]]
    PROVE  \E g \in [SUBSET S -> X] : RecursOn(g, SUBSET S, base, pick, step)
<1> DEFINE Upto(n) == {s \in SUBSET S : Cardinality(s) <= n}
           T == {n \in Nat : \E g \in [Upto(n) -> X] : RecursOn(g, Upto(n), base, pick, step)}
<1>1. \A s \in SUBSET S : IsFiniteSet(s) /\ Cardinality(s) \in Nat
  BY FS_Subset, FS_CardinalityType
<1>2. 0 \in T
  <2>1. Upto(0) = {{}}
    <3>1. \A s \in Upto(0) : Cardinality(s) = 0
      BY <1>1
    <3>2. \A s \in Upto(0) : s = {}
      BY <1>1, <3>1, FS_EmptySet
    <3>3. {} \in Upto(0)
      BY FS_EmptySet
    <3> QED BY <3>2, <3>3
  <2> DEFINE g == [s \in Upto(0) |-> base]
  <2>2. g \in [Upto(0) -> X]
    OBVIOUS
  <2>3. RecursOn(g, Upto(0), base, pick, step)
    BY <2>1 DEF RecursOn
  <2> HIDE DEF g, Upto
  <2> QED BY <2>2, <2>3
<1>3. ASSUME NEW n \in Nat, n \in T PROVE n + 1 \in T
  <2> HIDE DEF Upto
  <2>1. PICK g \in [Upto(n) -> X] : RecursOn(g, Upto(n), base, pick, step)
    BY <1>3
  <2> USE DEF Upto
  <2> DEFINE h == [s \in Upto(n + 1) |->
                     IF s = {} THEN base ELSE step[pick[s]][g[s \ {pick[s]}]]]
  <2>2. ASSUME NEW s \in Upto(n + 1), s # {}
        PROVE  pick[s] \in s /\ pick[s] \in S /\ s \ {pick[s]} \in Upto(n)
    <3>1. pick[s] \in s
      BY <2>2
    <3>2. Cardinality(s \ {pick[s]}) = Cardinality(s) - 1
      BY <1>1, <3>1, FS_RemoveElement
    <3> QED BY <1>1, <3>1, <3>2
  <2>3. h \in [Upto(n + 1) -> X]
    <3> SUFFICES ASSUME NEW s \in Upto(n + 1), s # {}
                 PROVE  step[pick[s]][g[s \ {pick[s]}]] \in X
      OBVIOUS
    <3>1. pick[s] \in S /\ g[s \ {pick[s]}] \in X
      BY <2>1, <2>2
    <3>2. step[pick[s]] \in [X -> X]
      BY <3>1
    <3> QED BY <3>1, <3>2
  <2>4. \A s \in Upto(n) : s \in Upto(n + 1) /\ h[s] = g[s]
    <3> SUFFICES ASSUME NEW s \in Upto(n) PROVE s \in Upto(n + 1) /\ h[s] = g[s]
      OBVIOUS
    <3>1. s \in Upto(n + 1)
      BY <1>1
    <3>2. g[s] = IF s = {} THEN base ELSE step[pick[s]][g[s \ {pick[s]}]]
      BY <2>1 DEF RecursOn
    <3> QED BY <3>1, <3>2
  <2> HIDE DEF Upto
  <2>5. RecursOn(h, Upto(n + 1), base, pick, step)
    <3> SUFFICES ASSUME NEW s \in Upto(n + 1)
                 PROVE  h[s] = IF s = {} THEN base ELSE step[pick[s]][h[s \ {pick[s]}]]
      BY DEF RecursOn
    <3> QED BY <2>2, <2>4
  <2>6. n + 1 \in Nat
    OBVIOUS
  <2> HIDE DEF h
  <2> QED BY <2>3, <2>5, <2>6
<1>4. Cardinality(S) \in T
  <2>1. \A n \in Nat : n \in T
    <3> HIDE DEF T
    <3> QED BY <1>2, <1>3, NatSetInduction
  <2> QED BY <1>1, <2>1
<1>5. Upto(Cardinality(S)) = SUBSET S
  BY FS_Subset
<1> HIDE DEF Upto
<1>6. \E g \in [Upto(Cardinality(S)) -> X] :
        RecursOn(g, Upto(Cardinality(S)), base, pick, step)
  BY <1>4
<1> QED BY <1>5, <1>6

(* The order in which a fold over a sequence takes its places. *)
LEMMA MaxInSet ==
    ASSUME NEW n \in Nat, NEW s \in SUBSET (1..n), s # {}
    PROVE  Max(s) \in s
<1> DEFINE P == {t \in SUBSET (1..n) : t # {} => \E x \in t : \A y \in t : x >= y}
<1>1. {} \in P
  OBVIOUS
<1>2. ASSUME NEW t \in SUBSET (1..n), t # {}, \A x \in t : t \ {x} \in P PROVE t \in P
  <2>1. PICK x \in t : TRUE
    BY <1>2
  <2>2. CASE t \ {x} = {}
    <3>1. \A y \in t : y = x
      BY <2>2
    <3>2. x \in 1..n
      BY <2>1
    <3> QED BY <2>1, <3>1, <3>2
  <2>3. CASE t \ {x} # {}
    <3>1. PICK m \in t \ {x} : \A y \in t \ {x} : m >= y
      BY <1>2, <2>1, <2>3
    <3>2. m \in 1..n /\ x \in 1..n
      BY <2>1, <3>1
    <3>3. CASE m >= x
      BY <3>1, <3>3
    <3>4. CASE x >= m
      <4>1. \A y \in t : x >= y
        BY <3>1, <3>2, <3>4
      <4> QED BY <2>1, <4>1
    <3> QED BY <3>2, <3>3, <3>4
  <2> QED BY <2>2, <2>3
<1>3. IsFiniteSet(1..n)
  BY FS_Interval
<1>4. s \in P
  <2> HIDE DEF P
  <2> QED BY <1>1, <1>2, <1>3, SubsetInduction
<1>5. \E x \in s : \A y \in s : x >= y
  BY <1>4
<1> QED BY <1>5 DEF Max

-----------------------------------------------------------------------------
(* Filtered sequences                                                      *)

(* What one more element of seq adds to the elements kept of S. *)
KeptStep(kept, seq, S, n) ==
    kept[n] = IF seq[n] \in S THEN Append(kept[n - 1], seq[n]) ELSE kept[n - 1]

(* The recursion of Filter. *)
LEMMA FilterRecursion ==
    ASSUME NEW T, NEW seq \in Seq(T), NEW S
    PROVE  \E kept \in [0..Len(seq) -> Seq(T)] :
              /\ kept[0] = << >>
              /\ \A n \in 1..Len(seq) : KeptStep(kept, seq, S, n)
              /\ Filter(seq, S) = kept[Len(seq)]
<1> DEFINE N == Len(seq)
           step == [n \in 1..N |-> [k \in Seq(T) |-> IF seq[n] \in S THEN Append(k, seq[n]) ELSE k]]
           Fix(k) == k = [n \in 0..N |->
                            IF n = 0 THEN << >>
                            ELSE IF seq[n] \in S THEN Append(k[n - 1], seq[n]) ELSE k[n - 1]]
           chosen == CHOOSE k : Fix(k)
<1>1. N \in Nat /\ \A n \in 1..N : seq[n] \in T
  OBVIOUS
<1>2. step \in [1..N -> [Seq(T) -> Seq(T)]]
  BY <1>1
<1>3. << >> \in Seq(T)
  OBVIOUS
<1>4. PICK g \in [0..N -> Seq(T)] : Recurs(g, N, << >>, step)
  <2> HIDE DEF step, N
  <2> QED BY <1>1, <1>2, <1>3, Recursion
<1>5. \A i \in 1..N : step[i][g[i - 1]]
                        = IF seq[i] \in S THEN Append(g[i - 1], seq[i]) ELSE g[i - 1]
  <2> TAKE i \in 1..N
  <2>1. i - 1 \in 0..N
    BY <1>1
  <2>2. g[i - 1] \in Seq(T)
    BY <2>1, <1>4
  <2> HIDE DEF N
  <2> QED BY <2>2
<1>6. g[0] = << >> /\ \A i \in 1..N : KeptStep(g, seq, S, i)
  <2> HIDE DEF step, N
  <2> QED BY <1>4, <1>5 DEF Recurs, KeptStep
<1>7. Fix(g)
  <2> HIDE DEF step, N
  <2>1. g = [n \in 0..N |-> g[n]]
    BY <1>4
  <2>2. \A n \in 0..N : n # 0 => n \in 1..N
    BY <1>1
  <2> QED BY <2>1, <2>2, <1>6 DEF KeptStep
<1>8. Fix(chosen)
  <2> HIDE DEF Fix
  <2> QED BY <1>7
<1>9. Filter(seq, S) = chosen[N]
  BY DEF Filter
<1> HIDE DEF chosen, step
<1>10. chosen = [n \in 0..N |-> chosen[n]]
  <2> HIDE DEF N
  <2> QED BY <1>8
<1>11. chosen[0] = << >> /\ \A n \in 1..N : KeptStep(chosen, seq, S, n)
  <2>1. 0 \in 0..N
    BY <1>1
  <2>2. \A n \in 1..N : n \in 0..N /\ n # 0
    BY <1>1
  <2> HIDE DEF N
  <2> QED BY <2>1, <2>2, <1>8 DEF KeptStep
<1> HIDE DEF Fix
<1>12. \A n \in 0..N : chosen[n] \in Seq(T)
  <2> DEFINE Typed == {m \in 0..N : chosen[m] \in Seq(T)}
  <2>1. 0 \in Typed
    <3>1. 0 \in 0..N /\ chosen[0] \in Seq(T)
      BY <1>1, <1>3, <1>11
    <3> HIDE DEF N
    <3> QED BY <3>1
  <2>2. ASSUME NEW n \in 1..N, n - 1 \in Typed PROVE n \in Typed
    <3>1. seq[n] \in T /\ n \in 0..N /\ chosen[n - 1] \in Seq(T)
      BY <1>1, <2>2
    <3>2. KeptStep(chosen, seq, S, n)
      BY <1>11
    <3>3. Append(chosen[n - 1], seq[n]) \in Seq(T)
      BY <3>1
    <3>4. chosen[n] \in Seq(T)
      BY <3>1, <3>2, <3>3 DEF KeptStep
    <3> HIDE DEF N
    <3> QED BY <3>1, <3>4
  <2> HIDE DEF Typed
  <2>3. \A n \in 0..N : n \in Typed
    <3> HIDE DEF N
    <3> QED BY <1>1, <2>1, <2>2, UpToInduction
  <2> QED BY <2>3 DEF Typed
<1>13. chosen \in [0..N -> Seq(T)]
  <2> HIDE DEF N
  <2> QED BY <1>10, <1>12
<1> QED BY <1>9, <1>11, <1>13

(* What a filter keeps, it had.                                            *)
LEMMA FilterType ==
    ASSUME NEW T, NEW seq \in Seq(T), NEW S
    PROVE  Filter(seq, S) \in Seq(T)
<1>1. PICK kept \in [0..Len(seq) -> Seq(T)] : Filter(seq, S) = kept[Len(seq)]
  BY FilterRecursion
<1>2. Len(seq) \in 0..Len(seq)
  OBVIOUS
<1> QED BY <1>1, <1>2

(* A filter keeps at most what there is.                                   *)
LEMMA FilterShorter ==
    ASSUME NEW T, NEW seq \in Seq(T), NEW S
    PROVE  Len(Filter(seq, S)) <= Len(seq)
<1> DEFINE N == Len(seq)
<1>1. N \in Nat /\ N \in 0..N
  OBVIOUS
<1>2. PICK kept \in [0..N -> Seq(T)] :
        /\ kept[0] = << >>
        /\ \A n \in 1..N : KeptStep(kept, seq, S, n)
        /\ Filter(seq, S) = kept[N]
  BY FilterRecursion
<1> HIDE DEF N
<1> DEFINE Short == {n \in 0..N : Len(kept[n]) <= n}
<1>3. 0 \in Short
  BY <1>1, <1>2
<1>4. ASSUME NEW n \in 1..N, n - 1 \in Short PROVE n \in Short
  <2>1. n \in 0..N /\ n - 1 \in 0..N
    BY <1>1
  <2>2. kept[n - 1] \in Seq(T) /\ Len(kept[n - 1]) <= n - 1
    BY <1>2, <1>4, <2>1
  <2>3. kept[n] = Append(kept[n - 1], seq[n]) \/ kept[n] = kept[n - 1]
    BY <1>2 DEF KeptStep
  <2>4. Len(kept[n]) <= Len(kept[n - 1]) + 1 /\ Len(kept[n - 1]) \in Nat
    BY <2>2, <2>3
  <2>5. kept[n] \in Seq(T)
    BY <1>2, <2>1
  <2>6. Len(kept[n]) \in Nat
    BY <2>5
  <2>7. Len(kept[n]) <= n
    BY <1>1, <2>2, <2>4, <2>6
  <2> QED BY <2>1, <2>7
<1>5. \A n \in 0..N : n \in Short
  <2> HIDE DEF Short
  <2> QED BY <1>1, <1>3, <1>4, UpToInduction
<1> QED BY <1>1, <1>2, <1>5 DEF N

(* Nothing is kept of nothing.                                             *)
LEMMA FilterEmpty == \A S : Filter(<< >>, S) = << >>
<1> SUFFICES ASSUME NEW S PROVE Filter(<< >>, S) = << >>
  OBVIOUS
<1>1. << >> \in Seq({}) /\ Len(<< >>) = 0
  OBVIOUS
<1> DEFINE e == << >>
<1> HIDE DEF e
<1>2. e \in Seq({})
  BY <1>1 DEF e
<1>3. PICK kept \in [0..Len(e) -> Seq({})] : kept[0] = << >> /\ Filter(e, S) = kept[Len(e)]
  BY <1>2, FilterRecursion
<1> QED BY <1>1, <1>3 DEF e

(* An element at the end is kept at the end, if it is kept.                *)
LEMMA FilterAppend ==
    ASSUME NEW T, NEW seq \in Seq(T), NEW e \in T, NEW S
    PROVE  /\ Filter(seq, S) \in Seq(T)
           /\ Filter(Append(seq, e), S) =
                IF e \in S THEN Append(Filter(seq, S), e) ELSE Filter(seq, S)
<1> DEFINE N == Len(seq)
           longer == Append(seq, e)
<1>1. N \in Nat /\ longer \in Seq(T) /\ Len(longer) = N + 1 /\ longer[N + 1] = e
  OBVIOUS
<1>2. \A n \in 1..N : longer[n] = seq[n]
  OBVIOUS
<1>3. PICK kept \in [0..N -> Seq(T)] :
        /\ kept[0] = << >>
        /\ \A n \in 1..N : KeptStep(kept, seq, S, n)
        /\ Filter(seq, S) = kept[N]
  BY FilterRecursion
<1> HIDE DEF longer
<1> HIDE DEF N
<1>4. PICK more \in [0..Len(longer) -> Seq(T)] :
        /\ more[0] = << >>
        /\ \A n \in 1..Len(longer) : KeptStep(more, longer, S, n)
        /\ Filter(longer, S) = more[Len(longer)]
  BY <1>1, FilterRecursion
<1> HIDE DEF N
<1>5. \A n \in 0..N : n \in {m \in 0..N : more[m] = kept[m]}
  <2> DEFINE Same == {m \in 0..N : more[m] = kept[m]}
  <2>1. 0 \in Same
    BY <1>1, <1>3, <1>4
  <2>2. ASSUME NEW n \in 1..N, n - 1 \in Same PROVE n \in Same
    <3>1. n \in 1..Len(longer) /\ n \in 0..N
      BY <1>1
    <3>2. KeptStep(more, longer, S, n) /\ KeptStep(kept, seq, S, n) /\ longer[n] = seq[n]
      BY <1>2, <1>3, <1>4, <3>1
    <3>3. more[n - 1] = kept[n - 1]
      BY <2>2
    <3>4. more[n] = kept[n]
      BY <3>2, <3>3 DEF KeptStep
    <3> QED BY <3>1, <3>4
  <2> HIDE DEF Same
  <2>3. \A n \in 0..N : n \in Same
    BY <1>1, <2>1, <2>2, UpToInduction
  <2> QED BY <2>3 DEF Same
<1>6. N \in 0..N /\ N + 1 \in 1..Len(longer) /\ (N + 1) - 1 = N
  BY <1>1
<1>7. more[N] = kept[N] /\ kept[N] \in Seq(T)
  BY <1>3, <1>5, <1>6
<1>8. KeptStep(more, longer, S, N + 1)
  BY <1>4, <1>6
<1>9. more[N + 1] = IF e \in S THEN Append(more[N], e) ELSE more[N]
  BY <1>1, <1>6, <1>8 DEF KeptStep
<1> QED BY <1>1, <1>3, <1>4, <1>7, <1>9 DEF longer

(* What is left are elements of S, in the order they had. *)
LEMMA FilterIndices ==
    ASSUME NEW T, NEW seq \in Seq(T), NEW S
    PROVE  \E at \in [1..Len(Filter(seq, S)) -> 1..Len(seq)] :
              /\ \A i \in DOMAIN at : Filter(seq, S)[i] = seq[at[i]] /\ seq[at[i]] \in S
              /\ \A i, j \in DOMAIN at : i < j => at[i] < at[j]
<1> DEFINE N == Len(seq)
<1>1. N \in Nat /\ \A n \in 1..N : seq[n] \in T
  OBVIOUS
<1>2. PICK kept \in [0..N -> Seq(T)] :
        /\ kept[0] = << >>
        /\ \A n \in 1..N : KeptStep(kept, seq, S, n)
        /\ Filter(seq, S) = kept[N]
  BY FilterRecursion
<1> HIDE DEF N
<1> DEFINE Picks(n, at) ==
             /\ \A i \in 1..Len(kept[n]) : kept[n][i] = seq[at[i]] /\ seq[at[i]] \in S
             /\ \A i, j \in 1..Len(kept[n]) : i < j => at[i] < at[j]
           Good == {n \in 0..N : \E at \in [1..Len(kept[n]) -> 1..n] : Picks(n, at)}
<1>3. 0 \in Good
  <2>1. Len(kept[0]) = 0 /\ 1..0 = {} /\ 0 \in 0..N
    BY <1>1, <1>2
  <2>2. 1..Len(kept[0]) = {}
    BY <2>1
  <2> DEFINE at == [i \in 1..Len(kept[0]) |-> 0]
  <2>3. at \in [1..Len(kept[0]) -> 1..0]
    BY <2>2
  <2>4. Picks(0, at)
    BY <2>2
  <2> HIDE DEF at
  <2> QED BY <2>1, <2>3, <2>4
<1>4. ASSUME NEW n \in 1..N, n - 1 \in Good PROVE n \in Good
  <2>1. PICK at \in [1..Len(kept[n - 1]) -> 1..(n - 1)] : Picks(n - 1, at)
    BY <1>4
  <2>2. n \in Nat /\ n \in 0..N /\ n - 1 \in 0..N /\ 1..(n - 1) \subseteq 1..n
    BY <1>1
  <2>3. KeptStep(kept, seq, S, n) /\ kept[n - 1] \in Seq(T) /\ seq[n] \in T
    BY <1>1, <1>2, <2>2
  <2> DEFINE k == kept[n - 1]
             m == Len(k)
  <2>4. m \in Nat
    BY <2>3
  <2>5. CASE seq[n] \in S
    <3>1. kept[n] = Append(k, seq[n])
      BY <2>3, <2>5 DEF KeptStep
    <3>2. /\ Len(kept[n]) = m + 1
          /\ kept[n][m + 1] = seq[n]
          /\ \A i \in 1..m : kept[n][i] = k[i]
      BY <2>3, <3>1
    <3> DEFINE more == [i \in 1..(m + 1) |-> IF i = m + 1 THEN n ELSE at[i]]
    <3>3. \A i \in 1..(m + 1) : i # m + 1 => i \in 1..m
      BY <2>4
    <3>4. more \in [1..Len(kept[n]) -> 1..n]
      BY <2>1, <2>2, <3>2, <3>3
    <3>5. ASSUME NEW i \in 1..(m + 1)
          PROVE  kept[n][i] = seq[more[i]] /\ seq[more[i]] \in S
      <4>1. CASE i = m + 1
        BY <2>5, <3>2, <4>1
      <4>2. CASE i # m + 1
        BY <2>1, <3>2, <3>3, <4>2
      <4> QED BY <4>1, <4>2
    <3>6. ASSUME NEW i \in 1..(m + 1), NEW j \in 1..(m + 1), i < j
          PROVE  more[i] < more[j]
      <4>1. i \in 1..m /\ i # m + 1
        BY <2>4, <3>6
      <4>2. at[i] \in 1..(n - 1)
        BY <2>1, <4>1
      <4>3. CASE j = m + 1
        BY <2>2, <4>1, <4>2, <4>3
      <4>4. CASE j # m + 1
        <5>1. j \in 1..m
          BY <3>3, <4>4
        <5> QED BY <2>1, <3>6, <4>1, <4>4, <5>1
      <4> QED BY <4>3, <4>4
    <3> HIDE DEF more
    <3>7. Picks(n, more)
      BY <3>2, <3>5, <3>6
    <3> QED BY <2>2, <3>4, <3>7
  <2>6. CASE seq[n] \notin S
    <3>1. kept[n] = kept[n - 1]
      BY <2>3, <2>6 DEF KeptStep
    <3>2. at \in [1..Len(kept[n]) -> 1..n]
      BY <2>1, <2>2, <3>1
    <3>3. Picks(n, at)
      BY <2>1, <3>1
    <3> QED BY <2>2, <3>2, <3>3
  <2> QED BY <2>5, <2>6
<1>5. N \in Good
  <2> HIDE DEF Good
  <2>1. \A n \in 0..N : n \in Good
    BY <1>1, <1>3, <1>4, UpToInduction
  <2> QED BY <1>1, <2>1
<1>6. PICK at \in [1..Len(kept[N]) -> 1..N] : Picks(N, at)
  BY <1>5
<1>7. DOMAIN at = 1..Len(kept[N])
  BY <1>6
<1>8. /\ \A i \in DOMAIN at : kept[N][i] = seq[at[i]] /\ seq[at[i]] \in S
      /\ \A i, j \in DOMAIN at : i < j => at[i] < at[j]
  BY <1>6, <1>7
<1> HIDE DEF Picks
<1>9. at \in [1..Len(Filter(seq, S)) -> 1..Len(seq)]
  BY <1>2, <1>6 DEF N
<1> QED BY <1>2, <1>8, <1>9

-----------------------------------------------------------------------------
(* Sums                                                                    *)

(* The elements of a set are added in the order in which CHOOSE draws them.*)
Drawn(s) == CHOOSE x \in s : TRUE

Adds(sum, f, S) ==
    \A s \in SUBSET S : sum[s] = IF s = {} THEN 0 ELSE f[Drawn(s)] + sum[s \ {Drawn(s)}]

(* The recursion of SumFunction. *)
LEMMA SumRecursion ==
    ASSUME NEW S, IsFiniteSet(S), NEW f \in [S -> Nat]
    PROVE  \E sum \in [SUBSET S -> Nat] : Adds(sum, f, S) /\ SumFunction(f) = sum[S]
<1> DEFINE pick == [s \in SUBSET S |-> Drawn(s)]
           step == [x \in S |-> [n \in Nat |-> f[x] + n]]
           Fix(k) == k = [s \in SUBSET S |->
                            IF s = {} THEN 0 ELSE f[Drawn(s)] + k[s \ {Drawn(s)}]]
           chosen == CHOOSE k : Fix(k)
<1>1. \A s \in SUBSET S : s # {} => Drawn(s) \in s
  BY DEF Drawn
<1>2. step \in [S -> [Nat -> Nat]]
  OBVIOUS
<1>3. PICK g \in [SUBSET S -> Nat] : RecursOn(g, SUBSET S, 0, pick, step)
  <2>1. \A s \in SUBSET S : s # {} => pick[s] \in s
    BY <1>1
  <2> HIDE DEF pick, step
  <2> QED BY <1>2, <2>1, SetRecursion
<1>4. Adds(g, f, S)
  <2> SUFFICES ASSUME NEW s \in SUBSET S
               PROVE  g[s] = IF s = {} THEN 0 ELSE f[Drawn(s)] + g[s \ {Drawn(s)}]
    BY DEF Adds
  <2>1. g[s] = IF s = {} THEN 0 ELSE step[pick[s]][g[s \ {pick[s]}]]
    <3> HIDE DEF pick, step
    <3> QED BY <1>3 DEF RecursOn
  <2>2. CASE s = {}
    BY <2>1, <2>2
  <2>3. CASE s # {}
    <3>1. pick[s] = Drawn(s) /\ Drawn(s) \in S /\ s \ {Drawn(s)} \in SUBSET S
      BY <1>1, <2>3
    <3>2. step[Drawn(s)] = [n \in Nat |-> f[Drawn(s)] + n] /\ g[s \ {Drawn(s)}] \in Nat
      BY <1>3, <3>1
    <3> HIDE DEF pick, step
    <3> QED BY <2>1, <2>3, <3>1, <3>2
  <2> QED BY <2>2, <2>3
<1>5. Fix(g)
  BY <1>3, <1>4 DEF Adds
<1>6. Fix(chosen)
  <2> HIDE DEF Fix
  <2> QED BY <1>5
<1>7. SumFunction(f) = chosen[S]
  <2>1. DOMAIN f = S
    OBVIOUS
  <2> QED BY <2>1 DEF SumFunction, SumFunctionOnSet, FoldFunctionOnSet, MapThenFoldSet, Drawn
<1> HIDE DEF chosen
<1>8. Adds(chosen, f, S)
  BY <1>6 DEF Adds
<1>9. \A s \in SUBSET S : s \in {t \in SUBSET S : chosen[t] \in Nat}
  <2> DEFINE P == {t \in SUBSET S : chosen[t] \in Nat}
  <2>1. {} \in P
    <3>1. {} \in SUBSET S /\ chosen[{}] = 0
      BY <1>8 DEF Adds
    <3> QED BY <3>1
  <2>2. ASSUME NEW s \in SUBSET S, s # {}, \A x \in s : s \ {x} \in P PROVE s \in P
    <3>1. Drawn(s) \in S /\ f[Drawn(s)] \in Nat /\ chosen[s \ {Drawn(s)}] \in Nat
      BY <1>1, <2>2
    <3>2. chosen[s] = f[Drawn(s)] + chosen[s \ {Drawn(s)}]
      BY <1>8, <2>2 DEF Adds
    <3> QED BY <3>1, <3>2
  <2> HIDE DEF P
  <2>3. \A s \in SUBSET S : s \in P
    BY <2>1, <2>2, SubsetInduction
  <2> QED BY <2>3 DEF P
<1>10. chosen \in [SUBSET S -> Nat]
  <2>1. chosen = [s \in SUBSET S |-> chosen[s]]
    BY <1>6
  <2> QED BY <1>9, <2>1
<1> QED BY <1>7, <1>8, <1>10

(* A sum of numbers is a number.                                           *)
LEMMA SumType ==
    ASSUME NEW S, IsFiniteSet(S), NEW f \in [S -> Nat]
    PROVE  SumFunction(f) \in Nat
<1>1. PICK sum \in [SUBSET S -> Nat] : SumFunction(f) = sum[S]
  BY SumRecursion
<1> QED BY <1>1

(* Two functions that differ in one place: their sums differ as they do.   *)
LEMMA SumChange ==
    ASSUME NEW S, IsFiniteSet(S), NEW f \in [S -> Nat], NEW g \in [S -> Nat],
           NEW x \in S, \A y \in S \ {x} : f[y] = g[y]
    PROVE  SumFunction(f) + g[x] = SumFunction(g) + f[x]
<1>1. PICK fs \in [SUBSET S -> Nat] : Adds(fs, f, S) /\ SumFunction(f) = fs[S]
  BY SumRecursion
<1>2. PICK gs \in [SUBSET S -> Nat] : Adds(gs, g, S) /\ SumFunction(g) = gs[S]
  BY SumRecursion
<1> DEFINE P == {s \in SUBSET S : IF x \in s THEN fs[s] + g[x] = gs[s] + f[x] ELSE fs[s] = gs[s]}
<1>3. {} \in P
  <2>1. {} \in SUBSET S /\ fs[{}] = 0 /\ gs[{}] = 0
    BY <1>1, <1>2 DEF Adds
  <2> QED BY <2>1
<1>4. ASSUME NEW s \in SUBSET S, s # {}, \A y \in s : s \ {y} \in P PROVE s \in P
  <2> DEFINE y == Drawn(s)
             r == s \ {y}
  <2>1. y \in s
    BY <1>4 DEF Drawn
  <2>2. fs[s] = f[y] + fs[r] /\ gs[s] = g[y] + gs[r]
    BY <1>1, <1>2, <1>4 DEF Adds
  <2>3. r \in P /\ r \in SUBSET S
    BY <1>4, <2>1
  <2> HIDE DEF y
  <2>4. /\ fs[r] \in Nat /\ gs[r] \in Nat
        /\ f[x] \in Nat /\ g[x] \in Nat /\ f[y] \in Nat /\ g[y] \in Nat
    BY <2>1, <2>3
  <2>5. CASE y = x
    <3>1. x \notin r /\ x \in s
      BY <2>1, <2>5
    <3>2. fs[r] = gs[r]
      BY <2>3, <3>1
    <3>3. fs[s] + g[x] = gs[s] + f[x]
      BY <2>2, <2>4, <2>5, <3>2
    <3> QED BY <3>1, <3>3
  <2>6. CASE y # x
    <3>1. f[y] = g[y] /\ (x \in r <=> x \in s)
      BY <2>1, <2>6
    <3>2. CASE x \in s
      <4>1. fs[r] + g[x] = gs[r] + f[x]
        BY <2>3, <3>1, <3>2
      <4> HIDE DEF r
      <4>2. fs[s] + g[x] = gs[s] + f[x]
        BY <2>2, <2>4, <3>1, <4>1
      <4> QED BY <3>2, <4>2
    <3>3. CASE x \notin s
      <4>1. fs[r] = gs[r]
        BY <2>3, <3>1, <3>3
      <4> QED BY <2>2, <3>1, <3>3, <4>1
    <3> QED BY <3>2, <3>3
  <2> QED BY <2>5, <2>6
<1>5. S \in P
  <2>1. \A s \in SUBSET S : s \in P
    <3> HIDE DEF P
    <3> QED BY <1>3, <1>4, SubsetInduction
  <2> QED BY <2>1
<1> QED BY <1>1, <1>2, <1>5

(* A sum of zeros is 0.                                                    *)
LEMMA SumOfZeros ==
    ASSUME NEW S, IsFiniteSet(S), NEW f \in [S -> Nat], \A x \in S : f[x] = 0
    PROVE  SumFunction(f) = 0
<1>1. PICK fs \in [SUBSET S -> Nat] : Adds(fs, f, S) /\ SumFunction(f) = fs[S]
  BY SumRecursion
<1> DEFINE P == {s \in SUBSET S : fs[s] = 0}
<1>2. {} \in P
  <2>1. {} \in SUBSET S /\ fs[{}] = 0
    BY <1>1 DEF Adds
  <2> QED BY <2>1
<1>3. ASSUME NEW s \in SUBSET S, s # {}, \A x \in s : s \ {x} \in P PROVE s \in P
  <2>1. Drawn(s) \in s
    BY <1>3 DEF Drawn
  <2>2. fs[s] = f[Drawn(s)] + fs[s \ {Drawn(s)}]
    BY <1>1, <1>3 DEF Adds
  <2>3. f[Drawn(s)] = 0 /\ fs[s \ {Drawn(s)}] = 0
    BY <1>3, <2>1
  <2> QED BY <2>2, <2>3
<1>4. S \in P
  <2>1. \A s \in SUBSET S : s \in P
    <3> HIDE DEF P
    <3> QED BY <1>2, <1>3, SubsetInduction
  <2> QED BY <2>1
<1> QED BY <1>1, <1>4

(* One more in one place, or all in one place.                             *)
LEMMA SumIncrement ==
    ASSUME NEW S, IsFiniteSet(S), NEW f \in [S -> Nat], NEW x \in S
    PROVE  SumFunction([f EXCEPT ![x] = @ + 1]) = SumFunction(f) + 1
<1> DEFINE g == [f EXCEPT ![x] = @ + 1]
<1>1. g \in [S -> Nat] /\ g[x] = f[x] + 1 /\ f[x] \in Nat /\ \A y \in S \ {x} : f[y] = g[y]
  OBVIOUS
<1> HIDE DEF g
<1>2. SumFunction(f) + g[x] = SumFunction(g) + f[x]
  BY <1>1, SumChange
<1>3. SumFunction(f) \in Nat /\ SumFunction(g) \in Nat
  BY <1>1, SumType
<1>4. SumFunction(g) = SumFunction(f) + 1
  BY <1>1, <1>2, <1>3
<1> QED BY <1>4 DEF g

(* A sum with one term is that term.                                       *)
LEMMA SumOfOne ==
    ASSUME NEW S, IsFiniteSet(S), NEW f \in [S -> Nat],
           NEW x \in S, \A y \in S \ {x} : f[y] = 0
    PROVE  SumFunction(f) = f[x]
<1> DEFINE g == [y \in S |-> 0]
<1>1. g \in [S -> Nat] /\ g[x] = 0 /\ \A y \in S : g[y] = 0
  OBVIOUS
<1> HIDE DEF g
<1>2. SumFunction(f) + g[x] = SumFunction(g) + f[x]
  BY <1>1, SumChange
<1>3. SumFunction(g) = 0 /\ SumFunction(f) \in Nat /\ f[x] \in Nat
  BY <1>1, SumOfZeros, SumType
<1> QED BY <1>1, <1>2, <1>3

-----------------------------------------------------------------------------
(* Counts                                                                  *)

(* The places of a sequence where it has an element of S. *)
PlacesOf(seq, S) == {i \in 1..Len(seq) : seq[i] \in S}

(* There are finitely many places, at most as many as the sequence is      *)
(* long.                                                                   *)
LEMMA PlacesFinite ==
    ASSUME NEW T, NEW seq \in Seq(T), NEW S
    PROVE  IsFiniteSet(PlacesOf(seq, S)) /\ Cardinality(PlacesOf(seq, S)) \in Nat
<1>1. IsFiniteSet(1..Len(seq))
  BY FS_Interval
<1>2. PlacesOf(seq, S) \in SUBSET (1..Len(seq))
  BY DEF PlacesOf
<1>3. IsFiniteSet(PlacesOf(seq, S))
  BY <1>1, <1>2, FS_Subset
<1> QED BY <1>3, FS_CardinalityType

(* A tail of which at most the last element is counted. *)
LEMMA PlacesConcat ==
    ASSUME NEW T, NEW seq \in Seq(T), NEW more \in Seq(T), NEW S,
           Len(more) > 0, \A i \in 1..(Len(more) - 1) : more[i] \notin S
    PROVE  Cardinality(PlacesOf(seq \o more, S)) =
                IF more[Len(more)] \in S THEN Cardinality(PlacesOf(seq, S)) + 1
                ELSE Cardinality(PlacesOf(seq, S))
<1> DEFINE m == Len(seq)
           n == Len(more)
           all == seq \o more
<1>1. /\ m \in Nat /\ n \in Nat /\ n > 0
      /\ Len(all) = m + n
      /\ \A i \in 1..m : all[i] = seq[i]
  OBVIOUS
<1>2. \A i \in 1..(m + n) : i \notin 1..m => i - m \in 1..n /\ all[i] = more[i - m]
  OBVIOUS
<1>3. PlacesOf(all, S) =
        PlacesOf(seq, S) \cup (IF more[n] \in S THEN {m + n} ELSE {})
  <2> HIDE DEF m, n, all
  <2>1. ASSUME NEW i \in 1..(m + n)
        PROVE  all[i] \in S <=> (i \in 1..m /\ seq[i] \in S) \/ (i = m + n /\ more[n] \in S)
    <3>1. CASE i \in 1..m
      <4>1. i # m + n
        BY <1>1, <3>1
      <4> QED BY <1>1, <3>1, <4>1
    <3>2. CASE i \notin 1..m
      <4>1. i - m \in 1..n /\ all[i] = more[i - m]
        BY <1>2, <3>2
      <4>2. CASE i = m + n
        <5>1. i - m = n
          BY <1>1, <4>2
        <5> QED BY <3>2, <4>1, <4>2, <5>1
      <4>3. CASE i # m + n
        <5>1. i - m \in 1..(n - 1)
          BY <1>1, <4>1, <4>3
        <5>2. more[i - m] \notin S
          BY <5>1 DEF n
        <5> QED BY <3>2, <4>1, <4>3, <5>2
      <4> QED BY <4>2, <4>3
    <3> QED BY <3>1, <3>2
  <2>2. 1..m \subseteq 1..(m + n) /\ m + n \in 1..(m + n)
    BY <1>1
  <2>3. PlacesOf(all, S) = {i \in 1..(m + n) : all[i] \in S}
    BY <1>1 DEF PlacesOf
  <2>4. PlacesOf(seq, S) = {i \in 1..m : seq[i] \in S}
    BY DEF PlacesOf, m
  <2> QED BY <2>1, <2>2, <2>3, <2>4
<1>4. m + n \notin PlacesOf(seq, S)
  BY <1>1 DEF PlacesOf
<1>5. IsFiniteSet(PlacesOf(seq, S))
  BY PlacesFinite
<1> HIDE DEF m, n, all
<1>6. Cardinality(PlacesOf(all, S)) =
        IF more[n] \in S THEN Cardinality(PlacesOf(seq, S)) + 1 ELSE Cardinality(PlacesOf(seq, S))
  <2>1. CASE more[n] \in S
    BY <1>3, <1>4, <1>5, <2>1, FS_AddElement
  <2>2. CASE more[n] \notin S
    <3>1. PlacesOf(all, S) = PlacesOf(seq, S)
      BY <1>3, <2>2
    <3> QED BY <2>2, <3>1
  <2> QED BY <2>1, <2>2
<1> QED BY <1>6 DEF n, all

(* An element that is appended adds its place or none.                     *)
LEMMA PlacesAppend ==
    ASSUME NEW T, NEW seq \in Seq(T), NEW e \in T, NEW S
    PROVE  Cardinality(PlacesOf(Append(seq, e), S)) =
                IF e \in S THEN Cardinality(PlacesOf(seq, S)) + 1
                ELSE Cardinality(PlacesOf(seq, S))
<1> DEFINE more == <<e>>
<1>1. more \in Seq(T) /\ Len(more) = 1 /\ more[1] = e /\ seq \o more = Append(seq, e)
  OBVIOUS
<1> HIDE DEF more
<1>2. Cardinality(PlacesOf(seq \o more, S)) =
        IF more[Len(more)] \in S THEN Cardinality(PlacesOf(seq, S)) + 1
        ELSE Cardinality(PlacesOf(seq, S))
  <2>1. \A i \in 1..(Len(more) - 1) : more[i] \notin S
    BY <1>1
  <2>2. Len(more) > 0
    BY <1>1
  <2> QED BY <1>1, <2>1, <2>2, PlacesConcat
<1> QED BY <1>1, <1>2

(* There are none in the empty sequence.                                   *)
LEMMA PlacesEmpty == \A S : Cardinality(PlacesOf(<< >>, S)) = 0
<1> SUFFICES ASSUME NEW S PROVE Cardinality(PlacesOf(<< >>, S)) = 0
  OBVIOUS
<1>1. PlacesOf(<< >>, S) = {}
  BY DEF PlacesOf
<1> QED BY <1>1, FS_EmptySet

-----------------------------------------------------------------------------
(* Least and greatest numbers, and what a filter keeps                     *)

(* A least number of a set, and a greatest one. *)
LEMMA Least ==
    ASSUME NEW S \in SUBSET Nat, S # {}
    PROVE  \E x \in S : \A y \in S : x <= y
<1> DEFINE R == OpToRel(<, Nat)
<1>1. IsWellFoundedOn(R, Nat)
  BY NatLessThanWellFounded
<1>2. \A x, y \in Nat : <<y, x>> \in R <=> y < x
  BY DEF OpToRel
<1> HIDE DEF R
<1>3. PICK x \in S : \A y \in S : ~(<<y, x>> \in R)
  BY <1>1, WFMin
<1>4. \A y \in S : ~(y < x)
  BY <1>2, <1>3
<1> QED BY <1>4

(* Of a bounded set, the greatest.                                         *)
LEMMA Greatest ==
    ASSUME NEW n \in Nat, NEW S \in SUBSET (0..n), S # {}
    PROVE  \E x \in S : \A y \in S : y <= x
<1> DEFINE T == {k \in Nat : k <= n /\ n - k \in S}
<1>1. T \in SUBSET Nat /\ T # {}
  <2>1. PICK x \in S : TRUE
    OBVIOUS
  <2>2. n - x \in T
    BY <2>1
  <2> QED BY <2>2
<1>2. PICK k \in T : \A l \in T : k <= l
  <2> HIDE DEF T
  <2> QED BY <1>1, Least
<1>3. \A y \in S : n - y \in T
  OBVIOUS
<1>4. \A y \in S : y <= n - k
  <2> TAKE y \in S
  <2>1. y \in Nat /\ k \in Nat
    OBVIOUS
  <2>2. n - y \in T
    BY <1>3
  <2> HIDE DEF T
  <2>3. k <= n - y
    BY <1>2, <2>2
  <2> QED BY <2>1, <2>3
<1> QED BY <1>2, <1>4

(* A filter keeps all there are of S. *)
LEMMA FilterComplete ==
    ASSUME NEW T, NEW seq \in Seq(T), NEW S, NEW k \in 1..Len(seq), seq[k] \in S
    PROVE  \E j \in 1..Len(Filter(seq, S)) : Filter(seq, S)[j] = seq[k]
<1> DEFINE N == Len(seq)
<1>1. N \in Nat /\ N \in 0..N /\ \A n \in 1..N : seq[n] \in T
  OBVIOUS
<1>2. PICK kept \in [0..N -> Seq(T)] :
        /\ kept[0] = << >>
        /\ \A n \in 1..N : KeptStep(kept, seq, S, n)
        /\ Filter(seq, S) = kept[N]
  BY FilterRecursion
<1> HIDE DEF N
<1> DEFINE Has(n, i) == \E j \in 1..Len(kept[n]) : kept[n][j] = seq[i]
           Full == {n \in 0..N : \A i \in 1..n : seq[i] \in S => Has(n, i)}
<1>3. 0 \in Full
  BY <1>1
<1>4. ASSUME NEW n \in 1..N, n - 1 \in Full PROVE n \in Full
  <2>1. n \in 0..N /\ n - 1 \in 0..N
    BY <1>1
  <2>2. kept[n - 1] \in Seq(T) /\ seq[n] \in T
    BY <1>1, <1>2, <2>1
  <2> DEFINE old == kept[n - 1]
             longer == Append(old, seq[n])
  <2>3. Len(old) \in Nat /\ Len(longer) = Len(old) + 1 /\ longer[Len(old) + 1] = seq[n]
    BY <2>2
  <2>4. \A j \in 1..Len(old) : longer[j] = old[j]
    BY <2>2
  <2>5. kept[n] = IF seq[n] \in S THEN longer ELSE old
    BY <1>2 DEF KeptStep
  <2> HIDE DEF old, longer
  <2>6. ASSUME NEW i \in 1..n, seq[i] \in S PROVE Has(n, i)
    <3>1. CASE i = n
      <4>1. kept[n] = longer
        BY <2>5, <2>6, <3>1
      <4>2. Len(old) + 1 \in 1..Len(longer)
        BY <2>3
      <4> QED BY <2>3, <3>1, <4>1, <4>2
    <3>2. CASE i # n
      <4>1. i \in 1..(n - 1)
        BY <1>1, <3>2
      <4>2. PICK j \in 1..Len(old) : old[j] = seq[i]
        BY <1>4, <2>6, <4>1 DEF old
      <4>3. j \in 1..Len(longer) /\ longer[j] = seq[i]
        BY <2>3, <2>4, <4>2
      <4> QED BY <2>5, <4>2, <4>3
    <3> QED BY <3>1, <3>2
  <2> QED BY <2>1, <2>6
<1>5. \A n \in 0..N : n \in Full
  <2> HIDE DEF Full
  <2> QED BY <1>1, <1>3, <1>4, UpToInduction
<1>6. Has(N, k)
  BY <1>1, <1>5 DEF N
<1> QED BY <1>2, <1>6

-----------------------------------------------------------------------------
(* Flattened sequences                                                     *)

(* What the lines up to the i-th are together. *)
LEMMA FlattenRecursion ==
    ASSUME NEW T, NEW seqs \in Seq(Seq(T)), Len(seqs) > 0
    PROVE  \E g \in [0..Len(seqs) -> Seq(T)] :
              /\ g[0] = << >>
              /\ \A i \in 1..Len(seqs) : g[i] = g[i - 1] \o seqs[i]
              /\ FlattenSeq(seqs) = g[Len(seqs)]
<1> DEFINE N == Len(seqs)
           step == [n \in 1..N |-> [x \in Seq(T) |-> x \o seqs[n]]]
           Fix(k) == k = [i \in 1..N |-> IF i = 1 THEN seqs[i] ELSE k[i - 1] \o seqs[i]]
           chosen == CHOOSE k : Fix(k)
<1>1. N \in Nat /\ N >= 1 /\ \A n \in 1..N : seqs[n] \in Seq(T)
  OBVIOUS
<1>2. step \in [1..N -> [Seq(T) -> Seq(T)]]
  BY <1>1
<1>3. << >> \in Seq(T)
  OBVIOUS
<1>4. PICK g \in [0..N -> Seq(T)] : Recurs(g, N, << >>, step)
  <2> HIDE DEF step, N
  <2> QED BY <1>1, <1>2, <1>3, Recursion
<1>5. g[0] = << >> /\ \A i \in 1..N : g[i] = g[i - 1] \o seqs[i]
  <2>1. ASSUME NEW i \in 1..N PROVE g[i] = g[i - 1] \o seqs[i]
    <3> HIDE DEF N, step
    <3>1. i - 1 \in 0..N
      BY <1>1
    <3>2. g[i - 1] \in Seq(T)
      BY <1>4, <3>1
    <3>3. g[i] = step[i][g[i - 1]]
      BY <1>4 DEF Recurs
    <3>4. step[i] = [x \in Seq(T) |-> x \o seqs[i]]
      BY DEF step
    <3> QED BY <3>2, <3>3, <3>4
  <2> QED BY <1>4, <2>1 DEF Recurs
<1>6. g[1] = seqs[1]
  <2>1. \A s \in Seq(T) : << >> \o s = s
    OBVIOUS
  <2>2. g[1] = << >> \o seqs[1]
    <3>1. 1 \in 1..N /\ 1 - 1 = 0
      BY <1>1
    <3> HIDE DEF N
    <3> QED BY <1>5, <3>1
  <2> QED BY <1>1, <2>1, <2>2
<1> DEFINE h == [i \in 1..N |-> g[i]]
<1>7. Fix(h)
  <2>1. \A i \in 1..N : i # 1 => i - 1 \in 1..N
    BY <1>1
  <2>2. \A i \in 1..N : h[i] = IF i = 1 THEN seqs[i] ELSE h[i - 1] \o seqs[i]
    <3> HIDE DEF N
    <3> QED BY <1>5, <1>6, <2>1
  <2> HIDE DEF N
  <2> QED BY <2>2
<1>8. Fix(chosen)
  <2> HIDE DEF Fix, h
  <2> QED BY <1>7
<1>9. FlattenSeq(seqs) = chosen[N]
  BY DEF FlattenSeq
<1> HIDE DEF chosen, step
<1>10. \A i \in 1..N : chosen[i] = IF i = 1 THEN seqs[i] ELSE chosen[i - 1] \o seqs[i]
  <2> HIDE DEF N
  <2> QED BY <1>8
<1>11. \A n \in 0..N : n \in {m \in 0..N : m = 0 \/ chosen[m] = g[m]}
  <2> DEFINE Same == {m \in 0..N : m = 0 \/ chosen[m] = g[m]}
  <2>1. 0 \in Same
    BY <1>1
  <2>2. ASSUME NEW n \in 1..N, n - 1 \in Same PROVE n \in Same
    <3>1. chosen[n] = g[n]
      <4> HIDE DEF Same, N
      <4>1. CASE n = 1
        BY <1>6, <1>10, <4>1
      <4>2. CASE n # 1
        <5>1. n - 1 # 0
          BY <4>2
        <5>2. chosen[n - 1] = g[n - 1]
          BY <2>2, <5>1 DEF Same
        <5> QED BY <1>5, <1>10, <4>2, <5>2
      <4> QED BY <4>1, <4>2
    <3> QED BY <1>1, <3>1
  <2> HIDE DEF Same
  <2>3. \A n \in 0..N : n \in Same
    <3> HIDE DEF N
    <3> QED BY <1>1, <2>1, <2>2, UpToInduction
  <2> QED BY <2>3 DEF Same
<1>12. chosen[N] = g[N]
  BY <1>1, <1>11
<1> QED BY <1>4, <1>5, <1>9, <1>12

(* Flattened sequences have the elements' type.                            *)
LEMMA FlattenType ==
    ASSUME NEW T, NEW seqs \in Seq(Seq(T))
    PROVE  FlattenSeq(seqs) \in Seq(T)
<1>1. CASE Len(seqs) = 0
  <2>1. seqs = << >>
    BY <1>1
  <2> QED BY <1>1, <2>1 DEF FlattenSeq
<1>2. CASE Len(seqs) > 0
  <2>1. PICK g \in [0..Len(seqs) -> Seq(T)] : FlattenSeq(seqs) = g[Len(seqs)]
    BY <1>2, FlattenRecursion
  <2> QED BY <2>1
<1> QED BY <1>1, <1>2

(* What one of the lines has, they have together. *)
LEMMA FlattenHas ==
    ASSUME NEW T, NEW seqs \in Seq(Seq(T)), NEW i \in 1..Len(seqs), NEW j \in 1..Len(seqs[i])
    PROVE  \E k \in 1..Len(FlattenSeq(seqs)) : FlattenSeq(seqs)[k] = seqs[i][j]
<1> DEFINE N == Len(seqs)
           e == seqs[i][j]
<1>1. N \in Nat /\ N > 0 /\ \A n \in 1..N : seqs[n] \in Seq(T)
  OBVIOUS
<1>2. PICK g \in [0..N -> Seq(T)] :
        /\ g[0] = << >>
        /\ \A n \in 1..N : g[n] = g[n - 1] \o seqs[n]
        /\ FlattenSeq(seqs) = g[N]
  BY <1>1, FlattenRecursion
<1> HIDE DEF N
<1>3. i \in 1..N
  BY DEF N
<1> DEFINE Has(s) == \E k \in 1..Len(s) : s[k] = e
           Kept == {n \in 0..N : n >= i => Has(g[n])}
<1>4. ASSUME NEW s \in Seq(T), NEW t \in Seq(T), Has(s) PROVE Has(s \o t)
  <2>1. PICK k \in 1..Len(s) : s[k] = e
    BY <1>4
  <2> HIDE DEF e
  <2>2. k \in 1..Len(s \o t) /\ (s \o t)[k] = s[k]
    BY <2>1
  <2> QED BY <2>1, <2>2
<1>5. ASSUME NEW s \in Seq(T), NEW t \in Seq(T), NEW k \in 1..Len(t), t[k] = e PROVE Has(s \o t)
  <2> HIDE DEF e
  <2>1. Len(s) + k \in 1..Len(s \o t) /\ (s \o t)[Len(s) + k] = t[k]
    OBVIOUS
  <2> QED BY <1>5, <2>1
<1> HIDE DEF Has
<1>6. 0 \in Kept
  BY <1>1, <1>3
<1>7. ASSUME NEW n \in 1..N, n - 1 \in Kept PROVE n \in Kept
  <2>1. n \in 0..N /\ n - 1 \in 0..N
    BY <1>1
  <2>2. g[n] = g[n - 1] \o seqs[n] /\ g[n - 1] \in Seq(T) /\ seqs[n] \in Seq(T)
    BY <1>1, <1>2, <2>1
  <2>3. CASE n = i
    <3>1. j \in 1..Len(seqs[n]) /\ seqs[n][j] = e
      BY <2>3
    <3> HIDE DEF e
    <3>2. Has(g[n])
      BY <1>5, <2>2, <3>1
    <3> QED BY <2>1, <3>2
  <2>4. CASE n > i
    <3>1. n - 1 >= i
      BY <1>1, <1>3, <2>4
    <3>2. Has(g[n - 1])
      BY <1>7, <3>1
    <3>3. Has(g[n])
      BY <1>4, <2>2, <3>2
    <3> QED BY <2>1, <3>3
  <2>5. CASE n < i
    BY <1>1, <1>3, <2>1, <2>5
  <2> QED BY <1>1, <1>3, <2>3, <2>4, <2>5
<1>8. \A n \in 0..N : n \in Kept
  <2> HIDE DEF Kept
  <2> QED BY <1>1, <1>6, <1>7, UpToInduction
<1>9. Has(g[N])
  BY <1>1, <1>3, <1>8
<1> QED BY <1>2, <1>9 DEF Has

-----------------------------------------------------------------------------
(* Folds                                                                   *)

(* A fold's recursion over the sets of places, its last place first. *)
FoldsSets(k, n, X, base, step) ==
    /\ k[{}] = base
    /\ \A s \in SUBSET (1..n) :
        s # {} /\ k[s \ {Max(s)}] \in X => k[s] = step[Max(s)][k[s \ {Max(s)}]]

(* The recursion that a fold is defined by has a function.                 *)
LEMMA FoldExists ==
    ASSUME NEW N \in Nat, NEW X, NEW base \in X, NEW step \in [1..N -> [X -> X]]
    PROVE  \E g \in [SUBSET (1..N) -> X] : FoldsSets(g, N, X, base, step)
<1> DEFINE D == 1..N
           pick == [s \in SUBSET D |-> Max(s)]
           f == step
<1>1. IsFiniteSet(D) /\ f \in [D -> [X -> X]] /\ base \in X
  BY FS_Interval
<1>2. \A s \in SUBSET D : s # {} => pick[s] \in s
  BY MaxInSet
<1>3. \A s \in SUBSET D : pick[s] = Max(s)
  OBVIOUS
<1> HIDE DEF D, pick, f
<1>4. \E g \in [SUBSET D -> X] : RecursOn(g, SUBSET D, base, pick, f)
  BY <1>1, <1>2, SetRecursion
<1>5. PICK g \in [SUBSET D -> X] : RecursOn(g, SUBSET D, base, pick, f)
  BY <1>4
<1>6. g[{}] = base
  <2>1. {} \in SUBSET D
    OBVIOUS
  <2> QED BY <1>5, <2>1 DEF RecursOn
<1>7. \A s \in SUBSET D : s # {} => g[s] = f[Max(s)][g[s \ {Max(s)}]]
  BY <1>3, <1>5 DEF RecursOn
<1>8. FoldsSets(g, N, X, base, step)
  BY <1>6, <1>7 DEF FoldsSets, D, f
<1> QED BY <1>5, <1>8 DEF D

(* It is a recursion over the prefixes.                                    *)
LEMMA FoldPrefixes ==
    ASSUME NEW N \in Nat, NEW X, NEW base \in X, NEW step \in [1..N -> [X -> X]],
           NEW k, FoldsSets(k, N, X, base, step)
    PROVE  \E g \in [0..N -> X] :
              /\ Recurs(g, N, base, step)
              /\ \A n \in 0..N : g[n] = k[1..n]
<1> DEFINE g == [n \in 0..N |-> k[1..n]]
           Typed == {n \in 0..N : k[1..n] \in X}
<1>1. 0 \in Typed /\ k[1..0] = base
  <2>1. 1..0 = {}
    OBVIOUS
  <2> QED BY <2>1 DEF FoldsSets
<1>2. ASSUME NEW n \in 1..N, k[1..(n - 1)] \in X
      PROVE  k[1..n] = step[n][k[1..(n - 1)]] /\ k[1..n] \in X
  <2> DEFINE s == 1..n
  <2>1. s \in SUBSET (1..N) /\ s # {} /\ n \in s /\ \A i \in s : i <= n
    <3>1. n \in s /\ \A i \in s : i \in 1..N /\ i <= n
      OBVIOUS
    <3> HIDE DEF s
    <3> QED BY <3>1
  <2>2. Max(s) = n
    <3>1. Max(s) \in s /\ \A i \in s : Max(s) >= i
      <4>1. \E x \in s : \A y \in s : x >= y
        BY <2>1
      <4> HIDE DEF s
      <4> QED BY <4>1 DEF Max
    <3>2. Max(s) >= n /\ Max(s) <= n /\ Max(s) \in Nat
      <4>1. Max(s) \in 1..n
        BY <3>1
      <4> HIDE DEF s
      <4> QED BY <2>1, <3>1, <4>1
    <3> HIDE DEF s
    <3> QED BY <3>2
  <2>3. s \ {n} = 1..(n - 1)
    OBVIOUS
  <2> HIDE DEF s
  <2>4. k[s] = step[Max(s)][k[s \ {Max(s)}]]
    BY <1>2, <2>1, <2>2, <2>3 DEF FoldsSets
  <2>5. k[s] = step[n][k[1..(n - 1)]]
    BY <2>2, <2>3, <2>4
  <2>6. step[n] \in [X -> X]
    OBVIOUS
  <2>7. k[s] \in X
    BY <1>2, <2>5, <2>6
  <2> QED BY <2>5, <2>7 DEF s
<1>3. ASSUME NEW n \in 1..N, n - 1 \in Typed PROVE n \in Typed
  <2>1. n \in 0..N
    OBVIOUS
  <2>2. k[1..(n - 1)] \in X
    BY <1>3
  <2> QED BY <1>2, <2>1, <2>2
<1>4. \A n \in 0..N : n \in Typed
  <2> HIDE DEF Typed
  <2> QED BY <1>1, <1>3, UpToInduction
<1>5. g \in [0..N -> X] /\ \A n \in 0..N : g[n] = k[1..n]
  BY <1>4
<1>6. Recurs(g, N, base, step)
  <2>1. g[0] = base
    BY <1>1
  <2>2. ASSUME NEW i \in 1..N PROVE g[i] = step[i][g[i - 1]]
    <3>1. i \in 0..N /\ i - 1 \in 0..N
      OBVIOUS
    <3>2. k[1..(i - 1)] \in X
      BY <1>4, <3>1
    <3> HIDE DEF g
    <3> QED BY <1>2, <1>5, <3>1, <3>2
  <2> HIDE DEF g
  <2> QED BY <2>1, <2>2 DEF Recurs
<1> HIDE DEF g
<1> QED BY <1>5, <1>6
=============================================================================
