-------------------------- MODULE KeyNames_proofs ---------------------------
(***************************************************************************)
(* Theorems about KeyNames: what becomes of a key between the client, the  *)
(* host, a recording and its playback.                                     *)
(***************************************************************************)
EXTENDS KeyNames, TLAPS

Posted == [name : STRING, n : Int]

(* Whatever a client posts, the host is sent a key that it has: an unknown *)
(* name or a number out of range never gets through.                       *)
THEOREM PostedKeysAreSafe == \A posted \in Posted : NormalizeKey(posted) \in SentKeys
<1> SUFFICES ASSUME NEW posted \in Posted
             PROVE  NormalizeKey(posted) \in SentKeys
  OBVIOUS
<1>1. Enter \in SentKeys
  BY DEF Enter, SentKeys, KeyNameSet
<1>2. ASSUME posted.name \in KeyNameSet, posted.n = 0 PROVE posted \in SentKeys
  <2>1. posted = Plain(posted.name)
    BY <1>2 DEF Posted, Plain, Key
  <2> QED BY <1>2, <2>1 DEF SentKeys
<1>3. ASSUME posted.n \in 1..24 PROVE Key("PF", posted.n) \in SentKeys
  BY <1>3 DEF SentKeys
<1>4. ASSUME posted.n \in 1..3 PROVE Key("PA", posted.n) \in SentKeys
  BY <1>4 DEF SentKeys
<1> QED BY <1>1, <1>2, <1>3, <1>4 DEF NormalizeKey

(* No two plain keys share a step type. *)
LEMMA PressNamesDiffer ==
    \A a, b \in KeyNameSet : PressName[a] = PressName[b] => a = b
BY DEF KeyNameSet, PressName

LEMMA PressNameOf ==
    /\ {"Enter", "Tab", "Clear"} \subseteq KeyNameSet
    /\ PressName["Enter"] = "PressEnter"
    /\ PressName["Tab"] = "PressTab"
    /\ PressName["Clear"] = "PressClear"
<1>1. {"Enter", "Tab", "Clear"} \subseteq KeyNameSet
  BY DEF KeyNameSet
<1> QED BY <1>1 DEF PressName

(* A plain key's step is none of the numbered ones, and leads back to it.  *)
LEMMA PlainKeyForStep ==
    \A name \in KeyNameSet : KeyForStep(Plain(PressName[name])) = Plain(name)
<1> SUFFICES ASSUME NEW name \in KeyNameSet
             PROVE  KeyForStep(Plain(PressName[name])) = Plain(name)
  OBVIOUS
<1> DEFINE step == Plain(PressName[name])
<1>1. step.name = PressName[name] /\ step.n = 0
  BY DEF Plain, Key
<1>2. 0 \notin 1..24 /\ 0 \notin 1..3
  OBVIOUS
<1>3. (CHOOSE a \in KeyNameSet : PressName[a] = step.name) = name
  BY <1>1, PressNamesDiffer
<1> HIDE DEF step
<1>4. KeyForStep(step) = Plain(CHOOSE a \in KeyNameSet : PressName[a] = step.name)
  BY <1>1, <1>2 DEF KeyForStep
<1> QED BY <1>3, <1>4 DEF step

LEMMA FunctionKeyForStep ==
    \A n \in 1..24 : KeyForStep(Key("PressPF", n)) = Key("PF", n)
BY DEF KeyForStep, Key

LEMMA AttentionKeyForStep ==
    \A n \in 1..3 : KeyForStep(Key("PressPA", n)) = Key("PA", n)
BY DEF KeyForStep, Key

(* A sent key is a plain one or a numbered one. *)
LEMMA SentKeyForms ==
    ASSUME NEW k \in SentKeys
    PROVE  \/ \E name \in KeyNameSet : k = Plain(name)
           \/ \E n \in 1..24 : k = Key("PF", n)
           \/ \E n \in 1..3 : k = Key("PA", n)
BY DEF SentKeys

(* A recorded key is played back as the key that was pressed: recording    *)
(* and playback translate with two tables that are kept by hand.           *)
THEOREM RecordedKeysReplay ==
    \A k \in SentKeys : StepForKey(k) # NoStep => KeyForStep(StepForKey(k)) = k
<1> SUFFICES ASSUME NEW k \in SentKeys, StepForKey(k) # NoStep
             PROVE  KeyForStep(StepForKey(k)) = k
  OBVIOUS
<1>1. CASE k = Enter
  <2>1. StepForKey(k) = Plain(PressName["Enter"])
    BY <1>1, PressNameOf DEF StepForKey, Enter, Plain, Key
  <2> QED BY <1>1, <2>1, PlainKeyForStep, PressNameOf DEF Enter
<1>2. CASE k = Plain("Tab")
  <2>1. StepForKey(k) = Plain(PressName["Tab"])
    BY <1>2, PressNameOf DEF StepForKey, Enter, Plain, Key
  <2> QED BY <1>2, <2>1, PlainKeyForStep, PressNameOf
<1>3. CASE \E n \in 1..24 : k = Key("PF", n)
  <2>1. PICK n \in 1..24 : k = Key("PF", n)
    BY <1>3
  <2>2. StepForKey(k) = Key("PressPF", n)
    BY <2>1 DEF StepForKey, Enter, Plain, Key
  <2> QED BY <2>1, <2>2, FunctionKeyForStep
<1>4. CASE k # Enter /\ k # Plain("Tab") /\ ~\E n \in 1..24 : k = Key("PF", n)
  <2>1. ~(k.name = "PF" /\ k.n \in 1..24)
    <3>1. CASE \E name \in KeyNameSet : k = Plain(name)
      BY <3>1 DEF Plain, Key, KeyNameSet
    <3>2. CASE \E n \in 1..3 : k = Key("PA", n)
      BY <3>2 DEF Key
    <3> QED BY <1>4, <3>1, <3>2, SentKeyForms
  <2>2. StepForKey(k) = NoStep
    BY <1>4, <2>1 DEF StepForKey
  <2> QED BY <2>2
<1> QED BY <1>1, <1>2, <1>3, <1>4

(* The workflow a chaos run exports presses the keys the run has pressed,  *)
(* if they are among those its weights are meant for; every other key is   *)
(* exported as Enter.                                                      *)
THEOREM ExportedKeysReplay ==
    \A k \in SentKeys :
        KeyForStep(ExportedStep(k)) =
            IF k.name \in {"Enter", "Clear", "Tab", "PF", "PA"} THEN k ELSE Enter
<1> SUFFICES ASSUME NEW k \in SentKeys
             PROVE  KeyForStep(ExportedStep(k)) =
                        IF k.name \in {"Enter", "Clear", "Tab", "PF", "PA"} THEN k ELSE Enter
  OBVIOUS
<1>1. ASSUME NEW name \in KeyNameSet, k = Plain(name)
      PROVE  KeyForStep(ExportedStep(k)) =
                 IF k.name \in {"Enter", "Clear", "Tab", "PF", "PA"} THEN k ELSE Enter
  <2>1. k.name = name /\ k.n = 0 /\ name \notin {"PF", "PA"}
    BY <1>1 DEF Plain, Key, KeyNameSet
  <2>2. CASE name \in {"Enter", "Clear", "Tab"}
    <3>1. ExportedStep(k) = Plain(PressName[name])
      BY <2>1, <2>2, PressNameOf DEF ExportedStep
    <3> QED BY <1>1, <2>1, <2>2, <3>1, PlainKeyForStep
  <2>3. CASE name \notin {"Enter", "Clear", "Tab"}
    <3>1. ExportedStep(k) = Plain(PressName["Enter"])
      BY <2>1, <2>3, PressNameOf DEF ExportedStep
    <3> QED BY <2>1, <2>3, <3>1, PlainKeyForStep, PressNameOf DEF Enter
  <2> QED BY <2>2, <2>3
<1>2. ASSUME NEW n \in 1..24, k = Key("PF", n)
      PROVE  KeyForStep(ExportedStep(k)) = k
  <2>1. ExportedStep(k) = Key("PressPF", n)
    BY <1>2 DEF ExportedStep, Key
  <2> QED BY <1>2, <2>1, FunctionKeyForStep
<1>3. ASSUME NEW n \in 1..3, k = Key("PA", n)
      PROVE  KeyForStep(ExportedStep(k)) = k
  <2>1. ExportedStep(k) = Key("PressPA", n)
    BY <1>3 DEF ExportedStep, Key
  <2> QED BY <1>3, <2>1, AttentionKeyForStep
<1> QED BY <1>1, <1>2, <1>3, SentKeyForms DEF Key

(* The second form of a key that s3270 refused is the form of no other key.*)
THEOREM KeySpecsDiffer == \A j, k \in SentKeys : KeySpec(j) = KeySpec(k) => j = k
<1> SUFFICES ASSUME NEW j \in SentKeys, NEW k \in SentKeys, KeySpec(j) = KeySpec(k)
             PROVE  j = k
  OBVIOUS
<1>1. ASSUME NEW i \in SentKeys
      PROVE  /\ i = Key(i.name, i.n)
             /\ i.name \notin {"PFn", "PAn"}
  BY <1>1, SentKeyForms DEF Key, Plain, KeyNameSet
<1>2. ASSUME NEW i \in SentKeys
      PROVE  KeySpec(i) = Key(IF i.name = "PF" THEN "PFn" ELSE IF i.name = "PA" THEN "PAn" ELSE i.name, i.n)
  BY <1>1, <1>2 DEF KeySpec
<1> QED BY <1>1, <1>2 DEF Key
=============================================================================
