-------------------------- MODULE Recording_proofs --------------------------
(***************************************************************************)
(* Theorems about Recording, for any number of requests, temporary files,  *)
(* keys and gaps between them.                                             *)
(***************************************************************************)
EXTENDS Recording, KeyNames_proofs, DataTheorems, TLAPS

-----------------------------------------------------------------------------
(* What is recorded                                                        *)

LEMMA FillsType ==
    ASSUME NEW S, FillSteps \subseteq S
    PROVE  Changes \subseteq Seq(S)
<1> SUFFICES ASSUME NEW changed \in Changes PROVE changed \in Seq(S)
  OBVIOUS
<1>1. CASE changed = << >>
  BY <1>1
<1>2. ASSUME NEW fill \in FillSteps, changed = <<fill>> PROVE changed \in Seq(S)
  <2>1. fill \in S
    OBVIOUS
  <2>2. <<fill>> \in Seq(S)
    BY <2>1
  <2> QED BY <1>2, <2>2
<1> QED BY <1>1, <1>2 DEF Changes

LEMMA FillForms ==
    ASSUME NEW fill \in FillSteps
    PROVE  /\ fill.name = "FillString"
           /\ fill.text \in Texts \cup {NoText}
           /\ fill = Fill(fill.text)
BY DEF FillSteps, Fill

(* No key is recorded as a connection or as a text. *)
LEMMA KeyStepNames ==
    \A k : StepForKey(k) \notin {Connect, Disconnect} \cup FillSteps
<1> SUFFICES ASSUME NEW k PROVE StepForKey(k) \notin {Connect, Disconnect} \cup FillSteps
  OBVIOUS
<1>1. StepForKey(k).name \in {"PressEnter", "PressTab", "PressPF", ""}
  BY DEF StepForKey, NoStep, Plain, Key
<1>2. Connect.name = "Connect" /\ Disconnect.name = "Disconnect"
  BY DEF Connect, Disconnect, Plain, Key
<1> QED BY <1>1, <1>2, FillForms

LEMMA KeyStepRecorded ==
    \A k \in Keys : StepForKey(k) # NoStep => StepForKey(k) \in RecordedSteps
BY KeysAssumption DEF RecordedSteps

LEMMA NoKeyNoStep == StepForKey(NoKey) = NoStep
BY DEF StepForKey, NoKey, NoStep, Enter, Plain, Key

LEMMA SomeSteps ==
    /\ {Connect, Disconnect} \cup FillSteps \subseteq RecordedSteps
    /\ Connect # Disconnect
    /\ Connect \notin FillSteps
    /\ Disconnect \notin FillSteps
<1>1. Connect.name = "Connect" /\ Disconnect.name = "Disconnect"
  BY DEF Connect, Disconnect, Plain, Key
<1>2. Connect \notin FillSteps /\ Disconnect \notin FillSteps
  BY <1>1, FillForms
<1> QED BY <1>1, <1>2 DEF RecordedSteps

(* A key is recorded at the end, if it is, and keeps the delays ordered.   *)
LEMMA TickType ==
    ASSUME NEW rec \in RecordingState, NEW gap \in Nat
    PROVE  /\ Tick(rec, gap) \in RecordingState
           /\ Tick(rec, gap).steps = rec.steps
           /\ Tick(rec, gap).file = rec.file
           /\ Tick(rec, gap).active = rec.active
           /\ (rec.min <= rec.max => Tick(rec, gap).min <= Tick(rec, gap).max)
<1> USE DEF RecordingState
<1>1. CASE rec.ticking /\ gap > 0
  <2> DEFINE least == IF rec.samples = 0 \/ gap < rec.min THEN gap ELSE rec.min
             most == IF rec.samples = 0 \/ gap > rec.max THEN gap ELSE rec.max
  <2>1. Tick(rec, gap) = [rec EXCEPT !.min = least, !.max = most, !.samples = rec.samples + 1]
    BY <1>1 DEF Tick
  <2>2. least \in Nat /\ most \in Nat /\ (rec.min <= rec.max => least <= most)
    OBVIOUS
  <2> HIDE DEF least, most
  <2>3. Tick(rec, gap) \in RecordingState
    <3>1. Tick(rec, gap) =
            [active |-> rec.active, steps |-> rec.steps, file |-> rec.file,
             samples |-> rec.samples + 1, min |-> least, max |-> most,
             ticking |-> rec.ticking]
      BY <2>1
    <3>2. rec.samples + 1 \in Nat
      OBVIOUS
    <3> QED BY <2>2, <3>1, <3>2
  <2>4. /\ Tick(rec, gap).steps = rec.steps
        /\ Tick(rec, gap).file = rec.file
        /\ Tick(rec, gap).active = rec.active
        /\ Tick(rec, gap).min = least
        /\ Tick(rec, gap).max = most
    BY <2>1
  <2> QED BY <2>2, <2>3, <2>4
<1>2. CASE ~(rec.ticking /\ gap > 0)
  BY <1>2 DEF Tick
<1> QED BY <1>1, <1>2

(* What the submit does to the recording: it appends to the steps of one   *)
(* that is active, and only steps of the user's input.                     *)
LEMMA SubmitRecords ==
    ASSUME TypeOK, NEW k \in Keys, NEW gap \in Gaps,
           RecordKey(k, gap), recording' # recording
    PROVE  /\ IsRecording
           /\ StepForKey(k) \in RecordedSteps \ ({Connect, Disconnect} \cup FillSteps)
           /\ recording' = [Tick(recording, gap) EXCEPT
                              !.steps = Append(recording.steps, StepForKey(k))]
           /\ recording' \in RecordingState
           /\ recording'.steps = Append(recording.steps, StepForKey(k))
           /\ recording'.file = recording.file
           /\ recording'.active = recording.active
           /\ (recording.min <= recording.max => recording'.min <= recording'.max)
<1>1. /\ IsRecording
      /\ StepForKey(k) # NoStep
      /\ recording' = [Tick(recording, gap) EXCEPT !.steps = Append(@, StepForKey(k))]
  BY DEF RecordKey
<1>2. recording \in RecordingState /\ gap \in Nat
  BY <1>1, GapsAssumption DEF IsRecording, TypeOK
<1>3. StepForKey(k) \in RecordedSteps \ ({Connect, Disconnect} \cup FillSteps)
  BY <1>1, KeyStepNames, KeyStepRecorded
<1>4. /\ Tick(recording, gap) \in RecordingState
      /\ Tick(recording, gap).steps = recording.steps
      /\ Tick(recording, gap).file = recording.file
      /\ Tick(recording, gap).active = recording.active
      /\ (recording.min <= recording.max => Tick(recording, gap).min <= Tick(recording, gap).max)
  BY <1>2, TickType
<1>5. Append(recording.steps, StepForKey(k)) \in Seq(RecordedSteps)
  BY <1>2, <1>3 DEF RecordingState
<1> QED BY <1>1, <1>3, <1>4, <1>5 DEF RecordingState

-----------------------------------------------------------------------------
(* What the host is given, and what is replayed                            *)

Sendable == {Erase} \cup Texts \cup Keys

LEMMA EraseNotGiven == Erase \notin Given
<1>1. Erase \notin SentKeys
  BY DEF Erase, SentKeys, KeyNameSet, Plain, Key
<1> QED BY <1>1, TextsAssumption DEF Given

LEMMA SentTypes ==
    /\ \A fill \in FillSteps : Sent(fill) \in Seq(Sendable)
    /\ \A k \in Keys \cup {NoKey} : SentKey(k) \in Seq(Keys)
    /\ SentKey(NoKey) = << >>
<1>1. ASSUME NEW fill \in FillSteps PROVE Sent(fill) \in Seq(Sendable)
  <2>1. Erase \in Sendable /\ (fill.text # NoText => fill.text \in Sendable)
    BY FillForms DEF Sendable
  <2>2. CASE fill.text = NoText
    <3>1. <<Erase>> \in Seq(Sendable)
      BY <2>1
    <3> QED BY <2>2, <3>1 DEF Sent
  <2>3. CASE fill.text # NoText
    <3>1. <<Erase, fill.text>> \in Seq(Sendable)
      BY <2>1, <2>3
    <3> QED BY <2>3, <3>1 DEF Sent
  <2> QED BY <2>2, <2>3
<1>2. ASSUME NEW k \in Keys \cup {NoKey} PROVE SentKey(k) \in Seq(Keys)
  BY NoKeyNoStep DEF SentKey
<1> QED BY <1>1, <1>2, NoKeyNoStep DEF SentKey

(* Whatever is recorded of the user's input is played back as it was given.*)
LEMMA InputsReplayed ==
    /\ Fill(NoText) \notin Inputs
    /\ \A text \in Texts : Fill(text) \in Inputs /\ Replayed(Fill(text)) = text
    /\ \A k \in SentKeys : StepForKey(k) # NoStep =>
            StepForKey(k) \in Inputs /\ Replayed(StepForKey(k)) = k
    /\ \A step \in Inputs : Replayed(step) \in Given
<1>1. ASSUME NEW text \in Texts
      PROVE  /\ Fill(text) \in FillSteps
             /\ Fill(text) # Fill(NoText)
             /\ Replayed(Fill(text)) = text
  <2>1. Fill(text).text = text /\ Fill(NoText).text = NoText /\ Fill(text).name = "FillString"
    BY DEF Fill
  <2>2. text # NoText
    BY TextsAssumption
  <2> QED BY <2>1, <2>2 DEF FillSteps, Replayed
<1>2. ASSUME NEW text \in Texts PROVE Fill(text) \in Inputs
  BY <1>1, SomeSteps DEF Inputs
<1>3. ASSUME NEW k \in SentKeys, StepForKey(k) # NoStep
      PROVE  StepForKey(k) \in Inputs /\ Replayed(StepForKey(k)) = k
  <2>1. StepForKey(k).name \in {"PressEnter", "PressTab", "PressPF", ""}
    BY DEF StepForKey, NoStep, Plain, Key
  <2>2. StepForKey(k) \in RecordedSteps
    BY <1>3 DEF RecordedSteps
  <2>3. Fill(NoText) \in FillSteps
    BY DEF FillSteps
  <2>4. Replayed(StepForKey(k)) = KeyForStep(StepForKey(k))
    BY <2>1 DEF Replayed
  <2> QED BY <1>3, <2>2, <2>3, <2>4, KeyStepNames, RecordedKeysReplay DEF Inputs
<1>4. ASSUME NEW step \in Inputs PROVE Replayed(step) \in Given
  <2>1. CASE step \in FillSteps
    BY <1>1, <2>1, FillForms DEF Inputs, Given
  <2>2. CASE \E k \in SentKeys : step = StepForKey(k) /\ StepForKey(k) # NoStep
    BY <1>3, <2>2 DEF Given
  <2> QED BY <2>1, <2>2 DEF Inputs, RecordedSteps
<1> QED BY <1>1, <1>2, <1>3, <1>4 DEF Inputs

LEMMA ReplayType ==
    ASSUME NEW steps \in Seq(RecordedSteps)
    PROVE  Replay(steps) \in Seq(Given)
<1> DEFINE inputs == Filter(steps, Inputs)
<1>1. inputs \in Seq(RecordedSteps) /\ Len(inputs) \in Nat
  BY FilterType
<1>2. \A i \in 1..Len(inputs) : inputs[i] \in Inputs
  BY FilterIndices
<1> HIDE DEF inputs
<1>3. [i \in 1..Len(inputs) |-> Replayed(inputs[i])] \in Seq(Given)
  BY <1>1, <1>2, InputsReplayed
<1> QED BY <1>3 DEF Replay, inputs

LEMMA ReplayOfNone == Replay(<< >>) = << >>
<1>1. Len(Filter(<< >>, Inputs)) = 0
  BY FilterEmpty
<1>2. [i \in 1..0 |-> Replayed(Filter(<< >>, Inputs)[i])] = << >>
  OBVIOUS
<1> QED BY <1>1, <1>2 DEF Replay

(* A step that is recorded is replayed last, if it is the user's input.    *)
LEMMA ReplayAppend ==
    ASSUME NEW steps \in Seq(RecordedSteps), NEW step \in RecordedSteps
    PROVE  /\ step \in Inputs =>
                Replay(Append(steps, step)) = Append(Replay(steps), Replayed(step))
           /\ step \notin Inputs => Replay(Append(steps, step)) = Replay(steps)
<1> DEFINE kept == Filter(steps, Inputs)
<1>1. /\ kept \in Seq(RecordedSteps)
      /\ Filter(Append(steps, step), Inputs) = IF step \in Inputs THEN Append(kept, step) ELSE kept
  <2>1. Filter(steps, Inputs) \in Seq(RecordedSteps)
    BY FilterAppend
  <2>2. Filter(Append(steps, step), Inputs) =
            IF step \in Inputs THEN Append(Filter(steps, Inputs), step) ELSE Filter(steps, Inputs)
    BY FilterAppend
  <2> QED BY <2>1, <2>2
<1> HIDE DEF kept
<1>2. Replay(steps) = [i \in 1..Len(kept) |-> Replayed(kept[i])]
  BY DEF Replay, kept
<1>3. CASE step \in Inputs
  <2>1. Replay(Append(steps, step)) =
            [i \in 1..Len(Append(kept, step)) |-> Replayed(Append(kept, step)[i])]
    BY <1>1, <1>3 DEF Replay
  <2>2. Len(kept) \in Nat /\ Len(Append(kept, step)) = Len(kept) + 1
    BY <1>1
  <2>3. \A i \in 1..(Len(kept) + 1) :
            Append(kept, step)[i] = IF i = Len(kept) + 1 THEN step ELSE kept[i]
    BY <1>1
  <2>4. Replay(Append(steps, step)) =
            [i \in 1..(Len(kept) + 1) |->
                IF i = Len(kept) + 1 THEN Replayed(step) ELSE Replayed(kept[i])]
    BY <2>1, <2>2, <2>3
  <2>5. Append(Replay(steps), Replayed(step)) =
            [i \in 1..(Len(kept) + 1) |->
                IF i = Len(kept) + 1 THEN Replayed(step) ELSE Replayed(kept[i])]
    BY <1>2, <2>2
  <2> QED BY <1>3, <2>4, <2>5
<1>4. CASE step \notin Inputs
  BY <1>1, <1>2, <1>4 DEF Replay
<1> QED BY <1>3, <1>4

LEMMA FreshReplay == Replay(<<Connect>>) = << >>
<1>1. Connect \notin Inputs /\ Connect \in RecordedSteps
  BY SomeSteps DEF Inputs
<1>2. Append(<< >>, Connect) = <<Connect>> /\ << >> \in Seq(RecordedSteps)
  OBVIOUS
<1>3. Replay(Append(<< >>, Connect)) = Replay(<< >>)
  BY <1>1, <1>2, ReplayAppend
<1> QED BY <1>2, <1>3, ReplayOfNone

(* A changed field gives its text, if it has one. *)
LEMMA ReplayOfFill ==
    ASSUME NEW fill \in FillSteps
    PROVE  Replay(<<fill>>) = IF fill.text = NoText THEN << >> ELSE <<fill.text>>
<1>1. fill \in RecordedSteps /\ << >> \in Seq(RecordedSteps) /\ Append(<< >>, fill) = <<fill>>
  BY SomeSteps
<1>2. fill = Fill(fill.text) /\ fill.text \in Texts \cup {NoText}
  BY FillForms
<1>3. CASE fill.text = NoText
  <2>1. fill \notin Inputs
    BY <1>2, <1>3, InputsReplayed
  <2> QED BY <1>1, <1>3, <2>1, ReplayAppend, ReplayOfNone
<1>4. CASE fill.text # NoText
  <2>1. fill \in Inputs /\ Replayed(fill) = fill.text
    BY <1>2, <1>4, InputsReplayed
  <2>2. Replay(Append(<< >>, fill)) = Append(<< >>, fill.text)
    BY <1>1, <2>1, ReplayAppend, ReplayOfNone
  <2> QED BY <1>1, <1>4, <2>2
<1> QED BY <1>3, <1>4

LEMMA PendingType ==
    ASSUME fills \in Changes, key \in Keys \cup {NoKey}
    PROVE  /\ Replay(fills) \in Seq(Texts)
           /\ Pending \in Seq(Texts \cup Keys)
           /\ key = NoKey => Pending = Replay(fills)
           /\ fills = << >> => Pending = SentKey(key)
<1>1. Replay(fills) \in Seq(Texts)
  <2>1. CASE fills = << >>
    <3>1. Replay(fills) = << >>
      BY <2>1, ReplayOfNone DEF Replay
    <3> QED BY <3>1
  <2>2. ASSUME NEW fill \in FillSteps, fills = <<fill>> PROVE Replay(fills) \in Seq(Texts)
    <3>1. Replay(fills) = IF fill.text = NoText THEN << >> ELSE <<fill.text>>
      BY <2>2, ReplayOfFill DEF Replay
    <3>2. fill.text # NoText => fill.text \in Texts
      BY FillForms
    <3>3. CASE fill.text = NoText
      BY <3>1, <3>3
    <3>4. CASE fill.text # NoText
      <4>1. <<fill.text>> \in Seq(Texts)
        BY <3>2, <3>4
      <4> QED BY <3>1, <3>4, <4>1
    <3> QED BY <3>3, <3>4
  <2> QED BY <2>1, <2>2 DEF Changes
<1>2. SentKey(key) \in Seq(Keys)
  BY SentTypes
<1>3. Replay(fills) \in Seq(Texts \cup Keys) /\ SentKey(key) \in Seq(Texts \cup Keys)
  BY <1>1, <1>2
<1>4. key = NoKey => Pending = Replay(fills)
  BY <1>3, SentTypes DEF Pending
<1>5. fills = << >> => Pending = SentKey(key)
  BY <1>3, ReplayOfNone DEF Pending
<1> QED BY <1>1, <1>3, <1>4, <1>5 DEF Pending

-----------------------------------------------------------------------------
(* The types                                                               *)

SendHasKey == submit = "send" => key \in Keys

(* Whatever file the recording or a handler knows of was written. *)
KnownWritten ==
    /\ Shown # NoFile => file[Shown] # "unwritten"
    /\ \A r \in Requests : path[r] # NoFile => file[path[r]] # "unwritten"

TypeInv == TypeOK /\ SendHasKey /\ KnownWritten

LEMMA InitTypeInv == Init => TypeInv
<1> SUFFICES ASSUME Init PROVE TypeInv
  OBVIOUS
<1>1. fills \in Changes /\ typed \in Seq(Sendable) /\ early \in Seq(Texts \cup Keys)
  BY DEF Init, Changes
<1>2. TypeOK
  BY <1>1 DEF Init, TypeOK, Sendable
<1>3. SendHasKey /\ KnownWritten
  BY DEF Init, SendHasKey, KnownWritten, Shown
<1> QED BY <1>2, <1>3 DEF TypeInv

LEMMA ReplyType ==
    ASSUME TypeInv, NEW r \in Requests, NEW here, Reply(r, here)
    PROVE  /\ pc' = [pc EXCEPT ![r] = "idle"]
           /\ path' \in [Requests -> Files \cup {NoFile}]
           /\ path' = [path EXCEPT ![r] = NoFile]
           /\ wf' \in [Requests -> Workflow \cup {NoWorkflow}]
           /\ wf' = [wf EXCEPT ![r] = NoWorkflow]
BY DEF TypeInv, TypeOK, Reply, Step

(* The file name is all that handlers change of a recording they keep. *)
LEMMA FileNameType ==
    ASSUME TypeOK, recording # NoRecording, NEW f \in Files \cup {NoFile}, NEW a \in BOOLEAN
    PROVE  /\ [recording EXCEPT !.file = f] \in RecordingState
           /\ [recording EXCEPT !.active = a, !.file = f] \in RecordingState
BY DEF TypeOK, RecordingState

LEMMA StepsType ==
    ASSUME TypeOK, recording # NoRecording, NEW steps \in Seq(RecordedSteps)
    PROVE  LET appended == [recording EXCEPT !.steps = steps]
           IN  /\ appended \in RecordingState
               /\ appended # NoRecording
               /\ appended.steps = steps
               /\ appended.file = recording.file
               /\ appended.active = recording.active
               /\ appended.min = recording.min
               /\ appended.max = recording.max
BY NoRecordingAssumption DEF TypeOK, RecordingState

(* A removed file was written: os.CreateTemp never draws its name again. *)
LEMMA DeleteType ==
    ASSUME TypeInv, NEW r \in Requests, DeleteFile(r)
    PROVE  /\ file' \in [Files -> {"unwritten", "present", "removed"}]
           /\ \A f \in Files : file'[f] # "unwritten" <=> file[f] # "unwritten"
BY NoFileAssumption DEF TypeInv, TypeOK, KnownWritten, DeleteFile

LEMMA ShownType == TypeOK => Shown \in Files \cup {NoFile}
BY DEF TypeOK, Shown, RecordingState

LEMMA StartType ==
    ASSUME TypeInv, NEW r \in Requests,
           StartReceive(r) \/ StartDelete(r) \/ StartRecord(r) \/ StartRefuse(r)
    PROVE  TypeOK' /\ SendHasKey'
<1> USE DEF TypeInv, TypeOK, SendHasKey, diskVars, requestVars, submitVars
<1>1. CASE StartReceive(r)
  BY <1>1, ShownType, FileNameType DEF StartReceive, Step, TakeFile
<1>2. CASE StartDelete(r)
  BY <1>2, DeleteType DEF StartDelete, Step
<1>3. CASE StartRecord(r)
  <2>1. Fresh \in RecordingState
    BY SomeSteps DEF Fresh, RecordingState
  <2>2. typed' \in Seq({Erase} \cup Texts \cup Keys) /\ early' \in Seq(Texts \cup Keys)
    BY <1>3, PendingType DEF StartRecord
  <2> QED BY <1>3, <2>1, <2>2, ReplyType DEF StartRecord
<1>4. CASE StartRefuse(r)
  BY <1>4, ReplyType DEF StartRefuse
<1> QED BY <1>1, <1>2, <1>3, <1>4

(* A delay in tenths of a millisecond is rounded to a natural number. *)
LEMMA RoundDelayNat == \A v \in Nat : RoundDelay(v) \in Nat
BY DEF RoundDelay

LEMMA BuiltWorkflow ==
    ASSUME TypeOK, IsRecording, NEW steps \in Seq(RecordedSteps)
    PROVE  /\ BuildWorkflow(steps) \in Workflow
           /\ BuildWorkflow(steps).steps = steps
BY RoundDelayNat DEF TypeOK, IsRecording, BuildWorkflow, Workflow, RecordingState

LEMMA StopType ==
    ASSUME TypeInv, NEW r \in Requests,
           StopReceive(r) \/ StopWrite(r) \/ StopFail(r) \/ StopStore(r)
    PROVE  TypeOK' /\ SendHasKey'
<1> USE DEF TypeInv, TypeOK, SendHasKey, diskVars, requestVars, submitVars
<1>1. CASE StopReceive(r)
  <2> DEFINE steps == Append(recording.steps, Disconnect)
  <2>1. IsRecording /\ recording \in RecordingState
    BY <1>1 DEF StopReceive, IsRecording
  <2>2. steps \in Seq(RecordedSteps)
    BY <2>1, SomeSteps DEF RecordingState
  <2>3. [recording EXCEPT !.steps = steps] \in RecordingState
    BY <2>1, <2>2, StepsType DEF IsRecording
  <2>4. BuildWorkflow(steps) \in Workflow
    BY <2>1, <2>2, BuiltWorkflow
  <2>5. /\ recording' = [recording EXCEPT !.steps = steps]
        /\ wf' = [wf EXCEPT ![r] = BuildWorkflow(steps)]
        /\ pc' = [pc EXCEPT ![r] = "stop_write"]
        /\ UNCHANGED <<sessionLive, diskVars, path, submitVars>>
    BY <1>1 DEF StopReceive, Step
  <2> HIDE DEF steps
  <2> QED BY <2>3, <2>4, <2>5, NoWorkflowAssumption
<1>2. CASE StopWrite(r)
  <2>1. PICK f \in Files :
          /\ file[f] = "unwritten"
          /\ file' = [file EXCEPT ![f] = "present"]
          /\ content' = [content EXCEPT ![f] = wf[r]]
          /\ path' = [path EXCEPT ![r] = f]
          /\ wf' = [wf EXCEPT ![r] = NoWorkflow]
    BY <1>2 DEF StopWrite
  <2>2. /\ pc[r] = "stop_write"
        /\ pc' = [pc EXCEPT ![r] = "stop_store"]
        /\ UNCHANGED <<sessionLive, recording, submitVars>>
    BY <1>2 DEF StopWrite, Step
  <2> QED BY <2>1, <2>2, NoFileAssumption
<1>3. CASE StopFail(r)
  BY <1>3, ReplyType DEF StopFail
<1>4. CASE StopStore(r)
  BY <1>4, ReplyType, FileNameType DEF StopStore
<1> QED BY <1>1, <1>2, <1>3, <1>4

LEMMA OtherType ==
    ASSUME TypeInv, NEW r \in Requests,
           \/ DownloadReceive(r) \/ DownloadDelete(r) \/ DownloadForget(r) \/ RemoveWorkflow(r)
           \/ DisconnectReceive(r) \/ DisconnectDelete(r) \/ DisconnectSession(r)
    PROVE  TypeOK' /\ SendHasKey'
<1> USE DEF TypeInv, TypeOK, SendHasKey, diskVars, requestVars, submitVars
<1>1. CASE DownloadReceive(r)
  BY <1>1, ShownType DEF DownloadReceive, Step
<1>2. CASE DownloadDelete(r)
  BY <1>2, DeleteType DEF DownloadDelete, Step
<1>3. CASE DownloadForget(r)
  BY <1>3, ReplyType, FileNameType DEF DownloadForget
<1>4. CASE RemoveWorkflow(r)
  BY <1>4 DEF RemoveWorkflow, Step
<1>5. CASE DisconnectReceive(r)
  BY <1>5, ShownType, FileNameType DEF DisconnectReceive, Step, TakeFile
<1>6. CASE DisconnectDelete(r)
  BY <1>6, DeleteType DEF DisconnectDelete, Step
<1>7. CASE DisconnectSession(r)
  BY <1>7, ReplyType DEF DisconnectSession
<1> QED BY <1>1, <1>2, <1>3, <1>4, <1>5, <1>6, <1>7

LEMMA AppendedSteps ==
    ASSUME TypeOK, NEW steps \in Changes, AppendSteps(steps), IsRecording
    PROVE  /\ recording' \in RecordingState
           /\ recording' # NoRecording
           /\ recording'.steps = recording.steps \o steps
           /\ recording'.file = recording.file
           /\ recording'.active = recording.active
           /\ recording'.min = recording.min
           /\ recording'.max = recording.max
<1>1. recording \in RecordingState /\ recording # NoRecording
  BY DEF TypeOK, IsRecording
<1>2. steps \in Seq(RecordedSteps) /\ recording.steps \in Seq(RecordedSteps)
  BY <1>1, FillsType, SomeSteps DEF RecordingState
<1>3. recording.steps \o steps \in Seq(RecordedSteps)
  BY <1>2
<1>4. recording' = [recording EXCEPT !.steps = recording.steps \o steps]
  BY DEF AppendSteps
<1> QED BY <1>1, <1>3, <1>4, StepsType

LEMMA SubmitType ==
    ASSUME TypeInv, Submit
    PROVE  TypeOK' /\ SendHasKey'
<1> USE DEF TypeInv, TypeOK, SendHasKey, diskVars, requestVars, submitVars, SubmitStep
<1>1. CASE SubmitFields
  <2>1. PICK changed \in Changes : fills' = changed /\ AppendSteps(changed)
    BY <1>1 DEF SubmitFields
  <2>2. recording' \in RecordingState \cup {NoRecording}
    <3>1. CASE ~IsRecording
      BY <2>1, <3>1 DEF AppendSteps
    <3>2. CASE IsRecording
      BY <2>1, <3>2, AppendedSteps
    <3> QED BY <3>1, <3>2
  <2> QED BY <1>1, <2>1, <2>2 DEF SubmitFields
<1>2. CASE SubmitScreen
  <2>1. ASSUME NEW fill \in FillSteps, fills = <<fill>>
        PROVE  typed' \in Seq(Sendable)
    <3>1. typed' = typed \o Sent(fill)
      BY <1>2, <2>1 DEF SubmitScreen
    <3> QED BY <3>1, SentTypes DEF Sendable
  <2>2. typed' \in Seq(Sendable)
    BY <1>2, <2>1 DEF SubmitScreen, Changes, Sendable
  <2>3. << >> \in Changes
    BY DEF Changes
  <2> QED BY <1>2, <2>2, <2>3 DEF SubmitScreen, Sendable
<1>3. CASE ScreenRefresh
  BY <1>3 DEF ScreenRefresh, Changes
<1>4. CASE SubmitKey
  <2>1. PICK k \in Keys, gap \in Gaps : key' = k /\ RecordKey(k, gap)
    BY <1>4 DEF SubmitKey
  <2>2. recording' \in RecordingState \cup {NoRecording}
    BY <2>1, SubmitRecords
  <2> QED BY <1>4, <2>1, <2>2 DEF SubmitKey
<1>5. CASE SubmitSend
  <2>1. SentKey(key) \in Seq(Keys) /\ typed' = typed \o SentKey(key)
    BY <1>5, SentTypes DEF SubmitSend
  <2> QED BY <1>5, <2>1 DEF SubmitSend
<1>6. CASE SubmitFail
  BY <1>6 DEF SubmitFail, Changes
<1> QED BY <1>1, <1>2, <1>3, <1>4, <1>5, <1>6 DEF Submit

(* What a handler does to the files, the paths and the name that is shown. *)
LEMMA HandlerFiles ==
    ASSUME TypeInv, NEW r \in Requests, Handler(r)
    PROVE  /\ \A f \in Files : file[f] # "unwritten" => file'[f] # "unwritten"
           /\ \A q \in Requests \ {r} : path'[q] = path[q]
           /\ \/ path'[r] \in {NoFile, path[r], Shown}
              \/ path'[r] \in Files /\ file'[path'[r]] = "present"
           /\ Shown' \in {NoFile, path[r], Shown}
<1> USE DEF TypeInv, TypeOK, diskVars, submitVars
<1>1. CASE StartReceive(r) \/ DisconnectReceive(r)
  BY <1>1 DEF StartReceive, DisconnectReceive, TakeFile, Shown, RecordingState
<1>2. CASE StartDelete(r) \/ DownloadDelete(r) \/ DisconnectDelete(r)
  BY <1>2 DEF StartDelete, DownloadDelete, DisconnectDelete, DeleteFile, Shown
<1>3. CASE StartRecord(r) \/ StartRefuse(r)
  BY <1>3, NoRecordingAssumption, ReplyType DEF StartRecord, StartRefuse, Fresh, Shown
<1>4. CASE StopReceive(r)
  <2>1. recording # NoRecording /\ Append(recording.steps, Disconnect) \in Seq(RecordedSteps)
    BY <1>4, SomeSteps DEF StopReceive, IsRecording, RecordingState
  <2>2. Shown' = Shown
    BY <1>4, <2>1, StepsType DEF StopReceive, Shown
  <2> QED BY <1>4, <2>2 DEF StopReceive
<1>5. CASE StopWrite(r)
  BY <1>5 DEF StopWrite, Shown
<1>6. CASE StopFail(r) \/ StopStore(r)
  BY <1>6, ReplyType DEF StopFail, StopStore, Shown, RecordingState
<1>7. CASE DownloadReceive(r)
  BY <1>7 DEF DownloadReceive, Shown
<1>8. CASE DownloadForget(r)
  BY <1>8, ReplyType DEF DownloadForget, Shown, RecordingState
<1>9. CASE RemoveWorkflow(r) \/ DisconnectSession(r)
  BY <1>9, ReplyType DEF RemoveWorkflow, DisconnectSession, Shown
<1> QED BY <1>1, <1>2, <1>3, <1>4, <1>5, <1>6, <1>7, <1>8, <1>9 DEF Handler

LEMMA SubmitFiles ==
    ASSUME TypeInv, Submit
    PROVE  /\ UNCHANGED <<diskVars, requestVars, sessionLive>>
           /\ Shown' = Shown
           /\ IsRecording' = IsRecording
<1> USE DEF TypeInv, TypeOK, Shown, IsRecording
<1>1. CASE SubmitFields
  <2>1. PICK steps \in Changes : AppendSteps(steps)
    BY <1>1 DEF SubmitFields
  <2>2. Shown' = Shown /\ IsRecording' = IsRecording
    <3>1. CASE IsRecording
      BY <2>1, <3>1, AppendedSteps
    <3>2. CASE ~IsRecording
      BY <2>1, <3>2 DEF AppendSteps
    <3> QED BY <3>1, <3>2
  <2> QED BY <1>1, <2>2 DEF SubmitFields
<1>2. CASE SubmitKey
  <2>1. PICK k \in Keys, gap \in Gaps : RecordKey(k, gap)
    BY <1>2 DEF SubmitKey
  <2>2. recording' # recording => recording'.file = recording.file /\ recording'.active = recording.active
    BY <2>1, SubmitRecords
  <2> QED BY <1>2, <2>1, <2>2, SubmitRecords, NoRecordingAssumption DEF SubmitKey
<1>3. CASE SubmitScreen \/ ScreenRefresh \/ SubmitSend \/ SubmitFail
  BY <1>3 DEF SubmitScreen, ScreenRefresh, SubmitSend, SubmitFail
<1> QED BY <1>1, <1>2, <1>3 DEF Submit

LEMMA NextTypeInv == TypeInv /\ [Next]_vars => TypeInv'
<1> SUFFICES ASSUME TypeInv, [Next]_vars PROVE TypeInv'
  OBVIOUS
<1>1. ASSUME NEW r \in Requests, Handler(r) PROVE TypeInv'
  <2>1. TypeOK' /\ SendHasKey'
    BY <1>1, StartType, StopType, OtherType DEF Handler
  <2>2. path \in [Requests -> Files \cup {NoFile}] /\ Shown \in Files \cup {NoFile}
    BY ShownType DEF TypeInv, TypeOK
  <2>3. KnownWritten'
    BY <1>1, <2>2, HandlerFiles DEF TypeInv, KnownWritten
  <2> QED BY <2>1, <2>3 DEF TypeInv
<1>2. CASE Submit
  BY <1>2, SubmitType, SubmitFiles DEF TypeInv, KnownWritten, diskVars, requestVars
<1>3. CASE UNCHANGED vars
  BY <1>3 DEF vars, TypeInv, TypeOK, SendHasKey, KnownWritten, Shown, diskVars, requestVars, submitVars
<1> QED BY <1>1, <1>2, <1>3 DEF Next

(* Every variable keeps its type; a handler has a path or a workflow where *)
(* its code has one.                                                       *)
THEOREM TypeCorrect == Spec => []TypeOK
<1>1. TypeInv => TypeOK
  BY DEF TypeInv
<1> QED BY <1>1, InitTypeInv, NextTypeInv, PTL DEF Spec

-----------------------------------------------------------------------------
(* The workflows                                                           *)

Connected(steps) ==
    /\ steps # << >>
    /\ \A i \in 1..Len(steps) : steps[i] = Connect <=> i = 1

(* What brackets the workflow of a stop, whenever the stop comes. *)
RecordingBracketed ==
    recording # NoRecording =>
        Connected(recording.steps) /\ recording.min <= recording.max

BracketInv == FilesBracketed /\ RecordingBracketed

LEMMA ConnectedAppend ==
    ASSUME NEW steps \in Seq(RecordedSteps), Connected(steps),
           NEW step \in RecordedSteps, step # Connect
    PROVE  Connected(Append(steps, step))
<1>1. /\ Append(steps, step) \in Seq(RecordedSteps)
      /\ Len(Append(steps, step)) = Len(steps) + 1
      /\ \A i \in 1..Len(steps) : Append(steps, step)[i] = steps[i]
      /\ Append(steps, step)[Len(steps) + 1] = step
  OBVIOUS
<1>2. Len(steps) \in Nat /\ Len(steps) > 0
  BY DEF Connected
<1>3. \A i \in 1..(Len(steps) + 1) : i \in 1..Len(steps) \/ i = Len(steps) + 1
  BY <1>2
<1>4. Append(steps, step) # << >>
  BY <1>1, <1>2
<1> QED BY <1>1, <1>2, <1>3, <1>4 DEF Connected

(* Rounding keeps the order of the two delays. *)
LEMMA RoundDelayOrdered ==
    \A v, w \in Nat : v <= w => RoundDelay(v) <= RoundDelay(w)
BY DEF RoundDelay

LEMMA BuiltBracketed ==
    ASSUME TypeOK, IsRecording, RecordingBracketed
    PROVE  Bracketed(BuildWorkflow(Append(recording.steps, Disconnect)))
<1> DEFINE steps == Append(recording.steps, Disconnect)
<1>1. recording \in RecordingState /\ recording # NoRecording
  BY DEF TypeOK, IsRecording
<1>2. recording.steps \in Seq(RecordedSteps)
  BY <1>1 DEF RecordingState
<1>3. Connected(steps)
  BY <1>1, <1>2, ConnectedAppend, SomeSteps DEF RecordingBracketed
<1>4. steps \in Seq(RecordedSteps) /\ steps[Len(steps)] = Disconnect
  BY <1>2, SomeSteps
<1>5. BuildWorkflow(steps).steps = steps
  BY <1>4, BuiltWorkflow
<1>6. BuildWorkflow(steps).min <= BuildWorkflow(steps).max
  <2>1. RoundDelay(recording.min) <= RoundDelay(recording.max)
    BY <1>1, RoundDelayOrdered DEF RecordingState, RecordingBracketed
  <2> QED BY <2>1 DEF BuildWorkflow
<1> HIDE DEF steps
<1>7. Bracketed(BuildWorkflow(steps))
  BY <1>3, <1>4, <1>5, <1>6 DEF Bracketed, Connected
<1> QED BY <1>7 DEF steps

LEMMA InitBracketInv == Init => BracketInv
BY DEF Init, BracketInv, FilesBracketed, RecordingBracketed

(* A handler forgets the recording, begins one, or leaves its steps alone  *)
(* but for the Disconnect of a stop.                                       *)
LEMMA HandlerRecording ==
    ASSUME TypeInv, NEW r \in Requests, Handler(r)
    PROVE  \/ recording' = NoRecording
           \/ recording' = Fresh /\ StartRecord(r)
           \/ /\ recording # NoRecording
              /\ recording'.steps \in {recording.steps, Append(recording.steps, Disconnect)}
              /\ recording'.active => recording.active
              /\ recording'.min = recording.min
              /\ recording'.max = recording.max
<1> USE DEF TypeInv, TypeOK
<1>1. CASE UNCHANGED recording
  BY <1>1
<1>2. CASE StartReceive(r) \/ DisconnectReceive(r)
  BY <1>2 DEF StartReceive, DisconnectReceive, TakeFile, RecordingState
<1>3. CASE StartRecord(r) \/ RemoveWorkflow(r)
  BY <1>3 DEF StartRecord, RemoveWorkflow
<1>4. CASE StopReceive(r)
  <2>1. recording # NoRecording /\ Append(recording.steps, Disconnect) \in Seq(RecordedSteps)
    BY <1>4, SomeSteps DEF StopReceive, IsRecording, RecordingState
  <2> QED BY <1>4, <2>1, StepsType DEF StopReceive
<1>5. CASE StopStore(r)
  BY <1>5 DEF StopStore, RecordingState
<1>6. CASE DownloadForget(r)
  BY <1>6 DEF DownloadForget, RecordingState
<1> QED
  BY <1>1, <1>2, <1>3, <1>4, <1>5, <1>6
  DEF Handler, StartDelete, StartRefuse, StopWrite, StopFail, DownloadReceive, DownloadDelete,
      DisconnectDelete, DisconnectSession

LEMMA HandlerKeepsBracketed ==
    ASSUME TypeInv, BracketInv, NEW r \in Requests, Handler(r)
    PROVE  RecordingBracketed'
<1>1. CASE recording' = NoRecording
  BY <1>1 DEF RecordingBracketed
<1>2. CASE recording' = Fresh
  BY <1>2 DEF RecordingBracketed, Fresh, Connected
<1>3. CASE /\ recording # NoRecording
           /\ recording'.steps \in {recording.steps, Append(recording.steps, Disconnect)}
           /\ recording'.min = recording.min
           /\ recording'.max = recording.max
  <2>1. recording.steps \in Seq(RecordedSteps)
    BY <1>3 DEF TypeInv, TypeOK, RecordingState
  <2>2. Connected(recording.steps) /\ Connected(Append(recording.steps, Disconnect))
    BY <1>3, <2>1, ConnectedAppend, SomeSteps DEF BracketInv, RecordingBracketed
  <2> QED BY <1>3, <2>2 DEF BracketInv, RecordingBracketed
<1> QED BY <1>1, <1>2, <1>3, HandlerRecording

LEMMA SubmitKeepsBracketed ==
    ASSUME TypeInv, BracketInv, Submit
    PROVE  RecordingBracketed'
<1>1. recording # NoRecording => recording.steps \in Seq(RecordedSteps)
  BY DEF TypeInv, TypeOK, RecordingState
<1>2. CASE recording' = recording
  BY <1>2 DEF BracketInv, RecordingBracketed
<1>3. CASE SubmitFields /\ recording' # recording
  <2>1. PICK changed \in Changes : AppendSteps(changed)
    BY <1>3 DEF SubmitFields
  <2>2. IsRecording /\ recording # NoRecording
    BY <1>3, <2>1 DEF AppendSteps, IsRecording
  <2>3. /\ recording'.steps = recording.steps \o changed
        /\ recording'.min = recording.min
        /\ recording'.max = recording.max
    BY <2>1, <2>2, AppendedSteps DEF TypeInv
  <2>4. recording.steps \in Seq(RecordedSteps) /\ Connected(recording.steps)
    BY <1>1, <2>2 DEF BracketInv, RecordingBracketed
  <2>5. Connected(recording.steps \o changed)
    <3>1. CASE changed = << >>
      <4>1. recording.steps \o changed = recording.steps
        BY <2>4, <3>1
      <4> QED BY <2>4, <4>1
    <3>2. ASSUME NEW fill \in FillSteps, changed = <<fill>>
          PROVE  Connected(recording.steps \o changed)
      <4>1. recording.steps \o changed = Append(recording.steps, fill)
        BY <2>4, <3>2
      <4>2. fill \in RecordedSteps /\ fill # Connect
        BY SomeSteps
      <4> QED BY <2>4, <4>1, <4>2, ConnectedAppend
    <3> QED BY <3>1, <3>2 DEF Changes
  <2> QED BY <2>2, <2>3, <2>5 DEF BracketInv, RecordingBracketed
<1>4. CASE SubmitKey /\ recording' # recording
  <2>1. PICK k \in Keys, gap \in Gaps : RecordKey(k, gap)
    BY <1>4 DEF SubmitKey
  <2>2. /\ recording # NoRecording
        /\ StepForKey(k) \in RecordedSteps \ {Connect}
        /\ recording'.steps = Append(recording.steps, StepForKey(k))
        /\ (recording.min <= recording.max => recording'.min <= recording'.max)
    BY <1>4, <2>1, SubmitRecords DEF TypeInv, IsRecording
  <2>3. Connected(Append(recording.steps, StepForKey(k)))
    BY <1>1, <2>2, ConnectedAppend DEF BracketInv, RecordingBracketed
  <2> QED BY <2>2, <2>3 DEF BracketInv, RecordingBracketed
<1> QED
  BY <1>2, <1>3, <1>4 DEF Submit, SubmitScreen, ScreenRefresh, SubmitSend, SubmitFail

(* A stop builds a bracketed workflow and writes the one it has built.     *)
LEMMA HandlerFilesBracketed ==
    ASSUME TypeInv, BracketInv, NEW r \in Requests, Handler(r)
    PROVE  FilesBracketed'
<1> USE DEF TypeInv, TypeOK, BracketInv, FilesBracketed, diskVars
<1>1. CASE StopReceive(r)
  <2>1. /\ IsRecording
        /\ wf' = [wf EXCEPT ![r] = BuildWorkflow(Append(recording.steps, Disconnect))]
        /\ pc' = [pc EXCEPT ![r] = "stop_write"]
        /\ UNCHANGED diskVars
    BY <1>1 DEF StopReceive, Step
  <2>2. Bracketed(BuildWorkflow(Append(recording.steps, Disconnect)))
    BY <2>1, BuiltBracketed
  <2> QED BY <2>1, <2>2
<1>2. CASE StopWrite(r)
  BY <1>2 DEF StopWrite, Step
<1>3. CASE StartDelete(r) \/ DownloadDelete(r) \/ DisconnectDelete(r)
  BY <1>3, DeleteType DEF StartDelete, DownloadDelete, DisconnectDelete, Step
<1>4. CASE StartReceive(r) \/ StartRecord(r) \/ StartRefuse(r) \/ StopFail(r) \/ StopStore(r)
  BY <1>4 DEF StartReceive, StartRecord, StartRefuse, StopFail, StopStore, Reply, Step
<1>5. CASE \/ DownloadReceive(r) \/ DownloadForget(r) \/ RemoveWorkflow(r)
           \/ DisconnectReceive(r) \/ DisconnectSession(r)
  BY <1>5
  DEF DownloadReceive, DownloadForget, RemoveWorkflow, DisconnectReceive, DisconnectSession,
      Reply, Step
<1> QED BY <1>1, <1>2, <1>3, <1>4, <1>5 DEF Handler

LEMMA NextBracketInv == TypeInv /\ BracketInv /\ [Next]_vars => BracketInv'
<1> SUFFICES ASSUME TypeInv, BracketInv, [Next]_vars PROVE BracketInv'
  OBVIOUS
<1>1. ASSUME NEW r \in Requests, Handler(r) PROVE BracketInv'
  BY <1>1, HandlerKeepsBracketed, HandlerFilesBracketed DEF BracketInv
<1>2. CASE Submit
  BY <1>2, SubmitKeepsBracketed, SubmitFiles DEF BracketInv, FilesBracketed, diskVars, requestVars
<1>3. CASE UNCHANGED vars
  BY <1>3 DEF vars, diskVars, requestVars, BracketInv, FilesBracketed, RecordingBracketed
<1> QED BY <1>1, <1>2, <1>3 DEF Next

(* Every workflow a stop builds, and every file ever written, begins with  *)
(* its only Connect, ends with a Disconnect and has an ordered delay range.*)
THEOREM FilesAreBracketed == Spec => []FilesBracketed
<1>1. BracketInv => FilesBracketed
  BY DEF BracketInv
<1> QED BY <1>1, InitTypeInv, NextTypeInv, InitBracketInv, NextBracketInv, PTL DEF Spec

-----------------------------------------------------------------------------
(* The file the status shows                                               *)

(* The file of a stop that has yet to store its name is there, and nobody  *)
(* else knows of it.                                                       *)
StopsOwnTheirFile ==
    \A r \in Requests :
        pc[r] = "stop_store" =>
            /\ file[path[r]] = "present"
            /\ path[r] # Shown
            /\ \A q \in Requests \ {r} : path[q] # path[r]

(* A file that is about to be removed by a start or a disconnect is no     *)
(* longer shown; it cannot be shown again, for only stops show a file.     *)
DeletedUnshown ==
    \A r \in Requests :
        pc[r] \in {"start_delete", "disconnect_delete"} =>
            path[r] = NoFile \/ path[r] # Shown

ShownInv == ShownFileExists /\ StopsOwnTheirFile /\ DeletedUnshown

LEMMA InitShownInv == Init => ShownInv
BY DEF Init, ShownInv, ShownFileExists, StopsOwnTheirFile, DeletedUnshown, Shown

(* The recording keeps its name and goes on, or does not. *)
ShownKept == Shown' = Shown /\ IsRecording' = IsRecording

LEMMA NameTaken ==
    ASSUME TypeInv, NEW r \in Requests, TakeFile(r)
    PROVE  /\ Shown' = NoFile
           /\ path' = [path EXCEPT ![r] = Shown]
BY DEF TakeFile, TypeInv, TypeOK, Shown, RecordingState

LEMMA ReceiveShownInv ==
    ASSUME TypeInv, ShownInv, NEW r \in Requests, StartReceive(r) \/ DisconnectReceive(r)
    PROVE  ShownInv'
<1>1. /\ Shown' = NoFile
      /\ path' = [path EXCEPT ![r] = Shown]
      /\ pc[r] = "idle"
      /\ \/ pc' = [pc EXCEPT ![r] = "start_delete"]
         \/ pc' = [pc EXCEPT ![r] = "disconnect_delete"]
      /\ UNCHANGED file
  BY NameTaken DEF StartReceive, DisconnectReceive, Step, diskVars
<1>2. \A q \in Requests : pc'[q] = "stop_store" => q # r /\ pc[q] = "stop_store"
  BY <1>1 DEF TypeInv, TypeOK
<1>3. \A q \in Requests \ {r} : path'[q] = path[q]
  BY <1>1 DEF TypeInv, TypeOK
<1>4. path'[r] = Shown
  BY <1>1 DEF TypeInv, TypeOK
<1>5. \A q \in Requests : pc[q] = "stop_store" => path[q] # NoFile
  BY DEF TypeInv, TypeOK
<1>6. StopsOwnTheirFile'
  BY <1>1, <1>2, <1>3, <1>4, <1>5 DEF ShownInv, StopsOwnTheirFile
<1> QED BY <1>1, <1>6 DEF ShownInv, ShownFileExists, DeletedUnshown

LEMMA DeleteShownInv ==
    ASSUME TypeInv, ShownInv, NEW r \in Requests,
           StartDelete(r) \/ DownloadDelete(r) \/ DisconnectDelete(r)
    PROVE  ShownInv'
<1>1. /\ UNCHANGED <<recording, path>>
      /\ file' = [f \in Files |-> IF f = path[r] THEN "removed" ELSE file[f]]
  BY DEF StartDelete, DownloadDelete, DisconnectDelete, DeleteFile
<1>2. \/ /\ pc[r] \in {"start_delete", "disconnect_delete"}
         /\ pc'[r] \in {"start_record", "disconnect_session"}
      \/ /\ pc[r] = "download_delete"
         /\ pc'[r] = "download_forget"
  BY DEF StartDelete, DownloadDelete, DisconnectDelete, Step, TypeInv, TypeOK
<1>3. \A q \in Requests \ {r} : pc'[q] = pc[q]
  BY DEF StartDelete, DownloadDelete, DisconnectDelete, Step, TypeInv, TypeOK
<1>4. ShownKept
  BY <1>1 DEF ShownKept, Shown, IsRecording
<1>5. Shown \in Files \cup {NoFile} /\ path \in [Requests -> Files \cup {NoFile}]
  BY ShownType DEF TypeInv, TypeOK
<1>6. StopsOwnTheirFile'
  <2> SUFFICES ASSUME NEW q \in Requests, pc'[q] = "stop_store"
               PROVE  /\ file'[path'[q]] = "present"
                      /\ path'[q] # Shown'
                      /\ \A s \in Requests \ {q} : path'[s] # path'[q]
    BY DEF StopsOwnTheirFile
  <2>1. q # r /\ pc[q] = "stop_store"
    BY <1>2, <1>3
  <2>2. path[q] # NoFile
    BY <2>1 DEF TypeInv, TypeOK
  <2>3. /\ file[path[q]] = "present"
        /\ path[q] # Shown
        /\ \A s \in Requests \ {q} : path[s] # path[q]
    BY <2>1 DEF ShownInv, StopsOwnTheirFile
  <2>4. path[q] \in Files /\ path[q] # path[r]
    BY <1>5, <2>1, <2>2, <2>3
  <2> QED BY <1>1, <1>4, <2>3, <2>4 DEF ShownKept
<1>7. DeletedUnshown'
  BY <1>1, <1>2, <1>3, <1>4 DEF ShownInv, DeletedUnshown, ShownKept
<1>8. ShownFileExists'
  <2> SUFFICES ASSUME Shown # NoFile
               PROVE  /\ ~IsRecording
                      /\ \/ file'[Shown] = "present"
                         \/ \E q \in Requests : pc'[q] = "download_forget" /\ path[q] = Shown
    BY <1>1, <1>4 DEF ShownFileExists, ShownKept
  <2>1. ~IsRecording
    BY DEF ShownInv, ShownFileExists
  <2>2. CASE path[r] = Shown
    BY <1>2, <2>1, <2>2 DEF ShownInv, DeletedUnshown
  <2>3. CASE path[r] # Shown
    <3>1. file'[Shown] = file[Shown]
      BY <1>1, <1>5, <2>3
    <3>2. \A q \in Requests : pc[q] = "download_forget" => pc'[q] = "download_forget"
      BY <1>2, <1>3
    <3> QED BY <2>1, <3>1, <3>2 DEF ShownInv, ShownFileExists
  <2> QED BY <2>2, <2>3
<1> QED BY <1>6, <1>7, <1>8 DEF ShownInv

(* A stop writes a file of its own ... *)
LEMMA WriteShownInv ==
    ASSUME TypeInv, ShownInv, NEW r \in Requests, StopWrite(r)
    PROVE  ShownInv'
<1>1. PICK f \in Files :
        /\ file[f] = "unwritten"
        /\ file' = [file EXCEPT ![f] = "present"]
        /\ path' = [path EXCEPT ![r] = f]
  BY DEF StopWrite
<1>2. pc' = [pc EXCEPT ![r] = "stop_store"] /\ pc[r] = "stop_write" /\ UNCHANGED recording
  BY DEF StopWrite, Step
<1>3. ShownKept
  BY <1>2 DEF ShownKept, Shown, IsRecording
<1>4. Shown \in Files \cup {NoFile} /\ path \in [Requests -> Files \cup {NoFile}]
  BY ShownType DEF TypeInv, TypeOK
<1>5. f # Shown /\ \A q \in Requests : path[q] # f
  BY <1>1, <1>4, NoFileAssumption DEF TypeInv, KnownWritten
<1>6. /\ path'[r] = f /\ file'[f] = "present"
      /\ \A q \in Requests \ {r} : path'[q] = path[q] /\ pc'[q] = pc[q]
      /\ pc'[r] = "stop_store"
      /\ \A g \in Files \ {f} : file'[g] = file[g]
  BY <1>1, <1>2, <1>4 DEF TypeInv, TypeOK
<1>7. StopsOwnTheirFile'
  <2> SUFFICES ASSUME NEW q \in Requests, pc'[q] = "stop_store"
               PROVE  /\ file'[path'[q]] = "present"
                      /\ path'[q] # Shown'
                      /\ \A s \in Requests \ {q} : path'[s] # path'[q]
    BY DEF StopsOwnTheirFile
  <2>1. CASE q = r
    BY <1>3, <1>5, <1>6, <2>1 DEF ShownKept
  <2>2. CASE q # r
    <3>1. /\ pc[q] = "stop_store"
          /\ path'[q] = path[q]
      BY <1>6, <2>2
    <3>2. path[q] # NoFile
      BY <3>1 DEF TypeInv, TypeOK
    <3>3. path[q] \in Files \ {f}
      BY <1>4, <1>5, <3>2
    <3> QED BY <1>3, <1>5, <1>6, <3>1, <3>3 DEF ShownInv, StopsOwnTheirFile, ShownKept
  <2> QED BY <2>1, <2>2
<1>8. ShownFileExists'
  BY <1>2, <1>3, <1>4, <1>5, <1>6 DEF ShownInv, ShownFileExists, ShownKept
<1>9. DeletedUnshown'
  BY <1>3, <1>6 DEF ShownInv, DeletedUnshown, ShownKept
<1> QED BY <1>7, <1>8, <1>9 DEF ShownInv

(* ... and ends the recording when it shows the file's name.               *)
LEMMA StoreShownInv ==
    ASSUME TypeInv, ShownInv, NEW r \in Requests, StopStore(r)
    PROVE  ShownInv'
<1>1. /\ pc[r] = "stop_store"
      /\ pc' = [pc EXCEPT ![r] = "idle"]
      /\ path' = [path EXCEPT ![r] = NoFile]
      /\ UNCHANGED file
  BY DEF StopStore, Reply, Step, diskVars
<1>2. \/ Shown' = NoFile
      \/ Shown' = path[r] /\ ~IsRecording'
  BY DEF StopStore, TypeInv, TypeOK, Shown, IsRecording, RecordingState
<1>3. path[r] # NoFile /\ path[r] \in Files \cup {NoFile}
  BY <1>1 DEF TypeInv, TypeOK
<1>4. /\ file[path[r]] = "present"
      /\ \A q \in Requests \ {r} : path[q] # path[r]
  BY <1>1 DEF ShownInv, StopsOwnTheirFile
<1>5. /\ path'[r] = NoFile /\ pc'[r] = "idle"
      /\ \A q \in Requests \ {r} : path'[q] = path[q] /\ pc'[q] = pc[q]
  BY <1>1 DEF TypeInv, TypeOK
<1>6. StopsOwnTheirFile'
  <2>1. \A q \in Requests : pc[q] = "stop_store" => path[q] # NoFile
    BY DEF TypeInv, TypeOK
  <2> QED BY <1>1, <1>2, <1>4, <1>5, <2>1 DEF ShownInv, StopsOwnTheirFile
<1>7. ShownFileExists'
  BY <1>1, <1>2, <1>4 DEF ShownFileExists
<1>8. DeletedUnshown'
  BY <1>2, <1>4, <1>5 DEF DeletedUnshown, ShownInv
<1> QED BY <1>6, <1>7, <1>8 DEF ShownInv

(* The handler answers, or begins a download: it knows no new file.        *)
LEMMA OtherShownInv ==
    ASSUME TypeInv, ShownInv, NEW r \in Requests,
           \/ StartRecord(r) \/ StartRefuse(r) \/ StopReceive(r) \/ StopFail(r)
           \/ DownloadReceive(r) \/ DownloadForget(r) \/ RemoveWorkflow(r) \/ DisconnectSession(r)
    PROVE  ShownInv'
<1>1. UNCHANGED file
  BY DEF StartRecord, StartRefuse, StopReceive, StopFail, DownloadReceive, DownloadForget,
         RemoveWorkflow, DisconnectSession, diskVars
<1>2. /\ pc'[r] \in {"idle", "stop_write", "download_delete"}
      /\ \A q \in Requests \ {r} : pc'[q] = pc[q] /\ path'[q] = path[q]
  BY DEF StartRecord, StartRefuse, StopReceive, StopFail, DownloadReceive, DownloadForget,
         RemoveWorkflow, DisconnectSession, Reply, Step, TypeInv, TypeOK
<1>3. path'[r] \in {NoFile, Shown, path[r]}
  BY DEF StartRecord, StartRefuse, StopReceive, StopFail, DownloadReceive, DownloadForget,
         RemoveWorkflow, DisconnectSession, Reply, Step, TypeInv, TypeOK
<1>4. \/ Shown' = NoFile
      \/ /\ ShownKept
         /\ pc[r] = "download_forget" => path[r] # Shown
  <2> USE DEF TypeInv, TypeOK, Shown, IsRecording, ShownKept
  <2>1. CASE StartRecord(r)
    BY <2>1 DEF StartRecord, Fresh
  <2>2. CASE StopReceive(r)
    <3>1. recording # NoRecording /\ Append(recording.steps, Disconnect) \in Seq(RecordedSteps)
      BY <2>2, SomeSteps DEF StopReceive, RecordingState
    <3>2. pc[r] = "idle"
      BY <2>2 DEF StopReceive, Step
    <3> QED BY <2>2, <3>1, <3>2, StepsType DEF StopReceive
  <2>3. CASE DownloadForget(r)
    BY <2>3 DEF DownloadForget, RecordingState
  <2>4. CASE StartRefuse(r) \/ StopFail(r) \/ DownloadReceive(r) \/ RemoveWorkflow(r) \/ DisconnectSession(r)
    BY <2>4
    DEF StartRefuse, StopFail, DownloadReceive, RemoveWorkflow, DisconnectSession, Reply, Step
  <2> QED BY <2>1, <2>2, <2>3, <2>4
<1>5. \A q \in Requests : pc[q] = "stop_store" => path[q] # NoFile
  BY DEF TypeInv, TypeOK
<1>6. StopsOwnTheirFile'
  BY <1>1, <1>2, <1>3, <1>4, <1>5 DEF ShownInv, StopsOwnTheirFile, ShownKept
<1>7. ShownFileExists'
  BY <1>1, <1>2, <1>4 DEF ShownInv, ShownFileExists, ShownKept
<1>8. DeletedUnshown'
  BY <1>2, <1>4 DEF ShownInv, DeletedUnshown, ShownKept
<1> QED BY <1>6, <1>7, <1>8 DEF ShownInv

LEMMA NextShownInv == TypeInv /\ ShownInv /\ [Next]_vars => ShownInv'
<1> SUFFICES ASSUME TypeInv, ShownInv, [Next]_vars PROVE ShownInv'
  OBVIOUS
<1>1. ASSUME NEW r \in Requests, Handler(r) PROVE ShownInv'
  BY <1>1, ReceiveShownInv, DeleteShownInv, WriteShownInv, StoreShownInv, OtherShownInv DEF Handler
<1>2. ASSUME UNCHANGED <<diskVars, requestVars>>, ShownKept PROVE ShownInv'
  BY <1>2
  DEF ShownInv, ShownFileExists, StopsOwnTheirFile, DeletedUnshown, ShownKept, diskVars, requestVars
<1>3. CASE Submit
  BY <1>2, <1>3, SubmitFiles DEF ShownKept
<1>4. CASE UNCHANGED vars
  BY <1>2, <1>4 DEF vars, ShownKept, Shown, IsRecording
<1> QED BY <1>1, <1>3, <1>4 DEF Next

(* The name the status shows is that of a recording that is over, and its  *)
(* file is there, whichever starts, stops, downloads and disconnects       *)
(* overlap.                                                                *)
THEOREM ShownFileIsThere == Spec => []ShownFileExists
<1>1. ShownInv => ShownFileExists
  BY DEF ShownInv
<1> QED BY <1>1, InitTypeInv, NextTypeInv, InitShownInv, NextShownInv, PTL DEF Spec

-----------------------------------------------------------------------------
(* What is replayed is what was given                                      *)

LEMMA WithinSelf ==
    ASSUME NEW S, NEW s \in Seq(S)
    PROVE  Within(s, s)
<1>1. [i \in 1..Len(s) |-> i] \in [1..Len(s) -> 1..Len(s)]
  OBVIOUS
<1> QED BY <1>1 DEF Within

LEMMA WithinAppend ==
    ASSUME NEW S, NEW s \in Seq(S), NEW t \in Seq(S), NEW e \in S, Within(s, t)
    PROVE  Within(Append(s, e), Append(t, e))
<1> DEFINE m == Len(s)
           n == Len(t)
<1>1. /\ m \in Nat /\ n \in Nat
      /\ Len(Append(s, e)) = m + 1 /\ Append(s, e)[m + 1] = e
      /\ Len(Append(t, e)) = n + 1 /\ Append(t, e)[n + 1] = e
      /\ \A i \in 1..m : Append(s, e)[i] = s[i]
      /\ \A i \in 1..n : Append(t, e)[i] = t[i]
  OBVIOUS
<1>2. PICK at \in [1..m -> 1..n] :
        /\ \A i, j \in 1..m : i < j => at[i] < at[j]
        /\ \A i \in 1..m : s[i] = t[at[i]]
  BY DEF Within
<1> DEFINE a == Append(s, e)
           b == Append(t, e)
           more == [i \in 1..(m + 1) |-> IF i = m + 1 THEN n + 1 ELSE at[i]]
<1> HIDE DEF m, n, a, b
<1>3. Len(a) = m + 1 /\ Len(b) = n + 1
  BY <1>1 DEF a, b
<1>4. \A i \in 1..(m + 1) : i = m + 1 \/ i \in 1..m
  BY <1>1
<1>5. \A i \in 1..m : at[i] \in 1..n
  BY <1>2
<1>6. more \in [1..(m + 1) -> 1..(n + 1)]
  BY <1>1, <1>4, <1>5
<1>7. \A i, j \in 1..(m + 1) : i < j => more[i] < more[j]
  BY <1>1, <1>2, <1>4, <1>5
<1>8. \A i \in 1..(m + 1) : a[i] = b[more[i]]
  BY <1>1, <1>2, <1>4, <1>5 DEF a, b
<1> HIDE DEF more
<1>9. Within(a, b)
  BY <1>3, <1>6, <1>7, <1>8 DEF Within
<1> QED BY <1>9 DEF a, b

LEMMA WithinFewer ==
    ASSUME NEW S, NEW s \in Seq(S), NEW rest \in Seq(S), NEW t \in Seq(S), Within(s \o rest, t)
    PROVE  Within(s, t)
<1> DEFINE m == Len(s)
           whole == s \o rest
<1>1. m \in Nat /\ Len(whole) \in Nat /\ m <= Len(whole) /\ \A i \in 1..m : whole[i] = s[i]
  OBVIOUS
<1>2. PICK at \in [1..Len(whole) -> 1..Len(t)] :
        /\ \A i, j \in 1..Len(whole) : i < j => at[i] < at[j]
        /\ \A i \in 1..Len(whole) : whole[i] = t[at[i]]
  BY DEF Within
<1>3. \A i \in 1..m : i \in 1..Len(whole)
  BY <1>1
<1> DEFINE fewer == [i \in 1..m |-> at[i]]
<1>4. fewer \in [1..m -> 1..Len(t)]
  BY <1>2, <1>3
<1>5. \A i, j \in 1..m : i < j => fewer[i] < fewer[j]
  BY <1>2, <1>3
<1>6. \A i \in 1..m : s[i] = t[fewer[i]]
  BY <1>1, <1>2, <1>3
<1> HIDE DEF fewer
<1> QED BY <1>4, <1>5, <1>6 DEF Within

(* What the host was given and what the running submit gives it yet; what  *)
(* replaying gives.                                                        *)
GivenSoFar == Filter(typed, Given) \o Pending

ReplayedSoFar == early \o Replay(recording.steps)

Agree(given, replay) == IF lost THEN Within(given, replay) ELSE given = replay

PendingInPlace == (submit # "screen" => fills = << >>) /\ (submit # "send" => key = NoKey)

ReplayInv == PendingInPlace /\ (IsRecording => Agree(GivenSoFar, ReplayedSoFar))

LEMMA SoFarTypes ==
    ASSUME TypeOK
    PROVE  /\ Filter(typed, Given) \in Seq(Given)
           /\ Pending \in Seq(Given)
           /\ early \in Seq(Given)
           /\ recording # NoRecording =>
                /\ recording.steps \in Seq(RecordedSteps)
                /\ Replay(recording.steps) \in Seq(Given)
<1>1. Filter(typed, Given) \in Seq(Given)
  <2>1. typed \in Seq(Sendable)
    BY DEF TypeOK, Sendable
  <2>2. Filter(typed, Given) \in Seq(Sendable)
    BY <2>1, FilterType
  <2>3. \A i \in 1..Len(Filter(typed, Given)) : Filter(typed, Given)[i] \in Given
    BY <2>1, FilterIndices
  <2> QED BY <2>2, <2>3
<1>2. Texts \cup Keys \subseteq Given
  BY KeysAssumption DEF Given
<1>3. Pending \in Seq(Texts \cup Keys) /\ early \in Seq(Texts \cup Keys)
  BY PendingType DEF TypeOK
<1>4. recording # NoRecording => recording.steps \in Seq(RecordedSteps)
  BY DEF TypeOK, RecordingState
<1> QED BY <1>1, <1>2, <1>3, <1>4, ReplayType

LEMMA PendingWithoutKey ==
    TypeOK => /\ key = NoKey => Pending = Replay(fills)
              /\ key = NoKey /\ fills = << >> => Pending = << >>
BY PendingType, SentTypes DEF TypeOK

LEMMA PendingNext ==
    (TypeOK => /\ key = NoKey => Pending = Replay(fills)
               /\ key = NoKey /\ fills = << >> => Pending = << >>)'
BY PendingWithoutKey, PTL

(* Something that is given and recorded keeps the two in agreement. *)
LEMMA AgreeAppend ==
    ASSUME NEW given \in Seq(Given), NEW replay \in Seq(Given), NEW e \in Given,
           Agree(given, replay)
    PROVE  Agree(Append(given, e), Append(replay, e))
BY WithinAppend DEF Agree

LEMMA InitReplayInv == Init => ReplayInv
BY DEF Init, ReplayInv, PendingInPlace, IsRecording

LEMMA StartReplayInv ==
    ASSUME TypeInv, ReplayInv, NEW r \in Requests, StartRecord(r)
    PROVE  ReplayInv'
<1>1. /\ recording' = Fresh /\ typed' = << >> /\ early' = Pending /\ lost' = FALSE
      /\ UNCHANGED <<submit, fills, key>>
  BY DEF StartRecord
<1>2. Pending' = Pending /\ Pending \in Seq(Given)
  BY <1>1, SoFarTypes DEF Pending, TypeInv
<1>3. GivenSoFar' = Pending
  <2>1. Filter(typed', Given) = << >>
    BY <1>1, FilterEmpty DEF Filter
  <2> QED BY <1>2, <2>1 DEF GivenSoFar
<1>4. ReplayedSoFar' = Pending
  <2>1. Replay(recording'.steps) = << >>
    BY <1>1, FreshReplay DEF Fresh, Replay
  <2> QED BY <1>1, <1>2, <2>1 DEF ReplayedSoFar
<1> QED BY <1>1, <1>3, <1>4 DEF ReplayInv, PendingInPlace, Agree

LEMMA HandlerReplayInv ==
    ASSUME TypeInv, ReplayInv, NEW r \in Requests, Handler(r)
    PROVE  ReplayInv'
<1>1. CASE StartRecord(r)
  BY <1>1, StartReplayInv
<1>2. CASE ~StartRecord(r)
  <2>1. UNCHANGED <<submit, fills, key, typed, early, lost>>
    BY <1>2
    DEF Handler, StartReceive, StartDelete, StartRefuse, StopReceive, StopWrite,
        StopFail, StopStore, DownloadReceive, DownloadDelete, DownloadForget,
        RemoveWorkflow, DisconnectReceive, DisconnectDelete, DisconnectSession, submitVars
  <2>2. PendingInPlace' /\ GivenSoFar' = GivenSoFar
    BY <2>1 DEF ReplayInv, PendingInPlace, GivenSoFar, Pending
  <2>3. CASE recording' = NoRecording
    BY <2>2, <2>3 DEF ReplayInv, IsRecording
  <2>4. CASE /\ recording # NoRecording
             /\ recording'.steps \in {recording.steps, Append(recording.steps, Disconnect)}
             /\ recording'.active => recording.active
    <3>1. recording.steps \in Seq(RecordedSteps)
      BY <2>4, SoFarTypes DEF TypeInv
    <3>2. Replay(Append(recording.steps, Disconnect)) = Replay(recording.steps)
      BY <3>1, ReplayAppend, SomeSteps DEF Inputs
    <3>3. Replay(recording'.steps) = Replay(recording.steps)
      BY <2>4, <3>2
    <3>4. ReplayedSoFar' = ReplayedSoFar
      BY <2>1, <3>3 DEF ReplayedSoFar
    <3>5. IsRecording' => IsRecording
      BY <2>4 DEF IsRecording
    <3> QED BY <2>1, <2>2, <3>4, <3>5 DEF ReplayInv, Agree
  <2> QED BY <1>2, <2>3, <2>4, HandlerRecording
<1> QED BY <1>1, <1>2

(* A submit that finds nothing pending and leaves what it records pending. *)
LEMMA FieldsReplayInv ==
    ASSUME TypeInv, TypeInv', ReplayInv, SubmitFields
    PROVE  ReplayInv'
<1>1. PICK changed \in Changes : fills' = changed /\ AppendSteps(changed)
  BY DEF SubmitFields
<1>2. /\ submit = "idle" /\ submit' = "screen" /\ fills = << >> /\ key = NoKey /\ key' = NoKey
      /\ UNCHANGED <<typed, early, lost>>
  BY DEF SubmitFields, SubmitStep, ReplayInv, PendingInPlace
<1>3. PendingInPlace'
  BY <1>2 DEF PendingInPlace
<1> DEFINE before == Filter(typed, Given)
<1>4. GivenSoFar = before /\ GivenSoFar' = before \o Replay(changed) /\ before \in Seq(Given)
  <2>1. before \in Seq(Given) /\ Pending = << >>
    BY <1>2, SoFarTypes, PendingType, SentTypes DEF TypeInv, TypeOK
  <2>2. Pending' = Replay(changed)
    BY <1>1, <1>2, PendingNext DEF TypeInv, Replay
  <2> QED BY <1>2, <2>1, <2>2 DEF GivenSoFar
<1> HIDE DEF before
<1>5. CASE ~IsRecording
  <2>1. recording' = recording
    BY <1>1, <1>5 DEF AppendSteps
  <2> QED BY <1>3, <1>5, <2>1 DEF ReplayInv, IsRecording
<1>6. CASE IsRecording
  <2>1. recording # NoRecording /\ recording'.steps = recording.steps \o changed
    BY <1>1, <1>6, AppendedSteps DEF TypeInv, IsRecording
  <2>2. /\ recording.steps \in Seq(RecordedSteps)
        /\ Replay(recording.steps) \in Seq(Given) /\ early \in Seq(Given)
    BY <2>1, SoFarTypes DEF TypeInv
  <2>3. ReplayedSoFar \in Seq(Given)
    BY <2>2 DEF ReplayedSoFar
  <2>4. CASE Replay(changed) = << >> /\ Replay(recording'.steps) = Replay(recording.steps)
    <3>1. GivenSoFar' = GivenSoFar
      BY <1>4, <2>4
    <3>2. ReplayedSoFar' = ReplayedSoFar
      BY <1>2, <2>4 DEF ReplayedSoFar
    <3> QED BY <1>2, <1>3, <1>6, <3>1, <3>2 DEF ReplayInv, Agree
  <2>5. ASSUME NEW text \in Texts, Replay(changed) = <<text>>,
               Replay(recording'.steps) = Append(Replay(recording.steps), text)
        PROVE  ReplayInv'
    <3>1. text \in Given
      BY DEF Given
    <3>2. GivenSoFar' = Append(GivenSoFar, text)
      BY <1>4, <2>5, <3>1
    <3>3. ReplayedSoFar' = Append(ReplayedSoFar, text)
      BY <1>2, <2>2, <2>5, <3>1 DEF ReplayedSoFar
    <3>4. Agree(Append(GivenSoFar, text), Append(ReplayedSoFar, text))
      BY <1>4, <1>6, <2>3, <3>1, AgreeAppend DEF ReplayInv
    <3> QED BY <1>2, <1>3, <3>2, <3>3, <3>4 DEF ReplayInv, Agree
  <2>6. CASE changed = << >>
    <3>1. recording.steps \o changed = recording.steps
      BY <2>2, <2>6
    <3> QED BY <2>1, <2>4, <2>6, <3>1, ReplayOfNone DEF Replay
  <2>7. ASSUME NEW fill \in FillSteps, changed = <<fill>> PROVE ReplayInv'
    <3>1. recording.steps \o changed = Append(recording.steps, fill) /\ fill \in RecordedSteps
      BY <2>2, <2>7, SomeSteps
    <3>2. Replay(changed) = IF fill.text = NoText THEN << >> ELSE <<fill.text>>
      BY <2>7, ReplayOfFill DEF Replay
    <3>3. fill = Fill(fill.text) /\ fill.text \in Texts \cup {NoText}
      BY FillForms
    <3>4. CASE fill.text = NoText
      <4>1. fill \notin Inputs
        BY <3>3, <3>4, InputsReplayed
      <4>2. Replay(Append(recording.steps, fill)) = Replay(recording.steps)
        BY <2>2, <3>1, <4>1, ReplayAppend
      <4>3. Replay(recording'.steps) = Replay(recording.steps)
        BY <2>1, <3>1, <4>2
      <4> QED BY <2>4, <3>2, <3>4, <4>3
    <3>5. CASE fill.text # NoText
      <4>1. fill \in Inputs /\ Replayed(fill) = fill.text /\ fill.text \in Texts
        BY <3>3, <3>5, InputsReplayed
      <4>2. Replay(Append(recording.steps, fill)) = Append(Replay(recording.steps), fill.text)
        BY <2>2, <3>1, <4>1, ReplayAppend
      <4>3. Replay(recording'.steps) = Append(Replay(recording.steps), fill.text)
        BY <2>1, <3>1, <4>2
      <4> QED BY <2>5, <3>2, <3>5, <4>1, <4>3
    <3> QED BY <3>4, <3>5
  <2> QED BY <2>6, <2>7 DEF Changes
<1> QED BY <1>5, <1>6

LEMMA KeyReplayInv ==
    ASSUME TypeInv, TypeInv', ReplayInv, SubmitKey
    PROVE  ReplayInv'
<1>1. PICK k \in Keys, gap \in Gaps : key' = k /\ RecordKey(k, gap)
  BY DEF SubmitKey
<1>2. /\ submit = "key" /\ submit' = "send" /\ fills = << >> /\ fills' = << >> /\ key = NoKey
      /\ UNCHANGED <<typed, early, lost>>
  BY DEF SubmitKey, SubmitStep, ReplayInv, PendingInPlace
<1>3. PendingInPlace'
  BY <1>2 DEF PendingInPlace
<1> DEFINE before == Filter(typed, Given)
<1>4. GivenSoFar = before /\ GivenSoFar' = before \o SentKey(k) /\ before \in Seq(Given)
  <2>1. before \in Seq(Given) /\ Pending = << >>
    BY <1>2, SoFarTypes, PendingType, SentTypes DEF TypeInv, TypeOK
  <2>2. Pending' = Replay(<< >>) \o SentKey(k)
    BY <1>1, <1>2 DEF Pending, Replay
  <2>3. SentKey(k) \in Seq(Keys)
    BY SentTypes
  <2>4. Pending' = SentKey(k)
    BY <2>2, <2>3, ReplayOfNone
  <2> QED BY <1>2, <2>1, <2>4 DEF GivenSoFar
<1> HIDE DEF before
<1>5. CASE recording' = recording /\ (IsRecording => SentKey(k) = << >>)
  <2>1. IsRecording => GivenSoFar' = GivenSoFar
    BY <1>4, <1>5
  <2>2. ReplayedSoFar' = ReplayedSoFar /\ IsRecording' = IsRecording
    BY <1>2, <1>5 DEF ReplayedSoFar, IsRecording
  <2> QED BY <1>2, <1>3, <2>1, <2>2 DEF ReplayInv, Agree
<1>6. CASE IsRecording /\ StepForKey(k) # NoStep
  <2>1. recording \in RecordingState /\ recording # NoRecording
    BY <1>6 DEF TypeInv, TypeOK, IsRecording
  <2>2. /\ recording.steps \in Seq(RecordedSteps)
        /\ Replay(recording.steps) \in Seq(Given) /\ early \in Seq(Given)
    BY <2>1, SoFarTypes DEF TypeInv
  <2>3. /\ StepForKey(k) \in RecordedSteps /\ StepForKey(k) \in Inputs
        /\ Replayed(StepForKey(k)) = k /\ k \in Given
    BY <1>6, KeysAssumption, KeyStepRecorded, InputsReplayed DEF Given
  <2>4. recording'.steps = Append(recording.steps, StepForKey(k))
    <3>1. Tick(recording, gap) \in RecordingState /\ Tick(recording, gap).steps = recording.steps
      BY <2>1, TickType, GapsAssumption
    <3>2. recording' = [Tick(recording, gap) EXCEPT !.steps = Append(@, StepForKey(k))]
      BY <1>1, <1>6 DEF RecordKey
    <3> QED BY <3>1, <3>2 DEF RecordingState
  <2>5. Replay(recording'.steps) = Append(Replay(recording.steps), k)
    BY <2>2, <2>3, <2>4, ReplayAppend DEF Replay
  <2>6. GivenSoFar' = Append(GivenSoFar, k)
    <3>1. SentKey(k) = <<k>>
      BY <1>6 DEF SentKey
    <3> QED BY <1>4, <2>3, <3>1
  <2>7. ReplayedSoFar \in Seq(Given) /\ ReplayedSoFar' = Append(ReplayedSoFar, k)
    BY <1>2, <2>2, <2>3, <2>5 DEF ReplayedSoFar
  <2>8. Agree(Append(GivenSoFar, k), Append(ReplayedSoFar, k))
    BY <1>4, <1>6, <2>3, <2>7, AgreeAppend DEF ReplayInv
  <2> QED BY <1>2, <1>3, <2>6, <2>7, <2>8 DEF ReplayInv, Agree
<1> QED BY <1>1, <1>5, <1>6 DEF RecordKey, SentKey

(* What is pending is given. *)
LEMMA GiveReplayInv ==
    ASSUME TypeInv, TypeInv', ReplayInv, SubmitScreen \/ SubmitSend
    PROVE  ReplayInv'
<1> DEFINE before == Filter(typed, Given)
<1>1. /\ UNCHANGED <<recording, early, lost>>
      /\ PendingInPlace'
      /\ fills' = << >> /\ key' = NoKey
  BY DEF SubmitScreen, SubmitSend, SubmitStep, ReplayInv, PendingInPlace
<1>2. Pending' = << >>
  BY <1>1, PendingNext DEF TypeInv
<1>3. typed \in Seq(Sendable) /\ before \in Seq(Given) /\ Filter(typed', Given) \in Seq(Given)
  <2>1. (TypeOK => Filter(typed, Given) \in Seq(Given))'
    BY SoFarTypes, PTL
  <2> QED BY <2>1, SoFarTypes DEF TypeInv, TypeOK, Sendable
<1>4. Filter(typed', Given) = before \o Pending
  <2>1. CASE SubmitScreen
    <3>1. key = NoKey /\ Pending = Replay(fills)
      BY <2>1, PendingType DEF SubmitScreen, SubmitStep, ReplayInv, PendingInPlace, TypeInv, TypeOK
    <3>2. CASE fills = << >>
      <4>1. typed' = typed /\ Pending = << >>
        BY <2>1, <3>1, <3>2, ReplayOfNone DEF SubmitScreen, Replay
      <4> QED BY <1>3, <4>1
    <3>3. ASSUME NEW fill \in FillSteps, fills = <<fill>>
          PROVE  Filter(typed', Given) = before \o Pending
      <4>1. typed' = typed \o Sent(fill)
        BY <2>1, <3>3 DEF SubmitScreen
      <4>2. /\ Append(typed, Erase) \in Seq(Sendable)
            /\ Filter(Append(typed, Erase), Given) = before
        <5>1. Erase \in Sendable
          BY DEF Sendable
        <5> QED BY <1>3, <5>1, FilterAppend, EraseNotGiven
      <4>3. Pending = IF fill.text = NoText THEN << >> ELSE <<fill.text>>
        BY <3>1, <3>3, ReplayOfFill DEF Replay
      <4>4. CASE fill.text = NoText
        <5>1. typed' = Append(typed, Erase)
          BY <1>3, <4>1, <4>4 DEF Sent
        <5> QED BY <1>3, <4>2, <4>3, <4>4, <5>1
      <4>5. CASE fill.text # NoText
        <5>1. fill.text \in Sendable /\ fill.text \in Given
          BY <4>5, FillForms DEF Sendable, Given
        <5>2. typed' = Append(Append(typed, Erase), fill.text)
          <6>1. Erase \in Sendable
            BY DEF Sendable
          <6>2. typed \o <<Erase, fill.text>> = Append(Append(typed, Erase), fill.text)
            BY <1>3, <5>1, <6>1
          <6> QED BY <4>1, <4>5, <6>2 DEF Sent
        <5>3. Filter(Append(Append(typed, Erase), fill.text), Given) = Append(before, fill.text)
          <6> DEFINE erased == Append(typed, Erase)
          <6>1. erased \in Seq(Sendable) /\ Filter(erased, Given) = before
            BY <4>2
          <6> HIDE DEF erased
          <6>2. Filter(Append(erased, fill.text), Given) = Append(Filter(erased, Given), fill.text)
            BY <5>1, <6>1, FilterAppend
          <6> QED BY <6>1, <6>2 DEF erased
        <5>4. Append(before, fill.text) = before \o <<fill.text>>
          BY <1>3, <5>1
        <5> QED BY <4>3, <4>5, <5>2, <5>3, <5>4
      <4> QED BY <4>4, <4>5
    <3> QED BY <3>2, <3>3 DEF TypeInv, TypeOK, Changes
  <2>2. CASE SubmitSend
    <3>1. typed' = typed \o SentKey(key) /\ Pending = SentKey(key)
      BY <2>2, PendingType DEF SubmitSend, SubmitStep, ReplayInv, PendingInPlace, TypeInv, TypeOK
    <3>2. key \in Keys /\ key \in Given /\ key \in Sendable
      BY <2>2, KeysAssumption DEF SubmitSend, SubmitStep, TypeInv, SendHasKey, Given, Sendable
    <3>3. CASE StepForKey(key) = NoStep
      <4>1. SentKey(key) = << >>
        BY <3>3 DEF SentKey
      <4> QED BY <1>3, <3>1, <4>1
    <3>4. CASE StepForKey(key) # NoStep
      <4>1. typed' = Append(typed, key) /\ Pending = <<key>>
        BY <1>3, <3>1, <3>2, <3>4 DEF SentKey
      <4>2. Filter(Append(typed, key), Given) = Append(before, key)
        BY <1>3, <3>2, FilterAppend
      <4>3. Append(before, key) = before \o <<key>>
        BY <1>3, <3>2
      <4> QED BY <4>1, <4>2, <4>3
    <3> QED BY <3>3, <3>4
  <2> QED BY <2>1, <2>2
<1>5. GivenSoFar' = GivenSoFar
  BY <1>2, <1>3, <1>4 DEF GivenSoFar
<1>6. ReplayedSoFar' = ReplayedSoFar /\ IsRecording' = IsRecording
  BY <1>1 DEF ReplayedSoFar, IsRecording
<1> QED BY <1>1, <1>5, <1>6 DEF ReplayInv, Agree

(* What is pending is lost; the recording still has it. *)
LEMMA LoseReplayInv ==
    ASSUME TypeInv, TypeInv', ReplayInv, ScreenRefresh \/ SubmitFail
    PROVE  ReplayInv'
<1>1. /\ UNCHANGED <<recording, typed, early>>
      /\ PendingInPlace'
      /\ fills' = << >> /\ key' = NoKey /\ lost' = TRUE
  BY DEF ScreenRefresh, SubmitFail, SubmitStep, ReplayInv, PendingInPlace
<1>2. Filter(typed, Given) \in Seq(Given) /\ Pending \in Seq(Given) /\ Pending' = << >>
  BY <1>1, SoFarTypes, PendingNext DEF TypeInv
<1>3. GivenSoFar' = Filter(typed, Given)
  BY <1>1, <1>2 DEF GivenSoFar
<1>4. ReplayedSoFar' = ReplayedSoFar /\ IsRecording' = IsRecording
  BY <1>1 DEF ReplayedSoFar, IsRecording
<1>5. ASSUME IsRecording PROVE Within(Filter(typed, Given), ReplayedSoFar)
  <2>1. ReplayedSoFar \in Seq(Given) /\ GivenSoFar \in Seq(Given)
    <3>1. early \in Seq(Given) /\ Replay(recording.steps) \in Seq(Given)
      BY <1>5, SoFarTypes DEF TypeInv, IsRecording
    <3> QED BY <1>2, <3>1 DEF ReplayedSoFar, GivenSoFar
  <2>2. Within(GivenSoFar, ReplayedSoFar)
    BY <1>5, <2>1, WithinSelf DEF ReplayInv, Agree
  <2> QED BY <1>2, <2>1, <2>2, WithinFewer DEF GivenSoFar
<1> QED BY <1>1, <1>3, <1>4, <1>5 DEF ReplayInv, Agree

LEMMA NextReplayInv == TypeInv /\ TypeInv' /\ ReplayInv /\ [Next]_vars => ReplayInv'
<1> SUFFICES ASSUME TypeInv, TypeInv', ReplayInv, [Next]_vars PROVE ReplayInv'
  OBVIOUS
<1>1. CASE UNCHANGED vars
  BY <1>1
  DEF vars, submitVars, ReplayInv, PendingInPlace, IsRecording, Agree, GivenSoFar,
      ReplayedSoFar, Pending
<1> QED
  BY <1>1, HandlerReplayInv, FieldsReplayInv, KeyReplayInv, GiveReplayInv, LoseReplayInv
  DEF Next, Submit

(* Between two submits, all a recording holds is replayed as the host was  *)
(* given it since the recording began, wherever in a submit it was started *)
(* and however its stops failed; after a failed command or a refreshed     *)
(* screen it holds all that was given, in order, and possibly more.        *)
THEOREM RecordingReplays == Spec => []ReplayMatches
<1>1. TypeInv /\ ReplayInv => ReplayMatches
  <2> SUFFICES ASSUME TypeInv, ReplayInv, IsRecording, submit = "idle"
               PROVE  Agree(Filter(typed, Given), ReplayedSoFar)
    BY DEF ReplayMatches, Agree, ReplayedSoFar
  <2>1. Filter(typed, Given) \in Seq(Given) /\ Pending = << >>
    BY SoFarTypes, PendingType, SentTypes DEF TypeInv, TypeOK, ReplayInv, PendingInPlace
  <2>2. GivenSoFar = Filter(typed, Given)
    BY <2>1 DEF GivenSoFar
  <2> QED BY <2>2 DEF ReplayInv
<1> QED BY <1>1, NextReplayInv, InitTypeInv, NextTypeInv, InitReplayInv, PTL DEF Spec
=============================================================================
