----------------------------- MODULE Recording ------------------------------
(***************************************************************************)
(* The recording of ONE browser session (cmd/3270Web/main.go): the record  *)
(* handlers, the submits that append to the recording, and the temporary   *)
(* files a finished recording is written to.                               *)
(*                                                                         *)
(* Handlers share s.Recording under the session lock and the directory of  *)
(* temporary files under no lock at all; every lock section and every file *)
(* access is an action.  The page lets one submit run at a time            *)
(* (keyboard.js, "submitting"), the other requests overlap freely.         *)
(*                                                                         *)
(* The screen is shared with every other reader of the session's host: one *)
(* that reads it anew between a submit's two looks at the fields replaces  *)
(* the changed fields (ScreenRefresh), and they are not sent.              *)
(*                                                                         *)
(* typed is what the host was given: for a changed field of a formatted    *)
(* screen the erasure and the text, and the keys that have a step type.    *)
(* Input to an unformatted screen and the other keys are sent but not      *)
(* recorded.  A text is one line; what else becomes of it on the screen is *)
(* Terminal's.                                                             *)
(***************************************************************************)
EXTENDS Naturals, Sequences, SeqFilter, KeyNames

CONSTANTS
    Requests,    \* the client's concurrent requests to the record endpoints
    Files,       \* the names os.CreateTemp can draw, each once
    Keys,        \* the keys the user presses
    Texts,       \* the lines the user types into a field
    NoText,      \* the empty line, which the user leaves in a field
    Gaps,        \* tenths of a millisecond between two recorded keys
    NoRecording, NoFile, NoWorkflow,   \* the nil values
    MaxSubmits,  \* bounds the submits of a behaviour
    MaxSteps     \* bounds the steps of one recording

ASSUME KeysAssumption == Keys \subseteq SentKeys

ASSUME GapsAssumption == Gaps \subseteq Nat

ASSUME NoFileAssumption == NoFile \notin Files

Connect == Plain("Connect")
Disconnect == Plain("Disconnect")

(* A changed field is recorded with its text, which may be empty. *)
Fill(text) == [name |-> "FillString", text |-> text]

FillSteps == {Fill(text) : text \in Texts \cup {NoText}}

(* The fields a submit changes: none or one. *)
Changes == {<< >>} \cup {<<fill>> : fill \in FillSteps}

(* Whatever a recording's step can be. *)
RecordedSteps ==
    {Connect, Disconnect} \cup FillSteps
        \cup ({StepForKey(k) : k \in SentKeys} \ {NoStep})

(* The host's command that empties a field from the cursor on. *)
Erase == Plain("eraseeof")

ASSUME TextsAssumption ==
    /\ NoText \notin Texts
    /\ Texts \cap (SentKeys \cup {Erase}) = {}

(* WorkflowRecording; its host, port and output path are constants of it.  *)
RecordingState ==
    [active : BOOLEAN, steps : Seq(RecordedSteps), file : Files \cup {NoFile},
     samples : Nat, min : Nat, max : Nat, ticking : BOOLEAN]

ASSUME NoRecordingAssumption == NoRecording \notin RecordingState

Workflow == [steps : Seq(RecordedSteps), min : Nat, max : Nat]

ASSUME NoWorkflowAssumption == NoWorkflow \notin Workflow

VARIABLES
    sessionLive, \* the session is in the session manager
    recording,   \* s.Recording
    file,        \* the temporary files: "unwritten", "present" or "removed"
    content,     \* what was written to them
    pc, path, wf,            \* handlers: next step, local path and workflow
    submit, fills, key,      \* the submit: next step, its changed fields, its key
    submits,     \* the submits so far
    typed,       \* what the host was given since the recording began
    early,       \* what the submit that ran when the recording began had yet to give
    lost         \* recorded input was lost since the recording began

diskVars    == <<file, content>>
requestVars == <<pc, path, wf>>
submitVars  == <<submit, fills, key, submits, typed, early, lost>>
vars == <<sessionLive, recording, diskVars, requestVars, submitVars>>

IsRecording == recording # NoRecording /\ recording.active

Shown == IF recording = NoRecording THEN NoFile ELSE recording.file

(* Variant: the new recording goes on with the steps of the old one. *)
FreshContinued ==
    [active |-> TRUE,
     steps |-> IF recording = NoRecording THEN <<Connect>> ELSE Append(recording.steps, Connect),
     file |-> NoFile, samples |-> 0, min |-> 0, max |-> 0, ticking |-> FALSE]

Fresh ==
    [active |-> TRUE, steps |-> <<Connect>>, file |-> NoFile,
     samples |-> 0, min |-> 0, max |-> 0, ticking |-> FALSE]

Init ==
    /\ sessionLive = TRUE
    /\ recording = NoRecording
    /\ file = [f \in Files |-> "unwritten"]
    /\ content = [f \in Files |-> NoWorkflow]
    /\ pc = [r \in Requests |-> "idle"]
    /\ path = [r \in Requests |-> NoFile]
    /\ wf = [r \in Requests |-> NoWorkflow]
    /\ submit = "idle"
    /\ fills = << >>
    /\ key = NoKey
    /\ submits = 0
    /\ typed = << >>
    /\ early = << >>
    /\ lost = FALSE

-----------------------------------------------------------------------------
(* What the host is given                                                  *)

(* SubmitScreen: a field is erased, then its text typed, if it has one.    *)
Sent(fill) == IF fill.text = NoText THEN <<Erase>> ELSE <<Erase, fill.text>>

(* A key that leaves no step is not counted. *)
SentKey(k) == IF StepForKey(k) = NoStep THEN << >> ELSE <<k>>

(* The steps with which playback gives the host input: WriteStringAt does  *)
(* nothing with an empty text.                                             *)
Inputs == RecordedSteps \ {Connect, Disconnect, Fill(NoText)}

(* Playback writes a text over what is there, without an erasure. *)
Replayed(step) == IF step.name = "FillString" THEN step.text ELSE KeyForStep(step)

Replay(steps) ==
    LET inputs == Filter(steps, Inputs)
    IN  [i \in 1..Len(inputs) |-> Replayed(inputs[i])]

(* What the submit that is running has passed by the recorder and not yet  *)
(* given to the host, apart from erasures.                                 *)
Pending == Replay(fills) \o SentKey(key)

-----------------------------------------------------------------------------
(* Handlers: shared pieces                                                 *)

Step(r, here, next) ==
    /\ pc[r] = here
    /\ here = "idle" => sessionLive
    /\ pc' = [pc EXCEPT ![r] = next]

(* The handler answers; its locals go out of scope. *)
Reply(r, here) ==
    /\ Step(r, here, "idle")
    /\ path' = [path EXCEPT ![r] = NoFile]
    /\ wf' = [wf EXCEPT ![r] = NoWorkflow]

(* cleanupRecordingFile: the path is taken out under the lock, the file    *)
(* removed after it.                                                       *)
TakeFile(r) ==
    /\ path' = [path EXCEPT ![r] = Shown]
    /\ recording' = IF recording = NoRecording THEN NoRecording
                    ELSE [recording EXCEPT !.file = NoFile]

(* os.Remove of the handler's path, if it has one: a removed file stays    *)
(* removed, whoever removes it again.                                      *)
DeleteFile(r) ==
    file' = [f \in Files |-> IF f = path[r] THEN "removed" ELSE file[f]]

-----------------------------------------------------------------------------
(* POST /record/start                                                      *)

StartReceive(r) ==
    /\ Step(r, "idle", "start_delete")
    /\ TakeFile(r)
    /\ UNCHANGED <<sessionLive, diskVars, wf, submitVars>>

StartDelete(r) ==
    /\ Step(r, "start_delete", "start_record")
    /\ DeleteFile(r)
    /\ UNCHANGED <<sessionLive, recording, content, path, wf, submitVars>>

StartRecord(r) ==
    /\ ~IsRecording
    /\ Reply(r, "start_record")
    /\ recording' = Fresh
    /\ typed' = << >>
    /\ early' = Pending
    /\ lost' = FALSE
    /\ UNCHANGED <<sessionLive, diskVars, submit, fills, key, submits>>

(* A recording is active already, or a playback is: the latter is the      *)
(* environment's choice.                                                   *)
StartRefuse(r) ==
    /\ Reply(r, "start_record")
    /\ UNCHANGED <<sessionLive, recording, diskVars, submitVars>>

-----------------------------------------------------------------------------
(* POST /record/stop                                                       *)

(* roundDelaySeconds: to milliseconds. *)
RoundDelay(v) == (v + 5) \div 10

(* buildWorkflowConfig: the default range stands until two keys at         *)
(* different times were recorded.  The steps are shared, not copied: what  *)
(* is appended later lies behind the slice's length.                       *)
BuildWorkflow(steps) ==
    [steps |-> steps,
     min |-> IF recording.samples > 0 THEN RoundDelay(recording.min) ELSE 100,
     max |-> IF recording.samples > 0 THEN RoundDelay(recording.max) ELSE 300]

StopReceive(r) ==
    /\ IsRecording
    /\ Len(recording.steps) < MaxSteps
    /\ Step(r, "idle", "stop_write")
    /\ LET steps == Append(recording.steps, Disconnect)
       IN /\ recording' = [recording EXCEPT !.steps = steps]
          /\ wf' = [wf EXCEPT ![r] = BuildWorkflow(steps)]
    /\ UNCHANGED <<sessionLive, diskVars, path, submitVars>>

StopWrite(r) ==
    /\ Step(r, "stop_write", "stop_store")
    /\ \E f \in Files :
        /\ file[f] = "unwritten"
        /\ file' = [file EXCEPT ![f] = "present"]
        /\ content' = [content EXCEPT ![f] = wf[r]]
        /\ path' = [path EXCEPT ![r] = f]
        /\ wf' = [wf EXCEPT ![r] = NoWorkflow]
    /\ UNCHANGED <<sessionLive, recording, submitVars>>

(* Variant: the path is stored although no file was written. *)
StopFailStored(r) ==
    /\ Step(r, "stop_write", "stop_store")
    /\ UNCHANGED <<sessionLive, recording, diskVars, path, wf, submitVars>>

(* Variant: a stop that fails throws the recorded inputs away. *)
StopFailForgets(r) ==
    /\ Reply(r, "stop_write")
    /\ recording' = IF IsRecording THEN [recording EXCEPT !.steps = <<Connect>>] ELSE recording
    /\ UNCHANGED <<sessionLive, diskVars, submitVars>>

(* The recording stays active, its Disconnect included. *)
StopFail(r) ==
    /\ Reply(r, "stop_write")
    /\ UNCHANGED <<sessionLive, recording, diskVars, submitVars>>

(* Variant: the path is shown before the recording ends. *)
StopStoreOpen(r) ==
    /\ Reply(r, "stop_store")
    /\ recording' = IF recording = NoRecording THEN NoRecording
                    ELSE [recording EXCEPT !.file = path[r]]
    /\ UNCHANGED <<sessionLive, diskVars, submitVars>>

(* Whichever recording the session has by now is ended. *)
StopStore(r) ==
    /\ Reply(r, "stop_store")
    /\ recording' = IF recording = NoRecording THEN NoRecording
                    ELSE [recording EXCEPT !.active = FALSE, !.file = path[r]]
    /\ UNCHANGED <<sessionLive, diskVars, submitVars>>

-----------------------------------------------------------------------------
(* GET /record/download: the file is removed once it has been sent.        *)

DownloadReceive(r) ==
    /\ Shown # NoFile
    /\ Step(r, "idle", "download_delete")
    /\ path' = [path EXCEPT ![r] = Shown]
    /\ UNCHANGED <<sessionLive, recording, diskVars, wf, submitVars>>

DownloadDelete(r) ==
    /\ Step(r, "download_delete", "download_forget")
    /\ DeleteFile(r)
    /\ UNCHANGED <<sessionLive, recording, content, path, wf, submitVars>>

DownloadForget(r) ==
    /\ Reply(r, "download_forget")
    /\ recording' = IF recording # NoRecording /\ recording.file = path[r]
                    THEN [recording EXCEPT !.file = NoFile]
                    ELSE recording
    /\ UNCHANGED <<sessionLive, diskVars, submitVars>>

-----------------------------------------------------------------------------
(* POST /workflow/remove forgets the recording, POST /disconnect cleans up *)
(* after it.                                                               *)

RemoveWorkflow(r) ==
    /\ Step(r, "idle", "idle")
    /\ recording' = NoRecording
    /\ UNCHANGED <<sessionLive, diskVars, path, wf, submitVars>>

DisconnectReceive(r) ==
    /\ Step(r, "idle", "disconnect_delete")
    /\ TakeFile(r)
    /\ UNCHANGED <<sessionLive, diskVars, wf, submitVars>>

DisconnectDelete(r) ==
    /\ Step(r, "disconnect_delete", "disconnect_session")
    /\ DeleteFile(r)
    /\ UNCHANGED <<sessionLive, recording, content, path, wf, submitVars>>

DisconnectSession(r) ==
    /\ Reply(r, "disconnect_session")
    /\ sessionLive' = FALSE
    /\ UNCHANGED <<recording, diskVars, submitVars>>

-----------------------------------------------------------------------------
(* POST /submit and /submit/async                                          *)

SubmitStep(here, next) ==
    /\ submit = here
    /\ submit' = next

(* The recording has room for n more steps. *)
Room(n) == IsRecording => Len(recording.steps) + n <= MaxSteps

AppendSteps(steps) ==
    recording' = IF IsRecording THEN [recording EXCEPT !.steps = @ \o steps] ELSE recording

(* updateFields and recordFieldUpdates on a formatted screen: the changed  *)
(* field, if there is one, is recorded before it is sent.  An unformatted  *)
(* screen records nothing.                                                 *)
SubmitFields ==
    /\ sessionLive
    /\ submits < MaxSubmits
    /\ Room(1)
    /\ SubmitStep("idle", "screen")
    /\ submits' = submits + 1
    /\ \E changed \in Changes :
        /\ fills' = changed
        /\ AppendSteps(changed)
    /\ UNCHANGED <<sessionLive, diskVars, requestVars, key, typed, early, lost>>

(* SubmitScreen or SubmitUnformatted, and MoveCursor, succeed. *)
SubmitScreen ==
    /\ SubmitStep("screen", "key")
    /\ typed' = IF fills = << >> THEN typed ELSE typed \o Sent(fills[1])
    /\ fills' = << >>
    /\ UNCHANGED <<sessionLive, recording, diskVars, requestVars, key, submits, early, lost>>

(* UpdateScreen of another request, a playback or a chaos run: the fields  *)
(* of h.screen are replaced by unchanged ones.                             *)
ScreenRefresh ==
    /\ submit = "screen"
    /\ fills # << >>
    /\ fills' = << >>
    /\ lost' = TRUE
    /\ UNCHANGED <<sessionLive, recording, diskVars, requestVars, submit, key, submits,
                   typed, early>>

(* updateRecordingDelayStats: gap is the time since the last recorded key. *)
Tick(rec, gap) ==
    IF rec.ticking /\ gap > 0
    THEN [rec EXCEPT !.min = IF rec.samples = 0 \/ gap < @ THEN gap ELSE @,
                     !.max = IF rec.samples = 0 \/ gap > @ THEN gap ELSE @,
                     !.samples = @ + 1]
    ELSE [rec EXCEPT !.ticking = TRUE]

(* recordActionKey: a key without a step type leaves no trace. *)
RecordKey(k, gap) ==
    recording' =
        IF ~IsRecording \/ StepForKey(k) = NoStep THEN recording
        ELSE [Tick(recording, gap) EXCEPT !.steps = Append(@, StepForKey(k))]

SubmitKey ==
    /\ SubmitStep("key", "send")
    /\ Room(1)
    /\ \E k \in Keys, gap \in Gaps :
        /\ key' = k
        /\ RecordKey(k, gap)
    /\ UNCHANGED <<sessionLive, diskVars, requestVars, fills, submits, typed, early, lost>>

SubmitSend ==
    /\ SubmitStep("send", "idle")
    /\ typed' = typed \o SentKey(key)
    /\ key' = NoKey
    /\ UNCHANGED <<sessionLive, recording, diskVars, requestVars, fills, submits, early, lost>>

(* A host command fails: the submit is given up, what was recorded stays.  *)
SubmitFail ==
    /\ SubmitStep("screen", "idle") \/ SubmitStep("send", "idle")
    /\ fills' = << >>
    /\ key' = NoKey
    /\ lost' = TRUE
    /\ UNCHANGED <<sessionLive, recording, diskVars, requestVars, submits, typed, early>>

Submit ==
    \/ SubmitFields \/ SubmitScreen \/ ScreenRefresh \/ SubmitKey \/ SubmitSend \/ SubmitFail

-----------------------------------------------------------------------------
Handler(r) ==
    \/ StartReceive(r) \/ StartDelete(r) \/ StartRecord(r) \/ StartRefuse(r)
    \/ StopReceive(r) \/ StopWrite(r) \/ StopFail(r) \/ StopStore(r)
    \/ DownloadReceive(r) \/ DownloadDelete(r) \/ DownloadForget(r)
    \/ RemoveWorkflow(r)
    \/ DisconnectReceive(r) \/ DisconnectDelete(r) \/ DisconnectSession(r)

Next == Submit \/ \E r \in Requests : Handler(r)

Spec == Init /\ [][Next]_vars

-----------------------------------------------------------------------------
(* Properties                                                              *)

(* The type of every variable: a handler has a path or a workflow only     *)
(* where its code has one, and a file that was written has a content.      *)
TypeOK ==
    /\ sessionLive \in BOOLEAN
    /\ recording \in RecordingState \cup {NoRecording}
    /\ file \in [Files -> {"unwritten", "present", "removed"}]
    /\ content \in [Files -> Workflow \cup {NoWorkflow}]
    /\ pc \in [Requests ->
                {"idle", "start_delete", "start_record", "stop_write", "stop_store",
                 "download_delete", "download_forget", "disconnect_delete",
                 "disconnect_session"}]
    /\ path \in [Requests -> Files \cup {NoFile}]
    /\ wf \in [Requests -> Workflow \cup {NoWorkflow}]
    /\ submit \in {"idle", "screen", "key", "send"}
    /\ fills \in Changes
    /\ key \in Keys \cup {NoKey}
    /\ submits \in Nat
    /\ typed \in Seq({Erase} \cup Texts \cup Keys)
    /\ early \in Seq(Texts \cup Keys)
    /\ lost \in BOOLEAN
    /\ \A f \in Files : file[f] # "unwritten" => content[f] # NoWorkflow
    /\ \A r \in Requests : pc[r] = "stop_write" => wf[r] # NoWorkflow
    /\ \A r \in Requests : pc[r] \in {"stop_store", "download_delete"} => path[r] # NoFile

(* One Connect, which comes first, a Disconnect at the end, and a delay    *)
(* range that is ordered.  There may be more Disconnects: that of a stop   *)
(* whose write failed stays in the recording, and that of an overlapping   *)
(* stop is added.  A player stops the host at the first one, so that the   *)
(* next fill fails; a file like that is not excluded.                      *)
Bracketed(w) ==
    /\ w.steps # << >>
    /\ \A i \in 1..Len(w.steps) : w.steps[i] = Connect <=> i = 1
    /\ w.steps[Len(w.steps)] = Disconnect
    /\ w.min <= w.max

(* Whatever overlapping stops, failed writes, restarts and removals do,    *)
(* every workflow a stop has built, and every file that was ever written,  *)
(* begins with its only Connect, ends with a Disconnect and has an ordered *)
(* delay range.                                                            *)
FilesBracketed ==
    /\ \A r \in Requests : pc[r] = "stop_write" => Bracketed(wf[r])
    /\ \A f \in Files : file[f] # "unwritten" => Bracketed(content[f])

(* The file name the status shows is the file of a recording that is over, *)
(* and the file is there, unless a download that has just removed it is    *)
(* about to say so.                                                        *)
ShownFileExists ==
    Shown # NoFile =>
        /\ ~IsRecording
        /\ \/ file[Shown] = "present"
           \/ \E r \in Requests : pc[r] = "download_forget" /\ path[r] = Shown

(* The elements of short are found in long, in the same order. *)
Within(short, long) ==
    \E at \in [1..Len(short) -> 1..Len(long)] :
        /\ \A i, j \in 1..Len(short) : i < j => at[i] < at[j]
        /\ \A i \in 1..Len(short) : short[i] = long[at[i]]

(* What playback can give the host, too. *)
Given == Texts \cup SentKeys

(* Between two submits, the texts and keys the host was given since the    *)
(* recording began are those a replay of all its steps gives, in that      *)
(* order and none left out, after what an earlier submit still had to give *)
(* when it began: nothing is lost, doubled or recorded as something else,  *)
(* wherever in a submit the recording was started, and also when a stop    *)
(* failed.  A failed command and a refreshed screen lose input that is     *)
(* already recorded; the recording then holds more than was given, but     *)
(* still all of it and in order.  Erasures are not replayed, so that this  *)
(* is about what is typed, not about what the field shows then.            *)
ReplayMatches ==
    (IsRecording /\ submit = "idle") =>
        LET given == Filter(typed, Given)
            replay == early \o Replay(recording.steps)
        IN  IF lost THEN Within(given, replay) ELSE given = replay
=============================================================================
