# 3270Web in TLA+

3270Web is a Go web server that gives browsers 3270 terminal sessions through
`s3270` child processes. It records and replays workflows, and its chaos mode
explores an application by typing into it. This directory models the parts of
it in which concurrent goroutines share a session, the exploration loop, the
s3270 process and the way of a form from the screen to the page and back; it
checks the models with TLC and proves their invariants with TLAPS.

Paths below are relative to the repository (`cmd/3270Web/chaos.go` is
`src/cmd/3270Web/chaos.go` in `PROJECT.json`).

| Module | What it is |
| --- | --- |
| `RunLifecycle.tla` | the abstract specification of chaos runs: launched, counting, ended, final |
| `ChaosControl.tla` | start, stop, resume, remove, load, export, disconnect of chaos runs, the engines' run loops and their `syncChaosStatus` goroutines |
| `ChaosControl_proofs.tla` | seven theorems about it |
| `ChaosEngine.tla` | the exploration loop itself: steps, attempts, counters, mind map, exported steps, output file, resume and seeding |
| `ChaosEngine_proofs.tla` | eight theorems about it |
| `Playback.tla` | play, debug, step, pause, stop, remove, load of recordings and the `playWorkflow` goroutines |
| `Playback_proofs.tla` | three theorems about it |
| `Recording.tla` | record start, stop, download, removal, disconnect, the submits that append, the temporary files |
| `Recording_proofs.tla` | four theorems about it |
| `HostCall.tla` | the abstract specification of a call of the host: what a caller may rely on |
| `HostS3270.tla` | the s3270 process, its pipe, the command lock, timeouts, retries, restarts and `Stop` |
| `HostS3270_proofs.tla` | four theorems about it |
| `KeyNames.tla` | key names as the page posts them, the host sends them, a recording and an export store them |
| `KeyNames_proofs.tla` | four theorems about it |
| `ScreenModel.tla` | the emulator's dump, rows, fields, their texts and lengths |
| `Terminal.tla` | a form from the emulator to the page and back: read, edit, submit, record, type |
| `Terminal_proofs.tla` | six theorems about it |
| `SeqFilter.tla` | what remains of a sequence when it is filtered |
| `DataTheorems.tla` | lemmas on induction, filters, folds, sums and counting that the proofs share |
| `MC*.tla` | the instances for TLC: constants, symmetry, views |

`Recording` and `ChaosEngine` extend `KeyNames`, `Terminal` extends
`ScreenModel`, and all that filter a sequence extend `SeqFilter`; `ChaosControl` implements `RunLifecycle` and `HostS3270`
implements `HostCall`.

`PROJECT.json` lists the components, the runs, a mutant for every checked
property, the source lines of every definition, the findings and the hazards.

## Inventory

### Components, their state and their operations

| Component | State | Operations | Correct when |
| --- | --- | --- | --- |
| Chaos control plane (`chaos.go`) | `chaosEngineStore` (`engines`, `loadedRuns`, `removed`, by session), `s.Chaos` | eight handlers, one `syncChaosStatus` goroutine per engine | one run at a time; a run can be stopped; removed runs stay away; no status is stuck; every run is saved once, completely |
| Chaos engine (`internal/chaos/engine.go`) | `active`, `stepsRun`, `stopCh`, attempts, transitions, screen hashes, mind map | `Start`, `Stop`, `Resume`, `Snapshot`, `ExportWorkflow`, the run loop | limits hold; an attempt is booked on the screen it was made on; a resume continues what it loaded |
| Mind map (`mindmap.go`) | areas, key counters, bounded value lists | `recordAttempt`, merge, choice of the next key | counters agree with the attempts; lists stay bounded |
| Saved runs (`persistence.go`) | one JSON file per run | `SaveRun`, `LoadRun`, `ListRuns` | a saved run can be loaded; ids stay inside the directory |
| Playback (`workflow_playback.go`, `main.go`) | `s.Playback`, `s.LoadedWorkflow`, the summary of the last playback | seven handlers, one `playWorkflow` goroutine per play | one goroutine per playback; stop, pause and step are obeyed; the flag "active" is never left behind |
| Recording (`main.go`) | `s.Recording`, its temporary file | start, stop, download, remove; two recorders called from submit | the file is complete, bracketed by Connect and Disconnect, and there as long as it is shown; a recording replays what was sent |
| s3270 host (`internal/host/s3270.go`) | the child process, its pipes, the screen cache, one command lock | `Start`, `Stop`, `SendKey`, `SubmitScreen`, `UpdateScreen`, ... with timeout, retry and reconnect | a process carries out an operation once; no reply is read by another command; every call returns |
| Screen model (`screen_update.go`, `types.go`) | rows, fields | parsing of `ReadBuffer` lines, field values, field writes | fields are those of the emulator whatever the form of its dump; a field's length is that of its text |
| Sample and mock hosts | a listener per sample application | start, keys | demonstration only |
| Session manager (`internal/session`) | `map` of sessions with a last access time | create, get, remove, expiry; `connectToHost`, `resetSessionHost` | a removed session takes no request |
| Submit and keys (`main.go`, `keys.go`) | none of their own | `processSubmit`, key normalisation, step names | recorded keys replay as the keys that were sent |
| Settings and `.env` (`s3270_env.go`, `main.go`) | the file, the process's environment | read, merge, write, split arguments | a write keeps the other settings |
| Renderer, CSRF, validation, themes, logs, launcher, assets, browser scripts | - | - | not state machines of their own; see "Not modelled" |

### How they interact

- Every HTTP request runs in a goroutine of its own. A handler finds its
  `Session` by cookie and takes the session lock (`withSessionLock`) for one
  block at a time, never over a whole handler.
- `chaosEngineStore` has its own mutex, held for one map access. An `Engine`
  has its own mutex. `s.Chaos` is guarded by the session lock. So a handler is
  a sequence of atomic accesses to different pieces of state.
- A launched engine runs in a goroutine. `syncChaosStatus`, another goroutine,
  polls it, copies its status into `s.Chaos`, and when it has ended takes the
  snapshot, puts it in the store, saves it and deletes the registration.
- `playWorkflow` is a goroutine that finds its orders (`StopRequested`,
  `Paused`, `StepRequested`) in `s.Playback` and reads that field anew at every
  access.
- Submit, playback and chaos all drive the one `s.Host` of the session, whose
  command lock serialises single commands only.

### Which behaviours are hard

Interleavings of handlers with each other and with goroutines that outlive
them; values read under one lock and used after the next; removal and
replacement of what a goroutine still works on; the order of snapshot, store,
file and registration at the end of a run; stop signals in every waiting state;
timeouts, retries and reconnects of the host; read-modify-write of files.
`PROJECT.json` lists each at its line under `hazards`, with the properties
about it or the reason why none covers it.

## ChaosControl

### Correspondence

One session, any number of concurrent requests (`Requests`) and engines
(`Engines`; an engine is used for one run, as in the code, so the set also
bounds the runs of a behaviour).

| Model | Code |
| --- | --- |
| `registered`, `loadedRun`, `removed` | the session's entry in the three maps of `chaosEngineStore` |
| `chaos` | `s.Chaos`: whose status, `Active`, `LoadedRunID` |
| `saved`, `snap` | the runs directory, and `StepsRun` of every run's snapshot |
| `loop`, `stop`, `steps`, `from` | an `Engine`: the run loop's position, `stopCh` closed, `stepsRun`, `loadedRunID` |
| `sync[e]` | the `syncChaosStatus` goroutine of engine `e` |
| `pc[r]`, `eng[r]`, `run[r]` | a handler's position and its locals |

Each action is one access to shared state. Where several lines are one action:

- the session lookup belongs to a handler's first action (a session that is
  removed later does not disturb a handler that already holds it);
- `store.get` and the following test of `Status().Active` are two accesses; the
  test is part of the action that acts on it. An engine seen inactive never
  becomes active again, so nothing can happen in between that would change
  the outcome;
- `isRemoved` is read while the session lock is held, and a removal clears
  `s.Chaos` under that lock after it set the mark: test and assignment in
  `SyncPublish` are one action;
- the run loop is reduced to what the control plane sees: the tests at the top,
  the step that counts, the exits. A stop during the delay between two steps
  leads to the exit the top of the loop would take. What a step does on the
  screen, and the output file, are the subject of `ChaosEngine`;
- a run is named after its engine: `NewRunID` is drawn once per engine.

`RunLifecycle` says what chaos mode promises about runs and knows neither
requests nor goroutines, store or status: a run begins once, counts up to the
limit, ends; its snapshot is taken after it has ended; only final snapshots are
loaded, saved and resumed from. `ChaosControl` implements it
(`ImplementsLifecycle`), with the run loop's position mapped to a phase and the
other variables to their namesakes (`Phase`, `Lifecycle`).

The environment chooses whether a host command fails (`RunFail`), whether the
time budget is over (`TimeBudget`), and whether the directory takes a file
(`DiskFaults`).

### Runs

| Run | Checks | Instance |
| --- | --- | --- |
| `chaos_safety` | `TypeOK`, `RemovedStaysBlank`, `NoStuckActive`, `SnapshotsComplete`, `ResumeCountsOn`, `ImplementsLifecycle` | 2 requests, 2 engines, disk faults, time budget; 3.3 million states |
| `chaos_liveness` | `ShownRunIsSaved`, `RegistrationEnds`, `EveryRunIsSaved`, `ActiveStatusIsCorrected` | 1 request at a time, 2 engines, an earlier run, 175 000 states |
| `chaos_two_starts` | `AtMostOneActiveEngine`, violated | 2 concurrent starts |
| `chaos_lost_engine` | `ActiveEngineIsStoppable`, violated | 1 client, 2 runs one after the other |

Two requests are what a race between handlers needs. Two engines are what a
race between an old run's goroutine and a new run needs. `MaxSteps` = 1 lets a
run end by its limit, by a stop, by failure and by its budget; 2 in
`chaos_lost_engine` keeps the second run busy. The symmetry permutes requests
and engines, which the model compares for equality only. The `VIEW` drops the
locals and stop flags nothing reads any more. `record` is left to the liveness
run, which fires the actions `chaos_safety` does not. Deadlock is not checked: after a disconnect
the session takes no request, and everything rightly stops.

Both violations are disagreements with what the repository says (`findings`):

- `ChaosStartHandler` tests for a running engine (`chaos.go:160`) and registers
  its own at `chaos.go:185` without a lock over both. Two starts launch two
  engines, against the comment "Reject if an engine is already running for this
  session." (`chaos.go:159`).
- `syncChaosStatus` ends with `delete(s.ID)` (`chaos.go:421`), which removes
  whatever engine is registered by then. A run that was started while the
  previous run was being saved loses its registration, and
  `POST /chaos/stop` no longer finds it ("You can stop the run at any time",
  `docs/chaos-mode.md:22`).

### Fairness

`FairSpec` gives weak fairness to every handler, run loop and sync goroutine:
the Go scheduler runs every goroutine that can run, and every host command
returns because the host layer bounds it by a timeout. Clients owe nothing: no
liveness property relies on a request that is never sent.
`EveryRunIsSaved` is stated for behaviours without a removal, and without disk
faults, since the code drops an error of `SaveRun`.

## Playback

### Correspondence

| Model | Code |
| --- | --- |
| `playback` | `s.Playback`: `Active`, `StopRequested`, `Paused`, `Mode`, `StepRequested`, `PendingInput`, `CurrentStep`, `TotalSteps` |
| `loaded` | `s.LoadedWorkflow` |
| `last`, `completed` | `s.LastPlaybackStep`, `s.LastPlaybackStepTotal`, `s.PlaybackCompletedAt` |
| `pc[r]`, `mode[r]`, `wf[r]` | a handler's position, play or debug, its local workflow |
| `player[g]`, `script[g]`, `at[g]` | a `playWorkflow` goroutine: position, its workflow, the index of its step |

`StepWorkflow`, `PauseWorkflow` and `StopWorkflow` take the session lock once
and are one action each; `/workflow/play`, `/workflow/debug`, `/workflow/remove`
and `/workflow/load` take it several times and go through `pc`. A goroutine does
not remember which playback it was started for: it works on whatever
`s.Playback` is at each access, and so does the model.

`Begin` creates a playback if there is none, as lines 19-21 of
`workflow_playback.go` do. `Heed` is `shouldStopPlayback` with a positive
answer, in its three places. `Permit` is the poll of `waitForDebugPermission`
that succeeds. A step's type decides between `ApplyConnection`, `ApplyFill` and
`ApplyKey` (which first submits pending input, `Submit`); `Update` stands for
the host commands after them (`SendKey`, `UpdateScreen`). Whether a host command
fails (`ApplyFail`) and when a delay ends (`Delay`) is the environment's choice;
a connection is followed by an `UpdateScreen` whose failure is the same exit.
The event list and the delay texts of the status are left out, and so is
`resetSessionHost`, of which only success and failure matter here (`PlayStart`,
`PlayRefuse`).

### Runs

| Run | Checks | Instance |
| --- | --- | --- |
| `playback_safety` | `TypeOK`, `ActiveHasPlayer`, `SummaryMatches` | 2 requests, 2 goroutines, recordings `<<fill, key>>` and `<<connect>>`, all endpoints but pause; 4.1 million states |
| `playback_liveness` | `StopEnds`, `PlaybackEnds` | 1 request at a time, 2 goroutines, recording `<<fill, key>>`, pause included; 172 000 states |
| `playback_pause` | `PauseHolds`, violated | 1 goroutine in play mode |
| `playback_two_plays` | `PlayerIsStoppable`, violated | 2 concurrent plays |

A recording with a fill and a key has pending input, a first and a last step;
the connection alone has a step that is both, so that replaced playbacks
differ in length. Two goroutines occur even with one request at a time,
because a play is accepted until the goroutine of the previous one has begun.
The number of playbacks is bounded by `Players`; it is the only bound. Deadlock
is checked: `/workflow/stop` is always answered.

- `ActiveHasPlayer`: the flag that locks plays, loads and recordings out always
  has a goroutine that will clear it, in spite of removals, replacements
  and two goroutines on one playback.
- `SummaryMatches`: when all goroutines are done, the status of a completed
  playback is the one it ended with.
- `StopEnds`: a stop or a removal ends a goroutine wherever it stands, also while it waits in
  the debugger.
- `PlaybackEnds`: outside the debugger a playback ends without help.

Violated, and listed under `findings`:

- `PauseHolds`. "Use **Pause/Resume** in play mode if needed."
  (`docs/workflow.md:37`): the handler sets `Paused` in both modes, but
  `waitForDebugPermission` reads it in debug mode only
  (`workflow_playback.go:256`).
- `PlayerIsStoppable`. "Click **Stop playback** to end execution."
  (`docs/workflow.md:38`): a second play is accepted until the first goroutine
  sets `Active`. It replaces the playback with an inactive one under a running
  goroutine, and when the first of two goroutines ends, it clears the flag of
  the other; `stopWorkflowPlayback` ignores an inactive playback.

Fairness is weak fairness of every handler and every goroutine, with the same
justification as above. Nothing is assumed of the client, so that a debugged
playback may wait for ever, and `PlaybackEnds` excludes the debugger.

## ChaosEngine

### Correspondence

`ChaosControl` sees of a run that it counts and ends; `ChaosEngine` is the run:
one engine after another on the host of one session, each new, resumed from the
previous one's snapshot or seeded from a recording.

| Model | Code |
| --- | --- |
| `active`, `stop`, `failed`, `cfg` | the engine's status, `stopCh` closed, `lastErr` set, `Config` |
| `stepsRun`, `keyCounts`, `transitions`, `steps`, `hashes`, `inputs`, `attempts`, `mind` | the fields of `Engine` of those names |
| `pc`, `from`, `key`, `writes` | the loop's position and the locals of one turn of it |
| `unwritten`, `output` | what the deferred functions of ended runs have yet to write, and the output file |
| `failures`, `seeded`, `runs`, `afterStop`, `disturbed` | counted for the properties only |

Each action is one host command with the code that follows it up to the next
one: `ReadScreen` (update, hash, field writes, choice of the key), `PressKey`,
`RefreshScreen` (update, mind map, all counters), `DelayOver`. A failure
at each of them is an action too. `BookFailure` records the attempt and ends
the run without counting. `Exit` ends the run, `WriteOutput` writes the file, in
this order, as `run`'s deferred function does: a new run may begin in between.
Which screen follows, whether a write or a command fails, and which value that
fits is typed, is open. Key weights are whatever integers a request gives, which
the handler does not check (`chaos.go:132`); `Effective` adds what `Boosts` has
learned, `Cumulative` sums up over the sorted keys as the draw does, and
`SelectableKeys` are the keys that some number drawn leads to.

A text has a length and a trimmed form (`Size`, `Trimmed`). What is learned is
trimmed, but filed under the length that was written (`Written`, `Learn`), as
`mindmap.go:197-201` does. `SeedMap` is the mind map a recording is turned into;
its fills are filed under the place and length their coordinates give, and what is
missing there is made up (`SeedFieldKey`).

### Run and bounds

`engine` checks `TypeOK`, `CountersAgree`, `MapCoversRun`, `KnownValuesWorked`,
`AttemptNumbers`, `KeysStaySelectable`, `StopIsPrompt`, `OutputComplete`;
286 000 states.

Two screens, one of them with a field of two characters; four texts: one of one
character, the same with a blank behind it, another of two, and the empty one.
Three keys: Enter, PF3, and Reset, which is exported as an Enter. Two runs, two
configurations: Enter with weight 2 and Reset with -1; Reset with weight 1, PF3
with 0 and hidden attempts; each with limit 2. So keys compete for the draw, one
is configured with a weight that is not positive, and one is pressed although it has
none once the map knows it. The one recording has a blank fill, one as the record
handlers write it, one that names its field's length and one without
coordinates, and two keys. `MaxAttempts` = 2 and `MaxValues` = 1 make the lists
evict, `MinPresses` = 1 makes a penalty possible, `MaxFactor` = 2 makes the boost
reach its cap; the code's 40, 12, 5 and 20 would only delay the same cases.
`MaxRuns` = 2 is what a resume, and a race for the file, need. The view leaves out
what nothing reads any more. Deadlock is not checked since the runs are bounded.

- `CountersAgree`: what the status shows, what is exported and what the mind
  map has counted are about the same steps over failures and resumes. What is
  exported is compared per step type (`ExportedAs`), since several keys are
  exported as the same step.
- `MapCoversRun`: the areas include every screen counted, the destinations are the
  transitions, and a key's progressions are its destinations.
- `KnownValuesWorked`: what the map offers as known to work on a screen was
  filled in there, at that place and with that length, by a transition that left
  the screen; and where something worked, something is known, however much was
  evicted. A place and length are those of the value, see "Defects".
- `AttemptNumbers`: an attempt's number is its own, also among attempts that are
  kept while others between them were hidden or dropped, except that the number of
  the failed attempt that ended a run is used again after a resume, as the code
  does (`engine.go:429`).
- `KeysStaySelectable`: no penalty takes a configured key out of the choice. On a
  screen with a boost or a penalty every configured key can be drawn, whatever its
  weight; on the others the weights are not clamped, and the property is about
  positive weights among none that is negative.
- `StopIsPrompt`: a stopped run presses one more key at most.
- `OutputComplete`: the file holds the last run's steps, unless two runs had it
  to write at once: the first run's goroutine reports itself inactive before it
  writes, so the later run may be overwritten (`engine.go:375`). The exception
  is `disturbed`.

## Recording

### Correspondence

| Model | Code |
| --- | --- |
| `recording` | `s.Recording`: active, steps, file path, and the delay samples |
| `file`, `content` | the temporary files `os.CreateTemp` makes |
| `pc`, `path`, `wf` | a handler's position, its local path and the workflow it built |
| `submit`, `fills`, `key` | a submit's position, the changed fields in `h.screen`, the key |
| `typed`, `early`, `lost` | what the host was given since the recording began, what the submit that was running then had yet to give, and whether recorded input was lost; for the properties only |

A handler is a sequence of lock sections and file accesses. `StartReceive`
takes the old file's name before the handler knows whether it may start;
`StopReceive` builds the workflow in one section and `StopStore` ends whatever
recording there is in another. A submit records before it sends
(`SubmitFields`, `SubmitKey`), and between recording and sending the screen may
be read anew by another user of the host (`ScreenRefresh`), which replaces the
changed fields. Every field update is one `FillString` with its text, which may be
empty: rows and columns are the subject of `Terminal`. A submit changes one field
or none. The host is given an erasure and the text (`Sent`); a playback gives it
the text only, and nothing for an empty one (`Inputs`, `Replayed`).

### Run and bounds

`recording` checks `TypeOK`, `FilesBracketed`, `ShownFileExists` and
`ReplayMatches`; 2.6 million states. Two requests overlap, which two stops, or a
stop and a start, need; two submits; two files; a key that is recorded and one
that has no step; delays of 0.3 and 5.2 ms, which the rounding to milliseconds
tells apart. `MaxSteps` = 4 leaves room for Connect, a fill, a key and the
Disconnect of a stop, and for a submit after a stop that failed. After a disconnect
everything rightly stops.

- `FilesBracketed`: whatever overlaps, every workflow that is built and every file
  begins with its only Connect, ends with Disconnect and has an ordered delay
  range. A Disconnect inside is possible and not excluded, see "Defects".
- `ShownFileExists`: the name the page offers is that of a file that is there.
- `ReplayMatches`: between two submits a replay of the whole recording gives
  exactly the texts and keys that the host was given since it began, wherever in
  a submit that was, and also after a stop that failed. Where a failed command or
  a refreshed screen lost input that was recorded already, the recording holds what
  was given, in order, and more. It is about what is typed: what a playback
  leaves in a field that held something else is `ReplayOverwrites` below.

## HostS3270

### Correspondence

| Model | Code |
| --- | --- |
| `cmd`, `stdin` | `h.cmd`, `h.stdin`, as the process they belong to |
| `process`, `killed` | the operating system's view of the processes |
| `pc[c]`, `op[c]`, `err[c]` | a caller inside `withRetry`: first attempt, `IsConnected`, `Start`, second attempt |
| `performed[c]` | the processes that have or may have carried out the operation |
| `result[c]` | what the call returned |

`h.mu` is held for one attempt, for one `IsConnected` and for one `Start`, and
released in between; each of these sections is one action per outcome. Callers
and `Stop` interleave between them, processes end at any time. Of a command
that was not answered within `commandTimeout` nobody knows whether it was
carried out: `Timeout` and `Terminated` have both outcomes. `Start` starts
`Unused` processes and overwrites `cmd`, whether or not the old one lives.
`Stop` panics on a command that never got a process; the panic ends the request
and the model goes on with what was changed until then.

`HostCall` knows callers only: a key is pressed at most twice per call, never
outside it, and a call that says "ok" has pressed it. `HostS3270` implements it
with `busy` mapped to the callers in a call and `presses` to the length of
`performed`.

### Run, bounds and fairness

`host` checks `TypeOK`, `PipeUsable`, `OncePerProcess`, `ImplementsHostCall` and
`CallsReturn`; 1.1 million states. Two callers are what a race for a restart needs;
the first process and three more allow a restart by each of two callers, and
a second one after it. A call only begins while there is a
process for it (`Begin`), so that no call is stuck for want of one. Deadlock is
checked: `Stop` is always possible.

`Fairness` is weak fairness of each caller's `Call`: a Go mutex lets no waiter
starve, and every section ends, a command by its timeout at the latest. Processes
and `Stop` owe nothing.

- `PipeUsable`: the pipe belongs to the process that would be killed and never
  to a killed one, so that a late answer is not read as another command's.
- `OncePerProcess`: a retry never repeats a command on the same process.
- `CallsReturn`: every call returns, also while others restart the host.

## KeyNames, ScreenModel and Terminal

`KeyNames` has the tables of `keys.go`, `chaos.go`/`engine.go` and
`s3270_helpers.go` as functions on keys; a key is a name and a number. It is
used by `Recording` and `ChaosEngine`, and the theorems about it hold for all keys.

`ScreenModel` translates `normalizeScreenTokens`, `decodeLineTokens`,
`processStartField`, `fieldLength`, `contains`, `Substring`, `GetValue`,
`SetValue` and the widths of the page's inputs. A cell is a character or an
attribute; blanks, nulls and underscores are one character. The configured terminal
model is at least as large as the screen (`ModelRows`); `updateFields` skips what
lies beyond it, which is a field without cells that starts below the last row
(`WithinModel`).

`Terminal` takes a form once around: `UpdateScreen` decodes a dump and renders
it, `Edit` is the user, `Submit` is `updateFields`, `RecordFieldUpdates` the
recorder, `SubmitField` types one field as `SubmitScreen` does. The emulator is
external: cells, cursor, `eraseeof`, `key`, `newline` as the code uses them, and
refusal of input outside input fields.

`terminal` checks `TypeOK`, `DecodeIgnoresShape`, `CursorFieldFound`,
`LengthsAgree`, `TypedAsPosted`, `RecordedAsTyped`, `ReplayOverwrites` on every 3 by 3 screen with
at most two attributes and the other cells all blank or all dark, in three
forms of dump; 37 000 states. Three rows have a first, a middle and a last row of a
field; two attributes make neighbours, empty fields, fields that end with the
screen and ones that would wrap. `Margin`, by which the page shortens the lines
of a multi-line input, is 1 instead of 3, so that such lines can be typed.
A submit is the end of a behaviour.

- `CursorFieldFound`: the field the program finds at the cursor is one the
  emulator takes input in, and the other way round, except for a field that
  wraps to the screen's top and for input fields without cells.
- `LengthsAgree`: the length chaos mode cuts values to is that of the text.
- `TypedAsPosted`: the emulator ends up with what the page posted, in every
  field, edited or not; the two exceptions in its comment are defects below.
- `RecordedAsTyped`: the recorded row, column and text of a one-line field are
  those that were typed.
- `ReplayOverwrites`: a playback on the screen the user saw leaves in an edited
  one-line field the recorded text and, behind it, what stood there. So it
  repeats a submit, which erases the field first, if the new text is no shorter.

## Proofs

The theorems hold for any sets of requests, engines, goroutines, callers,
processes, keys, configurations and screens and any screen size. They rest on the
assumptions declared with the constants: nil values are outside the sets they
are the nil of, the kinds of run do not overlap, limits are numbers, a workflow
is a non-empty sequence of steps (`parseWorkflowPayload` refuses an empty one),
weights are integers of known keys, trimming shortens a text and does nothing twice.
The engine's add that a screen hash is not the id
of an area cut out of a recording (`ScreensAssumption`; those are named
"recording:area-N"), that the maps of a running program are finite
(`FiniteAssumption`), and that a recording's keys are among the keys
(`RecordingsAssumption`); the terminal's that screens and typed lines are made of
the characters (`LayoutsAssumption`, `TextsAssumption`) and that no screen has more
rows than the model (`ModelRowsAssumption`). TLC evaluates the
assumptions in every run.

Every invariant and every refinement that a passing run checks is stated by a
theorem, except `ReplayOverwrites`; the runs' remaining properties are liveness.

`DataTheorems` is what the three modules with data rest on. The library's induction
theorems take an operator as parameter, which the provers cannot instantiate; here
what is proved by induction is a set (the numbers, lengths or subsets for which a
fact holds), and what a recursion does at each step is a function, so that one
first-order lemma serves every use. From it follow: the recursion that a folded
function unfolds to, sums over a finite set and how they change at one point, the
number of places of a sequence that fit and how it grows with `Append` and
concatenation, filtered sequences, their order and what they keep, and flattened
ones.

`ChaosControl_proofs`

| Theorem | Property | Argument |
| --- | --- | --- |
| `TypeCorrect` | `TypeOK` | `TypeInv` adds what handlers hold in their locals (`LocalsOK`: a handler that registers has an engine, one that resumes has a run) and that a step in progress began below the limit (`StepGuard`); without these, registering and counting are not type-correct steps |
| `RemovalIsFinal`, `ActiveStatusHasKeeper` | `RemovedStaysBlank`, `NoStuckActive` | together they are inductive relative to `TypeInv` (`ShownInv`): a goroutine publishes only while the session is not marked, and gives up on correcting its status only while it is marked, when by `RemovedStaysBlank` the status is blank or a removal is about to clear it |
| `ReachableRunsAreComplete`, `ResumedRunsCountOn` | `SnapshotsComplete`, `ResumeCountsOn` | `CompleteInv` follows a snapshot from the sync goroutine that takes it to the places it is copied to (store, file, `s.Chaos`, a handler's local, the origin of another engine) and says that an engine with a final sync state has stopped; the goroutine takes the snapshot only after it saw the engine inactive, and a stopped engine's count no longer changes |
| `ShownRunsAreSaved` | `ShownRunIsSaved` | under `~DiskFaults`, as the run; `KeptInv`: whatever names an engine's run (status, store, a handler's local, another engine's origin) names one that is saved or is saved next (`KnownAreKept`), which needs that an engine's goroutine is started once (`SpawnedOnce`) |
| `ControlImplementsLifecycle` | `ImplementsLifecycle` | most steps leave what the mapping reads (`lifecycleVars`) alone and stutter; `StepGuard` makes a counted step one below the limit, `FinalAfterEnd` makes a snapshot one of a run that has ended, and `SnapshotsComplete` and `TakenIsComplete` make what is loaded, resumed and saved final |

`ChaosEngine_proofs`

| Theorem | Property | Argument |
| --- | --- | --- |
| `StoppedRunIsPrompt` | `StopIsPrompt` | `StopInv`: nothing was pressed after a stop while the loop is about to press; only a screen that was read before the stop leads there |
| `OutputIsComplete` | `OutputComplete` | `OutputInv`: as long as nothing disturbed it, an active run has nothing waiting to be written, and after it exactly its own steps wait or are in the file |
| `EngineTyped` | `TypeOK` | `TypeInv` has three parts: the control's, the books' and the files'. A mind map is `WellFormed`: a key's progressions are the sum of its destinations and at most its presses, and a screen's value lists hold nothing but what worked there (`Known`). That has to hold of loaded and seeded maps too, so it is proved of what `SeedMap` counts in a recording |
| `AttemptsAreNumbered` | `AttemptNumbers` | `Numbered` orders any two attempts and not only neighbours, because hiding and evicting take attempts out between them; no number is ahead of `stepsRun` but the one of the failed attempt |
| `MapCovers` | `MapCoversRun` | `CoverInv`: destinations count the transitions screen by screen, over the whole list of transitions that a resume takes over |
| `LearnedValuesWorked` | `KnownValuesWorked` | that a known value worked is part of `WellFormed`; `LearnedInv` adds that where one worked one is known (`Remembered`): every fill of a transition is a write that succeeded (`BatchFillWritten`), learning it leaves a list that is not empty (`LearnSome`), and no later value, failure or resume empties it |
| `CountersHold` | `CountersAgree` | `CountInv`: the key counters and the run's own exported steps agree (`Tallied`), and `stepsRun`, `failures` and the counters agree with the presses in the mind map (`Booked`); a recording's steps are outside both, and its areas are not screens |
| `ConfiguredKeysSelectable` | `KeysStaySelectable` | the sums of the weights grow with every key of positive weight as long as none is negative, so that such a key is the first above some number below the total (`PositiveIsSelectable`); with a boost the clamp makes all weights positive (`EffectiveWeights`) |

`Playback_proofs`

| Theorem | Property | Argument |
| --- | --- | --- |
| `TypeCorrect` | `TypeOK` | `TypeInv` adds that handlers and goroutines hold a workflow where they use one (`LocalsOK`, `ScriptsOK`), so that a goroutine's index stays in its script because `Finish` tests the length first |
| `ActivePlaybackEnds` | `ActiveHasPlayer` | every step of a goroutine but the last leaves it inside; the last one clears the flag of whatever playback is there; handlers never set the flag |
| `SummaryIsTheLastOne` | `SummaryMatches` | only a goroutine moves the step, and then it is not quiet; the last to leave writes the summary; every replacement or clearing resets `completed` |

`Recording_proofs`

| Theorem | Property | Argument |
| --- | --- | --- |
| `TypeCorrect` | `TypeOK` | `TypeInv` adds that a submit about to send has its key, and that every file a handler or the recording knows of was written |
| `FilesAreBracketed` | `FilesBracketed` | `BracketInv`: the recording itself begins with its only Connect and its delays are ordered (`RecordingBracketed`), since no key or field is recorded as Connect; a stop appends the Disconnect in the section that copies the steps |
| `ShownFileIsThere` | `ShownFileExists` | `ShownInv`: the file of a stop that has yet to store it is there and nobody else's, and a file about to be removed by a start or a disconnect is no longer shown |
| `RecordingReplays` | `ReplayMatches` | `ReplayInv`: at every point of a submit, what the host was given and what is recorded and not yet sent (`Pending`) make up what was pending when the recording began and the replay of all its steps (`Agree`). `PendingInPlace` says where in a submit something may be pending; that a recorded key comes back as itself is `KeyNames_proofs`' |

`HostS3270_proofs`

| Theorem | Property | Argument |
| --- | --- | --- |
| `TypeCorrect`, `PipeIsUsable` | `TypeOK`, `PipeUsable` | inductive together (`PipeInv`) with "the current command was started": whoever kills a process gives up the pipe in the same section |
| `PerformedOncePerProcess` | `OncePerProcess` | `OnceInv`: before the second attempt at most one process has performed the operation, and the one the second attempt meets has not, for `Start` put an unused process into `cmd` and no old one ever returns |
| `HostImplementsCall` | `ImplementsHostCall` | every section is an attempt of one caller or a stutter; `OnceInv` bounds the presses by two |

`KeyNames_proofs` proves for every key, by cases on the three forms of a key:
`PostedKeysAreSafe` (an unknown or out-of-range name never gets to the host),
`RecordedKeysReplay` and `ExportedKeysReplay` (a key with a step of its own comes
back as itself), `KeySpecsDiffer` (no two keys are sent as the same action).

`Terminal_proofs`, for every size and content of the screen and all typed lines:

| Theorem | Property | Argument |
| --- | --- | --- |
| `ShapeIsIgnored` | `DecodeIgnoresShape` | by lemmas about division: a dump of one or two screens in one line splits at the rows' ends, and a line per row is left alone also where there is one row only |
| `TerminalTyped` | `TypeOK` | `TypeInv`: the decoded fields are `Laid`, the stretches between the attributes in their order, and stay so while a submit is typed, since the emulator never lets input touch an attribute (`SameAttributes`) |
| `CursorFieldIsFound` | `CursorFieldFound` | the emulator's field at a place is the one whose attribute is the last before it (`Governs`), walking back from the place; the program's is the first of the list that contains it; `Laid` makes them the same but for the exceptions |
| `LengthsMatch` | `LengthsAgree` | a field's rows follow each other without a gap (`FieldRows`), so that their lengths add up to the distance of its ends |
| `TerminalTypes` | `TypedAsPosted` | `StageInv`: a field is marked exactly if it was edited and not yet sent; `SendInv`: the fields before the next one hold what was sent, the others what was shown. One field is typed line by line (`Filling`) and nothing changes outside it (`OnlyIn`); a field without cells refuses input and ends the submit |
| `RecordingMatches` | `RecordedAsTyped` | `StepInv`: every edited field of one line has its step among those taken down, with the text that is typed for it; typing a field moves none |

Left to TLC: the liveness properties (`RegistrationEnds`, `EveryRunIsSaved`,
`ActiveStatusIsCorrected`, `StopEnds`, `PlaybackEnds`, `CallsReturn`), since fairness
and ENABLED are out of the prover's reach; `ReplayOverwrites`; and the four
properties that fail.

## Defects met on the way

The four violated runs are listed under `findings`. The models also contain the
following behaviour of the code; the properties are stated so that it is named
and allowed, not hidden.

- Clearing a field while a recording is active types its old text back: the
  recorder's `GetValue` takes the empty value for one that was never read
  (`internal/host/types.go:118-125`). Exception in `TypedAsPosted`.
- A line that fills its row leaves the cursor in the next row, and the newline
  `SubmitScreen` sends then skips a row. Exception in `TypedAsPosted`.
- `recordFieldUpdates` records every line of a multi-line field at the first
  line's column (`main.go:2048-2050`). `RecordedAsTyped` is about one-line fields.
- An input field without cells is believed to contain positions, and its text is
  the rest of the screen; a field that wraps is cut at the screen's top.
  Exceptions in `CursorFieldFound` and `LengthsAgree`.
- Learned values are filed under the length of the value but looked up under the
  length of the field (`engine.go:455`, `682-685`), so that shorter values are
  never offered again, although `engine.go:678` says "Prefer values already known to
  work on this screen / field position". A value is trimmed before it is stored and
  keeps the length it had before (`mindmap.go:197-201`).
- Key weights are not checked (`chaos.go:132-133`). The comment of
  `chooseAIDKeyBoosted` says that all configured keys remain selectable
  (`engine.go:815`), but on a screen without boosts nothing is clamped
  (`engine.go:825-826`): a key of weight zero is never drawn, a negative weight takes
  others out of the draw, and a total that is not positive leaves Enter alone
  (`engine.go:855-857`). Exception in `KeysStaySelectable`.
- The clamp that keeps penalised keys selectable also makes keys selectable that
  were configured with weight zero, or not at all (`Effective`).
- Two runs may write the same output file in the wrong order (`engine.go:375`).
- A run seeded from a recording exports its steps after the recording's
  Disconnect, and keys without a step of their own are exported as `PressEnter`
  (`ExportedStep`).
- A stop of a recording whose file cannot be written leaves its Disconnect in
  the middle of the recording (`StopFail`; `main.go:860`), and of two overlapping
  stops the second adds one. A playback stops the host at the first
  (`workflow_playback.go:105-106`), and the next fill fails because the host is not
  connected (`s3270.go:275-285`). What is recorded between the two lock sections of a
  stop is in no file. `FilesBracketed` allows both.
- A submit erases a field before it types into it (`s3270.go:316`), a playback does
  not (`s3270.go:248-272`) and does nothing for an empty text: a recording in which a
  field was shortened or emptied replays to the old text's end or to the old text.
  `ReplayMatches` leaves erasures out, `ReplayOverwrites` says what the field holds.
- `Stop` of the host panics if the process could not be started
  (`s3270.go:112`), and two callers that restart the host at once leave a
  process nobody refers to (`StartReady`).

## Not modelled

- Settings and `.env`: reading, merging and rewriting a text file, one request at
  a time in practice; the rewrite is not locked (listed under `hazards`).
- CSRF, request validation, themes, logs: stateless checks and file reads.
- The renderer beyond the inputs of a field, colours and display modes, the text
  of unformatted screens: layout and text, compared by the unit tests.
- Session manager: a map under one mutex; its sessions appear in the models as
  present or gone.
- Sample applications, mock host, launcher, window, generated assets, browser
  scripts: they keep no state that several actors share. Requests come in any
  order the models' handlers allow, so the scripts restrict nothing, except that
  the page sends one submit at a time (`Recording`).
- `ListRuns`, the status handlers and the hints handlers: they read, or edit the
  next start's configuration.
- Playback and chaos on the same host: `HostS3270` has them as callers and
  `Recording` as the refresh between two steps of a submit; their composition
  command by command would multiply the state spaces without a property that is
  not already stated in one of the modules.

## What could follow

That `ChaosEngine` implements `RunLifecycle` too; the hazards that are listed
without a property, one or two more variables each; the settings' rewrite as a module if the
program ever serves several administrators.
