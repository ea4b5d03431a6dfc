------------------------------ MODULE Playback ------------------------------
(***************************************************************************)
(* Recordings that are played or debugged, for ONE browser session.        *)
(*                                                                         *)
(* The HTTP handlers of cmd/3270Web/main.go store a fresh s.Playback and   *)
(* start a playWorkflow goroutine (cmd/3270Web/workflow_playback.go), here *)
(* a player.  A player does not keep the playback it was started for: it   *)
(* looks at s.Playback anew under every session lock, and so do the        *)
(* handlers.  Each access is an action; a handler that takes the lock once *)
(* is one action, one that takes it more often has a pc.                   *)
(*                                                                         *)
(* Whether a host command succeeds, and whether a step has a delay, is the *)
(* environment's choice.                                                   *)
(***************************************************************************)
EXTENDS Naturals, Sequences

CONSTANTS
    Requests,    \* the client's concurrent multi-step requests
    Players,     \* the playWorkflow goroutines: bounds the playbacks of a behaviour
    Workflows,   \* the recordings the client has, as sequences of step kinds
    NoPlayback, NoWorkflow,   \* the nil values
    Ops          \* the endpoints the client uses

Endpoints == {"play", "debug", "step", "pause", "stop", "remove", "load"}

(* Step types as applyWorkflowStep tells them apart; "key" is any AID key. *)
StepKinds == {"connect", "disconnect", "fill", "key"}

(* parseWorkflowPayload refuses a workflow without steps. *)
ASSUME WorkflowsAssumption == \A w \in Workflows : w \in Seq(StepKinds) /\ w # << >>

ASSUME OpsAssumption == Ops \subseteq Endpoints

ASSUME NoWorkflowAssumption == NoWorkflow \notin Workflows

(* s.Playback; mode "" is what playWorkflow creates when it finds none. *)
PlaybackState ==
    [active : BOOLEAN, stop : BOOLEAN, paused : BOOLEAN, mode : {"play", "debug", ""},
     request : BOOLEAN, pending : BOOLEAN, step : Nat, total : Nat]

ASSUME NoPlaybackAssumption == NoPlayback \notin PlaybackState

VARIABLES
    playback,   \* s.Playback
    loaded,     \* s.LoadedWorkflow
    last,       \* s.LastPlaybackStep and s.LastPlaybackStepTotal
    completed,  \* s.PlaybackCompletedAt is set
    pc, mode, wf,       \* handlers: next step, play or debug, local workflow
    player, script, at  \* players: next step, workflow, index into it

statusVars  == <<last, completed>>
requestVars == <<pc, mode, wf>>
playerVars  == <<player, script, at>>
vars == <<playback, loaded, statusVars, requestVars, playerVars>>

Fresh(m, n) ==
    [active |-> FALSE, stop |-> FALSE, paused |-> m = "debug", mode |-> m,
     request |-> FALSE, pending |-> FALSE, step |-> 0, total |-> n]

NoSummary == [step |-> 0, total |-> 0]

Playing == playback # NoPlayback /\ playback.active

ShouldStop == playback # NoPlayback => playback.stop

(* What "if s.Playback != nil" guards: one field of the current playback. *)
SetField(field, value) ==
    playback' = IF playback = NoPlayback THEN NoPlayback
                ELSE [playback EXCEPT ![field] = value]

Init ==
    /\ playback = NoPlayback
    /\ loaded = NoWorkflow
    /\ last = NoSummary
    /\ completed = FALSE
    /\ pc = [r \in Requests |-> "idle"]
    /\ mode = [r \in Requests |-> ""]
    /\ wf = [r \in Requests |-> NoWorkflow]
    /\ player = [g \in Players |-> "unused"]
    /\ script = [g \in Players |-> NoWorkflow]
    /\ at = [g \in Players |-> 0]

-----------------------------------------------------------------------------
(* Handlers                                                                *)

Step(r, here, next) ==
    /\ pc[r] = here
    /\ pc' = [pc EXCEPT ![r] = next]

(* The handler answers; its locals go out of scope. *)
Reply(r, here) ==
    /\ Step(r, here, "idle")
    /\ mode' = [mode EXCEPT ![r] = ""]
    /\ wf' = [wf EXCEPT ![r] = NoWorkflow]

(* POST /workflow/play and /workflow/debug: refused while one is active. *)
PlayReceive(r) ==
    /\ ~Playing
    /\ Step(r, "idle", "source")
    /\ \E m \in {"play", "debug"} \cap Ops : mode' = [mode EXCEPT ![r] = m]
    /\ UNCHANGED <<playback, loaded, statusVars, wf, playerVars>>

(* workflowFromSessionOrUpload: the loaded workflow first. *)
PlayLoaded(r) ==
    /\ loaded # NoWorkflow
    /\ Step(r, "source", "start")
    /\ wf' = [wf EXCEPT ![r] = loaded]
    /\ UNCHANGED <<playback, loaded, statusVars, mode, playerVars>>

PlayUpload(r) ==
    /\ loaded = NoWorkflow
    /\ Step(r, "source", "store")
    /\ \E w \in Workflows : wf' = [wf EXCEPT ![r] = w]
    /\ UNCHANGED <<playback, loaded, statusVars, mode, playerVars>>

PlayStore(r) ==
    /\ Step(r, "store", "start")
    /\ loaded' = wf[r]
    /\ UNCHANGED <<playback, statusVars, mode, wf, playerVars>>

(* No workflow or host given, or resetSessionHost failed. *)
PlayRefuse(r) ==
    /\ Reply(r, "source") \/ Reply(r, "start")
    /\ UNCHANGED <<playback, loaded, statusVars, playerVars>>

(* The host was reset: a fresh playback and its goroutine. *)
PlayStart(r) ==
    /\ Reply(r, "start")
    /\ playback' = Fresh(mode[r], Len(wf[r]))
    /\ last' = NoSummary
    /\ completed' = FALSE
    /\ \E g \in Players :
        /\ player[g] = "unused"
        /\ player' = [player EXCEPT ![g] = "begin"]
        /\ script' = [script EXCEPT ![g] = wf[r]]
    /\ UNCHANGED <<loaded, at>>

StepWorkflow ==
    /\ "step" \in Ops
    /\ Playing
    /\ playback.mode = "debug"
    /\ SetField("request", TRUE)
    /\ UNCHANGED <<loaded, statusVars, requestVars, playerVars>>

PauseWorkflow ==
    /\ "pause" \in Ops
    /\ Playing
    /\ SetField("paused", ~playback.paused)
    /\ UNCHANGED <<loaded, statusVars, requestVars, playerVars>>

(* stopWorkflowPlayback *)
RequestStop == IF Playing THEN SetField("stop", TRUE) ELSE UNCHANGED playback

StopWorkflow ==
    /\ "stop" \in Ops
    /\ RequestStop
    /\ UNCHANGED <<loaded, statusVars, requestVars, playerVars>>

RemoveReceive(r) ==
    /\ "remove" \in Ops
    /\ Step(r, "idle", "remove")
    /\ RequestStop
    /\ UNCHANGED <<loaded, statusVars, mode, wf, playerVars>>

RemoveClear(r) ==
    /\ Step(r, "remove", "clear")
    /\ playback' = NoPlayback
    /\ loaded' = NoWorkflow
    /\ completed' = FALSE
    /\ UNCHANGED <<last, mode, wf, playerVars>>

LoadReceive(r) ==
    /\ "load" \in Ops
    /\ ~Playing
    /\ Step(r, "idle", "load")
    /\ \E w \in Workflows : wf' = [wf EXCEPT ![r] = w]
    /\ UNCHANGED <<playback, loaded, statusVars, mode, playerVars>>

LoadStore(r) ==
    /\ Step(r, "load", "clear")
    /\ loaded' = wf[r]
    /\ UNCHANGED <<playback, statusVars, mode, wf, playerVars>>

(* clearWorkflowStatus ends both a removal and a load. *)
ClearStatus(r) ==
    /\ Reply(r, "clear")
    /\ last' = NoSummary
    /\ completed' = FALSE
    /\ UNCHANGED <<playback, loaded, playerVars>>

-----------------------------------------------------------------------------
(* playWorkflow, in a goroutine of its own                                 *)

Move(g, here, next) ==
    /\ player[g] = here
    /\ player' = [player EXCEPT ![g] = next]

Here(g) == script[g][at[g]]

(* A playback that was removed in the meantime is created anew. *)
Begin(g) ==
    /\ Move(g, "begin", "top")
    /\ at' = [at EXCEPT ![g] = 1]
    /\ LET current == IF playback = NoPlayback THEN Fresh("", 0) ELSE playback
       IN  playback' = [current EXCEPT !.active = TRUE, !.total = Len(script[g])]
    /\ UNCHANGED <<loaded, statusVars, requestVars, script>>

(* Variant: waitForDebugPermission does not look at StopRequested. *)
HeedNotWaiting(g) ==
    /\ ShouldStop
    /\ Move(g, "top", "exit") \/ Move(g, "delay", "exit")
    /\ UNCHANGED <<playback, loaded, statusVars, requestVars, script, at>>

(* shouldStopPlayback: at the top, while waiting for permission and during *)
(* a step's delay.                                                         *)
Heed(g) ==
    /\ ShouldStop
    /\ Move(g, "top", "exit") \/ Move(g, "permit", "exit") \/ Move(g, "delay", "exit")
    /\ UNCHANGED <<playback, loaded, statusVars, requestVars, script, at>>

Top(g) ==
    /\ ~ShouldStop
    /\ Move(g, "top", "permit")
    /\ UNCHANGED <<playback, loaded, statusVars, requestVars, script, at>>

(* waitForDebugPermission polls until it may proceed. *)
MayProceed == (playback.mode = "debug" /\ playback.paused) => playback.request

Permit(g) ==
    /\ ~ShouldStop
    /\ MayProceed
    /\ Move(g, "permit", "mark")
    /\ UNCHANGED <<playback, loaded, statusVars, requestVars, script, at>>

Mark(g) ==
    /\ Move(g, "mark", "delay")
    /\ SetField("step", at[g])
    /\ UNCHANGED <<loaded, statusVars, requestVars, script, at>>

(* The delay is over, or there is none. *)
Delay(g) ==
    /\ Move(g, "delay", "apply")
    /\ UNCHANGED <<playback, loaded, statusVars, requestVars, script, at>>

(* Host.Start or Host.Stop: a Connect is followed by UpdateScreen. *)
ApplyConnection(g) ==
    /\ Move(g, "apply", "finish")
    /\ Here(g) \in {"connect", "disconnect"}
    /\ UNCHANGED <<playback, loaded, statusVars, requestVars, script, at>>

(* applyWorkflowFill, whose last act is to note the pending input. *)
ApplyFill(g) ==
    /\ Move(g, "apply", "update")
    /\ Here(g) = "fill"
    /\ SetField("pending", TRUE)
    /\ UNCHANGED <<loaded, statusVars, requestVars, script, at>>

(* submitWorkflowPendingInput *)
ApplyKey(g) ==
    /\ Move(g, "apply", IF playback # NoPlayback /\ playback.pending THEN "submit" ELSE "update")
    /\ Here(g) = "key"
    /\ UNCHANGED <<playback, loaded, statusVars, requestVars, script, at>>

Submit(g) ==
    /\ Move(g, "submit", "update")
    /\ SetField("pending", FALSE)
    /\ UNCHANGED <<loaded, statusVars, requestVars, script, at>>

(* SendKey of a key step, UpdateScreen *)
Update(g) ==
    /\ Move(g, "update", "finish")
    /\ UNCHANGED <<playback, loaded, statusVars, requestVars, script, at>>

(* A host command of the step failed. *)
ApplyFail(g) ==
    /\ Move(g, "apply", "exit") \/ Move(g, "submit", "exit") \/ Move(g, "update", "exit")
    /\ UNCHANGED <<playback, loaded, statusVars, requestVars, script, at>>

(* Variant: The loop runs one step too far. *)
FinishLate(g) ==
    /\ Move(g, "finish", IF at[g] <= Len(script[g]) THEN "top" ELSE "exit")
    /\ at' = [at EXCEPT ![g] = IF at[g] <= Len(script[g]) THEN @ + 1 ELSE @]
    /\ UNCHANGED <<playback, loaded, statusVars, requestVars, script>>

Finish(g) ==
    /\ Move(g, "finish", IF at[g] < Len(script[g]) THEN "top" ELSE "exit")
    /\ at' = [at EXCEPT ![g] = IF at[g] < Len(script[g]) THEN @ + 1 ELSE @]
    /\ IF playback # NoPlayback /\ playback.mode = "debug" /\ playback.paused
         THEN SetField("request", FALSE)
         ELSE UNCHANGED playback
    /\ UNCHANGED <<loaded, statusVars, requestVars, script>>

(* The goroutine ends; its locals go out of scope. *)
Done(g) ==
    /\ Move(g, "exit", "done")
    /\ script' = [script EXCEPT ![g] = NoWorkflow]
    /\ at' = [at EXCEPT ![g] = 0]

(* Variant: The deferred function leaves Active alone. *)
ExitKeepsActive(g) ==
    /\ Done(g)
    /\ IF playback = NoPlayback THEN UNCHANGED <<last, completed>>
       ELSE /\ last' = [step |-> playback.step, total |-> playback.total]
            /\ completed' = TRUE
    /\ UNCHANGED <<playback, loaded, requestVars>>

(* Variant: The summary keeps what an earlier goroutine wrote. *)
ExitFirstSummary(g) ==
    /\ Done(g)
    /\ IF playback = NoPlayback THEN UNCHANGED <<playback, last, completed>>
       ELSE /\ last' = IF completed THEN last
                       ELSE [step |-> playback.step, total |-> playback.total]
            /\ completed' = TRUE
            /\ SetField("active", FALSE)
    /\ UNCHANGED <<loaded, requestVars>>

(* The deferred summary: nothing is left to summarise after a removal. *)
Exit(g) ==
    /\ Done(g)
    /\ IF playback = NoPlayback THEN UNCHANGED <<playback, last, completed>>
       ELSE /\ last' = [step |-> playback.step, total |-> playback.total]
            /\ completed' = TRUE
            /\ SetField("active", FALSE)
    /\ UNCHANGED <<loaded, requestVars>>

-----------------------------------------------------------------------------
Client ==
    \/ StepWorkflow \/ PauseWorkflow \/ StopWorkflow
    \/ \E r \in Requests : PlayReceive(r) \/ RemoveReceive(r) \/ LoadReceive(r)

Handler(r) ==
    \/ PlayLoaded(r) \/ PlayUpload(r) \/ PlayStore(r) \/ PlayRefuse(r) \/ PlayStart(r)
    \/ RemoveClear(r) \/ LoadStore(r) \/ ClearStatus(r)

Player(g) ==
    \/ Begin(g) \/ Heed(g) \/ Top(g) \/ Permit(g) \/ Mark(g) \/ Delay(g)
    \/ ApplyConnection(g) \/ ApplyFill(g) \/ ApplyKey(g) \/ Submit(g) \/ Update(g)
    \/ ApplyFail(g) \/ Finish(g) \/ Exit(g)

Next ==
    \/ Client
    \/ \E r \in Requests : Handler(r)
    \/ \E g \in Players : Player(g)

Spec == Init /\ [][Next]_vars

(* Every goroutine that can run is run, and every host command returns.    *)
Fairness ==
    /\ \A r \in Requests : WF_vars(Handler(r))
    /\ \A g \in Players : WF_vars(Player(g))

FairSpec == Spec /\ Fairness

-----------------------------------------------------------------------------
(* Properties                                                              *)

(* The goroutine owes s.Playback an end: its deferred function is armed.   *)
Inside(g) == player[g] \notin {"unused", "begin", "done"}

HandlerPoints == {"idle", "source", "store", "start", "remove", "load", "clear"}

PlayerPoints ==
    {"unused", "begin", "top", "permit", "mark", "delay", "apply", "submit", "update",
     "finish", "exit", "done"}

(* Every variable has its type, and a player's index stays in its script.  *)
TypeOK ==
    /\ playback \in PlaybackState \cup {NoPlayback}
    /\ loaded \in Workflows \cup {NoWorkflow}
    /\ last \in [step : Nat, total : Nat]
    /\ completed \in BOOLEAN
    /\ pc \in [Requests -> HandlerPoints]
    /\ mode \in [Requests -> {"", "play", "debug"}]
    /\ wf \in [Requests -> Workflows \cup {NoWorkflow}]
    /\ player \in [Players -> PlayerPoints]
    /\ script \in [Players -> Workflows \cup {NoWorkflow}]
    /\ at \in [Players -> Nat]
    /\ \A g \in Players : Inside(g) => at[g] \in DOMAIN script[g]

(* A playback that is shown as active, which refuses every further play and *)
(* load, has a goroutine that will end it, through removals, replacements   *)
(* and two goroutines at once: the session is never locked up.              *)
ActiveHasPlayer == Playing => \E g \in Players : Inside(g)

(* No goroutine runs or is about to. *)
Quiet == \A g \in Players : player[g] \in {"unused", "done"}

(* When no goroutine is left, the status that says "completed" shows the    *)
(* step and the total at which the playback in the session ended.           *)
SummaryMatches ==
    (completed /\ playback # NoPlayback /\ Quiet)
        => last = [step |-> playback.step, total |-> playback.total]

(* A goroutine that is told to stop, or whose playback is removed, ends     *)
(* wherever it is, waiting for a step in the debugger included, unless a    *)
(* new playback takes the request back.                                     *)
StopEnds ==
    \A g \in Players : (ShouldStop /\ Inside(g)) ~> (~ShouldStop \/ ~Inside(g))

(* A playback outside the debugger ends without anybody's help.             *)
PlaybackEnds == (Playing /\ playback.mode # "debug") ~> ~Playing

(* docs/workflow.md, Play a Recording: "Use Pause/Resume in play mode if    *)
(* needed."  No goroutine leaves waitForDebugPermission while the playback  *)
(* is paused, unless a single step was asked for.                           *)
PauseHolds ==
    [][\A g \in Players :
        (player[g] = "permit" /\ player'[g] = "mark" /\ playback.paused) => playback.request]_vars

(* docs/workflow.md, Play a Recording: "Click Stop playback to end          *)
(* execution."  Stop is heard for every goroutine that still takes steps.   *)
PlayerIsStoppable ==
    \A g \in Players : (Inside(g) /\ player[g] # "exit") => (playback = NoPlayback \/ Playing)
=============================================================================
