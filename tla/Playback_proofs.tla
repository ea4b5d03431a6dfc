-------------------------- MODULE Playback_proofs --------------------------
(***************************************************************************)
(* Theorems about Playback, for any number of requests and goroutines and  *)
(* every set of workflows.                                                 *)
(***************************************************************************)
EXTENDS Playback, TLAPS

(* What a handler's locals hold where it stands. *)
LocalsOK ==
    \A r \in Requests :
        /\ pc[r] \in {"store", "start", "load"} => wf[r] \in Workflows
        /\ pc[r] \in {"source", "store", "start"} => mode[r] \in {"play", "debug"}

(* A goroutine runs a workflow from the moment it is started. *)
ScriptsOK == \A g \in Players : player[g] \notin {"unused", "done"} => script[g] \in Workflows

TypeInv == TypeOK /\ LocalsOK /\ ScriptsOK

(* A workflow has a first step and a last one. *)
LEMMA WorkflowLength ==
    ASSUME NEW w \in Workflows
    PROVE  Len(w) \in Nat /\ 1 \in DOMAIN w /\ DOMAIN w = 1..Len(w)
BY WorkflowsAssumption

(* The playback a handler stores is well formed. *)
LEMMA FreshType ==
    ASSUME NEW m \in {"play", "debug", ""}, NEW n \in Nat
    PROVE  Fresh(m, n) \in PlaybackState
BY DEF Fresh, PlaybackState

(* A player that is started stands before the first step of its workflow. *)
LEMMA InitTypeInv == Init => TypeInv
<1> SUFFICES ASSUME Init PROVE TypeInv
  OBVIOUS
<1>1. /\ pc \in [Requests -> HandlerPoints]
      /\ mode \in [Requests -> {"", "play", "debug"}]
      /\ wf \in [Requests -> Workflows \cup {NoWorkflow}]
  BY DEF Init, HandlerPoints
<1>2. /\ player \in [Players -> PlayerPoints]
      /\ script \in [Players -> Workflows \cup {NoWorkflow}]
      /\ at \in [Players -> Nat]
  BY DEF Init, PlayerPoints
<1>3. /\ last \in [step : Nat, total : Nat]
      /\ completed \in BOOLEAN
  BY DEF Init, NoSummary
<1>4. \A g \in Players : player[g] = "unused"
  BY DEF Init
<1>5. LocalsOK /\ ScriptsOK
  BY <1>4 DEF Init, LocalsOK, ScriptsOK
<1> QED BY <1>1, <1>2, <1>3, <1>4, <1>5 DEF Init, TypeInv, TypeOK, Inside

(* A request that begins, and one with a single lock, keep the types. *)
LEMMA ClientTypeInv ==
    ASSUME TypeInv, Client
    PROVE  TypeInv'
<1> USE DEF TypeInv, TypeOK, LocalsOK, ScriptsOK, HandlerPoints, Inside, Step, SetField, Playing,
            PlaybackState, statusVars, requestVars, playerVars
<1>1. CASE StepWorkflow
  BY <1>1 DEF StepWorkflow
<1>2. CASE PauseWorkflow
  BY <1>2 DEF PauseWorkflow
<1>3. CASE StopWorkflow
  BY <1>3 DEF StopWorkflow, RequestStop
<1>4. ASSUME NEW r \in Requests, PlayReceive(r) PROVE TypeInv'
  BY <1>4 DEF PlayReceive
<1>5. ASSUME NEW r \in Requests, RemoveReceive(r) PROVE TypeInv'
  BY <1>5 DEF RemoveReceive, RequestStop
<1>6. ASSUME NEW r \in Requests, LoadReceive(r) PROVE TypeInv'
  BY <1>6 DEF LoadReceive
<1> QED BY <1>1, <1>2, <1>3, <1>4, <1>5, <1>6 DEF Client

(* A handler's step keeps the types: by LocalsOK the workflow it plays or  *)
(* stores is one.                                                          *)
LEMMA HandlerTypeInv ==
    ASSUME TypeInv, NEW r \in Requests, Handler(r)
    PROVE  TypeInv'
<1> USE DEF TypeInv, TypeOK, LocalsOK, ScriptsOK, HandlerPoints, Inside, Step, Reply,
            statusVars, requestVars, playerVars
<1>1. CASE PlayLoaded(r)
  BY <1>1 DEF PlayLoaded
<1>2. CASE PlayUpload(r)
  BY <1>2 DEF PlayUpload
<1>3. CASE PlayStore(r)
  BY <1>3 DEF PlayStore
<1>4. CASE PlayRefuse(r)
  BY <1>4 DEF PlayRefuse
<1>5. CASE PlayStart(r)
  <2>1. wf[r] \in Workflows /\ mode[r] \in {"play", "debug"}
    BY <1>5 DEF PlayStart
  <2>2. Fresh(mode[r], Len(wf[r])) \in PlaybackState
    BY <2>1, WorkflowLength, FreshType
  <2> QED BY <1>5, <2>1, <2>2 DEF PlayStart, PlayerPoints, NoSummary
<1>6. CASE RemoveClear(r)
  BY <1>6 DEF RemoveClear
<1>7. CASE LoadStore(r)
  BY <1>7 DEF LoadStore
<1>8. CASE ClearStatus(r)
  BY <1>8 DEF ClearStatus, NoSummary
<1> QED BY <1>1, <1>2, <1>3, <1>4, <1>5, <1>6, <1>7, <1>8 DEF Handler

(* A step of a goroutine keeps the types: its index stays within the       *)
(* workflow, because Finish tests the length before it counts on.          *)
LEMMA PlayerTypeInv ==
    ASSUME TypeInv, NEW g \in Players, Player(g)
    PROVE  TypeInv'
<1> USE DEF TypeInv, TypeOK, LocalsOK, ScriptsOK, PlayerPoints, Inside, Move,
            statusVars, requestVars, playerVars
<1>1. CASE Begin(g)
  <2>1. script[g] \in Workflows
    BY <1>1 DEF Begin
  <2>2. Len(script[g]) \in Nat /\ 1 \in DOMAIN script[g]
    BY <2>1, WorkflowLength
  <2>3. Fresh("", 0) \in PlaybackState
    BY FreshType
  <2>4. playback' \in PlaybackState
    BY <1>1, <2>2, <2>3 DEF Begin, PlaybackState
  <2> QED BY <1>1, <2>2, <2>4 DEF Begin
<1>2. CASE Heed(g)
  BY <1>2 DEF Heed
<1>3. CASE Top(g)
  BY <1>3 DEF Top
<1>4. CASE Permit(g)
  BY <1>4 DEF Permit
<1>5. CASE Mark(g)
  BY <1>5 DEF Mark, SetField, PlaybackState
<1>6. CASE Delay(g)
  BY <1>6 DEF Delay
<1>7. CASE ApplyConnection(g)
  BY <1>7 DEF ApplyConnection
<1>8. CASE ApplyFill(g)
  BY <1>8 DEF ApplyFill, SetField, PlaybackState
<1>9. CASE ApplyKey(g)
  BY <1>9 DEF ApplyKey
<1>10. CASE Submit(g)
  BY <1>10 DEF Submit, SetField, PlaybackState
<1>11. CASE Update(g)
  BY <1>11 DEF Update
<1>12. CASE ApplyFail(g)
  BY <1>12 DEF ApplyFail
<1>13. CASE Finish(g)
  <2>1. script[g] \in Workflows /\ at[g] \in DOMAIN script[g]
    BY <1>13 DEF Finish
  <2>2. Len(script[g]) \in Nat /\ DOMAIN script[g] = 1..Len(script[g])
    BY <2>1, WorkflowLength
  <2>3. at'[g] \in DOMAIN script[g] /\ at' \in [Players -> Nat]
    <3>1. at \in [Players -> Nat] /\ at[g] \in 1..Len(script[g])
      BY <2>1, <2>2
    <3>2. at' = [at EXCEPT ![g] = IF at[g] < Len(script[g]) THEN at[g] + 1 ELSE at[g]]
      BY <1>13 DEF Finish
    <3> HIDE DEF TypeInv
    <3>3. at'[g] = IF at[g] < Len(script[g]) THEN at[g] + 1 ELSE at[g]
      BY <3>1, <3>2
    <3>4. at'[g] \in 1..Len(script[g])
      BY <2>2, <3>1, <3>3
    <3>5. at' \in [Players -> Nat]
      BY <2>2, <3>1, <3>2
    <3> QED BY <2>2, <3>4, <3>5
  <2>4. playback' \in PlaybackState \cup {NoPlayback}
    BY <1>13 DEF Finish, SetField, PlaybackState
  <2> QED BY <1>13, <2>3, <2>4 DEF Finish
<1>14. CASE Exit(g)
  <2>1. playback' \in PlaybackState \cup {NoPlayback}
    <3>1. CASE playback = NoPlayback
      BY <1>14, <3>1 DEF Exit
    <3>2. CASE playback # NoPlayback
      BY <1>14, <3>2 DEF Exit, SetField, PlaybackState
    <3> QED BY <3>1, <3>2
  <2>2. last' \in [step : Nat, total : Nat] /\ completed' \in BOOLEAN
    <3>1. CASE playback = NoPlayback
      BY <1>14, <3>1 DEF Exit
    <3>2. CASE playback # NoPlayback
      <4>1. playback.step \in Nat /\ playback.total \in Nat
        BY <3>2 DEF PlaybackState
      <4>2. last' = [step |-> playback.step, total |-> playback.total] /\ completed' = TRUE
        BY <1>14, <3>2 DEF Exit
      <4> QED BY <4>1, <4>2
    <3> QED BY <3>1, <3>2
  <2> QED BY <1>14, <2>1, <2>2 DEF Exit, Done
<1> QED
  BY <1>1, <1>2, <1>3, <1>4, <1>5, <1>6, <1>7, <1>8, <1>9, <1>10, <1>11,
     <1>12, <1>13, <1>14 DEF Player

(* TypeInv is inductive. *)
LEMMA StepTypeInv == TypeInv /\ [Next]_vars => TypeInv'
<1>1. ASSUME TypeInv, UNCHANGED vars PROVE TypeInv'
  BY <1>1 DEF vars, statusVars, requestVars, playerVars, TypeInv, TypeOK, LocalsOK, ScriptsOK,
              Inside
<1> QED BY <1>1, ClientTypeInv, HandlerTypeInv, PlayerTypeInv DEF Next

(* The playback's fields and the goroutines are type-correct, every handler *)
(* works on a workflow of the client's and no goroutine's index leaves its  *)
(* workflow, however many goroutines play at once.                          *)
THEOREM TypeCorrect == Spec => []TypeOK
<1>1. TypeInv => TypeOK
  BY DEF TypeInv
<1> QED BY <1>1, InitTypeInv, StepTypeInv, PTL DEF Spec

-----------------------------------------------------------------------------
(* What the steps do to the playback                                       *)

(* One field's assignment leaves a missing playback missing and the other  *)
(* fields alone.                                                           *)
LEMMA SetFieldProperties ==
    ASSUME playback \in PlaybackState \cup {NoPlayback},
           NEW field \in {"stop", "paused", "request"}, NEW value, SetField(field, value)
    PROVE  /\ playback = NoPlayback => playback' = NoPlayback
           /\ playback # NoPlayback =>
                /\ playback'.active = playback.active
                /\ playback'.step = playback.step
                /\ playback'.total = playback.total
<1>1. CASE playback = NoPlayback
  BY <1>1 DEF SetField
<1>2. CASE playback # NoPlayback
  <2>1. playback \in PlaybackState
    BY <1>2
  <2>2. playback' = [playback EXCEPT ![field] = value]
    BY <1>2 DEF SetField
  <2>3. /\ playback'.active = playback.active
        /\ playback'.step = playback.step
        /\ playback'.total = playback.total
    BY <2>1, <2>2 DEF PlaybackState
  <2> QED BY <1>2, <2>3
<1> QED BY <1>1, <1>2

(* Until its deferred function has run, a goroutine that has begun stays   *)
(* inside.                                                                 *)
LEMMA PlayerStaysInside ==
    ASSUME TypeInv, NEW g \in Players, Player(g), ~Exit(g)
    PROVE  Inside(g)'
<1> USE DEF TypeInv, TypeOK, Inside, Move
<1>1. CASE Begin(g) \/ Heed(g) \/ Top(g) \/ Permit(g) \/ Mark(g) \/ Delay(g)
  BY <1>1 DEF Begin, Heed, Top, Permit, Mark, Delay
<1>2. CASE ApplyConnection(g) \/ ApplyFill(g) \/ ApplyKey(g) \/ ApplyFail(g)
  BY <1>2 DEF ApplyConnection, ApplyFill, ApplyKey, ApplyFail
<1>3. CASE Submit(g) \/ Update(g) \/ Finish(g)
  BY <1>3 DEF Submit, Update, Finish
<1> QED BY <1>1, <1>2, <1>3 DEF Player

(* No goroutine and no summary changes, and the playback at most in fields *)
(* that neither theorem below reads.                                       *)
SamePlayback ==
    /\ UNCHANGED <<player, last, completed>>
    /\ playback = NoPlayback => playback' = NoPlayback
    /\ playback # NoPlayback =>
         /\ playback'.active = playback.active
         /\ playback'.step = playback.step
         /\ playback'.total = playback.total

SummaryCleared == ~completed' /\ UNCHANGED <<player, playback>>

PlaybackReplaced == ~completed' /\ ~Playing'

(* What a request's step may do to all this. *)
LEMMA RequestEffects ==
    ASSUME TypeInv, Client \/ \E r \in Requests : Handler(r)
    PROVE  SamePlayback \/ SummaryCleared \/ PlaybackReplaced
<1>0. playback \in PlaybackState \cup {NoPlayback}
  BY DEF TypeInv, TypeOK
<1>1. ASSUME UNCHANGED <<player, last, completed, playback>> PROVE SamePlayback
  BY <1>1 DEF SamePlayback
<1>2. ASSUME UNCHANGED <<player, last, completed>>, RequestStop PROVE SamePlayback
  BY <1>0, <1>2, SetFieldProperties DEF RequestStop, SamePlayback
<1>3. CASE StepWorkflow
  BY <1>0, <1>3, SetFieldProperties DEF StepWorkflow, SamePlayback, statusVars, playerVars
<1>4. CASE PauseWorkflow
  BY <1>0, <1>4, SetFieldProperties DEF PauseWorkflow, SamePlayback, statusVars, playerVars
<1>5. CASE StopWorkflow
  BY <1>2, <1>5 DEF StopWorkflow, statusVars, playerVars
<1>6. ASSUME NEW r \in Requests, RemoveReceive(r) PROVE SamePlayback
  BY <1>2, <1>6 DEF RemoveReceive, statusVars, playerVars
<1>7. ASSUME NEW r \in Requests, PlayReceive(r) \/ LoadReceive(r) PROVE SamePlayback
  BY <1>1, <1>7 DEF PlayReceive, LoadReceive, statusVars, playerVars
<1>8. ASSUME NEW r \in Requests,
             PlayLoaded(r) \/ PlayUpload(r) \/ PlayStore(r) \/ PlayRefuse(r) \/ LoadStore(r)
      PROVE  SamePlayback
  BY <1>1, <1>8 DEF PlayLoaded, PlayUpload, PlayStore, PlayRefuse, LoadStore, statusVars, playerVars
<1>9. ASSUME NEW r \in Requests, PlayStart(r) \/ RemoveClear(r) PROVE PlaybackReplaced
  BY <1>9 DEF PlayStart, RemoveClear, Fresh, PlaybackReplaced, Playing
<1>10. ASSUME NEW r \in Requests, ClearStatus(r) PROVE SummaryCleared
  BY <1>10 DEF ClearStatus, SummaryCleared, playerVars
<1> QED BY <1>3, <1>4, <1>5, <1>6, <1>7, <1>8, <1>9, <1>10 DEF Client, Handler

(* The deferred function ends the playback that is there and sums it up. *)
LEMMA ExitEffects ==
    ASSUME TypeInv, NEW g \in Players, Exit(g)
    PROVE  /\ ~Playing'
           /\ playback' # NoPlayback => last' = [step |-> playback'.step, total |-> playback'.total]
<1>1. CASE playback = NoPlayback
  BY <1>1 DEF Exit, Playing
<1>2. CASE playback # NoPlayback
  <2>1. playback \in PlaybackState
    BY <1>2 DEF TypeInv, TypeOK
  <2>2. playback' = [playback EXCEPT !["active"] = FALSE]
    BY <1>2 DEF Exit, SetField
  <2>3. last' = [step |-> playback.step, total |-> playback.total]
    BY <1>2 DEF Exit
  <2>4. playback'.active = FALSE /\ playback'.step = playback.step /\ playback'.total = playback.total
    BY <2>1, <2>2 DEF PlaybackState
  <2> QED BY <2>3, <2>4 DEF Playing
<1> QED BY <1>1, <1>2

-----------------------------------------------------------------------------
(* An active playback always has a goroutine that will end it: a session   *)
(* never refuses plays and loads for good because of a flag left behind.   *)
THEOREM ActivePlaybackEnds == Spec => []ActiveHasPlayer
<1>1. Init => ActiveHasPlayer
  BY DEF Init, ActiveHasPlayer, Playing
<1>2. ASSUME TypeInv, ActiveHasPlayer, [Next]_vars PROVE ActiveHasPlayer'
  <2>1. ASSUME SamePlayback PROVE ActiveHasPlayer'
    BY <1>2, <2>1 DEF SamePlayback, ActiveHasPlayer, Playing, Inside
  <2>2. ASSUME SummaryCleared PROVE ActiveHasPlayer'
    BY <1>2, <2>2 DEF SummaryCleared, ActiveHasPlayer, Playing, Inside
  <2>3. ASSUME PlaybackReplaced PROVE ActiveHasPlayer'
    BY <2>3 DEF PlaybackReplaced, ActiveHasPlayer
  <2>4. CASE Client \/ \E r \in Requests : Handler(r)
    BY <1>2, <2>1, <2>2, <2>3, <2>4, RequestEffects
  <2>5. ASSUME NEW g \in Players, Player(g), ~Exit(g) PROVE ActiveHasPlayer'
    BY <1>2, <2>5, PlayerStaysInside DEF ActiveHasPlayer
  <2>6. ASSUME NEW g \in Players, Exit(g) PROVE ActiveHasPlayer'
    BY <1>2, <2>6, ExitEffects DEF ActiveHasPlayer
  <2>7. CASE UNCHANGED vars
    BY <1>2, <2>7 DEF vars, playerVars, ActiveHasPlayer, Playing, Inside
  <2> QED BY <1>2, <2>4, <2>5, <2>6, <2>7 DEF Next
<1> QED BY <1>1, <1>2, InitTypeInv, StepTypeInv, PTL DEF Spec

(* Once all goroutines have ended, the completed playback's status is the  *)
(* one the last of them left, whatever removals and loads went between.    *)
THEOREM SummaryIsTheLastOne == Spec => []SummaryMatches
<1>1. Init => SummaryMatches
  BY DEF Init, SummaryMatches
<1>2. ASSUME TypeInv, SummaryMatches, [Next]_vars PROVE SummaryMatches'
  <2>1. ASSUME SamePlayback PROVE SummaryMatches'
    BY <1>2, <2>1 DEF SamePlayback, SummaryMatches, Quiet
  <2>2. ASSUME SummaryCleared \/ PlaybackReplaced PROVE SummaryMatches'
    BY <2>2 DEF SummaryCleared, PlaybackReplaced, SummaryMatches
  <2>3. CASE Client \/ \E r \in Requests : Handler(r)
    BY <1>2, <2>1, <2>2, <2>3, RequestEffects
  <2>4. ASSUME NEW g \in Players, Player(g), ~Exit(g) PROVE SummaryMatches'
    <3>1. Inside(g)'
      BY <1>2, <2>4, PlayerStaysInside
    <3> QED BY <3>1 DEF Inside, SummaryMatches, Quiet
  <2>5. ASSUME NEW g \in Players, Exit(g) PROVE SummaryMatches'
    BY <1>2, <2>5, ExitEffects DEF SummaryMatches
  <2>6. CASE UNCHANGED vars
    BY <1>2, <2>6 DEF vars, statusVars, playerVars, SummaryMatches, Quiet
  <2> QED BY <1>2, <2>3, <2>4, <2>5, <2>6 DEF Next
<1> QED BY <1>1, <1>2, InitTypeInv, StepTypeInv, PTL DEF Spec
=============================================================================
