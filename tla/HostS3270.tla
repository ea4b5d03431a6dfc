----------------------------- MODULE HostS3270 ------------------------------
(***************************************************************************)
(* One S3270 host (internal/host/s3270.go): the s3270 process it drives    *)
(* through a pipe, the lock every command runs under, and the retry that   *)
(* starts a new process when a command fails.                              *)
(*                                                                         *)
(* The callers are the goroutines that use the host of one session at the  *)
(* same time: submits, screen refreshes, playbacks and chaos runs.  A      *)
(* section under h.mu is one action with the outcomes it can have, since   *)
(* nobody else sees the process meanwhile; withRetry takes the lock anew   *)
(* for the attempt, for IsConnected, for Start and for the second attempt. *)
(*                                                                         *)
(* The emulator answers a command with a status line, or does not answer   *)
(* within commandTimeout, or ends.  Of a command that was not answered     *)
(* nobody knows whether it was performed.  The reader of a command that    *)
(* timed out is taken to see the end of the killed process' output before  *)
(* Start replaces h.stdout.                                                *)
(***************************************************************************)
EXTENDS Naturals, Sequences, FiniteSets

CONSTANTS
    Callers,    \* the goroutines that use the host
    Processes,  \* the processes that can be started: bounds the restarts of a behaviour
    Initial,    \* the process Start has started when the session was made
    NoProcess   \* nil, for h.cmd and for h.stdin

ASSUME ProcessesAssumption ==
    /\ IsFiniteSet(Processes)
    /\ IsFiniteSet(Callers)
    /\ Initial \in Processes
    /\ NoProcess \notin Processes

(* SendKey, UpdateScreen and WriteStringAt go through withRetry; MoveCursor,*)
(* SubmitScreen and SubmitUnformatted ("submit") do not.                   *)
Operations == {"key", "update", "write", "submit"}

Retried == {"key", "update", "write"}

VARIABLES
    process,    \* "unused", "live", "dead", or "failed": could not be started
    killed,     \* the processes the host has killed
    cmd,        \* h.cmd
    stdin,      \* h.stdin, as the process at its other end
    pc, op,     \* callers: next step and operation
    err,        \* the first attempt's error: "connection" as isConnectionError says
    performed,  \* the processes that have, or may have, performed the operation
    result      \* what the last call returned: "none" while it runs

hostVars == <<process, killed, cmd, stdin>>
callVars == <<pc, op, err, performed, result>>
vars == <<hostVars, callVars>>

Unused == {p \in Processes : process[p] = "unused"}

InCall == {c \in Callers : pc[c] # "idle"}

Init ==
    /\ process = [p \in Processes |-> IF p = Initial THEN "live" ELSE "unused"]
    /\ killed = {}
    /\ cmd = Initial
    /\ stdin = Initial
    /\ pc = [c \in Callers |-> "idle"]
    /\ op = [c \in Callers |-> "none"]
    /\ err = [c \in Callers |-> "none"]
    /\ performed = [c \in Callers |-> << >>]
    /\ result = [c \in Callers |-> "none"]

-----------------------------------------------------------------------------
(* A call begins; it may need one new process, the bound on restarts.      *)
Begin(c) ==
    /\ pc[c] = "idle"
    /\ Cardinality(Unused) > Cardinality(InCall)
    /\ \E o \in Operations : op' = [op EXCEPT ![c] = o]
    /\ pc' = [pc EXCEPT ![c] = "first"]
    /\ performed' = [performed EXCEPT ![c] = << >>]
    /\ result' = [result EXCEPT ![c] = "none"]
    /\ UNCHANGED <<hostVars, err>>

(* The call returns; its locals go out of scope. *)
Return(c, r) ==
    /\ pc' = [pc EXCEPT ![c] = "idle"]
    /\ op' = [op EXCEPT ![c] = "none"]
    /\ err' = [err EXCEPT ![c] = "none"]
    /\ result' = [result EXCEPT ![c] = r]

Perform(c) == performed' = [performed EXCEPT ![c] = Append(@, cmd)]

Attempting(c) == pc[c] \in {"first", "second"}

(* h.stdin is the pipe of a running process. *)
Answering(c) ==
    /\ Attempting(c)
    /\ stdin # NoProcess
    /\ process[stdin] = "live"

(* Variant: a second attempt that fails is tried again as well. *)
FailWithAgain(c, e) ==
    \/ /\ op[c] \in Retried
       /\ pc' = [pc EXCEPT ![c] = "check"]
       /\ err' = [err EXCEPT ![c] = e]
       /\ UNCHANGED <<op, result>>
    \/ /\ op[c] \notin Retried
       /\ Return(c, "error")

(* The error of an attempt: a first one goes on to the retry, a second one *)
(* or one without a retry is returned.                                     *)
FailWith(c, e) ==
    \/ /\ pc[c] = "first" /\ op[c] \in Retried
       /\ pc' = [pc EXCEPT ![c] = "check"]
       /\ err' = [err EXCEPT ![c] = e]
       /\ UNCHANGED <<op, result>>
    \/ /\ pc[c] = "second" \/ op[c] \notin Retried
       /\ Return(c, "error")

-----------------------------------------------------------------------------
(* The outcomes of an attempt.  sendKeyOnce tries a refused key again as   *)
(* Key(spec): whichever of the two is accepted, the key is pressed once.   *)

(* The command was accepted, and the keyboard unlocked in time where an    *)
(* AID key waits for it.                                                   *)
Accepted(c) ==
    /\ Answering(c)
    /\ Perform(c)
    /\ Return(c, "ok")
    /\ UNCHANGED hostVars

(* The emulator's answer is an error, the keyboard stays locked, or the    *)
(* host that was disconnected cannot be connected again: nothing was done. *)
Refused(c) ==
    /\ Answering(c)
    /\ FailWith(c, "other")
    /\ UNCHANGED <<hostVars, performed>>

(* executeKeyCommand finds the host disconnected and connects it: SendKey  *)
(* reports success, the key was not pressed.                               *)
Reconnected(c) ==
    /\ Answering(c)
    /\ op[c] = "key"
    /\ Return(c, "reconnected")
    /\ UNCHANGED <<hostVars, performed>>

(* writeStringAtOnce reports a disconnected host as an error, part of the  *)
(* text being written; the emulator goes on running.                       *)
NotConnected(c) ==
    /\ Answering(c)
    /\ op[c] = "write"
    /\ Perform(c)
    /\ FailWith(c, "connection")
    /\ UNCHANGED hostVars

(* Variant: the process of a command that timed out is left alone. *)
TimeoutSpared(c) ==
    /\ Answering(c)
    /\ Perform(c) \/ UNCHANGED performed
    /\ stdin' = NoProcess
    /\ killed' = killed \cup {cmd}
    /\ FailWith(c, "connection")
    /\ UNCHANGED <<process, cmd>>

(* Variant: the pipe of a process that was killed is kept. *)
TimeoutPipeKept(c) ==
    /\ Answering(c)
    /\ Perform(c) \/ UNCHANGED performed
    /\ process' = [process EXCEPT ![cmd] = "dead"]
    /\ killed' = killed \cup {cmd}
    /\ FailWith(c, "connection")
    /\ UNCHANGED <<cmd, stdin>>

(* No answer within commandTimeout, before or after the command was        *)
(* performed: the process is killed and its pipe closed.                   *)
Timeout(c) ==
    /\ Answering(c)
    /\ Perform(c) \/ UNCHANGED performed
    /\ process' = [process EXCEPT ![cmd] = "dead"]
    /\ killed' = killed \cup {cmd}
    /\ stdin' = NoProcess
    /\ FailWith(c, "connection")
    /\ UNCHANGED cmd

(* The process ends instead of answering.  A key is then written to it     *)
(* again, which gives up the pipe, unless it was the second form of the    *)
(* key, or the wait after it, that was not answered.                       *)
Terminated(c) ==
    /\ Answering(c)
    /\ Perform(c) \/ UNCHANGED performed
    /\ process' = [process EXCEPT ![cmd] = "dead"]
    /\ stdin' = stdin \/ (op[c] = "key" /\ stdin' = NoProcess)
    /\ FailWith(c, "connection")
    /\ UNCHANGED <<killed, cmd>>

(* The process is gone: the write fails and h.stdin is given up.  A pipe   *)
(* that exec closed because the process could not be started fails with an *)
(* error isConnectionError does not know, except where a key's second try  *)
(* finds no pipe.                                                          *)
WriteFails(c) ==
    /\ Attempting(c)
    /\ stdin # NoProcess
    /\ process[stdin] # "live"
    /\ stdin' = NoProcess
    /\ FailWith(c, IF process[stdin] = "dead" \/ op[c] = "key" THEN "connection" ELSE "other")
    /\ UNCHANGED <<process, killed, cmd, performed>>

(* executeCommandLocked: "not connected". *)
NoPipe(c) ==
    /\ Attempting(c)
    /\ stdin = NoProcess
    /\ FailWith(c, "connection")
    /\ UNCHANGED <<hostVars, performed>>

-----------------------------------------------------------------------------
(* withRetry after a failed first attempt.                                 *)

(* IsConnected: a process that ended by itself still counts as running,    *)
(* for cmd.ProcessState is only set by Wait.                               *)
IsConnected == cmd # NoProcess /\ stdin # NoProcess

(* Variant: an emulator that still seems to run is used again. *)
CheckConnectionReused(c) ==
    /\ pc[c] = "check"
    /\ pc' = [pc EXCEPT ![c] = IF IsConnected THEN "second" ELSE "start"]
    /\ UNCHANGED <<hostVars, op, err, performed, result>>

(* Variant: a caller without a connection waits for another one to start it.*)
CheckConnectionWaits(c) ==
    /\ pc[c] = "check"
    /\ IsConnected
    /\ \/ /\ err[c] = "connection"
          /\ pc' = [pc EXCEPT ![c] = "start"]
          /\ UNCHANGED <<op, err, result>>
       \/ /\ err[c] # "connection"
          /\ Return(c, "error")
    /\ UNCHANGED <<hostVars, performed>>

CheckConnection(c) ==
    /\ pc[c] = "check"
    /\ \/ /\ ~IsConnected \/ err[c] = "connection"
          /\ pc' = [pc EXCEPT ![c] = "start"]
          /\ UNCHANGED <<op, err, result>>
       \/ /\ IsConnected /\ err[c] # "connection"
          /\ Return(c, "error")
    /\ UNCHANGED <<hostVars, performed>>

(* Start overwrites cmd, whether or not its process still runs.            *)
StartReady(c) ==
    /\ pc[c] = "start"
    /\ \E p \in Unused :
        /\ process' = [process EXCEPT ![p] = "live"]
        /\ cmd' = p
        /\ stdin' = p
    /\ pc' = [pc EXCEPT ![c] = "second"]
    /\ UNCHANGED <<killed, op, err, performed, result>>

(* The new process runs, but its screen is not ready within 50 looks. *)
StartNotReady(c) ==
    /\ pc[c] = "start"
    /\ \E p \in Unused :
        /\ process' = [process EXCEPT ![p] = "live"]
        /\ cmd' = p
        /\ stdin' = p
    /\ Return(c, "error")
    /\ UNCHANGED <<killed, performed>>

(* The new process does not answer: killed on a timeout, or it ended before *)
(* or after the write, which then gives up the pipe.                       *)
StartLost(c) ==
    /\ pc[c] = "start"
    /\ \E p \in Unused :
        /\ process' = [process EXCEPT ![p] = "dead"]
        /\ cmd' = p
        /\ \/ stdin' = NoProcess /\ killed' = killed \cup {p}
           \/ stdin' \in {p, NoProcess} /\ UNCHANGED killed
    /\ Return(c, "error")
    /\ UNCHANGED performed

(* A pipe cannot be made or the program cannot be run: cmd is set all the  *)
(* same, to a command without a process.                                   *)
StartFails(c) ==
    /\ pc[c] = "start"
    /\ \E p \in Unused :
        /\ process' = [process EXCEPT ![p] = "failed"]
        /\ cmd' = p
        /\ stdin' \in {p, NoProcess}
    /\ Return(c, "error")
    /\ UNCHANGED <<killed, performed>>

-----------------------------------------------------------------------------
HasProcess == cmd # NoProcess /\ process[cmd] # "failed"

(* Stop closes the pipe, kills and waits.  A command that never got a      *)
(* process makes it panic once the pipe is closed: cmd stays.              *)
Stop ==
    /\ stdin' = NoProcess
    /\ \/ /\ HasProcess
          /\ process' = [process EXCEPT ![cmd] = "dead"]
          /\ killed' = killed \cup {cmd}
          /\ cmd' = NoProcess
       \/ /\ ~HasProcess
          /\ UNCHANGED <<process, killed, cmd>>
    /\ UNCHANGED callVars

(* The emulator ends by itself, also one that nobody refers to any more. *)
ProcessEnds(p) ==
    /\ process[p] = "live"
    /\ process' = [process EXCEPT ![p] = "dead"]
    /\ UNCHANGED <<killed, cmd, stdin, callVars>>

-----------------------------------------------------------------------------
Attempt(c) ==
    \/ Accepted(c) \/ Refused(c) \/ Reconnected(c) \/ NotConnected(c)
    \/ Timeout(c) \/ Terminated(c) \/ WriteFails(c) \/ NoPipe(c)

Start(c) == StartReady(c) \/ StartNotReady(c) \/ StartLost(c) \/ StartFails(c)

Call(c) == Attempt(c) \/ CheckConnection(c) \/ Start(c)

Next ==
    \/ \E c \in Callers : Begin(c) \/ Call(c)
    \/ Stop
    \/ \E p \in Processes : ProcessEnds(p)

(* A caller gets the lock and the processor some time; every command ends, *)
(* by its timeout if by nothing else.                                      *)
Fairness == \A c \in Callers : WF_vars(Call(c))

Spec == Init /\ [][Next]_vars /\ Fairness

-----------------------------------------------------------------------------
(* Properties                                                              *)

(* The type of every variable; a process the host killed is dead.          *)
TypeOK ==
    /\ process \in [Processes -> {"unused", "live", "dead", "failed"}]
    /\ killed \subseteq {p \in Processes : process[p] = "dead"}
    /\ cmd \in Processes \cup {NoProcess}
    /\ stdin \in Processes \cup {NoProcess}
    /\ pc \in [Callers -> {"idle", "first", "check", "start", "second"}]
    /\ op \in [Callers -> Operations \cup {"none"}]
    /\ err \in [Callers -> {"none", "connection", "other"}]
    /\ performed \in [Callers -> Seq(Processes)]
    /\ result \in [Callers -> {"none", "ok", "reconnected", "error"}]

(* The pipe commands are written to is the pipe of the process that Stop   *)
(* and a timeout would kill, and never that of a process the host has      *)
(* killed: an answer that comes too late is never read as the answer to a  *)
(* later command.                                                          *)
PipeUsable ==
    stdin # NoProcess =>
        /\ stdin = cmd
        /\ stdin \notin killed
        /\ process[stdin] # "unused"

(* However often a call is tried again, its operation is performed at most *)
(* once by each emulator process, so at most once on one connection.       *)
OncePerProcess ==
    \A c \in Callers :
        \A i, j \in 1..Len(performed[c]) : performed[c][i] = performed[c][j] => i = j

(* What a caller may rely on. *)
Abstract == INSTANCE HostCall WITH
    busy <- InCall,
    presses <- [c \in Callers |-> Len(performed[c])],
    result <- result

ImplementsHostCall == Abstract!Spec

(* Every call returns, whatever the process, the other callers and Stop do.*)
CallsReturn == \A c \in Callers : pc[c] # "idle" ~> pc[c] = "idle"
=============================================================================
