------------------------- MODULE HostS3270_proofs ---------------------------
(***************************************************************************)
(* Theorems about HostS3270, for any number of callers and of processes.   *)
(***************************************************************************)
EXTENDS HostS3270, TLAPS

Points == {"idle", "first", "check", "start", "second"}

(* A command that is set was started, or tried to be. *)
CmdStarted == cmd # NoProcess => process[cmd] # "unused"

PipeInv == TypeOK /\ PipeUsable /\ CmdStarted

(* Why an operation is performed once per process: before the first attempt *)
(* no process has performed it, after it at most one has, and the second    *)
(* attempt meets another process, for Start has put an unused one into      *)
(* h.cmd and nobody puts an old one back.                                   *)
AttemptsOf(c) ==
    /\ pc[c] = "first" => performed[c] = << >>
    /\ pc[c] \in {"check", "start", "second"} => Len(performed[c]) <= 1
    /\ Len(performed[c]) <= 2
    /\ \A i \in 1..Len(performed[c]) : process[performed[c][i]] # "unused"
    /\ pc[c] = "second" => \A i \in 1..Len(performed[c]) : performed[c][i] # cmd

OnceInv == OncePerProcess /\ \A c \in Callers : AttemptsOf(c)

LEMMA InitPipeInv == Init => PipeInv
BY ProcessesAssumption DEF Init, PipeInv, TypeOK, PipeUsable, CmdStarted

(* Only the process of h.cmd performs anything. *)
LEMMA PerformType ==
    ASSUME PipeInv, NEW c \in Callers, Answering(c), Perform(c) \/ UNCHANGED performed
    PROVE  performed' \in [Callers -> Seq(Processes)]
<1>1. cmd \in Processes
  BY DEF PipeInv, TypeOK, PipeUsable, Answering
<1>2. performed[c] \in Seq(Processes)
  BY DEF PipeInv, TypeOK
<1>3. Append(performed[c], cmd) \in Seq(Processes)
  BY <1>1, <1>2
<1> QED BY <1>3 DEF PipeInv, TypeOK, Perform

(* The part of TypeOK that is about the calls' locals. *)
LocalsType ==
    /\ pc \in [Callers -> Points]
    /\ op \in [Callers -> Operations \cup {"none"}]
    /\ err \in [Callers -> {"none", "connection", "other"}]
    /\ result \in [Callers -> {"none", "ok", "reconnected", "error"}]

LEMMA FailWithType ==
    ASSUME TypeOK, NEW c \in Callers, FailWith(c, "connection")
    PROVE  LocalsType'
BY DEF TypeOK, FailWith, Return, LocalsType, Points

(* The outcomes of an attempt: the pipe is given up whenever its process    *)
(* is killed.                                                               *)
LEMMA AttemptPipeInv ==
    ASSUME PipeInv, NEW c \in Callers, Attempt(c)
    PROVE  PipeInv'
<1> USE DEF PipeInv, TypeOK, PipeUsable, CmdStarted, hostVars, FailWith, Return, Attempting, Answering
<1>1. CASE Accepted(c)
  <2>1. performed' \in [Callers -> Seq(Processes)]
    BY <1>1, PerformType DEF Accepted
  <2> QED BY <1>1, <2>1 DEF Accepted
<1>2. CASE Refused(c)
  BY <1>2 DEF Refused
<1>3. CASE Reconnected(c)
  BY <1>3 DEF Reconnected
<1>4. CASE NotConnected(c)
  <2>1. performed' \in [Callers -> Seq(Processes)]
    BY <1>4, PerformType DEF NotConnected
  <2> QED BY <1>4, <2>1 DEF NotConnected
<1>5. CASE Timeout(c)
  <2>1. performed' \in [Callers -> Seq(Processes)]
    BY <1>5, PerformType DEF Timeout
  <2>2. LocalsType'
    BY <1>5, FailWithType DEF Timeout
  <2>3. cmd \in Processes /\ process'[cmd] = "dead" /\ cmd' = cmd /\ stdin' \in {stdin, NoProcess}
    BY <1>5 DEF Timeout
  <2>4. process' = [process EXCEPT ![cmd] = "dead"] /\ killed' \subseteq killed \cup {cmd}
    BY <1>5 DEF Timeout
  <2>5. TypeOK'
    BY <2>1, <2>2, <2>3, <2>4 DEF LocalsType, Points
  <2>6. PipeUsable'
    BY <1>5, <2>3, <2>4, ProcessesAssumption DEF Timeout
  <2> QED BY <2>3, <2>4, <2>5, <2>6
<1>6. CASE Terminated(c)
  <2>1. performed' \in [Callers -> Seq(Processes)]
    BY <1>6, PerformType DEF Terminated
  <2>2. LocalsType'
    BY <1>6, FailWithType DEF Terminated
  <2>3. cmd \in Processes /\ process'[cmd] = "dead" /\ cmd' = cmd /\ stdin' \in {stdin, NoProcess}
    BY <1>6 DEF Terminated
  <2>4. process' = [process EXCEPT ![cmd] = "dead"] /\ killed' \subseteq killed \cup {cmd}
    BY <1>6 DEF Terminated
  <2>5. TypeOK'
    BY <2>1, <2>2, <2>3, <2>4 DEF LocalsType, Points
  <2>6. PipeUsable'
    BY <1>6, <2>3, <2>4, ProcessesAssumption DEF Terminated
  <2> QED BY <2>3, <2>4, <2>5, <2>6
<1>7. CASE WriteFails(c)
  BY <1>7 DEF WriteFails
<1>8. CASE NoPipe(c)
  BY <1>8 DEF NoPipe
<1> QED BY <1>1, <1>2, <1>3, <1>4, <1>5, <1>6, <1>7, <1>8 DEF Attempt

(* Start: the new process is none the host has killed, for those are dead. *)
LEMMA StartPipeInv ==
    ASSUME PipeInv, NEW c \in Callers, Start(c)
    PROVE  PipeInv'
<1> USE ProcessesAssumption DEF PipeInv, TypeOK, PipeUsable, CmdStarted, hostVars, Return, Unused
<1>1. CASE StartReady(c)
  BY <1>1 DEF StartReady
<1>2. CASE StartNotReady(c)
  BY <1>2 DEF StartNotReady
<1>3. CASE StartLost(c)
  BY <1>3 DEF StartLost
<1>4. CASE StartFails(c)
  BY <1>4 DEF StartFails
<1> QED BY <1>1, <1>2, <1>3, <1>4 DEF Start

LEMMA NextPipeInv == PipeInv /\ [Next]_vars => PipeInv'
<1> SUFFICES ASSUME PipeInv, [Next]_vars PROVE PipeInv'
  OBVIOUS
<1> USE DEF PipeInv, TypeOK, PipeUsable, CmdStarted, hostVars, callVars
<1>1. ASSUME NEW c \in Callers, Begin(c) PROVE PipeInv'
  BY <1>1 DEF Begin, Operations
<1>2. ASSUME NEW c \in Callers, CheckConnection(c) PROVE PipeInv'
  BY <1>2 DEF CheckConnection, Return
<1>3. CASE Stop
  BY <1>3 DEF Stop, HasProcess
<1>4. ASSUME NEW p \in Processes, ProcessEnds(p) PROVE PipeInv'
  BY <1>4 DEF ProcessEnds
<1>5. CASE UNCHANGED vars
  BY <1>5 DEF vars
<1> QED BY <1>1, <1>2, <1>3, <1>4, <1>5, AttemptPipeInv, StartPipeInv DEF Next, Call

(* Every variable keeps its type, and what the host has killed stays dead. *)
THEOREM TypeCorrect == Spec => []TypeOK
<1>1. PipeInv => TypeOK
  BY DEF PipeInv
<1> QED BY <1>1, InitPipeInv, NextPipeInv, PTL DEF Spec

(* Commands go to the process that Stop would kill, and never to one that  *)
(* the host has killed: no late answer is taken for another command's.     *)
THEOREM PipeIsUsable == Spec => []PipeUsable
<1>1. PipeInv => PipeUsable
  BY DEF PipeInv
<1> QED BY <1>1, InitPipeInv, NextPipeInv, PTL DEF Spec

-----------------------------------------------------------------------------
(* What the steps of a call do to the call, and to h.cmd.                  *)

(* The processes that were never started. *)
SameUnused == \A p \in Processes : process'[p] = "unused" <=> process[p] = "unused"

LEMMA AttemptEffects ==
    ASSUME PipeInv, NEW c \in Callers, Attempt(c)
    PROVE  /\ pc[c] \in {"first", "second"}
           /\ \/ pc' = [pc EXCEPT ![c] = "idle"]
              \/ pc[c] = "first" /\ pc' = [pc EXCEPT ![c] = "check"]
           /\ \/ performed' = performed
              \/ cmd \in Processes /\ Perform(c)
           /\ cmd' = cmd
           /\ SameUnused
<1> USE DEF PipeInv, TypeOK, PipeUsable, CmdStarted, hostVars, FailWith, Return, Attempting, Answering, SameUnused
<1>1. CASE Accepted(c)
  BY <1>1 DEF Accepted
<1>2. CASE Refused(c)
  BY <1>2 DEF Refused
<1>3. CASE Reconnected(c)
  BY <1>3 DEF Reconnected
<1>4. CASE NotConnected(c)
  BY <1>4 DEF NotConnected
<1>5. CASE Timeout(c)
  BY <1>5 DEF Timeout
<1>6. CASE Terminated(c)
  BY <1>6 DEF Terminated
<1>7. CASE WriteFails(c)
  BY <1>7 DEF WriteFails
<1>8. CASE NoPipe(c)
  BY <1>8 DEF NoPipe
<1> QED BY <1>1, <1>2, <1>3, <1>4, <1>5, <1>6, <1>7, <1>8 DEF Attempt

LEMMA StartEffects ==
    ASSUME PipeInv, NEW c \in Callers, Start(c)
    PROVE  /\ pc[c] = "start"
           /\ \/ pc' = [pc EXCEPT ![c] = "idle"]
              \/ pc' = [pc EXCEPT ![c] = "second"]
           /\ performed' = performed
           /\ \E p \in Unused :
                /\ cmd' = p
                /\ process'[p] # "unused"
                /\ \A q \in Processes \ {p} : process'[q] = process[q]
<1> USE DEF PipeInv, TypeOK, Return, Unused
<1>1. CASE StartReady(c)
  BY <1>1 DEF StartReady
<1>2. CASE StartNotReady(c)
  BY <1>2 DEF StartNotReady
<1>3. CASE StartLost(c)
  BY <1>3 DEF StartLost
<1>4. CASE StartFails(c)
  BY <1>4 DEF StartFails
<1> QED BY <1>1, <1>2, <1>3, <1>4 DEF Start

-----------------------------------------------------------------------------
LEMMA InitOnceInv == Init => OnceInv
BY DEF Init, OnceInv, OncePerProcess, AttemptsOf

(* An attempt performs the operation by a process that had not yet.        *)
LEMMA AttemptOnceInv ==
    ASSUME PipeInv, OnceInv, NEW c \in Callers, Attempt(c)
    PROVE  OnceInv'
<1>1. \A d \in Callers : performed[d] \in Seq(Processes)
  BY DEF PipeInv, TypeOK
<1>2. \A d \in Callers : \A i \in 1..Len(performed[d]) : performed[d][i] \in Processes
  BY <1>1
<1>3. ASSUME performed' = performed PROVE OnceInv'
  BY <1>2, <1>3, AttemptEffects DEF OnceInv, OncePerProcess, AttemptsOf, SameUnused, PipeInv, TypeOK
<1>4. ASSUME cmd \in Processes, Perform(c) PROVE OnceInv'
  <2>1. performed' = [performed EXCEPT ![c] = Append(performed[c], cmd)]
    BY <1>4 DEF Perform
  <2>2. /\ Len(performed[c]) <= 1
        /\ \A i \in 1..Len(performed[c]) : performed[c][i] # cmd
    BY <1>1, AttemptEffects DEF OnceInv, AttemptsOf
  <2>3. process[cmd] # "unused"
    BY <1>4, ProcessesAssumption DEF PipeInv, CmdStarted
  <2>4. /\ performed'[c] = Append(performed[c], cmd)
        /\ \A d \in Callers \ {c} : performed'[d] = performed[d] /\ pc'[d] = pc[d]
        /\ pc'[c] \in {"idle", "check"}
        /\ pc'[c] = "check" => pc[c] = "first"
    BY <2>1, AttemptEffects DEF PipeInv, TypeOK
  <2>5. /\ Len(performed'[c]) = Len(performed[c]) + 1
        /\ \A i \in 1..Len(performed[c]) : performed'[c][i] = performed[c][i]
        /\ performed'[c][Len(performed[c]) + 1] = cmd
    BY <1>1, <1>4, <2>4
  <2>6. Len(performed[c]) \in Nat
    BY <1>1
  <2>7. ASSUME NEW d \in Callers
        PROVE  /\ AttemptsOf(d)'
               /\ \A i, j \in 1..Len(performed'[d]) : performed'[d][i] = performed'[d][j] => i = j
    <3>1. CASE d # c
      BY <1>2, <2>4, <3>1, AttemptEffects DEF OnceInv, OncePerProcess, AttemptsOf, SameUnused
    <3>2. CASE d = c
      <4>1. \A i \in 1..Len(performed'[c]) : i \in 1..Len(performed[c]) \/ i = Len(performed[c]) + 1
        BY <2>5, <2>6
      <4>2. \A i \in 1..Len(performed'[c]) : process[performed'[c][i]] # "unused" /\ performed'[c][i] \in Processes
        BY <1>2, <1>4, <2>3, <2>5, <4>1 DEF OnceInv, AttemptsOf
      <4>3. \A i \in 1..Len(performed'[c]) : process'[performed'[c][i]] # "unused"
        BY <4>2, AttemptEffects DEF SameUnused
      <4>4. \A i, j \in 1..Len(performed'[c]) : performed'[c][i] = performed'[c][j] => i = j
        BY <2>2, <2>5, <4>1 DEF OnceInv, OncePerProcess
      <4>5. pc'[c] = "check" => Len(performed'[c]) <= 1
        BY <2>4, <2>5 DEF OnceInv, AttemptsOf
      <4> QED BY <2>2, <2>4, <2>5, <2>6, <3>2, <4>3, <4>4, <4>5 DEF AttemptsOf
    <3> QED BY <3>1, <3>2
  <2> QED BY <2>7 DEF OnceInv, OncePerProcess
<1> QED BY <1>3, <1>4, AttemptEffects

(* A start puts a process into h.cmd that has performed nothing yet.       *)
LEMMA StartOnceInv ==
    ASSUME PipeInv, OnceInv, NEW c \in Callers, Start(c)
    PROVE  OnceInv'
<1>1. \A d \in Callers : \A i \in 1..Len(performed[d]) : performed[d][i] \in Processes
  BY DEF PipeInv, TypeOK
<1>2. PICK p \in Unused :
        /\ cmd' = p
        /\ process'[p] # "unused"
        /\ \A q \in Processes \ {p} : process'[q] = process[q]
  BY StartEffects
<1>3. \A d \in Callers : \A i \in 1..Len(performed[d]) : performed[d][i] # p
  BY <1>1, <1>2 DEF OnceInv, AttemptsOf, Unused
<1>4. performed' = performed
  BY StartEffects
<1>5. ASSUME NEW d \in Callers PROVE AttemptsOf(d)'
  <2>1. \A i \in 1..Len(performed'[d]) : process'[performed'[d][i]] # "unused" /\ performed'[d][i] # cmd'
    BY <1>1, <1>2, <1>3, <1>4 DEF OnceInv, AttemptsOf
  <2>2. \/ pc'[d] = pc[d]
        \/ pc[d] = "start" /\ pc'[d] \in {"idle", "second"}
    BY StartEffects DEF PipeInv, TypeOK
  <2> QED BY <1>4, <2>1, <2>2 DEF OnceInv, AttemptsOf
<1> QED BY <1>4, <1>5 DEF OnceInv, OncePerProcess

LEMMA NextOnceInv == PipeInv /\ OnceInv /\ [Next]_vars => OnceInv'
<1> SUFFICES ASSUME PipeInv, OnceInv, [Next]_vars PROVE OnceInv'
  OBVIOUS
<1>1. \A d \in Callers : \A i \in 1..Len(performed[d]) : performed[d][i] \in Processes
  BY DEF PipeInv, TypeOK
<1> USE DEF PipeInv, TypeOK, OnceInv, OncePerProcess, AttemptsOf, hostVars, callVars
<1>2. ASSUME NEW c \in Callers, Begin(c) PROVE OnceInv'
  BY <1>2 DEF Begin
<1>3. ASSUME NEW c \in Callers, CheckConnection(c) PROVE OnceInv'
  BY <1>3 DEF CheckConnection, Return
<1>4. CASE Stop
  <2>1. \A d \in Callers : pc[d] = "second" => \A i \in 1..Len(performed[d]) : performed[d][i] # cmd'
    BY <1>1, <1>4, ProcessesAssumption DEF Stop
  <2>2. \A p \in Processes : process'[p] = "unused" => process[p] = "unused"
    BY <1>4 DEF Stop
  <2> QED BY <1>1, <1>4, <2>1, <2>2 DEF Stop
<1>5. ASSUME NEW p \in Processes, ProcessEnds(p) PROVE OnceInv'
  <2>1. \A q \in Processes : process'[q] = "unused" => process[q] = "unused"
    BY <1>5 DEF ProcessEnds
  <2> QED BY <1>1, <1>5, <2>1 DEF ProcessEnds
<1>6. CASE UNCHANGED vars
  BY <1>6 DEF vars
<1> QED BY <1>2, <1>3, <1>4, <1>5, <1>6, AttemptOnceInv, StartOnceInv DEF Next, Call

(* A call that is tried again never repeats its operation on a process that *)
(* may have performed it already: a key that got no answer is not pressed   *)
(* twice on one connection.                                                 *)
THEOREM PerformedOncePerProcess == Spec => []OncePerProcess
<1>1. OnceInv => OncePerProcess
  BY DEF OnceInv
<1> QED BY <1>1, InitPipeInv, NextPipeInv, InitOnceInv, NextOnceInv, PTL DEF Spec

-----------------------------------------------------------------------------
(* The steps of HostS3270 as steps of HostCall: an attempt that is retried *)
(* and a start that succeeds are attempts that go on.                      *)

LEMMA HostCallInit == Init => Abstract!Init
<1> SUFFICES ASSUME Init PROVE Abstract!Init
  OBVIOUS
<1>1. InCall = {}
  BY DEF Init, InCall
<1>2. [c \in Callers |-> Len(performed[c])] = [c \in Callers |-> 0]
  BY DEF Init
<1> QED BY <1>1, <1>2 DEF Init, Abstract!Init

LEMMA HostCallBegin ==
    ASSUME TypeOK, NEW c \in Callers, Begin(c)
    PROVE  Abstract!Begin(c)
<1> USE DEF TypeOK, Begin
<1>1. c \notin InCall /\ InCall' = InCall \cup {c}
  BY DEF InCall
<1>2. [d \in Callers |-> Len(performed'[d])] =
        [[d \in Callers |-> Len(performed[d])] EXCEPT ![c] = 0]
  OBVIOUS
<1> QED BY <1>1, <1>2 DEF Abstract!Begin

(* How a call goes on or ends; only an operation that was performed makes  *)
(* it a success.                                                           *)
LEMMA CallResult ==
    ASSUME TypeOK, NEW c \in Callers, Call(c)
    PROVE  /\ pc[c] # "idle"
           /\ \/ /\ pc'[c] # "idle"
                 /\ result' = result
              \/ /\ pc'[c] = "idle"
                 /\ \/ result' = [result EXCEPT ![c] = "error"]
                    \/ result' = [result EXCEPT ![c] = "reconnected"]
                    \/ Perform(c) /\ result' = [result EXCEPT ![c] = "ok"]
           /\ \A d \in Callers \ {c} : pc'[d] = pc[d]
<1> USE DEF TypeOK, FailWith, Return, Attempting, Answering
<1>1. CASE Accepted(c)
  BY <1>1 DEF Accepted
<1>2. CASE Refused(c)
  BY <1>2 DEF Refused
<1>3. CASE Reconnected(c)
  BY <1>3 DEF Reconnected
<1>4. CASE NotConnected(c)
  BY <1>4 DEF NotConnected
<1>5. CASE Timeout(c)
  BY <1>5 DEF Timeout
<1>6. CASE Terminated(c)
  BY <1>6 DEF Terminated
<1>7. CASE WriteFails(c)
  BY <1>7 DEF WriteFails
<1>8. CASE NoPipe(c)
  BY <1>8 DEF NoPipe
<1>9. CASE CheckConnection(c)
  BY <1>9 DEF CheckConnection
<1>10. CASE Start(c)
  BY <1>10 DEF Start, StartReady, StartNotReady, StartLost, StartFails
<1> QED BY <1>1, <1>2, <1>3, <1>4, <1>5, <1>6, <1>7, <1>8, <1>9, <1>10 DEF Call, Attempt

LEMMA CallPerforms ==
    ASSUME PipeInv, OnceInv, NEW c \in Callers, Call(c)
    PROVE  \/ performed' = performed
           \/ /\ cmd \in Processes
              /\ Perform(c)
              /\ Len(performed[c]) < 2
<1>1. CASE Attempt(c)
  BY <1>1, AttemptEffects DEF OnceInv, AttemptsOf, PipeInv, TypeOK
<1>2. CASE CheckConnection(c)
  BY <1>2 DEF CheckConnection, Return
<1>3. CASE Start(c)
  BY <1>3, StartEffects
<1> QED BY <1>1, <1>2, <1>3 DEF Call

LEMMA HostCallAttempt ==
    ASSUME PipeInv, OnceInv, NEW c \in Callers, Call(c)
    PROVE  Abstract!Attempt(c)
<1> DEFINE presses == [d \in Callers |-> Len(performed[d])]
<1>1. \A d \in Callers : performed[d] \in Seq(Processes)
  BY DEF PipeInv, TypeOK
<1>2. TypeOK
  BY DEF PipeInv
<1>3. c \in InCall
  BY <1>2, CallResult DEF InCall
<1>4. Perform(c) /\ cmd \in Processes => presses' = [presses EXCEPT ![c] = @ + 1] /\ presses'[c] > 0
  <2> SUFFICES ASSUME Perform(c), cmd \in Processes
               PROVE  presses' = [presses EXCEPT ![c] = @ + 1] /\ presses'[c] > 0
    OBVIOUS
  <2>1. performed' = [performed EXCEPT ![c] = Append(performed[c], cmd)]
    BY DEF Perform
  <2>2. \A d \in Callers \ {c} : performed'[d] = performed[d]
    BY <1>2, <2>1 DEF TypeOK
  <2>3. performed'[c] = Append(performed[c], cmd)
    BY <1>2, <2>1 DEF TypeOK
  <2>4. Len(performed'[c]) = Len(performed[c]) + 1 /\ Len(performed[c]) \in Nat
    BY <1>1, <2>3
  <2>5. \A d \in Callers :
          Len(performed'[d]) = IF d = c THEN Len(performed[c]) + 1 ELSE Len(performed[d])
    BY <2>2, <2>4
  <2>6. presses' = [presses EXCEPT ![c] = @ + 1]
    BY <2>5
  <2> QED BY <2>4, <2>6
<1>5. \/ presses' = presses
      \/ presses[c] < 2 /\ presses' = [presses EXCEPT ![c] = @ + 1]
  BY <1>4, CallPerforms
<1>6. pc'[c] # "idle" => InCall' = InCall
  BY <1>2, <1>3, CallResult DEF InCall
<1>7. pc'[c] = "idle" => InCall' = InCall \ {c}
  BY <1>2, CallResult DEF InCall
<1>8. Perform(c) => presses'[c] > 0
  <2> SUFFICES ASSUME Perform(c) PROVE Len(performed'[c]) > 0
    OBVIOUS
  <2>1. performed'[c] = Append(performed[c], cmd)
    BY <1>2 DEF Perform, TypeOK
  <2>2. Len(performed[c]) \in Nat /\ performed[c] \in Seq(Processes \cup {cmd})
    BY <1>1
  <2>3. Len(performed'[c]) = Len(performed[c]) + 1
    BY <2>1, <2>2
  <2> QED BY <2>2, <2>3
<1> QED BY <1>2, <1>3, <1>5, <1>6, <1>7, <1>8, CallResult DEF Abstract!Attempt

LEMMA HostCallStutter == UNCHANGED <<pc, performed, result>> => UNCHANGED Abstract!vars
BY DEF Abstract!vars, InCall

(* The host with its pipe, its restarts and its retries keeps what HostCall *)
(* promises a caller.                                                       *)
THEOREM HostImplementsCall == Spec => ImplementsHostCall
<1>1. ASSUME PipeInv, OnceInv, [Next]_vars PROVE [Abstract!Next]_(Abstract!vars)
  <2>1. ASSUME NEW c \in Callers, Begin(c) PROVE Abstract!Next
    BY <1>1, <2>1, HostCallBegin DEF PipeInv, Abstract!Next
  <2>2. ASSUME NEW c \in Callers, Call(c) PROVE Abstract!Next
    BY <1>1, <2>2, HostCallAttempt DEF Abstract!Next
  <2>3. Stop => UNCHANGED Abstract!vars
    BY HostCallStutter DEF Stop, callVars
  <2>4. (\E p \in Processes : ProcessEnds(p)) => UNCHANGED Abstract!vars
    BY HostCallStutter DEF ProcessEnds, callVars
  <2>5. UNCHANGED vars => UNCHANGED Abstract!vars
    BY HostCallStutter DEF vars, callVars
  <2> QED BY <1>1, <2>1, <2>2, <2>3, <2>4, <2>5 DEF Next
<1> QED
  BY <1>1, HostCallInit, InitPipeInv, NextPipeInv, InitOnceInv, NextOnceInv, PTL
  DEF Spec, ImplementsHostCall, Abstract!Spec
=============================================================================
