------------------------------ MODULE HostCall ------------------------------
(***************************************************************************)
(* What a caller of the host may rely on when it sends a key, whatever     *)
(* happens to the s3270 process meanwhile: the key is pressed twice at the *)
(* most, never outside the call, and a call that reports success pressed   *)
(* it or found the host disconnected and connected it again.               *)
(***************************************************************************)
EXTENDS Naturals

CONSTANT Callers

VARIABLES
    busy,     \* the callers whose call is running
    presses,  \* how often the running call has pressed its key
    result    \* of the last call: "none" while one is running

vars == <<busy, presses, result>>

Init ==
    /\ busy = {}
    /\ presses = [c \in Callers |-> 0]
    /\ result = [c \in Callers |-> "none"]

Begin(c) ==
    /\ c \notin busy
    /\ busy' = busy \cup {c}
    /\ presses' = [presses EXCEPT ![c] = 0]
    /\ result' = [result EXCEPT ![c] = "none"]

(* One attempt: it presses the key or not, and ends the call or not. *)
Attempt(c) ==
    /\ c \in busy
    /\ \/ presses' = presses
       \/ /\ presses[c] < 2
          /\ presses' = [presses EXCEPT ![c] = @ + 1]
    /\ \/ UNCHANGED <<busy, result>>
       \/ /\ busy' = busy \ {c}
          /\ \/ result' = [result EXCEPT ![c] = "error"]
             \/ result' = [result EXCEPT ![c] = "reconnected"]
             \/ /\ presses'[c] > 0
                /\ result' = [result EXCEPT ![c] = "ok"]

Next == \E c \in Callers : Begin(c) \/ Attempt(c)

Spec == Init /\ [][Next]_vars
=============================================================================
