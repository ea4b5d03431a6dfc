----------------------------- MODULE MCPlayback -----------------------------
(* Instances of Playback for TLC.                                          *)
EXTENDS Playback, TLC

(* A fill that a key submits, and a connection alone. *)
MCWorkflows == {<<"fill", "key">>, <<"connect">>}
OneWorkflow == {<<"fill", "key">>}

(* Requests and players are interchangeable. *)
Symmetry == Permutations(Requests) \cup Permutations(Players)
=============================================================================
