---------------------------- MODULE MCRecording -----------------------------
(* Instances of Recording for TLC.                                         *)
EXTENDS Recording, TLC

(* Requests and files are only compared for equality. *)
Symmetry == Permutations(Requests) \cup Permutations(Files)

(* A key that is recorded and one that is not. *)
UserKeys == {Key("PF", 3), Plain("Clear")}

(* The code reads the steps of a recording only while it is active, and    *)
(* nothing reads typed when no recording is.  The number of delay samples  *)
(* matters as zero or not.                                                 *)
RecordingView ==
    IF recording = NoRecording THEN NoRecording
    ELSE IF recording.active THEN [recording EXCEPT !.samples = IF @ > 0 THEN 1 ELSE 0]
    ELSE recording.file

(* States are told apart by what can still matter: a file's content is a   *)
(* workflow that FilesBracketed saw while it was still to be written.      *)
View ==
    <<sessionLive, RecordingView, file, requestVars, submit, fills, key, submits,
      IF IsRecording THEN <<typed, early, lost>> ELSE << >> >>
=============================================================================
