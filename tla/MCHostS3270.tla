---------------------------- MODULE MCHostS3270 -----------------------------
(* The instance of HostS3270 for TLC: MCHostS3270.cfg gives every constant *)
(* a set of model values.  No symmetry, for CallsReturn is temporal.       *)
EXTENDS HostS3270
=============================================================================
