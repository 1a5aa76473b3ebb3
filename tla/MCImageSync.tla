---------------------------- MODULE MCImageSync ----------------------------
(* Model values of ImageSync for TLC. *)
EXTENDS ImageSync

CONSTANTS r1, r2
=============================================================================
