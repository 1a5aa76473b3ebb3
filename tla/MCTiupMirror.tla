---------------------------- MODULE MCTiupMirror ----------------------------
(* Model values of TiupMirror for TLC. *)
EXTENDS TiupMirror

CONSTANTS w1, w2, p1, p2

=============================================================================
