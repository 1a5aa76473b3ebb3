---------------------------- MODULE MCPublisher ----------------------------
(* Model values and instances of Publisher for TLC. *)
EXTENDS Publisher

CONSTANTS g1, g2, g3, r1, r2

AllTiup      == [g \in {g1, g2} |-> "tiup"]
ThreeMirrors == [g \in {g1, g2, g3} |-> "tiup"]
TiupAndImage == [g \in {g1, g2} |-> IF g = g1 THEN "tiup" ELSE "image"]

ToG1   == [r \in {r1} |-> g1]
ToEach == [r \in {r1, r2} |-> IF r = r1 THEN g1 ELSE g2]
=============================================================================
