----------------------------- MODULE MCDevBuild -----------------------------
(* Instances of DevBuild for TLC. *)
EXTENDS DevBuild

CONSTANTS b1, r1, r2

\* As for "linux": amd64 and arm64.
TwoPlatforms == [b \in Builds |-> 2]
=============================================================================
