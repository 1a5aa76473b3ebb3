----------------------------- MODULE MCMacBuild -----------------------------
(* Instances of MacBuild for TLC. *)
EXTENDS MacBuild, TLC

CONSTANTS a1, a2, b1, b2

AllAmd64Agents == [a \in Agents |-> "amd64"]
AllAmd64Builds == [b \in Builds |-> "amd64"]
\* a2 is an arm64 worker: it may only watch over the amd64 builds.
MixedAgents == a1 :> "amd64" @@ a2 :> "arm64"

\* Interchangeable workers.
AgentSymmetry == Permutations(Agents)

TtlZero == [b \in Builds |-> 0]
TtlNone == [b \in Builds |-> Nil]
=============================================================================
