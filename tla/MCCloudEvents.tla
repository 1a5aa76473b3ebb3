--------------------------- MODULE MCCloudEvents ---------------------------
(* Instances of CloudEvents for TLC. *)
EXTENDS CloudEvents

CONSTANTS e1, e2, e3, t1, t2, h1, h2

\* e1 goes to two handlers and shares its topic with e3, for whose type there is
\* none; e2 goes to one that swallows its failures.
Routes == [e \in Events |-> CASE e \in {e1, e3} -> t1 [] e = e2 -> t2 [] OTHER -> Null]
Registered == [e \in Events |-> CASE e = e1 -> {h1, h2} [] e = e3 -> {} [] OTHER -> {h2}]
=============================================================================
