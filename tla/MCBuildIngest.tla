-------------------------- MODULE MCBuildIngest --------------------------
(* Instances of BuildIngest for TLC. *)
EXTENDS BuildIngest, TLC

CONSTANTS e1, e2, e3, u1, u2, u3

\* Rows 1 and 2 of prow_jobs share the URL of e1, which names no prow job, and of
\* e2, which names row 2 and is delivered twice; e3 is another build of row 2.
Url == 1 :> u1 @@ 2 :> u1 @@ 3 :> u2 @@ e1 :> u1 @@ e2 :> u1 @@ e3 :> u3
Named == e1 :> Null @@ e2 :> 2 @@ e3 :> 2
Delivered == <<e1, e2, e3, e2>>
=============================================================================
