--------------------------- MODULE MCAnalyticsSync ---------------------------
(* Instances of AnalyticsSync for TLC. *)
EXTENDS AnalyticsSync

CONSTANT r

\* A resource, and rows of a second kind: the resources are pulled first.
ResourceFirst == [k \in Rows |-> IF k = r THEN 1 ELSE 2]
=============================================================================
