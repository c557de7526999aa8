---------------------------- MODULE MCSnapshots ----------------------------
EXTENDS Snapshots

CONSTANTS a, b, r1, m1, e1, d1, d2

OneTool == [s \in Snaps |-> a]
Wanted == [s \in Snaps |-> CASE s = 1 -> {r1, m1} [] s = 2 -> {} [] OTHER -> {e1}]
Scopes == [s \in Snaps |-> CASE s = 1 -> {} [] s = 2 -> {"resources", "metrics"} [] OTHER -> {"events"}]
TwoData == [s \in Snaps |-> IF s = 3 THEN d2 ELSE d1]
Kinds == [k \in Children |-> IF k = m1 THEN "metrics" ELSE "events"]
Parents == [k \in Children |-> r1]
============================================================================
