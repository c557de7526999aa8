------------------------- MODULE MCIntegrationJobs --------------------------
(* Instances of IntegrationJobs: small sets, and functions a cfg cannot write. *)
EXTENDS IntegrationJobs

CONSTANTS r1, a, b, t1, t2, k

\* Every job is of one resource.
OneResource == [j \in Jobs |-> r1]
\* The first two jobs have one dedupe_key, the others have none.
SharedKey == [j \in Jobs |-> IF j <= 2 THEN k ELSE NoKey]
NoKeys == [j \in Jobs |-> NoKey]
\* The first job has a dedupe_key, the others have none.
FirstHasKey == [j \in Jobs |-> IF j = 1 THEN k ELSE NoKey]
\* Two clients, or two installations of one client.
OwnClient == [t \in Tools |-> IF t = t1 THEN a ELSE b]
SameClient == [t \in Tools |-> a]
AnyJob == [t \in Tools |-> Jobs]
=============================================================================
