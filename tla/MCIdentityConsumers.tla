------------------------ MODULE MCIdentityConsumers ------------------------
(* Integration and Reward read the same log and share nothing else: a behaviour is one of either, and the two *)
(* together would only multiply.                                                                              *)
EXTENDS Provisioning, IdentityLink

VARIABLE reader   \* whose behaviour this is

all == <<reader, log, provisioning, link>>

Init ==
  /\ reader \in {"integration", "reward"}
  /\ log = IF reader = "integration" THEN <<>> ELSE <<"registered">>
  /\ ProvisioningInit /\ LinkInit

Next ==
  \/ reader = "integration" /\ ProvisioningStep /\ UNCHANGED <<reader, link>>
  \/ reader = "reward" /\ LinkStep /\ UNCHANGED <<reader, provisioning>>

Spec ==
  /\ Init /\ [][Next]_all
  /\ WF_all(reader = "integration" /\ PollerReads /\ UNCHANGED <<reader, log, link>>)
  /\ SF_all(reader = "integration" /\ (PollerCommits \/ GivesUp) /\ UNCHANGED <<reader, log, link>>)
  /\ WF_all(reader = "reward" /\ RunnerPauses /\ UNCHANGED <<reader, log, provisioning>>)

(* An event that Integration cannot apply does not keep the others waiting: the poller always reaches the end of the *)
(* log.  In Reward no job goes on while its account is denied, even where nobody asks its runner to pause, as for a  *)
(* replayed letter.                                                                                                  *)
NothingIsHeldUp == []<>(IF reader = "integration" THEN CaughtUp ELSE ~DeniedRuns)
=============================================================================
