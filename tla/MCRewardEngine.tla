--------------------------- MODULE MCRewardEngine ---------------------------
(* Instances of RewardEngine for TLC. *)
EXTENDS RewardEngine

\* Every row of the job has a recipient of its own, or two rows have the same one (the validator only
\* warns of a username that occurs twice).
OwnRecipient == [i \in Items |-> i]
SameRecipient == [i \in Items |-> 1]
=============================================================================
