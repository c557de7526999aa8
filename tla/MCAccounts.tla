----------------------------- MODULE MCAccounts -----------------------------
(* Instances of Accounts for TLC. *)
EXTENDS Accounts, TLC

CONSTANTS ann, ben, cid, q1, q2

\* The member still has a refresh token of the old system.
OneLegacy == [t \in {0} |-> ann]

\* Requests are alike, and so are the accounts to come.
Alike == Permutations({q1, q2}) \union Permutations({ben, cid})
=============================================================================
