---------------------------- MODULE NewestStore ----------------------------
(***************************************************************************)
(* What the ingest contract promises about the canonical store: a batch of *)
(* observations is applied whole and at most once, and a key never goes    *)
(* back to an older observation, in whatever order the batches arrive.     *)
(* Keys whose records may not change (activity events) keep their data.    *)
(***************************************************************************)
EXTENDS Integers

CONSTANTS Keys,      \* keys of records
          Fixed,     \* the keys whose data never changes
          Batches,   \* batches that can be applied
          Values,    \* data of records
          NoRecord   \* value of a key that was never observed

VARIABLES best,      \* best[k]: the record that is kept for key k
          applied    \* the batches applied so far

storeVars == <<best, applied>>

Record == [at : Nat, data : Values]

Init == best = [k \in Keys |-> NoRecord] /\ applied = {}

(* A record that may take the place of the one a key has. *)
Supersedes(k, old, new) ==
  /\ new \in Record
  /\ old # NoRecord => IF k \in Fixed THEN new.data = old.data ELSE new.at >= old.at

(* A batch is applied: it never has been, and all of its records are settled at once. *)
ApplyBatch(b) ==
  /\ b \notin applied
  /\ applied' = applied \union {b}
  /\ \E ks \in SUBSET Keys :
        /\ \A k \in ks : Supersedes(k, best[k], best'[k])
        /\ best' = [k \in Keys |-> IF k \in ks THEN best'[k] ELSE best[k]]

(* A record written on its own, outside any batch. *)
WriteOne(k) ==
  /\ Supersedes(k, best[k], best'[k])
  /\ best' = [best EXCEPT ![k] = best'[k]]
  /\ UNCHANGED applied

Next == (\E b \in Batches : ApplyBatch(b)) \/ (\E k \in Keys : WriteOne(k))

Spec == Init /\ [][Next]_storeVars
============================================================================
