---------------------------- MODULE LeasedQueue -----------------------------
(***************************************************************************)
(* What a queue of leased jobs promises. A job waits, is held by one       *)
(* holder at a time and ends once. The holds of a job are numbered: a      *)
(* result that is kept is the one of the last hold, and only while it      *)
(* lasts. A job is held at most MaxAttempts times.                         *)
(***************************************************************************)
EXTENDS Naturals

CONSTANTS Jobs, MaxAttempts

VARIABLES
    place,   \* per job: "absent", "waiting", "held" or "ended"
    holds,   \* per job: how often it was taken
    kept     \* per job: the hold whose result is kept, 0 if none

vars == <<place, holds, kept>>

Init ==
    /\ place = [j \in Jobs |-> "absent"]
    /\ holds = [j \in Jobs |-> 0]
    /\ kept = [j \in Jobs |-> 0]

Stays(j) == UNCHANGED <<place[j], holds[j], kept[j]>>

Added(j) ==
    /\ place[j] = "absent" /\ place'[j] = "waiting"
    /\ UNCHANGED <<holds[j], kept[j]>>

\* Taken from the queue, or from a holder whose time is over.
Taken(j) ==
    /\ place[j] \in {"waiting", "held"} /\ place'[j] = "held"
    /\ holds[j] < MaxAttempts
    /\ holds'[j] = holds[j] + 1
    /\ UNCHANGED kept[j]

GivenBack(j) ==
    /\ place[j] = "held" /\ place'[j] = "waiting"
    /\ UNCHANGED <<holds[j], kept[j]>>

Dropped(j) ==
    /\ place[j] \in {"waiting", "held"} /\ place'[j] = "ended"
    /\ UNCHANGED <<holds[j], kept[j]>>

\* The holder delivers its result.
Delivered(j) ==
    /\ place[j] = "held" /\ place'[j] = "ended"
    /\ kept'[j] = holds[j]
    /\ UNCHANGED holds[j]

\* One transaction may move several jobs.
Next ==
    /\ place' \in [Jobs -> {"absent", "waiting", "held", "ended"}]
    /\ holds' \in [Jobs -> Nat]
    /\ kept' \in [Jobs -> Nat]
    /\ \A j \in Jobs : Stays(j) \/ Added(j) \/ Taken(j) \/ GivenBack(j) \/ Dropped(j) \/ Delivered(j)

Spec == Init /\ [][Next]_vars
=============================================================================
