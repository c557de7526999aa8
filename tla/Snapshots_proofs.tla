-------------------------- MODULE Snapshots_proofs --------------------------
(* Theorems about Snapshots, for any sets of snapshots, Tools, keys, requests and observation times. *)
EXTENDS Snapshots, TLAPS

-----------------------------------------------------------------------------
(* Types *)

Statuses == {"none", "building", "committing", "committed", "failed", "abandoned"}
SnapRow == [status : Statuses, at : Nat, staged : SUBSET Keys, bad : SUBSET Keys, current : BOOLEAN]
Row == [at : Times, data : Data, removed : BOOLEAN, client : Clients]
CommitRequest == [pc : {"idle", "claimed", "reopen", "fail"}, snap : Snaps \union {0}, partial : BOOLEAN]
Observation == [key : Keys, at : Times, data : Data]

TypeOK ==
  /\ snap \in [Snaps -> SnapRow]
  /\ store \in [Keys -> Row \union {Absent}]
  /\ req \in [Requests -> CommitRequest]
  /\ seen \subseteq Observation
  /\ byHand \subseteq Keys
  /\ direct \in Nat

(* A snapshot that was opened has a time of observation, and a request under way has a snapshot. *)
Opened ==
  /\ \A s \in Snaps : Status(s) # "none" => snap[s].at \in Times
  /\ \A q \in Requests : req[q].pc # "idle" => req[q].snap \in Snaps

LEMMA ConstantTypes ==
  /\ Times \subseteq Nat
  /\ Absent \notin Row
  /\ \A s \in Snaps : DataOf[s] \in Data /\ ClientOf[s] \in Clients
  /\ \A s \in Snaps : Want[s] \subseteq Keys
  /\ \A k \in Children : ParentOf[k] \in Keys
  /\ Resources \subseteq Keys /\ Children \subseteq Keys
BY SnapshotsAssumption DEF SnapshotsAssumption, Row, Data, Keys

\* What the merge of a record leaves: a row that is there, of the newer of the two observations, or of the data
\* that may not change; and a row that was removed stays removed only if it is left as it is.
LEMMA SettledIs ==
  ASSUME NEW k \in Keys, NEW old \in Row \union {Absent}, NEW t \in Times, NEW d \in Data, NEW c \in Clients
  PROVE  LET new == Settled(k, old, t, d, c) IN
         /\ new \in Row
         /\ k \notin Immutable /\ (old = Absent \/ t >= old.at) => new.at = t /\ new.data = d
         /\ k \notin Immutable /\ old # Absent /\ t < old.at => new = old
         /\ old = Absent => new.at = t /\ new.data = d
         /\ k \in Immutable /\ old # Absent => new.data = old.data
         /\ new.removed => new = old
<1> DEFINE new == Settled(k, old, t, d, c)
<1>0. Absent \notin Row /\ t \in Nat BY ConstantTypes
<1>1. CASE old = Absent
  <2>1. new = [at |-> t, data |-> d, removed |-> FALSE, client |-> c]
    BY <1>1 DEF Settled, Decide
  <2> QED BY <1>0, <1>1, <2>1 DEF Row
<1>2. CASE old # Absent /\ k \in Immutable
  <2>1. old \in Row BY <1>2
  <2>2. CASE old.data = d /\ old.removed
    <3>1. Decide(k, old, t, d) = "updated" BY <1>2, <2>2 DEF Decide
    <3>2. new = [at |-> t, data |-> d, removed |-> FALSE, client |-> c]
      BY <3>1 DEF Settled
    <3> QED BY <1>2, <2>2, <3>2 DEF Row
  <2>3. CASE ~(old.data = d /\ old.removed)
    <3>1. Decide(k, old, t, d) \in {"stale", "unchanged"} BY <1>2, <2>3 DEF Decide
    <3>2. new = old BY <1>2, <3>1 DEF Settled
    <3> QED BY <1>2, <2>1, <3>2
  <2> QED BY <2>2, <2>3
<1>3. CASE old # Absent /\ k \notin Immutable
  <2>1. old \in Row /\ old.at \in Nat BY <1>3, ConstantTypes DEF Row
  <2>2. CASE t < old.at
    <3>1. Decide(k, old, t, d) = "stale" BY <1>3, <2>2 DEF Decide
    <3>2. new = old BY <1>3, <3>1 DEF Settled
    <3> QED BY <1>0, <1>3, <2>1, <2>2, <3>2
  <2>3. CASE ~(t < old.at) /\ (old.removed \/ old.data # d)
    <3>1. Decide(k, old, t, d) = "updated" BY <1>3, <2>3 DEF Decide
    <3>2. new = [at |-> t, data |-> d, removed |-> FALSE, client |-> c]
      BY <3>1 DEF Settled
    <3> QED BY <1>0, <1>3, <2>1, <2>3, <3>2 DEF Row
  <2>4. CASE ~(t < old.at) /\ ~old.removed /\ old.data = d
    <3>1. Decide(k, old, t, d) = "unchanged" BY <1>3, <2>4 DEF Decide
    <3>2. new = [old EXCEPT !.at = t] BY <1>3, <3>1 DEF Settled
    <3>3. /\ new \in Row /\ new.at = t /\ new.data = old.data /\ new.removed = old.removed
      BY <2>1, <3>2 DEF Row
    <3> QED BY <1>0, <1>3, <2>1, <2>4, <3>3
  <2> QED BY <2>2, <2>3, <2>4
<1> QED BY <1>1, <1>2, <1>3

LEMMA MergedIs ==
  ASSUME TypeOK, Opened, NEW s \in Snaps, Status(s) # "none"
  PROVE  /\ \A k \in Keys : MergedStore(s)[k] \in Row \union {Absent}
         /\ \A k \in Keys \ snap[s].staged : MergedStore(s)[k] = store[k]
         /\ \A k \in snap[s].staged :
              /\ k \in Keys
              /\ MergedStore(s)[k] = Settled(k, store[k], snap[s].at, DataOf[s], ClientOf[s])
              /\ MergedStore(s)[k] \in Row
<1>1. snap[s].at \in Times /\ snap[s].staged \subseteq Keys BY DEF TypeOK, Opened, SnapRow
<1>2. \A k \in Keys : store[k] \in Row \union {Absent} BY DEF TypeOK
<1>3. ASSUME NEW k \in snap[s].staged
      PROVE  Settled(k, store[k], snap[s].at, DataOf[s], ClientOf[s]) \in Row
  BY <1>1, <1>2, ConstantTypes, SettledIs
<1> QED BY <1>1, <1>2, <1>3 DEF MergedStore

\* What the transaction of a commit writes, row by row.
LEMMA MergeIs ==
  ASSUME TypeOK, Opened, NEW q \in Requests, Merge(q)
  PROVE  LET s == req[q].snap IN
         /\ s \in Snaps /\ Status(s) = "committing" /\ snap[s].at \in Times /\ snap[s].staged \subseteq Keys
         /\ store' \in [Keys -> Row \union {Absent}]
         /\ \A k \in Keys \ Missing(s) : store'[k] = MergedStore(s)[k]
         /\ \A k \in Missing(s) :
              /\ k \in Keys \ snap[s].staged
              /\ store[k] \in Row /\ store'[k] \in Row
              /\ store'[k].removed /\ store'[k].at = store[k].at /\ store'[k].data = store[k].data
              /\ store'[k].client = store[k].client
         /\ snap' \in [Snaps -> SnapRow]
         /\ \A n \in Snaps : snap'[n].at = snap[n].at /\ snap'[n].staged = snap[n].staged
         /\ \A n \in Snaps : snap'[n].status = IF n = s THEN "committed" ELSE Status(n)
         /\ \A n \in Snaps : snap'[n].current = IF n = s THEN MovesCurrent(s)
                                               ELSE snap[n].current /\ ~(SameSlot(n, s) /\ MovesCurrent(s))
<1> DEFINE s == req[q].snap
<1>1. s \in Snaps /\ Status(s) = "committing" BY DEF Merge, Opened
<1>2. snap[s].at \in Times /\ snap[s].staged \subseteq Keys BY <1>1 DEF Opened, TypeOK, SnapRow
<1>3. /\ \A k \in Keys : MergedStore(s)[k] \in Row \union {Absent}
      /\ \A k \in Keys \ snap[s].staged : MergedStore(s)[k] = store[k]
  BY <1>1, MergedIs
<1>4. store' = [k \in Keys |-> IF k \in Missing(s) THEN [MergedStore(s)[k] EXCEPT !.removed = TRUE]
                               ELSE MergedStore(s)[k]]
  BY DEF Merge
<1>5. \A k \in Keys \ Missing(s) : store'[k] = MergedStore(s)[k] BY <1>4
<1>6. ASSUME NEW k \in Missing(s)
      PROVE  /\ k \in Keys \ snap[s].staged
             /\ store[k] \in Row /\ store'[k] \in Row
             /\ store'[k].removed /\ store'[k].at = store[k].at /\ store'[k].data = store[k].data
             /\ store'[k].client = store[k].client
  <2>1. k \in Keys \ snap[s].staged /\ MergedStore(s)[k] # Absent BY DEF Missing
  <2>2. MergedStore(s)[k] = store[k] /\ store[k] \in Row BY <1>3, <2>1
  <2>3. store'[k] = [store[k] EXCEPT !.removed = TRUE] BY <1>4, <2>1, <2>2
  <2> QED BY <2>1, <2>2, <2>3 DEF Row
<1>7. store' \in [Keys -> Row \union {Absent}]
  <2>1. \A k \in Keys : store'[k] \in Row \union {Absent} BY <1>3, <1>5, <1>6
  <2> QED BY <1>4, <2>1
<1>8. snap' = [n \in Snaps |->
                 IF n = s THEN [snap[s] EXCEPT !.status = "committed", !.current = MovesCurrent(s)]
                 ELSE IF SameSlot(n, s) /\ MovesCurrent(s) THEN [snap[n] EXCEPT !.current = FALSE]
                 ELSE snap[n]]
  BY DEF Merge
<1>9. MovesCurrent(s) \in BOOLEAN BY DEF MovesCurrent
<1> DEFINE moves == MovesCurrent(s)
<1> HIDE DEF moves
<1>10. ASSUME NEW n \in Snaps
       PROVE  /\ snap'[n] \in SnapRow
              /\ snap'[n].at = snap[n].at /\ snap'[n].staged = snap[n].staged
              /\ snap'[n].status = IF n = s THEN "committed" ELSE Status(n)
              /\ snap'[n].current = IF n = s THEN moves
                                    ELSE snap[n].current /\ ~(SameSlot(n, s) /\ moves)
  <2>1. snap[n] \in SnapRow BY DEF TypeOK
  <2>2. CASE n = s
    <3>1. snap'[n] = [snap[n] EXCEPT !.status = "committed", !.current = moves] BY <1>8, <2>2 DEF moves
    <3> QED BY <1>9, <2>1, <2>2, <3>1 DEF SnapRow, Statuses, moves
  <2>3. CASE n # s /\ SameSlot(n, s) /\ moves
    <3>1. snap'[n] = [snap[n] EXCEPT !.current = FALSE] BY <1>8, <2>3 DEF moves
    <3> QED BY <2>1, <2>3, <3>1 DEF SnapRow, Statuses, Status
  <2>4. CASE n # s /\ ~(SameSlot(n, s) /\ moves)
    <3>1. snap'[n] = snap[n] BY <1>8, <2>4 DEF moves
    <3> QED BY <2>1, <2>4, <3>1 DEF SnapRow, Status
  <2> QED BY <2>2, <2>3, <2>4
<1>11. snap' \in [Snaps -> SnapRow] BY <1>8, <1>10
<1> QED BY <1>1, <1>2, <1>5, <1>6, <1>7, <1>10, <1>11 DEF moves

\* Every other step on a snapshot leaves the committed ones alone, and the pointers where they are.
LEMMA SnapStepIs ==
  ASSUME TypeOK, Opened, NEW s \in Snaps,
         \/ \E at \in Times : Create(s, at)
         \/ \E kind \in {"resources", "metrics", "events"}, malformed \in SUBSET Spoiled : Stage(s, kind, malformed)
         \/ Expire(s) \/ FailStuck(s)
  PROVE  /\ Status(s) \notin {"committed"} /\ UNCHANGED <<store, req, seen, byHand, direct>>
         /\ snap' \in [Snaps -> SnapRow]
         /\ \A n \in Snaps \ {s} : snap'[n] = snap[n]
         /\ snap'[s].status \notin {"none", "committed"} /\ snap'[s].at \in Times
         /\ snap'[s].current = snap[s].current
<1>0. snap[s] \in SnapRow BY DEF TypeOK
<1>1. CASE \E at \in Times : Create(s, at)
  <2> PICK at \in Times : Create(s, at) BY <1>1
  <2>1. [snap[s] EXCEPT !.status = "building", !.at = at] \in SnapRow
    BY <1>0, ConstantTypes DEF SnapRow, Statuses
  <2> QED BY <2>1, <1>0 DEF Create, TypeOK, SnapRow
<1>2. CASE \E kind \in {"resources", "metrics", "events"}, malformed \in SUBSET Spoiled : Stage(s, kind, malformed)
  <2> PICK kind \in {"resources", "metrics", "events"}, malformed \in SUBSET Spoiled : Stage(s, kind, malformed)
    BY <1>2
  <2> DEFINE batch == {k \in Want[s] : Kind(k) = kind}
             good == {k \in batch \ malformed : Known(s, k)}
  <2>1. batch \subseteq Keys /\ good \subseteq Keys BY ConstantTypes
  <2> DEFINE new == [snap[s] EXCEPT !.staged = snap[s].staged \union good,
                                    !.bad = (snap[s].bad \ good) \union (batch \ good)]
  <2>2. /\ Status(s) = "building"
        /\ snap' = [snap EXCEPT ![s] = new]
        /\ UNCHANGED <<store, req, seen, byHand, direct>>
    BY DEF Stage, TypeOK
  <2> HIDE DEF batch, good
  <2>3. new \in SnapRow BY <1>0, <2>1 DEF SnapRow
  <2>4. new.status = Status(s) /\ new.at = snap[s].at /\ new.current = snap[s].current
    BY <1>0 DEF SnapRow, Status
  <2> HIDE DEF new
  <2>5. snap'[s] = new BY <2>2 DEF TypeOK
  <2>6. snap' \in [Snaps -> SnapRow] /\ \A n \in Snaps \ {s} : snap'[n] = snap[n] BY <2>2, <2>3 DEF TypeOK
  <2>7. Status(s) = "building" /\ snap[s].at \in Times BY <2>2 DEF Opened
  <2> QED BY <2>2, <2>4, <2>5, <2>6, <2>7
<1>3. CASE Expire(s)
  BY <1>0, <1>3 DEF Expire, TypeOK, SnapRow, Statuses, Status, Opened
<1>4. CASE FailStuck(s)
  BY <1>0, <1>4 DEF FailStuck, TypeOK, SnapRow, Statuses, Status, Opened
<1> QED BY <1>1, <1>2, <1>3, <1>4

(* A request comes, goes on or is given up: neither the store nor a committed snapshot changes. *)
LEMMA RequestStepIs ==
  ASSUME TypeOK, Opened, NEW q \in Requests,
         \/ \E s \in Snaps, partial \in BOOLEAN : Claim(q, s, partial)
         \/ MergeFails(q) \/ Finish(q) \/ Crash(q)
  PROVE  /\ UNCHANGED <<store, seen, byHand, direct>>
         /\ snap' \in [Snaps -> SnapRow] /\ req' \in [Requests -> CommitRequest]
         /\ Opened'
         /\ \A n \in Snaps : /\ snap'[n].at = snap[n].at /\ snap'[n].staged = snap[n].staged
                             /\ snap'[n].current = snap[n].current
                             /\ snap'[n].status = "committed" <=> Status(n) = "committed"
<1>0. /\ \A n \in Snaps : snap[n] \in SnapRow
      /\ \A r \in Requests : req[r] \in CommitRequest
  BY DEF TypeOK
<1>1. CASE \E s \in Snaps, partial \in BOOLEAN : Claim(q, s, partial)
  <2> PICK s \in Snaps, partial \in BOOLEAN : Claim(q, s, partial) BY <1>1
  <2>1. /\ Status(s) = "building"
        /\ snap' = [snap EXCEPT ![s] = [@ EXCEPT !.status = "committing"]]
        /\ req' = [req EXCEPT ![q] = [pc |-> "claimed", snap |-> s, partial |-> partial]]
        /\ UNCHANGED <<store, seen, byHand, direct>>
    BY DEF Claim
  <2>2. snap'[s] = [snap[s] EXCEPT !.status = "committing"] BY <2>1 DEF TypeOK
  <2>3. /\ snap'[s] \in SnapRow /\ snap'[s].status = "committing"
        /\ snap'[s].at = snap[s].at /\ snap'[s].staged = snap[s].staged /\ snap'[s].current = snap[s].current
    BY <1>0, <2>2 DEF SnapRow, Statuses
  <2>4. \A n \in Snaps \ {s} : snap'[n] = snap[n] BY <2>1 DEF TypeOK
  <2>5. snap' \in [Snaps -> SnapRow] BY <2>1, <2>3 DEF TypeOK
  <2>6. [pc |-> "claimed", snap |-> s, partial |-> partial] \in CommitRequest BY DEF CommitRequest
  <2>7. req' \in [Requests -> CommitRequest] BY <1>0, <2>1, <2>6 DEF TypeOK
  <2>8. Opened' BY <2>1, <2>3, <2>4 DEF Opened, Status, TypeOK
  <2> QED BY <2>1, <2>3, <2>4, <2>5, <2>7, <2>8 DEF Status
<1>2. CASE MergeFails(q)
  <2>1. PICK pc \in {"reopen", "fail"} : req' = [req EXCEPT ![q] = [@ EXCEPT !.pc = pc]]
    BY <1>2 DEF MergeFails
  <2>2. [req[q] EXCEPT !.pc = pc] \in CommitRequest BY <1>0 DEF CommitRequest
  <2>3. req' \in [Requests -> CommitRequest] BY <1>0, <2>1, <2>2 DEF TypeOK
  <2>4. UNCHANGED <<snap, store, seen, byHand, direct>> /\ req[q].pc = "claimed" BY <1>2 DEF MergeFails
  <2>5. \A r \in Requests : req'[r].snap = req[r].snap /\ (req[r].pc = "idle" => req'[r].pc = "idle")
    BY <1>0, <2>1, <2>4 DEF TypeOK, CommitRequest
  <2>6. Opened' BY <2>4, <2>5 DEF Opened, Status
  <2> QED BY <2>3, <2>4, <2>6 DEF TypeOK, Status
<1>3. ASSUME Done(q)
      PROVE  /\ req' \in [Requests -> CommitRequest]
             /\ \A r \in Requests : req'[r].pc # "idle" => req'[r].snap = req[r].snap /\ req[r].pc # "idle"
  <2>1. [req[q] EXCEPT !.pc = "idle"] \in CommitRequest BY <1>0 DEF CommitRequest
  <2> QED BY <1>0, <1>3, <2>1 DEF Done, TypeOK, CommitRequest
<1>4. CASE Finish(q)
  <2> DEFINE s == req[q].snap
  <2>1. s \in Snaps /\ Done(q) /\ UNCHANGED <<store, seen, byHand, direct>> BY <1>4 DEF Finish, Opened
  <2>2. CASE Status(s) = "committing"
    <3>1. PICK st \in {"failed", "building"} : snap' = [snap EXCEPT ![s] = [@ EXCEPT !.status = st]]
      BY <1>4, <2>2 DEF Finish
    <3>2. snap'[s] = [snap[s] EXCEPT !.status = st] BY <2>1, <3>1 DEF TypeOK
    <3>3. /\ snap'[s] \in SnapRow /\ snap'[s].status = st
          /\ snap'[s].at = snap[s].at /\ snap'[s].staged = snap[s].staged /\ snap'[s].current = snap[s].current
      BY <1>0, <2>1, <3>2 DEF SnapRow, Statuses
    <3>4. \A n \in Snaps \ {s} : snap'[n] = snap[n] BY <3>1 DEF TypeOK
    <3>5. snap' \in [Snaps -> SnapRow] BY <2>1, <3>1, <3>2, <3>3 DEF TypeOK
    <3>6. Opened' BY <1>3, <2>1, <2>2, <3>3, <3>4 DEF Opened, Status
    <3> QED BY <1>3, <2>1, <2>2, <3>3, <3>4, <3>5, <3>6 DEF Status
  <2>3. CASE Status(s) # "committing"
    <3>1. snap' = snap BY <1>4, <2>3 DEF Finish
    <3>2. Opened' BY <1>3, <2>1, <3>1 DEF Opened, Status
    <3> QED BY <1>3, <2>1, <3>1, <3>2 DEF Status, TypeOK
  <2> QED BY <2>2, <2>3
<1>5. CASE Crash(q)
  <2>1. Done(q) /\ UNCHANGED <<snap, store, seen, byHand, direct>> BY <1>5 DEF Crash
  <2>2. Opened' BY <1>3, <2>1 DEF Opened, Status
  <2> QED BY <1>3, <2>1, <2>2 DEF Status, TypeOK
<1> QED BY <1>1, <1>2, <1>4, <1>5

LEMMA PurgeIs ==
  ASSUME TypeOK, Purge
  PROVE  /\ UNCHANGED <<store, req, seen, byHand, direct>>
         /\ snap' \in [Snaps -> SnapRow]
         /\ \A n \in Snaps : /\ snap'[n].at = snap[n].at /\ snap'[n].current = snap[n].current
                             /\ snap'[n].status = Status(n)
                             /\ Status(n) = "committed" => snap'[n].staged = snap[n].staged
<1>1. ASSUME NEW n \in Snaps
      PROVE  /\ snap'[n] \in SnapRow
             /\ snap'[n].at = snap[n].at /\ snap'[n].current = snap[n].current
             /\ snap'[n].status = Status(n)
             /\ Status(n) = "committed" => snap'[n].staged = snap[n].staged
  <2>0. snap[n] \in SnapRow BY DEF TypeOK
  <2>1. CASE Status(n) \in {"abandoned", "failed"}
    <3>1. snap'[n] = [snap[n] EXCEPT !.staged = {}] BY <2>1 DEF Purge
    <3> QED BY <2>0, <2>1, <3>1 DEF SnapRow, Status
  <2>2. CASE Status(n) \notin {"abandoned", "failed"}
    <3>1. snap'[n] = snap[n] BY <2>2 DEF Purge
    <3> QED BY <2>0, <2>2, <3>1 DEF SnapRow, Status
  <2> QED BY <2>1, <2>2
<1> QED BY <1>1 DEF Purge

LEMMA TypeInit == Init => TypeOK /\ Opened
BY DEF Init, TypeOK, Opened, Status, SnapRow, Statuses, CommitRequest

LEMMA TypeStep == TypeOK /\ Opened /\ [Next]_vars => (TypeOK /\ Opened)'
<1> SUFFICES ASSUME TypeOK, Opened, [Next]_vars PROVE TypeOK' /\ Opened' OBVIOUS
<1>1. ASSUME NEW s \in Snaps,
             \/ \E at \in Times : Create(s, at)
             \/ \E kind \in {"resources", "metrics", "events"}, malformed \in SUBSET Spoiled :
                   Stage(s, kind, malformed)
             \/ Expire(s) \/ FailStuck(s)
      PROVE  TypeOK' /\ Opened'
  BY <1>1, SnapStepIs DEF TypeOK, Opened, Status
<1>2. CASE Purge
  BY <1>2, PurgeIs DEF TypeOK, Opened, Status
<1>3. ASSUME NEW q \in Requests,
             \/ \E s \in Snaps, partial \in BOOLEAN : Claim(q, s, partial)
             \/ MergeFails(q) \/ Finish(q) \/ Crash(q)
      PROVE  TypeOK' /\ Opened'
  BY <1>3, RequestStepIs DEF TypeOK
<1>4. ASSUME NEW q \in Requests, Merge(q) PROVE TypeOK' /\ Opened'
  <2> DEFINE s == req[q].snap
  <2>1. /\ s \in Snaps /\ Status(s) = "committing" /\ snap[s].at \in Times /\ snap[s].staged \subseteq Keys
        /\ store' \in [Keys -> Row \union {Absent}]
        /\ snap' \in [Snaps -> SnapRow]
        /\ \A n \in Snaps : snap'[n].at = snap[n].at
        /\ \A n \in Snaps : snap'[n].status = IF n = s THEN "committed" ELSE Status(n)
    BY <1>4, MergeIs
  <2>2. seen' \subseteq Observation BY <1>4, <2>1, ConstantTypes DEF Merge, TypeOK, Observation
  <2>3. byHand' \subseteq Keys /\ direct' \in Nat BY <1>4 DEF Merge, TypeOK
  <2>4. PICK pc \in {"idle", "reopen"} : req' = [req EXCEPT ![q] = [@ EXCEPT !.pc = pc]]
    BY <1>4 DEF Merge, Done
  <2>5. [req[q] EXCEPT !.pc = pc] \in CommitRequest BY DEF TypeOK, CommitRequest
  <2>6. req' \in [Requests -> CommitRequest] BY <2>4, <2>5 DEF TypeOK
  <2>7. \A r \in Requests : req'[r].pc # "idle" => req'[r].snap \in Snaps
    BY <2>1, <2>4 DEF TypeOK, Opened, CommitRequest
  <2>8. \A n \in Snaps : snap'[n].status # "none" => snap'[n].at \in Times BY <2>1 DEF Opened
  <2> QED BY <2>1, <2>2, <2>3, <2>6, <2>7, <2>8 DEF TypeOK, Opened, Status
<1>5. ASSUME NEW c \in Clients, NEW k \in Resources, NEW t \in Times, NEW d \in Data, WriteResource(c, k, t, d)
      PROVE  TypeOK' /\ Opened'
  <2>1. k \in Keys /\ store[k] \in Row \union {Absent} BY ConstantTypes DEF TypeOK
  <2>2. Settled(k, store[k], t, d, c) \in Row BY <2>1, SettledIs
  <2>3. store' \in [Keys -> Row \union {Absent}] BY <1>5, <2>2 DEF WriteResource, TypeOK
  <2>4. seen' \subseteq Observation BY <1>5, <2>1 DEF WriteResource, TypeOK, Observation
  <2>5. byHand' \subseteq Keys /\ direct' \in Nat BY <1>5 DEF WriteResource, TypeOK
  <2> QED BY <1>5, <2>3, <2>4, <2>5 DEF WriteResource, TypeOK, Opened, Status
<1>6. ASSUME NEW k \in Resources, RemoveResource(k) PROVE TypeOK' /\ Opened'
  <2>1. k \in Keys /\ store[k] \in Row BY <1>6, ConstantTypes DEF TypeOK, RemoveResource, Live
  <2>2. [store[k] EXCEPT !.removed = TRUE] \in Row BY <2>1 DEF Row
  <2>3. store' \in [Keys -> Row \union {Absent}] BY <1>6, <2>2 DEF RemoveResource, TypeOK
  <2> QED BY <1>6, <2>1, <2>3 DEF RemoveResource, TypeOK, Opened, Status
<1>7. CASE UNCHANGED vars
  BY <1>7 DEF vars, TypeOK, Opened, Status
<1> QED BY <1>1, <1>2, <1>3, <1>4, <1>5, <1>6, <1>7 DEF Next

\* Every variable of the ingest keeps its type; a snapshot that was opened has a time, and a commit a snapshot.
THEOREM TypeCorrect == Spec => [](TypeOK /\ Opened)
BY TypeInit, TypeStep, PTL DEF Spec

-----------------------------------------------------------------------------
(* The newest observation *)

LEMMA NewestStep ==
  ASSUME TypeOK, Opened, NewestWins, [Next]_vars
  PROVE  NewestWins'
<1> DEFINE observed(k) == {o \in seen : o.key = k}
           Newest(k) == /\ store[k] = Absent <=> observed(k) = {}
                        /\ store[k] # Absent => /\ \E o \in observed(k) : o.at = store[k].at /\ o.data = store[k].data
                                                /\ \A o \in observed(k) : o.at <= store[k].at
<1> SUFFICES ASSUME NEW k \in Keys \ Immutable PROVE Newest(k)'
  BY DEF NewestWins, Immutable
<1>0. Newest(k) BY DEF NewestWins
<1>1. store[k] \in Row \union {Absent} /\ \A o \in seen : o.at \in Nat
  BY ConstantTypes DEF TypeOK, Observation
<1>2. ASSUME UNCHANGED <<store, seen>> PROVE Newest(k)' BY <1>0, <1>2
<1>3. ASSUME NEW t \in Times, NEW d \in Data, NEW c \in Clients,
             store'[k] = Settled(k, store[k], t, d, c),
             \A o : o \in observed(k)' <=> o \in observed(k) \/ o = [key |-> k, at |-> t, data |-> d]
      PROVE  Newest(k)'
  <2> DEFINE new == Settled(k, store[k], t, d, c)
  <2>1. /\ new \in Row
        /\ store[k] = Absent \/ t >= store[k].at => new.at = t /\ new.data = d
        /\ store[k] # Absent /\ t < store[k].at => new = store[k]
    BY <1>1, SettledIs
  <2>2. t \in Nat /\ new # Absent /\ (store[k] # Absent => store[k].at \in Nat)
    BY <1>1, <2>1, ConstantTypes DEF Row
  <2> HIDE DEF new
  <2>3. store'[k] = new BY <1>3 DEF new
  <2>4. [key |-> k, at |-> t, data |-> d] \in observed(k)' BY <1>3
  <2>5. CASE store[k] = Absent \/ t >= store[k].at
    <3>1. new.at = t /\ new.data = d BY <2>1, <2>5
    <3>2. ASSUME NEW o \in observed(k)' PROVE o.at <= t
      <4>1. CASE o \in observed(k) BY <1>0, <1>1, <2>2, <2>5, <4>1
      <4>2. CASE o = [key |-> k, at |-> t, data |-> d] BY <2>2, <4>2
      <4> QED BY <1>3, <4>1, <4>2
    <3> QED BY <2>2, <2>3, <2>4, <3>1, <3>2
  <2>6. CASE store[k] # Absent /\ t < store[k].at
    <3>1. new = store[k] BY <2>1, <2>6
    <3>2. ASSUME NEW o \in observed(k)' PROVE o.at <= store[k].at
      <4>1. CASE o \in observed(k) BY <1>0, <2>6, <4>1
      <4>2. CASE o = [key |-> k, at |-> t, data |-> d] BY <2>2, <2>6, <4>2
      <4> QED BY <1>3, <4>1, <4>2
    <3>3. PICK o \in observed(k) : o.at = store[k].at /\ o.data = store[k].data BY <1>0, <2>6
    <3>4. o \in observed(k)' BY <1>3
    <3> QED BY <2>2, <2>3, <2>4, <3>1, <3>2, <3>3, <3>4
  <2> QED BY <2>2, <2>5, <2>6
<1>4. ASSUME NEW q \in Requests, Merge(q) PROVE Newest(k)'
  <2> DEFINE s == req[q].snap
             o1 == [key |-> k, at |-> snap[s].at, data |-> DataOf[s]]
  <2>1. /\ s \in Snaps /\ Status(s) = "committing" /\ snap[s].at \in Times /\ snap[s].staged \subseteq Keys
        /\ k \in Missing(s) \/ store'[k] = MergedStore(s)[k]
        /\ k \in Missing(s) =>
              /\ k \notin snap[s].staged /\ store[k] \in Row /\ store'[k] \in Row
              /\ store'[k].at = store[k].at /\ store'[k].data = store[k].data
    BY <1>4, MergeIs
  <2>2. seen' = seen \union {[key |-> j, at |-> snap[s].at, data |-> DataOf[s]] : j \in snap[s].staged}
    BY <1>4 DEF Merge
  <2>3. \A o : o \in observed(k)' <=> o \in observed(k) \/ (k \in snap[s].staged /\ o = o1)
    BY <2>2
  <2>4. CASE k \in snap[s].staged
    <3>1. store'[k] = Settled(k, store[k], snap[s].at, DataOf[s], ClientOf[s])
      BY <2>1, <2>4, MergedIs
    <3>2. DataOf[s] \in Data /\ ClientOf[s] \in Clients BY <2>1, ConstantTypes
    <3>3. \A o : o \in observed(k)' <=> o \in observed(k) \/ o = o1 BY <2>3, <2>4
    <3> QED BY <1>3, <2>1, <3>1, <3>2, <3>3
  <2>5. CASE k \notin snap[s].staged
    <3>1. observed(k)' = observed(k) BY <2>3, <2>5
    <3>2. CASE k \in Missing(s) BY <1>0, <2>1, <3>1, <3>2, ConstantTypes
    <3>3. CASE k \notin Missing(s)
      <4>1. store'[k] = store[k] BY <2>1, <2>5, <3>3, MergedIs
      <4> QED BY <1>0, <3>1, <4>1
    <3> QED BY <3>2, <3>3
  <2> QED BY <2>4, <2>5
<1>5. ASSUME NEW c \in Clients, NEW j \in Resources, NEW t \in Times, NEW d \in Data, WriteResource(c, j, t, d)
      PROVE  Newest(k)'
  <2>1. /\ store' = [store EXCEPT ![j] = Settled(j, store[j], t, d, c)]
        /\ seen' = seen \union {[key |-> j, at |-> t, data |-> d]}
    BY <1>5 DEF WriteResource
  <2>2. CASE j = k
    <3>1. store'[k] = Settled(k, store[k], t, d, c) BY <2>1, <2>2 DEF TypeOK
    <3>2. \A o : o \in observed(k)' <=> o \in observed(k) \/ o = [key |-> k, at |-> t, data |-> d]
      BY <2>1, <2>2
    <3> QED BY <1>3, <3>1, <3>2
  <2>3. CASE j # k
    <3>1. store'[k] = store[k] /\ observed(k)' = observed(k) BY <2>1, <2>3 DEF TypeOK
    <3> QED BY <1>0, <3>1
  <2> QED BY <2>2, <2>3
<1>6. ASSUME NEW j \in Resources, RemoveResource(j) PROVE Newest(k)'
  <2>1. store' = [store EXCEPT ![j] = [@ EXCEPT !.removed = TRUE]] /\ seen' = seen
    BY <1>6 DEF RemoveResource
  <2>2. CASE j = k
    <3>1. store[k] \in Row BY <1>1, <1>6, <2>2 DEF RemoveResource, Live
    <3>2. store'[k] = [store[k] EXCEPT !.removed = TRUE] BY <2>1, <2>2 DEF TypeOK
    <3>3. store'[k] \in Row /\ store'[k].at = store[k].at /\ store'[k].data = store[k].data
      BY <3>1, <3>2 DEF Row
    <3> QED BY <1>0, <2>1, <3>1, <3>3, ConstantTypes
  <2>3. CASE j # k
    <3>1. store'[k] = store[k] BY <2>1, <2>3 DEF TypeOK
    <3> QED BY <1>0, <2>1, <3>1
  <2> QED BY <2>2, <2>3
<1>7. ASSUME NEW s \in Snaps,
             \/ \E at \in Times : Create(s, at)
             \/ \E kind \in {"resources", "metrics", "events"}, malformed \in SUBSET Spoiled :
                   Stage(s, kind, malformed)
             \/ Expire(s) \/ FailStuck(s)
      PROVE  Newest(k)'
  BY <1>2, <1>7, SnapStepIs
<1>8. ASSUME NEW q \in Requests,
             \/ \E s \in Snaps, partial \in BOOLEAN : Claim(q, s, partial)
             \/ MergeFails(q) \/ Finish(q) \/ Crash(q)
      PROVE  Newest(k)'
  BY <1>2, <1>8, RequestStepIs
<1>9. CASE Purge BY <1>2, <1>9, PurgeIs
<1>10. CASE UNCHANGED vars BY <1>2, <1>10 DEF vars
<1> QED BY <1>4, <1>5, <1>6, <1>7, <1>8, <1>9, <1>10 DEF Next

\* Whatever the order in which snapshots and single writes are committed, and whatever fails or is repeated in
\* between, a row that may change holds the newest observation of its key (ingest-data-contract R2).
THEOREM NewestAlwaysWins == Spec => []NewestWins
<1>1. Init => NewestWins BY DEF Init, NewestWins
<1>2. TypeOK /\ Opened /\ NewestWins /\ [Next]_vars => NewestWins' BY NewestStep
<1> QED BY <1>1, <1>2, TypeCorrect, PTL DEF Spec

-----------------------------------------------------------------------------
(* Removals *)

(* The reasons for which a key can be removed. *)
ByFull(s, k) ==
  /\ s \in Committed
  /\ ClientOf[s] = store[k].client /\ Kind(k) \in ScopeOf[s]
  /\ snap[s].at >= store[k].at /\ k \notin snap[s].staged
Explained(k) == k \in byHand \/ \E s \in Snaps : ByFull(s, k)

LEMMA RemovedStep ==
  ASSUME TypeOK, Opened, RemovedIsExplained, [Next]_vars
  PROVE  RemovedIsExplained'
<1> SUFFICES ASSUME NEW k \in Keys, store'[k] # Absent, store'[k].removed PROVE Explained(k)'
  BY DEF RemovedIsExplained, Explained, ByFull, Committed
<1>0. store[k] # Absent /\ store[k].removed => Explained(k)
  BY DEF RemovedIsExplained, Explained, ByFull, Committed
<1>1. store[k] \in Row \union {Absent} BY DEF TypeOK
(* A reason stays one as long as the row is left as it is. *)
<1>2. ASSUME store'[k] = store[k],
             k \in byHand => k \in byHand',
             \A s \in Snaps : Status(s) = "committed" =>
                /\ snap'[s].status = "committed" /\ snap'[s].at = snap[s].at /\ snap'[s].staged = snap[s].staged
      PROVE  Explained(k)'
  BY <1>0, <1>2 DEF Explained, ByFull, Committed, Status
<1>3. ASSUME NEW q \in Requests, Merge(q) PROVE Explained(k)'
  <2>0. PICK s \in Snaps : s = req[q].snap BY <1>3, MergeIs
  <2>1. /\ s \in Snaps /\ Status(s) = "committing" /\ snap[s].at \in Times
        /\ k \in Missing(s) \/ store'[k] = MergedStore(s)[k]
        /\ \A n \in Snaps : snap'[n].at = snap[n].at /\ snap'[n].staged = snap[n].staged
        /\ \A n \in Snaps : snap'[n].status = IF n = s THEN "committed" ELSE Status(n)
    BY <1>3, <2>0, MergeIs
  <2>2. CASE k \in Missing(s)
    <3>1. /\ k \notin snap[s].staged /\ store[k] \in Row /\ store'[k].at = store[k].at
          /\ store'[k].client = store[k].client
      BY <1>3, <2>0, <2>2, MergeIs
    <3>2. MergedStore(s)[k] = store[k] BY <2>1, <3>1, MergedIs
    <3>3. /\ Kind(k) \in ScopeOf[s] /\ store[k].client = ClientOf[s] /\ store[k].at <= snap[s].at
      BY <2>2, <3>2 DEF Missing
    <3>4. store[k].at \in Nat /\ snap[s].at \in Nat BY <2>1, <3>1, ConstantTypes DEF Row
    <3>5. ByFull(s, k)' BY <2>1, <3>1, <3>3, <3>4 DEF ByFull, Committed, Status
    <3> QED BY <2>1, <3>5 DEF Explained
  <2>3. CASE k \notin Missing(s)
    <3>1. store'[k] = store[k]
      <4>1. CASE k \in snap[s].staged
        <5>1. store'[k] = Settled(k, store[k], snap[s].at, DataOf[s], ClientOf[s])
          BY <2>1, <2>3, <4>1, MergedIs
        <5>2. DataOf[s] \in Data /\ ClientOf[s] \in Clients BY <2>1, ConstantTypes
        <5>3. store'[k].removed => store'[k] = store[k] BY <1>1, <2>1, <5>1, <5>2, SettledIs
        <5> QED BY <5>3
      <4>2. CASE k \notin snap[s].staged BY <2>1, <2>3, <4>2, MergedIs
      <4> QED BY <4>1, <4>2
    <3>2. k \in byHand => k \in byHand' BY <1>3 DEF Merge
    <3> QED BY <1>2, <2>1, <3>1, <3>2
  <2> QED BY <2>2, <2>3
<1>4. ASSUME NEW c \in Clients, NEW j \in Resources, NEW t \in Times, NEW d \in Data, WriteResource(c, j, t, d)
      PROVE  Explained(k)'
  <2>1. /\ store' = [store EXCEPT ![j] = Settled(j, store[j], t, d, c)]
        /\ byHand' = {i \in byHand : store'[i].removed}
        /\ snap' = snap
    BY <1>4 DEF WriteResource
  <2>2. store'[k] = store[k]
    <3>1. CASE j = k
      <4>1. store'[k] = Settled(k, store[k], t, d, c) BY <2>1, <3>1 DEF TypeOK
      <4>2. store'[k].removed => store'[k] = store[k] BY <1>1, <4>1, SettledIs
      <4> QED BY <4>2
    <3>2. CASE j # k BY <2>1, <3>2 DEF TypeOK
    <3> QED BY <3>1, <3>2
  <2> QED BY <1>2, <2>1, <2>2 DEF Status
<1>5. ASSUME NEW j \in Resources, RemoveResource(j) PROVE Explained(k)'
  <2>1. /\ store' = [store EXCEPT ![j] = [@ EXCEPT !.removed = TRUE]]
        /\ byHand' = byHand \union {j} /\ snap' = snap
    BY <1>5 DEF RemoveResource
  <2>2. CASE j = k BY <2>1, <2>2 DEF Explained
  <2>3. CASE j # k
    <3>1. store'[k] = store[k] BY <2>1, <2>3 DEF TypeOK
    <3> QED BY <1>2, <2>1, <3>1 DEF Status
  <2> QED BY <2>2, <2>3
<1>6. ASSUME NEW s \in Snaps,
             \/ \E at \in Times : Create(s, at)
             \/ \E kind \in {"resources", "metrics", "events"}, malformed \in SUBSET Spoiled :
                   Stage(s, kind, malformed)
             \/ Expire(s) \/ FailStuck(s)
      PROVE  Explained(k)'
  BY <1>2, <1>6, SnapStepIs DEF Status
<1>7. ASSUME NEW q \in Requests,
             \/ \E s \in Snaps, partial \in BOOLEAN : Claim(q, s, partial)
             \/ MergeFails(q) \/ Finish(q) \/ Crash(q)
      PROVE  Explained(k)'
  BY <1>2, <1>7, RequestStepIs
<1>8. CASE Purge BY <1>2, <1>8, PurgeIs
<1>9. CASE UNCHANGED vars BY <1>2, <1>9 DEF vars, Status
<1> QED BY <1>3, <1>4, <1>5, <1>6, <1>7, <1>8, <1>9 DEF Next

\* A row is only ever removed by hand or by a committed full snapshot of its own Tool, which declares its kind, does
\* not contain it and is not older than it (ingest-data-contract R5, R8).
THEOREM RemovalsAreExplained == Spec => []RemovedIsExplained
<1>1. Init => RemovedIsExplained BY DEF Init, RemovedIsExplained
<1>2. TypeOK /\ Opened /\ RemovedIsExplained /\ [Next]_vars => RemovedIsExplained' BY RemovedStep
<1> QED BY <1>1, <1>2, TypeCorrect, PTL DEF Spec

-----------------------------------------------------------------------------
(* The pointer to the current snapshot *)

LEMMA CurrentStep ==
  ASSUME TypeOK, Opened, CurrentIsNewest, [Next]_vars
  PROVE  CurrentIsNewest'
<1>0. \A n \in Snaps : snap[n].at \in Nat /\ snap[n].current \in BOOLEAN BY DEF TypeOK, SnapRow
<1>1. ASSUME \A n \in Snaps : /\ Status(n) = "committed" => snap'[n].at = snap[n].at
                              /\ snap'[n].current = snap[n].current
                              /\ snap'[n].status = "committed" <=> Status(n) = "committed"
      PROVE  CurrentIsNewest'
  <2>1. Committed' = Committed BY <1>1 DEF Committed, Status
  <2>2. \A n \in Snaps : snap[n].current => snap'[n].at = snap[n].at BY <1>1 DEF CurrentIsNewest
  <2>3. \A n \in Committed : snap'[n].at = snap[n].at BY <1>1 DEF Committed
  <2> QED BY <1>1, <2>1, <2>2, <2>3 DEF CurrentIsNewest, Status, SameSlot, Committed
<1>2. ASSUME NEW q \in Requests, Merge(q) PROVE CurrentIsNewest'
  <2> DEFINE s == req[q].snap
             moves == MovesCurrent(s)
  <2>1. /\ s \in Snaps /\ Status(s) = "committing"
        /\ \A n \in Snaps : snap'[n].at = snap[n].at
        /\ \A n \in Snaps : snap'[n].status = IF n = s THEN "committed" ELSE Status(n)
        /\ \A n \in Snaps : snap'[n].current = IF n = s THEN moves
                                               ELSE snap[n].current /\ ~(SameSlot(n, s) /\ moves)
    BY <1>2, MergeIs
  <2>2. Committed' = Committed \union {s} BY <2>1 DEF Committed, Status
  <2>3. ~snap[s].current BY <2>1 DEF CurrentIsNewest
  <2>4. moves <=> \A n \in Snaps : snap[n].current /\ n # s /\ SameSlot(n, s) => snap[n].at <= snap[s].at
    BY <1>0, <2>1 DEF MovesCurrent, SameSlot
  <2> HIDE DEF moves
  <2>5. ASSUME NEW c \in Snaps, snap'[c].current PROVE snap'[c].status = "committed"
    BY <2>1, <2>5 DEF CurrentIsNewest
  <2>6. ASSUME NEW c \in Committed'
        PROVE  \E n \in Snaps : SameSlot(n, c) /\ snap'[n].current /\ snap'[n].at >= snap'[c].at
    <3>1. CASE SameSlot(c, s) /\ moves
      <4>1. snap[c].at <= snap[s].at
        <5>1. CASE c = s BY <1>0, <2>1, <5>1
        <5>2. CASE c # s
          <6>1. PICK n \in Snaps : SameSlot(n, c) /\ snap[n].current /\ snap[n].at >= snap[c].at
            BY <2>2, <5>2 DEF CurrentIsNewest, Committed
          <6>2. snap[n].at <= snap[s].at BY <2>3, <2>4, <3>1, <6>1 DEF SameSlot
          <6> QED BY <1>0, <2>1, <2>2, <5>2, <6>1, <6>2 DEF Committed
        <5> QED BY <5>1, <5>2
      <4>2. c \in Snaps BY <2>2, <2>1 DEF Committed
      <4> QED BY <1>0, <2>1, <3>1, <4>1, <4>2 DEF SameSlot
    <3>2. CASE c # s /\ ~(SameSlot(c, s) /\ moves)
      <4>1. c \in Committed /\ c \in Snaps BY <2>2, <3>2 DEF Committed
      <4>2. PICK n \in Snaps : SameSlot(n, c) /\ snap[n].current /\ snap[n].at >= snap[c].at
        BY <4>1 DEF CurrentIsNewest
      <4>3. snap'[n].current BY <2>1, <2>3, <3>2, <4>2 DEF SameSlot
      <4> QED BY <2>1, <4>1, <4>2, <4>3
    <3>3. CASE c = s /\ ~moves
      <4>1. PICK n \in Snaps : snap[n].current /\ n # s /\ SameSlot(n, s) /\ ~(snap[n].at <= snap[s].at)
        BY <2>4, <3>3
      <4>2. snap'[n].current BY <2>1, <3>3, <4>1
      <4> QED BY <1>0, <2>1, <3>3, <4>1, <4>2
    <3> QED BY <3>1, <3>2, <3>3 DEF SameSlot
  <2>7. ASSUME NEW c \in Snaps, NEW n \in Snaps, SameSlot(n, c), snap'[n].current, snap'[c].current
        PROVE  n = c
    <3>1. CASE n = s \/ c = s BY <2>1, <2>7, <3>1 DEF SameSlot
    <3>2. CASE n # s /\ c # s
      <4>1. snap[n].current /\ snap[c].current BY <2>1, <2>7, <3>2
      <4>2. c \in Committed BY <4>1 DEF CurrentIsNewest, Committed
      <4> QED BY <2>7, <4>1, <4>2 DEF CurrentIsNewest
    <3> QED BY <3>1, <3>2
  <2> QED BY <2>5, <2>6, <2>7 DEF CurrentIsNewest, Status, SameSlot, Committed
<1>3. ASSUME NEW s \in Snaps,
             \/ \E at \in Times : Create(s, at)
             \/ \E kind \in {"resources", "metrics", "events"}, malformed \in SUBSET Spoiled :
                   Stage(s, kind, malformed)
             \/ Expire(s) \/ FailStuck(s)
      PROVE  CurrentIsNewest'
  <2>1. /\ Status(s) # "committed" /\ snap'[s].status # "committed" /\ snap'[s].current = snap[s].current
        /\ \A n \in Snaps \ {s} : snap'[n] = snap[n]
    BY <1>3, SnapStepIs
  <2> QED BY <1>1, <2>1 DEF Status
<1>4. ASSUME NEW q \in Requests,
             \/ \E s \in Snaps, partial \in BOOLEAN : Claim(q, s, partial)
             \/ MergeFails(q) \/ Finish(q) \/ Crash(q)
      PROVE  CurrentIsNewest'
  BY <1>1, <1>4, RequestStepIs
<1>5. CASE Purge BY <1>1, <1>5, PurgeIs
<1>6. CASE UNCHANGED <<store, seen>> /\ snap' = snap BY <1>1, <1>6 DEF Status
<1>7. CASE snap' = snap BY <1>1, <1>7 DEF Status
<1>8. ASSUME NEW k \in Resources,
             \/ \E c \in Clients, t \in Times, d \in Data : WriteResource(c, k, t, d)
             \/ RemoveResource(k)
      PROVE  CurrentIsNewest'
  BY <1>7, <1>8 DEF WriteResource, RemoveResource
<1>9. CASE UNCHANGED vars BY <1>7, <1>9 DEF vars
<1> QED BY <1>2, <1>3, <1>4, <1>5, <1>8, <1>9 DEF Next

\* Whatever requests commit, fail or repeat, and in whatever order, the pointer of a Tool and a type stands on exactly
\* one committed snapshot as soon as there is one, and on none that is older than another.
THEOREM PointerIsNewest == Spec => []CurrentIsNewest
<1>1. Init => CurrentIsNewest BY DEF Init, CurrentIsNewest, Committed, Status
<1>2. TypeOK /\ Opened /\ CurrentIsNewest /\ [Next]_vars => CurrentIsNewest' BY CurrentStep
<1> QED BY <1>1, <1>2, TypeCorrect, PTL DEF Spec

-----------------------------------------------------------------------------
(* The abstract store *)

Best == [k \in Keys |-> IF store[k] = Absent THEN Absent ELSE [at |-> store[k].at, data |-> store[k].data]]

(* The row of a key either keeps what the abstract store has of it, or is superseded there. *)
LEMMA KeptOrSuperseded ==
  ASSUME TypeOK, Opened, NEW k \in Keys,
         NEW t \in Times, NEW d \in Data, NEW c \in Clients,
         store' \in [Keys -> Row \union {Absent}],
         store'[k] = Settled(k, store[k], t, d, c)
  PROVE  Best'[k] = Best[k] \/ Store!Supersedes(k, Best[k], Best'[k])
<1>1. store[k] \in Row \union {Absent} BY DEF TypeOK
<1>0. ASSUME NEW old \in Row \union {Absent}, NEW new, new = Settled(k, old, t, d, c)
      PROVE  /\ new \in Row
             /\ k \notin Immutable /\ (old = Absent \/ t >= old.at) => new.at = t
             /\ k \notin Immutable /\ old # Absent /\ t < old.at => new = old
             /\ k \in Immutable /\ old # Absent => new.data = old.data
  <2>1. new \in Row BY <1>0, SettledIs
  <2>2. k \notin Immutable /\ (old = Absent \/ t >= old.at) => new.at = t BY <1>0, SettledIs
  <2>3. k \notin Immutable /\ old # Absent /\ t < old.at => new = old BY <1>0, SettledIs
  <2>4. k \in Immutable /\ old # Absent => new.data = old.data BY <1>0, SettledIs
  <2> QED BY <2>1, <2>2, <2>3, <2>4
<1>2. /\ store'[k] \in Row
      /\ k \notin Immutable /\ (store[k] = Absent \/ t >= store[k].at) => store'[k].at = t
      /\ k \notin Immutable /\ store[k] # Absent /\ t < store[k].at => store'[k] = store[k]
      /\ k \in Immutable /\ store[k] # Absent => store'[k].data = store[k].data
  BY <1>0, <1>1
<1>3. t \in Nat /\ store'[k] # Absent /\ (store[k] # Absent => store[k].at \in Nat)
      /\ store'[k].at \in Nat /\ store'[k].data \in Data
  BY <1>1, <1>2, ConstantTypes DEF Row
<1>4. Best'[k] = [at |-> store'[k].at, data |-> store'[k].data] BY <1>3 DEF Best
<1>5. Best'[k] \in Store!Record BY <1>3, <1>4 DEF Store!Record
<1>6. CASE store[k] = Absent
  <2>1. Best[k] = Absent BY <1>6 DEF Best
  <2> QED BY <1>5, <2>1 DEF Store!Supersedes
<1>7. CASE store[k] # Absent
  <2>1. Best[k] = [at |-> store[k].at, data |-> store[k].data] BY <1>7 DEF Best
  <2>2. CASE k \in Immutable
    <3>1. Best'[k].data = Best[k].data BY <1>2, <1>4, <1>7, <2>1, <2>2
    <3> QED BY <1>5, <2>2, <3>1 DEF Store!Supersedes
  <2>3. CASE k \notin Immutable /\ t >= store[k].at
    <3>1. Best'[k].at >= Best[k].at BY <1>2, <1>3, <1>4, <2>1, <2>3
    <3> QED BY <1>5, <2>3, <3>1 DEF Store!Supersedes
  <2>4. CASE k \notin Immutable /\ t < store[k].at
    BY <1>2, <1>4, <1>7, <2>1, <2>4
  <2> QED BY <1>3, <1>7, <2>2, <2>3, <2>4
<1> QED BY <1>6, <1>7

LEMMA StoreInit == Init => Store!Init
<1> SUFFICES ASSUME Init PROVE Store!Init OBVIOUS
<1>1. Committed = {} BY DEF Init, Committed, Status
<1>2. Best = [k \in Keys |-> Absent] BY DEF Init, Best
<1> QED BY <1>1, <1>2 DEF Store!Init, Best

LEMMA StoreStep ==
  ASSUME TypeOK, Opened, [Next]_vars
  PROVE  [Store!Next]_(Store!storeVars)
<1>0. Store!storeVars = <<Best, Committed>> BY DEF Store!storeVars, Best
<1>1. ASSUME store' = store, Committed' = Committed PROVE UNCHANGED Store!storeVars
  BY <1>1 DEF Store!storeVars
<1>2. ASSUME NEW q \in Requests, Merge(q) PROVE Store!Next
  <2>0. PICK s \in Snaps : s = req[q].snap BY <1>2, MergeIs
  <2>1. /\ Status(s) = "committing" /\ snap[s].at \in Times /\ snap[s].staged \subseteq Keys
        /\ store' \in [Keys -> Row \union {Absent}]
        /\ \A k \in Keys \ Missing(s) : store'[k] = MergedStore(s)[k]
        /\ \A k \in Missing(s) :
             /\ k \in Keys \ snap[s].staged
             /\ store[k] \in Row /\ store'[k] \in Row
             /\ store'[k].at = store[k].at /\ store'[k].data = store[k].data
        /\ \A n \in Snaps : snap'[n].status = IF n = s THEN "committed" ELSE Status(n)
    BY <1>2, <2>0, MergeIs
  <2>2. Committed' = Committed \union {s} /\ s \notin Committed BY <2>1 DEF Committed, Status
  <2>3. ASSUME NEW k \in Keys \ snap[s].staged PROVE Best'[k] = Best[k]
    <3>1. CASE k \in Missing(s)
      BY <2>1, <3>1, ConstantTypes DEF Best
    <3>2. CASE k \notin Missing(s)
      <4>1. store'[k] = store[k] BY <2>1, <3>2, MergedIs
      <4> QED BY <4>1 DEF Best
    <3> QED BY <3>1, <3>2
  <2>4. ASSUME NEW k \in snap[s].staged PROVE Best'[k] = Best[k] \/ Store!Supersedes(k, Best[k], Best'[k])
    <3>1. store'[k] = Settled(k, store[k], snap[s].at, DataOf[s], ClientOf[s]) BY <2>1, MergedIs
    <3>2. DataOf[s] \in Data /\ ClientOf[s] \in Clients BY ConstantTypes
    <3> QED BY <2>1, <3>1, <3>2, KeptOrSuperseded
  <2> DEFINE ks == {k \in Keys : Store!Supersedes(k, Best[k], Best'[k])}
  <2>5. Best' = [k \in Keys |-> IF k \in ks THEN Best'[k] ELSE Best[k]]
    <3>1. \A k \in Keys : Best'[k] = IF k \in ks THEN Best'[k] ELSE Best[k] BY <2>3, <2>4
    <3>2. Best' = [k \in Keys |-> Best'[k]] BY DEF Best
    <3> HIDE DEF ks
    <3> QED BY <3>1, <3>2
  <2>6. \E js \in SUBSET Keys : /\ \A k \in js : Store!Supersedes(k, Best[k], Best'[k])
                                /\ Best' = [k \in Keys |-> IF k \in js THEN Best'[k] ELSE Best[k]]
    BY <2>5
  <2>7. Store!ApplyBatch(s) BY <2>2, <2>6 DEF Store!ApplyBatch, Best
  <2> QED BY <2>7 DEF Store!Next
<1>3. ASSUME NEW c \in Clients, NEW j \in Resources, NEW t \in Times, NEW d \in Data, WriteResource(c, j, t, d)
      PROVE  Store!Next \/ UNCHANGED Store!storeVars
  <2>1. /\ store' = [store EXCEPT ![j] = Settled(j, store[j], t, d, c)]
        /\ Committed' = Committed /\ j \in Keys
    BY <1>3, ConstantTypes DEF WriteResource, Committed, Status
  <2>2. store' \in [Keys -> Row \union {Absent}]
    <3>1. store[j] \in Row \union {Absent} BY <2>1 DEF TypeOK
    <3>2. Settled(j, store[j], t, d, c) \in Row BY <2>1, <3>1, SettledIs
    <3> QED BY <2>1, <3>2 DEF TypeOK
  <2>3. store'[j] = Settled(j, store[j], t, d, c) BY <2>1 DEF TypeOK
  <2>4. Best'[j] = Best[j] \/ Store!Supersedes(j, Best[j], Best'[j]) BY <2>1, <2>2, <2>3, KeptOrSuperseded
  <2>5. \A k \in Keys \ {j} : Best'[k] = Best[k] BY <2>1 DEF Best, TypeOK
  <2>6. Best' = [Best EXCEPT ![j] = Best'[j]]
    <3>1. Best = [k \in Keys |-> Best[k]] /\ Best' = [k \in Keys |-> Best'[k]] BY Zenon DEF Best
    <3>2. [Best EXCEPT ![j] = Best'[j]] = [k \in Keys |-> IF k = j THEN Best'[j] ELSE Best[k]] BY <3>1
    <3> QED BY <3>1, <3>2, <2>5
  <2>7. CASE Best'[j] = Best[j]
    <3>1. Best' = Best BY <2>5, <2>7 DEF Best
    <3> QED BY <1>0, <2>1, <3>1 DEF Store!storeVars, Best
  <2>8. CASE Store!Supersedes(j, Best[j], Best'[j])
    <3>1. Store!WriteOne(j) BY <2>1, <2>6, <2>8 DEF Store!WriteOne, Best
    <3> QED BY <2>1, <3>1 DEF Store!Next
  <2> QED BY <2>4, <2>7, <2>8
<1>4. ASSUME NEW j \in Resources, RemoveResource(j) PROVE UNCHANGED Store!storeVars
  <2>1. /\ store' = [store EXCEPT ![j] = [@ EXCEPT !.removed = TRUE]]
        /\ Committed' = Committed /\ j \in Keys /\ store[j] \in Row
    BY <1>4, ConstantTypes DEF RemoveResource, Live, Committed, Status, TypeOK
  <2>2. store'[j] = [store[j] EXCEPT !.removed = TRUE] BY <2>1 DEF TypeOK
  <2>3. store'[j] \in Row /\ store'[j].at = store[j].at /\ store'[j].data = store[j].data
    <3>1. ASSUME NEW r \in Row
          PROVE  LET q == [r EXCEPT !.removed = TRUE] IN q \in Row /\ q.at = r.at /\ q.data = r.data
      BY DEF Row
    <3> QED BY <2>1, <2>2, <3>1
  <2>4. \A k \in Keys \ {j} : store'[k] = store[k] BY <2>1 DEF TypeOK
  <2>5. Best' = Best BY <2>1, <2>3, <2>4, ConstantTypes DEF Best
  <2> QED BY <1>0, <2>1, <2>5 DEF Store!storeVars, Best
<1>5. ASSUME NEW s \in Snaps,
             \/ \E at \in Times : Create(s, at)
             \/ \E kind \in {"resources", "metrics", "events"}, malformed \in SUBSET Spoiled :
                   Stage(s, kind, malformed)
             \/ Expire(s) \/ FailStuck(s)
      PROVE  UNCHANGED Store!storeVars
  <2>1. Committed' = Committed /\ store' = store BY <1>5, SnapStepIs DEF Committed, Status
  <2> QED BY <1>1, <2>1
<1>6. ASSUME NEW q \in Requests,
             \/ \E s \in Snaps, partial \in BOOLEAN : Claim(q, s, partial)
             \/ MergeFails(q) \/ Finish(q) \/ Crash(q)
      PROVE  UNCHANGED Store!storeVars
  <2>1. Committed' = Committed /\ store' = store BY <1>6, RequestStepIs DEF Committed, Status
  <2> QED BY <1>1, <2>1
<1>7. CASE Purge
  <2>1. Committed' = Committed /\ store' = store BY <1>7, PurgeIs DEF Committed, Status
  <2> QED BY <1>1, <2>1
<1>8. CASE UNCHANGED vars BY <1>1, <1>8 DEF vars, Committed, Status
<1> QED BY <1>2, <1>3, <1>4, <1>5, <1>6, <1>7, <1>8 DEF Next

\* The ingest implements the store the contract promises: each snapshot is applied whole and at most once, single
\* writes one at a time, and no key goes back to an older observation, whatever requests, the sweep and crashes do.
THEOREM ImplementsNewestStore == Spec => ImplementsStore
<1>1. Init => Store!Init BY StoreInit
<1>2. TypeOK /\ Opened /\ [Next]_vars => [Store!Next]_(Store!storeVars) BY StoreStep
<1> QED BY <1>1, <1>2, TypeCorrect, PTL DEF Spec, ImplementsStore, Store!Spec
=============================================================================
