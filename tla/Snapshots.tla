----------------------------- MODULE Snapshots -----------------------------
(***************************************************************************)
(* The ingest of integration-service: a Tool opens a snapshot, sends its   *)
(* records into staging and commits it; the commit merges the staging into *)
(* the canonical store, marks what a full snapshot no longer contains as   *)
(* removed, and moves the pointer to the current snapshot.                 *)
(*                                                                         *)
(* A commit is three database steps of one HTTP request: the claim         *)
(* (building -> committing), the transaction of the merge, and, when that  *)
(* failed, the step that reopens or fails the snapshot.  The process can   *)
(* die and the connection can break between any two of them.               *)
(***************************************************************************)
EXTENDS Integers, FiniteSets

CONSTANTS Snaps,        \* snapshots that can be opened
          Clients,      \* Tools of one owner
          ClientOf,     \* [Snaps -> Clients]: the Tool that opens it
          Want,         \* [Snaps -> set of keys]: what the Tool sends
          ScopeOf,      \* [Snaps -> set of kinds]: the scope it declares, {} for a delta
          DataOf,       \* [Snaps -> data]: the data of its records
          Resources,    \* keys of resources
          Children,     \* keys of records that belong to a resource
          KindOf,       \* [Children -> kind]: metrics or events
          ParentOf,     \* [Children -> Resources]
          Requests,     \* commit requests that can be under way
          Spoiled,      \* keys whose records may be sent malformed
          Times,        \* observation times
          MaxDirect,    \* bound on writes outside snapshots
          Absent        \* a key with no row

Keys == Resources \union Children
Kind(k) == IF k \in Resources THEN "resources" ELSE KindOf[k]
Immutable == {k \in Children : KindOf[k] = "events"}
Data == {DataOf[s] : s \in Snaps}

ASSUME SnapshotsAssumption ==
  /\ Times \subseteq Nat
  /\ Resources \intersect Children = {}
  /\ ClientOf \in [Snaps -> Clients]
  /\ ParentOf \in [Children -> Resources]
  /\ KindOf \in [Children -> {"metrics", "events"}]
  /\ Want \in [Snaps -> SUBSET Keys]
  /\ ScopeOf \in [Snaps -> SUBSET {"resources", "metrics", "events"}]
  /\ Absent \notin [at : Times, data : Data, removed : BOOLEAN, client : Clients]

VARIABLES snap,     \* snap[s]: the row of snapshot s and its staging
          store,    \* store[k]: the canonical row of key k, or Absent
          req,      \* req[q]: a commit request under way
          seen,     \* history: the observations the committed transactions contained
          byHand,   \* history: keys removed outside snapshots
          direct    \* number of writes outside snapshots

vars == <<snap, store, req, seen, byHand, direct>>

Status(s) == snap[s].status
Committed == {s \in Snaps : Status(s) = "committed"}
Full(s) == ScopeOf[s] # {}
Live(k) == store[k] # Absent /\ ~store[k].removed

Init ==
  /\ snap = [s \in Snaps |-> [status |-> "none", at |-> 0, staged |-> {}, bad |-> {}, current |-> FALSE]]
  /\ store = [k \in Keys |-> Absent]
  /\ req = [q \in Requests |-> [pc |-> "idle", snap |-> 0, partial |-> FALSE]]
  /\ seen = {} /\ byHand = {} /\ direct = 0

-----------------------------------------------------------------------------
(* Opening, sending, giving up *)

Create(s, at) ==
  /\ Status(s) = "none"
  /\ snap' = [snap EXCEPT ![s] = [@ EXCEPT !.status = "building", !.at = at]]
  /\ UNCHANGED <<store, req, seen, byHand, direct>>

(* A child whose resource is in the same snapshot or alive in the store. *)
Known(s, k) == k \in Resources \/ ParentOf[k] \in snap[s].staged \/ Live(ParentOf[k])

(* The records of one kind, of which some are malformed.  A record that is rejected stays staged if an
   earlier version of it was; one that is sent again correctly is rejected no longer. *)
Stage(s, kind, malformed) ==
  LET batch == {k \in Want[s] : Kind(k) = kind}
      good  == {k \in batch \ malformed : Known(s, k)} IN
  /\ Status(s) = "building"
  /\ batch # {}
  /\ snap' = [snap EXCEPT ![s].staged = @ \union good,
                          ![s].bad = (@ \ good) \union (batch \ good)]
  /\ UNCHANGED <<store, req, seen, byHand, direct>>

(* A snapshot that was left alone for SNAPSHOT_TTL: by the next request for it, or by the sweep. *)
Expire(s) ==
  /\ Status(s) = "building"
  /\ snap' = [snap EXCEPT ![s] = [@ EXCEPT !.status = "abandoned"]]
  /\ UNCHANGED <<store, req, seen, byHand, direct>>

(* The sweep gives up a snapshot that has been committing for too long. *)
FailStuck(s) ==
  /\ Status(s) = "committing"
  /\ snap' = [snap EXCEPT ![s] = [@ EXCEPT !.status = "failed"]]
  /\ UNCHANGED <<store, req, seen, byHand, direct>>

(* The sweep clears the staging of what will never be committed. *)
Purge ==
  /\ \E s \in Snaps : Status(s) \in {"abandoned", "failed"} /\ snap[s].staged # {}
  /\ snap' = [s \in Snaps |-> IF Status(s) \in {"abandoned", "failed"}
                              THEN [snap[s] EXCEPT !.staged = {}] ELSE snap[s]]
  /\ UNCHANGED <<store, req, seen, byHand, direct>>

-----------------------------------------------------------------------------
(* Merging one record *)

\* Mutant: what arrives last wins.
DecideByArrival(k, row, t, d) ==
  IF row = Absent THEN "created" ELSE IF row.removed \/ row.data # d THEN "updated" ELSE "unchanged"

(* The verdict on a record observed at t with data d, given the row of its key. *)
Decide(k, row, t, d) ==
  CASE row = Absent                     -> "created"
    [] row # Absent /\ k \in Immutable  -> IF row.data # d THEN "stale"
                                           ELSE IF row.removed THEN "updated" ELSE "unchanged"
    [] OTHER                            -> IF t < row.at THEN "stale"
                                           ELSE IF row.removed \/ row.data # d THEN "updated" ELSE "unchanged"

Settled(k, row, t, d, c) ==
  LET verdict == Decide(k, row, t, d) IN
  CASE verdict \in {"created", "updated"}                -> [at |-> t, data |-> d, removed |-> FALSE, client |-> c]
    [] verdict = "unchanged" /\ k \notin Immutable       -> [row EXCEPT !.at = t]
    [] OTHER                                             -> row

-----------------------------------------------------------------------------
(* The commit *)

(* Expected and received counts agree, and nothing rejected is left unless the Tool accepts that. *)
CountOf(keys, kind) == Cardinality({k \in keys : Kind(k) = kind})
CountsMatch(s, partial) ==
  /\ snap[s].bad = {} \/ partial
  /\ \A kind \in {"resources", "metrics", "events"} :
        CountOf(snap[s].staged, kind) + CountOf(snap[s].bad, kind) = CountOf(Want[s], kind)

(* The store after the staged records are merged, before anything is removed. *)
MergedStore(s) ==
  [k \in Keys |-> IF k \in snap[s].staged
                  THEN Settled(k, store[k], snap[s].at, DataOf[s], ClientOf[s]) ELSE store[k]]

(* Every staged child still has a resource that is alive once the resources are merged. *)
ParentsAlive(s) ==
  \A k \in snap[s].staged \intersect Children :
     LET row == MergedStore(s)[ParentOf[k]] IN row # Absent /\ ~row.removed

(* The kinds whose removal is left to a newer full snapshot of the same Tool. *)
Superseded(s) ==
  UNION {ScopeOf[n] : n \in {n \in Committed : /\ ClientOf[n] = ClientOf[s]
                                               /\ snap[n].at > snap[s].at}}

\* Mutant: what was observed after the snapshot is removed as well.
MissingEvenNewer(s) ==
  {k \in Keys : LET row == MergedStore(s)[k] IN
     /\ Kind(k) \in ScopeOf[s] \ Superseded(s)
     /\ row # Absent /\ ~row.removed
     /\ row.client = ClientOf[s]
     /\ k \notin snap[s].staged}

(* What a full snapshot no longer contains, unless it was observed later than the snapshot. *)
Missing(s) ==
  {k \in Keys : LET row == MergedStore(s)[k] IN
     /\ Kind(k) \in ScopeOf[s] \ Superseded(s)
     /\ row # Absent /\ ~row.removed
     /\ row.client = ClientOf[s]
     /\ row.at <= snap[s].at
     /\ k \notin snap[s].staged}

\* Mutant: the last commit is the current one.
MovesAlways(s) == s \in Snaps

(* The pointer moves unless it stands on a newer snapshot. *)
MovesCurrent(s) ==
  ~ \E n \in Snaps : /\ snap[n].current /\ n # s /\ ClientOf[n] = ClientOf[s] /\ Full(n) = Full(s)
                     /\ snap[n].at > snap[s].at
SameSlot(n, s) == ClientOf[n] = ClientOf[s] /\ Full(n) = Full(s)

\* Mutant: a commit does not look at the status.
ClaimUnchecked(q, s, partial) ==
  /\ req[q].pc = "idle"
  /\ snap' = [snap EXCEPT ![s] = [@ EXCEPT !.status = "committing"]]
  /\ req' = [req EXCEPT ![q] = [pc |-> "claimed", snap |-> s, partial |-> partial]]
  /\ UNCHANGED <<store, seen, byHand, direct>>

(* A request whose answer is kept under its Idempotency-Key gets it again, and nothing changes; any other
   claims the snapshot. *)
Claim(q, s, partial) ==
  /\ req[q].pc = "idle"
  /\ Status(s) = "building"
  /\ snap' = [snap EXCEPT ![s] = [@ EXCEPT !.status = "committing"]]
  /\ req' = [req EXCEPT ![q] = [pc |-> "claimed", snap |-> s, partial |-> partial]]
  /\ UNCHANGED <<store, seen, byHand, direct>>

Done(q) == req' = [req EXCEPT ![q] = [@ EXCEPT !.pc = "idle"]]

(* The transaction of the merge commits, with the answer it keeps for repeats.  The connection to the database may
   break just then, and the server takes the commit for failed. *)
Merge(q) ==
  LET s == req[q].snap IN
  /\ req[q].pc = "claimed"
  /\ Status(s) = "committing"
  /\ CountsMatch(s, req[q].partial)
  /\ ParentsAlive(s)
  /\ store' = [k \in Keys |-> IF k \in Missing(s) THEN [MergedStore(s)[k] EXCEPT !.removed = TRUE]
                              ELSE MergedStore(s)[k]]
  /\ snap' = [n \in Snaps |->
                 IF n = s THEN [snap[s] EXCEPT !.status = "committed", !.current = MovesCurrent(s)]
                 ELSE IF SameSlot(n, s) /\ MovesCurrent(s) THEN [snap[n] EXCEPT !.current = FALSE]
                 ELSE snap[n]]
  /\ seen' = seen \union {[key |-> k, at |-> snap[s].at, data |-> DataOf[s]] : k \in snap[s].staged}
  /\ byHand' = {k \in byHand : store'[k].removed}
  /\ Done(q) \/ req' = [req EXCEPT ![q] = [@ EXCEPT !.pc = "reopen"]]
  /\ UNCHANGED direct

(* The transaction is rolled back: the contract is not met, the database is away (the snapshot is to be
   reopened), or something unexpected happened (it is to be failed). *)
MergeFails(q) ==
  LET s == req[q].snap IN
  /\ req[q].pc = "claimed"
  /\ \E pc \in {"reopen", "fail"} :
        /\ Status(s) # "committing" => pc = "reopen"
        /\ req' = [req EXCEPT ![q] = [@ EXCEPT !.pc = pc]]
  /\ UNCHANGED <<snap, store, seen, byHand, direct>>

(* The step after a failed commit touches the snapshot only if it is still committing. *)
Finish(q) ==
  LET s == req[q].snap IN
  /\ req[q].pc \in {"reopen", "fail"}
  /\ snap' = IF Status(s) = "committing"
             THEN [snap EXCEPT ![s] = [@ EXCEPT !.status = IF req[q].pc = "fail" THEN "failed" ELSE "building"]]
             ELSE snap
  /\ Done(q)
  /\ UNCHANGED <<store, seen, byHand, direct>>

(* The process dies, or the database is away when the snapshot should be reopened. *)
Crash(q) ==
  /\ req[q].pc # "idle"
  /\ Done(q)
  /\ UNCHANGED <<snap, store, seen, byHand, direct>>

-----------------------------------------------------------------------------
(* Writes outside snapshots *)

(* A resource sent on its own (/resources/batch). *)
WriteResource(c, k, t, d) ==
  /\ direct < MaxDirect
  /\ store' = [store EXCEPT ![k] = Settled(k, @, t, d, c)]
  /\ seen' = seen \union {[key |-> k, at |-> t, data |-> d]}
  /\ byHand' = {j \in byHand : store'[j].removed}
  /\ direct' = direct + 1
  /\ UNCHANGED <<snap, req>>

(* A resource taken out of the store by hand. *)
RemoveResource(k) ==
  /\ direct < MaxDirect
  /\ Live(k)
  /\ store' = [store EXCEPT ![k] = [@ EXCEPT !.removed = TRUE]]
  /\ byHand' = byHand \union {k}
  /\ direct' = direct + 1
  /\ UNCHANGED <<snap, req, seen>>

Next ==
  \/ \E s \in Snaps, t \in Times : Create(s, t)
  \/ \E s \in Snaps : \E kind \in {"resources", "metrics", "events"} : \E malformed \in SUBSET Spoiled : Stage(s, kind, malformed)
  \/ \E s \in Snaps : Expire(s) \/ FailStuck(s)
  \/ Purge
  \/ \E q \in Requests, s \in Snaps, partial \in BOOLEAN : Claim(q, s, partial)
  \/ \E q \in Requests : Merge(q) \/ MergeFails(q) \/ Finish(q) \/ Crash(q)
  \/ \E c \in Clients, k \in Resources, t \in Times, d \in Data : WriteResource(c, k, t, d)
  \/ \E k \in Resources : RemoveResource(k)

Spec == Init /\ [][Next]_vars

-----------------------------------------------------------------------------
(* Properties *)

\* ingest-data-contract R2: whatever the order in which snapshots and batches are committed, a row holds
\* the newest observation of its key that any of them contained.
NewestWins ==
  \A k \in Keys \ Immutable :
    LET observed == {o \in seen : o.key = k} IN
    /\ store[k] = Absent <=> observed = {}
    /\ store[k] # Absent => /\ \E o \in observed : o.at = store[k].at /\ o.data = store[k].data
                            /\ \A o \in observed : o.at <= store[k].at

\* ingest-data-contract R5 and R8: a row is only ever removed by hand, or by a full snapshot of its own
\* Tool that declares its kind complete, does not contain it, and is not older than the row.
RemovedIsExplained ==
  \A k \in Keys : store[k] # Absent /\ store[k].removed =>
    \/ k \in byHand
    \/ \E s \in Committed : /\ ClientOf[s] = store[k].client
                           /\ Kind(k) \in ScopeOf[s]
                           /\ snap[s].at >= store[k].at
                           /\ k \notin snap[s].staged

\* The pointer of a Tool and a type stands on exactly one snapshot once any is committed, and no committed
\* snapshot of them is newer (repository.flip_current).
CurrentIsNewest ==
  \A s \in Snaps :
    /\ snap[s].current => Status(s) = "committed"
    /\ s \in Committed =>
         /\ \E n \in Snaps : SameSlot(n, s) /\ snap[n].current /\ snap[n].at >= snap[s].at
         /\ \A n \in Snaps : SameSlot(n, s) /\ snap[n].current /\ snap[s].current => n = s

\* The store changes by whole snapshots, each at most once, and by single writes, and never goes back, whatever
\* requests repeat a commit and whatever they, the sweep or a crash leave behind (SnapshotService.commit).
Store == INSTANCE NewestStore WITH
  Fixed <- Immutable, Batches <- Snaps, Values <- Data, NoRecord <- Absent,
  best <- [k \in Keys |-> IF store[k] = Absent THEN Absent ELSE [at |-> store[k].at, data |-> store[k].data]],
  applied <- Committed
ImplementsStore == Store!Spec
=============================================================================
