----------------------- MODULE IntegrationJobs_proofs -----------------------
(***************************************************************************)
(* Theorems about the job queue of integration-service, for every set of   *)
(* jobs, resources, clients and tools and every value of the bounds.       *)
(***************************************************************************)
EXTENDS IntegrationJobs, FiniteSetTheorems, TLAPS

-----------------------------------------------------------------------------
(* One job *)

\* What holds of the row of a job in every reachable state.
RowInv(r) ==
    /\ r.status = "none" => r.attempts = 0
    /\ r.status = "pending" => r.attempts < MaxAttempts
    /\ r.status = "leased" => r.attempts > 0 /\ r.lease = r.attempts
    /\ r.status # "leased" => r.lease = 0
    /\ r.status # "done" => r.result = 0
    /\ r.attempts <= MaxAttempts

\* What one step may do to a row: the moves of a leased queue.
Move(r, s) ==
    \/ s.status = r.status /\ s.attempts = r.attempts /\ s.result = r.result
    \/ r.status = "none" /\ s.status = "pending" /\ s.attempts = r.attempts /\ s.result = r.result
    \/ /\ r.status \in Active /\ s.status = "leased" /\ s.result = r.result
       /\ r.attempts < MaxAttempts /\ s.attempts = r.attempts + 1
    \/ r.status = "leased" /\ s.status = "pending" /\ s.attempts = r.attempts /\ s.result = r.result
    \/ /\ r.status \in Active /\ s.status \in {"failed", "dead", "cancelled"}
       /\ s.attempts = r.attempts /\ s.result = r.result
    \/ /\ r.status = "leased" /\ s.status = "done" /\ s.attempts = r.attempts
       /\ SendsToken => s.result = r.attempts

Good(r, s) == s \in JobRecord /\ RowInv(s) /\ Move(r, s)

\* A row that ends, or goes back to the queue, loses its lease and nothing else.
LEMMA EndedRow ==
    ASSUME NEW r \in JobRecord, NEW status \in Active \cup Terminal
    PROVE  /\ Ended(r, status) \in JobRecord
           /\ Ended(r, status).status = status /\ Ended(r, status).lease = 0
           /\ Ended(r, status).attempts = r.attempts /\ Ended(r, status).result = r.result
           /\ Ended(r, status).client = r.client
  BY DEF JobRecord, Ended

\* What cancelling does to a row is a move.
LEMMA CancelledGood ==
    ASSUME NEW r \in JobRecord, RowInv(r), r.status \in Active
    PROVE  Good(r, Ended(r, "cancelled"))
  <1>1. "cancelled" \in Active \cup Terminal
    BY DEF Terminal
  <1> DEFINE s == Ended(r, "cancelled")
  <1>2. /\ s \in JobRecord /\ s.status = "cancelled" /\ s.lease = 0
        /\ s.attempts = r.attempts /\ s.result = r.result
    BY <1>1, EndedRow
  <1> HIDE DEF s
  <1>3. Good(r, s)
    BY <1>2 DEF Good, RowInv, Move, Active
  <1> QED
    BY <1>3 DEF s

\* Taking back a lease is a move, and what is pending after it has attempts left.
LEMMA ReclaimedGood ==
    ASSUME NEW r \in JobRecord, RowInv(r), r.status = "leased"
    PROVE  /\ Good(r, Reclaimed(r))
           /\ Reclaimed(r).attempts = r.attempts
           /\ Reclaimed(r).status \in {"pending", "dead"}
           /\ Reclaimed(r).result = 0
  <1> DEFINE status == IF r.attempts >= MaxAttempts THEN "dead" ELSE "pending"
             s == Ended(r, status)
  <1>1. status \in Active \cup Terminal /\ status \in {"pending", "dead"}
    BY DEF Active, Terminal
  <1>2. /\ s \in JobRecord /\ s.status = status /\ s.lease = 0
        /\ s.attempts = r.attempts /\ s.result = r.result
    BY <1>1, EndedRow
  <1>3. r.attempts \in Nat /\ MaxAttempts \in Nat
    BY JobsAssumption DEF JobRecord
  <1>4. status = "pending" => r.attempts < MaxAttempts
    BY <1>3
  <1> HIDE DEF s, status
  <1>5. Good(r, s) /\ s.status \in {"pending", "dead"} /\ s.result = 0
    BY <1>1, <1>2, <1>3, <1>4 DEF Good, RowInv, Move, Active
  <1> QED
    BY <1>2, <1>5 DEF s, status, Reclaimed

\* A claim of a row that waits is a move, and draws the token of the new attempt.
LEMMA ClaimedGood ==
    ASSUME NEW r \in JobRecord, RowInv(r), r.status = "pending", NEW client \in Clients
    PROVE  /\ Good(r, Claimed(r, client))
           /\ Claimed(r, client).status = "leased"
           /\ Claimed(r, client).attempts = r.attempts + 1
           /\ Claimed(r, client).result = r.result
  <1> DEFINE s == Claimed(r, client)
             n == r.attempts + 1
  <1>1. r.attempts \in Nat /\ MaxAttempts \in Nat /\ n \in Nat /\ n > 0 /\ n <= MaxAttempts
    BY JobsAssumption DEF JobRecord, RowInv
  <1> HIDE DEF n
  <1>2. s = [r EXCEPT !.status = "leased", !.attempts = n, !.lease = n, !.client = client, !.expired = FALSE]
    BY DEF Claimed, n, JobRecord
  <1>3. s \in JobRecord /\ s.status = "leased" /\ s.attempts = n /\ s.lease = n /\ s.result = r.result
    BY <1>1, <1>2 DEF JobRecord, Active
  <1> HIDE DEF s
  <1>4. n = r.attempts + 1
    BY DEF n
  <1>5. Good(r, s)
    BY <1>1, <1>3, <1>4 DEF Good, RowInv, Move, Active
  <1> QED
    BY <1>3, <1>4, <1>5 DEF s

\* A row that is taken back and claimed again in one transaction.
LEMMA ReclaimedClaimedGood ==
    ASSUME NEW r \in JobRecord, RowInv(r), r.status = "leased", NEW client \in Clients,
           Reclaimed(r).status = "pending"
    PROVE  /\ Good(r, Claimed(Reclaimed(r), client))
           /\ Claimed(Reclaimed(r), client).attempts = r.attempts + 1
  <1> DEFINE b == Reclaimed(r)
             s == Claimed(b, client)
  <1>1. b \in JobRecord /\ RowInv(b) /\ b.attempts = r.attempts /\ b.result = 0
    BY ReclaimedGood DEF Good
  <1>2. b.status = "pending"
    OBVIOUS
  <1>3. r.result = 0 /\ b.attempts < MaxAttempts
    BY <1>1, <1>2 DEF RowInv
  <1> HIDE DEF b
  <1>4. Good(b, s) /\ s.status = "leased" /\ s.attempts = b.attempts + 1 /\ s.result = b.result
    BY <1>1, <1>2, ClaimedGood
  <1> HIDE DEF s
  <1>5. Good(r, s)
    BY <1>1, <1>3, <1>4 DEF Good, Move, Active
  <1> QED
    BY <1>1, <1>4, <1>5 DEF s, b

\* A failure ends the lease: the row goes back, with attempts left, or ends.
LEMMA AfterFailGood ==
    ASSUME NEW r \in JobRecord, RowInv(r), r.status = "leased", NEW kind
    PROVE  /\ Good(r, AfterFail(r, kind))
           /\ AfterFail(r, kind).status \in {"pending", "dead", "failed"}
           /\ AfterFail(r, kind).attempts = r.attempts
  <1>1. r.attempts \in Nat /\ MaxAttempts \in Nat
    BY JobsAssumption DEF JobRecord
  <1>2. {"pending", "dead", "failed"} \subseteq Active \cup Terminal
    BY DEF Active, Terminal
  <1>3. CASE kind = "fail" /\ r.attempts < MaxAttempts
    <2> DEFINE b == Ended(r, "pending")
               s == [b EXCEPT !.waiting = TRUE]
    <2>1. /\ b \in JobRecord /\ b.status = "pending" /\ b.lease = 0
          /\ b.attempts = r.attempts /\ b.result = r.result
      BY <1>2, EndedRow
    <2> HIDE DEF b
    <2>2. /\ s \in JobRecord /\ s.status = "pending" /\ s.lease = 0
          /\ s.attempts = r.attempts /\ s.result = r.result
      BY <2>1 DEF JobRecord
    <2> HIDE DEF s
    <2>3. Good(r, s)
      BY <1>1, <1>3, <2>2 DEF Good, RowInv, Move
    <2> QED
      BY <1>3, <2>2, <2>3 DEF AfterFail, s, b
  <1>4. CASE ~(kind = "fail" /\ r.attempts < MaxAttempts)
    <2> DEFINE status == IF kind = "fail" THEN "dead" ELSE "failed"
               s == Ended(r, status)
    <2>1. status \in {"dead", "failed"}
      OBVIOUS
    <2> HIDE DEF status
    <2>2. /\ s \in JobRecord /\ s.status = status /\ s.lease = 0
          /\ s.attempts = r.attempts /\ s.result = r.result
      BY <1>2, <2>1, EndedRow
    <2> HIDE DEF s
    <2>3. Good(r, s)
      BY <2>1, <2>2 DEF Good, RowInv, Move, Active
    <2> QED
      BY <1>4, <2>1, <2>2, <2>3 DEF AfterFail, s, status
  <1> QED
    BY <1>3, <1>4

\* The result that is kept is that of the last claim, when the token is sent.
LEMMA DoneGood ==
    ASSUME NEW r \in JobRecord, RowInv(r), r.status = "leased", NEW l \in Nat, SendsToken => l = r.attempts
    PROVE  Good(r, [Ended(r, "done") EXCEPT !.result = l])
  <1> DEFINE b == Ended(r, "done")
             s == [b EXCEPT !.result = l]
  <1>1. /\ b \in JobRecord /\ b.status = "done" /\ b.lease = 0 /\ b.attempts = r.attempts
    BY EndedRow DEF Terminal
  <1> HIDE DEF b
  <1>2. s \in JobRecord /\ s.status = "done" /\ s.lease = 0 /\ s.attempts = r.attempts /\ s.result = l
    BY <1>1 DEF JobRecord
  <1> HIDE DEF s
  <1>3. Good(r, s)
    BY <1>2 DEF Good, RowInv, Move
  <1> QED
    BY <1>3 DEF s, b

-----------------------------------------------------------------------------
(* One step *)

Inv == TypeOK /\ \A j \in Jobs : RowInv(job[j])

\* A row that is left alone, or whose flags change.
LEMMA SameGood ==
    ASSUME NEW r \in JobRecord, RowInv(r), NEW s \in JobRecord,
           s.status = r.status, s.attempts = r.attempts, s.lease = r.lease, s.result = r.result
    PROVE  Good(r, s)
  BY DEF Good, RowInv, Move

\* A row that is inserted waits with all its attempts to come.
LEMMA InsertedGood ==
    ASSUME NEW r \in JobRecord, RowInv(r), r.status = "none"
    PROVE  Good(r, [r EXCEPT !.status = "pending"])
  <1> DEFINE s == [r EXCEPT !.status = "pending"]
  <1>1. /\ s \in JobRecord /\ s.status = "pending" /\ s.attempts = r.attempts
        /\ s.lease = r.lease /\ s.result = r.result
    BY DEF JobRecord, Active
  <1> HIDE DEF s
  <1>2. MaxAttempts > 0
    BY JobsAssumption
  <1>3. Good(r, s)
    BY <1>1, <1>2 DEF Good, RowInv, Move
  <1> QED
    BY <1>3 DEF s

\* What reclaim_expired leaves of a row.
LEMMA AfterReclaimGood ==
    ASSUME Inv, NEW skipped, NEW j \in Jobs
    PROVE  /\ Good(job[j], AfterReclaim(skipped)[j])
           /\ \/ AfterReclaim(skipped)[j] = job[j]
              \/ Status(j) = "leased" /\ AfterReclaim(skipped)[j] = Reclaimed(job[j])
  <1>1. job[j] \in JobRecord /\ RowInv(job[j])
    BY DEF Inv, TypeOK
  <1>2. CASE j \in Expired \ skipped
    BY <1>1, <1>2, ReclaimedGood DEF AfterReclaim, Expired, Status
  <1>3. CASE j \notin Expired \ skipped
    <2>1. AfterReclaim(skipped)[j] = job[j]
      BY <1>3 DEF AfterReclaim
    <2> QED
      BY <1>1, <2>1, SameGood
  <1> QED
    BY <1>2, <1>3

\* A claim moves every row it touches, and works under the new number of attempts.
LEMMA ClaimGood ==
    ASSUME Inv, NEW t \in Tools, NEW skipped, NEW taken \in SUBSET Claimable(AfterReclaim(skipped), t),
           job' = [j \in Jobs |-> IF j \in taken THEN Claimed(AfterReclaim(skipped)[j], ClientOf[t])
                                                ELSE AfterReclaim(skipped)[j]]
    PROVE  /\ \A j \in Jobs : Good(job[j], job'[j])
           /\ \A j \in taken : job'[j].attempts = AfterReclaim(skipped)[j].attempts + 1
  <1>1. ClientOf[t] \in Clients
    BY JobsAssumption
  <1>2. \A j \in taken : j \in Jobs /\ AfterReclaim(skipped)[j].status = "pending"
    BY JobsAssumption DEF Claimable
  <1>3. ASSUME NEW j \in taken
        PROVE  Good(job[j], job'[j]) /\ job'[j].attempts = AfterReclaim(skipped)[j].attempts + 1
    <2>1. j \in Jobs /\ AfterReclaim(skipped)[j].status = "pending"
      BY <1>2
    <2>2. job[j] \in JobRecord /\ RowInv(job[j])
      BY <2>1 DEF Inv, TypeOK
    <2>3. job'[j] = Claimed(AfterReclaim(skipped)[j], ClientOf[t])
      BY <2>1
    <2>4. CASE AfterReclaim(skipped)[j] = job[j]
      BY <1>1, <2>1, <2>2, <2>3, <2>4, ClaimedGood
    <2>5. CASE Status(j) = "leased" /\ AfterReclaim(skipped)[j] = Reclaimed(job[j])
      BY <1>1, <2>1, <2>2, <2>3, <2>5, ReclaimedClaimedGood, ReclaimedGood DEF Status
    <2> QED
      BY <2>1, <2>4, <2>5, AfterReclaimGood
  <1>4. ASSUME NEW j \in Jobs, j \notin taken
        PROVE  Good(job[j], job'[j])
    BY <1>4, AfterReclaimGood
  <1> QED
    BY <1>3, <1>4

\* A report is answered by moves, too.
LEMMA ReportGood ==
    ASSUME Inv, NEW m \in sent, Heartbeat(m) \/ Complete(m) \/ Fail(m)
    PROVE  \A j \in Jobs : Good(job[j], job'[j])
  <1> SUFFICES ASSUME NEW j \in Jobs
               PROVE  Good(job[j], job'[j])
    OBVIOUS
  <1>1. /\ job[j] \in JobRecord /\ RowInv(job[j])
        /\ m \in Report /\ m.job \in Jobs /\ m.lease \in Nat
        /\ job[m.job] \in JobRecord /\ RowInv(job[m.job])
        /\ job \in [Jobs -> JobRecord]
    BY DEF Inv, TypeOK, Report
  <1>2. CASE job'[j] = job[j]
    BY <1>1, <1>2, SameGood
  <1>3. CASE Heartbeat(m)
    <2>1. CASE j = m.job /\ job' = [job EXCEPT ![m.job].expired = FALSE]
      <3>1. job'[j] = [job[j] EXCEPT !.expired = FALSE]
        BY <1>1, <2>1
      <3>2. /\ [job[j] EXCEPT !.expired = FALSE] \in JobRecord
            /\ job'[j].status = job[j].status /\ job'[j].attempts = job[j].attempts
            /\ job'[j].lease = job[j].lease /\ job'[j].result = job[j].result
        BY <1>1, <3>1 DEF JobRecord
      <3> QED
        BY <1>1, <3>1, <3>2, SameGood
    <2> QED
      BY <1>1, <1>2, <1>3, <2>1 DEF Heartbeat
  <1>4. CASE Complete(m)
    <2>1. CASE /\ j = m.job /\ Holds(m) /\ Status(m.job) = "leased"
               /\ job' = [job EXCEPT ![m.job] = [Ended(@, "done") EXCEPT !.result = m.lease]]
      <3>1. job'[j] = [Ended(job[j], "done") EXCEPT !.result = m.lease]
        BY <1>1, <2>1
      <3>2. job[j].status = "leased" /\ (SendsToken => m.lease = job[j].attempts)
        BY <1>1, <2>1 DEF Status, Holds, RowInv, JobRecord
      <3> QED
        BY <1>1, <3>1, <3>2, DoneGood
    <2> QED
      BY <1>1, <1>2, <1>4, <2>1 DEF Complete
  <1>5. CASE Fail(m)
    <2>1. CASE /\ j = m.job /\ Status(m.job) = "leased"
               /\ job' = [job EXCEPT ![m.job] = AfterFail(@, m.kind)]
      <3>1. job'[j] = AfterFail(job[j], m.kind) /\ job[j].status = "leased"
        BY <1>1, <2>1 DEF Status
      <3> QED
        BY <1>1, <3>1, AfterFailGood
    <2> QED
      BY <1>1, <1>2, <1>5, <2>1 DEF Fail
  <1> QED
    BY <1>3, <1>4, <1>5

\* Every step moves every job as a leased queue does.
LEMMA StepGood ==
    ASSUME Inv, [Next]_vars
    PROVE  \A j \in Jobs : Good(job[j], job'[j])
  <1>1. /\ \A j \in Jobs : job[j] \in JobRecord /\ RowInv(job[j])
        /\ job \in [Jobs -> JobRecord]
    BY DEF Inv, TypeOK
  <1>2. ASSUME job' = job
        PROVE  \A j \in Jobs : Good(job[j], job'[j])
    BY <1>1, <1>2, SameGood
  <1>3. ASSUME NEW k \in Jobs, Status(k) = "none", job' = Inserted(k)
        PROVE  \A j \in Jobs : Good(job[j], job'[j])
    <2>1. job'[k] = [job[k] EXCEPT !.status = "pending"]
      BY <1>1, <1>3 DEF Inserted
    <2>2. \A j \in Jobs \ {k} : job'[j] = job[j]
      BY <1>1, <1>3 DEF Inserted
    <2>3. Good(job[k], job'[k])
      BY <1>1, <1>3, <2>1, InsertedGood DEF Status
    <2> QED
      BY <1>1, <2>2, <2>3, SameGood
  <1>4. CASE \E c \in Creators : CheckLocked(c) \/ \E j \in Jobs : ReadResource(c, j)
    BY <1>2, <1>4 DEF CheckLocked, ReadResource
  <1>5. ASSUME NEW c \in Creators, Insert(c)
        PROVE  \A j \in Jobs : Good(job[j], job'[j])
    <2>1. creating[c].job \in Jobs
      BY DEF Inv, TypeOK, Creation
    <2> QED
      BY <1>2, <1>3, <1>5, <2>1 DEF Insert
  <1>6. ASSUME NEW k \in Jobs, Cancel(k)
        PROVE  \A j \in Jobs : Good(job[j], job'[j])
    <2>1. job'[k] = Ended(job[k], "cancelled") /\ job[k].status \in Active
      BY <1>1, <1>6 DEF Cancel, Status
    <2>2. \A j \in Jobs \ {k} : job'[j] = job[j]
      BY <1>1, <1>6 DEF Cancel
    <2>3. Good(job[k], job'[k])
      BY <1>1, <2>1, CancelledGood
    <2> QED
      BY <1>1, <2>2, <2>3, SameGood
  <1>7. ASSUME NEW x \in Resources, SwitchOff(x)
        PROVE  \A j \in Jobs : Good(job[j], job'[j])
    <2> SUFFICES ASSUME NEW j \in Jobs
                 PROVE  Good(job[j], job'[j])
      OBVIOUS
    <2>1. CASE Status(j) = "pending" /\ job'[j] = Ended(job[j], "cancelled")
      BY <1>1, <2>1, CancelledGood DEF Status, Active
    <2>2. CASE job'[j] = job[j]
      BY <1>1, <2>2, SameGood
    <2> QED
      BY <1>7, <2>1, <2>2 DEF SwitchOff
  <1>8. ASSUME NEW x \in Resources, SwitchOn(x)
        PROVE  \A j \in Jobs : Good(job[j], job'[j])
    <2>1. \/ job' = job
          \/ \E k \in Jobs : Status(k) = "none" /\ job' = Inserted(k)
      BY <1>8, JobsAssumption DEF SwitchOn
    <2> QED
      BY <1>2, <1>3, <2>1
  <1>9. ASSUME NEW t \in Tools, ClaimJobs(t)
        PROVE  \A j \in Jobs : Good(job[j], job'[j])
    BY <1>9, ClaimGood DEF ClaimJobs
  <1>10. CASE \E t \in Tools, j \in Jobs : Abandon(t, j) \/ \E kind \in Reports : SendReport(t, j, kind)
    BY <1>2, <1>10 DEF Abandon, SendReport
  <1>11. CASE Sweep
    BY <1>11, AfterReclaimGood DEF Sweep
  <1>12. ASSUME NEW k \in Jobs, LeaseExpires(k) \/ BackoffEnds(k)
         PROVE  \A j \in Jobs : Good(job[j], job'[j])
    <2>1. \/ job' = [job EXCEPT ![k].expired = TRUE]
          \/ job' = [job EXCEPT ![k].waiting = FALSE]
      BY <1>12 DEF LeaseExpires, BackoffEnds
    <2>2. job'[k] = [job[k] EXCEPT !.expired = TRUE] \/ job'[k] = [job[k] EXCEPT !.waiting = FALSE]
      BY <1>1, <2>1
    <2>3. \A j \in Jobs \ {k} : job'[j] = job[j]
      BY <1>1, <2>1
    <2>4. /\ job'[k] \in JobRecord /\ job'[k].status = job[k].status /\ job'[k].attempts = job[k].attempts
          /\ job'[k].lease = job[k].lease /\ job'[k].result = job[k].result
      BY <1>1, <2>2 DEF JobRecord
    <2>5. Good(job[k], job'[k])
      BY <1>1, <2>4, SameGood
    <2> QED
      BY <1>1, <2>3, <2>5, SameGood
  <1>13. CASE (\E k \in answers : PurgeKey(k)) \/ UNCHANGED vars
    BY <1>2, <1>13 DEF PurgeKey, vars
  <1>14. CASE UserStep
    BY <1>4, <1>5, <1>6, <1>7, <1>8, <1>14 DEF UserStep
  <1>15. CASE ToolStep
    BY <1>9, <1>10, <1>15 DEF ToolStep
  <1>16. CASE ServerStep
    BY <1>16, ReportGood DEF ServerStep
  <1>17. CASE TimeStep
    BY <1>11, <1>12, <1>13, <1>17 DEF TimeStep
  <1> QED
    BY <1>13, <1>14, <1>15, <1>16, <1>17 DEF Next

\* job stays a function of the jobs.
LEMMA StepIsFunction ==
    ASSUME job \in [Jobs -> JobRecord], [Next]_vars
    PROVE  job' = [j \in Jobs |-> job'[j]]
  <1>1. CASE UserStep
    BY <1>1 DEF UserStep, CheckLocked, Insert, ReadResource, Cancel, SwitchOff, SwitchOn, Inserted
  <1>2. CASE ToolStep
    BY <1>2 DEF ToolStep, ClaimJobs, Abandon, SendReport
  <1>3. CASE ServerStep
    BY <1>3 DEF ServerStep, Heartbeat, Complete, Fail
  <1>4. CASE TimeStep
    BY <1>4 DEF TimeStep, Sweep, AfterReclaim, LeaseExpires, BackoffEnds, PurgeKey
  <1>5. CASE UNCHANGED vars
    BY <1>5 DEF vars
  <1> QED
    BY <1>1, <1>2, <1>3, <1>4, <1>5 DEF Next

\* The other variables keep their types.
LEMMA StepTypes ==
    ASSUME Inv, [Next]_vars
    PROVE  TypeOK'
  <1> USE DEF TypeOK
  <1>1. job' \in [Jobs -> JobRecord]
    <2>1. \A j \in Jobs : job'[j] \in JobRecord
      BY StepGood DEF Good
    <2> QED
      BY <2>1, StepIsFunction DEF Inv
  <1>2. CASE UserStep
    <2>1. UNCHANGED <<answers, work, sent, failed>>
      BY <1>2 DEF UserStep, CheckLocked, Insert, ReadResource, Cancel, SwitchOff, SwitchOn
    <2>2. creating' \in [Creators -> Creation]
      BY <1>2 DEF Inv, UserStep, CheckLocked, Insert, ReadResource, Cancel, SwitchOff, SwitchOn, CreatorAt, Creation
    <2>3. fallback' \in [Resources -> BOOLEAN]
      BY <1>2 DEF Inv, UserStep, CheckLocked, Insert, ReadResource, Cancel, SwitchOff, SwitchOn
    <2> QED
      BY <1>1, <2>1, <2>2, <2>3 DEF Inv
  <1>3. CASE ToolStep
    <2>1. UNCHANGED <<fallback, answers, creating, failed>>
      BY <1>3 DEF ToolStep, ClaimJobs, Abandon, SendReport
    <2>2. work' \in [Tools -> [Jobs -> Nat]]
      <3>1. ASSUME NEW t \in Tools, ClaimJobs(t)
            PROVE  work' \in [Tools -> [Jobs -> Nat]]
        <4>1. PICK skipped \in SUBSET Expired : \E taken \in SUBSET Claimable(AfterReclaim(skipped), t) :
                \/ work' = [work EXCEPT ![t] = [j \in Jobs |-> IF j \in taken THEN AfterReclaim(skipped)[j].attempts + 1
                                                              ELSE @[j]]]
                \/ UNCHANGED work
          BY <3>1 DEF ClaimJobs
        <4>2. \A j \in Jobs : AfterReclaim(skipped)[j].attempts \in Nat
          BY AfterReclaimGood DEF Good, JobRecord
        <4>3. work \in [Tools -> [Jobs -> Nat]]
          BY DEF Inv, TypeOK
        <4> QED
          BY <4>1, <4>2, <4>3
      <3>2. ASSUME NEW t \in Tools, NEW j \in Jobs, Abandon(t, j)
            PROVE  work' \in [Tools -> [Jobs -> Nat]]
        BY <3>2 DEF Inv, TypeOK, Abandon
      <3>3. ASSUME NEW t \in Tools, NEW j \in Jobs, NEW kind \in Reports, SendReport(t, j, kind)
            PROVE  work' \in [Tools -> [Jobs -> Nat]]
        BY <3>3 DEF Inv, TypeOK, SendReport
      <3> QED
        BY <1>3, <3>1, <3>2, <3>3 DEF ToolStep
    <2>3. sent' \subseteq Report
      BY <1>3, JobsAssumption DEF Inv, ToolStep, ClaimJobs, Abandon, SendReport, Report
    <2> QED
      BY <1>1, <2>1, <2>2, <2>3 DEF Inv
  <1>4. CASE ServerStep
    <2>1. PICK m \in sent : Heartbeat(m) \/ Complete(m) \/ Fail(m)
      BY <1>4 DEF ServerStep
    <2>2. /\ m \in Report /\ m.kind \in ReportKinds /\ m.tool \in Tools /\ m.job \in Jobs /\ m.lease \in Nat
          /\ KeyOf(m) \in KeyRecord
      BY JobsAssumption DEF Inv, Report, KeyOf, KeyRecord
    <2>3. /\ UNCHANGED <<fallback, creating>> /\ Answer(m)
          /\ answers' \subseteq answers \cup {KeyOf(m)} /\ failed' \subseteq failed \cup {m}
      BY <2>1 DEF Heartbeat, Complete, Fail, Store
    <2>4. sent' \subseteq sent /\ work' \in [Tools -> [Jobs -> Nat]]
      BY <2>2, <2>3 DEF Inv, Answer
    <2> QED
      BY <1>1, <2>2, <2>3, <2>4 DEF Inv
  <1>5. CASE TimeStep
    BY <1>1, <1>5 DEF Inv, TimeStep, Sweep, LeaseExpires, BackoffEnds, PurgeKey
  <1>6. CASE UNCHANGED vars
    BY <1>6 DEF Inv, vars
  <1> QED
    BY <1>2, <1>3, <1>4, <1>5, <1>6 DEF Next

\* The invariant holds at first and is kept.
LEMMA InvHolds == Spec => []Inv
  <1>1. Init => Inv
    <2> SUFFICES ASSUME Init
                 PROVE  Inv
      OBVIOUS
    <2>1. job \in [Jobs -> JobRecord]
      BY DEF Init, JobRecord
    <2>2. creating \in [Creators -> Creation]
      BY DEF Init, Creation
    <2>3. \A j \in Jobs : RowInv(job[j])
      BY JobsAssumption DEF Init, RowInv
    <2> QED
      BY <2>1, <2>2, <2>3 DEF Init, Inv, TypeOK
  <1>2. Inv /\ [Next]_vars => Inv'
    <2> SUFFICES ASSUME Inv, [Next]_vars
                 PROVE  Inv'
      OBVIOUS
    <2>1. \A j \in Jobs : RowInv(job'[j])
      BY StepGood DEF Good
    <2>2. \A j \in Jobs : RowInv(job[j])'
      BY <2>1 DEF RowInv
    <2> QED
      BY <2>2, StepTypes DEF Inv
  <1> QED
    BY <1>1, <1>2, PTL DEF Spec

-----------------------------------------------------------------------------
\* Every variable keeps its type: the rows of the queue, the idempotency keys, the requests under way and
\* the leases and reports of the tools (jobs/service.py, idempotency/guard.py).
THEOREM TypeCorrect == Spec => []TypeOK
  <1>1. Inv => TypeOK
    BY DEF Inv
  <1> QED
    BY <1>1, InvHolds, PTL

-----------------------------------------------------------------------------
(* The queue is one of leased jobs *)

\* A move of a row is a move of the job in the abstract queue.
LEMMA MoveRefines ==
    ASSUME Inv, SendsToken, NEW j \in Jobs, Good(job[j], job'[j])
    PROVE  \/ Queue!Stays(j) \/ Queue!Added(j) \/ Queue!Taken(j)
           \/ Queue!GivenBack(j) \/ Queue!Dropped(j) \/ Queue!Delivered(j)
  <1>1. Move(job[j], job'[j]) /\ job[j].status \in {"none"} \cup Active \cup Terminal
    BY DEF Good, Inv, TypeOK, JobRecord
  <1> QED
    BY <1>1 DEF Move, Place, Status, Active, Terminal,
                Queue!Stays, Queue!Added, Queue!Taken, Queue!GivenBack, Queue!Dropped, Queue!Delivered

\* The job queue is a queue of leased jobs, when the tools send their token: one holder at a time, at most
\* max_attempts claims, no result but that of the last lease and no return from the end, whatever is lost
\* or repeated on the network and whatever is claimed, swept, cancelled and switched meanwhile
\* (claim, _require_holder, complete, fail of jobs/service.py; reclaim_expired of jobs/repository.py).
THEOREM ImplementsLeasedQueue ==
    ASSUME SendsToken
    PROVE  Spec => ImplementsQueue
  <1>1. Init => Queue!Init
    BY DEF Init, Queue!Init, Place, Status
  <1>2. Inv /\ [Next]_vars => [Queue!Next]_Queue!vars
    <2> SUFFICES ASSUME Inv, [Next]_vars
                 PROVE  Queue!Next
      OBVIOUS
    <2>1. \A j \in Jobs : Good(job[j], job'[j])
      BY StepGood
    <2>2. \A j \in Jobs : \/ Queue!Stays(j) \/ Queue!Added(j) \/ Queue!Taken(j)
                          \/ Queue!GivenBack(j) \/ Queue!Dropped(j) \/ Queue!Delivered(j)
      BY <2>1, MoveRefines
    <2>3. \A j \in Jobs : job'[j].attempts \in Nat /\ job'[j].result \in Nat
      BY <2>1 DEF Good, JobRecord
    <2> QED
      BY <2>2, <2>3 DEF Queue!Next, Place, Status
  <1> QED
    BY <1>1, <1>2, InvHolds, PTL DEF Spec, ImplementsQueue, Queue!Spec

-----------------------------------------------------------------------------
(* Creating jobs at the same time *)

Locked == {c \in Creators : creating[c].at = "locked"}

\* The owner's lock is held by one request at a time, and what was checked under it stays true.
LockInv ==
    /\ \A c, d \in Locked : c = d
    /\ \A c \in Locked : Duplicates(creating[c].job) = {} /\ ~Full

CreateInv == LockInv /\ OneActivePerKey /\ ActiveWithinLimit

\* A step that adds no job.
Quiet == \A j \in Jobs : Status(j) = "none" => Status(j)' = "none"
\* A step that adds one, checked by the same transaction or under the lock.
Adds(j) ==
    /\ job' = Inserted(j) /\ Status(j) = "none"
    /\ Duplicates(j) = {} /\ ~Full

\* Only Insert and SwitchOn add jobs.
LEMMA StepAdds ==
    ASSUME Inv, LockInv, [Next]_vars
    PROVE  \/ Quiet /\ Locked' \subseteq Locked /\ \A c \in Locked' : creating'[c].job = creating[c].job
           \/ \E c \in Creators : CheckLocked(c)
           \/ \E j \in Jobs : Adds(j) /\ Locked' = {}
  <1>1. /\ job \in [Jobs -> JobRecord] /\ creating \in [Creators -> Creation]
        /\ \A c \in Creators : creating[c].job \in Jobs
    BY DEF Inv, TypeOK, Creation
  <1>2. CASE \E c \in Creators, j \in Jobs : ReadResource(c, j)
    <2>1. Quiet
      BY <1>2 DEF ReadResource, Quiet, Status
    <2>2. PICK c \in Creators, j \in Jobs : creating' = [creating EXCEPT ![c] = [at |-> "read", job |-> j]]
      BY <1>2 DEF ReadResource
    <2>3. Locked' \subseteq Locked /\ \A d \in Locked' : creating'[d] = creating[d]
      BY <1>1, <2>2 DEF Locked
    <2> QED
      BY <2>1, <2>3
  <1>3. ASSUME NEW c \in Creators, Insert(c)
        PROVE  \/ Quiet /\ Locked' \subseteq Locked /\ \A d \in Locked' : creating'[d].job = creating[d].job
               \/ \E j \in Jobs : Adds(j) /\ Locked' = {}
    <2>1. c \in Locked /\ creating' = [creating EXCEPT ![c].at = "idle"]
      BY <1>3 DEF Insert, CreatorAt, Locked
    <2>2. creating'[c].at = "idle" /\ \A d \in Creators \ {c} : creating'[d] = creating[d]
      BY <1>1, <2>1 DEF Creation
    <2>3. Locked' = {} /\ Duplicates(creating[c].job) = {} /\ ~Full
      BY <2>1, <2>2 DEF Locked, LockInv
    <2>4. \/ job' = job
          \/ job' = Inserted(creating[c].job) /\ Status(creating[c].job) = "none"
      BY <1>3 DEF Insert
    <2>5. CASE job' = job
      BY <2>3, <2>5 DEF Quiet, Status
    <2> QED
      BY <1>1, <2>3, <2>4, <2>5 DEF Adds
  <1>4. CASE \E k \in Jobs : Cancel(k)
    <2>1. PICK k \in Jobs : Status(k) \in Active /\ job' = [job EXCEPT ![k] = Ended(@, "cancelled")]
                          /\ UNCHANGED creating
      BY <1>4 DEF Cancel
    <2>2. Quiet
      BY <1>1, <2>1 DEF Quiet, Status, Active
    <2> QED
      BY <2>1, <2>2 DEF Locked
  <1>5. CASE \E x \in Resources : SwitchOff(x)
    <2>1. Quiet /\ UNCHANGED creating
      BY <1>5 DEF SwitchOff, Quiet, Status
    <2> QED
      BY <2>1 DEF Locked
  <1>6. ASSUME NEW x \in Resources, SwitchOn(x)
        PROVE  \/ Quiet /\ UNCHANGED creating
               \/ \E j \in Jobs : Adds(j) /\ Locked' = {}
    <2>1. Locked' = {} /\ UNCHANGED creating
      BY <1>6 DEF SwitchOn, LockFree, Locked
    <2>2. CASE job' = job
      BY <2>1, <2>2 DEF Quiet, Status
    <2>3. CASE \E j \in Jobs : Adds(j)
      BY <2>1, <2>3
    <2> QED
      BY <1>6, <2>2, <2>3, JobsAssumption DEF SwitchOn, Adds
  <1>7. CASE \E t \in Tools : ClaimJobs(t)
    <2>1. PICK t \in Tools, skipped \in SUBSET Expired : \E taken \in SUBSET Claimable(AfterReclaim(skipped), t) :
             job' = [j \in Jobs |-> IF j \in taken THEN Claimed(AfterReclaim(skipped)[j], ClientOf[t])
                                  ELSE AfterReclaim(skipped)[j]]
      BY <1>7 DEF ClaimJobs
    <2>2. Quiet
      BY <2>1, AfterReclaimGood DEF Quiet, Status, Claimable
    <2> QED
      BY <1>7, <2>2 DEF ClaimJobs, Locked
  <1>8. CASE ServerStep
    <2>1. PICK m \in sent : Heartbeat(m) \/ Complete(m) \/ Fail(m)
      BY <1>8 DEF ServerStep
    <2>2. Quiet
      <3>1. m.job \in Jobs
        BY DEF Inv, TypeOK, Report
      <3>2. \A j \in Jobs : job'[j] = job[j] \/ Status(j) = "leased"
        BY <1>1, <2>1, <3>1 DEF Heartbeat, Complete, Fail, Status
      <3> QED
        BY <3>2 DEF Quiet, Status
    <2> QED
      BY <2>1, <2>2 DEF Heartbeat, Complete, Fail, Locked
  <1>9. CASE \/ UNCHANGED vars
             \/ \E t \in Tools, j \in Jobs : Abandon(t, j) \/ \E kind \in Reports : SendReport(t, j, kind)
             \/ \E k \in answers : PurgeKey(k)
    BY <1>9 DEF vars, Abandon, SendReport, PurgeKey, Quiet, Status, Locked
  <1>10. CASE Sweep
    <2>1. Quiet
      BY <1>10, AfterReclaimGood DEF Sweep, Quiet, Status
    <2> QED
      BY <1>10, <2>1 DEF Sweep, Locked
  <1>11. CASE \E k \in Jobs : LeaseExpires(k) \/ BackoffEnds(k)
    <2>1. \A j \in Jobs : job'[j].status = job[j].status
      BY <1>1, <1>11 DEF LeaseExpires, BackoffEnds, JobRecord
    <2> QED
      BY <1>11, <2>1 DEF LeaseExpires, BackoffEnds, Quiet, Status, Locked
  <1>12. CASE UserStep
    BY <1>2, <1>3, <1>4, <1>5, <1>6, <1>12 DEF UserStep, Locked
  <1>13. CASE ToolStep \/ ServerStep \/ TimeStep
    BY <1>7, <1>8, <1>9, <1>10, <1>11, <1>13 DEF ToolStep, TimeStep
  <1> QED
    BY <1>9, <1>12, <1>13 DEF Next

\* No job becomes active unless it is added.
LEMMA QuietShrinks ==
    ASSUME Inv, [Next]_vars, Quiet
    PROVE  ActiveJobs' \subseteq ActiveJobs
  <1>1. \A j \in Jobs : Move(job[j], job'[j])
    BY StepGood DEF Good
  <1> QED
    BY <1>1 DEF Quiet, ActiveJobs, Status, Active, Move

\* Fewer active jobs mean no new duplicate and no more than before.
LEMMA Shrinks ==
    ASSUME ActiveJobs' \subseteq ActiveJobs
    PROVE  /\ OneActivePerKey => OneActivePerKey'
           /\ ActiveWithinLimit => ActiveWithinLimit'
           /\ ~Full => ~Full'
           /\ \A j \in Jobs : Duplicates(j) = {} => Duplicates(j)' = {}
  <1>1. IsFiniteSet(ActiveJobs)
    BY JobsAssumption, FS_Subset DEF ActiveJobs
  <1>2. IsFiniteSet(ActiveJobs') /\ Cardinality(ActiveJobs') <= Cardinality(ActiveJobs)
    BY <1>1, FS_Subset
  <1>3. Cardinality(ActiveJobs) \in Nat /\ Cardinality(ActiveJobs') \in Nat /\ MaxActive \in Nat
    BY <1>1, <1>2, JobsAssumption, FS_CardinalityType
  <1> QED
    BY <1>2, <1>3 DEF OneActivePerKey, ActiveWithinLimit, Full, Duplicates

\* A job that is added is the only one with its key, and finds room.
LEMMA AddsKeeps ==
    ASSUME Inv, OneActivePerKey, NEW j \in Jobs, Adds(j)
    PROVE  OneActivePerKey' /\ ActiveWithinLimit'
  <1>1. ActiveJobs' = ActiveJobs \cup {j} /\ j \notin ActiveJobs
    BY DEF Inv, TypeOK, Adds, Inserted, ActiveJobs, Status, Active
  <1>2. IsFiniteSet(ActiveJobs)
    BY JobsAssumption, FS_Subset DEF ActiveJobs
  <1>3. Cardinality(ActiveJobs') = Cardinality(ActiveJobs) + 1
    BY <1>1, <1>2, FS_AddElement
  <1>4. Cardinality(ActiveJobs) \in Nat /\ MaxActive \in Nat
    BY <1>2, JobsAssumption, FS_CardinalityType
  <1>5. ActiveWithinLimit'
    BY <1>3, <1>4 DEF Adds, Full, ActiveWithinLimit
  <1>6. OneActivePerKey'
    BY <1>1 DEF OneActivePerKey, Adds, Duplicates
  <1> QED
    BY <1>5, <1>6

\* The lock and what is checked under it keep both promises.
LEMMA CreateInvHolds == Spec => []CreateInv
  <1>1. Init => CreateInv
    <2> SUFFICES ASSUME Init
                 PROVE  CreateInv
      OBVIOUS
    <2>1. ActiveJobs = {} /\ Locked = {}
      BY DEF Init, ActiveJobs, Status, Active, Locked
    <2>2. Cardinality(ActiveJobs) = 0 /\ MaxActive \in Nat
      BY <2>1, FS_EmptySet, JobsAssumption
    <2> QED
      BY <2>1, <2>2 DEF CreateInv, LockInv, OneActivePerKey, ActiveWithinLimit
  <1>2. Inv /\ CreateInv /\ [Next]_vars => CreateInv'
    <2> SUFFICES ASSUME Inv, CreateInv, [Next]_vars
                 PROVE  CreateInv'
      OBVIOUS
    <2>1. CASE Quiet /\ Locked' \subseteq Locked /\ \A c \in Locked' : creating'[c].job = creating[c].job
      <3>1. ActiveJobs' \subseteq ActiveJobs
        BY <2>1, QuietShrinks
      <3>2. \A c \in Locked : creating[c].job \in Jobs
        BY DEF Locked, Inv, TypeOK, Creation
      <3>3. OneActivePerKey' /\ ActiveWithinLimit'
        BY <3>1, Shrinks DEF CreateInv
      <3>4. \A c \in Locked' : Duplicates(creating[c].job) = {} /\ ~Full
        BY <2>1 DEF CreateInv, LockInv
      <3>5. ASSUME NEW c \in Locked'
            PROVE  (Duplicates(creating[c].job) = {} /\ ~Full)'
        <4>1. PICK k \in Jobs : creating[c].job = k /\ creating'[c].job = k
          BY <2>1, <3>2
        <4>2. Duplicates(k)' = {} /\ ~Full'
          BY <3>1, <3>4, <4>1, Shrinks
        <4> QED
          BY <4>1, <4>2 DEF Duplicates
      <3>6. LockInv'
        BY <2>1, <3>5 DEF CreateInv, LockInv
      <3> QED
        BY <3>3, <3>6 DEF CreateInv
    <2>2. ASSUME NEW c \in Creators, CheckLocked(c)
          PROVE  CreateInv'
      <3>1. UNCHANGED job /\ Locked = {}
        BY <2>2 DEF CheckLocked, LockFree, Locked
      <3>2. creating' = [creating EXCEPT ![c].at = IF Duplicates(creating[c].job) # {} \/ Full THEN "idle" ELSE "locked"]
        BY <2>2 DEF CheckLocked, CreatorAt
      <3>3. creating \in [Creators -> Creation]
        BY DEF Inv, TypeOK
      <3>4. /\ Locked' \subseteq {c} /\ creating'[c].job = creating[c].job
            /\ Locked' # {} => Duplicates(creating[c].job) = {} /\ ~Full
        BY <3>1, <3>2, <3>3 DEF Locked, Creation
      <3>5. \A j : Duplicates(j)' = Duplicates(j)
        BY <3>1 DEF Duplicates, ActiveJobs, Status
      <3>6. Full' = Full /\ (OneActivePerKey' <=> OneActivePerKey) /\ (ActiveWithinLimit' <=> ActiveWithinLimit)
        BY <3>1 DEF Full, OneActivePerKey, ActiveWithinLimit, ActiveJobs, Status
      <3>7. LockInv'
        BY <3>4, <3>5, <3>6 DEF LockInv
      <3> QED
        BY <3>6, <3>7 DEF CreateInv
    <2>3. ASSUME NEW j \in Jobs, Adds(j), Locked' = {}
          PROVE  CreateInv'
      BY <2>3, AddsKeeps DEF CreateInv, LockInv
    <2> QED
      BY <2>1, <2>2, <2>3, StepAdds DEF CreateInv
  <1> QED
    BY <1>1, <1>2, InvHolds, PTL DEF Spec

\* The limit of active jobs of an owner holds, however many requests create jobs at the same time
\* (JobService.create: the count is taken under the owner's lock; the row is inserted before it is freed).
THEOREM LimitHolds == Spec => []ActiveWithinLimit
  <1>1. CreateInv => ActiveWithinLimit
    BY DEF CreateInv
  <1> QED
    BY <1>1, CreateInvHolds, PTL

\* No two active jobs of an owner share a dedupe_key, without the help of the unique index
\* (JobService.create, _ensure_collect_job).
THEOREM KeysAreUnique == Spec => []OneActivePerKey
  <1>1. CreateInv => OneActivePerKey
    BY DEF CreateInv
  <1> QED
    BY <1>1, CreateInvHolds, PTL

-----------------------------------------------------------------------------
(* Failures take effect *)

\* Lease l of the job has been, and is not the present one.
Over(j, l) == l <= job[j].attempts /\ ~(Status(j) = "leased" /\ job[j].attempts = l)

FailInv ==
    /\ \A t \in Tools, j \in Jobs : work[t][j] <= job[j].attempts
    /\ \A m \in sent : m.lease <= job[m.job].attempts
    /\ \A k \in answers : k.kind \in {"fail", "giveup"} => Over(k.job, k.lease)
    /\ \A m \in failed : Over(m.job, m.lease)

\* A lease that is over stays over, and attempts are never taken back.
LEMMA OverStays ==
    ASSUME Inv, [Next]_vars, NEW j \in Jobs, NEW l \in Nat
    PROVE  /\ Over(j, l) => Over(j, l)'
           /\ l <= job[j].attempts => l <= job'[j].attempts
  <1>1. Move(job[j], job'[j]) /\ job[j].attempts \in Nat /\ job'[j].attempts \in Nat
    BY StepGood DEF Good, Inv, TypeOK, JobRecord
  <1> QED
    BY <1>1 DEF Move, Over, Status, Active

\* What was true of leases, reports, keys and failures before a step is true after it.
LEMMA FailInvCarries ==
    ASSUME Inv, FailInv, [Next]_vars
    PROVE  /\ \A t \in Tools, j \in Jobs : work[t][j] <= job'[j].attempts
           /\ \A m \in sent : m.lease <= job'[m.job].attempts
           /\ \A k \in answers : k.kind \in {"fail", "giveup"} => Over(k.job, k.lease)'
           /\ \A m \in failed : Over(m.job, m.lease)'
  <1>1. /\ \A t \in Tools, j \in Jobs : work[t][j] \in Nat
        /\ \A m \in sent \cup failed : m.job \in Jobs /\ m.lease \in Nat
        /\ \A k \in answers : k.job \in Jobs /\ k.lease \in Nat
    BY DEF Inv, TypeOK, Report, KeyRecord
  <1> QED
    BY <1>1, OverStays DEF FailInv

\* A claim works under the number of attempts it leaves.
LEMMA ClaimKeepsWork ==
    ASSUME Inv, FailInv, [Next]_vars, NEW t \in Tools, ClaimJobs(t)
    PROVE  \A u \in Tools, j \in Jobs : work'[u][j] <= job'[j].attempts
  <1>1. PICK skipped \in SUBSET Expired : \E taken \in SUBSET Claimable(AfterReclaim(skipped), t) :
          /\ job' = [j \in Jobs |-> IF j \in taken THEN Claimed(AfterReclaim(skipped)[j], ClientOf[t])
                                   ELSE AfterReclaim(skipped)[j]]
          /\ \/ work' = [work EXCEPT ![t] = [j \in Jobs |-> IF j \in taken THEN AfterReclaim(skipped)[j].attempts + 1
                                                          ELSE @[j]]]
             \/ UNCHANGED work
    BY DEF ClaimJobs
  <1>2. PICK taken \in SUBSET Claimable(AfterReclaim(skipped), t) :
          /\ job' = [j \in Jobs |-> IF j \in taken THEN Claimed(AfterReclaim(skipped)[j], ClientOf[t])
                                   ELSE AfterReclaim(skipped)[j]]
          /\ \/ work' = [work EXCEPT ![t] = [j \in Jobs |-> IF j \in taken THEN AfterReclaim(skipped)[j].attempts + 1
                                                          ELSE @[j]]]
             \/ UNCHANGED work
    BY <1>1
  <1>3. \A j \in taken : job'[j].attempts = AfterReclaim(skipped)[j].attempts + 1
    BY <1>2, ClaimGood
  <1>4. \A j \in Jobs : job'[j].attempts \in Nat /\ AfterReclaim(skipped)[j].attempts \in Nat
    BY StepGood, AfterReclaimGood DEF Good, JobRecord
  <1>5. work \in [Tools -> [Jobs -> Nat]] /\ \A u \in Tools, j \in Jobs : work[u][j] <= job'[j].attempts
    BY FailInvCarries DEF Inv, TypeOK
  <1>6. CASE UNCHANGED work
    BY <1>5, <1>6
  <1>7. CASE work' = [work EXCEPT ![t] = [j \in Jobs |-> IF j \in taken THEN AfterReclaim(skipped)[j].attempts + 1
                                                       ELSE @[j]]]
    <2>1. \A u \in Tools, j \in Jobs :
             work'[u][j] = IF u = t /\ j \in taken THEN AfterReclaim(skipped)[j].attempts + 1 ELSE work[u][j]
      BY <1>5, <1>7
    <2> QED
      BY <1>3, <1>4, <1>5, <2>1
  <1> QED
    BY <1>2, <1>6, <1>7

\* A failure that is answered with success is over.
LEMMA AnsweredFailIsOver ==
    ASSUME SendsToken, FreshKeys, Inv, FailInv, [Next]_vars, NEW m \in sent, Fail(m), failed' # failed
    PROVE  Over(m.job, m.lease)'
  <1>1. /\ m \in Report /\ m.job \in Jobs /\ m.lease \in Nat /\ m.kind \in {"fail", "giveup"}
        /\ job \in [Jobs -> JobRecord] /\ job[m.job] \in JobRecord /\ RowInv(job[m.job])
    BY DEF Inv, TypeOK, Report, Fail
  <1>2. CASE Known(m)
    <2>1. Over(m.job, m.lease)
      BY <1>1, <1>2 DEF Known, KeyOf, FailInv
    <2> QED
      BY <1>1, <2>1, OverStays
  <1>3. CASE ~Known(m) /\ Holds(m) /\ Status(m.job) \in {"failed", "dead"}
    <2>1. Over(m.job, m.lease)
      BY <1>1, <1>3 DEF FailInv, Over, Status
    <2> QED
      BY <1>1, <2>1, OverStays
  <1>4. CASE /\ ~Known(m) /\ Holds(m) /\ Status(m.job) = "leased"
             /\ job' = [job EXCEPT ![m.job] = AfterFail(@, m.kind)]
    <2>1. job[m.job].status = "leased" /\ m.lease = job[m.job].attempts
      BY <1>1, <1>4 DEF Status, Holds, RowInv, JobRecord
    <2>2. job'[m.job] = AfterFail(job[m.job], m.kind)
      BY <1>1, <1>4
    <2>3. job'[m.job].status # "leased" /\ job'[m.job].attempts = job[m.job].attempts
      BY <1>1, <2>1, <2>2, AfterFailGood
    <2> QED
      BY <1>1, <2>1, <2>3 DEF Over, Status, JobRecord
  <1> QED
    BY <1>2, <1>3, <1>4 DEF Fail

\* The server's answers keep the invariant.
LEMMA ServerKeepsFailInv ==
    ASSUME SendsToken, FreshKeys, Inv, FailInv, [Next]_vars, ServerStep
    PROVE  FailInv'
  <1>1. PICK m \in sent : Heartbeat(m) \/ Complete(m) \/ Fail(m)
    BY DEF ServerStep
  <1>2. Answer(m)
    BY <1>1 DEF Heartbeat, Complete, Fail
  <1>3. m \in Report /\ m.tool \in Tools /\ m.job \in Jobs /\ work \in [Tools -> [Jobs -> Nat]]
        /\ \A j \in Jobs : job'[j].attempts \in Nat
    BY StepGood DEF Inv, TypeOK, Report, Good, JobRecord
  <1>4. \A t \in Tools, j \in Jobs : work'[t][j] = work[t][j] \/ work'[t][j] = 0
    BY <1>2, <1>3 DEF Answer
  <1>5. \A t \in Tools, j \in Jobs : work'[t][j] <= job'[j].attempts
    BY <1>3, <1>4, FailInvCarries
  <1>6. \A n \in sent' : n.lease <= job'[n.job].attempts
    BY <1>2, FailInvCarries DEF Answer
  <1>7. CASE Heartbeat(m)
    BY <1>5, <1>6, <1>7, FailInvCarries DEF Heartbeat, FailInv
  <1>8. CASE Complete(m)
    <2>1. m.kind = "complete" /\ answers' \subseteq answers \cup {KeyOf(m)} /\ UNCHANGED failed
      BY <1>8 DEF Complete, Store
    <2> QED
      BY <1>5, <1>6, <2>1, FailInvCarries DEF KeyOf, FailInv
  <1>9. CASE Fail(m)
    <2>1. \/ UNCHANGED <<answers, failed>>
          \/ failed' = failed \cup {m} /\ answers' \subseteq answers \cup {KeyOf(m)}
      BY <1>9 DEF Fail, Store
    <2>2. CASE UNCHANGED <<answers, failed>>
      BY <1>5, <1>6, <2>2, FailInvCarries DEF FailInv
    <2>3. CASE failed' # failed /\ failed' = failed \cup {m} /\ answers' \subseteq answers \cup {KeyOf(m)}
      <3>1. Over(m.job, m.lease)'
        BY <1>9, <2>3, AnsweredFailIsOver
      <3> QED
        BY <1>5, <1>6, <2>3, <3>1, FailInvCarries DEF KeyOf, FailInv
    <2>4. CASE failed' = failed /\ m \in failed /\ answers' \subseteq answers \cup {KeyOf(m)}
      BY <1>5, <1>6, <2>4, FailInvCarries DEF KeyOf, FailInv
    <2> QED
      BY <2>1, <2>2, <2>3, <2>4
  <1> QED
    BY <1>1, <1>7, <1>8, <1>9

\* A tool that is told its failure was taken does not leave the job leased to it, when it sends the token
\* and a new Idempotency-Key for each lease (guard.py; complete, fail and _require_holder of jobs/service.py).
\* Without either the property fails: see the run JobsFailReplayed.
THEOREM FailuresTakeEffect ==
    ASSUME SendsToken, FreshKeys
    PROVE  Spec => []FailTakesEffect
  <1>1. Inv /\ Init => FailInv
    <2> SUFFICES ASSUME Inv, Init
                 PROVE  FailInv
      OBVIOUS
    <2>1. \A j \in Jobs : job[j].attempts = 0
      BY DEF Init
    <2>2. \A t \in Tools, j \in Jobs : work[t][j] = 0
      BY DEF Init
    <2>3. sent = {} /\ answers = {} /\ failed = {}
      BY DEF Init
    <2> QED
      BY <2>1, <2>2, <2>3 DEF FailInv
  <1>2. Inv /\ FailInv /\ [Next]_vars => FailInv'
    <2> SUFFICES ASSUME Inv, FailInv, [Next]_vars
                 PROVE  FailInv'
      OBVIOUS
    <2>1. CASE UNCHANGED <<work, sent, answers, failed>>
      BY <2>1, FailInvCarries DEF FailInv
    <2>2. CASE UserStep \/ UNCHANGED vars
      <3>1. UNCHANGED <<work, sent, answers, failed>>
        BY <2>2 DEF UserStep, CheckLocked, Insert, ReadResource, Cancel, SwitchOff, SwitchOn, vars
      <3> QED
        BY <2>1, <3>1
    <2>3. CASE TimeStep
      <3>1. UNCHANGED <<work, sent, failed>> /\ answers' \subseteq answers
        BY <2>3 DEF TimeStep, Sweep, LeaseExpires, BackoffEnds, PurgeKey
      <3> QED
        BY <3>1, FailInvCarries DEF FailInv
    <2>4. ASSUME NEW t \in Tools, ClaimJobs(t)
          PROVE  FailInv'
      <3>1. UNCHANGED <<sent, answers, failed>>
        BY <2>4 DEF ClaimJobs
      <3> QED
        BY <2>4, <3>1, ClaimKeepsWork, FailInvCarries DEF FailInv
    <2>5. ASSUME NEW t \in Tools, NEW j \in Jobs, NEW kind, SendReport(t, j, kind)
          PROVE  FailInv'
      <3>1. sent' = sent \cup {[kind |-> kind, tool |-> t, job |-> j, lease |-> work[t][j]]}
            /\ UNCHANGED <<answers, failed, work>>
        BY <2>5 DEF SendReport
      <3> QED
        BY <3>1, FailInvCarries DEF FailInv
    <2>6. ASSUME NEW t \in Tools, NEW j \in Jobs, Abandon(t, j)
          PROVE  FailInv'
      <3>1. work' = [work EXCEPT ![t][j] = 0] /\ UNCHANGED <<answers, failed, sent>>
        BY <2>6 DEF Abandon
      <3>2. work \in [Tools -> [Jobs -> Nat]] /\ \A k \in Jobs : job'[k].attempts \in Nat
        BY StepGood DEF Inv, TypeOK, Good, JobRecord
      <3>3. \A u \in Tools, k \in Jobs : work'[u][k] = work[u][k] \/ work'[u][k] = 0
        BY <3>1, <3>2
      <3> QED
        BY <3>1, <3>2, <3>3, FailInvCarries DEF FailInv
    <2> QED
      BY <2>2, <2>3, <2>4, <2>5, <2>6, ServerKeepsFailInv DEF Next, ToolStep
  <1>3. FailInv => FailTakesEffect
    BY DEF FailInv, Over, FailTakesEffect
  <1> QED
    BY <1>1, <1>2, <1>3, InvHolds, PTL DEF Spec
=============================================================================
