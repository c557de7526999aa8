-------------------------- MODULE IntegrationJobs ---------------------------
(***************************************************************************)
(* The job queue of integration-service. Users create and cancel jobs for  *)
(* their resources; tools claim them under a lease, extend it, complete or *)
(* fail them over a network that loses answers and repeats requests; a     *)
(* background task and every claim take back what has expired. Requests of *)
(* a tool that carry an Idempotency-Key are answered from the store when   *)
(* the key is known. Switching a resource to another mode cancels what     *)
(* waits for it.                                                           *)
(*                                                                         *)
(* All jobs here belong to one owner. A lease token is the number of the   *)
(* claim it was drawn for. A handler runs in one transaction, with the     *)
(* row of the job locked, and is one action; creating a job reads the      *)
(* resource before it takes the owner's lock and is several.               *)
(*                                                                         *)
(* A definition marked "A bug:" is not part of the specification: it is a  *)
(* wrong version of the definition that follows it, kept to show which     *)
(* property notices it.                                                    *)
(***************************************************************************)
EXTENDS Naturals, FiniteSets

CONSTANTS
    Jobs,          \* bound: the jobs that can be created
    Resources,
    ResourceOf,    \* the resource of each job
    Keys, NoKey,
    DedupeKey,     \* the dedupe_key of each job, or NoKey
    Collect,       \* the jobs of kind 'collect'
    Creators,      \* bound: requests that create a job at the same time
    Clients, NoClient,
    Tools,         \* installations of the clients
    ClientOf,      \* the client of each tool
    CanClaim,      \* what each tool may claim, by owner, platform and capabilities
    MaxAttempts,   \* max_attempts of a job
    MaxActive,     \* job_max_pending_per_owner
    SendsToken,    \* do the tools send the lease_token?
    FreshKeys,     \* do they use a new Idempotency-Key for every lease?
    Reports        \* bound: the kinds of reports they send

ReportKinds == {"heartbeat", "complete", "fail", "giveup"}

ASSUME JobsAssumption ==
    /\ IsFiniteSet(Jobs)
    /\ ResourceOf \in [Jobs -> Resources]
    /\ DedupeKey \in [Jobs -> Keys \cup {NoKey}]
    /\ NoKey \notin Keys
    /\ Collect \subseteq Jobs
    /\ NoClient \notin Clients
    /\ ClientOf \in [Tools -> Clients]
    /\ CanClaim \in [Tools -> SUBSET Jobs]
    /\ MaxAttempts \in Nat \ {0}
    /\ MaxActive \in Nat \ {0}
    /\ SendsToken \in BOOLEAN
    /\ FreshKeys \in BOOLEAN
    /\ Reports \subseteq ReportKinds

VARIABLES
    \* database
    job,       \* per job: status, attempts, client (claimed_by_client), lease (lease_token, 0: NULL),
               \* result (the lease it was produced under, 0: NULL), waiting (run_after is to come),
               \* expired (lease_until is past)
    fallback,  \* per resource: is it active and in the mode fallback_tool?
    answers,   \* the store of idempotency keys
    \* requests that create jobs
    creating,  \* per request: where it is, and the job
    \* tools and network
    work,      \* per tool and job: the lease it works under, 0 if none
    sent,      \* reports on their way, or repeated
    \* history
    failed     \* reports of failure that were answered with success

vars == <<job, fallback, answers, creating, work, sent, failed>>

-----------------------------------------------------------------------------
(* Values *)

Active   == {"pending", "leased"}
Terminal == {"done", "failed", "dead", "cancelled"}

JobRecord == [status : {"none"} \cup Active \cup Terminal, attempts : Nat, client : Clients \cup {NoClient},
              lease : Nat, result : Nat, waiting : BOOLEAN, expired : BOOLEAN]
\* "giveup" is a failure that is not retryable.
Report == [kind : ReportKinds, tool : Tools, job : Jobs, lease : Nat]
KeyRecord == [client : Clients, kind : ReportKinds, job : Jobs, lease : Nat]
Creation == [at : {"idle", "read", "locked"}, job : Jobs]

Init ==
    /\ job = [j \in Jobs |-> [status |-> "none", attempts |-> 0, client |-> NoClient, lease |-> 0,
                              result |-> 0, waiting |-> FALSE, expired |-> FALSE]]
    /\ fallback = [r \in Resources |-> TRUE]
    /\ answers = {}
    /\ creating \in [Creators -> [at : {"idle"}, job : Jobs]]
    /\ work = [t \in Tools |-> [j \in Jobs |-> 0]]
    /\ sent = {}
    /\ failed = {}

Status(j) == job[j].status
ActiveJobs == {j \in Jobs : Status(j) \in Active}

-----------------------------------------------------------------------------
(* Creating, cancelling *)

\* find_active_by_dedupe
Duplicates(j) == {k \in ActiveJobs : DedupeKey[k] = DedupeKey[j] /\ DedupeKey[j] # NoKey}
\* A bug: only the jobs that wait are counted.
FullOfPending == Cardinality({j \in Jobs : Status(j) = "pending"}) >= MaxActive
\* count_pending
Full == Cardinality(ActiveJobs) >= MaxActive
\* jobs_collect_resource_active_idx
CollectClash(j) == j \in Collect /\ \E k \in ActiveJobs \cap Collect : ResourceOf[k] = ResourceOf[j]

Inserted(j) == [job EXCEPT ![j].status = "pending"]
CreatorAt(c, at) == creating' = [creating EXCEPT ![c].at = at]

\* The resource is read, without a lock, ...
ReadResource(c, j) ==
    /\ creating[c].at = "idle"
    /\ Status(j) = "none"
    /\ fallback[ResourceOf[j]]
    /\ creating' = [creating EXCEPT ![c] = [at |-> "read", job |-> j]]
    /\ UNCHANGED <<job, fallback, answers, work, sent, failed>>

\* A bug: requests of one owner do not wait for each other.
CheckUnlocked(c) ==
    /\ creating[c].at = "read"
    /\ CreatorAt(c, IF Duplicates(creating[c].job) # {} \/ Full THEN "idle" ELSE "locked")
    /\ UNCHANGED <<job, fallback, answers, work, sent, failed>>

LockFree == \A c \in Creators : creating[c].at # "locked"

\* ... then the owner's lock is waited for, and duplicates and the limit are checked under it.
CheckLocked(c) ==
    /\ creating[c].at = "read"
    /\ LockFree
    /\ CreatorAt(c, IF Duplicates(creating[c].job) # {} \/ Full THEN "idle" ELSE "locked")
    /\ UNCHANGED <<job, fallback, answers, work, sent, failed>>

\* The row is inserted and the transaction commits; it rolls back when the index refuses the row.
Insert(c) ==
    LET j == creating[c].job IN
    /\ creating[c].at = "locked"
    /\ job' = IF Status(j) # "none" \/ CollectClash(j) THEN job ELSE Inserted(j)
    /\ CreatorAt(c, "idle")
    /\ UNCHANGED <<fallback, answers, work, sent, failed>>

Ended(r, status) == [r EXCEPT !.status = status, !.lease = 0, !.waiting = FALSE, !.expired = FALSE]

Cancel(j) ==
    /\ Status(j) \in Active
    /\ job' = [job EXCEPT ![j] = Ended(@, "cancelled")]
    /\ UNCHANGED <<fallback, answers, creating, work, sent, failed>>

-----------------------------------------------------------------------------
(* Leases *)

\* A bug: a state the others do not know.
ReclaimedExpired(r) == Ended(r, IF r.attempts >= MaxAttempts THEN "expired" ELSE "pending")
\* reclaim_expired: the claim counted as an attempt, whatever became of it.
Reclaimed(r) == Ended(r, IF r.attempts >= MaxAttempts THEN "dead" ELSE "pending")

\* A bug: a job on its last attempt is not taken back.
ExpiredToRetry == {j \in Jobs : Status(j) = "leased" /\ job[j].expired /\ job[j].attempts < MaxAttempts}
Expired == {j \in Jobs : Status(j) = "leased" /\ job[j].expired}
\* The rows another transaction has locked are skipped.
AfterReclaim(skipped) == [j \in Jobs |-> IF j \in Expired \ skipped THEN Reclaimed(job[j]) ELSE job[j]]

Claimed(r, client) ==
    [r EXCEPT !.status = "leased", !.attempts = @ + 1, !.lease = r.attempts + 1, !.client = client,
              !.expired = FALSE]
Claimable(jobs, t) == {j \in CanClaim[t] : jobs[j].status = "pending" /\ ~jobs[j].waiting}

\* What has expired is taken back first; then some of the jobs that are due, up to the tool's limit and
\* without those other transactions have locked, are leased. The answer may be lost on the way.
ClaimJobs(t) ==
    \E skipped \in SUBSET Expired :
        LET back == AfterReclaim(skipped) IN
        \E taken \in SUBSET Claimable(back, t) :
            /\ job' = [j \in Jobs |-> IF j \in taken THEN Claimed(back[j], ClientOf[t]) ELSE back[j]]
            /\ \/ work' = [work EXCEPT ![t] = [j \in Jobs |-> IF j \in taken THEN back[j].attempts + 1 ELSE @[j]]]
               \/ UNCHANGED work
            /\ UNCHANGED <<fallback, answers, creating, sent, failed>>

Sweep ==
    /\ \E skipped \in SUBSET Expired : job' = AfterReclaim(skipped)
    /\ UNCHANGED <<fallback, answers, creating, work, sent, failed>>

LeaseExpires(j) ==
    /\ Status(j) = "leased" /\ ~job[j].expired
    /\ job' = [job EXCEPT ![j].expired = TRUE]
    /\ UNCHANGED <<fallback, answers, creating, work, sent, failed>>

BackoffEnds(j) ==
    /\ job[j].waiting
    /\ job' = [job EXCEPT ![j].waiting = FALSE]
    /\ UNCHANGED <<fallback, answers, creating, work, sent, failed>>

-----------------------------------------------------------------------------
(* Reports of the tools *)

SendReport(t, j, kind) ==
    /\ work[t][j] > 0
    /\ kind \in Reports
    /\ sent' = sent \cup {[kind |-> kind, tool |-> t, job |-> j, lease |-> work[t][j]]}
    /\ UNCHANGED <<job, fallback, answers, creating, work, failed>>

\* The tool stops working on the job: it crashed, or gave up asking.
Abandon(t, j) ==
    /\ work[t][j] > 0
    /\ work' = [work EXCEPT ![t][j] = 0]
    /\ UNCHANGED <<job, fallback, answers, creating, sent, failed>>

\* The answer reaches the tool, which is done with the job, or is lost; a tool that has no answer repeats
\* its request.
Answer(m) ==
    LET asks == work[m.tool][m.job] = m.lease IN
    \/ sent' = sent \ {m} /\ UNCHANGED work
    \/ asks /\ UNCHANGED <<sent, work>>
    \/ asks /\ sent' = sent \ {m} /\ work' = [work EXCEPT ![m.tool][m.job] = 0]

\* A bug: the token is not looked at.
HoldsByClient(m) == job[m.job].client = ClientOf[m.tool]
\* _require_holder
Holds(m) ==
    /\ job[m.job].client = ClientOf[m.tool]
    /\ SendsToken /\ job[m.job].lease # 0 => m.lease = job[m.job].lease

Heartbeat(m) ==
    /\ m \in sent /\ m.kind = "heartbeat"
    /\ job' = IF Holds(m) /\ Status(m.job) = "leased" THEN [job EXCEPT ![m.job].expired = FALSE] ELSE job
    /\ Answer(m)
    /\ UNCHANGED <<fallback, answers, creating, failed>>

\* A bug: the key does not tell one lease from the next.
KeyOfContent(m) == [client |-> ClientOf[m.tool], kind |-> m.kind, job |-> m.job, lease |-> 0]
\* The path and the Idempotency-Key of a report; a key made from the content is the same for every lease.
KeyOf(m) == [client |-> ClientOf[m.tool], kind |-> m.kind, job |-> m.job,
             lease |-> IF FreshKeys THEN m.lease ELSE 0]

\* A report whose key is known is answered from the store. A refused one leaves nothing there.
Known(m) == KeyOf(m) \in answers
Store(m) == answers' = answers \cup {KeyOf(m)}
Refused(m, states) == ~Known(m) /\ ~(Holds(m) /\ Status(m.job) \in states)

Complete(m) ==
    /\ m \in sent /\ m.kind = "complete"
    /\ \/ /\ Known(m) \/ Refused(m, {"leased", "done"})
          /\ UNCHANGED <<job, answers>>
       \/ /\ ~Known(m) /\ Holds(m) /\ Status(m.job) = "done"
          /\ Store(m)
          /\ UNCHANGED job
       \/ /\ ~Known(m) /\ Holds(m) /\ Status(m.job) = "leased"
          /\ job' = [job EXCEPT ![m.job] = [Ended(@, "done") EXCEPT !.result = m.lease]]
          /\ Store(m)
    /\ Answer(m)
    /\ UNCHANGED <<fallback, creating, failed>>

AfterFail(r, kind) ==
    IF kind = "fail" /\ r.attempts < MaxAttempts
    THEN [Ended(r, "pending") EXCEPT !.waiting = TRUE]
    ELSE Ended(r, IF kind = "fail" THEN "dead" ELSE "failed")

\* Failed, dead, or back in the queue after the backoff.
Fail(m) ==
    /\ m \in sent /\ m.kind \in {"fail", "giveup"}
    /\ \/ /\ Refused(m, {"leased", "failed", "dead"})
          /\ UNCHANGED <<job, answers, failed>>
       \/ /\ Known(m)
          /\ failed' = failed \cup {m}
          /\ UNCHANGED <<job, answers>>
       \/ /\ ~Known(m) /\ Holds(m) /\ Status(m.job) \in {"failed", "dead"}
          /\ Store(m)
          /\ failed' = failed \cup {m}
          /\ UNCHANGED job
       \/ /\ ~Known(m) /\ Holds(m) /\ Status(m.job) = "leased"
          /\ job' = [job EXCEPT ![m.job] = AfterFail(@, m.kind)]
          /\ Store(m)
          /\ failed' = failed \cup {m}
    /\ Answer(m)
    /\ UNCHANGED <<fallback, creating>>

\* purge_before: a key older than its time to live is forgotten.
PurgeKey(k) ==
    /\ k \in answers
    /\ answers' = answers \ {k}
    /\ UNCHANGED <<job, fallback, creating, work, sent, failed>>

-----------------------------------------------------------------------------
(* The mode of a resource *)

\* The resource leaves the mode, or is removed: what waits for it is cancelled, what is leased is left.
SwitchOff(r) ==
    /\ fallback' = [fallback EXCEPT ![r] = FALSE]
    /\ job' = [j \in Jobs |-> IF ResourceOf[j] = r /\ Status(j) = "pending"
                              THEN Ended(job[j], "cancelled") ELSE job[j]]
    /\ UNCHANGED <<answers, creating, work, sent, failed>>

\* Back in the mode, with a collect job for those users that need one. When the insert fails on an index
\* the error is swallowed and the transaction, aborted by the database, commits nothing.
SwitchOn(r) ==
    /\ LockFree
    /\ \/ /\ fallback' = [fallback EXCEPT ![r] = TRUE]
          /\ UNCHANGED job
       \/ \E j \in Collect :
             /\ ResourceOf[j] = r /\ Status(j) = "none" /\ DedupeKey[j] # NoKey
             /\ Duplicates(j) = {} /\ ~Full
             /\ IF CollectClash(j)
                THEN UNCHANGED <<fallback, job>>
                ELSE /\ fallback' = [fallback EXCEPT ![r] = TRUE]
                     /\ job' = Inserted(j)
    /\ UNCHANGED <<answers, creating, work, sent, failed>>

-----------------------------------------------------------------------------
UserStep ==
    \/ \E c \in Creators : CheckLocked(c) \/ Insert(c) \/ \E j \in Jobs : ReadResource(c, j)
    \/ \E j \in Jobs : Cancel(j)
    \/ \E r \in Resources : SwitchOff(r) \/ SwitchOn(r)

ToolStep ==
    \/ \E t \in Tools : ClaimJobs(t)
    \/ \E t \in Tools, j \in Jobs : Abandon(t, j) \/ \E kind \in Reports : SendReport(t, j, kind)

ServerStep == \E m \in sent : Heartbeat(m) \/ Complete(m) \/ Fail(m)

TimeStep ==
    \/ Sweep
    \/ \E j \in Jobs : LeaseExpires(j) \/ BackoffEnds(j)
    \/ \E k \in answers : PurgeKey(k)

Next == UserStep \/ ToolStep \/ ServerStep \/ TimeStep

Spec == Init /\ [][Next]_vars

\* Tools keep asking for jobs, the maintenance loop runs, and time passes. Nothing is assumed of a tool
\* that holds a lease, nor of the network.
ClaimOf(j) == (\E t \in Tools : ClaimJobs(t)) /\ Status(j) # "leased" /\ job'[j].status = "leased"
SweepOf(j) == Sweep /\ Status(j) = "leased" /\ job'[j].status # "leased"
Fairness ==
    \A j \in Jobs : /\ WF_vars(ClaimOf(j)) /\ WF_vars(SweepOf(j))
                    /\ WF_vars(LeaseExpires(j)) /\ WF_vars(BackoffEnds(j))

FairSpec == Spec /\ Fairness

-----------------------------------------------------------------------------
(* Properties *)

\* Every variable keeps its type.
TypeOK ==
    /\ job \in [Jobs -> JobRecord]
    /\ fallback \in [Resources -> BOOLEAN]
    /\ answers \subseteq KeyRecord
    /\ creating \in [Creators -> Creation]
    /\ work \in [Tools -> [Jobs -> Nat]]
    /\ sent \subseteq Report
    /\ failed \subseteq Report

\* The limit of active jobs of an owner holds, whatever requests create jobs at the same time and
\* whichever jobs come back from their leases meanwhile.
ActiveWithinLimit == Cardinality(ActiveJobs) <= MaxActive

\* No two active jobs have the same dedupe_key, without the help of the index.
OneActivePerKey ==
    \A j, k \in ActiveJobs : DedupeKey[j] = DedupeKey[k] /\ DedupeKey[j] # NoKey => j = k

\* A failure that was answered with success has ended the lease it was reported for: the tool that is told
\* so and moves on does not leave the job waiting for a lease to expire.
FailTakesEffect ==
    \A m \in failed : ~(Status(m.job) = "leased" /\ job[m.job].attempts = m.lease)

Place(status) == CASE status = "none" -> "absent" [] status = "pending" -> "waiting"
                   [] status = "leased" -> "held" [] OTHER -> "ended"

Queue == INSTANCE LeasedQueue WITH
    place <- [j \in Jobs |-> Place(Status(j))],
    holds <- [j \in Jobs |-> job[j].attempts],
    kept  <- [j \in Jobs |-> job[j].result]

\* The queue is one of leased jobs: one holder at a time, no result but that of the last lease while it
\* lasts, no return from the end, and no more claims than max_attempts.
ImplementsQueue == Queue!Spec

\* A job that waits ends, however often its tools vanish, fail, or never hear of their claim.
JobEnds == \A j \in Jobs : Status(j) = "pending" ~> Status(j) \in Terminal
=============================================================================
