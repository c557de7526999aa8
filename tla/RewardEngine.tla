---------------------------- MODULE RewardEngine ----------------------------
(***************************************************************************)
(* One reward job of reward-service, of the kind that confirms by replies: *)
(* its rows ("items"), the ledger of distributed points, the Discord       *)
(* channel they are granted in, the runner that sends one slash command    *)
(* per item, the reconciliation of unanswered items with the channel's     *)
(* history, the operator's requests, and the recovery that runs when the   *)
(* service starts again.                                                   *)
(*                                                                         *)
(* The database (job, item, attempt, ledger) survives a crash; the runner, *)
(* the passes and the outstanding requests live in the process and do not. *)
(* A step that talks to Discord and a step that commits a transaction are  *)
(* different actions, so that a crash, a cancellation, the bot and the     *)
(* operator can act in between.                                            *)
(*                                                                         *)
(* A definition marked "A bug:" is not part of the specification: it is a  *)
(* wrong version of the definition that follows it, kept to show which     *)
(* property notices it.                                                    *)
(***************************************************************************)
EXTENDS Integers, Sequences, FiniteSets

CONSTANTS
    NumItems,            \* the rows of the job, claimed in the order of row_index
    Recipients,          \* pairs of a Discord user and an amount of points
    Recipient,           \* the recipient of each item
    Tokens,              \* the Discord accounts the job rotates over
    NoToken,
    MaxItemRetries,      \* max_item_retries of the job
    UnknownThreshold,    \* unknown_pause_threshold of the job
    MaxSessionFailures,  \* _MAX_SESSION_FAILURES
    ScanTakesTime,       \* may the grace period end between the last page and the clock reading?
    Requests,            \* bound: the requests operators make, of RequestKinds
    MaxReopen            \* bound: after how many times back in the queue an item is not put there again

Items == 1 .. NumItems
RequestKinds == {"pause", "stop", "success", "pending", "reconcile", "retry"}

ASSUME EngineAssumption ==
    /\ NumItems \in Nat \ {0}
    /\ Recipient \in [Items -> Recipients]
    /\ NoToken \notin Tokens
    /\ MaxItemRetries \in Nat
    /\ UnknownThreshold \in Nat \ {0}
    /\ MaxSessionFailures \in Nat \ {0}
    /\ ScanTakesTime \in BOOLEAN
    /\ Requests \subseteq RequestKinds
    /\ MaxReopen \in Nat

VARIABLES
    \* database
    job,        \* status of the job
    item,       \* per item: status, tries (attempt_count), resolved (resolved_user_id is set),
                \* noReply (reconcile_result = 'no_reply')
    attempt,    \* per item, its latest attempt: phase, and the channel position the history is read from
    ledger,     \* rows of reward_distributions: the item and the reply kept as evidence (0: an operator's word)
    \* Discord
    inflight,   \* per item: commands Discord accepted that the bot has not answered
    accepted,   \* per item: commands Discord ever accepted
    channel,    \* the bot's replies, in order
    aged,       \* items whose latest attempt is older than the grace period
    \* process
    runner,     \* the task of the job
    pass,       \* a reconciliation pass of the runner and one of an API request
    request,    \* the request that has a pass under way, and whether it found the job completed
    stopping,   \* a stop request waits for the runner to end
    \* history
    handed,     \* per item: times an operator put it back in the queue by hand
    retried     \* per item: times retry-unknown put it back in the queue

database == <<job, item, attempt, ledger>>
discord  == <<inflight, accepted, channel, aged>>
process  == <<runner, pass, request, stopping>>
history  == <<handed, retried>>
vars     == <<database, discord, process, history>>

-----------------------------------------------------------------------------
(* Values *)

JobStatus == {"validated", "running", "paused", "stopped", "completed"}
Runnable  == {"validated", "paused", "stopped"}
Claimable == {"pending", "retrying"}
Terminal  == {"success", "failed", "unknown"}
Phases    == {"none", "prepared", "sent", "confirmed", "rejected", "aborted"}

ItemRecord == [status : Claimable \cup Terminal \cup {"processing"}, tries : Nat,
               resolved : BOOLEAN, noReply : BOOLEAN]
AttemptRecord == [phase : Phases, since : Nat]
Reply == [to : Recipients, kind : {"ok", "no"}]

\* What POST /interactions can come back with: 2xx; a connection that was never made; 429; 400;
\* 401, 403 or 404; a timeout, a broken connection or a 5xx, after which the command may have run or not.
Outcomes == {"invoked", "unreachable", "throttled", "bad_request", "refused", "unsure"}
Observation == [outcome : Outcomes \cup {"none"}, sentAt : Nat, anchor : Nat]

RunnerAt == {"idle", "loop", "check", "claim", "exec", "mark", "confirm", "settle",
             "resettle", "resettling", "judge", "final", "finishing", "close", "cancelled", "down"}
RunnerRecord ==
    [pc : RunnerAt, cur : Items \cup {0}, slot : Tokens \cup {NoToken}, obs : Observation,
     usable : SUBSET Tokens, failures : [Tokens -> Nat],
     slotUnknown : [Tokens -> SUBSET Items], jobUnknown : SUBSET Items,
     pausing : BOOLEAN, stopReq : BOOLEAN, pauseReq : BOOLEAN]

Passes == {"sweep", "api"}
PassRecord ==
    [at : {"none", "scan", "clock", "settle", "wait", "done", "failed"}, rows : SUBSET Items,
     since : [Items -> Nat], current : SUBSET Items, old : SUBSET Items,
     seen : Nat, complete : BOOLEAN, used : SUBSET Nat, waiting : SUBSET Items, again : BOOLEAN]

NoObservation == [outcome |-> "none", sentAt |-> 0, anchor |-> 0]
NoRunner(pc) ==
    [pc |-> pc, cur |-> 0, slot |-> NoToken, obs |-> NoObservation, usable |-> {},
     failures |-> [t \in Tokens |-> 0], slotUnknown |-> [t \in Tokens |-> {}], jobUnknown |-> {},
     pausing |-> FALSE, stopReq |-> FALSE, pauseReq |-> FALSE]
NoPass ==
    [at |-> "none", rows |-> {}, since |-> [i \in Items |-> 0], current |-> {}, old |-> {},
     seen |-> 0, complete |-> FALSE, used |-> {}, waiting |-> {}, again |-> FALSE]

Init ==
    /\ job = "validated"
    /\ item = [i \in Items |-> [status |-> "pending", tries |-> 0, resolved |-> FALSE, noReply |-> FALSE]]
    /\ attempt = [i \in Items |-> [phase |-> "none", since |-> 0]]
    /\ ledger = {}
    /\ inflight = [i \in Items |-> 0]
    /\ accepted = [i \in Items |-> 0]
    /\ channel = <<>>
    /\ aged = {}
    /\ runner = NoRunner("idle")
    /\ pass = [p \in Passes |-> NoPass]
    /\ request = [kind |-> "none", completed |-> FALSE]
    /\ stopping = FALSE
    /\ handed = [i \in Items |-> 0]
    /\ retried = [i \in Items |-> 0]

-----------------------------------------------------------------------------
(* Helpers *)

\* The first of a set of rows or of replies: one element, none if the set is empty.
First(S) == {x \in S : \A y \in S : x <= y}
Status(i) == item[i].status
Recorded(i) == \E row \in ledger : row.item = i
Reopenings(i) == handed[i] + retried[i]
ShouldStop == runner.stopReq \/ runner.pauseReq
Cur == runner.cur

\* The task ends with an error or is cancelled: what it held in memory is gone, its sweep with it.
RunnerGone(pc) ==
    /\ runner' = NoRunner(pc)
    /\ pass' = [pass EXCEPT !["sweep"] = NoPass]

RunnerAs(r) == runner' = r /\ UNCHANGED <<pass, request, stopping>>

\* The next turn of the loop: the token goes back to the pool, the item is settled.
NextTurn(r) == [r EXCEPT !.pc = "loop", !.cur = 0, !.slot = NoToken, !.obs = NoObservation]
Break(r, pausing) == [NextTurn(r) EXCEPT !.pc = "final", !.pausing = pausing \/ r.pausing]

Settled(r) == [r EXCEPT !.failures[r.slot] = 0]
StreakCleared(r) == [r EXCEPT !.slotUnknown[r.slot] = {}, !.jobUnknown = {}]

\* An `unknown' item lengthens the streak of its token and of the job; a long streak is looked into.
\* (A list in the code; an item is in it twice only when it was put back by hand within one streak.)
StreakLonger(r) ==
    LET s == r.slotUnknown[r.slot] \cup {r.cur}
        j == r.jobUnknown \cup {r.cur}
        q == [r EXCEPT !.slotUnknown[r.slot] = s, !.jobUnknown = j]
    IN  IF Cardinality(s) >= UnknownThreshold \/ Cardinality(j) >= 2 * UnknownThreshold
        THEN [q EXCEPT !.pc = "resettle", !.cur = 0, !.obs = NoObservation]
        ELSE NextTurn(q)

\* The transaction that closes the runner's attempt and moves its item.
CloseAttempt(phase) == attempt' = [attempt EXCEPT ![Cur].phase = phase]
MoveItem(status)    == item' = [item EXCEPT ![Cur].status = status]
ResolveItemTo(status) == item' = [item EXCEPT ![Cur].status = status, ![Cur].resolved = TRUE]
\* A bug: the item goes back as `pending', as if it had never been claimed.
RequeueAsPending == item' = [item EXCEPT ![Cur].status = "pending",
                                         ![Cur].tries = IF @ > 0 THEN @ - 1 ELSE 0]
\* requeue: back to the queue without spending the retry budget
Requeue == item' = [item EXCEPT ![Cur].status = "retrying",
                                ![Cur].tries = IF @ > 0 THEN @ - 1 ELSE 0]

-----------------------------------------------------------------------------
(* The runner *)

\* POST /run of a job that is not running: WorkerManager.start checks and takes the lock, sets the
\* job running and creates the task with the tokens that are enabled, valid and see the command.
RunJob ==
    /\ job \in Runnable
    /\ runner.pc = "idle"
    /\ job' = "running"
    /\ \E T \in SUBSET Tokens \ {{}} :
          RunnerAs([NoRunner("loop") EXCEPT !.usable = T])
    /\ UNCHANGED <<item, attempt, ledger, discord, history>>

\* The top of the loop: a stop or pause request ends it, a job with no usable token pauses itself.
AcquireToken ==
    /\ runner.pc = "loop"
    /\ \/ /\ ShouldStop
          /\ RunnerAs(Break(runner, FALSE))
       \/ /\ ~ShouldStop
          /\ runner.usable = {}
          /\ RunnerAs(Break(runner, TRUE))
       \/ /\ ~ShouldStop
          /\ \E t \in runner.usable : RunnerAs([runner EXCEPT !.slot = t, !.pc = "check"])
    /\ UNCHANGED <<database, discord, history>>

\* The account's rights and credential, read from the local projection: either answer may come.
CheckRoleAndCredential ==
    /\ runner.pc = "check"
    /\ \/ RunnerAs([runner EXCEPT !.pc = "claim"])
       \/ RunnerAs(Break(runner, TRUE))
    /\ UNCHANGED <<database, discord, history>>

\* The write-ahead claim: the item becomes `processing' and its attempt `prepared' in one transaction,
\* before anything is sent. A pass that read the item earlier keeps the attempt it read.
ClaimNext ==
    LET queue == {i \in Items : Status(i) \in Claimable} IN
    /\ runner.pc = "claim"
    /\ \/ /\ queue = {}
          /\ RunnerAs(Break(runner, FALSE))
          /\ UNCHANGED <<database, discord>>
       \/ \E i \in First(queue) :
             /\ item' = [item EXCEPT ![i].status = "processing", ![i].tries = @ + 1]
             /\ attempt' = [attempt EXCEPT ![i] = [phase |-> "prepared", since |-> Len(channel)]]
             /\ aged' = aged \ {i}
             /\ runner' = [runner EXCEPT !.cur = i, !.pc = "exec"]
             /\ pass' = [p \in Passes |-> [pass[p] EXCEPT !.current = @ \ {i}]]
             /\ UNCHANGED <<job, ledger, inflight, accepted, channel, request, stopping>>
    /\ UNCHANGED history

\* A bug: the failures of a token are not counted, so it is never given up.
SessionErrorUncounted ==
    /\ runner.pc = "exec"
    /\ CloseAttempt("aborted")
    /\ Requeue
    /\ RunnerAs(NextTurn(runner))
    /\ UNCHANGED <<job, ledger, discord, history>>

\* The token's Gateway does not connect: nothing was sent, another token takes the item.
SessionError ==
    /\ runner.pc = "exec"
    /\ CloseAttempt("aborted")
    /\ Requeue
    /\ LET r    == [runner EXCEPT !.failures[runner.slot] = @ + 1]
           gone == r.failures[r.slot] >= MaxSessionFailures
           q    == IF gone THEN [r EXCEPT !.usable = @ \ {r.slot}] ELSE r
       IN  RunnerAs(IF gone /\ q.usable = {} THEN Break(q, TRUE) ELSE NextTurn(q))
    /\ UNCHANGED <<job, ledger, discord, history>>

\* The recipient cannot be resolved or the amount is invalid: failed, and nothing was sent.
FailBeforeSend ==
    /\ runner.pc = "exec"
    /\ CloseAttempt("aborted")
    /\ MoveItem("failed")
    /\ RunnerAs(NextTurn(StreakCleared(Settled(runner))))
    /\ UNCHANGED <<job, ledger, discord, history>>

\* What leaves the machine. Discord accepts the command on a 2xx, and may have accepted it when the
\* answer is lost. The anchor is the newest message before the call, or "0" when it could not be read.
Reaches(outcome) == CASE outcome = "invoked" -> {TRUE}
                      [] outcome = "unsure"  -> {TRUE, FALSE}
                      [] OTHER               -> {FALSE}

Invoke ==
    /\ runner.pc = "exec"
    /\ \E outcome \in Outcomes, anchor \in {0, Len(channel)} : \E executed \in Reaches(outcome) :
          /\ outcome # "invoked" => anchor = 0
          /\ inflight' = IF executed THEN [inflight EXCEPT ![Cur] = @ + 1] ELSE inflight
          /\ accepted' = IF executed THEN [accepted EXCEPT ![Cur] = @ + 1] ELSE accepted
          /\ RunnerAs([Settled(runner) EXCEPT
                !.obs = [outcome |-> outcome, sentAt |-> Len(channel), anchor |-> anchor],
                !.pc  = IF outcome = "invoked" THEN "mark" ELSE "settle"])
    /\ UNCHANGED <<database, channel, aged, history>>

MarkSent ==
    /\ runner.pc = "mark"
    /\ attempt' = [attempt EXCEPT ![Cur] = [phase |-> "sent", since |-> runner.obs.sentAt]]
    /\ RunnerAs([runner EXCEPT !.obs = [@ EXCEPT !.sentAt = 0], !.pc = "confirm"])
    /\ UNCHANGED <<job, item, ledger, discord, history>>

\* The replies await_confirmation links to the item: every reply of the command's bot after the anchor.
Linked(kind) == {k \in 1 .. Len(channel) : k > runner.obs.anchor /\ channel[k].kind = kind}

\* insert_once on an item that already has its row violates the primary key: the transaction rolls back
\* and the exception ends the task, which leaves the job paused.
ConfirmSuccess ==
    /\ runner.pc = "confirm"
    /\ Linked("ok") # {} /\ Linked("no") = {}
    /\ IF Recorded(Cur)
       THEN /\ job' = "paused"
            /\ RunnerGone("idle")
            /\ UNCHANGED <<item, attempt, ledger, request, stopping>>
       ELSE /\ CloseAttempt("confirmed")
            /\ ResolveItemTo("success")
            /\ \E k \in First(Linked("ok")) : ledger' = ledger \cup {[item |-> Cur, reply |-> k]}
            /\ RunnerAs(NextTurn(StreakCleared(runner)))
            /\ UNCHANGED job
    /\ UNCHANGED <<discord, history>>

ConfirmFailed ==
    /\ runner.pc = "confirm"
    /\ Linked("no") # {} /\ Linked("ok") = {}
    /\ CloseAttempt("rejected")
    /\ ResolveItemTo("failed")
    /\ RunnerAs(NextTurn(StreakCleared(runner)))
    /\ UNCHANGED <<job, ledger, discord, history>>

\* Conflicting replies, or none before the deadline.
ConfirmUnknown ==
    /\ runner.pc = "confirm"
    /\ CloseAttempt("aborted")
    /\ ResolveItemTo("unknown")
    /\ RunnerAs(StreakLonger(runner))
    /\ UNCHANGED <<job, ledger, discord, history>>

\* The outcomes that prove that nothing was executed and that another try may help.
Retryable == {"unreachable", "throttled"}
BudgetLeft == item[Cur].tries <= MaxItemRetries

\* An http_error or network_error, by its class: refused by Discord (the token's fault), provably not
\* executed and worth another try, final, or unknown.
SettleError ==
    LET o     == runner.obs.outcome
        retry == o \in Retryable
        rest  == [runner EXCEPT !.usable = @ \ {runner.slot}]
    IN
    /\ runner.pc = "settle"
    /\ CloseAttempt("aborted")
    /\ \/ /\ o = "refused"
          /\ rest.usable # {}
          /\ Requeue
          /\ RunnerAs(NextTurn(rest))
       \/ /\ o = "refused"
          /\ rest.usable = {}
          /\ MoveItem("failed")
          /\ RunnerAs(Break(rest, TRUE))
       \/ /\ retry /\ BudgetLeft
          /\ MoveItem("retrying")
          /\ RunnerAs(NextTurn(runner))
       \/ /\ o = "bad_request" \/ (retry /\ ~BudgetLeft)
          /\ MoveItem("failed")
          /\ RunnerAs(NextTurn(StreakCleared(runner)))
       \/ /\ o = "unsure"
          /\ ResolveItemTo("unknown")
          /\ RunnerAs(StreakLonger(runner))
    /\ UNCHANGED <<job, ledger, discord, history>>

\* After the sweep of _resettle only what is still unknown counts: a token with a long streak is
\* disabled, a job without tokens or with a long streak of its own pauses.
StillUnknown(s) == {i \in s : Status(i) = "unknown"}

Judge ==
    /\ runner.pc = "judge"
    /\ LET s == StillUnknown(runner.slotUnknown[runner.slot])
           j == StillUnknown(runner.jobUnknown)
           q == [runner EXCEPT !.slotUnknown[runner.slot] = s, !.jobUnknown = j]
           r == IF Cardinality(s) >= UnknownThreshold THEN [q EXCEPT !.usable = @ \ {q.slot}] ELSE q
       IN  RunnerAs(IF r.usable = {} \/ Cardinality(j) >= 2 * UnknownThreshold
                   THEN Break(r, TRUE)
                   ELSE NextTurn(r))
    /\ UNCHANGED <<database, discord, history>>

\* A bug: a run that pauses for want of tokens is closed as if it had run to its end.
CloseUnpaused ==
    /\ runner.pc = "close"
    /\ job' = IF runner.pauseReq THEN "paused" ELSE IF runner.stopReq THEN "stopped" ELSE "completed"
    /\ RunnerGone("idle")
    /\ UNCHANGED <<item, attempt, ledger, discord, request, stopping, history>>

\* The end of the run: what became of the job, and the lock is given back.
Close ==
    /\ runner.pc = "close"
    /\ job' = IF runner.pausing \/ runner.pauseReq THEN "paused"
              ELSE IF runner.stopReq THEN "stopped" ELSE "completed"
    /\ RunnerGone("idle")
    /\ UNCHANGED <<item, attempt, ledger, discord, request, stopping, history>>

\* A transaction of the runner fails (the database is away): the task ends and the job is paused.
WorkerError ==
    /\ runner.pc \in {"check", "claim", "exec", "mark", "confirm", "settle", "judge", "close"}
    /\ job' = "paused"
    /\ RunnerGone("idle")
    /\ UNCHANGED <<item, attempt, ledger, discord, request, stopping, history>>

-----------------------------------------------------------------------------
(* Reconciliation: a pass reads the unknown items, scans the channel, and settles the rows it read *)

Unresolved == {i \in Items : Status(i) = "unknown" /\ item[i].resolved}

\* The rows of one pass, as they are when it reads them.
ReadUnknown(again) ==
    [NoPass EXCEPT !.at = IF Unresolved = {} THEN "done" ELSE "scan",
                   !.rows = Unresolved,
                   !.since = [i \in Items |-> IF i \in Unresolved THEN attempt[i].since ELSE 0],
                   !.current = Unresolved,
                   !.old = Unresolved \cap aged,
                   !.again = again]

\* The runner sweeps before it judges a streak and, waiting out the grace period unless it was asked
\* to stop, before it closes the job.
StartSweep ==
    LET last == runner.pc = "final" IN
    /\ runner.pc \in {"resettle", "final"}
    /\ runner' = [runner EXCEPT !.pc = IF last THEN "finishing" ELSE "resettling"]
    /\ pass' = [pass EXCEPT !["sweep"] = ReadUnknown(last /\ ~ShouldStop)]
    /\ UNCHANGED <<database, discord, request, stopping, history>>

EndSweep ==
    /\ pass["sweep"].at \in {"done", "failed"}
    /\ runner' = [runner EXCEPT !.pc = IF @ = "finishing" THEN "close" ELSE "judge"]
    /\ pass' = [pass EXCEPT !["sweep"] = NoPass]
    /\ UNCHANGED <<database, discord, request, stopping, history>>

PassAs(p, r) == pass' = [pass EXCEPT ![p] = r] /\ UNCHANGED <<runner, request, stopping>>

\* The bot's messages up to one of them, and whether these are all there were: a refused page or the
\* limit of pages gives less, a broken connection ends the pass.
Scan(p) ==
    /\ pass[p].at = "scan"
    /\ \/ PassAs(p, [NoPass EXCEPT !.at = "failed"])
       \/ \E n \in 0 .. Len(channel), complete \in BOOLEAN :
             /\ complete => n = Len(channel)
             /\ PassAs(p, [pass[p] EXCEPT !.seen = n, !.complete = complete,
                                          !.at = IF ScanTakesTime THEN "clock" ELSE "settle"])
    /\ UNCHANGED <<database, discord, history>>

\* The clock is read once the scan has come back: the ages of the rows are what they are now.
ReadClock(p) ==
    /\ pass[p].at = "clock"
    /\ PassAs(p, [pass[p] EXCEPT !.at = "settle"])
    /\ UNCHANGED <<database, discord, history>>

\* The unused replies to the item's recipient among those the pass has seen.
Candidates(p, i, kind) ==
    {k \in 1 .. pass[p].seen : /\ k > pass[p].since[i]
                               /\ k \notin pass[p].used
                               /\ channel[k].to = Recipient[i]
                               /\ channel[k].kind = kind}

\* Nothing answered the row's attempt in all of the history, and the grace period is over. Whether it is
\* over for an attempt that is no longer the item's latest is not tracked: either may be.
Superseded(p, i) == i \in pass[p].rows \ pass[p].current
\* A bug: the grace period is not waited for.
ProvenAtOnce(p, i) == pass[p].complete
Proven(p, i)     == pass[p].complete /\ (i \in pass[p].old \/ Superseded(p, i))
NotProven(p, i)  == ~pass[p].complete \/ i \notin pass[p].old

\* The pass goes on to the next row; after the last one it may wait for the rows that are too young.
NextRow(p, i, used, waiting) ==
    LET rest  == pass[p].rows \ {i}
        young == pass[p].waiting \cup waiting
    IN  PassAs(p, IF rest # {}
                  THEN [pass[p] EXCEPT !.rows = rest, !.used = @ \cup used, !.waiting = young]
                  ELSE IF pass[p].again /\ young # {}
                  THEN [NoPass EXCEPT !.at = "wait", !.waiting = young]
                  ELSE [NoPass EXCEPT !.at = "done"])

\* Only the attempt the pass read is closed.
CloseReadAttempt(p, i, phase) ==
    attempt' = IF i \in pass[p].current THEN [attempt EXCEPT ![i].phase = phase] ELSE attempt

\* What the history says of a row, each verdict with the transaction that acts on it, whatever has
\* become of the item since it was read.
RowSucceeds(p, i) ==
    \E k \in First(Candidates(p, i, "ok")) :
        IF Recorded(i)
        THEN /\ PassAs(p, [NoPass EXCEPT !.at = "failed"])   \* insert_once raises: nothing is committed
             /\ UNCHANGED <<item, attempt, ledger>>
        ELSE /\ item' = [item EXCEPT ![i].status = "success"]
             /\ CloseReadAttempt(p, i, "confirmed")
             /\ ledger' = ledger \cup {[item |-> i, reply |-> k]}
             /\ NextRow(p, i, {k}, {})

RowFails(p, i) ==
    \E k \in First(Candidates(p, i, "no")) :
        /\ item' = [item EXCEPT ![i].status = "failed"]
        /\ CloseReadAttempt(p, i, "rejected")
        /\ NextRow(p, i, {k}, {})
        /\ UNCHANGED ledger

RowUnanswered(p, i) ==
    /\ \/ /\ Proven(p, i)
          /\ item' = [item EXCEPT ![i].noReply = TRUE]
          /\ NextRow(p, i, {}, {})
       \/ /\ NotProven(p, i)
          /\ NextRow(p, i, {}, IF pass[p].complete THEN {i} ELSE {})
          /\ UNCHANGED item
    /\ UNCHANGED <<attempt, ledger>>

\* The rows are settled in order; contradicting replies are no answer.
SettleRow(p) ==
    /\ pass[p].at = "settle"
    /\ \E i \in First(pass[p].rows) :
          LET ok == Candidates(p, i, "ok") # {}
              no == Candidates(p, i, "no") # {}
          IN  \/ ok /\ ~no /\ RowSucceeds(p, i)
              \/ no /\ ~ok /\ RowFails(p, i)
              \/ (ok <=> no) /\ RowUnanswered(p, i)
    /\ UNCHANGED <<job, discord, history>>

\* The wait ends when the youngest row has come of age, with a second and last pass, or at once when
\* the runner is asked to stop.
WaitForGrace ==
    /\ pass["sweep"].at = "wait"
    /\ \/ /\ ShouldStop
          /\ PassAs("sweep", [NoPass EXCEPT !.at = "done"])
       \/ /\ ~ShouldStop
          /\ \A i \in pass["sweep"].waiting : Status(i) = "unknown" => i \in aged
          /\ PassAs("sweep", ReadUnknown(FALSE))
    /\ UNCHANGED <<database, discord, history>>

-----------------------------------------------------------------------------
(* The operator *)

Serving == runner.pc # "down"

PauseJob ==
    /\ "pause" \in Requests
    /\ job = "running"
    /\ runner.pc \notin {"idle", "down"}
    /\ RunnerAs([runner EXCEPT !.pauseReq = TRUE])
    /\ UNCHANGED <<database, discord, history>>

\* A running job is asked to stop and the response waits for the task; a paused one is stopped at once.
StopJob ==
    /\ "stop" \in Requests
    /\ Serving
    /\ ~stopping
    /\ \/ /\ job = "running"
          /\ runner' = [runner EXCEPT !.stopReq = TRUE]
          /\ stopping' = TRUE
          /\ UNCHANGED job
       \/ /\ job = "paused"
          /\ job' = "stopped"
          /\ UNCHANGED <<runner, stopping>>
    /\ UNCHANGED <<item, attempt, ledger, discord, pass, request, history>>

\* The task ended or was cancelled: the job is stopped, whatever state the task left it in.
StopFinish ==
    /\ stopping
    /\ runner.pc \in {"idle", "cancelled"}
    /\ job' = "stopped"
    /\ stopping' = FALSE
    /\ UNCHANGED <<item, attempt, ledger, discord, runner, pass, request, history>>

\* wait_stopped gives up after 30 s and cancels the task, wherever it is; its handler runs later.
Cancel ==
    /\ runner.pc \notin {"idle", "down", "cancelled"}
    /\ ShouldStop
    /\ RunnerGone("cancelled")
    /\ UNCHANGED <<database, discord, request, stopping, history>>

\* A bug: the handler gives the task up without telling the job.
CancelledSilently ==
    /\ runner.pc = "cancelled"
    /\ RunnerAs(NoRunner("idle"))
    /\ UNCHANGED <<database, discord, history>>

\* The handler of the cancelled task pauses the job.
Cancelled ==
    /\ runner.pc = "cancelled"
    /\ job' = "paused"
    /\ RunnerAs(NoRunner("idle"))
    /\ UNCHANGED <<item, attempt, ledger, discord, history>>

\* A bug: the operator's word is not recorded.
ResolveSuccessUnrecorded(i) ==
    /\ "success" \in Requests
    /\ Serving
    /\ Status(i) = "unknown"
    /\ item[i].resolved
    /\ ~Recorded(i)
    /\ item' = [item EXCEPT ![i].status = "success"]
    /\ UNCHANGED <<job, attempt, ledger, discord, process, history>>

\* The operator declares an unknown item distributed. The ledger's key refuses a second row.
ResolveSuccess(i) ==
    /\ "success" \in Requests
    /\ Serving
    /\ Status(i) = "unknown"
    /\ item[i].resolved
    /\ ~Recorded(i)
    /\ item' = [item EXCEPT ![i].status = "success"]
    /\ ledger' = ledger \cup {[item |-> i, reply |-> 0]}
    /\ UNCHANGED <<job, attempt, discord, process, history>>

\* A bug: any item can be put back, not only an unknown one.
ResolvePendingAny(i) ==
    /\ "pending" \in Requests
    /\ Serving
    /\ Reopenings(i) < MaxReopen
    /\ item' = [item EXCEPT ![i].status = "pending"]
    /\ job' = IF job = "completed" THEN "paused" ELSE job
    /\ handed' = [handed EXCEPT ![i] = @ + 1]
    /\ UNCHANGED <<attempt, ledger, discord, process, retried>>

\* The operator puts an unknown item back in the queue by hand; a completed job can then run again.
ResolvePending(i) ==
    /\ "pending" \in Requests
    /\ Serving
    /\ Status(i) = "unknown"
    /\ Reopenings(i) < MaxReopen
    /\ item' = [item EXCEPT ![i].status = "pending"]
    /\ job' = IF job = "completed" THEN "paused" ELSE job
    /\ handed' = [handed EXCEPT ![i] = @ + 1]
    /\ UNCHANGED <<attempt, ledger, discord, process, retried>>

\* POST /reconcile and POST /retry-unknown start with a pass, while the job does not run.
StartRequest ==
    /\ request.kind = "none"
    /\ runner.pc = "idle"
    /\ job # "running"
    /\ \/ /\ "reconcile" \in Requests
          /\ request' = [kind |-> "reconcile", completed |-> FALSE]
       \/ /\ "retry" \in Requests
          /\ job \in {"completed", "paused", "stopped"}
          /\ \A i \in Items : Reopenings(i) < MaxReopen
          /\ request' = [kind |-> "retry", completed |-> job = "completed"]
    /\ pass' = [pass EXCEPT !["api"] = ReadUnknown(FALSE)]
    /\ UNCHANGED <<database, discord, runner, stopping, history>>

EndRequest ==
    /\ pass' = [pass EXCEPT !["api"] = NoPass]
    /\ request' = [kind |-> "none", completed |-> FALSE]
    /\ UNCHANGED <<runner, stopping>>

\* The summary is returned; a pass that failed is a 502, and nothing is requeued after it.
FinishReconcile ==
    /\ \/ pass["api"].at = "failed"
       \/ pass["api"].at = "done" /\ request.kind = "reconcile"
    /\ EndRequest
    /\ UNCHANGED <<database, discord, history>>

\* Every item the history was found to hold no reply for goes back in the queue.
Reopened == {i \in Items : Status(i) = "unknown" /\ item[i].noReply}

RetryUnknown ==
    /\ pass["api"].at = "done"
    /\ request.kind = "retry"
    /\ item' = [i \in Items |-> IF i \in Reopened
                                THEN [item[i] EXCEPT !.status = "pending", !.noReply = FALSE]
                                ELSE item[i]]
    /\ job' = IF Reopened # {} /\ request.completed THEN "paused" ELSE job
    /\ retried' = [i \in Items |-> IF i \in Reopened THEN retried[i] + 1 ELSE retried[i]]
    /\ EndRequest
    /\ UNCHANGED <<attempt, ledger, discord, handed>>

-----------------------------------------------------------------------------
(* Crash and recovery *)

Crash ==
    /\ Serving
    /\ runner' = NoRunner("down")
    /\ pass' = [p \in Passes |-> NoPass]
    /\ request' = [kind |-> "none", completed |-> FALSE]
    /\ stopping' = FALSE
    /\ UNCHANGED <<database, discord, history>>

Orphans == {i \in Items : attempt[i].phase \in {"prepared", "sent"}}
\* A bug: an orphaned item goes back to the queue.
RecoveredToQueue(status) == IF status \in Terminal THEN status ELSE "pending"
\* A bug: the item takes over the phase of its attempt.
RecoveredAsPhase(status) == IF status \in Terminal THEN status ELSE "aborted"
\* What recovery makes of an orphaned item: its outcome cannot be known, so it is never sent again.
Recovered(status) == IF status \in Terminal THEN status ELSE "unknown"

Recover ==
    /\ runner.pc = "down"
    /\ attempt' = [i \in Items |-> IF i \in Orphans THEN [attempt[i] EXCEPT !.phase = "aborted"] ELSE attempt[i]]
    /\ item' = [i \in Items |-> IF i \in Orphans THEN [item[i] EXCEPT !.status = Recovered(@)] ELSE item[i]]
    /\ job' = IF job = "running" THEN "paused" ELSE job
    /\ RunnerAs(NoRunner("idle"))
    /\ UNCHANGED <<ledger, discord, history>>

-----------------------------------------------------------------------------
(* Discord: the bot executes a command and replies, late or not at all. The grace period is the time  *)
(* after which it no longer does. The age of an attempt matters to unknown items only.                *)

BotReplies(i) ==
    /\ inflight[i] > 0
    /\ inflight' = [inflight EXCEPT ![i] = @ - 1]
    /\ \E kind \in {"ok", "no"} : channel' = Append(channel, [to |-> Recipient[i], kind |-> kind])
    /\ UNCHANGED <<database, accepted, aged, process, history>>

GracePasses(i) ==
    /\ Status(i) = "unknown"
    /\ i \notin aged
    /\ ScanTakesTime \/ \A p \in Passes : pass[p].at # "clock"
    /\ aged' = aged \cup {i}
    /\ inflight' = [inflight EXCEPT ![i] = 0]
    /\ pass' = [p \in Passes |-> [pass[p] EXCEPT
                   !.old = IF i \in pass[p].current /\ pass[p].at \in {"scan", "clock"} THEN @ \cup {i} ELSE @]]
    /\ UNCHANGED <<database, accepted, channel, runner, request, stopping, history>>

-----------------------------------------------------------------------------
RunnerStep ==
    \/ AcquireToken \/ CheckRoleAndCredential \/ ClaimNext
    \/ SessionError \/ FailBeforeSend \/ Invoke \/ MarkSent
    \/ ConfirmSuccess \/ ConfirmFailed \/ ConfirmUnknown \/ SettleError
    \/ StartSweep \/ EndSweep \/ WaitForGrace \/ Judge \/ Close \/ Cancelled

PassStep(p) == Scan(p) \/ ReadClock(p) \/ SettleRow(p)

OperatorStep ==
    \/ RunJob \/ PauseJob \/ StopJob \/ StopFinish
    \/ StartRequest \/ FinishReconcile \/ RetryUnknown
    \/ \E i \in Items : ResolveSuccess(i) \/ ResolvePending(i)

FaultStep == WorkerError \/ Cancel \/ Crash \/ Recover

BotStep == \E i \in Items : BotReplies(i) \/ GracePasses(i)

Next == RunnerStep \/ (\E p \in Passes : PassStep(p)) \/ OperatorStep \/ FaultStep \/ BotStep

Spec == Init /\ [][Next]_vars

\* The task and its passes are scheduled by the event loop, timers fire, and the service is restarted.
Fairness ==
    /\ WF_vars(RunnerStep)
    /\ \A p \in Passes : WF_vars(PassStep(p))
    /\ \A i \in Items : WF_vars(GracePasses(i))
    /\ WF_vars(StopFinish) /\ WF_vars(FinishReconcile \/ RetryUnknown) /\ WF_vars(Recover)

FairSpec == Spec /\ Fairness

-----------------------------------------------------------------------------
(* Properties *)

\* Nobody put the item back in the queue or declared it distributed.
Untouched(i) == Reopenings(i) = 0 /\ [item |-> i, reply |-> 0] \notin ledger
Credits(i) == Cardinality({k \in 1 .. Len(channel) : channel[k] = [to |-> Recipient[i], kind |-> "ok"]})

DatabaseType ==
    /\ job \in JobStatus
    /\ item \in [Items -> ItemRecord]
    /\ attempt \in [Items -> AttemptRecord]
    /\ ledger \subseteq [item : Items, reply : Nat]
DiscordType ==
    /\ inflight \in [Items -> Nat]
    /\ accepted \in [Items -> Nat]
    /\ channel \in Seq(Reply)
    /\ aged \subseteq Items
\* A task that has claimed an item knows which one.
Sending == {"exec", "mark", "confirm", "settle"}
ProcessType ==
    /\ runner \in RunnerRecord
    /\ runner.pc \in Sending => runner.cur \in Items
    /\ pass \in [Passes -> PassRecord]
    /\ request \in [kind : {"none", "reconcile", "retry"}, completed : BOOLEAN]
    /\ stopping \in BOOLEAN
HistoryType ==
    /\ handed \in [Items -> Nat]
    /\ retried \in [Items -> Nat]

\* Every variable keeps its type.
TypeOK == DatabaseType /\ DiscordType /\ ProcessType /\ HistoryType

\* At most once: beyond its first command, Discord accepts one for an item only after somebody put the
\* item back in the queue. No retry, no other token, no crash and no recovery sends a command that may
\* already have been executed a second time.
AtMostOnce == \A i \in Items : accepted[i] <= 1 + Reopenings(i)

\* Granted once: an item that only retry-unknown put back, and once, is credited once at most, since
\* the proof that let it back in the queue was a sound one.
FirstRetryIsSafe == \A i \in Items : handed[i] = 0 /\ retried[i] <= 1 => Credits(i) <= 1

\* An item has its row in the ledger when it is a success, and an item the operator did not touch has
\* one only then: no order of the runner and the passes records it twice, records it and loses the
\* success, or reports a success that is not on record.
LedgerMatchesItems ==
    \A i \in Items : /\ Status(i) = "success" => Recorded(i)
                     /\ Recorded(i) /\ Untouched(i) => Status(i) = "success"
                     /\ \A r, s \in ledger : r.item = s.item => r = s

\* A job that ends completed has sent everything in its queue: what is left there was put back since.
CompletedSentAll ==
    job = "completed" => \A i \in Items : Status(i) \in Claimable => Reopenings(i) > 0

\* A job shown as running has a task in this process, or the service is down and recovery will see it:
\* no order of errors, cancellations and requests leaves it running with nobody at work.
RunningHasTask == job = "running" => runner.pc # "idle"

\* The write-ahead claim is never undone: an item the runner claimed does not go back to `pending',
\* neither by the runner nor by an operator nor by recovery.
WriteAheadIsKept ==
    [][\A i \in Items : Status(i) = "processing" => item'[i].status # "pending"]_vars

\* A success stays one, unless the operator touched the item before.
SuccessIsKept ==
    [][\A i \in Items : Status(i) = "success" /\ Untouched(i) => item'[i].status = "success"]_vars

\* A run ends: whatever Discord answers and however the tokens fail, the task gives the job back.
RunEnds == runner.pc \notin {"idle", "down"} ~> runner.pc \in {"idle", "down"}

-----------------------------------------------------------------------------
(* The inductive invariant behind AtMostOnce *)

\* While the runner sends an item, nothing else puts it in the queue or declares it unanswered.
SenderOwns == runner.pc \in Sending => Status(Cur) \in {"processing", "success", "failed"}

\* Nothing of the item's present turn has been accepted: it waits in the queue, it is about to be sent,
\* or its command provably did not reach Discord.
Unsent(i) ==
    \/ Status(i) \in Claimable
    \/ Cur = i /\ runner.pc = "exec"
    \/ Cur = i /\ runner.pc = "settle" /\ runner.obs.outcome # "unsure"

\* One command per turn, and one turn more than the times the item was put back.
OncePerTurn == \A i \in Items : accepted[i] <= Reopenings(i) + (IF Unsent(i) THEN 0 ELSE 1)

EngineInv == TypeOK /\ SenderOwns /\ OncePerTurn

-----------------------------------------------------------------------------
(* What a comment of the code says, and its steps do not keep to *)

\* domain/item_state.py: a success is absorbing, no transition leaves it.
SuccessIsAbsorbing ==
    [][\A i \in Items : Status(i) = "success" => item'[i].status = "success"]_vars
=============================================================================
