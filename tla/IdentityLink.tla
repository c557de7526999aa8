---------------------------- MODULE IdentityLink ----------------------------
(***************************************************************************)
(* reward-service keeps, from the events of identity-service, the denylist *)
(* of an account, and pauses the account's job.                            *)
(*                                                                         *)
(* The poller fetches a page and handles its events one by one, each in    *)
(* three steps: the transaction that changes the denylist, the pause of    *)
(* the job, the mark that the event is processed.  The cursor moves when   *)
(* the page is done.  An event that keeps failing becomes a dead letter,   *)
(* which an operator replays from another process; that one has no job to  *)
(* pause.  An administrator who changes the permission through Reward has  *)
(* it changed in Identity first and then on the denylist.  The job's       *)
(* runner looks at the denylist before every item.                         *)
(***************************************************************************)
EXTENDS AccountLog, FiniteSets

CONSTANTS MaxLinkEvents,   \* bound on the events here
          MaxLetters       \* bound on the events that become dead letters

ASSUME LinkAssumption == MaxLinkEvents \in 1 .. MaxEvents /\ MaxLetters \in Nat

VARIABLES linkCursor,   \* feed_cursor
          page,         \* the last event of the page that is being handled; 0 for none
          at,           \* the event of the page that is next, or under way
          step,         \* how far that one is: "next", "applied", "paused"
          processed,    \* processed_events
          deadLetters,  \* dead_letters that are not replayed
          deny,         \* the reasons on account_denylist that block the whole account
          job,          \* the account's job; owed, history: an event has come since it started that asks for a pause
          replay,       \* the letter under replay; late, history: a newer event is applied that it does not know of
          request,      \* an administrator's request: the event Identity has written for it
          applied,      \* history: the events that have changed the denylist
          aside,        \* history: the events that were dead letters
          crossed       \* history: a change of the denylist was made after that of a newer event, see DenialsAreCurrent

poller  == <<linkCursor, page, at, step>>
records == <<processed, deadLetters>>
ghosts  == <<applied, aside, crossed>>
link    == <<poller, records, deny, job, replay, request, ghosts>>

Reasons == {"suspended", "permission_revoked", "deleted"}
NoJob     == [state |-> "off", asked |-> FALSE, owed |-> FALSE]
NoReplay  == [letter |-> 0, late |-> FALSE]

LinkInit ==
  /\ linkCursor = 0 /\ page = 0 /\ at = 0 /\ step = "next"
  /\ processed = {} /\ deadLetters = {} /\ deny = {}
  /\ job = NoJob /\ replay = NoReplay /\ request = 0
  /\ applied = {} /\ aside = {} /\ crossed = FALSE

-----------------------------------------------------------------------------
(* What an event does *)

(* "verified" is not one of HANDLED_TYPES, and "registered" says nothing of denials. *)
LinkHandles(event) == event \notin {"registered", "verified"}

\* Mutant: only events of the same kind replace each other.
KeyOfEvent(event) == event

Key(event) == IF event \in {"active", "suspended"} THEN "account.status_changed"
              ELSE IF event \in PermissionEvents THEN "account.permission_changed" ELSE event

DenyAfter(event) ==
  CASE event = "suspended" -> deny \union {"suspended"}
    [] event = "active"    -> deny \ {"suspended"}
    [] event = "revoked"   -> deny \union {"permission_revoked"}
    [] event = "granted"   -> deny \ {"permission_revoked"}
    [] event = "deleted"   -> deny \union {"deleted"}
    [] OTHER               -> deny

Pauses(event) == event \in {"suspended", "revoked", "deleted", "sessions"}

(* feed.superseded *)
Supersedes(j, i) == j > i /\ Key(log[j]) = Key(log[i])

\* Mutant: a pause is asked for only while the account is denied.
AskedIfDenied == [job EXCEPT !.asked = @ \/ (job.state = "running" /\ deny # {})]

(* pause_account_jobs *)
Asked == [job EXCEPT !.asked = @ \/ job.state = "running"]

Owing == [job EXCEPT !.owed = @ \/ (job.state = "running" /\ Pauses(log'[Len(log')]))]

Overtaken(i, by) == \E j \in by : Supersedes(j, i)

-----------------------------------------------------------------------------
(* The poller *)

LinkAhead == {i \in linkCursor + 1 .. Len(log) : LinkHandles(log[i])}

FetchPage ==
  /\ page = 0 /\ LinkAhead # {}
  /\ page' = Max(LinkAhead) /\ at' = Min(LinkAhead)
  /\ UNCHANGED <<records, ghosts, linkCursor, step, deny, job, replay, request>>

InPage == page # 0 /\ at <= page
Following == IF at < page THEN Min({i \in at + 1 .. page : LinkHandles(log[i])}) ELSE page + 1

SkipProcessed ==
  /\ InPage /\ step = "next" /\ at \in processed
  /\ at' = Following
  /\ UNCHANGED <<records, ghosts, linkCursor, page, step, deny, job, replay, request>>

(* An event that was put aside comes again when its page does, after newer ones. *)
ApplyEvent ==
  /\ InPage /\ step = "next" /\ at \notin processed
  /\ deny' = DenyAfter(log[at])
  /\ applied' = applied \union {at}
  /\ crossed' = (crossed \/ (at \in aside /\ Overtaken(at, applied)))
  /\ replay' = IF replay # NoReplay /\ Supersedes(at, replay.letter) THEN [replay EXCEPT !.late = TRUE] ELSE replay
  /\ step' = IF Pauses(log[at]) THEN "applied" ELSE "paused"
  /\ UNCHANGED <<records, linkCursor, page, at, job, request, aside>>

PauseJobs ==
  /\ InPage /\ step = "applied"
  /\ job' = Asked
  /\ step' = "paused"
  /\ UNCHANGED <<records, ghosts, linkCursor, page, at, deny, replay, request>>

MarkProcessed ==
  /\ InPage /\ step = "paused"
  /\ processed' = processed \union {at}
  /\ at' = Following /\ step' = "next"
  /\ UNCHANGED <<ghosts, linkCursor, page, deadLetters, deny, job, replay, request>>

(* The attempts are used up, at whatever step they fail. *)
PutAside ==
  /\ InPage /\ at \notin processed
  /\ Cardinality(aside \union {at}) <= MaxLetters
  /\ deadLetters' = deadLetters \union {at} /\ aside' = aside \union {at}
  /\ job' = [job EXCEPT !.owed = FALSE]
  /\ at' = Following /\ step' = "next"
  /\ UNCHANGED <<linkCursor, page, processed, deny, replay, request, applied, crossed>>

EndPage ==
  /\ page # 0 /\ at > page
  /\ linkCursor' = page
  /\ page' = 0 /\ at' = 0
  /\ UNCHANGED <<records, ghosts, step, deny, job, replay, request>>

(* The database fails where the poller does not try again, or one of the attempts at an event fails. *)
BreaksOff ==
  /\ page # 0
  /\ step' = "next"
  /\ \/ page' = 0 /\ at' = 0
     \/ step # "next" /\ UNCHANGED <<page, at>>
  /\ UNCHANGED <<records, ghosts, linkCursor, deny, job, replay, request>>

(* The process dies with its job, and the poller starts from the cursor. *)
Crash ==
  /\ page' = 0 /\ at' = 0 /\ step' = "next"
  /\ job' = NoJob
  /\ request' = 0
  /\ UNCHANGED <<records, ghosts, linkCursor, deny, replay>>

-----------------------------------------------------------------------------
(* The replay of dead letters, in a process of its own *)

LookAtLetter ==
  /\ replay = NoReplay
  /\ \E i \in deadLetters :
       /\ i = Min(deadLetters)
       /\ IF i \in processed \/ Overtaken(i, processed)
          THEN deadLetters' = deadLetters \ {i} /\ UNCHANGED replay
          ELSE replay' = [letter |-> i, late |-> Overtaken(i, applied \ processed)] /\ UNCHANGED deadLetters
  /\ UNCHANGED <<poller, ghosts, processed, deny, job, request>>

(* The change of the denylist; the mark on the event and on the letter follow, and may be lost. *)
ReplayLetter ==
  /\ replay # NoReplay
  /\ deny' = DenyAfter(log[replay.letter])
  /\ applied' = applied \union {replay.letter}
  /\ crossed' = (crossed \/ replay.late)
  /\ \/ /\ processed' = processed \union {replay.letter}
        /\ deadLetters' = deadLetters \ {replay.letter}
     \/ UNCHANGED <<processed, deadLetters>>
  /\ replay' = NoReplay
  /\ UNCHANGED <<poller, job, request, aside>>

-----------------------------------------------------------------------------
(* The job *)

(* `start` looks at the denylist, and long after it hands the job to its runner. *)
CheckStart ==
  /\ job.state = "off" /\ deny = {}
  /\ job' = [job EXCEPT !.state = "starting"]
  /\ UNCHANGED <<poller, records, ghosts, deny, replay, request>>

Starts ==
  /\ job.state = "starting"
  /\ job' = [job EXCEPT !.state = "running"]
  /\ UNCHANGED <<poller, records, ghosts, deny, replay, request>>

(* Before an item: a pause that was asked for, or the denylist, ends the run. *)
MustPause == job.asked \/ deny # {}
RunnerPauses ==
  /\ job.state = "running" /\ MustPause
  /\ job' = NoJob
  /\ UNCHANGED <<poller, records, ghosts, deny, replay, request>>

RunEnds ==
  /\ job.state = "running" /\ ~MustPause
  /\ job' = NoJob
  /\ UNCHANGED <<poller, records, ghosts, deny, replay, request>>

-----------------------------------------------------------------------------
AccountTells ==
  /\ Len(log) < MaxLinkEvents
  /\ SetStatus \/ Grant \/ Revoke \/ EndSessions \/ Delete
  /\ job' = Owing
  /\ UNCHANGED <<poller, records, deny, replay, request, ghosts>>

(* An administrator changes the permission through Reward *)

(* To grant what is granted is no error, to withdraw what is not is one. *)
AskIdentity ==
  /\ request = 0
  /\ \/ Len(log) < MaxLinkEvents /\ (Grant \/ Revoke) /\ request' = Len(log') /\ job' = Owing
     \/ Granted /\ request' = Last(PermissionEvents) /\ UNCHANGED <<log, job>>
  /\ UNCHANGED <<poller, records, ghosts, deny, replay>>

ChangeHere ==
  /\ request # 0
  /\ deny' = DenyAfter(log[request])
  /\ crossed' = (crossed \/ Overtaken(request, applied))
  /\ job' = IF Pauses(log[request]) THEN Asked ELSE job
  /\ request' = 0
  /\ UNCHANGED <<poller, records, replay, applied, aside>>

Polling == FetchPage \/ SkipProcessed \/ ApplyEvent \/ PauseJobs \/ MarkProcessed \/ EndPage

LinkNext ==
  \/ Polling \/ PutAside \/ BreaksOff \/ Crash
  \/ LookAtLetter \/ ReplayLetter
  \/ CheckStart \/ Starts \/ RunnerPauses \/ RunEnds
  \/ ChangeHere

LinkFairness == WF_<<log, link>>(RunnerPauses /\ UNCHANGED log)

LinkStep == (LinkNext /\ UNCHANGED log) \/ AccountTells \/ AskIdentity

LinkSpec ==
  /\ log = <<"registered">> /\ LinkInit
  /\ [][LinkStep]_<<log, link>>
  /\ LinkFairness

-----------------------------------------------------------------------------
Denied(reason) ==
  CASE reason = "suspended"          -> LastIs({"active", "suspended"}, "suspended")
    [] reason = "permission_revoked" -> LastIs(PermissionEvents, "revoked")
    [] reason = "deleted"            -> Deleted

LinkQuiet == LinkAhead = {} /\ page = 0 /\ deadLetters = {} /\ replay = NoReplay /\ request = 0

(* When all is handled the denylist is what the events say in their order, for any crash between the steps and however *)
(* late letters were replayed, unless the change of an event was made after that of a newer one by someone who could   *)
(* not know: an administrator's request, a replay that overlaps with the poller, or a page that comes again.           *)
DenialsAreCurrent == LinkQuiet /\ ~crossed => deny = {r \in Reasons : Denied(r)}

(* The job goes on while its account is denied. *)
DeniedRuns == job.state = "running" /\ deny # {}

(* A run that was going on when an event was written that asks for a pause is asked to pause before the event is done  *)
(* with: even if a newer event lifts the denial before the runner looks, and for the end of a session, which denies    *)
(* nothing.                                                                                                            *)
PauseIsAsked ==
  job.owed /\ ~job.asked => \E i \in DOMAIN log : Pauses(log[i]) /\ i > linkCursor /\ i \notin processed
=============================================================================
