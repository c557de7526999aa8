---------------------------- MODULE Provisioning ----------------------------
(***************************************************************************)
(* integration-service keeps, from the events of identity-service, a       *)
(* projection of the account and its personal clients with their keys.     *)
(*                                                                         *)
(* The poller applies an event, and moves the cursor, in one transaction;  *)
(* an event that keeps failing becomes a dead letter and the cursor moves  *)
(* past it.  An operator replays letters from another process.  A handler  *)
(* reads the projection without a lock before it writes, so each of the    *)
(* two is a Read and a Commit.  What is read or written of clients is      *)
(* locked, and belongs to the commit.                                      *)
(***************************************************************************)
EXTENDS AccountLog, FiniteSets

CONSTANTS MaxClients, \* bound on the clients of the account: an event that needs another one fails
          MaxKeys,    \* max_credentials_per_client
          MaxAside    \* bound on the dead letters there are at a time

ASSUME ProvisioningAssumption ==
  /\ MaxClients \in Nat \ {0} /\ MaxKeys \in Nat \ {0} /\ MaxAside \in Nat \ {0}

VARIABLES cursor,    \* feed_cursor: the last event that is done with
          letters,   \* dead_letters that are not resolved
          proj,      \* the row of account_projection
          client,    \* client[c]: the row of client c, and how many of its keys are active
          work,      \* work[w]: the event worker w is at, and the projection it has read
          transfer,  \* an administrator is giving the account a client of another one
          raced,     \* history: something was written on a projection that had changed since it was read
          excused    \* history: clients that a revocation of the permission does not close, see RevokedHasNoClient

provisioning == <<cursor, letters, proj, client, work, transfer, raced, excused>>

Clients == 1 .. MaxClients
Workers == {"poller", "replay"}
Idle    == [event |-> 0, seen |-> [status |-> "none", verified |-> FALSE, seq |-> 0]]
NoClient == [status |-> "none", by |-> "none", keys |-> 0]

(* The place of the next client. *)
Free == {c \in Clients : client[c].status = "none" /\ \A d \in 1 .. c - 1 : client[d].status # "none"}

Open(row) == row.status \in {"pending", "active"}
OpenClients == {c \in Clients : Open(client[c])}
SuspendedBy(who) == {c \in Clients : client[c].status = "suspended" /\ client[c].by = who}

(* The unique index on the open personal clients of an owner. *)
IndexHolds(rows) == \A c, d \in Clients : Open(rows[c]) /\ Open(rows[d]) => c = d

Opened(row, status) == [row EXCEPT !.status = status, !.by = "none"]
(* change_status and the revocation of the permission take every key with the client. *)
Closed(row, status, who) == [row EXCEPT !.status = status, !.by = who, !.keys = 0]

ProvisioningInit ==
  /\ cursor = 0 /\ letters = {}
  /\ proj = Idle.seen
  /\ client = [c \in Clients |-> NoClient]
  /\ work = [w \in Workers |-> Idle]
  /\ transfer = FALSE /\ raced = FALSE /\ excused = {}

-----------------------------------------------------------------------------
(* The handlers: what they make of the projection, of which they have seen `seen`, and of the clients *)

RegisteredRow(i, replay) ==
  IF proj.status # "none" /\ replay THEN proj
  ELSE [proj EXCEPT !.status = "pending", !.seq = Max({@, i})]

VerifiedRow(seen) ==
  [proj EXCEPT !.status = IF seen.status \in {"none", "pending"} THEN "active" ELSE seen.status,
               !.verified = TRUE]

VerifiedClients(row) ==
  IF row.status # "active" THEN client
  ELSE [c \in Clients |-> IF client[c].status = "pending" THEN Opened(client[c], "active") ELSE client[c]]

\* Mutant: the seq of a status is not compared.
SupersededNever(i, seen) == FALSE

(* An older event than the one that has set the status changes nothing. *)
Superseded(i, seen) == seen.status # "none" /\ i <= seen.seq

StatusRow(i, status) == [proj EXCEPT !.status = status, !.seq = Max({@, i})]

Restored(row) == Opened(row, IF proj.verified THEN "active" ELSE "pending")
StatusClients(status) ==
  [c \in Clients |-> IF status = "suspended" /\ Open(client[c]) THEN Closed(client[c], "suspended", "account")
                     ELSE IF status = "active" /\ c \in SuspendedBy("account") THEN Restored(client[c])
                     ELSE client[c]]

DeletedClients ==
  [c \in Clients |-> IF client[c].status = "none" THEN NoClient ELSE Closed(client[c], "deleted", "none")]

\* Mutant: only the clients that are in use are closed.
RevokedInUse ==
  [c \in Clients |-> IF client[c].status = "active" THEN Closed(client[c], "suspended", "capability") ELSE client[c]]

RevokedClients ==
  [c \in Clients |-> IF Open(client[c]) THEN Closed(client[c], "suspended", "capability") ELSE client[c]]

(* The open client, else one that a revocation has closed, else a new one; with a key that is to be revealed. *)
GrantTo == IF OpenClients # {} THEN OpenClients
           ELSE IF SuspendedBy("capability") # {} THEN SuspendedBy("capability")
           ELSE Free
\* Mutant: the status of the account is not asked for.
GrantedRowVerified(row, seen) ==
  [(IF Open(row) THEN row ELSE Opened(row, IF seen.verified THEN "active" ELSE "pending")) EXCEPT !.keys = Max({@, 1})]

GrantedRow(row, seen) ==
  LET opened == IF Open(row) THEN row
                ELSE Opened(row, IF seen.verified /\ seen.status = "active" THEN "active" ELSE "pending")
  IN  [opened EXCEPT !.keys = Max({@, 1})]

(* The event is applied, or cannot be. *)
Applies(i, seen, replay) ==
  LET event == log[i] IN
  \/ /\ event = "registered"
     /\ proj' = RegisteredRow(i, replay)
     /\ UNCHANGED <<client, excused>>
  \/ /\ event = "verified"
     /\ proj' = VerifiedRow(seen)
     /\ client' = VerifiedClients(proj')
     /\ UNCHANGED excused
  \/ /\ event \in {"active", "suspended"} /\ ~Superseded(i, seen)
     /\ IndexHolds(StatusClients(event))
     /\ proj' = StatusRow(i, event)
     /\ client' = StatusClients(event)
     /\ UNCHANGED excused
  \/ /\ event \in {"active", "suspended"} /\ Superseded(i, seen)
     /\ UNCHANGED <<proj, client, excused>>
  \/ /\ event = "deleted"
     /\ proj' = StatusRow(i, "deleted")
     /\ client' = DeletedClients
     /\ UNCHANGED excused
  \/ /\ event = "revoked"
     /\ client' = RevokedClients
     /\ excused' = (excused \ OpenClients) \union SuspendedBy("account") \union SuspendedBy("admin")
     /\ UNCHANGED proj
  \/ /\ event = "granted"
     /\ \E c \in GrantTo :
          /\ client' = [client EXCEPT ![c] = GrantedRow(@, seen)]
          /\ excused' = IF \E j \in i + 1 .. cursor : log[j] \in PermissionEvents THEN excused \union {c} ELSE excused
     /\ UNCHANGED proj

CanApply(i, seen) ==
  /\ log[i] \in {"active", "suspended"} /\ ~Superseded(i, seen) => IndexHolds(StatusClients(log[i]))
  /\ log[i] = "granted" => GrantTo # {}

-----------------------------------------------------------------------------
(* The poller and the replay *)

Handled(i) == log[i] # "sessions"   \* HANDLED_TYPES
Ahead == {i \in cursor + 1 .. Len(log) : Handled(i)}

Reads(w, i) ==
  /\ work[w] = Idle
  /\ work' = [work EXCEPT ![w] = [event |-> i, seen |-> proj]]
  /\ UNCHANGED <<cursor, letters, proj, client, transfer, raced, excused>>

PollerReads == Ahead # {} /\ Reads("poller", Min(Ahead))
ReplayReads == \E i \in letters : Reads("replay", i)

Done(w) ==
  /\ work' = [work EXCEPT ![w] = Idle]
  /\ raced' = (raced \/ work[w].seen # proj)
  /\ UNCHANGED transfer

PollerCommits ==
  LET i == work.poller.event IN
  /\ i # 0
  /\ Applies(i, work.poller.seen, FALSE)
  /\ cursor' = i
  /\ Done("poller")
  /\ UNCHANGED letters

ReplayCommits ==
  LET i == work.replay.event IN
  /\ i # 0
  /\ Applies(i, work.replay.seen, TRUE)
  /\ letters' = letters \ {i}
  /\ Done("replay")
  /\ UNCHANGED cursor

\* Mutant: the cursor stays before the letter.
PastNot(i) == i - 1

(* The attempts are used up: the event is put aside, and the next one is not kept waiting. *)
Past(i) == i
GivesUp ==
  LET i == work.poller.event IN
  /\ i # 0
  /\ CanApply(i, work.poller.seen) => Cardinality(letters) < MaxAside
  /\ letters' = letters \union {i}
  /\ cursor' = Past(i)
  /\ work' = [work EXCEPT !.poller = Idle]
  /\ UNCHANGED <<proj, client, transfer, raced, excused>>

(* The database or the process dies before the commit, or the letter fails once more. *)
Abandons(w) ==
  /\ work[w] # Idle
  /\ work' = [work EXCEPT ![w] = Idle]
  /\ UNCHANGED <<cursor, letters, proj, client, transfer, raced, excused>>

-----------------------------------------------------------------------------
(* Administrators and the owner *)

(* Under the lock of the client, so that what is read of the projection is of the time of the commit. *)
MayActivate == proj.verified /\ proj.status = "active"
AdminSets(c, status) ==
  /\ client[c].status \notin {"none", "deleted", status}
  /\ IF status = "active"
     THEN /\ MayActivate
          /\ IndexHolds([client EXCEPT ![c] = Opened(@, "active")])
          /\ client' = [client EXCEPT ![c] = Opened(@, "active")]
          /\ excused' = excused \union {c}
     ELSE /\ client' = [client EXCEPT ![c] = Closed(@, status, IF status = "suspended" THEN "admin" ELSE "none")]
          /\ UNCHANGED excused
  /\ UNCHANGED <<cursor, letters, proj, work, transfer, raced>>

AccountOk == proj.status = "none" \/ (proj.status \notin {"suspended", "deleted"} /\ proj.verified)
IssueKey(c) ==
  /\ client[c].status = "active" /\ AccountOk /\ client[c].keys < MaxKeys
  /\ client' = [client EXCEPT ![c].keys = @ + 1]
  /\ UNCHANGED <<cursor, letters, proj, work, transfer, raced, excused>>

RevokeKey(c) ==
  /\ client[c].keys > 0
  /\ client' = [client EXCEPT ![c].keys = @ - 1]
  /\ UNCHANGED <<cursor, letters, proj, work, transfer, raced, excused>>

(* A client of another account is given to this one: its lock is not one that the events of this one wait for. *)
TransferReads ==
  /\ ~transfer /\ proj.status = "active" /\ OpenClients = {}
  /\ transfer' = TRUE
  /\ UNCHANGED <<cursor, letters, proj, client, work, raced, excused>>

TransferWrites ==
  /\ transfer
  /\ transfer' = FALSE
  /\ \/ \E c \in Free, status \in {"active", "suspended"} :
          /\ client' = [client EXCEPT ![c] = [status |-> status, keys |-> 1,
                                              by |-> IF status = "suspended" THEN "admin" ELSE "none"]]
          /\ IndexHolds(client')
          /\ excused' = excused \union {c}
          /\ raced' = (raced \/ proj.status # "active")
     \/ UNCHANGED <<client, excused, raced>>
  /\ UNCHANGED <<cursor, letters, proj, work>>

ProvisioningNext ==
  \/ PollerReads \/ PollerCommits \/ GivesUp
  \/ ReplayReads \/ ReplayCommits
  \/ \E w \in Workers : Abandons(w)
  \/ TransferReads \/ TransferWrites
  \/ \E c \in Clients :
       \/ \E status \in {"active", "suspended", "deleted"} : AdminSets(c, status)
       \/ IssueKey(c) \/ RevokeKey(c)

(* run_forever: the next event is always tried again, and an attempt does not fail for ever for want of the database. *)
PollerFairness ==
  /\ WF_<<log, provisioning>>(PollerReads /\ UNCHANGED log)
  /\ SF_<<log, provisioning>>((PollerCommits \/ GivesUp) /\ UNCHANGED log)

ProvisioningStep == (ProvisioningNext /\ UNCHANGED log) \/ (AccountChanges /\ UNCHANGED provisioning)

ProvisioningSpec ==
  /\ log = <<>> /\ ProvisioningInit
  /\ [][ProvisioningStep]_<<log, provisioning>>
  /\ PollerFairness

-----------------------------------------------------------------------------
(* The poller has nothing left to do. *)
CaughtUp == Ahead = {}

Quiet == CaughtUp /\ letters = {} /\ work.poller = Idle /\ work.replay = Idle

(* When every event is applied, however late the letters among them were, the projection is what the events say in     *)
(* their order, unless the replay of a letter overlapped with the poller.                                              *)
StatusIsCurrent == Quiet /\ ~raced => proj.status = Status /\ proj.verified = Verified

(* A key is accepted only while the account is active, for any order of events, letters and administrators.            *)
AcceptedIsAllowed == ~raced => \A c \in Clients : client[c].status = "active" /\ client[c].keys > 0 => proj.status = "active"

(* Once the permission is taken no client stays open, except one that was suspended for another reason when it was     *)
(* taken, that an administrator has opened or given since, or that the replay of an older grant has opened.            *)
RevokedHasNoClient == Quiet /\ LastIs(PermissionEvents, "revoked") => OpenClients \subseteq excused
=============================================================================
