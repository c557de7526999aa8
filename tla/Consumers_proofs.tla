--------------------------- MODULE Consumers_proofs ---------------------------
(***************************************************************************)
(* What holds of the two readers of the account's events, for any number   *)
(* of events, clients, keys and dead letters, and wherever the poller, the *)
(* replay, the administrators and a crash come between each other's steps. *)
(***************************************************************************)
EXTENDS Provisioning, IdentityLink, WellFoundedInduction, SequenceTheorems, TLAPS

(* The events in their order: an account is registered first, deleted last, and verified only with a status of its own. *)
Settled == {"active", "suspended", "deleted"}
LogIs ==
  /\ log \in Seq(Events)
  /\ \A i \in DOMAIN log : (log[i] = "registered" <=> i = 1) /\ (log[i] = "deleted" => i = Len(log))
  /\ \A i \in DOMAIN log : log[i] = "verified" => \E j \in DOMAIN log : log[j] \in Settled

-----------------------------------------------------------------------------
(* Integration *)

Projection == [status : {"none", "pending"} \union Settled, verified : BOOLEAN, seq : Nat]
ClientRow == [status : {"none", "pending"} \union Settled, by : {"none", "account", "admin", "capability"}, keys : Nat]

ProvisioningType ==
  /\ cursor \in 0 .. Len(log) /\ letters \subseteq 1 .. cursor
  /\ proj \in Projection
  /\ client \in [Clients -> ClientRow]
  /\ work \in [Workers -> [event : Nat, seen : Projection]]
  /\ transfer \in BOOLEAN /\ raced \in BOOLEAN /\ excused \subseteq Clients

(* The poller is at the first event after the cursor that concerns it, the replay at a letter. *)
WorkIs ==
  /\ \A i \in letters : Handled(i)
  /\ work["replay"].event # 0 => work["replay"].event \in letters
  /\ work["poller"].event # 0 =>
       /\ work["poller"].event \in cursor + 1 .. Len(log) /\ Handled(work["poller"].event)
       /\ \A j \in cursor + 1 .. work["poller"].event - 1 : ~Handled(j)

(* Before the first event there is nothing. *)
NothingYet == cursor = 0 => proj = Idle.seen /\ client = [c \in Clients |-> NoClient] /\ ~transfer

(* The events that are done with and were applied. *)
WasApplied(i) == i \in 1 .. cursor /\ i \notin letters

AppliedEvents == {i \in DOMAIN log : WasApplied(i)}

(* Row p is what the events of list l say whose places are in A: of the newest status among them, in the order of l. *)
Projects(l, p, A) ==
  /\ p.verified <=> \E i \in A : l[i] = "verified"
  /\ \/ /\ p.seq \in A /\ l[p.seq] \in Settled /\ p.status = l[p.seq]
        /\ \A j \in A : l[j] \in Settled => j <= p.seq
     \/ /\ \A j \in A : l[j] \notin Settled
        /\ p.seq <= 1
        /\ p.status = IF p.verified THEN "active" ELSE IF 1 \in A THEN "pending" ELSE "none"

ProjectionIs == ~raced => Projects(log, proj, AppliedEvents)

ActiveIsAllowed == ~raced => \A c \in Clients : client[c].status = "active" => proj.status = "active"

(* The clients that are open, or that the next "active" opens. *)
Opening == OpenClients \union SuspendedBy("account")

(* When the last word on the permission is a revocation that was applied, what is open or may be opened again with the
   account is excused. *)
RevokedCloses ==
  \A i \in DOMAIN log :
    WasApplied(i) /\ log[i] = "revoked" /\ (\A j \in DOMAIN log : log[j] \in PermissionEvents => j <= i)
      => Opening \subseteq excused

ProvisioningInv ==
  LogIs /\ ProvisioningType /\ WorkIs /\ NothingYet /\ ProjectionIs /\ ActiveIsAllowed /\ RevokedCloses

-----------------------------------------------------------------------------
(* Reward *)

Told == {i \in DOMAIN log : LinkHandles(log[i])}

LinkType ==
  /\ linkCursor \in 0 .. Len(log)
  /\ page = 0 => at = 0
  /\ page # 0 => page \in Told /\ at \in linkCursor + 1 .. page + 1 /\ (at <= page => at \in Told)
  /\ page \in Nat /\ at \in Nat
  /\ step \in {"next", "applied", "paused"} /\ (step # "next" => InPage /\ at \in applied)
  /\ processed \subseteq applied /\ applied \subseteq Told /\ deadLetters \subseteq aside /\ aside \subseteq Told
  /\ deny \subseteq Reasons
  /\ job \in [state : {"off", "starting", "running"}, asked : BOOLEAN, owed : BOOLEAN]
  /\ replay \in [letter : Nat, late : BOOLEAN]
  /\ request \in Nat /\ (request # 0 => request \in DOMAIN log /\ log[request] \in PermissionEvents)
  /\ crossed \in BOOLEAN

(* An event the poller has passed was processed, or put aside and is a dead letter yet unless something newer replaced
   it; and it has passed whatever is older than what was ever applied or put aside. *)
PassedIs ==
  /\ \A i \in Told : i <= linkCursor \/ i < at =>
       i \in processed \union aside /\ (i \in processed \union deadLetters \/ Overtaken(i, processed))
  /\ \A j \in applied \union aside : \A i \in Told : i < j => i \in processed \union aside

ReplayIs ==
  replay # NoReplay => replay.letter \in aside /\ (~replay.late => ~Overtaken(replay.letter, applied))

(* The events that say something of a reason, and the one that imposes it. *)
Kinds(r) == CASE r = "suspended" -> {"active", "suspended"}
              [] r = "permission_revoked" -> PermissionEvents
              [] r = "deleted" -> {"deleted"}
Imposing(r) == IF r = "permission_revoked" THEN "revoked" ELSE r

(* What is denied for a reason is what an event says than which no newer one about that reason was applied. *)
Denials(l, d, done, r) ==
  \/ \E k \in DOMAIN l : /\ l[k] \in Kinds(r) /\ \A j \in done : l[j] \in Kinds(r) => j <= k
                         /\ r \in d <=> l[k] = Imposing(r)
  \/ r \notin d /\ \A j \in done : l[j] \notin Kinds(r)
DenyIs == ~crossed => \A r \in Reasons : Denials(log, deny, applied, r)

(* The event that is owed a pause is before the poller yet, and has not come to its pause. *)
OwedIs ==
  /\ job.owed => job.state = "running"
  /\ job.owed /\ ~job.asked =>
       \E i \in DOMAIN log : /\ Pauses(log[i]) /\ i > linkCursor /\ i \notin processed \union aside
                             /\ ~(at = i /\ step = "paused")

LinkInv == LogIs /\ LinkType /\ PassedIs /\ ReplayIs /\ DenyIs /\ OwedIs

-----------------------------------------------------------------------------
(* The log *)

LEMMA MinIs ==
  ASSUME NEW S \in SUBSET Nat, S # {}
  PROVE  Min(S) \in S /\ \A i \in S : Min(S) <= i
<1> DEFINE R == {p \in Nat \X Nat : p[1] < p[2]}
<1>1. IsWellFoundedOn(R, Nat) BY NatLessThanWellFounded DEF OpToRel
<1>2. PICK n \in S : \A m \in S : ~(<<m, n>> \in R) BY <1>1, WFMin
<1>3. \A m \in S : n <= m
  <2> SUFFICES ASSUME NEW m \in S, m < n PROVE FALSE BY <1>2
  <2>1. <<m, n>> \in Nat \X Nat /\ <<m, n>>[1] = m /\ <<m, n>>[2] = n OBVIOUS
  <2>2. <<m, n>> \in R BY <2>1
  <2> QED BY <1>2, <2>2
<1> QED BY <1>3 DEF Min

LEMMA MaxIs ==
  ASSUME NEW S \in SUBSET Nat, NEW b \in Nat, S # {}, \A i \in S : i <= b
  PROVE  Max(S) \in S /\ \A i \in S : i <= Max(S)
<1> DEFINE T == {b - i : i \in S}
<1>1. T \in SUBSET Nat /\ T # {}
  <2>1. \A i \in S : b - i \in Nat OBVIOUS
  <2> QED BY <2>1
<1>2. PICK n \in T : \A m \in T : n <= m
  <2> HIDE DEF T
  <2>1. Min(T) \in T /\ \A m \in T : Min(T) <= m BY <1>1, MinIs
  <2> QED BY <2>1
<1>3. PICK k \in S : n = b - k BY <1>2
<1>4. \A i \in S : k >= i BY <1>2, <1>3
<1> QED BY <1>3, <1>4 DEF Max

LEMMA LastIsLast ==
  ASSUME LogIs, NEW kinds
  PROVE  /\ Last(kinds) \in Nat /\ Last(kinds) <= Len(log)
         /\ Last(kinds) # 0 => Last(kinds) \in DOMAIN log /\ log[Last(kinds)] \in kinds
         /\ \A i \in DOMAIN log : log[i] \in kinds => i <= Last(kinds)
<1> DEFINE S == {0} \union {i \in DOMAIN log : log[i] \in kinds}
<1>1. DOMAIN log = 1 .. Len(log) /\ Len(log) \in Nat BY DEF LogIs
<1>2. S \in SUBSET Nat /\ S # {} /\ \A i \in S : i <= Len(log) BY <1>1
<1>3. Max(S) \in S /\ \A i \in S : i <= Max(S) BY <1>1, <1>2, MaxIs
<1>4. Last(kinds) = Max(S) BY DEF Last
<1> HIDE DEF S
<1>5. Last(kinds) \in S /\ \A i \in S : i <= Last(kinds) BY <1>3, <1>4
<1> QED BY <1>1, <1>2, <1>5 DEF S

(* There is one last event of some kinds, if there is one. *)
LEMMA LastIsIs ==
  ASSUME LogIs, NEW kinds, NEW event
  PROVE  LastIs(kinds, event) <=>
           \E i \in DOMAIN log : log[i] = event /\ event \in kinds /\ \A j \in DOMAIN log : log[j] \in kinds => j <= i
<1>1. DOMAIN log = 1 .. Len(log) /\ Len(log) \in Nat BY DEF LogIs
<1>2. /\ Last(kinds) \in Nat
      /\ Last(kinds) # 0 => Last(kinds) \in DOMAIN log /\ log[Last(kinds)] \in kinds
      /\ \A i \in DOMAIN log : log[i] \in kinds => i <= Last(kinds)
  BY LastIsLast
<1>3. ASSUME NEW i \in DOMAIN log, log[i] = event, event \in kinds, \A j \in DOMAIN log : log[j] \in kinds => j <= i
      PROVE  LastIs(kinds, event)
  <2>1. i <= Last(kinds) /\ Last(kinds) # 0 BY <1>1, <1>2, <1>3
  <2>2. Last(kinds) <= i BY <1>2, <1>3, <2>1
  <2>3. Last(kinds) = i BY <1>1, <1>2, <2>1, <2>2
  <2> QED BY <1>3, <2>1, <2>3 DEF LastIs
<1>4. ASSUME LastIs(kinds, event)
      PROVE  \E i \in DOMAIN log : log[i] = event /\ event \in kinds /\ \A j \in DOMAIN log : log[j] \in kinds => j <= i
  BY <1>2, <1>4 DEF LastIs
<1> QED BY <1>3, <1>4

LEMMA DeletedIs == LogIs => (Deleted <=> \E i \in DOMAIN log : log[i] = "deleted")
<1> SUFFICES ASSUME LogIs PROVE Deleted <=> \E i \in DOMAIN log : log[i] = "deleted" OBVIOUS
<1>1. DOMAIN log = 1 .. Len(log) /\ Len(log) \in Nat BY DEF LogIs
<1>2. Deleted <=> \E i \in DOMAIN log : log[i] = "deleted" /\ "deleted" \in StatusEvents
                                         /\ \A j \in DOMAIN log : log[j] \in StatusEvents => j <= i
  BY LastIsIs DEF Deleted
<1>3. ASSUME NEW i \in DOMAIN log, log[i] = "deleted"
      PROVE  "deleted" \in StatusEvents /\ \A j \in DOMAIN log : log[j] \in StatusEvents => j <= i
  <2>1. i = Len(log) BY <1>3 DEF LogIs
  <2> QED BY <1>1, <2>1 DEF StatusEvents
<1> QED BY <1>2, <1>3

(* The log grows at its end. *)
Longer == Len(log) <= Len(log') /\ \A i \in DOMAIN log : i \in DOMAIN log' /\ log'[i] = log[i]

LEMMA TellKeeps ==
  ASSUME LogIs, NEW events \in Seq(Events \ {"registered"}), Tell(events),
         \A i \in DOMAIN events : events[i] = "deleted" => i = Len(events),
         \A i \in DOMAIN events : events[i] = "verified" =>
            (\E j \in DOMAIN log : log[j] \in Settled) \/ (\E j \in DOMAIN events : events[j] \in Settled)
  PROVE  LogIs' /\ Longer /\ Len(log') = Len(log) + Len(events)
         /\ \A i \in DOMAIN events : log'[Len(log) + i] = events[i]
<1>1. /\ log \in Seq(Events) /\ DOMAIN log = 1 .. Len(log) /\ Len(log) \in Nat /\ Len(log) > 0
      /\ DOMAIN events = 1 .. Len(events) /\ Len(events) \in Nat /\ log' = log \o events /\ ~Deleted
      /\ events \in Seq(Events)
  BY DEF LogIs, Tell, Registered
<1>2. /\ log' \in Seq(Events) /\ Len(log') = Len(log) + Len(events) /\ DOMAIN log' = 1 .. Len(log')
      /\ \A i \in 1 .. Len(log') : log'[i] = IF i <= Len(log) THEN log[i] ELSE events[i - Len(log)]
  <2>1. log' \in Seq(Events) /\ Len(log') = Len(log) + Len(events) BY <1>1, ConcatProperties
  <2>2. \A i \in 1 .. Len(log) + Len(events) : (log \o events)[i] = IF i <= Len(log) THEN log[i] ELSE events[i - Len(log)]
    BY <1>1, ConcatProperties
  <2> QED BY <1>1, <2>1, <2>2
<1>3. Longer BY <1>1, <1>2 DEF Longer
<1>4. \A i \in DOMAIN events : Len(log) + i \in DOMAIN log' /\ log'[Len(log) + i] = events[i]
  <2> SUFFICES ASSUME NEW i \in DOMAIN events PROVE Len(log) + i \in DOMAIN log' /\ log'[Len(log) + i] = events[i] OBVIOUS
  <2> DEFINE k == Len(log) + i
  <2>1. k \in 1 .. Len(log') /\ ~(k <= Len(log)) /\ k - Len(log) = i BY <1>1, <1>2
  <2> HIDE DEF k
  <2>2. log'[k] = events[i] BY <1>2, <2>1
  <2> QED BY <1>2, <2>1, <2>2 DEF k
<1>5. ASSUME NEW i \in DOMAIN log', ~(i <= Len(log))
      PROVE  /\ i - Len(log) \in DOMAIN events /\ log'[i] = events[i - Len(log)]
  BY <1>1, <1>2, <1>5
<1>6. ASSUME NEW i \in DOMAIN log' PROVE (log'[i] = "registered" <=> i = 1) /\ (log'[i] = "deleted" => i = Len(log'))
  <2>1. CASE i <= Len(log)
    <3>1. i \in DOMAIN log /\ log'[i] = log[i] BY <1>1, <1>2, <1>6, <2>1
    <3>2. log[i] # "deleted" BY <1>1, <3>1, DeletedIs
    <3> QED BY <3>1, <3>2 DEF LogIs
  <2>2. CASE ~(i <= Len(log))
    <3>1. i - Len(log) \in DOMAIN events /\ log'[i] = events[i - Len(log)] BY <1>5, <2>2
    <3>2. log'[i] # "registered" BY <1>1, <3>1
    <3>3. i # 1 BY <1>1, <1>2, <2>2
    <3>4. log'[i] = "deleted" => i - Len(log) = Len(events) BY <3>1
    <3>5. log'[i] = "deleted" => i = Len(log')
      <4>1. i \in Nat /\ Len(log) \in Nat /\ Len(events) \in Nat BY <1>1, <1>2
      <4>2. i - Len(log) = Len(events) => i = Len(log) + Len(events) BY <4>1
      <4> QED BY <1>2, <3>4, <4>2
    <3> QED BY <3>2, <3>3, <3>5
  <2> QED BY <2>1, <2>2
<1>7. ASSUME NEW i \in DOMAIN log', log'[i] = "verified" PROVE \E j \in DOMAIN log' : log'[j] \in Settled
  <2>1. (\E j \in DOMAIN log : log[j] \in Settled) \/ (\E j \in DOMAIN events : events[j] \in Settled)
    <3>1. CASE i <= Len(log)
      <4>1. i \in DOMAIN log /\ log'[i] = log[i] BY <1>1, <1>2, <1>7, <3>1
      <4> QED BY <1>7, <4>1 DEF LogIs
    <3>2. CASE ~(i <= Len(log))
      <4>1. i - Len(log) \in DOMAIN events /\ events[i - Len(log)] = "verified" BY <1>5, <1>7, <3>2
      <4> QED BY <4>1
    <3> QED BY <3>1, <3>2
  <2>2. CASE \E j \in DOMAIN log : log[j] \in Settled BY <1>3, <2>2 DEF Longer
  <2>3. CASE \E j \in DOMAIN events : events[j] \in Settled
    <3>1. PICK j \in DOMAIN events : events[j] \in Settled BY <2>3
    <3>2. Len(log) + j \in DOMAIN log' /\ log'[Len(log) + j] = events[j] BY <1>4
    <3> QED BY <3>1, <3>2
  <2> QED BY <2>1, <2>2, <2>3
<1>8. LogIs' BY <1>2, <1>6, <1>7 DEF LogIs
<1> QED BY <1>2, <1>3, <1>4, <1>8

LEMMA OneTold ==
  ASSUME LogIs, SetStatus \/ Grant \/ Revoke \/ EndSessions \/ Delete
  PROVE  LogIs' /\ Longer /\ Len(log') = Len(log) + 1
<1>1. PICK event \in Events \ {"registered", "verified"} : Tell(<<event>>)
  BY DEF SetStatus, Grant, Revoke, EndSessions, Delete, Events, StatusEvents, PermissionEvents
<1> DEFINE events == <<event>>
<1>2. /\ events \in Seq(Events \ {"registered"}) /\ Len(events) = 1 /\ Tell(events)
      /\ \A i \in DOMAIN events : i = 1 /\ events[i] = event
  BY <1>1
<1> HIDE DEF events
<1>3. \A i \in DOMAIN events : i = Len(events) /\ events[i] # "verified" BY <1>1, <1>2
<1> QED BY <1>2, <1>3, TellKeeps

LEMMA AccountKeeps == ASSUME LogIs, AccountChanges PROVE LogIs' /\ Longer
<1>1. CASE Register
  <2>1. PICK events \in {<<"registered">>, <<"registered", "granted">>} : log' = events BY <1>1 DEF Register
  <2>2. Len(log) = 0 /\ DOMAIN log = 1 .. Len(log) BY <1>1 DEF LogIs, Register, Registered
  <2>3. CASE events = <<"registered">>
    <3>1. log' \in Seq(Events) /\ DOMAIN log' = 1 .. 1 /\ log'[1] = "registered" BY <2>1, <2>3 DEF Events, StatusEvents
    <3> QED BY <2>2, <3>1 DEF LogIs, Longer
  <2>4. CASE events = <<"registered", "granted">>
    <3>1. log' \in Seq(Events) /\ DOMAIN log' = 1 .. 2 /\ log'[1] = "registered" /\ log'[2] = "granted"
      BY <2>1, <2>4 DEF Events, StatusEvents, PermissionEvents
    <3>2. Len(log') = 2 BY <2>1, <2>4
    <3> QED BY <2>2, <3>1, <3>2 DEF LogIs, Longer
  <2> QED BY <2>1, <2>3, <2>4
<1>2. CASE Verify
  <2>1. CASE Status = "pending"
    <3> DEFINE events == <<"verified", "active">>
    <3>1. /\ events \in Seq(Events \ {"registered"}) /\ DOMAIN events = 1 .. 2
          /\ events[1] = "verified" /\ events[2] = "active"
      BY DEF Events, StatusEvents
    <3>2. Tell(events) BY <1>2, <2>1 DEF Verify
    <3> HIDE DEF events
    <3>3. 2 \in DOMAIN events /\ events[2] \in Settled /\ \A i \in DOMAIN events : events[i] # "deleted"
      BY <3>1 DEF Settled
    <3> QED BY <3>1, <3>2, <3>3, TellKeeps
  <2>2. CASE Status # "pending"
    <3> DEFINE events == <<"verified">>
    <3>1. /\ events \in Seq(Events \ {"registered"}) /\ \A i \in DOMAIN events : events[i] = "verified" BY DEF Events
    <3>2. Tell(events) BY <1>2, <2>2 DEF Verify
    <3> HIDE DEF events
    <3>3. Registered BY <3>2 DEF Tell
    <3>4. 1 \in DOMAIN log /\ log[1] = "registered" /\ DOMAIN log = 1 .. Len(log) BY <3>3 DEF LogIs, Registered
    <3>5. 1 <= Last(StatusEvents) /\ Last(StatusEvents) # 0 BY <3>4, LastIsLast DEF StatusEvents
    <3>6. Last(StatusEvents) \in DOMAIN log /\ log[Last(StatusEvents)] \in StatusEvents BY <3>5, LastIsLast
    <3>7. log[Last(StatusEvents)] # "registered" BY <2>2, <3>3, <3>5 DEF Status, LastIs
    <3>8. log[Last(StatusEvents)] \in Settled BY <3>6, <3>7 DEF StatusEvents, Settled
    <3> QED BY <3>1, <3>2, <3>6, <3>8, TellKeeps
  <2> QED BY <2>1, <2>2
<1>3. CASE SetStatus \/ Grant \/ Revoke \/ Delete BY <1>3, OneTold
<1> QED BY <1>1, <1>2, <1>3 DEF AccountChanges

LEMMA LargerIs == ASSUME NEW a \in Nat, NEW b \in Nat PROVE Max({a, b}) = IF a >= b THEN a ELSE b
<1> DEFINE S == {a, b}
           c == IF a >= b THEN a ELSE b
<1>1. S \in SUBSET Nat /\ S # {} /\ c \in Nat /\ \A i \in S : i <= c OBVIOUS
<1>2. c \in S OBVIOUS
<1> HIDE DEF S, c
<1>3. Max(S) \in S /\ \A i \in S : i <= Max(S) BY <1>1, MaxIs
<1>4. c <= Max(S) /\ Max(S) <= c /\ Max(S) \in Nat BY <1>1, <1>2, <1>3
<1> QED BY <1>1, <1>4 DEF S, c

-----------------------------------------------------------------------------
(* Integration: what an event does *)

LEMMA RowsAre ==
  ASSUME NEW row \in ClientRow
  PROVE  /\ \A status \in {"none", "pending"} \union Settled :
              /\ Opened(row, status) \in ClientRow /\ Opened(row, status).status = status /\ Opened(row, status).by = "none"
              /\ Opened(row, status).keys = row.keys
         /\ \A status \in {"none", "pending"} \union Settled, who \in {"none", "account", "admin", "capability"} :
              /\ Closed(row, status, who) \in ClientRow
              /\ Closed(row, status, who).status = status /\ Closed(row, status, who).by = who
BY DEF Opened, Closed, ClientRow

(* What becomes of client c. *)
ClientChange(c, i, seen) ==
  LET event == log[i] IN
  /\ event = "verified" =>
       \/ client'[c] = client[c]
       \/ client[c].status = "pending" /\ client'[c].status = "active" /\ client'[c].by = "none" /\ proj'.status = "active"
  /\ event = "suspended" =>
       IF Superseded(i, seen) THEN client'[c] = client[c]
       ELSE IF Open(client[c]) THEN client'[c].status = "suspended" /\ client'[c].by = "account"
       ELSE client'[c] = client[c]
  /\ event = "active" =>
       \/ client'[c] = client[c]
       \/ c \in SuspendedBy("account") /\ Open(client'[c]) /\ proj'.status = "active"
  /\ event = "deleted" => client'[c].status \in {"none", "deleted"}
  /\ event = "revoked" =>
       IF Open(client[c]) THEN client'[c].status = "suspended" /\ client'[c].by = "capability" ELSE client'[c] = client[c]
  /\ event = "registered" => client'[c] = client[c]

LEMMA ClientsChange ==
  ASSUME LogIs, ProvisioningType, NEW i \in DOMAIN log, log[i] # "granted", NEW seen \in Projection, NEW again \in BOOLEAN,
         Applies(i, seen, again), NEW c \in Clients
  PROVE  client'[c] \in ClientRow /\ ClientChange(c, i, seen)
<1>0. client \in [Clients -> ClientRow] /\ client[c] \in ClientRow BY DEF ProvisioningType
<1> DEFINE row == client[c]
<1>1. /\ \A status \in {"none", "pending"} \union Settled :
              /\ Opened(row, status) \in ClientRow /\ Opened(row, status).status = status /\ Opened(row, status).by = "none"
      /\ \A status \in {"none", "pending"} \union Settled, who \in {"none", "account", "admin", "capability"} :
              /\ Closed(row, status, who) \in ClientRow
              /\ Closed(row, status, who).status = status /\ Closed(row, status, who).by = who
  BY <1>0, RowsAre
<1>2. CASE log[i] = "registered" BY <1>0, <1>2 DEF Applies, ClientChange
<1>3. CASE log[i] = "verified"
  <2>1. client' = VerifiedClients(proj') BY <1>3 DEF Applies
  <2>2. client'[c] = row \/ (row.status = "pending" /\ client'[c] = Opened(row, "active") /\ proj'.status = "active")
    BY <1>0, <2>1 DEF VerifiedClients
  <2> QED BY <1>0, <1>1, <1>3, <2>2 DEF ClientChange, Settled
<1>4. CASE log[i] = "suspended"
  <2>1. CASE Superseded(i, seen)
    <3>1. client' = client BY <1>4, <2>1 DEF Applies
    <3> QED BY <1>0, <1>4, <2>1, <3>1 DEF ClientChange
  <2>2. CASE ~Superseded(i, seen)
    <3>1. client' = StatusClients("suspended") BY <1>4, <2>2 DEF Applies
    <3>2. client'[c] = IF Open(row) THEN Closed(row, "suspended", "account") ELSE row
      BY <3>1 DEF StatusClients
    <3> QED BY <1>0, <1>1, <1>4, <2>2, <3>2 DEF ClientChange, Settled
  <2> QED BY <2>1, <2>2
<1>5. CASE log[i] = "active"
  <2>1. CASE Superseded(i, seen)
    <3>1. client' = client BY <1>5, <2>1 DEF Applies
    <3> QED BY <1>0, <1>5, <3>1 DEF ClientChange
  <2>2. CASE ~Superseded(i, seen)
    <3>1. client' = StatusClients("active") /\ proj' = StatusRow(i, "active") BY <1>5, <2>2 DEF Applies
    <3>2. client'[c] = row \/ (c \in SuspendedBy("account") /\ client'[c] = Restored(row))
      BY <3>1 DEF StatusClients
    <3>3. Restored(row) \in ClientRow /\ Open(Restored(row)) BY <1>1 DEF Restored, Open, Settled
    <3>4. proj'.status = "active" BY <3>1 DEF StatusRow, ProvisioningType, Projection
    <3> QED BY <1>0, <1>5, <3>2, <3>3, <3>4 DEF ClientChange
  <2> QED BY <2>1, <2>2
<1>6. CASE log[i] = "deleted"
  <2>1. client' = DeletedClients BY <1>6 DEF Applies
  <2>2. client'[c] = IF row.status = "none" THEN NoClient ELSE Closed(row, "deleted", "none") BY <2>1 DEF DeletedClients
  <2>3. NoClient \in ClientRow /\ NoClient.status = "none" BY DEF NoClient, ClientRow
  <2> QED BY <1>1, <1>6, <2>2, <2>3 DEF ClientChange, Settled
<1>7. CASE log[i] = "revoked"
  <2>1. client' = RevokedClients BY <1>7 DEF Applies
  <2>2. client'[c] = IF Open(row) THEN Closed(row, "suspended", "capability") ELSE row BY <2>1 DEF RevokedClients
  <2> QED BY <1>0, <1>1, <1>7, <2>2 DEF ClientChange, Settled
<1> QED BY <1>2, <1>3, <1>4, <1>5, <1>6, <1>7 DEF Applies

(* What a grant does to the client it finds or makes. *)
GrantedAt(c, i, seen) ==
  /\ client' = [client EXCEPT ![c] = client'[c]]
  /\ client'[c] \in ClientRow /\ Open(client'[c])
  /\ client'[c].status = "active" => client[c].status = "active" \/ seen.status = "active"
  /\ excused \subseteq excused' /\ excused' \subseteq Clients
  /\ (\E j \in i + 1 .. cursor : log[j] \in PermissionEvents) => c \in excused'
  /\ proj' = proj

LEMMA GrantChange ==
  ASSUME ProvisioningType, NEW i \in DOMAIN log, log[i] = "granted", NEW seen \in Projection, NEW again \in BOOLEAN,
         Applies(i, seen, again)
  PROVE  \E c \in Clients : GrantedAt(c, i, seen)
<1>1. PICK c \in GrantTo :
        /\ client' = [client EXCEPT ![c] = GrantedRow(client[c], seen)]
        /\ excused' = IF \E j \in i + 1 .. cursor : log[j] \in PermissionEvents THEN excused \union {c} ELSE excused
        /\ proj' = proj
  BY DEF Applies
<1>2. c \in Clients BY <1>1 DEF GrantTo, OpenClients, SuspendedBy, Free
<1> DEFINE row == client[c]
           opened == IF Open(row) THEN row
                     ELSE Opened(row, IF seen.verified /\ seen.status = "active" THEN "active" ELSE "pending")
<1>3. row \in ClientRow /\ client \in [Clients -> ClientRow] /\ excused \subseteq Clients BY <1>2 DEF ProvisioningType
<1>4. \A status \in {"none", "pending"} \union Settled :
         Opened(row, status) \in ClientRow /\ Opened(row, status).status = status
  BY <1>3, RowsAre
<1>5. /\ opened \in ClientRow /\ Open(opened)
      /\ opened.status = "active" => row.status = "active" \/ seen.status = "active"
  <2>1. CASE Open(row) BY <1>3, <2>1
  <2>2. CASE ~Open(row)
    <3> DEFINE status == IF seen.verified /\ seen.status = "active" THEN "active" ELSE "pending"
    <3>1. status \in {"active", "pending"} /\ (status = "active" => seen.status = "active") OBVIOUS
    <3>2. opened = Opened(row, status) BY <2>2
    <3> HIDE DEF status, opened
    <3>3. opened \in ClientRow /\ opened.status = status BY <1>4, <3>1, <3>2 DEF Settled
    <3> QED BY <3>1, <3>3 DEF Open
  <2> QED BY <2>1, <2>2
<1>6. GrantedRow(row, seen) = [opened EXCEPT !.keys = Max({opened.keys, 1})] BY DEF GrantedRow
<1> HIDE DEF opened
<1> DEFINE n == Max({opened.keys, 1})
<1>7. n \in Nat BY <1>5, LargerIs DEF ClientRow
<1>8. GrantedRow(row, seen) = [opened EXCEPT !.keys = n] BY <1>6
<1> HIDE DEF n
<1> DEFINE new == [opened EXCEPT !.keys = n]
<1>9. new \in ClientRow /\ new.status = opened.status BY <1>5, <1>7 DEF ClientRow
<1> HIDE DEF new
<1>10. client' = [client EXCEPT ![c] = new] BY <1>1, <1>8 DEF new
<1>11. client'[c] = new BY <1>2, <1>3, <1>10
<1>12. excused \subseteq excused' /\ excused' \subseteq Clients
       /\ ((\E j \in i + 1 .. cursor : log[j] \in PermissionEvents) => c \in excused')
  BY <1>1, <1>2, <1>3
<1> QED BY <1>1, <1>2, <1>5, <1>9, <1>10, <1>11, <1>12 DEF GrantedAt, Open

LEMMA AppliesTypes ==
  ASSUME LogIs, ProvisioningType, NEW i \in DOMAIN log, NEW seen \in Projection, NEW again \in BOOLEAN,
         Applies(i, seen, again)
  PROVE  proj' \in Projection /\ client' \in [Clients -> ClientRow] /\ excused' \subseteq Clients
<1>1. i \in Nat /\ proj \in Projection /\ client \in [Clients -> ClientRow] /\ excused \subseteq Clients
  BY DEF LogIs, ProvisioningType
<1>2. Max({proj.seq, i}) \in Nat BY <1>1, LargerIs DEF Projection
<1>3. proj' \in Projection
  <2> DEFINE n == Max({proj.seq, i})
  <2>1. \A status \in {"none", "pending"} \union Settled : [proj EXCEPT !.status = status, !.seq = n] \in Projection
    <3> HIDE DEF n
    <3>1. n \in Nat BY <1>2 DEF n
    <3> QED BY <1>1, <3>1 DEF Projection
  <2>2. VerifiedRow(seen) \in Projection BY <1>1 DEF VerifiedRow, Projection, Settled
  <2>3. RegisteredRow(i, again) \in Projection BY <1>1, <2>1 DEF RegisteredRow
  <2>4. \A status \in Settled : StatusRow(i, status) \in Projection BY <2>1 DEF StatusRow
  <2> QED BY <1>1, <2>2, <2>3, <2>4 DEF Applies, Settled
<1>4. CASE log[i] = "granted"
  <2>1. PICK c \in Clients : GrantedAt(c, i, seen) BY <1>4, GrantChange
  <2>2. client' \in [Clients -> ClientRow] BY <1>1, <2>1 DEF GrantedAt
  <2> QED BY <1>3, <2>1, <2>2 DEF GrantedAt
<1>5. CASE log[i] # "granted"
  <2>1. \A c \in Clients : client'[c] \in ClientRow BY <1>5, ClientsChange
  <2>2. client' = [c \in Clients |-> client'[c]]
    BY <1>1, <1>5 DEF Applies, VerifiedClients, StatusClients, DeletedClients, RevokedClients
  <2>3. client' \in [Clients -> ClientRow] BY <2>1, <2>2
  <2>4. excused' \subseteq Clients BY <1>1, <1>5 DEF Applies, OpenClients, SuspendedBy
  <2> QED BY <1>3, <2>3, <2>4
<1> QED BY <1>4, <1>5

LEMMA AppliesOpens ==
  ASSUME LogIs, ProvisioningType, NEW i \in DOMAIN log, NEW seen \in Projection, NEW again \in BOOLEAN,
         Applies(i, seen, again)
  PROVE  /\ log[i] = "revoked" => Opening' \subseteq excused'
         /\ log[i] \notin PermissionEvents => Opening' \subseteq Opening /\ excused' = excused
         /\ log[i] = "granted" /\ (\E j \in i + 1 .. cursor : log[j] \in PermissionEvents) /\ Opening \subseteq excused
              => Opening' \subseteq excused'
<1>0. client \in [Clients -> ClientRow] BY DEF ProvisioningType
<1>1. CASE log[i] = "granted"
  <2>1. PICK c \in Clients : GrantedAt(c, i, seen) BY <1>1, GrantChange
  <2>2. \A d \in Clients : d # c => client'[d] = client[d] BY <1>0, <2>1 DEF GrantedAt
  <2>3. Opening' \subseteq Opening \union {c} BY <2>2 DEF Opening, OpenClients, SuspendedBy
  <2> QED BY <1>1, <2>1, <2>3 DEF GrantedAt, PermissionEvents
<1>2. CASE log[i] # "granted"
  <2>1. \A c \in Clients : ClientChange(c, i, seen) BY <1>2, ClientsChange
  <2>2. CASE log[i] = "revoked"
    <3>1. \A c \in Clients : IF Open(client[c]) THEN client'[c].status = "suspended" /\ client'[c].by = "capability"
                             ELSE client'[c] = client[c]
      BY <2>1, <2>2 DEF ClientChange
    <3>2. Opening' \subseteq SuspendedBy("account") BY <3>1 DEF Opening, OpenClients, SuspendedBy, Open
    <3>3. SuspendedBy("account") \subseteq excused' BY <2>2 DEF Applies
    <3> QED BY <2>2, <3>2, <3>3 DEF PermissionEvents
  <2>3. CASE log[i] # "revoked"
    <3>1. excused' = excused BY <1>2, <2>3 DEF Applies
    <3>2. log[i] \in {"registered", "verified", "active", "suspended", "deleted"} BY <1>2, <2>3 DEF Applies
    <3>3. ASSUME NEW c \in Clients, c \in Opening' PROVE c \in Opening
      <4>1. ClientChange(c, i, seen) BY <2>1
      <4>2. Open(client'[c]) \/ (client'[c].status = "suspended" /\ client'[c].by = "account")
        BY <3>3 DEF Opening, OpenClients, SuspendedBy
      <4>3. client'[c] = client[c] => c \in Opening BY <4>2 DEF Opening, OpenClients, SuspendedBy
      <4>4. Open(client[c]) \/ c \in SuspendedBy("account") => c \in Opening BY DEF Opening, OpenClients
      <4>5. CASE log[i] = "verified" BY <4>1, <4>3, <4>4, <4>5 DEF ClientChange, Open
      <4>6. CASE log[i] = "suspended" BY <4>1, <4>3, <4>4, <4>6 DEF ClientChange
      <4>7. CASE log[i] = "active" BY <4>1, <4>3, <4>4, <4>7 DEF ClientChange
      <4>8. CASE log[i] = "deleted" BY <4>1, <4>2, <4>8 DEF ClientChange, Open
      <4>9. CASE log[i] = "registered" BY <4>1, <4>3, <4>9 DEF ClientChange
      <4> QED BY <3>2, <4>5, <4>6, <4>7, <4>8, <4>9
    <3>4. Opening' \subseteq Opening BY <3>3 DEF Opening, OpenClients, SuspendedBy
    <3> QED BY <1>2, <2>3, <3>1, <3>4
  <2> QED BY <2>2, <2>3
<1> QED BY <1>1, <1>2

LEMMA AppliesAllows ==
  ASSUME LogIs, ProvisioningType, NEW i \in DOMAIN log, NEW again \in BOOLEAN, Applies(i, proj, again),
         \A c \in Clients : client[c].status = "active" => proj.status = "active",
         log[i] = "registered" /\ ~again => \A c \in Clients : client[c].status = "none"
  PROVE  \A c \in Clients : client'[c].status = "active" => proj'.status = "active"
<1>0. proj \in Projection /\ client \in [Clients -> ClientRow] BY DEF ProvisioningType
<1>1. CASE log[i] = "granted"
  <2>1. PICK c \in Clients : GrantedAt(c, i, proj) BY <1>0, <1>1, GrantChange
  <2>2. \A d \in Clients : d # c => client'[d] = client[d] BY <1>0, <2>1 DEF GrantedAt
  <2> QED BY <2>1, <2>2 DEF GrantedAt
<1>2. CASE log[i] # "granted"
  <2>1. \A c \in Clients : ClientChange(c, i, proj) BY <1>0, <1>2, ClientsChange
  <2> SUFFICES ASSUME NEW c \in Clients, client'[c].status = "active" PROVE proj'.status = "active" OBVIOUS
  <2>2. ClientChange(c, i, proj) BY <2>1
  <2>3. client'[c] = client[c] => proj.status = "active" OBVIOUS
  <2>4. CASE log[i] = "registered"
    <3>1. client'[c] = client[c] /\ proj.status = "active" BY <2>2, <2>3, <2>4 DEF ClientChange
    <3>2. again BY <2>4, <3>1
    <3>3. proj' = proj BY <2>4, <3>1, <3>2 DEF Applies, RegisteredRow
    <3> QED BY <3>1, <3>3
  <2>5. CASE log[i] = "verified"
    <3>1. client'[c] = client[c] \/ proj'.status = "active" BY <2>2, <2>5 DEF ClientChange
    <3>2. proj' = VerifiedRow(proj) BY <2>5 DEF Applies
    <3>3. proj.status = "active" => proj'.status = "active" BY <1>0, <3>2 DEF VerifiedRow, Projection
    <3> QED BY <2>3, <3>1, <3>3
  <2>6. CASE log[i] = "suspended"
    <3>1. client'[c] = client[c] BY <2>2, <2>6, "suspended" # "active" DEF ClientChange
    <3>2. Superseded(i, proj) BY <2>2, <2>6, <3>1 DEF ClientChange, Open
    <3>3. proj' = proj BY <2>6, <3>2 DEF Applies
    <3> QED BY <2>3, <3>1, <3>3
  <2>7. CASE log[i] = "active"
    <3>1. client'[c] = client[c] \/ proj'.status = "active" BY <2>2, <2>7 DEF ClientChange
    <3>2. proj' = proj \/ proj' = StatusRow(i, "active") BY <2>7 DEF Applies
    <3>3. proj.status = "active" => proj'.status = "active" BY <1>0, <3>2 DEF StatusRow, Projection
    <3> QED BY <2>3, <3>1, <3>3
  <2>8. CASE log[i] = "deleted" BY <2>2, <2>8 DEF ClientChange
  <2>9. CASE log[i] = "revoked"
    <3>1. client'[c] = client[c] BY <2>2, <2>9 DEF ClientChange
    <3>2. proj' = proj BY <2>9 DEF Applies
    <3> QED BY <2>3, <3>1, <3>2
  <2> QED BY <1>2, <2>4, <2>5, <2>6, <2>7, <2>8, <2>9 DEF Applies
<1> QED BY <1>1, <1>2

(* An event that is applied to what its elders and juniors have made finds its place among them. *)
LEMMA AppliesProjects ==
  ASSUME LogIs, ProvisioningType, NEW i \in DOMAIN log, NEW again \in BOOLEAN, Applies(i, proj, again),
         NEW A \in SUBSET DOMAIN log, NEW B \in SUBSET DOMAIN log, i \notin A,
         \A j \in DOMAIN log : log[j] # "sessions" => (j \in B <=> j \in A \/ j = i),
         Projects(log, proj, A), log[i] = "registered" /\ ~again => proj = Idle.seen
  PROVE  Projects(log, proj', B)
<1>0. /\ proj \in Projection /\ DOMAIN log = 1 .. Len(log) /\ Len(log) \in Nat /\ i \in Nat /\ i >= 1
      /\ \A j \in DOMAIN log : log[j] = "registered" <=> j = 1
      /\ \A j \in DOMAIN log : log[j] = "deleted" => j = Len(log)
  BY DEF LogIs, ProvisioningType
<1>1. Max({proj.seq, i}) = IF proj.seq >= i THEN proj.seq ELSE i BY <1>0, LargerIs DEF Projection
<1> DEFINE Fresh == /\ \A j \in A : log[j] \notin Settled
                    /\ proj.seq <= 1
                    /\ proj.status = IF proj.verified THEN "active" ELSE IF 1 \in A THEN "pending" ELSE "none"
           Set == /\ proj.seq \in A /\ log[proj.seq] \in Settled /\ proj.status = log[proj.seq]
                  /\ \A j \in A : log[j] \in Settled => j <= proj.seq
           Proved == proj.verified <=> \E j \in A : log[j] = "verified"
<1>2. Proved /\ (Set \/ Fresh) BY DEF Projects
<1>3. proj.seq \in Nat /\ proj.verified \in BOOLEAN BY <1>0 DEF Projection
<1>4. Set => proj.seq \in DOMAIN log /\ proj.seq \in B /\ proj.seq # 1 /\ proj.status \in Settled BY <1>0 DEF Settled
<1>5. log[1] = "registered" BY <1>0
<1>6. CASE log[i] \in {"revoked", "granted"}
  <2>1. proj' = proj BY <1>6 DEF Applies
  <2>2. Proved => (proj.verified <=> \E j \in B : log[j] = "verified") BY <1>6
  <2>3. Set => proj.seq \in B /\ \A j \in B : log[j] \in Settled => j <= proj.seq BY <1>4, <1>6 DEF Settled
  <2>4. Fresh => (\A j \in B : log[j] \notin Settled) /\ (1 \in A <=> 1 \in B)
    <3>1. \A j \in B : log[j] \in Settled => j \in A BY <1>6 DEF Settled
    <3>2. 1 # i /\ 1 \in DOMAIN log BY <1>0, <1>5, <1>6
    <3> QED BY <1>5, <3>1, <3>2
  <2> HIDE DEF Proved
  <2>5. CASE Set BY <1>2, <2>1, <2>2, <2>3, <2>5 DEF Projects
  <2>6. CASE Fresh BY <1>2, <2>1, <2>2, <2>4, <2>6 DEF Projects
  <2> QED BY <1>2, <2>5, <2>6
<1>7. CASE log[i] = "registered"
  <2>1. i = 1 /\ 1 \notin A /\ 1 \in B /\ proj' = RegisteredRow(i, again) BY <1>0, <1>7 DEF Applies
  <2>2. Proved => (proj.verified <=> \E j \in B : log[j] = "verified") BY <1>7
  <2>3. \A j \in B : log[j] \in Settled => j \in A BY <1>7 DEF Settled
  <2>4. CASE Set
    <3>1. proj.status \in Settled /\ proj.status # "none" BY <1>4, <2>4 DEF Settled
    <3>2. again BY <1>7, <3>1 DEF Idle
    <3>3. proj' = proj BY <2>1, <3>1, <3>2 DEF RegisteredRow
    <3> HIDE DEF Proved
    <3> QED BY <1>2, <1>4, <2>2, <2>3, <2>4, <3>3 DEF Projects
  <2>5. CASE Fresh
    <3>1. CASE proj.status # "none"
      <4>1. again BY <1>7, <3>1 DEF Idle
      <4>2. proj' = proj /\ proj.verified BY <2>1, <2>5, <3>1, <4>1 DEF RegisteredRow
      <4> HIDE DEF Proved
      <4> QED BY <1>2, <2>2, <2>3, <2>5, <4>2 DEF Projects
    <3>2. CASE proj.status = "none"
      <4> DEFINE n == Max({proj.seq, i})
      <4>1. n <= 1 BY <1>1, <1>3, <2>1, <2>5
      <4>2. proj' = [proj EXCEPT !.status = "pending", !.seq = n] BY <2>1, <3>2 DEF RegisteredRow
      <4> HIDE DEF n
      <4>3. proj'.status = "pending" /\ proj'.seq = n /\ proj'.verified = proj.verified BY <1>0, <4>2 DEF Projection
      <4>4. ~proj.verified BY <2>5, <3>2
      <4> HIDE DEF Proved
      <4> QED BY <1>2, <2>1, <2>2, <2>3, <2>5, <4>1, <4>3, <4>4 DEF Projects
    <3> QED BY <3>1, <3>2
  <2> QED BY <1>2, <2>4, <2>5
<1>8. CASE log[i] = "verified"
  <2>1. proj' = VerifiedRow(proj) BY <1>8 DEF Applies
  <2>2. /\ proj'.status = IF proj.status \in {"none", "pending"} THEN "active" ELSE proj.status
        /\ proj'.verified = TRUE /\ proj'.seq = proj.seq
    BY <1>0, <2>1 DEF VerifiedRow, Projection
  <2>3. i \in B /\ \E j \in B : log[j] = "verified" BY <1>8
  <2>4. \A j \in B : log[j] \in Settled => j \in A BY <1>8 DEF Settled
  <2>5. CASE Set
    <3>1. proj'.status = proj.status BY <1>4, <2>2, <2>5 DEF Settled
    <3> QED BY <1>4, <2>2, <2>3, <2>4, <2>5, <3>1 DEF Projects
  <2>6. CASE Fresh
    <3>1. proj'.status = "active" BY <2>2, <2>6
    <3> QED BY <2>2, <2>3, <2>4, <2>6, <3>1 DEF Projects
  <2> QED BY <1>2, <2>5, <2>6
<1>9. CASE log[i] \in Settled
  <2>1. Proved => (proj.verified <=> \E j \in B : log[j] = "verified") BY <1>9 DEF Settled
  <2>2. \A j \in B : log[j] \in Settled => j \in A \/ j = i BY DEF Settled
  <2>3. i \in B /\ i # 1 /\ i > 1 BY <1>0, <1>9 DEF Settled
  <2>4. CASE proj' = proj
    <3>1. Superseded(i, proj) \/ (log[i] = "deleted" /\ proj' = StatusRow(i, "deleted"))
          \/ (log[i] \in {"active", "suspended"} /\ ~Superseded(i, proj) /\ proj' = StatusRow(i, log[i]))
      BY <1>9 DEF Applies, Settled
    <3> QED
      <4>1. CASE Superseded(i, proj)
        <5>1. proj.status # "none" /\ i <= proj.seq BY <4>1 DEF Superseded
        <5>2. ~(proj.seq <= 1) BY <1>0, <1>3, <2>3, <5>1
        <5>3. Set BY <1>2, <5>2
        <5> HIDE DEF Proved
        <5> QED BY <1>2, <1>4, <2>1, <2>2, <2>4, <5>1, <5>3 DEF Projects
      <4>2. CASE log[i] = "deleted" /\ proj' = StatusRow(i, "deleted")
        <5>1. proj.status = "deleted" /\ proj.seq = Max({proj.seq, i})
          BY <1>0, <2>4, <4>2 DEF StatusRow, Projection
        <5>2. i <= proj.seq BY <1>0, <1>1, <1>3, <5>1
        <5>3. ~(proj.seq <= 1) BY <1>0, <1>3, <2>3, <5>2
        <5>4. Set BY <1>2, <5>3
        <5> HIDE DEF Proved
        <5> QED BY <1>2, <1>4, <2>1, <2>2, <2>4, <5>2, <5>4 DEF Projects
      <4>3. CASE log[i] \in {"active", "suspended"} /\ ~Superseded(i, proj) /\ proj' = StatusRow(i, log[i])
        <5>1. proj.status = log[i] /\ proj.seq = Max({proj.seq, i})
          BY <1>0, <2>4, <4>3 DEF StatusRow, Projection
        <5>2. i <= proj.seq BY <1>0, <1>1, <1>3, <5>1
        <5> QED BY <4>3, <5>1, <5>2 DEF Superseded
      <4> QED BY <3>1, <4>1, <4>2, <4>3
  <2>5. CASE proj' # proj
    <3>1. proj' = StatusRow(i, log[i]) /\ (log[i] # "deleted" => ~Superseded(i, proj)) BY <1>9, <2>5 DEF Applies, Settled
    <3>2. proj'.status = log[i] /\ proj'.seq = Max({proj.seq, i}) /\ proj'.verified = proj.verified
      <4> DEFINE n == Max({proj.seq, i})
      <4>1. proj' = [proj EXCEPT !.status = log[i], !.seq = n] BY <3>1 DEF StatusRow
      <4> HIDE DEF n
      <4> QED BY <1>0, <4>1 DEF n, Projection
    <3>3. i >= proj.seq /\ \A j \in B : log[j] \in Settled => j <= i
      <4>1. CASE Set
        <5>1. proj.seq <= i
          <6>1. CASE log[i] = "deleted"
            <7>1. proj.seq \in 1 .. Len(log) /\ i = Len(log) BY <1>0, <1>4, <4>1, <6>1
            <7> QED BY <1>0, <7>1
          <6>2. CASE log[i] # "deleted"
            <7>1. proj.status # "none" BY <1>4, <4>1 DEF Settled
            <7> QED BY <1>0, <1>3, <3>1, <6>2, <7>1 DEF Superseded
          <6> QED BY <6>1, <6>2
        <5> QED BY <1>0, <1>3, <2>2, <4>1, <5>1
      <4>2. CASE Fresh BY <1>0, <1>3, <2>2, <2>3, <4>2
      <4> QED BY <1>2, <4>1, <4>2
    <3>4. proj'.seq = i BY <1>0, <1>1, <1>3, <3>2, <3>3
    <3> HIDE DEF Proved
    <3> QED BY <1>2, <1>9, <2>1, <2>3, <3>2, <3>3, <3>4 DEF Projects
  <2> QED BY <2>4, <2>5
<1> QED BY <1>6, <1>7, <1>8, <1>9 DEF Applies, Settled

-----------------------------------------------------------------------------
(* Integration: the invariant *)

LEMMA ProvisioningStart == log = <<>> /\ ProvisioningInit => ProvisioningInv
<1> SUFFICES ASSUME log = <<>>, ProvisioningInit PROVE ProvisioningInv OBVIOUS
<1>1. Len(log) = 0 /\ DOMAIN log = {} /\ log \in Seq(Events) OBVIOUS
<1>2. LogIs BY <1>1 DEF LogIs
<1>3. Idle.seen \in Projection /\ Idle.seen.status = "none" /\ Idle.seen.seq = 0 /\ Idle.seen.verified = FALSE
      /\ Idle.event = 0
  BY DEF Idle, Projection
<1>4. Idle \in [event : Nat, seen : Projection] BY DEF Idle, Projection
<1>5. NoClient \in ClientRow /\ NoClient.status = "none" BY DEF NoClient, ClientRow
<1>6. client \in [Clients -> ClientRow] /\ \A c \in Clients : client[c] = NoClient BY <1>5 DEF ProvisioningInit
<1>7. work \in [Workers -> [event : Nat, seen : Projection]] BY <1>4 DEF ProvisioningInit
<1>8. work["poller"] = Idle /\ work["replay"] = Idle BY DEF ProvisioningInit, Workers
<1>9. ProvisioningType
  <2>1. cursor = 0 /\ letters = {} /\ proj = Idle.seen /\ transfer = FALSE /\ raced = FALSE /\ excused = {}
    BY DEF ProvisioningInit
  <2>2. cursor \in 0 .. Len(log) /\ letters \subseteq 1 .. cursor BY <1>1, <2>1
  <2>3. proj \in Projection BY <1>3, <2>1
  <2> QED BY <1>6, <1>7, <2>1, <2>2, <2>3 DEF ProvisioningType
<1>10. WorkIs BY <1>3, <1>8 DEF ProvisioningInit, WorkIs
<1>11. NothingYet BY DEF ProvisioningInit, NothingYet
<1>12. ProjectionIs
  <2>1. AppliedEvents = {} BY <1>1 DEF AppliedEvents
  <2>2. proj = Idle.seen BY DEF ProvisioningInit
  <2> QED BY <1>3, <2>1, <2>2 DEF ProjectionIs, Projects
<1>13. ActiveIsAllowed BY <1>5, <1>6 DEF ActiveIsAllowed
<1>14. RevokedCloses BY <1>1 DEF RevokedCloses
<1> QED BY <1>2, <1>9, <1>10, <1>11, <1>12, <1>13, <1>14 DEF ProvisioningInv

LEMMA ProvisioningWaits ==
  ASSUME ProvisioningInv, LogIs', Longer, UNCHANGED provisioning
  PROVE  ProvisioningInv'
<1>1. UNCHANGED <<cursor, letters, proj, client, work, transfer, raced, excused>> BY DEF provisioning
<1>2. /\ DOMAIN log = 1 .. Len(log) /\ Len(log) \in Nat /\ DOMAIN log' = 1 .. Len(log') /\ Len(log') \in Nat
      /\ Len(log) <= Len(log') /\ \A i \in DOMAIN log : i \in DOMAIN log' /\ log'[i] = log[i]
  BY DEF ProvisioningInv, LogIs, Longer
<1>3. cursor \in 0 .. Len(log) /\ letters \subseteq 1 .. cursor BY DEF ProvisioningInv, ProvisioningType
<1>4. \A i : WasApplied(i) <=> WasApplied(i)' BY <1>1 DEF WasApplied
<1>5. \A i : WasApplied(i) => i \in DOMAIN log BY <1>2, <1>3 DEF WasApplied
<1>6. ProvisioningType' BY <1>1, <1>2, <1>3 DEF ProvisioningInv, ProvisioningType, Clients
<1>7. WorkIs'
  <2>1. \A i \in letters : Handled(i)'
    <3>1. \A i \in letters : i \in DOMAIN log BY <1>2, <1>3
    <3> QED BY <1>2, <3>1 DEF ProvisioningInv, WorkIs, Handled
  <2>2. ASSUME work["poller"].event # 0
        PROVE  /\ work["poller"].event \in cursor + 1 .. Len(log') /\ log'[work["poller"].event] # "sessions"
               /\ \A j \in cursor + 1 .. work["poller"].event - 1 : log'[j] = "sessions"
    <3> DEFINE i == work["poller"].event
    <3>1. i \in cursor + 1 .. Len(log) /\ log[i] # "sessions" /\ \A j \in cursor + 1 .. i - 1 : log[j] = "sessions"
      BY <2>2 DEF ProvisioningInv, WorkIs, Handled
    <3> HIDE DEF i
    <3>2. i \in DOMAIN log /\ \A j \in cursor + 1 .. i - 1 : j \in DOMAIN log BY <1>2, <1>3, <3>1
    <3>3. i \in cursor + 1 .. Len(log') BY <1>2, <1>3, <3>1
    <3>4. log'[i] # "sessions" /\ \A j \in cursor + 1 .. i - 1 : log'[j] = "sessions" BY <1>2, <3>1, <3>2
    <3> QED BY <3>3, <3>4 DEF i
  <2> QED BY <1>1, <2>1, <2>2 DEF ProvisioningInv, WorkIs, Handled
<1>8. NothingYet' BY <1>1 DEF ProvisioningInv, NothingYet, Clients
<1>9. ProjectionIs'
  <2>1. AppliedEvents' = AppliedEvents BY <1>2, <1>4, <1>5 DEF AppliedEvents
  <2>2. \A i \in AppliedEvents : log'[i] = log[i] BY <1>2 DEF AppliedEvents
  <2>3. Projects(log, proj, AppliedEvents) => Projects(log', proj, AppliedEvents) BY <2>2 DEF Projects
  <2> QED BY <1>1, <2>1, <2>3 DEF ProvisioningInv, ProjectionIs
<1>10. ActiveIsAllowed' BY <1>1 DEF ProvisioningInv, ActiveIsAllowed, Clients
<1>11. RevokedCloses'
  <2>1. Opening' = Opening BY <1>1 DEF Opening, OpenClients, SuspendedBy, Clients
  <2>2. ASSUME NEW i \in DOMAIN log', WasApplied(i)', log'[i] = "revoked",
               \A j \in DOMAIN log' : log'[j] \in PermissionEvents => j <= i
        PROVE  Opening \subseteq excused
    <3>1. WasApplied(i) /\ i \in DOMAIN log /\ log[i] = "revoked" BY <1>2, <1>4, <1>5, <2>2
    <3>2. \A j \in DOMAIN log : log[j] \in PermissionEvents => j <= i BY <1>2, <2>2
    <3> QED BY <3>1, <3>2 DEF ProvisioningInv, RevokedCloses
  <2> QED BY <1>1, <2>1, <2>2 DEF RevokedCloses
<1> QED BY <1>6, <1>7, <1>8, <1>9, <1>10, <1>11 DEF ProvisioningInv

(* A worker takes an event up or drops it. *)
LEMMA WorkChanges ==
  ASSUME ProvisioningInv, NEW w \in Workers, NEW row \in [event : Nat, seen : Projection],
         work' = [work EXCEPT ![w] = row],
         UNCHANGED <<log, cursor, letters, proj, client, transfer, raced, excused>>,
         row.event # 0 /\ w = "replay" => row.event \in letters,
         row.event # 0 /\ w = "poller" =>
           /\ row.event \in cursor + 1 .. Len(log) /\ Handled(row.event)
           /\ \A j \in cursor + 1 .. row.event - 1 : ~Handled(j)
  PROVE  ProvisioningInv'
<1>1. work \in [Workers -> [event : Nat, seen : Projection]] BY DEF ProvisioningInv, ProvisioningType
<1>2. work' \in [Workers -> [event : Nat, seen : Projection]] BY <1>1
<1>3. \A v \in Workers : work'[v] = IF v = w THEN row ELSE work[v] BY <1>1
<1>4. LogIs' BY DEF ProvisioningInv, LogIs
<1>5. ProvisioningType' BY <1>2 DEF ProvisioningInv, ProvisioningType, Clients
<1>6. WorkIs'
  <2>1. "poller" \in Workers /\ "replay" \in Workers BY DEF Workers
  <2>2. work'["replay"].event # 0 => work'["replay"].event \in letters
    BY <1>3, <2>1 DEF ProvisioningInv, WorkIs
  <2>3. work'["poller"].event # 0 =>
          /\ work'["poller"].event \in cursor + 1 .. Len(log) /\ Handled(work'["poller"].event)
          /\ \A j \in cursor + 1 .. work'["poller"].event - 1 : ~Handled(j)
    BY <1>3, <2>1 DEF ProvisioningInv, WorkIs
  <2> QED BY <2>2, <2>3 DEF ProvisioningInv, WorkIs, Handled
<1>7. NothingYet' BY DEF ProvisioningInv, NothingYet, Clients
<1>8. ProjectionIs' BY DEF ProvisioningInv, ProjectionIs, Projects, AppliedEvents, WasApplied
<1>9. ActiveIsAllowed' BY DEF ProvisioningInv, ActiveIsAllowed, Clients
<1>10. RevokedCloses'
  <2>1. Opening' = Opening BY DEF Opening, OpenClients, SuspendedBy, Clients
  <2> QED BY <2>1 DEF ProvisioningInv, RevokedCloses, WasApplied
<1> QED BY <1>4, <1>5, <1>6, <1>7, <1>8, <1>9, <1>10 DEF ProvisioningInv

LEMMA ReadsKeep == ASSUME ProvisioningInv, UNCHANGED log, PollerReads \/ ReplayReads PROVE ProvisioningInv'
<1>0. /\ DOMAIN log = 1 .. Len(log) /\ Len(log) \in Nat /\ cursor \in 0 .. Len(log) /\ letters \subseteq 1 .. cursor
      /\ proj \in Projection /\ "poller" \in Workers /\ "replay" \in Workers
  BY DEF ProvisioningInv, LogIs, ProvisioningType, Workers
<1>1. CASE PollerReads
  <2> DEFINE i == Min(Ahead)
  <2>1. Ahead \in SUBSET Nat /\ Ahead # {} BY <1>0, <1>1 DEF Ahead, PollerReads
  <2>2. i \in Ahead /\ \A j \in Ahead : i <= j BY <2>1, MinIs
  <2>3. Reads("poller", i) BY <1>1 DEF PollerReads
  <2> HIDE DEF i
  <2>4. i \in cursor + 1 .. Len(log) /\ Handled(i) BY <2>2 DEF Ahead
  <2>5. \A j \in cursor + 1 .. i - 1 : ~Handled(j)
    <3> SUFFICES ASSUME NEW j \in cursor + 1 .. i - 1, Handled(j) PROVE FALSE OBVIOUS
    <3>1. j \in cursor + 1 .. Len(log) /\ ~(i <= j) BY <1>0, <2>4
    <3> QED BY <2>2, <3>1 DEF Ahead
  <2> DEFINE row == [event |-> i, seen |-> proj]
  <2>6. row \in [event : Nat, seen : Projection] /\ row.event = i BY <1>0, <2>4
  <2>7. work' = [work EXCEPT !["poller"] = row] /\ UNCHANGED <<log, cursor, letters, proj, client, transfer, raced, excused>>
    BY <2>3 DEF Reads
  <2> HIDE DEF row
  <2> QED BY <1>0, <2>4, <2>5, <2>6, <2>7, WorkChanges
<1>2. CASE ReplayReads
  <2>1. PICK i \in letters : Reads("replay", i) BY <1>2 DEF ReplayReads
  <2> DEFINE row == [event |-> i, seen |-> proj]
  <2>2. row \in [event : Nat, seen : Projection] /\ row.event = i BY <1>0, <2>1
  <2>3. work' = [work EXCEPT !["replay"] = row] /\ UNCHANGED <<log, cursor, letters, proj, client, transfer, raced, excused>>
    BY <2>1 DEF Reads
  <2> HIDE DEF row
  <2> QED BY <1>0, <2>1, <2>2, <2>3, WorkChanges
<1> QED BY <1>1, <1>2

LEMMA AbandonsKeeps == ASSUME ProvisioningInv, UNCHANGED log, NEW w \in Workers, Abandons(w) PROVE ProvisioningInv'
<1>1. Idle \in [event : Nat, seen : Projection] /\ Idle.event = 0 BY DEF Idle, Projection
<1>2. work' = [work EXCEPT ![w] = Idle] /\ UNCHANGED <<log, cursor, letters, proj, client, transfer, raced, excused>>
  BY DEF Abandons
<1> QED BY <1>1, <1>2, WorkChanges

(* An administrator, the owner or a transfer changes a client. *)
LEMMA ClientsKeep ==
  ASSUME ProvisioningInv, UNCHANGED <<log, cursor, letters, proj, work>>,
         client' \in [Clients -> ClientRow], transfer' \in BOOLEAN, raced' \in BOOLEAN, excused' \subseteq Clients,
         raced => raced',
         cursor = 0 => client' = client /\ transfer' = transfer,
         ActiveIsAllowed => ActiveIsAllowed',
         Opening \subseteq excused => Opening' \subseteq excused'
  PROVE  ProvisioningInv'
<1>1. LogIs' BY DEF ProvisioningInv, LogIs
<1>2. ProvisioningType' BY DEF ProvisioningInv, ProvisioningType, Clients
<1>3. WorkIs' BY DEF ProvisioningInv, WorkIs, Handled
<1>4. NothingYet' BY DEF ProvisioningInv, NothingYet, Clients
<1>5. ProjectionIs' BY DEF ProvisioningInv, ProjectionIs, Projects, AppliedEvents, WasApplied
<1>6. RevokedCloses' BY DEF ProvisioningInv, RevokedCloses, WasApplied
<1> QED BY <1>1, <1>2, <1>3, <1>4, <1>5, <1>6 DEF ProvisioningInv

LEMMA AdminSetsKeeps ==
  ASSUME ProvisioningInv, UNCHANGED log, NEW c \in Clients, NEW status \in {"active", "suspended", "deleted"},
         AdminSets(c, status)
  PROVE  ProvisioningInv'
<1>0. /\ client \in [Clients -> ClientRow] /\ client[c] \in ClientRow /\ excused \subseteq Clients
      /\ transfer \in BOOLEAN /\ raced \in BOOLEAN
      /\ cursor = 0 => client[c].status = "none"
  BY DEF ProvisioningInv, ProvisioningType, NothingYet, NoClient
<1>1. UNCHANGED <<cursor, letters, proj, work, transfer, raced>> /\ cursor # 0 BY <1>0 DEF AdminSets
<1>2. CASE status = "active"
  <2> DEFINE row == Opened(client[c], "active")
  <2>1. row \in ClientRow /\ row.status = "active" BY <1>0, RowsAre DEF Settled
  <2>2. client' = [client EXCEPT ![c] = row] /\ excused' = excused \union {c} /\ proj.status = "active"
    BY <1>2 DEF AdminSets, MayActivate
  <2> HIDE DEF row
  <2>3. client' \in [Clients -> ClientRow] BY <1>0, <2>1, <2>2
  <2>4. ActiveIsAllowed' BY <1>1, <2>2 DEF ActiveIsAllowed
  <2>5. \A d \in Clients : d # c => client'[d] = client[d] BY <1>0, <2>2
  <2>6. Opening' \subseteq Opening \union {c} BY <2>5 DEF Opening, OpenClients, SuspendedBy
  <2>7. Opening \subseteq excused => Opening' \subseteq excused' BY <2>2, <2>6
  <2>8. excused' \subseteq Clients BY <1>0, <2>2
  <2> QED BY <1>0, <1>1, <2>3, <2>4, <2>7, <2>8, ClientsKeep
<1>3. CASE status \in {"suspended", "deleted"}
  <2> DEFINE who == IF status = "suspended" THEN "admin" ELSE "none"
             row == Closed(client[c], status, who)
  <2>1. row \in ClientRow /\ row.status = status /\ row.by = who BY <1>0, <1>3, RowsAre DEF Settled
  <2>2. client' = [client EXCEPT ![c] = row] /\ excused' = excused
    BY <1>3 DEF AdminSets
  <2>3. who # "account" OBVIOUS
  <2> HIDE DEF row, who
  <2>4. client' \in [Clients -> ClientRow] BY <1>0, <2>1, <2>2
  <2>5. \A d \in Clients : client'[d] = IF d = c THEN row ELSE client[d] BY <1>0, <2>2
  <2>6. \A d \in Clients : client'[d].status = "active" => client[d].status = "active" BY <1>3, <2>1, <2>5
  <2>7. ActiveIsAllowed => ActiveIsAllowed' BY <1>1, <2>6 DEF ActiveIsAllowed, Clients
  <2>8. Opening' \subseteq Opening
    <3>1. ~Open(row) /\ row.by # "account" BY <1>3, <2>1, <2>3 DEF Open
    <3>2. \A d \in Clients : Open(client'[d]) \/ (client'[d].status = "suspended" /\ client'[d].by = "account")
             => client'[d] = client[d]
      BY <2>5, <3>1
    <3> QED BY <3>2 DEF Opening, OpenClients, SuspendedBy, Clients
  <2> QED BY <1>0, <1>1, <2>2, <2>4, <2>7, <2>8, ClientsKeep
<1> QED BY <1>2, <1>3

LEMMA KeysKeep ==
  ASSUME ProvisioningInv, UNCHANGED log, NEW c \in Clients, IssueKey(c) \/ RevokeKey(c)
  PROVE  ProvisioningInv'
<1>0. /\ client \in [Clients -> ClientRow] /\ client[c] \in ClientRow /\ excused \subseteq Clients
      /\ transfer \in BOOLEAN /\ raced \in BOOLEAN
      /\ cursor = 0 => client[c].status = "none" /\ client[c].keys = 0
  BY DEF ProvisioningInv, ProvisioningType, NothingYet, NoClient
<1>1. UNCHANGED <<cursor, letters, proj, work, transfer, raced, excused>> /\ cursor # 0 BY <1>0 DEF IssueKey, RevokeKey
<1>2. PICK n \in Nat : client' = [client EXCEPT ![c] = [client[c] EXCEPT !.keys = n]]
  <2>1. client[c].keys \in Nat BY <1>0 DEF ClientRow
  <2>2. CASE IssueKey(c)
    <3> DEFINE n == client[c].keys + 1
    <3>1. n \in Nat /\ client' = [client EXCEPT ![c].keys = n] BY <2>1, <2>2 DEF IssueKey
    <3> HIDE DEF n
    <3>2. client' = [client EXCEPT ![c] = [client[c] EXCEPT !.keys = n]] BY <3>1
    <3> QED BY <3>1, <3>2
  <2>3. CASE RevokeKey(c)
    <3> DEFINE n == client[c].keys - 1
    <3>1. n \in Nat /\ client' = [client EXCEPT ![c].keys = n] BY <2>1, <2>3 DEF RevokeKey
    <3> HIDE DEF n
    <3>2. client' = [client EXCEPT ![c] = [client[c] EXCEPT !.keys = n]] BY <3>1
    <3> QED BY <3>1, <3>2
  <2> QED BY <2>2, <2>3
<1> DEFINE row == [client[c] EXCEPT !.keys = n]
<1>3. row \in ClientRow /\ row.status = client[c].status /\ row.by = client[c].by BY <1>0 DEF ClientRow
<1>4. client' = [client EXCEPT ![c] = row] BY <1>2
<1> HIDE DEF row
<1>5. client' \in [Clients -> ClientRow] BY <1>0, <1>3, <1>4
<1>6. \A d \in Clients : client'[d].status = client[d].status /\ client'[d].by = client[d].by BY <1>0, <1>3, <1>4
<1>7. ActiveIsAllowed => ActiveIsAllowed' BY <1>1, <1>6 DEF ActiveIsAllowed, Clients
<1>8. Opening' = Opening BY <1>6 DEF Opening, OpenClients, SuspendedBy, Open, Clients
<1> QED BY <1>0, <1>1, <1>5, <1>7, <1>8, ClientsKeep

LEMMA TransferKeeps ==
  ASSUME ProvisioningInv, UNCHANGED log, TransferReads \/ TransferWrites
  PROVE  ProvisioningInv'
<1>0. /\ client \in [Clients -> ClientRow] /\ excused \subseteq Clients /\ transfer \in BOOLEAN /\ raced \in BOOLEAN
      /\ cursor = 0 => proj.status = "none" /\ ~transfer
  BY DEF ProvisioningInv, ProvisioningType, NothingYet, Idle
<1>1. UNCHANGED <<cursor, letters, proj, work>> /\ cursor # 0 BY <1>0 DEF TransferReads, TransferWrites
<1>2. CASE UNCHANGED <<client, excused, raced>>
  <2>1. transfer' \in BOOLEAN BY DEF TransferReads, TransferWrites
  <2>2. ActiveIsAllowed => ActiveIsAllowed' BY <1>1, <1>2 DEF ActiveIsAllowed, Clients
  <2>3. Opening' = Opening BY <1>2 DEF Opening, OpenClients, SuspendedBy, Clients
  <2> QED BY <1>0, <1>1, <1>2, <2>1, <2>2, <2>3, ClientsKeep
<1>3. CASE \E c \in Free, status \in {"active", "suspended"} :
             /\ client' = [client EXCEPT ![c] = [status |-> status, keys |-> 1,
                                                 by |-> IF status = "suspended" THEN "admin" ELSE "none"]]
             /\ excused' = excused \union {c} /\ raced' = (raced \/ proj.status # "active") /\ transfer' = FALSE
  <2>1. PICK c \in Free, status \in {"active", "suspended"} :
          /\ client' = [client EXCEPT ![c] = [status |-> status, keys |-> 1,
                                              by |-> IF status = "suspended" THEN "admin" ELSE "none"]]
          /\ excused' = excused \union {c} /\ raced' = (raced \/ proj.status # "active") /\ transfer' = FALSE
    BY <1>3
  <2> DEFINE row == [status |-> status, keys |-> 1, by |-> IF status = "suspended" THEN "admin" ELSE "none"]
  <2>2. row \in ClientRow BY DEF ClientRow, Settled
  <2>3. client' = [client EXCEPT ![c] = row] BY <2>1
  <2> HIDE DEF row
  <2>4. c \in Clients BY DEF Free
  <2>5. client' \in [Clients -> ClientRow] BY <1>0, <2>2, <2>3, <2>4
  <2>6. \A d \in Clients : d # c => client'[d] = client[d] BY <1>0, <2>3
  <2>7. ActiveIsAllowed => ActiveIsAllowed'
    <3> SUFFICES ASSUME ActiveIsAllowed, ~raced', NEW d \in Clients, client'[d].status = "active"
                 PROVE  proj.status = "active"
      BY <1>1 DEF ActiveIsAllowed, Clients
    <3> QED BY <2>1
  <2>8. Opening' \subseteq Opening \union {c} BY <2>6 DEF Opening, OpenClients, SuspendedBy, Clients
  <2>9. excused' \subseteq Clients /\ (Opening \subseteq excused => Opening' \subseteq excused') BY <1>0, <2>1, <2>4, <2>8
  <2>10. raced' \in BOOLEAN /\ (raced => raced') /\ transfer' \in BOOLEAN BY <2>1
  <2> QED BY <1>0, <1>1, <2>5, <2>7, <2>9, <2>10, ClientsKeep
<1> QED BY <1>2, <1>3 DEF TransferReads, TransferWrites

(* An event is applied, by whoever had read the projection, and is done with. *)
LEMMA CommitKeeps ==
  ASSUME ProvisioningInv, NEW i \in DOMAIN log, NEW seen \in Projection, NEW again \in BOOLEAN, Applies(i, seen, again),
         log[i] = "registered" /\ ~again => cursor = 0,
         UNCHANGED <<log, transfer>>, raced' = (raced \/ seen # proj),
         cursor' \in 1 .. Len(log), letters' \subseteq 1 .. cursor',
         work' \in [Workers -> [event : Nat, seen : Projection]], WorkIs',
         ~WasApplied(i),
         \A j \in DOMAIN log : log[j] # "sessions" => (WasApplied(j)' <=> WasApplied(j) \/ j = i)
  PROVE  ProvisioningInv'
<1>0. /\ LogIs /\ ProvisioningType /\ DOMAIN log = 1 .. Len(log) /\ Len(log) \in Nat /\ cursor \in 0 .. Len(log)
      /\ proj \in Projection /\ client \in [Clients -> ClientRow] /\ transfer \in BOOLEAN /\ raced \in BOOLEAN
  BY DEF ProvisioningInv, LogIs, ProvisioningType
<1>1. LogIs' BY <1>0 DEF LogIs
<1>2. proj' \in Projection /\ client' \in [Clients -> ClientRow] /\ excused' \subseteq Clients BY <1>0, AppliesTypes
<1>3. ProvisioningType' BY <1>0, <1>2 DEF ProvisioningType, Clients
<1>4. NothingYet' BY <1>0 DEF NothingYet
<1>5. cursor = 0 => proj = Idle.seen /\ \A c \in Clients : client[c].status = "none"
  BY DEF ProvisioningInv, NothingYet, NoClient
<1>6. ASSUME ~raced' PROVE ~raced /\ seen = proj /\ Applies(i, proj, again)
  BY <1>6
<1>7. ProjectionIs'
  <2> SUFFICES ASSUME ~raced' PROVE Projects(log, proj', AppliedEvents') BY DEF ProjectionIs
  <2>1. Projects(log, proj, AppliedEvents) BY <1>6 DEF ProvisioningInv, ProjectionIs
  <2>2. AppliedEvents \in SUBSET DOMAIN log /\ AppliedEvents' \in SUBSET DOMAIN log /\ i \notin AppliedEvents
    BY DEF AppliedEvents
  <2>3. \A j \in DOMAIN log : log[j] # "sessions" => (j \in AppliedEvents' <=> j \in AppliedEvents \/ j = i)
    BY DEF AppliedEvents
  <2> QED BY <1>0, <1>5, <1>6, <2>1, <2>2, <2>3, AppliesProjects
<1>8. ActiveIsAllowed'
  <2> SUFFICES ASSUME ~raced' PROVE \A c \in Clients : client'[c].status = "active" => proj'.status = "active"
    BY DEF ActiveIsAllowed, Clients
  <2>1. \A c \in Clients : client[c].status = "active" => proj.status = "active"
    BY <1>6 DEF ProvisioningInv, ActiveIsAllowed
  <2> QED BY <1>0, <1>5, <1>6, <2>1, AppliesAllows
<1>9. RevokedCloses'
  <2> SUFFICES ASSUME NEW k \in DOMAIN log, WasApplied(k)', log[k] = "revoked",
                      \A j \in DOMAIN log : log[j] \in PermissionEvents => j <= k
               PROVE  Opening' \subseteq excused'
    BY DEF RevokedCloses
  <2>1. /\ log[i] = "revoked" => Opening' \subseteq excused'
        /\ log[i] \notin PermissionEvents => Opening' \subseteq Opening /\ excused' = excused
        /\ log[i] = "granted" /\ (\E j \in i + 1 .. cursor : log[j] \in PermissionEvents) /\ Opening \subseteq excused
              => Opening' \subseteq excused'
    BY <1>0, AppliesOpens
  <2>2. CASE log[i] = "revoked" BY <2>1, <2>2
  <2>3. CASE log[i] # "revoked"
    <3>1. k # i /\ WasApplied(k) BY <2>3
    <3>2. Opening \subseteq excused BY <3>1 DEF ProvisioningInv, RevokedCloses
    <3>3. CASE log[i] \notin PermissionEvents BY <2>1, <3>2, <3>3
    <3>4. CASE log[i] = "granted"
      <4>1. i <= k /\ k <= cursor BY <3>1, <3>4 DEF WasApplied, PermissionEvents
      <4>2. k \in i + 1 .. cursor BY <1>0, <3>1, <4>1
      <4>3. log[k] \in PermissionEvents BY DEF PermissionEvents
      <4> QED BY <2>1, <3>2, <3>4, <4>2, <4>3
    <3> QED BY <2>3, <3>3, <3>4 DEF PermissionEvents
  <2> QED BY <2>2, <2>3
<1> QED BY <1>1, <1>3, <1>4, <1>7, <1>8, <1>9 DEF ProvisioningInv

LEMMA PollerCommitsKeeps == ASSUME ProvisioningInv, UNCHANGED log, PollerCommits PROVE ProvisioningInv'
<1> DEFINE i == work["poller"].event
           seen == work["poller"].seen
<1>0. /\ DOMAIN log = 1 .. Len(log) /\ Len(log) \in Nat /\ cursor \in 0 .. Len(log) /\ letters \subseteq 1 .. cursor
      /\ work \in [Workers -> [event : Nat, seen : Projection]] /\ "poller" \in Workers /\ "replay" \in Workers
      /\ \A j \in DOMAIN log : log[j] = "registered" <=> j = 1
  BY DEF ProvisioningInv, LogIs, ProvisioningType, Workers
<1>1. /\ i # 0 /\ Applies(i, seen, FALSE) /\ cursor' = i /\ letters' = letters
      /\ work' = [work EXCEPT !["poller"] = Idle] /\ raced' = (raced \/ seen # proj) /\ transfer' = transfer
  BY DEF PollerCommits, Done
<1>2. i \in cursor + 1 .. Len(log) /\ Handled(i) /\ \A j \in cursor + 1 .. i - 1 : ~Handled(j)
  BY <1>1 DEF ProvisioningInv, WorkIs
<1>3. seen \in Projection BY <1>0
<1> HIDE DEF i, seen
<1>4. i \in DOMAIN log /\ i \in 1 .. Len(log) /\ letters' \subseteq 1 .. cursor' BY <1>0, <1>1, <1>2
<1>5. log[i] = "registered" => cursor = 0 BY <1>0, <1>2, <1>4
<1>6. Idle \in [event : Nat, seen : Projection] /\ Idle.event = 0 BY DEF Idle, Projection
<1>7. work' \in [Workers -> [event : Nat, seen : Projection]] BY <1>0, <1>1, <1>6
<1>8. work'["poller"] = Idle /\ work'["replay"] = work["replay"] BY <1>0, <1>1
<1>9. WorkIs' BY <1>1, <1>6, <1>8 DEF ProvisioningInv, WorkIs, Handled
<1>10. ~WasApplied(i) BY <1>0, <1>2 DEF WasApplied
<1>11. ASSUME NEW j \in DOMAIN log, log[j] # "sessions" PROVE WasApplied(j)' <=> WasApplied(j) \/ j = i
  <2>1. ~(j \in cursor + 1 .. i - 1) BY <1>2, <1>11 DEF Handled
  <2>2. WasApplied(j)' <=> j \in 1 .. i /\ j \notin letters BY <1>1 DEF WasApplied
  <2>3. i \notin letters BY <1>0, <1>2
  <2>4. j \in 1 .. i <=> j \in 1 .. cursor \/ j = i BY <1>0, <1>2, <1>4, <2>1
  <2> QED BY <2>2, <2>3, <2>4 DEF WasApplied
<1> QED BY <1>1, <1>3, <1>4, <1>5, <1>7, <1>9, <1>10, <1>11, CommitKeeps

LEMMA ReplayCommitsKeeps == ASSUME ProvisioningInv, UNCHANGED log, ReplayCommits PROVE ProvisioningInv'
<1> DEFINE i == work["replay"].event
           seen == work["replay"].seen
<1>0. /\ DOMAIN log = 1 .. Len(log) /\ Len(log) \in Nat /\ cursor \in 0 .. Len(log) /\ letters \subseteq 1 .. cursor
      /\ work \in [Workers -> [event : Nat, seen : Projection]] /\ "poller" \in Workers /\ "replay" \in Workers
  BY DEF ProvisioningInv, LogIs, ProvisioningType, Workers
<1>1. /\ i # 0 /\ Applies(i, seen, TRUE) /\ cursor' = cursor /\ letters' = letters \ {i}
      /\ work' = [work EXCEPT !["replay"] = Idle] /\ raced' = (raced \/ seen # proj) /\ transfer' = transfer
  BY DEF ReplayCommits, Done
<1>2. i \in letters BY <1>1 DEF ProvisioningInv, WorkIs
<1>3. seen \in Projection BY <1>0
<1> HIDE DEF i, seen
<1>4. i \in DOMAIN log /\ cursor' \in 1 .. Len(log) /\ letters' \subseteq 1 .. cursor' BY <1>0, <1>1, <1>2
<1>6. Idle \in [event : Nat, seen : Projection] /\ Idle.event = 0 BY DEF Idle, Projection
<1>7. work' \in [Workers -> [event : Nat, seen : Projection]] BY <1>0, <1>1, <1>6
<1>8. work'["replay"] = Idle /\ work'["poller"] = work["poller"] BY <1>0, <1>1
<1>9. WorkIs'
  <2>1. \A j \in letters' : log[j] # "sessions" BY <1>1 DEF ProvisioningInv, WorkIs, Handled
  <2>2. work["poller"].event # 0 =>
          /\ work["poller"].event \in cursor + 1 .. Len(log) /\ log[work["poller"].event] # "sessions"
          /\ \A j \in cursor + 1 .. work["poller"].event - 1 : ~(log[j] # "sessions")
    BY DEF ProvisioningInv, WorkIs, Handled
  <2> QED BY <1>1, <1>6, <1>8, <2>1, <2>2 DEF WorkIs, Handled
<1>10. ~WasApplied(i) BY <1>2 DEF WasApplied
<1>11. \A j \in DOMAIN log : WasApplied(j)' <=> WasApplied(j) \/ j = i BY <1>0, <1>1, <1>2 DEF WasApplied
<1> QED BY <1>1, <1>3, <1>4, <1>7, <1>9, <1>10, <1>11, CommitKeeps

LEMMA GivesUpKeeps == ASSUME ProvisioningInv, UNCHANGED log, GivesUp PROVE ProvisioningInv'
<1> DEFINE i == work["poller"].event
<1>0. /\ DOMAIN log = 1 .. Len(log) /\ Len(log) \in Nat /\ cursor \in 0 .. Len(log) /\ letters \subseteq 1 .. cursor
      /\ work \in [Workers -> [event : Nat, seen : Projection]] /\ "poller" \in Workers /\ "replay" \in Workers
  BY DEF ProvisioningInv, LogIs, ProvisioningType, Workers
<1>1. /\ i # 0 /\ letters' = letters \union {i} /\ cursor' = i /\ work' = [work EXCEPT !["poller"] = Idle]
      /\ UNCHANGED <<proj, client, transfer, raced, excused>>
  BY DEF GivesUp, Past
<1>2. i \in cursor + 1 .. Len(log) /\ Handled(i) /\ \A j \in cursor + 1 .. i - 1 : ~Handled(j)
  BY <1>1 DEF ProvisioningInv, WorkIs
<1> HIDE DEF i
<1>3. i \in DOMAIN log /\ cursor' \in 1 .. Len(log) /\ letters' \subseteq 1 .. cursor' BY <1>0, <1>1, <1>2
<1>4. Idle \in [event : Nat, seen : Projection] /\ Idle.event = 0 BY DEF Idle, Projection
<1>5. work' \in [Workers -> [event : Nat, seen : Projection]] BY <1>0, <1>1, <1>4
<1>6. work'["poller"] = Idle /\ work'["replay"] = work["replay"] BY <1>0, <1>1
<1>7. ASSUME NEW j \in DOMAIN log, log[j] # "sessions" PROVE WasApplied(j)' <=> WasApplied(j)
  <2>1. ~(j \in cursor + 1 .. i - 1) BY <1>2, <1>7 DEF Handled
  <2>2. WasApplied(j)' <=> j \in 1 .. i /\ j \notin letters /\ j # i BY <1>1 DEF WasApplied
  <2>3. i \notin letters BY <1>0, <1>2
  <2>4. j \in 1 .. i /\ j # i <=> j \in 1 .. cursor BY <1>0, <1>2, <1>3, <2>1
  <2> QED BY <2>2, <2>3, <2>4 DEF WasApplied
<1>8. LogIs' BY DEF ProvisioningInv, LogIs
<1>9. ProvisioningType' BY <1>0, <1>1, <1>3, <1>5 DEF ProvisioningInv, ProvisioningType, Clients
<1>10. WorkIs' BY <1>1, <1>2, <1>4, <1>6 DEF ProvisioningInv, WorkIs, Handled
<1>11. NothingYet' BY <1>3 DEF NothingYet
<1>12. ProjectionIs'
  <2>1. 1 \in AppliedEvents' <=> 1 \in AppliedEvents
    <3>1. 1 \in DOMAIN log /\ log[1] = "registered" BY <1>0, <1>3 DEF ProvisioningInv, LogIs
    <3> QED BY <1>7, <3>1 DEF AppliedEvents
  <2>2. \A j \in DOMAIN log : log[j] # "sessions" => (j \in AppliedEvents' <=> j \in AppliedEvents)
    BY <1>7 DEF AppliedEvents
  <2>3. AppliedEvents \subseteq DOMAIN log /\ AppliedEvents' \subseteq DOMAIN log BY DEF AppliedEvents
  <2>4. Projects(log, proj, AppliedEvents) => Projects(log, proj, AppliedEvents')
    <3> DEFINE A == AppliedEvents
               B == AppliedEvents'
    <3> HIDE DEF A, B
    <3>1. (1 \in B <=> 1 \in A) /\ (\A j \in DOMAIN log : log[j] # "sessions" => (j \in B <=> j \in A))
          /\ A \subseteq DOMAIN log /\ B \subseteq DOMAIN log
      BY <2>1, <2>2, <2>3 DEF A, B
    <3>2. Projects(log, proj, A) => Projects(log, proj, B) BY <3>1 DEF Projects, Settled
    <3> QED BY <3>2 DEF A, B
  <2> QED BY <1>1, <2>4 DEF ProvisioningInv, ProjectionIs
<1>13. ActiveIsAllowed' BY <1>1 DEF ProvisioningInv, ActiveIsAllowed, Clients
<1>14. RevokedCloses'
  <2>1. Opening' = Opening BY <1>1 DEF Opening, OpenClients, SuspendedBy, Clients
  <2>2. \A k \in DOMAIN log : log[k] = "revoked" => (WasApplied(k)' <=> WasApplied(k)) BY <1>7
  <2> QED BY <1>1, <2>1, <2>2 DEF ProvisioningInv, RevokedCloses
<1> QED BY <1>8, <1>9, <1>10, <1>11, <1>12, <1>13, <1>14 DEF ProvisioningInv

LEMMA ProvisioningStays == ASSUME ProvisioningInv, [ProvisioningStep]_<<log, provisioning>> PROVE ProvisioningInv'
<1>1. CASE AccountChanges /\ UNCHANGED provisioning
  <2>1. LogIs' /\ Longer BY <1>1, AccountKeeps DEF ProvisioningInv
  <2> QED BY <1>1, <2>1, ProvisioningWaits
<1>2. CASE ProvisioningNext /\ UNCHANGED log
  <2>1. CASE PollerReads \/ ReplayReads BY <1>2, <2>1, ReadsKeep
  <2>2. CASE PollerCommits BY <1>2, <2>2, PollerCommitsKeeps
  <2>3. CASE GivesUp BY <1>2, <2>3, GivesUpKeeps
  <2>4. CASE ReplayCommits BY <1>2, <2>4, ReplayCommitsKeeps
  <2>5. CASE \E w \in Workers : Abandons(w) BY <1>2, <2>5, AbandonsKeeps
  <2>6. CASE TransferReads \/ TransferWrites BY <1>2, <2>6, TransferKeeps
  <2>7. ASSUME NEW c \in Clients,
               \/ \E status \in {"active", "suspended", "deleted"} : AdminSets(c, status)
               \/ IssueKey(c) \/ RevokeKey(c)
        PROVE  ProvisioningInv'
    <3>1. CASE IssueKey(c) \/ RevokeKey(c) BY <1>2, <3>1, KeysKeep
    <3>2. CASE \E status \in {"active", "suspended", "deleted"} : AdminSets(c, status) BY <1>2, <3>2, AdminSetsKeeps
    <3> QED BY <2>7, <3>1, <3>2
  <2> QED BY <1>2, <2>1, <2>2, <2>3, <2>4, <2>5, <2>6, <2>7 DEF ProvisioningNext
<1>3. CASE UNCHANGED <<log, provisioning>>
  <2>1. LogIs' /\ Longer BY <1>3 DEF ProvisioningInv, LogIs, Longer
  <2> QED BY <1>3, <2>1, ProvisioningWaits
<1> QED BY <1>1, <1>2, <1>3 DEF ProvisioningStep

(* Integration's rows are what they are declared to be, its poller and its replay are where their events are, and the    *)
(* projection is that of the events that were applied, for any interleaving of the two with the account's changes, the   *)
(* administrators and the failures, and any number of events, letters, clients and keys.                                 *)
THEOREM ProjectionIsOfTheApplied == ProvisioningSpec => []ProvisioningInv
<1>1. ProvisioningInv /\ [ProvisioningStep]_<<log, provisioning>> => ProvisioningInv' BY ProvisioningStays
<1> QED BY <1>1, ProvisioningStart, PTL DEF ProvisioningSpec

LEMMA QuietIsApplied ==
  ASSUME LogIs, ProvisioningType, Quiet
  PROVE  \A i \in DOMAIN log : log[i] # "sessions" => WasApplied(i)
<1> SUFFICES ASSUME NEW i \in DOMAIN log, log[i] # "sessions" PROVE WasApplied(i) OBVIOUS
<1>1. letters = {} /\ Ahead = {} BY DEF Quiet, CaughtUp
<1>2. DOMAIN log = 1 .. Len(log) /\ Len(log) \in Nat /\ cursor \in 0 .. Len(log) BY DEF LogIs, ProvisioningType
<1>3. ~(i \in cursor + 1 .. Len(log)) BY <1>1 DEF Ahead, Handled
<1> QED BY <1>1, <1>2, <1>3 DEF WasApplied

LEMMA QuietIsCurrent == ProvisioningInv => StatusIsCurrent
<1> SUFFICES ASSUME ProvisioningInv, Quiet, ~raced PROVE proj.status = Status /\ proj.verified = Verified
  BY DEF StatusIsCurrent
<1>0. /\ LogIs /\ ProvisioningType /\ DOMAIN log = 1 .. Len(log) /\ Len(log) \in Nat /\ proj \in Projection
      /\ \A j \in DOMAIN log : log[j] = "registered" <=> j = 1
  BY DEF ProvisioningInv, LogIs, ProvisioningType
<1>1. Projects(log, proj, AppliedEvents) BY DEF ProvisioningInv, ProjectionIs
<1>2. AppliedEvents \subseteq DOMAIN log /\ \A i \in DOMAIN log : log[i] # "sessions" => i \in AppliedEvents
  BY <1>0, QuietIsApplied DEF AppliedEvents
<1>3. proj.verified <=> \E i \in DOMAIN log : log[i] = "verified" BY <1>1, <1>2 DEF Projects
<1>4. Verified <=> \E i \in DOMAIN log : log[i] = "verified"
  <2>1. /\ Last({"verified"}) # 0 => Last({"verified"}) \in DOMAIN log /\ log[Last({"verified"})] \in {"verified"}
        /\ \A i \in DOMAIN log : log[i] \in {"verified"} => i <= Last({"verified"})
        /\ Last({"verified"}) \in Nat
    BY <1>0, LastIsLast
  <2>2. (\E i \in DOMAIN log : log[i] = "verified") => Last({"verified"}) # 0 BY <1>0, <2>1
  <2> QED BY <2>1, <2>2 DEF Verified
<1>5. Verified \in BOOLEAN /\ proj.verified \in BOOLEAN BY <1>0 DEF Verified, Projection
<1>6. proj.status = Status
  <2>1. CASE ~Registered
    <3>1. DOMAIN log = {} BY <1>0, <2>1 DEF Registered
    <3>2. proj.status = "none" BY <1>1, <1>2, <1>3, <3>1 DEF Projects
    <3> QED BY <2>1, <3>2 DEF Status
  <2>2. CASE Registered
    <3> DEFINE l == Last(StatusEvents)
    <3>1. 1 \in DOMAIN log /\ log[1] = "registered" /\ 1 \in AppliedEvents BY <1>0, <1>2, <2>2 DEF Registered
    <3>2. /\ l \in Nat /\ (l # 0 => l \in DOMAIN log /\ log[l] \in StatusEvents)
          /\ \A i \in DOMAIN log : log[i] \in StatusEvents => i <= l
      BY <1>0, LastIsLast
    <3>3. l # 0 BY <3>1, <3>2 DEF StatusEvents
    <3>4. Status = IF log[l] = "registered" THEN "pending" ELSE log[l] BY <2>2, <3>3 DEF Status, LastIs
    <3> HIDE DEF l
    <3>5. CASE \E j \in AppliedEvents : log[j] \in Settled
      <4>1. /\ proj.seq \in AppliedEvents /\ log[proj.seq] \in Settled /\ proj.status = log[proj.seq]
            /\ \A j \in AppliedEvents : log[j] \in Settled => j <= proj.seq
        BY <1>1, <3>5 DEF Projects
      <4>2. proj.seq <= l /\ proj.seq # 1 /\ proj.seq \in DOMAIN log
        BY <1>0, <1>2, <3>1, <3>2, <4>1 DEF StatusEvents, Settled
      <4>3. log[l] # "registered" BY <1>0, <3>2, <3>3, <4>2
      <4>4. log[l] \in Settled /\ l \in AppliedEvents BY <1>2, <3>2, <3>3, <4>3 DEF StatusEvents, Settled
      <4>5. l = proj.seq BY <1>0, <3>2, <4>1, <4>2, <4>4
      <4> QED BY <3>4, <4>1, <4>3, <4>5
    <3>6. CASE ~\E j \in AppliedEvents : log[j] \in Settled
      <4>1. ~\E j \in DOMAIN log : log[j] \in Settled BY <1>2, <3>6 DEF Settled
      <4>2. ~proj.verified BY <1>0, <1>3, <4>1 DEF LogIs
      <4>3. proj.status = "pending" BY <1>1, <3>1, <3>6, <4>2 DEF Projects
      <4>4. log[l] = "registered" BY <3>2, <3>3, <4>1 DEF StatusEvents, Settled
      <4> QED BY <3>4, <4>3, <4>4
    <3> QED BY <3>5, <3>6
  <2> QED BY <2>1, <2>2
<1> QED BY <1>3, <1>4, <1>5, <1>6

(* When every event is applied, however late the letters among them were, the projection is what the events say in       *)
(* their order, unless the replay of a letter, or another handler, wrote on a projection that had changed since it was   *)
(* read.                                                                                                                 *)
THEOREM ProjectionIsCurrent == ProvisioningSpec => []StatusIsCurrent
BY ProjectionIsOfTheApplied, QuietIsCurrent, PTL

(* A key is accepted only while the account is active, for any order of events, letters, administrators and transfers.   *)
THEOREM KeysNeedTheAccount == ProvisioningSpec => []AcceptedIsAllowed
<1>1. ProvisioningInv => AcceptedIsAllowed BY DEF ProvisioningInv, ActiveIsAllowed, AcceptedIsAllowed
<1> QED BY <1>1, ProjectionIsOfTheApplied, PTL

(* Once the permission is taken, and everything is applied, no client is open but those RevokedHasNoClient excuses: a    *)
(* late grant, a late "active" or an older letter opens none.                                                            *)
THEOREM RevocationCloses == ProvisioningSpec => []RevokedHasNoClient
<1>1. ProvisioningInv => RevokedHasNoClient
  <2> SUFFICES ASSUME ProvisioningInv, Quiet, LastIs(PermissionEvents, "revoked") PROVE OpenClients \subseteq excused
    BY DEF RevokedHasNoClient
  <2>1. LogIs /\ ProvisioningType BY DEF ProvisioningInv
  <2>2. PICK i \in DOMAIN log : log[i] = "revoked" /\ \A j \in DOMAIN log : log[j] \in PermissionEvents => j <= i
    BY <2>1, LastIsIs
  <2>3. WasApplied(i) BY <2>1, <2>2, QuietIsApplied
  <2> QED BY <2>2, <2>3 DEF ProvisioningInv, RevokedCloses, Opening
<1> QED BY <1>1, ProjectionIsOfTheApplied, PTL

-----------------------------------------------------------------------------
(* Reward: what an event says of a reason, and which events replace each other *)

LEMMA KindsAre ==
  ASSUME NEW e \in Events, NEW r \in Reasons
  PROVE  /\ IF e \in Kinds(r) THEN r \in DenyAfter(e) <=> e = Imposing(r) ELSE r \in DenyAfter(e) <=> r \in deny
         /\ e \in Kinds(r) => \A f \in Kinds(r) : Key(f) = Key(e)
         /\ e \in Kinds(r) => LinkHandles(e)
<1>1. CASE r = "suspended"
  <2>1. Kinds(r) = {"active", "suspended"} /\ Imposing(r) = "suspended" BY <1>1 DEF Kinds, Imposing
  <2> QED BY <1>1, <2>1 DEF DenyAfter, Key, LinkHandles, Events, StatusEvents, PermissionEvents
<1>2. CASE r = "permission_revoked"
  <2>1. Kinds(r) = {"granted", "revoked"} /\ Imposing(r) = "revoked" BY <1>2 DEF Kinds, Imposing, PermissionEvents
  <2> QED BY <1>2, <2>1 DEF DenyAfter, Key, LinkHandles, Events, StatusEvents, PermissionEvents
<1>3. CASE r = "deleted"
  <2>1. Kinds(r) = {"deleted"} /\ Imposing(r) = "deleted" BY <1>3 DEF Kinds, Imposing
  <2> QED BY <1>3, <2>1 DEF DenyAfter, Key, LinkHandles, Events, StatusEvents, PermissionEvents
<1> QED BY <1>1, <1>2, <1>3 DEF Reasons

LEMMA DenyAfterIn == ASSUME deny \subseteq Reasons, NEW e PROVE DenyAfter(e) \subseteq Reasons
BY DEF DenyAfter, Reasons

(* The change that an event makes leaves the denylist true, if no newer event of its kind was applied. *)
LEMMA DenyKeeps ==
  ASSUME LogIs, DenyIs, UNCHANGED log, applied \subseteq DOMAIN log, NEW k \in DOMAIN log, deny' = DenyAfter(log[k]),
         applied' \in {applied, applied \union {k}}, ~crossed' => ~crossed /\ ~Overtaken(k, applied)
  PROVE  DenyIs'
<1> SUFFICES ASSUME ~crossed', NEW r \in Reasons
             PROVE  Denials(log, deny', applied', r)
  BY DEF DenyIs, Reasons
<1>0. DOMAIN log = 1 .. Len(log) /\ Len(log) \in Nat /\ \A j \in DOMAIN log : log[j] \in Events BY DEF LogIs
<1>1. /\ IF log[k] \in Kinds(r) THEN r \in deny' <=> log[k] = Imposing(r) ELSE r \in deny' <=> r \in deny
      /\ log[k] \in Kinds(r) => \A f \in Kinds(r) : Key(f) = Key(log[k])
  BY <1>0, KindsAre
<1>2. CASE log[k] \in Kinds(r)
  <2>1. ASSUME NEW j \in applied', log[j] \in Kinds(r) PROVE j <= k
    <3>1. CASE j = k BY <1>0, <3>1
    <3>2. CASE j \in applied
      <4>1. ~Supersedes(j, k) BY <3>2 DEF Overtaken
      <4>2. Key(log[j]) = Key(log[k]) BY <1>1, <1>2, <2>1
      <4>3. j \in Nat /\ k \in Nat BY <1>0, <3>2
      <4> QED BY <4>1, <4>2, <4>3 DEF Supersedes
    <3> QED BY <3>1, <3>2
  <2> QED BY <1>1, <1>2, <2>1 DEF Denials
<1>3. CASE log[k] \notin Kinds(r)
  <2>1. \A j \in applied' : log[j] \in Kinds(r) => j \in applied BY <1>3
  <2>2. r \in deny' <=> r \in deny BY <1>1, <1>3
  <2>3. Denials(log, deny, applied, r) BY DEF DenyIs
  <2> QED BY <2>1, <2>2, <2>3 DEF Denials
<1> QED BY <1>2, <1>3

LEMMA FollowingIs ==
  ASSUME LogIs, LinkType, InPage
  PROVE  /\ Following \in at + 1 .. page + 1 /\ (Following <= page => Following \in Told)
         /\ \A i \in Told : i < Following => i <= at
<1>0. /\ page \in Told /\ at \in Told /\ at <= page /\ Told \subseteq Nat /\ page \in Nat /\ at \in Nat
      /\ DOMAIN log = 1 .. Len(log) /\ Len(log) \in Nat
  BY DEF InPage, LinkType, LogIs, Told
<1>1. CASE at < page
  <2> DEFINE S == {i \in at + 1 .. page : LinkHandles(log[i])}
             n == Min(S)
  <2>1. page \in S BY <1>0, <1>1 DEF Told
  <2>2. S \in SUBSET Nat BY <1>0
  <2>3. n \in S /\ \A i \in S : n <= i
    <3> HIDE DEF S
    <3> QED BY <2>1, <2>2, MinIs
  <2>4. Following = n BY <1>1 DEF Following
  <2> HIDE DEF n
  <2>5. n \in at + 1 .. page /\ LinkHandles(log[n]) BY <2>3
  <2>6. n \in Told BY <1>0, <2>5 DEF Told
  <2>7. ASSUME NEW i \in Told, i < n, ~(i <= at) PROVE FALSE
    <3>1. i \in at + 1 .. page /\ LinkHandles(log[i]) BY <1>0, <2>5, <2>7 DEF Told
    <3>2. n <= i BY <2>3, <3>1
    <3> QED BY <1>0, <2>5, <2>7, <3>2
  <2> QED BY <1>0, <2>4, <2>5, <2>6, <2>7
<1>2. CASE ~(at < page)
  <2>1. Following = page + 1 /\ at = page BY <1>0, <1>2 DEF Following
  <2> QED BY <1>0, <2>1
<1> QED BY <1>1, <1>2

LEMMA LinkStart == log = <<"registered">> /\ LinkInit => LinkInv
<1> SUFFICES ASSUME log = <<"registered">>, LinkInit PROVE LinkInv OBVIOUS
<1>1. /\ Len(log) = 1 /\ DOMAIN log = 1 .. 1 /\ log \in Seq(Events) /\ log[1] = "registered"
  BY DEF Events, StatusEvents
<1>2. LogIs BY <1>1 DEF LogIs
<1>3. Told = {} BY <1>1 DEF Told, LinkHandles
<1>4. /\ linkCursor = 0 /\ page = 0 /\ at = 0 /\ step = "next" /\ processed = {} /\ deadLetters = {} /\ deny = {}
      /\ job = NoJob /\ replay = NoReplay /\ request = 0 /\ applied = {} /\ aside = {} /\ crossed = FALSE
  BY DEF LinkInit
<1>5. LinkType
  <2>1. NoJob \in [state : {"off", "starting", "running"}, asked : BOOLEAN, owed : BOOLEAN] BY DEF NoJob
  <2>2. NoReplay \in [letter : Nat, late : BOOLEAN] BY DEF NoReplay
  <2>3. linkCursor \in 0 .. Len(log) /\ page \in Nat /\ at \in Nat BY <1>1, <1>4
  <2>4. processed \subseteq applied /\ applied \subseteq Told /\ deadLetters \subseteq aside /\ aside \subseteq Told BY <1>4
  <2>5. deny \subseteq Reasons /\ crossed \in BOOLEAN /\ request \in Nat BY <1>4
  <2> QED BY <1>4, <2>1, <2>2, <2>3, <2>4, <2>5 DEF LinkType
<1>6. PassedIs BY <1>3, <1>4 DEF PassedIs
<1>7. ReplayIs BY <1>4 DEF ReplayIs
<1>8. DenyIs BY <1>4 DEF DenyIs, Denials
<1>9. OwedIs BY <1>4 DEF OwedIs, NoJob
<1> QED BY <1>2, <1>5, <1>6, <1>7, <1>8, <1>9 DEF LinkInv

-----------------------------------------------------------------------------
(* Reward: the invariant *)

(* What a step that leaves the log alone may rely on. *)
LEMMA LinkFacts ==
  ASSUME LinkInv
  PROVE  /\ LogIs /\ LinkType /\ DOMAIN log = 1 .. Len(log) /\ Len(log) \in Nat
         /\ Told \subseteq DOMAIN log /\ applied \subseteq Told /\ aside \subseteq Told /\ Told \subseteq Nat
         /\ linkCursor \in Nat /\ page \in Nat /\ at \in Nat
         /\ \A i \in DOMAIN log : Pauses(log[i]) => i \in Told
BY DEF LinkInv, LogIs, LinkType, Told, Pauses, LinkHandles

LEMMA SameLog ==
  ASSUME LogIs, UNCHANGED log
  PROVE  LogIs' /\ Told' = Told /\ \A i, j : Supersedes(j, i)' <=> Supersedes(j, i)
BY DEF LogIs, Told, Supersedes, Key, LinkHandles

(* The denylist does not change. *)
LEMMA DenyStays == ASSUME DenyIs, UNCHANGED <<log, deny, applied, crossed>> PROVE DenyIs'
BY DEF DenyIs, Reasons

(* The poller takes a page, goes to the next event of it, finishes it, or loses its place. *)
LEMMA PageKeeps ==
  ASSUME LinkInv, UNCHANGED <<log, records, ghosts, deny, replay>>,
         \/ /\ page' \in Told /\ at' \in linkCursor' + 1 .. page' + 1 /\ (at' <= page' => at' \in Told)
         \/ page' = 0 /\ at' = 0,
         linkCursor' \in 0 .. Len(log),
         step' \in {"next", "applied", "paused"}, step' # "next" => InPage' /\ at' \in applied,
         \A i \in Told : i <= linkCursor' \/ i < at' => i <= linkCursor \/ i < at \/ i \in processed,
         request' \in {0, request},
         \/ job' = NoJob \/ job' = Asked
         \/ job' = job /\ \A i \in Told \ (processed \union aside) :
                            i > linkCursor => i > linkCursor' /\ (at' = i /\ step' = "paused" => at = i /\ step = "paused")
  PROVE  LinkInv'
<1>0. LogIs /\ LinkType /\ Told \subseteq DOMAIN log /\ \A i \in DOMAIN log : Pauses(log[i]) => i \in Told BY LinkFacts
<1>1. LogIs' /\ Told' = Told /\ \A i, j : Supersedes(j, i)' <=> Supersedes(j, i) BY <1>0, SameLog
<1>2. UNCHANGED <<log, processed, deadLetters, applied, aside, crossed, deny, replay>> BY DEF records, ghosts
<1>3. /\ job' \in [state : {"off", "starting", "running"}, asked : BOOLEAN, owed : BOOLEAN]
      /\ job'.owed => job'.state = "running"
      /\ job' = NoJob \/ job' = Asked => ~(job'.owed /\ ~job'.asked)
  <2>1. job \in [state : {"off", "starting", "running"}, asked : BOOLEAN, owed : BOOLEAN] BY <1>0 DEF LinkType
  <2>2. NoJob \in [state : {"off", "starting", "running"}, asked : BOOLEAN, owed : BOOLEAN] /\ ~NoJob.owed BY DEF NoJob
  <2>3. job.owed => job.state = "running" BY DEF LinkInv, OwedIs
  <2> DEFINE b == job.asked \/ job.state = "running"
  <2>4. Asked = [job EXCEPT !.asked = b] /\ b \in BOOLEAN BY DEF Asked
  <2> HIDE DEF b
  <2>5. /\ Asked \in [state : {"off", "starting", "running"}, asked : BOOLEAN, owed : BOOLEAN]
        /\ Asked.state = job.state /\ Asked.owed = job.owed /\ Asked.asked = b
    BY <2>1, <2>4
  <2>6. job.owed => b BY <2>3 DEF b
  <2> QED BY <2>1, <2>2, <2>3, <2>5, <2>6
<1>4. LinkType'
  <2>1. page' \in Nat /\ at' \in Nat /\ (page' = 0 => at' = 0)
        /\ (page' # 0 => page' \in Told /\ at' \in linkCursor' + 1 .. page' + 1 /\ (at' <= page' => at' \in Told))
    BY <1>0, LinkFacts
  <2>2. request' \in Nat /\ (request' # 0 => request' \in DOMAIN log /\ log[request'] \in PermissionEvents)
    BY <1>0 DEF LinkType
  <2>3. /\ processed \subseteq applied /\ applied \subseteq Told /\ deadLetters \subseteq aside /\ aside \subseteq Told
        /\ deny \subseteq Reasons /\ replay \in [letter : Nat, late : BOOLEAN] /\ crossed \in BOOLEAN
    BY <1>0 DEF LinkType
  <2> QED BY <1>1, <1>2, <1>3, <2>1, <2>2, <2>3 DEF LinkType, PermissionEvents, Reasons
<1>5. PassedIs'
  <2>1. \A i \in Told : i <= linkCursor' \/ i < at' =>
          i \in processed \union aside /\ (i \in processed \union deadLetters \/ Overtaken(i, processed))
    BY DEF LinkInv, PassedIs
  <2>2. \A j \in applied \union aside : \A i \in Told : i < j => i \in processed \union aside
    BY DEF LinkInv, PassedIs
  <2>3. \A i : Overtaken(i, processed)' <=> Overtaken(i, processed) BY <1>1, <1>2 DEF Overtaken
  <2> QED BY <1>1, <1>2, <2>1, <2>2, <2>3 DEF PassedIs
<1>6. ReplayIs'
  <2>1. \A i : Overtaken(i, applied)' <=> Overtaken(i, applied) BY <1>1, <1>2 DEF Overtaken
  <2> QED BY <1>2, <2>1 DEF LinkInv, ReplayIs, NoReplay
<1>7. DenyIs' BY <1>2, DenyStays DEF LinkInv
<1>8. OwedIs'
  <2>1. ASSUME job'.owed, ~job'.asked
        PROVE  \E i \in DOMAIN log : /\ Pauses(log[i]) /\ i > linkCursor' /\ i \notin processed \union aside
                                     /\ ~(at' = i /\ step' = "paused")
    <3>1. /\ job' = job
          /\ \A i \in Told \ (processed \union aside) :
               i > linkCursor => i > linkCursor' /\ (at' = i /\ step' = "paused" => at = i /\ step = "paused")
      BY <1>3, <2>1
    <3>2. PICK i \in DOMAIN log : /\ Pauses(log[i]) /\ i > linkCursor /\ i \notin processed \union aside
                                  /\ ~(at = i /\ step = "paused")
      BY <2>1, <3>1 DEF LinkInv, OwedIs
    <3>3. i \in Told \ (processed \union aside) BY <1>0, <3>2
    <3>4. i > linkCursor' /\ ~(at' = i /\ step' = "paused") BY <3>1, <3>2, <3>3
    <3> QED BY <3>2, <3>4
  <2> QED BY <1>2, <1>3, <2>1 DEF OwedIs, Pauses
<1> QED BY <1>1, <1>4, <1>5, <1>6, <1>7, <1>8 DEF LinkInv

LEMMA FetchPageKeeps == ASSUME LinkInv, UNCHANGED log, FetchPage PROVE LinkInv'
<1>0. /\ LinkType /\ DOMAIN log = 1 .. Len(log) /\ Len(log) \in Nat /\ linkCursor \in Nat /\ Told \subseteq Nat
      /\ linkCursor \in 0 .. Len(log) /\ (page = 0 => at = 0) /\ page = 0 /\ (step # "next" => InPage)
  BY LinkFacts DEF LinkType, FetchPage
<1>1. LinkAhead \in SUBSET Nat /\ LinkAhead # {} /\ \A i \in LinkAhead : i <= Len(log)
  BY <1>0 DEF LinkAhead, FetchPage
<1> DEFINE first == Min(LinkAhead)
           last == Max(LinkAhead)
<1>2. first \in LinkAhead /\ \A i \in LinkAhead : first <= i BY <1>1, MinIs
<1>3. last \in LinkAhead /\ \A i \in LinkAhead : i <= last BY <1>0, <1>1, MaxIs
<1>4. page' = last /\ at' = first /\ UNCHANGED <<records, ghosts, linkCursor, step, deny, job, replay, request>>
  BY DEF FetchPage
<1> HIDE DEF first, last
<1>5. LinkAhead \subseteq Told /\ \A i \in LinkAhead : i >= linkCursor + 1 BY <1>0 DEF LinkAhead, Told
<1>6. first \in Told /\ last \in Told /\ first \in linkCursor + 1 .. last + 1 BY <1>0, <1>2, <1>3, <1>5
<1>7. step = "next" BY <1>0 DEF InPage
<1>8. ASSUME NEW i \in Told, i < first, ~(i <= linkCursor) PROVE FALSE
  <2>1. i \in LinkAhead BY <1>0, <1>8 DEF LinkAhead, Told
  <2> QED BY <1>0, <1>2, <1>6, <1>8, <2>1
<1> QED BY <1>0, <1>4, <1>6, <1>7, <1>8, PageKeeps

LEMMA SkipKeeps == ASSUME LinkInv, UNCHANGED log, SkipProcessed PROVE LinkInv'
<1>0. /\ LogIs /\ LinkType /\ InPage /\ page # 0 /\ step = "next" /\ at \in processed /\ at' = Following
      /\ page \in Told /\ at \in linkCursor + 1 .. page + 1 /\ linkCursor \in 0 .. Len(log)
      /\ linkCursor \in Nat /\ at \in Nat /\ page \in Nat /\ Told \subseteq Nat
      /\ UNCHANGED <<records, ghosts, linkCursor, page, step, deny, job, replay, request>>
  BY LinkFacts DEF LinkType, SkipProcessed, InPage
<1> DEFINE n == Following
<1>1. n \in at + 1 .. page + 1 /\ (n <= page => n \in Told) /\ \A i \in Told : i < n => i <= at BY <1>0, FollowingIs
<1> HIDE DEF n
<1>2. at' = n BY <1>0 DEF n
<1>3. n \in linkCursor + 1 .. page + 1 BY <1>0, <1>1
<1>4. \A i \in Told : i < n => i < at \/ i \in processed BY <1>0, <1>1
<1> QED BY <1>0, <1>1, <1>2, <1>3, <1>4, PageKeeps

LEMMA EndPageKeeps == ASSUME LinkInv, UNCHANGED log, EndPage PROVE LinkInv'
<1>0. /\ LinkType /\ page # 0 /\ at > page /\ page \in Told /\ at \in linkCursor + 1 .. page + 1
      /\ linkCursor \in Nat /\ at \in Nat /\ page \in Nat /\ Told \subseteq DOMAIN log /\ DOMAIN log = 1 .. Len(log)
      /\ linkCursor' = page /\ page' = 0 /\ at' = 0 /\ Len(log) \in Nat /\ (step # "next" => InPage)
      /\ UNCHANGED <<records, ghosts, step, deny, job, replay, request>>
  BY LinkFacts DEF LinkType, EndPage
<1>1. step = "next" BY <1>0 DEF InPage
<1>2. page \in 0 .. Len(log) BY <1>0
<1>3. \A i \in Told : i <= page => i < at BY <1>0
<1>4. \A i \in Told \ (processed \union aside) : i > page
  <2> SUFFICES ASSUME NEW i \in Told \ (processed \union aside), ~(i > page) PROVE FALSE OBVIOUS
  <2>1. i < at BY <1>0
  <2> QED BY <2>1 DEF LinkInv, PassedIs
<1> QED BY <1>0, <1>1, <1>2, <1>3, <1>4, PageKeeps

LEMMA BreaksOffKeeps == ASSUME LinkInv, UNCHANGED log, BreaksOff \/ Crash PROVE LinkInv'
<1>0. /\ LinkType /\ linkCursor \in 0 .. Len(log) /\ linkCursor \in Nat /\ at \in Nat /\ Told \subseteq Nat
      /\ step' = "next" /\ UNCHANGED <<records, ghosts, linkCursor, deny, replay>>
      /\ (page # 0 => page \in Told /\ at \in linkCursor + 1 .. page + 1 /\ (at <= page => at \in Told))
  BY LinkFacts DEF LinkType, BreaksOff, Crash
<1>1. /\ (page' = 0 /\ at' = 0) \/ (page # 0 /\ page' = page /\ at' = at)
      /\ request' \in {0, request} /\ (job' = job \/ job' = NoJob)
  BY DEF BreaksOff, Crash
<1>2. \A i \in Told : ~(i < 0) BY <1>0
<1>3. CASE page' = 0 /\ at' = 0 BY <1>0, <1>1, <1>2, <1>3, PageKeeps
<1>4. CASE page # 0 /\ page' = page /\ at' = at BY <1>0, <1>1, <1>4, PageKeeps
<1> QED BY <1>1, <1>3, <1>4

LEMMA PauseJobsKeeps == ASSUME LinkInv, UNCHANGED log, PauseJobs PROVE LinkInv'
<1>0. /\ LinkType /\ linkCursor \in 0 .. Len(log) /\ InPage /\ page # 0
      /\ page \in Told /\ at \in linkCursor + 1 .. page + 1 /\ (at <= page => at \in Told) /\ at \in applied
      /\ step' = "paused" /\ job' = Asked /\ UNCHANGED <<records, ghosts, linkCursor, page, at, deny, replay, request>>
  BY LinkFacts DEF LinkType, PauseJobs, InPage
<1>1. InPage' BY <1>0 DEF InPage
<1> QED BY <1>0, <1>1, PageKeeps

LEMMA ApplyEventKeeps == ASSUME LinkInv, UNCHANGED log, ApplyEvent PROVE LinkInv'
<1>0. /\ LogIs /\ LinkType /\ Told \subseteq DOMAIN log /\ Told \subseteq Nat /\ applied \subseteq Told /\ aside \subseteq Told
      /\ InPage /\ page # 0 /\ page \in Told /\ at \in linkCursor + 1 .. page + 1 /\ at \in Told
      /\ linkCursor \in Nat /\ at \in Nat /\ page \in Nat
      /\ \A i \in DOMAIN log : Pauses(log[i]) => i \in Told
  BY LinkFacts DEF LinkType, ApplyEvent, InPage
<1>1. /\ step = "next" /\ at \notin processed /\ deny' = DenyAfter(log[at]) /\ applied' = applied \union {at}
      /\ crossed' = (crossed \/ (at \in aside /\ Overtaken(at, applied)))
      /\ replay' = IF replay # NoReplay /\ Supersedes(at, replay.letter) THEN [replay EXCEPT !.late = TRUE] ELSE replay
      /\ step' = IF Pauses(log[at]) THEN "applied" ELSE "paused"
      /\ UNCHANGED <<processed, deadLetters, linkCursor, page, at, job, request, aside>>
  BY DEF ApplyEvent, records
<1>2. LogIs' /\ Told' = Told /\ \A i, j : Supersedes(j, i)' <=> Supersedes(j, i) BY <1>0, SameLog
<1>3. LinkType'
  <2>1. deny' \subseteq Reasons BY <1>0, <1>1, DenyAfterIn DEF LinkType
  <2>2. replay' \in [letter : Nat, late : BOOLEAN]
    <3>1. replay \in [letter : Nat, late : BOOLEAN] BY <1>0 DEF LinkType
    <3>2. [replay EXCEPT !.late = TRUE] \in [letter : Nat, late : BOOLEAN] BY <3>1
    <3> QED BY <1>1, <3>1, <3>2
  <2>3. /\ applied' \subseteq Told /\ processed \subseteq applied' /\ crossed' \in BOOLEAN
        /\ step' \in {"next", "applied", "paused"} /\ (step' # "next" => InPage' /\ at \in applied')
    BY <1>0, <1>1 DEF LinkType, InPage
  <2>4. /\ linkCursor \in 0 .. Len(log) /\ (page = 0 => at = 0)
        /\ (page # 0 => page \in Told /\ at \in linkCursor + 1 .. page + 1 /\ (at <= page => at \in Told))
        /\ deadLetters \subseteq aside /\ aside \subseteq Told
        /\ job \in [state : {"off", "starting", "running"}, asked : BOOLEAN, owed : BOOLEAN]
        /\ request \in Nat /\ (request # 0 => request \in DOMAIN log /\ log[request] \in PermissionEvents)
    BY <1>0 DEF LinkType
  <2> QED BY <1>0, <1>1, <1>2, <2>1, <2>2, <2>3, <2>4 DEF LinkType, Reasons, PermissionEvents
<1>4. PassedIs'
  <2>1. \A i : Overtaken(i, processed)' <=> Overtaken(i, processed) BY <1>1, <1>2 DEF Overtaken
  <2>2. \A i \in Told : i < at => i \in processed \union aside BY DEF LinkInv, PassedIs
  <2> QED BY <1>1, <1>2, <2>1, <2>2 DEF LinkInv, PassedIs
<1>5. ReplayIs'
  <2>1. \A i : Overtaken(i, applied)' <=> Overtaken(i, applied) \/ Supersedes(at, i) BY <1>1, <1>2 DEF Overtaken
  <2>2. replay \in [letter : Nat, late : BOOLEAN] BY <1>0 DEF LinkType
  <2>3. ASSUME replay' # NoReplay, ~replay'.late PROVE replay # NoReplay /\ replay' = replay /\ ~Supersedes(at, replay.letter)
    BY <1>1, <2>2, <2>3
  <2>4. ASSUME replay' # NoReplay PROVE replay'.letter \in aside
    <3>1. replay # NoReplay /\ replay'.letter = replay.letter BY <1>1, <2>2, <2>4
    <3> QED BY <3>1 DEF LinkInv, ReplayIs
  <2>5. ASSUME replay' # NoReplay, ~replay'.late PROVE ~Overtaken(replay.letter, applied)'
    <3>1. replay # NoReplay /\ replay' = replay /\ ~Supersedes(at, replay.letter) BY <2>3, <2>5
    <3>2. ~Overtaken(replay.letter, applied) BY <2>5, <3>1 DEF LinkInv, ReplayIs
    <3> QED BY <2>1, <3>1, <3>2
  <2> QED BY <1>1, <2>4, <2>5 DEF ReplayIs, NoReplay, Overtaken
<1>6. DenyIs'
  <2>1. at \in aside \/ ~Overtaken(at, applied)
    <3> SUFFICES ASSUME NEW j \in applied, Supersedes(j, at) PROVE at \in aside BY DEF Overtaken
    <3>1. at < j /\ j \in Nat BY <1>0 DEF Supersedes
    <3> QED BY <1>0, <1>1, <3>1 DEF LinkInv, PassedIs
  <2>2. ~crossed' => ~crossed /\ ~Overtaken(at, applied) BY <1>1, <2>1
  <2> QED BY <1>0, <1>1, <2>2, DenyKeeps DEF LinkInv
<1>7. OwedIs'
  <2>1. step' = "paused" => ~Pauses(log[at]) BY <1>1
  <2>2. job.owed /\ ~job.asked =>
          \E i \in DOMAIN log : /\ Pauses(log[i]) /\ i > linkCursor /\ i \notin processed \union aside
                                /\ ~(at = i /\ step' = "paused")
    BY <2>1 DEF LinkInv, OwedIs
  <2> QED BY <1>1, <2>2 DEF LinkInv, OwedIs, Pauses
<1> QED BY <1>2, <1>3, <1>4, <1>5, <1>6, <1>7 DEF LinkInv

(* The poller is done with an event: it is processed, or put aside. *)
LEMMA DoneKeeps ==
  ASSUME LinkInv, UNCHANGED log, MarkProcessed \/ PutAside
  PROVE  LinkInv'
<1>0. /\ LogIs /\ LinkType /\ Told \subseteq DOMAIN log /\ Told \subseteq Nat /\ applied \subseteq Told /\ aside \subseteq Told
      /\ InPage /\ page # 0 /\ page \in Told /\ at \in linkCursor + 1 .. page + 1 /\ at \in Told
      /\ linkCursor \in Nat /\ at \in Nat /\ page \in Nat
      /\ \A i \in DOMAIN log : Pauses(log[i]) => i \in Told
  BY LinkFacts DEF LinkType, MarkProcessed, PutAside, InPage
<1>1. /\ step' = "next" /\ at' = Following /\ UNCHANGED <<linkCursor, page, deny, replay, request, applied, crossed>>
      /\ \/ /\ step = "paused" /\ processed' = processed \union {at} /\ UNCHANGED <<deadLetters, aside, job>>
         \/ /\ deadLetters' = deadLetters \union {at} /\ aside' = aside \union {at} /\ UNCHANGED processed
            /\ job' = [job EXCEPT !.owed = FALSE]
  BY DEF MarkProcessed, PutAside, ghosts
<1>2. LogIs' /\ Told' = Told /\ \A i, j : Supersedes(j, i)' <=> Supersedes(j, i) BY <1>0, SameLog
<1> DEFINE n == Following
<1>3. n \in at + 1 .. page + 1 /\ (n <= page => n \in Told) /\ \A i \in Told : i < n => i <= at BY <1>0, FollowingIs
<1> HIDE DEF n
<1>4. at' = n /\ n \in Nat /\ n \in linkCursor + 1 .. page + 1 BY <1>0, <1>1, <1>3 DEF n
<1>5. /\ processed \subseteq processed' /\ aside \subseteq aside' /\ deadLetters \subseteq deadLetters'
      /\ at \in processed' \union aside' /\ at \in processed' \union deadLetters'
      /\ processed' \subseteq applied /\ deadLetters' \subseteq aside' /\ aside' \subseteq Told
      /\ aside' \subseteq aside \union {at}
  <2>1. step = "paused" => at \in applied BY <1>0 DEF LinkType
  <2>2. processed \subseteq applied /\ deadLetters \subseteq aside BY <1>0 DEF LinkType
  <2> QED BY <1>0, <1>1, <2>1, <2>2
<1>6. /\ job' \in [state : {"off", "starting", "running"}, asked : BOOLEAN, owed : BOOLEAN]
      /\ job'.owed => job.owed /\ job' = job
  <2>1. job \in [state : {"off", "starting", "running"}, asked : BOOLEAN, owed : BOOLEAN] BY <1>0 DEF LinkType
  <2> QED BY <1>1, <2>1
<1>7. LinkType'
  <2>1. /\ linkCursor \in 0 .. Len(log) /\ applied \subseteq Told /\ deny \subseteq Reasons
        /\ replay \in [letter : Nat, late : BOOLEAN] /\ crossed \in BOOLEAN
        /\ request \in Nat /\ (request # 0 => request \in DOMAIN log /\ log[request] \in PermissionEvents)
    BY <1>0 DEF LinkType
  <2> QED BY <1>0, <1>1, <1>2, <1>3, <1>4, <1>5, <1>6, <2>1 DEF LinkType, Reasons, PermissionEvents
<1>8. PassedIs'
  <2>1. \A i : Overtaken(i, processed) => Overtaken(i, processed)' BY <1>2, <1>5 DEF Overtaken
  <2>2. ASSUME NEW i \in Told, i <= linkCursor \/ i < n
        PROVE  i \in processed' \union aside' /\ (i \in processed' \union deadLetters' \/ Overtaken(i, processed)')
    <3>1. i = at \/ i <= linkCursor \/ i < at BY <1>0, <1>3, <2>2
    <3>2. CASE i = at BY <1>5, <3>2
    <3>3. CASE i <= linkCursor \/ i < at
      <4>1. i \in processed \union aside /\ (i \in processed \union deadLetters \/ Overtaken(i, processed))
        BY <3>3 DEF LinkInv, PassedIs
      <4> QED BY <1>5, <2>1, <4>1
    <3> QED BY <3>1, <3>2, <3>3
  <2>3. ASSUME NEW j \in applied \union aside', NEW i \in Told, i < j PROVE i \in processed' \union aside'
    <3>1. CASE j \in applied \union aside
      <4>1. i \in processed \union aside BY <2>3, <3>1 DEF LinkInv, PassedIs
      <4> QED BY <1>5, <4>1
    <3>2. CASE j = at
      <4>1. i \in processed \union aside BY <2>3, <3>2 DEF LinkInv, PassedIs
      <4> QED BY <1>5, <4>1
    <3> QED BY <1>5, <2>3, <3>1, <3>2
  <2> QED BY <1>1, <1>2, <1>4, <2>2, <2>3 DEF PassedIs
<1>9. ReplayIs'
  <2>1. \A i : Overtaken(i, applied)' <=> Overtaken(i, applied) BY <1>1, <1>2 DEF Overtaken
  <2> QED BY <1>1, <1>5, <2>1 DEF LinkInv, ReplayIs, NoReplay
<1>10. DenyIs' BY <1>1, DenyStays DEF LinkInv
<1>11. OwedIs'
  <2>1. job'.owed => job'.state = "running" BY <1>6 DEF LinkInv, OwedIs
  <2>2. ASSUME job'.owed, ~job'.asked
        PROVE  \E i \in DOMAIN log : Pauses(log[i]) /\ i > linkCursor /\ i \notin processed' \union aside'
    <3>1. job.owed /\ job' = job BY <1>6, <2>2
    <3>2. job'.owed # FALSE BY <2>2
    <3>3. step = "paused" /\ processed' = processed \union {at} /\ aside' = aside
      <4>1. job \in [state : {"off", "starting", "running"}, asked : BOOLEAN, owed : BOOLEAN] BY <1>0 DEF LinkType
      <4>2. [job EXCEPT !.owed = FALSE].owed = FALSE BY <4>1
      <4> QED BY <1>1, <3>2, <4>2
    <3>4. PICK i \in DOMAIN log : /\ Pauses(log[i]) /\ i > linkCursor /\ i \notin processed \union aside
                                  /\ ~(at = i /\ step = "paused")
      BY <2>2, <3>1 DEF LinkInv, OwedIs
    <3> QED BY <3>3, <3>4
  <2> QED BY <1>1, <2>1, <2>2 DEF OwedIs, Pauses
<1> QED BY <1>2, <1>7, <1>8, <1>9, <1>10, <1>11 DEF LinkInv

LEMMA LookKeeps == ASSUME LinkInv, UNCHANGED log, LookAtLetter PROVE LinkInv'
<1>0. LogIs /\ LinkType /\ Told \subseteq Nat /\ aside \subseteq Told BY LinkFacts
<1>1. PICK i \in deadLetters :
        \/ (i \in processed \/ Overtaken(i, processed)) /\ deadLetters' = deadLetters \ {i} /\ UNCHANGED replay
        \/ /\ ~(i \in processed \/ Overtaken(i, processed)) /\ UNCHANGED deadLetters
           /\ replay' = [letter |-> i, late |-> Overtaken(i, applied \ processed)]
  BY DEF LookAtLetter
<1>2. UNCHANGED <<log, linkCursor, page, at, step, applied, aside, crossed, processed, deny, job, request>>
  BY DEF LookAtLetter, poller, ghosts
<1>3. LogIs' /\ Told' = Told /\ \A m, j : Supersedes(j, m)' <=> Supersedes(j, m) BY <1>0, SameLog
<1>4. /\ deadLetters \subseteq aside /\ i \in aside /\ i \in Nat /\ replay \in [letter : Nat, late : BOOLEAN]
      /\ deadLetters' \subseteq aside
  BY <1>0, <1>1 DEF LinkType
<1>5. replay' \in [letter : Nat, late : BOOLEAN]
  <2>1. Overtaken(i, applied \ processed) \in BOOLEAN BY DEF Overtaken
  <2> QED BY <1>1, <1>4, <2>1
<1>6. LinkType' BY <1>0, <1>2, <1>3, <1>4, <1>5 DEF LinkType, Reasons, PermissionEvents, InPage
<1>7. PassedIs'
  <2>1. \A m : Overtaken(m, processed)' <=> Overtaken(m, processed) BY <1>2, <1>3 DEF Overtaken
  <2>2. \A m \in deadLetters : m \in deadLetters' \/ m \in processed \/ Overtaken(m, processed) BY <1>1
  <2> QED BY <1>2, <1>3, <2>1, <2>2 DEF LinkInv, PassedIs
<1>8. ReplayIs'
  <2>1. \A m : Overtaken(m, applied)' <=> Overtaken(m, applied) BY <1>2, <1>3 DEF Overtaken
  <2>2. CASE UNCHANGED replay BY <1>2, <2>1, <2>2 DEF LinkInv, ReplayIs, NoReplay
  <2>3. CASE /\ ~(i \in processed \/ Overtaken(i, processed))
             /\ replay' = [letter |-> i, late |-> Overtaken(i, applied \ processed)]
    <3>1. Overtaken(i, applied) => Overtaken(i, applied \ processed) BY <2>3 DEF Overtaken
    <3>2. replay'.letter = i /\ (~replay'.late => ~Overtaken(i, applied)) BY <2>3, <3>1
    <3>3. ~replay'.late => ~Overtaken(replay.letter, applied)' BY <2>1, <3>2
    <3> QED BY <1>2, <1>4, <3>2, <3>3 DEF ReplayIs, NoReplay, Overtaken
  <2> QED BY <1>1, <2>2, <2>3
<1>9. DenyIs' BY <1>2, DenyStays DEF LinkInv
<1>10. OwedIs' BY <1>2 DEF LinkInv, OwedIs, Pauses
<1> QED BY <1>3, <1>6, <1>7, <1>8, <1>9, <1>10 DEF LinkInv

LEMMA ReplayLetterKeeps == ASSUME LinkInv, UNCHANGED log, ReplayLetter PROVE LinkInv'
<1>0. /\ LogIs /\ LinkType /\ Told \subseteq Nat /\ aside \subseteq Told /\ Told \subseteq DOMAIN log
      /\ applied \subseteq Told
  BY LinkFacts
<1> DEFINE i == replay.letter
<1>1. /\ deny' = DenyAfter(log[i]) /\ applied' = applied \union {i} /\ crossed' = (crossed \/ replay.late)
      /\ \/ processed' = processed \union {i} /\ deadLetters' = deadLetters \ {i}
         \/ UNCHANGED <<processed, deadLetters>>
      /\ replay' = NoReplay /\ UNCHANGED <<log, linkCursor, page, at, step, job, request, aside>>
  BY DEF ReplayLetter, poller
<1>2. i \in aside /\ (~replay.late => ~Overtaken(i, applied)) BY DEF LinkInv, ReplayIs, ReplayLetter
<1>3. replay.late \in BOOLEAN BY <1>0 DEF LinkType
<1> HIDE DEF i
<1>4. LogIs' /\ Told' = Told /\ \A m, j : Supersedes(j, m)' <=> Supersedes(j, m) BY <1>0, SameLog
<1>5. LinkType'
  <2>1. deny' \subseteq Reasons BY <1>0, <1>1, DenyAfterIn DEF LinkType
  <2>2. replay' \in [letter : Nat, late : BOOLEAN] BY <1>1 DEF NoReplay
  <2>3. /\ processed' \subseteq applied' /\ applied' \subseteq Told /\ deadLetters' \subseteq aside /\ crossed' \in BOOLEAN
        /\ (step # "next" => InPage /\ at \in applied')
    BY <1>0, <1>1, <1>2, <1>3 DEF LinkType
  <2> QED BY <1>0, <1>1, <1>4, <2>1, <2>2, <2>3 DEF LinkType, Reasons, PermissionEvents, InPage
<1>6. PassedIs'
  <2>1. processed \subseteq processed' /\ processed \union deadLetters \subseteq processed' \union deadLetters' BY <1>1
  <2>2. \A m : Overtaken(m, processed) => Overtaken(m, processed)' BY <1>4, <2>1 DEF Overtaken
  <2>3. \A m \in Told : m <= linkCursor \/ m < at =>
          m \in processed' \union aside /\ (m \in processed' \union deadLetters' \/ Overtaken(m, processed)')
    BY <2>1, <2>2 DEF LinkInv, PassedIs
  <2>4. \A j \in applied' \union aside : j \in applied \union aside BY <1>1, <1>2
  <2>5. \A j \in applied' \union aside : \A m \in Told : m < j => m \in processed' \union aside
    BY <2>1, <2>4 DEF LinkInv, PassedIs
  <2> QED BY <1>1, <1>4, <2>3, <2>5 DEF PassedIs
<1>7. ReplayIs' BY <1>1 DEF ReplayIs, NoReplay
<1>8. DenyIs'
  <2>1. i \in DOMAIN log /\ applied \subseteq DOMAIN log BY <1>0, <1>2
  <2> QED BY <1>0, <1>1, <1>2, <2>1, DenyKeeps DEF LinkInv
<1>9. OwedIs'
  <2>1. \A m : m \notin processed \union aside => m \notin processed' \union aside BY <1>1, <1>2
  <2> QED BY <1>1, <2>1 DEF LinkInv, OwedIs, Pauses
<1> QED BY <1>4, <1>5, <1>6, <1>7, <1>8, <1>9 DEF LinkInv

(* A run is begun or is over. *)
LEMMA RunKeeps == ASSUME LinkInv, UNCHANGED log, CheckStart \/ Starts \/ RunnerPauses \/ RunEnds PROVE LinkInv'
<1>0. LogIs /\ LinkType BY LinkFacts
<1>1. UNCHANGED <<log, linkCursor, page, at, step, processed, deadLetters, applied, aside, crossed, deny, replay, request>>
  BY DEF CheckStart, Starts, RunnerPauses, RunEnds, poller, records, ghosts
<1>2. job' \in [state : {"off", "starting", "running"}, asked : BOOLEAN, owed : BOOLEAN] /\ ~job'.owed
  <2>1. job \in [state : {"off", "starting", "running"}, asked : BOOLEAN, owed : BOOLEAN]
        /\ (job.owed => job.state = "running")
    BY <1>0 DEF LinkType, LinkInv, OwedIs
  <2>2. CASE CheckStart
    <3>1. ~job.owed /\ job' = [job EXCEPT !.state = "starting"] BY <2>1, <2>2 DEF CheckStart
    <3> QED BY <2>1, <3>1
  <2>3. CASE Starts
    <3>1. ~job.owed /\ job' = [job EXCEPT !.state = "running"] BY <2>1, <2>3 DEF Starts
    <3> QED BY <2>1, <3>1
  <2>4. CASE RunnerPauses \/ RunEnds
    <3>1. job' = NoJob BY <2>4 DEF RunnerPauses, RunEnds
    <3> QED BY <3>1 DEF NoJob
  <2> QED BY <2>2, <2>3, <2>4
<1>3. LogIs' /\ Told' = Told /\ \A m, j : Supersedes(j, m)' <=> Supersedes(j, m) BY <1>0, <1>1, SameLog
<1>4. LinkType' BY <1>0, <1>1, <1>2, <1>3 DEF LinkType, Reasons, PermissionEvents, InPage
<1>5. PassedIs' BY <1>1, <1>3 DEF LinkInv, PassedIs, Overtaken
<1>6. ReplayIs' BY <1>1, <1>3 DEF LinkInv, ReplayIs, NoReplay, Overtaken
<1>7. DenyIs' BY <1>1, DenyStays DEF LinkInv
<1>8. OwedIs' BY <1>2 DEF OwedIs
<1> QED BY <1>3, <1>4, <1>5, <1>6, <1>7, <1>8 DEF LinkInv

LEMMA ChangeHereKeeps == ASSUME LinkInv, UNCHANGED log, ChangeHere PROVE LinkInv'
<1>0. LogIs /\ LinkType /\ Told \subseteq DOMAIN log /\ applied \subseteq Told BY LinkFacts
<1>1. /\ request # 0 /\ deny' = DenyAfter(log[request]) /\ crossed' = (crossed \/ Overtaken(request, applied))
      /\ job' = (IF Pauses(log[request]) THEN Asked ELSE job) /\ request' = 0
      /\ UNCHANGED <<log, linkCursor, page, at, step, processed, deadLetters, replay, applied, aside>>
  BY DEF ChangeHere, poller, records
<1>2. request \in DOMAIN log BY <1>0, <1>1 DEF LinkType
<1>3. LogIs' /\ Told' = Told /\ \A m, j : Supersedes(j, m)' <=> Supersedes(j, m) BY <1>0, <1>1, SameLog
<1>4. /\ job' \in [state : {"off", "starting", "running"}, asked : BOOLEAN, owed : BOOLEAN]
      /\ job'.state = job.state /\ job'.owed = job.owed /\ (job.asked => job'.asked)
  <2>1. job \in [state : {"off", "starting", "running"}, asked : BOOLEAN, owed : BOOLEAN] BY <1>0 DEF LinkType
  <2> DEFINE b == job.asked \/ job.state = "running"
  <2>2. Asked = [job EXCEPT !.asked = b] /\ b \in BOOLEAN /\ (job.asked => b) BY DEF Asked
  <2> HIDE DEF b
  <2>3. /\ Asked \in [state : {"off", "starting", "running"}, asked : BOOLEAN, owed : BOOLEAN]
        /\ Asked.state = job.state /\ Asked.owed = job.owed /\ Asked.asked = b
    BY <2>1, <2>2
  <2> QED BY <1>1, <2>1, <2>2, <2>3
<1>5. LinkType'
  <2>1. deny' \subseteq Reasons BY <1>0, <1>1, DenyAfterIn DEF LinkType
  <2>2. crossed' \in BOOLEAN /\ request' = 0 BY <1>0, <1>1 DEF LinkType, Overtaken
  <2> QED BY <1>0, <1>1, <1>3, <1>4, <2>1, <2>2 DEF LinkType, Reasons, PermissionEvents, InPage
<1>6. PassedIs' BY <1>1, <1>3 DEF LinkInv, PassedIs, Overtaken
<1>7. ReplayIs' BY <1>1, <1>3 DEF LinkInv, ReplayIs, NoReplay, Overtaken
<1>8. DenyIs' BY <1>0, <1>1, <1>2, DenyKeeps DEF LinkInv
<1>9. OwedIs' BY <1>1, <1>4 DEF LinkInv, OwedIs, Pauses
<1> QED BY <1>3, <1>5, <1>6, <1>7, <1>8, <1>9 DEF LinkInv

(* Identity writes an event. *)
LEMMA TellingKeeps ==
  ASSUME LinkInv, LogIs', Longer, Len(log') = Len(log) + 1, UNCHANGED <<poller, records, deny, replay, ghosts>>,
         job' = Owing, request' \in Nat,
         request' # 0 => request' \in DOMAIN log' /\ log'[request'] \in PermissionEvents
  PROVE  LinkInv'
<1>0. /\ LogIs /\ LinkType /\ DOMAIN log = 1 .. Len(log) /\ Len(log) \in Nat
      /\ Told \subseteq DOMAIN log /\ applied \subseteq Told /\ aside \subseteq Told /\ Told \subseteq Nat
      /\ linkCursor \in Nat /\ page \in Nat /\ at \in Nat
  BY LinkFacts
<1>1. UNCHANGED <<linkCursor, page, at, step, processed, deadLetters, applied, aside, crossed, deny, replay>>
  BY DEF poller, records, ghosts
<1> DEFINE new == Len(log) + 1
<1>2. /\ DOMAIN log' = 1 .. new /\ Len(log') = new /\ new \in Nat /\ new \notin DOMAIN log /\ new > linkCursor
      /\ DOMAIN log' = DOMAIN log \union {new} /\ \A i \in DOMAIN log : log'[i] = log[i]
  BY <1>0 DEF LogIs, Longer, LinkType
<1> HIDE DEF new
<1>3. Told \subseteq Told' /\ Told' \subseteq Told \union {new} BY <1>2 DEF Told, LinkHandles
<1>4. \A i, j \in DOMAIN log : Supersedes(j, i)' <=> Supersedes(j, i) BY <1>2 DEF Supersedes, Key
<1>5. \A i \in DOMAIN log : /\ Overtaken(i, processed)' <=> Overtaken(i, processed)
                            /\ Overtaken(i, applied)' <=> Overtaken(i, applied)
  <2>1. processed \subseteq DOMAIN log /\ applied \subseteq DOMAIN log BY <1>0 DEF LinkType
  <2> QED BY <1>1, <1>4, <2>1 DEF Overtaken
<1> DEFINE b == job.owed \/ (job.state = "running" /\ Pauses(log'[new]))
<1>6. /\ job' \in [state : {"off", "starting", "running"}, asked : BOOLEAN, owed : BOOLEAN]
      /\ job'.state = job.state /\ job'.asked = job.asked /\ job'.owed = b
  <2>1. job \in [state : {"off", "starting", "running"}, asked : BOOLEAN, owed : BOOLEAN] BY <1>0 DEF LinkType
  <2>2. job' = [job EXCEPT !.owed = b] BY <1>2 DEF Owing
  <2>3. b \in BOOLEAN BY <2>1 DEF Pauses
  <2> HIDE DEF b
  <2> QED BY <2>1, <2>2, <2>3
<1>7. LinkType'
  <2>1. /\ linkCursor \in 0 .. Len(log') /\ page \in Nat /\ at \in Nat /\ (page = 0 => at = 0)
        /\ (page # 0 => page \in Told' /\ at \in linkCursor + 1 .. page + 1 /\ (at <= page => at \in Told'))
    <3>1. /\ linkCursor \in 0 .. Len(log) /\ (page = 0 => at = 0)
          /\ (page # 0 => page \in Told /\ at \in linkCursor + 1 .. page + 1 /\ (at <= page => at \in Told))
      BY <1>0 DEF LinkType
    <3>2. linkCursor \in 0 .. Len(log') BY <1>0, <1>2, <3>1
    <3> QED BY <1>0, <1>3, <3>1, <3>2
  <2>2. /\ step \in {"next", "applied", "paused"} /\ (step # "next" => InPage /\ at \in applied)
        /\ processed \subseteq applied /\ applied \subseteq Told' /\ deadLetters \subseteq aside /\ aside \subseteq Told'
    BY <1>0, <1>3 DEF LinkType
  <2>3. deny \subseteq Reasons /\ replay \in [letter : Nat, late : BOOLEAN] /\ crossed \in BOOLEAN
    BY <1>0 DEF LinkType
  <2> QED BY <1>1, <1>6, <2>1, <2>2, <2>3 DEF LinkType, Reasons, PermissionEvents, InPage
<1>8. PassedIs'
  <2>1. ASSUME NEW i \in Told', i <= linkCursor \/ i < at
        PROVE  i \in processed \union aside /\ (i \in processed \union deadLetters \/ Overtaken(i, processed)')
    <3>1. i # new
      <4>1. ~(new <= linkCursor) BY <1>0, <1>2
      <4>2. ~(new < at)
        <5>1. page = 0 => at = 0 BY <1>0 DEF LinkType
        <5>2. page # 0 => page \in DOMAIN log /\ at \in linkCursor + 1 .. page + 1 BY <1>0 DEF LinkType
        <5>3. page # 0 => page < new BY <1>0, <1>2, <5>2 DEF new
        <5> QED BY <1>0, <1>2, <5>1, <5>2, <5>3
      <4> QED BY <2>1, <4>1, <4>2
    <3>2. i \in Told BY <1>3, <3>1
    <3>3. i \in processed \union aside /\ (i \in processed \union deadLetters \/ Overtaken(i, processed))
      BY <2>1, <3>2 DEF LinkInv, PassedIs
    <3> QED BY <1>0, <1>5, <3>2, <3>3
  <2>2. ASSUME NEW j \in applied \union aside, NEW i \in Told', i < j PROVE i \in processed \union aside
    <3>1. j \in DOMAIN log BY <1>0
    <3>2. i # new BY <1>0, <2>2, <3>1 DEF new
    <3>3. i \in Told BY <1>3, <3>2
    <3> QED BY <2>2, <3>3 DEF LinkInv, PassedIs
  <2> QED BY <1>1, <2>1, <2>2 DEF PassedIs
<1>9. ReplayIs'
  <2>1. replay # NoReplay => replay.letter \in aside /\ (~replay.late => ~Overtaken(replay.letter, applied))
    BY DEF LinkInv, ReplayIs
  <2>2. replay # NoReplay => (Overtaken(replay.letter, applied)' <=> Overtaken(replay.letter, applied))
    <3>1. replay # NoReplay => replay.letter \in DOMAIN log BY <1>0, <2>1
    <3>2. UNCHANGED replay BY <1>1
    <3> QED BY <1>4, <1>5, <3>1, <3>2, <1>1, <1>0 DEF Overtaken
  <2> QED BY <1>1, <2>1, <2>2 DEF ReplayIs, NoReplay
<1>10. DenyIs'
  <2> SUFFICES ASSUME ~crossed, NEW r \in Reasons PROVE Denials(log', deny, applied, r)
    BY <1>1 DEF DenyIs, Reasons
  <2>1. Denials(log, deny, applied, r) BY DEF LinkInv, DenyIs
  <2>2. applied \subseteq DOMAIN log BY <1>0
  <2> QED BY <1>2, <2>1, <2>2 DEF Denials
<1>11. OwedIs'
  <2>1. job.owed => job.state = "running" BY DEF LinkInv, OwedIs
  <2>2. ASSUME job'.owed, ~job'.asked
        PROVE  \E i \in DOMAIN log' : /\ Pauses(log'[i]) /\ i > linkCursor /\ i \notin processed \union aside
                                      /\ ~(at = i /\ step = "paused")
    <3>1. CASE job.owed
      <4>1. PICK i \in DOMAIN log : /\ Pauses(log[i]) /\ i > linkCursor /\ i \notin processed \union aside
                                    /\ ~(at = i /\ step = "paused")
        BY <1>6, <2>2, <3>1 DEF LinkInv, OwedIs
      <4> QED BY <1>2, <4>1
    <3>2. CASE ~job.owed
      <4>1. Pauses(log'[new]) BY <1>6, <2>2, <3>2
      <4>2. new \in DOMAIN log' /\ new \notin applied \union aside BY <1>0, <1>2
      <4>3. processed \subseteq applied /\ (step # "next" => at \in applied) BY <1>0 DEF LinkType
      <4> QED BY <1>2, <4>1, <4>2, <4>3
    <3> QED BY <3>1, <3>2
  <2>3. job'.owed => job'.state = "running" BY <1>6, <2>1
  <2> QED BY <1>1, <2>2, <2>3 DEF OwedIs, Pauses
<1> QED BY <1>7, <1>8, <1>9, <1>10, <1>11 DEF LinkInv

LEMMA AsksKeep == ASSUME LinkInv, AccountTells \/ AskIdentity PROVE LinkInv'
<1>0. LogIs /\ LinkType /\ DOMAIN log = 1 .. Len(log) /\ Len(log) \in Nat BY LinkFacts
<1>1. CASE AccountTells
  <2>1. LogIs' /\ Longer /\ Len(log') = Len(log) + 1 BY <1>0, <1>1, OneTold DEF AccountTells
  <2>2. job' = Owing /\ UNCHANGED <<poller, records, deny, replay, request, ghosts>> BY <1>1 DEF AccountTells
  <2>3. request' \in Nat /\ (request' # 0 => request' \in DOMAIN log' /\ log'[request'] \in PermissionEvents)
    BY <1>0, <2>1, <2>2 DEF LinkType, Longer
  <2> QED BY <2>1, <2>2, <2>3, TellingKeeps
<1>2. CASE (Grant \/ Revoke) /\ AskIdentity /\ request' = Len(log') /\ job' = Owing
  <2>1. LogIs' /\ Longer /\ Len(log') = Len(log) + 1 BY <1>0, <1>2, OneTold
  <2>2. PICK event \in PermissionEvents : log' = Append(log, event)
    <3>1. PICK event \in PermissionEvents : log' = log \o <<event>>
      BY <1>2 DEF Grant, Revoke, Tell, PermissionEvents
    <3>2. event \in Events /\ log \in Seq(Events) BY <1>0 DEF Events, LogIs
    <3> QED BY <3>1, <3>2
  <2>3. log'[Len(log')] \in PermissionEvents /\ Len(log') \in DOMAIN log'
    <3>1. log \in Seq(Events) /\ event \in Events BY <1>0 DEF Events, LogIs
    <3>2. log'[Len(log) + 1] = event BY <2>2, <3>1
    <3>3. DOMAIN log' = 1 .. Len(log') BY <2>1 DEF LogIs
    <3> QED BY <1>0, <2>1, <3>2, <3>3
  <2>4. request' \in Nat /\ request' = Len(log') BY <1>0, <1>2, <2>1
  <2>5. UNCHANGED <<poller, records, deny, replay, ghosts>> BY <1>2 DEF AskIdentity
  <2> QED BY <1>2, <2>1, <2>3, <2>4, <2>5, TellingKeeps
<1>3. CASE AskIdentity /\ Granted /\ request' = Last(PermissionEvents) /\ UNCHANGED <<log, job>>
  <2>1. UNCHANGED <<log, linkCursor, page, at, step, processed, deadLetters, applied, aside, crossed, deny, replay, job>>
    BY <1>3 DEF AskIdentity, poller, records, ghosts
  <2>2. LogIs' /\ Told' = Told /\ \A m, j : Supersedes(j, m)' <=> Supersedes(j, m) BY <1>0, <2>1, SameLog
  <2>3. request' \in Nat /\ (request' # 0 => request' \in DOMAIN log /\ log[request'] \in PermissionEvents)
    BY <1>0, <1>3, LastIsLast
  <2>4. LinkType' BY <1>0, <2>1, <2>2, <2>3 DEF LinkType, Reasons, PermissionEvents, InPage
  <2>5. PassedIs' BY <2>1, <2>2 DEF LinkInv, PassedIs, Overtaken
  <2>6. ReplayIs' BY <2>1, <2>2 DEF LinkInv, ReplayIs, NoReplay, Overtaken
  <2>7. DenyIs' BY <2>1, DenyStays DEF LinkInv
  <2>8. OwedIs' BY <2>1 DEF LinkInv, OwedIs, Pauses
  <2> QED BY <2>2, <2>4, <2>5, <2>6, <2>7, <2>8 DEF LinkInv
<1> QED BY <1>1, <1>2, <1>3 DEF AskIdentity

LEMMA LinkStays == ASSUME LinkInv, [LinkStep]_<<log, link>> PROVE LinkInv'
<1>1. CASE AccountTells \/ AskIdentity BY <1>1, AsksKeep
<1>2. CASE LinkNext /\ UNCHANGED log
  <2>1. CASE FetchPage BY <1>2, <2>1, FetchPageKeeps
  <2>2. CASE SkipProcessed BY <1>2, <2>2, SkipKeeps
  <2>3. CASE ApplyEvent BY <1>2, <2>3, ApplyEventKeeps
  <2>4. CASE PauseJobs BY <1>2, <2>4, PauseJobsKeeps
  <2>5. CASE MarkProcessed \/ PutAside BY <1>2, <2>5, DoneKeeps
  <2>6. CASE EndPage BY <1>2, <2>6, EndPageKeeps
  <2>7. CASE BreaksOff \/ Crash BY <1>2, <2>7, BreaksOffKeeps
  <2>8. CASE LookAtLetter BY <1>2, <2>8, LookKeeps
  <2>9. CASE ReplayLetter BY <1>2, <2>9, ReplayLetterKeeps
  <2>10. CASE CheckStart \/ Starts \/ RunnerPauses \/ RunEnds BY <1>2, <2>10, RunKeeps
  <2>11. CASE ChangeHere BY <1>2, <2>11, ChangeHereKeeps
  <2> QED BY <1>2, <2>1, <2>2, <2>3, <2>4, <2>5, <2>6, <2>7, <2>8, <2>9, <2>10, <2>11 DEF LinkNext, Polling
<1>3. CASE UNCHANGED <<log, link>>
  <2>0. LogIs /\ LinkType BY LinkFacts
  <2>1. UNCHANGED <<log, linkCursor, page, at, step, processed, deadLetters, applied, aside, crossed, deny, replay, job,
                    request>>
    BY <1>3 DEF link, poller, records, ghosts
  <2>2. LogIs' /\ Told' = Told /\ \A m, j : Supersedes(j, m)' <=> Supersedes(j, m) BY <2>0, <2>1, SameLog
  <2>3. LinkType' BY <2>0, <2>1, <2>2 DEF LinkType, Reasons, PermissionEvents, InPage
  <2>4. PassedIs' BY <2>1, <2>2 DEF LinkInv, PassedIs, Overtaken
  <2>5. ReplayIs' BY <2>1, <2>2 DEF LinkInv, ReplayIs, NoReplay, Overtaken
  <2>6. DenyIs' BY <2>1, DenyStays DEF LinkInv
  <2>7. OwedIs' BY <2>1 DEF LinkInv, OwedIs, Pauses
  <2> QED BY <2>2, <2>3, <2>4, <2>5, <2>6, <2>7 DEF LinkInv
<1> QED BY <1>1, <1>2, <1>3 DEF LinkStep

(* Reward's denylist, its places in the feed and the pauses it owes are what LinkInv says, for any interleaving of the   *)
(* poller, the replay, the administrators, the job and a crash, and any number of events and letters: nothing is passed  *)
(* that is not processed, put aside or replaced, and the denylist is that of the newest events that were applied.        *)
THEOREM DenialsAreOfTheApplied == LinkSpec => []LinkInv
<1>1. LinkInv /\ [LinkStep]_<<log, link>> => LinkInv' BY LinkStays
<1> QED BY <1>1, LinkStart, PTL DEF LinkSpec

LEMMA KeysAreKinds ==
  ASSUME NEW r \in Reasons, NEW e \in Kinds(r), NEW f \in Events, Key(f) = Key(e)
  PROVE  f \in Kinds(r)
<1>1. CASE r = "suspended"
  <2>1. Kinds(r) = {"active", "suspended"} BY <1>1 DEF Kinds
  <2> QED BY <2>1 DEF Key, Events, StatusEvents, PermissionEvents
<1>2. CASE r = "permission_revoked"
  <2>1. Kinds(r) = {"granted", "revoked"} BY <1>2 DEF Kinds, PermissionEvents
  <2> QED BY <2>1 DEF Key, Events, StatusEvents, PermissionEvents
<1>3. CASE r = "deleted"
  <2>1. Kinds(r) = {"deleted"} BY <1>3 DEF Kinds
  <2> QED BY <2>1 DEF Key, Events, StatusEvents, PermissionEvents
<1> QED BY <1>1, <1>2, <1>3 DEF Reasons

(* The last word on a reason is what is denied. *)
LEMMA DeniedIs ==
  ASSUME LogIs, NEW r \in Reasons
  PROVE  Denied(r) <=> \E k \in DOMAIN log : /\ log[k] = Imposing(r) /\ Imposing(r) \in Kinds(r)
                                             /\ \A j \in DOMAIN log : log[j] \in Kinds(r) => j <= k
<1>1. CASE r = "suspended"
  <2>1. Kinds(r) = {"active", "suspended"} /\ Imposing(r) = "suspended" BY <1>1 DEF Kinds, Imposing
  <2>2. Denied(r) <=> LastIs({"active", "suspended"}, "suspended") BY <1>1 DEF Denied
  <2> QED BY <2>1, <2>2, LastIsIs
<1>2. CASE r = "permission_revoked"
  <2>1. Kinds(r) = PermissionEvents /\ Imposing(r) = "revoked" BY <1>2 DEF Kinds, Imposing
  <2>2. Denied(r) <=> LastIs(PermissionEvents, "revoked") BY <1>2 DEF Denied
  <2> QED BY <2>1, <2>2, LastIsIs
<1>3. CASE r = "deleted"
  <2>1. Kinds(r) = {"deleted"} /\ Imposing(r) = "deleted" BY <1>3 DEF Kinds, Imposing
  <2>2. Denied(r) <=> \E i \in DOMAIN log : log[i] = "deleted" BY <1>3, DeletedIs DEF Denied
  <2>3. \A i, j \in DOMAIN log : log[i] = "deleted" /\ log[j] = "deleted" => j <= i
    <3>1. \A i \in DOMAIN log : i \in Nat BY DEF LogIs
    <3> QED BY <3>1 DEF LogIs
  <2> QED BY <2>1, <2>2, <2>3
<1> QED BY <1>1, <1>2, <1>3 DEF Reasons

(* When all is handled the denylist is what the events say in their order, for any crash between the steps and however   *)
(* late letters were replayed, unless the change of an event was made after that of a newer one by someone who could not *)
(* know of it.                                                                                                           *)
THEOREM DenylistIsCurrent == LinkSpec => []DenialsAreCurrent
<1>1. LinkInv => DenialsAreCurrent
  <2> SUFFICES ASSUME LinkInv, LinkQuiet, ~crossed PROVE deny = {r \in Reasons : Denied(r)}
    BY DEF DenialsAreCurrent
  <2>0. /\ LogIs /\ LinkType /\ DOMAIN log = 1 .. Len(log) /\ Len(log) \in Nat /\ linkCursor \in Nat
        /\ \A i \in DOMAIN log : log[i] \in Events
    BY LinkFacts DEF LogIs
  <2>1. \A i \in Told : i <= linkCursor
    <3> SUFFICES ASSUME NEW i \in Told, ~(i <= linkCursor) PROVE FALSE OBVIOUS
    <3>1. i \in linkCursor + 1 .. Len(log) /\ LinkHandles(log[i]) BY <2>0 DEF Told
    <3> QED BY <3>1 DEF LinkQuiet, LinkAhead
  <2>2. deadLetters = {} /\ processed \subseteq applied /\ applied \subseteq DOMAIN log /\ deny \subseteq Reasons
    BY <2>0 DEF LinkQuiet, LinkType, Told
  <2>3. \A i \in Told : i \in processed \/ Overtaken(i, processed) BY <2>1, <2>2 DEF LinkInv, PassedIs
  <2>4. ASSUME NEW r \in Reasons PROVE r \in deny <=> Denied(r)
    <3>1. Denials(log, deny, applied, r) BY DEF LinkInv, DenyIs
    <3>2. \A i \in DOMAIN log : log[i] \in Kinds(r) => i \in Told BY <2>0, KindsAre DEF Told
    <3>3. ASSUME NEW k \in DOMAIN log, log[k] \in Kinds(r), \A j \in DOMAIN log : log[j] \in Kinds(r) => j <= k
          PROVE  k \in applied /\ (r \in deny <=> log[k] = Imposing(r))
      <4>1. k \in applied
        <5> SUFFICES ASSUME Overtaken(k, processed) PROVE FALSE BY <2>2, <2>3, <3>2, <3>3
        <5>1. PICK j \in processed : j > k /\ Key(log[j]) = Key(log[k]) BY DEF Overtaken, Supersedes
        <5>2. j \in DOMAIN log /\ log[j] \in Events BY <2>0, <2>2, <5>1
        <5>3. log[j] \in Kinds(r) BY <3>3, <5>1, <5>2, KeysAreKinds
        <5>4. j <= k BY <3>3, <5>2, <5>3
        <5> QED BY <2>0, <5>1, <5>2, <5>4
      <4>2. PICK n \in DOMAIN log : /\ log[n] \in Kinds(r) /\ \A j \in applied : log[j] \in Kinds(r) => j <= n
                                    /\ r \in deny <=> log[n] = Imposing(r)
        BY <3>1, <3>3, <4>1 DEF Denials
      <4>3. n <= k /\ k <= n BY <3>3, <4>1, <4>2
      <4>4. n = k BY <2>0, <4>3
      <4> QED BY <4>1, <4>2, <4>4
    <3>4. CASE \E i \in DOMAIN log : log[i] \in Kinds(r)
      <4>1. /\ Last(Kinds(r)) \in Nat /\ (Last(Kinds(r)) # 0 => Last(Kinds(r)) \in DOMAIN log /\ log[Last(Kinds(r))] \in Kinds(r))
            /\ \A i \in DOMAIN log : log[i] \in Kinds(r) => i <= Last(Kinds(r))
        BY <2>0, LastIsLast
      <4>2. PICK k \in DOMAIN log : log[k] \in Kinds(r) /\ \A j \in DOMAIN log : log[j] \in Kinds(r) => j <= k
        <5>1. Last(Kinds(r)) # 0 BY <2>0, <3>4, <4>1
        <5> QED BY <4>1, <5>1
      <4>3. r \in deny <=> log[k] = Imposing(r) BY <3>3, <4>2
      <4>4. Denied(r) <=> log[k] = Imposing(r)
        <5>1. ASSUME NEW i \in DOMAIN log, log[i] = Imposing(r), Imposing(r) \in Kinds(r),
                     \A j \in DOMAIN log : log[j] \in Kinds(r) => j <= i
              PROVE  i = k
          <6>1. i <= k /\ k <= i BY <4>2, <5>1
          <6> QED BY <2>0, <6>1
        <5>2. Denied(r) <=> \E i \in DOMAIN log : /\ log[i] = Imposing(r) /\ Imposing(r) \in Kinds(r)
                                                  /\ \A j \in DOMAIN log : log[j] \in Kinds(r) => j <= i
          BY <2>0, DeniedIs
        <5> QED BY <4>2, <5>1, <5>2
      <4> QED BY <4>3, <4>4
    <3>5. CASE ~\E i \in DOMAIN log : log[i] \in Kinds(r)
      <4>1. ~Denied(r) BY <2>0, <3>5, DeniedIs
      <4>2. r \notin deny BY <3>1, <3>5 DEF Denials
      <4> QED BY <4>1, <4>2
    <3> QED BY <3>4, <3>5
  <2> QED BY <2>2, <2>4
<1> QED BY <1>1, DenialsAreOfTheApplied, PTL

(* A run that was going on when an event was written that asks for a pause is asked to pause before the event is done    *)
(* with: wherever the process dies, and even if a newer event lifts the denial before the runner looks.                  *)
THEOREM PausesAreAsked == LinkSpec => []PauseIsAsked
<1>1. LinkInv => PauseIsAsked BY DEF LinkInv, OwedIs, PauseIsAsked
<1> QED BY <1>1, DenialsAreOfTheApplied, PTL
=============================================================================
