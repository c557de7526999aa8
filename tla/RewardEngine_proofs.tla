------------------------ MODULE RewardEngine_proofs ------------------------
(***************************************************************************)
(* Theorems about RewardEngine for every number of items, tokens, retries  *)
(* and reopenings.                                                         *)
(***************************************************************************)
EXTENDS RewardEngine, FiniteSetTheorems, TLAPS

\* A turn of the loop, a break and a longer streak are runner records again.
LEMMA RunnerRecords ==
    ASSUME NEW r \in RunnerRecord, NEW b \in BOOLEAN
    PROVE  /\ NextTurn(r) \in RunnerRecord
           /\ Break(r, b) \in RunnerRecord
           /\ Settled(r) \in RunnerRecord
           /\ StreakCleared(r) \in RunnerRecord
           /\ r.cur \in Items => StreakLonger(r) \in RunnerRecord
<1>1. NoObservation \in Observation
  BY DEF NoObservation, Observation, Outcomes
<1>2. NextTurn(r) \in RunnerRecord
  BY <1>1 DEF NextTurn, RunnerRecord, RunnerAt
<1>3. Break(r, b) \in RunnerRecord
  BY <1>2 DEF Break, RunnerRecord, RunnerAt
<1>4. Settled(r) \in RunnerRecord
  BY DEF Settled, RunnerRecord
<1>5. StreakCleared(r) \in RunnerRecord
  BY DEF StreakCleared, RunnerRecord
<1>6. ASSUME r.cur \in Items PROVE StreakLonger(r) \in RunnerRecord
  <2> DEFINE s == r.slotUnknown[r.slot] \cup {r.cur}
             j == r.jobUnknown \cup {r.cur}
             q == [r EXCEPT !.slotUnknown[r.slot] = s, !.jobUnknown = j]
  <2>1. q \in RunnerRecord
    BY <1>6 DEF RunnerRecord
  <2>2. NextTurn(q) \in RunnerRecord
    BY <1>1, <2>1 DEF NextTurn, RunnerRecord, RunnerAt
  <2>3. [q EXCEPT !.pc = "resettle", !.cur = 0, !.obs = NoObservation] \in RunnerRecord
    BY <1>1, <2>1 DEF RunnerRecord, RunnerAt
  <2> HIDE DEF q
  <2>4. QED
    BY <2>2, <2>3 DEF StreakLonger, q
<1>7. QED
  BY <1>2, <1>3, <1>4, <1>5, <1>6

\* Where a turn of the loop and the break leave the runner, and what they keep.
LEMMA Turns ==
    ASSUME NEW r \in RunnerRecord, NEW b \in BOOLEAN
    PROVE  /\ NextTurn(r).pc = "loop"
           /\ Break(r, b).pc = "final"
           /\ Break(r, TRUE).pausing = TRUE
           /\ Break(r, b).stopReq = r.stopReq
           /\ Break(r, b).pauseReq = r.pauseReq
BY DEF NextTurn, Break, RunnerRecord

\* Where the steps before the claim leave it.
LEMMA TurnBegins ==
    ASSUME TypeOK
    PROVE  /\ AcquireToken => runner'.pc \in {"final", "check"}
           /\ CheckRoleAndCredential => runner'.pc \in {"final", "claim"}
<1>1. runner \in RunnerRecord
  BY DEF TypeOK, ProcessType
<1>2. ASSUME NEW b \in BOOLEAN, runner' = Break(runner, b) PROVE runner'.pc = "final"
  BY <1>1, <1>2, Turns
<1>3. ASSUME NEW t, runner' = [runner EXCEPT !.slot = t, !.pc = "check"] PROVE runner'.pc = "check"
  BY <1>1, <1>3 DEF RunnerRecord
<1>4. ASSUME runner' = [runner EXCEPT !.pc = "claim"] PROVE runner'.pc = "claim"
  BY <1>1, <1>4 DEF RunnerRecord
<1>5. ASSUME AcquireToken PROVE runner'.pc \in {"final", "check"}
  <2>1. CASE RunnerAs(Break(runner, FALSE)) \/ RunnerAs(Break(runner, TRUE))
    BY <1>2, <2>1 DEF RunnerAs
  <2>2. ASSUME NEW t \in runner.usable, RunnerAs([runner EXCEPT !.slot = t, !.pc = "check"])
        PROVE  runner'.pc \in {"final", "check"}
    BY <1>3, <2>2 DEF RunnerAs
  <2>3. QED
    BY <1>5, <2>1, <2>2 DEF AcquireToken
<1>6. ASSUME CheckRoleAndCredential PROVE runner'.pc \in {"final", "claim"}
  <2>1. CASE RunnerAs([runner EXCEPT !.pc = "claim"])
    BY <1>4, <2>1 DEF RunnerAs
  <2>2. CASE RunnerAs(Break(runner, TRUE))
    BY <1>2, <2>2 DEF RunnerAs
  <2>3. QED
    BY <1>6, <2>1, <2>2 DEF CheckRoleAndCredential
<1>7. QED
  BY <1>5, <1>6

\* A runner that moves on keeps its item; one that claims has the item it claimed.
LEMMA RunnerMoves ==
    ASSUME NEW r \in RunnerRecord, NEW pc \in RunnerAt, NEW o \in Observation, NEW i \in Items
    PROVE  /\ [r EXCEPT !.pc = pc] \in RunnerRecord
           /\ [r EXCEPT !.pc = pc].cur = r.cur
           /\ [r EXCEPT !.obs = o, !.pc = pc] \in RunnerRecord
           /\ [r EXCEPT !.obs = o, !.pc = pc].cur = r.cur
           /\ [r EXCEPT !.cur = i, !.pc = pc] \in RunnerRecord
           /\ [r EXCEPT !.cur = i, !.pc = pc].cur = i
BY DEF RunnerRecord

\* The records the process starts from, and the fresh one of a pass.
LEMMA FreshRecords ==
    ASSUME EngineAssumption, TypeOK
    PROVE  /\ \A pc \in RunnerAt : NoRunner(pc) \in RunnerRecord
           /\ NoPass \in PassRecord
           /\ \A again \in BOOLEAN : ReadUnknown(again) \in PassRecord
           /\ \A at \in {"done", "failed"} : [NoPass EXCEPT !.at = at] \in PassRecord
<1>1. NoObservation \in Observation
  BY DEF NoObservation, Observation, Outcomes
<1>2. \A pc \in RunnerAt : NoRunner(pc) \in RunnerRecord
  BY <1>1 DEF NoRunner, RunnerRecord
<1>3. NoPass \in PassRecord
  BY DEF NoPass, PassRecord
<1>4. \A at \in {"done", "failed"} : [NoPass EXCEPT !.at = at] \in PassRecord
  BY <1>3 DEF PassRecord
<1>5. ASSUME NEW again \in BOOLEAN PROVE ReadUnknown(again) \in PassRecord
  <2>1. Unresolved \subseteq Items
    BY DEF Unresolved
  <2>2. [i \in Items |-> IF i \in Unresolved THEN attempt[i].since ELSE 0] \in [Items -> Nat]
    BY DEF TypeOK, DatabaseType, AttemptRecord
  <2> HIDE DEF Unresolved, NoPass
  <2>3. QED
    BY <1>3, <2>1, <2>2 DEF ReadUnknown, PassRecord
<1>6. QED
  BY <1>2, <1>3, <1>4, <1>5

\* The settled rows leave a pass that is a pass.
LEMMA NextRowType ==
    ASSUME EngineAssumption, TypeOK, NEW p \in Passes, NEW i \in Items,
           NEW used \in SUBSET Nat, NEW waiting \in SUBSET Items,
           NextRow(p, i, used, waiting)
    PROVE  ProcessType'
<1> DEFINE rest  == pass[p].rows \ {i}
           young == pass[p].waiting \cup waiting
           r1 == [pass[p] EXCEPT !.rows = rest, !.used = @ \cup used, !.waiting = young]
           r2 == [NoPass EXCEPT !.at = "wait", !.waiting = young]
           r3 == [NoPass EXCEPT !.at = "done"]
<1>1. pass[p] \in PassRecord
  BY DEF TypeOK, ProcessType
<1>2. r1 \in PassRecord
  BY <1>1 DEF PassRecord
<1>3. r2 \in PassRecord
  BY <1>1, FreshRecords DEF PassRecord
<1>4. r3 \in PassRecord
  BY FreshRecords
<1>5. PICK r \in PassRecord : PassAs(p, r)
  <2> HIDE DEF r1, r2, r3
  <2>1. \E r \in {r1, r2, r3} : PassAs(p, r)
    BY DEF NextRow, r1, r2, r3
  <2>2. QED
    BY <1>2, <1>3, <1>4, <2>1
<1>6. QED
  BY <1>5 DEF PassAs, TypeOK, ProcessType

-----------------------------------------------------------------------------
(* Type correctness *)

LEMMA InitType == EngineAssumption /\ Init => TypeOK
<1> SUFFICES ASSUME EngineAssumption, Init PROVE TypeOK
  OBVIOUS
<1>1. DatabaseType
  BY DEF Init, DatabaseType, JobStatus, ItemRecord, Claimable, AttemptRecord, Phases
<1>2. DiscordType
  BY DEF Init, DiscordType
<1>3. NoRunner("idle") \in RunnerRecord
  BY DEF NoRunner, RunnerRecord, RunnerAt, NoObservation, Observation, Outcomes
<1>4. NoPass \in PassRecord
  BY DEF NoPass, PassRecord
<1>5. ProcessType
  BY <1>3, <1>4 DEF Init, ProcessType, Sending, NoRunner
<1>6. HistoryType
  BY DEF Init, HistoryType
<1>7. QED
  BY <1>1, <1>2, <1>5, <1>6 DEF TypeOK

\* A runner record with a claimed item, or outside the steps that need one, keeps the process typed.
LEMMA RunnerAsType ==
    ASSUME TypeOK, NEW r \in RunnerRecord, r.pc \in Sending => r.cur \in Items, RunnerAs(r)
    PROVE  ProcessType'
BY DEF TypeOK, ProcessType, RunnerAs

\* So do the turns of the loop.
LEMMA TurnType ==
    ASSUME TypeOK, NEW r \in RunnerRecord, NEW b \in BOOLEAN,
           \/ RunnerAs(NextTurn(r))
           \/ RunnerAs(Break(r, b))
           \/ r.cur \in Items /\ RunnerAs(StreakLonger(r))
    PROVE  ProcessType'
<1>1. NextTurn(r).pc \notin Sending
  BY RunnerRecords DEF NextTurn, RunnerRecord, Sending
<1>2. Break(r, b).pc \notin Sending
  BY RunnerRecords DEF Break, NextTurn, RunnerRecord, Sending
<1>3. StreakLonger(r).pc \notin Sending
  BY DEF StreakLonger, NextTurn, RunnerRecord, Sending
<1>4. QED
  BY <1>1, <1>2, <1>3, RunnerRecords, RunnerAsType

LEMMA GoneType ==
    ASSUME EngineAssumption, TypeOK, NEW pc \in RunnerAt \ Sending, RunnerGone(pc),
           UNCHANGED <<request, stopping>>
    PROVE  ProcessType'
<1>1. NoRunner(pc) \in RunnerRecord /\ NoPass \in PassRecord
  BY FreshRecords
<1>2. NoRunner(pc).pc = pc
  BY DEF NoRunner
<1>3. QED
  BY <1>1, <1>2 DEF RunnerGone, TypeOK, ProcessType

\* The transactions of the runner and of recovery leave rows that are rows.
LEMMA RowUpdates ==
    ASSUME EngineAssumption, TypeOK, Cur \in Items
    PROVE  /\ \A phase \in Phases : CloseAttempt(phase) => attempt' \in [Items -> AttemptRecord]
           /\ \A status \in Claimable \cup Terminal :
                 MoveItem(status) \/ ResolveItemTo(status) => item' \in [Items -> ItemRecord]
           /\ Requeue => item' \in [Items -> ItemRecord]
<1>1. item[Cur] \in ItemRecord /\ attempt[Cur] \in AttemptRecord
  BY DEF TypeOK, DatabaseType
<1>2. ASSUME NEW phase \in Phases, CloseAttempt(phase) PROVE attempt' \in [Items -> AttemptRecord]
  BY <1>1, <1>2 DEF CloseAttempt, AttemptRecord, TypeOK, DatabaseType
<1>3. ASSUME NEW status \in Claimable \cup Terminal, MoveItem(status) \/ ResolveItemTo(status)
      PROVE  item' \in [Items -> ItemRecord]
  BY <1>1, <1>3 DEF MoveItem, ResolveItemTo, ItemRecord, TypeOK, DatabaseType
<1>4. ASSUME Requeue PROVE item' \in [Items -> ItemRecord]
  <2> DEFINE tries == IF item[Cur].tries > 0 THEN item[Cur].tries - 1 ELSE 0
             row   == [item[Cur] EXCEPT !.status = "retrying", !.tries = tries]
  <2>1. tries \in Nat
    BY <1>1 DEF ItemRecord
  <2>2. row \in ItemRecord
    <3> HIDE DEF tries
    <3>1. QED
      BY <1>1, <2>1 DEF ItemRecord, Claimable
  <2>3. item' = [item EXCEPT ![Cur] = row]
    BY <1>1, <1>4 DEF Requeue, TypeOK, DatabaseType, ItemRecord
  <2>4. QED
    <3> HIDE DEF row
    <3>1. QED
      BY <2>2, <2>3 DEF TypeOK, DatabaseType
<1>5. QED
  BY <1>2, <1>3, <1>4

\* What the transactions leave alone keeps its type.
LEMMA Kept ==
    ASSUME TypeOK
    PROVE  /\ UNCHANGED <<job, item, attempt, ledger>> => DatabaseType'
           /\ UNCHANGED <<inflight, accepted, channel, aged>> => DiscordType'
           /\ UNCHANGED <<runner, pass, request, stopping>> => ProcessType'
           /\ UNCHANGED <<handed, retried>> => HistoryType'
BY DEF TypeOK, DatabaseType, DiscordType, ProcessType, HistoryType

\* The steps of the runner that send an item.
LEMMA SendType ==
    ASSUME EngineAssumption, TypeOK, AcquireToken \/ CheckRoleAndCredential \/ ClaimNext \/ Invoke \/ MarkSent
    PROVE  TypeOK'
<1>1. runner \in RunnerRecord
  BY DEF TypeOK, ProcessType
<1>2. CASE AcquireToken
  <2>1. ASSUME NEW t \in runner.usable PROVE [runner EXCEPT !.slot = t, !.pc = "check"] \in RunnerRecord
    BY <1>1 DEF RunnerRecord, RunnerAt
  <2>2. ASSUME NEW t \in runner.usable, RunnerAs([runner EXCEPT !.slot = t, !.pc = "check"]) PROVE ProcessType'
    BY <1>1, <2>1, <2>2, RunnerAsType DEF Sending, RunnerRecord
  <2>3. ProcessType'
    BY <1>1, <1>2, <2>2, TurnType DEF AcquireToken
  <2>4. QED
    BY <1>2, <2>3, Kept DEF AcquireToken, TypeOK, database, discord, history
<1>3. CASE CheckRoleAndCredential
  <2>1. [runner EXCEPT !.pc = "claim"] \in RunnerRecord
    BY <1>1 DEF RunnerRecord, RunnerAt
  <2>2. ProcessType'
    BY <1>1, <1>3, <2>1, TurnType, RunnerAsType DEF CheckRoleAndCredential, Sending, RunnerRecord
  <2>3. QED
    BY <1>3, <2>2, Kept DEF CheckRoleAndCredential, TypeOK, database, discord, history
<1>4. CASE ClaimNext
  <2> DEFINE queue == {i \in Items : Status(i) \in Claimable}
  <2>1. CASE queue = {} /\ RunnerAs(Break(runner, FALSE)) /\ UNCHANGED <<database, discord>>
    BY <1>1, <1>4, <2>1, TurnType, Kept DEF ClaimNext, TypeOK, database, discord, history
  <2>2. ASSUME NEW i \in First(queue),
               /\ item' = [item EXCEPT ![i].status = "processing", ![i].tries = @ + 1]
               /\ attempt' = [attempt EXCEPT ![i] = [phase |-> "prepared", since |-> Len(channel)]]
               /\ aged' = aged \ {i}
               /\ runner' = [runner EXCEPT !.cur = i, !.pc = "exec"]
               /\ pass' = [p \in Passes |-> [pass[p] EXCEPT !.current = @ \ {i}]]
               /\ UNCHANGED <<job, ledger, inflight, accepted, channel, request, stopping>>
        PROVE TypeOK'
    <3>1. i \in Items
      BY DEF First
    <3>2. item[i] \in ItemRecord /\ Len(channel) \in Nat
      BY <3>1 DEF TypeOK, DatabaseType, DiscordType
    <3>3. item' \in [Items -> ItemRecord]
      <4> DEFINE tries == item[i].tries + 1
                 row   == [item[i] EXCEPT !.status = "processing", !.tries = tries]
      <4>1. row \in ItemRecord
        <5>1. tries \in Nat
          BY <3>2 DEF ItemRecord
        <5> HIDE DEF tries
        <5>2. QED
          BY <3>2, <5>1 DEF ItemRecord
      <4>2. item' = [item EXCEPT ![i] = row]
        BY <2>2, <3>1, <3>2 DEF TypeOK, DatabaseType, ItemRecord
      <4> HIDE DEF row
      <4>3. QED
        BY <4>1, <4>2 DEF TypeOK, DatabaseType
    <3>4. attempt' \in [Items -> AttemptRecord]
      BY <2>2, <3>1, <3>2 DEF TypeOK, DatabaseType, AttemptRecord, Phases
    <3>5. runner' \in RunnerRecord /\ runner'.cur \in Items
      <4>1. "exec" \in RunnerAt /\ NoObservation \in Observation
        BY DEF RunnerAt, NoObservation, Observation, Outcomes
      <4>2. QED
        BY <1>1, <2>2, <3>1, <4>1, RunnerMoves
    <3>6. pass' \in [Passes -> PassRecord]
      <4>1. ASSUME NEW p \in Passes PROVE [pass[p] EXCEPT !.current = @ \ {i}] \in PassRecord
        <5>1. pass[p] \in PassRecord
          BY DEF TypeOK, ProcessType
        <5>2. QED
          BY <5>1 DEF PassRecord
      <4>2. QED
        BY <2>2, <4>1
    <3>7. aged' \subseteq Items
      BY <2>2 DEF TypeOK, DiscordType
    <3>8. QED
      BY <1>4, <2>2, <3>3, <3>4, <3>5, <3>6, <3>7, Kept
         DEF ClaimNext, TypeOK, DatabaseType, DiscordType, ProcessType, history
  <2>3. QED
    BY <1>4, <2>1, <2>2 DEF ClaimNext
<1>5. CASE Invoke
  <2>1. PICK outcome \in Outcomes, anchor \in {0, Len(channel)} : \E executed \in Reaches(outcome) :
          /\ inflight' = IF executed THEN [inflight EXCEPT ![Cur] = @ + 1] ELSE inflight
          /\ accepted' = IF executed THEN [accepted EXCEPT ![Cur] = @ + 1] ELSE accepted
          /\ RunnerAs([Settled(runner) EXCEPT
                !.obs = [outcome |-> outcome, sentAt |-> Len(channel), anchor |-> anchor],
                !.pc  = IF outcome = "invoked" THEN "mark" ELSE "settle"])
    BY <1>5 DEF Invoke
  <2>2. Cur \in Items
    BY <1>5 DEF Invoke, Cur, TypeOK, ProcessType, Sending
  <2> DEFINE o == [outcome |-> outcome, sentAt |-> Len(channel), anchor |-> anchor]
             q == Settled(runner)
             r == [q EXCEPT !.obs = o, !.pc = IF outcome = "invoked" THEN "mark" ELSE "settle"]
  <2>3. o \in Observation
    BY DEF Observation, TypeOK, DiscordType
  <2>4. q \in RunnerRecord /\ q.cur = runner.cur
    BY <1>1, RunnerRecords DEF Settled, RunnerRecord
  <2>5. r \in RunnerRecord /\ r.cur \in Items
    <3> DEFINE pc == IF outcome = "invoked" THEN "mark" ELSE "settle"
    <3>1. pc \in RunnerAt
      BY DEF RunnerAt
    <3> HIDE DEF o, q, pc
    <3>2. r = [q EXCEPT !.obs = o, !.pc = pc]
      BY DEF pc
    <3>3. /\ [q EXCEPT !.obs = o, !.pc = pc] \in RunnerRecord
          /\ [q EXCEPT !.obs = o, !.pc = pc].cur = q.cur
      BY <2>2, <2>3, <2>4, <3>1, RunnerMoves
    <3> HIDE DEF r
    <3>4. r.cur = runner.cur
      BY <2>4, <3>2, <3>3
    <3>5. QED
      BY <2>2, <3>2, <3>3, <3>4 DEF Cur
  <2>6. ProcessType'
    <3>1. RunnerAs(r)
      BY <2>1
    <3> HIDE DEF r
    <3>2. QED
      BY <2>5, <3>1, RunnerAsType
  <2>7. inflight' \in [Items -> Nat] /\ accepted' \in [Items -> Nat]
    BY <2>1, <2>2 DEF TypeOK, DiscordType
  <2>8. QED
    BY <1>5, <2>6, <2>7, Kept DEF Invoke, TypeOK, DiscordType, database, history
<1>6. CASE MarkSent
  <2>1. Cur \in Items
    BY <1>6 DEF MarkSent, Cur, TypeOK, ProcessType, Sending
  <2>2. runner.obs.sentAt \in Nat
    BY <1>1 DEF RunnerRecord, Observation
  <2>3. attempt' \in [Items -> AttemptRecord]
    BY <1>6, <2>1, <2>2 DEF MarkSent, TypeOK, DatabaseType, AttemptRecord, Phases
  <2> DEFINE o == [runner.obs EXCEPT !.sentAt = 0]
             r == [runner EXCEPT !.obs = o, !.pc = "confirm"]
  <2>4. r \in RunnerRecord /\ r.cur \in Items
    <3>1. o \in Observation /\ "confirm" \in RunnerAt
      BY <1>1 DEF RunnerRecord, RunnerAt, Observation
    <3> HIDE DEF o
    <3>2. QED
      BY <1>1, <2>1, <3>1, RunnerMoves DEF Cur
  <2>5. ProcessType'
    <3>1. RunnerAs(r)
      BY <1>6 DEF MarkSent
    <3> HIDE DEF r
    <3>2. QED
      BY <2>4, <3>1, RunnerAsType
  <2>6. QED
    BY <1>6, <2>3, <2>5, Kept DEF MarkSent, TypeOK, DatabaseType, discord, history
<1>7. QED
  BY <1>2, <1>3, <1>4, <1>5, <1>6

\* A token that left the pool leaves a runner that is a runner.
LEMMA RunnerWithout ==
    ASSUME NEW r \in RunnerRecord
    PROVE  /\ [r EXCEPT !.usable = @ \ {r.slot}] \in RunnerRecord
           /\ [r EXCEPT !.usable = @ \ {r.slot}].cur = r.cur
BY DEF RunnerRecord

\* The steps of the runner that settle an item.
LEMMA SettleType ==
    ASSUME EngineAssumption, TypeOK,
           \/ SessionError \/ FailBeforeSend \/ ConfirmSuccess \/ ConfirmFailed \/ ConfirmUnknown
           \/ SettleError
    PROVE  TypeOK'
<1>1. runner \in RunnerRecord
  BY DEF TypeOK, ProcessType
<1>2. Cur \in Items
  BY DEF TypeOK, ProcessType, Sending, Cur, SessionError, FailBeforeSend, ConfirmSuccess,
         ConfirmFailed, ConfirmUnknown, SettleError
<1>3. StreakCleared(Settled(runner)) \in RunnerRecord /\ StreakCleared(runner) \in RunnerRecord
  BY <1>1, RunnerRecords
<1>4. {"aborted", "confirmed", "rejected"} \subseteq Phases /\ {"retrying"} \subseteq Claimable
      /\ {"success", "failed", "unknown"} \subseteq Terminal
  BY DEF Phases, Claimable, Terminal
<1>5. CASE SessionError
  <2> DEFINE r == [runner EXCEPT !.failures[runner.slot] = @ + 1]
             gone == r.failures[r.slot] >= MaxSessionFailures
             q == IF gone THEN [r EXCEPT !.usable = @ \ {r.slot}] ELSE r
  <2>1. r \in RunnerRecord
    BY <1>1 DEF RunnerRecord
  <2>2. q \in RunnerRecord
    <3> HIDE DEF r
    <3>1. QED
      BY <2>1, RunnerWithout
  <2>3. RunnerAs(Break(q, TRUE)) \/ RunnerAs(NextTurn(q))
    BY <1>5 DEF SessionError
  <2>4. ProcessType'
    <3> HIDE DEF q
    <3>1. QED
      BY <2>2, <2>3, TurnType
  <2>5. QED
    BY <1>2, <1>4, <1>5, <2>4, RowUpdates, Kept DEF SessionError, TypeOK, DatabaseType, discord, history
<1>6. CASE FailBeforeSend
  <2>1. ProcessType'
    BY <1>3, <1>6, TurnType DEF FailBeforeSend
  <2>2. QED
    BY <1>2, <1>4, <1>6, <2>1, RowUpdates, Kept DEF FailBeforeSend, TypeOK, DatabaseType, discord, history
<1>7. CASE ConfirmSuccess
  <2>1. CASE Recorded(Cur)
    <3>1. ProcessType'
      BY <1>7, <2>1, GoneType DEF ConfirmSuccess, RunnerAt, Sending
    <3>2. QED
      BY <1>7, <2>1, <3>1, Kept DEF ConfirmSuccess, TypeOK, DatabaseType, JobStatus, discord, history
  <2>2. CASE ~Recorded(Cur)
    <3>1. ProcessType'
      BY <1>3, <1>7, <2>2, TurnType DEF ConfirmSuccess
    <3>2. Linked("ok") \subseteq Nat
      BY DEF Linked, TypeOK, DiscordType
    <3>3. ledger' \subseteq [item : Items, reply : Nat]
      BY <1>2, <1>7, <2>2, <3>2 DEF ConfirmSuccess, First, TypeOK, DatabaseType
    <3>4. CloseAttempt("confirmed") /\ ResolveItemTo("success") /\ job' = job
      BY <1>7, <2>2 DEF ConfirmSuccess
    <3>5. QED
      BY <1>2, <1>4, <1>7, <3>1, <3>3, <3>4, RowUpdates, Kept
         DEF ConfirmSuccess, TypeOK, DatabaseType, discord, history
  <2>3. QED
    BY <2>1, <2>2
<1>8. CASE ConfirmFailed
  <2>1. ProcessType'
    BY <1>3, <1>8, TurnType DEF ConfirmFailed
  <2>2. QED
    BY <1>2, <1>4, <1>8, <2>1, RowUpdates, Kept DEF ConfirmFailed, TypeOK, DatabaseType, discord, history
<1>9. CASE ConfirmUnknown
  <2>1. ProcessType'
    BY <1>1, <1>2, <1>9, TurnType DEF ConfirmUnknown, Cur
  <2>2. QED
    BY <1>2, <1>4, <1>9, <2>1, RowUpdates, Kept DEF ConfirmUnknown, TypeOK, DatabaseType, discord, history
<1>10. CASE SettleError
  <2> DEFINE rest == [runner EXCEPT !.usable = @ \ {runner.slot}]
  <2>1. rest \in RunnerRecord
    BY <1>1, RunnerWithout
  <2>2. \/ RunnerAs(NextTurn(rest)) \/ RunnerAs(Break(rest, TRUE)) \/ RunnerAs(NextTurn(runner))
        \/ RunnerAs(NextTurn(StreakCleared(runner))) \/ RunnerAs(StreakLonger(runner))
    BY <1>10 DEF SettleError
  <2>3. ProcessType'
    <3> HIDE DEF rest
    <3>1. QED
      BY <1>1, <1>2, <1>3, <2>1, <2>2, TurnType DEF Cur
  <2>4. item' \in [Items -> ItemRecord]
    <3>1. Requeue \/ \E status \in Claimable \cup Terminal : MoveItem(status) \/ ResolveItemTo(status)
      BY <1>4, <1>10 DEF SettleError
    <3>2. QED
      BY <1>2, <3>1, RowUpdates
  <2>5. QED
    BY <1>2, <1>4, <1>10, <2>3, <2>4, RowUpdates, Kept DEF SettleError, TypeOK, DatabaseType, discord, history
<1>11. QED
  BY <1>5, <1>6, <1>7, <1>8, <1>9, <1>10

\* The steps in which the task begins, looks into a streak, or ends.
LEMMA TaskType ==
    ASSUME EngineAssumption, TypeOK,
           \/ RunJob \/ StartSweep \/ EndSweep \/ Judge \/ Close \/ WorkerError \/ Cancel \/ Cancelled
    PROVE  TypeOK'
<1>1. runner \in RunnerRecord
  BY DEF TypeOK, ProcessType
<1>2. {"idle", "cancelled", "loop", "finishing", "resettling", "close", "judge"} \subseteq RunnerAt \ Sending
  BY DEF RunnerAt, Sending
<1>3. CASE RunJob
  <2>1. PICK T \in SUBSET Tokens : RunnerAs([NoRunner("loop") EXCEPT !.usable = T])
    BY <1>3 DEF RunJob
  <2> DEFINE r == [NoRunner("loop") EXCEPT !.usable = T]
  <2>2. NoRunner("loop") \in RunnerRecord /\ NoRunner("loop").pc = "loop"
    BY <1>2, FreshRecords DEF NoRunner
  <2>3. r \in RunnerRecord /\ r.pc \notin Sending
    <3> HIDE DEF NoRunner
    <3>1. QED
      BY <1>2, <2>2 DEF RunnerRecord
  <2>4. ProcessType'
    <3> HIDE DEF r
    <3>1. RunnerAs(r)
      BY <2>1 DEF r
    <3>2. QED
      BY <2>3, <3>1, RunnerAsType
  <2>5. QED
    BY <1>3, <2>4, Kept DEF RunJob, TypeOK, DatabaseType, JobStatus, discord, history
<1>4. CASE StartSweep
  <2> DEFINE last == runner.pc = "final"
  <2>1. ReadUnknown(last /\ ~ShouldStop) \in PassRecord
    BY FreshRecords
  <2>2. pass' \in [Passes -> PassRecord]
    BY <1>4, <2>1 DEF StartSweep, TypeOK, ProcessType
  <2>3. runner' \in RunnerRecord /\ runner'.pc \notin Sending
    BY <1>1, <1>2, <1>4 DEF StartSweep, RunnerRecord
  <2>4. QED
    BY <1>4, <2>2, <2>3, Kept DEF StartSweep, TypeOK, ProcessType, database, discord, history
<1>5. CASE EndSweep
  <2>1. pass' \in [Passes -> PassRecord]
    BY <1>5, FreshRecords DEF EndSweep, TypeOK, ProcessType
  <2>2. runner' \in RunnerRecord /\ runner'.pc \notin Sending
    BY <1>1, <1>2, <1>5 DEF EndSweep, RunnerRecord
  <2>3. QED
    BY <1>5, <2>1, <2>2, Kept DEF EndSweep, TypeOK, ProcessType, database, discord, history
<1>6. CASE Judge
  <2> DEFINE s == StillUnknown(runner.slotUnknown[runner.slot])
             j == StillUnknown(runner.jobUnknown)
             q == [runner EXCEPT !.slotUnknown[runner.slot] = s, !.jobUnknown = j]
             r == IF Cardinality(s) >= UnknownThreshold THEN [q EXCEPT !.usable = @ \ {q.slot}] ELSE q
  <2>1. j \subseteq Items /\ (runner.slot \in Tokens => s \subseteq Items)
    BY <1>1 DEF StillUnknown, RunnerRecord
  <2>2. q \in RunnerRecord
    <3> HIDE DEF s, j
    <3>1. QED
      BY <1>1, <2>1 DEF RunnerRecord
  <2>3. r \in RunnerRecord
    <3> HIDE DEF q
    <3>1. QED
      BY <2>2, RunnerWithout
  <2>4. RunnerAs(Break(r, TRUE)) \/ RunnerAs(NextTurn(r))
    BY <1>6 DEF Judge
  <2>5. ProcessType'
    <3> HIDE DEF r
    <3>1. QED
      BY <2>3, <2>4, TurnType
  <2>6. QED
    BY <1>6, <2>5, Kept DEF Judge, TypeOK, database, discord, history
<1>7. CASE Close
  <2>1. ProcessType'
    BY <1>2, <1>7, GoneType DEF Close
  <2>2. QED
    BY <1>7, <2>1, Kept DEF Close, TypeOK, DatabaseType, JobStatus, discord, history
<1>8. CASE WorkerError
  <2>1. ProcessType'
    BY <1>2, <1>8, GoneType DEF WorkerError
  <2>2. QED
    BY <1>8, <2>1, Kept DEF WorkerError, TypeOK, DatabaseType, JobStatus, discord, history
<1>9. CASE Cancel
  <2>1. ProcessType'
    BY <1>2, <1>9, GoneType DEF Cancel
  <2>2. QED
    BY <1>9, <2>1, Kept DEF Cancel, TypeOK, database, discord, history
<1>10. CASE Cancelled
  <2>1. NoRunner("idle") \in RunnerRecord /\ NoRunner("idle").pc \notin Sending
    BY <1>2, FreshRecords DEF NoRunner
  <2>2. ProcessType'
    BY <1>10, <2>1, RunnerAsType DEF Cancelled
  <2>3. QED
    BY <1>10, <2>2, Kept DEF Cancelled, TypeOK, DatabaseType, JobStatus, discord, history
<1>11. QED
  BY <1>3, <1>4, <1>5, <1>6, <1>7, <1>8, <1>9, <1>10

LEMMA PassAsType ==
    ASSUME TypeOK, NEW p \in Passes, NEW r \in PassRecord, PassAs(p, r)
    PROVE  ProcessType'
BY DEF TypeOK, ProcessType, PassAs

\* The steps of a pass.
LEMMA PassType ==
    ASSUME EngineAssumption, TypeOK, NEW p \in Passes, PassStep(p) \/ WaitForGrace
    PROVE  TypeOK'
<1>1. pass[p] \in PassRecord
  BY DEF TypeOK, ProcessType
<1>2. "sweep" \in Passes
  BY DEF Passes
<1>3. CASE Scan(p)
  <2>1. ASSUME NEW n \in 0 .. Len(channel), NEW complete \in BOOLEAN
        PROVE  [pass[p] EXCEPT !.seen = n, !.complete = complete,
                               !.at = IF ScanTakesTime THEN "clock" ELSE "settle"] \in PassRecord
    <3>1. n \in Nat
      BY DEF TypeOK, DiscordType
    <3>2. QED
      BY <1>1, <3>1 DEF PassRecord
  <2>2. ProcessType'
    BY <1>3, <2>1, PassAsType, FreshRecords DEF Scan
  <2>3. QED
    BY <1>3, <2>2, Kept DEF Scan, TypeOK, database, discord, history
<1>4. CASE ReadClock(p)
  <2>1. [pass[p] EXCEPT !.at = "settle"] \in PassRecord
    BY <1>1 DEF PassRecord
  <2>2. QED
    BY <1>4, <2>1, PassAsType, Kept DEF ReadClock, TypeOK, database, discord, history
<1>5. CASE SettleRow(p)
  <2>1. PICK i \in First(pass[p].rows) : RowSucceeds(p, i) \/ RowFails(p, i) \/ RowUnanswered(p, i)
    BY <1>5 DEF SettleRow
  <2>2. i \in Items
    BY <1>1 DEF First, PassRecord
  <2>3. item[i] \in ItemRecord /\ attempt[i] \in AttemptRecord
    BY <2>2 DEF TypeOK, DatabaseType
  <2>4. ASSUME NEW kind, NEW k \in First(Candidates(p, i, kind)) PROVE k \in Nat
    BY <1>1 DEF First, Candidates, PassRecord
  <2>5. ASSUME NEW phase \in {"confirmed", "rejected"}, CloseReadAttempt(p, i, phase)
        PROVE  attempt' \in [Items -> AttemptRecord]
    BY <2>2, <2>3, <2>5 DEF CloseReadAttempt, TypeOK, DatabaseType, AttemptRecord, Phases
  <2>6. CASE RowSucceeds(p, i)
    <3>1. PICK k \in First(Candidates(p, i, "ok")) :
            IF Recorded(i)
            THEN PassAs(p, [NoPass EXCEPT !.at = "failed"]) /\ UNCHANGED <<item, attempt, ledger>>
            ELSE /\ item' = [item EXCEPT ![i].status = "success"]
                 /\ CloseReadAttempt(p, i, "confirmed")
                 /\ ledger' = ledger \cup {[item |-> i, reply |-> k]}
                 /\ NextRow(p, i, {k}, {})
      BY <2>6 DEF RowSucceeds
    <3>2. CASE Recorded(i)
      BY <1>5, <3>1, <3>2, PassAsType, FreshRecords, Kept DEF SettleRow, TypeOK, discord, history
    <3>3. CASE ~Recorded(i)
      <4>1. ProcessType'
        BY <2>2, <2>4, <3>1, <3>3, NextRowType
      <4>2. item' \in [Items -> ItemRecord]
        BY <2>2, <2>3, <3>1, <3>3 DEF TypeOK, DatabaseType, ItemRecord, Terminal
      <4>3. ledger' \subseteq [item : Items, reply : Nat]
        BY <2>2, <2>4, <3>1, <3>3 DEF TypeOK, DatabaseType
      <4>4. QED
        BY <1>5, <2>5, <3>1, <3>3, <4>1, <4>2, <4>3, Kept
           DEF SettleRow, TypeOK, DatabaseType, discord, history
    <3>4. QED
      BY <3>2, <3>3
  <2>7. CASE RowFails(p, i)
    <3>1. PICK k \in First(Candidates(p, i, "no")) :
            /\ item' = [item EXCEPT ![i].status = "failed"]
            /\ CloseReadAttempt(p, i, "rejected")
            /\ NextRow(p, i, {k}, {})
            /\ UNCHANGED ledger
      BY <2>7 DEF RowFails
    <3>2. ProcessType'
      BY <2>2, <2>4, <3>1, NextRowType
    <3>3. item' \in [Items -> ItemRecord]
      BY <2>2, <2>3, <3>1 DEF TypeOK, DatabaseType, ItemRecord, Terminal
    <3>4. QED
      BY <1>5, <2>5, <3>1, <3>2, <3>3, Kept DEF SettleRow, TypeOK, DatabaseType, discord, history
  <2>8. CASE RowUnanswered(p, i)
    <3>1. ProcessType'
      <4>1. \E waiting \in {{}, {i}} : NextRow(p, i, {}, waiting)
        BY <2>8 DEF RowUnanswered
      <4>2. QED
        BY <2>2, <4>1, NextRowType
    <3>2. item' \in [Items -> ItemRecord]
      <4>1. item' = item \/ item' = [item EXCEPT ![i].noReply = TRUE]
        BY <2>8 DEF RowUnanswered
      <4>2. [item[i] EXCEPT !.noReply = TRUE] \in ItemRecord
        BY <2>3 DEF ItemRecord
      <4>3. QED
        BY <2>2, <4>1, <4>2 DEF TypeOK, DatabaseType
    <3>3. QED
      BY <1>5, <2>8, <3>1, <3>2, Kept DEF RowUnanswered, SettleRow, TypeOK, DatabaseType, discord, history
  <2>9. QED
    BY <2>1, <2>6, <2>7, <2>8
<1>6. CASE WaitForGrace
  <2>1. ProcessType'
    BY <1>2, <1>6, PassAsType, FreshRecords DEF WaitForGrace
  <2>2. QED
    BY <1>6, <2>1, Kept DEF WaitForGrace, TypeOK, database, discord, history
<1>7. QED
  BY <1>3, <1>4, <1>5, <1>6 DEF PassStep

\* The operator's requests.
LEMMA OperatorType ==
    ASSUME EngineAssumption, TypeOK,
           \/ PauseJob \/ StopJob \/ StopFinish \/ StartRequest \/ FinishReconcile \/ RetryUnknown
           \/ \E i \in Items : ResolveSuccess(i) \/ ResolvePending(i)
    PROVE  TypeOK'
<1>1. runner \in RunnerRecord
  BY DEF TypeOK, ProcessType
<1>2. CASE PauseJob
  <2>1. [runner EXCEPT !.pauseReq = TRUE] \in RunnerRecord
        /\ [runner EXCEPT !.pauseReq = TRUE].pc = runner.pc
        /\ [runner EXCEPT !.pauseReq = TRUE].cur = runner.cur
    BY <1>1 DEF RunnerRecord
  <2>2. ProcessType'
    BY <1>2, <2>1 DEF PauseJob, RunnerAs, TypeOK, ProcessType
  <2>3. QED
    BY <1>2, <2>2, Kept DEF PauseJob, TypeOK, database, discord, history
<1>3. CASE StopJob
  <2>1. [runner EXCEPT !.stopReq = TRUE] \in RunnerRecord
        /\ [runner EXCEPT !.stopReq = TRUE].pc = runner.pc
        /\ [runner EXCEPT !.stopReq = TRUE].cur = runner.cur
    BY <1>1 DEF RunnerRecord
  <2>2. ProcessType'
    BY <1>3, <2>1 DEF StopJob, TypeOK, ProcessType
  <2>3. QED
    BY <1>3, <2>2, Kept DEF StopJob, TypeOK, DatabaseType, JobStatus, discord, history
<1>4. CASE StopFinish
  BY <1>4, Kept DEF StopFinish, TypeOK, DatabaseType, ProcessType, JobStatus, discord, history
<1>5. CASE StartRequest
  <2>1. pass' \in [Passes -> PassRecord]
    BY <1>5, FreshRecords DEF StartRequest, TypeOK, ProcessType
  <2>2. request' \in [kind : {"none", "reconcile", "retry"}, completed : BOOLEAN]
    <3>1. (job = "completed") \in BOOLEAN
      OBVIOUS
    <3>2. PICK kind \in {"reconcile", "retry"}, b \in BOOLEAN : request' = [kind |-> kind, completed |-> b]
      BY <1>5, <3>1 DEF StartRequest
    <3>3. QED
      BY <3>2
  <2>3. QED
    BY <1>5, <2>1, <2>2, Kept DEF StartRequest, TypeOK, ProcessType, database, discord, history
<1>6. ASSUME EndRequest PROVE ProcessType'
  BY <1>6, FreshRecords DEF EndRequest, TypeOK, ProcessType
<1>7. CASE FinishReconcile
  BY <1>6, <1>7, Kept DEF FinishReconcile, TypeOK, database, discord, history
<1>8. CASE RetryUnknown
  <2>1. ASSUME NEW i \in Items PROVE [item[i] EXCEPT !.status = "pending", !.noReply = FALSE] \in ItemRecord
    BY DEF TypeOK, DatabaseType, ItemRecord, Claimable
  <2>2. item' \in [Items -> ItemRecord]
    BY <1>8, <2>1 DEF RetryUnknown, TypeOK, DatabaseType
  <2>3. retried' \in [Items -> Nat]
    <3>1. ASSUME NEW i \in Items PROVE (IF i \in Reopened THEN retried[i] + 1 ELSE retried[i]) \in Nat
      <4>1. retried[i] \in Nat
        BY DEF TypeOK, HistoryType
      <4>2. QED
        BY <4>1
    <3>2. retried' = [i \in Items |-> IF i \in Reopened THEN retried[i] + 1 ELSE retried[i]]
      BY <1>8 DEF RetryUnknown
    <3>3. QED
      BY <3>1, <3>2
  <2>4. QED
    BY <1>6, <1>8, <2>2, <2>3, Kept DEF RetryUnknown, TypeOK, DatabaseType, HistoryType, JobStatus, discord
<1>9. ASSUME NEW i \in Items, ResolveSuccess(i) PROVE TypeOK'
  <2>1. item' \in [Items -> ItemRecord]
    BY <1>9 DEF ResolveSuccess, TypeOK, DatabaseType, ItemRecord, Terminal
  <2>2. QED
    BY <1>9, <2>1, Kept DEF ResolveSuccess, TypeOK, DatabaseType, discord, process, history
<1>10. ASSUME NEW i \in Items, ResolvePending(i) PROVE TypeOK'
  <2>1. item' \in [Items -> ItemRecord]
    BY <1>10 DEF ResolvePending, TypeOK, DatabaseType, ItemRecord, Claimable
  <2>2. handed' \in [Items -> Nat]
    BY <1>10 DEF ResolvePending, TypeOK, HistoryType
  <2>3. QED
    BY <1>10, <2>1, <2>2, Kept
       DEF ResolvePending, TypeOK, DatabaseType, HistoryType, JobStatus, discord, process
<1>11. QED
  BY <1>2, <1>3, <1>4, <1>5, <1>7, <1>8, <1>9, <1>10

\* A crash, recovery, the bot and time.
LEMMA WorldType ==
    ASSUME EngineAssumption, TypeOK, Crash \/ Recover \/ BotStep
    PROVE  TypeOK'
<1>1. ASSUME NEW pc \in {"idle", "down"} PROVE NoRunner(pc) \in RunnerRecord /\ NoRunner(pc).pc \notin Sending
  BY FreshRecords DEF NoRunner, RunnerAt, Sending
<1>2. CASE Crash
  <2>1. ProcessType'
    BY <1>1, <1>2, FreshRecords DEF Crash, TypeOK, ProcessType
  <2>2. QED
    BY <1>2, <2>1, Kept DEF Crash, TypeOK, database, discord, history
<1>3. CASE Recover
  <2>1. ProcessType'
    BY <1>1, <1>3, RunnerAsType DEF Recover
  <2>2. ASSUME NEW i \in Items
        PROVE  /\ [attempt[i] EXCEPT !.phase = "aborted"] \in AttemptRecord
               /\ [item[i] EXCEPT !.status = Recovered(@)] \in ItemRecord
    BY DEF TypeOK, DatabaseType, AttemptRecord, Phases, ItemRecord, Recovered, Terminal
  <2>3. attempt' \in [Items -> AttemptRecord] /\ item' \in [Items -> ItemRecord]
    BY <1>3, <2>2 DEF Recover, TypeOK, DatabaseType
  <2>4. QED
    BY <1>3, <2>1, <2>3, Kept DEF Recover, TypeOK, DatabaseType, JobStatus, discord, history
<1>4. ASSUME NEW i \in Items, BotReplies(i) PROVE TypeOK'
  <2>1. inflight' \in [Items -> Nat]
    BY <1>4 DEF BotReplies, TypeOK, DiscordType
  <2>2. channel' \in Seq(Reply)
    BY <1>4 DEF BotReplies, TypeOK, DiscordType, Reply, EngineAssumption
  <2>3. QED
    BY <1>4, <2>1, <2>2, Kept DEF BotReplies, TypeOK, DiscordType, database, process, history
<1>5. ASSUME NEW i \in Items, GracePasses(i) PROVE TypeOK'
  <2>1. ASSUME NEW p \in Passes
        PROVE  [pass[p] EXCEPT !.old = IF i \in pass[p].current /\ pass[p].at \in {"scan", "clock"}
                                       THEN @ \cup {i} ELSE @] \in PassRecord
    <3>1. pass[p] \in PassRecord
      BY DEF TypeOK, ProcessType
    <3>2. QED
      BY <3>1 DEF PassRecord
  <2>2. pass' \in [Passes -> PassRecord]
    BY <1>5, <2>1 DEF GracePasses
  <2>3. ProcessType'
    BY <1>5, <2>2 DEF GracePasses, TypeOK, ProcessType
  <2>4. DiscordType'
    BY <1>5 DEF GracePasses, TypeOK, DiscordType
  <2>5. QED
    BY <1>5, <2>3, <2>4, Kept DEF GracePasses, TypeOK, database, history
<1>6. QED
  BY <1>2, <1>3, <1>4, <1>5 DEF BotStep

\* Every step keeps the types.
LEMMA NextType == EngineAssumption /\ TypeOK /\ [Next]_vars => TypeOK'
<1> SUFFICES ASSUME EngineAssumption, TypeOK, [Next]_vars PROVE TypeOK'
  OBVIOUS
<1>1. CASE UNCHANGED vars
  BY <1>1, Kept DEF TypeOK, vars, database, discord, process, history
<1>2. CASE RunnerStep
  BY <1>2, SendType, SettleType, TaskType, PassType DEF RunnerStep, Passes
<1>3. ASSUME NEW p \in Passes, PassStep(p) PROVE TypeOK'
  BY <1>3, PassType
<1>4. CASE OperatorStep
  BY <1>4, OperatorType, TaskType DEF OperatorStep
<1>5. CASE FaultStep
  BY <1>5, TaskType, WorldType DEF FaultStep
<1>6. CASE BotStep
  BY <1>6, WorldType
<1>7. QED
  BY <1>1, <1>2, <1>3, <1>4, <1>5, <1>6 DEF Next

\* Type correctness of the reward engine.
THEOREM TypeCorrect == Spec => []TypeOK
<1>1. Init => TypeOK
  BY InitType, EngineAssumption
<1>2. TypeOK /\ [Next]_vars => TypeOK'
  BY NextType, EngineAssumption
<1>3. QED
  BY <1>1, <1>2, PTL DEF Spec

-----------------------------------------------------------------------------
(* At most once *)

\* A step that leaves the runner outside of Sending, and in the queue only what was unsent.
LEMMA LeavesSending ==
    ASSUME EngineInv, runner'.pc \notin Sending, UNCHANGED <<accepted, handed, retried>>,
           \A i \in Items : Status(i)' \in Claimable => Unsent(i)
    PROVE  SenderOwns' /\ OncePerTurn'
<1>1. SenderOwns'
  BY DEF SenderOwns
<1>2. ASSUME NEW i \in Items
      PROVE  accepted'[i] <= Reopenings(i)' + (IF Unsent(i)' THEN 0 ELSE 1)
  <2>1. Unsent(i)' => Unsent(i)
    BY DEF Unsent, Sending
  <2>2. accepted[i] \in Nat /\ Reopenings(i) \in Nat /\ Reopenings(i)' = Reopenings(i)
    BY DEF EngineInv, TypeOK, DiscordType, HistoryType, Reopenings
  <2>3. accepted[i] <= Reopenings(i) + (IF Unsent(i) THEN 0 ELSE 1)
    BY DEF EngineInv, OncePerTurn
  <2>4. QED
    BY <2>1, <2>2, <2>3
<1>3. QED
  BY <1>1, <1>2 DEF OncePerTurn

\* A step of somebody else: the runner is where it was, and an item keeps its status or is settled.
LEMMA RunnerStays ==
    ASSUME EngineInv, UNCHANGED <<accepted, handed, retried>>,
           runner'.pc = runner.pc, runner'.cur = runner.cur, runner'.obs = runner.obs,
           \A i \in Items : Status(i)' \in {Status(i), "success", "failed"}
    PROVE  SenderOwns' /\ OncePerTurn'
<1>1. runner.pc \in Sending => Cur \in Items
  BY DEF EngineInv, TypeOK, ProcessType, Cur
<1>2. SenderOwns'
  BY <1>1 DEF EngineInv, SenderOwns, Cur
<1>3. ASSUME NEW i \in Items
      PROVE  accepted'[i] <= Reopenings(i)' + (IF Unsent(i)' THEN 0 ELSE 1)
  <2>1. Unsent(i)' => Unsent(i)
    BY DEF Unsent, Claimable, Cur
  <2>2. accepted[i] \in Nat /\ Reopenings(i) \in Nat /\ Reopenings(i)' = Reopenings(i)
    BY DEF EngineInv, TypeOK, DiscordType, HistoryType, Reopenings
  <2>3. accepted[i] <= Reopenings(i) + (IF Unsent(i) THEN 0 ELSE 1)
    BY DEF EngineInv, OncePerTurn
  <2>4. QED
    BY <2>1, <2>2, <2>3
<1>4. QED
  BY <1>2, <1>3 DEF OncePerTurn

\* The runner takes up an item or sends it.
LEMMA SendsOnce ==
    ASSUME EngineAssumption, EngineInv, ClaimNext \/ Invoke \/ MarkSent
    PROVE  SenderOwns' /\ OncePerTurn'
<1>1. TypeOK /\ SenderOwns /\ OncePerTurn
  BY DEF EngineInv
<1>2. \A i \in Items : accepted[i] \in Nat /\ Reopenings(i) \in Nat
  BY <1>1 DEF TypeOK, DiscordType, HistoryType, Reopenings
<1>3. runner \in RunnerRecord
  BY <1>1 DEF TypeOK, ProcessType
<1>4. ASSUME ClaimNext, runner'.pc # "exec" PROVE SenderOwns' /\ OncePerTurn'
  <2>1. RunnerAs(Break(runner, FALSE)) /\ UNCHANGED <<database, discord, history>>
    BY <1>3, <1>4 DEF ClaimNext, RunnerRecord
  <2>2. runner'.pc = "final"
    BY <1>3, <2>1 DEF RunnerAs, Break, NextTurn, RunnerRecord
  <2>3. QED
    BY <2>1, <2>2, LeavesSending DEF database, discord, history, Sending, Status, Unsent
<1>5. ASSUME ClaimNext, runner'.pc = "exec" PROVE SenderOwns' /\ OncePerTurn'
  <2>1. runner.pc = "claim"
    BY <1>5 DEF ClaimNext
  <2>2. PICK i \in Items :
          /\ Status(i) \in Claimable
          /\ item' = [item EXCEPT ![i].status = "processing", ![i].tries = @ + 1]
          /\ runner' = [runner EXCEPT !.cur = i, !.pc = "exec"]
          /\ UNCHANGED <<accepted, handed, retried>>
    <3>1. Break(runner, FALSE).pc # "exec"
      BY <1>3 DEF Break, NextTurn, RunnerRecord
    <3>2. QED
      BY <1>5, <3>1 DEF ClaimNext, First, RunnerAs, history
  <2>3. Status(i)' = "processing" /\ \A j \in Items \ {i} : Status(j)' = Status(j)
    BY <1>1, <2>2 DEF TypeOK, DatabaseType, ItemRecord, Status
  <2>4. runner'.cur = i /\ runner'.pc = "exec"
    BY <1>3, <2>2 DEF RunnerRecord
  <2>5. SenderOwns'
    BY <2>3, <2>4 DEF SenderOwns, Cur
  <2>6. ASSUME NEW j \in Items PROVE (Unsent(j)' <=> Unsent(j)) /\ Reopenings(j)' = Reopenings(j)
    BY <2>1, <2>2, <2>3, <2>4 DEF Unsent, Cur, Reopenings, Claimable
  <2>7. QED
    BY <1>1, <2>2, <2>5, <2>6 DEF OncePerTurn
<1>6. CASE Invoke
  <2>1. Cur \in Items /\ runner.pc = "exec"
    BY <1>1, <1>6 DEF Invoke, Cur, TypeOK, ProcessType, Sending
  <2>2. PICK outcome \in Outcomes, anchor \in {0, Len(channel)} : \E executed \in Reaches(outcome) :
          /\ accepted' = IF executed THEN [accepted EXCEPT ![Cur] = @ + 1] ELSE accepted
          /\ RunnerAs([Settled(runner) EXCEPT
                !.obs = [outcome |-> outcome, sentAt |-> Len(channel), anchor |-> anchor],
                !.pc  = IF outcome = "invoked" THEN "mark" ELSE "settle"])
    BY <1>6 DEF Invoke
  <2>3. UNCHANGED <<item, handed, retried>>
    BY <1>6 DEF Invoke, database, history
  <2>4. /\ runner'.cur = Cur
        /\ runner'.pc = IF outcome = "invoked" THEN "mark" ELSE "settle"
        /\ runner'.obs.outcome = outcome
    BY <1>3, <2>2 DEF RunnerAs, Settled, Cur, RunnerRecord
  <2>5. SenderOwns'
    BY <1>1, <2>1, <2>3, <2>4 DEF SenderOwns, Sending, Cur, Status
  <2>6. Status(Cur) \notin Claimable
    BY <1>1, <2>1 DEF SenderOwns, Sending, Claimable
  <2>7. accepted[Cur] <= Reopenings(Cur)
    BY <1>1, <1>2, <2>1 DEF OncePerTurn, Unsent
  <2>8. ASSUME NEW j \in Items
        PROVE  accepted'[j] <= Reopenings(j)' + (IF Unsent(j)' THEN 0 ELSE 1)
    <3>1. Reopenings(j)' = Reopenings(j) /\ Reopenings(j) \in Nat /\ accepted[j] \in Nat
      BY <1>2, <2>3 DEF Reopenings
    <3>2. CASE j # Cur
      <4>1. accepted'[j] = accepted[j]
        BY <2>1, <2>2, <3>2, <1>1 DEF TypeOK, DiscordType
      <4>2. Unsent(j)' <=> Unsent(j)
        BY <2>3, <2>4, <3>2 DEF Unsent, Cur, Status
      <4>3. QED
        BY <1>1, <3>1, <4>1, <4>2 DEF OncePerTurn
    <3>3. CASE j = Cur /\ outcome \in {"invoked", "unsure"}
      <4>1. accepted'[j] <= accepted[j] + 1
        BY <1>1, <1>2, <2>1, <2>2, <3>3 DEF TypeOK, DiscordType
      <4>2. ~Unsent(j)'
        BY <2>3, <2>4, <2>6, <3>3 DEF Unsent, Status
      <4>3. accepted'[j] \in Nat
        BY <1>1, <1>2, <2>1, <2>2, <3>3 DEF TypeOK, DiscordType
      <4>4. QED
        BY <2>7, <3>1, <3>3, <4>1, <4>2, <4>3
    <3>4. CASE j = Cur /\ outcome \notin {"invoked", "unsure"}
      <4>1. accepted' = accepted
        BY <2>2, <3>4 DEF Reaches, Outcomes
      <4>2. QED
        BY <2>7, <3>1, <3>4, <4>1
    <3>5. QED
      BY <3>2, <3>3, <3>4
  <2>9. QED
    BY <2>5, <2>8 DEF OncePerTurn
<1>7. CASE MarkSent
  <2>1. Cur \in Items /\ runner.pc = "mark"
    BY <1>1, <1>7 DEF MarkSent, Cur, TypeOK, ProcessType, Sending
  <2>2. runner'.pc = "confirm" /\ runner'.cur = Cur
    BY <1>3, <1>7 DEF MarkSent, RunnerAs, Cur, RunnerRecord
  <2>3. UNCHANGED <<item, accepted, handed, retried>>
    BY <1>7 DEF MarkSent, discord, history
  <2>4. SenderOwns'
    BY <1>1, <2>1, <2>2, <2>3 DEF SenderOwns, Sending, Cur, Status
  <2>5. ASSUME NEW j \in Items PROVE (Unsent(j)' <=> Unsent(j)) /\ Reopenings(j)' = Reopenings(j)
    BY <2>1, <2>2, <2>3 DEF Unsent, Status, Reopenings, Cur
  <2>6. QED
    BY <1>1, <2>3, <2>4, <2>5 DEF OncePerTurn
<1>8. QED
  BY <1>4, <1>5, <1>6, <1>7

\* An operator who puts an item back lengthens its allowance by one.
LEMMA ReopensOnce ==
    ASSUME EngineInv, RetryUnknown \/ \E i \in Items : ResolvePending(i)
    PROVE  SenderOwns' /\ OncePerTurn'
<1>1. TypeOK /\ SenderOwns /\ OncePerTurn
  BY DEF EngineInv
<1>2. runner' = runner /\ accepted' = accepted
  BY DEF RetryUnknown, ResolvePending, EndRequest, discord, process
<1>3. ASSUME NEW j \in Items
      PROVE  \/ Status(j)' = Status(j) /\ Reopenings(j)' = Reopenings(j)
             \/ Status(j) = "unknown" /\ Reopenings(j)' = Reopenings(j) + 1
  <2>0. handed[j] \in Nat /\ retried[j] \in Nat
    BY <1>1 DEF TypeOK, HistoryType
  <2>1. CASE RetryUnknown
    <3>1. CASE j \in Reopened
      <4>1. retried'[j] = retried[j] + 1 /\ handed' = handed
        BY <2>1, <3>1 DEF RetryUnknown
      <4>2. QED
        BY <2>0, <3>1, <4>1 DEF Reopened, Reopenings
    <3>2. CASE j \notin Reopened
      BY <2>1, <3>2 DEF RetryUnknown, Reopenings, Status
    <3>3. QED
      BY <3>1, <3>2
  <2>2. ASSUME NEW i \in Items, ResolvePending(i)
        PROVE  \/ Status(j)' = Status(j) /\ Reopenings(j)' = Reopenings(j)
               \/ Status(j) = "unknown" /\ Reopenings(j)' = Reopenings(j) + 1
    <3>1. CASE j = i
      <4>1. handed'[j] = handed[j] + 1 /\ retried' = retried
        BY <1>1, <2>2, <3>1 DEF ResolvePending, TypeOK, HistoryType
      <4>2. QED
        BY <2>0, <2>2, <3>1, <4>1 DEF ResolvePending, Reopenings
    <3>2. CASE j # i
      BY <1>1, <2>2, <3>2 DEF ResolvePending, Reopenings, Status, TypeOK, DatabaseType, HistoryType
    <3>3. QED
      BY <3>1, <3>2
  <2>3. QED
    BY <2>1, <2>2
<1>4. SenderOwns'
  <2>1. runner.pc \in Sending => Cur \in Items
    BY <1>1 DEF TypeOK, ProcessType, Cur
  <2>2. QED
    BY <1>1, <1>2, <1>3, <2>1 DEF SenderOwns, Cur
<1>5. ASSUME NEW j \in Items
      PROVE  accepted'[j] <= Reopenings(j)' + (IF Unsent(j)' THEN 0 ELSE 1)
  <2>1. accepted[j] \in Nat /\ Reopenings(j) \in Nat
    BY <1>1 DEF TypeOK, DiscordType, HistoryType, Reopenings
  <2>2. accepted[j] <= Reopenings(j) + (IF Unsent(j) THEN 0 ELSE 1)
    BY <1>1 DEF OncePerTurn
  <2>3. CASE Status(j)' = Status(j) /\ Reopenings(j)' = Reopenings(j)
    <3>1. Unsent(j)' <=> Unsent(j)
      BY <1>2, <2>3 DEF Unsent, Cur
    <3>2. QED
      BY <1>2, <2>2, <2>3, <3>1
  <2>4. CASE Reopenings(j)' = Reopenings(j) + 1
    BY <1>2, <2>1, <2>2, <2>4
  <2>5. QED
    BY <1>3, <2>3, <2>4
<1>6. QED
  BY <1>4, <1>5 DEF OncePerTurn

\* The item the runner settles was unsent if its settlement puts it back in the queue.
LEMMA SettlesOnce ==
    ASSUME EngineInv,
           \/ SessionError \/ FailBeforeSend \/ ConfirmSuccess \/ ConfirmFailed \/ ConfirmUnknown
           \/ SettleError
    PROVE  SenderOwns' /\ OncePerTurn'
<1>1. runner \in RunnerRecord
  BY DEF EngineInv, TypeOK, ProcessType
<1>2. Cur \in Items
  BY DEF EngineInv, TypeOK, ProcessType, Sending, Cur, SessionError, FailBeforeSend, ConfirmSuccess,
         ConfirmFailed, ConfirmUnknown, SettleError
<1>3. ASSUME NEW r \in RunnerRecord, NEW b \in BOOLEAN
      PROVE  NextTurn(r).pc \notin Sending /\ Break(r, b).pc \notin Sending /\ StreakLonger(r).pc \notin Sending
  BY <1>3 DEF NextTurn, Break, StreakLonger, RunnerRecord, Sending
<1>4. ASSUME NEW status \in Terminal, MoveItem(status) \/ ResolveItemTo(status)
      PROVE  \A i \in Items : Status(i)' \in Claimable => Unsent(i)
  BY <1>2, <1>4 DEF MoveItem, ResolveItemTo, Status, Unsent, Terminal, Claimable, EngineInv, TypeOK,
                    DatabaseType, ItemRecord
<1>5. ASSUME Requeue \/ MoveItem("retrying"), Unsent(Cur)
      PROVE  \A i \in Items : Status(i)' \in Claimable => Unsent(i)
  <2>1. \A i \in Items \ {Cur} : Status(i)' = Status(i)
    BY <1>2, <1>5 DEF Requeue, MoveItem, Status, EngineInv, TypeOK, DatabaseType
  <2>2. QED
    BY <1>5, <2>1 DEF Unsent
<1>6. UNCHANGED <<accepted, handed, retried>>
  BY DEF SessionError, FailBeforeSend, ConfirmSuccess, ConfirmFailed, ConfirmUnknown, SettleError,
         discord, history
<1>7. runner'.pc \notin Sending
  <2>1. CASE SessionError
    <3> DEFINE r == [runner EXCEPT !.failures[runner.slot] = @ + 1]
               gone == r.failures[r.slot] >= MaxSessionFailures
               q == IF gone THEN [r EXCEPT !.usable = @ \ {r.slot}] ELSE r
    <3>1. r \in RunnerRecord
      BY <1>1 DEF RunnerRecord
    <3>2. q \in RunnerRecord
      <4> HIDE DEF r
      <4>1. QED
        BY <3>1, RunnerWithout
    <3>3. RunnerAs(Break(q, TRUE)) \/ RunnerAs(NextTurn(q))
      BY <2>1 DEF SessionError
    <3> HIDE DEF q
    <3>4. QED
      BY <1>3, <3>2, <3>3 DEF RunnerAs
  <2>2. CASE FailBeforeSend
    BY <1>1, <1>3, <2>2, RunnerRecords DEF FailBeforeSend, RunnerAs
  <2>3. CASE ConfirmSuccess
    <3>1. CASE Recorded(Cur)
      BY <2>3, <3>1 DEF ConfirmSuccess, RunnerGone, NoRunner, Sending
    <3>2. CASE ~Recorded(Cur)
      BY <1>1, <1>3, <2>3, <3>2, RunnerRecords DEF ConfirmSuccess, RunnerAs
    <3>3. QED
      BY <3>1, <3>2
  <2>4. CASE ConfirmFailed
    BY <1>1, <1>3, <2>4, RunnerRecords DEF ConfirmFailed, RunnerAs
  <2>5. CASE ConfirmUnknown
    BY <1>1, <1>3, <2>5 DEF ConfirmUnknown, RunnerAs
  <2>6. CASE SettleError
    <3> DEFINE rest == [runner EXCEPT !.usable = @ \ {runner.slot}]
    <3>1. rest \in RunnerRecord
      BY <1>1, RunnerWithout
    <3>2. StreakCleared(runner) \in RunnerRecord
      BY <1>1, RunnerRecords
    <3>3. \/ RunnerAs(NextTurn(rest)) \/ RunnerAs(Break(rest, TRUE)) \/ RunnerAs(NextTurn(runner))
          \/ RunnerAs(NextTurn(StreakCleared(runner))) \/ RunnerAs(StreakLonger(runner))
      BY <2>6 DEF SettleError
    <3> HIDE DEF rest
    <3>4. QED
      BY <1>1, <1>3, <3>1, <3>2, <3>3 DEF RunnerAs
  <2>7. QED
    BY <2>1, <2>2, <2>3, <2>4, <2>5, <2>6
<1>8. \A i \in Items : Status(i)' \in Claimable => Unsent(i)
  <2>1. CASE SessionError
    BY <1>5, <2>1 DEF SessionError, Unsent
  <2>2. CASE FailBeforeSend
    BY <1>4, <2>2 DEF FailBeforeSend, Terminal
  <2>3. CASE ConfirmSuccess
    BY <1>4, <2>3 DEF ConfirmSuccess, Terminal, Status, Unsent
  <2>4. CASE ConfirmFailed
    BY <1>4, <2>4 DEF ConfirmFailed, Terminal
  <2>5. CASE ConfirmUnknown
    BY <1>4, <2>5 DEF ConfirmUnknown, Terminal
  <2>6. CASE SettleError
    <3>1. \/ (Requeue \/ MoveItem("retrying")) /\ runner.obs.outcome # "unsure"
          \/ MoveItem("failed") \/ ResolveItemTo("unknown")
      BY <2>6 DEF SettleError, Retryable
    <3>2. runner.pc = "settle"
      BY <2>6 DEF SettleError, Retryable
    <3>3. QED
      BY <1>4, <1>5, <3>1, <3>2 DEF Unsent, Terminal
  <2>7. QED
    BY <2>1, <2>2, <2>3, <2>4, <2>5, <2>6
<1>9. QED
  BY <1>6, <1>7, <1>8, LeavesSending

\* A pass settles a row as a success or a failure, or leaves its status alone.
LEMMA PassesSettle ==
    ASSUME TypeOK, NEW p \in Passes, SettleRow(p), NEW i \in Items
    PROVE  Status(i)' \in {Status(i), "success", "failed"}
<1>1. PICK j \in First(pass[p].rows) : RowSucceeds(p, j) \/ RowFails(p, j) \/ RowUnanswered(p, j)
  BY DEF SettleRow
<1>2. j \in Items
  BY DEF First, TypeOK, ProcessType, PassRecord
<1>3. \/ item' = item
      \/ item' = [item EXCEPT ![j].status = "success"]
      \/ item' = [item EXCEPT ![j].status = "failed"]
      \/ item' = [item EXCEPT ![j].noReply = TRUE]
  BY <1>1 DEF RowSucceeds, RowFails, RowUnanswered
<1>4. item \in [Items -> ItemRecord] /\ item[j] \in ItemRecord
  BY <1>2 DEF TypeOK, DatabaseType
<1>5. CASE i = j
  BY <1>2, <1>3, <1>4, <1>5 DEF Status, ItemRecord
<1>6. CASE i # j
  <2>1. item'[i] = item[i]
    BY <1>2, <1>3, <1>4, <1>6
  <2>2. QED
    BY <2>1 DEF Status
<1>7. QED
  BY <1>5, <1>6

\* The invariant is inductive.
LEMMA EngineInvStep == EngineAssumption /\ EngineInv /\ [Next]_vars => EngineInv'
<1> SUFFICES ASSUME EngineAssumption, EngineInv, [Next]_vars PROVE SenderOwns' /\ OncePerTurn'
  BY NextType DEF EngineInv
<1>1. TypeOK /\ runner \in RunnerRecord
  BY DEF EngineInv, TypeOK, ProcessType
<1>2. CASE UNCHANGED vars
  BY <1>2, RunnerStays DEF vars, database, discord, process, history, Status
<1>3. ASSUME UNCHANGED <<item, accepted, handed, retried>>, runner'.pc \notin Sending
      PROVE  SenderOwns' /\ OncePerTurn'
  BY <1>3, LeavesSending DEF Status, Unsent
<1>4. ASSUME UNCHANGED <<item, accepted, handed, retried>>,
             runner'.pc = runner.pc, runner'.cur = runner.cur, runner'.obs = runner.obs
      PROVE  SenderOwns' /\ OncePerTurn'
  BY <1>4, RunnerStays DEF Status
<1>5. CASE RunnerStep
  <2>1. CASE AcquireToken
    <3>1. UNCHANGED <<item, accepted, handed, retried>>
      BY <2>1 DEF AcquireToken, database, discord, history
    <3>2. runner'.pc \notin Sending
      BY <1>1, <2>1, TurnBegins DEF Sending
    <3>3. QED
      BY <1>3, <3>1, <3>2
  <2>2. CASE CheckRoleAndCredential
    <3>1. UNCHANGED <<item, accepted, handed, retried>>
      BY <2>2 DEF CheckRoleAndCredential, database, discord, history
    <3>2. runner'.pc \notin Sending
      BY <1>1, <2>2, TurnBegins DEF Sending
    <3>3. QED
      BY <1>3, <3>1, <3>2
  <2>3. CASE StartSweep \/ EndSweep
    BY <1>1, <1>3, <2>3 DEF StartSweep, EndSweep, database, discord, history, RunnerRecord, Sending
  <2>4. CASE WaitForGrace
    BY <1>4, <2>4 DEF WaitForGrace, PassAs, database, discord, history
  <2>5. CASE Judge
    <3>1. runner'.pc \notin Sending
      BY <1>1, <2>5 DEF Judge, RunnerAs, Break, NextTurn, RunnerRecord, Sending
    <3>2. QED
      BY <1>3, <2>5, <3>1 DEF Judge, database, discord, history
  <2>6. CASE Close \/ Cancelled
    BY <1>3, <2>6 DEF Close, Cancelled, RunnerGone, RunnerAs, NoRunner, discord, history, Sending
  <2>7. QED
    BY <1>5, <2>1, <2>2, <2>3, <2>4, <2>5, <2>6, SendsOnce, SettlesOnce DEF RunnerStep
<1>6. ASSUME NEW p \in Passes, PassStep(p) PROVE SenderOwns' /\ OncePerTurn'
  <2>1. UNCHANGED <<runner, accepted, handed, retried>>
    BY <1>6 DEF PassStep, Scan, ReadClock, SettleRow, RowSucceeds, RowFails, RowUnanswered, NextRow, PassAs,
                discord, history
  <2>2. \A i \in Items : Status(i)' \in {Status(i), "success", "failed"}
    <3>1. CASE Scan(p) \/ ReadClock(p)
      BY <3>1 DEF Scan, ReadClock, database, Status
    <3>2. QED
      BY <1>1, <1>6, <3>1, PassesSettle DEF PassStep
  <2>3. QED
    BY <2>1, <2>2, RunnerStays
<1>7. CASE OperatorStep
  <2>1. CASE RunJob
    BY <1>1, <1>3, <2>1 DEF RunJob, RunnerAs, NoRunner, discord, history, Sending
  <2>2. CASE PauseJob
    BY <1>1, <1>4, <2>2 DEF PauseJob, RunnerAs, RunnerRecord, database, discord, history
  <2>3. CASE StopJob
    BY <1>1, <1>4, <2>3 DEF StopJob, RunnerRecord, discord, history
  <2>4. CASE StopFinish \/ StartRequest \/ FinishReconcile
    BY <1>4, <2>4 DEF StopFinish, StartRequest, FinishReconcile, EndRequest, database, discord, history
  <2>5. ASSUME NEW i \in Items, ResolveSuccess(i) PROVE SenderOwns' /\ OncePerTurn'
    <3>1. \A j \in Items : Status(j)' \in {Status(j), "success", "failed"}
      BY <1>1, <2>5 DEF ResolveSuccess, Status, TypeOK, DatabaseType, ItemRecord
    <3>2. QED
      BY <2>5, <3>1, RunnerStays DEF ResolveSuccess, discord, process, history
  <2>6. QED
    BY <1>7, <2>1, <2>2, <2>3, <2>4, <2>5, ReopensOnce DEF OperatorStep
<1>8. CASE FaultStep
  <2>1. CASE WorkerError \/ Cancel \/ Crash
    BY <1>3, <2>1 DEF WorkerError, Cancel, Crash, RunnerGone, NoRunner, database, discord, history, Sending
  <2>2. CASE Recover
    <3>1. runner'.pc \notin Sending /\ UNCHANGED <<accepted, handed, retried>>
      BY <2>2 DEF Recover, RunnerAs, NoRunner, Sending, discord, history
    <3>2. ASSUME NEW i \in Items, Status(i)' \in Claimable PROVE Unsent(i)
      BY <1>1, <2>2, <3>2 DEF Recover, Recovered, Status, Terminal, Claimable, Unsent, TypeOK, DatabaseType,
                              ItemRecord
    <3>3. QED
      BY <3>1, <3>2, LeavesSending
  <2>3. QED
    BY <1>8, <2>1, <2>2 DEF FaultStep
<1>9. CASE BotStep
  BY <1>4, <1>9 DEF BotStep, BotReplies, GracePasses, database, process, history
<1>10. QED
  BY <1>2, <1>5, <1>6, <1>7, <1>8, <1>9 DEF Next

LEMMA EngineInvInit == EngineAssumption /\ Init => EngineInv
<1> SUFFICES ASSUME EngineAssumption, Init PROVE SenderOwns /\ OncePerTurn
  BY InitType DEF EngineInv
<1>1. SenderOwns
  BY DEF Init, SenderOwns, Sending, NoRunner
<1>2. OncePerTurn
  BY DEF Init, OncePerTurn, Unsent, Status, Claimable, Reopenings
<1>3. QED
  BY <1>1, <1>2

\* A command is executed once per turn, however the runner, the passes, the operators and the crashes
\* interleave.
THEOREM SentAtMostOnce == Spec => []AtMostOnce
<1>1. Init => EngineInv
  BY EngineInvInit, EngineAssumption
<1>2. EngineInv /\ [Next]_vars => EngineInv'
  BY EngineInvStep, EngineAssumption
<1>3. EngineInv => AtMostOnce
  <2>1. ASSUME EngineInv, NEW i \in Items PROVE accepted[i] <= 1 + Reopenings(i)
    <3>1. accepted[i] \in Nat /\ Reopenings(i) \in Nat
      BY <2>1 DEF EngineInv, TypeOK, DiscordType, HistoryType, Reopenings
    <3>2. accepted[i] <= Reopenings(i) + (IF Unsent(i) THEN 0 ELSE 1)
      BY <2>1 DEF EngineInv, OncePerTurn
    <3>3. QED
      BY <3>1, <3>2
  <2>2. QED
    BY <2>1 DEF AtMostOnce
<1>4. QED
  BY <1>1, <1>2, <1>3, PTL DEF Spec

-----------------------------------------------------------------------------
(* A running job has a task *)

LEMMA RunningStep == TypeOK /\ RunningHasTask /\ [Next]_vars => RunningHasTask'
<1> SUFFICES ASSUME TypeOK, RunningHasTask, [Next]_vars PROVE RunningHasTask'
  OBVIOUS
<1>1. runner \in RunnerRecord
  BY DEF TypeOK, ProcessType
<1>2. ASSUME job' = job, runner'.pc = runner.pc \/ runner'.pc # "idle" PROVE RunningHasTask'
  BY <1>2 DEF RunningHasTask
<1>3. ASSUME job' # "running" PROVE RunningHasTask'
  BY <1>3 DEF RunningHasTask
<1>4. ASSUME NEW r \in RunnerRecord, NEW b \in BOOLEAN
      PROVE  NextTurn(r).pc # "idle" /\ Break(r, b).pc # "idle" /\ StreakLonger(r).pc # "idle"
  BY <1>4 DEF NextTurn, Break, StreakLonger, RunnerRecord
<1>5. CASE UNCHANGED vars
  BY <1>2, <1>5 DEF vars, database, process
<1>6. CASE RunnerStep
  <2>1. CASE AcquireToken \/ CheckRoleAndCredential
    BY <1>1, <1>2, <2>1 DEF AcquireToken, CheckRoleAndCredential, RunnerAs, Break, NextTurn, RunnerRecord, database
  <2>2. CASE ClaimNext
    BY <1>1, <1>2, <2>2 DEF ClaimNext, RunnerAs, Break, NextTurn, RunnerRecord, database
  <2>3. CASE SessionError
    <3>1. runner'.pc # "idle"
      BY <1>1, <2>3 DEF SessionError, RunnerAs, Break, NextTurn, RunnerRecord
    <3>2. QED
      BY <1>2, <2>3, <3>1 DEF SessionError
  <2>4. CASE FailBeforeSend \/ ConfirmFailed
    BY <1>1, <1>2, <1>4, <2>4, RunnerRecords DEF FailBeforeSend, ConfirmFailed, RunnerAs
  <2>5. CASE Invoke \/ MarkSent
    BY <1>1, <1>2, <2>5 DEF Invoke, MarkSent, RunnerAs, Settled, RunnerRecord, database
  <2>6. CASE ConfirmSuccess
    <3>1. CASE Recorded(Cur)
      BY <1>3, <2>6, <3>1 DEF ConfirmSuccess
    <3>2. CASE ~Recorded(Cur)
      BY <1>1, <1>2, <1>4, <2>6, <3>2, RunnerRecords DEF ConfirmSuccess, RunnerAs
    <3>3. QED
      BY <3>1, <3>2
  <2>7. CASE ConfirmUnknown
    BY <1>1, <1>2, <1>4, <2>7 DEF ConfirmUnknown, RunnerAs
  <2>8. CASE SettleError
    <3> DEFINE rest == [runner EXCEPT !.usable = @ \ {runner.slot}]
    <3>1. rest \in RunnerRecord /\ StreakCleared(runner) \in RunnerRecord
      BY <1>1, RunnerWithout, RunnerRecords
    <3>2. \/ RunnerAs(NextTurn(rest)) \/ RunnerAs(Break(rest, TRUE)) \/ RunnerAs(NextTurn(runner))
          \/ RunnerAs(NextTurn(StreakCleared(runner))) \/ RunnerAs(StreakLonger(runner))
      BY <2>8 DEF SettleError
    <3>3. runner'.pc # "idle"
      <4> HIDE DEF rest
      <4>1. QED
        BY <1>1, <1>4, <3>1, <3>2 DEF RunnerAs
    <3>4. QED
      BY <1>2, <2>8, <3>3 DEF SettleError
  <2>9. CASE StartSweep \/ EndSweep \/ WaitForGrace
    BY <1>1, <1>2, <2>9 DEF StartSweep, EndSweep, WaitForGrace, PassAs, RunnerRecord, database
  <2>10. CASE Judge
    <3>1. runner'.pc # "idle"
      BY <1>1, <2>10 DEF Judge, RunnerAs, Break, NextTurn, RunnerRecord
    <3>2. QED
      BY <1>2, <2>10, <3>1 DEF Judge, database
  <2>11. CASE Close \/ Cancelled
    BY <1>3, <2>11 DEF Close, Cancelled
  <2>12. QED
    BY <1>6, <2>1, <2>2, <2>3, <2>4, <2>5, <2>6, <2>7, <2>8, <2>9, <2>10, <2>11 DEF RunnerStep
<1>7. ASSUME NEW p \in Passes, PassStep(p) PROVE RunningHasTask'
  BY <1>2, <1>7 DEF PassStep, Scan, ReadClock, SettleRow, RowSucceeds, RowFails, RowUnanswered, NextRow,
                    PassAs, database
<1>8. CASE OperatorStep
  <2>1. CASE RunJob
    BY <1>1, <2>1 DEF RunJob, RunnerAs, NoRunner, RunningHasTask
  <2>2. CASE PauseJob
    BY <1>1, <1>2, <2>2 DEF PauseJob, RunnerAs, RunnerRecord, database
  <2>3. CASE StopJob
    BY <1>1, <1>2, <1>3, <2>3 DEF StopJob, RunnerRecord
  <2>4. CASE StopFinish
    BY <1>3, <2>4 DEF StopFinish
  <2>5. CASE StartRequest \/ FinishReconcile
    BY <1>2, <2>5 DEF StartRequest, FinishReconcile, EndRequest, database
  <2>6. CASE RetryUnknown
    BY <1>2, <1>3, <2>6 DEF RetryUnknown, EndRequest
  <2>7. ASSUME NEW i \in Items, ResolveSuccess(i) \/ ResolvePending(i) PROVE RunningHasTask'
    BY <1>2, <1>3, <2>7 DEF ResolveSuccess, ResolvePending, process
  <2>8. QED
    BY <1>8, <2>1, <2>2, <2>3, <2>4, <2>5, <2>6, <2>7 DEF OperatorStep
<1>9. CASE FaultStep
  <2>1. CASE WorkerError
    BY <1>3, <2>1 DEF WorkerError
  <2>2. CASE Cancel \/ Crash
    BY <1>2, <2>2 DEF Cancel, Crash, RunnerGone, NoRunner, database
  <2>3. CASE Recover
    BY <1>3, <2>3 DEF Recover
  <2>4. QED
    BY <1>9, <2>1, <2>2, <2>3 DEF FaultStep
<1>10. CASE BotStep
  BY <1>2, <1>10 DEF BotStep, BotReplies, GracePasses, database, process
<1>11. QED
  BY <1>5, <1>6, <1>7, <1>8, <1>9, <1>10 DEF Next

\* No error, cancellation, crash or request leaves a job running that nobody works on.
THEOREM RunningJobHasTask == Spec => []RunningHasTask
<1>1. Init => RunningHasTask
  BY DEF Init, RunningHasTask
<1>2. TypeOK /\ RunningHasTask /\ [Next]_vars => RunningHasTask'
  BY RunningStep
<1>3. QED
  BY <1>1, <1>2, TypeCorrect, PTL DEF Spec

-----------------------------------------------------------------------------
(* The write-ahead claim is kept *)

LEMMA ClaimKept ==
    ASSUME TypeOK, [Next]_vars, NEW i \in Items, Status(i) = "processing"
    PROVE  item'[i].status # "pending"
<1>1. item \in [Items -> ItemRecord] /\ item[i] \in ItemRecord /\ item[i].status = "processing"
  BY DEF TypeOK, DatabaseType, Status
<1>2. ASSUME item' = item PROVE item'[i].status # "pending"
  BY <1>1, <1>2
\* One item changes, and its new status is not `pending'.
<1>3. ASSUME NEW j \in Items, NEW row, item' = [item EXCEPT ![j] = row], row.status # "pending"
      PROVE  item'[i].status # "pending"
  BY <1>1, <1>3
<1>4. ASSUME NEW j \in Items, NEW status, item' = [item EXCEPT ![j].status = status], status # "pending"
      PROVE  item'[i].status # "pending"
  <2>1. [item[j] EXCEPT !.status = status].status # "pending"
    BY <1>1, <1>4 DEF ItemRecord
  <2>2. QED
    BY <1>3, <1>4, <2>1
<1>5. ASSUME Cur \in Items, NEW status, MoveItem(status) \/ ResolveItemTo(status), status # "pending"
      PROVE  item'[i].status # "pending"
  <2>1. CASE MoveItem(status)
    BY <1>4, <1>5, <2>1 DEF MoveItem
  <2>2. CASE ResolveItemTo(status)
    <3> DEFINE row == [item[Cur] EXCEPT !.status = status, !.resolved = TRUE]
    <3>1. item' = [item EXCEPT ![Cur] = row]
      BY <1>1, <1>5, <2>2 DEF ResolveItemTo
    <3>2. row.status = status
      BY <1>1, <1>5 DEF ItemRecord
    <3> HIDE DEF row
    <3>3. QED
      BY <1>3, <1>5, <3>1, <3>2
  <2>3. QED
    BY <1>5, <2>1, <2>2
<1>6. ASSUME Cur \in Items, Requeue PROVE item'[i].status # "pending"
  BY <1>1, <1>6 DEF Requeue, ItemRecord
<1>7. runner.pc \in Sending => Cur \in Items
  BY DEF TypeOK, ProcessType, Cur
<1>8. CASE UNCHANGED vars
  BY <1>2, <1>8 DEF vars, database
<1>9. CASE RunnerStep
  <2>1. CASE AcquireToken \/ CheckRoleAndCredential \/ Invoke \/ MarkSent \/ StartSweep \/ EndSweep
             \/ WaitForGrace \/ Judge \/ Close \/ Cancelled
    BY <1>2, <2>1 DEF AcquireToken, CheckRoleAndCredential, Invoke, MarkSent, StartSweep, EndSweep,
                      WaitForGrace, Judge, Close, Cancelled, database
  <2>2. CASE ClaimNext
    <3>1. ASSUME NEW j \in Items, item' = [item EXCEPT ![j].status = "processing", ![j].tries = @ + 1]
          PROVE  item'[i].status # "pending"
      BY <1>1, <3>1 DEF ItemRecord
    <3>2. QED
      BY <1>2, <2>2, <3>1 DEF ClaimNext, First, database
  <2>3. CASE SessionError
    BY <1>6, <1>7, <2>3 DEF SessionError, Sending
  <2>4. CASE FailBeforeSend
    BY <1>5, <1>7, <2>4 DEF FailBeforeSend, Sending
  <2>5. CASE ConfirmSuccess
    BY <1>2, <1>5, <1>7, <2>5 DEF ConfirmSuccess, Sending
  <2>6. CASE ConfirmFailed \/ ConfirmUnknown
    BY <1>5, <1>7, <2>6 DEF ConfirmFailed, ConfirmUnknown, Sending
  <2>7. CASE SettleError
    <3>1. Requeue \/ \E status \in {"failed", "retrying", "unknown"} : MoveItem(status) \/ ResolveItemTo(status)
      BY <2>7 DEF SettleError
    <3>2. Cur \in Items
      BY <1>7, <2>7 DEF SettleError, Sending
    <3>3. QED
      BY <1>5, <1>6, <3>1, <3>2
  <2>8. QED
    BY <1>9, <2>1, <2>2, <2>3, <2>4, <2>5, <2>6, <2>7, Zenon DEF RunnerStep
<1>10. ASSUME NEW p \in Passes, PassStep(p) PROVE item'[i].status # "pending"
  BY <1>1, <1>2, <1>10, PassesSettle DEF PassStep, Scan, ReadClock, database, Status
<1>11. CASE OperatorStep
  <2>1. CASE RunJob \/ PauseJob \/ StopJob \/ StopFinish \/ StartRequest \/ FinishReconcile
    BY <1>2, <2>1 DEF RunJob, PauseJob, StopJob, StopFinish, StartRequest, FinishReconcile, database
  <2>2. CASE RetryUnknown
    BY <1>1, <2>2 DEF RetryUnknown, Reopened, Status
  <2>3. ASSUME NEW j \in Items, ResolveSuccess(j) PROVE item'[i].status # "pending"
    BY <1>4, <2>3 DEF ResolveSuccess
  <2>4. ASSUME NEW j \in Items, ResolvePending(j) PROVE item'[i].status # "pending"
    <3>1. j # i
      BY <2>4 DEF ResolvePending
    <3>2. item'[i] = item[i]
      BY <1>1, <2>4, <3>1 DEF ResolvePending
    <3>3. QED
      BY <1>1, <3>2
  <2>5. QED
    BY <1>11, <2>1, <2>2, <2>3, <2>4 DEF OperatorStep
<1>12. CASE FaultStep
  <2>1. CASE WorkerError \/ Cancel \/ Crash
    BY <1>2, <2>1 DEF WorkerError, Cancel, Crash, database
  <2>2. CASE Recover
    BY <1>1, <2>2 DEF Recover, Recovered, Terminal, ItemRecord
  <2>3. QED
    BY <1>12, <2>1, <2>2 DEF FaultStep
<1>13. CASE BotStep
  BY <1>2, <1>13 DEF BotStep, BotReplies, GracePasses, database
<1>14. QED
  BY <1>8, <1>9, <1>10, <1>11, <1>12, <1>13 DEF Next

\* What was claimed before it was sent is never handed out again as if it had not been.
THEOREM ClaimsAreKept == Spec => WriteAheadIsKept
<1>1. TypeOK /\ [Next]_vars
      => [\A i \in Items : Status(i) = "processing" => item'[i].status # "pending"]_vars
  BY ClaimKept
<1>2. QED
  BY <1>1, TypeCorrect, PTL DEF Spec, WriteAheadIsKept

-----------------------------------------------------------------------------
(* What the steps do to a row *)

\* One item moves to a status, and the others are left alone.
Moved(i, s) ==
  /\ Status(i)' = s
  /\ item'[i].noReply = item[i].noReply /\ (item[i].resolved => item'[i].resolved)
  /\ \A j \in Items \ {i} : item'[j] = item[j]

\* What the transactions do to the rows of the job.
LEMMA RowMoves ==
    ASSUME TypeOK, NEW i \in Items, NEW s
    PROVE  /\ item' = [item EXCEPT ![i].status = s] => Moved(i, s)
           /\ i = Cur /\ (MoveItem(s) \/ ResolveItemTo(s)) => Moved(i, s)
           /\ i = Cur /\ Requeue => Moved(i, "retrying")
           /\ item' = [item EXCEPT ![i].status = "processing", ![i].tries = @ + 1] => Moved(i, "processing")
<1>1. item \in [Items -> ItemRecord] /\ item[i] \in ItemRecord
  BY DEF TypeOK, DatabaseType
<1>2. ASSUME NEW row \in {[item[i] EXCEPT !.status = s], [item[i] EXCEPT !.status = s, !.resolved = TRUE]},
             item' = [item EXCEPT ![i] = row]
      PROVE  Moved(i, s)
  <2>1. row.status = s /\ row.noReply = item[i].noReply /\ (item[i].resolved => row.resolved)
    BY <1>1 DEF ItemRecord
  <2> HIDE DEF ItemRecord
  <2>2. item'[i] = row /\ \A j \in Items \ {i} : item'[j] = item[j]
    BY <1>1, <1>2
  <2>3. QED
    BY <2>1, <2>2 DEF Moved, Status
<1>3. ASSUME NEW n, NEW t, item' = [item EXCEPT ![i] = [item[i] EXCEPT !.status = t, !.tries = n]]
      PROVE  Moved(i, t)
  <2> DEFINE row == [item[i] EXCEPT !.status = t, !.tries = n]
  <2>1. row.status = t /\ row.noReply = item[i].noReply /\ row.resolved = item[i].resolved
    BY <1>1 DEF ItemRecord
  <2> HIDE DEF row
  <2>2. item'[i] = row /\ \A j \in Items \ {i} : item'[j] = item[j]
    BY <1>1, <1>3 DEF row
  <2>3. QED
    BY <2>1, <2>2 DEF Moved, Status
<1>4. ASSUME item' = [item EXCEPT ![i].status = s] PROVE Moved(i, s)
  BY <1>1, <1>2, <1>4
<1>5. ASSUME i = Cur, MoveItem(s) \/ ResolveItemTo(s) PROVE Moved(i, s)
  <2>1. CASE MoveItem(s)
    BY <1>4, <1>5, <2>1 DEF MoveItem
  <2>2. CASE ResolveItemTo(s)
    <3>1. item' = [item EXCEPT ![i] = [item[i] EXCEPT !.status = s, !.resolved = TRUE]]
      BY <1>1, <1>5, <2>2 DEF ResolveItemTo
    <3>2. QED
      BY <1>2, <3>1
  <2>3. QED
    BY <1>5, <2>1, <2>2
<1>6. ASSUME i = Cur, Requeue PROVE Moved(i, "retrying")
  <2> DEFINE n == IF item[i].tries > 0 THEN item[i].tries - 1 ELSE 0
  <2>1. item' = [item EXCEPT ![i] = [item[i] EXCEPT !.status = "retrying", !.tries = n]]
    BY <1>1, <1>6 DEF Requeue, ItemRecord
  <2> HIDE DEF n
  <2>2. QED
    BY <1>3, <2>1
<1>7. ASSUME item' = [item EXCEPT ![i].status = "processing", ![i].tries = @ + 1] PROVE Moved(i, "processing")
  <2>1. item' = [item EXCEPT ![i] = [item[i] EXCEPT !.status = "processing", !.tries = item[i].tries + 1]]
    BY <1>1, <1>7 DEF ItemRecord
  <2>2. QED
    BY <1>3, <2>1
<1>8. QED
  BY <1>4, <1>5, <1>6, <1>7

\* The steps in which the runner closes the attempt it is at.
Settling == SessionError \/ FailBeforeSend \/ ConfirmSuccess \/ ConfirmFailed \/ ConfirmUnknown \/ SettleError

\* The runner that has settled its item sends nothing.
LEMMA SettledRunner ==
    ASSUME TypeOK, Settling
    PROVE  runner'.pc \in {"loop", "resettle", "idle"} \/ (runner'.pc = "final" /\ runner'.pausing = TRUE)
<1>1. runner \in RunnerRecord
  BY DEF TypeOK, ProcessType
<1>2. StreakCleared(runner) \in RunnerRecord /\ StreakCleared(Settled(runner)) \in RunnerRecord
  <2>1. Settled(runner) \in RunnerRecord /\ StreakCleared(runner) \in RunnerRecord
    BY <1>1, RunnerRecords
  <2>2. QED
    BY <2>1, RunnerRecords
<1>3. ASSUME NEW r \in RunnerRecord
      PROVE  /\ NextTurn(r).pc = "loop" /\ StreakLonger(r).pc \in {"loop", "resettle"}
             /\ Break(r, TRUE).pc = "final" /\ Break(r, TRUE).pausing = TRUE
  BY <1>3 DEF NextTurn, Break, StreakLonger, RunnerRecord
<1>4. CASE SessionError
  <2> DEFINE r == [runner EXCEPT !.failures[runner.slot] = @ + 1]
             gone == r.failures[r.slot] >= MaxSessionFailures
             q == IF gone THEN [r EXCEPT !.usable = @ \ {r.slot}] ELSE r
  <2>1. r \in RunnerRecord
    BY <1>1 DEF RunnerRecord
  <2>2. q \in RunnerRecord
    <3> HIDE DEF r
    <3>1. QED
      BY <2>1, RunnerWithout
  <2>3. RunnerAs(Break(q, TRUE)) \/ RunnerAs(NextTurn(q))
    BY <1>4 DEF SessionError
  <2> HIDE DEF q
  <2>4. QED
    BY <1>3, <2>2, <2>3 DEF RunnerAs
<1>5. CASE FailBeforeSend \/ ConfirmFailed
  BY <1>2, <1>3, <1>5 DEF FailBeforeSend, ConfirmFailed, RunnerAs
<1>6. CASE ConfirmSuccess
  <2>1. CASE Recorded(Cur)
    BY <1>6, <2>1 DEF ConfirmSuccess, RunnerGone, NoRunner
  <2>2. CASE ~Recorded(Cur)
    BY <1>2, <1>3, <1>6, <2>2 DEF ConfirmSuccess, RunnerAs
  <2>3. QED
    BY <2>1, <2>2
<1>7. CASE ConfirmUnknown
  BY <1>1, <1>3, <1>7 DEF ConfirmUnknown, RunnerAs
<1>8. CASE SettleError
  <2> DEFINE rest == [runner EXCEPT !.usable = @ \ {runner.slot}]
  <2>1. rest \in RunnerRecord
    BY <1>1, RunnerWithout
  <2>2. \/ RunnerAs(NextTurn(rest)) \/ RunnerAs(Break(rest, TRUE)) \/ RunnerAs(NextTurn(runner))
        \/ RunnerAs(NextTurn(StreakCleared(runner))) \/ RunnerAs(StreakLonger(runner))
    BY <1>8 DEF SettleError
  <2> HIDE DEF rest
  <2>3. QED
    BY <1>1, <1>2, <1>3, <2>1, <2>2 DEF RunnerAs
<1>9. QED
  BY <1>4, <1>5, <1>6, <1>7, <1>8 DEF Settling

\* What such a step makes of its item, its attempt and the ledger.
Verdicts == Terminal \cup {"retrying"}
Settles(i, s) ==
  /\ Moved(i, s)
  /\ \A j \in Items : attempt'[j].since = attempt[j].since
  /\ IF s = "success"
     THEN ~Recorded(i) /\ \E k \in Nat : ledger' = ledger \cup {[item |-> i, reply |-> k]}
     ELSE ledger' = ledger
  /\ s = "retrying" => Unsent(i)

\* What settling the item does to the rows: its status and its row in the ledger move together, and it goes back to the
\* queue only when its command was not sent. An item that is on record already ends the task instead.
LEMMA SettlingMoves ==
    ASSUME EngineAssumption, TypeOK, Settling
    PROVE  /\ Cur \in Items /\ runner.pc \in Sending
           /\ UNCHANGED <<discord, history>>
           /\ \/ UNCHANGED <<item, attempt, ledger>> /\ RunnerGone("idle")
              \/ pass' = pass /\ \E s \in Verdicts : Settles(Cur, s)
<1>1. Cur \in Items /\ runner.pc \in Sending
  BY DEF TypeOK, ProcessType, Sending, Cur, Settling, SessionError, FailBeforeSend, ConfirmSuccess, ConfirmFailed,
         ConfirmUnknown, SettleError
<1>2. UNCHANGED <<discord, history>>
  BY DEF Settling, SessionError, FailBeforeSend, ConfirmSuccess, ConfirmFailed, ConfirmUnknown, SettleError
<1>3. ASSUME NEW phase, CloseAttempt(phase) PROVE \A j \in Items : attempt'[j].since = attempt[j].since
  <2>1. attempt \in [Items -> AttemptRecord] /\ attempt[Cur] \in AttemptRecord
    BY <1>1 DEF TypeOK, DatabaseType
  <2>2. [attempt[Cur] EXCEPT !.phase = phase].since = attempt[Cur].since
    BY <2>1 DEF AttemptRecord
  <2>3. QED
    BY <1>1, <1>3, <2>1, <2>2 DEF CloseAttempt
<1>4. ASSUME NEW s, MoveItem(s) \/ ResolveItemTo(s) PROVE Moved(Cur, s)
  BY <1>1, <1>4, RowMoves
<1>5. ASSUME Requeue PROVE Moved(Cur, "retrying")
  BY <1>1, <1>5, RowMoves
<1>6. {"unknown", "failed", "success", "retrying"} \subseteq Verdicts
  BY DEF Verdicts, Terminal
<1>7. CASE SessionError
  BY <1>1, <1>2, <1>3, <1>5, <1>6, <1>7 DEF SessionError, Settles, Unsent, RunnerAs
<1>8. CASE FailBeforeSend
  BY <1>1, <1>2, <1>3, <1>4, <1>6, <1>8 DEF FailBeforeSend, Settles, RunnerAs
<1>9. CASE ConfirmFailed
  BY <1>1, <1>2, <1>3, <1>4, <1>6, <1>9 DEF ConfirmFailed, Settles, RunnerAs
<1>10. CASE ConfirmUnknown
  BY <1>1, <1>2, <1>3, <1>4, <1>6, <1>10 DEF ConfirmUnknown, Settles, RunnerAs
<1>11. CASE ConfirmSuccess
  <2>1. CASE Recorded(Cur)
    BY <1>1, <1>2, <1>11, <2>1 DEF ConfirmSuccess
  <2>2. CASE ~Recorded(Cur)
    <3>1. \A k \in Linked("ok") : k \in Nat
      BY DEF Linked, TypeOK, DiscordType
    <3>2. \E k \in Nat : ledger' = ledger \cup {[item |-> Cur, reply |-> k]}
      BY <1>11, <2>2, <3>1 DEF ConfirmSuccess, First
    <3>3. CloseAttempt("confirmed") /\ ResolveItemTo("success") /\ pass' = pass
      BY <1>11, <2>2 DEF ConfirmSuccess, RunnerAs
    <3>4. Settles(Cur, "success")
      BY <1>3, <1>4, <2>2, <3>2, <3>3 DEF Settles
    <3>5. QED
      BY <1>1, <1>2, <1>6, <3>3, <3>4
  <2>3. QED
    BY <2>1, <2>2
<1>12. CASE SettleError
  <2>1. \/ (Requeue \/ MoveItem("retrying")) /\ runner.obs.outcome # "unsure"
        \/ MoveItem("failed") \/ ResolveItemTo("unknown")
    BY <1>12 DEF SettleError, Retryable
  <2>2. /\ runner.pc = "settle" /\ CloseAttempt("aborted") /\ pass' = pass /\ ledger' = ledger
    BY <1>12 DEF SettleError, RunnerAs
  <2>3. \A j \in Items : attempt'[j].since = attempt[j].since
    BY <1>3, <2>2
  <2>4. \E s \in Verdicts : Settles(Cur, s)
    <3>1. CASE (Requeue \/ MoveItem("retrying")) /\ runner.obs.outcome # "unsure"
      <4>1. Moved(Cur, "retrying")
        BY <1>4, <1>5, <3>1
      <4>2. Unsent(Cur)
        BY <2>2, <3>1 DEF Unsent
      <4>3. QED
        BY <1>6, <2>2, <2>3, <4>1, <4>2 DEF Settles
    <3>2. CASE MoveItem("failed")
      BY <1>4, <1>6, <2>2, <2>3, <3>2 DEF Settles
    <3>3. CASE ResolveItemTo("unknown")
      BY <1>4, <1>6, <2>2, <2>3, <3>3 DEF Settles
    <3>4. QED
      BY <2>1, <3>1, <3>2, <3>3
  <2>5. QED
    BY <1>1, <1>2, <2>2, <2>4
<1>13. QED
  BY <1>7, <1>8, <1>9, <1>10, <1>11, <1>12 DEF Settling

-----------------------------------------------------------------------------
(* A completed job has sent everything *)

\* The task has left its loop: the last sweep and the end of the run.
AtEnd == {"final", "finishing", "close"}
\* What waits in the queue was put back there.
AllSent == \A i \in Items : Status(i) \in Claimable => Reopenings(i) > 0
\* The task that is about to complete the job.
Completing == runner.pc \in AtEnd /\ ~runner.pausing /\ ~ShouldStop

\* A sweep has the task waiting for it.
SweepHasTask == pass["sweep"].at # "none" => runner.pc \in {"resettling", "finishing"}
\* Only the end of a run completes the job.
CompletedHasNoTask == job = "completed" => runner.pc \in {"idle", "down"}

\* The inductive invariant.
CompletedInv ==
  /\ SweepHasTask
  /\ CompletedHasNoTask
  /\ Completing => AllSent
  /\ CompletedSentAll

\* The queue grows by items somebody put back, unless the runner is at work on one.
LEMMA QueueGrows ==
    ASSUME TypeOK, [Next]_vars, runner.pc \notin Sending, AllSent
    PROVE  AllSent'
<1>0. \A i \in Items : handed[i] \in Nat /\ retried[i] \in Nat
  BY DEF TypeOK, HistoryType
<1>1. ASSUME \A i \in Items : Status(i)' \in Claimable => Status(i) \in Claimable,
             UNCHANGED <<handed, retried>>
      PROVE  AllSent'
  BY <1>1 DEF AllSent, Reopenings
<1>2. ASSUME UNCHANGED <<item, handed, retried>> PROVE AllSent'
  BY <1>1, <1>2 DEF Status
<1>3. ASSUME NEW i \in Items, NEW s, Moved(i, s), s \notin Claimable, UNCHANGED <<handed, retried>>
      PROVE  AllSent'
  BY <1>1, <1>3 DEF Moved, Status
<1>4. CASE UNCHANGED vars
  BY <1>2, <1>4 DEF vars, database, history
<1>5. CASE RunnerStep
  <2>1. CASE AcquireToken \/ CheckRoleAndCredential \/ StartSweep \/ EndSweep \/ WaitForGrace \/ Judge \/ Close
             \/ Cancelled
    BY <1>2, <2>1 DEF AcquireToken, CheckRoleAndCredential, StartSweep, EndSweep, WaitForGrace, Judge, Close,
                      Cancelled, database, history
  <2>2. CASE ClaimNext
    <3>1. ASSUME NEW i \in Items, item' = [item EXCEPT ![i].status = "processing", ![i].tries = @ + 1],
                 UNCHANGED history
          PROVE  AllSent'
      <4>1. Moved(i, "processing")
        BY <3>1, RowMoves
      <4>2. QED
        BY <1>3, <3>1, <4>1 DEF Claimable, history
    <3>2. QED
      BY <1>2, <2>2, <3>1 DEF ClaimNext, First, database, history
  <2>3. CASE Settling \/ Invoke \/ MarkSent
    BY <2>3 DEF Sending, Settling, SessionError, FailBeforeSend, ConfirmSuccess, ConfirmFailed, ConfirmUnknown,
                SettleError, Invoke, MarkSent
  <2>4. QED
    BY <1>5, <2>1, <2>2, <2>3 DEF RunnerStep, Settling
<1>6. ASSUME NEW p \in Passes, PassStep(p) PROVE AllSent'
  <2>1. CASE Scan(p) \/ ReadClock(p)
    BY <1>2, <2>1 DEF Scan, ReadClock, database, history
  <2>2. CASE SettleRow(p)
    BY <1>1, <2>2, PassesSettle DEF SettleRow, history, Claimable
  <2>3. QED
    BY <1>6, <2>1, <2>2 DEF PassStep
<1>7. CASE OperatorStep
  <2>1. CASE RunJob \/ PauseJob \/ StopJob \/ StopFinish \/ StartRequest \/ FinishReconcile
    BY <1>2, <2>1 DEF RunJob, PauseJob, StopJob, StopFinish, StartRequest, FinishReconcile, database, history
  <2>2. CASE RetryUnknown
    <3>1. ASSUME NEW i \in Items, i \in Reopened PROVE Reopenings(i)' > 0
      <4>1. retried'[i] = retried[i] + 1 /\ handed'[i] = handed[i]
        BY <2>2, <3>1 DEF RetryUnknown
      <4>2. QED
        BY <1>0, <4>1 DEF Reopenings
    <3>2. ASSUME NEW i \in Items, i \notin Reopened
          PROVE  Status(i)' = Status(i) /\ Reopenings(i)' = Reopenings(i)
      BY <2>2, <3>2 DEF RetryUnknown, Reopenings, Status
    <3>3. QED
      BY <3>1, <3>2 DEF AllSent
  <2>3. ASSUME NEW i \in Items, ResolveSuccess(i) PROVE AllSent'
    <3>1. Moved(i, "success")
      BY <2>3, RowMoves DEF ResolveSuccess
    <3>2. QED
      BY <1>3, <2>3, <3>1 DEF ResolveSuccess, Claimable, history
  <2>4. ASSUME NEW i \in Items, ResolvePending(i) PROVE AllSent'
    <3>1. Moved(i, "pending")
      BY <2>4, RowMoves DEF ResolvePending
    <3>2. Reopenings(i)' > 0
      BY <1>0, <2>4 DEF ResolvePending, Reopenings, TypeOK, HistoryType
    <3>3. ASSUME NEW j \in Items \ {i} PROVE Status(j)' = Status(j) /\ Reopenings(j)' = Reopenings(j)
      BY <2>4, <3>1, <3>3 DEF ResolvePending, Reopenings, TypeOK, HistoryType, Moved, Status
    <3>4. QED
      BY <3>2, <3>3 DEF AllSent
  <2>5. QED
    BY <1>7, <2>1, <2>2, <2>3, <2>4 DEF OperatorStep
<1>8. CASE FaultStep
  <2>1. CASE WorkerError \/ Cancel \/ Crash
    BY <1>2, <2>1 DEF WorkerError, Cancel, Crash, database, history
  <2>2. CASE Recover
    <3>1. ASSUME NEW i \in Items, Status(i)' \in Claimable PROVE Status(i) \in Claimable
      BY <2>2, <3>1 DEF Recover, Recovered, Status, Terminal, Claimable, TypeOK, DatabaseType, ItemRecord
    <3>2. QED
      BY <1>1, <2>2, <3>1 DEF Recover, history
  <2>3. QED
    BY <1>8, <2>1, <2>2 DEF FaultStep
<1>9. CASE BotStep
  BY <1>2, <1>9 DEF BotStep, BotReplies, GracePasses, database, history
<1>10. QED
  BY <1>4, <1>5, <1>6, <1>7, <1>8, <1>9 DEF Next

\* The task comes to its end by itself only when it has found the queue empty.
LEMMA EndIsReached ==
    ASSUME TypeOK, CompletedInv, [Next]_vars
    PROVE  /\ SweepHasTask'
           /\ CompletedHasNoTask'
           /\ Completing' => AllSent /\ runner.pc \notin Sending
           /\ job' = "completed" => runner.pc \notin Sending /\ (job = "completed" \/ Completing)
<1> DEFINE Goal == /\ SweepHasTask'
                   /\ CompletedHasNoTask'
                   /\ Completing' => AllSent /\ runner.pc \notin Sending
                   /\ job' = "completed" => runner.pc \notin Sending /\ (job = "completed" \/ Completing)
<1>1. runner \in RunnerRecord /\ pass \in [Passes -> PassRecord]
  BY DEF TypeOK, ProcessType
<1>2. AtEnd \cap Sending = {} /\ {"idle", "down", "resettling", "finishing", "cancelled"} \cap Sending = {}
  BY DEF AtEnd, Sending
<1>3. "sweep" \in Passes
  BY DEF Passes
\* The task stays where it is.
<1>4. ASSUME job' = job \/ job' # "completed", runner'.pc = runner.pc, runner'.pausing = runner.pausing,
             runner.stopReq => runner'.stopReq, runner.pauseReq => runner'.pauseReq,
             pass'["sweep"].at # "none" => pass["sweep"].at # "none"
      PROVE  Goal
  BY <1>2, <1>4 DEF CompletedInv, SweepHasTask, CompletedHasNoTask, Completing, ShouldStop
\* The task goes on, and not to the end of its run.
<1>5. ASSUME job' # "completed", runner'.pc \notin AtEnd, pass'["sweep"].at = "none" PROVE Goal
  BY <1>5 DEF SweepHasTask, CompletedHasNoTask, Completing
<1>6. ASSUME runner.pc \notin {"idle", "down"} PROVE job # "completed"
  BY <1>6 DEF CompletedInv, CompletedHasNoTask
<1>7. ASSUME runner.pc \notin {"resettling", "finishing"} PROVE pass["sweep"].at = "none"
  BY <1>7 DEF CompletedInv, SweepHasTask
<1>8. ASSUME NEW pc \in {"idle", "down", "cancelled"}, RunnerGone(pc) PROVE runner'.pc = pc /\ pass'["sweep"].at = "none"
  BY <1>1, <1>3, <1>8 DEF RunnerGone, NoRunner, NoPass
<1>9. CASE UNCHANGED vars
  BY <1>4, <1>9 DEF vars, database, process
<1>10. CASE RunnerStep
  <2>1. CASE AcquireToken
    <3>1. runner'.pc = "check" \/ runner'.pausing = TRUE \/ ShouldStop'
      BY <1>1, <2>1, Turns DEF AcquireToken, RunnerAs, ShouldStop, RunnerRecord
    <3>2. ~Completing'
      BY <3>1 DEF Completing, AtEnd
    <3>3. job' = job /\ pass' = pass /\ runner.pc = "loop"
      BY <2>1 DEF AcquireToken, RunnerAs, database
    <3>4. QED
      BY <1>6, <1>7, <3>2, <3>3 DEF SweepHasTask, CompletedHasNoTask
  <2>2. CASE CheckRoleAndCredential
    <3>1. runner'.pc = "claim" \/ runner'.pausing = TRUE
      BY <1>1, <2>2, Turns DEF CheckRoleAndCredential, RunnerAs, RunnerRecord
    <3>2. ~Completing'
      BY <3>1 DEF Completing, AtEnd
    <3>3. job' = job /\ pass' = pass /\ runner.pc = "check"
      BY <2>2 DEF CheckRoleAndCredential, RunnerAs, database
    <3>4. QED
      BY <1>6, <1>7, <3>2, <3>3 DEF SweepHasTask, CompletedHasNoTask
  <2>3. CASE ClaimNext
    <3>1. job' = job /\ runner.pc = "claim"
      BY <2>3 DEF ClaimNext, database
    <3>2. CASE {i \in Items : Status(i) \in Claimable} = {} /\ pass' = pass
      <4>1. AllSent
        BY <3>2 DEF AllSent
      <4>2. QED
        BY <1>6, <1>7, <3>1, <3>2, <4>1 DEF SweepHasTask, CompletedHasNoTask, Sending
    <3>3. ASSUME NEW i \in Items, runner' = [runner EXCEPT !.cur = i, !.pc = "exec"],
                 pass' = [p \in Passes |-> [pass[p] EXCEPT !.current = @ \ {i}]]
          PROVE  Goal
      <4>1. runner'.pc = "exec"
        BY <1>1, <3>3 DEF RunnerRecord
      <4>2. pass'["sweep"].at = pass["sweep"].at
        BY <1>1, <1>3, <3>3 DEF PassRecord
      <4>3. QED
        BY <1>5, <1>6, <1>7, <3>1, <4>1, <4>2 DEF AtEnd
    <3>4. QED
      BY <2>3, <3>2, <3>3 DEF ClaimNext, RunnerAs, First
  <2>4. CASE Invoke \/ MarkSent
    <3>1. runner'.pc \notin AtEnd
      <4>1. CASE Invoke
        BY <1>1, <2>4, <4>1 DEF Invoke, RunnerAs, Settled, RunnerRecord, AtEnd
      <4>2. CASE MarkSent
        BY <1>1, <2>4, <4>2 DEF MarkSent, RunnerAs, RunnerRecord, AtEnd
      <4>3. QED
        BY <2>4, <4>1, <4>2
    <3>2. job' = job /\ pass' = pass /\ runner.pc \in {"exec", "mark"}
      BY <2>4 DEF Invoke, MarkSent, RunnerAs, database
    <3>3. job' # "completed" /\ pass'["sweep"].at = "none"
      BY <1>6, <1>7, <3>2
    <3>4. QED
      BY <1>5, <3>1, <3>3
  <2>5. CASE Settling
    <3>1. ~Completing'
      BY <2>5, SettledRunner DEF Completing, AtEnd
    <3>2. runner.pc \in {"exec", "confirm", "settle"}
      BY <2>5 DEF Settling, SessionError, FailBeforeSend, ConfirmSuccess, ConfirmFailed, ConfirmUnknown, SettleError
    <3>3. job' \in {job, "paused"}
      BY <2>5 DEF Settling, SessionError, FailBeforeSend, ConfirmSuccess, ConfirmFailed, ConfirmUnknown, SettleError
    <3>4. pass'["sweep"].at = "none"
      <4>1. pass' = pass \/ RunnerGone("idle")
        BY <2>5 DEF Settling, SessionError, FailBeforeSend, ConfirmSuccess, ConfirmFailed, ConfirmUnknown,
                    SettleError, RunnerAs
      <4>2. QED
        BY <1>7, <1>8, <3>2, <4>1
    <3>5. QED
      BY <1>6, <3>1, <3>2, <3>3, <3>4 DEF SweepHasTask, CompletedHasNoTask
  <2>6. CASE StartSweep
    <3>1. runner.pc \in {"resettle", "final"} /\ job' = job
      BY <2>6 DEF StartSweep, database
    <3>2. runner'.pc = IF runner.pc = "final" THEN "finishing" ELSE "resettling"
      BY <1>1, <2>6 DEF StartSweep, RunnerRecord
    <3>3. runner'.pausing = runner.pausing /\ runner'.stopReq = runner.stopReq /\ runner'.pauseReq = runner.pauseReq
      BY <1>1, <2>6 DEF StartSweep, RunnerRecord
    <3>4. Completing' => Completing
      BY <3>1, <3>2, <3>3 DEF Completing, AtEnd, ShouldStop
    <3>5. QED
      BY <1>2, <1>6, <3>1, <3>2, <3>4 DEF SweepHasTask, CompletedHasNoTask, CompletedInv, Completing
  <2>7. CASE EndSweep
    <3>1. runner.pc \in {"resettling", "finishing"} /\ job' = job
      BY <2>7 DEF EndSweep, database, CompletedInv, SweepHasTask
    <3>2. runner'.pc = IF runner.pc = "finishing" THEN "close" ELSE "judge"
      BY <1>1, <2>7 DEF EndSweep, RunnerRecord
    <3>3. runner'.pausing = runner.pausing /\ runner'.stopReq = runner.stopReq /\ runner'.pauseReq = runner.pauseReq
      BY <1>1, <2>7 DEF EndSweep, RunnerRecord
    <3>4. pass'["sweep"].at = "none"
      BY <1>1, <1>3, <2>7 DEF EndSweep, NoPass
    <3>5. Completing' => Completing
      BY <3>1, <3>2, <3>3 DEF Completing, AtEnd, ShouldStop
    <3>6. QED
      BY <1>2, <1>6, <3>1, <3>4, <3>5 DEF SweepHasTask, CompletedHasNoTask, CompletedInv, Completing
  <2>8. CASE WaitForGrace
    <3>1. UNCHANGED <<job, runner>> /\ pass["sweep"].at # "none"
      BY <2>8 DEF WaitForGrace, PassAs, database
    <3>2. QED
      BY <1>4, <3>1
  <2>9. CASE Judge
    <3>1. runner'.pc = "loop" \/ runner'.pausing = TRUE
      <4> DEFINE s == StillUnknown(runner.slotUnknown[runner.slot])
                 j == StillUnknown(runner.jobUnknown)
                 q == [runner EXCEPT !.slotUnknown[runner.slot] = s, !.jobUnknown = j]
                 r == IF Cardinality(s) >= UnknownThreshold THEN [q EXCEPT !.usable = @ \ {q.slot}] ELSE q
      <4>1. j \subseteq Items /\ (runner.slot \in Tokens => s \subseteq Items)
        BY <1>1 DEF StillUnknown, RunnerRecord
      <4>2. q \in RunnerRecord
        <5> HIDE DEF s, j
        <5>1. QED
          BY <1>1, <4>1 DEF RunnerRecord
      <4>3. r \in RunnerRecord
        <5> HIDE DEF q
        <5>1. QED
          BY <4>2, RunnerWithout
      <4>4. RunnerAs(Break(r, TRUE)) \/ RunnerAs(NextTurn(r))
        BY <2>9 DEF Judge
      <4> HIDE DEF r
      <4>5. QED
        BY <4>3, <4>4, Turns DEF RunnerAs
    <3>2. job' = job /\ pass' = pass /\ runner.pc = "judge"
      BY <2>9 DEF Judge, RunnerAs, database
    <3>3. ~Completing'
      BY <3>1 DEF Completing, AtEnd
    <3>4. QED
      BY <1>6, <1>7, <3>2, <3>3 DEF SweepHasTask, CompletedHasNoTask
  <2>10. CASE Close
    <3>1. runner'.pc = "idle" /\ pass'["sweep"].at = "none"
      BY <1>8, <2>10 DEF Close
    <3>2. runner.pc = "close" /\ (job' = "completed" => ~runner.pausing /\ ~ShouldStop)
      BY <2>10 DEF Close, ShouldStop
    <3>3. QED
      BY <1>2, <3>1, <3>2 DEF SweepHasTask, CompletedHasNoTask, Completing, AtEnd
  <2>11. CASE Cancelled
    <3>1. job' = "paused" /\ pass' = pass /\ runner.pc = "cancelled" /\ runner'.pc = "idle"
      BY <2>11 DEF Cancelled, RunnerAs, NoRunner
    <3>2. QED
      BY <1>5, <1>7, <3>1 DEF AtEnd
  <2>12. QED
    BY <1>10, <2>1, <2>2, <2>3, <2>4, <2>5, <2>6, <2>7, <2>8, <2>9, <2>10, <2>11 DEF RunnerStep, Settling
<1>11. ASSUME NEW p \in Passes, PassStep(p) PROVE Goal
  <2>1. UNCHANGED <<job, runner>> /\ pass[p].at # "none"
    BY <1>11 DEF PassStep, Scan, ReadClock, SettleRow, RowSucceeds, RowFails, RowUnanswered, NextRow, PassAs, database
  <2>2. \E r : PassAs(p, r)
    BY <1>11 DEF PassStep, Scan, ReadClock, SettleRow, RowSucceeds, RowFails, RowUnanswered, NextRow
  <2>3. pass'["sweep"].at # "none" => pass["sweep"].at # "none"
    BY <1>1, <1>3, <2>1, <2>2 DEF PassAs
  <2>4. QED
    BY <1>4, <2>1, <2>3
<1>12. CASE OperatorStep
  <2>1. CASE RunJob
    <3>1. job' = "running" /\ pass' = pass /\ runner.pc = "idle" /\ runner'.pc = "loop"
      BY <2>1 DEF RunJob, RunnerAs, NoRunner
    <3>2. QED
      BY <1>5, <1>7, <3>1 DEF AtEnd
  <2>2. CASE PauseJob
    BY <1>1, <1>4, <2>2 DEF PauseJob, RunnerAs, RunnerRecord, database
  <2>3. CASE StopJob
    BY <1>1, <1>4, <2>3 DEF StopJob, RunnerRecord
  <2>4. CASE StopFinish
    BY <1>4, <2>4 DEF StopFinish
  <2>5. ASSUME UNCHANGED runner, job' = job \/ job' # "completed", NEW r, pass' = [pass EXCEPT !["api"] = r] PROVE Goal
    <3>1. pass'["sweep"] = pass["sweep"]
      BY <1>1, <1>3, <2>5
    <3>2. QED
      BY <1>4, <2>5, <3>1
  <2>6. CASE StartRequest \/ FinishReconcile \/ RetryUnknown
    BY <2>5, <2>6 DEF StartRequest, FinishReconcile, RetryUnknown, EndRequest, database
  <2>7. ASSUME NEW i \in Items, ResolveSuccess(i) \/ ResolvePending(i) PROVE Goal
    BY <1>4, <2>7 DEF ResolveSuccess, ResolvePending, process
  <2>8. QED
    BY <1>12, <2>1, <2>2, <2>3, <2>4, <2>6, <2>7 DEF OperatorStep
<1>13. CASE FaultStep
  <2>1. CASE WorkerError
    BY <1>5, <1>8, <2>1 DEF WorkerError, AtEnd
  <2>2. CASE Cancel
    <3>1. job' = job /\ runner.pc \notin {"idle", "down"}
      BY <2>2 DEF Cancel, database
    <3>2. QED
      BY <1>5, <1>6, <1>8, <2>2, <3>1 DEF Cancel, AtEnd
  <2>3. CASE Crash
    <3>1. job' = job /\ runner'.pc = "down" /\ pass'["sweep"].at = "none"
      BY <1>3, <2>3 DEF Crash, NoRunner, NoPass, database
    <3>2. job = "completed" => runner.pc \notin Sending
      BY <1>2 DEF CompletedInv, CompletedHasNoTask
    <3>3. QED
      BY <3>1, <3>2 DEF SweepHasTask, CompletedHasNoTask, Completing, AtEnd
  <2>4. CASE Recover
    <3>1. (job' = job \/ job' = "paused") /\ runner.pc = "down" /\ runner'.pc = "idle" /\ pass' = pass
      BY <2>4 DEF Recover, RunnerAs, NoRunner
    <3>2. QED
      BY <1>2, <1>7, <3>1 DEF SweepHasTask, CompletedHasNoTask, Completing, AtEnd
  <2>5. QED
    BY <1>13, <2>1, <2>2, <2>3, <2>4 DEF FaultStep
<1>14. ASSUME NEW i \in Items, BotReplies(i) \/ GracePasses(i) PROVE Goal
  <2>1. UNCHANGED <<job, runner>>
    BY <1>14 DEF BotReplies, GracePasses, database, process
  <2>2. pass'["sweep"].at = pass["sweep"].at
    BY <1>1, <1>3, <1>14 DEF BotReplies, GracePasses, process, PassRecord
  <2>3. QED
    BY <1>4, <2>1, <2>2
<1>15. QED
  BY <1>9, <1>10, <1>11, <1>12, <1>13, <1>14 DEF Next, BotStep

\* No order of runs, pauses, stops, errors and recoveries completes a job that has not sent all its items.
THEOREM CompletedJobsAreSent == Spec => []CompletedSentAll
<1>1. Init => CompletedInv
  BY DEF Init, CompletedInv, SweepHasTask, CompletedHasNoTask, Completing, CompletedSentAll, NoPass, NoRunner, AtEnd,
         Passes
<1>2. TypeOK /\ CompletedInv /\ [Next]_vars => CompletedInv'
  <2> SUFFICES ASSUME TypeOK, CompletedInv, [Next]_vars PROVE CompletedInv'
    OBVIOUS
  <2>1. /\ SweepHasTask'
        /\ CompletedHasNoTask'
        /\ Completing' => AllSent /\ runner.pc \notin Sending
        /\ job' = "completed" => runner.pc \notin Sending /\ (job = "completed" \/ Completing)
    BY EndIsReached
  <2>2. Completing' => AllSent'
    BY <2>1, QueueGrows
  <2>3. CompletedSentAll'
    BY <2>1, QueueGrows DEF CompletedInv, CompletedSentAll, AllSent
  <2>4. QED
    BY <2>1, <2>2, <2>3 DEF CompletedInv
<1>3. CompletedInv => CompletedSentAll
  BY DEF CompletedInv
<1>4. QED
  BY <1>1, <1>2, <1>3, TypeCorrect, PTL DEF Spec

-----------------------------------------------------------------------------
(* The ledger and the items agree *)

\* The ledger has the item with this evidence.
OnRecord(i, k) == [item |-> i, reply |-> k] \in ledger
\* The runner is sending the item.
Held(i) == runner.pc \in Sending /\ Cur = i

\* A reply the history would give the item's latest attempt, whoever reads it and whenever: no reply of the
\* other kind lies between the attempt and it.
Evidence(i, k) ==
    /\ OnRecord(i, k)
    /\ k \in 1 .. Len(channel)
    /\ k > attempt[i].since
    /\ channel[k].to = Recipient[i] /\ channel[k].kind = "ok"
    /\ \A m \in 1 .. k : m > attempt[i].since /\ channel[m].to = Recipient[i] => channel[m].kind = "ok"

\* A row in a pass was read at its latest attempt, unless somebody has put it back since; if it has become a
\* success in the meantime, by evidence the pass sees as well.
Reads(q, i) ==
    i \in q.rows /\ Reopenings(i) = 0 =>
        /\ Status(i) \in Terminal
        /\ i \in q.current
        /\ q.since[i] = attempt[i].since
        /\ Untouched(i) /\ Status(i) = "success" => \E k \in Nat : Evidence(i, k)

\* The two directions in which items and ledger agree, and that they do so once; whatever is being sent for the
\* first time is `processing'.
SuccessIsRecorded(i) == Status(i) = "success" => \E k \in Nat : OnRecord(i, k)
RecordedIsSuccess(i) == Untouched(i) => \A k \in Nat : OnRecord(i, k) => Status(i) = "success"
OneRecord(i) == \A k, m \in Nat : OnRecord(i, k) /\ OnRecord(i, m) => k = m
SenderIsAlone(i) == Reopenings(i) = 0 /\ Held(i) => Status(i) = "processing"
\* What holds of an item.
RowInv(i) ==
    /\ SuccessIsRecorded(i) /\ RecordedIsSuccess(i) /\ OneRecord(i) /\ SenderIsAlone(i)
    /\ \A p \in Passes : Reads(pass[p], i)

\* A reply a pass has used settled its row alone: every reply of the other kind to the same recipient that the
\* row could have claimed was used before.
Explained(q, k) ==
    \E s \in Nat : s < k /\ \A m \in 1 .. q.seen :
        m > s /\ channel[m].to = channel[k].to /\ channel[m].kind # channel[k].kind => m \in q.used
\* A pass uses replies it has seen, none before its scan is over.
ReadInv(q) ==
    /\ q.seen <= Len(channel)
    /\ q.at = "scan" => q.used = {}
    /\ \A k \in q.used : k \in 1 .. q.seen /\ Explained(q, k)

\* The inductive invariant.
LedgerInv == EngineInv /\ (\A i \in Items : RowInv(i)) /\ (\A p \in Passes : ReadInv(pass[p]))

\* What a step does to what the invariant speaks of.
ChannelGrows ==
    Len(channel') >= Len(channel) /\ \A k \in 1 .. Len(channel) : channel'[k] = channel[k]
\* Nothing the invariant says of the item has changed.
SameRow(i) ==
    /\ Status(i)' = Status(i)
    /\ attempt'[i].since = attempt[i].since
    /\ \A k \in Nat : [item |-> i, reply |-> k] \in ledger' <=> [item |-> i, reply |-> k] \in ledger
    /\ handed'[i] = handed[i] /\ retried'[i] = retried[i]
    /\ Held(i)' => Held(i)
\* A pass that has only just read its rows.
Fresh(q) ==
    /\ q.used = {} /\ q.seen = 0
    /\ \A i \in q.rows : Status(i) = "unknown" /\ i \in q.current /\ q.since[i] = attempt[i].since
\* A pass has read and used what it had, and keeps what it knows of a row it still holds.
SameRead(p) ==
    pass'[p].used = pass[p].used /\ pass'[p].seen = pass[p].seen /\ (pass'[p].at = "scan" => pass[p].at = "scan")
KeepsRow(p, i) ==
    i \in pass'[p].rows => /\ i \in pass[p].rows
                           /\ i \in pass[p].current => i \in pass'[p].current
                           /\ pass'[p].since = pass[p].since

\* What the other item's and the passes' steps leave alone stays true of an item.
LEMMA EvidenceKept ==
    ASSUME TypeOK, NEW i \in Items, SameRow(i), ChannelGrows, NEW k \in Nat, Evidence(i, k)
    PROVE  Evidence(i, k)'
<1>1. Len(channel) \in Nat /\ Len(channel)' \in Nat /\ Len(channel)' >= Len(channel)
  BY DEF TypeOK, DiscordType, ChannelGrows
<1>2. OnRecord(i, k)' /\ attempt'[i].since = attempt[i].since
  BY DEF SameRow, Evidence, OnRecord
<1>3. \A m \in 1 .. k : m \in 1 .. Len(channel) /\ channel'[m] = channel[m]
  BY <1>1 DEF Evidence, ChannelGrows
<1>4. k \in 1 .. Len(channel)' /\ k \in 1 .. k
  BY <1>1 DEF Evidence
<1>5. QED
  BY <1>2, <1>3, <1>4 DEF Evidence

\* An item of which nothing changes keeps its part of the invariant, as long as its passes go on or start afresh.
LEMMA RowKeeps ==
    ASSUME LedgerInv, NEW i \in Items, SameRow(i), ChannelGrows,
           \A p \in Passes : KeepsRow(p, i) \/ Fresh(pass'[p])
    PROVE  RowInv(i)'
<1>1. TypeOK /\ RowInv(i)
  BY DEF LedgerInv, EngineInv
<1>2. Reopenings(i)' = Reopenings(i) /\ (Untouched(i)' <=> Untouched(i)) /\ \A k \in Nat : OnRecord(i, k)' <=> OnRecord(i, k)
  BY DEF SameRow, Reopenings, Untouched, OnRecord
<1>3. Status(i)' = Status(i) /\ attempt'[i].since = attempt[i].since
  BY DEF SameRow
<1>4. (SuccessIsRecorded(i) /\ RecordedIsSuccess(i) /\ OneRecord(i))'
  BY <1>1, <1>2, <1>3 DEF RowInv, SuccessIsRecorded, RecordedIsSuccess, OneRecord
<1>5. SenderIsAlone(i)'
  BY <1>1, <1>2, <1>3 DEF RowInv, SenderIsAlone, SameRow
<1>6. ASSUME NEW p \in Passes PROVE Reads(pass[p], i)'
  <2>1. CASE KeepsRow(p, i)
    <3>1. \A k \in Nat : Evidence(i, k) => Evidence(i, k)'
      BY <1>1, EvidenceKept
    <3>2. Reads(pass[p], i)
      BY <1>1 DEF RowInv
    <3>3. QED
      BY <1>2, <1>3, <2>1, <3>1, <3>2 DEF Reads, KeepsRow
  <2>2. CASE Fresh(pass'[p])
    BY <1>3, <2>2 DEF Fresh, Reads, Terminal
  <2>3. QED
    BY <2>1, <2>2
<1>7. QED
  BY <1>4, <1>5, <1>6 DEF RowInv

\* An item that has been put back is vouched for by the ledger alone.
LEMMA RowReopened ==
    ASSUME LedgerInv, NEW i \in Items, ledger' = ledger, Reopenings(i)' # 0, Status(i)' # "success"
    PROVE  RowInv(i)'
<1>1. OneRecord(i)
  BY DEF LedgerInv, RowInv
<1>2. OneRecord(i)' /\ SuccessIsRecorded(i)' /\ RecordedIsSuccess(i)' /\ SenderIsAlone(i)'
  BY <1>1 DEF OneRecord, OnRecord, SuccessIsRecorded, RecordedIsSuccess, Untouched, SenderIsAlone
<1>3. \A p \in Passes : Reads(pass[p], i)'
  BY DEF Reads
<1>4. QED
  BY <1>2, <1>3 DEF RowInv

\* A pass that only goes on, or starts, has used no reply wrongly.
LEMMA ReadKeeps ==
    ASSUME LedgerInv, ChannelGrows, NEW p \in Passes, SameRead(p) \/ Fresh(pass'[p])
    PROVE  ReadInv(pass[p])'
<1>1. TypeOK /\ ReadInv(pass[p])
  BY DEF LedgerInv, EngineInv
<1>2. Len(channel) \in Nat /\ Len(channel)' \in Nat /\ Len(channel)' >= Len(channel)
  BY <1>1 DEF TypeOK, DiscordType, ChannelGrows
<1>3. CASE SameRead(p)
  <2>1. pass[p].seen \in Nat /\ pass[p].seen <= Len(channel)
    BY <1>1 DEF TypeOK, ProcessType, PassRecord, ReadInv
  <2>2. \A m \in 1 .. pass[p].seen : channel'[m] = channel[m]
    BY <1>2, <2>1 DEF ChannelGrows
  <2>3. ASSUME NEW k \in pass[p].used PROVE k \in 1 .. pass[p].seen /\ Explained(pass[p], k)'
    <3>1. k \in 1 .. pass[p].seen /\ Explained(pass[p], k)
      BY <1>1 DEF ReadInv
    <3>2. channel'[k] = channel[k]
      BY <2>2, <3>1
    <3>3. QED
      BY <1>3, <2>2, <3>1, <3>2 DEF Explained, SameRead
  <2>4. QED
    BY <1>1, <1>2, <1>3, <2>1, <2>3 DEF ReadInv, SameRead
<1>4. CASE Fresh(pass'[p])
  BY <1>2, <1>4 DEF ReadInv, Fresh
<1>5. QED
  BY <1>3, <1>4

-----------------------------------------------------------------------------
\* A pass that reads the unknown items, or has none, starts afresh.
LEMMA FreshReads ==
    ASSUME TypeOK, NEW r, r = NoPass \/ (\E at : r = [NoPass EXCEPT !.at = at])
                          \/ (\E at, w : r = [NoPass EXCEPT !.at = at, !.waiting = w])
                          \/ (\E again : r = ReadUnknown(again))
    PROVE  Fresh(r)
<1>1. CASE \E again : r = ReadUnknown(again)
  <2>1. PICK again : r = ReadUnknown(again)
    BY <1>1
  <2>2. /\ r.used = {} /\ r.seen = 0 /\ r.rows = Unresolved /\ r.current = Unresolved
        /\ r.since = [i \in Items |-> IF i \in Unresolved THEN attempt[i].since ELSE 0]
    BY <2>1 DEF ReadUnknown, NoPass
  <2>3. \A i \in Unresolved : i \in Items /\ Status(i) = "unknown"
    BY DEF Unresolved
  <2>4. QED
    BY <2>2, <2>3 DEF Fresh
<1>2. CASE r = NoPass \/ (\E at : r = [NoPass EXCEPT !.at = at])
           \/ (\E at, w : r = [NoPass EXCEPT !.at = at, !.waiting = w])
  <2>1. r.used = {} /\ r.seen = 0 /\ r.rows = {}
    <3>1. CASE r = NoPass
      BY <3>1 DEF NoPass
    <3>2. ASSUME NEW at, r = [NoPass EXCEPT !.at = at] PROVE r.used = {} /\ r.seen = 0 /\ r.rows = {}
      BY <3>2 DEF NoPass
    <3>3. ASSUME NEW at, NEW w, r = [NoPass EXCEPT !.at = at, !.waiting = w]
          PROVE  r.used = {} /\ r.seen = 0 /\ r.rows = {}
      BY <3>3 DEF NoPass
    <3>4. QED
      BY <1>2, <3>1, <3>2, <3>3
  <2>2. QED
    BY <2>1 DEF Fresh
<1>3. QED
  BY <1>1, <1>2

\* A pass keeps what it has.
GoesOn(p) == SameRead(p) /\ \A i \in Items : KeepsRow(p, i)

\* A pass that is not touched goes on.
LEMMA PassStays ==
    ASSUME NEW p \in Passes, pass'[p] = pass[p]
    PROVE  GoesOn(p)
BY DEF GoesOn, SameRead, KeepsRow

\* A step that leaves the rows and the channel alone, and takes up no item, keeps the ledger true.
LEMMA QuietStep ==
    ASSUME LedgerInv, EngineInv', UNCHANGED <<item, attempt, ledger, channel, handed, retried>>,
           \A i \in Items : Held(i)' => Held(i),
           \A p \in Passes : GoesOn(p) \/ Fresh(pass'[p])
    PROVE  LedgerInv'
<1>1. ChannelGrows
  BY DEF ChannelGrows, LedgerInv, EngineInv, TypeOK, DiscordType
<1>2. \A i \in Items : SameRow(i)
  BY DEF SameRow, Status
<1>3. \A i \in Items : RowInv(i)'
  BY <1>1, <1>2, RowKeeps DEF GoesOn
<1>4. \A p \in Passes : ReadInv(pass[p])'
  BY <1>1, ReadKeeps DEF GoesOn
<1>5. QED
  BY <1>3, <1>4 DEF LedgerInv

\* The same, when the runner is elsewhere or at the item it was at.
LEMMA QuietRunner ==
    ASSUME LedgerInv, EngineInv', UNCHANGED <<item, attempt, ledger, channel, handed, retried>>,
           runner'.pc \notin Sending \/ (runner.pc \in Sending /\ runner'.cur = runner.cur),
           \A p \in Passes : GoesOn(p) \/ Fresh(pass'[p])
    PROVE  LedgerInv'
BY QuietStep DEF Held, Cur

\* The runner claims an item: it was in the queue, so no pass that matters holds it.
LEMMA ClaimLedger ==
    ASSUME LedgerInv, EngineInv', ClaimNext
    PROVE  LedgerInv'
<1>1. TypeOK /\ runner \in RunnerRecord /\ pass \in [Passes -> PassRecord] /\ runner.pc = "claim"
  BY DEF LedgerInv, EngineInv, TypeOK, ProcessType, ClaimNext
<1>2. CASE RunnerAs(Break(runner, FALSE)) /\ UNCHANGED <<database, discord>>
  <2>1. runner'.pc \notin Sending
    BY <1>1, <1>2, Turns DEF RunnerAs, Sending
  <2>2. \A p \in Passes : GoesOn(p)
    BY <1>2, PassStays DEF RunnerAs
  <2>3. UNCHANGED <<item, attempt, ledger, channel, handed, retried>>
    BY <1>2 DEF database, discord, history, ClaimNext
  <2>4. QED
    BY <2>1, <2>2, <2>3, QuietRunner
<1>3. ASSUME NEW j \in Items, Status(j) \in Claimable,
             item' = [item EXCEPT ![j].status = "processing", ![j].tries = @ + 1],
             attempt' = [attempt EXCEPT ![j] = [phase |-> "prepared", since |-> Len(channel)]],
             runner' = [runner EXCEPT !.cur = j, !.pc = "exec"],
             pass' = [p \in Passes |-> [pass[p] EXCEPT !.current = @ \ {j}]],
             UNCHANGED <<ledger, channel, handed, retried>>
      PROVE  LedgerInv'
  <2>1. Moved(j, "processing")
    BY <1>1, <1>3, RowMoves
  <2>2. runner'.cur = j /\ runner'.pc = "exec"
    BY <1>1, <1>3 DEF RunnerRecord
  <2>3. ASSUME NEW p \in Passes
        PROVE  SameRead(p) /\ pass'[p].rows = pass[p].rows /\ pass'[p].since = pass[p].since
               /\ pass'[p].current = pass[p].current \ {j}
    <3>1. pass[p] \in PassRecord /\ pass'[p] = [pass[p] EXCEPT !.current = @ \ {j}]
      BY <1>1, <1>3
    <3>2. QED
      BY <3>1 DEF SameRead, PassRecord
  <2>4. ChannelGrows
    BY <1>1, <1>3 DEF ChannelGrows, TypeOK, DiscordType
  <2>5. ASSUME NEW i \in Items \ {j} PROVE RowInv(i)'
    <3>1. SameRow(i)
      BY <1>1, <1>3, <2>1, <2>2 DEF SameRow, Moved, Status, Held, Cur, TypeOK, DatabaseType
    <3>2. \A p \in Passes : KeepsRow(p, i)
      BY <2>3 DEF KeepsRow
    <3>3. QED
      BY <2>4, <3>1, <3>2, RowKeeps
  <2>6. RowInv(j)'
    <3>1. RowInv(j) /\ Status(j)' = "processing" /\ Status(j) # "success"
      BY <1>3, <2>1 DEF LedgerInv, Moved, Claimable
    <3>2. Reopenings(j)' = Reopenings(j) /\ (Untouched(j)' <=> Untouched(j)) /\ \A k \in Nat : OnRecord(j, k)' <=> OnRecord(j, k)
      BY <1>3 DEF Reopenings, Untouched, OnRecord
    <3>3. (SuccessIsRecorded(j) /\ RecordedIsSuccess(j) /\ OneRecord(j) /\ SenderIsAlone(j))'
      BY <3>1, <3>2 DEF RowInv, SuccessIsRecorded, RecordedIsSuccess, OneRecord, SenderIsAlone
    <3>4. ASSUME NEW p \in Passes PROVE Reads(pass[p], j)'
      <4>1. j \in pass[p].rows => Reopenings(j) # 0
        BY <1>3, <3>1 DEF RowInv, Reads, Claimable, Terminal
      <4>2. QED
        BY <2>3, <3>2, <4>1 DEF Reads
    <3>5. QED
      BY <3>3, <3>4 DEF RowInv
  <2>7. \A p \in Passes : ReadInv(pass[p])'
    BY <2>3, <2>4, ReadKeeps
  <2>8. QED
    BY <2>5, <2>6, <2>7 DEF LedgerInv
<1>4. QED
  BY <1>2, <1>3 DEF ClaimNext, First, history

\* The command has been invoked: its attempt counts from the position before it, and no pass that matters holds
\* the item.
LEMMA MarkLedger ==
    ASSUME LedgerInv, EngineInv', MarkSent
    PROVE  LedgerInv'
<1>1. TypeOK /\ runner \in RunnerRecord /\ runner.pc = "mark" /\ Cur \in Items
  BY DEF LedgerInv, EngineInv, TypeOK, ProcessType, MarkSent, Sending, Cur
<1>2. /\ attempt' = [attempt EXCEPT ![Cur] = [phase |-> "sent", since |-> runner.obs.sentAt]]
      /\ pass' = pass /\ UNCHANGED <<item, ledger, channel, handed, retried>>
  BY DEF MarkSent, RunnerAs, discord, history
<1>3. runner'.cur = Cur
  BY <1>1 DEF MarkSent, RunnerAs, RunnerRecord, Cur
<1>4. ChannelGrows
  BY <1>1, <1>2 DEF ChannelGrows, TypeOK, DiscordType
<1>5. \A p \in Passes : GoesOn(p)
  BY <1>2, PassStays
<1>6. \A i \in Items : Held(i)' => Held(i)
  BY <1>1, <1>3 DEF Held, Sending, Cur
<1>7. ASSUME NEW i \in Items \ {Cur} PROVE RowInv(i)'
  <2>1. SameRow(i)
    BY <1>1, <1>2, <1>6 DEF SameRow, Status, TypeOK, DatabaseType
  <2>2. QED
    BY <1>4, <1>5, <2>1, RowKeeps DEF GoesOn
<1>8. ASSUME NEW j \in Items, j = Cur PROVE RowInv(j)'
  <2>1. RowInv(j) /\ Held(j)
    BY <1>1, <1>8 DEF LedgerInv, Held, Sending
  <2>2. Reopenings(j)' = Reopenings(j) /\ (Untouched(j)' <=> Untouched(j)) /\ \A k \in Nat : OnRecord(j, k)' <=> OnRecord(j, k)
    BY <1>2 DEF Reopenings, Untouched, OnRecord
  <2>3. Status(j)' = Status(j)
    BY <1>2 DEF Status
  <2>4. (SuccessIsRecorded(j) /\ RecordedIsSuccess(j) /\ OneRecord(j) /\ SenderIsAlone(j))'
    BY <2>1, <2>2, <2>3 DEF RowInv, SuccessIsRecorded, RecordedIsSuccess, OneRecord, SenderIsAlone
  <2>5. ASSUME NEW p \in Passes PROVE Reads(pass[p], j)'
    <3>1. j \in pass[p].rows => Reopenings(j) # 0
      BY <2>1 DEF RowInv, Reads, SenderIsAlone, Terminal
    <3>2. QED
      BY <1>2, <2>2, <3>1 DEF Reads
  <2>6. QED
    BY <2>4, <2>5 DEF RowInv
<1>9. \A p \in Passes : ReadInv(pass[p])'
  BY <1>4, <1>5, ReadKeeps DEF GoesOn
<1>10. QED
  BY <1>7, <1>8, <1>9 DEF LedgerInv

\* A success comes with its row in the ledger, its only one.
LEMMA NewRecord ==
    ASSUME NEW j \in Items, NEW k \in Nat, ~Recorded(j), ledger' = ledger \cup {[item |-> j, reply |-> k]},
           Status(j)' = "success"
    PROVE  /\ SuccessIsRecorded(j)' /\ RecordedIsSuccess(j)' /\ OneRecord(j)' /\ OnRecord(j, k)'
           /\ \A i \in Items \ {j} : \A m \in Nat :
                 [item |-> i, reply |-> m] \in ledger' <=> [item |-> i, reply |-> m] \in ledger
<1>1. \A m \in Nat : [item |-> j, reply |-> m] \notin ledger
  BY DEF Recorded
<1>2. \A m \in Nat : OnRecord(j, m)' <=> m = k
  BY <1>1 DEF OnRecord
<1>3. QED
  BY <1>2 DEF SuccessIsRecorded, RecordedIsSuccess, OneRecord

\* An item that was no success and is none now has no row, unless somebody touched it.
LEMMA NoRecord ==
    ASSUME NEW j \in Items, RowInv(j), UNCHANGED <<ledger, handed, retried>>, Status(j)' # "success",
           Reopenings(j) = 0 => Status(j) # "success" \/ ~Untouched(j)
    PROVE  SuccessIsRecorded(j)' /\ RecordedIsSuccess(j)' /\ OneRecord(j)'
<1>1. Reopenings(j)' = Reopenings(j) /\ (Untouched(j)' <=> Untouched(j)) /\ \A k \in Nat : OnRecord(j, k)' <=> OnRecord(j, k)
  BY DEF Reopenings, Untouched, OnRecord
<1>2. QED
  BY <1>1 DEF RowInv, SuccessIsRecorded, RecordedIsSuccess, OneRecord, Untouched

\* The runner settles its item: no pass that matters holds it.
LEMMA SettleLedger ==
    ASSUME EngineAssumption, LedgerInv, EngineInv', Settling
    PROVE  LedgerInv'
<1>1. TypeOK
  BY DEF LedgerInv, EngineInv
<1>2. /\ Cur \in Items /\ runner.pc \in Sending /\ UNCHANGED <<discord, history>>
      /\ \/ UNCHANGED <<item, attempt, ledger>> /\ RunnerGone("idle")
         \/ pass' = pass /\ \E s \in Verdicts : Settles(Cur, s)
  BY <1>1, SettlingMoves
<1>3. runner'.pc \notin Sending
  BY <1>1, SettledRunner DEF Sending
<1>4. ChannelGrows /\ UNCHANGED <<channel, handed, retried>>
  BY <1>1, <1>2 DEF ChannelGrows, TypeOK, DiscordType, discord, history
<1>5. CASE UNCHANGED <<item, attempt, ledger>> /\ RunnerGone("idle")
  <2>1. ASSUME NEW p \in Passes PROVE GoesOn(p) \/ Fresh(pass'[p])
    <3>1. pass'[p] = pass[p] \/ pass'[p] = NoPass
      BY <1>1, <1>5 DEF RunnerGone, TypeOK, ProcessType
    <3>2. QED
      BY <1>1, <3>1, PassStays, FreshReads
  <2>2. QED
    BY <1>3, <1>4, <1>5, <2>1, QuietRunner
<1>6. ASSUME NEW s \in Verdicts, NEW j \in Items, j = Cur, Settles(j, s), pass' = pass PROVE LedgerInv'
  <2>1. /\ Moved(j, s) /\ \A i \in Items : attempt'[i].since = attempt[i].since
        /\ IF s = "success"
           THEN ~Recorded(j) /\ \E k \in Nat : ledger' = ledger \cup {[item |-> j, reply |-> k]}
           ELSE ledger' = ledger
    BY <1>6 DEF Settles
  <2>2. Status(j)' = s
    BY <2>1 DEF Moved
  <2>3. RowInv(j) /\ Held(j)
    BY <1>2, <1>6 DEF LedgerInv, Held
  <2>4. Reopenings(j) = 0 => Status(j) = "processing"
    BY <2>3 DEF RowInv, SenderIsAlone
  <2>5. /\ SuccessIsRecorded(j)' /\ RecordedIsSuccess(j)' /\ OneRecord(j)'
        /\ \A i \in Items \ {j} : \A m \in Nat :
              [item |-> i, reply |-> m] \in ledger' <=> [item |-> i, reply |-> m] \in ledger
    <3>1. CASE s = "success"
      BY <2>1, <2>2, <3>1, NewRecord
    <3>2. CASE s # "success"
      BY <1>4, <2>1, <2>2, <2>3, <2>4, <3>2, NoRecord
    <3>3. QED
      BY <3>1, <3>2
  <2>6. SenderIsAlone(j)'
    BY <1>3 DEF SenderIsAlone, Held
  <2>7. ASSUME NEW p \in Passes PROVE Reads(pass[p], j)'
    <3>1. Reopenings(j)' = Reopenings(j) /\ Reads(pass[p], j)
      BY <1>4, <2>3 DEF Reopenings, RowInv
    <3>2. QED
      BY <1>6, <2>4, <3>1 DEF Reads, Terminal
  <2>8. RowInv(j)'
    BY <2>5, <2>6, <2>7 DEF RowInv
  <2>9. \A p \in Passes : GoesOn(p)
    BY <1>6, PassStays
  <2>10. ASSUME NEW i \in Items \ {j} PROVE RowInv(i)'
    <3>1. SameRow(i)
      BY <1>3, <1>4, <2>1, <2>5 DEF SameRow, Moved, Status, Held
    <3>2. QED
      BY <1>4, <2>9, <3>1, RowKeeps DEF GoesOn
  <2>11. \A p \in Passes : ReadInv(pass[p])'
    BY <1>4, <2>9, ReadKeeps DEF GoesOn
  <2>12. QED
    BY <2>8, <2>10, <2>11 DEF LedgerInv
<1>7. QED
  BY <1>2, <1>5, <1>6

\* A pass that goes to the next row, or has settled its last one.
LEMMA NextRows ==
    ASSUME TypeOK, NEW p \in Passes, NEW j \in Items, NEW used, NEW waiting, NextRow(p, j, used, waiting),
           pass[p].at = "settle"
    PROVE  /\ \A q \in Passes \ {p} : pass'[q] = pass[q]
           /\ runner' = runner
           /\ \/ Fresh(pass'[p]) /\ pass'[p].rows = {} /\ pass'[p].at \in {"wait", "done"}
              \/ /\ pass'[p].rows = pass[p].rows \ {j} /\ pass'[p].used = pass[p].used \cup used
                 /\ pass'[p].at = "settle" /\ pass'[p].seen = pass[p].seen
                 /\ pass'[p].since = pass[p].since /\ pass'[p].current = pass[p].current
                 /\ pass'[p].old = pass[p].old /\ pass'[p].complete = pass[p].complete
<1> DEFINE rest  == pass[p].rows \ {j}
           young == pass[p].waiting \cup waiting
           r1 == [pass[p] EXCEPT !.rows = rest, !.used = @ \cup used, !.waiting = young]
           r2 == [NoPass EXCEPT !.at = "wait", !.waiting = young]
           r3 == [NoPass EXCEPT !.at = "done"]
<1>1. pass \in [Passes -> PassRecord] /\ pass[p] \in PassRecord
  BY DEF TypeOK, ProcessType
<1>2. PICK r \in {r1, r2, r3} : PassAs(p, r)
  <2> HIDE DEF r1, r2, r3
  <2>1. QED
    BY DEF NextRow, r1, r2, r3
<1>3. pass'[p] = r /\ runner' = runner /\ \A q \in Passes \ {p} : pass'[q] = pass[q]
  <2> HIDE DEF r1, r2, r3
  <2>1. QED
    BY <1>1, <1>2 DEF PassAs
<1>4. CASE r = r1
  <2>1. /\ r1.rows = pass[p].rows \ {j} /\ r1.used = pass[p].used \cup used
        /\ r1.at = "settle" /\ r1.seen = pass[p].seen /\ r1.since = pass[p].since /\ r1.current = pass[p].current
        /\ r1.old = pass[p].old /\ r1.complete = pass[p].complete
    BY <1>1 DEF PassRecord
  <2> HIDE DEF r1
  <2>2. QED
    BY <1>3, <1>4, <2>1
<1>5. CASE r = r2 \/ r = r3
  <2>1. Fresh(r2) /\ Fresh(r3)
    BY FreshReads
  <2>2. r2.rows = {} /\ r3.rows = {} /\ r2.at = "wait" /\ r3.at = "done"
    BY DEF NoPass
  <2> HIDE DEF r2, r3
  <2>3. QED
    BY <1>3, <1>5, <2>1, <2>2
<1>6. QED
  BY <1>2, <1>4, <1>5

\* What it is that a row claims: a reply to its recipient after its attempt; and when no reply of the other kind
\* is to be had, every one the pass has seen after that attempt is used.
LEMMA ClaimedReply ==
    ASSUME TypeOK, NEW p \in Passes, ReadInv(pass[p]), NEW j \in Items, NEW kind, NEW other,
           {kind, other} = {"ok", "no"}, NEW k \in Candidates(p, j, kind), Candidates(p, j, other) = {}
    PROVE  /\ k \in Nat /\ k \in 1 .. pass[p].seen /\ k \in 1 .. Len(channel) /\ k > pass[p].since[j] /\ k \notin pass[p].used
           /\ channel[k].to = Recipient[j] /\ channel[k].kind = kind
           /\ \A m \in 1 .. pass[p].seen :
                 m > pass[p].since[j] /\ channel[m].to = Recipient[j] /\ channel[m].kind # kind => m \in pass[p].used
<1>1. pass[p].seen \in Nat /\ pass[p].seen <= Len(channel) /\ Len(channel) \in Nat /\ pass[p].since[j] \in Nat
  BY DEF TypeOK, ProcessType, DiscordType, PassRecord, ReadInv
<1>2. \A m \in 1 .. Len(channel) : channel[m] \in Reply
  BY DEF TypeOK, DiscordType
<1>3. \A m \in 1 .. Len(channel) : channel[m].kind \in {kind, other}
  BY <1>2 DEF Reply
<1>4. \A m \in 1 .. pass[p].seen : m \in 1 .. Len(channel)
  BY <1>1
<1>5. /\ k \in 1 .. pass[p].seen /\ k > pass[p].since[j] /\ k \notin pass[p].used
      /\ channel[k].to = Recipient[j] /\ channel[k].kind = kind
  BY DEF Candidates
<1>6. ASSUME NEW m \in 1 .. pass[p].seen, m > pass[p].since[j], channel[m].to = Recipient[j], channel[m].kind # kind
      PROVE  m \in pass[p].used
  <2>1. channel[m].kind = other
    BY <1>3, <1>4, <1>6
  <2>2. m \notin Candidates(p, j, other)
    OBVIOUS
  <2>3. QED
    BY <1>6, <2>1, <2>2 DEF Candidates
<1>7. QED
  BY <1>1, <1>4, <1>5, <1>6

\* A row that claims a reply leaves the replies its pass has used explained.
LEMMA ReadSettles ==
    ASSUME LedgerInv, NEW p \in Passes, pass[p].at = "settle", NEW j \in Items, NEW kind, NEW other,
           {kind, other} = {"ok", "no"}, NEW k \in Candidates(p, j, kind), Candidates(p, j, other) = {},
           NextRow(p, j, {k}, {}), channel' = channel
    PROVE  ReadInv(pass[p])'
<1>1. TypeOK /\ ReadInv(pass[p])
  BY DEF LedgerInv, EngineInv
<1>2. ChannelGrows
  BY <1>1 DEF ChannelGrows, TypeOK, DiscordType
<1>3. CASE Fresh(pass'[p])
  BY <1>2, <1>3, ReadKeeps
<1>4. CASE /\ pass'[p].used = pass[p].used \cup {k} /\ pass'[p].at = "settle" /\ pass'[p].seen = pass[p].seen
  <2>1. pass'[p].seen <= Len(channel')
    BY <1>1, <1>4 DEF ReadInv
  <2>2. ASSUME NEW m \in pass[p].used PROVE m \in 1 .. pass'[p].seen /\ Explained(pass[p], m)'
    <3>1. m \in 1 .. pass[p].seen /\ Explained(pass[p], m)
      BY <1>1 DEF ReadInv
    <3>2. QED
      BY <1>4, <3>1 DEF Explained
  <2>3. k \in 1 .. pass'[p].seen /\ Explained(pass[p], k)'
    <3>1. /\ k \in 1 .. pass[p].seen /\ k > pass[p].since[j] /\ channel[k].to = Recipient[j] /\ channel[k].kind = kind
          /\ \A m \in 1 .. pass[p].seen :
                m > pass[p].since[j] /\ channel[m].to = Recipient[j] /\ channel[m].kind # kind => m \in pass[p].used
      BY <1>1, ClaimedReply
    <3>2. pass[p].since[j] \in Nat /\ pass[p].since[j] < k
      BY <1>1, <3>1 DEF TypeOK, ProcessType, PassRecord
    <3>3. QED
      BY <1>4, <3>1, <3>2 DEF Explained
  <2>4. QED
    BY <1>4, <2>1, <2>2, <2>3 DEF ReadInv
<1>5. QED
  BY <1>1, <1>3, <1>4, NextRows

\* A reply an item is settled by is evidence for whoever reads the history later: a refusal before it would have
\* been used, and the row that used it would have used this reply as well.
LEMMA SettledByEvidence ==
    ASSUME LedgerInv, NEW p \in Passes, NEW j \in pass[p].rows, j \in Items, Reopenings(j) = 0,
           NEW k \in Candidates(p, j, "ok"), Candidates(p, j, "no") = {},
           OnRecord(j, k)', attempt'[j].since = attempt[j].since, channel' = channel
    PROVE  Evidence(j, k)'
<1>1. TypeOK /\ ReadInv(pass[p]) /\ pass[p].since[j] = attempt[j].since
  BY DEF LedgerInv, EngineInv, RowInv, Reads
<1> DEFINE since == attempt[j].since
<1>2. /\ k \in Nat /\ k \in 1 .. pass[p].seen /\ k \in 1 .. Len(channel) /\ k > since /\ k \notin pass[p].used
      /\ channel[k].to = Recipient[j] /\ channel[k].kind = "ok"
      /\ \A m \in 1 .. pass[p].seen :
            m > since /\ channel[m].to = Recipient[j] /\ channel[m].kind # "ok" => m \in pass[p].used
  BY <1>1, ClaimedReply
<1>3. ASSUME NEW m \in 1 .. k, m > since, channel[m].to = Recipient[j], channel[m].kind # "ok" PROVE FALSE
  <2>1. pass[p].seen \in Nat
    BY <1>1 DEF TypeOK, ProcessType, PassRecord
  <2>2. m \in 1 .. pass[p].seen /\ m < k
    BY <1>2, <1>3, <2>1
  <2>3. Explained(pass[p], m)
    BY <1>1, <1>2, <1>3, <2>2 DEF ReadInv
  <2>4. PICK s \in Nat : s < m /\ \A n \in 1 .. pass[p].seen :
          n > s /\ channel[n].to = channel[m].to /\ channel[n].kind # channel[m].kind => n \in pass[p].used
    BY <2>3 DEF Explained
  <2>5. k > s
    BY <1>2, <2>2, <2>4
  <2>6. QED
    BY <1>2, <1>3, <2>4, <2>5
<1>4. k \in 1 .. Len(channel') /\ k > attempt'[j].since /\ channel'[k].to = Recipient[j] /\ channel'[k].kind = "ok"
  BY <1>2
<1>5. \A m \in 1 .. k : m > attempt'[j].since /\ channel'[m].to = Recipient[j] => channel'[m].kind = "ok"
  BY <1>3
<1>6. QED
  BY <1>4, <1>5 DEF Evidence

\* A pass that still holds a row somebody else has settled as a success does not find it refused.
LEMMA SuccessIsSeen ==
    ASSUME LedgerInv, NEW p \in Passes, NEW j \in pass[p].rows, j \in Items, Untouched(j), Status(j) = "success",
           NEW n \in Candidates(p, j, "no"), Candidates(p, j, "ok") = {}
    PROVE  FALSE
<1>1. TypeOK /\ ReadInv(pass[p]) /\ pass[p].since[j] = attempt[j].since
  BY DEF LedgerInv, EngineInv, RowInv, Reads, Untouched
<1>2. PICK k \in Nat : Evidence(j, k)
  BY DEF LedgerInv, RowInv, Reads, Untouched
<1> DEFINE since == attempt[j].since
<1>3. /\ n \in Nat /\ n \in 1 .. pass[p].seen /\ n > since /\ n \notin pass[p].used
      /\ channel[n].to = Recipient[j] /\ channel[n].kind = "no"
      /\ \A m \in 1 .. pass[p].seen :
            m > since /\ channel[m].to = Recipient[j] /\ channel[m].kind # "no" => m \in pass[p].used
  BY <1>1, ClaimedReply
<1>4. /\ k \in 1 .. Len(channel) /\ k > since /\ channel[k].to = Recipient[j] /\ channel[k].kind = "ok"
      /\ n > k
  <2>1. n \notin 1 .. k
    BY <1>2, <1>3 DEF Evidence
  <2>2. QED
    BY <1>2, <1>3, <2>1 DEF Evidence
<1>5. pass[p].seen \in Nat
  BY <1>1 DEF TypeOK, ProcessType, PassRecord
<1>6. k \in 1 .. pass[p].seen
  BY <1>3, <1>4, <1>5
<1>7. Explained(pass[p], k)
  BY <1>1, <1>3, <1>4, <1>6 DEF ReadInv
<1>8. PICK s \in Nat : s < k /\ \A m \in 1 .. pass[p].seen :
        m > s /\ channel[m].to = channel[k].to /\ channel[m].kind # channel[k].kind => m \in pass[p].used
  BY <1>7 DEF Explained
<1>9. QED
  BY <1>3, <1>4, <1>8

\* The rows of a pass are settled with what the history says of them, whatever has become of them since.
LEMMA PassLedger ==
    ASSUME LedgerInv, EngineInv', NEW p \in Passes, SettleRow(p)
    PROVE  LedgerInv'
<1>1. TypeOK /\ pass[p].at = "settle" /\ UNCHANGED <<channel, handed, retried>>
  BY DEF LedgerInv, EngineInv, SettleRow, discord, history
<1>2. PICK j \in First(pass[p].rows) :
          LET ok == Candidates(p, j, "ok") # {}
              no == Candidates(p, j, "no") # {}
          IN  \/ ok /\ ~no /\ RowSucceeds(p, j)
              \/ no /\ ~ok /\ RowFails(p, j)
              \/ (ok <=> no) /\ RowUnanswered(p, j)
  BY DEF SettleRow
<1>3. j \in pass[p].rows /\ j \in Items /\ RowInv(j)
  BY <1>1, <1>2 DEF First, TypeOK, ProcessType, PassRecord, LedgerInv
<1>4. ChannelGrows
  BY <1>1 DEF ChannelGrows, TypeOK, DiscordType
<1>5. attempt \in [Items -> AttemptRecord] /\ attempt[j] \in AttemptRecord
  BY <1>1, <1>3 DEF TypeOK, DatabaseType
\* The read attempt is closed, the others stay.
<1>6. ASSUME NEW phase, CloseReadAttempt(p, j, phase) PROVE \A i \in Items : attempt'[i].since = attempt[i].since
  <2>1. [attempt[j] EXCEPT !.phase = phase].since = attempt[j].since
    BY <1>5 DEF AttemptRecord
  <2>2. QED
    BY <1>3, <1>5, <1>6, <2>1 DEF CloseReadAttempt
\* The row is settled, and the other items and passes see no change but the new row of the ledger.
<1>7. ASSUME NEW s, s \in {"success", "failed"}, NEW used, NextRow(p, j, used, {}), ReadInv(pass[p])',
             \A i \in Items : attempt'[i].since = attempt[i].since, item' = [item EXCEPT ![j].status = s],
             SuccessIsRecorded(j)', RecordedIsSuccess(j)', OneRecord(j)',
             \A i \in Items \ {j} : \A m \in Nat :
                 [item |-> i, reply |-> m] \in ledger' <=> [item |-> i, reply |-> m] \in ledger,
             Reopenings(j) = 0 /\ s = "success" => \E k \in Nat : Evidence(j, k)'
      PROVE  LedgerInv'
  <2>1. Moved(j, s)
    BY <1>1, <1>3, <1>7, RowMoves
  <2>2. /\ \A q \in Passes \ {p} : pass'[q] = pass[q]
        /\ runner' = runner
        /\ \/ Fresh(pass'[p]) /\ pass'[p].rows = {}
           \/ /\ pass'[p].rows = pass[p].rows \ {j} /\ pass'[p].since = pass[p].since
              /\ pass'[p].current = pass[p].current
    BY <1>1, <1>3, <1>7, NextRows
  <2>3. ASSUME NEW i \in Items \ {j} PROVE RowInv(i)'
    <3>1. SameRow(i)
      BY <1>1, <1>7, <2>1, <2>2 DEF SameRow, Moved, Status, Held, Cur
    <3>2. \A q \in Passes : KeepsRow(q, i) \/ Fresh(pass'[q])
      BY <2>2 DEF KeepsRow
    <3>3. QED
      BY <1>4, <3>1, <3>2, RowKeeps
  <2>4. Reopenings(j)' = Reopenings(j)
    BY <1>1 DEF Reopenings
  <2>5. SenderIsAlone(j)'
    <3>1. Held(j)' => Held(j)
      BY <2>2 DEF Held, Cur
    <3>2. Reopenings(j) = 0 => Status(j) \in Terminal
      BY <1>3 DEF RowInv, Reads
    <3>3. QED
      BY <1>3, <2>4, <3>1, <3>2 DEF RowInv, SenderIsAlone, Terminal
  <2>6. ASSUME NEW q \in Passes PROVE Reads(pass[q], j)'
    <3>1. CASE q = p
      <4>1. j \notin pass'[p].rows
        BY <2>2
      <4>2. QED
        BY <3>1, <4>1 DEF Reads
    <3>2. CASE q # p
      <4>1. pass'[q] = pass[q] /\ Reads(pass[q], j)
        BY <1>3, <2>2, <3>2 DEF RowInv
      <4>2. Status(j)' = s
        BY <2>1 DEF Moved
      <4>3. QED
        BY <1>3, <1>7, <2>4, <4>1, <4>2 DEF Reads, Terminal
    <3>3. QED
      BY <3>1, <3>2
  <2>7. RowInv(j)'
    BY <1>7, <2>5, <2>6 DEF RowInv
  <2>8. ASSUME NEW q \in Passes PROVE ReadInv(pass[q])'
    <3>1. CASE q = p
      BY <1>7, <3>1
    <3>2. CASE q # p
      BY <1>4, <2>2, <3>2, PassStays, ReadKeeps DEF GoesOn
    <3>3. QED
      BY <3>1, <3>2
  <2>9. QED
    BY <2>3, <2>7, <2>8 DEF LedgerInv
<1>8. ASSUME Candidates(p, j, "no") = {}, RowSucceeds(p, j) PROVE LedgerInv'
  <2>1. PICK k \in First(Candidates(p, j, "ok")) :
          IF Recorded(j)
          THEN PassAs(p, [NoPass EXCEPT !.at = "failed"]) /\ UNCHANGED <<item, attempt, ledger>>
          ELSE /\ item' = [item EXCEPT ![j].status = "success"]
               /\ CloseReadAttempt(p, j, "confirmed")
               /\ ledger' = ledger \cup {[item |-> j, reply |-> k]}
               /\ NextRow(p, j, {k}, {})
    BY <1>8 DEF RowSucceeds
  <2>2. k \in Candidates(p, j, "ok")
    BY DEF First
  <2>3. CASE Recorded(j)
    <3>1. PassAs(p, [NoPass EXCEPT !.at = "failed"]) /\ UNCHANGED <<item, attempt, ledger>>
      BY <2>1, <2>3
    <3>2. runner' = runner
      BY <3>1 DEF PassAs
    <3>3. ASSUME NEW q \in Passes PROVE GoesOn(q) \/ Fresh(pass'[q])
      <4>1. pass'[q] = pass[q] \/ pass'[q] = [NoPass EXCEPT !.at = "failed"]
        BY <1>1, <3>1 DEF PassAs, TypeOK, ProcessType
      <4>2. QED
        BY <1>1, <4>1, PassStays, FreshReads
    <3>4. QED
      BY <1>1, <3>1, <3>2, <3>3, QuietRunner
  <2>4. CASE ~Recorded(j)
    <3>1. /\ item' = [item EXCEPT ![j].status = "success"]
          /\ ledger' = ledger \cup {[item |-> j, reply |-> k]}
          /\ NextRow(p, j, {k}, {})
          /\ \A i \in Items : attempt'[i].since = attempt[i].since
      BY <1>6, <2>1, <2>4
    <3>2. k \in Nat
      BY <1>1, <2>2 DEF Candidates
    <3>3. Status(j)' = "success"
      BY <1>1, <1>3, <3>1, RowMoves DEF Moved
    <3>4. /\ SuccessIsRecorded(j)' /\ RecordedIsSuccess(j)' /\ OneRecord(j)' /\ OnRecord(j, k)'
          /\ \A i \in Items \ {j} : \A m \in Nat :
                [item |-> i, reply |-> m] \in ledger' <=> [item |-> i, reply |-> m] \in ledger
      BY <1>3, <2>4, <3>1, <3>2, <3>3, NewRecord
    <3>5. ReadInv(pass[p])'
      BY <1>1, <1>3, <1>8, <2>2, <3>1, ReadSettles
    <3>6. Reopenings(j) = 0 => Evidence(j, k)'
      BY <1>1, <1>3, <1>8, <2>2, <3>1, <3>4, SettledByEvidence
    <3>7. QED
      BY <1>7, <3>1, <3>2, <3>4, <3>5, <3>6
  <2>5. QED
    BY <2>3, <2>4
<1>9. ASSUME Candidates(p, j, "ok") = {}, RowFails(p, j) PROVE LedgerInv'
  <2>1. PICK k \in First(Candidates(p, j, "no")) :
          /\ item' = [item EXCEPT ![j].status = "failed"]
          /\ CloseReadAttempt(p, j, "rejected")
          /\ NextRow(p, j, {k}, {})
          /\ UNCHANGED ledger
    BY <1>9 DEF RowFails
  <2>2. k \in Candidates(p, j, "no")
    BY DEF First
  <2>3. ReadInv(pass[p])'
    BY <1>1, <1>3, <1>9, <2>1, <2>2, ReadSettles
  <2>4. Untouched(j) => Status(j) # "success"
    BY <1>3, <1>9, <2>2, SuccessIsSeen
  <2>5. Status(j)' = "failed"
    BY <1>1, <1>3, <2>1, RowMoves DEF Moved
  <2>6. SuccessIsRecorded(j)' /\ RecordedIsSuccess(j)' /\ OneRecord(j)'
    BY <1>1, <1>3, <2>1, <2>4, <2>5, NoRecord
  <2>7. \A i \in Items : attempt'[i].since = attempt[i].since
    BY <1>6, <2>1
  <2>8. QED
    BY <1>7, <2>1, <2>3, <2>6, <2>7
<1>10. ASSUME RowUnanswered(p, j) PROVE LedgerInv'
  <2>1. /\ item' = item \/ item' = [item EXCEPT ![j].noReply = TRUE]
        /\ \E waiting : NextRow(p, j, {}, waiting)
        /\ UNCHANGED <<attempt, ledger>>
    BY <1>10 DEF RowUnanswered
  <2>2. ASSUME NEW i \in Items PROVE Status(i)' = Status(i)
    <3>1. [item[j] EXCEPT !.noReply = TRUE].status = item[j].status
      BY <1>1, <1>3 DEF TypeOK, DatabaseType, ItemRecord
    <3>2. QED
      BY <1>1, <1>3, <2>1, <3>1 DEF Status, TypeOK, DatabaseType
  <2>3. /\ \A q \in Passes \ {p} : pass'[q] = pass[q]
        /\ runner' = runner
        /\ \/ Fresh(pass'[p])
           \/ /\ pass'[p].rows = pass[p].rows \ {j} /\ pass'[p].since = pass[p].since
              /\ pass'[p].current = pass[p].current /\ pass'[p].seen = pass[p].seen
              /\ pass'[p].at = "settle" /\ pass'[p].used = pass[p].used
    <3>1. PICK waiting : NextRow(p, j, {}, waiting)
      BY <2>1
    <3>2. /\ \A q \in Passes \ {p} : pass'[q] = pass[q]
          /\ runner' = runner
          /\ \/ Fresh(pass'[p]) /\ pass'[p].rows = {}
             \/ /\ pass'[p].rows = pass[p].rows \ {j} /\ pass'[p].used = pass[p].used \cup {}
                /\ pass'[p].at = "settle" /\ pass'[p].seen = pass[p].seen
                /\ pass'[p].since = pass[p].since /\ pass'[p].current = pass[p].current
      BY <1>1, <1>3, <3>1, NextRows
    <3>3. QED
      BY <3>2
  <2>4. ASSUME NEW q \in Passes PROVE GoesOn(q) \/ Fresh(pass'[q])
    <3>1. CASE q = p
      BY <1>1, <2>3, <3>1 DEF GoesOn, SameRead, KeepsRow
    <3>2. CASE q # p
      BY <2>3, <3>2, PassStays
    <3>3. QED
      BY <3>1, <3>2
  <2>5. \A i \in Items : SameRow(i)
    BY <1>1, <2>1, <2>2, <2>3 DEF SameRow, Held, Cur
  <2>6. \A i \in Items : RowInv(i)'
    BY <1>4, <2>4, <2>5, RowKeeps DEF GoesOn
  <2>7. \A q \in Passes : ReadInv(pass[q])'
    BY <1>4, <2>4, ReadKeeps DEF GoesOn
  <2>8. QED
    BY <2>6, <2>7 DEF LedgerInv
<1>11. QED
  BY <1>2, <1>8, <1>9, <1>10

\* An operator declares an item distributed.
LEMMA ResolveLedger ==
    ASSUME LedgerInv, EngineInv', NEW j \in Items, ResolveSuccess(j)
    PROVE  LedgerInv'
<1>1. /\ TypeOK /\ Status(j) = "unknown" /\ ~Recorded(j)
      /\ item' = [item EXCEPT ![j].status = "success"]
      /\ ledger' = ledger \cup {[item |-> j, reply |-> 0]}
      /\ UNCHANGED <<attempt, channel, runner, pass, handed, retried>>
  BY DEF LedgerInv, EngineInv, ResolveSuccess, discord, process, history
<1>2. Moved(j, "success")
  BY <1>1, RowMoves
<1>3. Status(j)' = "success"
  BY <1>2 DEF Moved
<1>4. /\ SuccessIsRecorded(j)' /\ RecordedIsSuccess(j)' /\ OneRecord(j)' /\ OnRecord(j, 0)'
      /\ \A i \in Items \ {j} : \A m \in Nat :
            [item |-> i, reply |-> m] \in ledger' <=> [item |-> i, reply |-> m] \in ledger
  BY <1>1, <1>3, NewRecord
<1>5. ChannelGrows
  BY <1>1 DEF ChannelGrows, TypeOK, DiscordType
<1>6. \A p \in Passes : GoesOn(p)
  BY <1>1, PassStays
<1>7. ASSUME NEW i \in Items \ {j} PROVE RowInv(i)'
  <2>1. SameRow(i)
    BY <1>1, <1>2, <1>4 DEF SameRow, Moved, Status, Held, Cur
  <2>2. QED
    BY <1>5, <1>6, <2>1, RowKeeps DEF GoesOn
<1>8. RowInv(j)'
  <2>1. RowInv(j)
    BY DEF LedgerInv
  <2>2. ~Untouched(j)'
    BY <1>4 DEF Untouched, OnRecord
  <2>3. Reopenings(j)' = Reopenings(j)
    BY <1>1 DEF Reopenings
  <2>4. SenderIsAlone(j)'
    BY <1>1, <2>1, <2>3 DEF RowInv, SenderIsAlone, Held, Cur
  <2>5. ASSUME NEW p \in Passes PROVE Reads(pass[p], j)'
    BY <1>1, <1>3, <2>1, <2>2, <2>3 DEF RowInv, Reads, Terminal
  <2>6. QED
    BY <1>4, <2>4, <2>5 DEF RowInv
<1>9. \A p \in Passes : ReadInv(pass[p])'
  BY <1>5, <1>6, ReadKeeps DEF GoesOn
<1>10. QED
  BY <1>7, <1>8, <1>9 DEF LedgerInv

\* An operator, or retry-unknown, puts items back in the queue.
LEMMA ReopenLedger ==
    ASSUME LedgerInv, EngineInv', RetryUnknown \/ \E j \in Items : ResolvePending(j)
    PROVE  LedgerInv'
<1>1. TypeOK /\ UNCHANGED <<attempt, ledger, channel, runner>>
  BY DEF LedgerInv, EngineInv, RetryUnknown, ResolvePending, EndRequest, discord, process
<1>2. \A i \in Items : handed[i] \in Nat /\ retried[i] \in Nat
  BY <1>1 DEF TypeOK, HistoryType
<1>3. ChannelGrows
  BY <1>1 DEF ChannelGrows, TypeOK, DiscordType
<1>4. ASSUME NEW p \in Passes PROVE GoesOn(p) \/ Fresh(pass'[p])
  <2>1. pass'[p] = pass[p] \/ pass'[p] = NoPass
    BY <1>1 DEF RetryUnknown, ResolvePending, EndRequest, process, TypeOK, ProcessType
  <2>2. QED
    BY <1>1, <2>1, PassStays, FreshReads
<1>5. ASSUME NEW i \in Items
      PROVE  \/ Status(i)' = Status(i) /\ handed'[i] = handed[i] /\ retried'[i] = retried[i]
             \/ Status(i)' = "pending" /\ Reopenings(i)' # 0
  <2>1. CASE RetryUnknown
    <3>1. CASE i \in Reopened
      <4>1. item'[i] = [item[i] EXCEPT !.status = "pending", !.noReply = FALSE] /\ retried'[i] = retried[i] + 1
            /\ handed'[i] = handed[i]
        BY <2>1, <3>1 DEF RetryUnknown
      <4>2. Status(i)' = "pending"
        BY <1>1, <4>1 DEF Status, TypeOK, DatabaseType, ItemRecord
      <4>3. Reopenings(i)' # 0
        BY <1>2, <4>1 DEF Reopenings
      <4>4. QED
        BY <4>2, <4>3
    <3>2. CASE i \notin Reopened
      BY <2>1, <3>2 DEF RetryUnknown, Status
    <3>3. QED
      BY <3>1, <3>2
  <2>2. ASSUME NEW j \in Items, ResolvePending(j)
        PROVE  \/ Status(i)' = Status(i) /\ handed'[i] = handed[i] /\ retried'[i] = retried[i]
               \/ Status(i)' = "pending" /\ Reopenings(i)' # 0
    <3>1. Moved(j, "pending")
      BY <1>1, <2>2, RowMoves DEF ResolvePending
    <3>2. handed' = [handed EXCEPT ![j] = @ + 1] /\ retried' = retried
      BY <2>2 DEF ResolvePending
    <3>3. CASE i = j
      <4>1. handed'[i] = handed[i] + 1 /\ retried'[i] = retried[i]
        BY <1>1, <3>2, <3>3 DEF TypeOK, HistoryType
      <4>2. QED
        BY <1>2, <3>1, <3>3, <4>1 DEF Moved, Reopenings
    <3>4. CASE i # j
      BY <1>1, <3>1, <3>2, <3>4 DEF Moved, Status, TypeOK, HistoryType
    <3>5. QED
      BY <3>3, <3>4
  <2>3. QED
    BY <2>1, <2>2
<1>6. ASSUME NEW i \in Items PROVE RowInv(i)'
  <2>1. CASE Status(i)' = Status(i) /\ handed'[i] = handed[i] /\ retried'[i] = retried[i]
    <3>1. SameRow(i)
      BY <1>1, <2>1 DEF SameRow, Held, Cur
    <3>2. QED
      BY <1>3, <1>4, <3>1, RowKeeps DEF GoesOn
  <2>2. CASE Status(i)' = "pending" /\ Reopenings(i)' # 0
    BY <1>1, <2>2, RowReopened
  <2>3. QED
    BY <1>5, <2>1, <2>2
<1>7. \A p \in Passes : ReadInv(pass[p])'
  BY <1>3, <1>4, ReadKeeps DEF GoesOn
<1>8. QED
  BY <1>6, <1>7 DEF LedgerInv

\* Recovery moves items to `unknown' and closes their attempts.
LEMMA RecoverLedger ==
    ASSUME LedgerInv, EngineInv', Recover
    PROVE  LedgerInv'
<1>1. TypeOK /\ UNCHANGED <<ledger, channel, pass, handed, retried>> /\ runner'.pc = "idle"
  BY DEF LedgerInv, EngineInv, Recover, RunnerAs, NoRunner, discord, history
<1>2. \A i \in Items : ~Held(i)'
  BY <1>1 DEF Held, Sending
<1>3. ASSUME NEW i \in Items
      PROVE  /\ Status(i)' = Status(i) \/ (Status(i) \notin Terminal /\ Status(i)' = "unknown")
             /\ attempt'[i].since = attempt[i].since
  <2>1. item[i] \in ItemRecord /\ attempt[i] \in AttemptRecord
    BY <1>1 DEF TypeOK, DatabaseType
  <2>2. item'[i] = item[i] \/ item'[i] = [item[i] EXCEPT !.status = Recovered(@)]
    BY DEF Recover
  <2>3. attempt'[i] = attempt[i] \/ attempt'[i] = [attempt[i] EXCEPT !.phase = "aborted"]
    BY DEF Recover
  <2>4. attempt'[i].since = attempt[i].since
    BY <2>1, <2>3 DEF AttemptRecord
  <2>5. item'[i].status = item[i].status \/ item'[i].status = Recovered(item[i].status)
    BY <2>1, <2>2 DEF ItemRecord
  <2>6. QED
    BY <2>4, <2>5 DEF Recovered, Status
<1>4. ChannelGrows
  BY <1>1 DEF ChannelGrows, TypeOK, DiscordType
<1>5. \A p \in Passes : GoesOn(p)
  BY <1>1, PassStays
<1>6. ASSUME NEW i \in Items PROVE RowInv(i)'
  <2>1. CASE Status(i)' = Status(i)
    <3>1. SameRow(i)
      BY <1>1, <1>2, <1>3, <2>1 DEF SameRow
    <3>2. QED
      BY <1>4, <1>5, <3>1, RowKeeps DEF GoesOn
  <2>2. CASE Status(i) \notin Terminal /\ Status(i)' = "unknown"
    <3>1. RowInv(i) /\ Status(i) # "success"
      BY <2>2 DEF LedgerInv, Terminal
    <3>2. SuccessIsRecorded(i)' /\ RecordedIsSuccess(i)' /\ OneRecord(i)'
      BY <1>1, <2>2, <3>1, NoRecord
    <3>3. SenderIsAlone(i)'
      BY <1>2 DEF SenderIsAlone
    <3>4. ASSUME NEW p \in Passes PROVE Reads(pass[p], i)'
      <4>1. Reopenings(i)' = Reopenings(i) /\ Reads(pass[p], i)
        BY <1>1, <3>1 DEF Reopenings, RowInv
      <4>2. QED
        BY <1>1, <2>2, <4>1 DEF Reads
    <3>5. QED
      BY <3>2, <3>3, <3>4 DEF RowInv
  <2>3. QED
    BY <1>3, <2>1, <2>2
<1>7. \A p \in Passes : ReadInv(pass[p])'
  BY <1>4, <1>5, ReadKeeps DEF GoesOn
<1>8. QED
  BY <1>6, <1>7 DEF LedgerInv

\* The bot answers.
LEMMA BotLedger ==
    ASSUME EngineAssumption, LedgerInv, EngineInv', NEW j \in Items, BotReplies(j)
    PROVE  LedgerInv'
<1>1. TypeOK /\ UNCHANGED <<item, attempt, ledger, runner, pass, handed, retried>>
  BY DEF LedgerInv, EngineInv, BotReplies, database, process, history
<1>2. ChannelGrows
  <2>1. PICK r \in Reply : channel' = Append(channel, r)
    BY DEF BotReplies, Reply, EngineAssumption
  <2>2. channel \in Seq(Reply)
    BY <1>1 DEF TypeOK, DiscordType
  <2>3. QED
    BY <2>1, <2>2 DEF ChannelGrows
<1>3. \A p \in Passes : GoesOn(p)
  BY <1>1, PassStays
<1>4. \A i \in Items : SameRow(i)
  BY <1>1 DEF SameRow, Status, Held, Cur
<1>5. \A i \in Items : RowInv(i)'
  BY <1>2, <1>3, <1>4, RowKeeps DEF GoesOn
<1>6. \A p \in Passes : ReadInv(pass[p])'
  BY <1>2, <1>3, ReadKeeps DEF GoesOn
<1>7. QED
  BY <1>5, <1>6 DEF LedgerInv

\* The history is read, all of it or the latest part.
LEMMA ScanLedger ==
    ASSUME LedgerInv, EngineInv', NEW p \in Passes, Scan(p)
    PROVE  LedgerInv'
<1>1. TypeOK /\ UNCHANGED <<item, attempt, ledger, channel, handed, retried>> /\ pass[p].at = "scan"
  BY DEF LedgerInv, EngineInv, Scan, database, discord, history
<1>2. pass \in [Passes -> PassRecord] /\ pass[p] \in PassRecord
  BY <1>1 DEF TypeOK, ProcessType
<1>3. CASE PassAs(p, [NoPass EXCEPT !.at = "failed"])
  <2>1. ASSUME NEW q \in Passes PROVE GoesOn(q) \/ Fresh(pass'[q])
    <3>1. pass'[q] = pass[q] \/ pass'[q] = [NoPass EXCEPT !.at = "failed"]
      BY <1>2, <1>3 DEF PassAs
    <3>2. QED
      BY <1>1, <3>1, PassStays, FreshReads
  <2>2. runner' = runner
    BY <1>3 DEF PassAs
  <2>3. QED
    BY <1>1, <2>1, <2>2, QuietRunner
<1>4. ASSUME NEW n \in 0 .. Len(channel), NEW complete \in BOOLEAN, NEW at, at # "scan",
             PassAs(p, [pass[p] EXCEPT !.seen = n, !.complete = complete, !.at = at])
      PROVE  LedgerInv'
  <2> DEFINE r == [pass[p] EXCEPT !.seen = n, !.complete = complete, !.at = at]
  <2>1. r.rows = pass[p].rows /\ r.current = pass[p].current /\ r.since = pass[p].since /\ r.used = pass[p].used
        /\ r.seen = n /\ r.at = at
    BY <1>2 DEF PassRecord
  <2>2. pass'[p] = r /\ runner' = runner /\ \A q \in Passes \ {p} : pass'[q] = pass[q]
    <3> HIDE DEF r
    <3>1. PassAs(p, r)
      BY <1>4 DEF r
    <3>2. QED
      BY <1>2, <3>1 DEF PassAs
  <2> HIDE DEF r
  <2>3. ChannelGrows
    BY <1>1 DEF ChannelGrows, TypeOK, DiscordType
  <2>4. \A i \in Items : SameRow(i)
    BY <1>1, <2>2 DEF SameRow, Status, Held, Cur
  <2>5. \A q \in Passes : \A i \in Items : KeepsRow(q, i)
    BY <2>1, <2>2 DEF KeepsRow
  <2>6. \A i \in Items : RowInv(i)'
    BY <2>3, <2>4, <2>5, RowKeeps
  <2>7. ASSUME NEW q \in Passes PROVE ReadInv(pass[q])'
    <3>1. CASE q = p
      <4>1. pass[p].used = {}
        BY <1>1 DEF LedgerInv, ReadInv
      <4>2. pass'[p].used = {} /\ pass'[p].seen = n /\ n <= Len(channel)
        BY <1>1, <2>1, <2>2, <4>1 DEF TypeOK, DiscordType
      <4>3. QED
        BY <1>1, <3>1, <4>2 DEF ReadInv
    <3>2. CASE q # p
      BY <2>2, <2>3, <3>2, PassStays, ReadKeeps DEF GoesOn
    <3>3. QED
      BY <3>1, <3>2
  <2>8. QED
    BY <2>6, <2>7 DEF LedgerInv
<1>5. QED
  BY <1>3, <1>4 DEF Scan

\* What a step of a task or of a request does to the passes.
LEMMA PassesGoOn ==
    ASSUME TypeOK,
           \/ pass' = pass
           \/ \E r \in {NoPass} \cup {ReadUnknown(again) : again \in BOOLEAN} \cup {[NoPass EXCEPT !.at = "done"]} :
                 \E p \in Passes : pass' = [pass EXCEPT ![p] = r]
           \/ pass' = [p \in Passes |-> NoPass]
    PROVE  \A p \in Passes : GoesOn(p) \/ Fresh(pass'[p])
<1>1. CASE pass' = pass
  BY <1>1, PassStays
<1>2. ASSUME NEW r \in {NoPass} \cup {ReadUnknown(again) : again \in BOOLEAN} \cup {[NoPass EXCEPT !.at = "done"]},
             NEW q \in Passes, pass' = [pass EXCEPT ![q] = r], NEW p \in Passes
      PROVE  GoesOn(p) \/ Fresh(pass'[p])
  <2>1. Fresh(r)
    BY FreshReads
  <2>2. pass'[p] = r \/ pass'[p] = pass[p]
    BY <1>2 DEF TypeOK, ProcessType
  <2>3. QED
    BY <2>1, <2>2, PassStays
<1>3. CASE pass' = [p \in Passes |-> NoPass]
  BY <1>3, FreshReads
<1>4. QED
  BY <1>1, <1>2, <1>3

\* The invariant is inductive.
LEMMA LedgerInvStep == EngineAssumption /\ LedgerInv /\ [Next]_vars => LedgerInv'
<1> SUFFICES ASSUME EngineAssumption, LedgerInv, [Next]_vars PROVE LedgerInv'
  OBVIOUS
<1>1. EngineInv'
  BY EngineInvStep DEF LedgerInv
<1>2. TypeOK /\ runner \in RunnerRecord /\ pass \in [Passes -> PassRecord] /\ "sweep" \in Passes /\ "api" \in Passes
  BY DEF LedgerInv, EngineInv, TypeOK, ProcessType, Passes
\* The task moves on, or ends, without an item.
<1>3. ASSUME UNCHANGED <<item, attempt, ledger, channel, handed, retried>>, runner'.pc \notin Sending,
             \/ pass' = pass
             \/ \E r \in {NoPass} \cup {ReadUnknown(again) : again \in BOOLEAN} \cup {[NoPass EXCEPT !.at = "done"]} :
                   \E p \in Passes : pass' = [pass EXCEPT ![p] = r]
             \/ pass' = [p \in Passes |-> NoPass]
      PROVE  LedgerInv'
  BY <1>1, <1>2, <1>3, PassesGoOn, QuietRunner
\* The runner is where it was.
<1>4. ASSUME UNCHANGED <<item, attempt, ledger, channel, handed, retried>>,
             runner'.pc = runner.pc, runner'.cur = runner.cur,
             \/ pass' = pass
             \/ \E r \in {NoPass} \cup {ReadUnknown(again) : again \in BOOLEAN} \cup {[NoPass EXCEPT !.at = "done"]} :
                   \E p \in Passes : pass' = [pass EXCEPT ![p] = r]
             \/ pass' = [p \in Passes |-> NoPass]
      PROVE  LedgerInv'
  BY <1>1, <1>2, <1>4, PassesGoOn, QuietRunner
<1>5. CASE UNCHANGED vars
  BY <1>4, <1>5 DEF vars, database, discord, process, history
<1>6. CASE RunnerStep
  <2>1. CASE AcquireToken
    <3>1. runner'.pc \in {"final", "check"}
      BY <1>2, <2>1, TurnBegins
    <3>2. QED
      BY <1>3, <2>1, <3>1 DEF AcquireToken, RunnerAs, database, discord, history, Sending
  <2>2. CASE CheckRoleAndCredential
    <3>1. runner'.pc \in {"final", "claim"}
      BY <1>2, <2>2, TurnBegins
    <3>2. QED
      BY <1>3, <2>2, <3>1 DEF CheckRoleAndCredential, RunnerAs, database, discord, history, Sending
  <2>3. CASE Invoke
    <3>1. runner'.pc \in {"mark", "settle"} /\ runner'.cur = runner.cur /\ runner.pc = "exec"
      BY <1>2, <2>3 DEF Invoke, RunnerAs, Settled, RunnerRecord
    <3>2. UNCHANGED <<item, attempt, ledger, channel, handed, retried>> /\ pass' = pass
      BY <2>3 DEF Invoke, RunnerAs, database, history
    <3>3. QED
      BY <1>1, <1>2, <3>1, <3>2, PassesGoOn, QuietRunner DEF Sending
  <2>4. CASE StartSweep
    <3>1. runner'.pc \in {"finishing", "resettling"}
      BY <1>2, <2>4 DEF StartSweep, RunnerRecord
    <3>2. \E again \in BOOLEAN : pass' = [pass EXCEPT !["sweep"] = ReadUnknown(again)]
      BY <2>4 DEF StartSweep
    <3>3. UNCHANGED <<item, attempt, ledger, channel, handed, retried>>
      BY <2>4 DEF StartSweep, database, discord, history
    <3>4. QED
      BY <1>2, <1>3, <3>1, <3>2, <3>3 DEF Sending
  <2>5. CASE EndSweep
    <3>1. runner'.pc \in {"close", "judge"}
      BY <1>2, <2>5 DEF EndSweep, RunnerRecord
    <3>2. QED
      BY <1>2, <1>3, <2>5, <3>1 DEF EndSweep, database, discord, history, Sending
  <2>6. CASE WaitForGrace
    <3>1. UNCHANGED <<item, attempt, ledger, channel, handed, retried, runner>>
      BY <2>6 DEF WaitForGrace, PassAs, database, discord, history
    <3>2. \E r \in {ReadUnknown(FALSE), [NoPass EXCEPT !.at = "done"]} : pass' = [pass EXCEPT !["sweep"] = r]
      BY <2>6 DEF WaitForGrace, PassAs
    <3>3. QED
      BY <1>2, <1>4, <3>1, <3>2
  <2>7. CASE Judge
    <3>1. runner'.pc \notin Sending
      BY <1>2, <2>7 DEF Judge, RunnerAs, Break, NextTurn, RunnerRecord, Sending
    <3>2. QED
      BY <1>3, <2>7, <3>1 DEF Judge, RunnerAs, database, discord, history
  <2>8. CASE Close \/ Cancelled
    BY <1>2, <1>3, <2>8 DEF Close, Cancelled, RunnerGone, RunnerAs, NoRunner, discord, history, Sending
  <2>9. QED
    BY <1>1, <1>6, <2>1, <2>2, <2>3, <2>4, <2>5, <2>6, <2>7, <2>8, ClaimLedger, MarkLedger, SettleLedger
       DEF RunnerStep, Settling
<1>7. ASSUME NEW p \in Passes, PassStep(p) PROVE LedgerInv'
  <2>1. CASE ReadClock(p)
    <3>1. UNCHANGED <<item, attempt, ledger, channel, handed, retried, runner>>
      BY <2>1 DEF ReadClock, PassAs, database, discord, history
    <3>2. ASSUME NEW q \in Passes PROVE GoesOn(q)
      <4>1. CASE q = p
        <5>1. pass'[p] = [pass[p] EXCEPT !.at = "settle"]
          BY <1>2, <2>1 DEF ReadClock, PassAs
        <5>2. QED
          BY <1>2, <4>1, <5>1 DEF GoesOn, SameRead, KeepsRow, PassRecord
      <4>2. CASE q # p
        <5>1. pass'[q] = pass[q]
          BY <1>2, <2>1, <4>2 DEF ReadClock, PassAs
        <5>2. QED
          BY <5>1, PassStays
      <4>3. QED
        BY <4>1, <4>2
    <3>3. QED
      BY <1>1, <3>1, <3>2, QuietRunner
  <2>2. QED
    BY <1>1, <1>7, <2>1, ScanLedger, PassLedger DEF PassStep
<1>8. CASE OperatorStep
  <2>1. CASE RunJob
    BY <1>3, <2>1 DEF RunJob, RunnerAs, NoRunner, discord, history, Sending
  <2>2. CASE PauseJob
    <3>1. runner'.pc = runner.pc /\ runner'.cur = runner.cur
      BY <1>2, <2>2 DEF PauseJob, RunnerAs, RunnerRecord
    <3>2. QED
      BY <1>4, <2>2, <3>1 DEF PauseJob, RunnerAs, database, discord, history
  <2>3. CASE StopJob
    <3>1. runner'.pc = runner.pc /\ runner'.cur = runner.cur
      BY <1>2, <2>3 DEF StopJob, RunnerRecord
    <3>2. QED
      BY <1>4, <2>3, <3>1 DEF StopJob, discord, history
  <2>4. CASE StopFinish
    BY <1>4, <2>4 DEF StopFinish, discord, history
  <2>5. CASE StartRequest
    BY <1>2, <1>4, <2>5 DEF StartRequest, database, discord, history
  <2>6. CASE FinishReconcile
    BY <1>2, <1>4, <2>6 DEF FinishReconcile, EndRequest, database, discord, history
  <2>7. QED
    BY <1>1, <1>8, <2>1, <2>2, <2>3, <2>4, <2>5, <2>6, ReopenLedger, ResolveLedger DEF OperatorStep
<1>9. CASE FaultStep
  <2>1. CASE WorkerError
    BY <1>2, <1>3, <2>1 DEF WorkerError, RunnerGone, NoRunner, discord, history, Sending
  <2>2. CASE Cancel
    BY <1>2, <1>3, <2>2 DEF Cancel, RunnerGone, NoRunner, database, discord, history, Sending
  <2>3. CASE Crash
    BY <1>3, <2>3 DEF Crash, NoRunner, database, discord, history, Sending
  <2>4. QED
    BY <1>1, <1>9, <2>1, <2>2, <2>3, RecoverLedger DEF FaultStep
<1>10. ASSUME NEW i \in Items, GracePasses(i) PROVE LedgerInv'
  <2>1. UNCHANGED <<item, attempt, ledger, channel, handed, retried, runner>>
    BY <1>10 DEF GracePasses, database, history
  <2>2. ASSUME NEW p \in Passes PROVE GoesOn(p)
    <3>1. \E old : pass'[p] = [pass[p] EXCEPT !.old = old]
      BY <1>10 DEF GracePasses
    <3>2. QED
      BY <1>2, <3>1 DEF GoesOn, SameRead, KeepsRow, PassRecord
  <2>3. QED
    BY <1>1, <2>1, <2>2, QuietRunner
<1>11. CASE BotStep
  BY <1>1, <1>10, <1>11, BotLedger DEF BotStep
<1>12. QED
  BY <1>5, <1>6, <1>7, <1>8, <1>9, <1>11 DEF Next

\* The invariant holds at first: nothing is recorded and nothing has been read.
LEMMA LedgerInvInit == EngineAssumption /\ Init => LedgerInv
<1> SUFFICES ASSUME EngineAssumption, Init PROVE LedgerInv
  OBVIOUS
<1>1. EngineInv
  BY EngineInvInit
<1>2. ledger = {} /\ runner.pc \notin Sending /\ \A i \in Items : Status(i) = "pending"
  BY DEF Init, NoRunner, Sending, Status
<1>3. \A p \in Passes : pass[p].rows = {} /\ pass[p].used = {} /\ pass[p].seen = 0
  BY DEF Init, NoPass
<1>4. ASSUME NEW i \in Items PROVE RowInv(i)
  <2>1. SuccessIsRecorded(i) /\ RecordedIsSuccess(i) /\ OneRecord(i) /\ SenderIsAlone(i)
    BY <1>2 DEF SuccessIsRecorded, RecordedIsSuccess, OneRecord, SenderIsAlone, OnRecord, Held
  <2>2. \A p \in Passes : Reads(pass[p], i)
    BY <1>3 DEF Reads
  <2>3. QED
    BY <2>1, <2>2 DEF RowInv
<1>5. \A p \in Passes : ReadInv(pass[p])
  BY <1>1, <1>3 DEF ReadInv, EngineInv, TypeOK, DiscordType
<1>6. QED
  BY <1>1, <1>4, <1>5 DEF LedgerInv

\* What the ledger says of an item is what its status says: no order of the runner, the passes, the operators and
\* the crashes records an item twice, loses a recorded success or reports one that is not on record.
THEOREM LedgerIsTrue == Spec => []LedgerMatchesItems
<1>1. Init => LedgerInv
  BY LedgerInvInit, EngineAssumption
<1>2. LedgerInv /\ [Next]_vars => LedgerInv'
  BY LedgerInvStep, EngineAssumption
<1>3. LedgerInv => LedgerMatchesItems
  <2>1. ASSUME LedgerInv, NEW i \in Items
        PROVE  /\ Status(i) = "success" => Recorded(i)
               /\ Recorded(i) /\ Untouched(i) => Status(i) = "success"
               /\ \A r, s \in ledger : r.item = i /\ s.item = i => r = s
    <3>1. RowInv(i)
      BY <2>1 DEF LedgerInv
    <3>2. \A r \in ledger : r.item = i => r.reply \in Nat /\ r = [item |-> i, reply |-> r.reply]
      BY <2>1 DEF LedgerInv, EngineInv, TypeOK, DatabaseType
    <3>3. Recorded(i) => \E k \in Nat : OnRecord(i, k)
      BY <3>2 DEF Recorded, OnRecord
    <3>4. \A k \in Nat : OnRecord(i, k) => Recorded(i)
      BY DEF Recorded, OnRecord
    <3>5. ASSUME NEW r \in ledger, NEW s \in ledger, r.item = i, s.item = i PROVE r = s
      <4>1. OnRecord(i, r.reply) /\ OnRecord(i, s.reply)
        BY <3>2, <3>5 DEF OnRecord
      <4>2. r.reply = s.reply
        BY <3>1, <3>2, <3>5, <4>1 DEF RowInv, OneRecord
      <4>3. QED
        BY <3>2, <3>5, <4>2
    <3>6. QED
      BY <3>1, <3>3, <3>4, <3>5 DEF RowInv, SuccessIsRecorded, RecordedIsSuccess
  <2>2. ASSUME LedgerInv, NEW r \in ledger, NEW s \in ledger, r.item = s.item PROVE r = s
    <3>1. r.item \in Items
      BY <2>2 DEF LedgerInv, EngineInv, TypeOK, DatabaseType
    <3>2. QED
      BY <2>1, <2>2, <3>1
  <2>3. QED
    BY <2>1, <2>2 DEF LedgerMatchesItems
<1>4. QED
  BY <1>1, <1>2, <1>3, PTL DEF Spec

\* A success is not touched by a step, and nothing is taken from the ledger.
LEMMA SuccessUntouched ==
    ASSUME TypeOK, [Next]_vars, NEW i \in Items, Status(i) = "success", Untouched(i)
    PROVE  Untouched(i)' /\ ledger \subseteq ledger'
<1> DEFINE Goal == Untouched(i)' /\ ledger \subseteq ledger'
<1>1. ASSUME ledger' = ledger, handed'[i] = handed[i], retried'[i] = retried[i] PROVE Goal
  BY <1>1 DEF Untouched, Reopenings
<1>2. ASSUME UNCHANGED <<ledger, handed, retried>> PROVE Goal
  BY <1>1, <1>2
<1>3. ASSUME NEW j, NEW k, ledger' = ledger \cup {[item |-> j, reply |-> k]}, j # i \/ k # 0,
             handed' = handed, retried' = retried
      PROVE  Goal
  <2>1. [item |-> j, reply |-> k] # [item |-> i, reply |-> 0]
    BY <1>3
  <2>2. QED
    BY <1>3, <2>1 DEF Untouched, Reopenings
<1>4. CASE UNCHANGED vars
  BY <1>2, <1>4 DEF vars, database, history
<1>5. CASE RunnerStep
  <2>1. CASE ConfirmSuccess
    <3>1. \A k \in Linked("ok") : k # 0
      BY DEF Linked, TypeOK, DiscordType
    <3>2. ledger' = ledger \/ \E k \in Linked("ok") : ledger' = ledger \cup {[item |-> Cur, reply |-> k]}
      BY <2>1 DEF ConfirmSuccess, First
    <3>3. handed' = handed /\ retried' = retried
      BY <2>1 DEF ConfirmSuccess, history
    <3>4. QED
      BY <1>2, <1>3, <3>1, <3>2, <3>3
  <2>2. CASE AcquireToken \/ CheckRoleAndCredential \/ ClaimNext \/ SessionError \/ FailBeforeSend \/ Invoke \/ MarkSent
    BY <1>2, <2>2 DEF AcquireToken, CheckRoleAndCredential, ClaimNext, SessionError, FailBeforeSend, Invoke, MarkSent,
                      database, history
  <2>3. CASE ConfirmFailed \/ ConfirmUnknown \/ SettleError \/ StartSweep \/ EndSweep \/ WaitForGrace \/ Judge \/ Close
             \/ Cancelled
    BY <1>2, <2>3 DEF ConfirmFailed, ConfirmUnknown, SettleError, StartSweep, EndSweep, WaitForGrace, Judge, Close,
                      Cancelled, database, history
  <2>4. QED
    BY <1>5, <2>1, <2>2, <2>3 DEF RunnerStep
<1>6. ASSUME NEW p \in Passes, PassStep(p) PROVE Goal
  <2>1. CASE Scan(p) \/ ReadClock(p)
    BY <1>2, <2>1 DEF Scan, ReadClock, database, history
  <2>2. CASE SettleRow(p)
    <3>1. \A j : \A k \in Candidates(p, j, "ok") : k # 0
      BY DEF Candidates, TypeOK, ProcessType, PassRecord
    <3>2. ledger' = ledger \/ \E j : \E k \in Candidates(p, j, "ok") : ledger' = ledger \cup {[item |-> j, reply |-> k]}
      BY <2>2 DEF SettleRow, RowSucceeds, RowFails, RowUnanswered, First
    <3>3. handed' = handed /\ retried' = retried
      BY <2>2 DEF SettleRow, history
    <3>4. QED
      BY <1>2, <1>3, <3>1, <3>2, <3>3
  <2>3. QED
    BY <1>6, <2>1, <2>2 DEF PassStep
<1>7. CASE OperatorStep
  <2>1. CASE RunJob \/ PauseJob \/ StopJob \/ StopFinish \/ StartRequest \/ FinishReconcile
    BY <1>2, <2>1 DEF RunJob, PauseJob, StopJob, StopFinish, StartRequest, FinishReconcile, database, history
  <2>2. CASE RetryUnknown
    <3>1. i \notin Reopened
      BY DEF Reopened
    <3>2. QED
      BY <1>1, <2>2, <3>1 DEF RetryUnknown
  <2>3. ASSUME NEW j \in Items, ResolveSuccess(j) PROVE Goal
    <3>1. j # i
      BY <2>3 DEF ResolveSuccess
    <3>2. QED
      BY <1>3, <2>3, <3>1 DEF ResolveSuccess, history
  <2>4. ASSUME NEW j \in Items, ResolvePending(j) PROVE Goal
    <3>1. j # i
      BY <2>4 DEF ResolvePending
    <3>2. ledger' = ledger /\ handed'[i] = handed[i] /\ retried'[i] = retried[i]
      BY <2>4, <3>1 DEF ResolvePending, TypeOK, HistoryType
    <3>3. QED
      BY <1>1, <3>2
  <2>5. QED
    BY <1>7, <2>1, <2>2, <2>3, <2>4 DEF OperatorStep
<1>8. CASE FaultStep
  BY <1>2, <1>8 DEF FaultStep, WorkerError, Cancel, Crash, Recover, database, history
<1>9. CASE BotStep
  BY <1>2, <1>9 DEF BotStep, BotReplies, GracePasses, database, history
<1>10. QED
  BY <1>4, <1>5, <1>6, <1>7, <1>8, <1>9 DEF Next

\* A success that the operators left alone stays one, whichever pass or run still holds the item.
THEOREM SuccessesStay == Spec => SuccessIsKept
<1>1. Init => LedgerInv
  BY LedgerInvInit, EngineAssumption
<1>2. LedgerInv /\ [Next]_vars => LedgerInv'
  BY LedgerInvStep, EngineAssumption
<1>3. LedgerInv /\ [Next]_vars
      => [\A i \in Items : Status(i) = "success" /\ Untouched(i) => item'[i].status = "success"]_vars
  <2>1. ASSUME LedgerInv, [Next]_vars, NEW i \in Items, Status(i) = "success", Untouched(i)
        PROVE  item'[i].status = "success"
    <3>1. Untouched(i)' /\ ledger \subseteq ledger'
      BY <2>1, SuccessUntouched DEF LedgerInv, EngineInv
    <3>2. PICK k \in Nat : OnRecord(i, k)
      BY <2>1 DEF LedgerInv, RowInv, SuccessIsRecorded
    <3>3. OnRecord(i, k)'
      BY <3>1, <3>2 DEF OnRecord
    <3>4. RecordedIsSuccess(i)'
      BY <1>2, <2>1 DEF LedgerInv, RowInv
    <3>5. QED
      BY <3>1, <3>3, <3>4 DEF RecordedIsSuccess, Status
  <2>2. QED
    BY <2>1
<1>4. QED
  BY <1>1, <1>2, <1>3, PTL DEF Spec, SuccessIsKept

-----------------------------------------------------------------------------
(* The first retry is safe *)

\* No two items of the job ask for the same points for the same user.
OwnRecipients == \A i, j \in Items : Recipient[i] = Recipient[j] => i = j

\* The replies that say the item's recipient and points.
RepliesTo(i) == {k \in 1 .. Len(channel) : channel[k].to = Recipient[i]}
\* The command has been invoked, and its attempt is about to say since when its reply is looked for.
Marking(i) == runner.pc = "mark" /\ Cur = i

\* An attempt is counted from a position of the channel.
Placed(i) == attempt[i].since <= Len(channel) /\ (Marking(i) => runner.obs.sentAt <= Len(channel))
\* The grace period is over for what was sent, and nothing else is being sent.
AgedIsDone(i) == i \in aged => inflight[i] = 0 /\ ~Held(i)
\* One reply at most, of the commands already executed and of those that may still be.
OneReply(i) ==
    handed[i] = 0 /\ retried[i] <= 1 =>
        /\ \A k, m \in RepliesTo(i) : k = m
        /\ inflight[i] > 0 => inflight[i] = 1 /\ RepliesTo(i) = {}
        /\ Unsent(i) => inflight[i] = 0 /\ RepliesTo(i) = {}
\* What a pass declared unanswered has no reply and cannot get one.
NoReplyIsTrue(i) ==
    Reopenings(i) = 0 /\ item[i].noReply => inflight[i] = 0 /\ RepliesTo(i) = {} /\ ~Unsent(i)
\* The reply to an attempt is looked for where it is.
RepliesAreLater(i) ==
    Reopenings(i) = 0 => \A k \in RepliesTo(i) :
        k > attempt[i].since /\ (Marking(i) => k > runner.obs.sentAt)
\* A pass that takes the grace period of a row for over has its reply before its eyes, and spends it on no other row.
SeesAll(q, i) ==
    i \in q.rows =>
        /\ i \in q.old /\ Reopenings(i) = 0 =>
              inflight[i] = 0 /\ (q.at = "settle" /\ q.complete => \A k \in RepliesTo(i) : k <= q.seen)
        /\ \A k \in q.used : k \notin RepliesTo(i)
\* What holds of an item.
SafeInv(i) ==
    /\ Placed(i) /\ AgedIsDone(i) /\ OneReply(i) /\ NoReplyIsTrue(i) /\ RepliesAreLater(i)
    /\ \A p \in Passes : SeesAll(pass[p], i)
\* The inductive invariant, for a scan that takes no time.
RetryInv == LedgerInv /\ (\A p \in Passes : pass[p].at # "clock") /\ \A i \in Items : SafeInv(i)

\* What a step leaves alone of an item, of its replies, and of a pass.
SameTurn(i) ==
    /\ handed'[i] = handed[i] /\ retried'[i] = retried[i]
    /\ item'[i].noReply = item[i].noReply
    /\ Unsent(i)' => Unsent(i)
    /\ Held(i)' => Held(i)
    /\ Marking(i)' => Marking(i) /\ runner'.obs.sentAt = runner.obs.sentAt
\* The replies to the item, those to come included.
SameReplies(i) == inflight'[i] = inflight[i] /\ RepliesTo(i)' = RepliesTo(i)
\* A pass that has not scanned the channel.
Unread(q) == q.used = {} /\ q.at \notin {"settle", "clock"} /\ \A i \in q.rows : i \in q.old => i \in aged
\* A pass goes on with what it has seen, or ends.
SameScan(p) ==
    /\ pass'[p].rows \subseteq pass[p].rows /\ pass'[p].old = pass[p].old /\ pass'[p].used = pass[p].used
    /\ pass'[p].at \in {pass[p].at, "done", "failed"} /\ pass'[p].complete = pass[p].complete /\ pass'[p].seen = pass[p].seen

\* An item whose turn and replies are as they were keeps its part of the invariant.
LEMMA TurnKeeps ==
    ASSUME TypeOK, NEW i \in Items, SafeInv(i), SameTurn(i), SameReplies(i), Len(channel') >= Len(channel),
           attempt'[i].since = attempt[i].since, i \in aged' => i \in aged
    PROVE  Placed(i)' /\ AgedIsDone(i)' /\ OneReply(i)' /\ NoReplyIsTrue(i)' /\ RepliesAreLater(i)'
<1>1. Reopenings(i)' = Reopenings(i)
  BY DEF SameTurn, Reopenings
<1>2. Len(channel) \in Nat /\ Len(channel') \in Nat /\ attempt[i].since \in Nat
  BY DEF TypeOK, DiscordType, DatabaseType, AttemptRecord, SameReplies
<1>3. Placed(i)'
  <2>1. Placed(i) /\ runner.obs.sentAt \in Nat
    BY DEF SafeInv, TypeOK, ProcessType, RunnerRecord, Observation
  <2>2. QED
    BY <1>2, <2>1 DEF Placed, SameTurn
<1>4. AgedIsDone(i)'
  BY DEF SafeInv, AgedIsDone, SameTurn, SameReplies
<1>5. OneReply(i)'
  BY DEF SafeInv, OneReply, SameTurn, SameReplies
<1>6. NoReplyIsTrue(i)'
  BY <1>1 DEF SafeInv, NoReplyIsTrue, SameTurn, SameReplies
<1>7. RepliesAreLater(i)'
  BY <1>1 DEF SafeInv, RepliesAreLater, SameTurn, SameReplies
<1>8. QED
  BY <1>3, <1>4, <1>5, <1>6, <1>7

\* A pass that goes on, or has not scanned, sees all it has to of an item whose replies are as they were.
LEMMA ScanKeeps ==
    ASSUME TypeOK, NEW i \in Items, SafeInv(i), handed'[i] = handed[i], retried'[i] = retried[i], SameReplies(i),
           NEW p \in Passes, SameScan(p) \/ Unread(pass'[p])
    PROVE  SeesAll(pass[p], i)'
<1>1. Reopenings(i)' = Reopenings(i)
  BY DEF Reopenings
<1>2. SeesAll(pass[p], i) /\ AgedIsDone(i)
  BY DEF SafeInv
<1>3. CASE SameScan(p)
  BY <1>1, <1>2, <1>3 DEF SeesAll, SameScan, SameReplies
<1>4. CASE Unread(pass'[p])
  BY <1>1, <1>2, <1>4 DEF SeesAll, Unread, SameReplies, AgedIsDone
<1>5. QED
  BY <1>3, <1>4

\* A step that disturbs neither the turns nor the replies nor the scans keeps the first retry safe.
LEMMA QuietRetry ==
    ASSUME RetryInv, LedgerInv', Len(channel') >= Len(channel),
           \A i \in Items : /\ SameTurn(i) /\ SameReplies(i) /\ attempt'[i].since = attempt[i].since
                            /\ i \in aged' => i \in aged,
           \A p \in Passes : SameScan(p) \/ Unread(pass'[p])
    PROVE  RetryInv'
<1>1. TypeOK
  BY DEF RetryInv, LedgerInv, EngineInv
<1>2. ASSUME NEW i \in Items PROVE SafeInv(i)'
  <2>1. SafeInv(i)
    BY DEF RetryInv
  <2>2. Placed(i)' /\ AgedIsDone(i)' /\ OneReply(i)' /\ NoReplyIsTrue(i)' /\ RepliesAreLater(i)'
    BY <1>1, <2>1, TurnKeeps
  <2>3. \A p \in Passes : SeesAll(pass[p], i)'
    BY <1>1, <2>1, ScanKeeps DEF SameTurn
  <2>4. QED
    BY <2>2, <2>3 DEF SafeInv
<1>3. \A p \in Passes : pass'[p].at # "clock"
  BY DEF RetryInv, SameScan, Unread
<1>4. QED
  BY <1>2, <1>3 DEF RetryInv

\* A pass that starts afresh has read nothing.
LEMMA FreshUnread ==
    ASSUME NEW r, r = NoPass \/ (\E at \in {"done", "failed"} : r = [NoPass EXCEPT !.at = at])
                          \/ (\E w : r = [NoPass EXCEPT !.at = "wait", !.waiting = w])
                          \/ (\E again : r = ReadUnknown(again))
    PROVE  Unread(r)
<1>1. ASSUME NEW again, r = ReadUnknown(again) PROVE Unread(r)
  <2>1. r.used = {} /\ r.at \in {"scan", "done"} /\ r.old = Unresolved \cap aged
    BY <1>1 DEF ReadUnknown, NoPass
  <2>2. QED
    BY <2>1 DEF Unread
<1>2. CASE r = NoPass
  BY <1>2 DEF NoPass, Unread
<1>3. ASSUME NEW at \in {"done", "failed"}, r = [NoPass EXCEPT !.at = at] PROVE Unread(r)
  BY <1>3 DEF NoPass, Unread
<1>4. ASSUME NEW w, r = [NoPass EXCEPT !.at = "wait", !.waiting = w] PROVE Unread(r)
  BY <1>4 DEF NoPass, Unread
<1>5. QED
  BY <1>1, <1>2, <1>3, <1>4

\* One item moves on, or none: the turns go on as they were unless it is put in the queue.
LEMMA TurnsGoOn ==
    ASSUME UNCHANGED <<handed, retried>>,
           runner' = runner \/ runner'.pc \notin Sending
              \/ (runner.pc \in Sending /\ runner'.pc = runner.pc /\ runner'.cur = runner.cur /\ runner'.obs = runner.obs),
           \/ item' = item
           \/ \E j \in Items : \E s : Moved(j, s) /\ (s \in Claimable => Unsent(j))
    PROVE  \A i \in Items : SameTurn(i)
<1>1. ASSUME NEW i \in Items PROVE (Held(i)' => Held(i)) /\ (Marking(i)' => Marking(i) /\ runner'.obs.sentAt = runner.obs.sentAt)
  BY DEF Held, Marking, Cur, Sending
<1>2. ASSUME NEW i \in Items PROVE item'[i].noReply = item[i].noReply /\ (Status(i)' \in Claimable => Unsent(i))
  <2>1. CASE item' = item
    BY <2>1 DEF Status, Unsent
  <2>2. ASSUME NEW j \in Items, NEW s, Moved(j, s), s \in Claimable => Unsent(j)
        PROVE  item'[i].noReply = item[i].noReply /\ (Status(i)' \in Claimable => Unsent(i))
    BY <2>2 DEF Moved, Status, Unsent
  <2>3. QED
    BY <2>1, <2>2
<1>3. ASSUME NEW i \in Items PROVE Unsent(i)' => Unsent(i)
  <2>1. Unsent(i)' => Status(i)' \in Claimable \/ Unsent(i)
    BY DEF Unsent, Cur, Sending
  <2>2. QED
    BY <1>2, <2>1
<1>4. QED
  BY <1>1, <1>2, <1>3 DEF SameTurn

\* The same for a step that leaves the channel alone and moves one item at most.
LEMMA QuietTurns ==
    ASSUME RetryInv, LedgerInv', UNCHANGED <<inflight, channel, aged, handed, retried>>,
           \A i \in Items : attempt'[i].since = attempt[i].since,
           runner' = runner \/ runner'.pc \notin Sending
              \/ (runner.pc \in Sending /\ runner'.pc = runner.pc /\ runner'.cur = runner.cur /\ runner'.obs = runner.obs),
           \/ item' = item
           \/ \E j \in Items : \E s : Moved(j, s) /\ (s \in Claimable => Unsent(j)),
           \A p \in Passes : SameScan(p) \/ Unread(pass'[p])
    PROVE  RetryInv'
<1>1. \A i \in Items : SameTurn(i)
  BY TurnsGoOn
<1>2. \A i \in Items : SameReplies(i)
  BY DEF SameReplies, RepliesTo
<1>3. Len(channel') >= Len(channel)
  BY DEF RetryInv, LedgerInv, EngineInv, TypeOK, DiscordType
<1>4. QED
  BY <1>1, <1>2, <1>3, QuietRetry

\* What the invariant says of the channel and the types.
LEMMA RetryFacts ==
    ASSUME RetryInv
    PROVE  /\ TypeOK /\ SenderOwns /\ runner \in RunnerRecord /\ Len(channel) \in Nat
           /\ item \in [Items -> ItemRecord] /\ attempt \in [Items -> AttemptRecord] /\ inflight \in [Items -> Nat]
           /\ pass \in [Passes -> PassRecord] /\ aged \subseteq Items
           /\ handed \in [Items -> Nat] /\ retried \in [Items -> Nat]
           /\ runner.pc \in Sending => Cur \in Items
           /\ \A i \in Items : SafeInv(i) /\ RowInv(i)
BY DEF RetryInv, LedgerInv, EngineInv, TypeOK, DatabaseType, DiscordType, ProcessType, HistoryType, Cur

\* A pass that is not touched goes on.
LEMMA PassUntouched ==
    ASSUME TypeOK, NEW p \in Passes, pass'[p] = pass[p]
    PROVE  SameScan(p)
BY DEF SameScan

\* The runner claims an item: nothing of it has been answered, and nothing can be.
LEMMA ClaimRetry ==
    ASSUME RetryInv, LedgerInv', ClaimNext
    PROVE  RetryInv'
<1>1. /\ TypeOK /\ runner \in RunnerRecord /\ Len(channel) \in Nat
      /\ item \in [Items -> ItemRecord] /\ attempt \in [Items -> AttemptRecord]
      /\ pass \in [Passes -> PassRecord] /\ runner.pc = "claim"
      /\ handed \in [Items -> Nat] /\ retried \in [Items -> Nat]
      /\ \A i \in Items : SafeInv(i)
  BY RetryFacts DEF ClaimNext
<1>2. CASE RunnerAs(Break(runner, FALSE)) /\ UNCHANGED <<database, discord>>
  <2>1. runner'.pc \notin Sending /\ pass' = pass
    BY <1>1, <1>2, Turns DEF RunnerAs, Sending
  <2>2. \A p \in Passes : SameScan(p)
    BY <1>1, <2>1, PassUntouched
  <2>3. UNCHANGED <<item, attempt, inflight, channel, aged, handed, retried>>
    BY <1>2 DEF database, discord, history, ClaimNext
  <2>4. QED
    BY <2>1, <2>2, <2>3, QuietTurns
<1>3. ASSUME NEW j \in Items, Status(j) \in Claimable,
             item' = [item EXCEPT ![j].status = "processing", ![j].tries = @ + 1],
             attempt' = [attempt EXCEPT ![j] = [phase |-> "prepared", since |-> Len(channel)]],
             aged' = aged \ {j},
             runner' = [runner EXCEPT !.cur = j, !.pc = "exec"],
             pass' = [p \in Passes |-> [pass[p] EXCEPT !.current = @ \ {j}]],
             UNCHANGED <<inflight, channel, handed, retried>>
      PROVE  RetryInv'
  <2>1. Moved(j, "processing")
    BY <1>1, <1>3, RowMoves
  <2>2. runner'.cur = j /\ runner'.pc = "exec"
    BY <1>1, <1>3 DEF RunnerRecord
  <2>3. ASSUME NEW p \in Passes PROVE SameScan(p)
    <3>1. pass[p] \in PassRecord /\ pass'[p] = [pass[p] EXCEPT !.current = @ \ {j}]
      BY <1>1, <1>3
    <3>2. QED
      BY <3>1 DEF SameScan, PassRecord
  <2>4. \A i \in Items : SameReplies(i)
    BY <1>3 DEF SameReplies, RepliesTo
  <2>5. ASSUME NEW i \in Items, NEW p \in Passes PROVE SeesAll(pass[p], i)'
    BY <1>1, <1>3, <2>3, <2>4, ScanKeeps
  <2>6. ASSUME NEW i \in Items \ {j} PROVE SafeInv(i)'
    <3>1. SameTurn(i)
      BY <1>3, <2>1, <2>2 DEF SameTurn, Moved, Status, Unsent, Held, Marking, Cur
    <3>2. attempt'[i].since = attempt[i].since /\ (i \in aged' => i \in aged) /\ Len(channel') >= Len(channel)
      BY <1>1, <1>3
    <3>3. Placed(i)' /\ AgedIsDone(i)' /\ OneReply(i)' /\ NoReplyIsTrue(i)' /\ RepliesAreLater(i)'
      BY <1>1, <2>4, <3>1, <3>2, TurnKeeps
    <3>4. QED
      BY <2>5, <3>3 DEF SafeInv
  <2>7. SafeInv(j)'
    <3>1. SafeInv(j) /\ Unsent(j) /\ inflight'[j] = inflight[j] /\ RepliesTo(j)' = RepliesTo(j)
          /\ item'[j].noReply = item[j].noReply /\ Reopenings(j)' = Reopenings(j)
      BY <1>1, <1>3, <2>1, <2>4 DEF Unsent, SameReplies, Moved, Reopenings
    <3>2. attempt'[j].since = Len(channel')
      BY <1>1, <1>3
    <3>3. Placed(j)' /\ AgedIsDone(j)'
      BY <1>1, <1>3, <2>2, <3>2 DEF Placed, Marking, AgedIsDone
    <3>4. Reopenings(j) = 0 => handed[j] = 0 /\ retried[j] <= 1
      BY <1>1 DEF Reopenings
    <3>5. OneReply(j)'
      BY <1>3, <3>1 DEF SafeInv, OneReply
    <3>6. NoReplyIsTrue(j)'
      BY <3>1 DEF SafeInv, NoReplyIsTrue
    <3>7. RepliesAreLater(j)'
      BY <3>1, <3>4 DEF SafeInv, OneReply, RepliesAreLater
    <3>8. QED
      BY <2>5, <3>3, <3>5, <3>6, <3>7 DEF SafeInv
  <2>8. \A p \in Passes : pass'[p].at # "clock"
    BY <2>3 DEF RetryInv, SameScan
  <2>9. QED
    BY <2>6, <2>7, <2>8 DEF RetryInv
<1>4. QED
  BY <1>2, <1>3 DEF ClaimNext, First, history

\* The runner sends the command: it is the first and only one of the item's turn.
LEMMA InvokeRetry ==
    ASSUME RetryInv, LedgerInv', Invoke
    PROVE  RetryInv'
<1>1. /\ TypeOK /\ SenderOwns /\ runner \in RunnerRecord /\ Len(channel) \in Nat
      /\ inflight \in [Items -> Nat] /\ runner.pc = "exec" /\ Cur \in Items
      /\ handed \in [Items -> Nat] /\ retried \in [Items -> Nat]
      /\ \A i \in Items : SafeInv(i) /\ RowInv(i)
  BY RetryFacts DEF Invoke, Sending
<1>2. PICK outcome \in Outcomes, anchor \in {0, Len(channel)} : \E executed \in Reaches(outcome) :
        /\ inflight' = IF executed THEN [inflight EXCEPT ![Cur] = @ + 1] ELSE inflight
        /\ RunnerAs([Settled(runner) EXCEPT
              !.obs = [outcome |-> outcome, sentAt |-> Len(channel), anchor |-> anchor],
              !.pc  = IF outcome = "invoked" THEN "mark" ELSE "settle"])
  BY DEF Invoke
<1>3. UNCHANGED <<item, attempt, channel, aged, handed, retried, pass>>
  BY <1>2 DEF Invoke, RunnerAs, database, history
<1>4. /\ runner'.cur = Cur
      /\ runner'.pc = IF outcome = "invoked" THEN "mark" ELSE "settle"
      /\ runner'.obs.outcome = outcome /\ runner'.obs.sentAt = Len(channel)
  BY <1>1, <1>2 DEF RunnerAs, Settled, Cur, RunnerRecord
<1>5. \/ inflight' = inflight
      \/ outcome \in {"invoked", "unsure"} /\ inflight' = [inflight EXCEPT ![Cur] = @ + 1]
  BY <1>2 DEF Reaches, Outcomes
<1>6. \A p \in Passes : SameScan(p)
  BY <1>1, <1>3, PassUntouched
<1>7. \A i \in Items : RepliesTo(i)' = RepliesTo(i) /\ Reopenings(i)' = Reopenings(i) /\ Status(i)' = Status(i)
  BY <1>3 DEF RepliesTo, Reopenings, Status
<1>8. ASSUME NEW i \in Items, i # Cur PROVE SafeInv(i)'
  <2>1. SameTurn(i)
    BY <1>3, <1>4, <1>7, <1>8 DEF SameTurn, Unsent, Held, Marking, Cur
  <2>2. SameReplies(i)
    BY <1>1, <1>5, <1>7, <1>8 DEF SameReplies
  <2>3. Len(channel') >= Len(channel)
    BY <1>1, <1>3
  <2>4. Placed(i)' /\ AgedIsDone(i)' /\ OneReply(i)' /\ NoReplyIsTrue(i)' /\ RepliesAreLater(i)'
    BY <1>1, <1>3, <2>1, <2>2, <2>3, TurnKeeps
  <2>5. \A p \in Passes : SeesAll(pass[p], i)'
    BY <1>1, <1>3, <1>6, <2>2, ScanKeeps
  <2>6. QED
    BY <2>4, <2>5 DEF SafeInv
<1>9. ASSUME NEW j \in Items, j = Cur PROVE SafeInv(j)'
  <2>1. SafeInv(j) /\ Unsent(j) /\ Held(j) /\ Status(j) \notin Claimable
    BY <1>1, <1>9 DEF Unsent, Held, Sending, SenderOwns, Claimable
  <2>2. Reopenings(j) = 0 => handed[j] = 0 /\ retried[j] <= 1
    BY <1>1 DEF Reopenings
  <2>3. Placed(j)'
    BY <1>1, <1>3, <1>4, <2>1 DEF SafeInv, Placed, Marking
  <2>4. AgedIsDone(j)'
    BY <1>3, <2>1 DEF SafeInv, AgedIsDone
  <2>5. OneReply(j)'
    <3>1. Unsent(j)' => outcome \notin {"invoked", "unsure"}
      BY <1>4, <1>7, <2>1 DEF Unsent
    <3>2. inflight'[j] = inflight[j] \/ (~Unsent(j)' /\ inflight'[j] = inflight[j] + 1)
      BY <1>1, <1>5, <1>9, <3>1
    <3>3. QED
      BY <1>3, <1>7, <2>1, <3>2 DEF SafeInv, OneReply
  <2>6. NoReplyIsTrue(j)'
    BY <1>3, <1>7, <2>1 DEF SafeInv, NoReplyIsTrue
  <2>7. RepliesAreLater(j)'
    BY <1>7, <2>1, <2>2 DEF SafeInv, OneReply, RepliesAreLater
  <2>8. ASSUME NEW p \in Passes PROVE SeesAll(pass[p], j)'
    <3>1. SeesAll(pass[p], j)
      BY <2>1 DEF SafeInv
    <3>2. j \in pass[p].rows => Reopenings(j) # 0
      BY <1>1, <2>1 DEF RowInv, Reads, SenderIsAlone, Terminal
    <3>3. QED
      BY <1>3, <1>7, <3>1, <3>2 DEF SeesAll
  <2>9. QED
    BY <2>3, <2>4, <2>5, <2>6, <2>7, <2>8 DEF SafeInv
<1>10. \A p \in Passes : pass'[p].at # "clock"
  BY <1>3 DEF RetryInv
<1>11. QED
  BY <1>8, <1>9, <1>10 DEF RetryInv

\* Its attempt counts from the position before it was invoked.
LEMMA MarkRetry ==
    ASSUME RetryInv, LedgerInv', MarkSent
    PROVE  RetryInv'
<1>1. /\ TypeOK /\ SenderOwns /\ runner \in RunnerRecord /\ Len(channel) \in Nat
      /\ attempt \in [Items -> AttemptRecord] /\ runner.pc = "mark" /\ Cur \in Items
      /\ \A i \in Items : SafeInv(i)
  BY RetryFacts DEF MarkSent, Sending
<1>2. /\ attempt' = [attempt EXCEPT ![Cur] = [phase |-> "sent", since |-> runner.obs.sentAt]]
      /\ UNCHANGED <<item, inflight, channel, aged, handed, retried, pass>>
  BY DEF MarkSent, RunnerAs, discord, history
<1>3. runner'.cur = Cur /\ runner'.pc = "confirm"
  BY <1>1 DEF MarkSent, RunnerAs, Cur, RunnerRecord
<1>4. \A i \in Items : SameReplies(i)
  BY <1>2 DEF SameReplies, RepliesTo
<1>5. \A i \in Items : SameTurn(i)
  BY <1>1, <1>2, <1>3 DEF SameTurn, Unsent, Held, Marking, Cur, Sending, Status
<1>6. ASSUME NEW i \in Items, NEW p \in Passes PROVE SeesAll(pass[p], i)'
  <2>1. SameScan(p)
    BY <1>1, <1>2, PassUntouched
  <2>2. QED
    BY <1>1, <1>2, <1>4, <2>1, ScanKeeps
<1>7. Len(channel') >= Len(channel)
  BY <1>1, <1>2
<1>8. ASSUME NEW i \in Items, i # Cur PROVE SafeInv(i)'
  <2>1. attempt'[i].since = attempt[i].since
    BY <1>1, <1>2, <1>8
  <2>2. Placed(i)' /\ AgedIsDone(i)' /\ OneReply(i)' /\ NoReplyIsTrue(i)' /\ RepliesAreLater(i)'
    BY <1>1, <1>2, <1>4, <1>5, <1>7, <2>1, TurnKeeps
  <2>3. QED
    BY <1>6, <2>2 DEF SafeInv
<1>9. ASSUME NEW j \in Items, j = Cur PROVE SafeInv(j)'
  <2>1. SafeInv(j) /\ Marking(j) /\ SameTurn(j) /\ SameReplies(j)
    BY <1>1, <1>4, <1>5, <1>9 DEF Marking
  <2>2. attempt'[j].since = runner.obs.sentAt /\ ~Marking(j)' /\ Reopenings(j)' = Reopenings(j)
    BY <1>1, <1>2, <1>3, <1>9 DEF Marking, Reopenings
  <2>3. Placed(j)'
    BY <1>2, <2>1, <2>2 DEF SafeInv, Placed
  <2>4. AgedIsDone(j)'
    BY <1>2, <2>1 DEF SafeInv, AgedIsDone, SameTurn, SameReplies
  <2>5. OneReply(j)'
    BY <2>1 DEF SafeInv, OneReply, SameTurn, SameReplies
  <2>6. NoReplyIsTrue(j)'
    BY <2>1, <2>2 DEF SafeInv, NoReplyIsTrue, SameTurn, SameReplies
  <2>7. RepliesAreLater(j)'
    BY <2>1, <2>2 DEF SafeInv, RepliesAreLater, SameReplies
  <2>8. QED
    BY <1>6, <2>3, <2>4, <2>5, <2>6, <2>7 DEF SafeInv
<1>10. \A p \in Passes : pass'[p].at # "clock"
  BY <1>2 DEF RetryInv
<1>11. QED
  BY <1>8, <1>9, <1>10 DEF RetryInv

\* A step of a pass, with the task where it was.
LEMMA PassRetry ==
    ASSUME RetryInv, LedgerInv', UNCHANGED <<inflight, channel, aged, handed, retried, runner>>,
           \A i \in Items : attempt'[i].since = attempt[i].since,
           item' = item \/ \E j \in Items : \E s : Moved(j, s) /\ s \notin Claimable,
           \A p \in Passes : pass'[p].at # "clock" /\ \A i \in Items : SeesAll(pass[p], i)'
    PROVE  RetryInv'
<1>1. TypeOK /\ (\A i \in Items : SafeInv(i)) /\ Len(channel') >= Len(channel)
  BY RetryFacts
<1>2. \A i \in Items : SameTurn(i)
  <2>1. UNCHANGED <<handed, retried>> /\ runner' = runner
    OBVIOUS
  <2>2. item' = item \/ \E j \in Items : \E s : Moved(j, s) /\ (s \in Claimable => Unsent(j))
    OBVIOUS
  <2>3. QED
    BY <2>1, <2>2, TurnsGoOn
<1>3. \A i \in Items : SameReplies(i)
  BY DEF SameReplies, RepliesTo
<1>4. ASSUME NEW i \in Items PROVE SafeInv(i)'
  <2>1. Placed(i)' /\ AgedIsDone(i)' /\ OneReply(i)' /\ NoReplyIsTrue(i)' /\ RepliesAreLater(i)'
    BY <1>1, <1>2, <1>3, TurnKeeps
  <2>2. \A p \in Passes : SeesAll(pass[p], i)'
    OBVIOUS
  <2>3. QED
    BY <2>1, <2>2 DEF SafeInv
<1>5. QED
  BY <1>4 DEF RetryInv

\* All of the history is read when the pass says so: no reply can be beyond it that a row come of age waits for.
LEMMA ScanRetry ==
    ASSUME ~ScanTakesTime, RetryInv, LedgerInv', NEW p \in Passes, Scan(p)
    PROVE  RetryInv'
<1>1. /\ TypeOK /\ pass \in [Passes -> PassRecord] /\ pass[p] \in PassRecord /\ pass[p].at = "scan"
      /\ UNCHANGED <<item, attempt, inflight, channel, aged, handed, retried, runner>>
      /\ (\A i \in Items : SafeInv(i)) /\ Len(channel) \in Nat
  BY RetryFacts DEF Scan, PassAs, database, discord, history
<1>2. CASE PassAs(p, [NoPass EXCEPT !.at = "failed"])
  <2>1. \A q \in Passes : SameScan(q) \/ Unread(pass'[q])
    <3>1. \A q \in Passes : pass'[q] = pass[q] \/ pass'[q] = [NoPass EXCEPT !.at = "failed"]
      BY <1>1, <1>2 DEF PassAs
    <3>2. QED
      BY <1>1, <3>1, PassUntouched, FreshUnread
  <2>2. QED
    BY <1>1, <2>1, QuietTurns
<1>3. ASSUME NEW n \in 0 .. Len(channel), NEW complete \in BOOLEAN, complete => n = Len(channel),
             PassAs(p, [pass[p] EXCEPT !.seen = n, !.complete = complete, !.at = "settle"])
      PROVE  RetryInv'
  <2> DEFINE r == [pass[p] EXCEPT !.seen = n, !.complete = complete, !.at = "settle"]
  <2>1. r.rows = pass[p].rows /\ r.old = pass[p].old /\ r.used = pass[p].used /\ r.seen = n /\ r.at = "settle"
        /\ r.complete = complete
    BY <1>1 DEF PassRecord
  <2>2. pass'[p] = r /\ \A q \in Passes \ {p} : pass'[q] = pass[q]
    <3> HIDE DEF r
    <3>1. PassAs(p, r)
      BY <1>3 DEF r
    <3>2. QED
      BY <1>1, <3>1 DEF PassAs
  <2> HIDE DEF r
  <2>3. pass[p].used = {}
    BY <1>1 DEF RetryInv, LedgerInv, ReadInv
  <2>4. ASSUME NEW i \in Items PROVE SeesAll(pass[p], i)'
    <3>1. SeesAll(pass[p], i) /\ Reopenings(i)' = Reopenings(i) /\ RepliesTo(i)' = RepliesTo(i) /\ inflight'[i] = inflight[i]
      BY <1>1 DEF SafeInv, Reopenings, RepliesTo
    <3>2. \A k \in RepliesTo(i) : k <= Len(channel)
      BY <1>1 DEF RepliesTo
    <3>3. pass'[p].complete => \A k \in RepliesTo(i) : k <= pass'[p].seen
      BY <1>3, <2>1, <2>2, <3>2
    <3>4. pass'[p].rows = pass[p].rows /\ pass'[p].old = pass[p].old /\ pass'[p].used = {}
      BY <2>1, <2>2, <2>3
    <3>5. QED
      BY <3>1, <3>3, <3>4 DEF SeesAll
  <2>5. ASSUME NEW q \in Passes \ {p}, NEW i \in Items PROVE SeesAll(pass[q], i)'
    <3>1. SeesAll(pass[q], i) /\ Reopenings(i)' = Reopenings(i) /\ RepliesTo(i)' = RepliesTo(i) /\ inflight'[i] = inflight[i]
      BY <1>1 DEF SafeInv, Reopenings, RepliesTo
    <3>2. QED
      BY <2>2, <3>1 DEF SeesAll
  <2>6. \A q \in Passes : pass'[q].at # "clock"
    BY <2>1, <2>2 DEF RetryInv
  <2>7. QED
    BY <1>1, <2>4, <2>5, <2>6, PassRetry
<1>4. QED
  BY <1>2, <1>3 DEF Scan

\* After a row is settled the others of the pass see what they saw: the reply it claimed is its recipient's.
LEMMA RowScans ==
    ASSUME OwnRecipients, RetryInv, NEW p \in Passes, pass[p].at = "settle", NEW j \in Items,
           NEW used \in SUBSET RepliesTo(j), NEW waiting, NextRow(p, j, used, waiting),
           UNCHANGED <<inflight, channel, handed, retried>>
    PROVE  \A q \in Passes : pass'[q].at # "clock" /\ \A i \in Items : SeesAll(pass[q], i)'
<1>1. TypeOK /\ \A i \in Items : SafeInv(i)
  BY RetryFacts
<1>2. /\ \A q \in Passes \ {p} : pass'[q] = pass[q]
      /\ \/ pass'[p].rows = {} /\ pass'[p].at \in {"wait", "done"}
         \/ /\ pass'[p].rows = pass[p].rows \ {j} /\ pass'[p].used = pass[p].used \cup used
            /\ pass'[p].at = "settle" /\ pass'[p].seen = pass[p].seen
            /\ pass'[p].old = pass[p].old /\ pass'[p].complete = pass[p].complete
  BY <1>1, NextRows
<1>3. ASSUME NEW q \in Passes PROVE pass'[q].at # "clock"
  BY <1>2 DEF RetryInv
<1>4. ASSUME NEW q \in Passes, NEW i \in Items PROVE SeesAll(pass[q], i)'
  <2>1. SeesAll(pass[q], i) /\ Reopenings(i)' = Reopenings(i) /\ RepliesTo(i)' = RepliesTo(i) /\ inflight'[i] = inflight[i]
    BY <1>1 DEF SafeInv, Reopenings, RepliesTo
  <2>2. CASE q # p
    BY <1>2, <2>1, <2>2 DEF SeesAll
  <2>3. CASE q = p /\ pass'[p].rows = {}
    BY <2>3 DEF SeesAll
  <2>4. CASE q = p /\ /\ pass'[p].rows = pass[p].rows \ {j} /\ pass'[p].used = pass[p].used \cup used
                      /\ pass'[p].at = "settle" /\ pass'[p].seen = pass[p].seen
                      /\ pass'[p].old = pass[p].old /\ pass'[p].complete = pass[p].complete
    <3>1. i # j => \A k \in used : k \notin RepliesTo(i)
      BY DEF OwnRecipients, RepliesTo
    <3>2. QED
      BY <2>1, <2>4, <3>1 DEF SeesAll
  <2>5. QED
    BY <1>2, <2>2, <2>3, <2>4
<1>5. QED
  BY <1>3, <1>4

\* A row declared unanswered has no reply and gets none: its pass would have found it.
LEMMA UnansweredIsTrue ==
    ASSUME RetryInv, NEW p \in Passes, pass[p].at = "settle", NEW j \in Items, j \in pass[p].rows, Proven(p, j),
           Candidates(p, j, "ok") # {} <=> Candidates(p, j, "no") # {}, Reopenings(j) = 0
    PROVE  inflight[j] = 0 /\ RepliesTo(j) = {} /\ ~Unsent(j)
<1>1. /\ TypeOK /\ SafeInv(j) /\ RowInv(j) /\ handed[j] \in Nat /\ retried[j] \in Nat /\ pass[p] \in PassRecord
  BY RetryFacts
<1>2. handed[j] = 0 /\ retried[j] <= 1
  BY <1>1 DEF Reopenings
<1>3. Status(j) \in Terminal /\ j \in pass[p].current /\ pass[p].since[j] = attempt[j].since
  BY <1>1 DEF RowInv, Reads
<1>4. j \in pass[p].old /\ pass[p].complete
  BY <1>3 DEF Proven, Superseded
<1>5. inflight[j] = 0 /\ (\A k \in RepliesTo(j) : k <= pass[p].seen /\ k \notin pass[p].used)
  BY <1>1, <1>4 DEF SafeInv, SeesAll
<1>6. \A k, m \in RepliesTo(j) : k = m
  BY <1>1, <1>2 DEF SafeInv, OneReply
<1>7. ASSUME NEW k \in RepliesTo(j) PROVE FALSE
  <2>1. k \in 1 .. Len(channel) /\ channel[k].to = Recipient[j] /\ channel[k] \in Reply
    BY <1>1 DEF RepliesTo, TypeOK, DiscordType
  <2>2. k > pass[p].since[j]
    BY <1>1, <1>3 DEF SafeInv, RepliesAreLater
  <2>3. k \in 1 .. pass[p].seen
    <3>1. pass[p].seen \in Nat /\ k <= pass[p].seen /\ k \in Nat /\ k >= 1
      BY <1>1, <1>5, <2>1 DEF PassRecord
    <3>2. QED
      BY <3>1
  <2>4. PICK kind \in {"ok", "no"} : channel[k].kind = kind
    BY <2>1 DEF Reply
  <2>5. k \in Candidates(p, j, kind)
    BY <1>5, <2>1, <2>2, <2>3, <2>4 DEF Candidates
  <2>6. PICK other \in {"ok", "no"} : other # kind /\ Candidates(p, j, other) # {}
    BY <2>5
  <2>7. PICK m : m \in Candidates(p, j, other)
    BY <2>6
  <2>8. m \in 1 .. pass[p].seen /\ channel[m].to = Recipient[j] /\ channel[m].kind = other
    BY <2>7 DEF Candidates
  <2>9. m \in 1 .. Len(channel)
    <3>1. pass[p].seen \in Nat /\ Len(channel) \in Nat /\ pass[p].seen <= Len(channel)
      BY <1>1 DEF PassRecord, TypeOK, DiscordType, RetryInv, LedgerInv, ReadInv
    <3>2. QED
      BY <2>8, <3>1
  <2>10. m = k
    BY <1>6, <2>8, <2>9 DEF RepliesTo
  <2>11. QED
    BY <2>4, <2>6, <2>8, <2>10
<1>8. ~Unsent(j)
  <2>1. Held(j) => Status(j) = "processing"
    BY <1>1 DEF RowInv, SenderIsAlone
  <2>2. QED
    BY <1>3, <2>1 DEF Unsent, Held, Sending, Terminal, Claimable
<1>9. QED
  BY <1>5, <1>7, <1>8

\* A row is settled by its recipient's reply, or declared unanswered when there is none.
LEMMA SettleRetry ==
    ASSUME OwnRecipients, RetryInv, LedgerInv', NEW p \in Passes, SettleRow(p)
    PROVE  RetryInv'
<1>1. /\ TypeOK /\ pass[p].at = "settle" /\ UNCHANGED <<inflight, channel, aged, handed, retried>>
      /\ pass \in [Passes -> PassRecord] /\ pass[p] \in PassRecord
      /\ attempt \in [Items -> AttemptRecord] /\ item \in [Items -> ItemRecord]
      /\ \A i \in Items : SafeInv(i)
  BY RetryFacts DEF SettleRow, discord, history
<1>2. PICK j \in First(pass[p].rows) :
          LET ok == Candidates(p, j, "ok") # {}
              no == Candidates(p, j, "no") # {}
          IN  \/ ok /\ ~no /\ RowSucceeds(p, j)
              \/ no /\ ~ok /\ RowFails(p, j)
              \/ (ok <=> no) /\ RowUnanswered(p, j)
  BY DEF SettleRow
<1>3. j \in pass[p].rows /\ j \in Items
  BY <1>1, <1>2 DEF First, PassRecord
<1>4. ASSUME NEW phase, CloseReadAttempt(p, j, phase) PROVE \A i \in Items : attempt'[i].since = attempt[i].since
  <2>1. attempt[j] \in AttemptRecord /\ [attempt[j] EXCEPT !.phase = phase].since = attempt[j].since
    BY <1>1, <1>3 DEF AttemptRecord
  <2>2. QED
    BY <1>1, <1>3, <1>4, <2>1 DEF CloseReadAttempt
<1>5. ASSUME NEW kind \in {"ok", "no"}, NEW k \in Candidates(p, j, kind) PROVE {k} \in SUBSET RepliesTo(j)
  <2>1. pass[p].seen \in Nat /\ Len(channel) \in Nat /\ pass[p].seen <= Len(channel)
    BY <1>1 DEF PassRecord, TypeOK, DiscordType, RetryInv, LedgerInv, ReadInv
  <2>2. QED
    BY <2>1 DEF Candidates, RepliesTo
<1>6. ASSUME NEW s \in {"success", "failed"}, item' = [item EXCEPT ![j].status = s],
             NEW used \in SUBSET RepliesTo(j), NextRow(p, j, used, {}),
             \A i \in Items : attempt'[i].since = attempt[i].since
      PROVE  RetryInv'
  <2>1. Moved(j, s) /\ s \notin Claimable
    BY <1>1, <1>3, <1>6, RowMoves DEF Claimable
  <2>2. runner' = runner
    BY <1>1, <1>3, <1>6, NextRows
  <2>3. \A q \in Passes : pass'[q].at # "clock" /\ \A i \in Items : SeesAll(pass[q], i)'
    BY <1>1, <1>3, <1>6, RowScans
  <2>4. QED
    BY <1>1, <1>3, <1>6, <2>1, <2>2, <2>3, PassRetry
<1>7. ASSUME RowSucceeds(p, j) PROVE RetryInv'
  <2>1. PICK k \in First(Candidates(p, j, "ok")) :
          IF Recorded(j)
          THEN PassAs(p, [NoPass EXCEPT !.at = "failed"]) /\ UNCHANGED <<item, attempt, ledger>>
          ELSE /\ item' = [item EXCEPT ![j].status = "success"]
               /\ CloseReadAttempt(p, j, "confirmed")
               /\ ledger' = ledger \cup {[item |-> j, reply |-> k]}
               /\ NextRow(p, j, {k}, {})
    BY <1>7 DEF RowSucceeds
  <2>2. {k} \in SUBSET RepliesTo(j)
    BY <1>5 DEF First
  <2>3. CASE Recorded(j)
    <3>1. PassAs(p, [NoPass EXCEPT !.at = "failed"]) /\ UNCHANGED <<item, attempt>>
      BY <2>1, <2>3
    <3>2. \A q \in Passes : pass'[q] = pass[q] \/ pass'[q] = [NoPass EXCEPT !.at = "failed"]
      BY <1>1, <3>1 DEF PassAs
    <3>3. \A q \in Passes : SameScan(q) \/ Unread(pass'[q])
      BY <1>1, <3>2, PassUntouched, FreshUnread
    <3>4. runner' = runner /\ \A i \in Items : attempt'[i].since = attempt[i].since
      BY <3>1 DEF PassAs
    <3>5. QED
      BY <1>1, <3>1, <3>3, <3>4, QuietTurns
  <2>4. CASE ~Recorded(j)
    <3>1. item' = [item EXCEPT ![j].status = "success"] /\ CloseReadAttempt(p, j, "confirmed") /\ NextRow(p, j, {k}, {})
      BY <2>1, <2>4
    <3>2. \A i \in Items : attempt'[i].since = attempt[i].since
      BY <1>4, <3>1
    <3>3. QED
      BY <1>6, <2>2, <3>1, <3>2
  <2>5. QED
    BY <2>3, <2>4
<1>8. ASSUME RowFails(p, j) PROVE RetryInv'
  <2>1. PICK k \in First(Candidates(p, j, "no")) :
          /\ item' = [item EXCEPT ![j].status = "failed"]
          /\ CloseReadAttempt(p, j, "rejected")
          /\ NextRow(p, j, {k}, {})
          /\ UNCHANGED ledger
    BY <1>8 DEF RowFails
  <2>2. {k} \in SUBSET RepliesTo(j)
    BY <1>5 DEF First
  <2>3. \A i \in Items : attempt'[i].since = attempt[i].since
    BY <1>4, <2>1
  <2>4. QED
    BY <1>6, <2>1, <2>2, <2>3
<1>9. ASSUME Candidates(p, j, "ok") # {} <=> Candidates(p, j, "no") # {}, RowUnanswered(p, j) PROVE RetryInv'
  <2>1. PICK waiting : NextRow(p, j, {}, waiting)
    BY <1>9 DEF RowUnanswered
  <2>2. attempt' = attempt /\ (item' = item \/ (Proven(p, j) /\ item' = [item EXCEPT ![j].noReply = TRUE]))
    BY <1>9 DEF RowUnanswered
  <2>3. runner' = runner
    BY <1>1, <1>3, <2>1, NextRows
  <2>4. \A q \in Passes : pass'[q].at # "clock" /\ \A i \in Items : SeesAll(pass[q], i)'
    <3>1. {} \in SUBSET RepliesTo(j)
      OBVIOUS
    <3>2. QED
      BY <1>1, <1>3, <2>1, <3>1, RowScans
  <2>5. \A i \in Items : attempt'[i].since = attempt[i].since
    BY <2>2
  <2>6. CASE item' = item
    BY <1>1, <2>3, <2>4, <2>5, <2>6, PassRetry
  <2>7. CASE Proven(p, j) /\ item' = [item EXCEPT ![j].noReply = TRUE]
    <3>1. \A i \in Items : Status(i)' = Status(i) /\ (i # j => item'[i] = item[i])
      <4>1. item[j] \in ItemRecord /\ [item[j] EXCEPT !.noReply = TRUE].status = item[j].status
        BY <1>1, <1>3 DEF ItemRecord
      <4>2. QED
        BY <1>1, <1>3, <2>7, <4>1 DEF Status
    <3>2. ASSUME NEW i \in Items
          PROVE  /\ SameReplies(i) /\ Reopenings(i)' = Reopenings(i)
                 /\ (Unsent(i)' <=> Unsent(i)) /\ (Held(i)' <=> Held(i)) /\ (Marking(i)' <=> Marking(i))
                 /\ runner'.obs.sentAt = runner.obs.sentAt
      BY <1>1, <2>3, <3>1 DEF SameReplies, RepliesTo, Reopenings, Unsent, Held, Marking, Cur
    <3>3. Len(channel') >= Len(channel)
      BY <1>1, RetryFacts
    <3>4. ASSUME NEW i \in Items \ {j} PROVE SafeInv(i)'
      <4>1. SameTurn(i)
        BY <1>1, <3>1, <3>2 DEF SameTurn
      <4>2. Placed(i)' /\ AgedIsDone(i)' /\ OneReply(i)' /\ NoReplyIsTrue(i)' /\ RepliesAreLater(i)'
        BY <1>1, <2>5, <3>2, <3>3, <4>1, TurnKeeps
      <4>3. QED
        BY <2>4, <4>2 DEF SafeInv
    <3>5. SafeInv(j)'
      <4>1. SafeInv(j) /\ attempt'[j].since = attempt[j].since /\ inflight'[j] = inflight[j] /\ RepliesTo(j)' = RepliesTo(j)
            /\ handed'[j] = handed[j] /\ retried'[j] = retried[j] /\ channel' = channel /\ aged' = aged
        BY <1>1, <1>3, <2>5, <3>2 DEF SameReplies
      <4>2. Reopenings(j) = 0 => inflight[j] = 0 /\ RepliesTo(j) = {} /\ ~Unsent(j)
        BY <1>1, <1>3, <1>9, <2>7, UnansweredIsTrue
      <4>3. NoReplyIsTrue(j)'
        BY <1>3, <3>2, <4>1, <4>2 DEF NoReplyIsTrue
      <4>4. Placed(j)' /\ AgedIsDone(j)'
        BY <1>3, <3>2, <4>1 DEF SafeInv, Placed, AgedIsDone
      <4>5. OneReply(j)'
        BY <1>3, <3>2, <4>1 DEF SafeInv, OneReply
      <4>6. RepliesAreLater(j)'
        BY <1>3, <3>2, <4>1 DEF SafeInv, RepliesAreLater
      <4>7. QED
        BY <1>3, <2>4, <4>3, <4>4, <4>5, <4>6 DEF SafeInv
    <3>6. QED
      BY <2>4, <3>4, <3>5 DEF RetryInv
  <2>8. QED
    BY <2>2, <2>6, <2>7
<1>10. QED
  BY <1>2, <1>7, <1>8, <1>9

\* The grace period of an unknown item ends: nobody is sending it, and what the bot has not answered it no longer will.
LEMMA GraceRetry ==
    ASSUME RetryInv, LedgerInv', NEW j \in Items, GracePasses(j)
    PROVE  RetryInv'
<1>1. /\ TypeOK /\ SenderOwns /\ Status(j) = "unknown"
      /\ UNCHANGED <<item, attempt, channel, runner, handed, retried>>
      /\ aged' = aged \cup {j} /\ inflight' = [inflight EXCEPT ![j] = 0] /\ inflight \in [Items -> Nat]
      /\ pass \in [Passes -> PassRecord] /\ \A i \in Items : SafeInv(i)
  BY RetryFacts DEF GracePasses, database, history
<1>2. ASSUME NEW q \in Passes
      PROVE  /\ pass'[q].rows = pass[q].rows /\ pass'[q].used = pass[q].used /\ pass'[q].at = pass[q].at
             /\ pass'[q].complete = pass[q].complete /\ pass'[q].seen = pass[q].seen
             /\ \/ pass'[q].old = pass[q].old
                \/ pass[q].at \in {"scan", "clock"} /\ pass'[q].old = pass[q].old \cup {j}
  <2>1. pass[q] \in PassRecord
    BY <1>1
  <2>2. \/ pass'[q] = [pass[q] EXCEPT !.old = pass[q].old]
        \/ pass[q].at \in {"scan", "clock"} /\ pass'[q] = [pass[q] EXCEPT !.old = pass[q].old \cup {j}]
    BY DEF GracePasses
  <2>3. QED
    BY <2>1, <2>2 DEF PassRecord
<1>3. ASSUME NEW i \in Items
      PROVE  /\ RepliesTo(i)' = RepliesTo(i) /\ Reopenings(i)' = Reopenings(i)
             /\ (Unsent(i)' <=> Unsent(i)) /\ (Held(i)' <=> Held(i)) /\ (Marking(i)' <=> Marking(i))
  BY <1>1 DEF RepliesTo, Reopenings, Unsent, Held, Marking, Cur, Status
<1>4. \A i \in Items : inflight'[i] = IF i = j THEN 0 ELSE inflight[i]
  BY <1>1
<1>5. ASSUME NEW q \in Passes, NEW i \in Items PROVE SeesAll(pass[q], i)'
  <2>1. SeesAll(pass[q], i)
    BY <1>1 DEF SafeInv
  <2>2. QED
    BY <1>2, <1>3, <1>4, <2>1 DEF SeesAll
<1>6. ASSUME NEW i \in Items \ {j} PROVE SafeInv(i)'
  <2>1. SameTurn(i) /\ SameReplies(i)
    BY <1>1, <1>3, <1>4 DEF SameTurn, SameReplies
  <2>2. attempt'[i].since = attempt[i].since /\ (i \in aged' => i \in aged) /\ Len(channel') >= Len(channel)
    BY <1>1, RetryFacts
  <2>3. Placed(i)' /\ AgedIsDone(i)' /\ OneReply(i)' /\ NoReplyIsTrue(i)' /\ RepliesAreLater(i)'
    BY <1>1, <2>1, <2>2, TurnKeeps
  <2>4. QED
    BY <1>5, <2>3 DEF SafeInv
<1>7. SafeInv(j)'
  <2>1. ~Held(j)
    BY <1>1 DEF Held, SenderOwns
  <2>2. SafeInv(j) /\ inflight'[j] = 0 /\ item' = item
    BY <1>1, <1>4
  <2>3. Placed(j)' /\ AgedIsDone(j)'
    BY <1>1, <1>3, <2>1, <2>2 DEF SafeInv, Placed, AgedIsDone
  <2>4. OneReply(j)'
    BY <1>1, <1>3, <2>2 DEF SafeInv, OneReply
  <2>5. ~Unsent(j)
    BY <1>1, <2>1 DEF Unsent, Held, Sending, Claimable
  <2>6. NoReplyIsTrue(j)'
    BY <1>3, <2>2, <2>5 DEF SafeInv, NoReplyIsTrue
  <2>7. RepliesAreLater(j)'
    BY <1>1, <1>3, <2>2 DEF SafeInv, RepliesAreLater
  <2>8. QED
    BY <1>5, <2>3, <2>4, <2>6, <2>7 DEF SafeInv
<1>8. \A q \in Passes : pass'[q].at # "clock"
  BY <1>2 DEF RetryInv
<1>9. QED
  BY <1>6, <1>7, <1>8 DEF RetryInv

\* The bot answers a command: it is the recipient's only one, and the answer lies after its attempt.
LEMMA BotRetry ==
    ASSUME EngineAssumption, OwnRecipients, RetryInv, LedgerInv', NEW j \in Items, BotReplies(j)
    PROVE  RetryInv'
<1>1. /\ TypeOK /\ UNCHANGED <<item, attempt, runner, pass, handed, retried, aged>>
      /\ inflight[j] > 0 /\ inflight' = [inflight EXCEPT ![j] = @ - 1] /\ inflight \in [Items -> Nat]
      /\ Len(channel) \in Nat /\ channel \in Seq(Reply) /\ \A i \in Items : SafeInv(i)
  BY RetryFacts DEF BotReplies, database, process, history, TypeOK, DiscordType
<1>2. PICK r \in Reply : channel' = Append(channel, r) /\ r.to = Recipient[j]
  BY DEF BotReplies, Reply, EngineAssumption
<1>3. Len(channel') = Len(channel) + 1 /\ channel'[Len(channel) + 1] = r
      /\ \A k \in 1 .. Len(channel) : channel'[k] = channel[k]
  BY <1>1, <1>2
<1>4. \A i \in Items : inflight'[i] = IF i = j THEN inflight[i] - 1 ELSE inflight[i]
  BY <1>1
<1>5. ASSUME NEW i \in Items \ {j} PROVE RepliesTo(i)' = RepliesTo(i)
  <2>1. Recipient[i] # Recipient[j]
    BY DEF OwnRecipients
  <2>2. \A k : k \in 1 .. Len(channel') <=> k \in 1 .. Len(channel) \/ k = Len(channel) + 1
    BY <1>1, <1>3
  <2>3. QED
    BY <1>2, <1>3, <2>1, <2>2 DEF RepliesTo
<1>6. \A k \in RepliesTo(j)' : k \in RepliesTo(j) \/ k = Len(channel) + 1
  <2>1. \A k \in 1 .. Len(channel') : k \in 1 .. Len(channel) \/ k = Len(channel) + 1
    BY <1>1, <1>3
  <2>2. QED
    BY <1>3, <2>1 DEF RepliesTo
<1>7. ASSUME NEW i \in Items
      PROVE  /\ Reopenings(i)' = Reopenings(i)
             /\ (Unsent(i)' <=> Unsent(i)) /\ (Held(i)' <=> Held(i)) /\ (Marking(i)' <=> Marking(i))
  BY <1>1 DEF Reopenings, Unsent, Held, Marking, Cur, Status
<1>8. ASSUME NEW i \in Items \ {j} PROVE SafeInv(i)'
  <2>1. SameTurn(i) /\ SameReplies(i)
    BY <1>1, <1>4, <1>5, <1>7 DEF SameTurn, SameReplies
  <2>2. attempt'[i].since = attempt[i].since /\ (i \in aged' => i \in aged) /\ Len(channel') >= Len(channel)
    BY <1>1, <1>3
  <2>3. Placed(i)' /\ AgedIsDone(i)' /\ OneReply(i)' /\ NoReplyIsTrue(i)' /\ RepliesAreLater(i)'
    BY <1>1, <2>1, <2>2, TurnKeeps
  <2>4. ASSUME NEW p \in Passes PROVE SeesAll(pass[p], i)'
    BY <1>1, <2>1, PassUntouched, ScanKeeps
  <2>5. QED
    BY <2>3, <2>4 DEF SafeInv
<1>9. SafeInv(j)'
  <2>1. SafeInv(j) /\ inflight[j] \in Nat /\ inflight'[j] = inflight[j] - 1 /\ handed[j] \in Nat /\ retried[j] \in Nat
    BY <1>1, <1>4, RetryFacts
  <2>2. j \notin aged
    BY <1>1, <2>1 DEF SafeInv, AgedIsDone
  <2>3. attempt[j].since \in Nat /\ runner.obs.sentAt \in Nat
    BY <1>1 DEF TypeOK, DatabaseType, AttemptRecord, ProcessType, RunnerRecord, Observation
  <2>4. Placed(j) /\ Len(channel) + 1 > attempt[j].since /\ (Marking(j) => Len(channel) + 1 > runner.obs.sentAt)
    BY <1>1, <2>1, <2>3 DEF SafeInv, Placed
  <2>5. Placed(j)' /\ AgedIsDone(j)'
    BY <1>1, <1>3, <1>7, <2>2, <2>3, <2>4 DEF Placed, AgedIsDone
  <2>6. OneReply(j)'
    <3>1. ASSUME handed[j] = 0, retried[j] <= 1
          PROVE  RepliesTo(j) = {} /\ inflight'[j] = 0 /\ ~Unsent(j)
      BY <1>1, <2>1, <3>1 DEF SafeInv, OneReply
    <3>2. QED
      BY <1>1, <1>6, <1>7, <3>1 DEF OneReply
  <2>7. NoReplyIsTrue(j)'
    BY <1>1, <1>7, <2>1 DEF SafeInv, NoReplyIsTrue
  <2>8. RepliesAreLater(j)'
    BY <1>1, <1>6, <1>7, <2>1, <2>4 DEF SafeInv, RepliesAreLater
  <2>9. ASSUME NEW p \in Passes PROVE SeesAll(pass[p], j)'
    <3>1. SeesAll(pass[p], j) /\ inflight[j] # 0
      BY <1>1, <2>1 DEF SafeInv
    <3>2. Len(channel) + 1 \notin pass[p].used
      <4>1. \A k \in pass[p].used : k \in 1 .. pass[p].seen
        BY DEF RetryInv, LedgerInv, ReadInv
      <4>2. pass[p].seen \in Nat /\ pass[p].seen <= Len(channel)
        BY <1>1 DEF TypeOK, ProcessType, PassRecord, RetryInv, LedgerInv, ReadInv
      <4>3. QED
        BY <1>1, <4>1, <4>2
    <3>3. \A k \in pass[p].used : j \in pass[p].rows => k \notin RepliesTo(j)'
      BY <1>6, <3>1, <3>2 DEF SeesAll
    <3>4. pass' = pass
      BY <1>1
    <3>5. j \in pass[p].rows /\ j \in pass[p].old => Reopenings(j)' # 0
      BY <1>7, <3>1 DEF SeesAll
    <3>6. QED
      BY <3>3, <3>4, <3>5 DEF SeesAll
  <2>10. QED
    BY <2>5, <2>6, <2>7, <2>8, <2>9 DEF SafeInv
<1>10. \A q \in Passes : pass'[q].at # "clock"
  BY <1>1 DEF RetryInv
<1>11. QED
  BY <1>8, <1>9, <1>10 DEF RetryInv

\* An item that goes back in the queue for the first time by retry-unknown was truly unanswered.
LEMMA ReopenRetry ==
    ASSUME RetryInv, LedgerInv', RetryUnknown \/ \E j \in Items : ResolvePending(j)
    PROVE  RetryInv'
<1>1. /\ TypeOK /\ UNCHANGED <<attempt, inflight, channel, aged, runner>>
      /\ (\A i \in Items : SafeInv(i)) /\ Len(channel') >= Len(channel)
      /\ item \in [Items -> ItemRecord] /\ pass \in [Passes -> PassRecord]
      /\ handed \in [Items -> Nat] /\ retried \in [Items -> Nat]
  <2>1. UNCHANGED <<attempt, inflight, channel, aged, runner>>
    BY DEF RetryUnknown, ResolvePending, EndRequest, discord, process
  <2>2. QED
    BY <2>1, RetryFacts
<1>2. ASSUME NEW i \in Items
      PROVE  \/ handed'[i] = handed[i] /\ retried'[i] = retried[i] /\ item'[i] = item[i]
             \/ handed'[i] # 0
             \/ /\ retried'[i] = retried[i] + 1 /\ handed'[i] = handed[i]
                /\ Status(i) = "unknown" /\ item[i].noReply
  <2>1. CASE RetryUnknown
    BY <2>1 DEF RetryUnknown, Reopened
  <2>2. ASSUME NEW j \in Items, ResolvePending(j)
        PROVE  \/ handed'[i] = handed[i] /\ retried'[i] = retried[i] /\ item'[i] = item[i]
               \/ handed'[i] # 0
    <3>1. /\ item' = [item EXCEPT ![j].status = "pending"]
          /\ handed' = [handed EXCEPT ![j] = @ + 1] /\ retried' = retried
      BY <2>2 DEF ResolvePending
    <3>2. CASE i = j
      BY <1>1, <3>1, <3>2
    <3>3. CASE i # j
      BY <1>1, <3>1, <3>3
    <3>4. QED
      BY <3>2, <3>3
  <2>3. QED
    BY <2>1, <2>2
<1>3. \A i \in Items : SameReplies(i)
  BY <1>1 DEF SameReplies, RepliesTo
<1>4. \A q \in Passes : pass'[q] = pass[q] \/ pass'[q] = NoPass
  BY <1>1 DEF RetryUnknown, ResolvePending, EndRequest, process
<1>5. ASSUME NEW i \in Items, handed'[i] = handed[i] /\ retried'[i] = retried[i] /\ item'[i] = item[i] PROVE SafeInv(i)'
  <2>1. SameTurn(i)
    BY <1>1, <1>5 DEF SameTurn, Unsent, Held, Marking, Cur, Status
  <2>2. Placed(i)' /\ AgedIsDone(i)' /\ OneReply(i)' /\ NoReplyIsTrue(i)' /\ RepliesAreLater(i)'
    BY <1>1, <1>3, <2>1, TurnKeeps
  <2>3. ASSUME NEW q \in Passes PROVE SeesAll(pass[q], i)'
    BY <1>1, <1>3, <1>4, <1>5, PassUntouched, FreshUnread, ScanKeeps
  <2>4. QED
    BY <2>2, <2>3 DEF SafeInv
<1>6. ASSUME NEW i \in Items,
             \/ handed'[i] # 0
             \/ /\ retried'[i] = retried[i] + 1 /\ handed'[i] = handed[i]
                /\ Status(i) = "unknown" /\ item[i].noReply
      PROVE  SafeInv(i)'
  <2>1. /\ SafeInv(i) /\ inflight'[i] = inflight[i] /\ RepliesTo(i)' = RepliesTo(i)
        /\ (Held(i)' <=> Held(i)) /\ (Marking(i)' <=> Marking(i))
        /\ handed[i] \in Nat /\ retried[i] \in Nat
    BY <1>1, <1>3 DEF SameReplies, Held, Marking, Cur
  <2>2. Reopenings(i)' # 0
    <3>1. handed'[i] \in Nat /\ retried'[i] \in Nat
      BY DEF LedgerInv, EngineInv, TypeOK, HistoryType
    <3>2. QED
      BY <1>6, <2>1, <3>1 DEF Reopenings
  <2>3. handed'[i] = 0 /\ retried'[i] <= 1 => inflight[i] = 0 /\ RepliesTo(i) = {}
    BY <1>6, <2>1 DEF SafeInv, NoReplyIsTrue, Reopenings
  <2>4. OneReply(i)'
    BY <2>1, <2>3 DEF OneReply
  <2>5. Placed(i)' /\ AgedIsDone(i)'
    BY <1>1, <2>1 DEF SafeInv, Placed, AgedIsDone
  <2>6. NoReplyIsTrue(i)' /\ RepliesAreLater(i)'
    BY <2>2 DEF NoReplyIsTrue, RepliesAreLater
  <2>7. ASSUME NEW q \in Passes PROVE SeesAll(pass[q], i)'
    <3>1. SeesAll(pass[q], i) /\ NoPass.rows = {}
      BY <2>1 DEF SafeInv, NoPass
    <3>2. QED
      BY <1>4, <2>1, <2>2, <3>1 DEF SeesAll
  <2>8. QED
    BY <2>4, <2>5, <2>6, <2>7 DEF SafeInv
<1>7. \A q \in Passes : pass'[q].at # "clock"
  BY <1>4 DEF RetryInv, NoPass
<1>8. QED
  BY <1>2, <1>5, <1>6, <1>7 DEF RetryInv

\* Recovery puts nothing in the queue.
LEMMA RecoverRetry ==
    ASSUME RetryInv, LedgerInv', Recover
    PROVE  RetryInv'
<1>1. /\ TypeOK /\ UNCHANGED <<inflight, channel, aged, handed, retried, pass>> /\ runner'.pc = "idle"
      /\ Len(channel') >= Len(channel)
  BY RetryFacts DEF Recover, RunnerAs, NoRunner, discord, history
<1>2. ASSUME NEW i \in Items
      PROVE  /\ Status(i)' = Status(i) \/ Status(i)' = "unknown"
             /\ attempt'[i].since = attempt[i].since /\ item'[i].noReply = item[i].noReply
  <2>1. item[i] \in ItemRecord /\ attempt[i] \in AttemptRecord
    BY <1>1 DEF TypeOK, DatabaseType
  <2>2. item'[i] = item[i] \/ item'[i] = [item[i] EXCEPT !.status = Recovered(item[i].status)]
    BY DEF Recover
  <2>3. attempt'[i] = attempt[i] \/ attempt'[i] = [attempt[i] EXCEPT !.phase = "aborted"]
    BY DEF Recover
  <2>4. attempt'[i].since = attempt[i].since
    BY <2>1, <2>3 DEF AttemptRecord
  <2>5. /\ item'[i].status = item[i].status \/ item'[i].status = Recovered(item[i].status)
        /\ item'[i].noReply = item[i].noReply
    BY <2>1, <2>2 DEF ItemRecord
  <2>6. QED
    BY <2>4, <2>5 DEF Recovered, Status
<1>3. ASSUME NEW i \in Items PROVE SameTurn(i) /\ SameReplies(i)
  <2>1. ~Held(i)' /\ ~Marking(i)'
    BY <1>1 DEF Held, Marking, Sending
  <2>2. Unsent(i)' => Unsent(i)
    BY <1>1, <1>2 DEF Unsent, Claimable
  <2>3. SameReplies(i)
    BY <1>1 DEF SameReplies, RepliesTo
  <2>4. QED
    BY <1>1, <1>2, <2>1, <2>2, <2>3 DEF SameTurn
<1>4. \A p \in Passes : SameScan(p)
  BY <1>1, PassUntouched
<1>5. QED
  BY <1>1, <1>2, <1>3, <1>4, QuietRetry

\* The runner settles its item: nothing is put in the queue whose command may have been executed.
LEMMA OutcomeRetry ==
    ASSUME EngineAssumption, RetryInv, LedgerInv', Settling
    PROVE  RetryInv'
<1>1. TypeOK /\ pass \in [Passes -> PassRecord]
  BY RetryFacts
<1>2. /\ UNCHANGED <<discord, history>>
      /\ \/ UNCHANGED <<item, attempt, ledger>> /\ RunnerGone("idle")
         \/ pass' = pass /\ \E s \in Verdicts : Settles(Cur, s)
  BY <1>1, SettlingMoves
<1>3. runner'.pc \notin Sending /\ Cur \in Items
  BY <1>1, SettledRunner, SettlingMoves DEF Sending
<1>4. UNCHANGED <<inflight, channel, aged, handed, retried>>
  BY <1>2 DEF discord, history
<1>5. CASE UNCHANGED <<item, attempt, ledger>> /\ RunnerGone("idle")
  <2>1. \A p \in Passes : pass'[p] = pass[p] \/ pass'[p] = NoPass
    BY <1>1, <1>5 DEF RunnerGone
  <2>2. \A p \in Passes : SameScan(p) \/ Unread(pass'[p])
    BY <1>1, <2>1, PassUntouched, FreshUnread
  <2>3. QED
    BY <1>3, <1>4, <1>5, <2>2, QuietTurns
<1>6. ASSUME NEW s \in Verdicts, NEW j \in Items, j = Cur, Settles(j, s), pass' = pass PROVE RetryInv'
  <2>1. Moved(j, s) /\ (\A i \in Items : attempt'[i].since = attempt[i].since) /\ (s \in Claimable => Unsent(j))
    BY <1>6 DEF Settles, Verdicts, Terminal, Claimable
  <2>2. \A p \in Passes : SameScan(p)
    BY <1>1, <1>6, PassUntouched
  <2>3. QED
    BY <1>3, <1>4, <2>1, <2>2, QuietTurns
<1>7. QED
  BY <1>2, <1>3, <1>5, <1>6

\* What a step of a task or of a request does to what the passes have read.
LEMMA PassesUnread ==
    ASSUME TypeOK,
           \/ pass' = pass
           \/ \E r \in {NoPass} \cup {ReadUnknown(again) : again \in BOOLEAN} \cup {[NoPass EXCEPT !.at = "done"]} :
                 \E p \in Passes : pass' = [pass EXCEPT ![p] = r]
           \/ pass' = [p \in Passes |-> NoPass]
    PROVE  \A p \in Passes : SameScan(p) \/ Unread(pass'[p])
<1>1. CASE pass' = pass
  BY <1>1, PassUntouched
<1>2. ASSUME NEW r \in {NoPass} \cup {ReadUnknown(again) : again \in BOOLEAN} \cup {[NoPass EXCEPT !.at = "done"]},
             NEW q \in Passes, pass' = [pass EXCEPT ![q] = r], NEW p \in Passes
      PROVE  SameScan(p) \/ Unread(pass'[p])
  <2>1. Unread(r)
    BY FreshUnread
  <2>2. pass'[p] = r \/ pass'[p] = pass[p]
    BY <1>2 DEF TypeOK, ProcessType
  <2>3. QED
    BY <2>1, <2>2, PassUntouched
<1>3. CASE pass' = [p \in Passes |-> NoPass]
  BY <1>3, FreshUnread
<1>4. QED
  BY <1>1, <1>2, <1>3

\* The invariant is inductive, where the clock is read with the last page and every item has a recipient of its own.
LEMMA RetryInvStep ==
    ASSUME EngineAssumption, ~ScanTakesTime, OwnRecipients, RetryInv, [Next]_vars
    PROVE  RetryInv'
<1>1. LedgerInv'
  BY LedgerInvStep DEF RetryInv
<1>2. TypeOK /\ runner \in RunnerRecord /\ pass \in [Passes -> PassRecord] /\ "sweep" \in Passes /\ "api" \in Passes
  BY RetryFacts DEF Passes
\* The task moves on, or ends, without an item.
<1>3. ASSUME UNCHANGED <<item, attempt, inflight, channel, aged, handed, retried>>, runner'.pc \notin Sending,
             \/ pass' = pass
             \/ \E r \in {NoPass} \cup {ReadUnknown(again) : again \in BOOLEAN} \cup {[NoPass EXCEPT !.at = "done"]} :
                   \E p \in Passes : pass' = [pass EXCEPT ![p] = r]
             \/ pass' = [p \in Passes |-> NoPass]
      PROVE  RetryInv'
  <2>1. \A p \in Passes : SameScan(p) \/ Unread(pass'[p])
    BY <1>2, <1>3, PassesUnread
  <2>2. \A i \in Items : attempt'[i].since = attempt[i].since
    BY <1>3
  <2>3. QED
    BY <1>1, <1>3, <2>1, <2>2, QuietTurns
\* The runner is where it was.
<1>4. ASSUME UNCHANGED <<item, attempt, inflight, channel, aged, handed, retried>>,
             runner'.pc = runner.pc, runner'.cur = runner.cur, runner'.obs = runner.obs,
             \/ pass' = pass
             \/ \E r \in {NoPass} \cup {ReadUnknown(again) : again \in BOOLEAN} \cup {[NoPass EXCEPT !.at = "done"]} :
                   \E p \in Passes : pass' = [pass EXCEPT ![p] = r]
             \/ pass' = [p \in Passes |-> NoPass]
      PROVE  RetryInv'
  <2>1. \A p \in Passes : SameScan(p) \/ Unread(pass'[p])
    BY <1>2, <1>4, PassesUnread
  <2>2. \A i \in Items : attempt'[i].since = attempt[i].since
    BY <1>4
  <2>3. runner'.pc \notin Sending
           \/ (runner.pc \in Sending /\ runner'.pc = runner.pc /\ runner'.cur = runner.cur /\ runner'.obs = runner.obs)
    BY <1>4
  <2>4. QED
    BY <1>1, <1>4, <2>1, <2>2, <2>3, QuietTurns
<1>5. CASE UNCHANGED vars
  BY <1>4, <1>5 DEF vars, database, discord, process, history
<1>6. CASE RunnerStep
  <2>1. CASE AcquireToken
    <3>1. runner'.pc \in {"final", "check"}
      BY <1>2, <2>1, TurnBegins
    <3>2. QED
      BY <1>3, <2>1, <3>1 DEF AcquireToken, RunnerAs, database, discord, history, Sending
  <2>2. CASE CheckRoleAndCredential
    <3>1. runner'.pc \in {"final", "claim"}
      BY <1>2, <2>2, TurnBegins
    <3>2. QED
      BY <1>3, <2>2, <3>1 DEF CheckRoleAndCredential, RunnerAs, database, discord, history, Sending
  <2>3. CASE StartSweep
    <3>1. runner'.pc \in {"finishing", "resettling"}
      BY <1>2, <2>3 DEF StartSweep, RunnerRecord
    <3>2. \E again \in BOOLEAN : pass' = [pass EXCEPT !["sweep"] = ReadUnknown(again)]
      BY <2>3 DEF StartSweep
    <3>3. UNCHANGED <<item, attempt, inflight, channel, aged, handed, retried>>
      BY <2>3 DEF StartSweep, database, discord, history
    <3>4. QED
      BY <1>2, <1>3, <3>1, <3>2, <3>3 DEF Sending
  <2>4. CASE EndSweep
    <3>1. runner'.pc \in {"close", "judge"}
      BY <1>2, <2>4 DEF EndSweep, RunnerRecord
    <3>2. QED
      BY <1>2, <1>3, <2>4, <3>1 DEF EndSweep, database, discord, history, Sending
  <2>5. CASE WaitForGrace
    <3>1. UNCHANGED <<item, attempt, inflight, channel, aged, handed, retried, runner>>
      BY <2>5 DEF WaitForGrace, PassAs, database, discord, history
    <3>2. \E r \in {ReadUnknown(FALSE), [NoPass EXCEPT !.at = "done"]} : pass' = [pass EXCEPT !["sweep"] = r]
      BY <2>5 DEF WaitForGrace, PassAs
    <3>3. QED
      BY <1>2, <1>4, <3>1, <3>2
  <2>6. CASE Judge
    <3>1. runner'.pc \notin Sending
      BY <1>2, <2>6 DEF Judge, RunnerAs, Break, NextTurn, RunnerRecord, Sending
    <3>2. QED
      BY <1>3, <2>6, <3>1 DEF Judge, RunnerAs, database, discord, history
  <2>7. CASE Close \/ Cancelled
    BY <1>2, <1>3, <2>7 DEF Close, Cancelled, RunnerGone, RunnerAs, NoRunner, discord, history, Sending
  <2>8. QED
    BY <1>1, <1>6, <2>1, <2>2, <2>3, <2>4, <2>5, <2>6, <2>7, ClaimRetry, InvokeRetry, MarkRetry, OutcomeRetry
       DEF RunnerStep, Settling
<1>7. ASSUME NEW p \in Passes, PassStep(p) PROVE RetryInv'
  <2>1. ~ReadClock(p)
    BY DEF ReadClock, RetryInv
  <2>2. QED
    BY <1>1, <1>7, <2>1, ScanRetry, SettleRetry DEF PassStep
<1>8. CASE OperatorStep
  <2>1. CASE RunJob
    BY <1>3, <2>1 DEF RunJob, RunnerAs, NoRunner, discord, history, Sending
  <2>2. CASE PauseJob
    <3>1. runner'.pc = runner.pc /\ runner'.cur = runner.cur /\ runner'.obs = runner.obs
      BY <1>2, <2>2 DEF PauseJob, RunnerAs, RunnerRecord
    <3>2. QED
      BY <1>4, <2>2, <3>1 DEF PauseJob, RunnerAs, database, discord, history
  <2>3. CASE StopJob
    <3>1. runner'.pc = runner.pc /\ runner'.cur = runner.cur /\ runner'.obs = runner.obs
      BY <1>2, <2>3 DEF StopJob, RunnerRecord
    <3>2. QED
      BY <1>4, <2>3, <3>1 DEF StopJob, discord, history
  <2>4. CASE StopFinish
    BY <1>4, <2>4 DEF StopFinish, discord, history
  <2>5. CASE StartRequest
    BY <1>2, <1>4, <2>5 DEF StartRequest, database, discord, history
  <2>6. CASE FinishReconcile
    BY <1>2, <1>4, <2>6 DEF FinishReconcile, EndRequest, database, discord, history
  <2>7. ASSUME NEW i \in Items, ResolveSuccess(i) PROVE RetryInv'
    <3>1. Moved(i, "success") /\ "success" \notin Claimable
      BY <1>2, <2>7, RowMoves DEF ResolveSuccess, Claimable
    <3>2. UNCHANGED <<attempt, inflight, channel, aged, handed, retried, runner, pass>>
      BY <2>7 DEF ResolveSuccess, discord, process, history
    <3>3. \A p \in Passes : SameScan(p)
      BY <1>2, <3>2, PassUntouched
    <3>4. QED
      BY <1>1, <3>1, <3>2, <3>3, QuietTurns
  <2>8. QED
    BY <1>1, <1>8, <2>1, <2>2, <2>3, <2>4, <2>5, <2>6, <2>7, ReopenRetry DEF OperatorStep
<1>9. CASE FaultStep
  <2>1. CASE WorkerError
    BY <1>2, <1>3, <2>1 DEF WorkerError, RunnerGone, NoRunner, discord, history, Sending
  <2>2. CASE Cancel
    BY <1>2, <1>3, <2>2 DEF Cancel, RunnerGone, NoRunner, database, discord, history, Sending
  <2>3. CASE Crash
    BY <1>3, <2>3 DEF Crash, NoRunner, database, discord, history, Sending
  <2>4. QED
    BY <1>1, <1>9, <2>1, <2>2, <2>3, RecoverRetry DEF FaultStep
<1>10. CASE BotStep
  BY <1>1, <1>10, BotRetry, GraceRetry DEF BotStep
<1>11. QED
  BY <1>5, <1>6, <1>7, <1>8, <1>9, <1>10 DEF Next

\* The invariant holds at first: nothing has been sent, answered or read.
LEMMA RetryInvInit == EngineAssumption /\ Init => RetryInv
<1> SUFFICES ASSUME EngineAssumption, Init PROVE RetryInv
  OBVIOUS
<1>1. LedgerInv
  BY LedgerInvInit
<1>2. \A p \in Passes : pass[p].at = "none" /\ pass[p].rows = {}
  BY DEF Init, NoPass
<1>3. /\ runner.pc = "idle" /\ aged = {} /\ Len(channel) = 0
      /\ \A i \in Items : inflight[i] = 0 /\ attempt[i].since = 0 /\ item[i].noReply = FALSE
  BY DEF Init, NoRunner
<1>4. \A i \in Items : RepliesTo(i) = {}
  BY <1>3 DEF RepliesTo
<1>5. ASSUME NEW i \in Items PROVE SafeInv(i)
  <2>1. Placed(i) /\ AgedIsDone(i) /\ OneReply(i)
    BY <1>3, <1>4 DEF Placed, Marking, AgedIsDone, OneReply
  <2>2. NoReplyIsTrue(i) /\ RepliesAreLater(i)
    BY <1>3, <1>4 DEF NoReplyIsTrue, RepliesAreLater
  <2>3. \A p \in Passes : SeesAll(pass[p], i)
    BY <1>2 DEF SeesAll
  <2>4. QED
    BY <2>1, <2>2, <2>3 DEF SafeInv
<1>6. QED
  BY <1>1, <1>2, <1>5 DEF RetryInv

\* An item that only retry-unknown put back, and once, is credited once at most: the proof that let it back in the
\* queue was a sound one. It is so where the grace period cannot end between the last page of the history and the
\* clock reading, and where two items of the job do not ask for the same points for the same user, as a reply does
\* not say which of them it answers.
THEOREM FirstRetriesAreSafe == ~ScanTakesTime /\ OwnRecipients => (Spec => []FirstRetryIsSafe)
<1> SUFFICES ASSUME ~ScanTakesTime, OwnRecipients PROVE Spec => []FirstRetryIsSafe
  OBVIOUS
<1>1. Init => RetryInv
  BY RetryInvInit, EngineAssumption
<1>2. RetryInv /\ [Next]_vars => RetryInv'
  BY RetryInvStep, EngineAssumption
<1>3. RetryInv => FirstRetryIsSafe
  <2> SUFFICES ASSUME RetryInv, NEW i \in Items, handed[i] = 0, retried[i] <= 1 PROVE Credits(i) <= 1
    BY DEF FirstRetryIsSafe
  <2> DEFINE S == {k \in 1 .. Len(channel) : channel[k] = [to |-> Recipient[i], kind |-> "ok"]}
  <2>1. \A k, m \in RepliesTo(i) : k = m
    BY DEF RetryInv, SafeInv, OneReply
  <2>2. S \subseteq RepliesTo(i)
    BY DEF RepliesTo
  <2>3. S = {} \/ \E k : S = {k}
    <3> HIDE DEF S
    <3>1. ASSUME NEW k \in S PROVE S = {k}
      BY <2>1, <2>2
    <3>2. QED
      BY <3>1
  <2>4. Cardinality(S) <= 1
    <3> HIDE DEF S
    <3>1. CASE S = {}
      <4>1. Cardinality({}) = 0
        BY FS_EmptySet
      <4>2. QED
        BY <3>1, <4>1
    <3>2. ASSUME NEW k, S = {k} PROVE Cardinality(S) <= 1
      <4>1. Cardinality({k}) = 1
        BY FS_Singleton
      <4>2. QED
        BY <3>2, <4>1
    <3>3. QED
      BY <2>3, <3>1, <3>2
  <2>5. QED
    BY <2>4 DEF Credits
<1>4. QED
  BY <1>1, <1>2, <1>3, PTL DEF Spec
=============================================================================
