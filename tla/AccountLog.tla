----------------------------- MODULE AccountLog -----------------------------
(***************************************************************************)
(* What identity-service tells other services about one account: the       *)
(* events of its outbox in the order of their commits, which is the order  *)
(* of their seq.  The permission is the one the reader looks at:           *)
(* capability:tool_integration for Integration, reward:access for Reward.  *)
(* The session.revoked that goes with a suspension or a deletion asks a    *)
(* reader for nothing that the event before it does not; it is left out.   *)
(***************************************************************************)
EXTENDS Integers, Sequences, FiniteSetsExt

CONSTANT MaxEvents   \* bound on the events

ASSUME MaxEventsAssumption == MaxEvents \in Nat \ {0}

VARIABLE log

StatusEvents == {"registered", "active", "suspended", "deleted"}
PermissionEvents == {"granted", "revoked"}
Events == StatusEvents \union PermissionEvents \union {"verified", "sessions"}

(* The last of some kinds of events; 0 for none. *)
Last(kinds) == Max({0} \union {i \in DOMAIN log : log[i] \in kinds})
LastIs(kinds, event) == Last(kinds) # 0 /\ log[Last(kinds)] = event

Registered == Len(log) > 0
Deleted    == LastIs(StatusEvents, "deleted")
Granted    == LastIs(PermissionEvents, "granted")

(* The account's status: the verification of a pending one is followed by "active". *)
Status == IF ~Registered THEN "none"
          ELSE IF LastIs(StatusEvents, "registered") THEN "pending" ELSE log[Last(StatusEvents)]
Verified == Last({"verified"}) # 0

-----------------------------------------------------------------------------
Tell(events) ==
  /\ Registered /\ ~Deleted
  /\ Len(log \o events) <= MaxEvents
  /\ log' = log \o events

(* The account's status is pending until its address is verified; the invite key may give the permission. *)
Register ==
  /\ ~Registered
  /\ \E events \in {<<"registered">>, <<"registered", "granted">>} : Len(events) <= MaxEvents /\ log' = events

Verify ==
  /\ ~Verified
  /\ Tell(IF Status = "pending" THEN <<"verified", "active">> ELSE <<"verified">>)

SetStatus == \E status \in {"active", "suspended"} : Status # status /\ Tell(<<status>>)
Grant       == ~Granted /\ Tell(<<"granted">>)
Revoke      == Granted /\ Tell(<<"revoked">>)
EndSessions == Tell(<<"sessions">>)
Delete      == Tell(<<"deleted">>)

AccountChanges == Register \/ Verify \/ SetStatus \/ Grant \/ Revoke \/ Delete
=============================================================================
