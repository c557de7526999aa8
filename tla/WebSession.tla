----------------------------- MODULE WebSession -----------------------------
(***************************************************************************)
(* The sign-in session of one tab of manager-web: tokens in memory and in  *)
(* sessionStorage, requests that meet a 401, the one refresh they share,   *)
(* and what may end or begin a session while these are under way.          *)
(*                                                                         *)
(* JavaScript runs to the next await.  clearTokens and setTokens begin a   *)
(* new epoch; here everything under way carries whether the epoch is still *)
(* the one it began in.  Other tabs act on this one by the broadcast of a  *)
(* sign-out, and by ending its session at the server.                      *)
(***************************************************************************)
EXTENDS Integers, FiniteSets

CONSTANTS Calls,      \* requests the page may have under way at a time
          MaxSignIns, \* bound on the sessions begun
          MaxGen,     \* bound on the rotations of a refresh token
          MaxFlights  \* MaxFlights[m]: bound on the refreshes under way in mode m, those of old epochs included

ASSUME WebAssumption == MaxSignIns \in Nat /\ MaxGen \in Nat /\ MaxFlights \in [{"password", "oidc"} -> Nat]

VARIABLES mode,     \* VITE_AUTH_MODE
          begun,    \* number of sessions begun at the server
          server,   \* server[s]: whether session s is live, and its current refresh token
          tab,      \* tokenStore and AuthProvider, in memory
          stored,   \* mp_refresh_token in sessionStorage
          call,     \* authedFetch of each request
          flight,   \* the refreshes under way
          restore,  \* the effect that restores the session after a reload
          signing,  \* the session a sign-in has begun at the server, while its answer is under way
          here,     \* history: the session that was last begun or restored in this tab and not ended since
          overrun,  \* history: the restoration wrote its result in an epoch that is not its own
          lost,     \* history: sessions of which the answer to a rotation did not arrive
          twice    \* history: sessions of which a token was presented again after it was rotated

webHistory == <<here, overrun, lost, twice>>
web == <<mode, begun, server, tab, stored, call, flight, restore, signing, webHistory>>

Sessions == 1 .. MaxSignIns
None == [s |-> 0, gen |-> 0]
Blank == [access |-> 0, refresh |-> None, shown |-> FALSE]
NoCall == [st |-> "idle", s |-> 0, me |-> "no"]
NoRestore == [st |-> "no", current |-> FALSE, token |-> None]

WebInit ==
  /\ mode \in {"password", "oidc"}
  /\ begun = 0
  /\ server = [s \in Sessions |-> [live |-> FALSE, gen |-> 0]]
  /\ tab = Blank /\ stored = None
  /\ call = [c \in Calls |-> NoCall]
  /\ flight = {} /\ restore = NoRestore /\ signing = 0
  /\ here = 0 /\ overrun = FALSE /\ lost = {} /\ twice = {}

-----------------------------------------------------------------------------
(* tokenStore *)

(* A new epoch: what is under way is of an old one, and those that wait for a refresh find that it is stale. *)
NewEpoch(calls, flights) ==
  /\ flight' = {[f EXCEPT !.current = FALSE] : f \in flights}
  /\ call' = [c \in Calls |-> IF calls[c].st # "waiting" THEN calls[c]
                              ELSE IF calls[c].me = "restore" THEN [calls[c] EXCEPT !.st = "stale"]
                              ELSE NoCall]

Outlived(r) == [r EXCEPT !.current = FALSE]

(* clearTokens, and what the page shows after it. *)
ClearTokens(shown, calls, flights) ==
  /\ NewEpoch(calls, flights)
  /\ tab' = [Blank EXCEPT !.shown = shown]
  /\ stored' = None
  /\ here' = 0 /\ overrun' = FALSE

(* setTokens, likewise.  A sign-in that is not to be remembered is kept in memory only. *)
SetTokens(given, persist, shown, calls) ==
  /\ NewEpoch(calls, flight)
  /\ tab' = [access |-> given.s, refresh |-> given, shown |-> shown]
  /\ stored' = IF persist THEN given ELSE None

EndSession(calls, flights) == ClearTokens(tab.shown, calls, flights)

KeepsTokens == UNCHANGED <<tab, stored, here, overrun>>

-----------------------------------------------------------------------------
(* The server *)

\* A session is ended elsewhere: by another tab that shares it, by the owner, by an administrator.
SessionEnds(s) ==
  /\ server[s].live
  /\ server' = [server EXCEPT ![s].live = FALSE]
  /\ UNCHANGED <<mode, begun, tab, stored, call, flight, restore, signing, webHistory>>

(* A refresh reaches the server.  OpenID Connect rotates the token, and ends the session when a token comes again; *)
(* the sign-in with a password has one token for the session.                                                     *)
RefreshServed(f) ==
  /\ f \in flight /\ f.answer = "none"
  /\ LET row == server[f.s]
         again == mode = "oidc" /\ f.gen < row.gen
         good == row.live /\ ~again
     IN /\ good /\ mode = "oidc" => row.gen < MaxGen
        /\ flight' = (flight \ {f}) \union {[f EXCEPT !.answer = IF good THEN "ok" ELSE "refused"]}
        /\ server' = [server EXCEPT ![f.s] = [live |-> @.live /\ ~again,
                                              gen |-> IF good /\ mode = "oidc" THEN @.gen + 1 ELSE @.gen]]
        /\ twice' = IF again THEN twice \union {f.s} ELSE twice
  /\ UNCHANGED <<mode, begun, tab, stored, call, restore, signing, here, overrun, lost>>

-----------------------------------------------------------------------------
(* Signing in and out, and the page itself *)

(* The page is loaded anew: nothing is left but sessionStorage. *)
Loaded ==
  /\ tab' = Blank
  /\ call' = [c \in Calls |-> NoCall]
  /\ flight' = {[f EXCEPT !.current = FALSE] : f \in flight}
  /\ restore' = IF stored = None THEN NoRestore ELSE [st |-> "sent", current |-> TRUE, token |-> stored]
  /\ here' = IF stored = None THEN 0 ELSE here
  /\ overrun' = (overrun /\ stored # None)

Reload ==
  /\ Loaded /\ signing' = 0
  /\ UNCHANGED <<mode, begun, server, stored, lost, twice>>

\* The form is sent, or the page comes back from the authorization endpoint with a code.
SignIn ==
  /\ ~tab.shown /\ signing = 0 /\ begun < MaxSignIns
  /\ begun' = begun + 1 /\ signing' = begun'
  /\ server' = [server EXCEPT ![begun'].live = TRUE]
  /\ IF mode = "oidc" THEN Loaded ELSE UNCHANGED <<tab, call, flight, restore, here, overrun>>
  /\ UNCHANGED <<mode, stored, lost, twice>>

\* Its answer: with OpenID Connect the page asks who it is before it shows anything.
SignInDone ==
  /\ signing # 0
  /\ LET given == [s |-> signing, gen |-> 0] IN
       IF mode = "password"
       THEN \E remember \in BOOLEAN : SetTokens(given, remember, TRUE, call)
       ELSE \E c \in Calls :
              /\ call[c] = NoCall
              /\ SetTokens(given, TRUE, tab.shown,
                           [call EXCEPT ![c] = [st |-> "sent", s |-> signing, me |-> "callback"]])
  /\ here' = signing /\ overrun' = FALSE
  /\ signing' = 0 /\ restore' = Outlived(restore)
  /\ UNCHANGED <<mode, begun, server, lost, twice>>

SignInFails ==
  /\ signing # 0
  /\ signing' = 0
  /\ UNCHANGED <<mode, begun, server, tab, stored, call, flight, restore, webHistory>>

(* By the user or for want of one.  The server is told without waiting for it; /oauth/logout refuses what it is sent. *)
LogOut ==
  /\ tab.shown
  /\ ClearTokens(FALSE, call, flight)
  /\ restore' = Outlived(restore)
  /\ \E told \in BOOLEAN :
       server' = IF told /\ mode = "password" /\ tab.refresh # None
                 THEN [server EXCEPT ![tab.refresh.s].live = FALSE] ELSE server
  /\ UNCHANGED <<mode, begun, signing, lost, twice>>

\* Another tab has signed out, or the notice that the session has ended is dismissed.
Leave ==
  /\ ClearTokens(FALSE, call, flight)
  /\ restore' = Outlived(restore)
  /\ UNCHANGED <<mode, begun, server, signing, lost, twice>>

\* The session of this tab is restored: the request goes to /v1/auth/refresh, which knows no token of OpenID Connect.
Restored(c) ==
  /\ restore.st = "sent" /\ mode = "password" /\ server[restore.token.s].live
  /\ call[c] = NoCall
  /\ SetTokens(restore.token, TRUE, tab.shown,
               [call EXCEPT ![c] = [st |-> "sent", s |-> restore.token.s, me |-> "restore"]])
  /\ here' = IF restore.current THEN restore.token.s ELSE here
  /\ overrun' = (overrun \/ ~restore.current)
  /\ restore' = NoRestore
  /\ UNCHANGED <<mode, begun, server, signing, lost, twice>>

NotRestored ==
  /\ restore.st = "sent"
  /\ mode = "oidc" \/ ~server[restore.token.s].live
  /\ ClearTokens(tab.shown, call, flight)
  /\ restore' = NoRestore
  /\ UNCHANGED <<mode, begun, server, signing, lost, twice>>

\* The network or the service fails: the token stays in sessionStorage.
RestoreUnavailable ==
  /\ restore.st = "sent"
  /\ restore' = NoRestore
  /\ UNCHANGED <<mode, begun, server, tab, stored, call, flight, signing, webHistory>>

-----------------------------------------------------------------------------
(* Requests *)

Sent(c) == call[c].st \in {"sent", "again"}
Ends(c) == [call EXCEPT ![c] = NoCall]

Request(c) ==
  /\ tab.shown /\ call[c] = NoCall
  /\ call' = [call EXCEPT ![c] = [st |-> "sent", s |-> tab.access, me |-> "no"]]
  /\ UNCHANGED <<mode, begun, server, tab, stored, flight, restore, signing, webHistory>>

(* An answer that is not a 401.  To the question who it is: the page shows the user. *)
Answered(c) ==
  /\ Sent(c) /\ call[c].s # 0
  /\ call' = Ends(c)
  /\ tab' = [tab EXCEPT !.shown = @ \/ call[c].me # "no"]
  /\ UNCHANGED <<mode, begun, server, stored, flight, restore, signing, webHistory>>

(* The request fails for good, or finds its refresh stale: a restoration ends with clearTokens, unless it is the *)
(* network that failed.                                                                                          *)
Fails(c) ==
  /\ Sent(c) \/ call[c].st = "stale"
  /\ \E network \in BOOLEAN :
       /\ network => Sent(c)
       /\ IF call[c].me = "restore" /\ ~network
          THEN /\ ClearTokens(tab.shown, Ends(c), flight)
               /\ restore' = Outlived(restore)
          ELSE call' = Ends(c) /\ KeepsTokens /\ UNCHANGED <<flight, restore>>
  /\ UNCHANGED <<mode, begun, server, signing, lost, twice>>

(* A 401 that ends the session of the tab: the session is revoked, the request was sent again already, or there is *)
(* nothing to refresh with.                                                                                        *)
Unauthorized(c) ==
  /\ Sent(c)
  /\ \/ call[c].s # 0 /\ ~server[call[c].s].live
     \/ call[c].st = "again"
     \/ tab.refresh = None /\ tab.access # 0
  /\ EndSession(Ends(c), flight)
  /\ restore' = Outlived(restore)
  /\ UNCHANGED <<mode, begun, server, signing, lost, twice>>

\* Mutant: every request refreshes for itself.
NotShared == FALSE
(* Only a refresh of this epoch is shared. *)
Shared == \E f \in flight : f.current

(* A 401 for an access token that has expired: one refresh for all who wait. *)
NeedsRefresh(c) ==
  /\ call[c].st = "sent" /\ tab.refresh # None
  /\ Shared \/ Cardinality(flight) < MaxFlights[mode]
  /\ call' = [call EXCEPT ![c].st = "waiting"]
  /\ flight' = IF Shared THEN flight
               ELSE flight \union {[by |-> c, s |-> tab.refresh.s, gen |-> tab.refresh.gen,
                                    answer |-> "none", current |-> TRUE]}
  /\ UNCHANGED <<mode, begun, server, tab, stored, restore, signing, webHistory>>

\* Mutant: a result is taken whatever has happened meanwhile.
TakesAny(f) == TRUE
(* A result is taken in the epoch the refresh began in, and dropped in any other. *)
Takes(f) == f.current

Rotated(f) == [s |-> f.s, gen |-> IF mode = "oidc" THEN f.gen + 1 ELSE f.gen]

(* Those who wait send their requests again with the new access token. *)
Resumed(f) ==
  [c \in Calls |-> IF call[c].st = "waiting" THEN [call[c] EXCEPT !.st = "again", !.s = f.s] ELSE call[c]]

Refreshed(f) ==
  /\ f \in flight /\ f.answer = "ok"
  /\ flight' = flight \ {f}
  /\ IF Takes(f)
     THEN /\ tab' = [tab EXCEPT !.access = f.s, !.refresh = Rotated(f)]
          /\ stored' = IF stored = None THEN None ELSE Rotated(f)
          /\ call' = Resumed(f)
     ELSE UNCHANGED <<tab, stored, call>>
  /\ UNCHANGED <<mode, begun, server, restore, signing, webHistory>>

Refused(f) ==
  /\ f \in flight /\ f.answer = "refused"
  /\ IF Takes(f)
     THEN /\ EndSession(call, flight \ {f})
          /\ restore' = Outlived(restore)
     ELSE flight' = flight \ {f} /\ KeepsTokens /\ UNCHANGED <<call, restore>>
  /\ UNCHANGED <<mode, begun, server, signing, lost, twice>>

(* No answer: the session is kept, whether or not the server has rotated the token, or still will. *)
RefreshLost(f) ==
  /\ f \in flight /\ f.current
  /\ flight' = (flight \ {f}) \union (IF f.answer = "none" THEN {[f EXCEPT !.current = FALSE]} ELSE {})
  /\ call' = [c \in Calls |-> IF call[c].st = "waiting" THEN NoCall ELSE call[c]]
  /\ lost' = lost \union {f.s}
  /\ UNCHANGED <<mode, begun, server, tab, stored, restore, signing, here, overrun, twice>>

-----------------------------------------------------------------------------
WebStep ==
  \/ Reload \/ SignIn \/ SignInDone \/ SignInFails \/ LogOut \/ Leave
  \/ NotRestored \/ RestoreUnavailable
  \/ \E s \in Sessions : SessionEnds(s)
  \/ \E c \in Calls : Restored(c) \/ Request(c) \/ Answered(c) \/ Fails(c) \/ Unauthorized(c) \/ NeedsRefresh(c)
  \/ \E f \in flight : RefreshServed(f) \/ Refreshed(f) \/ Refused(f) \/ RefreshLost(f)

-----------------------------------------------------------------------------
(* Properties *)

\* http.ts, "drop the result": whatever is under way when the user signs out, signs in again or hears of another tab,
\* the tokens in memory and in sessionStorage are those of the one session the tab is in.  The exception is the
\* restoration after a reload, whose result auth.tsx takes without a look at the epoch.
OneSessionInTab ==
  overrun \/ {tab.access, tab.refresh.s, stored.s} \subseteq {0, here}

\* tryRefresh: requests that meet a 401 together present the rotating token once, so that the server sees a token
\* again, which ends the session, only when the answer to a refresh was lost.
NoTokenIsUsedTwice == twice \subseteq lost
=============================================================================
