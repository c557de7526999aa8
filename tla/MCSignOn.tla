------------------------------ MODULE MCSignOn ------------------------------
(* Three parts of signing in that meet only through the tokens they hand on: the provider, the tab of a browser, *)
(* the keys.  A behaviour is one of the three; all at once they would only multiply.                             *)
EXTENDS OidcSessions, WebSession, SigningKeys

VARIABLE part   \* whose behaviour this is

\* Tokens rotate in the mode oidc only: there the refresh of an old session and that of a new one matter together.
Flights == [m \in {"password", "oidc"} |-> IF m = "oidc" THEN 2 ELSE 1]

all == <<part, vars, web, keys>>

SignOnInit ==
  /\ part \in {"provider", "web", "keys"}
  /\ Init /\ WebInit /\ KeysInit
  /\ part # "web" => mode = "oidc"

SignOnNext ==
  \/ part = "provider" /\ Next /\ UNCHANGED <<part, web, keys>>
  \/ part = "web" /\ WebStep /\ UNCHANGED <<part, vars, keys>>
  \/ part = "keys" /\ KeysStep /\ UNCHANGED <<part, vars, web>>

SignOnSpec == SignOnInit /\ [][SignOnNext]_all /\ Fairness
=============================================================================
