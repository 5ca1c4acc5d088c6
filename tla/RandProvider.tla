---------------------------- MODULE RandProvider -----------------------------
(***************************************************************************)
(* The randomness providers (src/src/utils/rand) and the VRF coordinator   *)
(* behind them: requests are answered once each, in any order, late or     *)
(* never.  A request keeps the provider that made it and its place in the  *)
(* order of all requests, which stands for the request id.                 *)
(***************************************************************************)
EXTENDS Integers

CONSTANTS
  Providers,   \* the provider contracts that can be installed
  MaxRequests  \* bound on the requests ever made

ASSUME ProvidersAssumption == MaxRequests \in Nat /\ Providers # {}

VARIABLES
  requests,    \* the requests not answered yet
  numRequests  \* how many were made

requestVars == <<requests, numRequests>>

RequestsTypeOK ==
  /\ numRequests \in 0..MaxRequests
  /\ requests \subseteq [provider : Providers, nonce : 1..numRequests]

RequestsInit == requests = {} /\ numRequests = 0

requestRandomBytes(provider) ==
  /\ numRequests < MaxRequests
  /\ numRequests' = numRequests + 1
  /\ requests' = requests \cup {[provider |-> provider, nonce |-> numRequests + 1]}

\* The coordinator forgets a request before it calls back, whatever the call
\* back then does.
answer(request) ==
  /\ requests' = requests \ {request}
  /\ UNCHANGED numRequests

Outstanding(provider) == {r \in requests : r.provider = provider}
==============================================================================
