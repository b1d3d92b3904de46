--------------------------- MODULE AccessIdentity ---------------------------
(***************************************************************************)
(* How a Worker isolate authenticates a request: the signing keys of the   *)
(* identity provider are cached for an hour, a key id the cache does not   *)
(* know forces a fetch, and the claims are validated against the clock     *)
(* only after the signature.  The provider rotates its keys meanwhile, and *)
(* two requests of the isolate interleave at every await.                  *)
(*                                                                         *)
(* Sources: pal-cloud-worker/src/runtime.rs (authenticate_human,           *)
(* load_jwks, verify_rs256), access_token.rs and                           *)
(* pal-companion-service/src/access.rs.                                    *)
(*                                                                         *)
(* Keys are numbered in the order the provider brings them into use; it    *)
(* publishes a key before it signs with it.  The provider is external.     *)
(***************************************************************************)
EXTENDS Integers, FiniteSets

CONSTANTS
    Requests,   \* requests of one isolate
    MaxKey,     \* keys the provider brings into use
    Ttl,        \* JWKS_CACHE_MS, in ticks
    MaxFetch,   \* longest fetch of the keys, in ticks
    Lifetime,   \* an assertion's life, in ticks
    Skew,       \* CLOCK_SKEW_SECONDS, in ticks
    MaxTime     \* bound on the clock

VARIABLES
    now,        \* the clock
    newest,     \* the provider's newest key
    oldest,     \* the oldest key it still publishes
    retired,    \* when a key was withdrawn
    cache,      \* JWKS_CACHE of the isolate
    request     \* each request

aiVars == <<now, newest, oldest, retired, cache, request>>

Keys == 1..MaxKey
Published == oldest..newest
NoCache == [keys |-> {}, expires |-> 0]
Idle == [at |-> "idle", kid |-> 0, exp |-> 0, forced |-> FALSE, keys |-> {},
         sent |-> 0]

Init ==
    /\ now = 0
    /\ newest = 1 /\ oldest = 1
    /\ retired = [k \in Keys |-> MaxTime + 1]
    /\ cache = NoCache
    /\ request = [q \in Requests |-> Idle]

----------------------------------------------------------------------------
(* The identity provider and the clock                                     *)

IntroduceKey ==
    /\ newest < MaxKey
    /\ newest' = newest + 1
    /\ UNCHANGED <<now, oldest, retired, cache, request>>

WithdrawKey ==
    /\ oldest < newest
    /\ oldest' = oldest + 1
    /\ retired' = [retired EXCEPT ![oldest] = now]
    /\ UNCHANGED <<now, newest, cache, request>>

Fetching(q) == request[q].at \in {"fetch", "response"}

\* Time passes; a fetch ends within MaxFetch.
Tick ==
    /\ now < MaxTime
    /\ \A q \in Requests : Fetching(q) => now < request[q].sent + MaxFetch
    /\ now' = now + 1
    /\ UNCHANGED <<newest, oldest, retired, cache, request>>

----------------------------------------------------------------------------
(* A request                                                               *)

Set(q, r) == request' = [request EXCEPT ![q] = r]

\* ParsedAccessAssertion::parse: a well-formed assertion names its key.  It
\* was signed with a key the provider published when it was issued.
Begin(q, k, issued) ==
    /\ request[q].at = "idle"
    /\ k \in 1..newest /\ issued =< now /\ issued =< retired[k]
    /\ Set(q, [Idle EXCEPT !.at = "load", !.kid = k, !.exp = issued + Lifetime])
    /\ UNCHANGED <<now, newest, oldest, retired, cache>>

\* authenticate_human, when it has a list of keys: a key that the list does
\* not hold forces one fetch.  No await separates it from load_jwks.
Found(r, keys) ==
    [r EXCEPT !.at = IF r.kid \in keys THEN "verify"
                     ELSE IF r.forced THEN "unknown" ELSE "load",
              !.forced = r.kid \notin keys, !.keys = {}, !.sent = 0]

\* load_jwks: the cache answers unless it is forced or expired.
CacheAnswers(r) == ~r.forced /\ cache.expires > now

\* load_jwks, up to the fetch.
LoadKeys(q) ==
    /\ request[q].at = "load"
    /\ IF CacheAnswers(request[q])
       THEN Set(q, Found(request[q], cache.keys))
       ELSE Set(q, [request[q] EXCEPT !.at = "fetch", !.sent = now])
    /\ UNCHANGED <<now, newest, oldest, retired, cache>>

\* The provider answers with the keys it publishes at that moment.
ProviderAnswers(q) ==
    /\ request[q].at = "fetch"
    /\ Set(q, [request[q] EXCEPT !.at = "response", !.keys = Published])
    /\ UNCHANGED <<now, newest, oldest, retired, cache>>

\* The fetch fails, or its status or body is not usable.
FetchFails(q) ==
    /\ Fetching(q)
    /\ Set(q, Idle)
    /\ UNCHANGED <<now, newest, oldest, retired, cache>>

\* load_jwks stores the answer, whatever another request stored meanwhile.
StoreKeys(q) ==
    /\ request[q].at = "response"
    /\ cache' = [keys |-> request[q].keys, expires |-> now + Ttl]
    /\ Set(q, Found(request[q], request[q].keys))
    /\ UNCHANGED <<now, newest, oldest, retired>>

\* validate_verified: issuer, audience and identity are taken as right.
Unexpired(r) == r.exp + Skew >= now

\* verify_rs256 (an await) with the key that was found, then the claims and
\* from_verified_identity: accepted, or refused as invalid.
Verify(q, signatureHolds) ==
    /\ request[q].at = "verify"
    /\ Set(q, [request[q] EXCEPT !.at =
           IF signatureHolds /\ Unexpired(request[q]) THEN "accepted"
           ELSE "refused"])
    /\ UNCHANGED <<now, newest, oldest, retired, cache>>

\* The handler runs, or the error is answered.
Finish(q) ==
    /\ request[q].at \in {"accepted", "refused", "unknown"}
    /\ Set(q, Idle)
    /\ UNCHANGED <<now, newest, oldest, retired, cache>>

Next ==
    \/ IntroduceKey \/ WithdrawKey \/ Tick
    \/ \E q \in Requests :
          \/ \E k \in Keys, issued \in 0..MaxTime : Begin(q, k, issued)
          \/ LoadKeys(q) \/ ProviderAnswers(q) \/ FetchFails(q)
          \/ StoreKeys(q)
          \/ \E holds \in BOOLEAN : Verify(q, holds)
          \/ Finish(q)

Spec == Init /\ [][Next]_aiVars

----------------------------------------------------------------------------
(* Properties                                                              *)

\* The key a signature is verified with was withdrawn less than an hour and one
\* fetch ago: a slow fetch that overwrites a newer cache entry, or a refresh
\* that another request forced, does not extend that.
AcceptedKeyIsRecent ==
  \A q \in Requests :
     request[q].at # "verify" /\ request'[q].at = "verify" =>
         now < retired[request[q].kid] + Ttl + MaxFetch

\* Key rotation locks nobody out: an assertion is refused for an unknown key
\* only if the provider has withdrawn the key, however old the cache of the
\* isolate and however its requests interleave.
RotationLocksNobodyOut ==
    \A q \in Requests :
        request[q].at = "unknown" => retired[request[q].kid] =< now
=============================================================================
