---------------------------- MODULE GithubRotator ----------------------------
(***************************************************************************)
(* The rotation over several Github apps (src/githubrotator/rotator.go)    *)
(* from which the Github provider and the Github stores get their tokens.  *)
(* The rotator belongs to the process, so what it remembers of an app      *)
(* carries over to the later calls of a lambda.  Calls come one at a time. *)
(*                                                                         *)
(* Apps are numbered in the order of the IntegrationIDs.  Times are ticks; *)
(* a step is at most one request to Github.                                *)
(***************************************************************************)
EXTENDS Integers

CONSTANTS
    N,            \* number of apps
    TokenLife,    \* validity of an installation token
    ExpiryMargin, \* a token this close to its end counts as expired
    LimitWindow,  \* how long Github refuses an app that is over its limit
    MaxNow,       \* bound on the clock
    Nil           \* Go's nil

\* strings.Split returns at least one element, so there is at least one app.
ASSUME AppsAssumption == N \in Nat \ {0}

ASSUME TimesAssumption ==
    /\ TokenLife \in Nat /\ ExpiryMargin \in Nat
    /\ LimitWindow \in Nat /\ MaxNow \in Nat
    /\ Nil \notin Nat

VARIABLES
    now,
    refusedUntil,   \* Github: an app is over its limit until then
    apps,           \* which app is where in the slice
    token,          \* when the last token of each app expires
    rateLimitError, \* when the limit of each app was to be reset
    call            \* the local variables of the call under way, or of the last

vars == <<now, refusedUntil, apps, token, rateLimitError, call>>

App == 1 .. N

\* passed and low are history: the apps that were asked or bypassed, and the
\* one whose remaining requests were found to be below the cutoff.
Call == [pc: {"idle", "limits", "create"}, i: 0 .. N,
         passed: SUBSET App, low: App \cup {Nil},
         outcome: {"none", "token", "limits unknown", "no token"}]

Refused(a) == now < refusedUntil[a]

hasZeroRateLimit(a) == rateLimitError[a] # Nil /\ rateLimitError[a] <= now

hasTokenExpired(expiresAt) == expiresAt - now <= ExpiryMargin

hasValidToken(a) == token[a] # Nil /\ ~hasTokenExpired(token[a])

\* Faulty variant: the first and the last app change places.
rotate_Swap ==
    apps' = [i \in App |-> IF i = 1 THEN apps[N] ELSE IF i = N THEN apps[1] ELSE apps[i]]

rotate == apps' = [i \in App |-> IF i < N THEN apps[i + 1] ELSE apps[1]]

-----------------------------------------------------------------------------
Init ==
    /\ now = 0
    /\ refusedUntil = [a \in App |-> 0]
    /\ apps = [i \in App |-> i]
    /\ token = [a \in App |-> Nil]
    /\ rateLimitError = [a \in App |-> Nil]
    /\ call = [pc |-> "idle", i |-> 0, passed |-> {}, low |-> Nil, outcome |-> "none"]

Return(outcome) == call' = [call EXCEPT !.pc = "idle", !.outcome = outcome]

CreateInstallationToken ==
    /\ call.pc = "idle"
    /\ call' = [pc |-> IF hasValidToken(apps[1]) THEN "limits" ELSE "create", i |-> 0,
                passed |-> {}, low |-> Nil, outcome |-> "none"]
    /\ UNCHANGED <<now, refusedUntil, apps, token, rateLimitError>>

\* GetTokenRateLimits fails, and the call with it.
LimitsUnknown ==
    /\ call.pc = "limits"
    /\ Return("limits unknown")
    /\ UNCHANGED <<now, refusedUntil, apps, token, rateLimitError>>

AboveCutoff ==
    /\ call.pc = "limits"
    /\ ~Refused(apps[1])
    /\ call' = [call EXCEPT !.pc = "create"]
    /\ UNCHANGED <<now, refusedUntil, apps, token, rateLimitError>>

\* Faulty variant: the app stays in front.
BelowCutoff_InPlace ==
    /\ call.pc = "limits"
    /\ call' = [call EXCEPT !.pc = "create", !.low = apps[1]]
    /\ UNCHANGED <<now, refusedUntil, apps, token, rateLimitError>>

BelowCutoff ==
    /\ call.pc = "limits"
    /\ call' = [call EXCEPT !.pc = "create", !.low = apps[1]]
    /\ rotate
    /\ UNCHANGED <<now, refusedUntil, token, rateLimitError>>

-----------------------------------------------------------------------------
(* The loop of createInstallationToken.                                    *)

Trying == call.pc = "create" /\ call.i < N

\* Faulty variant: the round is counted in the body of the loop and by the loop.
NextApp_CountedTwice ==
    /\ rotate
    /\ call' = [call EXCEPT !.i = @ + 2, !.passed = @ \cup {apps[1]}]

NextApp ==
    /\ rotate
    /\ call' = [call EXCEPT !.i = @ + 1, !.passed = @ \cup {apps[1]}]

\* Faulty variant: a bypassed app does not count as a round of the loop.
Bypass_Uncounted ==
    /\ Trying
    /\ hasZeroRateLimit(apps[1])
    /\ rotate
    /\ call' = [call EXCEPT !.passed = @ \cup {apps[1]}]
    /\ UNCHANGED <<now, refusedUntil, token, rateLimitError>>

Bypass ==
    /\ Trying
    /\ hasZeroRateLimit(apps[1])
    /\ NextApp
    /\ UNCHANGED <<now, refusedUntil, token, rateLimitError>>

Asking == Trying /\ ~hasZeroRateLimit(apps[1])

RateLimited ==
    /\ Asking
    /\ Refused(apps[1])
    /\ token' = [token EXCEPT ![apps[1]] = Nil]
    /\ rateLimitError' = [rateLimitError EXCEPT ![apps[1]] = refusedUntil[apps[1]]]
    /\ NextApp
    /\ UNCHANGED <<now, refusedUntil>>

\* Faulty variant: the next round asks the same app again.
Fails_InPlace ==
    /\ Asking
    /\ token' = [token EXCEPT ![apps[1]] = Nil]
    /\ rateLimitError' = [rateLimitError EXCEPT ![apps[1]] = Nil]
    /\ call' = [call EXCEPT !.i = @ + 1, !.passed = @ \cup {apps[1]}]
    /\ UNCHANGED <<now, refusedUntil, apps>>

\* Any other error of Github.
Fails ==
    /\ Asking
    /\ token' = [token EXCEPT ![apps[1]] = Nil]
    /\ rateLimitError' = [rateLimitError EXCEPT ![apps[1]] = Nil]
    /\ NextApp
    /\ UNCHANGED <<now, refusedUntil>>

Succeeds ==
    /\ Asking
    /\ ~Refused(apps[1])
    /\ token' = [token EXCEPT ![apps[1]] = now + TokenLife]
    /\ rateLimitError' = [rateLimitError EXCEPT ![apps[1]] = Nil]
    /\ Return("token")
    /\ UNCHANGED <<now, refusedUntil, apps>>

GiveUp ==
    /\ call.pc = "create"
    /\ call.i = N
    /\ Return("no token")
    /\ UNCHANGED <<now, refusedUntil, apps, token, rateLimitError>>

-----------------------------------------------------------------------------
\* The requests of an app, of whatever process, reach its limit.
ReachLimit(a) ==
    /\ ~Refused(a)
    /\ refusedUntil' = [refusedUntil EXCEPT ![a] = now + LimitWindow]
    /\ UNCHANGED <<now, apps, token, rateLimitError, call>>

Tick ==
    /\ now < MaxNow
    /\ now' = now + 1
    /\ UNCHANGED <<refusedUntil, apps, token, rateLimitError, call>>

Proceed ==
    \/ LimitsUnknown \/ AboveCutoff \/ BelowCutoff
    \/ Bypass \/ RateLimited \/ Fails \/ Succeeds \/ GiveUp

Next == CreateInstallationToken \/ Proceed \/ Tick \/ \E a \in App : ReachLimit(a)

Spec == Init /\ [][Next]_vars

\* Github answers every request, one way or the other.
FairSpec == Spec /\ WF_vars(Proceed)

-----------------------------------------------------------------------------
\* Type correctness; that the slice of apps has N elements is part of it.
TypeOK ==
    /\ now \in Nat
    /\ refusedUntil \in [App -> Nat]
    /\ apps \in [App -> App]
    /\ token \in [App -> Nat \cup {Nil}]
    /\ rateLimitError \in [App -> Nat \cup {Nil}]
    /\ call \in Call

(***************************************************************************)
(* Whatever tokens, limits and errors make of it, the slice is the list of *)
(* the IntegrationIDs begun at some other app: an app that was moved to    *)
(* the end has its turn after all the others (rotator.go:144-150).         *)
(***************************************************************************)
AfterIt(a) == IF a < N THEN a + 1 ELSE 1

KeepsCyclicOrder == \A i \in App : apps[AfterIt(i)] = AfterIt(apps[i])

(***************************************************************************)
(* A call that ends with "unable to retrieve token" has asked or bypassed  *)
(* every app, although the loop counts rounds and always takes the first   *)
(* app of a slice that it rotates itself (rotator.go:94-141).              *)
(***************************************************************************)
FailsOnlyAfterAll == call.outcome = "no token" => call.passed = App

(***************************************************************************)
(* An app whose remaining requests are below the cutoff is asked for a     *)
(* token only when all the others had nothing to give (rotator.go:71-79).  *)
(***************************************************************************)
LowAppIsLast == Asking /\ apps[1] = call.low => call.passed = App \ {call.low}

\* Every call ends: a bypassed app takes a round of the loop (rotator.go:94-102).
CallsEnd == call.pc # "idle" ~> call.pc = "idle"

(***************************************************************************)
(* An app is bypassed as having "zero limit" (rotator.go:96-98) only while *)
(* Github refuses it.                                                      *)
(***************************************************************************)
BypassesOnlyRefused == [][Bypass => Refused(apps[1])]_vars
=============================================================================
