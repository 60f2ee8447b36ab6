-------------------------- MODULE GithubRotatorProofs --------------------------
(***************************************************************************)
(* Proofs about GithubRotator for any number of apps and any lifetimes.    *)
(***************************************************************************)
EXTENDS GithubRotator, TLAPS

\* Each app is in exactly one place of the slice.
Permuted ==
    /\ \A a \in App : \E i \in App : apps[i] = a
    /\ \A i, j \in App : apps[i] = apps[j] => i = j

(***************************************************************************)
(* In round i the apps that had their turn in this call are the last i of  *)
(* the slice, and the app below the cutoff, moved to the end before round  *)
(* 0, is just in front of them.                                            *)
(***************************************************************************)
Turns ==
    /\ call.pc = "limits" => call.i = 0 /\ call.passed = {} /\ call.low = Nil
    /\ call.pc = "create" =>
        /\ \A j \in App : apps[j] \in call.passed <=> j > N - call.i
        /\ call.low # Nil /\ call.i < N => apps[N - call.i] = call.low

Inv == TypeOK /\ Permuted /\ KeepsCyclicOrder /\ Turns /\ FailsOnlyAfterAll

-----------------------------------------------------------------------------
\* rotate keeps the cyclic order and the apps; every app moves up one place, the
\* first one to the end.
LEMMA RotateProperties ==
    ASSUME TypeOK, Permuted, KeepsCyclicOrder, rotate
    PROVE  /\ apps' \in [App -> App]
           /\ \A i \in App : apps'[i] = IF i < N THEN apps[i + 1] ELSE apps[1]
           /\ Permuted'
           /\ KeepsCyclicOrder'
<1>1. N \in Nat \ {0}
  BY AppsAssumption
<1>2. apps \in [App -> App] /\ 1 \in App /\ \A i \in App : i < N => i + 1 \in App
  BY <1>1 DEF TypeOK, App
<1>3. apps' \in [App -> App]
  BY <1>1, <1>2 DEF rotate, App
<1>4. \A i \in App : apps'[i] = IF i < N THEN apps[i + 1] ELSE apps[1]
  BY <1>1 DEF rotate, App
<1>5. ASSUME NEW a \in App
      PROVE  \E i \in App : apps'[i] = a
  <2>1. PICK j \in App : apps[j] = a
    BY DEF Permuted
  <2>2. CASE j = 1
    <3>1. N \in App /\ apps'[N] = a
      BY <1>1, <1>4, <2>1, <2>2 DEF App
    <3> QED  BY <3>1
  <2>3. CASE j # 1
    <3>1. j - 1 \in App /\ apps'[j - 1] = a
      BY <1>1, <1>4, <2>1, <2>3 DEF App
    <3> QED  BY <3>1
  <2> QED  BY <2>2, <2>3
<1>6. ASSUME NEW i \in App, NEW j \in App, apps'[i] = apps'[j]
      PROVE  i = j
  <2> DEFINE was(k) == IF k < N THEN k + 1 ELSE 1
  <2>1. was(i) \in App /\ was(j) \in App /\ apps[was(i)] = apps[was(j)]
    BY <1>2, <1>4, <1>6
  <2>2. was(i) = was(j)
    BY <2>1 DEF Permuted
  <2> QED  BY <1>1, <2>2 DEF App
<1>7. ASSUME NEW i \in App
      PROVE  apps'[AfterIt(i)] = AfterIt(apps'[i])
  <2>1. AfterIt(i) \in App
    BY <1>1 DEF AfterIt, App
  <2>2. apps'[i] = apps[AfterIt(i)] /\ apps'[AfterIt(i)] = apps[AfterIt(AfterIt(i))]
    BY <1>4, <2>1 DEF AfterIt
  <2> QED  BY <2>1, <2>2 DEF KeepsCyclicOrder
<1> QED  BY <1>3, <1>4, <1>5, <1>6, <1>7 DEF Permuted, KeepsCyclicOrder, App, AfterIt

\* A step that leaves the slice and the call alone keeps the invariant.
LEMMA SameCall ==
    ASSUME Inv, TypeOK', UNCHANGED <<apps, call>>
    PROVE  Inv'
BY DEF Inv, Permuted, KeepsCyclicOrder, AfterIt, App, Turns, FailsOnlyAfterAll

\* One round of the loop.
LEMMA NextAppInv ==
    ASSUME Inv, Trying, NextApp,
           refusedUntil' \in [App -> Nat], now' \in Nat,
           token' \in [App -> Nat \cup {Nil}], rateLimitError' \in [App -> Nat \cup {Nil}]
    PROVE  Inv'
<1>1. N \in Nat \ {0} /\ call \in Call /\ apps \in [App -> App]
  BY AppsAssumption DEF Inv, TypeOK
<1>2. /\ apps' \in [App -> App]
      /\ \A i \in App : apps'[i] = IF i < N THEN apps[i + 1] ELSE apps[1]
      /\ Permuted'
      /\ KeepsCyclicOrder'
  BY RotateProperties DEF Inv, NextApp
<1>3. call.pc = "create" /\ call.i \in 0 .. N /\ call.i < N /\ apps[1] \in App
  <2>1. call.i \in 0 .. N
    BY <1>1 DEF Call
  <2>2. 1 \in App
    BY <1>1 DEF App
  <2> QED  BY <1>1, <2>1, <2>2 DEF Trying
<1>4. call' = [call EXCEPT !.i = call.i + 1, !.passed = call.passed \cup {apps[1]}]
  BY DEF NextApp
<1>5. /\ call'.pc = "create" /\ call'.i = call.i + 1 /\ call'.low = call.low
      /\ call'.passed = call.passed \cup {apps[1]} /\ call'.outcome = call.outcome
  BY <1>1, <1>3, <1>4 DEF Call
<1>6. call' \in Call
  <2>1. call.i + 1 \in 0 .. N
    BY <1>1, <1>3
  <2>2. call.passed \cup {apps[1]} \in SUBSET App
    BY <1>1, <1>3 DEF Call
  <2> QED  BY <1>1, <1>4, <2>1, <2>2 DEF Call
<1>7. TypeOK'
  BY <1>2, <1>6 DEF TypeOK, App, Call
<1>8. ASSUME NEW j \in App
      PROVE  apps'[j] \in call'.passed <=> j > N - call'.i
  <2>1. CASE j < N
    <3>1. j + 1 \in App /\ 1 \in App /\ apps'[j] = apps[j + 1]
      BY <1>1, <1>2, <2>1 DEF App
    <3>2. apps[j + 1] # apps[1]
      BY <1>1, <2>1, <3>1 DEF Inv, Permuted, App
    <3>3. apps[j + 1] \in call.passed <=> j + 1 > N - call.i
      BY <1>3, <3>1 DEF Inv, Turns
    <3>4. j \in Int /\ N \in Int /\ call.i \in Int
      BY <1>1, <1>3 DEF App
    <3>5. j > N - (call.i + 1) <=> j + 1 > N - call.i
      BY <3>4
    <3> QED  BY <1>5, <3>1, <3>2, <3>3, <3>5
  <2>2. CASE j = N
    <3>1. apps'[j] = apps[1]
      BY <1>1, <1>2, <2>2 DEF App
    <3>2. N > N - (call.i + 1)
      BY <1>1, <1>3
    <3> QED  BY <1>5, <2>2, <3>1, <3>2
  <2> QED  BY <1>1, <2>1, <2>2 DEF App
<1>9. ASSUME call'.low # Nil, call'.i < N
      PROVE  apps'[N - call'.i] = call'.low
  <2>1. N - call'.i \in App /\ N - call'.i < N /\ N - call'.i + 1 = N - call.i
    <3>1. call.i \in Nat /\ call.i + 1 < N /\ N \in Nat
      BY <1>1, <1>3, <1>5, <1>9
    <3>2. N - (call.i + 1) \in 1 .. N /\ N - (call.i + 1) < N /\ N - (call.i + 1) + 1 = N - call.i
      BY <3>1
    <3> QED  BY <1>5, <3>2 DEF App
  <2>2. apps'[N - call'.i] = apps[N - call.i]
    BY <1>2, <2>1
  <2> QED  BY <1>3, <1>5, <1>9, <2>2 DEF Inv, Turns
<1>10. Turns'
  BY <1>5, <1>8, <1>9 DEF Turns, App
<1>11. FailsOnlyAfterAll'
  BY <1>3, <1>5 DEF Inv, FailsOnlyAfterAll, Turns
<1> QED  BY <1>2, <1>7, <1>10, <1>11 DEF Inv

\* The invariant holds initially.
LEMMA InitInv == Init => Inv
<1> SUFFICES ASSUME Init PROVE Inv
  OBVIOUS
<1>1. N \in Nat \ {0}
  BY AppsAssumption
<1>2. TypeOK
  BY <1>1 DEF Init, TypeOK, Call, App
<1>3. Permuted /\ KeepsCyclicOrder
  <2>1. \A i \in App : apps[i] = i
    BY DEF Init
  <2>2. \A i \in App : AfterIt(i) \in App
    BY <1>1 DEF AfterIt, App
  <2> QED  BY <2>1, <2>2 DEF Permuted, KeepsCyclicOrder
<1>4. Turns /\ FailsOnlyAfterAll
  BY DEF Init, Turns, FailsOnlyAfterAll
<1> QED  BY <1>2, <1>3, <1>4 DEF Inv

\* A call begins with no app passed.
LEMMA BeginInv == Inv /\ CreateInstallationToken => Inv'
<1> SUFFICES ASSUME Inv, CreateInstallationToken PROVE Inv'
  OBVIOUS
<1>1. N \in Nat \ {0}
  BY AppsAssumption
<1>2. /\ call'.pc \in {"limits", "create"} /\ call'.i = 0 /\ call'.passed = {}
      /\ call'.low = Nil /\ call'.outcome = "none" /\ call' \in Call
  BY <1>1 DEF CreateInstallationToken, Call, App
<1>3. TypeOK'
  BY <1>2 DEF CreateInstallationToken, Inv, TypeOK, App, Call
<1>4. Permuted' /\ KeepsCyclicOrder'
  BY DEF CreateInstallationToken, Inv, Permuted, KeepsCyclicOrder, AfterIt, App
<1>5. Turns' /\ FailsOnlyAfterAll'
  BY <1>1, <1>2 DEF Turns, FailsOnlyAfterAll, App
<1> QED  BY <1>3, <1>4, <1>5 DEF Inv

\* The answer about the rate limits, with or without a rotation.
LEMMA LimitsInv == Inv /\ (LimitsUnknown \/ AboveCutoff \/ BelowCutoff) => Inv'
<1> SUFFICES ASSUME Inv, LimitsUnknown \/ AboveCutoff \/ BelowCutoff PROVE Inv'
  OBVIOUS
<1>1. N \in Nat \ {0} /\ call \in Call /\ apps \in [App -> App] /\ 1 \in App /\ N \in App
  BY AppsAssumption DEF Inv, TypeOK, App
<1>2. call.pc = "limits" /\ call.i = 0 /\ call.passed = {} /\ call.low = Nil
  BY DEF Inv, Turns, LimitsUnknown, AboveCutoff, BelowCutoff
<1>3. CASE LimitsUnknown
  <2>1. call' \in Call /\ call'.pc = "idle" /\ call'.outcome = "limits unknown"
    BY <1>1, <1>3 DEF LimitsUnknown, Return, Call
  <2>2. TypeOK'
    BY <1>3, <2>1 DEF LimitsUnknown, Inv, TypeOK, Call, App
  <2>3. Permuted' /\ KeepsCyclicOrder' /\ Turns' /\ FailsOnlyAfterAll'
    BY <1>3, <2>1 DEF LimitsUnknown, Inv, Permuted, KeepsCyclicOrder, AfterIt, App, Turns, FailsOnlyAfterAll
  <2> QED  BY <2>2, <2>3 DEF Inv
<1>4. CASE AboveCutoff
  <2>1. /\ call' \in Call /\ call'.pc = "create" /\ call'.i = 0 /\ call'.passed = {}
        /\ call'.low = Nil /\ call'.outcome = call.outcome
    BY <1>1, <1>2, <1>4 DEF AboveCutoff, Call
  <2>2. TypeOK'
    BY <1>4, <2>1 DEF AboveCutoff, Inv, TypeOK, Call, App
  <2>3. Permuted' /\ KeepsCyclicOrder'
    BY <1>4 DEF AboveCutoff, Inv, Permuted, KeepsCyclicOrder, AfterIt, App
  <2>4. Turns' /\ FailsOnlyAfterAll'
    <3>1. \A j \in App : ~ (j > N - 0)
      BY <1>1 DEF App
    <3>2. Turns'
      BY <2>1, <3>1 DEF Turns, App
    <3> QED  BY <1>2, <2>1, <3>2 DEF Inv, FailsOnlyAfterAll, App
  <2> QED  BY <2>2, <2>3, <2>4 DEF Inv
<1>5. CASE BelowCutoff
  <2>1. /\ call' \in Call /\ call'.pc = "create" /\ call'.i = 0 /\ call'.passed = {}
        /\ call'.low = apps[1] /\ call'.outcome = call.outcome
    BY <1>1, <1>2, <1>5 DEF BelowCutoff, Call
  <2>2. /\ apps' \in [App -> App]
        /\ \A i \in App : apps'[i] = IF i < N THEN apps[i + 1] ELSE apps[1]
        /\ Permuted' /\ KeepsCyclicOrder'
    BY <1>5, RotateProperties DEF BelowCutoff, Inv
  <2>3. TypeOK'
    BY <1>5, <2>1, <2>2 DEF BelowCutoff, Inv, TypeOK, Call, App
  <2>4. apps'[N] = apps[1]
    BY <1>1, <2>2
  <2>5. Turns' /\ FailsOnlyAfterAll'
    <3>1. (\A j \in App : ~ (j > N - 0)) /\ N - 0 = N
      BY <1>1 DEF App
    <3>2. Turns'
      BY <2>1, <2>4, <3>1 DEF Turns, App
    <3> QED  BY <1>2, <2>1, <3>2 DEF Inv, FailsOnlyAfterAll, App
  <2> QED  BY <2>2, <2>3, <2>5 DEF Inv
<1> QED  BY <1>3, <1>4, <1>5

\* When the rounds are over, every app had its turn.
LEMMA GiveUpInv == Inv /\ GiveUp => Inv'
<1> SUFFICES ASSUME Inv, GiveUp PROVE Inv'
  OBVIOUS
<1>1. N \in Nat \ {0} /\ call \in Call /\ call.pc = "create" /\ call.i = N
  BY AppsAssumption DEF Inv, TypeOK, GiveUp
<1>2. call' \in Call /\ call'.pc = "idle" /\ call'.passed = call.passed
  BY <1>1 DEF GiveUp, Return, Call
<1>3. \A j \in App : apps[j] \in call.passed
  BY <1>1 DEF Inv, Turns, App
<1>4. call.passed = App
  <2>1. call.passed \subseteq App
    BY <1>1 DEF Call
  <2>2. \A a \in App : \E j \in App : apps[j] = a
    BY DEF Inv, Permuted
  <2> QED  BY <1>3, <2>1, <2>2
<1>5. TypeOK'
  BY <1>2 DEF GiveUp, Inv, TypeOK, Call, App
<1>6. Permuted' /\ KeepsCyclicOrder'
  BY DEF GiveUp, Inv, Permuted, KeepsCyclicOrder, AfterIt, App
<1>7. Turns' /\ FailsOnlyAfterAll'
  BY <1>2, <1>4 DEF Turns, FailsOnlyAfterAll, App
<1> QED  BY <1>5, <1>6, <1>7 DEF Inv

\* A token ends the call.
LEMMA SucceedsInv == Inv /\ Succeeds => Inv'
<1> SUFFICES ASSUME Inv, Succeeds PROVE Inv'
  OBVIOUS
<1>1. call' \in Call /\ call'.pc = "idle" /\ call'.outcome = "token"
  BY DEF Succeeds, Return, Inv, TypeOK, Call
<1>2. now + TokenLife \in Nat
  BY TimesAssumption DEF Inv, TypeOK
<1>3. /\ token' \in [App -> Nat \cup {Nil}]
      /\ rateLimitError' \in [App -> Nat \cup {Nil}]
  BY <1>2 DEF Succeeds, Inv, TypeOK
<1>4. TypeOK'
  BY <1>1, <1>3 DEF Succeeds, Inv, TypeOK, Call, App
<1>5. Permuted' /\ KeepsCyclicOrder'
  BY DEF Succeeds, Inv, Permuted, KeepsCyclicOrder, AfterIt, App
<1>6. Turns' /\ FailsOnlyAfterAll'
  BY <1>1 DEF Turns, FailsOnlyAfterAll
<1> QED  BY <1>4, <1>5, <1>6 DEF Inv

\* Bypassed, refused or in error: the next app has its turn.
LEMMA RoundInv == Inv /\ (Bypass \/ RateLimited \/ Fails) => Inv'
<1> SUFFICES ASSUME Inv, Bypass \/ RateLimited \/ Fails PROVE Inv'
  OBVIOUS
<1>1. Trying /\ NextApp /\ refusedUntil' = refusedUntil /\ now' = now
  BY DEF Bypass, RateLimited, Fails, Asking
<1>2. refusedUntil \in [App -> Nat] /\ now \in Nat /\ apps[1] \in App
  BY AppsAssumption DEF Inv, TypeOK, App
<1>3. /\ token' \in [App -> Nat \cup {Nil}]
      /\ rateLimitError' \in [App -> Nat \cup {Nil}]
  BY <1>2 DEF Bypass, RateLimited, Fails, Inv, TypeOK
<1> QED  BY <1>1, <1>2, <1>3, NextAppInv

\* Every step keeps the invariant.
LEMMA NextInv == Inv /\ [Next]_vars => Inv'
<1> SUFFICES ASSUME Inv, [Next]_vars PROVE Inv'
  OBVIOUS
<1>1. CASE CreateInstallationToken
  BY <1>1, BeginInv
<1>2. CASE Proceed
  BY <1>2, LimitsInv, RoundInv, SucceedsInv, GiveUpInv DEF Proceed
<1>3. CASE Tick
  <2>1. TypeOK'
    <3>1. now' \in Nat
      BY <1>3 DEF Tick, Inv, TypeOK
    <3> QED  BY <1>3, <3>1 DEF Tick, Inv, TypeOK, Call, App
  <2> QED  BY <1>3, <2>1, SameCall DEF Tick
<1>4. ASSUME NEW a \in App, ReachLimit(a)
      PROVE  Inv'
  <2>1. now + LimitWindow \in Nat
    BY TimesAssumption DEF Inv, TypeOK
  <2>2. TypeOK'
    <3>1. refusedUntil' \in [App -> Nat]
      BY <1>4, <2>1 DEF ReachLimit, Inv, TypeOK
    <3> QED  BY <1>4, <3>1 DEF ReachLimit, Inv, TypeOK, Call, App
  <2> QED  BY <1>4, <2>2, SameCall DEF ReachLimit
<1>5. CASE UNCHANGED vars
  <2>1. /\ now' = now /\ refusedUntil' = refusedUntil /\ apps' = apps
        /\ token' = token /\ rateLimitError' = rateLimitError /\ call' = call
    BY <1>5 DEF vars
  <2>2. TypeOK'
    BY <2>1 DEF Inv, TypeOK, Call, App
  <2> QED  BY <2>1, <2>2, SameCall
<1> QED  BY <1>1, <1>2, <1>3, <1>4, <1>5 DEF Next

\* In round N - 1 only the app below the cutoff is left, and not before.
LEMMA LowIsLast == Inv => LowAppIsLast
<1> SUFFICES ASSUME Inv, Asking, apps[1] = call.low PROVE call.passed = App \ {call.low}
  BY DEF LowAppIsLast
<1>1. N \in Nat \ {0} /\ call \in Call /\ call.pc = "create" /\ call.i < N
  BY AppsAssumption DEF Inv, TypeOK, Asking, Trying
<1>2. call.i \in 0 .. N /\ call.passed \subseteq App
  BY <1>1 DEF Call
<1>3. 1 \in App /\ apps[1] \in App
  BY <1>1 DEF Inv, TypeOK, App
<1>4. call.low # Nil
  BY <1>3, TimesAssumption DEF App
<1>5. apps[N - call.i] = apps[1]
  BY <1>1, <1>4 DEF Inv, Turns
<1>6. N - call.i \in App
  BY <1>1, <1>2 DEF App
<1>7. N - call.i = 1
  BY <1>3, <1>5, <1>6 DEF Inv, Permuted
<1>8. \A j \in App : apps[j] \in call.passed <=> j > N - call.i
  BY <1>1 DEF Inv, Turns
<1>9. \A j \in App : apps[j] \in call.passed <=> j # 1
  BY <1>7, <1>8 DEF App
<1>10. ASSUME NEW a \in App
       PROVE  a \in call.passed <=> a # apps[1]
  BY <1>3, <1>9 DEF Inv, Permuted
<1> QED  BY <1>2, <1>10

-----------------------------------------------------------------------------
\* Inv is an invariant for every number of apps (rotator.go:50-150).
THEOREM Invariance == Spec => []Inv
BY InitInv, NextInv, PTL DEF Spec

\* The variables stay in their types: the slice always has every index filled.
THEOREM TypeCorrectness == Spec => []TypeOK
<1>1. Inv => TypeOK
  BY DEF Inv
<1> QED  BY <1>1, Invariance, PTL

\* The rotation keeps the cyclic order of the apps (rotator.go:144-150).
THEOREM CyclicOrder == Spec => []KeepsCyclicOrder
<1>1. Inv => KeepsCyclicOrder
  BY DEF Inv
<1> QED  BY <1>1, Invariance, PTL

\* A call gives up only when every app had its turn (rotator.go:94-141).
THEOREM GivesUpLast == Spec => []FailsOnlyAfterAll
<1>1. Inv => FailsOnlyAfterAll
  BY DEF Inv
<1> QED  BY <1>1, Invariance, PTL

\* The app below the cutoff is asked after all the others (rotator.go:71-79).
THEOREM AsksLowAppLast == Spec => []LowAppIsLast
BY LowIsLast, Invariance, PTL
=============================================================================
