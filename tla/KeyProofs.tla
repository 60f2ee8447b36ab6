------------------------------- MODULE KeyProofs -------------------------------
(***************************************************************************)
(* Proofs about the credentials that the state file and the local states   *)
(* of invocations record: which exist, which are forgotten, which leak.    *)
(* Every step of an invocation is first put down to what it does to the    *)
(* serial numbers; the invariants then have a few kinds of steps to go     *)
(* through instead of every action.                                        *)
(***************************************************************************)
EXTENDS SidecredProofs

\* State n records the credentials that state s does, in the same places.
SameKeys(s, n) ==
    \A t \in ProviderTypes :
        /\ Len(n.resources[t]) = Len(s.resources[t])
        /\ \A i \in 1 .. Len(s.resources[t]) :
            /\ n.resources[t][i].key = s.resources[t][i].key
            /\ n.resources[t][i].type = s.resources[t][i].type

\* State n records one credential more, as the last of its provider.
AddsKey(s, n, type, key) ==
    \A t \in ProviderTypes :
        /\ \A i \in 1 .. Len(s.resources[t]) :
            /\ n.resources[t][i].key = s.resources[t][i].key
            /\ n.resources[t][i].type = s.resources[t][i].type
        /\ t # Provider(type) => Len(n.resources[t]) = Len(s.resources[t])
        /\ t = Provider(type) =>
            /\ Len(n.resources[t]) = Len(s.resources[t]) + 1
            /\ n.resources[t][Len(n.resources[t])].key = key
            /\ n.resources[t][Len(n.resources[t])].type = type

\* State n is without the resource that state s has at place k for provider t.
WithoutOne(s, n, t, k) == n.resources = [s.resources EXCEPT ![t] = RemoveAt(@, k)]

Active(p) == run[p].pc # "idle"

\* The kinds of steps of an invocation.
Begins(p) ==
    /\ ~Active(p) /\ Active(p)'
    /\ run'[p].state = saved
    /\ UNCHANGED <<keys, saved>>

Works(p) ==
    /\ Active(p) /\ Active(p)'
    /\ SameKeys(run[p].state, run'[p].state)
    /\ \/ keys' = keys
       \/ "create" \in FaultKinds /\ \E k \in Key : keys' = Append(keys, k)
    /\ saved' = saved

Issues(p) ==
    /\ Active(p) /\ Active(p)'
    /\ \E k \in Key :
        /\ k.live
        /\ keys' = Append(keys, k)
        /\ AddsKey(run[p].state, run'[p].state, k.type, Len(keys) + 1)
    /\ saved' = saved

Drops(p, t) ==
    /\ Active(p) /\ Active(p)'
    /\ run[p].pc = "resources" /\ ~Kept(run[p], t)
    /\ run[p].left[t] \in 1 .. Len(run[p].state.resources[t])
    /\ WithoutOne(run[p].state, run'[p].state, t, run[p].left[t])
    /\ \/ keys' = Destroyed(Visited(run[p], t))
       \/ "destroy" \in FaultKinds /\ keys' = keys
    /\ saved' = saved

Ends(p) ==
    /\ Active(p) /\ ~Active(p)'
    /\ keys' = keys
    /\ \/ SameKeys(run[p].state, saved')
       \/ FaultKinds \cap {"save", "crash"} # {} /\ saved' = saved
       \/ "torn" \in FaultKinds /\ saved' = NewState

StepOf(p) ==
    /\ \A q \in Runs : q # p => run'[q] = run[q]
    /\ \/ Begins(p) \/ Works(p) \/ Issues(p) \/ Ends(p)
       \/ \E t \in ProviderTypes : Drops(p, t)

-----------------------------------------------------------------------------
(* Every step is of one of these kinds.                                    *)

\* Nothing but the resources matters.
LEMMA SameResources ==
    ASSUME NEW s, NEW n, n.resources = s.resources
    PROVE  SameKeys(s, n)
BY DEF SameKeys

\* Looking for credentials changes marks, and no serial number.
LEMMA LookedKeys ==
    ASSUME NEW r \in RunState, RunInv(r), HasItem(r)
    PROVE  SameKeys(r.state, Looked(r))
<1> DEFINE P  == Provider(Item(r).request.type)
           rs == r.state.resources[P]
           us == Use(rs, Item(r).request.type, Item(r).request.name, Item(r).store)
<1>1. P \in ProviderTypes
  BY ItemProperties DEF HasItem, RunInv
<1>2. r.state.resources \in [ProviderTypes -> Seq(Resource)] /\ r.state \in State
  BY DEF RunState, State
<1>3. /\ Len(us) = Len(rs)
      /\ \A i \in 1 .. Len(rs) : us[i].key = rs[i].key /\ us[i].type = rs[i].type
  BY <1>1, <1>2, UseProperties
<1>4. Looked(r) = [r.state EXCEPT !.resources[P] = us]
  BY DEF Looked, MarkInUse
<1> HIDE DEF us, P
<1>5. Looked(r).resources = [r.state.resources EXCEPT ![P] = us]
  BY <1>1, <1>2, <1>4 DEF State
<1>6. \A t \in ProviderTypes : Looked(r).resources[t] = IF t = P THEN us ELSE r.state.resources[t]
  BY <1>1, <1>2, <1>5
<1> QED  BY <1>3, <1>6 DEF SameKeys

\* A new resource is the last one of its provider; the ones it deposes keep their
\* serial numbers (src/state.go:74-84).
LEMMA AddedKeys ==
    ASSUME NEW s \in State, NEW res \in Resource
    PROVE  AddsKey(s, AddResource(s, res), res.type, res.key)
<1> DEFINE P  == Provider(res.type)
           rs == s.resources[P]
           ns == Append(Depose(rs, res), res)
<1>1. P \in ProviderTypes
  BY ProviderType DEF Resource
<1>2. s.resources \in [ProviderTypes -> Seq(Resource)]
  BY DEF State
<1>3. /\ Len(ns) = Len(rs) + 1
      /\ ns[Len(rs) + 1] = res
      /\ \A i \in 1 .. Len(rs) : ns[i].key = rs[i].key /\ ns[i].type = rs[i].type
  BY <1>1, <1>2, AddProperties
<1>4. AddResource(s, res) = [s EXCEPT !.resources[P] = ns]
  BY DEF AddResource
<1> HIDE DEF ns, P
<1>5. AddResource(s, res).resources = [s.resources EXCEPT ![P] = ns]
  BY <1>1, <1>2, <1>4 DEF State
<1>6. \A t \in ProviderTypes : AddResource(s, res).resources[t] = IF t = P THEN ns ELSE s.resources[t]
  BY <1>1, <1>2, <1>5
<1>8. P = Provider(res.type)
  BY DEF P
<1> DEFINE n == AddResource(s, res)
<1> HIDE DEF n
<1>9. ASSUME NEW t \in ProviderTypes, t # P
      PROVE  n.resources[t] = s.resources[t]
  BY <1>6, <1>9 DEF n
<1>10. /\ n.resources[P] = ns
       /\ Len(n.resources[P]) = Len(s.resources[P]) + 1
       /\ n.resources[P][Len(n.resources[P])] = res
       /\ \A i \in 1 .. Len(s.resources[P]) :
            /\ n.resources[P][i].key = s.resources[P][i].key
            /\ n.resources[P][i].type = s.resources[P][i].type
  BY <1>1, <1>3, <1>6 DEF n
<1>11. AddsKey(s, n, res.type, res.key)
  BY <1>8, <1>9, <1>10 DEF AddsKey
<1> QED  BY <1>11 DEF n

\* Saving clears marks, and changes no serial number.
LEMMA PersistedKeys ==
    ASSUME NEW s \in State
    PROVE  SameKeys(s, Persisted(s))
<1>1. \A t \in ProviderTypes : s.resources[t] \in Seq(Resource)
  BY DEF State
<1>2. Persisted(s).resources = [t \in ProviderTypes |-> Unused(s.resources[t])]
  BY DEF Persisted, State
<1> QED  BY <1>1, <1>2, UnusedProperties DEF SameKeys

\* CreateCredentials looks first and adds then: together they add.
LEMMA SameThenAdds ==
    ASSUME NEW s, NEW m, NEW n, NEW type, NEW key, SameKeys(s, m), AddsKey(m, n, type, key)
    PROVE  AddsKey(s, n, type, key)
BY DEF SameKeys, AddsKey

\* The request loop, up to the answer of the provider.
LEMMA RequestSteps ==
    ASSUME Inv, NEW p \in Runs,
           SkipRequest(p) \/ KeepCredentials(p) \/ CreateCredentials(p) \/ CreateFails(p)
    PROVE  StepOf(p)
<1> DEFINE r == run[p]
<1>1. r \in RunState /\ RunInv(r) /\ run \in [Runs -> RunState]
  BY DEF Inv, TypeOK
<1>2. HasItem(r) /\ r.pc = "requests"
  BY DEF SkipRequest, KeepCredentials, CreateCredentials, CreateFails, Satisfied, NeedsCredentials, HasItem
<1>3. SameKeys(r.state, Looked(r)) /\ SameKeys(r.state, r.state)
  BY <1>1, <1>2, LookedKeys, SameResources
<1>4. NewKey(r) \in Key
  BY <1>2, NewKeyType
<1>5. CASE SkipRequest(p)
  <2>1. run' = [run EXCEPT ![p] = [r EXCEPT !.item = @ + 1]] /\ UNCHANGED <<keys, saved>>
    BY <1>5 DEF SkipRequest
  <2>2. run'[p].pc = "requests" /\ run'[p].state = r.state
    BY <1>1, <1>2, <2>1 DEF RunState
  <2> QED  BY <1>1, <1>2, <1>3, <2>1, <2>2 DEF StepOf, Works, Active
<1>6. CASE KeepCredentials(p)
  <2>1. run' = [run EXCEPT ![p] = [r EXCEPT !.item = @ + 1, !.state = Looked(r)]] /\ UNCHANGED <<keys, saved>>
    BY <1>6 DEF KeepCredentials
  <2>2. run'[p].pc = "requests" /\ run'[p].state = Looked(r)
    BY <1>1, <1>2, <2>1 DEF RunState
  <2> QED  BY <1>1, <1>2, <1>3, <2>1, <2>2 DEF StepOf, Works, Active
<1>7. CASE CreateFails(p)
  <2>1. /\ run' = [run EXCEPT ![p] = [r EXCEPT !.item = @ + 1, !.state = Looked(r)]]
        /\ keys' \in {keys, Append(keys, NewKey(r))}
        /\ saved' = saved /\ "create" \in FaultKinds
    BY <1>7 DEF CreateFails, Fault
  <2>2. run'[p].pc = "requests" /\ run'[p].state = Looked(r)
    BY <1>1, <1>2, <2>1 DEF RunState
  <2> QED  BY <1>1, <1>2, <1>3, <1>4, <2>1, <2>2 DEF StepOf, Works, Active
<1>8. CASE CreateCredentials(p)
  <2> DEFINE res == newResource(Item(r).request, Item(r).store, NewKey(r).exp, Len(keys) + 1)
  <2>1. /\ run' = [run EXCEPT ![p] = [r EXCEPT !.pc = "write", !.state = AddResource(Looked(r), res)]]
        /\ keys' = Append(keys, NewKey(r))
        /\ saved' = saved
    BY <1>8 DEF CreateCredentials
  <2>2. run'[p].pc = "write" /\ run'[p].state = AddResource(Looked(r), res)
    <3> HIDE DEF res
    <3> QED  BY <1>1, <2>1 DEF RunState
  <2>3. Looked(r) \in State
    <3>1. [r EXCEPT !.state = Looked(r)] \in RunState
      BY <1>1, <1>2, LookedInv
    <3>2. [r EXCEPT !.state = Looked(r)].state = Looked(r)
      BY <1>1 DEF RunState
    <3> QED  BY <3>1, <3>2 DEF RunState
  <2>4. Item(r) \in WorkItem /\ Item(r).request \in CredentialRequest
    BY <1>1, <1>2, ItemProperties DEF HasItem, RunInv
  <2>5. NewKey(r).exp \in Nat /\ Len(keys) + 1 \in Nat
    BY <1>2, NewKeyType
  <2>6. res \in Resource /\ res.key = Len(keys) + 1 /\ res.type = Item(r).request.type
    <3> HIDE DEF NewKey
    <3> QED  BY <2>4, <2>5 DEF newResource, Resource, WorkItem, CredentialRequest
  <2> HIDE DEF res
  <2>7. AddsKey(Looked(r), AddResource(Looked(r), res), res.type, res.key)
    BY <2>3, <2>6, AddedKeys
  <2>8. AddsKey(r.state, run'[p].state, NewKey(r).type, Len(keys) + 1)
    <3>1. NewKey(r).type = res.type
      BY <2>6 DEF NewKey
    <3>2. AddsKey(r.state, AddResource(Looked(r), res), res.type, res.key)
      BY <1>3, <2>7, SameThenAdds
    <3> QED  BY <2>2, <2>6, <3>1, <3>2
  <2>9. NewKey(r).live
    BY DEF NewKey
  <2>10. Issues(p)
    BY <1>2, <1>4, <2>1, <2>2, <2>8, <2>9 DEF Issues, Active
  <2>11. \A q \in Runs : q # p => run'[q] = run[q]
    BY <1>1, <2>1
  <2> QED  BY <2>10, <2>11 DEF StepOf
<1> QED  BY <1>5, <1>6, <1>7, <1>8

\* Writing a secret leaves the resources of the state alone.
LEMMA WriteSteps ==
    ASSUME Inv, NEW p \in Runs, WriteSecret(p) \/ WriteFails(p)
    PROVE  StepOf(p)
<1> DEFINE r == run[p]
<1>1. r \in RunState /\ RunInv(r) /\ run \in [Runs -> RunState] /\ r.pc = "write"
  BY DEF Inv, TypeOK, WriteSecret, WriteFails
<1>2. /\ NextCredential(r) \in RunState
      /\ NextCredential(r).state = r.state
      /\ NextCredential(r).pc # "idle"
  <2>1. NextCredential(r).pc # "idle"
    BY <1>1 DEF NextCredential, RunState
  <2> QED  BY <1>1, <2>1, NextCredentialInv
<1>3. SameKeys(r.state, NextCredential(r).state)
  BY <1>2, SameResources
<1>4. CASE WriteFails(p)
  BY <1>1, <1>2, <1>3, <1>4 DEF WriteFails, StepOf, Works, Active
<1>5. CASE WriteSecret(p)
  <2>1. run' = [run EXCEPT ![p] = Recorded(r)] /\ UNCHANGED <<keys, saved>>
    BY <1>5 DEF WriteSecret
  <2> DEFINE secret == newSecret(Item(r).request.name, PathToWrite(r), Created(r).exp)
  <2>2. Recorded(r) = [NextCredential(r) EXCEPT !.state = AddSecret(@, Store(r), secret)]
    BY DEF Recorded
  <2> HIDE DEF secret
  <2>3. AddSecret(r.state, Store(r), secret).resources = r.state.resources
    BY <1>1 DEF AddSecret, RunState, State
  <2>4. Recorded(r).pc # "idle" /\ Recorded(r).state.resources = r.state.resources
    BY <1>2, <2>2, <2>3 DEF RunState
  <2>5. SameKeys(r.state, Recorded(r).state)
    BY <2>4, SameResources
  <2> QED  BY <1>1, <2>1, <2>4, <2>5 DEF StepOf, Works, Active
<1> QED  BY <1>4, <1>5

\* The clean-up loops: the one of the resources drops the last one not yet visited.
LEMMA CleanUpSteps ==
    ASSUME Inv, NEW p \in Runs,
           \/ FinishRequests(p) \/ FinishResources(p) \/ FinishOrphans(p)
           \/ \E t \in ProviderTypes : KeepResource(p, t) \/ DestroyResource(p, t) \/ DestroyFails(p, t)
           \/ \E c \in StoreConfigs : \E sec \in run[p].orphans[c] :
                KeepOrphan(p, c, sec) \/ DeleteOrphan(p, c, sec) \/ DeleteFails(p, c, sec)
    PROVE  StepOf(p)
<1> DEFINE r == run[p]
<1>1. r \in RunState /\ RunInv(r) /\ run \in [Runs -> RunState]
  BY DEF Inv, TypeOK
\* A step that changes neither the resources nor the keys.
<1>2. ASSUME NEW n, run' = [run EXCEPT ![p] = n], r.pc # "idle", n.pc # "idle",
             n.state.resources = r.state.resources, UNCHANGED <<keys, saved>>
      PROVE  StepOf(p)
  <2>1. SameKeys(r.state, n.state)
    BY <1>2, SameResources
  <2> QED  BY <1>1, <1>2, <2>1 DEF StepOf, Works, Active
<1>3. CASE FinishRequests(p)
  <2> DEFINE n == FinishedRequests(r)
  <2>1. run' = [run EXCEPT ![p] = n] /\ UNCHANGED <<keys, saved>> /\ r.pc = "requests"
    BY <1>3 DEF FinishRequests, FinishedRequests
  <2>2. n.pc = "resources" /\ n.state = r.state
    BY <1>1 DEF FinishedRequests, RunState
  <2> QED  BY <1>2, <2>1, <2>2
<1>4. CASE FinishResources(p)
  <2> DEFINE n == FinishedResources(r)
  <2>1. run' = [run EXCEPT ![p] = n] /\ UNCHANGED <<keys, saved>> /\ r.pc = "resources"
    BY <1>4 DEF FinishResources, FinishedResources
  <2>2. n.pc = "orphans" /\ n.state = r.state
    BY <1>1 DEF FinishedResources, RunState
  <2> QED  BY <1>2, <2>1, <2>2
<1>5. CASE FinishOrphans(p)
  <2>1. [r EXCEPT !.pc = "save"].pc = "save" /\ [r EXCEPT !.pc = "save"].state = r.state
    BY <1>1 DEF RunState
  <2> QED  BY <1>2, <1>5, <2>1 DEF FinishOrphans
<1>6. ASSUME NEW t \in ProviderTypes, KeepResource(p, t)
      PROVE  StepOf(p)
  <2>1. [r EXCEPT !.left[t] = @ - 1].pc = r.pc /\ [r EXCEPT !.left[t] = @ - 1].state = r.state
    BY <1>1 DEF RunState
  <2> QED  BY <1>2, <1>6, <2>1 DEF KeepResource, Visiting
<1>7. ASSUME NEW t \in ProviderTypes, DestroyResource(p, t) \/ DestroyFails(p, t)
      PROVE  StepOf(p)
  <2>1. /\ Visiting(r, t) /\ ~Kept(r, t) /\ run' = [run EXCEPT ![p] = Forget(r, t)] /\ saved' = saved
        /\ \/ keys' = Destroyed(Visited(r, t))
           \/ "destroy" \in FaultKinds /\ keys' = keys
    BY <1>7 DEF DestroyResource, DestroyFails, Fault
  <2>2. Forget(r, t).state.resources = [r.state.resources EXCEPT ![t] = RemoveAt(@, r.left[t])]
    BY <1>1, <2>1, ForgetInv
  <2>3. Forget(r, t).pc = "resources" /\ r.pc = "resources"
    BY <1>1, <2>1 DEF Forget, Visiting, RunState
  <2>4. r.left[t] \in 1 .. Len(r.state.resources[t])
    <3>1. r.left[t] <= Len(r.state.resources[t])
      BY <1>1, <2>3 DEF RunInv, ListInv
    <3>2. r.left[t] \in Nat /\ r.left[t] > 0
      BY <1>1, <2>1 DEF RunState, Visiting
    <3>3. Len(r.state.resources[t]) \in Nat
      BY <1>1, LenProperties DEF RunState, State
    <3> QED  BY <3>1, <3>2, <3>3
  <2>5. Drops(p, t)
    BY <1>1, <2>1, <2>2, <2>3, <2>4 DEF Drops, WithoutOne, Active
  <2> QED  BY <1>1, <2>1, <2>5 DEF StepOf
<1>8. ASSUME NEW c \in StoreConfigs, NEW sec,
             KeepOrphan(p, c, sec) \/ DeleteOrphan(p, c, sec) \/ DeleteFails(p, c, sec)
      PROVE  StepOf(p)
  <2>1. r.pc = "orphans"
    BY <1>8 DEF KeepOrphan, DeleteOrphan, DeleteFails, HasOrphan
  <2>2. /\ [r EXCEPT !.orphans[c] = @ \ {sec}].pc = r.pc
        /\ [r EXCEPT !.orphans[c] = @ \ {sec}].state = r.state
    BY <1>1 DEF RunState
  <2>3. Dropped(r, c, sec).pc = r.pc /\ Dropped(r, c, sec).state = RemoveSecret(r.state, c, sec)
    BY <1>1 DEF Dropped, RunState
  <2>4. RemoveSecret(r.state, c, sec).resources = r.state.resources
    BY <1>1 DEF RemoveSecret, RunState, State
  <2>5. CASE KeepOrphan(p, c, sec)
    BY <1>2, <2>1, <2>2, <2>5 DEF KeepOrphan
  <2>6. CASE DeleteOrphan(p, c, sec) \/ DeleteFails(p, c, sec)
    BY <1>2, <2>1, <2>3, <2>4, <2>6 DEF DeleteOrphan, DeleteFails
  <2> QED  BY <1>8, <2>5, <2>6
<1> QED  BY <1>3, <1>4, <1>5, <1>6, <1>7, <1>8

\* An invocation starts with the state file and ends by replacing it, or not.
LEMMA EndSteps ==
    ASSUME Inv, NEW p \in Runs, StartRun(p) \/ Save(p) \/ SaveFails(p) \/ SaveTorn(p) \/ Crash(p)
    PROVE  StepOf(p)
<1> DEFINE r == run[p]
<1>1. r \in RunState /\ RunInv(r) /\ run \in [Runs -> RunState] /\ Idle.pc = "idle"
  BY DEF Inv, TypeOK, Idle
<1>2. SameKeys(r.state, Persisted(r.state))
  BY <1>1, PersistedKeys DEF RunState
<1>3. CASE StartRun(p)
  <2>1. /\ run' = [run EXCEPT ![p] = Started(config, deployment, saved)]
        /\ r.pc = "idle" /\ UNCHANGED <<keys, saved>>
    BY <1>3 DEF StartRun, Started
  <2>2. /\ Started(config, deployment, saved).pc = "requests"
        /\ Started(config, deployment, saved).state = saved
    BY IdleInv DEF Started, Idle
  <2> QED  BY <1>1, <2>1, <2>2 DEF StepOf, Begins, Active
<1>4. CASE Save(p)
  <2>1. run' = [run EXCEPT ![p] = Idle] /\ r.pc # "idle" /\ keys' = keys /\ saved' = Persisted(r.state)
    BY <1>4 DEF Save
  <2>2. run'[p] = Idle /\ \A q \in Runs : q # p => run'[q] = run[q]
    BY <1>1, <2>1
  <2> QED  BY <1>1, <1>2, <2>1, <2>2 DEF StepOf, Ends, Active
<1>5. CASE SaveFails(p)
  <2>1. /\ run' = [run EXCEPT ![p] = Idle] /\ r.pc # "idle" /\ keys' = keys
        /\ saved' = Persisted(r.state) \/ ("save" \in FaultKinds /\ saved' = saved)
    BY <1>5 DEF SaveFails, Fault
  <2>2. run'[p] = Idle /\ \A q \in Runs : q # p => run'[q] = run[q]
    BY <1>1, <2>1
  <2> QED  BY <1>1, <1>2, <2>1, <2>2 DEF StepOf, Ends, Active
<1>6. CASE SaveTorn(p)
  <2>1. /\ run' = [run EXCEPT ![p] = Idle] /\ r.pc # "idle" /\ keys' = keys
        /\ "torn" \in FaultKinds /\ saved' = NewState
    BY <1>6 DEF SaveTorn, Fault
  <2>2. run'[p] = Idle /\ \A q \in Runs : q # p => run'[q] = run[q]
    BY <1>1, <2>1
  <2> QED  BY <1>1, <2>1, <2>2 DEF StepOf, Ends, Active
<1>7. CASE Crash(p)
  <2>1. /\ run' = [run EXCEPT ![p] = Idle] /\ r.pc # "idle" /\ keys' = keys
        /\ "crash" \in FaultKinds /\ saved' = saved
    BY <1>7 DEF Crash, Fault
  <2>2. run'[p] = Idle /\ \A q \in Runs : q # p => run'[q] = run[q]
    BY <1>1, <2>1
  <2> QED  BY <1>1, <2>1, <2>2 DEF StepOf, Ends, Active
<1> QED  BY <1>3, <1>4, <1>5, <1>6, <1>7

\* A step of the specification is one of these, or leaves keys, state file and
\* invocations alone.
LEMMA StepKinds ==
    ASSUME Inv, [Next]_vars
    PROVE  (\E p \in Runs : StepOf(p)) \/ UNCHANGED <<keys, saved, run>>
<1>1. ASSUME NEW p \in Runs, Proceed(p) \/ Fail(p)
      PROVE  StepOf(p)
  <2>1. CASE Proceed(p)
    BY <2>1, RequestSteps, WriteSteps, CleanUpSteps, EndSteps DEF Proceed
  <2>2. CASE Fail(p)
    BY <2>2, RequestSteps, WriteSteps, CleanUpSteps, EndSteps DEF Fail
  <2> QED  BY <1>1, <2>1, <2>2
<1>2. ASSUME NEW p \in Runs, StartRun(p)
      PROVE  StepOf(p)
  BY <1>2, EndSteps
<1>3. (\E p \in Runs : RejectConfig(p)) \/ Tick \/ EditConfig \/ Redeploy \/ UNCHANGED vars
      => UNCHANGED <<keys, saved, run>>
  BY DEF RejectConfig, Tick, EditConfig, Redeploy, vars
<1> QED  BY <1>1, <1>2, <1>3 DEF Next

-----------------------------------------------------------------------------
(* Every resource in the state file or in a local state stands for a       *)
(* credential of its type that was issued, and no two for the same.        *)

Known(s, K) ==
    \A t \in ProviderTypes : \A i \in 1 .. Len(s.resources[t]) :
        /\ s.resources[t][i].key \in 1 .. Len(K)
        /\ K[s.resources[t][i].key].type = s.resources[t][i].type

Own(s) ==
    \A t, u \in ProviderTypes :
        \A i \in 1 .. Len(s.resources[t]), j \in 1 .. Len(s.resources[u]) :
            s.resources[t][i].key = s.resources[u][j].key => t = u /\ i = j

KeyInv ==
    /\ Inv
    /\ Known(saved, keys) /\ Own(saved)
    /\ \A p \in Runs : Active(p) => Known(run[p].state, keys) /\ Own(run[p].state)

\* Credentials are issued and destroyed, and neither change type nor come back.
Grown(K, M) ==
    /\ Len(K) \in Nat /\ Len(M) \in Nat /\ Len(K) <= Len(M)
    /\ \A k \in 1 .. Len(K) : M[k].type = K[k].type /\ (M[k].live => K[k].live)

\* A new credential gets the next serial number, and the others keep theirs.
LEMMA AppendGrown ==
    ASSUME NEW K \in Seq(Key), NEW k \in Key
    PROVE  /\ Grown(K, Append(K, k))
           /\ Len(Append(K, k)) = Len(K) + 1
           /\ Append(K, k)[Len(K) + 1] = k
           /\ \A i \in 1 .. Len(K) : Append(K, k)[i] = K[i]
<1>1. /\ Len(K) \in Nat
      /\ Len(Append(K, k)) = Len(K) + 1
      /\ Append(K, k)[Len(K) + 1] = k
      /\ \A i \in 1 .. Len(K) : Append(K, k)[i] = K[i]
  BY AppendProperties, LenProperties
<1> QED  BY <1>1 DEF Grown

\* Destroy ends the life of at most the credential of its resource.
LEMMA DestroyedGrown ==
    ASSUME Inv, NEW res, res.key \in 1 .. Len(keys)
    PROVE  /\ Grown(keys, Destroyed(res))
           /\ Len(Destroyed(res)) = Len(keys)
           /\ \A k \in 1 .. Len(keys) : k # res.key => Destroyed(res)[k] = keys[k]
           /\ Revocable(res.type) => ~Destroyed(res)[res.key].live
<1>1. keys \in Seq(Key) /\ Len(keys) \in Nat /\ DOMAIN keys = 1 .. Len(keys)
      /\ \A k \in 1 .. Len(keys) : keys[k] \in Key
  BY LenProperties, ElementOfSeq DEF Inv, TypeOK
<1>2. CASE ~Revocable(res.type)
  <2>1. Destroyed(res) = keys
    BY <1>2 DEF Destroyed
  <2> QED  BY <1>1, <1>2, <2>1 DEF Grown
<1>3. CASE Revocable(res.type)
  <2> DEFINE dead == [keys[res.key] EXCEPT !.live = FALSE]
  <2>1. Destroyed(res) = [keys EXCEPT ![res.key] = dead]
    BY <1>1, <1>3 DEF Destroyed
  <2>2. dead.type = keys[res.key].type /\ ~dead.live /\ dead \in Key
    BY <1>1 DEF Key
  <2> HIDE DEF dead
  <2>3. /\ Destroyed(res)[res.key] = dead
        /\ \A k \in 1 .. Len(keys) : k # res.key => Destroyed(res)[k] = keys[k]
    BY <1>1, <2>1
  <2>4. Len(Destroyed(res)) = Len(keys)
    BY <1>1, <2>1, <2>2, ExceptSeq
  <2> QED  BY <1>1, <2>2, <2>3, <2>4 DEF Grown
<1> QED  BY <1>2, <1>3

\* The places in s of the resources of n, which are those of s but one.
Shifted(s, n, t, k) ==
    /\ \A u \in ProviderTypes : \A i \in 1 .. Len(n.resources[u]) :
        \E j \in 1 .. Len(s.resources[u]) :
            /\ n.resources[u][i] = s.resources[u][j]
            /\ ~(u = t /\ j = k)
            /\ u = t /\ i >= k => j = i + 1
            /\ u # t \/ i < k => j = i
    /\ \A u \in ProviderTypes : \A j \in 1 .. Len(s.resources[u]) :
        ~(u = t /\ j = k) =>
            \E i \in 1 .. Len(n.resources[u]) : n.resources[u][i] = s.resources[u][j]

\* Dropping a resource leaves all the others.
LEMMA DroppedPlaces ==
    ASSUME NEW s \in State, NEW n, NEW t \in ProviderTypes, NEW k \in 1 .. Len(s.resources[t]),
           WithoutOne(s, n, t, k)
    PROVE  Shifted(s, n, t, k)
<1>1. s.resources \in [ProviderTypes -> Seq(Resource)]
  BY DEF State
<1> DEFINE rs == s.resources[t]
           ns == RemoveAt(rs, k)
<1>2. rs \in Seq(Resource) /\ Len(rs) \in Nat /\ k \in 1 .. Len(rs)
  BY <1>1, LenProperties
<1>3. /\ Len(ns) = Len(rs) - 1
      /\ \A j \in 1 .. Len(rs) - 1 : ns[j] = IF j < k THEN rs[j] ELSE rs[j + 1]
  <2> HIDE DEF rs
  <2> QED  BY <1>2, RemoveAtProperties
<1>4. n.resources[t] = ns /\ \A u \in ProviderTypes : u # t => n.resources[u] = s.resources[u]
  BY <1>1 DEF WithoutOne
<1> HIDE DEF ns
<1>5. \A u \in ProviderTypes : u # t => Len(n.resources[u]) = Len(s.resources[u]) /\ Len(s.resources[u]) \in Nat
  BY <1>1, <1>4, LenProperties
<1>6. ASSUME NEW i \in 1 .. Len(ns)
      PROVE  \E j \in 1 .. Len(rs) :
                ns[i] = rs[j] /\ j # k /\ (i >= k => j = i + 1) /\ (i < k => j = i)
  <2> HIDE DEF rs
  <2>1. CASE i < k
    <3>1. i \in 1 .. Len(rs) /\ ns[i] = rs[i] /\ i # k
      BY <1>2, <1>3, <2>1
    <3> QED  BY <1>2, <2>1, <3>1
  <2>2. CASE i >= k
    <3>1. i + 1 \in 1 .. Len(rs) /\ ns[i] = rs[i + 1] /\ i + 1 # k
      BY <1>2, <1>3, <2>2
    <3> QED  BY <1>2, <2>2, <3>1
  <2> QED  BY <1>2, <2>1, <2>2
<1>7. ASSUME NEW j \in 1 .. Len(rs), j # k
      PROVE  \E i \in 1 .. Len(ns) : ns[i] = rs[j]
  <2> HIDE DEF rs
  <2>1. CASE j < k
    <3>1. j \in 1 .. Len(ns) /\ ns[j] = rs[j]
      BY <1>2, <1>3, <2>1
    <3> QED  BY <3>1
  <2>2. CASE j > k
    <3>1. j - 1 \in 1 .. Len(ns) /\ ns[j - 1] = rs[j]
      BY <1>2, <1>3, <2>2
    <3> QED  BY <3>1
  <2> QED  BY <1>2, <1>7, <2>1, <2>2
<1>8. ASSUME NEW u \in ProviderTypes, NEW i \in 1 .. Len(n.resources[u])
      PROVE  \E j \in 1 .. Len(s.resources[u]) :
                /\ n.resources[u][i] = s.resources[u][j]
                /\ ~(u = t /\ j = k)
                /\ u = t /\ i >= k => j = i + 1
                /\ u # t \/ i < k => j = i
  <2>1. CASE u = t
    BY <1>4, <1>6, <1>8, <2>1
  <2>2. CASE u # t
    <3>1. i \in 1 .. Len(s.resources[u]) /\ n.resources[u][i] = s.resources[u][i]
      BY <1>4, <1>5, <1>8, <2>2
    <3> QED  BY <2>2, <3>1
  <2> QED  BY <2>1, <2>2
<1>9. ASSUME NEW u \in ProviderTypes, NEW j \in 1 .. Len(s.resources[u]), ~(u = t /\ j = k)
      PROVE  \E i \in 1 .. Len(n.resources[u]) : n.resources[u][i] = s.resources[u][j]
  <2>1. CASE u = t
    BY <1>4, <1>7, <1>9, <2>1
  <2>2. CASE u # t
    BY <1>4, <1>5, <1>9, <2>2
  <2> QED  BY <2>1, <2>2
<1> QED  BY <1>8, <1>9 DEF Shifted

\* Known and Own under each kind of change of a state.
LEMMA KnownGrows ==
    ASSUME NEW s, NEW K, NEW M, Known(s, K), Grown(K, M)
    PROVE  Known(s, M)
BY DEF Known, Grown

\* A state with the same serial numbers knows and owns the same credentials.
LEMMA SameKeysKnown ==
    ASSUME NEW s, NEW n, NEW K, SameKeys(s, n), Known(s, K), Own(s)
    PROVE  Known(n, K) /\ Own(n)
<1>1. Known(n, K)
  BY DEF SameKeys, Known
<1>2. Own(n)
  BY DEF SameKeys, Own
<1> QED  BY <1>1, <1>2

\* A place of the new state is one of the old state, or the last of its provider.
LEMMA AddedPlaces ==
    ASSUME NEW s \in State, NEW n, NEW type, NEW key, AddsKey(s, n, type, key),
           NEW t \in ProviderTypes, NEW i \in 1 .. Len(n.resources[t])
    PROVE  \/ /\ i \in 1 .. Len(s.resources[t])
              /\ n.resources[t][i].key = s.resources[t][i].key
              /\ n.resources[t][i].type = s.resources[t][i].type
           \/ /\ t = Provider(type) /\ i = Len(s.resources[t]) + 1
              /\ n.resources[t][i].key = key
              /\ n.resources[t][i].type = type
<1>1. Len(s.resources[t]) \in Nat
  BY LenProperties DEF State
<1>2. CASE t # Provider(type)
  <2>1. Len(n.resources[t]) = Len(s.resources[t])
    BY <1>2 DEF AddsKey
  <2> QED  BY <2>1 DEF AddsKey
<1>3. CASE t = Provider(type)
  <2>1. Len(n.resources[t]) = Len(s.resources[t]) + 1
    BY <1>3 DEF AddsKey
  <2>2. i \in 1 .. Len(s.resources[t]) \/ i = Len(n.resources[t])
    BY <1>1, <2>1
  <2> QED  BY <1>3, <2>1, <2>2 DEF AddsKey
<1> QED  BY <1>2, <1>3

\* A state that adds the credential just issued records it, once.
LEMMA AddsKeyKnown ==
    ASSUME NEW s \in State, NEW n, NEW K \in Seq(Key), NEW k \in Key,
           AddsKey(s, n, k.type, Len(K) + 1), Known(s, K), Own(s)
    PROVE  Known(n, Append(K, k)) /\ Own(n)
<1> DEFINE M == Append(K, k)
<1>1. Grown(K, M) /\ Len(M) = Len(K) + 1 /\ M[Len(K) + 1] = k
  BY AppendGrown
<1> HIDE DEF M
<1>2. \A t \in ProviderTypes : Len(s.resources[t]) \in Nat
  BY LenProperties DEF State
<1>3. ASSUME NEW t \in ProviderTypes, NEW i \in 1 .. Len(n.resources[t])
      PROVE  \/ /\ i \in 1 .. Len(s.resources[t])
                /\ n.resources[t][i].key = s.resources[t][i].key
                /\ n.resources[t][i].type = s.resources[t][i].type
             \/ /\ t = Provider(k.type) /\ i = Len(s.resources[t]) + 1
                /\ n.resources[t][i].key = Len(K) + 1
                /\ n.resources[t][i].type = k.type
  BY AddedPlaces
<1>4. Known(n, M)
  <2> SUFFICES ASSUME NEW t \in ProviderTypes, NEW i \in 1 .. Len(n.resources[t])
               PROVE  /\ n.resources[t][i].key \in 1 .. Len(M)
                      /\ M[n.resources[t][i].key].type = n.resources[t][i].type
    BY DEF Known
  <2>1. \A j \in 1 .. Len(s.resources[t]) :
            /\ s.resources[t][j].key \in 1 .. Len(M)
            /\ M[s.resources[t][j].key].type = s.resources[t][j].type
    <3>1. Known(s, M)
      BY <1>1, KnownGrows
    <3> QED  BY <3>1 DEF Known
  <2>2. Len(K) + 1 \in 1 .. Len(M)
    BY <1>1 DEF Grown
  <2> QED  BY <1>1, <1>3, <2>1, <2>2
<1>5. Own(n)
  <2> SUFFICES ASSUME NEW t \in ProviderTypes, NEW u \in ProviderTypes,
                      NEW i \in 1 .. Len(n.resources[t]), NEW j \in 1 .. Len(n.resources[u]),
                      n.resources[t][i].key = n.resources[u][j].key
               PROVE  t = u /\ i = j
    BY DEF Own
  <2>1. \A v \in ProviderTypes : \A l \in 1 .. Len(s.resources[v]) : s.resources[v][l].key # Len(K) + 1
    <3>1. \A v \in ProviderTypes : \A l \in 1 .. Len(s.resources[v]) : s.resources[v][l].key \in 1 .. Len(K)
      BY DEF Known
    <3>2. Len(K) \in Nat
      BY <1>1 DEF Grown
    <3> QED  BY <3>1, <3>2
  <2> QED  BY <1>3, <2>1 DEF Own
<1> QED  BY <1>4, <1>5 DEF M

\* A state without one of its resources records no more than before.
LEMMA DroppedKnown ==
    ASSUME NEW s \in State, NEW n, NEW K, NEW t \in ProviderTypes, NEW k \in 1 .. Len(s.resources[t]),
           WithoutOne(s, n, t, k), Known(s, K), Own(s)
    PROVE  Known(n, K) /\ Own(n)
<1>0. \A u \in ProviderTypes : \A i \in 1 .. Len(n.resources[u]) :
        \E j \in 1 .. Len(s.resources[u]) :
            /\ n.resources[u][i] = s.resources[u][j]
            /\ ~(u = t /\ j = k)
            /\ u = t /\ i >= k => j = i + 1
            /\ u # t \/ i < k => j = i
  <2>1. Shifted(s, n, t, k)
    BY DroppedPlaces
  <2> QED  BY <2>1 DEF Shifted
<1>1. Known(n, K)
  <2> SUFFICES ASSUME NEW u \in ProviderTypes, NEW i \in 1 .. Len(n.resources[u])
               PROVE  /\ n.resources[u][i].key \in 1 .. Len(K)
                      /\ K[n.resources[u][i].key].type = n.resources[u][i].type
    BY DEF Known
  <2>1. PICK j \in 1 .. Len(s.resources[u]) : n.resources[u][i] = s.resources[u][j]
    BY <1>0
  <2> QED  BY <2>1 DEF Known
<1>2. Own(n)
  <2> SUFFICES ASSUME NEW u \in ProviderTypes, NEW v \in ProviderTypes,
                      NEW i \in 1 .. Len(n.resources[u]), NEW j \in 1 .. Len(n.resources[v]),
                      n.resources[u][i].key = n.resources[v][j].key
               PROVE  u = v /\ i = j
    BY DEF Own
  <2>1. PICK a \in 1 .. Len(s.resources[u]) :
            /\ n.resources[u][i] = s.resources[u][a]
            /\ u = t /\ i >= k => a = i + 1
            /\ u # t \/ i < k => a = i
    BY <1>0
  <2>2. PICK b \in 1 .. Len(s.resources[v]) :
            /\ n.resources[v][j] = s.resources[v][b]
            /\ v = t /\ j >= k => b = j + 1
            /\ v # t \/ j < k => b = j
    BY <1>0
  <2>3. u = v /\ a = b
    BY <2>1, <2>2 DEF Own
  <2>4. i \in Int /\ j \in Int /\ k \in Int
    OBVIOUS
  <2> QED  BY <2>1, <2>2, <2>3, <2>4
<1> QED  BY <1>1, <1>2

\* The empty state records nothing.
LEMMA EmptyKnown ==
    ASSUME NEW K
    PROVE  Known(NewState, K) /\ Own(NewState)
<1>1. \A t \in ProviderTypes : 1 .. Len(NewState.resources[t]) = {}
  <2>1. \A t \in ProviderTypes : Len(NewState.resources[t]) = 0
    BY EmptySeq DEF NewState
  <2> QED  BY <2>1
<1> QED  BY <1>1 DEF Known, Own

\* The kinds of changes of the credentials.
LEMMA KeysGrow ==
    ASSUME KeyInv, NEW p \in Runs, StepOf(p)
    PROVE  Grown(keys, keys')
<1>1. keys \in Seq(Key) /\ Len(keys) \in Nat
  BY LenProperties DEF KeyInv, Inv, TypeOK
<1>2. CASE keys' = keys
  BY <1>1, <1>2 DEF Grown
<1>3. CASE \E k \in Key : keys' = Append(keys, k)
  BY <1>1, <1>3, AppendGrown
<1>4. ASSUME NEW t \in ProviderTypes, Drops(p, t), keys' = Destroyed(Visited(run[p], t))
      PROVE  Grown(keys, keys')
  <2>1. Visited(run[p], t).key \in 1 .. Len(keys)
    BY <1>4 DEF KeyInv, Known, Drops, Visited
  <2> QED  BY <1>4, <2>1, DestroyedGrown DEF KeyInv
<1>5. Begins(p) \/ Works(p) \/ Issues(p) \/ Ends(p) => keys' = keys \/ \E k \in Key : keys' = Append(keys, k)
  BY DEF Begins, Works, Issues, Ends
<1>6. ASSUME NEW t \in ProviderTypes, Drops(p, t)
      PROVE  keys' = keys \/ keys' = Destroyed(Visited(run[p], t))
  BY <1>6 DEF Drops
<1> QED  BY <1>2, <1>3, <1>4, <1>5, <1>6 DEF StepOf

\* KeyInv is kept by every kind of step of an invocation.
LEMMA KeyInvStep ==
    ASSUME KeyInv, NEW p \in Runs, StepOf(p), Inv'
    PROVE  KeyInv'
<1> DEFINE s == run[p].state
           n == run'[p].state
<1>1. Grown(keys, keys') /\ keys \in Seq(Key) /\ saved \in State
  BY KeysGrow DEF KeyInv, Inv, TypeOK
<1>2. Known(saved, keys') /\ Own(saved)
  BY <1>1, KnownGrows DEF KeyInv
<1>3. ASSUME NEW q \in Runs, q # p, Active(q)'
      PROVE  Known(run'[q].state, keys') /\ Own(run'[q].state)
  <2>1. run'[q] = run[q] /\ Active(q)
    BY <1>3 DEF StepOf, Active
  <2> QED  BY <1>1, <2>1, KnownGrows DEF KeyInv
<1>4. ASSUME Active(p)
      PROVE  Known(s, keys) /\ Own(s) /\ Known(s, keys') /\ s \in State
  BY <1>1, <1>4, KnownGrows DEF KeyInv, Inv, TypeOK, RunState
<1>5. /\ Known(saved', keys') /\ Own(saved')
      /\ Active(p)' => Known(n, keys') /\ Own(n)
  <2>1. CASE Begins(p)
    BY <1>2, <2>1 DEF Begins
  <2>2. CASE Works(p)
    BY <1>2, <1>4, <2>2, SameKeysKnown DEF Works
  <2>3. CASE Issues(p)
    <3>1. Active(p) /\ saved' = saved
      BY <2>3 DEF Issues
    <3>2. PICK k \in Key : keys' = Append(keys, k) /\ AddsKey(s, n, k.type, Len(keys) + 1)
      BY <2>3 DEF Issues
    <3> QED  BY <1>1, <1>2, <1>4, <3>1, <3>2, AddsKeyKnown
  <2>4. ASSUME NEW t \in ProviderTypes, Drops(p, t)
        PROVE  saved' = saved /\ Known(n, keys') /\ Own(n)
    <3> DEFINE k == run[p].left[t]
    <3>1. /\ Active(p) /\ saved' = saved
          /\ k \in 1 .. Len(s.resources[t])
          /\ WithoutOne(s, n, t, k)
      BY <2>4 DEF Drops
    <3>2. s \in State /\ Known(s, keys') /\ Own(s)
      BY <1>4, <3>1
    <3> HIDE DEF s, n, k
    <3>3. Known(n, keys') /\ Own(n)
      BY <3>1, <3>2, DroppedKnown
    <3> QED  BY <3>1, <3>3
  <2>5. CASE Ends(p)
    BY <1>2, <1>4, <2>5, SameKeysKnown, EmptyKnown DEF Ends
  <2> QED  BY <1>2, <2>1, <2>2, <2>3, <2>4, <2>5 DEF StepOf
<1>6. \A q \in Runs : Active(q)' => Known(run'[q].state, keys') /\ Own(run'[q].state)
  BY <1>3, <1>5
<1> QED  BY <1>5, <1>6 DEF KeyInv

\* At first nothing is issued and nothing is recorded.
LEMMA KeyInvInit == Init => KeyInv
<1> SUFFICES ASSUME Init PROVE KeyInv
  OBVIOUS
<1>1. Inv /\ saved = NewState /\ \A p \in Runs : ~Active(p)
  BY InitInv DEF Init, Active, Idle
<1> QED  BY <1>1, EmptyKnown DEF KeyInv

\* KeyInv is inductive.
LEMMA KeyInvNext == KeyInv /\ [Next]_vars => KeyInv'
<1> SUFFICES ASSUME KeyInv, [Next]_vars PROVE KeyInv'
  OBVIOUS
<1>1. Inv /\ Inv'
  BY NextInv DEF KeyInv
<1>2. CASE \E p \in Runs : StepOf(p)
  BY <1>1, <1>2, KeyInvStep
<1>3. CASE UNCHANGED <<keys, saved, run>>
  BY <1>1, <1>3 DEF KeyInv, Active
<1> QED  BY <1>1, <1>2, <1>3, StepKinds

\* For any number of concurrent invocations, config files and failures: every
\* resource in the state file or in a local state stands for a credential of its
\* type that a provider issued, and no two of one state for the same.
THEOREM KeysAreKnown == Spec => []KeyInv
<1> QED  BY KeyInvInit, KeyInvNext, PTL DEF Spec

-----------------------------------------------------------------------------
(* Which credentials exist and are recorded, with one invocation at a time *)
(* (the command line, or a lambda that is not invoked before it has ended).*)

\* State s records the credential with this serial number.
Holds(s, key) ==
    \E t \in ProviderTypes : \E i \in 1 .. Len(s.resources[t]) : s.resources[t][i].key = key

\* A deploy key that exists.
Lives(K, key) == key \in 1 .. Len(K) /\ Revocable(K[key].type) /\ K[key].live

\* Every credential that state s records exists.
AllLive(s, K) ==
    \A t \in ProviderTypes : \A i \in 1 .. Len(s.resources[t]) : K[s.resources[t][i].key].live

\* State n records every deploy key that s does, if it exists.
Covers(s, n, K) == \A key \in 1 .. Len(K) : Holds(s, key) /\ Lives(K, key) => Holds(n, key)

\* State s records every deploy key that exists.
Tracks(s, K) == \A key \in 1 .. Len(K) : Lives(K, key) => Holds(s, key)

\* What the state file between the runs and a run's local state record is live.
LiveInv ==
    /\ KeyInv
    /\ Quiet => AllLive(saved, keys)
    /\ \A p \in Runs : Active(p) => AllLive(run[p].state, keys)

\* A run forgets no live key that the state file records.
CoverInv ==
    /\ KeyInv
    /\ \A p \in Runs : Active(p) => Covers(saved, run[p].state, keys)

\* Every live key is recorded.
TrackInv ==
    /\ KeyInv
    /\ Quiet => Tracks(saved, keys)
    /\ \A p \in Runs : Active(p) => Tracks(run[p].state, keys)

\* A deploy key stays recorded under each kind of change of a state.
LEMMA SameKeysHolds ==
    ASSUME NEW s, NEW n, SameKeys(s, n), NEW key, Holds(s, key)
    PROVE  Holds(n, key)
BY DEF SameKeys, Holds

\* Adding a resource loses none.
LEMMA AddsKeyHolds ==
    ASSUME NEW s \in State, NEW n, NEW type \in CredentialTypes, NEW new, AddsKey(s, n, type, new)
    PROVE  Holds(n, new) /\ \A key : Holds(s, key) => Holds(n, key)
<1>1. \A t \in ProviderTypes : Len(s.resources[t]) \in Nat
  BY LenProperties DEF State
<1>2. \A t \in ProviderTypes : \A i \in 1 .. Len(s.resources[t]) :
        i \in 1 .. Len(n.resources[t]) /\ n.resources[t][i].key = s.resources[t][i].key
  <2> SUFFICES ASSUME NEW t \in ProviderTypes, NEW i \in 1 .. Len(s.resources[t])
               PROVE  i \in 1 .. Len(n.resources[t]) /\ n.resources[t][i].key = s.resources[t][i].key
    OBVIOUS
  <2>1. Len(n.resources[t]) = Len(s.resources[t]) \/ Len(n.resources[t]) = Len(s.resources[t]) + 1
    BY DEF AddsKey
  <2>2. n.resources[t][i].key = s.resources[t][i].key
    BY DEF AddsKey
  <2> QED  BY <1>1, <2>1, <2>2
<1>3. PICK P \in ProviderTypes : P = Provider(type)
  BY ProviderType
<1>4. Len(n.resources[P]) = Len(s.resources[P]) + 1 /\ n.resources[P][Len(n.resources[P])].key = new
  BY <1>3 DEF AddsKey
<1>5. Len(n.resources[P]) \in 1 .. Len(n.resources[P])
  BY <1>1, <1>4
<1>6. Holds(n, new)
  BY <1>4, <1>5 DEF Holds
<1> QED  BY <1>2, <1>6 DEF Holds

\* Of the credentials only that of the dropped resource is lost.
LEMMA DroppedHolds ==
    ASSUME NEW s \in State, NEW n, NEW t \in ProviderTypes, NEW k \in 1 .. Len(s.resources[t]),
           WithoutOne(s, n, t, k), NEW key, Holds(s, key), key # s.resources[t][k].key
    PROVE  Holds(n, key)
<1>0. PICK u \in ProviderTypes : \E j \in 1 .. Len(s.resources[u]) : s.resources[u][j].key = key
  BY DEF Holds
<1>1. PICK j \in 1 .. Len(s.resources[u]) : s.resources[u][j].key = key
  BY <1>0
<1>2. ~(u = t /\ j = k)
  BY <1>1
<1>3. Shifted(s, n, t, k)
  BY DroppedPlaces
<1>4. \E i \in 1 .. Len(n.resources[u]) : n.resources[u][i] = s.resources[u][j]
  BY <1>2, <1>3 DEF Shifted
<1> QED  BY <1>1, <1>4 DEF Holds

\* A deploy key that exists after a step existed before it, or is new.
LEMMA LivesBefore ==
    ASSUME NEW K, NEW M, Grown(K, M), NEW key, key \in 1 .. Len(K), Lives(M, key)
    PROVE  Lives(K, key)
BY DEF Grown, Lives

\* While no Destroy fails, a deploy key that a local state records and that exists
\* after a step of the invocation is still recorded then: the resource that a step
\* takes out of the state is the one whose key it has destroyed.
LEMMA StillHeld ==
    ASSUME KeyInv, NEW p \in Runs, StepOf(p), Active(p), Active(p)', "destroy" \notin FaultKinds,
           NEW key, key \in 1 .. Len(keys), Holds(run[p].state, key), Lives(keys', key)
    PROVE  Holds(run'[p].state, key)
<1> DEFINE s == run[p].state
           n == run'[p].state
<1>1. s \in State /\ Known(s, keys)
  BY DEF KeyInv, Inv, TypeOK, RunState
<1>2. CASE Works(p)
  BY <1>2, SameKeysHolds DEF Works
<1>3. CASE Issues(p)
  <2>1. PICK k \in Key : AddsKey(s, n, k.type, Len(keys) + 1)
    BY <1>3 DEF Issues
  <2>2. k.type \in CredentialTypes
    BY DEF Key
  <2> QED  BY <1>1, <2>1, <2>2, AddsKeyHolds
<1>4. ASSUME NEW t \in ProviderTypes, Drops(p, t)
      PROVE  Holds(n, key)
  <2> DEFINE k == run[p].left[t]
             res == Visited(run[p], t)
  <2>1. /\ k \in 1 .. Len(s.resources[t]) /\ WithoutOne(s, n, t, k)
        /\ keys' = Destroyed(res)
        /\ res = s.resources[t][k]
    BY <1>4 DEF Drops, Visited
  <2>2. res.key \in 1 .. Len(keys) /\ keys[res.key].type = res.type
    BY <1>1, <2>1 DEF Known
  <2>3. ASSUME key = res.key PROVE FALSE
    <3>1. Grown(keys, keys')
      BY KeysGrow
    <3>2. Revocable(keys[key].type) /\ keys'[key].live
      BY <3>1 DEF Lives, Grown
    <3>3. Revocable(res.type)
      BY <2>2, <2>3, <3>2
    <3>4. ~keys'[key].live
      BY <2>1, <2>2, <2>3, <3>3, DestroyedGrown DEF KeyInv
    <3> QED  BY <3>2, <3>4
  <2> HIDE DEF s, n, k, res
  <2> QED  BY <1>1, <2>1, <2>3, DroppedHolds DEF s
<1> QED  BY <1>2, <1>3, <1>4 DEF StepOf, Begins, Ends

\* Saving and the state file.
LEMMA EmptyHolds == \A key : ~Holds(NewState, key)
<1>1. \A t \in ProviderTypes : 1 .. Len(NewState.resources[t]) = {}
  <2>1. \A t \in ProviderTypes : Len(NewState.resources[t]) = 0
    BY EmptySeq DEF NewState
  <2> QED  BY <2>1
<1> QED  BY <1>1 DEF Holds

\* The resources of a state are those in some place of it.
LEMMA ResourcesOf ==
    ASSUME NEW s \in State
    PROVE  /\ \A res \in Resources(s) : \E t \in ProviderTypes :
                \E i \in 1 .. Len(s.resources[t]) : s.resources[t][i] = res
           /\ \A t \in ProviderTypes : \A i \in 1 .. Len(s.resources[t]) :
                s.resources[t][i] \in Resources(s)
<1>1. \A t \in ProviderTypes : ToSet(s.resources[t]) = {s.resources[t][i] : i \in 1 .. Len(s.resources[t])}
  BY LenProperties DEF ToSet, State
<1>2. ASSUME NEW res \in Resources(s)
      PROVE  \E t \in ProviderTypes : \E i \in 1 .. Len(s.resources[t]) : s.resources[t][i] = res
  <2>1. PICK t \in ProviderTypes : res \in ToSet(s.resources[t])
    BY DEF Resources
  <2> QED  BY <1>1, <2>1
<1>3. ASSUME NEW t \in ProviderTypes, NEW i \in 1 .. Len(s.resources[t])
      PROVE  s.resources[t][i] \in Resources(s)
  <2>1. s.resources[t][i] \in ToSet(s.resources[t])
    BY <1>1
  <2> QED  BY <2>1 DEF Resources
<1> QED  BY <1>2, <1>3

\* The record of a credential, as the properties put it.
LEMMA HeldByResource ==
    ASSUME NEW s \in State, NEW key
    PROVE  Holds(s, key) <=> \E res \in Resources(s) : res.key = key
BY ResourcesOf DEF Holds

\* With one invocation at a time there is none besides the one that steps.
LEMMA QuietBefore ==
    ASSUME OneAtATime, Inv, NEW p \in Runs, StepOf(p)
    PROVE  /\ ~Active(p) => Quiet
           /\ Active(p)' => ~Quiet'
           /\ \A q \in Runs : q = p
<1>1. \A q \in Runs : q = p
  BY DEF OneAtATime
<1> QED  BY <1>1 DEF Quiet, Active

\* What an invocation that ends leaves in the state file.
LEMMA CoverStep ==
    ASSUME CoverInv, OneAtATime, FaultKinds \cap {"destroy", "torn"} = {}, NEW p \in Runs, StepOf(p), KeyInv'
    PROVE  CoverInv' /\ Covers(saved, saved', keys')
<1> DEFINE s == run[p].state
           n == run'[p].state
<1>1. Len(keys) \in Nat /\ Known(saved, keys) /\ Grown(keys, keys') /\ Inv
  BY LenProperties, KeysGrow DEF CoverInv, KeyInv, Inv, TypeOK
<1>2. \A key : Holds(saved, key) => key \in 1 .. Len(keys)
  BY <1>1 DEF Known, Holds
<1>3. ASSUME saved' = saved
      PROVE  Covers(saved, saved', keys')
  BY <1>3 DEF Covers
<1>4. ASSUME Active(p), Active(p)', saved' = saved
      PROVE  Covers(saved', n, keys')
  <2> SUFFICES ASSUME NEW key \in 1 .. Len(keys'), Holds(saved, key), Lives(keys', key)
               PROVE  Holds(n, key)
    BY <1>4 DEF Covers
  <2>1. key \in 1 .. Len(keys)
    BY <1>2
  <2>2. Holds(s, key)
    BY <1>1, <1>4, <2>1, LivesBefore DEF CoverInv, Covers
  <2> QED  BY <1>4, <2>1, <2>2, StillHeld DEF CoverInv
<1>5. CASE Begins(p)
  <2>1. saved' = saved /\ n = saved
    BY <1>5 DEF Begins
  <2>2. Covers(saved', n, keys')
    BY <2>1 DEF Covers
  <2> QED  BY <1>1, <1>3, <2>1, <2>2, QuietBefore DEF CoverInv
<1>6. CASE Active(p) /\ Active(p)' /\ saved' = saved
  BY <1>1, <1>3, <1>4, <1>6, QuietBefore DEF CoverInv
<1>7. CASE Ends(p)
  <2>1. \A q \in Runs : ~Active(q)'
    BY <1>1, <1>7, QuietBefore DEF Ends
  <2>2. SameKeys(s, saved') \/ saved' = saved
    BY <1>7 DEF Ends
  <2>3. Covers(saved, s, keys) /\ keys' = keys
    BY <1>7 DEF CoverInv, Ends
  <2>4. Covers(saved, saved', keys')
    BY <1>3, <2>2, <2>3, SameKeysHolds DEF Covers
  <2> QED  BY <2>1, <2>4 DEF CoverInv
<1> QED  BY <1>5, <1>6, <1>7 DEF StepOf, Works, Issues, Drops

\* One invocation at a time whose Destroy does not fail and whose file is never
\* torn: a step takes a deploy key out of the state file only when the key was
\* destroyed, whatever crashes and whichever other call fails.
THEOREM ForgottenKeysAreDestroyed ==
    ASSUME OneAtATime, FaultKinds \cap {"destroy", "torn"} = {}
    PROVE  Spec => ForgetsOnlyDestroyed
<1>1. Init => CoverInv
  BY KeyInvInit DEF Init, CoverInv, Active, Idle
<1> DEFINE Step ==
    \A res \in Resources(saved) :
        Revocable(res.type) /\ keys'[res.key].live => \E kept \in Resources(saved') : kept.key = res.key
<1>2. CoverInv /\ [Next]_vars => CoverInv' /\ [Step]_vars
  <2> SUFFICES ASSUME CoverInv, [Next]_vars PROVE CoverInv' /\ Step
    OBVIOUS
  <2>1. KeyInv /\ KeyInv' /\ Inv
    BY KeyInvNext DEF CoverInv, KeyInv
  <2>2. CoverInv' /\ Covers(saved, saved', keys') /\ Grown(keys, keys')
    <3>1. CASE \E p \in Runs : StepOf(p)
      BY <2>1, <3>1, CoverStep, KeysGrow
    <3>2. CASE UNCHANGED <<keys, saved, run>>
      <4>1. Len(keys) \in Nat
        BY <2>1, LenProperties DEF Inv, TypeOK
      <4> QED  BY <2>1, <3>2, <4>1 DEF CoverInv, Active, Covers, Grown
    <3> QED  BY <2>1, <3>1, <3>2, StepKinds
  <2> SUFFICES ASSUME NEW res \in Resources(saved), Revocable(res.type), keys'[res.key].live
               PROVE  \E kept \in Resources(saved') : kept.key = res.key
    BY <2>2
  <2>3. saved \in State /\ saved' \in State /\ Known(saved, keys)
    BY <2>1 DEF KeyInv, Inv, TypeOK
  <2>4. res.key \in 1 .. Len(keys) /\ keys[res.key].type = res.type /\ Holds(saved, res.key)
    BY <2>3, ResourcesOf, HeldByResource DEF Known
  <2>5. res.key \in 1 .. Len(keys') /\ keys'[res.key].type = res.type
    BY <2>2, <2>4 DEF Grown
  <2>6. Holds(saved', res.key)
    BY <2>2, <2>4, <2>5 DEF Covers, Lives
  <2> QED  BY <2>3, <2>6, HeldByResource
<1> QED  BY <1>1, <1>2, PTL DEF Spec, ForgetsOnlyDestroyed

\* AllLive under each kind of change of a state or of the credentials.
LEMMA SameLive ==
    ASSUME NEW s, NEW K, NEW M, Known(s, K), AllLive(s, K), \A i \in 1 .. Len(K) : M[i] = K[i]
    PROVE  AllLive(s, M)
BY DEF AllLive, Known

\* A state with the same serial numbers records no other credentials.
LEMMA SameKeysLive ==
    ASSUME NEW s, NEW n, NEW K, SameKeys(s, n), AllLive(s, K)
    PROVE  AllLive(n, K)
BY DEF SameKeys, AllLive

\* A credential just issued is live.
LEMMA AddsKeyLive ==
    ASSUME NEW s \in State, NEW n, NEW K \in Seq(Key), NEW k \in Key, k.live,
           AddsKey(s, n, k.type, Len(K) + 1), Known(s, K), AllLive(s, K)
    PROVE  AllLive(n, Append(K, k))
<1>1. Append(K, k)[Len(K) + 1] = k /\ \A i \in 1 .. Len(K) : Append(K, k)[i] = K[i]
  BY AppendGrown
<1>2. AllLive(s, Append(K, k))
  BY <1>1, SameLive
<1> SUFFICES ASSUME NEW t \in ProviderTypes, NEW i \in 1 .. Len(n.resources[t])
             PROVE  Append(K, k)[n.resources[t][i].key].live
  BY DEF AllLive
<1>3. \/ i \in 1 .. Len(s.resources[t]) /\ n.resources[t][i].key = s.resources[t][i].key
      \/ n.resources[t][i].key = Len(K) + 1
  BY AddedPlaces
<1> QED  BY <1>1, <1>2, <1>3 DEF AllLive

\* Destroying the credential of the dropped resource kills none that is still
\* recorded: each serial number is recorded once.
LEMMA DroppedLive ==
    ASSUME NEW s \in State, NEW n, NEW t \in ProviderTypes, NEW k \in 1 .. Len(s.resources[t]),
           WithoutOne(s, n, t, k), NEW K, NEW M, Known(s, K), Own(s), AllLive(s, K),
           \A key \in 1 .. Len(K) : key # s.resources[t][k].key => M[key] = K[key]
    PROVE  AllLive(n, M)
<1>1. Shifted(s, n, t, k)
  BY DroppedPlaces
<1> SUFFICES ASSUME NEW u \in ProviderTypes, NEW i \in 1 .. Len(n.resources[u])
             PROVE  M[n.resources[u][i].key].live
  BY DEF AllLive
<1>2. PICK j \in 1 .. Len(s.resources[u]) : n.resources[u][i] = s.resources[u][j] /\ ~(u = t /\ j = k)
  BY <1>1 DEF Shifted
<1>3. s.resources[u][j].key # s.resources[t][k].key
  BY <1>2 DEF Own
<1>4. s.resources[u][j].key \in 1 .. Len(K) /\ K[s.resources[u][j].key].live
  BY DEF Known, AllLive
<1> QED  BY <1>2, <1>3, <1>4

\* A credential that a local state records exists, and still does after a step of
\* its invocation, if it is then recorded.
LEMMA LiveStep ==
    ASSUME LiveInv, OneAtATime, FaultKinds \cap {"save", "crash"} = {}, NEW p \in Runs, StepOf(p), KeyInv'
    PROVE  LiveInv'
<1> DEFINE s == run[p].state
           n == run'[p].state
<1>1. /\ Inv /\ keys \in Seq(Key) /\ KeyInv
      /\ Active(p) => s \in State /\ Known(s, keys) /\ Own(s) /\ AllLive(s, keys)
  BY DEF LiveInv, KeyInv, Inv, TypeOK, RunState
<1>2. /\ ~Active(p) => AllLive(saved, keys)
      /\ Active(p)' => ~Quiet'
      /\ \A q \in Runs : q = p
  BY <1>1, QuietBefore DEF LiveInv
<1>3. CASE Begins(p)
  BY <1>2, <1>3 DEF Begins, LiveInv
<1>4. CASE Works(p)
  <2>1. AllLive(s, keys')
    <3>1. CASE keys' = keys
      BY <1>1, <1>4, <3>1 DEF Works
    <3>2. ASSUME NEW k \in Key, keys' = Append(keys, k) PROVE AllLive(s, keys')
      <4>1. \A i \in 1 .. Len(keys) : keys'[i] = keys[i]
        BY <1>1, <3>2, AppendGrown
      <4> QED  BY <1>1, <1>4, <4>1, SameLive DEF Works
    <3> QED  BY <1>4, <3>1, <3>2 DEF Works
  <2>2. AllLive(n, keys')
    BY <1>4, <2>1, SameKeysLive DEF Works
  <2> QED  BY <1>2, <1>4, <2>2 DEF Works, LiveInv
<1>5. CASE Issues(p)
  <2>1. PICK k \in Key : k.live /\ keys' = Append(keys, k) /\ AddsKey(s, n, k.type, Len(keys) + 1)
    BY <1>5 DEF Issues
  <2>2. Active(p) /\ Active(p)' /\ saved' = saved
    BY <1>5 DEF Issues
  <2>3. AllLive(n, keys')
    BY <1>1, <2>1, <2>2, AddsKeyLive
  <2> QED  BY <1>2, <2>2, <2>3 DEF LiveInv
<1>6. ASSUME NEW t \in ProviderTypes, Drops(p, t)
      PROVE  LiveInv'
  <2> DEFINE k == run[p].left[t]
             res == Visited(run[p], t)
  <2>1. /\ Active(p) /\ Active(p)'
        /\ k \in 1 .. Len(s.resources[t]) /\ WithoutOne(s, n, t, k)
        /\ keys' = Destroyed(res) \/ keys' = keys
        /\ res = s.resources[t][k]
    BY <1>6 DEF Drops, Visited
  <2>2. res.key \in 1 .. Len(keys)
    BY <1>1, <2>1 DEF Known
  <2>3. \A key \in 1 .. Len(keys) : key # res.key => keys'[key] = keys[key]
    BY <1>1, <2>1, <2>2, DestroyedGrown
  <2>4. AllLive(n, keys')
    <3>1. s \in State /\ Known(s, keys) /\ Own(s) /\ AllLive(s, keys)
      BY <1>1, <2>1
    <3> HIDE DEF s, n, k, res
    <3> QED  BY <2>1, <2>3, <3>1, DroppedLive
  <2> QED  BY <1>2, <2>1, <2>4 DEF LiveInv
<1>7. CASE Ends(p)
  <2>1. Active(p) /\ ~Active(p)' /\ keys' = keys /\ (SameKeys(s, saved') \/ saved' = NewState)
    BY <1>7 DEF Ends
  <2>2. AllLive(NewState, keys)
    BY EmptyHolds DEF AllLive, Holds
  <2>3. AllLive(saved', keys')
    BY <1>1, <2>1, <2>2 DEF AllLive, SameKeys
  <2> QED  BY <1>2, <2>1, <2>3 DEF LiveInv
<1> QED  BY <1>3, <1>4, <1>5, <1>6, <1>7 DEF StepOf

\* There are no credentials at the start.
LEMMA LiveInvInit == Init => LiveInv
<1> SUFFICES ASSUME Init PROVE LiveInv
  OBVIOUS
<1>1. KeyInv /\ saved = NewState /\ \A p \in Runs : ~Active(p)
  BY KeyInvInit DEF Init, Active, Idle
<1>2. AllLive(NewState, keys)
  BY EmptyHolds DEF AllLive, Holds
<1> QED  BY <1>1, <1>2 DEF LiveInv

\* Every step keeps what is recorded live.
LEMMA LiveInvNext ==
    ASSUME OneAtATime, FaultKinds \cap {"save", "crash"} = {}, LiveInv, [Next]_vars
    PROVE  LiveInv'
<1>1. KeyInv' /\ Inv
  BY KeyInvNext DEF LiveInv, KeyInv
<1>2. CASE \E p \in Runs : StepOf(p)
  BY <1>1, <1>2, LiveStep
<1>3. CASE UNCHANGED <<keys, saved, run>>
  BY <1>1, <1>3 DEF LiveInv, Active, Quiet
<1> QED  BY <1>1, <1>2, <1>3, StepKinds

\* One invocation at a time, each of which reaches its Save: every credential that
\* the state file records between two invocations exists, whichever call of a
\* provider or store has failed, and even if the file was torn.
THEOREM RecordedKeysAreLive ==
    ASSUME OneAtATime, FaultKinds \cap {"save", "crash"} = {}
    PROVE  Spec => []RecordedKeysExist
<1>1. LiveInv /\ [Next]_vars => LiveInv'
  BY LiveInvNext
<1>2. LiveInv => RecordedKeysExist
  <2> SUFFICES ASSUME LiveInv, Quiet, NEW res \in Resources(saved) PROVE keys[res.key].live
    BY DEF RecordedKeysExist
  <2>1. saved \in State
    BY DEF LiveInv, KeyInv, Inv, TypeOK
  <2> QED  BY <2>1, ResourcesOf DEF LiveInv, AllLive
<1> QED  BY <1>1, <1>2, LiveInvInit, PTL DEF Spec

\* A deploy key that exists is recorded by the invocation under way, and then by
\* the state file.
LEMMA TrackStep ==
    ASSUME TrackInv, OneAtATime, FaultKinds \subseteq {"write", "delete"}, NEW p \in Runs, StepOf(p), KeyInv'
    PROVE  TrackInv'
<1> DEFINE s == run[p].state
           n == run'[p].state
<1>1. /\ Inv /\ keys \in Seq(Key) /\ Len(keys) \in Nat /\ KeyInv
      /\ Active(p) => s \in State /\ Tracks(s, keys)
  BY LenProperties DEF TrackInv, KeyInv, Inv, TypeOK, RunState
<1>2. /\ ~Active(p) => Tracks(saved, keys)
      /\ Active(p)' => ~Quiet'
      /\ \A q \in Runs : q = p
  BY <1>1, QuietBefore DEF TrackInv
\* Only an Issues step has a new key, and it records that one.
<1>3. ASSUME Active(p), Active(p)', Len(keys') = Len(keys)
      PROVE  Tracks(n, keys')
  <2> SUFFICES ASSUME NEW key \in 1 .. Len(keys'), Lives(keys', key) PROVE Holds(n, key)
    BY DEF Tracks
  <2>1. Lives(keys, key)
    BY <1>3, KeysGrow, LivesBefore DEF TrackInv
  <2>2. Holds(s, key)
    BY <1>1, <1>3, <2>1 DEF Tracks
  <2> QED  BY <1>3, <2>2, StillHeld DEF TrackInv
<1>4. CASE Begins(p)
  BY <1>2, <1>4 DEF Begins, TrackInv
<1>5. CASE Works(p)
  BY <1>2, <1>3, <1>5 DEF Works, TrackInv
<1>6. CASE Issues(p)
  <2>1. PICK k \in Key : keys' = Append(keys, k) /\ AddsKey(s, n, k.type, Len(keys) + 1)
    BY <1>6 DEF Issues
  <2>2. Active(p) /\ Active(p)' /\ k.type \in CredentialTypes
    BY <1>6 DEF Issues, Key
  <2>3. Len(keys') = Len(keys) + 1 /\ \A i \in 1 .. Len(keys) : keys'[i] = keys[i]
    BY <1>1, <2>1, AppendGrown
  <2>4. Holds(n, Len(keys) + 1) /\ \A key : Holds(s, key) => Holds(n, key)
    BY <1>1, <2>1, <2>2, AddsKeyHolds
  <2>5. Tracks(n, keys')
    <3> SUFFICES ASSUME NEW key \in 1 .. Len(keys'), Lives(keys', key) PROVE Holds(n, key)
      BY DEF Tracks
    <3>1. key = Len(keys) + 1 \/ key \in 1 .. Len(keys)
      BY <1>1, <2>3
    <3>2. CASE key \in 1 .. Len(keys)
      BY <1>1, <2>2, <2>3, <2>4, <3>2 DEF Tracks, Lives
    <3> QED  BY <2>4, <3>1, <3>2
  <2> QED  BY <1>2, <2>2, <2>5 DEF TrackInv
<1>7. ASSUME NEW t \in ProviderTypes, Drops(p, t)
      PROVE  TrackInv'
  <2>1. Visited(run[p], t).key \in 1 .. Len(keys)
    BY <1>7 DEF TrackInv, KeyInv, Known, Drops, Visited
  <2>2. Active(p) /\ Active(p)' /\ Len(keys') = Len(keys)
    BY <1>1, <1>7, <2>1, DestroyedGrown DEF Drops
  <2> QED  BY <1>2, <1>3, <2>2 DEF TrackInv
<1>8. CASE Ends(p)
  <2>1. Active(p) /\ ~Active(p)' /\ keys' = keys /\ SameKeys(s, saved')
    BY <1>8 DEF Ends
  <2>2. Tracks(saved', keys')
    BY <1>1, <2>1, SameKeysHolds DEF Tracks
  <2> QED  BY <1>2, <2>1, <2>2 DEF TrackInv
<1> QED  BY <1>4, <1>5, <1>6, <1>7, <1>8 DEF StepOf

\* One invocation at a time, with no failure but of a Write or a Delete: every
\* deploy key that exists between two invocations is in the state file, so that a
\* later invocation can destroy it.
THEOREM KeysAreTracked ==
    ASSUME OneAtATime, FaultKinds \subseteq {"write", "delete"}
    PROVE  Spec => []NoLeakedKeys
<1>1. Init => TrackInv
  <2> SUFFICES ASSUME Init PROVE TrackInv
    OBVIOUS
  <2>1. KeyInv /\ keys = << >> /\ \A p \in Runs : ~Active(p)
    BY KeyInvInit DEF Init, Active, Idle
  <2>2. 1 .. Len(keys) = {}
    BY <2>1, EmptySeq
  <2> QED  BY <2>1, <2>2 DEF TrackInv, Tracks
<1>2. TrackInv /\ [Next]_vars => TrackInv'
  <2> SUFFICES ASSUME TrackInv, [Next]_vars PROVE TrackInv'
    OBVIOUS
  <2>1. KeyInv' /\ Inv
    BY KeyInvNext DEF TrackInv, KeyInv
  <2>2. CASE \E p \in Runs : StepOf(p)
    BY <2>1, <2>2, TrackStep
  <2>3. CASE UNCHANGED <<keys, saved, run>>
    BY <2>1, <2>3 DEF TrackInv, Active, Quiet
  <2> QED  BY <2>1, <2>2, <2>3, StepKinds
<1>3. TrackInv => NoLeakedKeys
  <2> SUFFICES ASSUME TrackInv, Quiet, NEW k \in DOMAIN keys, Revocable(keys[k].type), keys[k].live
               PROVE  \E res \in Resources(saved) : res.key = k
    BY DEF NoLeakedKeys
  <2>1. saved \in State /\ DOMAIN keys = 1 .. Len(keys)
    BY LenProperties DEF TrackInv, KeyInv, Inv, TypeOK
  <2>2. Holds(saved, k)
    BY <2>1 DEF TrackInv, Tracks, Lives
  <2> QED  BY <2>1, <2>2, HeldByResource
<1> QED  BY <1>1, <1>2, <1>3, PTL DEF Spec
=============================================================================
