------------------------------ MODULE SecretProofs ------------------------------
(***************************************************************************)
(* Proof that the state file says what is in the stores: an invocation     *)
(* changes the places of the stores and the secrets of its local state     *)
(* together, and between two invocations the state file has the secrets.   *)
(***************************************************************************)
EXTENDS KeyProofs

-----------------------------------------------------------------------------
(* The paths of the secrets of a store.                                    *)

\* A written secret adds its path (src/state.go:154-167).
LEMMA PutPaths ==
    ASSUME NEW P, NEW old \in Seq(Secret(P)), DistinctPaths(old), NEW secret \in Secret(P)
    PROVE  \A path : HasPath(Put(old, secret), path) <=> HasPath(old, path) \/ path = secret.path
<1> DEFINE new == Put(old, secret)
<1>1. Len(old) \in Nat /\ DOMAIN old = 1 .. Len(old)
  BY LenProperties
<1>2. CASE HasPath(old, secret.path)
  <2>1. PICK i \in 1 .. Len(old) : old[i].path = secret.path
    BY <1>1, <1>2 DEF HasPath
  <2>2. new = [old EXCEPT ![i] = secret]
    <3>1. FirstAt(old, secret.path) = i
      BY <2>1, FirstAtIsTheOne
    <3> QED  BY <1>2, <3>1 DEF Put
  <2> HIDE DEF new
  <2>3. DOMAIN new = DOMAIN old /\ \A j \in 1 .. Len(old) : new[j] = IF j = i THEN secret ELSE old[j]
    BY <1>1, <2>2
  <2>4. \A j \in DOMAIN old : new[j].path = old[j].path
    BY <1>1, <2>1, <2>3
  <2>5. \A path : HasPath(new, path) <=> HasPath(old, path)
    BY <2>3, <2>4 DEF HasPath
  <2> QED  BY <1>2, <2>5 DEF new
<1>3. CASE ~HasPath(old, secret.path)
  <2>1. new = Append(old, secret)
    BY <1>3 DEF Put
  <2> HIDE DEF new
  <2>2. /\ DOMAIN new = 1 .. Len(old) + 1
        /\ \A j \in 1 .. Len(old) : new[j] = old[j]
        /\ new[Len(old) + 1] = secret
    <3>1. new \in Seq(Secret(P)) /\ Len(new) = Len(old) + 1
      BY <2>1, AppendProperties
    <3> QED  BY <2>1, <3>1, AppendProperties, LenProperties
  <2>3. ASSUME NEW path, NEW j \in DOMAIN new, new[j].path = path
        PROVE  HasPath(old, path) \/ path = secret.path
    BY <1>1, <2>2, <2>3 DEF HasPath
  <2>4. ASSUME NEW path, HasPath(old, path)
        PROVE  HasPath(new, path)
    BY <1>1, <2>2, <2>4 DEF HasPath
  <2>5. HasPath(new, secret.path)
    <3>1. Len(old) + 1 \in DOMAIN new
      BY <1>1, <2>2
    <3> QED  BY <2>2, <3>1 DEF HasPath
  <2> QED  BY <2>3, <2>4, <2>5 DEF HasPath, new
<1> QED  BY <1>2, <1>3

\* A removed secret takes its path away, and no other (src/state.go:193-204).
LEMMA WithoutPaths ==
    ASSUME NEW P, NEW old \in Seq(Secret(P)), DistinctPaths(old), NEW gone
    PROVE  \A path : HasPath(Without(old, gone), path) <=> HasPath(old, path) /\ path # gone
<1> DEFINE new == Without(old, gone)
<1>1. Len(old) \in Nat /\ DOMAIN old = 1 .. Len(old)
  BY LenProperties
<1>2. CASE HasPath(old, gone)
  <2>1. PICK i \in 1 .. Len(old) : old[i].path = gone
    BY <1>1, <1>2 DEF HasPath
  <2>2. new = RemoveAt(old, i)
    <3>1. FirstAt(old, gone) = i
      BY <2>1, FirstAtIsTheOne
    <3> QED  BY <1>2, <3>1 DEF Without
  <2> HIDE DEF new
  <2>3. /\ DOMAIN new = 1 .. Len(old) - 1
        /\ \A j \in 1 .. Len(old) - 1 : new[j] = IF j < i THEN old[j] ELSE old[j + 1]
    <3>1. new \in Seq(Secret(P)) /\ Len(new) = Len(old) - 1
      BY <2>2, RemoveAtProperties
    <3> QED  BY <2>2, <3>1, RemoveAtProperties, LenProperties
  <2>4. \A j \in 1 .. Len(old) : j # i => old[j].path # gone
    BY <2>1 DEF DistinctPaths
  <2>5. ASSUME NEW j \in DOMAIN new
        PROVE  HasPath(old, new[j].path) /\ new[j].path # gone
    <3>1. CASE j < i
      <4>1. j \in 1 .. Len(old) /\ j # i /\ new[j] = old[j]
        BY <1>1, <2>3, <3>1
      <4> QED  BY <1>1, <2>4, <4>1 DEF HasPath
    <3>2. CASE ~(j < i)
      <4>1. j + 1 \in 1 .. Len(old) /\ j + 1 # i /\ new[j] = old[j + 1]
        BY <1>1, <2>3, <3>2
      <4> QED  BY <1>1, <2>4, <4>1 DEF HasPath
    <3> QED  BY <3>1, <3>2
  <2>6. ASSUME NEW j \in 1 .. Len(old), old[j].path # gone
        PROVE  HasPath(new, old[j].path)
    <3>1. CASE j < i
      <4>1. j \in DOMAIN new /\ new[j] = old[j]
        BY <1>1, <2>3, <3>1
      <4> QED  BY <4>1 DEF HasPath
    <3>2. CASE j > i
      <4>1. j - 1 \in DOMAIN new /\ new[j - 1] = old[j]
        BY <1>1, <2>3, <3>2
      <4> QED  BY <4>1 DEF HasPath
    <3> QED  BY <2>1, <2>6, <3>1, <3>2
  <2>7. \A path : HasPath(new, path) => HasPath(old, path) /\ path # gone
    BY <2>5 DEF HasPath
  <2>8. \A path : HasPath(old, path) /\ path # gone => HasPath(new, path)
    BY <1>1, <2>6 DEF HasPath
  <2> QED  BY <2>7, <2>8 DEF new
<1>3. CASE ~HasPath(old, gone)
  BY <1>3 DEF Without
<1> QED  BY <1>2, <1>3

-----------------------------------------------------------------------------
(* What each step does to the secrets of a local state and to the stores.  *)

\* Neither changes, and the invocation goes on.
Leaves(p) ==
    /\ Active(p) /\ Active(p)'
    /\ run'[p].state.secrets = run[p].state.secrets
    /\ vault' = vault /\ saved' = saved

\* One secret comes to one place.
Puts(p) ==
    /\ Active(p) /\ Active(p)'
    /\ \E c \in StoreConfigs : \E secret \in Secret(Paths) : \E key \in Nat \ {Nothing} :
        /\ run'[p].state.secrets = [run[p].state.secrets EXCEPT ![c] = Put(@, secret)]
        /\ vault' = [vault EXCEPT ![Location(c, secret.path)] = key]
    /\ saved' = saved

\* One secret leaves its place.
Clears(p) ==
    /\ Active(p) /\ Active(p)'
    /\ \E c \in StoreConfigs : \E path \in Paths :
        /\ run'[p].state.secrets = [run[p].state.secrets EXCEPT ![c] = Without(@, path)]
        /\ vault' = [vault EXCEPT ![Location(c, path)] = Nothing]
    /\ saved' = saved

\* The invocation starts from the state file, or leaves it its secrets.
Starts(p) ==
    /\ ~Active(p) /\ Active(p)'
    /\ run'[p].state.secrets = saved.secrets
    /\ vault' = vault /\ saved' = saved

Stops(p) ==
    /\ Active(p) /\ ~Active(p)'
    /\ saved'.secrets = run[p].state.secrets
    /\ vault' = vault

SecretStep(p) == Leaves(p) \/ Puts(p) \/ Clears(p) \/ Starts(p) \/ Stops(p)

\* Create and Destroy may fail; a failing Write or Delete may or may not reach the
\* store, and without a Save the state file falls behind.
StoresAnswer == FaultKinds \subseteq {"create", "destroy"}

\* The request loop writes nothing and records no secret.
LEMMA RequestLeaves ==
    ASSUME Inv, NEW p \in Runs,
           SkipRequest(p) \/ KeepCredentials(p) \/ CreateCredentials(p) \/ CreateFails(p)
    PROVE  Leaves(p)
<1> DEFINE r == run[p]
<1>1. r \in RunState /\ RunInv(r) /\ run \in [Runs -> RunState]
  BY DEF Inv, TypeOK
<1>2. HasItem(r) /\ r.pc = "requests"
  BY DEF SkipRequest, KeepCredentials, CreateCredentials, CreateFails, Satisfied, NeedsCredentials, HasItem
<1>3. \A s \in State : \A t, id, store : MarkInUse(s, t, id, store).secrets = s.secrets
  BY DEF MarkInUse, State
<1>4. \A s : \A res : s \in State => AddResource(s, res).secrets = s.secrets
  BY DEF AddResource, State
<1>5. r.state \in State /\ Looked(r).secrets = r.state.secrets
  BY <1>1, <1>3 DEF RunState, Looked
<1>6. Looked(r) \in State
  <2>1. [r EXCEPT !.state = Looked(r)] \in RunState
    BY <1>1, <1>2, LookedInv
  <2>2. [r EXCEPT !.state = Looked(r)].state = Looked(r)
    BY <1>1 DEF RunState
  <2> QED  BY <2>1, <2>2 DEF RunState
<1>7. CASE SkipRequest(p)
  <2>1. run' = [run EXCEPT ![p] = [r EXCEPT !.item = @ + 1]] /\ UNCHANGED <<vault, saved>>
    BY <1>7 DEF SkipRequest
  <2>2. run'[p].pc = "requests" /\ run'[p].state = r.state
    BY <1>1, <1>2, <2>1 DEF RunState
  <2> QED  BY <1>2, <2>1, <2>2 DEF Leaves, Active
<1>8. CASE KeepCredentials(p) \/ CreateFails(p)
  <2>1. /\ run' = [run EXCEPT ![p] = [r EXCEPT !.item = @ + 1, !.state = Looked(r)]]
        /\ UNCHANGED <<vault, saved>>
    BY <1>8 DEF KeepCredentials, CreateFails
  <2>2. run'[p].pc = "requests" /\ run'[p].state = Looked(r)
    BY <1>1, <1>2, <2>1 DEF RunState
  <2> QED  BY <1>2, <1>5, <2>1, <2>2 DEF Leaves, Active
<1>9. CASE CreateCredentials(p)
  <2> DEFINE res == newResource(Item(r).request, Item(r).store, NewKey(r).exp, Len(keys) + 1)
  <2>1. /\ run' = [run EXCEPT ![p] = [r EXCEPT !.pc = "write", !.state = AddResource(Looked(r), res)]]
        /\ UNCHANGED <<vault, saved>>
    BY <1>9 DEF CreateCredentials
  <2> HIDE DEF res
  <2>2. run'[p].pc = "write" /\ run'[p].state = AddResource(Looked(r), res)
    BY <1>1, <2>1 DEF RunState
  <2> QED  BY <1>2, <1>4, <1>5, <1>6, <2>1, <2>2 DEF Leaves, Active
<1> QED  BY <1>7, <1>8, <1>9

\* A written credential has a serial number: it was issued.
LEMMA WritePuts ==
    ASSUME KeyInv, NEW p \in Runs, WriteSecret(p)
    PROVE  Puts(p)
<1> DEFINE r == run[p]
           secret == newSecret(Item(r).request.name, PathToWrite(r), Created(r).exp)
           key == Created(r).key
<1>1. r \in RunState /\ RunInv(r) /\ run \in [Runs -> RunState] /\ r.pc = "write" /\ Known(r.state, keys)
  BY DEF KeyInv, Inv, TypeOK, WriteSecret, Active
<1>2. /\ NextCredential(r) \in RunState
      /\ NextCredential(r).state = r.state
      /\ NextCredential(r).pc # "idle"
  <2>1. NextCredential(r).pc # "idle"
    BY <1>1 DEF NextCredential, RunState
  <2> QED  BY <1>1, <2>1, NextCredentialInv
<1>3. /\ run' = [run EXCEPT ![p] = Recorded(r)] /\ saved' = saved
      /\ vault' = [vault EXCEPT ![Location(Store(r), PathToWrite(r))] = key]
  BY DEF WriteSecret, Written
<1>4. Store(r) \in StoreConfigs /\ secret \in Secret(Paths) /\ PathToWrite(r) \in Paths
  BY <1>1, WritingProperties
<1>5. secret.path = PathToWrite(r)
  BY DEF newSecret
<1>6. key \in Nat \ {Nothing}
  <2> DEFINE P  == Provider(Item(r).request.type)
             rs == r.state.resources[P]
  <2>1. P \in ProviderTypes /\ Len(rs) > 0
    BY <1>1, ItemProperties DEF RunInv, WriteInv
  <2>2. Len(rs) \in Nat
    BY <1>1, <2>1, LenProperties DEF RunState, State
  <2>3. Len(rs) \in 1 .. Len(rs)
    BY <2>1, <2>2
  <2>4. rs[Len(rs)].key \in 1 .. Len(keys)
    <3> HIDE DEF P
    <3> QED  BY <1>1, <2>1, <2>3 DEF Known
  <2>5. key = rs[Len(rs)].key
    BY DEF Created
  <2> HIDE DEF rs, P, key
  <2> QED  BY <2>4, <2>5 DEF Nothing
<1>7. Recorded(r) = [NextCredential(r) EXCEPT !.state = AddSecret(@, Store(r), secret)]
  BY DEF Recorded
<1> HIDE DEF secret, key
<1>8. AddSecret(r.state, Store(r), secret).secrets = [r.state.secrets EXCEPT ![Store(r)] = Put(@, secret)]
  BY <1>1 DEF AddSecret, RunState, State
<1>9. /\ run'[p].pc # "idle"
      /\ run'[p].state.secrets = [r.state.secrets EXCEPT ![Store(r)] = Put(@, secret)]
  BY <1>1, <1>2, <1>3, <1>7, <1>8 DEF RunState
<1> QED  BY <1>1, <1>3, <1>4, <1>5, <1>6, <1>9 DEF Puts, Active

\* The clean-up loops touch no secret, but for the deletion of an orphan.
LEMMA CleanUpSecrets ==
    ASSUME Inv, NEW p \in Runs,
           \/ FinishRequests(p) \/ FinishResources(p) \/ FinishOrphans(p)
           \/ \E t \in ProviderTypes : KeepResource(p, t) \/ DestroyResource(p, t) \/ DestroyFails(p, t)
           \/ \E c \in StoreConfigs : \E sec \in run[p].orphans[c] :
                KeepOrphan(p, c, sec) \/ DeleteOrphan(p, c, sec)
    PROVE  Leaves(p) \/ Clears(p)
<1> DEFINE r == run[p]
<1>1. r \in RunState /\ RunInv(r) /\ run \in [Runs -> RunState] /\ r.state \in State
  BY DEF Inv, TypeOK, RunState
<1>2. ASSUME NEW n, run' = [run EXCEPT ![p] = n], r.pc # "idle", n.pc # "idle",
             n.state.secrets = r.state.secrets, UNCHANGED <<vault, saved>>
      PROVE  Leaves(p)
  BY <1>1, <1>2 DEF Leaves, Active
<1>3. CASE FinishRequests(p)
  <2> DEFINE n == FinishedRequests(r)
  <2>1. run' = [run EXCEPT ![p] = n] /\ UNCHANGED <<vault, saved>> /\ r.pc = "requests"
    BY <1>3 DEF FinishRequests, FinishedRequests
  <2>2. n.pc = "resources" /\ n.state = r.state
    BY <1>1 DEF FinishedRequests, RunState
  <2> QED  BY <1>2, <2>1, <2>2
<1>4. CASE FinishResources(p)
  <2> DEFINE n == FinishedResources(r)
  <2>1. run' = [run EXCEPT ![p] = n] /\ UNCHANGED <<vault, saved>> /\ r.pc = "resources"
    BY <1>4 DEF FinishResources, FinishedResources
  <2>2. n.pc = "orphans" /\ n.state = r.state
    BY <1>1 DEF FinishedResources, RunState
  <2> QED  BY <1>2, <2>1, <2>2
<1>5. CASE FinishOrphans(p)
  <2>1. [r EXCEPT !.pc = "save"].pc = "save" /\ [r EXCEPT !.pc = "save"].state = r.state
    BY <1>1 DEF RunState
  <2> QED  BY <1>2, <1>5, <2>1 DEF FinishOrphans
<1>6. ASSUME NEW t \in ProviderTypes, KeepResource(p, t)
      PROVE  Leaves(p)
  <2>1. [r EXCEPT !.left[t] = @ - 1].pc = r.pc /\ [r EXCEPT !.left[t] = @ - 1].state = r.state
    BY <1>1 DEF RunState
  <2> QED  BY <1>2, <1>6, <2>1 DEF KeepResource, Visiting
<1>7. ASSUME NEW t \in ProviderTypes, DestroyResource(p, t) \/ DestroyFails(p, t)
      PROVE  Leaves(p)
  <2>1. run' = [run EXCEPT ![p] = Forget(r, t)] /\ UNCHANGED <<vault, saved>> /\ r.pc = "resources"
    BY <1>7 DEF DestroyResource, DestroyFails, Visiting
  <2>2. Forget(r, t).pc = r.pc /\ Forget(r, t).state = RemoveResource(r.state, Visited(r, t))
    BY <1>1 DEF Forget, RunState
  <2>3. RemoveResource(r.state, Visited(r, t)).secrets = r.state.secrets
    BY <1>1 DEF RemoveResource, State
  <2> QED  BY <1>2, <2>1, <2>2, <2>3
<1>8. ASSUME NEW c \in StoreConfigs, NEW sec \in r.orphans[c], KeepOrphan(p, c, sec)
      PROVE  Leaves(p)
  <2>1. [r EXCEPT !.orphans[c] = @ \ {sec}].pc = r.pc /\ [r EXCEPT !.orphans[c] = @ \ {sec}].state = r.state
    BY <1>1 DEF RunState
  <2> QED  BY <1>2, <1>8, <2>1 DEF KeepOrphan, HasOrphan
<1>9. ASSUME NEW c \in StoreConfigs, NEW sec \in r.orphans[c], DeleteOrphan(p, c, sec)
      PROVE  Clears(p)
  <2>1. /\ run' = [run EXCEPT ![p] = Dropped(r, c, sec)] /\ saved' = saved /\ r.pc = "orphans"
        /\ vault' = [vault EXCEPT ![Location(c, sec.path)] = Nothing]
    BY <1>9 DEF DeleteOrphan, HasOrphan
  <2>2. sec.path \in Paths
    BY <1>1 DEF RunState, Secret
  <2>3. Dropped(r, c, sec).pc = r.pc /\ Dropped(r, c, sec).state = RemoveSecret(r.state, c, sec)
    BY <1>1 DEF Dropped, RunState
  <2>4. RemoveSecret(r.state, c, sec).secrets = [r.state.secrets EXCEPT ![c] = Without(@, sec.path)]
    BY <1>1 DEF RemoveSecret, State
  <2>5. run'[p].pc # "idle" /\ run'[p].state.secrets = [r.state.secrets EXCEPT ![c] = Without(@, sec.path)]
    BY <1>1, <2>1, <2>3, <2>4
  <2> QED  BY <2>1, <2>2, <2>5 DEF Clears, Active
<1> QED  BY <1>3, <1>4, <1>5, <1>6, <1>7, <1>8, <1>9

\* An invocation starts with the secrets of the state file, and saves those it has.
LEMMA EndSecrets ==
    ASSUME Inv, NEW p \in Runs, StartRun(p) \/ Save(p)
    PROVE  Starts(p) \/ Stops(p)
<1> DEFINE r == run[p]
<1>1. r \in RunState /\ RunInv(r) /\ run \in [Runs -> RunState] /\ Idle.pc = "idle"
  BY DEF Inv, TypeOK, Idle
<1>2. CASE StartRun(p)
  <2>1. /\ run' = [run EXCEPT ![p] = Started(config, deployment, saved)]
        /\ r.pc = "idle" /\ UNCHANGED <<vault, saved>>
    BY <1>2 DEF StartRun, Started
  <2>2. /\ Started(config, deployment, saved).pc = "requests"
        /\ Started(config, deployment, saved).state = saved
    BY IdleInv DEF Started, Idle
  <2> QED  BY <1>1, <2>1, <2>2 DEF Starts, Active
<1>3. CASE Save(p)
  <2>1. run' = [run EXCEPT ![p] = Idle] /\ r.pc # "idle" /\ vault' = vault /\ saved' = Persisted(r.state)
    BY <1>3 DEF Save
  <2>2. Persisted(r.state).secrets = r.state.secrets
    BY <1>1 DEF Persisted, RunState, State
  <2> QED  BY <1>1, <2>1, <2>2 DEF Stops, Active
<1> QED  BY <1>2, <1>3

\* Where the stores and the backend answer, every step is of one of these kinds.
LEMMA SecretSteps ==
    ASSUME KeyInv, StoresAnswer, [Next]_vars
    PROVE  (\E p \in Runs : SecretStep(p)) \/ UNCHANGED <<vault, saved, run>>
<1>1. Inv
  BY DEF KeyInv
<1>2. ASSUME NEW kind \in {"write", "delete", "save", "torn", "crash"} PROVE ~Fault(kind)
  BY DEF StoresAnswer, Fault
<1>3. ASSUME NEW p \in Runs, Proceed(p) PROVE SecretStep(p)
  BY <1>1, <1>3, RequestLeaves, WritePuts, CleanUpSecrets, EndSecrets DEF Proceed, SecretStep
<1>4. ASSUME NEW p \in Runs, Fail(p) PROVE SecretStep(p)
  <2>1. CreateFails(p) \/ \E t \in ProviderTypes : DestroyFails(p, t)
    BY <1>2, <1>4 DEF Fail, WriteFails, DeleteFails, SaveFails, SaveTorn, Crash
  <2> QED  BY <1>1, <2>1, RequestLeaves, CleanUpSecrets DEF SecretStep
<1>5. ASSUME NEW p \in Runs, StartRun(p) PROVE SecretStep(p)
  BY <1>1, <1>5, EndSecrets DEF SecretStep
<1>6. (\E p \in Runs : RejectConfig(p)) \/ Tick \/ EditConfig \/ Redeploy \/ UNCHANGED vars
      => UNCHANGED <<vault, saved, run>>
  BY DEF RejectConfig, Tick, EditConfig, Redeploy, vars
<1> QED  BY <1>3, <1>4, <1>5, <1>6 DEF Next

-----------------------------------------------------------------------------
(* The stores and the state that is current.                               *)

\* The places that are not empty are those of the secrets of state s.
Mirrors(secrets, v) ==
    \A c \in StoreConfigs : \A path \in Paths :
        v[Location(c, path)] # Nothing <=> HasPath(secrets[c], path)

\* They are those of the state file between the runs, and of the local state during one.
SecretInv ==
    /\ KeyInv
    /\ Quiet => Mirrors(saved.secrets, vault)
    /\ \A p \in Runs : Active(p) => Mirrors(run[p].state.secrets, vault)

\* Different paths or stores are different places.
LEMMA DistinctPlaces ==
    ASSUME DistinctStores, NEW c \in StoreConfigs, NEW d \in StoreConfigs, NEW x, NEW y,
           Location(c, x) = Location(d, y)
    PROVE  c = d /\ x = y
<1>1. c.type = d.type /\ c.cfg = d.cfg /\ x = y
  BY DEF Location
<1> QED  BY <1>1 DEF DistinctStores

\* A secret that is written and recorded keeps state and stores the same.
LEMMA PutMirrors ==
    ASSUME DistinctStores, NEW old \in [StoreConfigs -> Seq(Secret(Paths))],
           NEW v \in [Locations -> Nat], NEW c \in StoreConfigs, NEW secret \in Secret(Paths),
           NEW key \in Nat \ {Nothing}, DistinctPaths(old[c]), Mirrors(old, v)
    PROVE  Mirrors([old EXCEPT ![c] = Put(@, secret)], [v EXCEPT ![Location(c, secret.path)] = key])
<1> DEFINE new == [old EXCEPT ![c] = Put(@, secret)]
           w   == [v EXCEPT ![Location(c, secret.path)] = key]
<1>1. secret.path \in Paths
  BY DEF Secret
<1>2. \A d \in StoreConfigs : \A path \in Paths : Location(d, path) \in Locations
  BY DEF Locations
<1>3. \A path : HasPath(Put(old[c], secret), path) <=> HasPath(old[c], path) \/ path = secret.path
  BY PutPaths
<1> SUFFICES ASSUME NEW d \in StoreConfigs, NEW path \in Paths
             PROVE  w[Location(d, path)] # Nothing <=> HasPath(new[d], path)
  BY DEF Mirrors
<1>4. CASE d = c /\ path = secret.path
  BY <1>1, <1>2, <1>3, <1>4
<1>5. CASE ~(d = c /\ path = secret.path)
  <2>1. Location(d, path) # Location(c, secret.path)
    BY <1>5, DistinctPlaces
  <2>2. w[Location(d, path)] = v[Location(d, path)]
    BY <1>1, <1>2, <2>1
  <2>3. HasPath(new[d], path) <=> HasPath(old[d], path)
    BY <1>3, <1>5
  <2> QED  BY <2>2, <2>3 DEF Mirrors
<1> QED  BY <1>4, <1>5

\* So does a secret that is deleted and forgotten.
LEMMA WithoutMirrors ==
    ASSUME DistinctStores, NEW old \in [StoreConfigs -> Seq(Secret(Paths))],
           NEW v \in [Locations -> Nat], NEW c \in StoreConfigs, NEW gone \in Paths,
           DistinctPaths(old[c]), Mirrors(old, v)
    PROVE  Mirrors([old EXCEPT ![c] = Without(@, gone)], [v EXCEPT ![Location(c, gone)] = Nothing])
<1> DEFINE new == [old EXCEPT ![c] = Without(@, gone)]
           w   == [v EXCEPT ![Location(c, gone)] = Nothing]
<1>2. \A d \in StoreConfigs : \A path \in Paths : Location(d, path) \in Locations
  BY DEF Locations
<1>3. \A path : HasPath(Without(old[c], gone), path) <=> HasPath(old[c], path) /\ path # gone
  BY WithoutPaths
<1> SUFFICES ASSUME NEW d \in StoreConfigs, NEW path \in Paths
             PROVE  w[Location(d, path)] # Nothing <=> HasPath(new[d], path)
  BY DEF Mirrors
<1>4. CASE d = c /\ path = gone
  BY <1>2, <1>3, <1>4
<1>5. CASE ~(d = c /\ path = gone)
  <2>1. Location(d, path) # Location(c, gone)
    BY <1>5, DistinctPlaces
  <2>2. w[Location(d, path)] = v[Location(d, path)]
    BY <1>2, <2>1
  <2>3. HasPath(new[d], path) <=> HasPath(old[d], path)
    BY <1>3, <1>5
  <2> QED  BY <2>2, <2>3 DEF Mirrors
<1> QED  BY <1>4, <1>5

\* SecretInv is kept by every kind of step of an invocation.
LEMMA SecretInvStep ==
    ASSUME SecretInv, DistinctStores, OneAtATime, NEW p \in Runs, SecretStep(p), KeyInv'
    PROVE  SecretInv'
<1> DEFINE s == run[p].state.secrets
           n == run'[p].state.secrets
<1>1. /\ vault \in [Locations -> Nat] /\ s \in [StoreConfigs -> Seq(Secret(Paths))]
      /\ Active(p) => Mirrors(s, vault) /\ \A c \in StoreConfigs : DistinctPaths(s[c])
  BY DEF SecretInv, KeyInv, Inv, TypeOK, RunState, State, RunInv, Active
<1>2. \A q \in Runs : q = p
  BY DEF OneAtATime
<1>3. /\ ~Active(p) => Mirrors(saved.secrets, vault)
      /\ Active(p)' => ~Quiet'
  BY <1>2 DEF SecretInv, Quiet, Active
<1>4. CASE Leaves(p)
  BY <1>1, <1>2, <1>3, <1>4 DEF Leaves, SecretInv
<1>5. CASE Puts(p)
  <2>1. Active(p) /\ Active(p)'
    BY <1>5 DEF Puts
  <2>2. PICK c \in StoreConfigs, secret \in Secret(Paths), key \in Nat \ {Nothing} :
            /\ n = [s EXCEPT ![c] = Put(@, secret)]
            /\ vault' = [vault EXCEPT ![Location(c, secret.path)] = key]
    BY <1>5 DEF Puts
  <2>3. Mirrors(n, vault')
    <3> HIDE DEF s, n
    <3> QED  BY <1>1, <2>1, <2>2, PutMirrors
  <2> QED  BY <1>2, <1>3, <2>1, <2>3 DEF SecretInv
<1>6. CASE Clears(p)
  <2>1. Active(p) /\ Active(p)'
    BY <1>6 DEF Clears
  <2>2. PICK c \in StoreConfigs, path \in Paths :
            /\ n = [s EXCEPT ![c] = Without(@, path)]
            /\ vault' = [vault EXCEPT ![Location(c, path)] = Nothing]
    BY <1>6 DEF Clears
  <2>3. Mirrors(n, vault')
    <3> HIDE DEF s, n
    <3> QED  BY <1>1, <2>1, <2>2, WithoutMirrors
  <2> QED  BY <1>2, <1>3, <2>1, <2>3 DEF SecretInv
<1>7. CASE Starts(p)
  BY <1>2, <1>3, <1>7 DEF Starts, SecretInv
<1>8. CASE Stops(p)
  BY <1>1, <1>2, <1>8 DEF Stops, SecretInv
<1> QED  BY <1>4, <1>5, <1>6, <1>7, <1>8 DEF SecretStep

\* The stores start empty.
LEMMA SecretInvInit == Init => SecretInv
<1> SUFFICES ASSUME Init PROVE SecretInv
  OBVIOUS
<1>1. /\ KeyInv /\ saved = NewState /\ vault = [l \in Locations |-> Nothing]
      /\ \A p \in Runs : ~Active(p)
  BY KeyInvInit DEF Init, Active, Idle
<1>2. \A c \in StoreConfigs : \A path \in Paths : vault[Location(c, path)] = Nothing
  BY <1>1 DEF Locations
<1>3. \A c \in StoreConfigs : \A path : ~HasPath(NewState.secrets[c], path)
  BY EmptySeq DEF NewState, HasPath
<1> QED  BY <1>1, <1>2, <1>3 DEF SecretInv, Mirrors

\* Every step keeps them as recorded.
LEMMA SecretInvNext ==
    ASSUME OneAtATime, DistinctStores, StoresAnswer, SecretInv, [Next]_vars
    PROVE  SecretInv'
<1>1. KeyInv /\ KeyInv'
  BY KeyInvNext DEF SecretInv
<1>2. CASE \E p \in Runs : SecretStep(p)
  BY <1>1, <1>2, SecretInvStep
<1>3. CASE UNCHANGED <<vault, saved, run>>
  BY <1>1, <1>3 DEF SecretInv, Active, Quiet
<1> QED  BY <1>1, <1>2, <1>3, SecretSteps

\* One invocation at a time, stores that have no places in common, and no failure
\* but of a Create or a Destroy: between two invocations the state file says which
\* places of the stores hold a secret, whichever configs and deployments came
\* one after the other.
THEOREM SecretsAreInTheStateFile ==
    ASSUME OneAtATime, DistinctStores, StoresAnswer
    PROVE  Spec => []SecretsAreTracked
<1>1. SecretInv /\ [Next]_vars => SecretInv'
  BY SecretInvNext
<1>2. SecretInv => SecretsAreTracked
  <2> SUFFICES ASSUME SecretInv, Quiet, NEW l \in Locations
               PROVE  vault[l] # Nothing
                        <=> \E c \in StoreConfigs : \E sec \in SecretsOf(saved, c) : l = Location(c, sec.path)
    BY DEF SecretsAreTracked
  <2>1. \A c \in StoreConfigs : saved.secrets[c] \in Seq(Secret(Paths))
    BY DEF SecretInv, KeyInv, Inv, TypeOK, State
  <2>2. \A c \in StoreConfigs : \A path :
            HasPath(saved.secrets[c], path) <=> \E sec \in SecretsOf(saved, c) : sec.path = path
    BY DEF HasPath, SecretsOf, ToSet
  <2>3. \A c \in StoreConfigs : \A sec \in SecretsOf(saved, c) : sec.path \in Paths
    <3> SUFFICES ASSUME NEW c \in StoreConfigs, NEW i \in DOMAIN saved.secrets[c]
                 PROVE  saved.secrets[c][i].path \in Paths
      BY DEF SecretsOf, ToSet
    <3>1. saved.secrets[c][i] \in Secret(Paths)
      BY <2>1, ElementOfSeq, LenProperties
    <3> QED  BY <3>1 DEF Secret
  <2>4. PICK c \in StoreConfigs : \E path \in Paths : l = Location(c, path)
    BY DEF Locations
  <2>5. PICK path \in Paths : l = Location(c, path)
    BY <2>4
  <2>6. vault[l] # Nothing <=> HasPath(saved.secrets[c], path)
    BY <2>5 DEF SecretInv, Mirrors
  <2>7. ASSUME NEW d \in StoreConfigs, NEW sec \in SecretsOf(saved, d), l = Location(d, sec.path)
        PROVE  HasPath(saved.secrets[c], path)
    <3>1. Location(c, path) = Location(d, sec.path)
      BY <2>5, <2>7
    <3> DEFINE x == sec.path
    <3>2. Location(c, path) = Location(d, x)
      BY <3>1
    <3> HIDE DEF x
    <3>3. c = d /\ path = x
      BY <3>2, DistinctPlaces
    <3> QED  BY <2>2, <2>7, <3>3 DEF x
  <2> QED  BY <2>2, <2>5, <2>6, <2>7
<1> QED  BY <1>1, <1>2, SecretInvInit, PTL DEF Spec
=============================================================================
