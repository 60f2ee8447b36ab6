------------------------------ MODULE ServiceProofs ------------------------------
(***************************************************************************)
(* Proofs about what the requests of a config file get: their secrets are  *)
(* in the stores, rotation and clean-up leave no outage, and no secret     *)
(* outlives its name.                                                      *)
(***************************************************************************)
EXTENDS NeedProofs, SecretProofs

-----------------------------------------------------------------------------
(* What the request loop does to the resources of a local state.           *)

\* All but the mark of a resource.
Alike(a, b) == SameResource(a, b) /\ a.cfg = b.cfg /\ a.key = b.key /\ a.deposed = b.deposed

\* State n is s with resources marked that w asks for.
MarkedOnly(s, n, w) ==
    /\ n.secrets = s.secrets
    /\ \A t \in ProviderTypes :
        /\ Len(n.resources[t]) = Len(s.resources[t])
        /\ \A i \in 1 .. Len(s.resources[t]) :
            IF Requested(s.resources[t][i], w)
            THEN Alike(n.resources[t][i], s.resources[t][i])
            ELSE n.resources[t][i] = s.resources[t][i]

\* State n is s with res at the end, in place of those that w asked for so far.
Replaced(s, n, w, res) ==
    /\ n.secrets = s.secrets
    /\ \A t \in ProviderTypes :
        /\ Len(n.resources[t]) = IF t = Provider(w.request.type) THEN Len(s.resources[t]) + 1
                                                               ELSE Len(s.resources[t])
        /\ \A i \in 1 .. Len(s.resources[t]) :
            IF Requested(s.resources[t][i], w)
            THEN Requested(n.resources[t][i], w) /\ n.resources[t][i].deposed
            ELSE n.resources[t][i] = s.resources[t][i]
        /\ t = Provider(w.request.type) => n.resources[t][Len(s.resources[t]) + 1] = res

\* A look-up changes only marks, and those of the resources it finds
\* (src/state.go:97-109).
LEMMA LookedOnly ==
    ASSUME NEW r \in RunState, RunInv(r), HasItem(r)
    PROVE  MarkedOnly(r.state, Looked(r), Item(r)) /\ Looked(r) \in State
<1> DEFINE w  == Item(r)
           P  == Provider(w.request.type)
           rs == r.state.resources[P]
           us == Use(rs, w.request.type, w.request.name, w.store)
           n  == Looked(r)
<1>1. P \in ProviderTypes
  BY ItemProperties DEF HasItem, RunInv
<1>2. /\ r.state \in State /\ r.state.resources \in [ProviderTypes -> Seq(Resource)] /\ rs \in Seq(Resource)
      /\ DOMAIN rs = 1 .. Len(rs)
      /\ \A t \in ProviderTypes : Sorted(r.state.resources[t], t)
  BY <1>1, LenProperties DEF RunState, State, RunInv, ListInv, HasItem
<1>3. Len(us) = Len(rs)
  <2> HIDE DEF rs, w
  <2> QED  BY <1>2, UseProperties
<1>4. ASSUME NEW i \in 1 .. Len(rs)
      PROVE  IF Requested(rs[i], w) THEN Alike(us[i], rs[i]) ELSE us[i] = rs[i]
  <2>1. rs[i] \in Resource
    <3> HIDE DEF rs
    <3> QED  BY <1>2, ElementOfSeq
  <2>2. us[i] = IF Requested(rs[i], w) THEN [rs[i] EXCEPT !.inUse = TRUE] ELSE rs[i]
    <3> HIDE DEF rs, w
    <3> QED  BY <1>2 DEF Use, Requested
  <2> HIDE DEF us, rs, w
  <2> QED  BY <2>1, <2>2 DEF Alike, SameResource, Resource
<1>5. n = [r.state EXCEPT !.resources[P] = us]
  BY DEF Looked, MarkInUse
<1> HIDE DEF us
<1>6. /\ n.secrets = r.state.secrets
      /\ n.resources[P] = us /\ \A t \in ProviderTypes : t # P => n.resources[t] = r.state.resources[t]
  <2> HIDE DEF P, n
  <2>1. n.resources = [r.state.resources EXCEPT ![P] = us] /\ n.secrets = r.state.secrets
    BY <1>2, <1>5 DEF State
  <2> QED  BY <1>1, <1>2, <2>1
<1>7. Looked(r) \in State
  <2>1. [r EXCEPT !.state = Looked(r)] \in RunState
    BY LookedInv
  <2>2. [r EXCEPT !.state = Looked(r)].state = Looked(r)
    BY DEF RunState
  <2> QED  BY <2>1, <2>2 DEF RunState
<1>8. ASSUME NEW t \in ProviderTypes
      PROVE  /\ Len(n.resources[t]) = Len(r.state.resources[t])
             /\ \A i \in 1 .. Len(r.state.resources[t]) :
                  IF Requested(r.state.resources[t][i], w)
                  THEN Alike(n.resources[t][i], r.state.resources[t][i])
                  ELSE n.resources[t][i] = r.state.resources[t][i]
  <2> HIDE DEF n, w
  <2>1. CASE t = P
    BY <1>3, <1>4, <1>6, <2>1
  <2>2. CASE t # P
    BY <1>6, <2>2 DEF Alike, SameResource
  <2> QED  BY <2>1, <2>2
<1> QED  BY <1>6, <1>7, <1>8 DEF MarkedOnly

\* A resource that is only marked keeps its type.
LEMMA SortedLooked ==
    ASSUME NEW s, NEW m \in State, NEW w, MarkedOnly(s, m, w), \A t \in ProviderTypes : Sorted(s.resources[t], t)
    PROVE  \A t \in ProviderTypes : Sorted(m.resources[t], t)
<1>1. ASSUME NEW t \in ProviderTypes, NEW i \in 1 .. Len(m.resources[t])
      PROVE  Provider(m.resources[t][i].type) = t
  <2>1. i \in 1 .. Len(s.resources[t])
    BY DEF MarkedOnly
  <2>2. m.resources[t][i].type = s.resources[t][i].type
    BY <2>1 DEF MarkedOnly, Alike, SameResource
  <2> QED  BY <2>1, <2>2 DEF Sorted
<1> QED  BY <1>1 DEF Sorted

\* A new credential replaces those the request had (src/state.go:74-84).
LEMMA ReplacedBy ==
    ASSUME NEW s \in State, \A t \in ProviderTypes : Sorted(s.resources[t], t),
           NEW res \in Resource, NEW w, Requested(res, w)
    PROVE  Replaced(s, AddResource(s, res), w, res)
<1> DEFINE P  == Provider(res.type)
           rs == s.resources[P]
           ns == Append(Depose(rs, res), res)
           n  == AddResource(s, res)
<1>1. P \in ProviderTypes /\ P = Provider(w.request.type)
  BY ProviderType DEF Resource, Requested
<1>2. s.resources \in [ProviderTypes -> Seq(Resource)] /\ rs \in Seq(Resource)
  BY <1>1 DEF State
<1>3. /\ Len(rs) \in Nat /\ Len(ns) = Len(rs) + 1 /\ ns[Len(rs) + 1] = res
      /\ DOMAIN rs = 1 .. Len(rs)
  BY <1>2, LenProperties, AddProperties
<1>4. ASSUME NEW i \in 1 .. Len(rs)
      PROVE  IF Requested(rs[i], w)
             THEN Requested(ns[i], w) /\ ns[i].deposed
             ELSE ns[i] = rs[i]
  <2>1. rs[i] \in Resource
    BY <1>2, ElementOfSeq
  <2>2. ns[i] = Depose(rs, res)[i]
    <3>1. Depose(rs, res) \in Seq(Resource) /\ Len(Depose(rs, res)) = Len(rs)
      BY <1>2, DeposeProperties
    <3> QED  BY <3>1, AppendProperties
  <2>3. Depose(rs, res)[i] = IF SameResource(rs[i], res)
                             THEN [rs[i] EXCEPT !.deposed = TRUE] ELSE rs[i]
    <3> HIDE DEF rs
    <3> QED  BY <1>2, DeposeProperties
  <2>4. SameResource(rs[i], res) <=> Requested(rs[i], w)
    BY DEF SameResource, Requested
  <2> HIDE DEF rs, ns
  <2>5. Requested(rs[i], w) => Requested(ns[i], w) /\ ns[i].deposed
    BY <2>1, <2>2, <2>3, <2>4 DEF Requested, Resource
  <2> QED  BY <2>2, <2>3, <2>4, <2>5
<1>5. n = [s EXCEPT !.resources[P] = ns]
  BY DEF AddResource
<1> HIDE DEF ns, n
<1>6. /\ n.secrets = s.secrets
      /\ n.resources[P] = ns /\ \A t \in ProviderTypes : t # P => n.resources[t] = s.resources[t]
  <2> HIDE DEF P
  <2>1. n.resources = [s.resources EXCEPT ![P] = ns] /\ n.secrets = s.secrets
    BY <1>2, <1>5 DEF State
  <2> QED  BY <1>1, <1>2, <2>1
<1>7. ASSUME NEW t \in ProviderTypes, t # P, NEW i \in 1 .. Len(s.resources[t])
      PROVE  ~Requested(s.resources[t][i], w)
  BY <1>1, <1>7 DEF Sorted, Requested
<1>8. ASSUME NEW t \in ProviderTypes
      PROVE  /\ Len(n.resources[t]) = IF t = P THEN Len(s.resources[t]) + 1 ELSE Len(s.resources[t])
             /\ \A i \in 1 .. Len(s.resources[t]) :
                 IF Requested(s.resources[t][i], w)
                 THEN Requested(n.resources[t][i], w) /\ n.resources[t][i].deposed
                 ELSE n.resources[t][i] = s.resources[t][i]
             /\ t = P => n.resources[t][Len(s.resources[t]) + 1] = res
  <2>1. CASE t = P
    BY <1>3, <1>4, <1>6, <2>1
  <2>2. CASE t # P
    BY <1>6, <1>7, <2>2
  <2> QED  BY <2>1, <2>2
<1> HIDE DEF P
<1>9. Replaced(s, n, w, res)
  BY <1>1, <1>6, <1>8 DEF Replaced
<1> QED  BY <1>9 DEF n

\* The look-up before it changes nothing about that.
LEMMA LookedThenReplaced ==
    ASSUME NEW s, NEW m, NEW n, NEW w, NEW res, MarkedOnly(s, m, w), Replaced(m, n, w, res)
    PROVE  Replaced(s, n, w, res)
<1>1. ASSUME NEW t \in ProviderTypes, NEW i \in 1 .. Len(s.resources[t])
      PROVE  IF Requested(s.resources[t][i], w)
             THEN Requested(n.resources[t][i], w) /\ n.resources[t][i].deposed
             ELSE n.resources[t][i] = s.resources[t][i]
  <2>1. i \in 1 .. Len(m.resources[t])
    BY DEF MarkedOnly
  <2>2. Requested(m.resources[t][i], w) <=> Requested(s.resources[t][i], w)
    BY DEF MarkedOnly, Alike, SameResource, Requested
  <2>3. ~Requested(s.resources[t][i], w) => m.resources[t][i] = s.resources[t][i]
    BY DEF MarkedOnly
  <2>4. IF Requested(m.resources[t][i], w)
        THEN Requested(n.resources[t][i], w) /\ n.resources[t][i].deposed
        ELSE n.resources[t][i] = m.resources[t][i]
    BY <2>1 DEF Replaced
  <2> QED  BY <2>2, <2>3, <2>4
<1>2. n.secrets = s.secrets
  BY DEF MarkedOnly, Replaced
<1>3. ASSUME NEW t \in ProviderTypes
      PROVE  /\ Len(n.resources[t]) = IF t = Provider(w.request.type) THEN Len(s.resources[t]) + 1
                                                                    ELSE Len(s.resources[t])
             /\ t = Provider(w.request.type) => n.resources[t][Len(s.resources[t]) + 1] = res
  BY DEF MarkedOnly, Replaced
<1> QED  BY <1>1, <1>2, <1>3 DEF Replaced

-----------------------------------------------------------------------------
(* What writes and deletions do to the secrets of a store.                 *)

\* A written secret is new; the others are those with another path
\* (src/state.go:154-167).
LEMMA PutSecrets ==
    ASSUME NEW P, NEW old \in Seq(Secret(P)), DistinctPaths(old), NEW secret \in Secret(P),
           NEW i \in 1 .. Len(Put(old, secret))
    PROVE  \/ Put(old, secret)[i] = secret
           \/ \E j \in 1 .. Len(old) : Put(old, secret)[i] = old[j] /\ old[j].path # secret.path
<1> DEFINE new == Put(old, secret)
<1>1. Len(old) \in Nat /\ DOMAIN old = 1 .. Len(old)
  BY LenProperties
<1>2. CASE HasPath(old, secret.path)
  <2>1. PICK k \in 1 .. Len(old) : old[k].path = secret.path
    BY <1>1, <1>2 DEF HasPath
  <2>2. new = [old EXCEPT ![k] = secret]
    <3>1. FirstAt(old, secret.path) = k
      BY <2>1, FirstAtIsTheOne
    <3> QED  BY <1>2, <3>1 DEF Put
  <2>3. new \in Seq(Secret(P)) /\ Len(new) = Len(old)
    BY <2>2, ExceptSeq
  <2>4. i \in 1 .. Len(old)
    BY <2>3
  <2> HIDE DEF new
  <2>5. new[i] = IF i = k THEN secret ELSE old[i]
    BY <1>1, <2>2, <2>4
  <2>6. i # k => old[i].path # secret.path
    BY <2>1, <2>4 DEF DistinctPaths
  <2> QED  BY <2>4, <2>5, <2>6 DEF new
<1>3. CASE ~HasPath(old, secret.path)
  <2>1. new = Append(old, secret)
    BY <1>3 DEF Put
  <2>2. /\ Len(new) = Len(old) + 1
        /\ \A j \in 1 .. Len(old) : new[j] = old[j]
        /\ new[Len(old) + 1] = secret
    BY <2>1, AppendProperties
  <2>3. i \in 1 .. Len(old) \/ i = Len(old) + 1
    BY <1>1, <2>2
  <2>4. \A j \in 1 .. Len(old) : old[j].path # secret.path
    BY <1>1, <1>3 DEF HasPath
  <2> HIDE DEF new
  <2> QED  BY <2>2, <2>3, <2>4 DEF new
<1> QED  BY <1>2, <1>3

\* A deletion leaves the secrets with other paths (src/state.go:193-204).
LEMMA WithoutSecrets ==
    ASSUME NEW P, NEW old \in Seq(Secret(P)), DistinctPaths(old), NEW gone
    PROVE  \A i \in 1 .. Len(Without(old, gone)) :
                \E j \in 1 .. Len(old) : Without(old, gone)[i] = old[j] /\ old[j].path # gone
<1> TAKE i \in 1 .. Len(Without(old, gone))
<1> DEFINE new == Without(old, gone)
<1>1. Len(old) \in Nat /\ DOMAIN old = 1 .. Len(old)
  BY LenProperties
<1>2. CASE HasPath(old, gone)
  <2>1. PICK k \in 1 .. Len(old) : old[k].path = gone
    BY <1>1, <1>2 DEF HasPath
  <2>2. new = RemoveAt(old, k)
    <3>1. FirstAt(old, gone) = k
      BY <2>1, FirstAtIsTheOne
    <3> QED  BY <1>2, <3>1 DEF Without
  <2>3. /\ Len(new) = Len(old) - 1
        /\ \A j \in 1 .. Len(old) - 1 : new[j] = IF j < k THEN old[j] ELSE old[j + 1]
    BY <2>2, RemoveAtProperties
  <2>4. \A j \in 1 .. Len(old) : j # k => old[j].path # gone
    BY <2>1 DEF DistinctPaths
  <2>5. i \in 1 .. Len(old) - 1
    BY <2>3
  <2> HIDE DEF new
  <2>6. CASE i < k
    BY <1>1, <2>3, <2>4, <2>5, <2>6 DEF new
  <2>7. CASE ~(i < k)
    <3>1. i + 1 \in 1 .. Len(old) /\ i + 1 # k /\ new[i] = old[i + 1]
      BY <1>1, <2>3, <2>5, <2>7
    <3> QED  BY <2>4, <3>1 DEF new
  <2> QED  BY <2>6, <2>7
<1>3. CASE ~HasPath(old, gone)
  BY <1>1, <1>3 DEF Without, HasPath
<1> QED  BY <1>2, <1>3

-----------------------------------------------------------------------------
(* What a step does to the local state of its invocation and to the        *)
(* stores: r and v before it, n and w after it.                            *)

\* Some resource is current for work item w.
Current(s, w) ==
    \E t \in ProviderTypes : \E i \in 1 .. Len(s.resources[t]) :
        /\ Requested(s.resources[t][i], w)
        /\ s.resources[t][i].cfg = w.request.cfg
        /\ ~s.resources[t][i].deposed

\* The place of the j-th credential of the request being served.
PlaceToWrite(r, j) == Location(Store(r), Path(r.config.namespace, CredentialNames(Item(r).request)[j]))

\* What AddSecret is given for it.
SecretToWrite(r) == newSecret(Item(r).request.name, PathToWrite(r), Created(r).exp)

\* The stores after the write.
Stored(r, v) == [v EXCEPT ![PlaceToWrite(r, r.cred)] = Created(r).key]

\* A step between two phases of one run, whose config and deployment stay.
Goes(r, n, from, to) ==
    r.pc = from /\ n.pc = to /\ n.config = r.config /\ n.deployment = r.deployment

\* SkipRequest.
PassesOver(r, n) ==
    /\ Goes(r, n, "requests", "requests") /\ HasItem(r) /\ ~Serviceable(r)
    /\ n.item = r.item + 1 /\ n.state = r.state

\* KeepCredentials, CreateFails.
LooksUp(r, n) ==
    /\ Goes(r, n, "requests", "requests") /\ HasItem(r) /\ Serviceable(r)
    /\ n.item = r.item + 1 /\ MarkedOnly(r.state, n.state, Item(r))
    /\ Current(r.state, Item(r)) \/ "create" \in FaultKinds

\* CreateCredentials.
Replaces(r, n) ==
    /\ Goes(r, n, "requests", "write") /\ HasItem(r) /\ Serviceable(r)
    /\ n.item = r.item /\ n.cred = 1
    /\ \E res \in Resource :
        /\ Requested(res, Item(r)) /\ res.cfg = Item(r).request.cfg /\ ~res.deposed
        /\ Replaced(r.state, n.state, Item(r), res)

\* WriteSecret, WriteFails.
WritesOne(r, n, v, w) ==
    /\ \/ /\ Goes(r, n, "write", "write") /\ n.item = r.item /\ n.cred = r.cred + 1
       \/ /\ Goes(r, n, "write", "requests") /\ n.item = r.item + 1
          /\ r.cred = Len(CredentialNames(Item(r).request))
    /\ n.state.resources = r.state.resources
    /\ \/ /\ w = Stored(r, v)
          /\ n.state.secrets = [r.state.secrets EXCEPT ![Store(r)] = Put(@, SecretToWrite(r))]
       \/ /\ "write" \in FaultKinds /\ w \in {v, Stored(r, v)}
          /\ n.state.secrets = r.state.secrets

\* FinishRequests.
StartsCleanUp(r, n) ==
    /\ Goes(r, n, "requests", "resources") /\ r.item > Len(Work[r.config])
    /\ n.item = r.item /\ n.state = r.state
    /\ \A t \in ProviderTypes : n.left[t] = Len(r.state.resources[t])

\* KeepResource.
Keeps(r, n, t) ==
    /\ Goes(r, n, "resources", "resources") /\ n.item = r.item /\ n.state = r.state
    /\ r.left[t] \in 1 .. Len(r.state.resources[t]) /\ Kept(r, t)
    /\ \A u \in ProviderTypes : n.left[u] = IF u = t THEN r.left[t] - 1 ELSE r.left[u]

\* DestroyResource, DestroyFails.
Forgets(r, n, t) ==
    /\ Goes(r, n, "resources", "resources") /\ n.item = r.item
    /\ r.left[t] \in 1 .. Len(r.state.resources[t]) /\ ~Kept(r, t)
    /\ WithoutOne(r.state, n.state, t, r.left[t]) /\ n.state.secrets = r.state.secrets
    /\ \A u \in ProviderTypes : n.left[u] = IF u = t THEN r.left[t] - 1 ELSE r.left[u]

\* FinishResources.
ListsOrphans(r, n) ==
    /\ Goes(r, n, "resources", "orphans") /\ n.item = r.item /\ n.state = r.state
    /\ \A t \in ProviderTypes : r.left[t] = 0
    /\ \A c \in StoreConfigs : n.orphans[c] = ListOrphanedSecrets(r.state, c)

\* The part that KeepOrphan and DeleteOrphan have in common.
Unlists(r, n, c, sec) ==
    /\ Goes(r, n, "orphans", "orphans") /\ n.item = r.item /\ sec \in r.orphans[c]
    /\ \A d \in StoreConfigs : n.orphans[d] = IF d = c THEN r.orphans[c] \ {sec} ELSE r.orphans[d]

\* KeepOrphan.
LeavesOrphan(r, n, c, sec) ==
    Unlists(r, n, c, sec) /\ c.type \notin r.deployment.stores /\ n.state = r.state

\* DeleteOrphan, DeleteFails.
DropsOrphan(r, n, c, sec, v, w) ==
    /\ Unlists(r, n, c, sec)
    /\ n.state.resources = r.state.resources
    /\ n.state.secrets = [r.state.secrets EXCEPT ![c] = Without(@, sec.path)]
    /\ w = [v EXCEPT ![Location(c, sec.path)] = Nothing] \/ w = v

\* FinishOrphans.
EndsCleanUp(r, n) ==
    /\ Goes(r, n, "orphans", "save") /\ n.item = r.item /\ n.state = r.state
    /\ \A c \in StoreConfigs : r.orphans[c] = {}

\* A step from one phase of an invocation to the next.
WorksOn(r, n, v, w) ==
    \/ WritesOne(r, n, v, w)
    \/ \E c \in StoreConfigs : \E sec \in r.orphans[c] : DropsOrphan(r, n, c, sec, v, w)
    \/ /\ w = v
       /\ \/ PassesOver(r, n) \/ LooksUp(r, n) \/ Replaces(r, n)
          \/ StartsCleanUp(r, n) \/ ListsOrphans(r, n) \/ EndsCleanUp(r, n)
          \/ \E t \in ProviderTypes : Keeps(r, n, t) \/ Forgets(r, n, t)
          \/ \E c \in StoreConfigs : \E sec \in r.orphans[c] : LeavesOrphan(r, n, c, sec)

\* StartRun, Save and what comes instead of it: s is the state file before the
\* step, and m after it.
StartsRun(r, n, s, m) ==
    /\ r.pc = "idle" /\ n.pc = "requests" /\ n.state = s /\ m = s /\ n.item = 1
    /\ n.config \in ValidConfigs /\ n.deployment \in Deployments

EndsRun(r, n, s, m) ==
    /\ r.pc # "idle" /\ n.pc = "idle"
    /\ \/ r.pc = "save" /\ m = Persisted(r.state)
       \/ FaultKinds \cap {"save", "crash"} # {} /\ m = s
       \/ "torn" \in FaultKinds /\ m = NewState

\* A step of invocation p.
StepBy(p) ==
    /\ \A q \in Runs : q # p => run'[q] = run[q]
    /\ \/ WorksOn(run[p], run'[p], vault, vault') /\ saved' = saved
       \/ StartsRun(run[p], run'[p], saved, saved') /\ vault' = vault
       \/ EndsRun(run[p], run'[p], saved, saved') /\ vault' = vault

\* The request loop.
LEMMA RequestKinds ==
    ASSUME Inv, NEW p \in Runs,
           SkipRequest(p) \/ KeepCredentials(p) \/ CreateCredentials(p) \/ CreateFails(p)
    PROVE  StepBy(p)
<1> DEFINE r == run[p]
<1>1. r \in RunState /\ RunInv(r) /\ run \in [Runs -> RunState] /\ r.state \in State
  BY DEF Inv, TypeOK, RunState
<1>2. HasItem(r) /\ r.pc = "requests" /\ r.cred = 1
  BY <1>1 DEF SkipRequest, KeepCredentials, CreateCredentials, CreateFails, Satisfied, NeedsCredentials,
              HasItem, RunInv, WriteInv
<1>3. MarkedOnly(r.state, Looked(r), Item(r)) /\ Looked(r) \in State
  BY <1>1, <1>2, LookedOnly
<1>4. CASE SkipRequest(p)
  <2> DEFINE n == [r EXCEPT !.item = @ + 1]
  <2>1. run' = [run EXCEPT ![p] = n] /\ UNCHANGED <<vault, saved>> /\ ~Serviceable(r)
    BY <1>4 DEF SkipRequest
  <2>2. PassesOver(r, n)
    BY <1>1, <1>2, <2>1 DEF PassesOver, Goes, RunState
  <2> HIDE DEF n
  <2>3. run'[p] = n /\ \A q \in Runs : q # p => run'[q] = run[q]
    BY <1>1, <2>1
  <2> QED  BY <2>1, <2>2, <2>3 DEF StepBy, WorksOn
<1>5. CASE KeepCredentials(p) \/ CreateFails(p)
  <2> DEFINE n == [r EXCEPT !.item = @ + 1, !.state = Looked(r)]
  <2>1. run' = [run EXCEPT ![p] = n] /\ UNCHANGED <<vault, saved>> /\ Serviceable(r)
    BY <1>5 DEF KeepCredentials, CreateFails, Satisfied, NeedsCredentials
  <2>2. Current(r.state, Item(r)) \/ "create" \in FaultKinds
    <3>1. CASE CreateFails(p)
      BY <3>1 DEF CreateFails, Fault
    <3>2. CASE KeepCredentials(p)
      <4>1. PICK res \in FoundResources(r) : hasValidCredentials(Item(r).request, res, now)
        BY <3>2 DEF KeepCredentials, Satisfied
      <4> DEFINE w == Item(r)
                 P == Provider(w.request.type)
      <4>2. res \in ToSet(r.state.resources[P]) /\ Requested(res, w) /\ res.cfg = w.request.cfg /\ ~res.deposed
        BY <4>1 DEF FoundResources, ResourcesByID, hasValidCredentials, Requested
      <4>3. P \in ProviderTypes
        BY <1>1, <1>2, ItemProperties DEF HasItem, RunInv
      <4>4. r.state.resources[P] \in Seq(Resource)
        BY <1>1, <4>3 DEF State
      <4> HIDE DEF P, w
      <4>5. \E i \in 1 .. Len(r.state.resources[P]) : res = r.state.resources[P][i]
        BY <4>2, <4>4, LenProperties DEF ToSet
      <4>6. Current(r.state, w)
        BY <4>2, <4>3, <4>5 DEF Current
      <4> QED  BY <4>6 DEF w
    <3> QED  BY <1>5, <3>1, <3>2
  <2>3. LooksUp(r, n)
    BY <1>1, <1>2, <1>3, <2>1, <2>2 DEF LooksUp, Goes, RunState
  <2> HIDE DEF n
  <2>4. run'[p] = n /\ \A q \in Runs : q # p => run'[q] = run[q]
    BY <1>1, <2>1
  <2> QED  BY <2>1, <2>3, <2>4 DEF StepBy, WorksOn
<1>6. CASE CreateCredentials(p)
  <2> DEFINE res == newResource(Item(r).request, Item(r).store, NewKey(r).exp, Len(keys) + 1)
             n   == [r EXCEPT !.pc = "write", !.state = AddResource(Looked(r), res)]
  <2>1. run' = [run EXCEPT ![p] = n] /\ UNCHANGED <<vault, saved>> /\ Serviceable(r)
    BY <1>6 DEF CreateCredentials, NeedsCredentials
  <2>2. Item(r) \in WorkItem /\ Item(r).request \in CredentialRequest
    BY <1>1, <1>2, ItemProperties DEF HasItem, RunInv
  <2>3. NewKey(r).exp \in Nat /\ Len(keys) + 1 \in Nat
    BY <1>2, NewKeyType
  <2>4. /\ res \in Resource /\ Requested(res, Item(r)) /\ res.cfg = Item(r).request.cfg
        /\ ~res.deposed
    <3> HIDE DEF NewKey
    <3> QED  BY <2>2, <2>3 DEF newResource, Resource, WorkItem, CredentialRequest, Requested
  <2> HIDE DEF res
  <2>5. Goes(r, n, "requests", "write") /\ n.item = r.item /\ n.cred = 1 /\ n.state = AddResource(Looked(r), res)
    BY <1>1, <1>2 DEF Goes, RunState
  <2> HIDE DEF n
  <2>6. Replaced(r.state, n.state, Item(r), res)
    <3>1. \A t \in ProviderTypes : Sorted(r.state.resources[t], t)
      BY <1>1, <1>2 DEF RunInv, ListInv
    <3>2. \A t \in ProviderTypes : Sorted(Looked(r).resources[t], t)
      BY <1>3, <3>1, SortedLooked
    <3>3. Replaced(Looked(r), n.state, Item(r), res)
      BY <1>3, <2>4, <2>5, <3>2, ReplacedBy
    <3> QED  BY <1>3, <3>3, LookedThenReplaced
  <2>7. run'[p] = n /\ \A q \in Runs : q # p => run'[q] = run[q]
    BY <1>1, <2>1
  <2> QED  BY <1>2, <2>1, <2>4, <2>5, <2>6, <2>7 DEF StepBy, WorksOn, Replaces
<1> QED  BY <1>4, <1>5, <1>6

\* Writes.
LEMMA WriteKinds ==
    ASSUME Inv, NEW p \in Runs, WriteSecret(p) \/ WriteFails(p)
    PROVE  StepBy(p)
<1> DEFINE r == run[p]
           nx == NextCredential(r)
<1>1. r \in RunState /\ RunInv(r) /\ run \in [Runs -> RunState] /\ r.state \in State /\ r.pc = "write"
  BY DEF Inv, TypeOK, RunState, WriteSecret, WriteFails
<1>2. nx \in RunState /\ nx.state = r.state /\ Store(r) \in StoreConfigs
  BY <1>1, NextCredentialInv, WritingProperties
<1>3. \/ /\ Goes(r, nx, "write", "write") /\ nx.item = r.item /\ nx.cred = r.cred + 1
      \/ /\ Goes(r, nx, "write", "requests") /\ nx.item = r.item + 1
         /\ r.cred = Len(CredentialNames(Item(r).request))
  <2>1. r.cred <= Len(CredentialNames(Item(r).request)) /\ r.cred \in Nat
    BY <1>1 DEF RunInv, WriteInv, RunState
  <2>2. Len(CredentialNames(Item(r).request)) \in Nat
    BY <1>1, ItemProperties, NamesProperties DEF RunInv, WriteInv
  <2>3. CASE r.cred < Len(CredentialNames(Item(r).request))
    BY <1>1, <2>3 DEF NextCredential, Goes, RunState
  <2>4. CASE ~(r.cred < Len(CredentialNames(Item(r).request)))
    <3>1. r.cred = Len(CredentialNames(Item(r).request))
      BY <2>1, <2>2, <2>4
    <3> QED  BY <1>1, <2>4, <3>1 DEF NextCredential, Goes, RunState
  <2> QED  BY <2>3, <2>4
<1> HIDE DEF nx
<1>4. Written(r) = Stored(r, vault)
  BY DEF Written, Stored, PlaceToWrite, PathToWrite
<1>5. CASE WriteSecret(p)
  <2> DEFINE n == Recorded(r)
  <2>1. run' = [run EXCEPT ![p] = n] /\ saved' = saved /\ vault' = Stored(r, vault)
    BY <1>4, <1>5 DEF WriteSecret
  <2>2. n = [nx EXCEPT !.state = AddSecret(r.state, Store(r), SecretToWrite(r))]
    BY <1>2 DEF Recorded, nx, SecretToWrite
  <2>3. /\ AddSecret(r.state, Store(r), SecretToWrite(r)).resources = r.state.resources
        /\ AddSecret(r.state, Store(r), SecretToWrite(r)).secrets
             = [r.state.secrets EXCEPT ![Store(r)] = Put(@, SecretToWrite(r))]
    BY <1>1 DEF AddSecret, State
  <2> HIDE DEF n
  <2>4. /\ n.state.resources = r.state.resources
        /\ n.state.secrets = [r.state.secrets EXCEPT ![Store(r)] = Put(@, SecretToWrite(r))]
    BY <1>2, <2>2, <2>3 DEF RunState
  <2>5. \/ /\ Goes(r, n, "write", "write") /\ n.item = r.item /\ n.cred = r.cred + 1
        \/ /\ Goes(r, n, "write", "requests") /\ n.item = r.item + 1
           /\ r.cred = Len(CredentialNames(Item(r).request))
    BY <1>2, <1>3, <2>2 DEF Goes, RunState
  <2>6. run'[p] = n /\ \A q \in Runs : q # p => run'[q] = run[q]
    BY <1>1, <2>1
  <2>7. WritesOne(r, n, vault, vault')
    BY <2>1, <2>4, <2>5 DEF WritesOne
  <2> QED  BY <2>1, <2>6, <2>7 DEF StepBy, WorksOn
<1>6. CASE WriteFails(p)
  <2>1. /\ run' = [run EXCEPT ![p] = nx] /\ saved' = saved /\ "write" \in FaultKinds
        /\ vault' \in {vault, Stored(r, vault)}
    BY <1>4, <1>6 DEF WriteFails, Fault, nx
  <2>2. run'[p] = nx /\ \A q \in Runs : q # p => run'[q] = run[q]
    BY <1>1, <2>1
  <2>3. WritesOne(r, nx, vault, vault')
    BY <1>2, <1>3, <2>1 DEF WritesOne
  <2> QED  BY <2>1, <2>2, <2>3 DEF StepBy, WorksOn
<1> QED  BY <1>5, <1>6

\* The clean-up of the resources.
LEMMA CleanUpKinds ==
    ASSUME Inv, NEW p \in Runs,
           \/ FinishRequests(p) \/ FinishResources(p)
           \/ \E t \in ProviderTypes : KeepResource(p, t) \/ DestroyResource(p, t) \/ DestroyFails(p, t)
    PROVE  StepBy(p)
<1> DEFINE r == run[p]
<1>1. r \in RunState /\ RunInv(r) /\ run \in [Runs -> RunState] /\ r.state \in State
  BY DEF Inv, TypeOK, RunState
<1>2. ASSUME NEW n, run' = [run EXCEPT ![p] = n], UNCHANGED <<vault, saved>>, WorksOn(r, n, vault, vault)
      PROVE  StepBy(p)
  <2>1. run'[p] = n /\ \A q \in Runs : q # p => run'[q] = run[q]
    BY <1>1, <1>2
  <2> QED  BY <1>2, <2>1 DEF StepBy
<1>3. CASE FinishRequests(p)
  <2> DEFINE n == FinishedRequests(r)
  <2>1. run' = [run EXCEPT ![p] = n] /\ UNCHANGED <<vault, saved>> /\ r.pc = "requests" /\ r.item > Len(Work[r.config])
    BY <1>3 DEF FinishRequests, FinishedRequests
  <2>2. StartsCleanUp(r, n)
    BY <1>1, <2>1 DEF StartsCleanUp, Goes, FinishedRequests, RunState
  <2> HIDE DEF n
  <2> QED  BY <1>2, <2>1, <2>2 DEF WorksOn
<1>4. CASE FinishResources(p)
  <2> DEFINE n == FinishedResources(r)
  <2>1. /\ run' = [run EXCEPT ![p] = n] /\ UNCHANGED <<vault, saved>> /\ r.pc = "resources"
        /\ \A t \in ProviderTypes : r.left[t] = 0
    BY <1>4 DEF FinishResources, FinishedResources
  <2>2. ListsOrphans(r, n)
    BY <1>1, <2>1 DEF ListsOrphans, Goes, FinishedResources, RunState
  <2> HIDE DEF n
  <2> QED  BY <1>2, <2>1, <2>2 DEF WorksOn
<1>5. ASSUME NEW t \in ProviderTypes, Visiting(r, t)
      PROVE  r.left[t] \in 1 .. Len(r.state.resources[t]) /\ r.pc = "resources"
  <2>1. r.pc = "resources" /\ ListInv(r, t, r.state.resources[t])
    BY <1>1, <1>5 DEF Visiting, RunInv
  <2>2. r.left[t] <= Len(r.state.resources[t])
    BY <2>1 DEF ListInv
  <2>3. Len(r.state.resources[t]) \in Nat
    BY <1>1, LenProperties DEF State
  <2> QED  BY <1>1, <1>5, <2>1, <2>2, <2>3 DEF Visiting, RunState
<1>6. ASSUME NEW t \in ProviderTypes, KeepResource(p, t)
      PROVE  StepBy(p)
  <2> DEFINE n == [r EXCEPT !.left[t] = @ - 1]
  <2>1. run' = [run EXCEPT ![p] = n] /\ UNCHANGED <<vault, saved>> /\ Visiting(r, t) /\ Kept(r, t)
    BY <1>6 DEF KeepResource
  <2>2. Goes(r, n, "resources", "resources") /\ n.item = r.item /\ n.state = r.state
    BY <1>1, <1>5, <2>1 DEF Goes, RunState
  <2>3. n.left = [r.left EXCEPT ![t] = @ - 1] /\ r.left \in [ProviderTypes -> Nat]
    BY <1>1 DEF RunState
  <2>4. Keeps(r, n, t)
    <3> HIDE DEF n
    <3> QED  BY <1>5, <2>1, <2>2, <2>3 DEF Keeps
  <2> HIDE DEF n
  <2> QED  BY <1>2, <2>1, <2>4 DEF WorksOn
<1>7. ASSUME NEW t \in ProviderTypes, DestroyResource(p, t) \/ DestroyFails(p, t)
      PROVE  StepBy(p)
  <2> DEFINE n == Forget(r, t)
  <2>1. run' = [run EXCEPT ![p] = n] /\ UNCHANGED <<vault, saved>> /\ Visiting(r, t) /\ ~Kept(r, t)
    BY <1>7 DEF DestroyResource, DestroyFails
  <2>2. /\ n.state.resources = [r.state.resources EXCEPT ![t] = RemoveAt(@, r.left[t])]
        /\ n \in RunState
    BY <1>1, <2>1, ForgetInv
  <2>3. Goes(r, n, "resources", "resources") /\ n.item = r.item /\ n.state = RemoveResource(r.state, Visited(r, t))
    BY <1>1, <1>5, <2>1 DEF Goes, RunState, Forget
  <2>4. n.left = [r.left EXCEPT ![t] = @ - 1] /\ r.left \in [ProviderTypes -> Nat]
    BY <1>1 DEF RunState, Forget
  <2>5. RemoveResource(r.state, Visited(r, t)).secrets = r.state.secrets
    BY <1>1 DEF RemoveResource, State
  <2>6. Forgets(r, n, t)
    <3> HIDE DEF n
    <3> QED  BY <1>5, <2>1, <2>2, <2>3, <2>4, <2>5 DEF Forgets, WithoutOne
  <2> HIDE DEF n
  <2> QED  BY <1>2, <2>1, <2>6 DEF WorksOn
<1> QED  BY <1>3, <1>4, <1>6, <1>7

\* The clean-up of the secrets.
LEMMA OrphanKinds ==
    ASSUME Inv, NEW p \in Runs,
           \/ FinishOrphans(p)
           \/ \E c \in StoreConfigs : \E sec \in run[p].orphans[c] :
                KeepOrphan(p, c, sec) \/ DeleteOrphan(p, c, sec) \/ DeleteFails(p, c, sec)
    PROVE  StepBy(p)
<1> DEFINE r == run[p]
<1>1. r \in RunState /\ RunInv(r) /\ run \in [Runs -> RunState] /\ r.state \in State
  BY DEF Inv, TypeOK, RunState
<1>2. ASSUME NEW n, run' = [run EXCEPT ![p] = n], saved' = saved, WorksOn(r, n, vault, vault')
      PROVE  StepBy(p)
  <2>1. run'[p] = n /\ \A q \in Runs : q # p => run'[q] = run[q]
    BY <1>1, <1>2
  <2> QED  BY <1>2, <2>1 DEF StepBy
<1>3. CASE FinishOrphans(p)
  <2> DEFINE n == [r EXCEPT !.pc = "save"]
  <2>1. /\ run' = [run EXCEPT ![p] = n] /\ UNCHANGED <<vault, saved>> /\ r.pc = "orphans"
        /\ \A c \in StoreConfigs : r.orphans[c] = {}
    BY <1>3 DEF FinishOrphans
  <2>2. EndsCleanUp(r, n)
    BY <1>1, <2>1 DEF EndsCleanUp, Goes, RunState
  <2> HIDE DEF n
  <2> QED  BY <1>2, <2>1, <2>2 DEF WorksOn
<1>4. ASSUME NEW c \in StoreConfigs, NEW sec \in r.orphans[c], NEW n, r.pc = "orphans",
             n.pc = r.pc, n.config = r.config, n.deployment = r.deployment, n.item = r.item,
             n.orphans = [r.orphans EXCEPT ![c] = @ \ {sec}]
      PROVE  Unlists(r, n, c, sec)
  <2>1. r.orphans \in [StoreConfigs -> SUBSET Secret(Paths)]
    BY <1>1 DEF RunState
  <2> QED  BY <1>4, <2>1 DEF Unlists, Goes
<1>5. ASSUME NEW c \in StoreConfigs, NEW sec \in r.orphans[c], KeepOrphan(p, c, sec)
      PROVE  StepBy(p)
  <2> DEFINE n == [r EXCEPT !.orphans[c] = @ \ {sec}]
  <2>1. /\ run' = [run EXCEPT ![p] = n] /\ UNCHANGED <<vault, saved>> /\ r.pc = "orphans"
        /\ c.type \notin r.deployment.stores
    BY <1>5 DEF KeepOrphan, HasOrphan
  <2>2. /\ n.pc = r.pc /\ n.config = r.config /\ n.deployment = r.deployment /\ n.item = r.item
        /\ n.orphans = [r.orphans EXCEPT ![c] = @ \ {sec}] /\ n.state = r.state
    BY <1>1 DEF RunState
  <2> HIDE DEF n
  <2>3. Unlists(r, n, c, sec)
    BY <1>4, <2>1, <2>2
  <2>4. LeavesOrphan(r, n, c, sec)
    BY <2>1, <2>2, <2>3 DEF LeavesOrphan
  <2> QED  BY <1>2, <2>1, <2>4 DEF WorksOn
<1>6. ASSUME NEW c \in StoreConfigs, NEW sec \in r.orphans[c], DeleteOrphan(p, c, sec) \/ DeleteFails(p, c, sec)
      PROVE  StepBy(p)
  <2> DEFINE n == Dropped(r, c, sec)
  <2>1. /\ run' = [run EXCEPT ![p] = n] /\ saved' = saved /\ r.pc = "orphans"
        /\ vault' = [vault EXCEPT ![Location(c, sec.path)] = Nothing] \/ vault' = vault
    BY <1>6 DEF DeleteOrphan, DeleteFails, HasOrphan
  <2>2. /\ n.pc = r.pc /\ n.config = r.config /\ n.deployment = r.deployment /\ n.item = r.item
        /\ n.orphans = [r.orphans EXCEPT ![c] = @ \ {sec}] /\ n.state = RemoveSecret(r.state, c, sec)
    BY <1>1 DEF RunState, Dropped
  <2> HIDE DEF n
  <2>3. Unlists(r, n, c, sec)
    BY <1>4, <2>1, <2>2
  <2>4. /\ RemoveSecret(r.state, c, sec).resources = r.state.resources
        /\ RemoveSecret(r.state, c, sec).secrets = [r.state.secrets EXCEPT ![c] = Without(@, sec.path)]
    BY <1>1 DEF RemoveSecret, State
  <2>5. DropsOrphan(r, n, c, sec, vault, vault')
    BY <2>1, <2>2, <2>3, <2>4 DEF DropsOrphan
  <2> QED  BY <1>2, <2>1, <2>5 DEF WorksOn
<1> QED  BY <1>3, <1>5, <1>6

\* Where an invocation starts and ends.
LEMMA EndKinds ==
    ASSUME Inv, NEW p \in Runs, StartRun(p) \/ Save(p) \/ SaveFails(p) \/ SaveTorn(p) \/ Crash(p)
    PROVE  StepBy(p)
<1> DEFINE r == run[p]
<1>1. r \in RunState /\ RunInv(r) /\ run \in [Runs -> RunState] /\ Idle.pc = "idle" /\ deployment \in Deployments
  BY DEF Inv, TypeOK, Idle
<1>2. CASE StartRun(p)
  <2> DEFINE n == Started(config, deployment, saved)
  <2>1. run' = [run EXCEPT ![p] = n] /\ r.pc = "idle" /\ config \in ValidConfigs /\ UNCHANGED <<vault, saved>>
    BY <1>2 DEF StartRun, Started
  <2>2. n.pc = "requests" /\ n.state = saved /\ n.item = 1 /\ n.config = config /\ n.deployment = deployment
    BY IdleInv DEF Started, Idle
  <2> HIDE DEF n
  <2>3. run'[p] = n /\ \A q \in Runs : q # p => run'[q] = run[q]
    BY <1>1, <2>1
  <2>4. StartsRun(r, n, saved, saved')
    BY <1>1, <2>1, <2>2 DEF StartsRun
  <2> QED  BY <2>1, <2>3, <2>4 DEF StepBy
<1>3. CASE Save(p) \/ SaveFails(p) \/ SaveTorn(p) \/ Crash(p)
  <2>1. run' = [run EXCEPT ![p] = Idle] /\ r.pc # "idle" /\ vault' = vault
    BY <1>3 DEF Save, SaveFails, SaveTorn, Crash
  <2>2. \/ r.pc = "save" /\ saved' = Persisted(r.state)
        \/ FaultKinds \cap {"save", "crash"} # {} /\ saved' = saved
        \/ "torn" \in FaultKinds /\ saved' = NewState
    BY <1>3 DEF Save, SaveFails, SaveTorn, Crash, Fault
  <2>3. run'[p] = Idle /\ \A q \in Runs : q # p => run'[q] = run[q]
    BY <1>1, <2>1
  <2> QED  BY <1>1, <2>1, <2>2, <2>3 DEF StepBy, EndsRun
<1> QED  BY <1>2, <1>3

\* A step of the specification is one of these, or leaves all of it alone.
LEMMA StepByKinds ==
    ASSUME Inv, [Next]_vars
    PROVE  (\E p \in Runs : StepBy(p) /\ StepOf(p)) \/ UNCHANGED <<vault, keys, saved, run>>
<1>1. ASSUME NEW p \in Runs, Proceed(p) \/ Fail(p)
      PROVE  StepBy(p) /\ StepOf(p)
  <2>1. StepBy(p)
    <3>1. CASE Proceed(p)
      BY <3>1, RequestKinds, WriteKinds, CleanUpKinds, OrphanKinds, EndKinds DEF Proceed
    <3>2. CASE Fail(p)
      BY <3>2, RequestKinds, WriteKinds, CleanUpKinds, OrphanKinds, EndKinds DEF Fail
    <3> QED  BY <1>1, <3>1, <3>2
  <2>2. StepOf(p)
    <3>1. CASE Proceed(p)
      BY <3>1, RequestSteps, WriteSteps, CleanUpSteps, EndSteps DEF Proceed
    <3>2. CASE Fail(p)
      BY <3>2, RequestSteps, WriteSteps, CleanUpSteps, EndSteps DEF Fail
    <3> QED  BY <1>1, <3>1, <3>2
  <2> QED  BY <2>1, <2>2
<1>2. ASSUME NEW p \in Runs, StartRun(p)
      PROVE  StepBy(p) /\ StepOf(p)
  BY <1>2, EndKinds, EndSteps
<1>3. (\E p \in Runs : RejectConfig(p)) \/ Tick \/ EditConfig \/ Redeploy \/ UNCHANGED vars
      => UNCHANGED <<vault, keys, saved, run>>
  BY DEF RejectConfig, Tick, EditConfig, Redeploy, vars
<1> QED  BY <1>1, <1>2, <1>3 DEF Next

-----------------------------------------------------------------------------
(* What is in use was asked for: the converse of MarkInv, with what the    *)
(* clean-up has left behind its index.                                     *)

\* A request that the run can serve asks for this resource.
Asked(r, res) ==
    \E m \in 1 .. Len(Work[r.config]) :
        ServiceableItem(r, Work[r.config][m]) /\ Requested(res, Work[r.config][m])

\* The clean-up leaves this resource where it is.
Needed(r, res) == Provider(res.type) \notin r.deployment.providers \/ Asked(r, res)

\* Some config file asks for this resource.
HasOrigin(res) ==
    \E c \in ValidConfigs : \E m \in 1 .. Len(Work[c]) : Requested(res, Work[c][m])

\* Some config file asks for each resource of state s.
Originated(s) == \A t \in ProviderTypes : \A i \in 1 .. Len(s.resources[t]) : HasOrigin(s.resources[t][i])

\* State s has no mark left of the run that saved it.
Unmarked(s) == \A t \in ProviderTypes : \A i \in 1 .. Len(s.resources[t]) : ~s.resources[t][i].inUse

\* What is in use has been asked for, and the clean-up keeps nothing else of the
\* enabled providers (src/sidecred.go:400-423).
UseInv(r) ==
    r.pc # "idle" =>
        \A t \in ProviderTypes : \A i \in 1 .. Len(r.state.resources[t]) :
            /\ r.state.resources[t][i].inUse => Asked(r, r.state.resources[t][i])
            /\ r.pc = "resources" /\ i > r.left[t] => Needed(r, r.state.resources[t][i])
            /\ r.pc \in {"orphans", "save"} => Needed(r, r.state.resources[t][i])

\* It is so in every run, and the state file has nothing that was never asked for.
UsedInv ==
    /\ NeedInv
    /\ Unmarked(saved) /\ Originated(saved)
    /\ \A p \in Runs : UseInv(run[p]) /\ (Active(p) => Originated(run[p].state))

\* The request being looked at is one of the config, and serviceable as such.
LEMMA ItemOfWork ==
    ASSUME NEW r \in RunState, RunInv(r), r.pc \in {"requests", "write"}, r.item <= Len(Work[r.config])
    PROVE  /\ r.config \in ValidConfigs /\ r.config \in Configs
           /\ r.item \in 1 .. Len(Work[r.config]) /\ Item(r) = Work[r.config][r.item]
           /\ Serviceable(r) <=> ServiceableItem(r, Item(r))
           /\ Item(r) \in WorkItem /\ Item(r) \in ToSet(Work[r.config])
           /\ Provider(Item(r).request.type) \in ProviderTypes
<1>1. r.config \in ValidConfigs
  BY DEF RunInv
<1> QED  BY <1>1, ItemProperties DEF Item, Serviceable, ServiceableItem, Store

\* A resource that the current request asks for.
LEMMA ItemAsks ==
    ASSUME NEW r \in RunState, RunInv(r), r.pc \in {"requests", "write"}, r.item <= Len(Work[r.config]),
           NEW res, Requested(res, Item(r))
    PROVE  HasOrigin(res) /\ (Serviceable(r) => Asked(r, res))
<1>1. r.config \in ValidConfigs /\ r.item \in 1 .. Len(Work[r.config]) /\ Item(r) = Work[r.config][r.item]
      /\ (Serviceable(r) <=> ServiceableItem(r, Item(r)))
  BY ItemOfWork
<1> QED  BY <1>1 DEF HasOrigin, Asked

\* Whom a request asks for depends only on identity.
LEMMA AskedAlike ==
    ASSUME NEW a, NEW b, SameResource(a, b)
    PROVE  /\ \A r : Asked(r, a) <=> Asked(r, b)
           /\ \A r : Needed(r, a) <=> Needed(r, b)
           /\ HasOrigin(a) <=> HasOrigin(b)
           /\ \A w : Requested(a, w) <=> Requested(b, w)
<1>1. \A w : Requested(a, w) <=> Requested(b, w)
  BY DEF Requested, SameResource
<1>2. \A r : Asked(r, a) <=> Asked(r, b)
  BY <1>1 DEF Asked
<1> QED  BY <1>1, <1>2 DEF Needed, HasOrigin, SameResource

\* What a run asks for, and needs, depends on its config and deployment only.
LEMMA AskedGoes ==
    ASSUME NEW r, NEW n, n.config = r.config, n.deployment = r.deployment
    PROVE  \A res : (Asked(n, res) <=> Asked(r, res)) /\ (Needed(n, res) <=> Needed(r, res))
<1>1. \A res : Asked(n, res) <=> Asked(r, res)
  BY DEF Asked, ServiceableItem
<1> QED  BY <1>1 DEF Needed

\* A step of the request loop marks and adds what is asked for.
LEMMA RequestUses ==
    ASSUME NEW r \in RunState, RunInv(r), UseInv(r), Originated(r.state), NEW n,
           LooksUp(r, n) \/ Replaces(r, n)
    PROVE  UseInv(n) /\ Originated(n.state)
<1>1. HasItem(r) /\ Serviceable(r) /\ r.pc = "requests" /\ r.item <= Len(Work[r.config])
      /\ n.config = r.config /\ n.deployment = r.deployment /\ n.pc \in {"requests", "write"}
  BY DEF LooksUp, Replaces, Goes, HasItem
<1>2. ASSUME NEW t \in ProviderTypes, NEW i \in 1 .. Len(n.state.resources[t])
      PROVE  LET res == n.state.resources[t][i] IN
             \/ Requested(res, Item(r))
             \/ i \in 1 .. Len(r.state.resources[t]) /\ res = r.state.resources[t][i]
  <2>1. CASE LooksUp(r, n)
    <3>1. MarkedOnly(r.state, n.state, Item(r)) /\ i \in 1 .. Len(r.state.resources[t])
      BY <2>1 DEF LooksUp, MarkedOnly
    <3>2. IF Requested(r.state.resources[t][i], Item(r))
          THEN Alike(n.state.resources[t][i], r.state.resources[t][i])
          ELSE n.state.resources[t][i] = r.state.resources[t][i]
      BY <3>1 DEF MarkedOnly
    <3> QED  BY <3>1, <3>2, AskedAlike DEF Alike
  <2>2. CASE Replaces(r, n)
    <3>1. PICK res \in Resource : Requested(res, Item(r)) /\ Replaced(r.state, n.state, Item(r), res)
      BY <2>2 DEF Replaces
    <3>2. Len(r.state.resources[t]) \in Nat
      BY LenProperties DEF RunState, State
    <3>3. \/ i \in 1 .. Len(r.state.resources[t])
          \/ t = Provider(Item(r).request.type) /\ i = Len(r.state.resources[t]) + 1
      BY <3>1, <3>2 DEF Replaced
    <3> QED  BY <3>1, <3>3 DEF Replaced
  <2> QED  BY <1>1, <2>1, <2>2
<1>3. ASSUME NEW t \in ProviderTypes, NEW i \in 1 .. Len(n.state.resources[t])
      PROVE  HasOrigin(n.state.resources[t][i]) /\ (n.state.resources[t][i].inUse => Asked(n, n.state.resources[t][i]))
  <2>1. CASE Requested(n.state.resources[t][i], Item(r))
    BY <1>1, <2>1, ItemAsks, AskedGoes
  <2>2. CASE i \in 1 .. Len(r.state.resources[t]) /\ n.state.resources[t][i] = r.state.resources[t][i]
    BY <1>1, <2>2, AskedGoes DEF UseInv, Originated
  <2> QED  BY <1>2, <2>1, <2>2
<1> QED  BY <1>1, <1>3 DEF UseInv, Originated

\* The clean-up leaves behind its index only what is needed.
LEMMA CleanUpUses ==
    ASSUME NEW r \in RunState, RunInv(r), UseInv(r), Originated(r.state), NEW n,
           NEW t \in ProviderTypes, Keeps(r, n, t) \/ Forgets(r, n, t)
    PROVE  UseInv(n) /\ Originated(n.state)
<1>1. /\ r.pc = "resources" /\ n.pc = "resources" /\ n.config = r.config /\ n.deployment = r.deployment
      /\ r.left[t] \in 1 .. Len(r.state.resources[t])
      /\ \A u \in ProviderTypes : n.left[u] = IF u = t THEN r.left[t] - 1 ELSE r.left[u]
  BY DEF Keeps, Forgets, Goes
<1>2. /\ r.left \in [ProviderTypes -> Nat] /\ r.state \in State
      /\ \A u \in ProviderTypes : Len(r.state.resources[u]) \in Nat /\ Sorted(r.state.resources[u], u)
  BY <1>1, LenProperties DEF RunState, State, RunInv, ListInv
<1>3. CASE Keeps(r, n, t)
  <2>1. n.state = r.state /\ Kept(r, t)
    BY <1>3 DEF Keeps
  <2>2. Needed(r, r.state.resources[t][r.left[t]])
    BY <1>1, <1>2, <2>1 DEF Kept, Visited, Needed, UseInv, Sorted
  <2>3. ASSUME NEW u \in ProviderTypes, NEW i \in 1 .. Len(r.state.resources[u]), i > n.left[u]
        PROVE  Needed(r, r.state.resources[u][i])
    <3>1. i > r.left[u] \/ (u = t /\ i = r.left[t])
      BY <1>1, <1>2, <2>3
    <3> QED  BY <1>1, <2>2, <3>1 DEF UseInv
  <2> QED  BY <1>1, <2>1, <2>3, AskedGoes DEF UseInv
<1>4. CASE Forgets(r, n, t)
  <2>1. Shifted(r.state, n.state, t, r.left[t])
    BY <1>1, <1>2, <1>4, DroppedPlaces DEF Forgets
  <2>2. ASSUME NEW u \in ProviderTypes, NEW i \in 1 .. Len(n.state.resources[u])
        PROVE  /\ n.state.resources[u][i].inUse => Asked(r, n.state.resources[u][i])
               /\ i > n.left[u] => Needed(r, n.state.resources[u][i])
               /\ HasOrigin(n.state.resources[u][i])
    <3>1. PICK j \in 1 .. Len(r.state.resources[u]) :
            /\ n.state.resources[u][i] = r.state.resources[u][j]
            /\ u = t /\ i >= r.left[t] => j = i + 1
            /\ u # t \/ i < r.left[t] => j = i
      BY <2>1 DEF Shifted
    <3>2. i \in Nat /\ j \in Nat /\ r.left[t] \in Nat /\ r.left[u] \in Nat
      BY <1>2
    <3>3. i > n.left[u] => j > r.left[u]
      BY <1>1, <3>1, <3>2
    <3> QED  BY <1>1, <3>1, <3>3 DEF UseInv, Originated
  <2> QED  BY <1>1, <2>2, AskedGoes DEF UseInv, Originated
<1> QED  BY <1>3, <1>4

\* The other steps leave the resources alone.
LEMMA SameUses ==
    ASSUME NEW r \in RunState, UseInv(r), Originated(r.state), NEW n, r.pc # "idle",
           n.config = r.config, n.deployment = r.deployment, n.state.resources = r.state.resources,
           \/ n.pc \in {"requests", "write"}
           \/ StartsCleanUp(r, n)
           \/ ListsOrphans(r, n)
           \/ r.pc = "orphans" /\ n.pc \in {"orphans", "save"}
    PROVE  UseInv(n) /\ Originated(n.state)
<1>1. ASSUME NEW t \in ProviderTypes, NEW i \in 1 .. Len(r.state.resources[t])
      PROVE  /\ r.state.resources[t][i].inUse => Asked(r, r.state.resources[t][i])
             /\ n.pc = "resources" /\ i > n.left[t] => Needed(r, r.state.resources[t][i])
             /\ n.pc \in {"orphans", "save"} => Needed(r, r.state.resources[t][i])
  <2>1. Len(r.state.resources[t]) \in Nat
    BY LenProperties DEF RunState, State
  <2>2. CASE StartsCleanUp(r, n)
    BY <2>1, <2>2 DEF StartsCleanUp, Goes, UseInv
  <2>3. CASE ListsOrphans(r, n)
    BY <2>1, <2>3 DEF ListsOrphans, Goes, UseInv
  <2>4. CASE n.pc \in {"requests", "write"} \/ (r.pc = "orphans" /\ n.pc \in {"orphans", "save"})
    BY <2>4 DEF UseInv
  <2> QED  BY <2>2, <2>3, <2>4
<1> QED  BY <1>1, AskedGoes DEF UseInv, Originated

\* A step of Process keeps what is in use to what is asked for.
LEMMA WorksUses ==
    ASSUME NEW r \in RunState, RunInv(r), UseInv(r), Originated(r.state), NEW n, NEW v, NEW w,
           WorksOn(r, n, v, w)
    PROVE  UseInv(n) /\ Originated(n.state)
<1>1. CASE LooksUp(r, n) \/ Replaces(r, n)
  BY <1>1, RequestUses
<1>2. CASE \E t \in ProviderTypes : Keeps(r, n, t) \/ Forgets(r, n, t)
  BY <1>2, CleanUpUses
<1>3. CASE PassesOver(r, n) \/ WritesOne(r, n, v, w)
  BY <1>3, SameUses DEF PassesOver, WritesOne, Goes
<1>4. CASE StartsCleanUp(r, n) \/ ListsOrphans(r, n)
  BY <1>4, SameUses DEF StartsCleanUp, ListsOrphans, Goes
<1>5. CASE \/ EndsCleanUp(r, n)
           \/ \E c \in StoreConfigs : \E sec \in r.orphans[c] :
                DropsOrphan(r, n, c, sec, v, w) \/ LeavesOrphan(r, n, c, sec)
  BY <1>5, SameUses DEF EndsCleanUp, DropsOrphan, LeavesOrphan, Unlists, Goes
<1> QED  BY <1>1, <1>2, <1>3, <1>4, <1>5 DEF WorksOn

\* What is saved is not in use, and asked for as before.
LEMMA PersistedUses ==
    ASSUME NEW s \in State
    PROVE  Unmarked(Persisted(s)) /\ (Originated(s) => Originated(Persisted(s)))
<1>1. ASSUME NEW t \in ProviderTypes, NEW i \in 1 .. Len(Persisted(s).resources[t])
      PROVE  /\ i \in 1 .. Len(s.resources[t])
             /\ ~Persisted(s).resources[t][i].inUse
             /\ SameResource(Persisted(s).resources[t][i], s.resources[t][i])
  <2>1. /\ i \in 1 .. Len(s.resources[t]) /\ s.resources[t][i] \in Resource
        /\ Persisted(s).resources[t][i] = [s.resources[t][i] EXCEPT !.inUse = FALSE]
    BY PersistedFields
  <2> QED  BY <2>1 DEF Resource, SameResource
<1>2. Unmarked(Persisted(s))
  BY <1>1 DEF Unmarked
<1>3. Originated(s) => Originated(Persisted(s))
  BY <1>1, AskedAlike DEF Originated
<1> QED  BY <1>2, <1>3

\* The empty state has no resources.
LEMMA EmptyUses == Unmarked(NewState) /\ Originated(NewState)
<1>1. \A t \in ProviderTypes : Len(NewState.resources[t]) = 0
  BY DEF NewState
<1> QED  BY <1>1 DEF Unmarked, Originated

\* The state file starts empty.
LEMMA UsedInvInit == Init => UsedInv
<1> SUFFICES ASSUME Init
             PROVE  UsedInv
  OBVIOUS
<1>1. NeedInv
  BY InitInv, EmptyNamed, IdleInv DEF Init, NeedInv, Inv
<1>2. \A p \in Runs : run[p] = Idle
  BY DEF Init
<1>3. Idle.pc = "idle"
  BY DEF Idle
<1> QED  BY <1>1, <1>2, <1>3, EmptyUses DEF Init, UsedInv, UseInv, Active

\* Marks and origins are kept by every step.
LEMMA UsedInvNext == UsedInv /\ [Next]_vars => UsedInv'
<1> SUFFICES ASSUME UsedInv, [Next]_vars
             PROVE  UsedInv'
  OBVIOUS
<1>1. NeedInv' /\ Inv
  BY NeedInvStep DEF UsedInv, NeedInv
<1>2. ASSUME NEW p \in Runs, StepBy(p)
      PROVE  UsedInv'
  <2> DEFINE r == run[p]
             n == run'[p]
  <2>1. r \in RunState /\ RunInv(r) /\ UseInv(r) /\ (r.pc # "idle" => Originated(r.state)) /\ r.state \in State
    BY <1>1 DEF Inv, TypeOK, UsedInv, Active, RunState
  <2>2. (UseInv(n) /\ (n.pc # "idle" => Originated(n.state))) /\ Unmarked(saved') /\ Originated(saved')
    <3>1. CASE WorksOn(r, n, vault, vault') /\ saved' = saved
      <4>1. r.pc # "idle"
        BY <3>1 DEF WorksOn, WritesOne, DropsOrphan, PassesOver, LooksUp, Replaces, StartsCleanUp,
                    ListsOrphans, EndsCleanUp, Keeps, Forgets, LeavesOrphan, Unlists, Goes
      <4> HIDE DEF n, r
      <4> QED  BY <2>1, <3>1, <4>1, WorksUses DEF UsedInv
    <3>2. CASE StartsRun(r, n, saved, saved')
      BY <3>2 DEF StartsRun, UsedInv, UseInv, Unmarked
    <3>3. CASE EndsRun(r, n, saved, saved')
      BY <2>1, <3>3, PersistedUses, EmptyUses DEF EndsRun, UsedInv, UseInv
    <3> QED  BY <1>2, <3>1, <3>2, <3>3 DEF StepBy
  <2>3. \A q \in Runs : UseInv(run'[q]) /\ (run'[q].pc # "idle" => Originated(run'[q].state))
    BY <1>2, <2>2 DEF StepBy, UsedInv, Active
  <2> QED  BY <1>1, <2>2, <2>3 DEF UsedInv, Active
<1>3. CASE UNCHANGED <<vault, saved, run>>
  BY <1>1, <1>3 DEF UsedInv, Active
<1> QED  BY <1>1, <1>2, <1>3, StepByKinds

\* An invocation at work.
LEMMA WorksActive ==
    ASSUME NEW r, NEW n, NEW v, NEW w, WorksOn(r, n, v, w)
    PROVE  /\ r.pc # "idle" /\ n.pc # "idle"
           /\ n.config = r.config /\ n.deployment = r.deployment
BY DEF WorksOn, WritesOne, DropsOrphan, PassesOver, LooksUp, Replaces, StartsCleanUp,
       ListsOrphans, EndsCleanUp, Keeps, Forgets, LeavesOrphan, Unlists, Goes

-----------------------------------------------------------------------------
(* No secret outlives its name.                                            *)

\* Some resource of state s has the ID of this secret.
Backed(s, sec) ==
    \E t \in ProviderTypes : \E j \in 1 .. Len(s.resources[t]) : s.resources[t][j].id = sec.id

\* The clean-up has yet to come to a secret, or a resource has its ID
\* (src/sidecred.go:425-441).
ListedInv(r) ==
    r.pc \in {"orphans", "save"} =>
        \A sc \in StoreConfigs : \A i \in 1 .. Len(r.state.secrets[sc]) :
            sc.type \in r.deployment.stores =>
                \/ r.pc = "orphans" /\ r.state.secrets[sc][i] \in r.orphans[sc]
                \/ Backed(r.state, r.state.secrets[sc][i])

\* So it is in every run.
StaleInv == UsedInv /\ \A p \in Runs : ListedInv(run[p])

\* The secrets of a local state.
LEMMA SecretsOfRun ==
    ASSUME NEW r \in RunState, RunInv(r), r.pc # "idle"
    PROVE  /\ r.state.secrets \in [StoreConfigs -> Seq(Secret(Paths))]
           /\ \A c \in StoreConfigs : DistinctPaths(r.state.secrets[c])
BY DEF RunState, State, RunInv

\* AddSecret puts one secret in and leaves none other at its path
\* (src/state.go:153-168).
SecretJoins(r, n) ==
    \A sc \in StoreConfigs : \A i \in 1 .. Len(n.state.secrets[sc]) :
        \/ sc = Store(r) /\ n.state.secrets[sc][i] = SecretToWrite(r)
        \/ \E j \in 1 .. Len(r.state.secrets[sc]) :
             /\ n.state.secrets[sc][i] = r.state.secrets[sc][j]
             /\ sc = Store(r) => r.state.secrets[sc][j].path # SecretToWrite(r).path

\* A write changes the secrets in this way.
LEMMA PutsSecrets ==
    ASSUME NEW r \in RunState, RunInv(r), r.pc = "write", NEW n,
           n.state.secrets = [r.state.secrets EXCEPT ![Store(r)] = Put(@, SecretToWrite(r))]
    PROVE  SecretJoins(r, n)
<1> SUFFICES ASSUME NEW sc \in StoreConfigs, NEW i \in 1 .. Len(n.state.secrets[sc])
             PROVE  \/ sc = Store(r) /\ n.state.secrets[sc][i] = SecretToWrite(r)
                    \/ \E j \in 1 .. Len(r.state.secrets[sc]) :
                         /\ n.state.secrets[sc][i] = r.state.secrets[sc][j]
                         /\ sc = Store(r) => r.state.secrets[sc][j].path # SecretToWrite(r).path
  BY DEF SecretJoins
<1> DEFINE old  == r.state.secrets[sc]
           new  == n.state.secrets[sc]
<1>1. old \in Seq(Secret(Paths)) /\ DistinctPaths(old) /\ SecretToWrite(r) \in Secret(Paths)
  BY SecretsOfRun, WritingProperties DEF SecretToWrite
<1>2. new = IF sc = Store(r) THEN Put(old, SecretToWrite(r)) ELSE old
  BY SecretsOfRun
<1> HIDE DEF old
<1>3. CASE sc = Store(r)
  <2>1. i \in 1 .. Len(Put(old, SecretToWrite(r))) /\ new = Put(old, SecretToWrite(r))
    BY <1>2, <1>3
  <2> HIDE DEF new
  <2> QED  BY <1>1, <1>3, <2>1, PutSecrets DEF old, new
<1>4. CASE sc # Store(r)
  BY <1>2, <1>4 DEF old
<1> QED  BY <1>3, <1>4

\* RemoveSecret leaves what is at another path (src/state.go:193-204).
SecretsRemain(r, n, c, sec) ==
    \A sc \in StoreConfigs : \A i \in 1 .. Len(n.state.secrets[sc]) :
        \E j \in 1 .. Len(r.state.secrets[sc]) :
            /\ n.state.secrets[sc][i] = r.state.secrets[sc][j]
            /\ sc = c => r.state.secrets[sc][j].path # sec.path

\* What a deletion makes of them.
LEMMA DropsSecrets ==
    ASSUME NEW r \in RunState, RunInv(r), NEW n, NEW v, NEW w, NEW c \in StoreConfigs, NEW sec,
           DropsOrphan(r, n, c, sec, v, w)
    PROVE  SecretsRemain(r, n, c, sec)
<1> SUFFICES ASSUME NEW sc \in StoreConfigs, NEW i \in 1 .. Len(n.state.secrets[sc])
             PROVE  \E j \in 1 .. Len(r.state.secrets[sc]) :
                      /\ n.state.secrets[sc][i] = r.state.secrets[sc][j]
                      /\ sc = c => r.state.secrets[sc][j].path # sec.path
  BY DEF SecretsRemain
<1> DEFINE old  == r.state.secrets[sc]
           gone == sec.path
           new  == n.state.secrets[sc]
<1>1. old \in Seq(Secret(Paths)) /\ DistinctPaths(old)
  BY SecretsOfRun DEF DropsOrphan, Unlists, Goes
<1>2. new = IF sc = c THEN Without(old, gone) ELSE old
  BY SecretsOfRun DEF DropsOrphan, Unlists, Goes
<1> HIDE DEF old, gone
<1>3. CASE sc = c
  <2>1. i \in 1 .. Len(Without(old, gone)) /\ new = Without(old, gone)
    BY <1>2, <1>3
  <2> HIDE DEF new
  <2>2. \E j \in 1 .. Len(old) : Without(old, gone)[i] = old[j] /\ old[j].path # gone
    <3>1. \A k \in 1 .. Len(Without(old, gone)) :
                \E j \in 1 .. Len(old) : Without(old, gone)[k] = old[j] /\ old[j].path # gone
      BY <1>1, WithoutSecrets
    <3> QED  BY <2>1, <3>1
  <2> QED  BY <2>1, <2>2 DEF old, new, gone
<1>4. CASE sc # c
  BY <1>2, <1>4 DEF old
<1> QED  BY <1>3, <1>4

\* The clean-up of the secrets goes through all that are orphaned.
LEMMA WorksListed ==
    ASSUME NEW r \in RunState, RunInv(r), ListedInv(r), NEW n, NEW v, NEW w, WorksOn(r, n, v, w)
    PROVE  ListedInv(n)
<1>1. r.pc # "idle" /\ n.deployment = r.deployment
  BY WorksActive
<1>2. CASE n.pc \notin {"orphans", "save"}
  BY <1>2 DEF ListedInv
<1>3. CASE ListsOrphans(r, n)
  <2>1. n.pc = "orphans" /\ n.state = r.state /\ \A c \in StoreConfigs : n.orphans[c] = ListOrphanedSecrets(r.state, c)
    BY <1>3 DEF ListsOrphans, Goes
  <2>2. ASSUME NEW sc \in StoreConfigs, NEW i \in 1 .. Len(r.state.secrets[sc])
        PROVE  r.state.secrets[sc][i] \in n.orphans[sc] \/ Backed(r.state, r.state.secrets[sc][i])
    <3> DEFINE sec == r.state.secrets[sc][i]
    <3>1. sec \in ToSet(r.state.secrets[sc])
      <4> DEFINE old == r.state.secrets[sc]
      <4>1. old \in Seq(Secret(Paths))
        BY <1>1, SecretsOfRun
      <4> HIDE DEF old
      <4>2. old[i] \in ToSet(old)
        BY <4>1, LenProperties DEF ToSet, old
      <4> QED  BY <4>2 DEF old
    <3> HIDE DEF sec
    <3>2. CASE sec.id \notin ResourceIDs(r.state)
      <4>1. sec \in ListOrphanedSecrets(r.state, sc)
        BY <3>1, <3>2 DEF ListOrphanedSecrets
      <4> QED  BY <2>1, <4>1 DEF sec
    <3>3. CASE sec.id \in ResourceIDs(r.state)
      <4>1. PICK t \in ProviderTypes : \E res \in ToSet(r.state.resources[t]) : res.id = sec.id
        BY <3>3 DEF ResourceIDs
      <4>2. r.state.resources[t] \in Seq(Resource)
        BY DEF RunState, State
      <4>3. \E j \in 1 .. Len(r.state.resources[t]) : r.state.resources[t][j].id = sec.id
        BY <4>1, <4>2, LenProperties DEF ToSet
      <4> QED  BY <4>3 DEF Backed, sec
    <3> QED  BY <3>2, <3>3
  <2> QED  BY <2>1, <2>2 DEF ListedInv
<1>4. ASSUME NEW c \in StoreConfigs, NEW sec \in r.orphans[c], LeavesOrphan(r, n, c, sec)
      PROVE  ListedInv(n)
  BY <1>1, <1>4 DEF LeavesOrphan, Unlists, Goes, ListedInv
<1>5. ASSUME NEW c \in StoreConfigs, NEW sec \in r.orphans[c], DropsOrphan(r, n, c, sec, v, w)
      PROVE  ListedInv(n)
  <2>1. /\ r.pc = "orphans" /\ n.pc = "orphans" /\ n.state.resources = r.state.resources
        /\ n.state.secrets = [r.state.secrets EXCEPT ![c] = Without(@, sec.path)]
        /\ \A d \in StoreConfigs : n.orphans[d] = IF d = c THEN r.orphans[c] \ {sec} ELSE r.orphans[d]
    BY <1>5 DEF DropsOrphan, Unlists, Goes
  <2>4. SecretsRemain(r, n, c, sec)
    BY <1>5, DropsSecrets
  <2>2. ASSUME NEW sc \in StoreConfigs, NEW i \in 1 .. Len(n.state.secrets[sc]), sc.type \in r.deployment.stores
        PROVE  n.state.secrets[sc][i] \in n.orphans[sc] \/ Backed(r.state, n.state.secrets[sc][i])
    <3>1. PICK j \in 1 .. Len(r.state.secrets[sc]) :
            /\ n.state.secrets[sc][i] = r.state.secrets[sc][j]
            /\ sc = c => r.state.secrets[sc][j].path # sec.path
      BY <2>4 DEF SecretsRemain
    <3>2. r.state.secrets[sc][j] \in r.orphans[sc] \/ Backed(r.state, r.state.secrets[sc][j])
      BY <2>1, <2>2 DEF ListedInv
    <3> QED  BY <2>1, <3>1, <3>2
  <2>3. \A x : Backed(n.state, x) <=> Backed(r.state, x)
    BY <2>1 DEF Backed
  <2> QED  BY <1>1, <2>1, <2>2, <2>3 DEF ListedInv
<1>6. CASE EndsCleanUp(r, n)
  BY <1>1, <1>6 DEF EndsCleanUp, Goes, ListedInv
<1> QED  BY <1>2, <1>3, <1>4, <1>5, <1>6 DEF WorksOn, WritesOne, PassesOver, LooksUp, Replaces,
                StartsCleanUp, Keeps, Forgets, Goes

\* No clean-up is under way at the start.
LEMMA StaleInvInit == Init => StaleInv
<1> SUFFICES ASSUME Init
             PROVE  StaleInv
  OBVIOUS
<1>1. \A p \in Runs : run[p].pc = "idle"
  BY DEF Init, Idle
<1> QED  BY <1>1, UsedInvInit DEF StaleInv, ListedInv

\* What a clean-up has listed is kept by every step.
LEMMA StaleInvNext == StaleInv /\ [Next]_vars => StaleInv'
<1> SUFFICES ASSUME StaleInv, [Next]_vars
             PROVE  StaleInv'
  OBVIOUS
<1>1. UsedInv' /\ Inv
  BY UsedInvNext DEF StaleInv, UsedInv, NeedInv
<1>2. ASSUME NEW p \in Runs, StepBy(p)
      PROVE  StaleInv'
  <2> DEFINE r == run[p]
             n == run'[p]
  <2>1. r \in RunState /\ RunInv(r) /\ ListedInv(r)
    BY <1>1 DEF Inv, TypeOK, StaleInv
  <2>2. ListedInv(n)
    <3>1. CASE WorksOn(r, n, vault, vault')
      <4> HIDE DEF n, r
      <4> QED  BY <2>1, <3>1, WorksListed
    <3>2. CASE StartsRun(r, n, saved, saved') \/ EndsRun(r, n, saved, saved')
      BY <3>2 DEF StartsRun, EndsRun, ListedInv
    <3> QED  BY <1>2, <3>1, <3>2 DEF StepBy
  <2>3. \A q \in Runs : ListedInv(run'[q])
    BY <1>2, <2>2 DEF StepBy, StaleInv
  <2> QED  BY <1>1, <2>3 DEF StaleInv
<1>3. CASE UNCHANGED run
  BY <1>1, <1>3 DEF StaleInv
<1> QED  BY <1>1, <1>2, <1>3, StepByKinds

(***************************************************************************)
(* A secret that a run leaves in an enabled store has the name of a        *)
(* request the run serves, or of a resource it could not destroy because   *)
(* its provider is not enabled (src/sidecred.go:400-441,                   *)
(* src/state.go:184-199): for every set of config files, whatever fails,   *)
(* crashes or overlaps.                                                    *)
(***************************************************************************)
THEOREM SecretsEndWithTheirName == Spec => []NoSecretOutlivesItsName
<1>1. StaleInv => NoSecretOutlivesItsName
  <2> SUFFICES ASSUME StaleInv, NEW p \in Runs, run[p].pc = "save", NEW c \in StoreConfigs,
                      NEW sec \in SecretsOf(run[p].state, c), c.type \in run[p].deployment.stores
               PROVE  \/ \E w \in ToSet(Work[run[p].config]) :
                            ServiceableItem(run[p], w) /\ w.request.name = sec.id
                      \/ \E res \in Resources(run[p].state) :
                            res.id = sec.id /\ Provider(res.type) \notin run[p].deployment.providers
    BY DEF NoSecretOutlivesItsName
  <2> DEFINE r   == run[p]
             old == r.state.secrets[c]
  <2>1. r \in RunState /\ RunInv(r) /\ UseInv(r) /\ ListedInv(r) /\ r.config \in ValidConfigs
    BY DEF StaleInv, UsedInv, NeedInv, Inv, TypeOK, RunInv
  <2>2. old \in Seq(Secret(Paths)) /\ sec \in ToSet(old)
    BY <2>1, SecretsOfRun DEF SecretsOf
  <2>3. PICK i \in 1 .. Len(old) : sec = old[i]
    <3> HIDE DEF old
    <3> QED  BY <2>2, LenProperties DEF ToSet
  <2>4. PICK t \in ProviderTypes : \E j \in 1 .. Len(r.state.resources[t]) : r.state.resources[t][j].id = sec.id
    BY <2>1, <2>3 DEF ListedInv, Backed
  <2>5. PICK j \in 1 .. Len(r.state.resources[t]) : r.state.resources[t][j].id = sec.id
    BY <2>4
  <2> DEFINE res == r.state.resources[t][j]
  <2>6. Needed(r, res)
    BY <2>1 DEF UseInv
  <2>7. CASE Provider(res.type) \notin r.deployment.providers
    <3>1. r.state.resources[t] \in Seq(Resource)
      BY <2>1 DEF RunState, State
    <3>2. res \in Resources(r.state)
      BY <3>1, LenProperties DEF Resources, ToSet
    <3> QED  BY <2>5, <2>7, <3>2
  <2>8. CASE Asked(r, res)
    <3>1. PICK m \in 1 .. Len(Work[r.config]) :
            ServiceableItem(r, Work[r.config][m]) /\ Requested(res, Work[r.config][m])
      BY <2>8 DEF Asked
    <3>2. Work[r.config][m] \in ToSet(Work[r.config])
      BY <2>1, WorkProperties DEF ValidConfigs
    <3> QED  BY <2>5, <3>1, <3>2 DEF Requested
  <2> QED  BY <2>6, <2>7, <2>8 DEF Needed
<1> QED  BY <1>1, StaleInvInit, StaleInvNext, PTL DEF Spec

-----------------------------------------------------------------------------
(* The credential of a resource is in every undisputed place that a config *)
(* file gives it, from its last write until the clean-up drops the         *)
(* resource.                                                               *)

\* A place that a config file gives to the credential of this resource.
PlaceOf(res, l) ==
    /\ l \in Undisputed
    /\ \E c \in ValidConfigs : \E m \in 1 .. Len(Work[c]) :
            /\ Requested(res, Work[c][m]) /\ res.cfg = Work[c][m].request.cfg
            /\ l \in Locs(c, Work[c][m])

\* The secrets that state s has at place l are those of the resources named id.
Claims(s, l, id) ==
    \A sc \in StoreConfigs : \A i \in 1 .. Len(s.secrets[sc]) :
        Location(sc, s.secrets[sc][i].path) = l => s.secrets[sc][i].id = id

\* The credential of res is in all of its places, and only it is recorded there.
Stands(s, v, res) ==
    \A l : PlaceOf(res, l) => v[l] = res.key /\ Claims(s, l, res.id)

\* The credential of res is being written, so that not all of its places have it yet.
Writing(r, res) == r.pc = "write" /\ Requested(res, Item(r))

\* All that the clean-up will leave stands, but for the credential being written.
StandingInv(r, v) ==
    \A t \in ProviderTypes : \A i \in 1 .. Len(r.state.resources[t]) :
        LET res == r.state.resources[t][i] IN
        ~res.deposed /\ Needed(r, res) /\ ~Writing(r, res) => Stands(r.state, v, res)

\* The places written so far hold the new credential (src/sidecred.go:375-397).
WrittenInv(r, v) ==
    r.pc = "write" =>
        /\ Serviceable(r)
        /\ Requested(Created(r), Item(r)) /\ Created(r).cfg = Item(r).request.cfg
        /\ ~Created(r).deposed
        /\ \A j \in 1 .. r.cred - 1 :
            /\ v[PlaceToWrite(r, j)] = Created(r).key
            /\ PlaceToWrite(r, j) \in Undisputed => Claims(r.state, PlaceToWrite(r, j), Created(r).id)

\* No orphan is at the place of a resource.
UnclaimedInv(r) ==
    r.pc = "orphans" =>
        \A sc \in StoreConfigs : \A sec \in r.orphans[sc] :
            \A t \in ProviderTypes : \A i \in 1 .. Len(r.state.resources[t]) :
                ~PlaceOf(r.state.resources[t][i], Location(sc, sec.path))

\* The three of them, of one run.
StandInv(r, v) == r.pc # "idle" => StandingInv(r, v) /\ WrittenInv(r, v) /\ UnclaimedInv(r)

\* The same of all resources of state s.
AllStand(s, v) ==
    \A t \in ProviderTypes : \A i \in 1 .. Len(s.resources[t]) : Stands(s, v, s.resources[t][i])

\* All resources stand between the runs, and during a run as StandInv says.
ThereInv ==
    /\ UsedInv
    /\ Quiet => AllStand(saved, vault)
    /\ \A p \in Runs : StandInv(run[p], vault)

\* Whether a resource stands does not depend on its marks.
LEMMA StandsAlike ==
    ASSUME NEW s, NEW n, n.secrets = s.secrets, NEW a, NEW b,
           SameResource(a, b), a.cfg = b.cfg, a.key = b.key
    PROVE  /\ \A l : PlaceOf(a, l) <=> PlaceOf(b, l)
           /\ \A v : Stands(n, v, a) <=> Stands(s, v, b)
<1>1. \A w : Requested(a, w) <=> Requested(b, w)
  BY AskedAlike
<1>2. \A l : PlaceOf(a, l) <=> PlaceOf(b, l)
  BY <1>1 DEF PlaceOf
<1>3. \A l, id : Claims(n, l, id) <=> Claims(s, l, id)
  BY DEF Claims
<1>4. a.id = b.id
  BY DEF SameResource
<1> QED  BY <1>2, <1>3, <1>4 DEF Stands

\* A request of a config file has a number.
LEMMA WorkIndex ==
    ASSUME NEW c \in ValidConfigs, NEW w \in ToSet(Work[c])
    PROVE  \E m \in 1 .. Len(Work[c]) : Work[c][m] = w
<1>1. Work[c] \in Seq(WorkItem)
  BY WorkProperties DEF ValidConfigs
<1> QED  BY <1>1, LenProperties DEF ToSet

\* The places of a request exist.
LEMMA PlacesExist ==
    ASSUME NEW c \in ValidConfigs, NEW m \in 1 .. Len(Work[c]), NEW l \in Locs(c, Work[c][m])
    PROVE  l \in Locations
<1>1. PICK n \in ToSet(CredentialNames(Work[c][m].request)) :
        l = Location(StoreOf(c, Work[c][m].store), Path(c.namespace, n))
  BY DEF Locs
<1>2. StoreOf(c, Work[c][m].store) \in StoreConfigs
  BY StoreExists
<1>3. Work[c][m] \in ToSet(Work[c])
  BY WorkProperties DEF ValidConfigs
<1>4. n \in Names(c)
  BY <1>3 DEF Names
<1>5. Path(c.namespace, n) \in Paths
  BY <1>4 DEF Paths
<1> QED  BY <1>1, <1>2, <1>5 DEF Locations

\* What it means that a place is undisputed, for two requests by their numbers.
LEMMA UndisputedPlaces ==
    ASSUME NEW l \in Undisputed,
           NEW c \in ValidConfigs, NEW m \in 1 .. Len(Work[c]),
           NEW d \in ValidConfigs, NEW n \in 1 .. Len(Work[d]), l \in Locs(d, Work[d][n])
    PROVE  /\ SameRequest(Work[c][m], Work[d][n]) /\ Work[c][m].request.cfg = Work[d][n].request.cfg
              => l \in Locs(c, Work[c][m])
           /\ l \in Locs(c, Work[c][m]) =>
                /\ Provider(Work[c][m].request.type) = Provider(Work[d][n].request.type)
                /\ \/ SameRequest(Work[c][m], Work[d][n])
                   \/ \A k \in 1 .. Len(Work[c]) : ~SameRequest(Work[c][k], Work[d][n])
<1>1. Work[d][n] \in ToSet(Work[d]) /\ \A k \in 1 .. Len(Work[c]) : Work[c][k] \in ToSet(Work[c])
  BY WorkProperties DEF ValidConfigs
<1>2. \A v \in ToSet(Work[c]), w \in ToSet(Work[d]) :
        l \in Locs(d, w) =>
            /\ SameRequest(v, w) /\ v.request.cfg = w.request.cfg => l \in Locs(c, v)
            /\ l \in Locs(c, v) =>
                /\ Provider(v.request.type) = Provider(w.request.type)
                /\ SameRequest(v, w) \/ \A u \in ToSet(Work[c]) : ~SameRequest(u, w)
  BY DEF Undisputed
<1> QED  BY <1>1, <1>2

\* The places of the request being served are those the writes go through.
LEMMA PlacesToWrite ==
    ASSUME NEW r \in RunState, RunInv(r), r.pc = "write"
    PROVE  /\ \A l \in Locs(r.config, Item(r)) :
                \E j \in 1 .. Len(CredentialNames(Item(r).request)) : l = PlaceToWrite(r, j)
           /\ r.cred \in 1 .. Len(CredentialNames(Item(r).request))
           /\ \A j \in 1 .. Len(CredentialNames(Item(r).request)) : PlaceToWrite(r, j) \in Locs(r.config, Item(r))
           /\ PlaceToWrite(r, r.cred) \in Locations
           /\ PlaceToWrite(r, r.cred) = Location(Store(r), SecretToWrite(r).path)
<1> DEFINE names == CredentialNames(Item(r).request)
<1>1. /\ r.config \in ValidConfigs /\ r.item \in 1 .. Len(Work[r.config]) /\ Item(r) = Work[r.config][r.item]
      /\ Item(r) \in WorkItem
  BY ItemOfWork DEF RunInv, WriteInv
<1>2. Item(r).request \in CredentialRequest
  BY <1>1, ItemProperties DEF RunInv
<1>3. Len(names) \in Nat /\ \A k \in 1 .. Len(names) : names[k] \in ToSet(names)
  BY <1>2, NamesProperties
<1>4. r.cred \in 1 .. Len(names)
  BY <1>3 DEF RunInv, WriteInv, RunState
<1>5. \A n \in ToSet(names) : \E k \in 1 .. Len(names) : n = names[k]
  BY <1>2, NamesProperties
<1> HIDE DEF names
<1>6. \A l \in Locs(r.config, Item(r)) : \E j \in 1 .. Len(names) : l = PlaceToWrite(r, j)
  BY <1>5 DEF Locs, PlaceToWrite, Store, names
<1>7. \A j \in 1 .. Len(names) : PlaceToWrite(r, j) \in Locs(r.config, Item(r))
  BY <1>3 DEF Locs, PlaceToWrite, Store, names
<1>8. PlaceToWrite(r, r.cred) \in Locations
  BY <1>1, <1>4, <1>7, PlacesExist
<1>9. PlaceToWrite(r, r.cred) = Location(Store(r), SecretToWrite(r).path)
  BY DEF PlaceToWrite, SecretToWrite, newSecret, PathToWrite
<1> QED  BY <1>4, <1>6, <1>7, <1>8, <1>9 DEF names

\* What the clean-up will leave of other requests is not at the places of this one.
LEMMA PlacesOfOthers ==
    ASSUME NEW r \in RunState, RunInv(r), r.pc = "write", Serviceable(r),
           NEW res, Needed(r, res), ~Requested(res, Item(r)), NEW l, PlaceOf(res, l)
    PROVE  l \notin Locs(r.config, Item(r))
<1> SUFFICES ASSUME l \in Locs(r.config, Item(r))
             PROVE  FALSE
  OBVIOUS
<1>1. /\ r.config \in ValidConfigs /\ r.item \in 1 .. Len(Work[r.config]) /\ Item(r) = Work[r.config][r.item]
  BY ItemOfWork DEF RunInv, WriteInv
<1>2. PICK d \in ValidConfigs : \E n \in 1 .. Len(Work[d]) : Requested(res, Work[d][n]) /\ l \in Locs(d, Work[d][n])
  BY DEF PlaceOf
<1>3. PICK n \in 1 .. Len(Work[d]) : Requested(res, Work[d][n]) /\ l \in Locs(d, Work[d][n])
  BY <1>2
<1>4. l \in Undisputed
  BY DEF PlaceOf
<1>5. /\ Provider(Item(r).request.type) = Provider(Work[d][n].request.type)
      /\ \/ SameRequest(Item(r), Work[d][n])
         \/ \A k \in 1 .. Len(Work[r.config]) : ~SameRequest(Work[r.config][k], Work[d][n])
  <2> DEFINE c == r.config
             m == r.item
  <2>1. c \in ValidConfigs /\ m \in 1 .. Len(Work[c]) /\ l \in Locs(c, Work[c][m])
    BY <1>1
  <2> HIDE DEF c, m
  <2>2. /\ Provider(Work[c][m].request.type) = Provider(Work[d][n].request.type)
        /\ \/ SameRequest(Work[c][m], Work[d][n])
           \/ \A k \in 1 .. Len(Work[c]) : ~SameRequest(Work[c][k], Work[d][n])
    BY <1>3, <1>4, <2>1, UndisputedPlaces
  <2> QED  BY <1>1, <2>2 DEF c, m
<1>6. Provider(res.type) \in r.deployment.providers
  BY <1>3, <1>5 DEF Requested, Serviceable
<1>7. PICK k \in 1 .. Len(Work[r.config]) : Requested(res, Work[r.config][k])
  BY <1>6 DEF Needed, Asked
<1>8. SameRequest(Work[r.config][k], Work[d][n]) /\ ~SameRequest(Item(r), Work[d][n])
  BY <1>3, <1>7 DEF SameRequest, Requested
<1> QED  BY <1>5, <1>8

\* The new credential is the only one for its request that is not deposed.
LEMMA OnlyCreated ==
    ASSUME NEW r \in RunState, RunInv(r), r.pc = "write", Requested(Created(r), Item(r)),
           NEW t \in ProviderTypes, NEW i \in 1 .. Len(r.state.resources[t]),
           Requested(r.state.resources[t][i], Item(r)), ~r.state.resources[t][i].deposed
    PROVE  r.state.resources[t][i] = Created(r)
<1> DEFINE rs == r.state.resources[t]
<1>1. Sorted(rs, t) /\ Superseded(rs)
  BY DEF RunInv, ListInv
<1>2. t = Provider(Item(r).request.type)
  BY <1>1 DEF Sorted, Requested
<1>3. Len(rs) \in Nat
  BY LenProperties DEF RunState, State
<1>4. Created(r) = rs[Len(rs)]
  BY <1>2 DEF Created
<1>5. SameResource(rs[i], rs[Len(rs)])
  BY <1>4 DEF Requested, SameResource
<1> HIDE DEF rs
<1>6. i \in 1 .. Len(rs) /\ ~rs[i].deposed
  BY DEF rs
<1>7. ~(i < Len(rs))
  BY <1>1, <1>3, <1>5, <1>6 DEF Superseded
<1>8. i = Len(rs)
  BY <1>3, <1>6, <1>7
<1> QED  BY <1>4, <1>8 DEF rs

\* A step that leaves state and stores alone.
LEMMA SameStands ==
    ASSUME NEW r, NEW n, NEW v, StandingInv(r, v), r.pc # "write", n.state = r.state,
           n.config = r.config, n.deployment = r.deployment
    PROVE  StandingInv(n, v)
BY AskedGoes DEF StandingInv, Writing

\* The request loop: what it replaces is deposed, what is new is being written.
LEMMA RequestStands ==
    ASSUME NEW r \in RunState, RunInv(r), NEW v, StandInv(r, v), NEW n,
           PassesOver(r, n) \/ LooksUp(r, n) \/ Replaces(r, n)
    PROVE  StandInv(n, v)
<1>1. /\ r.pc = "requests" /\ n.config = r.config /\ n.deployment = r.deployment
      /\ StandingInv(r, v) /\ r.item <= Len(Work[r.config])
  BY DEF PassesOver, LooksUp, Replaces, Goes, HasItem, StandInv
<1>2. CASE PassesOver(r, n)
  <2>1. n.pc = "requests" /\ n.state = r.state
    BY <1>2 DEF PassesOver, Goes
  <2> QED  BY <1>1, <2>1, SameStands DEF StandInv, WrittenInv, UnclaimedInv
<1>3. CASE LooksUp(r, n)
  <2>1. n.pc = "requests" /\ MarkedOnly(r.state, n.state, Item(r))
    BY <1>3 DEF LooksUp, Goes
  <2>2. ASSUME NEW t \in ProviderTypes, NEW i \in 1 .. Len(n.state.resources[t]),
               ~n.state.resources[t][i].deposed, Needed(n, n.state.resources[t][i])
        PROVE  Stands(n.state, v, n.state.resources[t][i])
    <3> DEFINE a == n.state.resources[t][i]
               b == r.state.resources[t][i]
    <3>1. i \in 1 .. Len(r.state.resources[t]) /\ Alike(a, b)
      BY <2>1 DEF MarkedOnly, Alike, SameResource
    <3>2. ~b.deposed /\ Needed(r, b) /\ ~Writing(r, b)
      <4>1. Needed(r, a)
        BY <1>1, <2>2, AskedGoes
      <4> HIDE DEF a, b
      <4>2. Needed(r, b)
        BY <3>1, <4>1, AskedAlike DEF Alike
      <4> QED  BY <1>1, <2>2, <3>1, <4>2 DEF Alike, Writing, a
    <3>3. Stands(r.state, v, b)
      BY <1>1, <3>1, <3>2 DEF StandingInv
    <3>4. n.state.secrets = r.state.secrets
      BY <2>1 DEF MarkedOnly
    <3> HIDE DEF a, b
    <3>5. Stands(n.state, v, a)
      BY <3>1, <3>3, <3>4, StandsAlike DEF Alike
    <3> QED  BY <3>5 DEF a
  <2> QED  BY <2>1, <2>2 DEF StandInv, StandingInv, WrittenInv, UnclaimedInv
<1>4. CASE Replaces(r, n)
  <2>1. n.pc = "write" /\ n.item = r.item /\ n.cred = 1 /\ Serviceable(r)
    BY <1>4 DEF Replaces, Goes
  <2>2. PICK new \in Resource :
          /\ Requested(new, Item(r)) /\ new.cfg = Item(r).request.cfg /\ ~new.deposed
          /\ Replaced(r.state, n.state, Item(r), new)
    BY <1>4 DEF Replaces
  <2>3. Item(n) = Item(r) /\ Serviceable(n)
    BY <1>1, <2>1 DEF Item, Serviceable, Store
  <2>4. Provider(Item(r).request.type) \in ProviderTypes
    BY <1>1, ItemOfWork
  <2>5. Created(n) = new
    <3> DEFINE P == Provider(Item(r).request.type)
    <3>1. /\ Len(n.state.resources[P]) = Len(r.state.resources[P]) + 1
          /\ n.state.resources[P][Len(r.state.resources[P]) + 1] = new
      BY <2>2, <2>4 DEF Replaced
    <3> QED  BY <2>3, <3>1 DEF Created
  <2>6. ASSUME NEW t \in ProviderTypes, NEW i \in 1 .. Len(n.state.resources[t]),
               ~n.state.resources[t][i].deposed, Needed(n, n.state.resources[t][i]),
               ~Requested(n.state.resources[t][i], Item(r))
        PROVE  Stands(n.state, v, n.state.resources[t][i])
    <3> DEFINE a == n.state.resources[t][i]
    <3>1. Len(r.state.resources[t]) \in Nat
      BY LenProperties DEF RunState, State
    <3>2. i \in 1 .. Len(r.state.resources[t]) /\ a = r.state.resources[t][i]
      <4>1. \/ i \in 1 .. Len(r.state.resources[t])
            \/ t = Provider(Item(r).request.type) /\ i = Len(r.state.resources[t]) + 1
        BY <2>2, <3>1 DEF Replaced
      <4> QED  BY <2>2, <2>6, <4>1 DEF Replaced
    <3>3. Needed(r, a)
      BY <1>1, <2>6, AskedGoes
    <3>4. Stands(r.state, v, a)
      BY <1>1, <2>6, <3>2, <3>3 DEF StandingInv, Writing
    <3>5. n.state.secrets = r.state.secrets
      BY <2>2 DEF Replaced
    <3>6. SameResource(a, a)
      BY DEF SameResource
    <3> HIDE DEF a
    <3>7. Stands(n.state, v, a)
      BY <3>4, <3>5, <3>6, StandsAlike
    <3> QED  BY <3>7 DEF a
  <2>7. StandingInv(n, v)
    BY <2>1, <2>3, <2>6 DEF StandingInv, Writing
  <2>8. WrittenInv(n, v)
    BY <2>1, <2>2, <2>3, <2>5 DEF WrittenInv
  <2> QED  BY <2>1, <2>7, <2>8 DEF StandInv, UnclaimedInv
<1> QED  BY <1>2, <1>3, <1>4

\* The clean-up of the resources takes some away; what it leaves has no orphans.
LEMMA CleanUpStands ==
    ASSUME NEW r \in RunState, RunInv(r), UseInv(r), NEW v, StandInv(r, v), NEW n,
           \/ StartsCleanUp(r, n) \/ ListsOrphans(r, n)
           \/ \E t \in ProviderTypes : Keeps(r, n, t) \/ Forgets(r, n, t)
    PROVE  StandInv(n, v)
<1>1. /\ r.pc \in {"requests", "resources"} /\ n.pc \in {"resources", "orphans"}
      /\ n.config = r.config /\ n.deployment = r.deployment /\ StandingInv(r, v)
  BY DEF StartsCleanUp, ListsOrphans, Keeps, Forgets, Goes, StandInv
<1>2. CASE StartsCleanUp(r, n) \/ \E t \in ProviderTypes : Keeps(r, n, t)
  <2>1. n.state = r.state /\ n.pc = "resources"
    BY <1>2 DEF StartsCleanUp, Keeps, Goes
  <2> QED  BY <1>1, <2>1, SameStands DEF StandInv, WrittenInv, UnclaimedInv
<1>3. ASSUME NEW t \in ProviderTypes, Forgets(r, n, t)
      PROVE  StandInv(n, v)
  <2>1. /\ n.state.secrets = r.state.secrets /\ n.pc = "resources"
        /\ Shifted(r.state, n.state, t, r.left[t])
    BY <1>3, DroppedPlaces DEF Forgets, Goes, RunState
  <2>2. ASSUME NEW u \in ProviderTypes, NEW i \in 1 .. Len(n.state.resources[u]),
               ~n.state.resources[u][i].deposed, Needed(n, n.state.resources[u][i])
        PROVE  Stands(n.state, v, n.state.resources[u][i])
    <3> DEFINE a == n.state.resources[u][i]
    <3>1. PICK j \in 1 .. Len(r.state.resources[u]) : a = r.state.resources[u][j]
      BY <2>1 DEF Shifted
    <3>2. Needed(r, a)
      BY <1>1, <2>2, AskedGoes
    <3>3. Stands(r.state, v, a)
      BY <1>1, <2>2, <3>1, <3>2 DEF StandingInv, Writing
    <3>4. SameResource(a, a)
      BY DEF SameResource
    <3> HIDE DEF a
    <3>5. Stands(n.state, v, a)
      BY <2>1, <3>3, <3>4, StandsAlike
    <3> QED  BY <3>5 DEF a
  <2> QED  BY <2>1, <2>2 DEF StandInv, StandingInv, WrittenInv, UnclaimedInv
<1>4. CASE ListsOrphans(r, n)
  <2>1. /\ r.pc = "resources" /\ n.pc = "orphans" /\ n.state = r.state
        /\ \A t \in ProviderTypes : r.left[t] = 0
        /\ \A c \in StoreConfigs : n.orphans[c] = ListOrphanedSecrets(r.state, c)
    BY <1>4 DEF ListsOrphans, Goes
  <2>2. ASSUME NEW sc \in StoreConfigs, NEW sec \in n.orphans[sc],
               NEW t \in ProviderTypes, NEW i \in 1 .. Len(r.state.resources[t]),
               PlaceOf(r.state.resources[t][i], Location(sc, sec.path))
        PROVE  FALSE
    <3> DEFINE a == r.state.resources[t][i]
    <3>1. ListInv(r, t, r.state.resources[t]) /\ Len(r.state.resources[t]) \in Nat
      BY <2>1, LenProperties DEF RunInv, RunState, State
    <3>2. i > r.left[t]
      BY <2>1, <3>1
    <3>3. ~a.deposed /\ Needed(r, a)
      BY <2>1, <3>1, <3>2 DEF ListInv, UseInv
    <3>4. Stands(r.state, v, a)
      BY <1>1, <2>1, <3>3 DEF StandingInv, Writing
    <3>5. Claims(r.state, Location(sc, sec.path), a.id)
      BY <2>2, <3>4 DEF Stands
    <3>6. sec \in ToSet(r.state.secrets[sc]) /\ sec.id \notin ResourceIDs(r.state)
      BY <2>1, <2>2 DEF ListOrphanedSecrets
    <3>7. \E k \in 1 .. Len(r.state.secrets[sc]) : sec = r.state.secrets[sc][k]
      <4> DEFINE old == r.state.secrets[sc]
      <4>1. old \in Seq(Secret(Paths))
        BY DEF RunState, State
      <4> HIDE DEF old
      <4>2. sec \in ToSet(old)
        BY <3>6 DEF old
      <4>3. \E k \in 1 .. Len(old) : sec = old[k]
        BY <4>1, <4>2, LenProperties DEF ToSet
      <4> QED  BY <4>3 DEF old
    <3>8. sec.id = a.id
      BY <3>5, <3>7 DEF Claims
    <3>9. a \in ToSet(r.state.resources[t])
      <4> DEFINE rs == r.state.resources[t]
      <4>1. rs \in Seq(Resource)
        BY DEF RunState, State
      <4> HIDE DEF rs
      <4>2. rs[i] \in ToSet(rs)
        BY <4>1, LenProperties DEF ToSet, rs
      <4> QED  BY <4>2 DEF rs
    <3> HIDE DEF a
    <3>10. a.id \in ResourceIDs(r.state)
      BY <3>9 DEF ResourceIDs
    <3> QED  BY <3>6, <3>8, <3>10
  <2>3. UnclaimedInv(n)
    BY <2>1, <2>2 DEF UnclaimedInv
  <2> QED  BY <1>1, <2>1, <2>3, SameStands DEF StandInv, WrittenInv
<1> QED  BY <1>2, <1>3, <1>4

\* The clean-up of the secrets stays away from the places of resources.
LEMMA OrphanStands ==
    ASSUME NEW r \in RunState, RunInv(r), NEW v, StandInv(r, v), NEW n, NEW w, v \in [Locations -> Nat],
           \/ EndsCleanUp(r, n) /\ w = v
           \/ \E c \in StoreConfigs : \E sec \in r.orphans[c] :
                (LeavesOrphan(r, n, c, sec) /\ w = v) \/ DropsOrphan(r, n, c, sec, v, w)
    PROVE  StandInv(n, w)
<1>1. /\ r.pc = "orphans" /\ n.pc \in {"orphans", "save"}
      /\ n.config = r.config /\ n.deployment = r.deployment /\ StandingInv(r, v) /\ UnclaimedInv(r)
  BY DEF EndsCleanUp, LeavesOrphan, DropsOrphan, Unlists, Goes, StandInv
<1>2. CASE EndsCleanUp(r, n) /\ w = v
  <2>1. n.state = r.state /\ n.pc = "save"
    BY <1>2 DEF EndsCleanUp, Goes
  <2> QED  BY <1>1, <1>2, <2>1, SameStands DEF StandInv, WrittenInv, UnclaimedInv
<1>3. ASSUME NEW c \in StoreConfigs, NEW sec \in r.orphans[c], Unlists(r, n, c, sec), n.state.resources = r.state.resources
      PROVE  UnclaimedInv(n)
  <2>1. \A d \in StoreConfigs : n.orphans[d] \subseteq r.orphans[d]
    BY <1>3 DEF Unlists
  <2> QED  BY <1>1, <1>3, <2>1 DEF UnclaimedInv
<1>4. ASSUME NEW c \in StoreConfigs, NEW sec \in r.orphans[c], LeavesOrphan(r, n, c, sec), w = v
      PROVE  StandInv(n, w)
  <2>1. n.state = r.state /\ Unlists(r, n, c, sec) /\ n.pc = "orphans"
    BY <1>4 DEF LeavesOrphan, Unlists, Goes
  <2> QED  BY <1>1, <1>3, <1>4, <2>1, SameStands DEF StandInv, WrittenInv
<1>5. ASSUME NEW c \in StoreConfigs, NEW sec \in r.orphans[c], DropsOrphan(r, n, c, sec, v, w)
      PROVE  StandInv(n, w)
  <2>1. /\ Unlists(r, n, c, sec) /\ n.pc = "orphans" /\ n.state.resources = r.state.resources
        /\ n.state.secrets = [r.state.secrets EXCEPT ![c] = Without(@, sec.path)]
        /\ w = [v EXCEPT ![Location(c, sec.path)] = Nothing] \/ w = v
    BY <1>5 DEF DropsOrphan, Unlists, Goes
  <2>2. ASSUME NEW l, NEW id, Claims(r.state, l, id)
        PROVE  Claims(n.state, l, id)
    <3>1. SecretsRemain(r, n, c, sec)
      BY <1>5, DropsSecrets
    <3>2. ASSUME NEW sc \in StoreConfigs, NEW i \in 1 .. Len(n.state.secrets[sc]),
                 Location(sc, n.state.secrets[sc][i].path) = l
          PROVE  n.state.secrets[sc][i].id = id
      <4>1. PICK j \in 1 .. Len(r.state.secrets[sc]) : n.state.secrets[sc][i] = r.state.secrets[sc][j]
        BY <3>1, <3>2 DEF SecretsRemain
      <4> QED  BY <2>2, <3>2, <4>1 DEF Claims
    <3> QED  BY <3>2 DEF Claims
  <2>3. ASSUME NEW t \in ProviderTypes, NEW i \in 1 .. Len(r.state.resources[t]),
               Stands(r.state, v, r.state.resources[t][i])
        PROVE  Stands(n.state, w, r.state.resources[t][i])
    <3> DEFINE a == r.state.resources[t][i]
    <3>1. ASSUME NEW l, PlaceOf(a, l)
          PROVE  w[l] = a.key /\ Claims(n.state, l, a.id)
      <4>1. l # Location(c, sec.path)
        BY <1>1, <3>1 DEF UnclaimedInv
      <4>2. v[l] = a.key /\ Claims(r.state, l, a.id)
        BY <2>3, <3>1 DEF Stands
      <4>3. l \in Locations
        BY <3>1, PlacesExist DEF PlaceOf
      <4>4. w[l] = v[l]
        BY <2>1, <4>1, <4>3
      <4> QED  BY <2>2, <4>2, <4>4
    <3> QED  BY <3>1 DEF Stands
  <2>4. StandingInv(n, w)
    BY <1>1, <2>1, <2>3, AskedGoes DEF StandingInv, Writing
  <2> QED  BY <1>3, <2>1, <2>4 DEF StandInv, WrittenInv
<1> QED  BY <1>2, <1>4, <1>5

\* What a write changes: the place of the credential, and who claims it.
LEMMA WriteAtPlace ==
    ASSUME NEW r \in RunState, RunInv(r), r.pc = "write", NEW v \in [Locations -> Nat],
           Requested(Created(r), Item(r)), NEW n,
           n.state.secrets = [r.state.secrets EXCEPT ![Store(r)] = Put(@, SecretToWrite(r))]
    PROVE  /\ Stored(r, v)[PlaceToWrite(r, r.cred)] = Created(r).key
           /\ \A l \in Locations : l # PlaceToWrite(r, r.cred) => Stored(r, v)[l] = v[l]
           /\ PlaceToWrite(r, r.cred) \in Undisputed
              => Claims(n.state, PlaceToWrite(r, r.cred), Created(r).id)
           /\ \A l, id : l # PlaceToWrite(r, r.cred) /\ Claims(r.state, l, id) => Claims(n.state, l, id)
<1> DEFINE l0 == PlaceToWrite(r, r.cred)
<1>1. l0 \in Locations /\ l0 = Location(Store(r), SecretToWrite(r).path)
  BY PlacesToWrite
<1>2. SecretJoins(r, n)
  BY PutsSecrets
<1>3. SecretToWrite(r).id = Created(r).id
  BY DEF SecretToWrite, newSecret, Requested
<1>4. Store(r) \in StoreConfigs /\ SecretToWrite(r).path \in Paths
  <2>1. Store(r) \in StoreConfigs /\ SecretToWrite(r) \in Secret(Paths)
    BY WritingProperties DEF SecretToWrite
  <2> QED  BY <2>1 DEF Secret
<1> HIDE DEF l0
<1>5. Stored(r, v)[l0] = Created(r).key /\ \A l \in Locations : l # l0 => Stored(r, v)[l] = v[l]
  BY <1>1 DEF Stored, l0
<1>6. ASSUME l0 \in Undisputed
      PROVE  Claims(n.state, l0, Created(r).id)
  <2>1. ASSUME NEW sc \in StoreConfigs, NEW i \in 1 .. Len(n.state.secrets[sc]),
               Location(sc, n.state.secrets[sc][i].path) = l0
        PROVE  n.state.secrets[sc][i].id = Created(r).id
    <3>1. n.state.secrets[sc][i].path = SecretToWrite(r).path
      BY <1>1, <2>1 DEF Location
    <3>2. sc = Store(r)
      <4>1. l0 = Location(sc, SecretToWrite(r).path) /\ l0 = Location(Store(r), SecretToWrite(r).path)
        BY <1>1, <2>1, <3>1
      <4> QED  BY <1>4, <1>6, <4>1 DEF Undisputed
    <3> QED  BY <1>2, <1>3, <3>1, <3>2 DEF SecretJoins
  <2> QED  BY <2>1 DEF Claims
<1>7. ASSUME NEW l, NEW id, l # l0, Claims(r.state, l, id)
      PROVE  Claims(n.state, l, id)
  <2>1. ASSUME NEW sc \in StoreConfigs, NEW i \in 1 .. Len(n.state.secrets[sc]),
               Location(sc, n.state.secrets[sc][i].path) = l
        PROVE  n.state.secrets[sc][i].id = id
    <3>1. ~(sc = Store(r) /\ n.state.secrets[sc][i] = SecretToWrite(r))
      BY <1>1, <1>7, <2>1
    <3>2. PICK j \in 1 .. Len(r.state.secrets[sc]) : n.state.secrets[sc][i] = r.state.secrets[sc][j]
      BY <1>2, <3>1 DEF SecretJoins
    <3> QED  BY <1>7, <2>1, <3>2 DEF Claims
  <2> QED  BY <2>1 DEF Claims
<1> QED  BY <1>5, <1>6, <1>7 DEF l0

\* Whatever a config file calls a place of the new credential is one of the places
\* that this request is written to.
LEMMA PlacesOfCreated ==
    ASSUME NEW r \in RunState, RunInv(r), r.pc = "write", NEW res,
           Requested(res, Item(r)), res.cfg = Item(r).request.cfg, NEW l, PlaceOf(res, l)
    PROVE  l \in Locs(r.config, Item(r))
<1>1. /\ r.config \in ValidConfigs /\ r.item \in 1 .. Len(Work[r.config]) /\ Item(r) = Work[r.config][r.item]
  BY ItemOfWork DEF RunInv, WriteInv
<1>2. PICK d \in ValidConfigs : \E k \in 1 .. Len(Work[d]) :
        Requested(res, Work[d][k]) /\ res.cfg = Work[d][k].request.cfg /\ l \in Locs(d, Work[d][k])
  BY DEF PlaceOf
<1>3. PICK k \in 1 .. Len(Work[d]) :
        Requested(res, Work[d][k]) /\ res.cfg = Work[d][k].request.cfg /\ l \in Locs(d, Work[d][k])
  BY <1>2
<1> DEFINE c == r.config
           m == r.item
<1>4. c \in ValidConfigs /\ m \in 1 .. Len(Work[c]) /\ Item(r) = Work[c][m]
  BY <1>1
<1>5. SameRequest(Work[c][m], Work[d][k]) /\ Work[c][m].request.cfg = Work[d][k].request.cfg
  BY <1>3, <1>4 DEF SameRequest, Requested
<1> HIDE DEF c, m
<1>6. l \in Locs(c, Work[c][m])
  <2>1. l \in Undisputed
    BY DEF PlaceOf
  <2> QED  BY <1>3, <1>4, <1>5, <2>1, UndisputedPlaces
<1> QED  BY <1>4, <1>6 DEF c

\* A write brings the new credential to one more of its places, and with the last
\* of them it stands (src/sidecred.go:375-397).
LEMMA WriteStands ==
    ASSUME "write" \notin FaultKinds,
           NEW r \in RunState, RunInv(r), NEW v \in [Locations -> Nat], StandInv(r, v),
           NEW n, NEW w, WritesOne(r, n, v, w)
    PROVE  StandInv(n, w)
<1> DEFINE l0    == PlaceToWrite(r, r.cred)
           names == CredentialNames(Item(r).request)
<1>1. /\ r.pc = "write" /\ n.config = r.config /\ n.deployment = r.deployment
      /\ n.state.resources = r.state.resources /\ w = Stored(r, v)
      /\ n.state.secrets = [r.state.secrets EXCEPT ![Store(r)] = Put(@, SecretToWrite(r))]
  BY DEF WritesOne, Goes
<1>2. StandingInv(r, v) /\ WrittenInv(r, v)
  BY <1>1 DEF StandInv
<1>3. /\ Serviceable(r)
      /\ Requested(Created(r), Item(r)) /\ Created(r).cfg = Item(r).request.cfg
      /\ ~Created(r).deposed
      /\ \A j \in 1 .. r.cred - 1 :
          /\ v[PlaceToWrite(r, j)] = Created(r).key
          /\ PlaceToWrite(r, j) \in Undisputed => Claims(r.state, PlaceToWrite(r, j), Created(r).id)
  BY <1>1, <1>2 DEF WrittenInv
<1>4. /\ w[l0] = Created(r).key
      /\ l0 \in Undisputed => Claims(n.state, l0, Created(r).id)
      /\ \A l \in Locations : l # l0 => w[l] = v[l]
      /\ \A l, id : l # l0 /\ Claims(r.state, l, id) => Claims(n.state, l, id)
  BY <1>1, <1>3, WriteAtPlace
<1>5. /\ \A l \in Locs(r.config, Item(r)) : \E j \in 1 .. Len(names) : l = PlaceToWrite(r, j)
      /\ r.cred \in 1 .. Len(names)
      /\ \A j \in 1 .. Len(names) : PlaceToWrite(r, j) \in Locs(r.config, Item(r))
  BY <1>1, PlacesToWrite
<1>6. /\ r.config \in ValidConfigs /\ r.item \in 1 .. Len(Work[r.config]) /\ Item(r) = Work[r.config][r.item]
  BY <1>1, ItemOfWork DEF RunInv, WriteInv
<1>7. Len(names) \in Nat
  BY <1>5
<1> HIDE DEF l0, names
<1>8. \A l \in Locs(r.config, Item(r)) : l \in Locations
  BY <1>6, PlacesExist
<1>9. ASSUME NEW j \in 1 .. r.cred
      PROVE  /\ w[PlaceToWrite(r, j)] = Created(r).key
             /\ PlaceToWrite(r, j) \in Undisputed => Claims(n.state, PlaceToWrite(r, j), Created(r).id)
  <2>1. CASE PlaceToWrite(r, j) = l0
    BY <1>4, <2>1
  <2>2. CASE PlaceToWrite(r, j) # l0
    <3>1. j \in 1 .. r.cred - 1
      BY <1>5, <2>2 DEF l0
    <3>2. PlaceToWrite(r, j) \in Locations
      BY <1>5, <1>7, <1>8
    <3> QED  BY <1>3, <1>4, <2>2, <3>1, <3>2
  <2> QED  BY <2>1, <2>2
<1>10. ASSUME NEW t \in ProviderTypes, NEW i \in 1 .. Len(r.state.resources[t]),
              ~r.state.resources[t][i].deposed, Needed(r, r.state.resources[t][i]),
              ~Requested(r.state.resources[t][i], Item(r))
       PROVE  Stands(n.state, w, r.state.resources[t][i])
  <2> DEFINE a == r.state.resources[t][i]
  <2>1. Stands(r.state, v, a)
    BY <1>2, <1>10 DEF StandingInv, Writing
  <2>2. Needed(r, a) /\ ~Requested(a, Item(r))
    BY <1>10
  <2> HIDE DEF a
  <2>3. ASSUME NEW l, PlaceOf(a, l)
        PROVE  w[l] = a.key /\ Claims(n.state, l, a.id)
    <3>1. l \notin Locs(r.config, Item(r))
      BY <1>1, <1>3, <2>2, <2>3, PlacesOfOthers
    <3>2. l # l0
      BY <1>5, <3>1 DEF l0
    <3>3. l \in Locations
      BY <2>3, PlacesExist DEF PlaceOf
    <3>4. v[l] = a.key /\ Claims(r.state, l, a.id)
      BY <2>1, <2>3 DEF Stands
    <3> QED  BY <1>4, <3>2, <3>3, <3>4
  <2>4. Stands(n.state, w, a)
    BY <2>3 DEF Stands
  <2> QED  BY <2>4 DEF a
<1>11. CASE n.pc = "write" /\ n.item = r.item /\ n.cred = r.cred + 1
  <2>1. Item(n) = Item(r) /\ (Serviceable(n) <=> Serviceable(r)) /\ Created(n) = Created(r)
    BY <1>1, <1>11 DEF Item, Serviceable, Store, Created
  <2>2. \A j : PlaceToWrite(n, j) = PlaceToWrite(r, j)
    BY <1>1, <2>1 DEF PlaceToWrite, Store
  <2>3. WrittenInv(n, w)
    <3>1. n.cred - 1 = r.cred
      BY <1>5, <1>11
    <3> QED  BY <1>3, <1>9, <2>1, <2>2, <3>1 DEF WrittenInv
  <2>4. StandingInv(n, w)
    BY <1>1, <1>10, <1>11, <2>1, AskedGoes DEF StandingInv, Writing
  <2> QED  BY <1>11, <2>3, <2>4 DEF StandInv, UnclaimedInv
<1>12. CASE n.pc = "requests" /\ r.cred = Len(names)
  <2>1. ASSUME NEW t \in ProviderTypes, NEW i \in 1 .. Len(r.state.resources[t]),
               ~r.state.resources[t][i].deposed, Requested(r.state.resources[t][i], Item(r))
        PROVE  Stands(n.state, w, r.state.resources[t][i])
    <3>1. r.state.resources[t][i] = Created(r)
      BY <1>1, <1>3, <2>1, OnlyCreated
    <3>2. ASSUME NEW l, PlaceOf(Created(r), l)
          PROVE  w[l] = Created(r).key /\ Claims(n.state, l, Created(r).id)
      <4>1. l \in Locs(r.config, Item(r))
        BY <1>1, <1>3, <3>2, PlacesOfCreated
      <4>2. PICK j \in 1 .. Len(names) : l = PlaceToWrite(r, j)
        BY <1>5, <4>1
      <4>3. l \in Undisputed
        BY <3>2 DEF PlaceOf
      <4> QED  BY <1>9, <1>12, <4>2, <4>3
    <3> QED  BY <3>1, <3>2 DEF Stands
  <2>2. StandingInv(n, w)
    BY <1>1, <1>10, <2>1, AskedGoes DEF StandingInv
  <2> QED  BY <1>12, <2>2 DEF StandInv, WrittenInv, UnclaimedInv
<1> QED  BY <1>11, <1>12 DEF WritesOne, Goes, names

\* Every phase of a run.
LEMMA WorksStand ==
    ASSUME "write" \notin FaultKinds,
           NEW r \in RunState, RunInv(r), UseInv(r), NEW v \in [Locations -> Nat], StandInv(r, v),
           NEW n, NEW w, WorksOn(r, n, v, w)
    PROVE  StandInv(n, w)
<1>1. CASE WritesOne(r, n, v, w)
  BY <1>1, WriteStands
<1>2. CASE w = v /\ (PassesOver(r, n) \/ LooksUp(r, n) \/ Replaces(r, n))
  BY <1>2, RequestStands
<1>3. CASE w = v /\ (\/ StartsCleanUp(r, n) \/ ListsOrphans(r, n)
                     \/ \E t \in ProviderTypes : Keeps(r, n, t) \/ Forgets(r, n, t))
  BY <1>3, CleanUpStands
<1>4. CASE \/ EndsCleanUp(r, n) /\ w = v
           \/ \E c \in StoreConfigs : \E sec \in r.orphans[c] :
                (LeavesOrphan(r, n, c, sec) /\ w = v) \/ DropsOrphan(r, n, c, sec, v, w)
  BY <1>4, OrphanStands
<1> QED  BY <1>1, <1>2, <1>3, <1>4 DEF WorksOn

\* A run starts from a state in which everything stands, and saves one.
LEMMA StartStands ==
    ASSUME NEW r, NEW n, NEW s, NEW m, NEW v, StartsRun(r, n, s, m), AllStand(s, v)
    PROVE  StandInv(n, v)
<1>1. n.pc = "requests" /\ n.state = s
  BY DEF StartsRun
<1> QED  BY <1>1 DEF StandInv, StandingInv, WrittenInv, UnclaimedInv, AllStand

\* What a run saves stands, because the clean-up has left nothing but what does.
LEMMA SavedStand ==
    ASSUME NEW r \in RunState, RunInv(r), UseInv(r), NEW v, StandInv(r, v), r.pc = "save"
    PROVE  AllStand(Persisted(r.state), v)
<1>1. r.state \in State
  BY DEF RunState
<1>2. ASSUME NEW t \in ProviderTypes, NEW i \in 1 .. Len(Persisted(r.state).resources[t])
      PROVE  Stands(Persisted(r.state), v, Persisted(r.state).resources[t][i])
  <2> DEFINE a == Persisted(r.state).resources[t][i]
             b == r.state.resources[t][i]
  <2>1. /\ i \in 1 .. Len(r.state.resources[t]) /\ b \in Resource
        /\ a = [b EXCEPT !.inUse = FALSE] /\ Persisted(r.state).secrets = r.state.secrets
    BY <1>1, PersistedFields
  <2>2. ~b.deposed /\ Needed(r, b) /\ ~Writing(r, b)
    BY <2>1 DEF RunInv, ListInv, Settled, UseInv, Writing
  <2>3. Stands(r.state, v, b)
    BY <2>1, <2>2 DEF StandInv, StandingInv
  <2> HIDE DEF a, b
  <2>4. SameResource(a, b) /\ a.cfg = b.cfg /\ a.key = b.key
    BY <2>1 DEF Resource, SameResource
  <2>5. Stands(Persisted(r.state), v, a)
    <3> DEFINE s == r.state
               m == Persisted(r.state)
    <3>1. m.secrets = s.secrets /\ Stands(s, v, b)
      BY <2>1, <2>3
    <3> HIDE DEF s, m
    <3>2. Stands(m, v, a)
      BY <2>4, <3>1, StandsAlike
    <3> QED  BY <3>2 DEF m
  <2> QED  BY <2>5 DEF a
<1> QED  BY <1>2 DEF AllStand

\* The empty state has no resources.
LEMMA EmptyStands == \A v : AllStand(NewState, v)
<1>1. \A t \in ProviderTypes : Len(NewState.resources[t]) = 0
  BY DEF NewState
<1> QED  BY <1>1 DEF AllStand

\* ThereInv holds at the start.
LEMMA ThereInvInit == Init => ThereInv
<1> SUFFICES ASSUME Init
             PROVE  ThereInv
  OBVIOUS
<1>1. \A p \in Runs : run[p].pc = "idle"
  BY DEF Init, Idle
<1> QED  BY <1>1, EmptyStands, UsedInvInit DEF Init, ThereInv, StandInv

\* One invocation at a time reads back what the one before it left in the stores;
\* one that is cut off, or that cannot save, may have written over it.
LEMMA ThereInvNext ==
    ASSUME OneAtATime, FaultKinds \cap {"write", "save", "crash"} = {}, ThereInv, [Next]_vars
    PROVE  ThereInv'
<1>1. UsedInv' /\ Inv
  BY UsedInvNext DEF ThereInv, UsedInv, NeedInv
<1>2. ASSUME NEW p \in Runs, StepBy(p)
      PROVE  ThereInv'
  <2> DEFINE r == run[p]
             n == run'[p]
  <2>1. /\ r \in RunState /\ RunInv(r) /\ UseInv(r) /\ StandInv(r, vault)
        /\ vault \in [Locations -> Nat] /\ \A q \in Runs : q = p
    BY <1>1 DEF Inv, TypeOK, ThereInv, UsedInv, OneAtATime
  <2>2. StandInv(n, vault') /\ (n.pc = "idle" => AllStand(saved', vault'))
    <3>1. CASE WorksOn(r, n, vault, vault') /\ saved' = saved
      <4>1. n.pc # "idle"
        BY <3>1, WorksActive
      <4> HIDE DEF n, r
      <4> QED  BY <2>1, <3>1, <4>1, WorksStand
    <3>2. CASE StartsRun(r, n, saved, saved') /\ vault' = vault
      <4>1. r.pc = "idle" /\ n.pc = "requests"
        BY <3>2 DEF StartsRun
      <4>2. AllStand(saved, vault)
        BY <2>1, <4>1 DEF ThereInv, Quiet
      <4> HIDE DEF n, r
      <4> QED  BY <3>2, <4>1, <4>2, StartStands
    <3>3. CASE EndsRun(r, n, saved, saved') /\ vault' = vault
      <4>1. n.pc = "idle" /\ ((r.pc = "save" /\ saved' = Persisted(r.state)) \/ saved' = NewState)
        BY <3>3 DEF EndsRun
      <4> HIDE DEF n, r
      <4> QED  BY <2>1, <3>3, <4>1, SavedStand, EmptyStands DEF StandInv
    <3> QED  BY <1>2, <3>1, <3>2, <3>3 DEF StepBy
  <2>3. \A q \in Runs : StandInv(run'[q], vault')
    BY <2>1, <2>2
  <2>4. Quiet' => AllStand(saved', vault')
    BY <2>2 DEF Quiet
  <2> QED  BY <1>1, <2>3, <2>4 DEF ThereInv
<1>3. CASE UNCHANGED <<vault, saved, run>>
  BY <1>1, <1>3 DEF ThereInv, Quiet
<1> QED  BY <1>2, <1>3, StepByKinds DEF ThereInv, UsedInv, NeedInv

\* A resource that is current for a work item of the run, and stands, serves it in
\* its undisputed places.
LEMMA StandingServes ==
    ASSUME LiveInv, NEW p \in Runs, Active(p), RunInv(run[p]), NEW w, w \in ToSet(Work[run[p].config]),
           NEW t \in ProviderTypes, NEW i \in 1 .. Len(run[p].state.resources[t]),
           Requested(run[p].state.resources[t][i], w),
           run[p].state.resources[t][i].cfg = w.request.cfg,
           ~run[p].state.resources[t][i].deposed,
           Stands(run[p].state, vault, run[p].state.resources[t][i])
    PROVE  /\ ServedAt(Locs(run[p].config, w) \cap Undisputed, run[p].state, w)
           /\ \A l \in Locs(run[p].config, w) \cap Undisputed : PlaceOf(run[p].state.resources[t][i], l)
<1> DEFINE s   == run[p].state
           res == run[p].state.resources[t][i]
           c   == run[p].config
<1>1. s \in State /\ keys[res.key].live /\ c \in ValidConfigs
  BY DEF LiveInv, AllLive, KeyInv, Inv, TypeOK, RunState, RunInv, Active
<1>2. res \in Resources(s)
  BY <1>1, ResourcesOf
<1>3. \E m \in 1 .. Len(Work[c]) : Work[c][m] = w
  BY <1>1, WorkIndex
<1> HIDE DEF s, c, res
<1>4. \A l \in Locs(c, w) \cap Undisputed : PlaceOf(res, l)
  BY <1>1, <1>3 DEF PlaceOf, res
<1>5. \A l \in Locs(c, w) \cap Undisputed : vault[l] = res.key
  BY <1>4 DEF Stands, res
<1>6. /\ res.type = w.request.type /\ res.id = w.request.name /\ res.store = w.store
      /\ res.cfg = w.request.cfg /\ ~res.deposed
  BY DEF Requested, res
<1>7. ServedAt(Locs(c, w) \cap Undisputed, s, w)
  BY <1>1, <1>2, <1>5, <1>6 DEF ServedAt
<1> QED  BY <1>4, <1>7 DEF c, s, res

(***************************************************************************)
(* The credentials that a run takes for valid exist at the provider and    *)
(* are in every undisputed place of the request (src/sidecred.go:366-371), *)
(* for every set of config files and through edits of every kind, with one *)
(* invocation at a time, when no write fails and no run is cut off or      *)
(* fails to save; creations, destructions and deletions may fail, and the  *)
(* state file may be lost.                                                 *)
(***************************************************************************)
THEOREM KeptCredentialsStand ==
    ASSUME OneAtATime, FaultKinds \cap {"write", "save", "crash"} = {}
    PROVE  Spec => []KeptCredentialsHoldTheirPlaces
<1>1. ThereInv /\ [Next]_vars => ThereInv'
  BY ThereInvNext
<1>2. LiveInv /\ [Next]_vars => LiveInv'
  BY LiveInvNext
<1>3. ThereInv /\ LiveInv => KeptCredentialsHoldTheirPlaces
  <2> SUFFICES ASSUME ThereInv, LiveInv, NEW p \in Runs, Satisfied(run[p])
               PROVE  ServedAt(Locs(run[p].config, Item(run[p])) \cap Undisputed, run[p].state, Item(run[p]))
    BY DEF KeptCredentialsHoldTheirPlaces
  <2> DEFINE r == run[p]
             P == Provider(Item(r).request.type)
  <2>1. r \in RunState /\ RunInv(r) /\ StandingInv(r, vault) /\ r.pc = "requests"
        /\ r.item <= Len(Work[r.config]) /\ Serviceable(r)
    BY DEF ThereInv, UsedInv, NeedInv, Inv, TypeOK, StandInv, Satisfied, HasItem
  <2>2. P \in ProviderTypes /\ Item(r) \in ToSet(Work[r.config])
    BY <2>1, ItemOfWork
  <2>3. PICK i \in 1 .. Len(r.state.resources[P]) :
          /\ Requested(r.state.resources[P][i], Item(r))
          /\ r.state.resources[P][i].cfg = Item(r).request.cfg
          /\ ~r.state.resources[P][i].deposed
    <3>1. PICK res \in FoundResources(r) : hasValidCredentials(Item(r).request, res, now)
      BY DEF Satisfied
    <3>2. res \in ToSet(r.state.resources[P]) /\ Requested(res, Item(r))
          /\ res.cfg = Item(r).request.cfg /\ ~res.deposed
      BY <3>1 DEF FoundResources, ResourcesByID, hasValidCredentials, Requested
    <3>3. r.state.resources[P] \in Seq(Resource)
      BY <2>1, <2>2 DEF RunState, State
    <3>4. \E i \in 1 .. Len(r.state.resources[P]) : res = r.state.resources[P][i]
      BY <3>2, <3>3, LenProperties DEF ToSet
    <3> QED  BY <3>2, <3>4
  <2>4. Stands(r.state, vault, r.state.resources[P][i])
    <3>1. Needed(r, r.state.resources[P][i])
      BY <2>1, <2>3, ItemAsks DEF Needed
    <3> QED  BY <2>1, <2>2, <2>3, <3>1 DEF StandingInv, Writing
  <2>5. Active(p)
    BY <2>1 DEF Active
  <2> HIDE DEF P
  <2> QED  BY <2>1, <2>2, <2>3, <2>4, <2>5, StandingServes
<1> QED  BY <1>1, <1>2, <1>3, ThereInvInit, LiveInvInit, PTL DEF Spec

-----------------------------------------------------------------------------
(* Every request that a run can serve has a credential when the run saves. *)

\* The requests that Process is done with have a current credential
\* (src/sidecred.go:335-398), and the clean-up leaves it.
ServeInv(r) ==
    r.pc # "idle" =>
        \A m \in 1 .. Len(Work[r.config]) :
            Passed(r, m) /\ ServiceableItem(r, Work[r.config][m]) => Current(r.state, Work[r.config][m])

\* It is so in every run.
ServedInv == NeedInv /\ \A p \in Runs : ServeInv(run[p])

\* The resource that is current for w is in state n, too.
LEMMA StaysCurrent ==
    ASSUME NEW s, NEW n, NEW w, Current(s, w),
           \A t \in ProviderTypes : \A i \in 1 .. Len(s.resources[t]) :
               Requested(s.resources[t][i], w) /\ ~s.resources[t][i].deposed =>
                   \E j \in 1 .. Len(n.resources[t]) : Alike(n.resources[t][j], s.resources[t][i])
    PROVE  Current(n, w)
<1>1. PICK t \in ProviderTypes : \E i \in 1 .. Len(s.resources[t]) :
        Requested(s.resources[t][i], w) /\ s.resources[t][i].cfg = w.request.cfg /\ ~s.resources[t][i].deposed
  BY DEF Current
<1>2. PICK i \in 1 .. Len(s.resources[t]) :
        Requested(s.resources[t][i], w) /\ s.resources[t][i].cfg = w.request.cfg /\ ~s.resources[t][i].deposed
  BY <1>1
<1>3. PICK j \in 1 .. Len(n.resources[t]) : Alike(n.resources[t][j], s.resources[t][i])
  BY <1>2
<1>4. Requested(n.resources[t][j], w)
  BY <1>2, <1>3 DEF Alike, SameResource, Requested
<1> QED  BY <1>2, <1>3, <1>4 DEF Current, Alike

\* A request other than the one being served keeps its resources.
LEMMA OthersAreNotAsked ==
    ASSUME NEW r \in RunState, RunInv(r), r.pc = "requests", r.item <= Len(Work[r.config]),
           NEW m \in 1 .. Len(Work[r.config]), m # r.item,
           NEW res, Requested(res, Work[r.config][m])
    PROVE  ~Requested(res, Item(r))
<1> DEFINE c == r.config
           k == r.item
<1>1. c \in ValidConfigs /\ k \in 1 .. Len(Work[c]) /\ Item(r) = Work[c][k] /\ m \in 1 .. Len(Work[c]) /\ m # k
  BY ItemOfWork
<1>2. Requested(res, Work[c][m])
  OBVIOUS
<1> HIDE DEF c, k
<1> SUFFICES ASSUME Requested(res, Work[c][k])
             PROVE  FALSE
  BY <1>1
<1> QED  BY <1>1, <1>2, WorkIsUnique DEF Requested

\* Every step within a run keeps what was served, if a Create gives a credential.
LEMMA WorksServe ==
    ASSUME "create" \notin FaultKinds, NEW r \in RunState, RunInv(r), MarkInv(r), ServeInv(r),
           NEW n, NEW v, NEW w, WorksOn(r, n, v, w)
    PROVE  ServeInv(n)
<1>1. r.pc # "idle" /\ n.pc # "idle" /\ n.config = r.config /\ n.deployment = r.deployment /\ r.item \in Nat
  BY WorksActive DEF RunState
<1>2. \A x : ServiceableItem(n, x) <=> ServiceableItem(r, x)
  BY <1>1 DEF ServiceableItem
<1> SUFFICES ASSUME NEW m \in 1 .. Len(Work[r.config]), Passed(n, m), ServiceableItem(r, Work[r.config][m])
             PROVE  Current(n.state, Work[r.config][m])
  BY <1>1, <1>2 DEF ServeInv
<1> DEFINE x == Work[r.config][m]
<1>3. Passed(r, m) => Current(r.state, x)
  BY <1>1 DEF ServeInv
<1>4. CASE n.state.resources = r.state.resources /\ Passed(r, m)
  BY <1>3, <1>4 DEF Current
<1>5. CASE PassesOver(r, n)
  <2>1. m = r.item \/ Passed(r, m)
    BY <1>1, <1>5 DEF PassesOver, Goes, Passed
  <2>2. m # r.item
    <3>1. r.pc = "requests" /\ r.item <= Len(Work[r.config]) /\ ~Serviceable(r)
      BY <1>5 DEF PassesOver, HasItem, Goes
    <3>2. ~ServiceableItem(r, Item(r))
      BY <3>1, ItemOfWork
    <3> QED  BY <3>2 DEF Item
  <2> QED  BY <1>4, <1>5, <2>1, <2>2 DEF PassesOver
<1>6. CASE LooksUp(r, n)
  <2>1. MarkedOnly(r.state, n.state, Item(r)) /\ Current(r.state, Item(r))
    BY <1>6 DEF LooksUp
  <2>2. m = r.item \/ Passed(r, m)
    BY <1>1, <1>6 DEF LooksUp, Goes, Passed
  <2>3. Current(r.state, x)
    BY <1>3, <2>1, <2>2 DEF Item
  <2>4. ASSUME NEW t \in ProviderTypes, NEW i \in 1 .. Len(r.state.resources[t])
        PROVE  i \in 1 .. Len(n.state.resources[t]) /\ Alike(n.state.resources[t][i], r.state.resources[t][i])
    BY <2>1 DEF MarkedOnly, Alike, SameResource
  <2> HIDE DEF x
  <2>5. Current(n.state, x)
    BY <2>3, <2>4, StaysCurrent
  <2> QED  BY <2>5 DEF x
<1>7. CASE Replaces(r, n)
  <2>1. PICK new \in Resource :
          /\ Requested(new, Item(r)) /\ new.cfg = Item(r).request.cfg /\ ~new.deposed
          /\ Replaced(r.state, n.state, Item(r), new)
    BY <1>7 DEF Replaces
  <2>2. r.pc = "requests" /\ n.pc = "write" /\ n.item = r.item /\ r.item <= Len(Work[r.config])
    BY <1>7 DEF Replaces, Goes, HasItem
  <2>3. CASE m = r.item
    <3>1. Provider(Item(r).request.type) \in ProviderTypes
      BY <2>2, ItemOfWork
    <3> DEFINE P == Provider(Item(r).request.type)
    <3>2. Len(r.state.resources[P]) \in Nat
      BY <3>1, LenProperties DEF RunState, State
    <3>3. /\ Len(r.state.resources[P]) + 1 \in 1 .. Len(n.state.resources[P])
          /\ n.state.resources[P][Len(r.state.resources[P]) + 1] = new
      BY <2>1, <3>1, <3>2 DEF Replaced
    <3>4. Current(n.state, Item(r))
      <4> HIDE DEF P
      <4> QED  BY <2>1, <3>1, <3>3 DEF Current, P
    <3> QED  BY <2>3, <3>4 DEF Item
  <2>4. CASE m # r.item
    <3>1. Passed(r, m)
      BY <1>1, <2>2, <2>4 DEF Passed
    <3>2. ASSUME NEW t \in ProviderTypes, NEW i \in 1 .. Len(r.state.resources[t]),
                 Requested(r.state.resources[t][i], x)
          PROVE  i \in 1 .. Len(n.state.resources[t]) /\ Alike(n.state.resources[t][i], r.state.resources[t][i])
      <4>1. ~Requested(r.state.resources[t][i], Item(r))
        BY <2>2, <2>4, <3>2, OthersAreNotAsked
      <4>2. n.state.resources[t][i] = r.state.resources[t][i]
        BY <2>1, <4>1 DEF Replaced
      <4>3. Len(r.state.resources[t]) \in Nat
        BY LenProperties DEF RunState, State
      <4>4. i \in 1 .. Len(n.state.resources[t])
        BY <2>1, <4>3 DEF Replaced
      <4> QED  BY <4>2, <4>4 DEF Alike, SameResource
    <3>3. Current(r.state, x)
      BY <1>3, <3>1
    <3> HIDE DEF x
    <3>4. Current(n.state, x)
      BY <3>2, <3>3, StaysCurrent
    <3> QED  BY <3>4 DEF x
  <2> QED  BY <2>3, <2>4
<1>8. CASE WritesOne(r, n, v, w)
  BY <1>1, <1>4, <1>8 DEF WritesOne, Goes, Passed
<1>9. CASE StartsCleanUp(r, n) \/ ListsOrphans(r, n) \/ EndsCleanUp(r, n)
           \/ \E t \in ProviderTypes : Keeps(r, n, t)
  BY <1>1, <1>4, <1>9 DEF StartsCleanUp, ListsOrphans, EndsCleanUp, Keeps, Goes, Passed
<1>10. CASE \E c \in StoreConfigs : \E sec \in r.orphans[c] : LeavesOrphan(r, n, c, sec) \/ DropsOrphan(r, n, c, sec, v, w)
  BY <1>1, <1>4, <1>10 DEF LeavesOrphan, DropsOrphan, Unlists, Goes, Passed
<1>11. ASSUME NEW t \in ProviderTypes, Forgets(r, n, t)
       PROVE  Current(n.state, x)
  <2>1. /\ r.pc = "resources" /\ n.pc = "resources" /\ n.item = r.item
        /\ r.left[t] \in 1 .. Len(r.state.resources[t]) /\ ~Kept(r, t)
        /\ WithoutOne(r.state, n.state, t, r.left[t])
    BY <1>11 DEF Forgets, Goes
  <2>2. Passed(r, m) /\ r.state \in State
    BY <2>1 DEF Passed, RunState
  <2>3. MarkedFor(r.state, x)
    BY <2>1, <2>2 DEF MarkInv
  <2>4. \A u \in ProviderTypes : \A j \in 1 .. Len(r.state.resources[u]) :
          ~(u = t /\ j = r.left[t]) =>
              \E i \in 1 .. Len(n.state.resources[u]) : n.state.resources[u][i] = r.state.resources[u][j]
    <3> DEFINE s == r.state
               a == n.state
               k == r.left[t]
    <3>1. s \in State /\ k \in 1 .. Len(s.resources[t]) /\ WithoutOne(s, a, t, k)
      BY <2>1, <2>2
    <3> HIDE DEF s, a, k
    <3>2. Shifted(s, a, t, k)
      BY <3>1, DroppedPlaces
    <3> QED  BY <3>2 DEF Shifted, s, a, k
  <2>5. ASSUME NEW u \in ProviderTypes, NEW j \in 1 .. Len(r.state.resources[u]),
               Requested(r.state.resources[u][j], x), ~r.state.resources[u][j].deposed
        PROVE  \E i \in 1 .. Len(n.state.resources[u]) : Alike(n.state.resources[u][i], r.state.resources[u][j])
    <3>1. r.state.resources[u][j].inUse
      BY <2>3, <2>5 DEF MarkedFor
    <3>2. ~(u = t /\ j = r.left[t])
      BY <2>1, <2>5, <3>1 DEF Kept, Visited
    <3> QED  BY <2>4, <3>2 DEF Alike, SameResource
  <2>6. Current(r.state, x)
    BY <1>3, <2>2
  <2> HIDE DEF x
  <2> QED  BY <2>5, <2>6, StaysCurrent
<1> QED  BY <1>5, <1>6, <1>7, <1>8, <1>9, <1>10, <1>11 DEF WorksOn

\* No run is under way at the start.
LEMMA ServedInvInit == Init => ServedInv
<1> SUFFICES ASSUME Init
             PROVE  ServedInv
  OBVIOUS
<1>1. \A p \in Runs : run[p].pc = "idle"
  BY DEF Init, Idle
<1> QED  BY <1>1, UsedInvInit DEF ServedInv, UsedInv, ServeInv

\* What was served stays served under every step.
LEMMA ServedInvNext ==
    ASSUME "create" \notin FaultKinds, ServedInv, [Next]_vars
    PROVE  ServedInv'
<1>1. NeedInv' /\ Inv
  BY NeedInvStep DEF ServedInv, NeedInv
<1>2. ASSUME NEW p \in Runs, StepBy(p)
      PROVE  ServedInv'
  <2> DEFINE r == run[p]
             n == run'[p]
  <2>1. r \in RunState /\ RunInv(r) /\ MarkInv(r) /\ ServeInv(r)
    BY <1>1 DEF Inv, TypeOK, ServedInv, NeedInv
  <2>2. ServeInv(n)
    <3>1. CASE WorksOn(r, n, vault, vault') /\ saved' = saved
      <4> HIDE DEF n, r
      <4> QED  BY <2>1, <3>1, WorksServe
    <3>2. CASE StartsRun(r, n, saved, saved')
      BY <3>2 DEF StartsRun, ServeInv, Passed
    <3>3. CASE EndsRun(r, n, saved, saved')
      BY <3>3 DEF EndsRun, ServeInv
    <3> QED  BY <1>2, <3>1, <3>2, <3>3 DEF StepBy
  <2>3. \A q \in Runs : ServeInv(run'[q])
    BY <1>2, <2>2 DEF StepBy, ServedInv
  <2> QED  BY <1>1, <2>3 DEF ServedInv
<1>3. CASE UNCHANGED <<vault, saved, run>>
  BY <1>1, <1>3 DEF ServedInv
<1> QED  BY <1>1, <1>2, <1>3, StepByKinds

\* From the end of the request loop to the save, a resource stands for each request
\* that the run can serve.
LEMMA CleanUpKeeps ==
    ASSUME ThereInv, ServedInv, NEW p \in Runs, run[p].pc \in {"resources", "orphans", "save"},
           NEW w, w \in ToSet(Work[run[p].config]), ServiceableItem(run[p], w)
    PROVE  \E t \in ProviderTypes : \E i \in 1 .. Len(run[p].state.resources[t]) :
                /\ Requested(run[p].state.resources[t][i], w)
                /\ run[p].state.resources[t][i].cfg = w.request.cfg
                /\ ~run[p].state.resources[t][i].deposed
                /\ run[p].state.resources[t][i].inUse
                /\ Stands(run[p].state, vault, run[p].state.resources[t][i])
<1> DEFINE r == run[p]
<1>1. r \in RunState /\ RunInv(r) /\ UseInv(r) /\ MarkInv(r) /\ StandingInv(r, vault) /\ ServeInv(r)
      /\ Active(p) /\ r.config \in ValidConfigs
  BY DEF ThereInv, UsedInv, NeedInv, Inv, TypeOK, StandInv, ServedInv, Active, RunInv
<1>2. Work[r.config] \in Seq(WorkItem) /\ Len(Work[r.config]) \in Nat
      /\ \E m \in 1 .. Len(Work[r.config]) : Work[r.config][m] = w
  <2> DEFINE c == r.config
  <2>1. Work[c] \in Seq(WorkItem) /\ w \in ToSet(Work[c])
    BY <1>1, WorkProperties DEF ValidConfigs
  <2> HIDE DEF c
  <2>2. Len(Work[c]) \in Nat /\ \E m \in 1 .. Len(Work[c]) : Work[c][m] = w
    BY <2>1, LenProperties DEF ToSet
  <2> QED  BY <2>1, <2>2 DEF c
<1>3. PICK m \in 1 .. Len(Work[r.config]) : Work[r.config][m] = w
  BY <1>2
<1>4. Current(r.state, w) /\ MarkedFor(r.state, w)
  <2>1. r.item > Len(Work[r.config]) /\ r.item \in Nat
    BY <1>1 DEF MarkInv, RunState
  <2>2. Passed(r, m)
    BY <1>2, <2>1 DEF Passed
  <2> QED  BY <1>1, <1>3, <2>2 DEF ServeInv, MarkInv, Active
<1>5. PICK t \in ProviderTypes : \E i \in 1 .. Len(r.state.resources[t]) :
        /\ Requested(r.state.resources[t][i], w) /\ r.state.resources[t][i].cfg = w.request.cfg
        /\ ~r.state.resources[t][i].deposed
  BY <1>4 DEF Current
<1>6. PICK i \in 1 .. Len(r.state.resources[t]) :
        /\ Requested(r.state.resources[t][i], w) /\ r.state.resources[t][i].cfg = w.request.cfg
        /\ ~r.state.resources[t][i].deposed
  BY <1>5
<1>7. Stands(r.state, vault, r.state.resources[t][i])
  <2>1. Asked(r, r.state.resources[t][i])
    BY <1>6, <1>3 DEF Asked
  <2> QED  BY <1>1, <1>6, <2>1 DEF Needed, StandingInv, Writing
<1>8. r.state.resources[t][i].inUse
  BY <1>4, <1>6 DEF MarkedFor
<1> QED  BY <1>6, <1>7, <1>8

\* So the request has its credential in its undisputed places.
LEMMA CleanUpServes ==
    ASSUME ThereInv, LiveInv, ServedInv, NEW p \in Runs, run[p].pc \in {"resources", "orphans", "save"},
           NEW w, w \in ToSet(Work[run[p].config]), ServiceableItem(run[p], w)
    PROVE  ServedAt(Locs(run[p].config, w) \cap Undisputed, run[p].state, w)
<1>1. RunInv(run[p]) /\ Active(p)
  BY DEF LiveInv, KeyInv, Inv, Active
<1>2. PICK t \in ProviderTypes : \E i \in 1 .. Len(run[p].state.resources[t]) :
        /\ Requested(run[p].state.resources[t][i], w) /\ run[p].state.resources[t][i].cfg = w.request.cfg
        /\ ~run[p].state.resources[t][i].deposed
        /\ Stands(run[p].state, vault, run[p].state.resources[t][i])
  BY CleanUpKeeps
<1> QED  BY <1>1, <1>2, StandingServes

(***************************************************************************)
(* When a run has nothing left but to save, each request that it can serve *)
(* has a credential with the requested config that exists and is in every  *)
(* undisputed place of the request: the clean-up has not touched it        *)
(* (src/sidecred.go:400-441).  So it is for every set of config files and  *)
(* deployments, with one invocation at a time, when no creation and no     *)
(* write fails, and no run is cut off or fails to save.                    *)
(***************************************************************************)
THEOREM RequestsAreServed ==
    ASSUME OneAtATime, FaultKinds \cap {"create", "write", "save", "crash"} = {}
    PROVE  Spec => []EveryRequestIsServed
<1>1. ThereInv /\ [Next]_vars => ThereInv'
  BY ThereInvNext
<1>2. LiveInv /\ [Next]_vars => LiveInv'
  BY LiveInvNext
<1>3. ServedInv /\ [Next]_vars => ServedInv'
  BY ServedInvNext
<1>4. ThereInv /\ LiveInv /\ ServedInv => EveryRequestIsServed
  <2> SUFFICES ASSUME ThereInv, LiveInv, ServedInv, NEW p \in Runs, run[p].pc = "save",
                      NEW w \in ToSet(Work[run[p].config]), ServiceableItem(run[p], w)
               PROVE  ServedAt(Locs(run[p].config, w) \cap Undisputed, run[p].state, w)
    BY DEF EveryRequestIsServed
  <2> QED  BY CleanUpServes
<1> QED  BY <1>1, <1>2, <1>3, <1>4, ThereInvInit, LiveInvInit, ServedInvInit, PTL DEF Spec

-----------------------------------------------------------------------------
(* Rotation and clean-up leave no outage.                                  *)

\* A step of an invocation puts a new credential where another was, or leaves an
\* undisputed place of its requests as it is (src/sidecred.go:375-441).
LEMMA PlacesChange ==
    ASSUME ThereInv, ServedInv, NEW p \in Runs, run[p].pc # "idle", StepBy(p),
           NEW w \in ToSet(Work[run[p].config]), ServiceableItem(run[p], w),
           NEW l \in Locs(run[p].config, w) \cap Undisputed
    PROVE  \/ vault'[l] = vault[l]
           \/ run[p].pc = "write" /\ vault'[l] = Created(run[p]).key
<1> DEFINE r == run[p]
           n == run'[p]
<1>1. r \in RunState /\ RunInv(r) /\ vault \in [Locations -> Nat] /\ UnclaimedInv(r)
      /\ r.config \in ValidConfigs /\ l \in Locations
  BY DEF ThereInv, UsedInv, NeedInv, Inv, TypeOK, StandInv, RunInv, Undisputed
<1>2. CASE vault' = vault
  BY <1>2
<1>3. CASE WritesOne(r, n, vault, vault')
  <2>1. r.pc = "write" /\ (vault' = vault \/ vault' = Stored(r, vault))
    BY <1>3 DEF WritesOne, Goes
  <2> QED  BY <1>1, <2>1 DEF Stored
<1>4. ASSUME NEW c \in StoreConfigs, NEW sec \in r.orphans[c], DropsOrphan(r, n, c, sec, vault, vault')
      PROVE  vault'[l] = vault[l]
  <2>1. r.pc = "orphans" /\ (vault' = [vault EXCEPT ![Location(c, sec.path)] = Nothing] \/ vault' = vault)
    BY <1>4 DEF DropsOrphan, Unlists, Goes
  <2>2. PICK t \in ProviderTypes : \E i \in 1 .. Len(r.state.resources[t]) :
          Requested(r.state.resources[t][i], w) /\ r.state.resources[t][i].cfg = w.request.cfg
    BY <2>1, CleanUpKeeps
  <2>3. PICK i \in 1 .. Len(r.state.resources[t]) :
          Requested(r.state.resources[t][i], w) /\ r.state.resources[t][i].cfg = w.request.cfg
    BY <2>2
  <2>4. PlaceOf(r.state.resources[t][i], l)
    <3>1. PICK m \in 1 .. Len(Work[r.config]) : w = Work[r.config][m]
      BY <1>1, WorkIndex
    <3>2. l \in Undisputed /\ l \in Locs(r.config, w)
      OBVIOUS
    <3> HIDE DEF r
    <3> QED  BY <1>1, <2>3, <3>1, <3>2 DEF PlaceOf
  <2>5. l # Location(c, sec.path)
    BY <1>4, <2>1, <1>1, <2>4 DEF UnclaimedInv
  <2> QED  BY <1>1, <2>1, <2>5
<1> QED  BY <1>2, <1>3, <1>4 DEF StepBy, WorksOn, StartsRun

\* What is written exists (src/sidecred.go:373-380).
LEMMA CreatedIsLive ==
    ASSUME NEW r \in RunState, RunInv(r), r.pc = "write", NEW K, Known(r.state, K), AllLive(r.state, K)
    PROVE  Created(r).key \in 1 .. Len(K) /\ K[Created(r).key].live
<1> DEFINE P == Provider(Item(r).request.type)
           n == Len(r.state.resources[P])
<1>1. /\ r.item \in 1 .. Len(Work[r.config]) /\ P \in ProviderTypes /\ n > 0
  BY ItemOfWork DEF RunInv, WriteInv
<1>2. n \in Nat /\ Created(r) = r.state.resources[P][n]
  BY <1>1, LenProperties DEF RunState, State, Created
<1>3. n \in 1 .. n
  BY <1>1, <1>2
<1> HIDE DEF P
<1> QED  BY <1>1, <1>2, <1>3 DEF Known, AllLive

\* Two resources do not share a key.
LEMMA OwnKeys ==
    ASSUME NEW s, Own(s), NEW t \in ProviderTypes, NEW u \in ProviderTypes,
           NEW i \in 1 .. Len(s.resources[u]), NEW j \in 1 .. Len(s.resources[t]), ~(u = t /\ i = j)
    PROVE  s.resources[u][i].key # s.resources[t][j].key
BY DEF Own

\* A step destroys no credential that an undisputed place of a request of its run holds:
\* only the clean-up destroys, and by then the place holds what the run keeps
\* (src/sidecred.go:400-423).
LEMMA PlacesKeepTheirKeys ==
    ASSUME ThereInv, LiveInv, ServedInv, NEW p \in Runs, run[p].pc # "idle", StepOf(p),
           NEW w \in ToSet(Work[run[p].config]), ServiceableItem(run[p], w),
           NEW l \in Locs(run[p].config, w) \cap Undisputed,
           NEW k \in DOMAIN keys, keys[k].live, run[p].pc = "resources" => k = vault[l]
    PROVE  k \in DOMAIN keys' /\ keys'[k].live
<1> DEFINE r == run[p]
<1>1. r \in RunState /\ RunInv(r) /\ keys \in Seq(Key) /\ Own(r.state) /\ Known(r.state, keys)
      /\ DOMAIN keys = 1 .. Len(keys) /\ Len(keys) \in Nat /\ r.config \in ValidConfigs
  BY LenProperties DEF LiveInv, KeyInv, Inv, TypeOK, Active, RunInv
<1>2. CASE keys' = keys
  BY <1>2
<1>3. ASSUME NEW key \in Key, keys' = Append(keys, key)
      PROVE  k \in DOMAIN keys' /\ keys'[k].live
  <2>1. keys' \in Seq(Key) /\ Len(keys') = Len(keys) + 1 /\ keys'[k] = keys[k]
    BY <1>1, <1>3, AppendProperties
  <2> QED  BY <1>1, <2>1, LenProperties
<1>4. ASSUME NEW t \in ProviderTypes, Drops(p, t), keys' = Destroyed(Visited(r, t))
      PROVE  k \in DOMAIN keys' /\ keys'[k].live
  <2>1. r.pc = "resources" /\ ~Kept(r, t) /\ r.left[t] \in 1 .. Len(r.state.resources[t])
    BY <1>4 DEF Drops
  <2>2. PICK u \in ProviderTypes : \E i \in 1 .. Len(r.state.resources[u]) :
          /\ Requested(r.state.resources[u][i], w) /\ r.state.resources[u][i].cfg = w.request.cfg
          /\ ~r.state.resources[u][i].deposed /\ r.state.resources[u][i].inUse
          /\ Stands(r.state, vault, r.state.resources[u][i])
    BY <2>1, CleanUpKeeps
  <2>3. PICK i \in 1 .. Len(r.state.resources[u]) :
          /\ Requested(r.state.resources[u][i], w) /\ r.state.resources[u][i].cfg = w.request.cfg
          /\ ~r.state.resources[u][i].deposed /\ r.state.resources[u][i].inUse
          /\ Stands(r.state, vault, r.state.resources[u][i])
    BY <2>2
  <2>4. PlaceOf(r.state.resources[u][i], l)
    <3>1. PICK m \in 1 .. Len(Work[r.config]) : w = Work[r.config][m]
      BY <1>1, WorkIndex
    <3>2. l \in Undisputed /\ l \in Locs(r.config, w)
      OBVIOUS
    <3> HIDE DEF r
    <3> QED  BY <1>1, <2>3, <3>1, <3>2 DEF PlaceOf
  <2>5. k = r.state.resources[u][i].key
    BY <2>1, <2>3, <2>4 DEF Stands
  <2>6. ~(u = t /\ i = r.left[t])
    BY <2>1, <2>3 DEF Kept, Visited
  <2>7. k # Visited(r, t).key
    <3> DEFINE s == r.state
               j == r.left[t]
    <3>1. Own(s) /\ i \in 1 .. Len(s.resources[u]) /\ j \in 1 .. Len(s.resources[t]) /\ ~(u = t /\ i = j)
      BY <1>1, <2>1, <2>3, <2>6
    <3>2. k = s.resources[u][i].key /\ Visited(r, t) = s.resources[t][j]
      BY <2>5 DEF Visited
    <3> HIDE DEF r, s, j
    <3>3. s.resources[u][i].key # s.resources[t][j].key
      BY <3>1, OwnKeys
    <3> QED  BY <3>2, <3>3
  <2>8. DOMAIN keys' = DOMAIN keys /\ keys'[k] = keys[k]
    BY <1>1, <1>4, <2>7 DEF Destroyed
  <2> QED  BY <2>8
<1> QED  BY <1>2, <1>3, <1>4 DEF StepOf, Begins, Works, Issues, Ends, Drops, Active

(***************************************************************************)
(* Rotation without an outage (src/sidecred.go:352-441): no step of a run  *)
(* takes an existing credential away from an undisputed place that one of  *)
(* its requests uses, by emptying the place or by destroying what it holds.*)
(* So it is for every set of config files and deployments, with one        *)
(* invocation at a time, when no creation and no write fails, and no run   *)
(* is cut off or fails to save.                                            *)
(***************************************************************************)
THEOREM RotationWithoutOutage ==
    ASSUME OneAtATime, FaultKinds \cap {"create", "write", "save", "crash"} = {}
    PROVE  Spec => NoOutage
<1> DEFINE P == \A p \in Runs : run[p].pc # "idle" =>
                \A w \in ToSet(Work[run[p].config]) : ServiceableItem(run[p], w) =>
                    \A l \in Locs(run[p].config, w) \cap Undisputed : Available(l) => Available(l)'
<1>1. ThereInv /\ [Next]_vars => ThereInv'
  BY ThereInvNext
<1>2. LiveInv /\ [Next]_vars => LiveInv'
  BY LiveInvNext
<1>3. ServedInv /\ [Next]_vars => ServedInv'
  BY ServedInvNext
<1>4. ThereInv /\ LiveInv /\ ServedInv /\ [Next]_vars => P
  <2> SUFFICES ASSUME ThereInv, LiveInv, ServedInv, [Next]_vars, NEW p \in Runs, run[p].pc # "idle",
                      NEW w \in ToSet(Work[run[p].config]), ServiceableItem(run[p], w),
                      NEW l \in Locs(run[p].config, w) \cap Undisputed, Available(l)
               PROVE  Available(l)'
    OBVIOUS
  <2>1. Inv /\ RunInv(run[p]) /\ run[p] \in RunState
        /\ Known(run[p].state, keys) /\ AllLive(run[p].state, keys)
    BY DEF LiveInv, KeyInv, Inv, TypeOK, Active
  <2>2. CASE UNCHANGED <<vault, keys, saved, run>>
    BY <2>2 DEF Available
  <2>3. CASE \E q \in Runs : StepBy(q) /\ StepOf(q)
    <3>1. StepBy(p) /\ StepOf(p)
      BY <2>3 DEF OneAtATime
    <3>2. CASE vault'[l] = vault[l]
      BY <3>1, <3>2, PlacesKeepTheirKeys DEF Available
    <3>3. CASE run[p].pc = "write" /\ vault'[l] = Created(run[p]).key
      <4>1. Created(run[p]).key \in 1 .. Len(keys) /\ keys[Created(run[p]).key].live
        BY <2>1, <3>3, CreatedIsLive
      <4>2. 1 .. Len(keys) = DOMAIN keys
        BY <2>1, LenProperties DEF Inv, TypeOK
      <4> QED  BY <3>1, <3>3, <4>1, <4>2, PlacesKeepTheirKeys DEF Available
    <3> QED  BY <3>1, <3>2, <3>3, PlacesChange
  <2> QED  BY <2>1, <2>2, <2>3, StepByKinds
<1>5. ThereInv /\ LiveInv /\ ServedInv /\ [Next]_vars => [P]_vars
  BY <1>4
<1>6. NoOutage <=> [][P]_vars
  BY DEF NoOutage
<1> HIDE DEF P
<1> QED  BY <1>1, <1>2, <1>3, <1>5, <1>6, ThereInvInit, LiveInvInit, ServedInvInit, PTL DEF Spec
=============================================================================
