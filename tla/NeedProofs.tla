------------------------------- MODULE NeedProofs -------------------------------
(***************************************************************************)
(* Proofs about what an invocation finds to do: it destroys no resource    *)
(* that a request needs, and where nothing is needed it does nothing.      *)
(***************************************************************************)
EXTENDS KeyProofs

\* Every resource that w asks for is in use.
MarkedFor(s, w) ==
    \A t \in ProviderTypes : \A i \in 1 .. Len(s.resources[t]) :
        Requested(s.resources[t][i], w) => s.resources[t][i].inUse

\* No resource lacks a name.
Named(s) == \A t \in ProviderTypes : \A i \in 1 .. Len(s.resources[t]) : s.resources[t][i].id # ""

\* Every resource of n is one of s, and in use if it is in use there.
Carries(s, n) ==
    \A t \in ProviderTypes : \A i \in 1 .. Len(n.resources[t]) :
        \E j \in 1 .. Len(s.resources[t]) :
            /\ SameResource(n.resources[t][i], s.resources[t][j])
            /\ s.resources[t][j].inUse => n.resources[t][i].inUse

\* Process is done with the m-th request, or has the credentials for it.
Passed(r, m) == m < r.item \/ (m = r.item /\ r.pc = "write")

\* What a request asked for stays in use from its look-up to the end of the run.
MarkInv(r) ==
    r.pc # "idle" =>
        /\ r.deployment \in Deployments
        /\ Named(r.state)
        /\ \A m \in 1 .. Len(Work[r.config]) :
            Passed(r, m) /\ ServiceableItem(r, Work[r.config][m])
            => MarkedFor(r.state, Work[r.config][m])
        /\ r.pc \notin {"requests", "write"} => r.item > Len(Work[r.config])

NeedInv == Inv /\ Named(saved) /\ \A p \in Runs : MarkInv(run[p])

-----------------------------------------------------------------------------
(* What each change of a state does to the marks.                          *)

\* Names and marks of a state are kept by what carries its resources on.
LEMMA CarriesMarked ==
    ASSUME NEW s, NEW n, Carries(s, n)
    PROVE  /\ Named(s) => Named(n)
           /\ \A w : MarkedFor(s, w) => MarkedFor(n, w)
<1>1. ASSUME Named(s), NEW t \in ProviderTypes, NEW i \in 1 .. Len(n.resources[t])
      PROVE  n.resources[t][i].id # ""
  <2>1. PICK j \in 1 .. Len(s.resources[t]) : SameResource(n.resources[t][i], s.resources[t][j])
    BY DEF Carries
  <2> QED  BY <1>1, <2>1 DEF Named, SameResource
<1>2. ASSUME NEW w, MarkedFor(s, w), NEW t \in ProviderTypes, NEW i \in 1 .. Len(n.resources[t]),
             Requested(n.resources[t][i], w)
      PROVE  n.resources[t][i].inUse
  <2>1. PICK j \in 1 .. Len(s.resources[t]) :
            /\ SameResource(n.resources[t][i], s.resources[t][j])
            /\ s.resources[t][j].inUse => n.resources[t][i].inUse
    BY DEF Carries
  <2>2. Requested(s.resources[t][j], w)
    BY <1>2, <2>1 DEF Requested, SameResource
  <2> QED  BY <1>2, <2>1, <2>2 DEF MarkedFor
<1> QED  BY <1>1, <1>2 DEF Named, MarkedFor

\* Nothing but the resources matters.
LEMMA SameCarries ==
    ASSUME NEW s, NEW n, n.resources = s.resources
    PROVE  Carries(s, n)
BY DEF Carries, SameResource

\* The look-up marks all that its request asks for, and no mark is lost
\* (src/state.go:103-107).
LEMMA UseMarks ==
    ASSUME NEW rs \in Seq(Resource), NEW w, NEW i \in 1 .. Len(rs)
    PROVE  LET us == Use(rs, w.request.type, w.request.name, w.store) IN
           /\ Len(us) = Len(rs)
           /\ SameResource(us[i], rs[i])
           /\ rs[i].inUse => us[i].inUse
           /\ Requested(us[i], w) => us[i].inUse
<1> DEFINE us == Use(rs, w.request.type, w.request.name, w.store)
<1>1. i \in DOMAIN rs /\ rs[i] \in Resource
  BY LenProperties, ElementOfSeq
<1>2. us[i] = IF Requested(rs[i], w) THEN [rs[i] EXCEPT !.inUse = TRUE] ELSE rs[i]
  BY <1>1 DEF Use, Requested
<1>3. Len(us) = Len(rs) /\ SameResource(us[i], rs[i])
  BY UseProperties
<1> HIDE DEF us
<1>4. CASE Requested(rs[i], w)
  <2>1. us[i] = [rs[i] EXCEPT !.inUse = TRUE]
    BY <1>2, <1>4
  <2>2. us[i].inUse
    BY <1>1, <2>1 DEF Resource
  <2> QED  BY <1>3, <2>2 DEF us
<1>5. CASE ~Requested(rs[i], w)
  <2>1. us[i] = rs[i]
    BY <1>2, <1>5
  <2> QED  BY <1>3, <1>5, <2>1 DEF us
<1> QED  BY <1>4, <1>5

\* The local state after the look-up of a request.
LEMMA LookedMarks ==
    ASSUME NEW r \in RunState, RunInv(r), HasItem(r)
    PROVE  Carries(r.state, Looked(r)) /\ MarkedFor(Looked(r), Item(r))
<1> DEFINE w  == Item(r)
           P  == Provider(w.request.type)
           rs == r.state.resources[P]
           us == Use(rs, w.request.type, w.request.name, w.store)
           n  == Looked(r)
<1>1. P \in ProviderTypes
  BY ItemProperties DEF HasItem, RunInv
<1>2. r.state \in State /\ r.state.resources \in [ProviderTypes -> Seq(Resource)] /\ rs \in Seq(Resource)
  BY <1>1 DEF RunState, State
<1>3. ASSUME NEW i \in 1 .. Len(rs)
      PROVE  /\ SameResource(us[i], rs[i])
             /\ rs[i].inUse => us[i].inUse
             /\ Requested(us[i], w) => us[i].inUse
  <2> HIDE DEF rs, w
  <2> QED  BY <1>2, UseMarks
<1>4. Len(us) = Len(rs)
  <2> HIDE DEF rs, w
  <2> QED  BY <1>2, UseProperties
<1>5. n = [r.state EXCEPT !.resources[P] = us]
  BY DEF Looked, MarkInUse
<1> HIDE DEF us
<1>6. n.resources[P] = us /\ \A t \in ProviderTypes : t # P => n.resources[t] = r.state.resources[t]
  <2> HIDE DEF P, n
  <2>1. n.resources = [r.state.resources EXCEPT ![P] = us]
    BY <1>2, <1>5 DEF State
  <2> QED  BY <1>1, <1>2, <2>1
<1>7. \A t \in ProviderTypes : Sorted(r.state.resources[t], t)
  BY DEF RunInv, ListInv, HasItem
<1> HIDE DEF n, w
<1>8. Carries(r.state, n)
  <2> SUFFICES ASSUME NEW t \in ProviderTypes, NEW i \in 1 .. Len(n.resources[t])
               PROVE  \E j \in 1 .. Len(r.state.resources[t]) :
                        /\ SameResource(n.resources[t][i], r.state.resources[t][j])
                        /\ r.state.resources[t][j].inUse => n.resources[t][i].inUse
    BY DEF Carries
  <2>1. CASE t = P
    <3>1. i \in 1 .. Len(rs) /\ n.resources[t][i] = us[i] /\ r.state.resources[t] = rs
      BY <1>4, <1>6, <2>1
    <3> HIDE DEF rs
    <3> QED  BY <1>3, <3>1
  <2>2. CASE t # P
    BY <1>6, <2>2 DEF SameResource
  <2> QED  BY <2>1, <2>2
<1>9. MarkedFor(n, w)
  <2> SUFFICES ASSUME NEW t \in ProviderTypes, NEW i \in 1 .. Len(n.resources[t]),
                      Requested(n.resources[t][i], w)
               PROVE  n.resources[t][i].inUse
    BY DEF MarkedFor
  <2>1. PICK j \in 1 .. Len(r.state.resources[t]) :
            SameResource(n.resources[t][i], r.state.resources[t][j])
    BY <1>8 DEF Carries
  <2>2. r.state.resources[t][j].type = w.request.type
    BY <2>1 DEF SameResource, Requested
  <2>3. t = P
    BY <1>7, <2>2 DEF Sorted
  <2>4. i \in 1 .. Len(rs) /\ n.resources[t][i] = us[i]
    BY <1>4, <1>6, <2>3
  <2> HIDE DEF rs
  <2> QED  BY <1>3, <2>4
<1> QED  BY <1>8, <1>9 DEF n, w

\* A new resource is in use; those it deposes stay in use.
LEMMA AddMarks ==
    ASSUME NEW rs \in Seq(Resource), NEW res \in Resource,
           NEW i \in 1 .. Len(Append(Depose(rs, res), res))
    PROVE  \/ Append(Depose(rs, res), res)[i] = res
           \/ /\ i \in 1 .. Len(rs)
              /\ SameResource(Append(Depose(rs, res), res)[i], rs[i])
              /\ rs[i].inUse => Append(Depose(rs, res), res)[i].inUse
<1> DEFINE ns == Append(Depose(rs, res), res)
<1>1. Len(rs) \in Nat /\ Len(ns) = Len(rs) + 1 /\ ns[Len(rs) + 1] = res
  BY LenProperties, AddProperties
<1>2. CASE i \in 1 .. Len(rs)
  <2>1. /\ ns[i].type = rs[i].type /\ ns[i].store = rs[i].store /\ ns[i].id = rs[i].id
        /\ ns[i].inUse = rs[i].inUse
    BY <1>2, AddProperties
  <2> QED  BY <1>2, <2>1 DEF SameResource
<1>3. CASE i = Len(rs) + 1
  BY <1>1, <1>3
<1> HIDE DEF ns
<1>4. i \in 1 .. Len(ns)
  BY DEF ns
<1> QED  BY <1>1, <1>2, <1>3, <1>4

\* Adding a resource loses no mark and adds none that is out of use.
LEMMA AddMarked ==
    ASSUME NEW s \in State, NEW res \in Resource, res.inUse, res.id # ""
    PROVE  /\ Named(s) => Named(AddResource(s, res))
           /\ \A w : MarkedFor(s, w) => MarkedFor(AddResource(s, res), w)
<1> DEFINE P  == Provider(res.type)
           rs == s.resources[P]
           ns == Append(Depose(rs, res), res)
           n  == AddResource(s, res)
<1>1. P \in ProviderTypes
  BY ProviderType DEF Resource
<1>2. s.resources \in [ProviderTypes -> Seq(Resource)] /\ rs \in Seq(Resource)
  BY <1>1 DEF State
<1>3. ASSUME NEW i \in 1 .. Len(ns)
      PROVE  \/ ns[i] = res
             \/ /\ i \in 1 .. Len(rs)
                /\ SameResource(ns[i], rs[i])
                /\ rs[i].inUse => ns[i].inUse
  <2> HIDE DEF rs
  <2> QED  BY <1>2, AddMarks
<1>4. n = [s EXCEPT !.resources[P] = ns]
  BY DEF AddResource
<1> HIDE DEF ns, n
<1>5. n.resources[P] = ns /\ \A t \in ProviderTypes : t # P => n.resources[t] = s.resources[t]
  <2> HIDE DEF P
  <2>1. n.resources = [s.resources EXCEPT ![P] = ns]
    BY <1>2, <1>4 DEF State
  <2> QED  BY <1>1, <1>2, <2>1
<1>6. ASSUME NEW t \in ProviderTypes, NEW i \in 1 .. Len(n.resources[t])
      PROVE  \/ n.resources[t][i] = res
             \/ /\ i \in 1 .. Len(s.resources[t])
                /\ SameResource(n.resources[t][i], s.resources[t][i])
                /\ s.resources[t][i].inUse => n.resources[t][i].inUse
  <2>1. CASE t = P
    <3>1. i \in 1 .. Len(ns) /\ n.resources[t] = ns /\ s.resources[t] = rs
      BY <1>5, <2>1
    <3> HIDE DEF rs
    <3> QED  BY <1>3, <3>1
  <2>2. CASE t # P
    BY <1>5, <2>2 DEF SameResource
  <2> QED  BY <2>1, <2>2
<1>7. ASSUME Named(s), NEW t \in ProviderTypes, NEW i \in 1 .. Len(n.resources[t])
      PROVE  n.resources[t][i].id # ""
  BY <1>6, <1>7 DEF Named, SameResource
<1>8. ASSUME NEW w, MarkedFor(s, w), NEW t \in ProviderTypes, NEW i \in 1 .. Len(n.resources[t]),
             Requested(n.resources[t][i], w)
      PROVE  n.resources[t][i].inUse
  BY <1>6, <1>8 DEF MarkedFor, Requested, SameResource
<1> QED  BY <1>7, <1>8 DEF Named, MarkedFor, n

\* Removing a resource loses no other one.
LEMMA DroppedCarries ==
    ASSUME NEW s \in State, NEW n, NEW t \in ProviderTypes, NEW k \in 1 .. Len(s.resources[t]),
           WithoutOne(s, n, t, k)
    PROVE  Carries(s, n)
<1>1. Shifted(s, n, t, k)
  BY DroppedPlaces
<1> SUFFICES ASSUME NEW u \in ProviderTypes, NEW i \in 1 .. Len(n.resources[u])
             PROVE  \E j \in 1 .. Len(s.resources[u]) :
                        /\ SameResource(n.resources[u][i], s.resources[u][j])
                        /\ s.resources[u][j].inUse => n.resources[u][i].inUse
  BY DEF Carries
<1>2. PICK j \in 1 .. Len(s.resources[u]) : n.resources[u][i] = s.resources[u][j]
  BY <1>1 DEF Shifted
<1> QED  BY <1>2 DEF SameResource

-----------------------------------------------------------------------------
(* What a run has passed stays marked.                                     *)

\* A step that keeps names and marks keeps the invariant, if every request it
\* passes is passed over or marked.
LEMMA MarkStep ==
    ASSUME NEW r, NEW n, MarkInv(r), r.pc # "idle",
           n.config = r.config, n.deployment = r.deployment,
           Named(r.state) => Named(n.state),
           \A w : MarkedFor(r.state, w) => MarkedFor(n.state, w),
           \A m \in 1 .. Len(Work[r.config]) :
                Passed(n, m) => \/ Passed(r, m)
                                \/ ~ServiceableItem(r, Work[r.config][m])
                                \/ MarkedFor(n.state, Work[r.config][m]),
           n.pc \notin {"requests", "write"} => n.item > Len(Work[r.config])
    PROVE  MarkInv(n)
<1>1. ASSUME NEW m \in 1 .. Len(Work[r.config]), Passed(n, m), ServiceableItem(n, Work[r.config][m])
      PROVE  MarkedFor(n.state, Work[r.config][m])
  <2>1. ServiceableItem(r, Work[r.config][m])
    BY <1>1 DEF ServiceableItem
  <2>2. CASE Passed(r, m)
    BY <2>1, <2>2 DEF MarkInv
  <2> QED  BY <1>1, <2>1, <2>2
<1> QED  BY <1>1 DEF MarkInv

\* The next item is the only one passed by going on to it.
LEMMA PassesOne ==
    ASSUME NEW r \in RunState, RunInv(r), HasItem(r), NEW n,
           (n.item = r.item + 1 /\ n.pc = "requests") \/ (n.item = r.item /\ n.pc = "write"),
           NEW m \in 1 .. Len(Work[r.config]), Passed(n, m)
    PROVE  Passed(r, m) \/ (m = r.item /\ Work[r.config][m] = Item(r))
<1>1. r.item \in Nat /\ Len(Work[r.config]) \in Nat
  BY WorkProperties DEF RunState, RunInv, HasItem, ValidConfigs
<1> QED  BY <1>1 DEF Passed, Item

\* A request that is passed has its resource marked, and the next one is begun.
LEMMA RequestMarks ==
    ASSUME Inv, NEW p \in Runs, MarkInv(run[p]),
           SkipRequest(p) \/ KeepCredentials(p) \/ CreateCredentials(p) \/ CreateFails(p)
    PROVE  \E n : run' = [run EXCEPT ![p] = n] /\ MarkInv(n)
<1> DEFINE r == run[p]
<1>1. r \in RunState /\ RunInv(r) /\ run \in [Runs -> RunState]
  BY DEF Inv, TypeOK
<1>2. HasItem(r) /\ r.pc = "requests"
  BY DEF SkipRequest, KeepCredentials, CreateCredentials, CreateFails, Satisfied, NeedsCredentials, HasItem
<1>3. Carries(r.state, Looked(r)) /\ MarkedFor(Looked(r), Item(r))
  BY <1>1, <1>2, LookedMarks
<1>4. (Named(r.state) => Named(Looked(r))) /\ \A w : MarkedFor(r.state, w) => MarkedFor(Looked(r), w)
  BY <1>3, CarriesMarked
<1>5. ServiceableItem(r, Item(r)) = Serviceable(r)
  BY DEF ServiceableItem, Serviceable, Store
<1>6. CASE SkipRequest(p)
  <2> DEFINE n == [r EXCEPT !.item = @ + 1]
  <2>1. run' = [run EXCEPT ![p] = n] /\ ~Serviceable(r)
    BY <1>6 DEF SkipRequest
  <2>2. /\ n.item = r.item + 1 /\ n.pc = "requests" /\ n.config = r.config
        /\ n.deployment = r.deployment /\ n.state = r.state
    BY <1>1, <1>2 DEF RunState
  <2> HIDE DEF n
  <2>3. \A m \in 1 .. Len(Work[r.config]) :
            Passed(n, m) => Passed(r, m) \/ ~ServiceableItem(r, Work[r.config][m])
    BY <1>1, <1>2, <1>5, <2>1, <2>2, PassesOne
  <2>4. MarkInv(n)
    BY <1>2, <2>2, <2>3, MarkStep
  <2> QED  BY <2>1, <2>4
<1>7. CASE KeepCredentials(p) \/ CreateFails(p)
  <2> DEFINE n == [r EXCEPT !.item = @ + 1, !.state = Looked(r)]
  <2>1. run' = [run EXCEPT ![p] = n]
    BY <1>7 DEF KeepCredentials, CreateFails
  <2>2. /\ n.item = r.item + 1 /\ n.pc = "requests" /\ n.config = r.config
        /\ n.deployment = r.deployment /\ n.state = Looked(r)
    BY <1>1, <1>2 DEF RunState
  <2> HIDE DEF n
  <2>3. \A m \in 1 .. Len(Work[r.config]) :
            Passed(n, m) => Passed(r, m) \/ MarkedFor(n.state, Work[r.config][m])
    BY <1>1, <1>2, <1>3, <2>2, PassesOne
  <2>4. MarkInv(n)
    BY <1>2, <1>4, <2>2, <2>3, MarkStep
  <2> QED  BY <2>1, <2>4
<1>8. CASE CreateCredentials(p)
  <2> DEFINE res == newResource(Item(r).request, Item(r).store, NewKey(r).exp, Len(keys) + 1)
             n   == [r EXCEPT !.pc = "write", !.state = AddResource(Looked(r), res)]
  <2>1. run' = [run EXCEPT ![p] = n] /\ Serviceable(r)
    BY <1>8 DEF CreateCredentials, NeedsCredentials
  <2>2. Looked(r) \in State
    <3>1. [r EXCEPT !.state = Looked(r)] \in RunState
      BY <1>1, <1>2, LookedInv
    <3>2. [r EXCEPT !.state = Looked(r)].state = Looked(r)
      BY <1>1 DEF RunState
    <3> QED  BY <3>1, <3>2 DEF RunState
  <2>3. Item(r) \in WorkItem /\ Item(r).request \in CredentialRequest /\ Item(r).request.name # ""
    BY <1>1, <1>2, <2>1, ItemProperties DEF HasItem, RunInv, Serviceable
  <2>4. NewKey(r).exp \in Nat /\ Len(keys) + 1 \in Nat
    BY <1>2, NewKeyType
  <2>5. res \in Resource /\ res.inUse /\ res.id # ""
    <3> HIDE DEF NewKey
    <3> QED  BY <2>3, <2>4 DEF newResource, Resource, WorkItem, CredentialRequest
  <2> HIDE DEF res
  <2>6. /\ n.item = r.item /\ n.pc = "write" /\ n.config = r.config
        /\ n.deployment = r.deployment /\ n.state = AddResource(Looked(r), res)
    BY <1>1, <1>2 DEF RunState
  <2> HIDE DEF n
  <2>7. /\ Named(Looked(r)) => Named(AddResource(Looked(r), res))
        /\ \A w : MarkedFor(Looked(r), w) => MarkedFor(AddResource(Looked(r), res), w)
    BY <2>2, <2>5, AddMarked
  <2>8. \A m \in 1 .. Len(Work[r.config]) :
            Passed(n, m) => Passed(r, m) \/ MarkedFor(n.state, Work[r.config][m])
    <3>1. MarkedFor(n.state, Item(r))
      BY <1>3, <2>6, <2>7
    <3>2. \A m \in 1 .. Len(Work[r.config]) :
            Passed(n, m) => Passed(r, m) \/ (m = r.item /\ Work[r.config][m] = Item(r))
      BY <1>1, <1>2, <2>6, PassesOne
    <3> QED  BY <3>1, <3>2
  <2>9. MarkInv(n)
    <3>1. /\ Named(r.state) => Named(n.state)
          /\ \A w : MarkedFor(r.state, w) => MarkedFor(n.state, w)
      BY <1>4, <2>6, <2>7
    <3> QED  BY <1>2, <2>6, <2>8, <3>1, MarkStep
  <2> QED  BY <2>1, <2>9
<1> QED  BY <1>6, <1>7, <1>8

\* Writing a secret takes no mark away.
LEMMA WriteMarks ==
    ASSUME Inv, NEW p \in Runs, MarkInv(run[p]), WriteSecret(p) \/ WriteFails(p)
    PROVE  \E n : run' = [run EXCEPT ![p] = n] /\ MarkInv(n)
<1> DEFINE r == run[p]
           w == NextCredential(r)
<1>1. r \in RunState /\ RunInv(r) /\ r.pc = "write"
  BY DEF Inv, TypeOK, WriteSecret, WriteFails
<1>2. /\ r.config \in ValidConfigs /\ r.item \in Nat \ {0} /\ Len(Work[r.config]) \in Nat
  BY <1>1, WorkProperties DEF RunState, RunInv, ValidConfigs
<1>3. /\ w \in RunState /\ w.state = r.state /\ w.config = r.config /\ w.deployment = r.deployment
      /\ \/ w.pc = "write" /\ w.item = r.item
         \/ w.pc = "requests" /\ w.item = r.item + 1
  <2>1. w \in RunState /\ w.state = r.state
    BY <1>1, NextCredentialInv
  <2> QED  BY <1>1, <2>1 DEF NextCredential, RunState
<1> HIDE DEF w
<1>4. ASSUME NEW n, n.state.resources = r.state.resources, n.pc = w.pc, n.item = w.item,
             n.config = w.config, n.deployment = w.deployment
      PROVE  MarkInv(n)
  <2>1. (Named(r.state) => Named(n.state)) /\ \A x : MarkedFor(r.state, x) => MarkedFor(n.state, x)
    BY <1>4, SameCarries, CarriesMarked
  <2>2. \A m \in 1 .. Len(Work[r.config]) : Passed(n, m) => Passed(r, m)
    BY <1>1, <1>2, <1>3, <1>4 DEF Passed
  <2> QED  BY <1>1, <1>3, <1>4, <2>1, <2>2, MarkStep
<1>5. CASE WriteFails(p)
  <2>1. run' = [run EXCEPT ![p] = w]
    BY <1>5 DEF WriteFails, w
  <2> QED  BY <1>3, <1>4, <2>1
<1>6. CASE WriteSecret(p)
  <2> DEFINE secret == newSecret(Item(r).request.name, PathToWrite(r), Created(r).exp)
             n == [w EXCEPT !.state = AddSecret(@, Store(r), secret)]
  <2>1. run' = [run EXCEPT ![p] = n]
    BY <1>6 DEF WriteSecret, Recorded, w
  <2> HIDE DEF secret
  <2>2. /\ n.state = AddSecret(r.state, Store(r), secret) /\ n.pc = w.pc /\ n.item = w.item
        /\ n.config = w.config /\ n.deployment = w.deployment
    BY <1>3 DEF RunState
  <2>3. AddSecret(r.state, Store(r), secret).resources = r.state.resources
    BY <1>1 DEF AddSecret, RunState, State
  <2> HIDE DEF n
  <2> QED  BY <1>4, <2>1, <2>2, <2>3
<1> QED  BY <1>5, <1>6

\* The clean-up loops keep what is marked and not deposed.
LEMMA CleanUpMarks ==
    ASSUME Inv, NEW p \in Runs, MarkInv(run[p]),
           \/ FinishRequests(p) \/ FinishResources(p) \/ FinishOrphans(p)
           \/ \E t \in ProviderTypes : KeepResource(p, t) \/ DestroyResource(p, t) \/ DestroyFails(p, t)
           \/ \E c \in StoreConfigs : \E sec \in run[p].orphans[c] :
                KeepOrphan(p, c, sec) \/ DeleteOrphan(p, c, sec) \/ DeleteFails(p, c, sec)
    PROVE  \E n : run' = [run EXCEPT ![p] = n] /\ MarkInv(n)
<1> DEFINE r == run[p]
<1>1. r \in RunState /\ RunInv(r) /\ run \in [Runs -> RunState]
  BY DEF Inv, TypeOK
<1>2. r.pc \notin {"idle", "write"}
  BY DEF FinishRequests, FinishResources, FinishOrphans, KeepResource, DestroyResource, DestroyFails,
         Visiting, KeepOrphan, DeleteOrphan, DeleteFails, HasOrphan
<1>3. ASSUME NEW n, Carries(r.state, n.state), n.pc \notin {"idle", "write"}, n.item = r.item,
             n.config = r.config, n.deployment = r.deployment,
             r.pc = "requests" => r.item > Len(Work[r.config])
      PROVE  MarkInv(n)
  <2>1. (Named(r.state) => Named(n.state)) /\ \A x : MarkedFor(r.state, x) => MarkedFor(n.state, x)
    BY <1>3, CarriesMarked
  <2>2. \A m \in 1 .. Len(Work[r.config]) : Passed(n, m) => Passed(r, m)
    BY <1>2, <1>3 DEF Passed
  <2>3. r.item > Len(Work[r.config])
    BY <1>2, <1>3 DEF MarkInv
  <2> QED  BY <1>2, <1>3, <2>1, <2>2, <2>3, MarkStep
<1>4. CASE FinishRequests(p)
  <2> DEFINE n == FinishedRequests(r)
  <2>1. run' = [run EXCEPT ![p] = n] /\ r.item > Len(Work[r.config])
    BY <1>4 DEF FinishRequests, FinishedRequests
  <2>2. /\ n.pc = "resources" /\ n.state = r.state /\ n.item = r.item
        /\ n.config = r.config /\ n.deployment = r.deployment
    BY <1>1 DEF FinishedRequests, RunState
  <2> HIDE DEF n
  <2> QED  BY <1>3, <2>1, <2>2, SameCarries
<1>5. CASE FinishResources(p)
  <2> DEFINE n == FinishedResources(r)
  <2>1. run' = [run EXCEPT ![p] = n] /\ r.pc = "resources"
    BY <1>5 DEF FinishResources, FinishedResources
  <2>2. /\ n.pc = "orphans" /\ n.state = r.state /\ n.item = r.item
        /\ n.config = r.config /\ n.deployment = r.deployment
    BY <1>1 DEF FinishedResources, RunState
  <2> HIDE DEF n
  <2> QED  BY <1>3, <2>1, <2>2, SameCarries
<1>6. CASE FinishOrphans(p)
  <2> DEFINE n == [r EXCEPT !.pc = "save"]
  <2>1. run' = [run EXCEPT ![p] = n] /\ r.pc = "orphans"
    BY <1>6 DEF FinishOrphans
  <2>2. /\ n.pc = "save" /\ n.state = r.state /\ n.item = r.item
        /\ n.config = r.config /\ n.deployment = r.deployment
    BY <1>1 DEF RunState
  <2> HIDE DEF n
  <2> QED  BY <1>3, <2>1, <2>2, SameCarries
<1>7. ASSUME NEW t \in ProviderTypes, KeepResource(p, t)
      PROVE  \E n : run' = [run EXCEPT ![p] = n] /\ MarkInv(n)
  <2> DEFINE n == [r EXCEPT !.left[t] = @ - 1]
  <2>1. run' = [run EXCEPT ![p] = n] /\ r.pc = "resources"
    BY <1>7 DEF KeepResource, Visiting
  <2>2. /\ n.pc = r.pc /\ n.state = r.state /\ n.item = r.item
        /\ n.config = r.config /\ n.deployment = r.deployment
    BY <1>1 DEF RunState
  <2> HIDE DEF n
  <2> QED  BY <1>3, <2>1, <2>2, SameCarries
<1>8. ASSUME NEW t \in ProviderTypes, DestroyResource(p, t) \/ DestroyFails(p, t)
      PROVE  \E n : run' = [run EXCEPT ![p] = n] /\ MarkInv(n)
  <2> DEFINE n == Forget(r, t)
  <2>1. Visiting(r, t) /\ ~Kept(r, t) /\ run' = [run EXCEPT ![p] = n]
    BY <1>8 DEF DestroyResource, DestroyFails
  <2>2. /\ n.pc = r.pc /\ r.pc = "resources" /\ n.item = r.item
        /\ n.config = r.config /\ n.deployment = r.deployment
    BY <1>1, <2>1 DEF Forget, Visiting, RunState
  <2>3. WithoutOne(r.state, n.state, t, r.left[t])
    BY <1>1, <2>1, ForgetInv DEF WithoutOne
  <2>4. r.left[t] \in 1 .. Len(r.state.resources[t]) /\ r.state \in State
    <3>1. r.left[t] <= Len(r.state.resources[t])
      BY <1>1, <2>2 DEF RunInv, ListInv
    <3>2. r.left[t] \in Nat /\ r.left[t] > 0
      BY <1>1, <2>1 DEF RunState, Visiting
    <3>3. Len(r.state.resources[t]) \in Nat
      BY <1>1, LenProperties DEF RunState, State
    <3> QED  BY <1>1, <3>1, <3>2, <3>3 DEF RunState
  <2> HIDE DEF n
  <2>5. Carries(r.state, n.state)
    BY <2>3, <2>4, DroppedCarries
  <2> QED  BY <1>3, <2>1, <2>2, <2>5
<1>9. ASSUME NEW c \in StoreConfigs, NEW sec,
             KeepOrphan(p, c, sec) \/ DeleteOrphan(p, c, sec) \/ DeleteFails(p, c, sec)
      PROVE  \E n : run' = [run EXCEPT ![p] = n] /\ MarkInv(n)
  <2>1. r.pc = "orphans"
    BY <1>9 DEF KeepOrphan, DeleteOrphan, DeleteFails, HasOrphan
  <2>2. CASE KeepOrphan(p, c, sec)
    <3> DEFINE n == [r EXCEPT !.orphans[c] = @ \ {sec}]
    <3>1. run' = [run EXCEPT ![p] = n]
      BY <2>2 DEF KeepOrphan
    <3>2. /\ n.pc = r.pc /\ n.state = r.state /\ n.item = r.item
          /\ n.config = r.config /\ n.deployment = r.deployment
      BY <1>1 DEF RunState
    <3> HIDE DEF n
    <3> QED  BY <1>3, <2>1, <3>1, <3>2, SameCarries
  <2>3. CASE DeleteOrphan(p, c, sec) \/ DeleteFails(p, c, sec)
    <3> DEFINE n == Dropped(r, c, sec)
    <3>1. run' = [run EXCEPT ![p] = n]
      BY <2>3 DEF DeleteOrphan, DeleteFails
    <3>2. /\ n.pc = r.pc /\ n.state = RemoveSecret(r.state, c, sec) /\ n.item = r.item
          /\ n.config = r.config /\ n.deployment = r.deployment
      BY <1>1 DEF Dropped, RunState
    <3>3. RemoveSecret(r.state, c, sec).resources = r.state.resources
      BY <1>1 DEF RemoveSecret, RunState, State
    <3> HIDE DEF n
    <3> QED  BY <1>3, <2>1, <3>1, <3>2, <3>3, SameCarries
  <2> QED  BY <1>9, <2>2, <2>3
<1> QED  BY <1>4, <1>5, <1>6, <1>7, <1>8, <1>9

\* Saving changes no name.
LEMMA PersistedNamed ==
    ASSUME NEW s \in State, Named(s)
    PROVE  Named(Persisted(s))
<1>1. \A t \in ProviderTypes : s.resources[t] \in Seq(Resource)
  BY DEF State
<1>2. \A t \in ProviderTypes : Persisted(s).resources[t] = Unused(s.resources[t])
  BY DEF Persisted, State
<1>3. ASSUME NEW t \in ProviderTypes, NEW i \in 1 .. Len(Persisted(s).resources[t])
      PROVE  Persisted(s).resources[t][i].id # ""
  <2>1. Len(Unused(s.resources[t])) = Len(s.resources[t])
    BY <1>1, UnusedProperties
  <2>2. i \in 1 .. Len(s.resources[t])
    BY <1>2, <1>3, <2>1
  <2>3. SameResource(Unused(s.resources[t])[i], s.resources[t][i])
    BY <1>1, <2>2, UnusedProperties
  <2> QED  BY <1>2, <2>2, <2>3 DEF Named, SameResource
<1> QED  BY <1>3 DEF Named

\* The empty state names nothing, and an invocation starts with no request passed.
LEMMA EmptyNamed == Named(NewState) /\ MarkInv(Idle)
<1>1. \A t \in ProviderTypes : NewState.resources[t] = << >>
  BY DEF NewState
<1> HIDE DEF NewState
<1>2. \A t \in ProviderTypes : Len(NewState.resources[t]) = 0
  BY <1>1
<1>3. Named(NewState)
  <2>1. \A t \in ProviderTypes : \A i \in 1 .. Len(NewState.resources[t]) : FALSE
    BY <1>2
  <2> QED  BY <2>1 DEF Named
<1>4. MarkInv(Idle)
  BY DEF MarkInv, Idle
<1> QED  BY <1>3, <1>4

\* An invocation starts before its first request.
LEMMA EndMarks ==
    ASSUME Inv, NEW p \in Runs, MarkInv(run[p]), Named(saved),
           StartRun(p) \/ Save(p) \/ SaveFails(p) \/ SaveTorn(p) \/ Crash(p)
    PROVE  (\E n : run' = [run EXCEPT ![p] = n] /\ MarkInv(n)) /\ Named(saved')
<1> DEFINE r == run[p]
<1>1. r \in RunState /\ config \in Configs /\ deployment \in Deployments
  BY DEF Inv, TypeOK
<1>2. CASE StartRun(p)
  <2> DEFINE n == Started(config, deployment, saved)
  <2>1. run' = [run EXCEPT ![p] = n] /\ saved' = saved
    BY <1>2 DEF StartRun, Started
  <2>2. /\ n.pc = "requests" /\ n.config = config /\ n.deployment = deployment
        /\ n.state = saved /\ n.item = 1
    BY IdleInv DEF Started, Idle
  <2> HIDE DEF n
  <2>3. Len(Work[config]) \in Nat
    BY <1>1, WorkProperties
  <2>4. \A m \in 1 .. Len(Work[config]) : ~Passed(n, m)
    BY <2>2, <2>3 DEF Passed
  <2>5. MarkInv(n)
    BY <1>1, <2>2, <2>4 DEF MarkInv
  <2> QED  BY <2>1, <2>5
<1>3. CASE Save(p) \/ SaveFails(p) \/ SaveTorn(p) \/ Crash(p)
  <2>1. run' = [run EXCEPT ![p] = Idle] /\ r.pc # "idle" /\ saved' \in {saved, Persisted(r.state), NewState}
    BY <1>3 DEF Save, SaveFails, SaveTorn, Crash
  <2>2. Named(r.state) /\ r.state \in State
    BY <1>1, <2>1 DEF MarkInv, RunState
  <2>3. Named(saved')
    BY <2>1, <2>2, PersistedNamed, EmptyNamed
  <2> QED  BY <2>1, <2>3, EmptyNamed
<1> QED  BY <1>2, <1>3

\* NeedInv is inductive.
LEMMA NeedInvStep == NeedInv /\ [Next]_vars => NeedInv'
<1> SUFFICES ASSUME NeedInv, [Next]_vars PROVE NeedInv'
  OBVIOUS
<1>1. Inv /\ Named(saved) /\ \A p \in Runs : MarkInv(run[p])
  BY DEF NeedInv
<1>2. run \in [Runs -> RunState] /\ Inv'
  BY <1>1, NextInv DEF Inv, TypeOK
<1>3. ASSUME NEW p \in Runs, NEW n, run' = [run EXCEPT ![p] = n], MarkInv(n), Named(saved')
      PROVE  NeedInv'
  <2>1. \A q \in Runs : MarkInv(run'[q])
    BY <1>1, <1>2, <1>3
  <2>2. \A q \in Runs : MarkInv(run[q])'
    BY <2>1 DEF MarkInv, MarkedFor, Named, Passed, ServiceableItem
  <2> QED  BY <1>2, <1>3, <2>2 DEF NeedInv, Named
<1>4. ASSUME NEW p \in Runs, StartRun(p) \/ Proceed(p) \/ Fail(p)
      PROVE  NeedInv'
  <2>1. CASE StartRun(p) \/ Save(p) \/ SaveFails(p) \/ SaveTorn(p) \/ Crash(p)
    BY <1>1, <1>3, <2>1, EndMarks
  <2>2. CASE SkipRequest(p) \/ KeepCredentials(p) \/ CreateCredentials(p) \/ CreateFails(p)
    <3>1. saved' = saved
      BY <2>2 DEF SkipRequest, KeepCredentials, CreateCredentials, CreateFails
    <3> QED  BY <1>1, <1>3, <2>2, <3>1, RequestMarks
  <2>3. CASE WriteSecret(p) \/ WriteFails(p)
    <3>1. saved' = saved
      BY <2>3 DEF WriteSecret, WriteFails
    <3> QED  BY <1>1, <1>3, <2>3, <3>1, WriteMarks
  <2>4. CASE \/ FinishRequests(p) \/ FinishResources(p) \/ FinishOrphans(p)
             \/ \E t \in ProviderTypes : KeepResource(p, t) \/ DestroyResource(p, t) \/ DestroyFails(p, t)
             \/ \E c \in StoreConfigs : \E sec \in run[p].orphans[c] :
                    KeepOrphan(p, c, sec) \/ DeleteOrphan(p, c, sec) \/ DeleteFails(p, c, sec)
    <3>1. saved' = saved
      BY <2>4 DEF FinishRequests, FinishResources, FinishOrphans, KeepResource, DestroyResource,
                  DestroyFails, KeepOrphan, DeleteOrphan, DeleteFails
    <3> QED  BY <1>1, <1>3, <2>4, <3>1, CleanUpMarks
  <2> QED  BY <1>4, <2>1, <2>2, <2>3, <2>4 DEF Proceed, Fail
<1>5. (\E p \in Runs : RejectConfig(p)) \/ Tick \/ EditConfig \/ Redeploy \/ UNCHANGED vars
      => UNCHANGED <<saved, run>>
  BY DEF RejectConfig, Tick, EditConfig, Redeploy, vars
<1>6. ASSUME UNCHANGED <<saved, run>>
      PROVE  NeedInv'
  BY <1>1, <1>2, <1>6 DEF NeedInv, Named, MarkInv, MarkedFor, Passed, ServiceableItem
<1> QED  BY <1>4, <1>5, <1>6 DEF Next

\* In every reachable state, what a request asked for is in use from its look-up
\* to the end of the run, and every resource has a name (src/state.go:97-109,
\* src/sidecred.go:73-78).
THEOREM NeededStayMarked == Spec => []NeedInv
<1>1. Init => NeedInv
  <2> SUFFICES ASSUME Init PROVE NeedInv
    OBVIOUS
  <2>1. saved = NewState /\ \A p \in Runs : run[p] = Idle
    BY DEF Init
  <2> QED  BY <2>1, InitInv, EmptyNamed DEF NeedInv
<1> QED  BY <1>1, NeedInvStep, PTL DEF Spec

\* A step that changes both the keys and the local state of a clean-up destroys
\* the resource the clean-up visits.
LEMMA DestroyStep ==
    ASSUME Inv, Next, NEW p \in Runs, run[p].pc = "resources", keys' # keys, run'[p] # run[p]
    PROVE  \E u \in ProviderTypes : DestroyResource(p, u)
<1>1. run \in [Runs -> RunState]
  BY DEF Inv, TypeOK
<1>2. PICK q \in Runs : StartRun(q) \/ Proceed(q) \/ Fail(q)
  BY DEF Next, RejectConfig, vars, Tick, EditConfig, Redeploy
<1>3. \/ CreateCredentials(q) \/ CreateFails(q)
      \/ \E u \in ProviderTypes : DestroyResource(q, u)
  <2>1. ~StartRun(q)
    BY DEF StartRun
  <2>2. CASE Proceed(q)
    BY <2>2 DEF Proceed, SkipRequest, KeepCredentials, WriteSecret, FinishRequests, FinishResources,
                KeepResource, KeepOrphan, DeleteOrphan, FinishOrphans, Save
  <2>3. CASE Fail(q)
    BY <2>3 DEF Fail, WriteFails, DestroyFails, DeleteFails, SaveFails, SaveTorn, Crash
  <2> QED  BY <1>2, <2>1, <2>2, <2>3
<1>4. \E n : run' = [run EXCEPT ![q] = n]
  BY <1>3 DEF CreateCredentials, CreateFails, DestroyResource
<1>5. p = q
  BY <1>1, <1>4
<1> QED  BY <1>3, <1>5 DEF CreateCredentials, CreateFails, NeedsCredentials, HasItem

\* A request of an enabled store asks for no resource that its run finds out of
\* use: it was passed over for want of a provider or of a name, or it marked the
\* resource.
LEMMA NeededInUse ==
    ASSUME Inv, StoresAreEnabled, NEW p \in Runs, MarkInv(run[p]), run[p].pc = "resources",
           NEW t \in ProviderTypes, t \in run[p].deployment.providers,
           NEW i \in 1 .. Len(run[p].state.resources[t]),
           NEW w \in ToSet(Work[run[p].config]), Requested(run[p].state.resources[t][i], w)
    PROVE  run[p].state.resources[t][i].inUse
<1> DEFINE r == run[p]
           res == r.state.resources[t][i]
<1>1. /\ r \in RunState /\ RunInv(r) /\ r.config \in ValidConfigs /\ r.config \in Configs
      /\ \A u \in ProviderTypes : ListInv(r, u, r.state.resources[u])
  BY DEF Inv, TypeOK, RunInv, ValidConfigs
<1>2. /\ r.deployment \in Deployments /\ Named(r.state) /\ r.item > Len(Work[r.config])
      /\ \A m \in 1 .. Len(Work[r.config]) :
            Passed(r, m) /\ ServiceableItem(r, Work[r.config][m])
            => MarkedFor(r.state, Work[r.config][m])
  BY DEF MarkInv
<1>3. Len(Work[r.config]) \in Nat /\ DOMAIN Work[r.config] = 1 .. Len(Work[r.config]) /\ r.item \in Nat
  BY <1>1, WorkProperties, LenProperties DEF RunState
<1>4. PICK m \in 1 .. Len(Work[r.config]) : w = Work[r.config][m]
  BY <1>3 DEF ToSet
<1>5. Passed(r, m)
  BY <1>2, <1>3 DEF Passed
<1>6. ServiceableItem(r, w)
  <2>1. StoreOf(r.config, w.store).type \in r.deployment.stores
    BY <1>1, <1>2, <1>4 DEF StoresAreEnabled
  <2>2. w.request.name # ""
    BY <1>2 DEF Named, Requested
  <2>3. Provider(w.request.type) = t
    <3>1. Sorted(r.state.resources[t], t)
      BY <1>1 DEF ListInv
    <3>2. Provider(res.type) = t
      BY <3>1 DEF Sorted
    <3> QED  BY <3>2 DEF Requested
  <2> QED  BY <2>1, <2>2, <2>3 DEF ServiceableItem
<1> QED  BY <1>2, <1>4, <1>5, <1>6 DEF MarkedFor

\* For any number of concurrent invocations and failures, and whatever is edited
\* or redeployed meanwhile, a run destroys a resource only when it was replaced
\* or no request of its config asks for it, provided every store a config file
\* uses is of an enabled type (README.md:111-112).  Without the proviso the claim
\* is false: the run disabled_store shows it.
THEOREM NothingNeededIsDestroyed ==
    ASSUME StoresAreEnabled
    PROVE  Spec => DestroysOnlyUnneeded
<1> DEFINE Step ==
        \A p \in Runs, t \in ProviderTypes :
            Visiting(run[p], t) /\ keys' # keys
                /\ run'[p].state.resources[t] # run[p].state.resources[t]
            => \/ Visited(run[p], t).deposed
               \/ \A w \in ToSet(Work[run[p].config]) :
                    ~ /\ Visited(run[p], t).type = w.request.type
                      /\ Visited(run[p], t).id = w.request.name
                      /\ Visited(run[p], t).store = w.store
<1>1. NeedInv /\ [Next]_vars => [Step]_vars
  <2> SUFFICES ASSUME NeedInv, Next, NEW p \in Runs, NEW t \in ProviderTypes,
                      Visiting(run[p], t), keys' # keys,
                      run'[p].state.resources[t] # run[p].state.resources[t],
                      NEW w \in ToSet(Work[run[p].config]), Requested(Visited(run[p], t), w)
               PROVE  Visited(run[p], t).deposed
    BY DEF Requested
  <2> DEFINE r == run[p]
  <2>1. Inv /\ MarkInv(r) /\ r.pc = "resources" /\ r \in RunState /\ RunInv(r) /\ run \in [Runs -> RunState]
    BY DEF NeedInv, Visiting, Inv, TypeOK
  <2>2. PICK u \in ProviderTypes : DestroyResource(p, u)
    BY <2>1, DestroyStep
  <2>3. Visiting(r, u) /\ ~Kept(r, u) /\ run'[p] = Forget(r, u)
    BY <2>1, <2>2 DEF DestroyResource
  <2>4. Forget(r, u).state.resources = [r.state.resources EXCEPT ![u] = RemoveAt(@, r.left[u])]
    BY <2>1, <2>3, ForgetInv
  <2>5. u = t
    <3>1. r.state.resources \in [ProviderTypes -> Seq(Resource)]
      BY <2>1 DEF RunState, State
    <3> QED  BY <2>3, <2>4, <3>1
  <2>6. r.left[t] \in 1 .. Len(r.state.resources[t])
    <3>1. r.left[t] <= Len(r.state.resources[t])
      BY <2>1 DEF RunInv, ListInv
    <3>2. r.left[t] \in Nat /\ r.left[t] > 0
      BY <2>1 DEF RunState, Visiting
    <3>3. Len(r.state.resources[t]) \in Nat
      BY <2>1, LenProperties DEF RunState, State
    <3> QED  BY <3>1, <3>2, <3>3
  <2>7. Visited(r, t).inUse
    BY <2>1, <2>3, <2>5, <2>6, NeededInUse DEF Visited, Kept
  <2> QED  BY <2>3, <2>5, <2>7 DEF Kept
<1> QED  BY <1>1, NeededStayMarked, PTL DEF Spec, DestroysOnlyUnneeded

-----------------------------------------------------------------------------
(* A run that finds nothing to do.                                         *)

\* Local states that are saved as the same state differ in marks only.
LEMMA PersistedFields ==
    ASSUME NEW s \in State
    PROVE  /\ Persisted(s).secrets = s.secrets
           /\ \A t \in ProviderTypes :
                /\ Len(Persisted(s).resources[t]) = Len(s.resources[t])
                /\ \A i \in 1 .. Len(s.resources[t]) :
                     /\ s.resources[t][i] \in Resource
                     /\ Persisted(s).resources[t][i] = [s.resources[t][i] EXCEPT !.inUse = FALSE]
<1>1. \A t \in ProviderTypes : s.resources[t] \in Seq(Resource)
  BY DEF State
<1>2. /\ Persisted(s).secrets = s.secrets
      /\ \A t \in ProviderTypes : Persisted(s).resources[t] = Unused(s.resources[t])
  BY DEF Persisted, State
<1>3. ASSUME NEW t \in ProviderTypes
      PROVE  /\ Len(Unused(s.resources[t])) = Len(s.resources[t])
             /\ \A i \in 1 .. Len(s.resources[t]) :
                  /\ s.resources[t][i] \in Resource
                  /\ Unused(s.resources[t])[i] = [s.resources[t][i] EXCEPT !.inUse = FALSE]
  <2>1. DOMAIN s.resources[t] = 1 .. Len(s.resources[t])
    BY <1>1, LenProperties
  <2> QED  BY <1>1, <2>1, UnusedProperties, ElementOfSeq DEF Unused
<1> QED  BY <1>2, <1>3

\* A look-up changes marks only.
LEMMA UseUnused ==
    ASSUME NEW rs \in Seq(Resource), NEW type, NEW id, NEW store
    PROVE  Unused(Use(rs, type, id, store)) = Unused(rs)
<1> DEFINE us == Use(rs, type, id, store)
<1>1. DOMAIN rs = 1 .. Len(rs) /\ \A i \in 1 .. Len(rs) : rs[i] \in Resource
  BY LenProperties, ElementOfSeq
<1>2. DOMAIN us = DOMAIN rs
  BY DEF Use
<1>3. ASSUME NEW i \in DOMAIN rs
      PROVE  [us[i] EXCEPT !.inUse = FALSE] = [rs[i] EXCEPT !.inUse = FALSE]
  <2>1. us[i] = rs[i] \/ us[i] = [rs[i] EXCEPT !.inUse = TRUE]
    BY DEF Use
  <2>2. rs[i] \in Resource
    BY <1>1
  <2> HIDE DEF us
  <2> QED  BY <2>1, <2>2 DEF Resource
<1> HIDE DEF us
<1>4. Unused(us) = Unused(rs)
  BY <1>2, <1>3 DEF Unused
<1> QED  BY <1>4 DEF us

\* The local state after a look-up is saved as the one before it.
LEMMA LookedQuiet ==
    ASSUME NEW r \in RunState, RunInv(r), HasItem(r)
    PROVE  Persisted(Looked(r)) = Persisted(r.state)
<1> DEFINE w  == Item(r)
           P  == Provider(w.request.type)
           rs == r.state.resources[P]
           us == Use(rs, w.request.type, w.request.name, w.store)
           n  == Looked(r)
<1>1. P \in ProviderTypes
  BY ItemProperties DEF HasItem, RunInv
<1>2. r.state \in State /\ r.state.resources \in [ProviderTypes -> Seq(Resource)] /\ rs \in Seq(Resource)
  BY <1>1 DEF RunState, State
<1>3. Unused(us) = Unused(rs)
  <2> HIDE DEF rs, w
  <2> QED  BY <1>2, UseUnused
<1>4. n = [r.state EXCEPT !.resources[P] = us]
  BY DEF Looked, MarkInUse
<1> HIDE DEF us, n, w
<1>5. n.resources = [r.state.resources EXCEPT ![P] = us]
  <2> HIDE DEF P
  <2> QED  BY <1>2, <1>4 DEF State
<1>6. \A t \in ProviderTypes : Unused(n.resources[t]) = Unused(r.state.resources[t])
  BY <1>1, <1>2, <1>3, <1>5
<1>7. [t \in ProviderTypes |-> Unused(n.resources[t])] = [t \in ProviderTypes |-> Unused(r.state.resources[t])]
  BY <1>6
<1>8. [n EXCEPT !.resources = [t \in ProviderTypes |-> Unused(r.state.resources[t])]]
      = [r.state EXCEPT !.resources = [t \in ProviderTypes |-> Unused(r.state.resources[t])]]
  <2> HIDE DEF P
  <2> QED  BY <1>2, <1>4 DEF State
<1> QED  BY <1>7, <1>8 DEF Persisted, n

\* The request has its credentials where the saved state is up to date.
LEMMA QuietSatisfied ==
    ASSUME Inv, NEW p \in Runs, HasItem(run[p]), Serviceable(run[p]),
           UpToDate(saved, run[p].config, run[p].deployment, now),
           Persisted(run[p].state) = saved
    PROVE  Satisfied(run[p])
<1> DEFINE r == run[p]
           w == Item(r)
<1>1. r \in RunState /\ RunInv(r) /\ r.state \in State /\ now \in Nat
  BY DEF Inv, TypeOK, RunState
<1>2. /\ r.config \in ValidConfigs /\ r.item <= Len(Work[r.config])
      /\ \A t \in ProviderTypes : Sorted(r.state.resources[t], t)
  BY <1>1 DEF RunInv, ListInv, HasItem
<1>3. w \in ToSet(Work[r.config]) /\ w.request \in CredentialRequest
  BY <1>1, <1>2, ItemProperties
<1>4. ServiceableItem([config |-> r.config, deployment |-> r.deployment], w)
      /\ Provider(w.request.type) \in r.deployment.providers
  BY DEF ServiceableItem, Serviceable, Store
<1> HIDE DEF w
<1>5. PICK res \in Resources(saved) :
            /\ Requested(res, w) /\ res.cfg = w.request.cfg /\ res.exp >= now + Window(w.request)
            /\ ~res.deposed
  <2>1. PICK res \in Resources(saved) :
            Requested(res, w) /\ res.cfg = w.request.cfg /\ res.exp >= now + Window(w.request)
    BY <1>3, <1>4 DEF UpToDate
  <2>2. Provider(res.type) \in r.deployment.providers
    BY <1>4, <2>1 DEF Requested
  <2> QED  BY <2>1, <2>2 DEF UpToDate
<1>6. PICK t \in ProviderTypes : res \in ToSet(saved.resources[t])
  BY <1>5 DEF Resources
<1>7. PICK i \in 1 .. Len(r.state.resources[t]) : res = saved.resources[t][i]
  <2>1. saved.resources[t] \in Seq(Resource)
    BY DEF Inv, TypeOK, State
  <2>2. DOMAIN saved.resources[t] = 1 .. Len(saved.resources[t])
    BY <2>1, LenProperties
  <2>3. Len(saved.resources[t]) = Len(r.state.resources[t])
    BY <1>1, PersistedFields
  <2> QED  BY <1>6, <2>2, <2>3 DEF ToSet
<1> DEFINE x == r.state.resources[t][i]
<1>8. x \in Resource /\ res = [x EXCEPT !.inUse = FALSE]
  BY <1>1, <1>7, PersistedFields
<1>9. x \in ToSet(r.state.resources[t])
  <2>1. DOMAIN r.state.resources[t] = 1 .. Len(r.state.resources[t])
    BY <1>1, LenProperties DEF State
  <2> QED  BY <2>1 DEF ToSet
<1>10. Provider(x.type) = t
  BY <1>2 DEF Sorted
<1> HIDE DEF x
<1>11. /\ x.type = w.request.type /\ x.id = w.request.name /\ x.store = w.store
       /\ x.cfg = w.request.cfg /\ ~x.deposed /\ x.exp = res.exp
  BY <1>5, <1>8 DEF Requested, Resource
<1>12. x \in FoundResources(r)
  BY <1>9, <1>10, <1>11 DEF FoundResources, ResourcesByID, w
<1>13. x.exp - Window(w.request) >= now
  <2>1. Window(w.request) \in Nat /\ x.exp \in Nat
    BY <1>3, <1>8, BoundsAssumption DEF Window, CredentialRequest, Resource
  <2>2. x.exp >= now + Window(w.request)
    BY <1>5, <1>11
  <2> HIDE DEF r
  <2> QED  BY <1>1, <2>1, <2>2
<1>14. hasValidCredentials(w.request, x, now)
  BY <1>11, <1>13 DEF hasValidCredentials
<1> QED  BY <1>12, <1>14 DEF Satisfied, w

\* The clean-up keeps every resource of a state that is up to date.
LEMMA QuietKept ==
    ASSUME Inv, NEW p \in Runs, MarkInv(run[p]), NEW t \in ProviderTypes, Visiting(run[p], t),
           UpToDate(saved, run[p].config, run[p].deployment, now),
           Persisted(run[p].state) = saved
    PROVE  Kept(run[p], t)
<1> SUFFICES ASSUME t \in run[p].deployment.providers
             PROVE  Visited(run[p], t).inUse /\ ~Visited(run[p], t).deposed
  BY DEF Kept
<1> DEFINE r == run[p]
           i == r.left[t]
           x == Visited(r, t)
           y == saved.resources[t][i]
<1>1. r \in RunState /\ RunInv(r) /\ r.state \in State /\ r.pc = "resources" /\ r.config \in Configs
  BY DEF Inv, TypeOK, RunState, Visiting, RunInv, ValidConfigs
<1>2. i \in 1 .. Len(r.state.resources[t])
  <2>1. i <= Len(r.state.resources[t])
    BY <1>1 DEF RunInv, ListInv
  <2>2. i \in Nat /\ i > 0
    BY <1>1 DEF RunState, Visiting
  <2>3. Len(r.state.resources[t]) \in Nat
    BY <1>1, LenProperties DEF State
  <2> QED  BY <2>1, <2>2, <2>3
<1>3. x \in Resource /\ y = [x EXCEPT !.inUse = FALSE] /\ x = r.state.resources[t][i]
  BY <1>1, <1>2, PersistedFields DEF Visited
<1>4. Provider(x.type) = t
  <2>1. Sorted(r.state.resources[t], t)
    BY <1>1 DEF RunInv, ListInv
  <2> QED  BY <1>2, <1>3, <2>1 DEF Sorted
<1>5. y \in Resources(saved)
  <2>1. saved.resources[t] \in Seq(Resource)
    BY DEF Inv, TypeOK, State
  <2>2. Len(saved.resources[t]) = Len(r.state.resources[t])
    BY <1>1, PersistedFields
  <2>3. i \in DOMAIN saved.resources[t]
    BY <1>2, <2>1, <2>2, LenProperties
  <2> QED  BY <2>3 DEF Resources, ToSet
<1> HIDE DEF x, y, i
<1>6. y.type = x.type /\ y.id = x.id /\ y.store = x.store /\ y.deposed = x.deposed
  BY <1>3 DEF Resource
<1>7. PICK w \in ToSet(Work[r.config]) :
            /\ ServiceableItem([config |-> r.config, deployment |-> r.deployment], w)
            /\ Requested(y, w) /\ ~y.deposed
  BY <1>4, <1>5, <1>6 DEF UpToDate
<1>8. PICK m \in 1 .. Len(Work[r.config]) : w = Work[r.config][m]
  <2>1. DOMAIN Work[r.config] = 1 .. Len(Work[r.config])
    BY <1>1, WorkProperties, LenProperties
  <2> QED  BY <2>1 DEF ToSet
<1>9. Passed(r, m)
  <2>1. r.item > Len(Work[r.config]) /\ r.item \in Nat /\ Len(Work[r.config]) \in Nat
    BY <1>1, WorkProperties DEF MarkInv, RunState
  <2> QED  BY <2>1 DEF Passed
<1>10. ServiceableItem(r, w) /\ Requested(x, w)
  BY <1>6, <1>7 DEF ServiceableItem, Requested
<1>11. MarkedFor(r.state, w)
  BY <1>1, <1>8, <1>9, <1>10 DEF MarkInv
<1>12. x.inUse
  BY <1>2, <1>3, <1>10, <1>11 DEF MarkedFor
<1> QED  BY <1>6, <1>7, <1>12 DEF x

\* Orphans do not depend on marks.
LEMMA QuietOrphans ==
    ASSUME NEW s \in State, NEW c
    PROVE  ListOrphanedSecrets(Persisted(s), c) = ListOrphanedSecrets(s, c)
<1> DEFINE n == Persisted(s)
<1>1. /\ n.secrets = s.secrets
      /\ \A t \in ProviderTypes :
            /\ Len(n.resources[t]) = Len(s.resources[t])
            /\ \A i \in 1 .. Len(s.resources[t]) :
                 /\ s.resources[t][i] \in Resource
                 /\ n.resources[t][i] = [s.resources[t][i] EXCEPT !.inUse = FALSE]
  BY PersistedFields
<1>2. n \in State
  <2>1. \A t \in ProviderTypes : Unused(s.resources[t]) \in Seq(Resource)
    BY UnusedProperties DEF State
  <2> QED  BY <2>1 DEF Persisted, State
<1> HIDE DEF n
<1>3. \A t \in ProviderTypes : /\ DOMAIN s.resources[t] = 1 .. Len(s.resources[t])
                               /\ DOMAIN n.resources[t] = 1 .. Len(s.resources[t])
  BY <1>1, <1>2, LenProperties DEF State
<1>4. ASSUME NEW t \in ProviderTypes, NEW i \in 1 .. Len(s.resources[t])
      PROVE  n.resources[t][i].id = s.resources[t][i].id
  <2> DEFINE x == s.resources[t][i]
  <2>1. x \in Resource /\ n.resources[t][i] = [x EXCEPT !.inUse = FALSE]
    BY <1>1
  <2> HIDE DEF x
  <2>2. n.resources[t][i].id = x.id
    BY <2>1 DEF Resource
  <2> QED  BY <2>2 DEF x
<1>5. ASSUME NEW t \in ProviderTypes
      PROVE  {x.id : x \in ToSet(n.resources[t])} = {x.id : x \in ToSet(s.resources[t])}
  <2> DEFINE I == 1 .. Len(s.resources[t])
  <2>1. /\ ToSet(n.resources[t]) = {n.resources[t][i] : i \in I}
        /\ ToSet(s.resources[t]) = {s.resources[t][i] : i \in I}
    BY <1>3 DEF ToSet
  <2>2. \A i \in I : n.resources[t][i].id = s.resources[t][i].id
    BY <1>4
  <2> HIDE DEF I
  <2> QED  BY <2>1, <2>2
<1>6. ResourceIDs(n) = ResourceIDs(s)
  <2>1. ResourceIDs(n) = UNION {{x.id : x \in ToSet(n.resources[t])} : t \in ProviderTypes}
    BY DEF ResourceIDs
  <2>2. ResourceIDs(s) = UNION {{x.id : x \in ToSet(s.resources[t])} : t \in ProviderTypes}
    BY DEF ResourceIDs
  <2> QED  BY <1>5, <2>1, <2>2
<1> QED  BY <1>1, <1>6 DEF ListOrphanedSecrets, n

\* The local state of a run that finds the saved state s up to date.
QuietRun(r, s) ==
    /\ Persisted(r.state) = s
    /\ r.pc # "write"
    /\ r.pc = "orphans" => \A c \in StoreConfigs : c.type \in r.deployment.stores => r.orphans[c] = {}

\* A run that finds nothing to do goes on finding nothing to do.
LEMMA QuietStep ==
    ASSUME Inv, NEW p \in Runs, MarkInv(run[p]), Active(p), "torn" \notin FaultKinds,
           UpToDate(saved, run[p].config, run[p].deployment, now), QuietRun(run[p], saved),
           Proceed(p) \/ Fail(p)
    PROVE  /\ UNCHANGED <<keys, vault, saved>>
           /\ \E n : /\ run' = [run EXCEPT ![p] = n]
                     /\ \/ n.pc = "idle"
                        \/ /\ n.config = run[p].config /\ n.deployment = run[p].deployment
                           /\ QuietRun(n, saved)
<1> DEFINE r == run[p]
           Same(n) == n.config = r.config /\ n.deployment = r.deployment
           Goal == /\ UNCHANGED <<keys, vault, saved>>
                   /\ \E n : /\ run' = [run EXCEPT ![p] = n]
                             /\ n.pc = "idle" \/ (Same(n) /\ QuietRun(n, saved))
<1> SUFFICES Goal
  OBVIOUS
<1>1. r \in RunState /\ RunInv(r) /\ r.state \in State /\ run \in [Runs -> RunState]
  BY DEF Inv, TypeOK, RunState
<1>2. Persisted(r.state) = saved /\ r.pc # "write"
  BY DEF QuietRun
<1>3. ~(CreateCredentials(p) \/ CreateFails(p))
  BY <1>2, QuietSatisfied DEF CreateCredentials, CreateFails, NeedsCredentials
<1>4. ~(WriteSecret(p) \/ WriteFails(p))
  BY <1>2 DEF WriteSecret, WriteFails
<1>5. \A t \in ProviderTypes : ~(DestroyResource(p, t) \/ DestroyFails(p, t))
  BY <1>2, QuietKept DEF DestroyResource, DestroyFails
<1>6. \A c \in StoreConfigs : \A sec : ~(DeleteOrphan(p, c, sec) \/ DeleteFails(p, c, sec))
  BY DEF DeleteOrphan, DeleteFails, HasOrphan, QuietRun
<1>7. ASSUME NEW n, run' = [run EXCEPT ![p] = n], UNCHANGED <<keys, vault, saved>>,
             Same(n), Persisted(n.state) = saved, n.pc \notin {"write", "orphans"}
      PROVE  Goal
  BY <1>7 DEF QuietRun
<1>8. CASE SkipRequest(p)
  <2> DEFINE n == [r EXCEPT !.item = @ + 1]
  <2>1. run' = [run EXCEPT ![p] = n] /\ UNCHANGED <<keys, vault, saved>> /\ r.pc = "requests"
    BY <1>8 DEF SkipRequest, HasItem
  <2>2. n.config = r.config /\ n.deployment = r.deployment /\ n.state = r.state /\ n.pc = r.pc
    BY <1>1 DEF RunState
  <2> HIDE DEF n
  <2> QED  BY <1>2, <1>7, <2>1, <2>2
<1>9. CASE KeepCredentials(p)
  <2> DEFINE n == [r EXCEPT !.item = @ + 1, !.state = Looked(r)]
  <2>1. run' = [run EXCEPT ![p] = n] /\ UNCHANGED <<keys, vault, saved>> /\ HasItem(r) /\ r.pc = "requests"
    BY <1>9 DEF KeepCredentials, Satisfied, HasItem
  <2>2. n.config = r.config /\ n.deployment = r.deployment /\ n.state = Looked(r) /\ n.pc = r.pc
    BY <1>1 DEF RunState
  <2> HIDE DEF n
  <2> QED  BY <1>1, <1>2, <1>7, <2>1, <2>2, LookedQuiet
<1>10. CASE FinishRequests(p)
  <2> DEFINE n == FinishedRequests(r)
  <2>1. run' = [run EXCEPT ![p] = n] /\ UNCHANGED <<keys, vault, saved>>
    BY <1>10 DEF FinishRequests, FinishedRequests
  <2>2. n.config = r.config /\ n.deployment = r.deployment /\ n.state = r.state /\ n.pc = "resources"
    BY <1>1 DEF RunState, FinishedRequests
  <2> HIDE DEF n
  <2> QED  BY <1>2, <1>7, <2>1, <2>2
<1>11. ASSUME NEW t \in ProviderTypes, KeepResource(p, t)
       PROVE  Goal
  <2> DEFINE n == [r EXCEPT !.left[t] = @ - 1]
  <2>1. run' = [run EXCEPT ![p] = n] /\ UNCHANGED <<keys, vault, saved>> /\ r.pc = "resources"
    BY <1>11 DEF KeepResource, Visiting
  <2>2. n.config = r.config /\ n.deployment = r.deployment /\ n.state = r.state /\ n.pc = r.pc
    BY <1>1 DEF RunState
  <2> HIDE DEF n
  <2> QED  BY <1>2, <1>7, <2>1, <2>2
<1>12. CASE FinishResources(p)
  <2> DEFINE n == FinishedResources(r)
  <2>1. run' = [run EXCEPT ![p] = n] /\ UNCHANGED <<keys, vault, saved>>
    BY <1>12 DEF FinishResources, FinishedResources
  <2>2. /\ n.config = r.config /\ n.deployment = r.deployment /\ n.state = r.state /\ n.pc = "orphans"
        /\ \A c \in StoreConfigs : n.orphans[c] = ListOrphanedSecrets(r.state, c)
    BY <1>1 DEF RunState, FinishedResources
  <2>3. \A c \in StoreConfigs : c.type \in r.deployment.stores => ListOrphanedSecrets(saved, c) = {}
    BY DEF UpToDate
  <2>4. \A c \in StoreConfigs : ListOrphanedSecrets(saved, c) = ListOrphanedSecrets(r.state, c)
    BY <1>1, <1>2, QuietOrphans
  <2> HIDE DEF n
  <2>5. QuietRun(n, saved)
    BY <1>2, <2>2, <2>3, <2>4 DEF QuietRun
  <2> QED  BY <2>1, <2>2, <2>5
<1>13. ASSUME NEW c \in StoreConfigs, NEW sec, KeepOrphan(p, c, sec)
       PROVE  Goal
  <2> DEFINE n == [r EXCEPT !.orphans[c] = @ \ {sec}]
  <2>1. /\ run' = [run EXCEPT ![p] = n] /\ UNCHANGED <<keys, vault, saved>> /\ r.pc = "orphans"
        /\ c.type \notin r.deployment.stores
    BY <1>13 DEF KeepOrphan, HasOrphan
  <2>2. /\ n.config = r.config /\ n.deployment = r.deployment /\ n.state = r.state /\ n.pc = r.pc
        /\ \A d \in StoreConfigs : d # c => n.orphans[d] = r.orphans[d]
    BY <1>1 DEF RunState
  <2> HIDE DEF n
  <2>3. QuietRun(n, saved)
    BY <2>1, <2>2 DEF QuietRun
  <2> QED  BY <2>1, <2>2, <2>3
<1>14. CASE FinishOrphans(p)
  <2> DEFINE n == [r EXCEPT !.pc = "save"]
  <2>1. run' = [run EXCEPT ![p] = n] /\ UNCHANGED <<keys, vault, saved>>
    BY <1>14 DEF FinishOrphans
  <2>2. n.config = r.config /\ n.deployment = r.deployment /\ n.state = r.state /\ n.pc = "save"
    BY <1>1 DEF RunState
  <2> HIDE DEF n
  <2> QED  BY <1>2, <1>7, <2>1, <2>2
<1>15. CASE Save(p) \/ SaveFails(p) \/ Crash(p)
  <2>1. run' = [run EXCEPT ![p] = Idle] /\ UNCHANGED <<keys, vault, saved>>
    BY <1>2, <1>15 DEF Save, SaveFails, Crash
  <2>2. Idle.pc = "idle"
    BY DEF Idle
  <2> QED  BY <2>1, <2>2
<1>16. ~SaveTorn(p)
  BY DEF SaveTorn, Fault
<1> HIDE DEF Goal
<1>17. CASE Proceed(p)
  BY <1>3, <1>4, <1>5, <1>6, <1>8, <1>9, <1>10, <1>11, <1>12, <1>13, <1>14, <1>15, <1>17 DEF Proceed
<1>18. CASE Fail(p)
  BY <1>3, <1>4, <1>5, <1>6, <1>15, <1>16, <1>18 DEF Fail
<1> QED  BY <1>17, <1>18

\* A run keeps the config and the deployment it started with, and until it ends
\* it leaves the state file alone.
LEMMA RunStays ==
    ASSUME Inv, NEW p \in Runs, Proceed(p) \/ Fail(p), Persisted(saved) = saved
    PROVE  /\ now' = now
           /\ Persisted(saved') = saved'
           /\ \E n : /\ run' = [run EXCEPT ![p] = n]
                     /\ \/ n.pc = "idle"
                        \/ /\ n.config = run[p].config /\ n.deployment = run[p].deployment
                           /\ saved' = saved
<1> DEFINE r == run[p]
           Goal == /\ now' = now
                   /\ Persisted(saved') = saved'
                   /\ \E n : /\ run' = [run EXCEPT ![p] = n]
                             /\ \/ n.pc = "idle"
                                \/ n.config = r.config /\ n.deployment = r.deployment /\ saved' = saved
<1> SUFFICES Goal
  OBVIOUS
<1>1. r \in RunState /\ RunInv(r) /\ r.state \in State
  BY DEF Inv, TypeOK, RunState
<1>2. ASSUME NEW n, run' = [run EXCEPT ![p] = n], n.config = r.config, n.deployment = r.deployment,
             saved' = saved, now' = now
      PROVE  Goal
  BY <1>2
<1>3. CASE SkipRequest(p)
  <2> DEFINE n == [r EXCEPT !.item = @ + 1]
  <2>1. run' = [run EXCEPT ![p] = n] /\ saved' = saved /\ now' = now
    BY <1>3 DEF SkipRequest, external
  <2>2. n.config = r.config /\ n.deployment = r.deployment
    BY <1>1 DEF RunState
  <2> HIDE DEF n, Goal
  <2> QED  BY <1>2, <2>1, <2>2
<1>4. CASE KeepCredentials(p) \/ CreateFails(p)
  <2> DEFINE n == [r EXCEPT !.item = @ + 1, !.state = Looked(r)]
  <2>1. run' = [run EXCEPT ![p] = n] /\ saved' = saved /\ now' = now
    BY <1>4 DEF KeepCredentials, CreateFails, external
  <2>2. n.config = r.config /\ n.deployment = r.deployment
    BY <1>1 DEF RunState
  <2> HIDE DEF n, Goal
  <2> QED  BY <1>2, <2>1, <2>2
<1>5. CASE CreateCredentials(p)
  <2> DEFINE s == AddResource(Looked(r),
                    newResource(Item(r).request, Item(r).store, NewKey(r).exp, Len(keys) + 1))
             n == [r EXCEPT !.pc = "write", !.state = s]
  <2>1. run' = [run EXCEPT ![p] = n] /\ saved' = saved /\ now' = now
    BY <1>5 DEF CreateCredentials, external
  <2> HIDE DEF s
  <2>2. n.config = r.config /\ n.deployment = r.deployment
    BY <1>1 DEF RunState
  <2> HIDE DEF n, Goal
  <2> QED  BY <1>2, <2>1, <2>2
<1>6. CASE WriteSecret(p) \/ WriteFails(p)
  <2> DEFINE w == NextCredential(r)
             s == AddSecret(w.state, Store(r),
                    newSecret(Item(r).request.name, PathToWrite(r), Created(r).exp))
             n == [w EXCEPT !.state = s]
  <2>1. run' \in {[run EXCEPT ![p] = w], [run EXCEPT ![p] = n]} /\ saved' = saved /\ now' = now
    BY <1>6 DEF WriteSecret, WriteFails, Recorded, external
  <2>2. w \in RunState
    BY <1>1, <1>6, NextCredentialInv DEF WriteSecret, WriteFails
  <2>3. w.config = r.config /\ w.deployment = r.deployment
    BY <1>1 DEF NextCredential, RunState
  <2> HIDE DEF w, s
  <2>4. n.config = r.config /\ n.deployment = r.deployment
    BY <2>2, <2>3 DEF RunState
  <2> HIDE DEF n, Goal
  <2> QED  BY <1>2, <2>1, <2>3, <2>4
<1>7. CASE FinishRequests(p) \/ FinishResources(p) \/ FinishOrphans(p)
  <2> DEFINE a == FinishedRequests(r)
             b == FinishedResources(r)
             d == [r EXCEPT !.pc = "save"]
  <2>1. /\ \E n \in {a, b, d} : run' = [run EXCEPT ![p] = n]
        /\ saved' = saved /\ now' = now
    BY <1>7 DEF FinishRequests, FinishResources, FinishOrphans, FinishedRequests, FinishedResources, external
  <2>2. \A n \in {a, b, d} : n.config = r.config /\ n.deployment = r.deployment
    BY <1>1 DEF RunState, FinishedRequests, FinishedResources
  <2> HIDE DEF a, b, d, Goal
  <2> QED  BY <1>2, <2>1, <2>2
<1>8. ASSUME NEW t \in ProviderTypes, KeepResource(p, t) \/ DestroyResource(p, t) \/ DestroyFails(p, t)
      PROVE  Goal
  <2> DEFINE a == [r EXCEPT !.left[t] = @ - 1]
             b == Forget(r, t)
  <2>1. /\ \E n \in {a, b} : run' = [run EXCEPT ![p] = n]
        /\ saved' = saved /\ now' = now
    BY <1>8 DEF KeepResource, DestroyResource, DestroyFails, external
  <2>2. \A n \in {a, b} : n.config = r.config /\ n.deployment = r.deployment
    BY <1>1 DEF RunState, Forget
  <2> HIDE DEF a, b, Goal
  <2> QED  BY <1>2, <2>1, <2>2
<1>9. ASSUME NEW c \in StoreConfigs, NEW sec,
             KeepOrphan(p, c, sec) \/ DeleteOrphan(p, c, sec) \/ DeleteFails(p, c, sec)
      PROVE  Goal
  <2> DEFINE a == [r EXCEPT !.orphans[c] = @ \ {sec}]
             b == Dropped(r, c, sec)
  <2>1. /\ \E n \in {a, b} : run' = [run EXCEPT ![p] = n]
        /\ saved' = saved /\ now' = now
    BY <1>9 DEF KeepOrphan, DeleteOrphan, DeleteFails, external
  <2>2. \A n \in {a, b} : n.config = r.config /\ n.deployment = r.deployment
    BY <1>1 DEF RunState, Dropped
  <2> HIDE DEF a, b, Goal
  <2> QED  BY <1>2, <2>1, <2>2
<1>10. CASE Save(p) \/ SaveFails(p) \/ SaveTorn(p) \/ Crash(p)
  <2>1. run' = [run EXCEPT ![p] = Idle] /\ saved' \in {saved, Persisted(r.state), NewState} /\ now' = now
    BY <1>10 DEF Save, SaveFails, SaveTorn, Crash, external
  <2>2. Idle.pc = "idle"
    BY DEF Idle
  <2> QED  BY <1>1, <2>1, <2>2, PersistedTwice, EmptyQuiet
<1> HIDE DEF Goal, r
<1>11. CASE Proceed(p)
  BY <1>3, <1>4, <1>5, <1>6, <1>7, <1>8, <1>9, <1>10, <1>11 DEF Proceed
<1>12. CASE Fail(p)
  BY <1>4, <1>6, <1>8, <1>9, <1>10, <1>12 DEF Fail
<1> QED  BY <1>11, <1>12

\* The inductive invariant: the state file is one that saving does not change, and a
\* run with nothing to do is where QuietRun says.
QuietInv ==
    /\ NeedInv
    /\ Persisted(saved) = saved
    /\ \A p \in Runs : Active(p) /\ UpToDate(saved, run[p].config, run[p].deployment, now)
                       => QuietRun(run[p], saved)

\* What is up to date later was up to date before.
LEMMA UpToDateBefore ==
    ASSUME NEW before \in Nat, NEW after \in Nat, before <= after, NEW s \in State,
           NEW c \in Configs, NEW d, UpToDate(s, c, d, after)
    PROVE  UpToDate(s, c, d, before)
<1> DEFINE items == {w \in ToSet(Work[c]) : ServiceableItem([config |-> c, deployment |-> d], w)}
<1>1. ASSUME NEW w \in items
      PROVE  \E res \in Resources(s) :
                /\ Requested(res, w)
                /\ res.cfg = w.request.cfg
                /\ res.exp >= before + Window(w.request)
  <2>1. PICK res \in Resources(s) :
                /\ Requested(res, w)
                /\ res.cfg = w.request.cfg
                /\ res.exp >= after + Window(w.request)
    BY <1>1 DEF UpToDate
  <2>2. w \in WorkItem
    <3>1. Work[c] \in Seq(WorkItem)
      BY WorkProperties
    <3> QED  BY <3>1, LenProperties, ElementOfSeq DEF ToSet
  <2>3. res \in Resource
    <3>1. PICK t \in ProviderTypes : res \in ToSet(s.resources[t])
      BY DEF Resources
    <3>2. s.resources[t] \in Seq(Resource)
      BY DEF State
    <3> QED  BY <3>1, <3>2, LenProperties, ElementOfSeq DEF ToSet
  <2>4. Window(w.request) \in Nat /\ res.exp \in Nat
    BY <2>2, <2>3, BoundsAssumption DEF Window, WorkItem, CredentialRequest, Resource
  <2>5. res.exp >= before + Window(w.request)
    BY <2>1, <2>4
  <2> QED  BY <2>1, <2>5
<1> QED  BY <1>1 DEF UpToDate
\* QuietInv is inductive when only one invocation is under way at a time and no
\* Save is torn.
LEMMA QuietInvStep ==
    ASSUME OneAtATime, "torn" \notin FaultKinds, QuietInv, [Next]_vars
    PROVE  QuietInv'
<1> DEFINE Up(s, r, time) == UpToDate(s, r.config, r.deployment, time)
<1>1. /\ NeedInv /\ Inv /\ Inv' /\ Persisted(saved) = saved
      /\ run \in [Runs -> RunState] /\ now \in Nat /\ now' \in Nat /\ saved \in State
  BY NextInv DEF QuietInv, NeedInv, Inv, TypeOK
<1>2. /\ \A p \in Runs : MarkInv(run[p])
      /\ \A p \in Runs : run[p].pc # "idle" /\ Up(saved, run[p], now) => QuietRun(run[p], saved)
  BY DEF QuietInv, NeedInv, Active
<1>3. NeedInv'
  BY <1>1, NeedInvStep
<1>4. ASSUME Persisted(saved') = saved',
             \A p \in Runs : run'[p].pc # "idle" /\ Up(saved', run'[p], now') => QuietRun(run'[p], saved')
      PROVE  QuietInv'
  <2>1. \A p \in Runs : (Active(p) /\ UpToDate(saved, run[p].config, run[p].deployment, now)
                         => QuietRun(run[p], saved))'
    BY <1>4 DEF Active, UpToDate, ServiceableItem, Resources, Requested, QuietRun
  <2>2. (Persisted(saved) = saved)'
    BY <1>4
  <2> QED  BY <1>3, <2>1, <2>2 DEF QuietInv
<1>5. ASSUME NEW p \in Runs, StartRun(p)
      PROVE  QuietInv'
  <2> DEFINE n == Started(config, deployment, saved)
  <2>1. run' = [run EXCEPT ![p] = n] /\ saved' = saved
    BY <1>5 DEF StartRun, Started
  <2>2. n.pc = "requests" /\ n.state = saved
    BY IdleInv DEF Started, Idle
  <2> HIDE DEF n
  <2>3. run'[p] = n /\ \A q \in Runs : q = p
    BY <1>1, <2>1 DEF OneAtATime
  <2> HIDE DEF Up
  <2> QED  BY <1>1, <1>4, <2>1, <2>2, <2>3 DEF QuietRun
<1>6. ASSUME NEW p \in Runs, Proceed(p) \/ Fail(p)
      PROVE  QuietInv'
  <2>1. /\ now' = now
        /\ Persisted(saved') = saved'
        /\ \E n : /\ run' = [run EXCEPT ![p] = n]
                  /\ \/ n.pc = "idle"
                     \/ /\ n.config = run[p].config /\ n.deployment = run[p].deployment
                        /\ saved' = saved
    BY <1>1, <1>6, RunStays
  <2>2. \A q \in Runs : q = p
    BY DEF OneAtATime
  <2>3. /\ run'[p].pc = "idle"
           \/ (run'[p].config = run[p].config /\ run'[p].deployment = run[p].deployment /\ saved' = saved)
    BY <1>1, <2>1
  <2>4. ASSUME run'[p].pc # "idle", Up(saved', run'[p], now')
        PROVE  QuietRun(run'[p], saved')
    <3>1. Up(saved, run[p], now) /\ saved' = saved
      BY <2>1, <2>3, <2>4
    <3>2. run[p].pc # "idle"
      BY <1>6 DEF Proceed, Fail, SkipRequest, KeepCredentials, CreateCredentials, CreateFails, WriteSecret,
                  WriteFails, FinishRequests, FinishResources, FinishOrphans, KeepResource, DestroyResource,
                  DestroyFails, KeepOrphan, DeleteOrphan, DeleteFails, Save, SaveFails, SaveTorn, Crash,
                  Satisfied, NeedsCredentials, HasItem, Visiting, HasOrphan
    <3>3. QuietRun(run[p], saved)
      BY <1>2, <3>1, <3>2
    <3>4. \E n : /\ run' = [run EXCEPT ![p] = n]
                 /\ n.pc = "idle" \/ QuietRun(n, saved)
      BY <1>1, <1>2, <1>6, <3>1, <3>2, <3>3, QuietStep DEF Active
    <3>5. QuietRun(run'[p], saved)
      BY <1>1, <2>4, <3>4
    <3> QED  BY <3>1, <3>5
  <2> HIDE DEF Up
  <2> QED  BY <1>4, <2>1, <2>2, <2>4
<1>7. ASSUME UNCHANGED <<saved, run>>, now <= now'
      PROVE  QuietInv'
  <2>1. ASSUME NEW p \in Runs, run[p].pc # "idle", Up(saved, run[p], now')
        PROVE  QuietRun(run[p], saved)
    <3>1. run[p].config \in Configs
      BY <1>1, <2>1 DEF Inv, RunInv, ValidConfigs
    <3>2. Up(saved, run[p], now)
      BY <1>1, <1>7, <2>1, <3>1, UpToDateBefore
    <3> QED  BY <1>2, <2>1, <3>2
  <2> HIDE DEF Up
  <2> QED  BY <1>1, <1>4, <1>7, <2>1
<1>8. (\E p \in Runs : RejectConfig(p)) \/ Tick \/ EditConfig \/ Redeploy \/ UNCHANGED vars
      => UNCHANGED <<saved, run>> /\ now <= now'
  BY <1>1 DEF RejectConfig, Tick, EditConfig, Redeploy, vars
<1> QED  BY <1>5, <1>6, <1>7, <1>8 DEF Next

\* For one invocation at a time, whatever calls fail and wherever it crashes: a
\* run that finds the saved state up to date issues, destroys, writes and deletes
\* nothing, and leaves the state file as it was (src/sidecred.go:82-100 and
\* 335-441).  A state file torn by a failing write is of course not as it was.
THEOREM NothingToDoIsDone ==
    ASSUME OneAtATime, "torn" \notin FaultKinds
    PROVE  Spec => QuietWhenUpToDate
<1> DEFINE Step ==
        \A p \in Runs :
            run[p].pc # "idle" /\ UpToDate(saved, run[p].config, run[p].deployment, now)
            => UNCHANGED <<keys, vault, saved>>
<1>1. Init => QuietInv
  <2> SUFFICES ASSUME Init PROVE QuietInv
    OBVIOUS
  <2>1. saved = NewState /\ \A p \in Runs : run[p].pc = "idle" /\ MarkInv(run[p])
    BY EmptyNamed DEF Init, Idle
  <2>2. NeedInv
    BY <2>1, InitInv, EmptyNamed DEF NeedInv
  <2> QED  BY <2>1, <2>2, EmptyQuiet DEF QuietInv, Active
<1>2. QuietInv /\ [Next]_vars => QuietInv'
  BY QuietInvStep
<1>3. QuietInv /\ [Next]_vars => [Step]_vars
  <2> SUFFICES ASSUME QuietInv, Next, NEW p \in Runs, run[p].pc # "idle",
                      UpToDate(saved, run[p].config, run[p].deployment, now)
               PROVE  UNCHANGED <<keys, vault, saved>>
    OBVIOUS
  <2>1. Inv /\ MarkInv(run[p]) /\ QuietRun(run[p], saved)
    BY DEF QuietInv, NeedInv, Active
  <2>2. CASE Proceed(p) \/ Fail(p)
    BY <2>1, <2>2, QuietStep DEF Active
  <2>3. CASE (\E q \in Runs : RejectConfig(q)) \/ Tick \/ EditConfig \/ Redeploy
    BY <2>3 DEF RejectConfig, Tick, EditConfig, Redeploy, vars
  <2>4. ~StartRun(p) /\ \A q \in Runs : q = p
    BY DEF StartRun, OneAtATime
  <2> QED  BY <2>2, <2>3, <2>4 DEF Next
<1> QED  BY <1>1, <1>2, <1>3, PTL DEF Spec, QuietWhenUpToDate
=============================================================================
