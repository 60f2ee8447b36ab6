---------------------------- MODULE SidecredProofs ----------------------------
(***************************************************************************)
(* Proofs about Sidecred for every set of concurrent invocations, every    *)
(* set of config files and deployments, and any number of failures.        *)
(***************************************************************************)
EXTENDS SidecredProperties, StateProofs

\* Process has gone through a request with the name and the store of res.
Handled(r, res) ==
    \E n \in 1 .. Len(Work[r.config]) :
        /\ n < r.item \/ (n = r.item /\ r.pc = "write")
        /\ Work[r.config][n].store = res.store
        /\ Work[r.config][n].request.name = res.id

(***************************************************************************)
(* The resources rs of provider t in the local state of an invocation.     *)
(* Two resources with one identity appear only when a request is handled,  *)
(* and no two requests share a name and a store, so a third never appears. *)
(* Deposed resources belong to an enabled provider, or the clean-up would  *)
(* leave them; behind its index it has left none.                          *)
(***************************************************************************)
ListInv(r, t, rs) ==
    /\ Sorted(rs, t)
    /\ Superseded(rs)
    /\ \A i \in 1 .. Len(rs) : rs[i].deposed => t \in r.deployment.providers
    /\ r.pc \in {"requests", "write"} =>
        \A i, j \in 1 .. Len(rs) : i < j /\ SameResource(rs[i], rs[j]) => Handled(r, rs[j])
    /\ r.pc = "resources" =>
        /\ r.left[t] <= Len(rs)
        /\ \A i \in 1 .. Len(rs) : i > r.left[t] => ~rs[i].deposed
    /\ r.pc \in {"orphans", "save"} => Settled(rs)

WriteInv(r) ==
    /\ r.pc = "requests" => r.cred = 1
    /\ r.pc = "write" =>
        /\ r.item <= Len(Work[r.config])
        /\ r.cred <= Len(CredentialNames(Item(r).request))
        /\ Len(r.state.resources[Provider(Item(r).request.type)]) > 0

RunInv(r) ==
    r.pc # "idle" =>
        /\ r.config \in ValidConfigs
        /\ \A t \in ProviderTypes : ListInv(r, t, r.state.resources[t])
        /\ \A c \in StoreConfigs : DistinctPaths(r.state.secrets[c])
        /\ WriteInv(r)

\* What is true of every saved state.
Saveable(s) ==
    /\ s \in State
    /\ \A t \in ProviderTypes : Sorted(s.resources[t], t) /\ Settled(s.resources[t])
    /\ \A c \in StoreConfigs : DistinctPaths(s.secrets[c])

\* The inductive invariant.
Inv == TypeOK /\ Saveable(saved) /\ \A p \in Runs : RunInv(run[p])

-----------------------------------------------------------------------------
(* Facts about the constants.                                              *)

\* The work of a config file is a sequence of items; of a valid one, no two
\* items share a store and a name (src/config/config.go:111-115).
LEMMA WorkProperties ==
    ASSUME NEW c \in Configs
    PROVE  /\ Work[c] = WorkItems(c)
           /\ Work[c] \in Seq(WorkItem)
           /\ Len(Work[c]) \in Nat
           /\ \A n \in 1 .. Len(Work[c]) : Work[c][n] \in WorkItem /\ Work[c][n] \in ToSet(Work[c])
<1>1. Work[c] = WorkItems(c)
  BY DEF Work
<1>2. Work[c] \in Seq(WorkItem)
  BY <1>1, ConfigsAssumption
<1>3. Len(Work[c]) \in Nat /\ DOMAIN Work[c] = 1 .. Len(Work[c])
  BY <1>2, LenProperties
<1>4. \A n \in 1 .. Len(Work[c]) : Work[c][n] \in WorkItem
  BY <1>2, ElementOfSeq
<1>5. \A n \in 1 .. Len(Work[c]) : Work[c][n] \in ToSet(Work[c])
  BY <1>3 DEF ToSet
<1> QED  BY <1>1, <1>2, <1>3, <1>4, <1>5

\* No valid config has two items with the same name for one store.
LEMMA WorkIsUnique ==
    ASSUME NEW c \in ValidConfigs,
           NEW m \in 1 .. Len(Work[c]), NEW n \in 1 .. Len(Work[c]),
           Work[c][m].store = Work[c][n].store,
           Work[c][m].request.name = Work[c][n].request.name
    PROVE  m = n
<1>1. c \in Configs /\ UniqueRequests(c)
  BY DEF ValidConfigs, Valid
<1>2. Work[c] = WorkItems(c) /\ DOMAIN Work[c] = 1 .. Len(Work[c])
  BY <1>1, WorkProperties, LenProperties
<1> QED  BY <1>1, <1>2 DEF UniqueRequests

\* The store that a request names is one of the store configurations.
LEMMA StoreExists ==
    ASSUME NEW c \in ValidConfigs, NEW n \in 1 .. Len(Work[c])
    PROVE  /\ StoreOf(c, Work[c][n].store) \in StoreConfigs
           /\ StoreOf(c, Work[c][n].store).type \in StoreTypes
<1>1. c \in Configs /\ Valid(c)
  BY DEF ValidConfigs
<1>2. Work[c][n] \in ToSet(WorkItems(c))
  BY <1>1, WorkProperties
<1>3. PICK i \in DOMAIN c.requests : Work[c][n].store = c.requests[i].store
  BY <1>1, <1>2, ConfigsAssumption
<1>4. \E s \in ToSet(c.stores) : Alias(s) = Work[c][n].store
  BY <1>1, <1>3 DEF Valid
<1>5. StoreOf(c, Work[c][n].store) \in ToSet(c.stores)
  BY <1>4 DEF StoreOf
<1>6. StoreOf(c, Work[c][n].store).type \in StoreTypes
  BY <1>1, <1>5 DEF Valid, ToSet
<1> QED  BY <1>1, <1>5, <1>6, ConfigsAssumption

\* Create returns at least one credential, and all of them have a path.
LEMMA NamesProperties ==
    ASSUME NEW request \in CredentialRequest
    PROVE  /\ Len(CredentialNames(request)) \in Nat \ {0}
           /\ \A k \in 1 .. Len(CredentialNames(request)) :
                CredentialNames(request)[k] \in ToSet(CredentialNames(request))
           /\ \A name \in ToSet(CredentialNames(request)) :
                \E k \in 1 .. Len(CredentialNames(request)) : name = CredentialNames(request)[k]
<1>1. request.type \in CredentialTypes
  BY DEF CredentialRequest
<1> DEFINE names == CredentialNames(request)
<1>2. /\ Len(names) \in Nat \ {0}
      /\ DOMAIN names = 1 .. Len(names)
  <2>1. CASE request.type = "random"
    BY <2>1 DEF CredentialNames
  <2>2. CASE request.type = "aws:sts"
    BY <2>2 DEF CredentialNames, RoleNames
  <2>3. CASE request.type = "github:deploy-key"
    BY <2>3 DEF CredentialNames
  <2>4. CASE request.type = "github:access-token"
    BY <2>4 DEF CredentialNames
  <2>5. CASE request.type = "artifactory:access-token"
    BY <2>5 DEF CredentialNames, ArtifactoryNames
  <2> QED  BY <1>1, <2>1, <2>2, <2>3, <2>4, <2>5 DEF CredentialTypes
<1> HIDE DEF names
<1>3. /\ \A k \in 1 .. Len(names) : names[k] \in ToSet(names)
      /\ \A name \in ToSet(names) : \E k \in 1 .. Len(names) : name = names[k]
  BY <1>2 DEF ToSet
<1> QED  BY <1>2, <1>3 DEF names

-----------------------------------------------------------------------------
(* The steps of the requests phase on the local state of an invocation.    *)

\* The item an invocation is at is a request for a known type and store.
LEMMA ItemProperties ==
    ASSUME NEW r \in RunState, r.config \in ValidConfigs, r.item <= Len(Work[r.config])
    PROVE  /\ r.config \in Configs
           /\ Len(Work[r.config]) \in Nat
           /\ r.item \in 1 .. Len(Work[r.config])
           /\ Item(r) \in WorkItem
           /\ Item(r).request \in CredentialRequest
           /\ Item(r).request.type \in CredentialTypes
           /\ Provider(Item(r).request.type) \in ProviderTypes
           /\ Store(r) \in StoreConfigs
           /\ Item(r) \in ToSet(Work[r.config])
<1>1. r.config \in Configs
  BY DEF ValidConfigs
<1>2. r.item \in Nat \ {0}
  BY DEF RunState
<1>3. Len(Work[r.config]) \in Nat
  BY <1>1, WorkProperties
<1>4. r.item \in 1 .. Len(Work[r.config])
  BY <1>2, <1>3
<1>5. Item(r) \in WorkItem /\ Item(r) \in ToSet(Work[r.config])
  BY <1>1, <1>4, WorkProperties DEF Item
<1>6. Item(r).request \in CredentialRequest
  BY <1>5 DEF WorkItem
<1>7. Item(r).request.type \in CredentialTypes
  BY <1>6 DEF CredentialRequest
<1>8. Store(r) \in StoreConfigs
  BY <1>4, StoreExists DEF Store, Item
<1> QED  BY <1>1, <1>3, <1>4, <1>5, <1>6, <1>7, <1>8, ProviderType

\* A list of resources stays in order while the requests handled get more.
LEMMA SameListInv ==
    ASSUME NEW r, NEW n, NEW t, NEW rs, ListInv(r, t, rs),
           r.pc \in {"requests", "write"}, n.pc \in {"requests", "write"},
           n.deployment = r.deployment,
           \A x : Handled(r, x) => Handled(n, x)
    PROVE  ListInv(n, t, rs)
<1>1. /\ Sorted(rs, t) /\ Superseded(rs)
      /\ \A i \in 1 .. Len(rs) : rs[i].deposed => t \in r.deployment.providers
      /\ \A i, j \in 1 .. Len(rs) : i < j /\ SameResource(rs[i], rs[j]) => Handled(r, rs[j])
  BY DEF ListInv
<1>2. \A i, j \in 1 .. Len(rs) : i < j /\ SameResource(rs[i], rs[j]) => Handled(n, rs[j])
  BY <1>1
<1>3. n.pc \notin {"resources", "orphans", "save"}
  OBVIOUS
<1> QED  BY <1>1, <1>2, <1>3 DEF ListInv

\* Going on to the next request.
LEMMA NextItemInv ==
    ASSUME NEW r \in RunState, RunInv(r), HasItem(r)
    PROVE  /\ [r EXCEPT !.item = @ + 1] \in RunState
           /\ RunInv([r EXCEPT !.item = @ + 1])
<1> DEFINE n == [r EXCEPT !.item = @ + 1]
<1>1. r.pc = "requests" /\ r.item \in Nat \ {0}
  BY DEF HasItem, RunState
<1>2. /\ n \in RunState
      /\ n.pc = r.pc /\ n.config = r.config /\ n.deployment = r.deployment
      /\ n.state = r.state /\ n.left = r.left /\ n.item = r.item + 1 /\ n.cred = r.cred
  BY <1>1 DEF RunState
<1> HIDE DEF n
<1>3. ASSUME NEW res, Handled(r, res)
      PROVE  Handled(n, res)
  <2>1. PICK k \in 1 .. Len(Work[r.config]) :
            /\ k < r.item
            /\ Work[r.config][k].store = res.store
            /\ Work[r.config][k].request.name = res.id
    BY <1>1, <1>3 DEF Handled
  <2>2. Len(Work[r.config]) \in Nat
    BY <1>1, WorkProperties DEF RunInv, ValidConfigs
  <2>3. k < n.item
    BY <1>1, <1>2, <2>1, <2>2
  <2> QED  BY <1>2, <2>1, <2>3 DEF Handled
<1>4. \A t \in ProviderTypes : ListInv(r, t, r.state.resources[t])
  BY <1>1 DEF RunInv
<1>5. \A t \in ProviderTypes : ListInv(n, t, n.state.resources[t])
  BY <1>1, <1>2, <1>3, <1>4, SameListInv
<1> QED  BY <1>1, <1>2, <1>5 DEF RunInv, WriteInv, n

\* Looking up the resources of a request marks them and changes nothing else.
LEMMA LookedInv ==
    ASSUME NEW r \in RunState, RunInv(r), HasItem(r)
    PROVE  /\ [r EXCEPT !.state = Looked(r)] \in RunState
           /\ RunInv([r EXCEPT !.state = Looked(r)])
           /\ HasItem([r EXCEPT !.state = Looked(r)])
<1> DEFINE n == [r EXCEPT !.state = Looked(r)]
           P  == Provider(Item(r).request.type)
           rs == r.state.resources[P]
           us == Use(rs, Item(r).request.type, Item(r).request.name, Item(r).store)
<1>1. r.pc = "requests" /\ r.config \in ValidConfigs /\ r.item <= Len(Work[r.config])
  BY DEF HasItem, RunInv
<1>2. P \in ProviderTypes
  BY <1>1, ItemProperties
<1>3. r.state \in State /\ rs \in Seq(Resource)
  BY <1>2 DEF RunState, State
<1>4. \A t \in ProviderTypes : ListInv(r, t, r.state.resources[t])
  BY <1>1 DEF RunInv
<1>5. Superseded(rs) /\ Sorted(rs, P)
  BY <1>2, <1>4 DEF ListInv
<1>6. /\ us \in Seq(Resource)
      /\ Len(us) = Len(rs)
      /\ \A i \in 1 .. Len(rs) : /\ us[i].type = rs[i].type
                                 /\ us[i].store = rs[i].store
                                 /\ us[i].id = rs[i].id
                                 /\ us[i].deposed = rs[i].deposed
  BY <1>3, UseProperties
<1>7. Superseded(us) /\ Sorted(us, P)
  BY <1>3, <1>5, UseSuperseded
<1>8. Looked(r) = [r.state EXCEPT !.resources[P] = us]
  BY DEF Looked, MarkInUse
<1> HIDE DEF P, rs, us
<1>9. /\ Looked(r) \in State
      /\ Looked(r).secrets = r.state.secrets
      /\ Looked(r).resources[P] = us
      /\ \A t \in ProviderTypes \ {P} : Looked(r).resources[t] = r.state.resources[t]
  BY <1>2, <1>3, <1>6, <1>8 DEF State
<1>10. /\ n \in RunState
       /\ n.pc = r.pc /\ n.config = r.config /\ n.deployment = r.deployment
       /\ n.state = Looked(r) /\ n.item = r.item /\ n.cred = r.cred
  BY <1>9 DEF RunState
<1> HIDE DEF n
<1>11. \A t \in ProviderTypes \ {P} : ListInv(n, t, n.state.resources[t])
  <2>1. \A x : Handled(r, x) => Handled(n, x)
    BY <1>10 DEF Handled
  <2> QED  BY <1>1, <1>4, <1>9, <1>10, <2>1, SameListInv
<1>12. ListInv(n, P, us)
  <2>1. \A i \in 1 .. Len(us) : us[i].deposed => P \in n.deployment.providers
    BY <1>2, <1>4, <1>6, <1>10 DEF ListInv, rs
  <2>2. ASSUME NEW i \in 1 .. Len(us), NEW j \in 1 .. Len(us), i < j, SameResource(us[i], us[j])
        PROVE  Handled(n, us[j])
    <3>1. SameResource(rs[i], rs[j])
      BY <1>6, <2>2 DEF SameResource
    <3>2. Handled(r, rs[j])
      BY <1>1, <1>2, <1>4, <1>6, <2>2, <3>1 DEF ListInv, rs
    <3> QED  BY <1>6, <1>10, <2>2, <3>2 DEF Handled
  <2> QED  BY <1>1, <1>7, <1>10, <2>1, <2>2 DEF ListInv
<1>13. \A t \in ProviderTypes : ListInv(n, t, n.state.resources[t])
  BY <1>2, <1>9, <1>10, <1>11, <1>12
<1>14. RunInv(n)
  BY <1>1, <1>9, <1>10, <1>13 DEF RunInv, WriteInv
<1>15. HasItem(n)
  BY <1>1, <1>10 DEF HasItem
<1> QED  BY <1>10, <1>14, <1>15 DEF n

\* A created resource supersedes the only one with its identity, because the
\* request was not handled before.
LEMMA CreatedInv ==
    ASSUME NEW r \in RunState, RunInv(r), HasItem(r), NEW key \in Nat, NEW exp \in Nat,
           Provider(Item(r).request.type) \in r.deployment.providers
    PROVE  LET n == [r EXCEPT !.pc = "write",
                              !.state = AddResource(@, newResource(Item(r).request, Item(r).store, exp, key))]
           IN  n \in RunState /\ RunInv(n)
<1> DEFINE res == newResource(Item(r).request, Item(r).store, exp, key)
           n   == [r EXCEPT !.pc = "write", !.state = AddResource(@, res)]
           P   == Provider(Item(r).request.type)
           rs  == r.state.resources[P]
           ns  == Append(Depose(rs, res), res)
<1>1. r.pc = "requests" /\ r.config \in ValidConfigs /\ r.item <= Len(Work[r.config]) /\ r.cred = 1
  BY DEF HasItem, RunInv, WriteInv
<1>2. /\ P \in ProviderTypes
      /\ Item(r) \in WorkItem
      /\ Item(r).request \in CredentialRequest
      /\ r.item \in 1 .. Len(Work[r.config])
      /\ Len(Work[r.config]) \in Nat
  BY <1>1, ItemProperties
<1>3. r.state \in State /\ rs \in Seq(Resource) /\ Len(rs) \in Nat
  BY <1>2, LenProperties DEF RunState, State
<1>4. /\ res \in Resource
      /\ res.type = Item(r).request.type /\ res.store = Item(r).store /\ res.id = Item(r).request.name
      /\ ~res.deposed /\ res.inUse
  BY <1>2 DEF newResource, Resource, WorkItem, CredentialRequest
<1>5. Provider(res.type) = P
  BY <1>4
<1>6. \A t \in ProviderTypes : ListInv(r, t, r.state.resources[t])
  BY <1>1 DEF RunInv
<1>7. Superseded(rs) /\ Sorted(rs, P)
  BY <1>2, <1>6 DEF ListInv
<1>8. ASSUME NEW i \in 1 .. Len(rs), NEW j \in 1 .. Len(rs), i < j,
             SameResource(rs[i], rs[j]), SameResource(rs[j], res)
      PROVE  FALSE
  <2>1. Handled(r, rs[j])
    BY <1>1, <1>2, <1>6, <1>8 DEF ListInv
  <2>2. PICK k \in 1 .. Len(Work[r.config]) :
            /\ k < r.item
            /\ Work[r.config][k].store = rs[j].store
            /\ Work[r.config][k].request.name = rs[j].id
    BY <1>1, <2>1 DEF Handled
  <2>3. /\ Work[r.config][k].store = Work[r.config][r.item].store
        /\ Work[r.config][k].request.name = Work[r.config][r.item].request.name
    BY <1>4, <1>8, <2>2 DEF SameResource, Item
  <2>4. k = r.item
    BY <1>1, <1>2, <2>3, WorkIsUnique
  <2> QED  BY <1>2, <2>2, <2>4
<1>9. Superseded(ns) /\ Sorted(ns, P)
  <2> HIDE DEF res, P, rs
  <2> QED  BY <1>3, <1>4, <1>5, <1>7, <1>8, AddSuperseded
<1>10. /\ ns \in Seq(Resource)
       /\ Len(ns) = Len(rs) + 1
       /\ ns[Len(rs) + 1] = res
       /\ \A i \in 1 .. Len(rs) : /\ ns[i].type = rs[i].type
                                  /\ ns[i].store = rs[i].store
                                  /\ ns[i].id = rs[i].id
                                  /\ ns[i].deposed = (rs[i].deposed \/ SameResource(rs[i], res))
  <2> HIDE DEF res, rs
  <2> QED  BY <1>3, <1>4, AddProperties
<1> HIDE DEF res, rs, ns
<1>11. AddResource(r.state, res) = [r.state EXCEPT !.resources[P] = ns]
  BY <1>5 DEF AddResource, rs, ns
<1> HIDE DEF P
<1>12. /\ AddResource(r.state, res) \in State
       /\ AddResource(r.state, res).secrets = r.state.secrets
       /\ AddResource(r.state, res).resources[P] = ns
       /\ \A t \in ProviderTypes \ {P} : AddResource(r.state, res).resources[t] = r.state.resources[t]
  BY <1>2, <1>3, <1>10, <1>11 DEF State
<1>13. /\ n \in RunState
       /\ n.pc = "write" /\ n.config = r.config /\ n.deployment = r.deployment
       /\ n.state = AddResource(r.state, res) /\ n.item = r.item /\ n.cred = r.cred
  BY <1>12 DEF RunState, Phases
<1> HIDE DEF n
<1>14. ASSUME NEW x, Handled(r, x)
       PROVE  Handled(n, x)
  BY <1>1, <1>13, <1>14 DEF Handled
<1>15. \A t \in ProviderTypes \ {P} : ListInv(n, t, n.state.resources[t])
  BY <1>1, <1>6, <1>12, <1>13, <1>14, SameListInv
<1>16. ListInv(n, P, ns)
  <2>1. \A i \in 1 .. Len(ns) : ns[i].deposed => P \in n.deployment.providers
    BY <1>13 DEF P
  <2>2. ASSUME NEW i \in 1 .. Len(ns), NEW j \in 1 .. Len(ns), i < j, SameResource(ns[i], ns[j])
        PROVE  Handled(n, ns[j])
    <3>1. i \in 1 .. Len(rs)
      BY <1>3, <1>10, <2>2
    <3>2. CASE j \in 1 .. Len(rs)
      <4>1. SameResource(rs[i], rs[j])
        BY <1>10, <2>2, <3>1, <3>2 DEF SameResource
      <4>2. Handled(r, rs[j])
        BY <1>1, <1>2, <1>6, <2>2, <3>1, <3>2, <4>1 DEF ListInv, rs
      <4>3. Handled(n, rs[j])
        BY <1>14, <4>2
      <4> QED  BY <1>10, <3>2, <4>3 DEF Handled
    <3>3. CASE j = Len(rs) + 1
      BY <1>2, <1>4, <1>10, <1>13, <3>3 DEF Handled, Item
    <3> QED  BY <1>3, <1>10, <3>2, <3>3
  <2> QED  BY <1>9, <1>13, <2>1, <2>2 DEF ListInv
<1>17. \A t \in ProviderTypes : ListInv(n, t, n.state.resources[t])
  BY <1>12, <1>13, <1>15, <1>16
<1>18. WriteInv(n)
  <2>1. Item(n) = Item(r)
    BY <1>13 DEF Item
  <2>2. 1 <= Len(CredentialNames(Item(r).request))
    BY <1>2, NamesProperties
  <2>3. Len(n.state.resources[Provider(Item(n).request.type)]) = Len(rs) + 1
    BY <1>10, <1>12, <1>13, <2>1 DEF P
  <2> QED  BY <1>1, <1>3, <1>13, <2>1, <2>2, <2>3 DEF WriteInv
<1>19. \A c \in StoreConfigs : DistinctPaths(n.state.secrets[c])
  BY <1>1, <1>12, <1>13 DEF RunInv
<1> QED  BY <1>1, <1>13, <1>17, <1>18, <1>19 DEF RunInv, n, res

\* Going on to the next credential of a request, or to the next request.
LEMMA NextCredentialInv ==
    ASSUME NEW r \in RunState, RunInv(r), r.pc = "write"
    PROVE  /\ NextCredential(r) \in RunState
           /\ NextCredential(r).state = r.state
           /\ RunInv(NextCredential(r))
<1> DEFINE n == NextCredential(r)
           names == CredentialNames(Item(r).request)
<1>1. /\ r.config \in ValidConfigs /\ r.item <= Len(Work[r.config])
      /\ r.cred <= Len(names)
      /\ Len(r.state.resources[Provider(Item(r).request.type)]) > 0
      /\ \A c \in StoreConfigs : DistinctPaths(r.state.secrets[c])
      /\ \A t \in ProviderTypes : ListInv(r, t, r.state.resources[t])
  BY DEF RunInv, WriteInv
<1>2. r.item \in Nat \ {0} /\ r.cred \in Nat \ {0}
  BY DEF RunState
<1>3. Len(Work[r.config]) \in Nat /\ Len(names) \in Nat
  BY <1>1, ItemProperties, NamesProperties
<1>4. CASE r.cred < Len(names)
  <2>1. n = [r EXCEPT !.cred = @ + 1]
    BY <1>4 DEF NextCredential
  <2>2. /\ n \in RunState
        /\ n.pc = "write" /\ n.config = r.config /\ n.deployment = r.deployment
        /\ n.state = r.state /\ n.item = r.item /\ n.cred = r.cred + 1
    BY <1>2, <2>1 DEF RunState
  <2> HIDE DEF n
  <2>3. \A x : Handled(r, x) => Handled(n, x)
    BY <2>2 DEF Handled
  <2>4. \A t \in ProviderTypes : ListInv(n, t, n.state.resources[t])
    BY <1>1, <2>2, <2>3, SameListInv
  <2>5. Item(n) = Item(r)
    BY <2>2 DEF Item
  <2>6. WriteInv(n)
    BY <1>1, <1>2, <1>3, <1>4, <2>2, <2>5 DEF WriteInv
  <2> QED  BY <1>1, <2>2, <2>4, <2>6 DEF RunInv, n
<1>5. CASE ~(r.cred < Len(names))
  <2>1. n = [r EXCEPT !.pc = "requests", !.item = @ + 1, !.cred = 1]
    BY <1>5 DEF NextCredential
  <2>2. /\ n \in RunState
        /\ n.pc = "requests" /\ n.config = r.config /\ n.deployment = r.deployment
        /\ n.state = r.state /\ n.item = r.item + 1 /\ n.cred = 1
    <3>1. r.item + 1 \in Nat \ {0} /\ 1 \in Nat \ {0} /\ "requests" \in Phases
      BY <1>2 DEF Phases
    <3> QED  BY <2>1, <3>1 DEF RunState
  <2> HIDE DEF n
  <2>3. \A x : Handled(r, x) => Handled(n, x)
    BY <1>2, <1>3, <2>2 DEF Handled
  <2>4. \A t \in ProviderTypes : ListInv(n, t, n.state.resources[t])
    BY <1>1, <2>2, <2>3, SameListInv
  <2>5. WriteInv(n)
    BY <2>2 DEF WriteInv
  <2> QED  BY <1>1, <2>2, <2>4, <2>5 DEF RunInv, n
<1> QED  BY <1>4, <1>5

\* A change of the secrets of a store leaves the resources alone.
LEMMA SecretsInv ==
    ASSUME NEW r \in RunState, RunInv(r), r.pc # "idle", NEW c \in StoreConfigs,
           NEW list \in Seq(Secret(Paths)), DistinctPaths(list)
    PROVE  LET n == [r EXCEPT !.state = [@ EXCEPT !.secrets[c] = list]]
           IN  n \in RunState /\ RunInv(n)
<1> DEFINE s == [r.state EXCEPT !.secrets[c] = list]
           n == [r EXCEPT !.state = s]
<1>1. /\ r.config \in ValidConfigs
      /\ \A t \in ProviderTypes : ListInv(r, t, r.state.resources[t])
      /\ \A d \in StoreConfigs : DistinctPaths(r.state.secrets[d])
      /\ WriteInv(r)
  BY DEF RunInv
<1>2. r.state \in State
  BY DEF RunState
<1>3. /\ s \in State
      /\ s.resources = r.state.resources
      /\ \A d \in StoreConfigs : s.secrets[d] = IF d = c THEN list ELSE r.state.secrets[d]
  BY <1>2 DEF State
<1> HIDE DEF s
<1>4. /\ n \in RunState
      /\ n.pc = r.pc /\ n.config = r.config /\ n.deployment = r.deployment
      /\ n.state = s /\ n.item = r.item /\ n.cred = r.cred /\ n.left = r.left
  BY <1>3 DEF RunState
<1> HIDE DEF n
<1>5. \A x : Handled(n, x) = Handled(r, x)
  BY <1>4 DEF Handled
<1>6. \A t \in ProviderTypes : ListInv(n, t, n.state.resources[t])
  BY <1>1, <1>3, <1>4, <1>5 DEF ListInv
<1>7. WriteInv(n)
  BY <1>1, <1>3, <1>4 DEF WriteInv, Item
<1>8. \A d \in StoreConfigs : DistinctPaths(n.state.secrets[d])
  BY <1>1, <1>3, <1>4
<1>9. n \in RunState /\ RunInv(n)
  BY <1>1, <1>4, <1>6, <1>7, <1>8 DEF RunInv
<1> QED  BY <1>9 DEF n, s

\* The resource whose credentials are being written, and the path of the next.
LEMMA WritingProperties ==
    ASSUME NEW r \in RunState, RunInv(r), r.pc = "write"
    PROVE  /\ Created(r) \in Resource
           /\ PathToWrite(r) \in Paths
           /\ newSecret(Item(r).request.name, PathToWrite(r), Created(r).exp) \in Secret(Paths)
           /\ Store(r) \in StoreConfigs
<1> DEFINE names == CredentialNames(Item(r).request)
           rs == r.state.resources[Provider(Item(r).request.type)]
<1>1. /\ r.config \in ValidConfigs /\ r.item <= Len(Work[r.config])
      /\ r.cred <= Len(names)
      /\ Len(rs) > 0
  BY DEF RunInv, WriteInv
<1>2. /\ Item(r) \in WorkItem
      /\ Item(r).request \in CredentialRequest
      /\ Provider(Item(r).request.type) \in ProviderTypes
      /\ Store(r) \in StoreConfigs
      /\ Item(r) \in ToSet(Work[r.config])
  BY <1>1, ItemProperties
<1>3. rs \in Seq(Resource)
  BY <1>2 DEF RunState, State
<1>4. Created(r) \in Resource
  <2>1. Len(rs) \in 1 .. Len(rs)
    BY <1>1, <1>3, LenProperties
  <2>2. rs[Len(rs)] \in Resource
    BY <1>3, <2>1, ElementOfSeq
  <2> QED  BY <2>2 DEF Created
<1>5. names[r.cred] \in ToSet(names)
  <2>1. r.cred \in Nat \ {0} /\ Len(names) \in Nat
    BY <1>2, NamesProperties DEF RunState
  <2> QED  BY <1>1, <1>2, <2>1, NamesProperties
<1>6. PathToWrite(r) \in Paths
  <2>1. names[r.cred] \in Names(r.config)
    BY <1>2, <1>5 DEF Names
  <2> QED  BY <1>1, <2>1 DEF Paths, PathToWrite
<1>7. Item(r).request.name \in STRING /\ Created(r).exp \in Nat
  BY <1>2, <1>4 DEF CredentialRequest, Resource
<1> QED  BY <1>2, <1>4, <1>6, <1>7 DEF newSecret, Secret

-----------------------------------------------------------------------------
(* The steps of the clean-up.                                              *)

FinishedRequests(r) ==
    [r EXCEPT !.pc = "resources", !.left = [t \in ProviderTypes |-> Len(r.state.resources[t])]]

\* The clean-up starts behind the last resource of each provider.
LEMMA FinishRequestsInv ==
    ASSUME NEW r \in RunState, RunInv(r), r.pc = "requests"
    PROVE  FinishedRequests(r) \in RunState /\ RunInv(FinishedRequests(r))
<1> DEFINE n == FinishedRequests(r)
<1>1. /\ r.config \in ValidConfigs
      /\ \A t \in ProviderTypes : ListInv(r, t, r.state.resources[t])
      /\ \A c \in StoreConfigs : DistinctPaths(r.state.secrets[c])
  BY DEF RunInv
<1>2. \A t \in ProviderTypes : Len(r.state.resources[t]) \in Nat
  BY LenProperties DEF RunState, State
<1>3. /\ n \in RunState
      /\ n.pc = "resources" /\ n.config = r.config /\ n.deployment = r.deployment
      /\ n.state = r.state
      /\ \A t \in ProviderTypes : n.left[t] = Len(r.state.resources[t])
  BY <1>2 DEF RunState, Phases, FinishedRequests
<1> HIDE DEF n
<1>4. ASSUME NEW t \in ProviderTypes
      PROVE  ListInv(n, t, n.state.resources[t])
  BY <1>1, <1>2, <1>3 DEF ListInv
<1> QED  BY <1>1, <1>3, <1>4 DEF RunInv, WriteInv, n

\* A resource the clean-up leaves is not deposed.
LEMMA KeepInv ==
    ASSUME NEW r \in RunState, RunInv(r), NEW t \in ProviderTypes, Visiting(r, t), Kept(r, t)
    PROVE  [r EXCEPT !.left[t] = @ - 1] \in RunState /\ RunInv([r EXCEPT !.left[t] = @ - 1])
<1> DEFINE n == [r EXCEPT !.left[t] = @ - 1]
           rs == r.state.resources[t]
<1>1. /\ r.pc = "resources" /\ r.config \in ValidConfigs
      /\ \A u \in ProviderTypes : ListInv(r, u, r.state.resources[u])
      /\ \A c \in StoreConfigs : DistinctPaths(r.state.secrets[c])
  BY DEF RunInv, Visiting
<1>2. r.left \in [ProviderTypes -> Nat] /\ r.left[t] > 0
  BY DEF RunState, Visiting
<1>3. /\ n \in RunState
      /\ n.pc = "resources" /\ n.config = r.config /\ n.deployment = r.deployment
      /\ n.state = r.state
      /\ \A u \in ProviderTypes : n.left[u] = IF u = t THEN r.left[t] - 1 ELSE r.left[u]
  BY <1>1, <1>2 DEF RunState
<1> HIDE DEF n
<1>4. rs \in Seq(Resource) /\ Len(rs) \in Nat
  BY LenProperties DEF RunState, State
<1>5. /\ r.left[t] <= Len(rs)
      /\ \A i \in 1 .. Len(rs) : i > r.left[t] => ~rs[i].deposed
      /\ \A i \in 1 .. Len(rs) : rs[i].deposed => t \in r.deployment.providers
      /\ Sorted(rs, t) /\ Superseded(rs)
  BY <1>1 DEF ListInv
<1>6. ~rs[r.left[t]].deposed
  BY <1>2, <1>4, <1>5 DEF Kept, Visited
<1>7. ListInv(n, t, rs)
  <2>1. n.left[t] = r.left[t] - 1 /\ r.left[t] \in Nat
    BY <1>2, <1>3
  <2> HIDE DEF rs
  <2>2. n.left[t] <= Len(rs)
    BY <1>4, <1>5, <2>1
  <2>3. \A i \in 1 .. Len(rs) : i > n.left[t] => ~rs[i].deposed
    BY <1>4, <1>5, <1>6, <2>1
  <2> QED  BY <1>3, <1>5, <2>2, <2>3 DEF ListInv
<1>8. \A u \in ProviderTypes \ {t} : ListInv(n, u, r.state.resources[u])
  BY <1>1, <1>3 DEF ListInv
<1> QED  BY <1>1, <1>3, <1>7, <1>8 DEF RunInv, WriteInv, n

\* A resource the clean-up destroys is the one that leaves the list, so the
\* ones behind the index stay those that were kept.
LEMMA ForgetInv ==
    ASSUME NEW r \in RunState, RunInv(r), NEW t \in ProviderTypes, Visiting(r, t), ~Kept(r, t)
    PROVE  /\ Visited(r, t) \in Resource
           /\ Forget(r, t).state.resources =
                [r.state.resources EXCEPT ![t] = RemoveAt(@, r.left[t])]
           /\ Forget(r, t) \in RunState
           /\ RunInv(Forget(r, t))
<1> DEFINE n == Forget(r, t)
           rs == r.state.resources[t]
           k == r.left[t]
           ns == RemoveAt(rs, k)
<1>1. /\ r.pc = "resources" /\ r.config \in ValidConfigs
      /\ \A u \in ProviderTypes : ListInv(r, u, r.state.resources[u])
      /\ \A c \in StoreConfigs : DistinctPaths(r.state.secrets[c])
  BY DEF RunInv, Visiting
<1>2. r.left \in [ProviderTypes -> Nat] /\ k > 0 /\ k \in Nat
  BY DEF RunState, Visiting
<1>3. rs \in Seq(Resource) /\ Len(rs) \in Nat /\ DOMAIN rs = 1 .. Len(rs)
  BY LenProperties DEF RunState, State
<1>4. /\ k <= Len(rs)
      /\ \A i \in 1 .. Len(rs) : i > k => ~rs[i].deposed
      /\ \A i \in 1 .. Len(rs) : rs[i].deposed => t \in r.deployment.providers
      /\ Sorted(rs, t) /\ Superseded(rs)
  BY <1>1 DEF ListInv
<1>5. k \in 1 .. Len(rs)
  BY <1>2, <1>3, <1>4
<1>6. Visited(r, t) = rs[k] /\ rs[k] \in Resource
  BY <1>3, <1>5, ElementOfSeq DEF Visited
<1>7. rs[k].deposed \/ ~rs[k].inUse
  BY <1>6 DEF Kept
<1>8. FirstSame(rs, rs[k]) = k
  BY <1>3, <1>4, <1>5, <1>7, FirstSameIsVisited
<1>9. SameResource(rs[k], rs[k]) /\ Provider(rs[k].type) = t
  BY <1>4, <1>5 DEF SameResource, Sorted
<1>10. RemoveSame(rs, rs[k]) = ns
  BY <1>3, <1>5, <1>8, <1>9 DEF RemoveSame
<1>11. RemoveResource(r.state, Visited(r, t)) = [r.state EXCEPT !.resources[t] = ns]
  BY <1>6, <1>9, <1>10 DEF RemoveResource
<1>12. /\ ns \in Seq(Resource)
       /\ Len(ns) = Len(rs) - 1
       /\ \A i \in 1 .. Len(rs) - 1 : ns[i] = IF i < k THEN rs[i] ELSE rs[i + 1]
  BY <1>3, <1>5, RemoveAtProperties
<1>13. Superseded(ns) /\ Sorted(ns, t)
  BY <1>3, <1>4, <1>5, RemoveSuperseded
<1> DEFINE s == [r.state EXCEPT !.resources[t] = ns]
<1> HIDE DEF ns, rs, k
<1>14. /\ s \in State
       /\ s.secrets = r.state.secrets
       /\ s.resources = [r.state.resources EXCEPT ![t] = ns]
       /\ \A u \in ProviderTypes : s.resources[u] = IF u = t THEN ns ELSE r.state.resources[u]
  BY <1>12 DEF RunState, State
<1>15. n = [r EXCEPT !.left[t] = @ - 1, !.state = s]
  BY <1>11 DEF Forget
<1> HIDE DEF s, n
<1>16. k - 1 \in Nat /\ r.left[t] = k
  BY <1>2 DEF k
<1>17. /\ n \in RunState
       /\ n.pc = "resources" /\ n.config = r.config /\ n.deployment = r.deployment
       /\ n.state = s
       /\ \A u \in ProviderTypes : n.left[u] = IF u = t THEN k - 1 ELSE r.left[u]
  BY <1>1, <1>2, <1>14, <1>15, <1>16 DEF RunState
<1>18. ListInv(n, t, ns)
  <2>1. n.left[t] = k - 1
    BY <1>17
  <2>2. n.left[t] <= Len(ns)
    BY <1>3, <1>5, <1>12, <2>1
  <2>3. ASSUME NEW i \in 1 .. Len(ns), i > n.left[t]
        PROVE  ~ns[i].deposed
    BY <1>3, <1>4, <1>5, <1>12, <2>1, <2>3
  <2>4. \A i \in 1 .. Len(ns) : ns[i].deposed => t \in n.deployment.providers
    BY <1>3, <1>4, <1>12, <1>17
  <2> QED  BY <1>13, <1>17, <2>2, <2>3, <2>4 DEF ListInv
<1>19. \A u \in ProviderTypes \ {t} : ListInv(n, u, r.state.resources[u])
  BY <1>1, <1>17 DEF ListInv
<1>20. RunInv(n)
  BY <1>1, <1>14, <1>17, <1>18, <1>19 DEF RunInv, WriteInv
<1> QED  BY <1>6, <1>14, <1>17, <1>20 DEF n, k, rs, ns

FinishedResources(r) ==
    [r EXCEPT !.pc = "orphans",
              !.orphans = [c \in StoreConfigs |-> ListOrphanedSecrets(r.state, c)]]

\* When the clean-up has passed every resource, none is deposed.
LEMMA FinishResourcesInv ==
    ASSUME NEW r \in RunState, RunInv(r), r.pc = "resources",
           \A t \in ProviderTypes : r.left[t] = 0
    PROVE  FinishedResources(r) \in RunState /\ RunInv(FinishedResources(r))
<1> DEFINE n == FinishedResources(r)
<1>1. /\ r.config \in ValidConfigs
      /\ \A t \in ProviderTypes : ListInv(r, t, r.state.resources[t])
      /\ \A c \in StoreConfigs : DistinctPaths(r.state.secrets[c])
  BY DEF RunInv
<1>2. ASSUME NEW c \in StoreConfigs
      PROVE  ListOrphanedSecrets(r.state, c) \in SUBSET Secret(Paths)
  <2>1. r.state.secrets[c] \in Seq(Secret(Paths))
    BY DEF RunState, State
  <2>2. ToSet(r.state.secrets[c]) \subseteq Secret(Paths)
    BY <2>1, LenProperties, ElementOfSeq DEF ToSet
  <2> QED  BY <2>2 DEF ListOrphanedSecrets
<1>3. /\ n \in RunState
      /\ n.pc = "orphans" /\ n.config = r.config /\ n.deployment = r.deployment
      /\ n.state = r.state
  BY <1>2 DEF RunState, Phases, FinishedResources
<1> HIDE DEF n
<1>4. ASSUME NEW t \in ProviderTypes
      PROVE  ListInv(n, t, r.state.resources[t])
  <2> DEFINE rs == r.state.resources[t]
  <2>1. rs \in Seq(Resource)
    BY DEF RunState, State
  <2>2. /\ Sorted(rs, t) /\ Superseded(rs)
        /\ \A i \in 1 .. Len(rs) : ~rs[i].deposed
    BY <1>1 DEF ListInv
  <2>3. Settled(rs)
    BY <2>1, <2>2, SettledWhenNoneDeposed
  <2> QED  BY <1>3, <2>2, <2>3 DEF ListInv
<1> QED  BY <1>1, <1>3, <1>4 DEF RunInv, WriteInv, n

\* An orphan less to visit.
LEMMA OrphanInv ==
    ASSUME NEW r \in RunState, RunInv(r), NEW c \in StoreConfigs, NEW sec, HasOrphan(r, c, sec)
    PROVE  LET n == [r EXCEPT !.orphans[c] = @ \ {sec}]
           IN  n \in RunState /\ n.state = r.state /\ n.pc = "orphans" /\ RunInv(n)
<1> DEFINE n == [r EXCEPT !.orphans[c] = @ \ {sec}]
<1>1. /\ r.pc = "orphans" /\ r.config \in ValidConfigs
      /\ \A t \in ProviderTypes : ListInv(r, t, r.state.resources[t])
      /\ \A d \in StoreConfigs : DistinctPaths(r.state.secrets[d])
  BY DEF RunInv, HasOrphan
<1>2. /\ n \in RunState
      /\ n.pc = "orphans" /\ n.config = r.config /\ n.deployment = r.deployment
      /\ n.state = r.state
  BY <1>1 DEF RunState
<1> HIDE DEF n
<1>3. \A t \in ProviderTypes : ListInv(n, t, r.state.resources[t])
  BY <1>1, <1>2 DEF ListInv
<1>4. RunInv(n)
  BY <1>1, <1>2, <1>3 DEF RunInv, WriteInv
<1> QED  BY <1>2, <1>4 DEF n

\* Dropping an orphan keeps the local invariant.
LEMMA DroppedInv ==
    ASSUME NEW r \in RunState, RunInv(r), NEW c \in StoreConfigs, NEW sec, HasOrphan(r, c, sec)
    PROVE  Dropped(r, c, sec) \in RunState /\ RunInv(Dropped(r, c, sec))
<1> DEFINE n == [r EXCEPT !.orphans[c] = @ \ {sec}]
           list == Without(r.state.secrets[c], sec.path)
<1>1. n \in RunState /\ n.state = r.state /\ n.pc = "orphans" /\ RunInv(n)
  BY OrphanInv
<1>2. r.state.secrets[c] \in Seq(Secret(Paths))
  BY DEF RunState, State
<1>3. DistinctPaths(r.state.secrets[c])
  BY DEF RunInv, HasOrphan
<1>4. list \in Seq(Secret(Paths)) /\ DistinctPaths(list)
  BY <1>2, <1>3, WithoutProperties
<1>5. RemoveSecret(r.state, c, sec) = [r.state EXCEPT !.secrets[c] = list]
  BY DEF RemoveSecret
<1>6. Dropped(r, c, sec) = [n EXCEPT !.state = [@ EXCEPT !.secrets[c] = list]]
  BY <1>1, <1>5 DEF Dropped
<1> HIDE DEF n, list
<1> QED  BY <1>1, <1>4, <1>6, SecretsInv

\* Nothing but the phase changes before the save.
LEMMA FinishOrphansInv ==
    ASSUME NEW r \in RunState, RunInv(r), r.pc = "orphans"
    PROVE  [r EXCEPT !.pc = "save"] \in RunState /\ RunInv([r EXCEPT !.pc = "save"])
<1> DEFINE n == [r EXCEPT !.pc = "save"]
<1>1. /\ r.config \in ValidConfigs
      /\ \A t \in ProviderTypes : ListInv(r, t, r.state.resources[t])
      /\ \A d \in StoreConfigs : DistinctPaths(r.state.secrets[d])
  BY DEF RunInv
<1>2. /\ n \in RunState
      /\ n.pc = "save" /\ n.config = r.config /\ n.deployment = r.deployment
      /\ n.state = r.state
  BY DEF RunState, Phases
<1> HIDE DEF n
<1>3. \A t \in ProviderTypes : ListInv(n, t, r.state.resources[t])
  BY <1>1, <1>2 DEF ListInv
<1> QED  BY <1>1, <1>2, <1>3 DEF RunInv, WriteInv, n

\* The state of a run that has cleaned up can be saved.
LEMMA PersistedIsSaveable ==
    ASSUME NEW r \in RunState, RunInv(r), r.pc = "save"
    PROVE  Saveable(Persisted(r.state))
<1> DEFINE s == Persisted(r.state)
<1>1. /\ \A t \in ProviderTypes : ListInv(r, t, r.state.resources[t])
      /\ \A c \in StoreConfigs : DistinctPaths(r.state.secrets[c])
  BY DEF RunInv
<1>2. r.state \in State
  BY DEF RunState
<1>3. \A t \in ProviderTypes : /\ r.state.resources[t] \in Seq(Resource)
                               /\ Sorted(r.state.resources[t], t)
                               /\ Settled(r.state.resources[t])
  BY <1>1, <1>2 DEF State, ListInv
<1>4. \A t \in ProviderTypes : /\ Unused(r.state.resources[t]) \in Seq(Resource)
                               /\ Sorted(Unused(r.state.resources[t]), t)
                               /\ Settled(Unused(r.state.resources[t]))
  BY <1>3, UnusedProperties, UnusedSettled
<1>5. s = [r.state EXCEPT !.resources = [t \in ProviderTypes |-> Unused(r.state.resources[t])]]
  BY DEF Persisted
<1>6. /\ s \in State
      /\ s.secrets = r.state.secrets
      /\ \A t \in ProviderTypes : s.resources[t] = Unused(r.state.resources[t])
  BY <1>2, <1>4, <1>5 DEF State
<1> HIDE DEF s
<1>7. Saveable(s)
  BY <1>1, <1>4, <1>6 DEF Saveable
<1> QED  BY <1>7 DEF s

\* Marks do not survive a save, so saving twice changes nothing.
LEMMA UnusedTwice ==
    ASSUME NEW rs \in Seq(Resource)
    PROVE  Unused(Unused(rs)) = Unused(rs)
<1>1. DOMAIN rs = 1 .. Len(rs) /\ Len(rs) \in Nat /\ \A i \in 1 .. Len(rs) : rs[i] \in Resource
  BY LenProperties, ElementOfSeq
<1>2. DOMAIN Unused(rs) = DOMAIN rs
  BY DEF Unused
<1>3. \A i \in DOMAIN rs : Unused(rs)[i] = [rs[i] EXCEPT !.inUse = FALSE]
  BY DEF Unused
<1>4. \A i \in DOMAIN rs : [[rs[i] EXCEPT !.inUse = FALSE] EXCEPT !.inUse = FALSE] = [rs[i] EXCEPT !.inUse = FALSE]
  BY <1>1 DEF Resource
<1>5. \A i \in DOMAIN rs : [Unused(rs)[i] EXCEPT !.inUse = FALSE] = Unused(rs)[i]
  BY <1>3, <1>4
<1>6. Unused(Unused(rs)) = [i \in DOMAIN rs |-> Unused(rs)[i]]
  BY <1>2, <1>5 DEF Unused
<1> QED  BY <1>2, <1>6 DEF Unused

\* The state that is saved twice.
LEMMA PersistedTwice ==
    ASSUME NEW s \in State
    PROVE  Persisted(Persisted(s)) = Persisted(s)
<1> DEFINE n == Persisted(s)
<1>1. \A t \in ProviderTypes : s.resources[t] \in Seq(Resource)
  BY DEF State
<1>2. n = [s EXCEPT !.resources = [t \in ProviderTypes |-> Unused(s.resources[t])]]
  BY DEF Persisted
<1>3. n.resources = [t \in ProviderTypes |-> Unused(s.resources[t])]
  BY <1>2 DEF State
<1> HIDE DEF n
<1>4. \A t \in ProviderTypes : Unused(n.resources[t]) = n.resources[t]
  BY <1>1, <1>3, UnusedTwice
<1>5. Persisted(n) = [n EXCEPT !.resources = [t \in ProviderTypes |-> Unused(n.resources[t])]]
  BY DEF Persisted
<1>6. [t \in ProviderTypes |-> Unused(n.resources[t])] = n.resources
  BY <1>3, <1>4
<1>7. Persisted(n) = [n EXCEPT !.resources = n.resources]
  BY <1>5, <1>6
<1>8. [n EXCEPT !.resources = n.resources] = n
  BY <1>2 DEF State
<1> QED  BY <1>7, <1>8 DEF n

\* The empty state has no marks to clear.
LEMMA EmptyQuiet == Persisted(NewState) = NewState
<1>1. Unused(<< >>) = << >>
  BY DEF Unused
<1>2. \A t \in ProviderTypes : NewState.resources[t] = << >>
  BY DEF NewState
<1>3. [t \in ProviderTypes |-> Unused(NewState.resources[t])] = [t \in ProviderTypes |-> << >>]
  BY <1>1, <1>2
<1>4. Persisted(NewState) = [NewState EXCEPT !.resources = [t \in ProviderTypes |-> << >>]]
  BY <1>3 DEF Persisted
<1> QED  BY <1>4 DEF NewState

\* The state that NewState returns is one to start from.
LEMMA EmptyState == NewState \in State /\ Saveable(NewState)
<1>1. NewState \in State
  BY EmptySeq DEF NewState, State
<1>2. /\ \A t \in ProviderTypes : NewState.resources[t] = << >>
      /\ \A c \in StoreConfigs : NewState.secrets[c] = << >>
  BY DEF NewState
<1>3. Len(<< >>) = 0
  OBVIOUS
<1> QED  BY <1>1, <1>2, <1>3 DEF Saveable, Sorted, Settled, DistinctPaths

\* So is that of an invocation that has not started.
LEMMA IdleInv == Idle \in RunState /\ RunInv(Idle)
<1>1. Idle \in RunState
  BY EmptyState DEF Idle, RunState, Phases, Deployment
<1> QED  BY <1>1 DEF RunInv, Idle

Started(c, d, s) == [Idle EXCEPT !.pc = "requests", !.config = c, !.deployment = d, !.state = s]

\* A run starts from a saved state: nothing is deposed, no identity is double.
LEMMA StartedInv ==
    ASSUME NEW c \in ValidConfigs, NEW d \in Deployments, NEW s, Saveable(s)
    PROVE  Started(c, d, s) \in RunState /\ RunInv(Started(c, d, s))
<1> DEFINE n == Started(c, d, s)
<1>1. c \in Configs /\ d \in Deployment /\ s \in State
  BY DeploymentsAssumption DEF ValidConfigs, Deployment, Saveable
<1>2. /\ n \in RunState
      /\ n.pc = "requests" /\ n.config = c /\ n.deployment = d /\ n.state = s /\ n.cred = 1
  BY <1>1, IdleInv DEF Started, RunState, Phases, Idle
<1> HIDE DEF n
<1>3. ASSUME NEW t \in ProviderTypes
      PROVE  ListInv(n, t, s.resources[t])
  <2> DEFINE rs == s.resources[t]
  <2>1. rs \in Seq(Resource) /\ Len(rs) \in Nat
    BY <1>1, LenProperties DEF State
  <2>2. Sorted(rs, t) /\ Settled(rs)
    BY DEF Saveable
  <2> HIDE DEF rs
  <2>3. Superseded(rs)
    BY <2>1, <2>2, SettledIsSuperseded
  <2>4. \A i, j \in 1 .. Len(rs) : ~rs[i].deposed /\ ~(i < j /\ SameResource(rs[i], rs[j]))
    BY <2>1, <2>2 DEF Settled
  <2>5. ListInv(n, t, rs)
    BY <1>2, <2>2, <2>3, <2>4 DEF ListInv
  <2> QED  BY <2>5 DEF rs
<1> QED  BY <1>2, <1>3 DEF RunInv, WriteInv, Saveable, n

-----------------------------------------------------------------------------
(* The invariant.                                                          *)

\* Issuing and destroying credentials keeps the record of them well typed.
LEMMA NewKeyType ==
    ASSUME Inv, NEW p \in Runs, HasItem(run[p])
    PROVE  /\ NewKey(run[p]) \in Key
           /\ Append(keys, NewKey(run[p])) \in Seq(Key)
           /\ NewKey(run[p]).exp \in Nat
           /\ Len(keys) + 1 \in Nat
<1> DEFINE r == run[p]
<1>1. r \in RunState /\ r.config \in ValidConfigs /\ r.item <= Len(Work[r.config])
  BY DEF Inv, TypeOK, RunInv, HasItem
<1> HIDE DEF r
<1>2. Item(r) \in WorkItem /\ Item(r).request \in CredentialRequest /\ Item(r).request.type \in CredentialTypes
  BY <1>1, ItemProperties
<1>3. now + Lifetime[Item(r).request.type] \in Nat
  BY <1>2, BoundsAssumption DEF Inv, TypeOK
<1>4. NewKey(r) \in Key /\ NewKey(r).exp \in Nat
  BY <1>2, <1>3 DEF NewKey, Key, WorkItem, CredentialRequest
<1>5. keys \in Seq(Key)
  BY DEF Inv, TypeOK
<1> HIDE DEF NewKey
<1>6. Append(keys, NewKey(r)) \in Seq(Key) /\ Len(keys) \in Nat
  BY <1>4, <1>5, AppendProperties, LenProperties
<1> QED  BY <1>4, <1>6 DEF r

\* Destroying a resource leaves the credentials a sequence.
LEMMA DestroyedType ==
    ASSUME Inv, NEW res
    PROVE  Destroyed(res) \in Seq(Key)
<1>1. keys \in Seq(Key) /\ Len(keys) \in Nat /\ DOMAIN keys = 1 .. Len(keys)
      /\ keys \in [1 .. Len(keys) -> Key]
  BY LenProperties DEF Inv, TypeOK
<1>2. CASE res.key \in 1 .. Len(keys)
  <2>1. keys[res.key] \in Key
    BY <1>1, <1>2
  <2>2. [keys[res.key] EXCEPT !.live = FALSE] \in Key
    BY <2>1 DEF Key
  <2>3. [keys EXCEPT ![res.key].live = FALSE] = [keys EXCEPT ![res.key] = [keys[res.key] EXCEPT !.live = FALSE]]
    BY <1>1, <1>2
  <2>4. [keys EXCEPT ![res.key].live = FALSE] \in Seq(Key)
    BY <1>1, <1>2, <2>2, <2>3, ExceptSeq
  <2> QED  BY <1>1, <2>4 DEF Destroyed
<1>3. CASE res.key \notin 1 .. Len(keys)
  <2>1. [keys EXCEPT ![res.key].live = FALSE] = keys
    BY <1>1, <1>3
  <2> QED  BY <1>1, <2>1 DEF Destroyed
<1> QED  BY <1>2, <1>3

\* A step of one invocation.
LEMMA StepInv ==
    ASSUME Inv, NEW p \in Runs, NEW n, n \in RunState, RunInv(n), run' = [run EXCEPT ![p] = n],
           UNCHANGED external, Saveable(saved'), keys' \in Seq(Key),
           vault' \in [Locations -> Nat], faults' \in Nat
    PROVE  Inv'
<1>1. run \in [Runs -> RunState] /\ \A q \in Runs : RunInv(run[q])
  BY DEF Inv, TypeOK
<1>2. run' \in [Runs -> RunState] /\ \A q \in Runs : RunInv(run'[q])
  BY <1>1
<1>3. saved' \in State
  BY DEF Saveable
<1>4. /\ now' \in Nat /\ config' \in Configs /\ deployment' \in Deployments /\ edits' \in Nat
  BY DEF Inv, TypeOK, external
<1>5. TypeOK'
  BY <1>2, <1>3, <1>4 DEF TypeOK
<1> QED  BY <1>2, <1>5 DEF Inv

\* What every action of an invocation may use of the invariant.
LEMMA Given ==
    ASSUME Inv, NEW p \in Runs
    PROVE  /\ run[p] \in RunState /\ RunInv(run[p])
           /\ Saveable(saved)
           /\ keys \in Seq(Key) /\ vault \in [Locations -> Nat]
           /\ faults \in Nat /\ (\A kind : Fault(kind) => faults' \in Nat)
           /\ config \in Configs /\ deployment \in Deployments
BY DEF Inv, TypeOK, Fault

\* The invariant holds initially.
LEMMA InitInv == Init => Inv
<1> SUFFICES ASSUME Init PROVE Inv
  OBVIOUS
<1>1. << >> \in Seq(Key)
  BY EmptySeq
<1>2. TypeOK
  BY <1>1, IdleInv, EmptyState DEF Init, TypeOK, Nothing
<1>3. Saveable(saved) /\ \A p \in Runs : RunInv(run[p])
  BY EmptyState, IdleInv DEF Init
<1> QED  BY <1>2, <1>3 DEF Inv

\* The steps that go through the requests.
LEMMA RequestsInv ==
    ASSUME Inv, NEW p \in Runs,
           \/ SkipRequest(p) \/ KeepCredentials(p) \/ CreateCredentials(p) \/ CreateFails(p)
    PROVE  Inv'
<1> DEFINE r == run[p]
           l == [r EXCEPT !.state = Looked(r)]
<1>1. /\ r \in RunState /\ RunInv(r) /\ Saveable(saved)
      /\ keys \in Seq(Key) /\ vault \in [Locations -> Nat]
      /\ faults \in Nat /\ \A kind : Fault(kind) => faults' \in Nat
  BY Given
<1>2. CASE SkipRequest(p)
  <2>1. [r EXCEPT !.item = @ + 1] \in RunState /\ RunInv([r EXCEPT !.item = @ + 1])
    BY <1>1, <1>2, NextItemInv DEF SkipRequest
  <2> QED  BY <1>1, <1>2, <2>1, StepInv DEF SkipRequest
<1>3. ASSUME HasItem(r)
      PROVE  /\ l \in RunState /\ RunInv(l) /\ HasItem(l) /\ Item(l) = Item(r)
             /\ l.deployment = r.deployment /\ l.state = Looked(r)
             /\ [l EXCEPT !.item = @ + 1] \in RunState /\ RunInv([l EXCEPT !.item = @ + 1])
             /\ [l EXCEPT !.item = @ + 1] = [r EXCEPT !.item = @ + 1, !.state = Looked(r)]
  <2>1. l \in RunState /\ RunInv(l) /\ HasItem(l)
    BY <1>1, <1>3, LookedInv
  <2>2. l.config = r.config /\ l.item = r.item /\ l.deployment = r.deployment /\ l.state = Looked(r)
    BY <1>1 DEF RunState
  <2>3. [l EXCEPT !.item = @ + 1] = [r EXCEPT !.item = @ + 1, !.state = Looked(r)]
    BY <1>1 DEF RunState
  <2>4. Item(l) = Item(r)
    BY <2>2 DEF Item
  <2> HIDE DEF l
  <2> QED  BY <2>1, <2>2, <2>3, <2>4, NextItemInv
<1>4. CASE KeepCredentials(p)
  <2>1. HasItem(r)
    BY <1>4 DEF KeepCredentials, Satisfied
  <2> QED  BY <1>1, <1>3, <1>4, <2>1, StepInv DEF KeepCredentials
<1>5. CASE CreateFails(p)
  <2>1. HasItem(r)
    BY <1>5 DEF CreateFails, NeedsCredentials
  <2>2. keys' \in Seq(Key) /\ faults' \in Nat
    BY <1>1, <1>5, <2>1, NewKeyType DEF CreateFails
  <2> QED  BY <1>1, <1>3, <1>5, <2>1, <2>2, StepInv DEF CreateFails
<1>6. CASE CreateCredentials(p)
  <2> DEFINE res == newResource(Item(r).request, Item(r).store, NewKey(r).exp, Len(keys) + 1)
             n == [r EXCEPT !.pc = "write", !.state = AddResource(Looked(r), res)]
  <2>1. HasItem(r) /\ Provider(Item(r).request.type) \in r.deployment.providers
    BY <1>6 DEF CreateCredentials, NeedsCredentials, Serviceable
  <2>2. Append(keys, NewKey(r)) \in Seq(Key) /\ NewKey(r).exp \in Nat /\ Len(keys) + 1 \in Nat
    BY <2>1, NewKeyType
  <2>3. /\ l \in RunState /\ RunInv(l) /\ HasItem(l) /\ Item(l) = Item(r)
        /\ l.deployment = r.deployment /\ l.state = Looked(r)
    BY <1>3, <2>1
  <2>4. n = [l EXCEPT !.pc = "write", !.state = AddResource(@, res)]
    <3> HIDE DEF res
    <3> QED  BY <1>1 DEF RunState
  <2>5. n \in RunState /\ RunInv(n)
    <3> HIDE DEF l, n, r
    <3> QED  BY <2>1, <2>2, <2>3, <2>4, CreatedInv
  <2>6. run' = [run EXCEPT ![p] = n] /\ keys' = Append(keys, NewKey(r))
        /\ UNCHANGED <<external, saved, vault, faults>>
    BY <1>6 DEF CreateCredentials
  <2> HIDE DEF n
  <2> QED  BY <1>1, <2>2, <2>5, <2>6, StepInv
<1> QED  BY <1>2, <1>4, <1>5, <1>6

\* The steps that write the credentials of a request.
LEMMA WritesInv ==
    ASSUME Inv, NEW p \in Runs, WriteSecret(p) \/ WriteFails(p)
    PROVE  Inv'
<1> DEFINE r == run[p]
           n == NextCredential(r)
<1>1. /\ r \in RunState /\ RunInv(r) /\ Saveable(saved)
      /\ keys \in Seq(Key) /\ vault \in [Locations -> Nat]
      /\ faults \in Nat /\ \A kind : Fault(kind) => faults' \in Nat
  BY Given
<1>2. r.pc = "write"
  BY DEF WriteSecret, WriteFails
<1>3. n \in RunState /\ n.state = r.state /\ RunInv(n)
  BY <1>1, <1>2, NextCredentialInv
<1>4. /\ Created(r) \in Resource
      /\ newSecret(Item(r).request.name, PathToWrite(r), Created(r).exp) \in Secret(Paths)
      /\ Store(r) \in StoreConfigs
  BY <1>1, <1>2, WritingProperties
<1>5. Written(r) \in [Locations -> Nat]
  <2>1. Created(r).key \in Nat
    BY <1>4 DEF Resource
  <2> QED  BY <1>1, <2>1 DEF Written
<1>6. CASE WriteFails(p)
  <2>1. vault' \in [Locations -> Nat] /\ faults' \in Nat
    BY <1>1, <1>5, <1>6 DEF WriteFails
  <2> QED  BY <1>1, <1>3, <1>6, <2>1, StepInv DEF WriteFails
<1>7. CASE WriteSecret(p)
  <2> DEFINE secret == newSecret(Item(r).request.name, PathToWrite(r), Created(r).exp)
             list == Put(r.state.secrets[Store(r)], secret)
             m == [n EXCEPT !.state = AddSecret(@, Store(r), secret)]
  <2>1. r.state.secrets[Store(r)] \in Seq(Secret(Paths)) /\ DistinctPaths(r.state.secrets[Store(r)])
    BY <1>1, <1>2, <1>4 DEF RunInv, RunState, State
  <2>2. list \in Seq(Secret(Paths)) /\ DistinctPaths(list)
    BY <1>4, <2>1, PutProperties
  <2>3. AddSecret(r.state, Store(r), secret) = [r.state EXCEPT !.secrets[Store(r)] = list]
    BY DEF AddSecret
  <2>4. m = [n EXCEPT !.state = [@ EXCEPT !.secrets[Store(r)] = list]]
    <3> HIDE DEF n, secret, list
    <3> QED  BY <1>3, <2>3
  <2>5. n.pc # "idle"
    BY <1>2, <1>3 DEF NextCredential, RunState
  <2>6. m \in RunState /\ RunInv(m)
    <3> HIDE DEF n, m, secret, list, r
    <3> QED  BY <1>3, <1>4, <2>2, <2>4, <2>5, SecretsInv
  <2>7. run' = [run EXCEPT ![p] = m] /\ vault' = Written(r) /\ UNCHANGED <<external, saved, keys, faults>>
    BY <1>7 DEF WriteSecret, Recorded
  <2> HIDE DEF m
  <2> QED  BY <1>1, <1>5, <2>6, <2>7, StepInv
<1> QED  BY <1>6, <1>7

\* The steps of the clean-up of resources.
LEMMA CleanUpInv ==
    ASSUME Inv, NEW p \in Runs,
           \/ FinishRequests(p) \/ FinishResources(p)
           \/ \E t \in ProviderTypes : KeepResource(p, t) \/ DestroyResource(p, t) \/ DestroyFails(p, t)
    PROVE  Inv'
<1> DEFINE r == run[p]
<1>1. /\ r \in RunState /\ RunInv(r) /\ Saveable(saved)
      /\ keys \in Seq(Key) /\ vault \in [Locations -> Nat]
      /\ faults \in Nat /\ \A kind : Fault(kind) => faults' \in Nat
  BY Given
<1>2. CASE FinishRequests(p)
  <2>1. FinishedRequests(r) \in RunState /\ RunInv(FinishedRequests(r))
    BY <1>1, <1>2, FinishRequestsInv DEF FinishRequests
  <2>2. run' = [run EXCEPT ![p] = FinishedRequests(r)] /\ UNCHANGED <<external, saved, keys, vault, faults>>
    BY <1>2 DEF FinishRequests, FinishedRequests
  <2> QED  BY <1>1, <2>1, <2>2, StepInv
<1>3. CASE FinishResources(p)
  <2>1. FinishedResources(r) \in RunState /\ RunInv(FinishedResources(r))
    BY <1>1, <1>3, FinishResourcesInv DEF FinishResources
  <2>2. run' = [run EXCEPT ![p] = FinishedResources(r)] /\ UNCHANGED <<external, saved, keys, vault, faults>>
    BY <1>3 DEF FinishResources, FinishedResources
  <2> QED  BY <1>1, <2>1, <2>2, StepInv
<1>4. ASSUME NEW t \in ProviderTypes, KeepResource(p, t)
      PROVE  Inv'
  <2>1. [r EXCEPT !.left[t] = @ - 1] \in RunState /\ RunInv([r EXCEPT !.left[t] = @ - 1])
    BY <1>1, <1>4, KeepInv DEF KeepResource
  <2> QED  BY <1>1, <1>4, <2>1, StepInv DEF KeepResource
<1>5. ASSUME NEW t \in ProviderTypes, DestroyResource(p, t) \/ DestroyFails(p, t)
      PROVE  Inv'
  <2>1. Visiting(r, t) /\ ~Kept(r, t)
    BY <1>5 DEF DestroyResource, DestroyFails
  <2>2. Forget(r, t) \in RunState /\ RunInv(Forget(r, t))
    BY <1>1, <2>1, ForgetInv
  <2>3. /\ run' = [run EXCEPT ![p] = Forget(r, t)]
        /\ UNCHANGED <<external, saved, vault>>
    BY <1>5 DEF DestroyResource, DestroyFails
  <2>4. keys' \in Seq(Key) /\ faults' \in Nat
    BY <1>1, <1>5, DestroyedType DEF DestroyResource, DestroyFails
  <2> QED  BY <1>1, <2>2, <2>3, <2>4, StepInv
<1> QED  BY <1>2, <1>3, <1>4, <1>5

\* The steps of the clean-up of secrets.
LEMMA OrphansInv ==
    ASSUME Inv, NEW p \in Runs,
           \/ FinishOrphans(p)
           \/ \E c \in StoreConfigs : \E sec \in run[p].orphans[c] :
                KeepOrphan(p, c, sec) \/ DeleteOrphan(p, c, sec) \/ DeleteFails(p, c, sec)
    PROVE  Inv'
<1> DEFINE r == run[p]
<1>1. /\ r \in RunState /\ RunInv(r) /\ Saveable(saved)
      /\ keys \in Seq(Key) /\ vault \in [Locations -> Nat]
      /\ faults \in Nat /\ \A kind : Fault(kind) => faults' \in Nat
  BY Given
<1>2. CASE FinishOrphans(p)
  <2>1. [r EXCEPT !.pc = "save"] \in RunState /\ RunInv([r EXCEPT !.pc = "save"])
    BY <1>1, <1>2, FinishOrphansInv DEF FinishOrphans
  <2> QED  BY <1>1, <1>2, <2>1, StepInv DEF FinishOrphans
<1>3. ASSUME NEW c \in StoreConfigs, NEW sec, KeepOrphan(p, c, sec)
      PROVE  Inv'
  <2>1. [r EXCEPT !.orphans[c] = @ \ {sec}] \in RunState /\ RunInv([r EXCEPT !.orphans[c] = @ \ {sec}])
    BY <1>1, <1>3, OrphanInv DEF KeepOrphan
  <2> QED  BY <1>1, <1>3, <2>1, StepInv DEF KeepOrphan
<1>4. ASSUME NEW c \in StoreConfigs, NEW sec, DeleteOrphan(p, c, sec) \/ DeleteFails(p, c, sec)
      PROVE  Inv'
  <2>1. HasOrphan(r, c, sec)
    BY <1>4 DEF DeleteOrphan, DeleteFails
  <2>2. Dropped(r, c, sec) \in RunState /\ RunInv(Dropped(r, c, sec))
    BY <1>1, <2>1, DroppedInv
  <2>3. /\ run' = [run EXCEPT ![p] = Dropped(r, c, sec)]
        /\ UNCHANGED <<external, saved, keys>>
    BY <1>4 DEF DeleteOrphan, DeleteFails
  <2>4. vault' \in [Locations -> Nat] /\ faults' \in Nat
    BY <1>1, <1>4 DEF DeleteOrphan, DeleteFails, Nothing
  <2> QED  BY <1>1, <2>2, <2>3, <2>4, StepInv
<1> QED  BY <1>2, <1>3, <1>4

\* The first and the last step of an invocation.
LEMMA EndsInv ==
    ASSUME Inv, NEW p \in Runs, StartRun(p) \/ Save(p) \/ SaveFails(p) \/ SaveTorn(p) \/ Crash(p)
    PROVE  Inv'
<1> DEFINE r == run[p]
<1>1. /\ r \in RunState /\ RunInv(r) /\ Saveable(saved)
      /\ keys \in Seq(Key) /\ vault \in [Locations -> Nat]
      /\ faults \in Nat /\ (\A kind : Fault(kind) => faults' \in Nat)
      /\ config \in Configs /\ deployment \in Deployments
  BY Given
<1>2. Idle \in RunState /\ RunInv(Idle)
  BY IdleInv
<1>3. CASE StartRun(p)
  <2>1. Started(config, deployment, saved) \in RunState /\ RunInv(Started(config, deployment, saved))
    BY <1>1, <1>3, StartedInv DEF StartRun
  <2>2. /\ run' = [run EXCEPT ![p] = Started(config, deployment, saved)]
        /\ UNCHANGED <<external, saved, keys, vault, faults>>
    BY <1>3 DEF StartRun, Started
  <2> QED  BY <1>1, <2>1, <2>2, StepInv
<1>4. CASE Save(p)
  <2>1. Saveable(saved')
    BY <1>1, <1>4, PersistedIsSaveable DEF Save
  <2> QED  BY <1>1, <1>2, <1>4, <2>1, StepInv DEF Save
<1>5. CASE SaveFails(p)
  <2>1. Saveable(saved')
    BY <1>1, <1>5, PersistedIsSaveable DEF SaveFails
  <2>2. faults' \in Nat
    BY <1>1, <1>5 DEF SaveFails
  <2> QED  BY <1>1, <1>2, <1>5, <2>1, <2>2, StepInv DEF SaveFails
<1>6. CASE Crash(p)
  <2>1. faults' \in Nat
    BY <1>1, <1>6 DEF Crash
  <2> QED  BY <1>1, <1>2, <1>6, <2>1, StepInv DEF Crash
<1>7. CASE SaveTorn(p)
  <2>1. Saveable(saved')
    BY <1>7, EmptyState DEF SaveTorn
  <2>2. faults' \in Nat
    BY <1>1, <1>7 DEF SaveTorn
  <2> QED  BY <1>1, <1>2, <1>7, <2>1, <2>2, StepInv DEF SaveTorn
<1> QED  BY <1>3, <1>4, <1>5, <1>6, <1>7

\* Every step keeps the invariant.
LEMMA NextInv == Inv /\ [Next]_vars => Inv'
<1> SUFFICES ASSUME Inv, [Next]_vars PROVE Inv'
  OBVIOUS
<1>1. CASE UNCHANGED vars
  BY <1>1 DEF vars, Inv, TypeOK
<1>2. ASSUME NEW p \in Runs, StartRun(p) \/ RejectConfig(p) \/ Proceed(p) \/ Fail(p)
      PROVE  Inv'
  <2>1. CASE RejectConfig(p)
    BY <1>1, <2>1 DEF RejectConfig
  <2>2. CASE StartRun(p)
    BY <2>2, EndsInv
  <2>3. CASE Proceed(p)
    BY <2>3, RequestsInv, WritesInv, CleanUpInv, OrphansInv, EndsInv DEF Proceed
  <2>4. CASE Fail(p)
    BY <2>4, RequestsInv, WritesInv, CleanUpInv, OrphansInv, EndsInv DEF Fail
  <2> QED  BY <1>2, <2>1, <2>2, <2>3, <2>4
<1>3. CASE Tick
  BY <1>3 DEF Tick, Inv, TypeOK
<1>4. CASE EditConfig
  BY <1>4 DEF EditConfig, Inv, TypeOK
<1>5. CASE Redeploy
  BY <1>5 DEF Redeploy, Inv, TypeOK
<1> QED  BY <1>1, <1>2, <1>3, <1>4, <1>5 DEF Next

\* The inductive invariant holds in every reachable state.
THEOREM Invariance == Spec => []Inv
<1> QED  BY InitInv, NextInv, PTL DEF Spec

\* For any number of concurrent invocations, config files and failures the
\* variables keep their types.
THEOREM TypeCorrectness == Spec => []TypeOK
<1>1. Inv => TypeOK
  BY DEF Inv
<1> QED  BY <1>1, Invariance, PTL

\* For any number of concurrent invocations, config files and failures, the
\* state file holds nothing deposed and no identity or path twice.
THEOREM SavedIsClean == Spec => []SavedStateIsClean
<1>1. Inv => SavedStateIsClean
  <2> SUFFICES ASSUME Inv PROVE SavedStateIsClean
    OBVIOUS
  <2>1. Saveable(saved)
    BY DEF Inv
  <2>2. ASSUME NEW t \in ProviderTypes
        PROVE  \A i, j \in DOMAIN saved.resources[t] :
                 /\ ~saved.resources[t][i].deposed
                 /\ SameResource(saved.resources[t][i], saved.resources[t][j]) => i = j
    <3>1. saved.resources[t] \in Seq(Resource)
      BY <2>1 DEF Saveable, State
    <3>2. DOMAIN saved.resources[t] = 1 .. Len(saved.resources[t])
      BY <3>1, LenProperties
    <3> QED  BY <2>1, <3>2 DEF Saveable, Settled
  <2>3. ASSUME NEW c \in StoreConfigs
        PROVE  \A i, j \in DOMAIN saved.secrets[c] :
                 saved.secrets[c][i].path = saved.secrets[c][j].path => i = j
    <3>1. saved.secrets[c] \in Seq(Secret(Paths))
      BY <2>1 DEF Saveable, State
    <3>2. DOMAIN saved.secrets[c] = 1 .. Len(saved.secrets[c])
      BY <3>1, LenProperties
    <3> QED  BY <2>1, <3>2 DEF Saveable, DistinctPaths
  <2> QED  BY <2>2, <2>3 DEF SavedStateIsClean, CleanState
<1> QED  BY <1>1, Invariance, PTL

-----------------------------------------------------------------------------
(* What a clean-up step removes.                                           *)

\* A step of an invocation changes no other invocation, and in the clean-up
\* of resources it keeps the list, removes the visited resource, or ends.
LEMMA CleanUpStep ==
    ASSUME Inv, NEW p \in Runs, StartRun(p) \/ Proceed(p) \/ Fail(p)
    PROVE  \E n : /\ run' = [run EXCEPT ![p] = n]
                  /\ run[p].pc = "resources" =>
                        \/ n.pc # "resources"
                        \/ n.state = run[p].state
                        \/ \E t \in ProviderTypes :
                             n.state.resources = [run[p].state.resources EXCEPT
                                                    ![t] = RemoveAt(@, run[p].left[t])]
<1> DEFINE r == run[p]
           Change(n) == /\ run' = [run EXCEPT ![p] = n]
                        /\ r.pc = "resources" =>
                            \/ n.pc # "resources"
                            \/ n.state = r.state
                            \/ \E t \in ProviderTypes :
                                 n.state.resources = [r.state.resources EXCEPT ![t] = RemoveAt(@, r.left[t])]
<1>1. r \in RunState /\ RunInv(r)
  BY Given
<1>2. ASSUME StartRun(p)
      PROVE  \E n : Change(n)
  BY <1>2 DEF StartRun
<1>3. ASSUME SkipRequest(p) \/ KeepCredentials(p) \/ CreateCredentials(p) \/ CreateFails(p)
      PROVE  \E n : Change(n)
  BY <1>3 DEF SkipRequest, KeepCredentials, CreateCredentials, CreateFails,
              Satisfied, NeedsCredentials, HasItem
<1>4. ASSUME WriteSecret(p) \/ WriteFails(p)
      PROVE  \E n : Change(n)
  BY <1>4 DEF WriteSecret, WriteFails
<1>5. ASSUME FinishRequests(p)
      PROVE  \E n : Change(n)
  BY <1>5 DEF FinishRequests
<1>6. ASSUME FinishResources(p)
      PROVE  \E n : Change(n)
  <2>1. run' = [run EXCEPT ![p] = FinishedResources(r)]
    BY <1>6 DEF FinishResources, FinishedResources
  <2>2. FinishedResources(r).pc # "resources"
    BY <1>1 DEF FinishedResources, RunState
  <2> QED  BY <2>1, <2>2
<1>7. ASSUME NEW t \in ProviderTypes, KeepResource(p, t)
      PROVE  \E n : Change(n)
  <2>1. [r EXCEPT !.left[t] = @ - 1].state = r.state
    BY <1>1 DEF RunState
  <2>2. Change([r EXCEPT !.left[t] = @ - 1])
    BY <1>7, <2>1 DEF KeepResource
  <2> QED  BY <2>2
<1>8. ASSUME NEW t \in ProviderTypes, DestroyResource(p, t) \/ DestroyFails(p, t)
      PROVE  \E n : Change(n)
  <2>1. Visiting(r, t) /\ ~Kept(r, t) /\ run' = [run EXCEPT ![p] = Forget(r, t)]
    BY <1>8 DEF DestroyResource, DestroyFails
  <2>2. Forget(r, t).state.resources = [r.state.resources EXCEPT ![t] = RemoveAt(@, r.left[t])]
    BY <1>1, <2>1, ForgetInv
  <2>3. Change(Forget(r, t))
    BY <2>1, <2>2
  <2> QED  BY <2>3
<1>9. ASSUME NEW c \in StoreConfigs, NEW sec,
             KeepOrphan(p, c, sec) \/ DeleteOrphan(p, c, sec) \/ DeleteFails(p, c, sec)
      PROVE  \E n : Change(n)
  BY <1>9 DEF KeepOrphan, DeleteOrphan, DeleteFails, HasOrphan
<1>10. ASSUME FinishOrphans(p)
      PROVE  \E n : Change(n)
  BY <1>10 DEF FinishOrphans
<1>11. ASSUME Save(p) \/ SaveFails(p) \/ SaveTorn(p)
      PROVE  \E n : Change(n)
  BY <1>11 DEF Save, SaveFails, SaveTorn
<1>12. ASSUME Crash(p)
      PROVE  \E n : Change(n)
  <2>1. Idle.pc # "resources"
    BY DEF Idle
  <2>2. Change(Idle)
    BY <1>12, <2>1 DEF Crash
  <2> QED  BY <2>2
<1>13. ASSUME Proceed(p)
      PROVE  \E n : Change(n)
  <2> HIDE DEF Change, r
  <2>1. \/ SkipRequest(p) \/ KeepCredentials(p) \/ CreateCredentials(p) \/ WriteSecret(p)
        \/ FinishRequests(p) \/ FinishResources(p) \/ FinishOrphans(p) \/ Save(p)
        \/ \E t \in ProviderTypes : KeepResource(p, t) \/ DestroyResource(p, t)
        \/ \E c \in StoreConfigs : \E sec \in run[p].orphans[c] :
                KeepOrphan(p, c, sec) \/ DeleteOrphan(p, c, sec)
    BY <1>13 DEF Proceed
  <2> QED  BY <2>1, <1>3, <1>4, <1>5, <1>6, <1>7, <1>8, <1>9, <1>10, <1>11
<1>14. ASSUME Fail(p)
      PROVE  \E n : Change(n)
  <2> HIDE DEF Change, r
  <2>1. \/ CreateFails(p) \/ WriteFails(p) \/ SaveFails(p) \/ SaveTorn(p) \/ Crash(p)
        \/ \E t \in ProviderTypes : DestroyFails(p, t)
        \/ \E c \in StoreConfigs : \E sec \in run[p].orphans[c] : DeleteFails(p, c, sec)
    BY <1>14 DEF Fail
  <2> QED  BY <2>1, <1>3, <1>4, <1>8, <1>9, <1>11, <1>12
<1> QED  BY <1>2, <1>13, <1>14

\* For any number of concurrent invocations and failures, what a clean-up step
\* takes out of the state is the resource it destroyed.
THEOREM DestroysWhatItRemoves == Spec => RemovesWhatItDestroys
<1> DEFINE Step ==
        \A p \in Runs, t \in ProviderTypes :
            run[p].pc = "resources" /\ run'[p].pc = "resources"
                /\ run'[p].state.resources[t] # run[p].state.resources[t]
            => run'[p].state.resources[t] = RemoveAt(run[p].state.resources[t], run[p].left[t])
<1>1. Inv /\ [Next]_vars => [Step]_vars
  <2> SUFFICES ASSUME Inv, Next, NEW p \in Runs, NEW t \in ProviderTypes,
                      run[p].pc = "resources", run'[p].pc = "resources",
                      run'[p].state.resources[t] # run[p].state.resources[t]
               PROVE  run'[p].state.resources[t]
                        = RemoveAt(run[p].state.resources[t], run[p].left[t])
    OBVIOUS
  <2>1. run \in [Runs -> RunState]
    BY DEF Inv, TypeOK
  <2>2. PICK q \in Runs : StartRun(q) \/ Proceed(q) \/ Fail(q)
    BY DEF Next, RejectConfig, vars, Tick, EditConfig, Redeploy
  <2>3. PICK n : /\ run' = [run EXCEPT ![q] = n]
                 /\ run[q].pc = "resources" =>
                        \/ n.pc # "resources"
                        \/ n.state = run[q].state
                        \/ \E u \in ProviderTypes :
                             n.state.resources = [run[q].state.resources EXCEPT
                                                    ![u] = RemoveAt(@, run[q].left[u])]
    BY <2>2, CleanUpStep
  <2>4. p = q /\ run'[p] = n
    BY <2>1, <2>3
  <2>5. PICK u \in ProviderTypes :
             n.state.resources = [run[p].state.resources EXCEPT ![u] = RemoveAt(@, run[p].left[u])]
    BY <2>3, <2>4
  <2>6. run[p].state.resources \in [ProviderTypes -> Seq(Resource)]
    BY <2>1 DEF RunState, State
  <2> QED  BY <2>4, <2>5, <2>6
<1> QED  BY <1>1, Invariance, PTL DEF Spec, RemovesWhatItDestroys
=============================================================================
