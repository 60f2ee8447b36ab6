----------------------------- MODULE StateProofs -----------------------------
(***************************************************************************)
(* What the operations of State do to the resources of a provider.         *)
(***************************************************************************)
EXTENDS State, SequenceTheorems, TLAPS

\* Every resource is in the list of its own provider.
Sorted(rs, t) == \A i \in 1 .. Len(rs) : Provider(rs[i].type) = t

\* Of two resources with one identity the older is deposed and the newer in use.
Superseded(rs) ==
    \A i, j \in 1 .. Len(rs) :
        i < j /\ SameResource(rs[i], rs[j])
        => rs[i].deposed /\ ~rs[j].deposed /\ rs[j].inUse

\* Nothing is deposed, and identities are unique.
Settled(rs) ==
    \A i, j \in 1 .. Len(rs) :
        ~rs[i].deposed /\ (SameResource(rs[i], rs[j]) => i = j)

\* No two secrets of a store have one path.
DistinctPaths(secrets) ==
    \A i, j \in 1 .. Len(secrets) : secrets[i].path = secrets[j].path => i = j

-----------------------------------------------------------------------------
\* RemoveAt drops one element and shifts the ones behind it, as the append of
\* RemoveResource does (src/state.go:119).
LEMMA RemoveAtProperties ==
    ASSUME NEW S, NEW s \in Seq(S), NEW i \in 1 .. Len(s)
    PROVE  /\ RemoveAt(s, i) \in Seq(S)
           /\ Len(RemoveAt(s, i)) = Len(s) - 1
           /\ \A j \in 1 .. Len(s) - 1 :
                RemoveAt(s, i)[j] = IF j < i THEN s[j] ELSE s[j + 1]
<1> DEFINE front == SubSeq(s, 1, i - 1)
           back  == SubSeq(s, i + 1, Len(s))
<1>1. /\ front \in Seq(S) /\ Len(front) = i - 1
      /\ \A j \in 1 .. i - 1 : front[j] = s[j]
  BY SubSeqProperties
<1>2. /\ back \in Seq(S) /\ Len(back) = Len(s) - i
      /\ \A j \in 1 .. Len(s) - i : back[j] = s[i + j]
  BY SubSeqProperties
<1> HIDE DEF front, back
<1>3. /\ front \o back \in Seq(S)
      /\ Len(front \o back) = Len(s) - 1
      /\ \A j \in 1 .. Len(s) - 1 :
            (front \o back)[j] = IF j <= i - 1 THEN front[j] ELSE back[j - (i - 1)]
  BY <1>1, <1>2, ConcatProperties
<1>4. \A j \in 1 .. Len(s) - 1 :
         (front \o back)[j] = IF j < i THEN s[j] ELSE s[j + 1]
  BY <1>1, <1>2, <1>3
<1> QED  BY <1>3, <1>4 DEF RemoveAt, front, back

\* Each credential type has one of the known providers (src/sidecred.go:176-188).
LEMMA ProviderType == \A type \in CredentialTypes : Provider(type) \in ProviderTypes
BY DEF CredentialTypes, ProviderTypes, Provider

\* A function on the positions of a sequence is a sequence of the same length.
LEMMA FunctionSeq ==
    ASSUME NEW S, NEW n \in Nat, NEW f \in [1 .. n -> S]
    PROVE  f \in Seq(S) /\ Len(f) = n
BY SeqDef, LenProperties

\* Marking resources in use changes nothing but that flag (src/state.go:103-107).
LEMMA UseProperties ==
    ASSUME NEW rs \in Seq(Resource), NEW type, NEW id, NEW store
    PROVE  LET us == Use(rs, type, id, store) IN
           /\ us \in Seq(Resource)
           /\ Len(us) = Len(rs)
           /\ \A i \in 1 .. Len(rs) :
                /\ SameResource(us[i], rs[i])
                /\ us[i] \in Resource
                /\ us[i].type = rs[i].type
                /\ us[i].store = rs[i].store
                /\ us[i].id = rs[i].id
                /\ us[i].deposed = rs[i].deposed
                /\ us[i].key = rs[i].key
                /\ rs[i].inUse => us[i].inUse
<1> DEFINE us == Use(rs, type, id, store)
<1>1. Len(rs) \in Nat /\ DOMAIN rs = 1 .. Len(rs) /\ \A i \in 1 .. Len(rs) : rs[i] \in Resource
  BY LenProperties, ElementOfSeq
<1>2. us = [i \in 1 .. Len(rs) |->
              IF rs[i].type = type /\ rs[i].store = store /\ rs[i].id = id
              THEN [rs[i] EXCEPT !.inUse = TRUE] ELSE rs[i]]
  BY <1>1 DEF Use
<1>3. ASSUME NEW i \in 1 .. Len(rs)
      PROVE  /\ us[i] \in Resource
             /\ SameResource(us[i], rs[i])
             /\ us[i].type = rs[i].type
             /\ us[i].store = rs[i].store
             /\ us[i].id = rs[i].id
             /\ us[i].deposed = rs[i].deposed
             /\ us[i].key = rs[i].key
             /\ rs[i].inUse => us[i].inUse
  <2>1. us[i] = IF rs[i].type = type /\ rs[i].store = store /\ rs[i].id = id
                THEN [rs[i] EXCEPT !.inUse = TRUE] ELSE rs[i]
    BY <1>2
  <2>2. rs[i] \in Resource
    BY <1>1
  <2> HIDE DEF us
  <2> QED  BY <2>1, <2>2 DEF Resource, SameResource
<1>4. us \in [1 .. Len(rs) -> Resource]
  BY <1>1, <1>2, <1>3
<1>5. us \in Seq(Resource) /\ Len(us) = Len(rs)
  BY <1>1, <1>4, FunctionSeq
<1> QED  BY <1>3, <1>5

\* Deposing the resources with the identity of r changes nothing but that flag
\* (src/state.go:87-91).
LEMMA DeposeProperties ==
    ASSUME NEW rs \in Seq(Resource), NEW r \in Resource
    PROVE  LET ds == Depose(rs, r) IN
           /\ ds \in Seq(Resource)
           /\ Len(ds) = Len(rs)
           /\ \A i \in 1 .. Len(rs) :
                /\ ds[i] = IF SameResource(rs[i], r)
                           THEN [rs[i] EXCEPT !.deposed = TRUE] ELSE rs[i]
                /\ SameResource(ds[i], rs[i])
                /\ ds[i].type = rs[i].type
                /\ ds[i].inUse = rs[i].inUse
<1> DEFINE ds == Depose(rs, r)
<1>1. Len(rs) \in Nat /\ DOMAIN rs = 1 .. Len(rs) /\ \A i \in 1 .. Len(rs) : rs[i] \in Resource
  BY LenProperties, ElementOfSeq
<1>2. ds = [i \in 1 .. Len(rs) |-> IF SameResource(rs[i], r)
                                   THEN [rs[i] EXCEPT !.deposed = TRUE] ELSE rs[i]]
  BY <1>1 DEF Depose
<1>3. ASSUME NEW i \in 1 .. Len(rs)
      PROVE  /\ ds[i] \in Resource
             /\ ds[i] = IF SameResource(rs[i], r)
                        THEN [rs[i] EXCEPT !.deposed = TRUE] ELSE rs[i]
             /\ SameResource(ds[i], rs[i])
             /\ ds[i].type = rs[i].type
             /\ ds[i].inUse = rs[i].inUse
  <2>1. ds[i] = IF SameResource(rs[i], r)
                THEN [rs[i] EXCEPT !.deposed = TRUE] ELSE rs[i]
    BY <1>2
  <2>2. rs[i] \in Resource
    BY <1>1
  <2> HIDE DEF ds
  <2> QED  BY <2>1, <2>2 DEF Resource, SameResource
<1>4. ds \in [1 .. Len(rs) -> Resource]
  BY <1>1, <1>2, <1>3
<1>5. ds \in Seq(Resource) /\ Len(ds) = Len(rs)
  BY <1>1, <1>4, FunctionSeq
<1> QED  BY <1>3, <1>5

\* Loading a state back changes nothing but the in-use flags (src/state.go:70).
LEMMA UnusedProperties ==
    ASSUME NEW rs \in Seq(Resource)
    PROVE  /\ Unused(rs) \in Seq(Resource)
           /\ Len(Unused(rs)) = Len(rs)
           /\ \A i \in 1 .. Len(rs) :
                /\ SameResource(Unused(rs)[i], rs[i])
                /\ Unused(rs)[i].type = rs[i].type
                /\ Unused(rs)[i].key = rs[i].key
                /\ Unused(rs)[i].deposed = rs[i].deposed
<1> DEFINE us == Unused(rs)
<1>1. Len(rs) \in Nat /\ DOMAIN rs = 1 .. Len(rs) /\ \A i \in 1 .. Len(rs) : rs[i] \in Resource
  BY LenProperties, ElementOfSeq
<1>2. us = [i \in 1 .. Len(rs) |-> [rs[i] EXCEPT !.inUse = FALSE]]
  BY <1>1 DEF Unused
<1>3. ASSUME NEW i \in 1 .. Len(rs)
      PROVE  /\ us[i] \in Resource
             /\ SameResource(us[i], rs[i])
             /\ us[i].type = rs[i].type
             /\ us[i].key = rs[i].key
             /\ us[i].deposed = rs[i].deposed
  <2>1. us[i] = [rs[i] EXCEPT !.inUse = FALSE]
    BY <1>2
  <2>2. rs[i] \in Resource
    BY <1>1
  <2> HIDE DEF us
  <2> QED  BY <2>1, <2>2 DEF Resource, SameResource
<1>4. us \in [1 .. Len(rs) -> Resource]
  BY <1>1, <1>2, <1>3
<1>5. us \in Seq(Resource) /\ Len(us) = Len(rs)
  BY <1>1, <1>4, FunctionSeq
<1> QED  BY <1>3, <1>5
-----------------------------------------------------------------------------
\* A resource that the clean-up destroys is the first with its identity: an
\* earlier one would be deposed, and this one neither deposed nor out of use.
LEMMA FirstSameIsVisited ==
    ASSUME NEW rs \in Seq(Resource), Superseded(rs), NEW i \in 1 .. Len(rs),
           rs[i].deposed \/ ~rs[i].inUse
    PROVE  FirstSame(rs, rs[i]) = i
<1>1. DOMAIN rs = 1 .. Len(rs) /\ Len(rs) \in Nat
  BY LenProperties
<1>2. SameResource(rs[i], rs[i])
  BY DEF SameResource
<1>3. \A j \in 1 .. i - 1 : ~SameResource(rs[j], rs[i])
  BY <1>1 DEF Superseded
<1>4. ASSUME NEW k \in DOMAIN rs, SameResource(rs[k], rs[i]),
             \A j \in 1 .. k - 1 : ~SameResource(rs[j], rs[i])
      PROVE  k = i
  BY <1>1, <1>2, <1>3, <1>4
<1> QED  BY <1>1, <1>2, <1>3, <1>4 DEF FirstSame

\* The list after a resource has been added (src/state.go:76-93).
LEMMA AddProperties ==
    ASSUME NEW rs \in Seq(Resource), NEW r \in Resource
    PROVE  LET ns == Append(Depose(rs, r), r) IN
           /\ ns \in Seq(Resource)
           /\ Len(ns) = Len(rs) + 1
           /\ ns[Len(rs) + 1] = r
           /\ \A i \in 1 .. Len(rs) :
                /\ ns[i].type = rs[i].type
                /\ ns[i].store = rs[i].store
                /\ ns[i].id = rs[i].id
                /\ ns[i].key = rs[i].key
                /\ ns[i].inUse = rs[i].inUse
                /\ ns[i].deposed = (rs[i].deposed \/ SameResource(rs[i], r))
<1> DEFINE ds == Depose(rs, r)
           ns == Append(ds, r)
<1>1. Len(rs) \in Nat /\ \A i \in 1 .. Len(rs) : rs[i] \in Resource
  BY LenProperties, ElementOfSeq
<1>2. /\ ds \in Seq(Resource)
      /\ Len(ds) = Len(rs)
      /\ \A i \in 1 .. Len(rs) :
            ds[i] = IF SameResource(rs[i], r) THEN [rs[i] EXCEPT !.deposed = TRUE] ELSE rs[i]
  BY DeposeProperties
<1> HIDE DEF ds
<1>3. /\ ns \in Seq(Resource)
      /\ Len(ns) = Len(rs) + 1
      /\ ns[Len(rs) + 1] = r
      /\ \A i \in 1 .. Len(rs) : ns[i] = ds[i]
  BY <1>2, AppendProperties
<1> HIDE DEF ns
<1>4. ASSUME NEW i \in 1 .. Len(rs)
      PROVE  /\ ns[i].type = rs[i].type
             /\ ns[i].store = rs[i].store
             /\ ns[i].id = rs[i].id
             /\ ns[i].key = rs[i].key
             /\ ns[i].inUse = rs[i].inUse
             /\ ns[i].deposed = (rs[i].deposed \/ SameResource(rs[i], r))
  <2>1. rs[i] \in Resource
    BY <1>1
  <2>2. ns[i] = IF SameResource(rs[i], r) THEN [rs[i] EXCEPT !.deposed = TRUE] ELSE rs[i]
    BY <1>2, <1>3
  <2>3. CASE SameResource(rs[i], r)
    <3>1. ns[i] = [rs[i] EXCEPT !.deposed = TRUE]
      BY <2>2, <2>3
    <3> QED  BY <2>1, <2>3, <3>1 DEF Resource
  <2>4. CASE ~SameResource(rs[i], r)
    BY <2>1, <2>2, <2>4 DEF Resource
  <2> QED  BY <2>3, <2>4
<1> QED  BY <1>3, <1>4 DEF ns, ds

\* Looking a request up keeps the order of supersession and the providers.
LEMMA UseSuperseded ==
    ASSUME NEW rs \in Seq(Resource), Superseded(rs), NEW t, Sorted(rs, t),
           NEW type, NEW id, NEW store
    PROVE  Superseded(Use(rs, type, id, store)) /\ Sorted(Use(rs, type, id, store), t)
<1> DEFINE us == Use(rs, type, id, store)
<1>1. /\ Len(us) = Len(rs)
      /\ \A i \in 1 .. Len(rs) :
            /\ us[i].type = rs[i].type
            /\ us[i].store = rs[i].store
            /\ us[i].id = rs[i].id
            /\ us[i].deposed = rs[i].deposed
            /\ rs[i].inUse => us[i].inUse
  BY UseProperties
<1> HIDE DEF us
<1>2. Superseded(us)
  <2>1. \A i, j \in 1 .. Len(rs) : SameResource(us[i], us[j]) = SameResource(rs[i], rs[j])
    BY <1>1 DEF SameResource
  <2> QED  BY <1>1, <2>1 DEF Superseded
<1>3. Sorted(us, t)
  BY <1>1 DEF Sorted
<1> QED  BY <1>2, <1>3 DEF us

\* Adding a resource whose identity no two others share keeps the order of
\* supersession: it deposes the one before it.
LEMMA AddSuperseded ==
    ASSUME NEW rs \in Seq(Resource), Superseded(rs), NEW r \in Resource,
           Sorted(rs, Provider(r.type)),
           ~r.deposed, r.inUse,
           \A i, j \in 1 .. Len(rs) : i < j /\ SameResource(rs[i], rs[j]) => ~SameResource(rs[j], r)
    PROVE  /\ Superseded(Append(Depose(rs, r), r))
           /\ Sorted(Append(Depose(rs, r), r), Provider(r.type))
<1> DEFINE ns == Append(Depose(rs, r), r)
<1>1. Len(rs) \in Nat
  BY LenProperties
<1>2. /\ Len(ns) = Len(rs) + 1
      /\ ns[Len(rs) + 1] = r
      /\ \A i \in 1 .. Len(rs) :
            /\ ns[i].type = rs[i].type
            /\ ns[i].store = rs[i].store
            /\ ns[i].id = rs[i].id
            /\ ns[i].inUse = rs[i].inUse
            /\ ns[i].deposed = (rs[i].deposed \/ SameResource(rs[i], r))
  BY AddProperties
<1> HIDE DEF ns
<1>3. ASSUME NEW i \in 1 .. Len(ns), NEW j \in 1 .. Len(ns), i < j, SameResource(ns[i], ns[j])
      PROVE  ns[i].deposed /\ ~ns[j].deposed /\ ns[j].inUse
  <2>1. i \in 1 .. Len(rs)
    BY <1>1, <1>2, <1>3
  <2>2. CASE j \in 1 .. Len(rs)
    <3>1. SameResource(rs[i], rs[j])
      BY <1>2, <1>3, <2>1, <2>2 DEF SameResource
    <3>2. rs[i].deposed /\ ~rs[j].deposed /\ rs[j].inUse /\ ~SameResource(rs[j], r)
      BY <1>3, <2>1, <2>2, <3>1 DEF Superseded
    <3> QED  BY <1>2, <2>1, <2>2, <3>2
  <2>3. CASE j = Len(rs) + 1
    <3>1. SameResource(rs[i], r)
      BY <1>2, <1>3, <2>1, <2>3 DEF SameResource
    <3> QED  BY <1>2, <2>1, <2>3, <3>1
  <2> QED  BY <1>1, <1>2, <2>2, <2>3
<1>4. Superseded(ns)
  BY <1>3 DEF Superseded
<1>5. Sorted(ns, Provider(r.type))
  BY <1>1, <1>2 DEF Sorted
<1> QED  BY <1>4, <1>5 DEF ns

\* A sub-list keeps the order of supersession and the provider.
LEMMA RemoveSuperseded ==
    ASSUME NEW rs \in Seq(Resource), Superseded(rs), NEW t, Sorted(rs, t),
           NEW k \in 1 .. Len(rs)
    PROVE  Superseded(RemoveAt(rs, k)) /\ Sorted(RemoveAt(rs, k), t)
<1> DEFINE ns == RemoveAt(rs, k)
           at(i) == IF i < k THEN i ELSE i + 1
<1>1. Len(rs) \in Nat
  BY LenProperties
<1>2. Len(ns) = Len(rs) - 1 /\ \A i \in 1 .. Len(rs) - 1 : ns[i] = rs[at(i)]
  BY RemoveAtProperties
<1>3. \A i \in 1 .. Len(rs) - 1 : at(i) \in 1 .. Len(rs)
  BY <1>1
<1>4. \A i, j \in 1 .. Len(rs) - 1 : i < j => at(i) < at(j)
  BY <1>1
<1> HIDE DEF ns, at
<1>5. Superseded(ns)
  BY <1>2, <1>3, <1>4 DEF Superseded
<1>6. Sorted(ns, t)
  BY <1>2, <1>3 DEF Sorted
<1> QED  BY <1>5, <1>6 DEF ns

\* Without deposed resources the order of supersession leaves no two alike.
LEMMA SettledWhenNoneDeposed ==
    ASSUME NEW rs \in Seq(Resource), Superseded(rs),
           \A i \in 1 .. Len(rs) : ~rs[i].deposed
    PROVE  Settled(rs)
<1>1. Len(rs) \in Nat
  BY LenProperties
<1>2. ASSUME NEW i \in 1 .. Len(rs), NEW j \in 1 .. Len(rs), SameResource(rs[i], rs[j]), i # j
      PROVE  FALSE
  <2>1. SameResource(rs[j], rs[i])
    BY <1>2 DEF SameResource
  <2>2. i < j \/ j < i
    BY <1>1, <1>2
  <2> QED  BY <1>2, <2>1, <2>2 DEF Superseded
<1> QED  BY <1>2 DEF Settled

\* A settled list has no two resources of one identity, so none that supersedes another.
LEMMA SettledIsSuperseded ==
    ASSUME NEW rs \in Seq(Resource), Settled(rs)
    PROVE  Superseded(rs)
<1>1. Len(rs) \in Nat
  BY LenProperties
<1> QED  BY <1>1 DEF Settled, Superseded

\* Saving and loading a settled list leaves it settled.
LEMMA UnusedSettled ==
    ASSUME NEW rs \in Seq(Resource), Settled(rs), NEW t, Sorted(rs, t)
    PROVE  Settled(Unused(rs)) /\ Sorted(Unused(rs), t)
<1> DEFINE us == Unused(rs)
<1>1. /\ Len(us) = Len(rs)
      /\ \A i \in 1 .. Len(rs) : /\ SameResource(us[i], rs[i])
                                 /\ us[i].type = rs[i].type
                                 /\ us[i].deposed = rs[i].deposed
  BY UnusedProperties
<1> HIDE DEF us
<1>2. \A i, j \in 1 .. Len(rs) : SameResource(us[i], us[j]) => SameResource(rs[i], rs[j])
  BY <1>1 DEF SameResource
<1>3. Settled(us)
  BY <1>1, <1>2 DEF Settled
<1>4. Sorted(us, t)
  BY <1>1 DEF Sorted
<1> QED  BY <1>3, <1>4 DEF us

-----------------------------------------------------------------------------
\* Where paths are distinct, the first secret with a path is the one.
LEMMA FirstAtIsTheOne ==
    ASSUME NEW P, NEW secrets \in Seq(Secret(P)), DistinctPaths(secrets),
           NEW i \in 1 .. Len(secrets)
    PROVE  FirstAt(secrets, secrets[i].path) = i
<1>1. Len(secrets) \in Nat /\ DOMAIN secrets = 1 .. Len(secrets)
  BY LenProperties
<1>2. \A j \in 1 .. i - 1 : secrets[j].path # secrets[i].path
  BY <1>1 DEF DistinctPaths
<1>3. \A k \in 1 .. Len(secrets) : secrets[k].path = secrets[i].path => k = i
  BY DEF DistinctPaths
<1> QED  BY <1>1, <1>2, <1>3 DEF FirstAt

\* A secret written to a path replaces the one that was there, so paths stay
\* distinct (src/state.go:154-167).
LEMMA PutProperties ==
    ASSUME NEW P, NEW old \in Seq(Secret(P)), DistinctPaths(old), NEW secret \in Secret(P)
    PROVE  Put(old, secret) \in Seq(Secret(P)) /\ DistinctPaths(Put(old, secret))
<1> DEFINE new == Put(old, secret)
<1>1. Len(old) \in Nat /\ DOMAIN old = 1 .. Len(old)
  BY LenProperties
<1>2. CASE HasPath(old, secret.path)
  <2>1. PICK i \in 1 .. Len(old) : old[i].path = secret.path
    BY <1>1, <1>2 DEF HasPath
  <2>2. FirstAt(old, secret.path) = i
    BY <2>1, FirstAtIsTheOne
  <2>3. new = [old EXCEPT ![i] = secret]
    BY <1>2, <2>2 DEF Put
  <2> HIDE DEF new
  <2>4. /\ new \in Seq(Secret(P))
        /\ Len(new) = Len(old)
        /\ \A j \in 1 .. Len(old) : new[j] = IF j = i THEN secret ELSE old[j]
    BY <2>3, ExceptSeq
  <2>5. \A j \in 1 .. Len(old) : new[j].path = old[j].path
    BY <2>1, <2>4
  <2>6. DistinctPaths(new)
    BY <2>4, <2>5 DEF DistinctPaths
  <2> QED  BY <2>4, <2>6 DEF new
<1>3. CASE ~HasPath(old, secret.path)
  <2>1. new = Append(old, secret)
    BY <1>3 DEF Put
  <2> HIDE DEF new
  <2>2. /\ new \in Seq(Secret(P))
        /\ Len(new) = Len(old) + 1
        /\ \A j \in 1 .. Len(old) : new[j] = old[j]
        /\ new[Len(old) + 1] = secret
    BY <2>1, AppendProperties
  <2>3. \A j \in 1 .. Len(old) : old[j].path # secret.path
    BY <1>1, <1>3 DEF HasPath
  <2>4. DistinctPaths(new)
    BY <1>1, <2>2, <2>3 DEF DistinctPaths
  <2> QED  BY <2>2, <2>4 DEF new
<1> QED  BY <1>2, <1>3

\* A removed secret leaves the paths distinct (src/state.go:193-204).
LEMMA WithoutProperties ==
    ASSUME NEW P, NEW old \in Seq(Secret(P)), DistinctPaths(old), NEW path
    PROVE  Without(old, path) \in Seq(Secret(P)) /\ DistinctPaths(Without(old, path))
<1> DEFINE new == Without(old, path)
<1>1. Len(old) \in Nat /\ DOMAIN old = 1 .. Len(old)
  BY LenProperties
<1>2. CASE HasPath(old, path)
  <2>1. PICK i \in 1 .. Len(old) : old[i].path = path
    BY <1>1, <1>2 DEF HasPath
  <2>2. FirstAt(old, path) = i
    BY <2>1, FirstAtIsTheOne
  <2>3. new = RemoveAt(old, i)
    BY <1>2, <2>2 DEF Without
  <2> HIDE DEF new
  <2>4. /\ new \in Seq(Secret(P))
        /\ Len(new) = Len(old) - 1
        /\ \A j \in 1 .. Len(old) - 1 : new[j] = IF j < i THEN old[j] ELSE old[j + 1]
    BY <2>3, RemoveAtProperties
  <2>5. ASSUME NEW j \in 1 .. Len(new), NEW k \in 1 .. Len(new), new[j].path = new[k].path
        PROVE  j = k
    <3> DEFINE at(n) == IF n < i THEN n ELSE n + 1
    <3>1. /\ at(j) \in 1 .. Len(old) /\ at(k) \in 1 .. Len(old)
          /\ at(j) = at(k) => j = k
      BY <1>1, <2>4
    <3>2. new[j] = old[at(j)] /\ new[k] = old[at(k)]
      BY <1>1, <2>4
    <3> HIDE DEF at
    <3> QED  BY <2>5, <3>1, <3>2 DEF DistinctPaths
  <2>6. DistinctPaths(new)
    BY <2>5 DEF DistinctPaths
  <2> QED  BY <2>4, <2>6 DEF new
<1>3. CASE ~HasPath(old, path)
  BY <1>3 DEF Without
<1> QED  BY <1>2, <1>3
=============================================================================
