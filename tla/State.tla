-------------------------------- MODULE State --------------------------------
(***************************************************************************)
(* The state file of sidecred (src/state.go): which resources the          *)
(* providers have issued and which secrets were written to the stores.     *)
(*                                                                         *)
(* A state is a record                                                     *)
(*   resources : one sequence of resources per provider type               *)
(*   secrets   : one sequence of secrets per store configuration           *)
(* In the code both are slices of (type, list) pairs in the order of first *)
(* use.  A pair with an empty list behaves like an absent one, and there   *)
(* is one pair per type (AddResource) and per configuration (AddSecret),   *)
(* so a function to sequences keeps all that the operations can observe    *)
(* except the order in which Process visits the pairs.                     *)
(***************************************************************************)
EXTENDS Integers, SequencesExt

CONSTANTS
    StoreConfigs,  \* every store configuration some config file may contain
    RequestConfigs \* every value of the "config" field of a request

\* sidecred.CredentialType and the provider that serves it.
CredentialTypes == {"random", "aws:sts", "github:deploy-key",
                    "github:access-token", "artifactory:access-token"}

ProviderTypes == {"random", "aws", "github", "artifactory"}

Provider(type) ==
    CASE type = "random" -> "random"
      [] type = "aws:sts" -> "aws"
      [] type \in {"github:deploy-key", "github:access-token"} -> "github"
      [] type = "artifactory:access-token" -> "artifactory"

\* StoreConfig.Alias: the name, or the type of a store without a name.
Alias(c) == IF c.name # "" THEN c.name ELSE c.type

(***************************************************************************)
(* A resource.  "key" is the serial number of the issued credential: the   *)
(* Metadata (key_id) of a deploy key, and a ghost for the providers that   *)
(* return no metadata.                                                     *)
(***************************************************************************)
Resource == [type: CredentialTypes, id: STRING, store: STRING,
             cfg: RequestConfigs, exp: Nat, deposed: BOOLEAN,
             inUse: BOOLEAN, key: Nat]

Secret(Path) == [id: STRING, path: Path, exp: Nat]

newResource(request, store, expiration, metadata) ==
    [type |-> request.type, id |-> request.name, store |-> store,
     cfg |-> request.cfg, exp |-> expiration, deposed |-> FALSE,
     inUse |-> TRUE, key |-> metadata]

newSecret(resourceID, path, expiration) ==
    [id |-> resourceID, path |-> path, exp |-> expiration]

NewState == [resources |-> [p \in ProviderTypes |-> << >>],
             secrets   |-> [c \in StoreConfigs |-> << >>]]

\* The identity of a resource in all the lookups of state.go.
SameResource(a, b) == a.type = b.type /\ a.store = b.store /\ a.id = b.id

Depose(rs, r) ==
    [i \in DOMAIN rs |-> IF SameResource(rs[i], r)
                         THEN [rs[i] EXCEPT !.deposed = TRUE] ELSE rs[i]]

\* Faulty variant: the resource that is replaced is dropped, not deposed.
AddResource_Dropping(s, r) ==
    [s EXCEPT !.resources[Provider(r.type)] =
        Append(SelectSeq(@, LAMBDA x : ~SameResource(x, r)), r)]

AddResource(s, r) ==
    [s EXCEPT !.resources[Provider(r.type)] = Append(Depose(@, r), r)]

\* GetResourcesByID returns the matching resources and marks them in use.
ResourcesByID(s, type, id, store) ==
    {r \in ToSet(s.resources[Provider(type)]) :
        r.type = type /\ r.store = store /\ r.id = id}

\* Faulty variant: only a copy of the resource is marked.
Use_Copy(rs, type, id, store) == rs

Use(rs, type, id, store) ==
    [i \in DOMAIN rs |->
        IF rs[i].type = type /\ rs[i].store = store /\ rs[i].id = id
        THEN [rs[i] EXCEPT !.inUse = TRUE] ELSE rs[i]]

MarkInUse(s, type, id, store) ==
    [s EXCEPT !.resources[Provider(type)] = Use(@, type, id, store)]

\* Faulty variant: the last match instead of the first.
FirstSame_Last(rs, r) ==
    CHOOSE i \in DOMAIN rs :
        /\ SameResource(rs[i], r)
        /\ \A j \in i + 1 .. Len(rs) : ~SameResource(rs[j], r)

\* Position of the first resource with the identity of r.
FirstSame(rs, r) ==
    CHOOSE i \in DOMAIN rs :
        /\ SameResource(rs[i], r)
        /\ \A j \in 1 .. i - 1 : ~SameResource(rs[j], r)

\* Faulty variant: no break after the first match.
RemoveSame_All(rs, r) == SelectSeq(rs, LAMBDA res : ~SameResource(res, r))

RemoveSame(rs, r) ==
    IF \E i \in DOMAIN rs : SameResource(rs[i], r) THEN RemoveAt(rs, FirstSame(rs, r)) ELSE rs

\* RemoveResource drops the FIRST resource with the identity of r.
RemoveResource(s, r) == [s EXCEPT !.resources[Provider(r.type)] = RemoveSame(@, r)]

\* Position of the first secret with this path.
FirstAt(secrets, path) ==
    CHOOSE i \in DOMAIN secrets :
        /\ secrets[i].path = path
        /\ \A j \in 1 .. i - 1 : secrets[j].path # path

HasPath(secrets, path) == \E i \in DOMAIN secrets : secrets[i].path = path

Put(secrets, secret) ==
    IF HasPath(secrets, secret.path)
    THEN [secrets EXCEPT ![FirstAt(secrets, secret.path)] = secret]
    ELSE Append(secrets, secret)

\* AddSecret overwrites the entry with the same path, whoever owns it.
AddSecret(s, c, secret) == [s EXCEPT !.secrets[c] = Put(@, secret)]

(***************************************************************************)
(* ListOrphanedSecrets: a secret is orphaned when no resource of any       *)
(* provider, type or store carries its resource ID.  The order of the      *)
(* slice is left out: the paths of one configuration are distinct.         *)
(***************************************************************************)
ResourceIDs(s) ==
    {r.id : r \in UNION {ToSet(s.resources[p]) : p \in ProviderTypes}}

ListOrphanedSecrets(s, c) ==
    {sec \in ToSet(s.secrets[c]) : sec.id \notin ResourceIDs(s)}

Without(secrets, path) ==
    IF HasPath(secrets, path) THEN RemoveAt(secrets, FirstAt(secrets, path)) ELSE secrets

RemoveSecret(s, c, secret) == [s EXCEPT !.secrets[c] = Without(@, secret.path)]

\* InUse is not serialised: it is false in every state that was loaded.
Unused(rs) == [i \in DOMAIN rs |-> [rs[i] EXCEPT !.inUse = FALSE]]

Persisted(s) == [s EXCEPT !.resources = [p \in ProviderTypes |-> Unused(@[p])]]
=============================================================================
