-------------------------- MODULE SidecredProperties --------------------------
(***************************************************************************)
(* What is expected of invocations of sidecred.  Each property says under  *)
(* which faults and for how many concurrent invocations it is claimed; the *)
(* runs check it there.                                                    *)
(***************************************************************************)
EXTENDS Sidecred

Resources(s) == UNION {ToSet(s.resources[t]) : t \in ProviderTypes}

SecretsOf(s, c) == ToSet(s.secrets[c])

\* Type correctness of the shared and the local variables: in particular the
\* index of the reverse clean-up loop never drops below zero.
TypeOK ==
    /\ now \in Nat
    /\ config \in Configs
    /\ deployment \in Deployments
    /\ saved \in State
    /\ keys \in Seq(Key)
    /\ vault \in [Locations -> Nat]
    /\ run \in [Runs -> RunState]
    /\ edits \in Nat
    /\ faults \in Nat

-----------------------------------------------------------------------------
(* The state file and the resources it records.                            *)

(***************************************************************************)
(* RemoveResource removes by identity, and by the first match, not the     *)
(* resource that was destroyed.  Whatever fails, crashes or overlaps, the  *)
(* resource a clean-up step takes out of the state is the one it visited   *)
(* and destroyed (src/sidecred.go:418-421, src/state.go:112-123).          *)
(***************************************************************************)
RemovesWhatItDestroys ==
    [][\A p \in Runs, t \in ProviderTypes :
        run[p].pc = "resources" /\ run'[p].pc = "resources"
            /\ run'[p].state.resources[t] # run[p].state.resources[t]
        => run'[p].state.resources[t] = RemoveAt(run[p].state.resources[t], run[p].left[t])]_vars

CleanState(s) ==
    /\ \A t \in ProviderTypes : \A i, j \in DOMAIN s.resources[t] :
        /\ ~s.resources[t][i].deposed
        /\ SameResource(s.resources[t][i], s.resources[t][j]) => i = j
    /\ \A c \in StoreConfigs : \A i, j \in DOMAIN s.secrets[c] :
        s.secrets[c][i].path = s.secrets[c][j].path => i = j

\* Every saved state is free of deposed resources, of two resources with one
\* identity and of two secrets of a store with one path: a run cleans up all it
\* deposed, whatever fails (src/sidecred.go:400-423, src/state.go:76-93 and 154-167).
SavedStateIsClean == CleanState(saved)

(***************************************************************************)
(* A deploy key the state file records still exists at the provider        *)
(* whenever no invocation is under way: the clean-up never destroys a key  *)
(* that the state keeps.  Claimed when every started run reaches its Save. *)
(***************************************************************************)
Quiet == \A p \in Runs : run[p].pc = "idle"

RecordedKeysExist ==
    Quiet => \A res \in Resources(saved) : keys[res.key].live

(***************************************************************************)
(* The converse: a deploy key that exists is recorded, so a later run can  *)
(* still destroy it (README.md:111-112, the state is kept to clean up      *)
(* external resources).  Claimed without failures and overlap.             *)
(***************************************************************************)
NoLeakedKeys ==
    Quiet => \A k \in DOMAIN keys :
        Revocable(keys[k].type) /\ keys[k].live
        => \E res \in Resources(saved) : res.key = k

(***************************************************************************)
(* What is in a store is recorded in the state under the configuration it  *)
(* was written with, and what is recorded is there: sidecred can still     *)
(* delete it (README.md:8-10).  Claimed when no Write or Delete fails and  *)
(* every started run reaches its Save.                                     *)
(***************************************************************************)
SecretsAreTracked ==
    Quiet => \A l \in Locations :
        vault[l] # Nothing
        <=> \E c \in StoreConfigs : \E sec \in SecretsOf(saved, c) : l = Location(c, sec.path)

(***************************************************************************)
(* The state file stops to record a deploy key only when the key was       *)
(* destroyed: neither a rotation nor a failed, lost or repeated run loses  *)
(* track of a key that exists (README.md:111-112).  Claimed for one        *)
(* invocation at a time whose Destroy does not fail.                       *)
(***************************************************************************)
ForgetsOnlyDestroyed ==
    [][\A res \in Resources(saved) :
        Revocable(res.type) /\ keys'[res.key].live
        => \E kept \in Resources(saved') : kept.key = res.key]_vars

(***************************************************************************)
(* Each failure costs one object at most: in the middle of a run a deploy  *)
(* key that exists leaves the state, or a secret that is still in its      *)
(* store, only in the very step whose Destroy or Delete failed             *)
(* (src/sidecred.go:418-421 and 436-439).                                  *)
(***************************************************************************)
LostKeys(p) ==
    {res.key : res \in {x \in Resources(run[p].state) : Revocable(x.type) /\ keys'[x.key].live}}
    \ {res.key : res \in Resources(run'[p].state)}

LostSecrets(p) ==
    {l \in Locations :
        /\ vault'[l] # Nothing
        /\ \E c \in StoreConfigs : \E sec \in SecretsOf(run[p].state, c) : l = Location(c, sec.path)
        /\ ~ \E c \in StoreConfigs : \E sec \in SecretsOf(run'[p].state, c) : l = Location(c, sec.path)}

LosesOnlyWhatFailed ==
    [][\A p \in Runs : run[p].pc # "idle" /\ run'[p].pc # "idle" =>
        Cardinality(LostKeys(p)) + Cardinality(LostSecrets(p)) <= faults' - faults]_vars

-----------------------------------------------------------------------------
(* What a run leaves behind.                                               *)

ServiceableItem(r, w) ==
    /\ StoreOf(r.config, w.store).type \in r.deployment.stores
    /\ w.request.name # ""
    /\ Provider(w.request.type) \in r.deployment.providers

Locs(c, w) == {Location(StoreOf(c, w.store), Path(c.namespace, n)) :
                  n \in ToSet(CredentialNames(w.request))}

SameRequest(v, w) ==
    v.request.type = w.request.type /\ v.request.name = w.request.name /\ v.store = w.store

(***************************************************************************)
(* A place is undisputed when                                              *)
(*  - no second store configuration keeps that path there,                 *)
(*  - a request that uses it in one config file uses it in every config    *)
(*    file that asks for the same: the namespace and the store's template  *)
(*    put it nowhere else, and                                             *)
(*  - a request of another name or store shares it only when both have one *)
(*    provider and no config file asks for both.                           *)
(* A request may move to another store, and a name may stand in two stores:*)
(* the places they leave and take are as undisputed as any.                *)
(***************************************************************************)
Undisputed == {l \in Locations :
    /\ \A c, d \in StoreConfigs, path \in Paths :
        l = Location(c, path) /\ l = Location(d, path) => c = d
    /\ \A c, d \in ValidConfigs : \A v \in ToSet(Work[c]), w \in ToSet(Work[d]) :
        l \in Locs(d, w) =>
            /\ SameRequest(v, w) /\ v.request.cfg = w.request.cfg => l \in Locs(c, v)
            /\ l \in Locs(c, v) =>
                /\ Provider(v.request.type) = Provider(w.request.type)
                /\ SameRequest(v, w) \/ \A u \in ToSet(Work[c]) : ~SameRequest(u, w)}

ServedAt(places, s, w) ==
    \E res \in Resources(s) :
        /\ res.type = w.request.type /\ res.id = w.request.name /\ res.store = w.store
        /\ res.cfg = w.request.cfg
        /\ ~res.deposed
        /\ keys[res.key].live
        /\ \A l \in places : vault[l] = res.key

Served(c, s, w) == ServedAt(Locs(c, w), s, w)

(***************************************************************************)
(* When a run has nothing left but to save, each of its requests has one   *)
(* credential with the requested config that exists at the provider and is *)
(* in every undisputed place the request names: the clean-up of the old    *)
(* resources and secrets has not touched the new ones.                     *)
(***************************************************************************)
EveryRequestIsServed ==
    \A p \in Runs : run[p].pc = "save" =>
        \A w \in ToSet(Work[run[p].config]) :
            ServiceableItem(run[p], w) =>
                ServedAt(Locs(run[p].config, w) \cap Undisputed, run[p].state, w)

(***************************************************************************)
(* Rotation without an outage: an undisputed place that holds a credential *)
(* which exists, and that a request of the run uses, is not emptied by the *)
(* run, and what it holds is not destroyed before it has been replaced: a  *)
(* consumer that reads the secret in the middle of a run can use it.       *)
(***************************************************************************)
Available(l) == vault[l] \in DOMAIN keys /\ keys[vault[l]].live

NoOutage ==
    [][\A p \in Runs : run[p].pc # "idle" =>
        \A w \in ToSet(Work[run[p].config]) : ServiceableItem(run[p], w) =>
            \A l \in Locs(run[p].config, w) \cap Undisputed : Available(l) => Available(l)']_vars

(***************************************************************************)
(* What the clean-up of the secrets promises (README.md:8-10: sidecred     *)
(* handles the lifecycle from creation to eventual deletion), with the     *)
(* identifiers ListOrphanedSecrets goes by (src/state.go:184-199): when a  *)
(* run has nothing left but to save, a secret it records in an enabled     *)
(* store has the name of a request the run serves, whatever the store, or  *)
(* that of a resource whose provider is not enabled and which it could not *)
(* destroy.  Whatever failed before, was edited or moved, no secret        *)
(* outlives that.  It may outlive its request: when a request moves to     *)
(* another store, its secret stays in the old one while the name is used.  *)
(***************************************************************************)
NoSecretOutlivesItsName ==
    \A p \in Runs : run[p].pc = "save" =>
        \A c \in StoreConfigs : \A sec \in SecretsOf(run[p].state, c) :
            c.type \in run[p].deployment.stores =>
                \/ \E w \in ToSet(Work[run[p].config]) :
                        ServiceableItem(run[p], w) /\ w.request.name = sec.id
                \/ \E res \in Resources(run[p].state) :
                        res.id = sec.id /\ Provider(res.type) \notin run[p].deployment.providers

(***************************************************************************)
(* Credentials that a run takes for valid (hasValidCredentials,            *)
(* src/sidecred.go:80-81) exist at the provider and are in every place the *)
(* request names.  Claimed for config files that dispute no place, when no *)
(* Write fails (see write_fails).                                          *)
(***************************************************************************)
KeptCredentialsAreThere ==
    \A p \in Runs : Satisfied(run[p]) => Served(run[p].config, run[p].state, Item(run[p]))

(***************************************************************************)
(* The same for every config file: credentials that a run takes for valid  *)
(* exist and are in those of the request's places that are undisputed,     *)
(* although the run looks only at the state file (src/sidecred.go:82-100). *)
(***************************************************************************)
KeptCredentialsHoldTheirPlaces ==
    \A p \in Runs : Satisfied(run[p]) =>
        ServedAt(Locs(run[p].config, Item(run[p])) \cap Undisputed, run[p].state, Item(run[p]))

(***************************************************************************)
(* A run destroys a resource only when it was replaced or no request of    *)
(* the config asks for it (README.md:111-112, clean-up of external         *)
(* resources "when they are no longer needed").                            *)
(***************************************************************************)
DestroysOnlyUnneeded ==
    [][\A p \in Runs, t \in ProviderTypes :
        Visiting(run[p], t) /\ keys' # keys
            /\ run'[p].state.resources[t] # run[p].state.resources[t]
        => \/ Visited(run[p], t).deposed
           \/ \A w \in ToSet(Work[run[p].config]) :
                ~ /\ Visited(run[p], t).type = w.request.type
                  /\ Visited(run[p], t).id = w.request.name
                  /\ Visited(run[p], t).store = w.store]_vars

(***************************************************************************)
(* A run that finds nothing to do does nothing.  When the saved state has, *)
(* for every request the run can serve, a current credential whose         *)
(* remaining time is not shorter than the rotation window, and records     *)
(* neither a resource nor a secret that no request needs, then no step of  *)
(* the run issues, destroys, writes or deletes anything, and its Save      *)
(* leaves the state as it was (src/sidecred.go:82-100 and 335-441).        *)
(***************************************************************************)
Requested(res, w) ==
    res.type = w.request.type /\ res.id = w.request.name /\ res.store = w.store

UpToDate(s, c, d, time) ==
    LET items == {w \in ToSet(Work[c]) : ServiceableItem([config |-> c, deployment |-> d], w)} IN
    /\ \A w \in items : \E res \in Resources(s) :
        /\ Requested(res, w)
        /\ res.cfg = w.request.cfg
        /\ res.exp >= time + Window(w.request)
    /\ \A res \in Resources(s) : Provider(res.type) \in d.providers =>
        ~res.deposed /\ \E w \in items : Requested(res, w)
    /\ \A sc \in StoreConfigs : sc.type \in d.stores => ListOrphanedSecrets(s, sc) = {}

QuietWhenUpToDate ==
    [][\A p \in Runs :
        run[p].pc # "idle" /\ UpToDate(saved, run[p].config, run[p].deployment, now)
        => UNCHANGED <<keys, vault, saved>>]_vars

-----------------------------------------------------------------------------
\* Every invocation ends: the reverse loops of the clean-up terminate although
\* they delete from the list they walk (src/sidecred.go:400-441).
RunsEnd == \A p \in Runs : run[p].pc # "idle" ~> run[p].pc = "idle"

\* The state file and the stores serve every request of the config file.
ConfigIsServed ==
    config \in ValidConfigs =>
        \A w \in ToSet(Work[config]) :
            ServiceableItem([config |-> config, deployment |-> deployment], w)
            => Served(config, saved, w)

\* Once the environment stops failing, the state file and the stores serve every
\* request of the config, and keep doing so: failed creates, lost saves and crashes
\* are made up for by the runs that follow (src/cmd/sidecred/main.go:64-75).  A failed
\* Write is not: see write_fails.
Converges == <>[]ConfigIsServed

-----------------------------------------------------------------------------
(* Conditions on the invocations, the deployments and the config files,    *)
(* for the theorems that need them.                                        *)

\* There is one invocation at a time: the command line of one pipeline, or a lambda
\* that is not invoked again before it has ended.
OneAtATime == \A p, q \in Runs : p = q

\* No two store configurations keep their secrets in the same places.
DistinctStores == \A c, d \in StoreConfigs : c.type = d.type /\ c.cfg = d.cfg => c = d

\* Every store that a config file may name is of an enabled type.
StoresAreEnabled ==
    \A d \in Deployments : \A c \in ValidConfigs : \A m \in 1 .. Len(Work[c]) :
        StoreOf(c, Work[c][m].store).type \in d.stores
=============================================================================
