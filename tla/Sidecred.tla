------------------------------- MODULE Sidecred -------------------------------
(***************************************************************************)
(* Invocations of sidecred (src/cmd/sidecred/main.go and                   *)
(* src/cmd/sidecred-lambda/main.go): load the config, load the state, run  *)
(* Process (src/sidecred.go), save the state.  Nothing is locked, so with  *)
(* several elements in Runs two invocations of the lambda interleave on    *)
(* one state file; the command line has one.                               *)
(*                                                                         *)
(* Every step makes at most one call to the outside (a provider, a store   *)
(* or the backend), so a crash or another invocation can come between any  *)
(* two calls.  A failing call may or may not have taken effect: Create,    *)
(* Write, Destroy, Delete and Save are remote and their answer can be lost.*)
(***************************************************************************)
EXTENDS Requests

CONSTANTS
    Runs,            \* identities of invocations that may be under way at once
    Deployments,     \* [providers, stores]: what the flags may enable
    RotationWindow,  \* the default rotation window
    Lifetime,        \* validity of a new credential, by credential type
    FaultKinds,      \* the failures the environment may produce
    MaxNow, MaxEdits, MaxFaults  \* bounds on ticks, edits and failures

AnyNumber == -1  \* as MaxFaults: no bound

AllFaults == {"create", "write", "destroy", "delete", "save", "torn", "crash"}

ASSUME BoundsAssumption ==
    /\ RotationWindow \in Nat
    /\ Lifetime \in [CredentialTypes -> Nat]
    /\ MaxNow \in Nat /\ MaxEdits \in Nat /\ MaxFaults \in Nat \cup {AnyNumber}
    /\ FaultKinds \subseteq AllFaults

ASSUME DeploymentsAssumption ==
    Deployments \subseteq [providers: SUBSET ProviderTypes, stores: SUBSET StoreTypes]

VARIABLES
    now,         \* the clock
    config,      \* the config file
    deployment,  \* the providers and stores the flags enable
    saved,       \* the state file of the backend
    keys,        \* every credential a provider has issued, by serial number
    vault,       \* contents of the secret stores: which credential is where
    run,         \* the local variables of each invocation
    edits, faults

vars == <<now, config, deployment, saved, keys, vault, run, edits, faults>>
external == <<now, config, deployment, edits>>

-----------------------------------------------------------------------------
(* Local state of an invocation.                                           *)

Phases == {"idle", "requests", "write", "resources", "orphans", "save"}

\* left counts the resources a clean-up loop has yet to visit.
RunState == [pc: Phases, config: Configs \cup {NoRequests}, deployment: Deployment,
             state: State, item: Nat \ {0}, cred: Nat \ {0},
             left: [ProviderTypes -> Nat],
             orphans: [StoreConfigs -> SUBSET Secret(Paths)]]

\* An invocation that has not started, or has ended.
Idle == [pc |-> "idle", config |-> NoRequests,
         deployment |-> [providers |-> {}, stores |-> {}], state |-> NewState,
         item |-> 1, cred |-> 1, left |-> [p \in ProviderTypes |-> 0],
         orphans |-> [c \in StoreConfigs |-> {}]]

Item(r)  == Work[r.config][r.item]
Store(r) == StoreOf(r.config, Item(r).store)

HasItem(r) == r.pc = "requests" /\ r.item <= Len(Work[r.config])

Serviceable(r) ==
    /\ Store(r).type \in r.deployment.stores
    /\ Item(r).request.name # ""
    /\ Provider(Item(r).request.type) \in r.deployment.providers

Window(request) == IF request.window = NoWindow THEN RotationWindow ELSE request.window

\* Faulty variant: the config of the request is not compared.
hasValidCredentials_AnyConfig(request, resource, time) ==
    /\ ~resource.deposed
    /\ resource.id = request.name
    /\ resource.exp - Window(request) >= time

\* Faulty variant: a credential has to outlive the rotation window.
hasValidCredentials_Strict(request, resource, time) ==
    /\ ~resource.deposed
    /\ resource.id = request.name
    /\ resource.cfg = request.cfg
    /\ resource.exp - Window(request) > time

hasValidCredentials(request, resource, time) ==
    /\ ~resource.deposed
    /\ resource.id = request.name
    /\ resource.cfg = request.cfg
    /\ resource.exp - Window(request) >= time

FoundResources(r) == ResourcesByID(r.state, Item(r).request.type,
                                   Item(r).request.name, Item(r).store)

Looked(r) == MarkInUse(r.state, Item(r).request.type,
                       Item(r).request.name, Item(r).store)

\* The resource of the credential set being written: the last one added.
Created(r) == LET rs == r.state.resources[Provider(Item(r).request.type)]
              IN rs[Len(rs)]

\* After a Write, the next credential or the next request.
NextCredential(r) ==
    IF r.cred < Len(CredentialNames(Item(r).request))
    THEN [r EXCEPT !.cred = @ + 1]
    ELSE [r EXCEPT !.pc = "requests", !.item = @ + 1, !.cred = 1]

-----------------------------------------------------------------------------
Init ==
    /\ now = 0
    /\ config \in Configs
    /\ deployment \in Deployments
    /\ saved = NewState
    /\ keys = << >>
    /\ vault = [l \in Locations |-> Nothing]
    /\ run = [p \in Runs |-> Idle]
    /\ edits = 0
    /\ faults = 0

Fault(kind) ==
    /\ kind \in FaultKinds
    /\ faults # MaxFaults
    /\ faults' = faults + 1

\* A scheduled invocation loads the config and the state, and Process starts.
StartRun(p) ==
    /\ run[p].pc = "idle"
    /\ config \in ValidConfigs
    /\ run' = [run EXCEPT ![p] = [Idle EXCEPT !.pc = "requests", !.config = config,
                                              !.deployment = deployment,
                                              !.state = saved]]
    /\ UNCHANGED <<external, saved, keys, vault, faults>>

\* Process refuses an invalid config, and nothing is saved.
RejectConfig(p) ==
    /\ run[p].pc = "idle"
    /\ config \notin ValidConfigs
    /\ UNCHANGED vars

\* Store type or provider not enabled, or no name: the request is passed over,
\* and its resources are not marked in use.
SkipRequest(p) ==
    LET r == run[p] IN
    /\ HasItem(r)
    /\ ~Serviceable(r)
    /\ run' = [run EXCEPT ![p] = [r EXCEPT !.item = @ + 1]]
    /\ UNCHANGED <<external, saved, keys, vault, faults>>

Satisfied(r) ==
    /\ HasItem(r)
    /\ Serviceable(r)
    /\ \E res \in FoundResources(r) : hasValidCredentials(Item(r).request, res, now)

KeepCredentials(p) ==
    LET r == run[p] IN
    /\ Satisfied(r)
    /\ run' = [run EXCEPT ![p] = [r EXCEPT !.item = @ + 1, !.state = Looked(r)]]
    /\ UNCHANGED <<external, saved, keys, vault, faults>>

NeedsCredentials(r) == HasItem(r) /\ Serviceable(r) /\ ~Satisfied(r)

NewKey(r) == [type |-> Item(r).request.type, id |-> Item(r).request.name,
              store |-> Item(r).store, cfg |-> Item(r).request.cfg,
              exp |-> now + Lifetime[Item(r).request.type], live |-> TRUE]

\* Faulty variant: the old credential is destroyed before the new one is written.
CreateCredentials_DestroyFirst(p) ==
    LET r == run[p] IN
    /\ NeedsCredentials(r)
    /\ keys' = Append([k \in DOMAIN keys |->
                          IF \E res \in FoundResources(r) : res.key = k
                          THEN [keys[k] EXCEPT !.live = FALSE] ELSE keys[k]], NewKey(r))
    /\ run' = [run EXCEPT ![p] = [r EXCEPT
            !.pc = "write",
            !.state = AddResource(Looked(r),
                newResource(Item(r).request, Item(r).store, NewKey(r).exp, Len(keys) + 1))]]
    /\ UNCHANGED <<external, saved, vault, faults>>

CreateCredentials(p) ==
    LET r == run[p] IN
    /\ NeedsCredentials(r)
    /\ keys' = Append(keys, NewKey(r))
    /\ run' = [run EXCEPT ![p] = [r EXCEPT
            !.pc = "write",
            !.state = AddResource(Looked(r),
                newResource(Item(r).request, Item(r).store, NewKey(r).exp, Len(keys) + 1))]]
    /\ UNCHANGED <<external, saved, vault, faults>>

\* Faulty variant: the resource is recorded before the error is looked at.
CreateFails_Recorded(p) ==
    LET r == run[p] IN
    /\ NeedsCredentials(r)
    /\ Fault("create")
    /\ keys' = Append(keys, NewKey(r))
    /\ run' = [run EXCEPT ![p] = [r EXCEPT
            !.item = @ + 1,
            !.state = AddResource(Looked(r),
                newResource(Item(r).request, Item(r).store, NewKey(r).exp, Len(keys) + 1))]]
    /\ UNCHANGED <<external, saved, vault>>

\* Create fails; the credential may have been issued all the same.
CreateFails(p) ==
    LET r == run[p] IN
    /\ NeedsCredentials(r)
    /\ Fault("create")
    /\ keys' \in {keys, Append(keys, NewKey(r))}
    /\ run' = [run EXCEPT ![p] = [r EXCEPT !.item = @ + 1, !.state = Looked(r)]]
    /\ UNCHANGED <<external, saved, vault>>

PathToWrite(r) == Path(r.config.namespace, CredentialNames(Item(r).request)[r.cred])

Written(r) == [vault EXCEPT ![Location(Store(r), PathToWrite(r))] = Created(r).key]

Recorded(r) == [NextCredential(r) EXCEPT
    !.state = AddSecret(@, Store(r),
                  newSecret(Item(r).request.name, PathToWrite(r), Created(r).exp))]

WriteSecret(p) ==
    LET r == run[p] IN
    /\ r.pc = "write"
    /\ vault' = Written(r)
    /\ run' = [run EXCEPT ![p] = Recorded(r)]
    /\ UNCHANGED <<external, saved, keys, faults>>

\* Write fails: the secret is not recorded, the resource stays.
WriteFails(p) ==
    LET r == run[p] IN
    /\ r.pc = "write"
    /\ Fault("write")
    /\ vault' \in {vault, Written(r)}
    /\ run' = [run EXCEPT ![p] = NextCredential(r)]
    /\ UNCHANGED <<external, saved, keys>>

\* The clean-up loop of each provider starts at its last resource.
FinishRequests(p) ==
    LET r == run[p] IN
    /\ r.pc = "requests"
    /\ r.item > Len(Work[r.config])
    /\ run' = [run EXCEPT ![p] = [r EXCEPT
            !.pc = "resources",
            !.left = [t \in ProviderTypes |-> Len(r.state.resources[t])]]]
    /\ UNCHANGED <<external, saved, keys, vault, faults>>

Visited(r, t) == r.state.resources[t][r.left[t]]

Visiting(r, t) == r.pc = "resources" /\ r.left[t] > 0

\* Faulty variant: a deposed resource that was looked up is kept.
Kept_Deposed(r, t) == Visited(r, t).inUse \/ t \notin r.deployment.providers

Kept(r, t) ==
    \/ Visited(r, t).inUse /\ ~Visited(r, t).deposed
    \/ t \notin r.deployment.providers

\* Faulty variant: the index stays where it is.
KeepResource_Stuck(p, t) ==
    /\ Visiting(run[p], t)
    /\ Kept(run[p], t)
    /\ UNCHANGED vars

\* Faulty variant: without its provider a resource leaves the state undestroyed.
KeepResource_Forgetting(p, t) ==
    LET r == run[p] IN
    /\ Visiting(r, t)
    /\ Kept(r, t)
    /\ run' = [run EXCEPT ![p] = [r EXCEPT
            !.left[t] = @ - 1,
            !.state = IF t \in r.deployment.providers THEN @
                      ELSE RemoveResource(@, Visited(r, t))]]
    /\ UNCHANGED <<external, saved, keys, vault, faults>>

KeepResource(p, t) ==
    LET r == run[p] IN
    /\ Visiting(r, t)
    /\ Kept(r, t)
    /\ run' = [run EXCEPT ![p] = [r EXCEPT !.left[t] = @ - 1]]
    /\ UNCHANGED <<external, saved, keys, vault, faults>>

Destroyed(res) ==
    IF Revocable(res.type) THEN [keys EXCEPT ![res.key].live = FALSE] ELSE keys

\* Faulty variant: the index also makes up for the removed resource.
Forget_SkippingOne(r, t) == [r EXCEPT !.left[t] = @ - 2,
                                      !.state = RemoveResource(@, Visited(r, t))]

\* Faulty variant: the destroyed resource stays in the state.
Forget_Recorded(r, t) == [r EXCEPT !.left[t] = @ - 1]

Forget(r, t) == [r EXCEPT !.left[t] = @ - 1,
                          !.state = RemoveResource(@, Visited(r, t))]

DestroyResource(p, t) ==
    LET r == run[p] IN
    /\ Visiting(r, t)
    /\ ~Kept(r, t)
    /\ keys' = Destroyed(Visited(r, t))
    /\ run' = [run EXCEPT ![p] = Forget(r, t)]
    /\ UNCHANGED <<external, saved, vault, faults>>

\* Faulty variant: a resource that could not be destroyed stays in the state.
DestroyFails_Keeping(p, t) ==
    LET r == run[p] IN
    /\ Visiting(r, t)
    /\ ~Kept(r, t)
    /\ Fault("destroy")
    /\ run' = [run EXCEPT ![p] = [r EXCEPT !.left[t] = @ - 1]]
    /\ UNCHANGED <<external, saved, keys, vault>>

\* An error of Destroy is logged; the resource leaves the state all the same.
DestroyFails(p, t) ==
    LET r == run[p] IN
    /\ Visiting(r, t)
    /\ ~Kept(r, t)
    /\ Fault("destroy")
    /\ run' = [run EXCEPT ![p] = Forget(r, t)]
    /\ UNCHANGED <<external, saved, keys, vault>>

FinishResources(p) ==
    LET r == run[p] IN
    /\ r.pc = "resources"
    /\ \A t \in ProviderTypes : r.left[t] = 0
    /\ run' = [run EXCEPT ![p] = [r EXCEPT
            !.pc = "orphans",
            !.orphans = [c \in StoreConfigs |-> ListOrphanedSecrets(r.state, c)]]]
    /\ UNCHANGED <<external, saved, keys, vault, faults>>

HasOrphan(r, c, sec) == r.pc = "orphans" /\ sec \in r.orphans[c]

\* Faulty variant: without its store a secret leaves the state undeleted.
KeepOrphan_Forgetting(p, c, sec) ==
    LET r == run[p] IN
    /\ HasOrphan(r, c, sec)
    /\ c.type \notin r.deployment.stores
    /\ run' = [run EXCEPT ![p] = [r EXCEPT !.orphans[c] = @ \ {sec},
                                         !.state = RemoveSecret(@, c, sec)]]
    /\ UNCHANGED <<external, saved, keys, vault, faults>>

\* The store type is not enabled: the secret stays where it is.
KeepOrphan(p, c, sec) ==
    LET r == run[p] IN
    /\ HasOrphan(r, c, sec)
    /\ c.type \notin r.deployment.stores
    /\ run' = [run EXCEPT ![p] = [r EXCEPT !.orphans[c] = @ \ {sec}]]
    /\ UNCHANGED <<external, saved, keys, vault, faults>>

\* Faulty variant: the deleted secret stays in the state.
Dropped_Recorded(r, c, sec) == [r EXCEPT !.orphans[c] = @ \ {sec}]

Dropped(r, c, sec) == [r EXCEPT !.orphans[c] = @ \ {sec},
                                !.state = RemoveSecret(@, c, sec)]

DeleteOrphan(p, c, sec) ==
    LET r == run[p] IN
    /\ HasOrphan(r, c, sec)
    /\ c.type \in r.deployment.stores
    /\ vault' = [vault EXCEPT ![Location(c, sec.path)] = Nothing]
    /\ run' = [run EXCEPT ![p] = Dropped(r, c, sec)]
    /\ UNCHANGED <<external, saved, keys, faults>>

\* An error of Delete is logged; the secret leaves the state all the same.
DeleteFails(p, c, sec) ==
    LET r == run[p] IN
    /\ HasOrphan(r, c, sec)
    /\ c.type \in r.deployment.stores
    /\ Fault("delete")
    /\ run' = [run EXCEPT ![p] = Dropped(r, c, sec)]
    /\ UNCHANGED <<external, saved, keys, vault>>

\* Faulty variant: the loop ends with the first store it has cleaned.
FinishOrphans_Early(p) ==
    LET r == run[p] IN
    /\ r.pc = "orphans"
    /\ \E c \in StoreConfigs : r.orphans[c] = {}
    /\ run' = [run EXCEPT ![p] = [r EXCEPT !.pc = "save"]]
    /\ UNCHANGED <<external, saved, keys, vault, faults>>

FinishOrphans(p) ==
    LET r == run[p] IN
    /\ r.pc = "orphans"
    /\ \A c \in StoreConfigs : r.orphans[c] = {}
    /\ run' = [run EXCEPT ![p] = [r EXCEPT !.pc = "save"]]
    /\ UNCHANGED <<external, saved, keys, vault, faults>>

Save(p) ==
    /\ run[p].pc = "save"
    /\ saved' = Persisted(run[p].state)
    /\ run' = [run EXCEPT ![p] = Idle]
    /\ UNCHANGED <<external, keys, vault, faults>>

SaveFails(p) ==
    /\ run[p].pc = "save"
    /\ Fault("save")
    /\ saved' \in {saved, Persisted(run[p].state)}
    /\ run' = [run EXCEPT ![p] = Idle]
    /\ UNCHANGED <<external, keys, vault>>

\* The file backend truncates the file before it writes: the process dies in
\* between or the disk is full, and no state is left.
SaveTorn(p) ==
    /\ run[p].pc = "save"
    /\ Fault("torn")
    /\ saved' = NewState
    /\ run' = [run EXCEPT ![p] = Idle]
    /\ UNCHANGED <<external, keys, vault>>

\* The process dies between two calls (a lambda timeout, a killed command).
Crash(p) ==
    /\ run[p].pc # "idle"
    /\ Fault("crash")
    /\ run' = [run EXCEPT ![p] = Idle]
    /\ UNCHANGED <<external, saved, keys, vault>>

-----------------------------------------------------------------------------
(* The environment.                                                        *)

Tick ==
    /\ now < MaxNow
    /\ now' = now + 1
    /\ UNCHANGED <<config, deployment, saved, keys, vault, run, edits, faults>>

EditConfig ==
    /\ edits < MaxEdits
    /\ edits' = edits + 1
    /\ config' \in Configs \ {config}
    /\ UNCHANGED <<now, deployment, saved, keys, vault, run, faults>>

Redeploy ==
    /\ edits < MaxEdits
    /\ edits' = edits + 1
    /\ deployment' \in Deployments \ {deployment}
    /\ UNCHANGED <<now, config, saved, keys, vault, run, faults>>

\* The steps the program takes by itself once it runs.
Proceed(p) ==
    \/ SkipRequest(p) \/ KeepCredentials(p) \/ CreateCredentials(p)
    \/ WriteSecret(p) \/ FinishRequests(p) \/ FinishResources(p)
    \/ \E t \in ProviderTypes : KeepResource(p, t) \/ DestroyResource(p, t)
    \/ \E c \in StoreConfigs : \E sec \in run[p].orphans[c] :
            KeepOrphan(p, c, sec) \/ DeleteOrphan(p, c, sec)
    \/ FinishOrphans(p) \/ Save(p)

Fail(p) ==
    \/ CreateFails(p) \/ WriteFails(p)
    \/ \E t \in ProviderTypes : DestroyFails(p, t)
    \/ \E c \in StoreConfigs : \E sec \in run[p].orphans[c] : DeleteFails(p, c, sec)
    \/ SaveFails(p) \/ SaveTorn(p) \/ Crash(p)

Next ==
    \/ \E p \in Runs : StartRun(p) \/ RejectConfig(p) \/ Proceed(p) \/ Fail(p)
    \/ Tick \/ EditConfig \/ Redeploy

Spec == Init /\ [][Next]_vars

\* The scheduler invokes sidecred again and again, and an invocation that is
\* not killed takes its next step.
FairSpec == Spec /\ \A p \in Runs : WF_vars(StartRun(p)) /\ WF_vars(Proceed(p))
=============================================================================
