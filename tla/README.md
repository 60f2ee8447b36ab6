# Verification of sidecred

TLA+ models of [sidecred](../src/README.md), the model-checking runs that exercise them, and TLAPS proofs of the
properties that hold for every configuration. File and line references are to `src/`.

## The system

An invocation of sidecred (a command, `cmd/sidecred/main.go`, or a call of a lambda, `cmd/sidecred-lambda/main.go`)
reads a config file and a state file, compares what the config requests with what the state says was issued, calls
credential *providers* to create or destroy credentials and secret *stores* to write or delete them, and saves the new
state. Invocations are started again and again by a scheduler.

| Component | State it keeps | Operations | What makes it correct |
| --- | --- | --- | --- |
| `Sidecred.Process` (`sidecred.go`) | none between invocations; the loaded state while it runs | request loop, reverse clean-up loop over resources, loop over orphaned secrets | serves every request, destroys nothing that is needed, forgets nothing that exists |
| `State` (`state.go`) | resources per provider, secrets per store configuration | AddResource, GetResourcesByID, RemoveResource, AddSecret, ListOrphanedSecrets, RemoveSecret | one current resource per identity, one secret per path; what is removed is what was destroyed |
| Config v1 (`config/config.go`) | the config file | Validate, Requests, flatten | no two requests of a store share a name, every store exists |
| State backends (`backend/file`, `backend/s3`) | the state file | Load, Save | Load returns what was saved last |
| Providers (`provider/*`) | issued credentials, outside of the program; the seed of `random` | Create, Destroy | Destroy revokes exactly the deploy key the metadata names |
| Secret stores (`store/*`) | secrets, outside of the program; cached repository keys in `store/github` | Write, Delete, Read | Write is visible under the path it returns |
| Github app rotator (`githubrotator/rotator.go`) | order of the apps, the last token and rate-limit error of each | CreateInstallationToken | a token when some app can give one |
| Invocation (`cmd/*`, `internal/cli`) | flags | load, process, save; validate | saves after every Process that did not fail |
| `eventctx`, fakes, tools | logger and call counter | | not modelled: no decision depends on them |

Interaction: the command or lambda calls the backend, `Process`, and the backend again; `Process` calls the operations
of `State` (shared by pointer within one invocation) and, one at a time, providers and stores; the Github provider and
the Github store each own a rotator. There are no callbacks or goroutines within an invocation, and no lock between
invocations.

The hard behaviours are therefore failures of one call of several, a crash between two calls, two lambda invocations
that interleave on one state file, and long sequences of legal runs (edits of the config, flags switched off and on,
credentials that expire) after which state, providers and stores no longer agree. `PROJECT.json` lists them as hazards
at the lines where they bite, with the properties that would catch them.

## Modules

| Module | Models |
| --- | --- |
| `State` | `state.go` as operators over a record of two functions to sequences. Pairs of a type and a list become function entries: a pair with an empty list behaves like none. `key` is the serial number of an issued credential: the `key_id` of a deploy key and a ghost for credentials without metadata. `Persisted` is what survives JSON: all but the in-use marks. |
| `Config` | `config/config.go`: flattening of lists, `Valid` (what `Validate` should compute), the work items of `Process`. A provider or store config is a function from the JSON fields that are present to their values; two are equal when the code finds them equal (`isEqualConfig`, `reflect.DeepEqual`). |
| `ConfigValidation` | `Parse` and the nested loops of `Validate`, one action per check, with the two maps of what was seen. |
| `Requests` | The files that may be submitted, the names of the credentials each provider returns, and where a store keeps them. |
| `Sidecred` | Invocations. `run[p]` holds the local variables of invocation `p`, with one action per branch of `Process`; `saved` is the state file, `keys` the credentials that were ever issued, `vault` the content of the stores. |
| `SidecredProperties` | What is expected of them, and the conditions on invocations and config files under which some of it holds. |
| `Cli` | `AddRunCommand` and `sidecred.New`: from the flags to the enabled providers and stores. |
| `SecretStores` | Secrets Manager, SSM, and the two Github stores: which calls a Write or a Delete makes, what each leaves at the place it writes to, and the public keys a process has cached. |
| `StateBackend` | The file and the S3 object: missing, empty, partial, or holding a state. |
| `Invocation` | Invocations call by call. `call[p]` is the operation that `p` is in the middle of and its next call; what happens between the calls are the steps of `Sidecred`. |
| `MCConfigs`, `MCSidecred`, `MCInvocation`, `MCConfigValidation` | Small config files, deployments, flags, documents and fault kinds for the `.cfg` files. |
| `GithubRotator` | `githubrotator/rotator.go`: the slice of apps as a function from places to apps, the remembered token and rate-limit error of each, and one action per branch of `CreateInstallationToken` and of its loop. `call.passed` and `call.low` are history. Github's limits are the environment. |
| `StateProofs`, `SidecredProofs`, `KeyProofs`, `SecretProofs`, `NeedProofs`, `ServiceProofs` | Proofs about the operations of `State`, and about `Sidecred`: the state file and the clean-up, issued credentials, the stores, what a run destroys or leaves alone, and what the requests of a config file get. |
| `InvocationProofs`, `GithubRotatorProofs` | Proofs about `Invocation`, with its refinement of `Sidecred`, and about `GithubRotator`. |

`Sidecred` extends `Requests`, `Config` and `State`, in that order. `Invocation` extends `Requests`, `Cli`,
`SecretStores` and `StateBackend`, and instantiates `KeyProofs`, which is `SidecredProperties` with the theorems that the
refinement and its consequences cite. `GithubRotator` stands alone: for the other
modules a call of the rotator is the call `CreateInstallationToken`, which may fail. Operators named `X_Variant`, commented as faulty variants, are
plausible bugs in `X`; nothing uses them, and each is there to show that a property would notice it.

### From the code to the actions

An action makes at most one call outside, so that anything can happen between two calls.

| Code | Action |
| --- | --- |
| load config and state, Process starts | `StartRun`; `RejectConfig` when `Validate` fails |
| store or provider not enabled, no name (336-363) | `SkipRequest` |
| found existing credentials (366-371) | `KeepCredentials` |
| Create and AddResource (373-383) | `CreateCredentials`, `CreateFails` |
| Write and AddSecret, once per credential (385-395) | `WriteSecret`, `WriteFails` |
| clean-up of resources (400-423) | `FinishRequests`, `KeepResource`, `DestroyResource`, `DestroyFails`, `FinishResources`; `left[t]` is the loop index plus one |
| clean-up of secrets (425-441) | `KeepOrphan`, `DeleteOrphan`, `DeleteFails`, `FinishOrphans` |
| Save | `Save`, `SaveFails`; `SaveTorn` when the file was truncated and not written |
| the process is killed | `Crash` |
| time, config edits, flags | `Tick`, `EditConfig`, `Redeploy` |

`KeepCredentials` and `CreateCredentials` both contain the side effect of `GetResourcesByID`, the in-use mark. A failing
Create, Write or Save may or may not have taken effect; a failing Destroy or Delete has not (that it may have is the
same as `DestroyResource` or `DeleteOrphan`, because the code goes on in the same way).

In `Invocation` these steps are sequences of calls, any of which may fail (with or without effect when it is the last),
be the last before a crash, or have another invocation between itself and the next:

| Step of `Sidecred` | Calls in `Invocation` |
| --- | --- |
| `StartRun` | `StartRun`, which also creates a missing file; `LoadFails` |
| `CreateCredentials` | none (`random`), `AssumeRole`, `CreateToken`, `CreateInstallationToken`, or for a deploy key `CreateInstallationToken`, `CreateKey` |
| `DestroyResource` | for a deploy key `CreateInstallationToken`, `DeleteKey` |
| `WriteSecret` | `CreateSecret`, `UpdateSecret`; `PutParameter`; `CreateInstallationToken`, `GetRepoPublicKey` unless it is cached, `CreateOrUpdateRepoSecret`. `RefuseWrite` when the store has no usable config, the secret was deleted in between, or the cached key is outdated |
| `DeleteOrphan` | `DeleteSecret`, `DeleteParameter`; `CreateInstallationToken`, `DeleteRepoSecret` |
| `Save` | `PutObject`; for a file `Truncate` and the write |

`ImplementsSidecred` is the refinement: `Invocation` implements `Sidecred` under the mapping that takes `vault` from what
a `Read` of each place returns (`Readable`: an absent and an empty secret are both nothing), `deployment` from the flags,
`faults` from the failures of the environment and the refusals together, and `saved` from the file, except that a
truncated file counts as what it held before until the write or the failure that ends the Save (the content is kept in
`call[p].op` for this purpose only). The file backend is run with one process (a command), S3 with several.

Reading the config file and loading the state (`cmd/sidecred/main.go:54-64`, `cmd/sidecred-lambda/main.go:77-86`) are
one step. With one invocation at a time nothing is lost: between the two reads only the config file, the flags or the
clock can change, and an edit in between leads to the same states as one right after the load. Only overlapping
invocations could pair an older config file with a state that another one has saved in the meantime; no run or theorem
speaks of that pair.

Abstractions: the providers and stores of the state are visited in any order and not in the order of first use;
orphans of a store are deleted in any order; rendered paths are injective in namespace and name (templates that drop
one of them, and the sanitising of the Github store, are left out); the lifetime of a credential depends on its type; a
credential is one value, though it is written as up to three secrets; a store keeps its content between invocations,
which the `inprocess` store does only as long as its process lives; a config field that is present and empty (`{}`,
which the code tells from an absent one in lists and comparisons) is not submitted.

## Runs

The runs of `MCSidecred`: the default rotation window is one tick, and credentials live one tick (a role), two (a deploy
key) or three, so that within the bound of one or two ticks some are renewed while others are not.

| Run | Question and bounds |
| --- | --- |
| `edits` | Four config files that replace, rename, add and remove requests over three stores (one file is invalid), two edits at any moment, two ticks. Checks the state file, the stores and the keys at rest, at the end of a run and in the middle of a run (`NoOutage`), and that a run that finds nothing to do does nothing (`QuietWhenUpToDate`). |
| `redeploy` | Three deployments (all, without the Github provider, without the ssm store), four config files that dispute some places and not others, and three changes of either. A key moves to another store and back, or stands in two stores under one name (as in `README.md:52-66`); two requests share a path; the namespace changes. What cannot be cleaned up is remembered until it can (`NoLeakedKeys`, `SecretsAreTracked`), and what is promised of places and names holds (`EveryRequestIsServed`, `KeptCredentialsHoldTheirPlaces`, `NoOutage`, `NoSecretOutlivesItsName`). |
| `faults` | Two failures of Create, Write, Destroy, Delete, or of a Save that loses the state, an edit and a tick between them. Two failures are enough for a failure of the repair of a failure. A failed Destroy or Delete loses track of that one key or secret and of nothing else (`LosesOnlyWhatFailed`). |
| `retry` | Two failures among failed creates, lost saves and crashes, under fairness: `RunsEnd`, `Converges`, and no recorded key is forgotten while it exists (`ForgetsOnlyDestroyed`). |

The runs of `MCInvocation`: every credential lives one tick and is renewed in the tick after its creation.

| Run | Question and bounds |
| --- | --- |
| `calls` | One process, four stores of which one has no usable config, two config files with deploy keys, tokens and strings, three sets of flags over both backends, one edit, one tick, one new repository key, and one failure or crash at any call. Does the sequence of calls have the effect of one step of `Sidecred`, whatever fails, and does Secrets Manager keep no empty secret when nothing does? |
| `overlap` | Two processes on one S3 object, one edit and one tick, so that both may rotate the same key or one remove what the other adds, between any two calls. |

`calls` has one failure, because the refinement is about single steps, and the steps after a failure meet what it
left (an empty secret, an issued key, a truncated file); longer histories of failures are the subject of `faults` and `retry`, on
the steps that `ImplementsSidecred` justifies. `overlap` has no failures, so that two complete
invocations stay within reach.

`validation` runs the loops of `Validate` on every file with one of five lists of stores and up to two requests for two
stores, each with one of eleven lists of creds (right ones, and unknown fields, missing fields, a short duration, an
unknown type, lists with a name, with typed entries, without any type), so that duplicates occur within a cred list,
within a list entry, and across requests: they accept what `Valid` accepts. A file whose cred has no field of its own
makes `Validate` panic, which counts as not accepting it.

Further runs and their findings show where the code departs from what its documentation says. Each checks one property
that the runs above confirm for other inputs.

| Run | Shows |
| --- | --- |
| `write_fails` | After a failed Write the next run believes that the credential is there. |
| `disabled_store` | The credentials of a request are destroyed while its store type is disabled. |
| `lost_state` | A Save that is interrupted after the truncation of the file leaves an empty one, which the next run takes for a state without resources: a key that exists is forgotten. |

For the same reasons some properties are claimed, and checked, only for certain inputs and without certain faults:

* `NoLeakedKeys` fails when a Destroy fails (the resource is forgotten all the same, `sidecred.go:418-421`) and when two
  invocations overlap (the last Save forgets the other's key; nothing compares the state with the one that was loaded).
* `SecretsAreTracked` fails when a Delete fails (`sidecred.go:436-439`). What such failures may do is `LosesOnlyWhatFailed`.
* `KeptCredentialsAreThere` fails after a change of the namespace or a secret template, which `hasValidCredentials` does
  not look at (`sidecred.go:82-100`); for two deploy keys of one repository, whose secrets have one path
  (`provider/github/github.go:187`); and after a crash between a Destroy and the Save when the request comes back. It
  is checked for files without such requests, `KeptCredentialsHoldTheirPlaces` for all.
* It also fails after every refused Write, for a store without a usable config, at which `Validate` does not look
  (`config/config.go:79`), or an outdated repository key (`store/github/github.go:116`). `Invocation` has these refusals,
  without a bound, as failures of the `WriteFails` of `Sidecred`, so the refinement has nothing against them:
  `write_fails` shows what follows.
* A secret goes with its name and not with its request: when a request moves to another store, the secret in the old one
  stays as long as the name is used, because orphans are found by resource ID alone (`state.go:184-199`). Therefore
  `NoSecretOutlivesItsName` promises no more.
* `ForgetsOnlyDestroyed` fails when a Destroy fails and when invocations overlap.
* A failed Write is not among what `Converges` makes up for: it is claimed for failed creates, lost saves and crashes.

The rotator has three apps, the least number for which a wrong rotation differs from the right one, two ticks, tokens of
two ticks and limits of one, so that tokens expire and limits are reset between calls and during one.

| Run | Question |
| --- | --- |
| `rotation` | Is every app asked or bypassed, in cyclic order, before a call gives up, the app with few requests left last, and does every call end? |
| `bypass` | Is a bypassed app one that Github refuses? It is not: the test of the reset time is inverted, so an app is bypassed from the moment it could be used again, and for good, since nothing but a successful or failed request clears the error. |

Fairness (`FairSpec`): weak fairness of `StartRun`, because the scheduler invokes sidecred periodically, and of
`Proceed`, because an invocation that is not killed takes its next step. In `GithubRotator` it is weak fairness of the
steps of a call: Github answers every request, with whatever answer. Nothing is assumed of failures; they end
because their number is bounded, which is what "once the environment stops failing" means in `Converges`. The clock is
bounded too, so `Converges` is about the time after the last tick of the model.

`ConfigValidation` and `Invocation` claim no liveness. In `Invocation` a partial state file, or an outdated repository key in a lambda that is not recycled, can stop progress for good.

Bounds are constants (`MaxNow`, `MaxEdits`, `MaxFaults`, `MaxKeyChanges`) and appear only in the guards of the
environment. The refusals of a store, which `Invocation` counts with the faults of `Sidecred`, have no bound: there
`MaxFaults` is `AnyNumber`, and no number of faults equals it. Only `validation` disables the deadlock check,
because `Validate` returns: an invocation, or a call of the rotator, can always start.

## Proofs

TLAPS checks every step of these. All theorems hold for every set of config files, stores, deployments, credential
lifetimes, and every bound on the clock, on edits and on failures.

| Theorem | States | Provided that |
| --- | --- | --- |
| `SidecredProofs!TypeCorrectness` | `TypeOK` | |
| `SidecredProofs!SavedIsClean` | `SavedStateIsClean` | |
| `SidecredProofs!DestroysWhatItRemoves` | `RemovesWhatItDestroys` | |
| `KeyProofs!KeysAreKnown` | `KeyInv` | |
| `KeyProofs!ForgottenKeysAreDestroyed` | `ForgetsOnlyDestroyed` | `OneAtATime`; no Destroy fails, no Save is torn |
| `KeyProofs!RecordedKeysAreLive` | `RecordedKeysExist` | `OneAtATime`; no Save fails, no crash |
| `KeyProofs!KeysAreTracked` | `NoLeakedKeys` | `OneAtATime`; only Write and Delete fail |
| `SecretProofs!SecretsAreInTheStateFile` | `SecretsAreTracked` | `OneAtATime`, `DistinctStores`; only Create and Destroy fail |
| `NeedProofs!NeededStayMarked` | `NeedInv` | |
| `NeedProofs!NothingNeededIsDestroyed` | `DestroysOnlyUnneeded` | `StoresAreEnabled` |
| `NeedProofs!NothingToDoIsDone` | `QuietWhenUpToDate` | `OneAtATime`; no Save is torn |
| `ServiceProofs!SecretsEndWithTheirName` | `NoSecretOutlivesItsName` | |
| `ServiceProofs!KeptCredentialsStand` | `KeptCredentialsHoldTheirPlaces` | `OneAtATime`; no Write or Save fails, no crash |
| `ServiceProofs!RequestsAreServed` | `EveryRequestIsServed` | `OneAtATime`; no Create, Write or Save fails, no crash |
| `ServiceProofs!RotationWithoutOutage` | `NoOutage` | `OneAtATime`; no Create, Write or Save fails, no crash |
| `InvocationProofs!CallsImplementSidecred` | `ImplementsSidecred` | `OneWriter` |
| `InvocationProofs!CallsSaveCleanStates` | `SavedStateIsClean`, call by call | `OneWriter` |
| `InvocationProofs!CallsTypeCorrect` | `TypeOK` of `Invocation` | `OneWriter` |
| `InvocationProofs!SecretsHaveValues` | `NoHollowSecrets` | `OneWriter` |
| `GithubRotatorProofs!TypeCorrectness` | `TypeOK` of `GithubRotator` | |
| `GithubRotatorProofs!CyclicOrder` | `KeepsCyclicOrder` | |
| `GithubRotatorProofs!GivesUpLast` | `FailsOnlyAfterAll` | |
| `GithubRotatorProofs!AsksLowAppLast` | `LowAppIsLast` | |

A theorem without a proviso holds for any number of invocations that overlap and every kind of failure, crashes and
torn Saves included; so does one whose proviso does not mention invocations or failures. The provisos are defined at the
end of `SidecredProperties` (`OneWriter` in `InvocationProofs`), and `RunsMeetTheConditions` in `MCSidecred` has TLC
evaluate them for the config files of the runs, which therefore satisfy the hypotheses:

* `OneAtATime`: invocations do not overlap. Nothing in the code sees to it; it holds of a command that is run by hand or
  by one scheduler, and of a lambda with a reserved concurrency of one. Where it is missing, the property is false (the
  last save forgets what another invocation has recorded).
* Failures that are excluded are those after which the property is false: see the list under Runs. That a Create fails
  and has issued a credential all the same is what `KeysAreTracked` excludes with `create`.
* `DistinctStores`: no two store configurations have one type and one config, for they would share their places.
* `StoresAreEnabled`: every store that a valid config file uses is of an enabled type, which is so when the flags enable
  what the config files use; `disabled_store` shows that `DestroysOnlyUnneeded` is false otherwise.
* `OneWriter`: if some deployment keeps its state in a local file, there is one process. Several commands that write one
  file at once truncate it under each other; the S3 backend has no such restriction, and with it the theorems hold for
  any number of processes.

`Undisputed` is the set of the places of which the code can keep track by name and provider config. A place is
*disputed*, so that `KeptCredentialsHoldTheirPlaces`, `EveryRequestIsServed` and `NoOutage` say nothing of it, when

* two store configurations keep the same path there;
* a change of the namespace or of a secret template moves a request away from it that keeps its type, name, store and
  config;
* two requests of one config file share it. `Validate` compares names and not paths;
* a request of another name or store takes it over from a request of another provider, or from one that the same config
  file still has. When the flags disable the earlier provider, its resource stays in the state and would be kept later,
  although its secret was overwritten.

A request that moves to another store and back, a name that stands in two stores, and a key that is requested under
another name do not by themselves dispute a place. The files of `redeploy` have disputed places; that those of its key
are not, and that the files of the other runs of `Sidecred` have none, is in `RunsMeetTheConditions`.

The assumptions about constants are in `Config`, `Requests`, `Sidecred`, `SecretStores` and `Invocation`, and TLC
evaluates them in every run. Two of them deserve a word. `ConfigsAssumption` says that the work items of a config file
form a sequence and that their stores are those of its requests, which follows from the definition of `WorkItems` by an
induction that is out of the prover's reach. `StoresAssumption` leaves out the `inprocess` store (see Not modelled).

### The arguments

*The state file* (`SidecredProofs`). The properties are not inductive: that a saved state has no deposed resources
depends on the clean-up finding them all, and that the first resource of an identity is the one at the loop index
depends on there being at most two with that identity, the second of them current. `Inv` therefore says of every
invocation under way:

* in the list of a provider, of two resources with one identity the earlier is deposed (`Superseded`);
* two with one identity appear only for a request that was already handled; because `Validate` lets no two requests
  share a store and a name, there is never a third;
* a deposed resource belongs to an enabled provider, so the clean-up will not pass it over;
* at index `left[t]` of the reverse loop nothing behind it is deposed, so what shares its identity is in front;
* when the loops are done no list has deposed resources or two of an identity (`Settled`), which is what is saved.

`StateProofs` has what the operations of `State` preserve, and `SidecredProofs` one lemma for the effect of each action
on the local state, one for each phase, `NextInv`, and the theorems.

*Issued credentials* (`KeyProofs`). Every step is first put down to what it does to the serial numbers: an invocation
begins with the saved state, works on without touching them, issues one, drops the resource at its loop index, or ends
(`StepKinds`). Four invariants then have five kinds of steps to go through instead of twenty actions:

* `KeyInv`: saved and local states record serial numbers that were issued, to a credential of the type of the resource,
  and no number twice. So destroying one key cannot end another that the state keeps.
* `LiveInv` (for `RecordedKeysExist`): what a run's local state records is live; what it destroys it drops.
* `CoverInv` (for `ForgetsOnlyDestroyed`): a live key that the state file records is recorded by the local state too.
* `TrackInv` (for `NoLeakedKeys`): every live key is recorded by the local state of the run under way, or by the state
  file when none is.

*The stores* (`SecretProofs`). `SecretInv` says that the secrets of the local state, or of the state file when no
invocation is under way, are exactly the places of the stores that hold something. It needs that paths within a store
are distinct (`Inv`), for `AddSecret` and `RemoveSecret` go by the path, and that stores have no places in common.

*What is needed* (`NeedProofs`). `NeedInv` says that everything with the identity of a request that was passed stays
marked in use until the run ends: `GetResourcesByID` marks it, `AddResource` adds its successor marked, nothing clears a
mark. The clean-up destroys what is unmarked or deposed; a resource that a request names is unmarked only if the request
was passed over, which takes a store or a provider that is not enabled, and an unnamed request matches no resource,
because all of them have names. `QuietInv` (for `QuietWhenUpToDate`) says of a run
that found the state up to date that its local state is saved as that same state, whatever the marks in it, that it has
never left the request loop for a Write, and that it has no orphans of an enabled store.

*Requests and their secrets* (`ServiceProofs`). Every step of `Sidecred` is first put down to what it does to one local
state, to the stores and to the state file (`StepByKinds`): a request is passed over or kept, a credential is issued or
written, a resource or an orphan is kept, dropped or forgotten, a run starts or ends. Four invariants build on each other:

* `UsedInv`, the converse of `NeedInv`: what is marked in use was asked for by the run; the clean-up leaves nothing
  behind its index but what is asked for or belongs to a disabled provider; each resource comes from a request of some
  config file.
* `StaleInv` (for `NoSecretOutlivesItsName`): a secret in an enabled store is either still to be visited among the
  orphans or has a resource with its ID. When the run saves, no orphans are left to visit, and `UsedInv` says that the
  resource is asked for by a request that the run serves or belongs to a disabled provider.
* `ThereInv` (for `KeptCredentialsHoldTheirPlaces`): between runs each resource *stands*, which is to say that the
  credential of a resource is in every undisputed place that some config file gives it, and that the state records no
  other ID for these places. During a run it is so of what the clean-up will leave (`StandingInv`), except for the
  credential being written, which has reached the places before `cred` (`WrittenInv`), and no orphan is at the place of a
  resource (`UnclaimedInv`). The resources that the clean-up will drop need not stand: a write may overwrite only those,
  because two requests of one config file do not share an undisputed place and those that take it over from each other
  have one provider, so the earlier resource is either asked for no more or waits with the later for the same provider.
* `ServedInv` (for `EveryRequestIsServed`): a request that the loop has passed, and could serve, has a current resource.
  With `ThereInv` that resource stands, and with `LiveInv` its credential exists.
* `NoOutage` needs no invariant of its own. A step changes an undisputed place of a request only by writing the
  credential just created, which exists (`PlacesChange`): a deleted orphan is not at the place of a resource that stands,
  and once the clean-up has begun `ServedInv` and `ThereInv` give one for every request (`CleanUpKeeps`). What such a
  place holds is not destroyed (`PlacesKeepTheirKeys`): only the clean-up destroys, and by then the place holds the key
  of the resource that the run keeps, which no other resource has (`KeyInv`).

A crash or a failed Save breaks `ThereInv`: the stores have a credential that the state file knows nothing of, while its
older one is still recorded. If the old one is still valid for the next run, that run takes it for valid and does not
write it. `retry` checks `KeptCredentialsAreThere` under both, for a config file that does not change, where
only a credential that had to be renewed is replaced.

*Call by call* (`InvocationProofs`). One lemma for each group of actions of `Invocation` shows that the action is a step
of `Sidecred` or leaves its variables alone; `StepsOfSidecred` puts them together. The mapping of the state file needs
`CallInv`: calls belong to an invocation under way, a file is truncated only in the Save of the file backend, and a
missing file holds the empty state. The refinement carries the invariants of `Sidecred` over. From them `PlaceInv`
follows: what a place holds has been issued (`HeldInv`), cached keys are not newer than the repository's
(`CacheInv`), the file has no marks (`FileInv`), and, as long as no call fails, a secret without a value is being
filled by an invocation that will not be refused (`FillInv`).

*The rotator* (`GithubRotatorProofs`), for every number of apps and all lifetimes. The invariant says that
in round `i` of the loop the apps that had their turn are the last `i` of the slice, with the app below the cutoff just
in front of them, and that the slice is a permutation of the apps, so that after `N` rounds none is left out.

### Model-checked only

* Liveness: `RunsEnd`, `Converges`, `CallsEnd`. TLAPS has no proofs about fairness.
* `AgreesWithValid`: `Valid` flattens sequences by recursion, so a proof needs an induction over data.
* `KeptCredentialsAreThere` under failed Saves and crashes (`retry`): `ThereInv` does not survive them (see above). For
  files that dispute no place, and without these failures, it is what `KeptCredentialsStand` proves.
* `LosesOnlyWhatFailed`, which counts.

## Not modelled

* The `inprocess` store: what it holds ends with the process, while the state file may say that it is there.
* The values of credentials and their encryption; `Read`, which no invocation calls.
* The panic of the `random` provider for a negative length, and the one of the lambda when its config cannot be loaded.
* Names that the Github stores sanitise to one, and templates that do not use namespace and name.
* YAML decoding (a Boolean of a document) and the wiring of clients, loggers and `eventctx`.
* Several pairs of a config and a state file in one lambda: they share only the cached keys of the Github stores.

## Plan

1. Done: `State`, `Config`, `Sidecred`, `GithubRotator`, their runs and the proofs above.
2. Done: `ConfigValidation`; the flags, stores and backends call by call in `Invocation`.
3. Done: the refinement of `Sidecred` by `Invocation` proved step by step, and what follows from it.
4. Done: which credentials and secrets the state file records, and what a run destroys or leaves alone.
5. Done: what the requests of a config file get: `KeptCredentialsHoldTheirPlaces`,
   `EveryRequestIsServed`, `NoOutage` and `NoSecretOutlivesItsName`, for config files that move requests and share places.
6. Open: the `inprocess` store; names that the Github stores sanitise to one, and templates that drop the namespace or
   the name, which need places that are not injective in both.
