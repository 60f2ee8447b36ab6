------------------------------ MODULE Invocation ------------------------------
(***************************************************************************)
(* Invocations of sidecred call by call.  Where a step of Sidecred is a    *)
(* Create, Destroy, Write, Delete or Save, here it is the calls that the   *)
(* provider, the store or the backend makes for it, each of which may      *)
(* fail, be the last one before a crash, or interleave with another        *)
(* invocation.  What Process does between the calls are the steps of       *)
(* Sidecred itself, by way of Process.                                     *)
(***************************************************************************)
EXTENDS Requests, Cli, SecretStores, StateBackend

CONSTANTS Options, RotationWindow, Lifetime, FaultKinds, MaxNow, MaxEdits, MaxFaults

VARIABLES
    now, config, keys, run, edits, faults,   \* as in Sidecred; faults are the environment's
    refusals,                                \* failures that no fault of the environment causes
    options,                                 \* the flags of the command or the lambda
    call                                     \* what each invocation is in the middle of

ASSUME BoundsAssumption ==
    /\ RotationWindow \in Nat
    /\ Lifetime \in [CredentialTypes -> Nat]
    /\ MaxNow \in Nat /\ MaxEdits \in Nat /\ MaxFaults \in Nat

ASSUME OptionsAssumption == Options \subseteq [flags: SUBSET Flags, backend: STRING]

\* A file that is being written still counts as what it held before.
Saving(p) == call[p].next = "Write"

SavedState ==
    IF \E p \in Processes : Saving(p)
    THEN Loaded(call[CHOOSE p \in Processes : Saving(p)].op[2])
    ELSE Loaded(file)

\* Process counts refusals, which no bound limits, with the faults.  The instance
\* brings the theorems about Sidecred along; only the proofs use them.
AnyNumber == -1

Process == INSTANCE KeyProofs WITH
    Runs        <- Processes,
    Deployments <- {Enabled(o) : o \in Options},
    deployment  <- Enabled(options),
    saved       <- SavedState,
    vault       <- Readable,
    faults      <- faults + refusals,
    FaultKinds  <- {"create", "write", "destroy", "delete", "save", "torn", "crash"},
    MaxFaults   <- AnyNumber

failures == <<faults, refusals>>

vars == <<now, config, keys, run, edits, faults, refusals, options, call, file, storeVars>>

NoCall == [op |-> << >>, next |-> ""]

Free(p) == call[p] = NoCall

\* Operation op is under way, or may start.
In(p, op) == call[p].op \in {<< >>, op}

\* The next call of operation op, whose first one is first.
Upcoming(p, op, first) == IF call[p].op = op THEN call[p].next ELSE first

GoOn(p, op, next) == call' = [call EXCEPT ![p] = [op |-> op, next |-> next]]
Return(p)         == call' = [call EXCEPT ![p] = NoCall]
End(p)            == Return(p) /\ run' = [run EXCEPT ![p] = Process!Idle]

Fault(kind) ==
    /\ kind \in FaultKinds
    /\ faults < MaxFaults
    /\ faults' = faults + 1
    /\ UNCHANGED refusals

Init ==
    /\ now = 0 /\ edits = 0 /\ faults = 0 /\ refusals = 0
    /\ config \in Configs
    /\ options \in Options
    /\ keys = << >>
    /\ run = [p \in Processes |-> Process!Idle]
    /\ call = [p \in Processes |-> NoCall]
    /\ file = NoFile
    /\ StoresInit(Locations)

-----------------------------------------------------------------------------
(* Loading, and the steps of Process without calls.                        *)

StartRun(p) ==
    /\ Free(p)
    /\ options.backend \in KnownBackends
    /\ Loadable(file)
    /\ file' = Touched(options.backend, file)
    /\ UNCHANGED <<failures, options, call, storeVars>>
    /\ Process!StartRun(p)

\* The state is loaded before Process validates the config.
RejectConfig(p) ==
    /\ Free(p)
    /\ options.backend \in KnownBackends
    /\ Loadable(file)
    /\ file' = Touched(options.backend, file)
    /\ UNCHANGED <<failures, options, call, storeVars>>
    /\ Process!RejectConfig(p)

\* The state cannot be read: the invocation ends before Process.
LoadFails(p) ==
    /\ run[p].pc = "idle"
    /\ options.backend = "s3" \/ ~Loadable(file)
    /\ UNCHANGED vars

Compute(p) ==
    /\ Free(p)
    /\ UNCHANGED <<failures, options, call, file, storeVars>>
    /\ \/ Process!SkipRequest(p) \/ Process!KeepCredentials(p)
       \/ Process!FinishRequests(p) \/ Process!FinishResources(p) \/ Process!FinishOrphans(p)
       \/ \E t \in ProviderTypes : Process!KeepResource(p, t)
       \/ \E c \in StoreConfigs : \E sec \in run[p].orphans[c] : Process!KeepOrphan(p, c, sec)

-----------------------------------------------------------------------------
(* Create and Destroy of the providers.                                    *)

\* The first and the last call of a Create; random makes none.
FirstCreateCall(type) ==
    CASE type = "random" -> ""
      [] type = "aws:sts" -> "AssumeRole"
      [] type = "artifactory:access-token" -> "CreateToken"
      [] type \in {"github:deploy-key", "github:access-token"} -> "CreateInstallationToken"

LastCreateCall(type) == IF type = "github:deploy-key" THEN "CreateKey" ELSE FirstCreateCall(type)

CreateType(p) == Process!Item(run[p]).request.type
CreateNext(p) == Upcoming(p, <<"create">>, FirstCreateCall(CreateType(p)))

CreateCall(p) ==
    /\ Process!NeedsCredentials(run[p])
    /\ CreateNext(p) # LastCreateCall(CreateType(p))
    /\ GoOn(p, <<"create">>, LastCreateCall(CreateType(p)))
    /\ UNCHANGED <<now, config, keys, run, edits, failures, options, file, storeVars>>

CreateCredentials(p) ==
    /\ Process!NeedsCredentials(run[p])
    /\ CreateNext(p) = LastCreateCall(CreateType(p))
    /\ Return(p)
    /\ UNCHANGED <<failures, options, file, storeVars>>
    /\ Process!CreateCredentials(p)

\* Only the last call can issue a credential.
CreateFails(p) ==
    /\ Process!NeedsCredentials(run[p])
    /\ CreateNext(p) # ""
    /\ Fault("create")
    /\ Return(p)
    /\ UNCHANGED <<options, file, storeVars>>
    /\ Process!CreateFails(p)
    /\ CreateNext(p) # LastCreateCall(CreateType(p)) => keys' = keys

ToDestroy(p, t) ==
    Process!Visiting(run[p], t) /\ ~Process!Kept(run[p], t) /\ In(p, <<"destroy", t>>)

\* Only a deploy key has the metadata that Destroy needs.
DestroyNext(p, t) ==
    Upcoming(p, <<"destroy", t>>,
          IF Revocable(Process!Visited(run[p], t).type)
          THEN "CreateInstallationToken" ELSE "")

DestroyCall(p, t) ==
    /\ ToDestroy(p, t)
    /\ DestroyNext(p, t) = "CreateInstallationToken"
    /\ GoOn(p, <<"destroy", t>>, "DeleteKey")
    /\ UNCHANGED <<now, config, keys, run, edits, failures, options, file, storeVars>>

\* A key that is not there is no error.
DestroyResource(p, t) ==
    /\ ToDestroy(p, t)
    /\ DestroyNext(p, t) \in {"", "DeleteKey"}
    /\ Return(p)
    /\ UNCHANGED <<failures, options, file, storeVars>>
    /\ Process!DestroyResource(p, t)

DestroyFails(p, t) ==
    /\ ToDestroy(p, t)
    /\ DestroyNext(p, t) # ""
    /\ Fault("destroy")
    /\ Return(p)
    /\ UNCHANGED <<options, file, storeVars>>
    /\ Process!DestroyFails(p, t)

-----------------------------------------------------------------------------
(* Write and Delete of the stores.                                         *)

Writing(p) == run[p].pc = "write"

Target(p)    == Process!Store(run[p])
Place(p)     == Location(Target(p), Process!PathToWrite(run[p]))
WriteNext(p) == Upcoming(p, <<"write">>, FirstWriteCall(Target(p)))

AfterNext(p) == AfterWriteCall(WriteNext(p), Place(p), Process!Created(run[p]).key)

Accepted(p) ==
    Usable(Target(p)) /\ ~Refuses(p, Target(p), WriteNext(p), Place(p))

WriteCall(p) ==
    /\ Writing(p)
    /\ Accepted(p)
    /\ WriteNext(p) \notin LastWriteCalls
    /\ held' = AfterNext(p)
    /\ cachedKey' = Remember(p, Target(p), WriteNext(p))
    /\ GoOn(p, <<"write">>, NextWriteCall(p, Target(p), WriteNext(p)))
    /\ UNCHANGED <<now, config, keys, run, edits, failures, options, file, publicKey>>

WriteSecret(p) ==
    /\ Writing(p)
    /\ Accepted(p)
    /\ WriteNext(p) \in LastWriteCalls
    /\ held' = AfterNext(p)
    /\ run' = [run EXCEPT ![p] = Process!Recorded(@)]
    /\ Return(p)
    /\ UNCHANGED <<now, config, keys, edits, failures, options, file, publicKey, cachedKey>>

\* The store configuration, or a call that finds things as they are, makes Write
\* return an error, whatever the environment does.
RefuseWrite(p) ==
    /\ Writing(p)
    /\ ~Accepted(p)
    /\ refusals' = refusals + 1
    /\ run' = [run EXCEPT ![p] = Process!NextCredential(@)]
    /\ Return(p)
    /\ UNCHANGED <<now, config, keys, edits, faults, options, file, storeVars>>

WriteFails(p) ==
    /\ Writing(p)
    /\ Usable(Target(p))
    /\ Fault("write")
    /\ held' \in {held, AfterNext(p)}
    /\ run' = [run EXCEPT ![p] = Process!NextCredential(@)]
    /\ Return(p)
    /\ UNCHANGED <<now, config, keys, edits, options, file, publicKey, cachedKey>>

ToDelete(p, c, sec) ==
    /\ Process!HasOrphan(run[p], c, sec)
    /\ c.type \in run[p].deployment.stores
    /\ In(p, <<"delete", c, sec>>)

DeleteNext(p, c, sec) ==
    Upcoming(p, <<"delete", c, sec>>, IF c.type \in GithubStores THEN "CreateInstallationToken" ELSE "Delete")

DeleteCall(p, c, sec) ==
    /\ ToDelete(p, c, sec)
    /\ DeleteNext(p, c, sec) = "CreateInstallationToken"
    /\ GoOn(p, <<"delete", c, sec>>, "Delete")
    /\ UNCHANGED <<now, config, keys, run, edits, failures, options, file, storeVars>>

DeleteOrphan(p, c, sec) ==
    /\ ToDelete(p, c, sec)
    /\ DeleteNext(p, c, sec) = "Delete"
    /\ held' = AfterDelete(Location(c, sec.path))
    /\ run' = [run EXCEPT ![p] = Process!Dropped(@, c, sec)]
    /\ Return(p)
    /\ UNCHANGED <<now, config, keys, edits, failures, options, file, publicKey, cachedKey>>

DeleteFails(p, c, sec) ==
    /\ ToDelete(p, c, sec)
    /\ Fault("delete")
    /\ run' = [run EXCEPT ![p] = Process!Dropped(@, c, sec)]
    /\ Return(p)
    /\ UNCHANGED <<now, config, keys, edits, options, file, storeVars>>

-----------------------------------------------------------------------------
(* Save of the backends.                                                   *)

\* Faulty variant: the marks of a run are saved with the state.
New_InUse(p) == FileOf(run[p].state)

New(p) == FileOf(Persisted(run[p].state))

\* os.WriteFile opens the file with O_TRUNC; what was in it is kept for Process.
Truncate(p) ==
    /\ run[p].pc = "save"
    /\ options.backend = "file"
    /\ Free(p)
    /\ file' = EmptyFile
    /\ GoOn(p, <<"save", file>>, "Write")
    /\ UNCHANGED <<now, config, keys, run, edits, failures, options, storeVars>>

Save(p) ==
    /\ run[p].pc = "save"
    /\ options.backend = "file" => Saving(p)
    /\ file' = New(p)
    /\ End(p)
    /\ UNCHANGED <<now, config, keys, edits, failures, options, storeVars>>

\* PutObject may have taken effect; a file that cannot be opened is as it was.
SaveFails(p) ==
    /\ run[p].pc = "save"
    /\ Free(p)
    /\ Fault("save")
    /\ file' \in IF options.backend = "s3" THEN {file, New(p)} ELSE {file}
    /\ End(p)
    /\ UNCHANGED <<now, config, keys, edits, options, storeVars>>

\* The file is truncated, and then the process dies or the disk is full.
Torn(p) ==
    /\ Saving(p)
    /\ Fault("torn")
    /\ file' \in {EmptyFile, TornFile}
    /\ cachedKey' = Forgotten(p)
    /\ End(p)
    /\ UNCHANGED <<now, config, keys, edits, options, held, publicKey>>

Crash(p) ==
    /\ run[p].pc # "idle"
    /\ ~Saving(p)
    /\ Fault("crash")
    /\ cachedKey' = Forgotten(p)
    /\ End(p)
    /\ UNCHANGED <<now, config, keys, edits, options, file, held, publicKey>>

-----------------------------------------------------------------------------
(* The environment.                                                        *)

\* The command ends with its invocation, a lambda when it is recycled.
Recycle(p) ==
    /\ run[p].pc = "idle"
    /\ cachedKey' = Forgotten(p)
    /\ UNCHANGED <<now, config, keys, run, edits, failures, options, call, file, held, publicKey>>

ReplaceKey(r) ==
    /\ ReplacePublicKey(r)
    /\ UNCHANGED <<now, config, keys, run, edits, failures, options, call, file>>

Tick ==
    /\ UNCHANGED <<failures, options, call, file, storeVars>>
    /\ Process!Tick

EditConfig ==
    /\ UNCHANGED <<failures, options, call, file, storeVars>>
    /\ Process!EditConfig

\* Other flags; the state stays in the same backend.
Redeploy ==
    /\ edits < MaxEdits
    /\ edits' = edits + 1
    /\ options' \in {o \in Options \ {options} : o.backend = options.backend}
    /\ UNCHANGED <<now, config, keys, run, failures, call, file, storeVars>>

Proceed(p) ==
    \/ Compute(p)
    \/ CreateCall(p) \/ CreateCredentials(p)
    \/ WriteCall(p) \/ WriteSecret(p) \/ RefuseWrite(p)
    \/ \E t \in ProviderTypes : DestroyCall(p, t) \/ DestroyResource(p, t)
    \/ \E c \in StoreConfigs : \E sec \in run[p].orphans[c] :
            DeleteCall(p, c, sec) \/ DeleteOrphan(p, c, sec)
    \/ Truncate(p) \/ Save(p)

Fail(p) ==
    \/ LoadFails(p) \/ CreateFails(p) \/ WriteFails(p)
    \/ \E t \in ProviderTypes : DestroyFails(p, t)
    \/ \E c \in StoreConfigs : \E sec \in run[p].orphans[c] : DeleteFails(p, c, sec)
    \/ SaveFails(p) \/ Torn(p) \/ Crash(p)

Next ==
    \/ \E p \in Processes : StartRun(p) \/ RejectConfig(p) \/ Proceed(p) \/ Fail(p) \/ Recycle(p)
    \/ \E r \in Repositories : ReplaceKey(r)
    \/ Tick \/ EditConfig \/ Redeploy

Spec == Init /\ [][Next]_vars

-----------------------------------------------------------------------------
\* Type correctness: a place holds nothing but what a provider has issued, and a
\* process caches only keys that the repository had.
TypeOK ==
    /\ \A p \in Processes : run[p].pc = "idle" => Free(p)
    /\ \A l \in DOMAIN held : held[l] \in Absent .. Len(keys)
    /\ \A p \in Processes, r \in Repositories : cachedKey[p][r] \in NoKey .. publicKey[r]
    /\ file.kind \in Kinds
    /\ file.state = Persisted(file.state)
    /\ options \in Options

(***************************************************************************)
(* The calls of a Create, Destroy, Write, Delete or Save implement the one *)
(* step that Sidecred makes of it: until the last call nothing changes     *)
(* that a consumer of a store, a later run or the provider can tell apart, *)
(* and whatever call fails, the effect is that of the step failing.        *)
(***************************************************************************)
ImplementsSidecred == Process!Spec

\* Secrets Manager keeps no secret without a value when all calls succeeded
\* (src/store/secretsmanager/secretsmanager.go:73-90).
NoHollowSecrets ==
    Process!Quiet /\ faults = 0 => \A l \in DOMAIN held : held[l] # Empty

\* Invocations that overlap at any call save clean states.
SavedStateIsClean == Process!SavedStateIsClean

\* The state keeps record of what exists, whatever happens during a Save
\* (README.md:111-112; src/backend/file/file.go:48).
ForgetsOnlyDestroyed == Process!ForgetsOnlyDestroyed
=============================================================================
