---------------------------- MODULE InvocationProofs ----------------------------
(***************************************************************************)
(* Proofs about invocations call by call: that they implement Sidecred,    *)
(* for any stores, flags, config files, failures and crashes at any call,  *)
(* and what follows from it.                                               *)
(***************************************************************************)
EXTENDS Invocation, SequenceTheorems, TLAPS

\* A local file is written by one command at a time; several invocations share an
\* object in S3 (src/cmd/sidecred/main.go, src/cmd/sidecred-lambda/main.go).
OneWriter == (\E o \in Options : o.backend = "file") => \A p, q \in Processes : p = q

-----------------------------------------------------------------------------
(* The constants of Process.                                               *)

\* The names of the instance mean what they do here.
LEMMA SameState ==
    /\ Process!NewState = NewState
    /\ \A s : Process!Persisted(s) = Persisted(s)
    /\ Process!ProviderTypes = ProviderTypes
    /\ Process!CredentialTypes = CredentialTypes
    /\ \A c, path : Process!Location(c, path) = Location(c, path)
<1>1. Process!ProviderTypes = ProviderTypes /\ Process!CredentialTypes = CredentialTypes
  BY DEF Process!ProviderTypes, ProviderTypes, Process!CredentialTypes, CredentialTypes
<1>2. Process!NewState = NewState
  BY <1>1 DEF Process!NewState, NewState
<1>3. \A s : Process!Persisted(s) = Persisted(s)
  BY <1>1 DEF Process!Persisted, Persisted, Process!Unused, Unused
<1>4. \A c, path : Process!Location(c, path) = Location(c, path)
  BY DEF Process!Location, Location
<1> QED  BY <1>1, <1>2, <1>3, <1>4

\* So does what makes up the work of a config file.
LEMMA SameWork ==
    /\ \A c : Process!WorkItems(c) = WorkItems(c)
    /\ Process!WorkItem = WorkItem
    /\ \A s : Process!ToSet(s) = ToSet(s)
    /\ Process!NoConfig = NoConfig
<1>1. ASSUME NEW c PROVE Process!WorkItems(c) = WorkItems(c)
  BY DEF Process!WorkItems, WorkItems, Process!CredentialsMap, CredentialsMap,
         Process!Flatten, Flatten, Process!FlattenSeq, FlattenSeq
<1>2. Process!WorkItem = WorkItem
  BY SameState DEF Process!WorkItem, WorkItem, Process!CredentialRequest, CredentialRequest
<1>3. \A s : Process!ToSet(s) = ToSet(s)
  BY DEF Process!ToSet, ToSet
<1> QED  BY <1>1, <1>2, <1>3 DEF Process!NoConfig, NoConfig

\* The flags enable known providers and stores.
LEMMA EnabledType ==
    ASSUME NEW o
    PROVE  Enabled(o) \in [providers: SUBSET ProviderTypes, stores: SUBSET StoreTypes]
<1>1. EnabledProviders(o) \subseteq ProviderTypes
  BY DEF EnabledProviders, ProviderFlag, ProviderTypes
<1>2. EnabledStores(o) \subseteq StoreTypes
  BY DEF EnabledStores, StoreFlags, StoreTypes
<1> QED  BY <1>1, <1>2 DEF Enabled

\* What Sidecred assumes of its constants holds of those it is given here.
LEMMA ProcessAssumptions ==
    /\ Process!NoConfigIsAConfig
    /\ Process!ConfigsAssumption
    /\ Process!BoundsAssumption
    /\ Process!DeploymentsAssumption
<1>1. Process!NoConfigIsAConfig
  BY NoConfigIsAConfig, SameWork DEF Process!NoConfigIsAConfig
<1>2. Process!ConfigsAssumption
  BY ConfigsAssumption, SameWork DEF Process!ConfigsAssumption
<1>3. Process!BoundsAssumption
  BY BoundsAssumption, SameState DEF Process!BoundsAssumption, AnyNumber, Process!AnyNumber, Process!AllFaults
<1>4. Process!DeploymentsAssumption
  BY EnabledType, SameState DEF Process!DeploymentsAssumption, Process!StoreTypes, StoreTypes
<1> QED  BY <1>1, <1>2, <1>3, <1>4
-----------------------------------------------------------------------------
(* The inductive invariant, besides that of Sidecred.                      *)

(***************************************************************************)
(* Calls belong to an invocation under way, a file is truncated only by a  *)
(* Save of the file backend, and a missing file counts as the empty state. *)
(***************************************************************************)
CallInv ==
    /\ options \in Options
    /\ faults \in Nat /\ refusals \in Nat
    /\ DOMAIN call = Processes
    /\ \A p \in Processes :
        /\ run[p].pc = "idle" => Free(p)
        /\ Saving(p) => run[p].pc = "save" /\ options.backend = "file"
        /\ call[p].op = <<"write">> =>
            call[p].next \in {"UpdateSecret", "GetRepoPublicKey", "CreateOrUpdateRepoSecret"}
    /\ file.kind = "none" => file.state = NewState

\* An invocation that writes its file is the only one.
LEMMA SavesAlone ==
    ASSUME OneWriter, CallInv, NEW p \in Processes, Saving(p)
    PROVE  \A q \in Processes : q = p
BY DEF OneWriter, CallInv

\* While no file is being written, the state is what the file holds.
LEMMA FileCounts ==
    ASSUME \A p \in Processes : ~Saving(p)
    PROVE  SavedState = file.state
BY DEF SavedState, Loaded

\* While one is, the state is what the file held before.
LEMMA OldFileCounts ==
    ASSUME OneWriter, CallInv, NEW p \in Processes, Saving(p)
    PROVE  SavedState = call[p].op[2].state
<1>1. \A q \in Processes : q = p
  BY SavesAlone
<1>2. (CHOOSE q \in Processes : Saving(q)) = p
  BY <1>1
<1> QED  BY <1>2 DEF SavedState, Loaded

\* A call that neither begins nor ends a Save leaves the state as it is.
LEMMA SavedStays ==
    ASSUME OneWriter, CallInv, file'.state = file.state,
           \A q \in Processes : Saving(q)' => Saving(q) /\ call'[q] = call[q],
           \A q \in Processes : Saving(q) => Saving(q)'
    PROVE  SavedState' = SavedState
<1>1. CASE \A q \in Processes : ~Saving(q)
  <2>1. \A q \in Processes : ~(Saving(q)')
    BY <1>1
  <2>2. SavedState' = file'.state
    BY <2>1 DEF SavedState, Loaded, Saving
  <2> QED  BY <1>1, <2>2, FileCounts
<1>2. CASE \E q \in Processes : Saving(q)
  <2>1. PICK p \in Processes : Saving(p)
    BY <1>2
  <2>2. \A q \in Processes : q = p
    BY <2>1, SavesAlone
  <2>3. Saving(p)' /\ call'[p] = call[p]
    BY <2>1
  <2>4. (CHOOSE q \in Processes : Saving(q)') = p
    BY <2>2, <2>3
  <2>5. SavedState' = call'[p].op[2].state
    BY <2>3, <2>4 DEF SavedState, Loaded, Saving
  <2> QED  BY <2>1, <2>3, <2>5, OldFileCounts
<1> QED  BY <1>1, <1>2
\* The steps of an invocation change the local state of no other.
LEMMA OthersStay ==
    ASSUME Process!Inv, NEW p \in Processes,
           Process!StartRun(p) \/ Process!Proceed(p) \/ Process!Fail(p)
    PROVE  \A q \in Processes : q # p => run'[q] = run[q]
<1>1. SUFFICES Process!StepOf(p)
  BY DEF Process!StepOf
<1>2. CASE Process!StartRun(p)
  BY <1>2, ProcessAssumptions, Process!EndSteps
<1>3. CASE Process!Proceed(p)
  BY <1>3, ProcessAssumptions, Process!EndSteps, Process!RequestSteps, Process!WriteSteps,
     Process!CleanUpSteps DEF Process!Proceed
<1>4. CASE Process!Fail(p)
  BY <1>4, ProcessAssumptions, Process!EndSteps, Process!RequestSteps, Process!WriteSteps,
     Process!CleanUpSteps DEF Process!Fail
<1> QED  BY <1>2, <1>3, <1>4

\* An invocation between two operations is in the middle of nothing.
LEMMA FreeIsIdle == NoCall.op # <<"write">> /\ NoCall.next # "Write"
BY DEF NoCall

\* What is local to the other invocations stays as it is.
Alone(p) == \A q \in Processes : q # p => run'[q] = run[q] /\ call'[q] = call[q]

\* CallInv is kept by a step of one invocation that keeps it for that one.
LEMMA CallInvStep ==
    ASSUME CallInv, NEW p \in Processes,
           Alone(p),
           DOMAIN call' = Processes,
           run'[p].pc = "idle" => Free(p)',
           Saving(p)' => run'[p].pc = "save" /\ options.backend = "file",
           call'[p].op = <<"write">> =>
               call'[p].next \in {"UpdateSecret", "GetRepoPublicKey", "CreateOrUpdateRepoSecret"},
           options' = options, faults' \in Nat, refusals' \in Nat,
           file'.kind = "none" => file'.state = NewState
    PROVE  CallInv'
<1>1. ASSUME NEW q \in Processes, q # p
      PROVE  /\ (run[q].pc = "idle" => Free(q))'
             /\ (Saving(q) => run[q].pc = "save" /\ options.backend = "file")'
             /\ call'[q].op = <<"write">> =>
                 call'[q].next \in {"UpdateSecret", "GetRepoPublicKey", "CreateOrUpdateRepoSecret"}
  BY <1>1 DEF CallInv, Free, Saving, Alone
<1> QED  BY <1>1 DEF CallInv

\* In particular by one that ends an operation, or takes no call.
LEMMA ReturnStep ==
    ASSUME CallInv, NEW p \in Processes,
           \A q \in Processes : q # p => run'[q] = run[q],
           Return(p) \/ (Free(p) /\ UNCHANGED call),
           UNCHANGED options, faults' \in Nat, refusals' \in Nat,
           file'.kind = "none" => file'.state = NewState
    PROVE  CallInv' /\ ~(Saving(p)') /\ Alone(p)
<1>1. /\ DOMAIN call' = Processes
      /\ call'[p] = NoCall
      /\ \A q \in Processes : q # p => call'[q] = call[q]
  BY DEF CallInv, Return, Free
<1>2. Free(p)' /\ ~(Saving(p)')
  BY <1>1, FreeIsIdle DEF Free, Saving
<1> QED  BY <1>1, <1>2, FreeIsIdle, CallInvStep DEF Alone
-----------------------------------------------------------------------------
(* Every step of an invocation is a step of Sidecred or none at all.       *)

\* Loading the state, which may create the file, is the start of Process.
LEMMA StartSteps ==
    ASSUME CallInv, Process!Inv, NEW p \in Processes, StartRun(p) \/ RejectConfig(p)
    PROVE  Process!Next /\ CallInv' /\ Alone(p)
<1>1. /\ Free(p) /\ UNCHANGED <<faults, refusals, options, call>>
      /\ file'.kind = "none" => file'.state = NewState
  BY DEF StartRun, RejectConfig, failures, Touched, EmptyFile, CallInv
<1>2. CASE StartRun(p)
  <2>1. Process!StartRun(p)
    BY <1>2 DEF StartRun
  <2>2. Process!Next
    BY <2>1 DEF Process!Next
  <2>3. \A q \in Processes : q # p => run'[q] = run[q]
    BY <2>1, OthersStay
  <2> QED  BY <1>1, <2>2, <2>3, ReturnStep DEF CallInv
<1>3. CASE RejectConfig(p)
  <2>1. Process!RejectConfig(p)
    BY <1>3 DEF RejectConfig
  <2>2. Process!Next
    BY <2>1 DEF Process!Next
  <2>3. run' = run
    BY <2>1 DEF Process!RejectConfig, Process!vars
  <2> QED  BY <1>1, <2>2, <2>3, ReturnStep DEF CallInv
<1> QED  BY <1>2, <1>3

\* What Process does without a call it does here.
LEMMA ComputeSteps ==
    ASSUME CallInv, Process!Inv, NEW p \in Processes, Compute(p)
    PROVE  Process!Next /\ CallInv' /\ Alone(p)
<1>1. Free(p) /\ UNCHANGED <<faults, refusals, options, call, file>>
  BY DEF Compute, failures
<1>2. Process!Proceed(p)
  BY SameState DEF Compute, Process!Proceed
<1>3. Process!Next
  BY <1>2 DEF Process!Next
<1>4. \A q \in Processes : q # p => run'[q] = run[q]
  BY <1>2, OthersStay
<1> QED  BY <1>1, <1>3, <1>4, ReturnStep DEF CallInv

\* The last call of a Create or a Destroy, or the one that fails, is the step that
\* Sidecred makes of it.
LEMMA ProviderSteps ==
    ASSUME CallInv, Process!Inv, NEW p \in Processes,
           \/ CreateCredentials(p) \/ CreateFails(p)
           \/ \E t \in ProviderTypes : DestroyResource(p, t) \/ DestroyFails(p, t)
    PROVE  Process!Next /\ CallInv' /\ Alone(p)
<1>1. Return(p) /\ UNCHANGED <<options, file>>
  BY DEF CreateCredentials, CreateFails, DestroyResource, DestroyFails
<1>2. faults' \in Nat /\ refusals' \in Nat
  <2>1. faults' \in {faults, faults + 1} /\ refusals' = refusals
    BY DEF CreateCredentials, CreateFails, DestroyResource, DestroyFails, Fault, failures
  <2> QED  BY <2>1 DEF CallInv
<1>3. Process!Proceed(p) \/ Process!Fail(p)
  BY SameState DEF CreateCredentials, CreateFails, DestroyResource, DestroyFails,
                   Process!Proceed, Process!Fail
<1>4. Process!Next
  BY <1>3 DEF Process!Next
<1>5. \A q \in Processes : q # p => run'[q] = run[q]
  BY <1>3, OthersStay
<1> QED  BY <1>1, <1>2, <1>4, <1>5, ReturnStep DEF CallInv
\* The calls before it change nothing that Sidecred sees.
LEMMA CallStep ==
    ASSUME OneWriter, CallInv, NEW p \in Processes, NEW op, NEW next, GoOn(p, op, next),
           run[p].pc \notin {"idle", "save"}, next # "Write",
           op = <<"write">> => next \in {"UpdateSecret", "GetRepoPublicKey", "CreateOrUpdateRepoSecret"},
           UNCHANGED <<now, config, keys, run, edits, faults, refusals, options, file>>,
           Readable' = Readable
    PROVE  UNCHANGED Process!vars /\ CallInv' /\ Alone(p)
<1>1. /\ DOMAIN call' = Processes
      /\ call'[p] = [op |-> op, next |-> next]
      /\ \A q \in Processes : q # p => call'[q] = call[q]
  BY DEF GoOn, CallInv
<1>2. ~Saving(p) /\ ~(Saving(p)')
  BY <1>1 DEF Saving, CallInv
<1>3. SavedState' = SavedState
  <2>1. \A q \in Processes : Saving(q)' => Saving(q) /\ call'[q] = call[q]
    BY <1>1, <1>2 DEF Saving
  <2>2. \A q \in Processes : Saving(q) => Saving(q)'
    BY <1>1, <1>2 DEF Saving
  <2> QED  BY <2>1, <2>2, SavedStays
<1>4. Enabled(options)' = Enabled(options)
  BY DEF Enabled, EnabledProviders, EnabledStores
<1>5. CallInv'
  <2>1. /\ run'[p].pc # "idle"
        /\ options' = options /\ faults' \in Nat /\ refusals' \in Nat
        /\ file'.kind = "none" => file'.state = NewState
    BY DEF CallInv
  <2>2. call'[p].op = op /\ call'[p].next = next
    BY <1>1
  <2> QED  BY <1>1, <1>2, <2>1, <2>2, CallInvStep DEF Alone
<1>6. Alone(p)
  BY <1>1 DEF Alone
<1> QED  BY <1>3, <1>4, <1>5, <1>6 DEF Process!vars

\* The operations of an invocation differ.
LEMMA OperationsDiffer ==
    /\ <<"create">> # <<"write">>
    /\ \A t : <<"destroy", t>> # <<"write">>
    /\ \A c, sec : <<"delete", c, sec>> # <<"write">>
    /\ \A f : <<"save", f>> # <<"write">>
OBVIOUS

\* What a Read finds depends on what the places hold alone.
LEMMA SameReadable == held' = held => Readable' = Readable
BY DEF Readable

\* The calls before the last one of a Create, a Destroy or a Delete.
LEMMA EarlyCalls ==
    ASSUME OneWriter, CallInv, Process!Inv, NEW p \in Processes,
           \/ CreateCall(p)
           \/ \E t \in ProviderTypes : DestroyCall(p, t)
           \/ \E c \in StoreConfigs : \E sec \in run[p].orphans[c] : DeleteCall(p, c, sec)
    PROVE  UNCHANGED Process!vars /\ CallInv' /\ Alone(p)
<1>1. /\ UNCHANGED <<now, config, keys, run, edits, faults, refusals, options, file>>
      /\ Readable' = Readable
  BY SameReadable DEF CreateCall, DestroyCall, DeleteCall, failures, storeVars
<1>2. CASE CreateCall(p)
  <2>1. GoOn(p, <<"create">>, LastCreateCall(CreateType(p))) /\ Process!HasItem(run[p])
    BY <1>2 DEF CreateCall, Process!NeedsCredentials
  <2>2. run[p].pc = "requests"
    BY <2>1 DEF Process!HasItem
  <2>3. CreateType(p) \in CredentialTypes
    <3>1. run[p] \in Process!RunState /\ Process!RunInv(run[p])
      BY ProcessAssumptions, Process!Given
    <3>2. run[p].config \in Process!ValidConfigs /\ run[p].item <= Len(Process!Work[run[p].config])
      BY <2>1, <2>2, <3>1 DEF Process!RunInv, Process!HasItem
    <3> QED  BY <3>1, <3>2, ProcessAssumptions, Process!ItemProperties, SameState DEF CreateType
  <2>4. LastCreateCall(CreateType(p)) # "Write"
    BY <2>3 DEF LastCreateCall, FirstCreateCall, CredentialTypes
  <2> QED  BY <1>1, <2>1, <2>2, <2>4, OperationsDiffer, CallStep
<1>3. ASSUME NEW t \in ProviderTypes, DestroyCall(p, t)
      PROVE  UNCHANGED Process!vars /\ CallInv' /\ Alone(p)
  <2>1. GoOn(p, <<"destroy", t>>, "DeleteKey") /\ run[p].pc = "resources"
    BY <1>3 DEF DestroyCall, ToDestroy, Process!Visiting
  <2> QED  BY <1>1, <2>1, OperationsDiffer, CallStep
<1>4. ASSUME NEW c \in StoreConfigs, NEW sec, DeleteCall(p, c, sec)
      PROVE  UNCHANGED Process!vars /\ CallInv' /\ Alone(p)
  <2>1. GoOn(p, <<"delete", c, sec>>, "Delete") /\ run[p].pc = "orphans"
    BY <1>4 DEF DeleteCall, ToDelete, Process!HasOrphan
  <2> QED  BY <1>1, <2>1, OperationsDiffer, CallStep
<1> QED  BY <1>2, <1>3, <1>4
\* A credential to be written has a serial number, and a place in a store that
\* outlives the process.
LEMMA WritingFacts ==
    ASSUME Process!Inv, NEW p \in Processes, Writing(p)
    PROVE  /\ Process!Created(run[p]).key \in Nat
           /\ Target(p).type \in {"secretsmanager", "ssm"} \cup GithubStores
           /\ Target(p) \in StoreConfigs
           /\ Place(p) = Process!Location(Process!Store(run[p]), Process!PathToWrite(run[p]))
           /\ Place(p) \in DOMAIN held
<1>1. run[p] \in Process!RunState /\ Process!RunInv(run[p]) /\ run[p].pc = "write"
  BY ProcessAssumptions, Process!Given DEF Writing
<1>2. /\ Process!Created(run[p]) \in Process!Resource
      /\ Process!PathToWrite(run[p]) \in Process!Paths
      /\ Target(p) \in StoreConfigs
  BY <1>1, ProcessAssumptions, Process!WritingProperties DEF Target
<1>3. run[p].config \in Process!ValidConfigs /\ run[p].item <= Len(Process!Work[run[p].config])
  BY <1>1 DEF Process!RunInv, Process!WriteInv
<1>4. run[p].item \in 1 .. Len(Process!Work[run[p].config])
  BY <1>1, <1>3, ProcessAssumptions, Process!ItemProperties
<1>5. Target(p).type \in StoreTypes
  BY <1>3, <1>4, ProcessAssumptions, Process!StoreExists
     DEF Target, Process!Store, Process!Item, Process!StoreTypes, StoreTypes
<1>6. Target(p).type \in {"secretsmanager", "ssm"} \cup GithubStores
  BY <1>2, <1>5, StoresAssumption DEF StoreTypes, GithubStores
<1>7. Place(p) = Process!Location(Process!Store(run[p]), Process!PathToWrite(run[p]))
  BY SameState DEF Place, Target
<1>8. Place(p) \in Process!Locations
  BY <1>2, <1>7 DEF Process!Locations, Target
<1>9. DOMAIN held = Process!Locations
  <2>1. Readable \in [Process!Locations -> Nat]
    BY DEF Process!Inv, Process!TypeOK
  <2> QED  BY <2>1 DEF Readable
<1>10. Process!Created(run[p]).key \in Nat
  BY <1>2 DEF Process!Resource
<1> QED  BY <1>2, <1>6, <1>7, <1>8, <1>9, <1>10

\* A credential that is put at a place is read there.
LEMMA ReadableWrite ==
    ASSUME NEW place \in DOMAIN held, NEW key \in Nat, held' = [held EXCEPT ![place] = key]
    PROVE  Readable' = [Readable EXCEPT ![place] = key]
<1>1. DOMAIN held' = DOMAIN held
  OBVIOUS
<1>2. \A l \in DOMAIN held : Readable'[l] = IF l = place THEN key ELSE Readable[l]
  BY DEF Readable, Absent, Empty
<1> QED  BY <1>1, <1>2 DEF Readable

\* What the next call of a Write leaves behind is what a Read found before, or the
\* credential.
LEMMA WriteLeaves ==
    ASSUME Process!Inv, NEW p \in Processes, Writing(p), held' = AfterNext(p)
    PROVE  IF WriteNext(p) \in LastWriteCalls
           THEN Readable' = Process!Written(run[p]) ELSE Readable' = Readable
<1> DEFINE key == Process!Created(run[p]).key
<1>1. key \in Nat /\ Place(p) \in DOMAIN held
  BY WritingFacts
<1>2. CASE WriteNext(p) \in LastWriteCalls
  <2>1. held' = [held EXCEPT ![Place(p)] = key]
    BY <1>2 DEF AfterNext, AfterWriteCall, LastWriteCalls
  <2>2. Readable' = [Readable EXCEPT ![Place(p)] = key]
    BY <1>1, <2>1, ReadableWrite
  <2>3. Process!Written(run[p]) = [Readable EXCEPT ![Place(p)] = key]
    BY WritingFacts DEF Process!Written
  <2> QED  BY <1>2, <2>2, <2>3
<1>3. CASE WriteNext(p) = "CreateSecret"
  <2>1. held' = [held EXCEPT ![Place(p)] = IF @ = Absent THEN Empty ELSE @]
    BY <1>3 DEF AfterNext, AfterWriteCall, AfterCreate, LastWriteCalls
  <2>2. Readable' = Readable
    BY <2>1 DEF Readable, Absent, Empty
  <2> QED  BY <1>3, <2>2 DEF LastWriteCalls
<1>4. CASE WriteNext(p) \notin LastWriteCalls \cup {"CreateSecret"}
  BY <1>4, SameReadable DEF AfterNext, AfterWriteCall
<1> QED  BY <1>2, <1>3, <1>4
\* The end of an operation that is not a Save leaves the state file as it is.
LEMMA ReturnKeeps ==
    ASSUME OneWriter, CallInv, NEW p \in Processes, ~Saving(p), Return(p),
           UNCHANGED <<options, file>>
    PROVE  SavedState' = SavedState /\ Enabled(options)' = Enabled(options)
<1>1. /\ call'[p] = NoCall
      /\ \A q \in Processes : q # p => call'[q] = call[q]
  BY DEF Return, CallInv
<1>2. ~Saving(p) /\ ~(Saving(p)')
  BY <1>1, FreeIsIdle DEF Saving
<1>3. \A q \in Processes : Saving(q)' => Saving(q) /\ call'[q] = call[q]
  BY <1>1, <1>2 DEF Saving
<1>4. \A q \in Processes : Saving(q) => Saving(q)'
  BY <1>1, <1>2 DEF Saving
<1>5. SavedState' = SavedState
  BY <1>3, <1>4, SavedStays
<1> QED  BY <1>5 DEF Enabled, EnabledProviders, EnabledStores

\* One more failure, for whatever reason, is one that Sidecred allows for.
LEMMA MoreFailures ==
    ASSUME CallInv, NEW kind \in Process!AllFaults,
           \/ faults' = faults + 1 /\ refusals' = refusals
           \/ faults' = faults /\ refusals' = refusals + 1
    PROVE  Process!Fault(kind) /\ faults' \in Nat /\ refusals' \in Nat
<1>1. faults \in Nat /\ refusals \in Nat
  BY DEF CallInv
<1>2. /\ faults + refusals # AnyNumber
      /\ (faults + refusals)' = faults + refusals + 1
      /\ faults' \in Nat /\ refusals' \in Nat
  BY <1>1 DEF AnyNumber
<1> QED  BY <1>2 DEF Process!Fault, Process!AllFaults

\* The call of a Write before the last one.
LEMMA EarlyWrite ==
    ASSUME OneWriter, CallInv, Process!Inv, NEW p \in Processes, WriteCall(p)
    PROVE  UNCHANGED Process!vars /\ CallInv' /\ Alone(p)
<1> DEFINE next == NextWriteCall(p, Target(p), WriteNext(p))
<1>1. /\ Writing(p) /\ WriteNext(p) \notin LastWriteCalls
      /\ held' = AfterNext(p)
      /\ GoOn(p, <<"write">>, next)
      /\ UNCHANGED <<now, config, keys, run, edits, faults, refusals, options, file>>
  BY DEF WriteCall, failures
<1>2. Readable' = Readable
  BY <1>1, WriteLeaves
<1>3. WriteNext(p) \in {"CreateSecret", "CreateInstallationToken", "GetRepoPublicKey"}
  <2>1. CASE call[p].op = <<"write">>
    BY <1>1, <2>1 DEF WriteNext, Upcoming, CallInv, LastWriteCalls
  <2>2. CASE call[p].op # <<"write">>
    <3>1. WriteNext(p) = FirstWriteCall(Target(p))
      BY <2>2 DEF WriteNext, Upcoming
    <3>2. Target(p).type \in {"secretsmanager", "ssm"} \cup GithubStores
      BY <1>1, WritingFacts
    <3> QED  BY <1>1, <3>1, <3>2 DEF FirstWriteCall, GithubStores, LastWriteCalls
  <2> QED  BY <2>1, <2>2
<1>4. next \in {"UpdateSecret", "GetRepoPublicKey", "CreateOrUpdateRepoSecret"}
  BY <1>3 DEF NextWriteCall
<1> HIDE DEF next
<1>5. next # "Write"
  BY <1>4
<1>6. run[p].pc \notin {"idle", "save"}
  BY <1>1 DEF Writing
<1> QED  BY <1>1, <1>2, <1>4, <1>5, <1>6, CallStep

\* The last call of a Write, or the one that fails or is refused, is the step that
\* Sidecred makes of it.
LEMMA LastWrite ==
    ASSUME OneWriter, CallInv, Process!Inv, NEW p \in Processes,
           WriteSecret(p) \/ RefuseWrite(p) \/ WriteFails(p)
    PROVE  (Process!WriteSecret(p) \/ Process!WriteFails(p)) /\ CallInv' /\ Alone(p)
<1>1. /\ Writing(p) /\ run[p].pc = "write"
      /\ Return(p) /\ UNCHANGED <<now, config, keys, edits, options, file>>
  BY DEF WriteSecret, RefuseWrite, WriteFails, Writing
<1>2. SavedState' = SavedState /\ Enabled(options)' = Enabled(options)
  <2>1. ~Saving(p)
    BY <1>1 DEF CallInv
  <2> QED  BY <1>1, <2>1, ReturnKeeps
<1>3. UNCHANGED Process!external
  BY <1>1, <1>2 DEF Process!external
<1>4. faults' \in Nat /\ refusals' \in Nat
  <2>1. /\ faults' \in {faults, faults + 1}
        /\ refusals' \in {refusals, refusals + 1}
    BY DEF WriteSecret, RefuseWrite, WriteFails, Fault, failures
  <2> QED  BY <2>1 DEF CallInv
<1>5. ASSUME WriteSecret(p) PROVE Process!WriteSecret(p)
  <2>1. /\ run' = [run EXCEPT ![p] = Process!Recorded(run[p])]
        /\ held' = AfterNext(p) /\ WriteNext(p) \in LastWriteCalls
        /\ UNCHANGED <<faults, refusals>>
    BY <1>5 DEF WriteSecret, failures
  <2>2. Readable' = Process!Written(run[p])
    BY <1>1, <2>1, WriteLeaves
  <2>3. (faults + refusals)' = faults + refusals
    BY <2>1
  <2> QED  BY <1>1, <1>2, <1>3, <2>1, <2>2, <2>3 DEF Process!WriteSecret
<1>6. ASSUME RefuseWrite(p) \/ WriteFails(p) PROVE Process!WriteFails(p)
  <2>1. /\ run' = [run EXCEPT ![p] = Process!NextCredential(run[p])]
        /\ \/ faults' = faults + 1 /\ refusals' = refusals
           \/ faults' = faults /\ refusals' = refusals + 1
    BY <1>6 DEF RefuseWrite, WriteFails, Fault
  <2>2. Readable' \in {Readable, Process!Written(run[p])}
    <3>1. held' \in {held, AfterNext(p)}
      BY <1>6 DEF RefuseWrite, WriteFails, storeVars
    <3> QED  BY <1>1, <3>1, SameReadable, WriteLeaves
  <2>3. Process!Fault("write")
    BY <2>1, MoreFailures DEF Process!AllFaults
  <2> QED  BY <1>1, <1>2, <1>3, <2>1, <2>2, <2>3 DEF Process!WriteFails
<1>7. \A q \in Processes : q # p => run'[q] = run[q]
  BY <1>5, <1>6, OthersStay DEF Process!Proceed, Process!Fail
<1>8. CallInv' /\ Alone(p)
  BY <1>1, <1>4, <1>7, ReturnStep DEF CallInv
<1> QED  BY <1>5, <1>6, <1>8
\* A place that is cleared has nothing to read.
LEMMA ReadableDelete ==
    ASSUME NEW place, held' = AfterDelete(place)
    PROVE  Readable' = [Readable EXCEPT ![place] = Process!Nothing]
<1>1. DOMAIN held' = DOMAIN held
  BY DEF AfterDelete
<1>2. \A l \in DOMAIN held : Readable'[l] = IF l = place THEN Process!Nothing ELSE Readable[l]
  BY DEF AfterDelete, Readable, Absent, Empty, Process!Nothing
<1> QED  BY <1>1, <1>2 DEF Readable

\* The last call of a Delete, or the one that fails, is the step that Sidecred makes
\* of it.
LEMMA LastDelete ==
    ASSUME OneWriter, CallInv, Process!Inv, NEW p \in Processes,
           NEW c \in StoreConfigs, NEW sec \in run[p].orphans[c],
           DeleteOrphan(p, c, sec) \/ DeleteFails(p, c, sec)
    PROVE  (Process!DeleteOrphan(p, c, sec) \/ Process!DeleteFails(p, c, sec)) /\ CallInv' /\ Alone(p)
<1>1. /\ Process!HasOrphan(run[p], c, sec)
      /\ c.type \in run[p].deployment.stores
      /\ Return(p) /\ UNCHANGED <<now, config, keys, edits, options, file>>
      /\ run' = [run EXCEPT ![p] = Process!Dropped(run[p], c, sec)]
  BY DEF DeleteOrphan, DeleteFails, ToDelete
<1>2. ~Saving(p)
  BY <1>1 DEF CallInv, Process!HasOrphan
<1>3. SavedState' = SavedState /\ Enabled(options)' = Enabled(options)
  BY <1>1, <1>2, ReturnKeeps
<1>4. UNCHANGED Process!external
  BY <1>1, <1>3 DEF Process!external
<1>5. faults' \in Nat /\ refusals' \in Nat
  <2>1. faults' \in {faults, faults + 1} /\ refusals' = refusals
    BY DEF DeleteOrphan, DeleteFails, Fault, failures
  <2> QED  BY <2>1 DEF CallInv
<1>6. ASSUME DeleteOrphan(p, c, sec) PROVE Process!DeleteOrphan(p, c, sec)
  <2>1. held' = AfterDelete(Location(c, sec.path)) /\ UNCHANGED <<faults, refusals>>
    BY <1>6 DEF DeleteOrphan, failures
  <2>2. Readable' = [Readable EXCEPT ![Process!Location(c, sec.path)] = Process!Nothing]
    BY <2>1, ReadableDelete, SameState
  <2>3. (faults + refusals)' = faults + refusals
    BY <2>1
  <2> QED  BY <1>1, <1>3, <1>4, <2>2, <2>3 DEF Process!DeleteOrphan
<1>7. ASSUME DeleteFails(p, c, sec) PROVE Process!DeleteFails(p, c, sec)
  <2>1. held' = held /\ faults' = faults + 1 /\ refusals' = refusals
    BY <1>7 DEF DeleteFails, storeVars, Fault
  <2>2. Process!Fault("delete")
    BY <2>1, MoreFailures DEF Process!AllFaults
  <2>3. Readable' = Readable
    BY <2>1, SameReadable
  <2> QED  BY <1>1, <1>3, <1>4, <2>2, <2>3 DEF Process!DeleteFails
<1>8. \A q \in Processes : q # p => run'[q] = run[q]
  BY <1>6, <1>7, OthersStay DEF Process!Proceed, Process!Fail
<1>9. CallInv' /\ Alone(p)
  BY <1>1, <1>5, <1>8, ReturnStep DEF CallInv
<1> QED  BY <1>6, <1>7, <1>9

\* When an invocation has ended, no Save is under way.
LEMMA EndOfRun ==
    ASSUME OneWriter, CallInv, Process!Inv, NEW p \in Processes, End(p), run[p].pc # "idle",
           UNCHANGED options, faults' \in Nat, refusals' \in Nat,
           file'.kind = "none" => file'.state = NewState
    PROVE  /\ run' = [run EXCEPT ![p] = Process!Idle]
           /\ CallInv' /\ Alone(p)
           /\ Enabled(options)' = Enabled(options)
           /\ SavedState' = file'.state
<1>1. /\ run' = [run EXCEPT ![p] = Process!Idle] /\ Return(p)
      /\ \A q \in Processes : q # p => run'[q] = run[q]
  BY DEF End, Process!Inv, Process!TypeOK
<1>2. CallInv' /\ ~(Saving(p)') /\ Alone(p)
  BY <1>1, ReturnStep
<1>3. \A q \in Processes : ~(Saving(q)')
  <2>1. ASSUME NEW q \in Processes, q # p, Saving(q)' PROVE FALSE
    <3>1. Saving(q)
      BY <1>2, <2>1 DEF Saving, Alone
    <3> QED  BY <2>1, <3>1, SavesAlone
  <2> QED  BY <1>2, <2>1
<1>4. SavedState' = file'.state
  BY <1>3 DEF SavedState, Loaded
<1> QED  BY <1>1, <1>2, <1>4 DEF Enabled, EnabledProviders, EnabledStores
\* A Save, one that fails, and a crash are what Sidecred makes of them, whichever
\* call they end with.
LEMMA LastCalls ==
    ASSUME OneWriter, CallInv, Process!Inv, NEW p \in Processes,
           Save(p) \/ SaveFails(p) \/ Torn(p) \/ Crash(p)
    PROVE  /\ Process!Save(p) \/ Process!SaveFails(p) \/ Process!SaveTorn(p) \/ Process!Crash(p)
           /\ CallInv' /\ Alone(p)
<1>1. /\ End(p) /\ run[p].pc # "idle"
      /\ UNCHANGED <<now, config, keys, edits, options, held>>
  BY DEF Save, SaveFails, Torn, Crash, storeVars, CallInv
<1>2. faults' \in {faults, faults + 1} /\ refusals' = refusals
  BY DEF Save, SaveFails, Torn, Crash, Fault, failures
<1>3. faults' \in Nat /\ refusals' \in Nat
  BY <1>2 DEF CallInv
<1>4. file'.kind = "none" => file'.state = NewState
  BY DEF Save, SaveFails, Torn, Crash, New, FileOf, EmptyFile, TornFile, CallInv
<1>5. /\ run' = [run EXCEPT ![p] = Process!Idle]
      /\ CallInv' /\ Alone(p)
      /\ Enabled(options)' = Enabled(options)
      /\ SavedState' = file'.state
  BY <1>1, <1>3, <1>4, EndOfRun
<1>6. UNCHANGED Process!external /\ Readable' = Readable
  BY <1>1, <1>5, SameReadable DEF Process!external
<1>7. ~Saving(p) => SavedState = file.state
  <2>1. ASSUME ~Saving(p), NEW q \in Processes PROVE ~Saving(q)
    BY <2>1, SavesAlone
  <2> QED  BY <2>1, FileCounts
<1>8. New(p).state = Process!Persisted(run[p].state)
  BY SameState DEF New, FileOf
<1>9. ASSUME Save(p) PROVE Process!Save(p)
  <2>1. run[p].pc = "save" /\ file' = New(p) /\ UNCHANGED <<faults, refusals>>
    BY <1>9 DEF Save, failures
  <2>2. (faults + refusals)' = faults + refusals
    BY <2>1
  <2> QED  BY <1>1, <1>5, <1>6, <1>8, <2>1, <2>2 DEF Process!Save
<1>10. ASSUME SaveFails(p) PROVE Process!SaveFails(p)
  <2>1. /\ run[p].pc = "save" /\ Free(p) /\ file' \in {file, New(p)}
        /\ faults' = faults + 1 /\ refusals' = refusals
    BY <1>10 DEF SaveFails, Fault
  <2>2. Process!Fault("save")
    BY <2>1, MoreFailures DEF Process!AllFaults
  <2>3. SavedState = file.state
    BY <1>7, <2>1, FreeIsIdle DEF Free, Saving
  <2> QED  BY <1>1, <1>5, <1>6, <1>8, <2>1, <2>2, <2>3 DEF Process!SaveFails
<1>11. ASSUME Torn(p) PROVE Process!SaveTorn(p)
  <2>1. /\ run[p].pc = "save" /\ file' \in {EmptyFile, TornFile}
        /\ faults' = faults + 1 /\ refusals' = refusals
    BY <1>11 DEF Torn, Fault, CallInv
  <2>2. Process!Fault("torn")
    BY <2>1, MoreFailures DEF Process!AllFaults
  <2>3. file'.state = Process!NewState
    BY <2>1, SameState DEF EmptyFile, TornFile
  <2> QED  BY <1>1, <1>5, <1>6, <2>1, <2>2, <2>3 DEF Process!SaveTorn
<1>12. ASSUME Crash(p) PROVE Process!Crash(p)
  <2>1. ~Saving(p) /\ file' = file /\ faults' = faults + 1 /\ refusals' = refusals
    BY <1>12 DEF Crash, Fault
  <2>2. Process!Fault("crash")
    BY <2>1, MoreFailures DEF Process!AllFaults
  <2> QED  BY <1>1, <1>5, <1>6, <1>7, <2>1, <2>2 DEF Process!Crash
<1> QED  BY <1>5, <1>9, <1>10, <1>11, <1>12

\* The truncation of a file does not count before the Save has ended.
LEMMA TruncateStep ==
    ASSUME OneWriter, CallInv, Process!Inv, NEW p \in Processes, Truncate(p)
    PROVE  UNCHANGED Process!vars /\ CallInv' /\ Alone(p)
<1>1. /\ run[p].pc = "save" /\ options.backend = "file" /\ Free(p)
      /\ file' = EmptyFile
      /\ call' = [call EXCEPT ![p] = [op |-> <<"save", file>>, next |-> "Write"]]
      /\ UNCHANGED <<now, config, keys, run, edits, faults, refusals, options, held>>
  BY DEF Truncate, GoOn, failures, storeVars
<1>2. \A q \in Processes : q = p
  BY <1>1 DEF OneWriter, CallInv
<1>3. call'[p] = [op |-> <<"save", file>>, next |-> "Write"]
  BY <1>1 DEF CallInv
<1>4. SavedState = file.state
  BY <1>1, <1>2, FileCounts, FreeIsIdle DEF Free, Saving
<1>5. SavedState' = file.state
  <2>1. Saving(p)'
    BY <1>3 DEF Saving
  <2>2. (CHOOSE q \in Processes : Saving(q)') = p
    BY <1>2, <2>1
  <2>3. SavedState' = call'[p].op[2].state
    BY <2>1, <2>2 DEF SavedState, Loaded, Saving
  <2>4. call'[p].op = <<"save", file>>
    BY <1>3
  <2> QED  BY <2>3, <2>4
<1>6. CallInv'
  <2>1. call'[p].op # <<"write">>
    BY <1>3, OperationsDiffer
  <2>2. /\ \A q \in Processes : q # p => run'[q] = run[q] /\ call'[q] = call[q]
        /\ DOMAIN call' = Processes
        /\ run'[p].pc = "save"
        /\ options' = options /\ faults' \in Nat /\ refusals' \in Nat
        /\ file'.kind # "none"
    BY <1>1, <1>2 DEF CallInv, EmptyFile
  <2> QED  BY <1>1, <2>1, <2>2, CallInvStep DEF Alone
<1>7. Readable' = Readable /\ Enabled(options)' = Enabled(options)
  BY <1>1, SameReadable DEF Enabled, EnabledProviders, EnabledStores
<1> QED  BY <1>1, <1>2, <1>4, <1>5, <1>6, <1>7 DEF Process!vars, Alone
\* Other flags enable other providers or stores.
LEMMA FlagsMatter ==
    ASSUME NEW o \in Options, NEW n \in Options, n # o, n.backend = o.backend
    PROVE  Enabled(n) # Enabled(o)
<1>1. /\ o \in [flags: SUBSET Flags, backend: STRING]
      /\ n \in [flags: SUBSET Flags, backend: STRING]
  BY OptionsAssumption
<1>2. n.flags # o.flags
  BY <1>1
<1>3. PICK f \in Flags : f \in n.flags <=> f \notin o.flags
  BY <1>1, <1>2
<1>4. CASE \E t \in DOMAIN ProviderFlag : f = ProviderFlag[t]
  <2>1. PICK t \in DOMAIN ProviderFlag : f = ProviderFlag[t]
    BY <1>4
  <2>2. t # "random"
    BY DEF ProviderFlag
  <2>3. \A m : t \in EnabledProviders(m) <=> f \in m.flags
    BY <2>1, <2>2 DEF EnabledProviders
  <2> QED  BY <1>3, <2>3 DEF Enabled
<1>5. CASE \E g \in StoreFlags : f = g[1]
  <2>1. PICK g \in StoreFlags : f = g[1]
    BY <1>5
  <2>2. g[2] # "inprocess" /\ \A h \in StoreFlags : h[2] = g[2] => h[1] = g[1]
    BY DEF StoreFlags
  <2>3. \A m : g[2] \in EnabledStores(m) <=> f \in m.flags
    BY <2>1, <2>2 DEF EnabledStores
  <2> QED  BY <1>3, <2>3 DEF Enabled
<1> QED  BY <1>4, <1>5 DEF Flags

\* CallInv is kept by a step of the environment.
LEMMA CallInvStays ==
    ASSUME CallInv, UNCHANGED <<run, call, faults, refusals, file>>,
           options' \in Options, options'.backend = options.backend
    PROVE  CallInv'
<1>1. ASSUME NEW p \in Processes
      PROVE  /\ (run[p].pc = "idle" => Free(p))'
             /\ (Saving(p) => run[p].pc = "save" /\ options.backend = "file")'
             /\ call'[p].op = <<"write">> =>
                 call'[p].next \in {"UpdateSecret", "GetRepoPublicKey", "CreateOrUpdateRepoSecret"}
  BY DEF CallInv, Free, Saving
<1> QED  BY <1>1 DEF CallInv

\* The environment edits, redeploys and waits as it does in Sidecred; what it does to
\* repository keys and lambdas Sidecred does not see.
LEMMA EnvironmentSteps ==
    ASSUME OneWriter, CallInv,
           \/ Tick \/ EditConfig \/ Redeploy
           \/ \E p \in Processes : LoadFails(p) \/ Recycle(p)
           \/ \E r \in Repositories : ReplaceKey(r)
           \/ UNCHANGED vars
    PROVE  [Process!Next]_(Process!vars) /\ CallInv'
<1>1. ASSUME UNCHANGED <<now, config, keys, run, edits, faults, refusals, options, call, file, held>>
      PROVE  UNCHANGED Process!vars /\ CallInv'
  <2>1. SavedState' = SavedState
    BY <1>1 DEF SavedState, Loaded, Saving
  <2>2. Readable' = Readable /\ Enabled(options)' = Enabled(options)
    BY <1>1, SameReadable DEF Enabled, EnabledProviders, EnabledStores
  <2>3. CallInv'
    BY <1>1, CallInvStays DEF CallInv
  <2> QED  BY <1>1, <2>1, <2>2, <2>3 DEF Process!vars
<1>2. CASE \/ \E p \in Processes : LoadFails(p) \/ Recycle(p)
           \/ \E r \in Repositories : ReplaceKey(r)
           \/ UNCHANGED vars
  <2>1. UNCHANGED <<now, config, keys, run, edits, faults, refusals, options, call, file, held>>
    BY <1>2 DEF LoadFails, Recycle, ReplaceKey, ReplacePublicKey, failures, vars, storeVars
  <2> QED  BY <1>1, <2>1
<1>3. CASE Tick \/ EditConfig
  <2>1. Process!Tick \/ Process!EditConfig
    BY <1>3 DEF Tick, EditConfig
  <2>2. UNCHANGED <<run, call, faults, refusals, file, options>>
    BY <1>3, <2>1 DEF Tick, EditConfig, failures, Process!Tick, Process!EditConfig
  <2>3. CallInv'
    BY <2>2, CallInvStays DEF CallInv
  <2> QED  BY <2>1, <2>3 DEF Process!Next
<1>4. CASE Redeploy
  <2>1. /\ edits < MaxEdits /\ edits' = edits + 1
        /\ options' \in Options /\ options' # options /\ options'.backend = options.backend
        /\ UNCHANGED <<now, config, keys, run, faults, refusals, call, file, held>>
    BY <1>4 DEF Redeploy, failures, storeVars
  <2>2. Enabled(options') \in {Enabled(o) : o \in Options} \ {Enabled(options)}
    BY <2>1, FlagsMatter DEF CallInv
  <2>3. Enabled(options)' = Enabled(options')
    BY DEF Enabled, EnabledProviders, EnabledStores
  <2>4. SavedState' = SavedState /\ Readable' = Readable
    BY <2>1, SameReadable DEF SavedState, Loaded, Saving
  <2>5. (faults + refusals)' = faults + refusals
    BY <2>1
  <2>6. Process!Redeploy
    BY <2>1, <2>2, <2>3, <2>4, <2>5 DEF Process!Redeploy
  <2>7. CallInv'
    BY <2>1, CallInvStays
  <2> QED  BY <2>6, <2>7 DEF Process!Next
<1> QED  BY <1>2, <1>3, <1>4
-----------------------------------------------------------------------------
(* The initial states, and the theorems.                                   *)

\* The same config files are valid.
LEMMA SameValid == Process!ValidConfigs = ValidConfigs
<1>1. \A c : Process!Alias(c) = Alias(c)
  BY DEF Process!Alias, Alias
<1>2. \A cfg, f : Process!StringField(cfg, f) = StringField(cfg, f)
  BY DEF Process!StringField, StringField
<1>3. \A type : Process!Fields(type) = Fields(type) /\ Process!Required(type) = Required(type)
  BY DEF Process!Fields, Fields, Process!Required, Required
<1>4. \A type, cfg : Process!parseProviderConfig(type, cfg) <=> parseProviderConfig(type, cfg)
  BY <1>3, SameState DEF Process!parseProviderConfig, parseProviderConfig
<1>5. \A type, cfg : Process!ValidProviderConfig(type, cfg) <=> ValidProviderConfig(type, cfg)
  BY <1>2, <1>3 DEF Process!ValidProviderConfig, ValidProviderConfig, Process!MinDuration, MinDuration
<1>6. \A cred : Process!ValidCred(cred) <=> ValidCred(cred)
  BY SameWork DEF Process!ValidCred, ValidCred
<1>7. \A c : Process!UniqueAliases(c) <=> UniqueAliases(c)
  BY <1>1 DEF Process!UniqueAliases, UniqueAliases
<1>8. \A c : Process!UniqueRequests(c) <=> UniqueRequests(c)
  BY SameWork DEF Process!UniqueRequests, UniqueRequests
<1>9. ASSUME NEW c PROVE Process!Valid(c) <=> Valid(c)
  BY <1>1, <1>4, <1>5, <1>6, <1>7, <1>8, SameWork
     DEF Process!Valid, Valid, Process!StoreTypes, StoreTypes
<1> QED  BY <1>9 DEF Process!ValidConfigs, ValidConfigs

\* Their credentials have the same names and places.
LEMMA SameLocations == Process!Locations = Locations
<1>1. \A r : Process!CredentialNames(r) = CredentialNames(r)
  <2>1. \A cfg, f : Process!StringField(cfg, f) = StringField(cfg, f)
    BY DEF Process!StringField, StringField
  <2> QED  BY <2>1 DEF Process!CredentialNames, CredentialNames, Process!RoleNames, RoleNames,
         Process!DeployKeyName, DeployKeyName, Process!AccessTokenName, AccessTokenName,
         Process!ArtifactoryNames, ArtifactoryNames
<1>2. Process!Work = Work
  BY SameWork DEF Process!Work, Work
<1>3. \A c : Process!Names(c) = Names(c)
  BY <1>1, <1>2, SameWork DEF Process!Names, Names
<1>4. Process!Paths = Paths
  BY <1>3, SameValid DEF Process!Paths, Paths, Process!Path, Path
<1> QED  BY <1>4, SameState DEF Process!Locations, Locations

\* Invocations start where those of Sidecred do.
LEMMA InitialStates == Init => Process!Init /\ CallInv
<1> SUFFICES ASSUME Init PROVE Process!Init /\ CallInv
  OBVIOUS
<1>1. /\ call = [p \in Processes |-> NoCall]
      /\ run = [p \in Processes |-> Process!Idle]
      /\ file = NoFile
      /\ held = [l \in Locations |-> Absent]
      /\ options \in Options /\ faults = 0 /\ refusals = 0
  BY DEF Init, StoresInit
<1>2. \A p \in Processes : Free(p) /\ ~Saving(p) /\ call[p].op # <<"write">>
  BY <1>1, FreeIsIdle DEF Free, Saving
<1>3. CallInv
  BY <1>1, <1>2 DEF CallInv, NoFile
<1>4. SavedState = Process!NewState
  BY <1>1, <1>2, FileCounts, SameState DEF NoFile
<1>5. Readable = [l \in Process!Locations |-> Process!Nothing]
  BY <1>1, SameLocations DEF Readable, Absent, Empty, Process!Nothing
<1>6. Enabled(options) \in {Enabled(o) : o \in Options}
  BY <1>1
<1>7. faults + refusals = 0
  BY <1>1
<1> QED  BY <1>1, <1>3, <1>4, <1>5, <1>6, <1>7 DEF Init, Process!Init

\* Every step is one of Sidecred or changes nothing that Sidecred has.
LEMMA StepsOfSidecred ==
    ASSUME OneWriter, CallInv, Process!Inv, [Next]_vars
    PROVE  [Process!Next]_(Process!vars) /\ CallInv'
<1>1. ASSUME NEW p \in Processes, StartRun(p) \/ RejectConfig(p)
      PROVE  Process!Next /\ CallInv'
  BY <1>1, StartSteps
<1>2. ASSUME NEW p \in Processes, Proceed(p)
      PROVE  [Process!Next]_(Process!vars) /\ CallInv'
  <2>1. CASE \/ CreateCall(p)
             \/ \E t \in ProviderTypes : DestroyCall(p, t)
             \/ \E c \in StoreConfigs : \E sec \in run[p].orphans[c] : DeleteCall(p, c, sec)
    BY <2>1, EarlyCalls
  <2>2. CASE CreateCredentials(p) \/ \E t \in ProviderTypes : DestroyResource(p, t)
    BY <2>2, ProviderSteps
  <2>3. CASE WriteCall(p)
    BY <2>3, EarlyWrite
  <2>4. CASE WriteSecret(p) \/ RefuseWrite(p)
    BY <2>4, LastWrite DEF Process!Next, Process!Proceed, Process!Fail
  <2>5. CASE \E c \in StoreConfigs : \E sec \in run[p].orphans[c] : DeleteOrphan(p, c, sec)
    BY <2>5, LastDelete DEF Process!Next, Process!Proceed, Process!Fail
  <2>6. CASE Truncate(p)
    BY <2>6, TruncateStep
  <2>7. CASE Save(p)
    BY <2>7, LastCalls DEF Process!Next, Process!Proceed, Process!Fail
  <2>8. CASE Compute(p)
    BY <2>8, ComputeSteps
  <2> QED  BY <1>2, <2>1, <2>2, <2>3, <2>4, <2>5, <2>6, <2>7, <2>8 DEF Proceed
<1>3. ASSUME NEW p \in Processes, Fail(p)
      PROVE  [Process!Next]_(Process!vars) /\ CallInv'
  <2>1. CASE LoadFails(p)
    BY <2>1, EnvironmentSteps
  <2>2. CASE CreateFails(p) \/ \E t \in ProviderTypes : DestroyFails(p, t)
    BY <2>2, ProviderSteps
  <2>3. CASE WriteFails(p)
    BY <2>3, LastWrite DEF Process!Next, Process!Proceed, Process!Fail
  <2>4. CASE \E c \in StoreConfigs : \E sec \in run[p].orphans[c] : DeleteFails(p, c, sec)
    BY <2>4, LastDelete DEF Process!Next, Process!Proceed, Process!Fail
  <2>5. CASE SaveFails(p) \/ Torn(p) \/ Crash(p)
    BY <2>5, LastCalls DEF Process!Next, Process!Proceed, Process!Fail
  <2> QED  BY <1>3, <2>1, <2>2, <2>3, <2>4, <2>5 DEF Fail
<1>4. CASE \/ Tick \/ EditConfig \/ Redeploy
           \/ \E p \in Processes : Recycle(p)
           \/ \E r \in Repositories : ReplaceKey(r)
           \/ UNCHANGED vars
  BY <1>4, EnvironmentSteps
<1> QED  BY <1>1, <1>2, <1>3, <1>4 DEF Next

(***************************************************************************)
(* For any number of invocations, any config files, stores, flags, and     *)
(* failures or crashes at any call: the calls that providers, stores and   *)
(* backends make for a Create, Destroy, Write, Delete or Save have the     *)
(* effect of the one step that Sidecred makes of it, or of that step       *)
(* failing.  So what is proved of Sidecred holds of the calls.             *)
(***************************************************************************)
THEOREM CallsImplementSidecred ==
    ASSUME OneWriter
    PROVE  Spec => ImplementsSidecred
<1>1. Init => Process!Init /\ CallInv /\ Process!Inv
  BY InitialStates, ProcessAssumptions, Process!InitInv
<1>2. CallInv /\ Process!Inv /\ [Next]_vars
      => [Process!Next]_(Process!vars) /\ CallInv' /\ Process!Inv'
  BY StepsOfSidecred, ProcessAssumptions, Process!NextInv
<1> QED  BY <1>1, <1>2, PTL DEF Spec, Process!Spec, ImplementsSidecred

\* Whatever call fails or is the last before a crash, and however invocations
\* interleave call by call, the state file is free of deposed resources, and has
\* no resource and no secret twice (src/state.go:76-93, 154-167).
THEOREM CallsSaveCleanStates ==
    ASSUME OneWriter
    PROVE  Spec => []SavedStateIsClean
<1>1. Process!Spec => []Process!SavedStateIsClean
  BY ProcessAssumptions, Process!SavedIsClean
<1> QED  BY <1>1, CallsImplementSidecred, PTL DEF ImplementsSidecred, SavedStateIsClean
-----------------------------------------------------------------------------
(* What places, caches and the file hold between the calls.                *)

\* Process p has created the secret at place l and is about to give it a value.
Filling(p, l) ==
    /\ Writing(p) /\ Usable(Target(p)) /\ Place(p) = l
    /\ call[p] = [op |-> <<"write">>, next |-> "UpdateSecret"]

HeldInv == \A l \in DOMAIN held : held[l] \in Absent .. Len(keys)

CacheInv ==
    /\ publicKey \in [Repositories -> Nat]
    /\ cachedKey \in [Processes -> [Repositories -> Nat]]
    /\ \A p \in Processes, r \in Repositories : cachedKey[p][r] <= publicKey[r]

FileInv == file.kind \in Kinds /\ file.state = Persisted(file.state)

\* As long as no call fails, a secret without a value is about to get one.
FillInv ==
    faults = 0 =>
        \A l \in DOMAIN held : held[l] = Empty => \E p \in Processes : Filling(p, l)

PlaceInv == HeldInv /\ CacheInv /\ FileInv /\ FillInv

\* A process caches the key that the repository has, or forgets it.
LEMMA CacheStep == CacheInv /\ [Next]_vars => CacheInv'
<1> SUFFICES ASSUME CacheInv, [Next]_vars PROVE CacheInv'
  OBVIOUS
<1>1. CASE UNCHANGED <<publicKey, cachedKey>>
  BY <1>1 DEF CacheInv
<1>2. ASSUME NEW p \in Processes, cachedKey' = Forgotten(p), publicKey' = publicKey
      PROVE  CacheInv'
  BY <1>2 DEF CacheInv, Forgotten, NoKey
<1>3. ASSUME NEW p \in Processes, NEW store, NEW next,
             cachedKey' = Remember(p, store, next), publicKey' = publicKey
      PROVE  CacheInv'
  <2>1. CASE next = "GetRepoPublicKey" /\ Repository(store) \in Repositories
    <3>1. cachedKey' = [cachedKey EXCEPT ![p][Repository(store)] = publicKey[Repository(store)]]
      BY <1>3, <2>1 DEF Remember
    <3> QED  BY <1>3, <2>1, <3>1 DEF CacheInv
  <2>2. CASE ~(next = "GetRepoPublicKey" /\ Repository(store) \in Repositories)
    <3>1. cachedKey' = cachedKey
      BY <1>3, <2>2 DEF Remember, CacheInv
    <3> QED  BY <1>1, <1>3, <3>1
  <2> QED  BY <2>1, <2>2
<1>4. ASSUME NEW r \in Repositories, ReplaceKey(r)
      PROVE  CacheInv'
  <2>1. publicKey' = [publicKey EXCEPT ![r] = @ + 1] /\ cachedKey' = cachedKey
    BY <1>4 DEF ReplaceKey, ReplacePublicKey
  <2> QED  BY <2>1 DEF CacheInv
<1>5. ASSUME NEW p \in Processes, Proceed(p)
      PROVE  CacheInv'
  <2>1. CASE WriteCall(p)
    BY <1>3, <2>1 DEF WriteCall
  <2>2. CASE Compute(p) \/ CreateCall(p) \/ CreateCredentials(p) \/ WriteSecret(p) \/ RefuseWrite(p)
    BY <1>1, <2>2 DEF Compute, CreateCall, CreateCredentials, WriteSecret, RefuseWrite, storeVars
  <2>3. CASE \E t \in ProviderTypes : DestroyCall(p, t) \/ DestroyResource(p, t)
    BY <1>1, <2>3 DEF DestroyCall, DestroyResource, storeVars
  <2>4. CASE \E c \in StoreConfigs : \E sec \in run[p].orphans[c] :
                DeleteCall(p, c, sec) \/ DeleteOrphan(p, c, sec)
    BY <1>1, <2>4 DEF DeleteCall, DeleteOrphan, storeVars
  <2>5. CASE Truncate(p) \/ Save(p)
    BY <1>1, <2>5 DEF Truncate, Save, storeVars
  <2> QED  BY <1>5, <2>1, <2>2, <2>3, <2>4, <2>5 DEF Proceed
<1>6. ASSUME NEW p \in Processes, Fail(p)
      PROVE  CacheInv'
  <2>1. CASE Torn(p) \/ Crash(p)
    BY <1>2, <2>1 DEF Torn, Crash
  <2>2. CASE LoadFails(p) \/ CreateFails(p) \/ WriteFails(p) \/ SaveFails(p)
    BY <1>1, <2>2 DEF LoadFails, CreateFails, WriteFails, SaveFails, vars, storeVars
  <2>3. CASE \/ \E t \in ProviderTypes : DestroyFails(p, t)
             \/ \E c \in StoreConfigs : \E sec \in run[p].orphans[c] : DeleteFails(p, c, sec)
    BY <1>1, <2>3 DEF DestroyFails, DeleteFails, storeVars
  <2> QED  BY <1>6, <2>1, <2>2, <2>3 DEF Fail
<1>7. CASE \E p \in Processes : StartRun(p) \/ RejectConfig(p) \/ Recycle(p)
  BY <1>1, <1>2, <1>7 DEF StartRun, RejectConfig, Recycle, storeVars
<1>8. CASE Tick \/ EditConfig \/ Redeploy \/ UNCHANGED vars
  BY <1>1, <1>8 DEF Tick, EditConfig, Redeploy, vars, storeVars
<1> QED  BY <1>4, <1>5, <1>6, <1>7, <1>8 DEF Next

\* The file is created or truncated without a state, or holds one that was saved.
LEMMA FileStep ==
    ASSUME FileInv, Process!Inv, [Next]_vars
    PROVE  FileInv'
<1>1. Persisted(NewState) = NewState
  BY ProcessAssumptions, Process!EmptyQuiet, SameState
<1> SUFFICES file'.kind \in Kinds /\ file'.state = Persisted(file'.state)
  BY DEF FileInv, Persisted, Unused
<1>2. ASSUME file' \in {file, EmptyFile, TornFile}
      PROVE  file'.kind \in Kinds /\ file'.state = Persisted(file'.state)
  BY <1>1, <1>2 DEF FileInv, EmptyFile, TornFile, Kinds
<1>3. ASSUME NEW p \in Processes, file' = New(p)
      PROVE  file'.kind \in Kinds /\ file'.state = Persisted(file'.state)
  <2>1. run[p].state \in Process!State
    BY DEF Process!Inv, Process!TypeOK, Process!RunState
  <2>2. Persisted(Persisted(run[p].state)) = Persisted(run[p].state)
    BY <2>1, ProcessAssumptions, Process!PersistedTwice, SameState
  <2> QED  BY <1>3, <2>2 DEF New, FileOf, Kinds
<1>4. ASSUME NEW p \in Processes, Proceed(p)
      PROVE  file'.kind \in Kinds /\ file'.state = Persisted(file'.state)
  <2>1. CASE Truncate(p) \/ Save(p)
    BY <1>2, <1>3, <2>1 DEF Truncate, Save
  <2>2. CASE Compute(p) \/ CreateCall(p) \/ CreateCredentials(p)
             \/ WriteCall(p) \/ WriteSecret(p) \/ RefuseWrite(p)
    BY <1>2, <2>2 DEF Compute, CreateCall, CreateCredentials, WriteCall, WriteSecret, RefuseWrite
  <2>3. CASE \E t \in ProviderTypes : DestroyCall(p, t) \/ DestroyResource(p, t)
    BY <1>2, <2>3 DEF DestroyCall, DestroyResource
  <2>4. CASE \E c \in StoreConfigs : \E sec \in run[p].orphans[c] :
                DeleteCall(p, c, sec) \/ DeleteOrphan(p, c, sec)
    BY <1>2, <2>4 DEF DeleteCall, DeleteOrphan
  <2> QED  BY <1>4, <2>1, <2>2, <2>3, <2>4 DEF Proceed
<1>5. ASSUME NEW p \in Processes, Fail(p)
      PROVE  file'.kind \in Kinds /\ file'.state = Persisted(file'.state)
  <2>1. CASE SaveFails(p)
    BY <1>2, <1>3, <2>1 DEF SaveFails
  <2>2. CASE LoadFails(p) \/ CreateFails(p) \/ WriteFails(p) \/ Torn(p) \/ Crash(p)
    BY <1>2, <2>2 DEF LoadFails, CreateFails, WriteFails, Torn, Crash, vars
  <2>3. CASE \/ \E t \in ProviderTypes : DestroyFails(p, t)
             \/ \E c \in StoreConfigs : \E sec \in run[p].orphans[c] : DeleteFails(p, c, sec)
    BY <1>2, <2>3 DEF DestroyFails, DeleteFails
  <2> QED  BY <1>5, <2>1, <2>2, <2>3 DEF Fail
<1>6. CASE \E p \in Processes : StartRun(p) \/ RejectConfig(p) \/ Recycle(p)
  BY <1>2, <1>6 DEF StartRun, RejectConfig, Recycle, Touched
<1>7. CASE Tick \/ EditConfig \/ Redeploy \/ (\E r \in Repositories : ReplaceKey(r)) \/ UNCHANGED vars
  BY <1>2, <1>7 DEF Tick, EditConfig, Redeploy, ReplaceKey, vars
<1> QED  BY <1>4, <1>5, <1>6, <1>7 DEF Next

\* What a Write puts at its place is a credential that was issued.
LEMMA CreatedIsIssued ==
    ASSUME Process!KeyInv, NEW p \in Processes, Writing(p)
    PROVE  Process!Created(run[p]).key \in 1 .. Len(keys)
<1> DEFINE t  == Process!Provider(Process!Item(run[p]).request.type)
           rs == run[p].state.resources[t]
<1>1. run[p] \in Process!RunState /\ Process!RunInv(run[p]) /\ run[p].pc = "write"
  BY ProcessAssumptions, Process!Given DEF Writing, Process!KeyInv
<1>2. /\ run[p].config \in Process!ValidConfigs
      /\ run[p].item <= Len(Process!Work[run[p].config])
      /\ Len(rs) > 0
  BY <1>1 DEF Process!RunInv, Process!WriteInv
<1>3. t \in Process!ProviderTypes
  BY <1>1, <1>2, ProcessAssumptions, Process!ItemProperties
<1>4. rs \in Seq(Process!Resource)
  BY <1>1, <1>3 DEF Process!RunState, Process!State
<1>5. Len(rs) \in 1 .. Len(rs)
  BY <1>2, <1>4, LenProperties
<1>6. Process!Known(run[p].state, keys)
  BY <1>1 DEF Process!KeyInv, Process!Active
<1>7. rs[Len(rs)].key \in 1 .. Len(keys)
  BY <1>3, <1>5, <1>6 DEF Process!Known
<1> QED  BY <1>7 DEF Process!Created

\* Serial numbers are not taken back.
LEMMA IssuedStay ==
    ASSUME Process!KeyInv, [Process!Next]_(Process!vars)
    PROVE  Len(keys) \in Nat /\ Len(keys') \in Nat /\ Len(keys) <= Len(keys')
<1>1. Process!Inv
  BY DEF Process!KeyInv
<1>2. CASE \E p \in Processes : Process!StepOf(p)
  BY <1>2, ProcessAssumptions, Process!KeysGrow DEF Process!Grown
<1>3. CASE keys' = keys
  BY <1>1, <1>3, LenProperties DEF Process!Inv, Process!TypeOK
<1> QED  BY <1>1, <1>2, <1>3, ProcessAssumptions, Process!StepKinds

\* Only the calls of Write and Delete change what a place holds.
LEMMA HeldChanges ==
    ASSUME [Next]_vars
    PROVE  \/ held' = held
           \/ \E p \in Processes : Writing(p) /\ held' = AfterNext(p)
           \/ \E place : held' = AfterDelete(place)
<1>1. ASSUME NEW p \in Processes, Proceed(p)
      PROVE  \/ held' = held
             \/ Writing(p) /\ held' = AfterNext(p)
             \/ \E place : held' = AfterDelete(place)
  <2>1. CASE Compute(p) \/ CreateCall(p) \/ CreateCredentials(p) \/ Truncate(p) \/ Save(p)
    BY <2>1 DEF Compute, CreateCall, CreateCredentials, Truncate, Save, storeVars
  <2>2. CASE WriteCall(p) \/ WriteSecret(p) \/ RefuseWrite(p)
    BY <2>2 DEF WriteCall, WriteSecret, RefuseWrite, storeVars
  <2>3. CASE \E t \in ProviderTypes : DestroyCall(p, t) \/ DestroyResource(p, t)
    BY <2>3 DEF DestroyCall, DestroyResource, storeVars
  <2>4. CASE \E c \in StoreConfigs : \E sec \in run[p].orphans[c] :
                DeleteCall(p, c, sec) \/ DeleteOrphan(p, c, sec)
    BY <2>4 DEF DeleteCall, DeleteOrphan, storeVars
  <2> QED  BY <1>1, <2>1, <2>2, <2>3, <2>4 DEF Proceed
<1>2. ASSUME NEW p \in Processes, Fail(p)
      PROVE  held' = held \/ (Writing(p) /\ held' = AfterNext(p))
  <2>1. CASE LoadFails(p) \/ CreateFails(p) \/ WriteFails(p) \/ SaveFails(p) \/ Torn(p) \/ Crash(p)
    BY <2>1 DEF LoadFails, CreateFails, WriteFails, SaveFails, Torn, Crash, vars, storeVars
  <2>2. CASE \/ \E t \in ProviderTypes : DestroyFails(p, t)
             \/ \E c \in StoreConfigs : \E sec \in run[p].orphans[c] : DeleteFails(p, c, sec)
    BY <2>2 DEF DestroyFails, DeleteFails, storeVars
  <2> QED  BY <1>2, <2>1, <2>2 DEF Fail
<1>3. CASE \E p \in Processes : StartRun(p) \/ RejectConfig(p) \/ Recycle(p)
  BY <1>3 DEF StartRun, RejectConfig, Recycle, storeVars
<1>4. CASE Tick \/ EditConfig \/ Redeploy \/ (\E r \in Repositories : ReplaceKey(r)) \/ UNCHANGED vars
  BY <1>4 DEF Tick, EditConfig, Redeploy, ReplaceKey, ReplacePublicKey, vars, storeVars
<1> QED  BY <1>1, <1>2, <1>3, <1>4 DEF Next

\* Whatever a call leaves at a place has been issued.
LEMMA HeldStep ==
    ASSUME HeldInv, Process!KeyInv, [Next]_vars, [Process!Next]_(Process!vars)
    PROVE  HeldInv'
<1>1. Len(keys) \in Nat /\ Len(keys') \in Nat /\ Len(keys) <= Len(keys')
  BY IssuedStay
<1>2. CASE held' = held
  BY <1>1, <1>2 DEF HeldInv, Absent
<1>3. ASSUME NEW p \in Processes, Writing(p), held' = AfterNext(p)
      PROVE  HeldInv'
  <2>1. Process!Created(run[p]).key \in 1 .. Len(keys)
    BY <1>3, CreatedIsIssued
  <2>2. \/ held' = held
        \/ held' = [held EXCEPT ![Place(p)] = Process!Created(run[p]).key]
        \/ held' = [held EXCEPT ![Place(p)] = IF @ = Absent THEN Empty ELSE @]
    BY <1>3 DEF AfterNext, AfterWriteCall, AfterCreate, LastWriteCalls
  <2> QED  BY <1>1, <2>1, <2>2 DEF HeldInv, Absent, Empty
<1>4. ASSUME NEW place, held' = AfterDelete(place)
      PROVE  HeldInv'
  BY <1>1, <1>4 DEF HeldInv, AfterDelete, Absent
<1> QED  BY <1>2, <1>3, <1>4, HeldChanges

\* FillInv is kept by a step of p that neither empties a place nor drops a secret
\* that p has created.
LEMMA FillStep ==
    ASSUME FillInv, NEW p \in Processes, Alone(p), faults' = 0 => faults = 0,
           DOMAIN held' = DOMAIN held,
           \A l \in DOMAIN held :
               held'[l] = Empty => Filling(p, l)' \/ (held[l] = Empty /\ ~Filling(p, l))
    PROVE  FillInv'
<1> SUFFICES ASSUME faults' = 0, NEW l \in DOMAIN held, held'[l] = Empty
             PROVE  \E q \in Processes : Filling(q, l)'
  BY DEF FillInv
<1>1. CASE Filling(p, l)'
  BY <1>1
<1>2. CASE held[l] = Empty /\ ~Filling(p, l)
  <2>1. PICK q \in Processes : Filling(q, l)
    BY <1>2 DEF FillInv
  <2>2. run'[q] = run[q] /\ call'[q] = call[q]
    BY <1>2, <2>1 DEF Alone
  <2>3. Filling(q, l)'
    BY <2>1, <2>2 DEF Filling, Writing, Target, Place
  <2> QED  BY <2>3
<1> QED  BY <1>1, <1>2

\* In particular by a step that is not of a Write.
LEMMA NoWriteStep ==
    ASSUME FillInv, NEW p \in Processes, Alone(p), faults' = 0 => faults = 0, ~Writing(p),
           held' = held \/ \E place : held' = AfterDelete(place)
    PROVE  FillInv'
<1>1. DOMAIN held' = DOMAIN held
  BY DEF AfterDelete
<1>2. \A l \in DOMAIN held : held'[l] = Empty => held[l] = Empty /\ ~Filling(p, l)
  BY DEF AfterDelete, Absent, Empty, Filling
<1> QED  BY <1>1, <1>2, FillStep

\* A Write that goes on has created its secret, or leaves the places alone.
LEMMA FillWriteCall ==
    ASSUME FillInv, CallInv, NEW p \in Processes, Alone(p), WriteCall(p)
    PROVE  FillInv'
<1> DEFINE next == NextWriteCall(p, Target(p), WriteNext(p))
<1>1. /\ Writing(p) /\ Usable(Target(p)) /\ WriteNext(p) \notin LastWriteCalls
      /\ held' = AfterNext(p) /\ run' = run /\ faults' = faults
      /\ call' = [call EXCEPT ![p] = [op |-> <<"write">>, next |-> next]]
  BY DEF WriteCall, Accepted, GoOn, failures
<1>2. \A l : ~Filling(p, l)
  BY <1>1 DEF Filling, WriteNext, Upcoming, LastWriteCalls
<1>3. CASE WriteNext(p) = "CreateSecret"
  <2>1. held' = [held EXCEPT ![Place(p)] = IF @ = Absent THEN Empty ELSE @]
    BY <1>1, <1>3 DEF AfterNext, AfterWriteCall, AfterCreate, LastWriteCalls
  <2>2. call'[p] = [op |-> <<"write">>, next |-> "UpdateSecret"]
    BY <1>1, <1>3 DEF CallInv, NextWriteCall
  <2>3. ASSUME NEW l, l = Place(p)
        PROVE  Filling(p, l)'
    BY <1>1, <2>2, <2>3 DEF Filling, Writing, Target, Place
  <2>4. \A l \in DOMAIN held : held'[l] = Empty => l = Place(p) \/ held[l] = Empty
    BY <2>1
  <2>5. ASSUME NEW l \in DOMAIN held, held'[l] = Empty
        PROVE  Filling(p, l)' \/ (held[l] = Empty /\ ~Filling(p, l))
    BY <1>2, <2>3, <2>4, <2>5
  <2> QED  BY <1>1, <2>1, <2>5, FillStep
<1>4. CASE WriteNext(p) # "CreateSecret"
  <2>1. held' = held
    BY <1>1, <1>4 DEF AfterNext, AfterWriteCall
  <2> QED  BY <1>1, <1>2, <2>1, FillStep
<1> QED  BY <1>3, <1>4

\* A Write that ends has given its secret a value, or finds none that it created.
LEMMA FillWriteEnds ==
    ASSUME FillInv, CallInv, Process!KeyInv, NEW p \in Processes, Alone(p),
           WriteSecret(p) \/ RefuseWrite(p)
    PROVE  FillInv'
<1>1. faults' = faults
  BY DEF WriteSecret, RefuseWrite, failures
<1>2. CASE WriteSecret(p)
  <2>1. Writing(p) /\ WriteNext(p) \in LastWriteCalls /\ held' = AfterNext(p)
    BY <1>2 DEF WriteSecret
  <2>2. held' = [held EXCEPT ![Place(p)] = Process!Created(run[p]).key]
    BY <2>1 DEF AfterNext, AfterWriteCall, LastWriteCalls
  <2>3. Process!Created(run[p]).key # Empty
    BY <2>1, CreatedIsIssued DEF Empty
  <2>4. \A l \in DOMAIN held : held'[l] = Empty => held[l] = Empty /\ ~Filling(p, l)
    BY <2>2, <2>3 DEF Filling
  <2> QED  BY <1>1, <2>2, <2>4, FillStep
<1>3. CASE RefuseWrite(p)
  <2>1. ~Accepted(p) /\ held' = held
    BY <1>3 DEF RefuseWrite, storeVars
  <2>2. ASSUME NEW l \in DOMAIN held, held[l] = Empty, Filling(p, l)
        PROVE  FALSE
    <3>1. WriteNext(p) = "UpdateSecret" /\ Usable(Target(p)) /\ Place(p) = l
      BY <2>2 DEF Filling, WriteNext, Upcoming
    <3> QED  BY <2>1, <2>2, <3>1 DEF Accepted, Refuses, Absent, Empty
  <2> QED  BY <1>1, <2>1, <2>2, FillStep
<1> QED  BY <1>2, <1>3

\* As long as no call fails, FillInv is kept by every step.
LEMMA FillInvStep ==
    ASSUME OneWriter, FillInv, CallInv, Process!KeyInv, [Next]_vars
    PROVE  FillInv'
<1>1. Process!Inv /\ faults \in Nat
  BY DEF Process!KeyInv, CallInv
<1>2. ASSUME faults' = faults + 1
      PROVE  FillInv'
  BY <1>1, <1>2 DEF FillInv
<1>3. ASSUME UNCHANGED <<run, call, held, faults>>
      PROVE  FillInv'
  <2> SUFFICES ASSUME faults' = 0, NEW l \in DOMAIN held, held'[l] = Empty
               PROVE  \E q \in Processes : Filling(q, l)'
    BY <1>3 DEF FillInv
  <2>1. PICK q \in Processes : Filling(q, l)
    BY <1>3 DEF FillInv
  <2>2. Filling(q, l)'
    BY <1>3, <2>1 DEF Filling, Writing, Target, Place
  <2> QED  BY <2>2
<1>4. ASSUME NEW p \in Processes, StartRun(p) \/ RejectConfig(p)
      PROVE  FillInv'
  <2>1. Alone(p)
    BY <1>1, <1>4, StartSteps
  <2>2. run[p].pc = "idle" /\ held' = held /\ faults' = faults
    BY <1>4 DEF StartRun, RejectConfig, Process!StartRun, Process!RejectConfig, failures, storeVars
  <2> QED  BY <2>1, <2>2, NoWriteStep DEF Writing
<1>5. ASSUME NEW p \in Processes, Proceed(p)
      PROVE  FillInv'
  <2>1. CASE Compute(p)
    <3>1. Alone(p)
      BY <1>1, <2>1, ComputeSteps
    <3>2. held' = held /\ faults' = faults
      BY <2>1 DEF Compute, failures, storeVars
    <3>3. run[p].pc # "write"
      BY <2>1 DEF Compute, Process!SkipRequest, Process!KeepCredentials, Process!Satisfied,
           Process!HasItem, Process!FinishRequests, Process!FinishResources, Process!FinishOrphans,
           Process!KeepResource, Process!Visiting, Process!KeepOrphan, Process!HasOrphan
    <3> QED  BY <3>1, <3>2, <3>3, NoWriteStep DEF Writing
  <2>2. CASE CreateCredentials(p) \/ \E t \in ProviderTypes : DestroyResource(p, t)
    <3>1. Alone(p)
      BY <1>1, <2>2, ProviderSteps
    <3>2. held' = held /\ faults' = faults /\ run[p].pc # "write"
      BY <2>2 DEF CreateCredentials, DestroyResource, ToDestroy, Process!NeedsCredentials,
                  Process!HasItem, Process!Visiting, failures, storeVars
    <3> QED  BY <3>1, <3>2, NoWriteStep DEF Writing
  <2>3. CASE \/ CreateCall(p)
             \/ \E t \in ProviderTypes : DestroyCall(p, t)
             \/ \E c \in StoreConfigs : \E sec \in run[p].orphans[c] : DeleteCall(p, c, sec)
    <3>1. Alone(p)
      BY <1>1, <2>3, EarlyCalls
    <3>2. held' = held /\ faults' = faults /\ run[p].pc # "write"
      BY <2>3 DEF CreateCall, DestroyCall, DeleteCall, ToDestroy, ToDelete, Process!NeedsCredentials,
                  Process!HasItem, Process!Visiting, Process!HasOrphan, failures, storeVars
    <3> QED  BY <3>1, <3>2, NoWriteStep DEF Writing
  <2>4. CASE WriteCall(p)
    BY <1>1, <2>4, EarlyWrite, FillWriteCall
  <2>5. CASE WriteSecret(p) \/ RefuseWrite(p)
    BY <1>1, <2>5, LastWrite, FillWriteEnds
  <2>6. ASSUME NEW c \in StoreConfigs, NEW sec \in run[p].orphans[c], DeleteOrphan(p, c, sec)
        PROVE  FillInv'
    <3>1. Alone(p)
      BY <1>1, <2>6, LastDelete
    <3>2. /\ faults' = faults /\ run[p].pc # "write"
          /\ \E place : held' = AfterDelete(place)
      BY <2>6 DEF DeleteOrphan, ToDelete, Process!HasOrphan, failures
    <3> QED  BY <3>1, <3>2, NoWriteStep DEF Writing
  <2>7. CASE Truncate(p)
    <3>1. Alone(p)
      BY <1>1, <2>7, TruncateStep
    <3>2. held' = held /\ faults' = faults /\ run[p].pc # "write"
      BY <2>7 DEF Truncate, failures, storeVars
    <3> QED  BY <3>1, <3>2, NoWriteStep DEF Writing
  <2>8. CASE Save(p)
    <3>1. Alone(p)
      BY <1>1, <2>8, LastCalls
    <3>2. held' = held /\ faults' = faults /\ run[p].pc # "write"
      BY <2>8 DEF Save, failures, storeVars
    <3> QED  BY <3>1, <3>2, NoWriteStep DEF Writing
  <2> QED  BY <1>5, <2>1, <2>2, <2>3, <2>4, <2>5, <2>6, <2>7, <2>8 DEF Proceed
<1>6. ASSUME NEW p \in Processes, Fail(p)
      PROVE  FillInv'
  <2>1. CASE LoadFails(p)
    BY <1>3, <2>1 DEF LoadFails, vars, storeVars
  <2>2. CASE CreateFails(p) \/ WriteFails(p) \/ SaveFails(p) \/ Torn(p) \/ Crash(p)
    BY <1>2, <2>2 DEF CreateFails, WriteFails, SaveFails, Torn, Crash, Fault
  <2>3. CASE \/ \E t \in ProviderTypes : DestroyFails(p, t)
             \/ \E c \in StoreConfigs : \E sec \in run[p].orphans[c] : DeleteFails(p, c, sec)
    BY <1>2, <2>3 DEF DestroyFails, DeleteFails, Fault
  <2> QED  BY <1>6, <2>1, <2>2, <2>3 DEF Fail
<1>7. CASE Tick \/ EditConfig
  <2>1. Process!Tick \/ Process!EditConfig
    BY <1>7 DEF Tick, EditConfig
  <2> QED  BY <1>3, <1>7, <2>1 DEF Tick, EditConfig, failures, storeVars, Process!Tick, Process!EditConfig
<1>8. CASE \/ Redeploy \/ UNCHANGED vars \/ \E p \in Processes : Recycle(p)
           \/ \E r \in Repositories : ReplaceKey(r)
  BY <1>3, <1>8 DEF Redeploy, Recycle, ReplaceKey, ReplacePublicKey, failures, vars, storeVars
<1> QED  BY <1>4, <1>5, <1>6, <1>7, <1>8 DEF Next

-----------------------------------------------------------------------------
(* What follows.                                                           *)

\* All that is needed is inductive.
LEMMA PlaceInvariance ==
    ASSUME OneWriter
    PROVE  Spec => [](CallInv /\ Process!KeyInv /\ PlaceInv)
<1>1. Init => CallInv /\ Process!KeyInv /\ PlaceInv
  <2> SUFFICES ASSUME Init PROVE CallInv /\ Process!KeyInv /\ PlaceInv
    OBVIOUS
  <2>1. Process!Init /\ CallInv
    BY InitialStates
  <2>2. Process!KeyInv
    BY <2>1, ProcessAssumptions, Process!KeyInvInit
  <2>3. /\ keys = << >> /\ file = NoFile /\ StoresInit(Locations)
    BY DEF Init
  <2>4. HeldInv /\ FillInv
    BY <2>3, EmptySeq DEF HeldInv, FillInv, StoresInit, Absent, Empty
  <2>5. CacheInv
    BY <2>3 DEF CacheInv, StoresInit, NoKey
  <2>6. Persisted(NewState) = NewState
    BY ProcessAssumptions, Process!EmptyQuiet, SameState
  <2>7. FileInv
    BY <2>3, <2>6 DEF FileInv, NoFile, Kinds
  <2> QED  BY <2>1, <2>2, <2>4, <2>5, <2>7 DEF PlaceInv
<1>2. CallInv /\ Process!KeyInv /\ PlaceInv /\ [Next]_vars => (CallInv /\ Process!KeyInv /\ PlaceInv)'
  <2> SUFFICES ASSUME CallInv, Process!KeyInv, PlaceInv, [Next]_vars
               PROVE  CallInv' /\ Process!KeyInv' /\ PlaceInv'
    OBVIOUS
  <2>1. Process!Inv
    BY DEF Process!KeyInv
  <2>2. [Process!Next]_(Process!vars) /\ CallInv'
    BY <2>1, StepsOfSidecred
  <2>3. Process!KeyInv'
    BY <2>2, ProcessAssumptions, Process!KeyInvNext
  <2>4. HeldInv' /\ CacheInv' /\ FileInv' /\ FillInv'
    BY <2>1, <2>2, HeldStep, CacheStep, FileStep, FillInvStep DEF PlaceInv
  <2> QED  BY <2>2, <2>3, <2>4 DEF PlaceInv
<1> QED  BY <1>1, <1>2, PTL DEF Spec

(***************************************************************************)
(* Type correctness call by call: a place of a store holds nothing but     *)
(* what a provider has issued, a process caches only keys that the         *)
(* repository had (src/store/github/github.go:116-123), and the state file *)
(* has no marks of a run (src/state.go:70).                                *)
(***************************************************************************)
THEOREM CallsTypeCorrect ==
    ASSUME OneWriter
    PROVE  Spec => []TypeOK
<1>1. CallInv /\ PlaceInv => TypeOK
  <2> SUFFICES ASSUME CallInv, PlaceInv PROVE TypeOK
    OBVIOUS
  <2>1. \A p \in Processes, r \in Repositories : cachedKey[p][r] \in NoKey .. publicKey[r]
    BY DEF PlaceInv, CacheInv, NoKey
  <2> QED  BY <2>1 DEF CallInv, PlaceInv, HeldInv, FileInv, TypeOK
<1> QED  BY <1>1, PlaceInvariance, PTL

(***************************************************************************)
(* For any number of overlapping invocations: as long as no call fails, a  *)
(* secret that CreateSecret has left without a value is one that an        *)
(* invocation is about to update, so that none is without a value when all *)
(* have ended (src/store/secretsmanager/secretsmanager.go:73-90).          *)
(***************************************************************************)
THEOREM SecretsHaveValues ==
    ASSUME OneWriter
    PROVE  Spec => []NoHollowSecrets
<1>1. PlaceInv => NoHollowSecrets
  BY DEF PlaceInv, FillInv, Filling, Writing, NoHollowSecrets, Process!Quiet
<1> QED  BY <1>1, PlaceInvariance, PTL

=============================================================================
