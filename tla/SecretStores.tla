----------------------------- MODULE SecretStores -----------------------------
(***************************************************************************)
(* The secret stores that outlive the process (src/store), call by call:   *)
(*                                                                         *)
(*   AWS Secrets Manager   CreateSecret, tolerating that it exists, then   *)
(*                         UpdateSecret; DeleteSecret                      *)
(*   SSM Parameter Store   PutParameter; DeleteParameter                   *)
(*   Github, Dependabot    an installation token, the public key of the    *)
(*                         repository unless it is cached, the encrypted   *)
(*                         secret; a token, DeleteRepoSecret               *)
(*                                                                         *)
(* A place holds the serial number of a credential, or is empty (a secret  *)
(* of Secrets Manager before its first update), or is absent.              *)
(***************************************************************************)
EXTENDS Config

CONSTANTS
    Processes,    \* the processes that write to the stores
    MaxKeyChanges \* bound on the times a repository gets a new public key

\* What the inprocess store holds ends with the process.
ASSUME StoresAssumption == \A c \in StoreConfigs : c.type # "inprocess"

VARIABLES
    held,       \* what each place of the stores holds
    publicKey,  \* the current public key of each repository
    cachedKey   \* the key each process keeps of each repository

storeVars == <<held, publicKey, cachedKey>>

Absent == -1
Empty  == 0
NoKey  == 0

\* Read: neither an absent nor an empty secret has a value.
Readable == [l \in DOMAIN held |-> IF held[l] = Absent THEN Empty ELSE held[l]]

GithubStores == {"github", "github:dependabot"}

StoreFields(type) ==
    {"secret_template"} \cup (IF type \in GithubStores THEN {"repository"} ELSE {})

\* parseConfig accepts the configuration of a store; no Validate calls it.
Usable(store) ==
    /\ DOMAIN store.cfg \subseteq StoreFields(store.type)
    /\ store.type \in GithubStores => StringField(store.cfg, "repository") # ""

\* The two Github stores have their own keys.
Repository(store) == <<store.type, store.cfg.repository>>

Repositories ==
    {Repository(s) : s \in {t \in StoreConfigs : t.type \in GithubStores /\ Usable(t)}}

StoresInit(places) ==
    /\ held = [l \in places |-> Absent]
    /\ publicKey = [r \in Repositories |-> 1]
    /\ cachedKey = [p \in Processes |-> [r \in Repositories |-> NoKey]]

-----------------------------------------------------------------------------
(* The calls of a Write.  After the call next, NextWriteCall comes; the    *)
(* last one has none after it.                                             *)

FirstWriteCall(store) ==
    CASE store.type = "secretsmanager" -> "CreateSecret"
      [] store.type = "ssm" -> "PutParameter"
      [] store.type \in GithubStores -> "CreateInstallationToken"

NeedsPublicKey(p, store) == cachedKey[p][Repository(store)] = NoKey

LastWriteCalls == {"UpdateSecret", "PutParameter", "CreateOrUpdateRepoSecret"}

NextWriteCall(p, store, next) ==
    CASE next = "CreateSecret" -> "UpdateSecret"
      [] next = "CreateInstallationToken" ->
            IF NeedsPublicKey(p, store) THEN "GetRepoPublicKey" ELSE "CreateOrUpdateRepoSecret"
      [] next = "GetRepoPublicKey" -> "CreateOrUpdateRepoSecret"

\* Faulty variant: a secret that exists is emptied before it is updated.
AfterCreate_Replacing(place) == [held EXCEPT ![place] = Empty]

\* A secret that exists is left as it is.
AfterCreate(place) == [held EXCEPT ![place] = IF @ = Absent THEN Empty ELSE @]

\* What the call next of a Write leaves at the place it writes to.
AfterWriteCall(next, place, value) ==
    CASE next = "CreateSecret" -> AfterCreate(place)
      [] next \in LastWriteCalls -> [held EXCEPT ![place] = value]
      [] OTHER -> held

\* The service itself refuses: the secret was deleted after CreateSecret, or
\* the value is encrypted with a public key that the repository had before.
Refuses(p, store, next, place) ==
    \/ next = "UpdateSecret" /\ held[place] = Absent
    \/ next = "CreateOrUpdateRepoSecret" /\ cachedKey[p][Repository(store)] # publicKey[Repository(store)]

\* The public key is cached for the life of the process.
Remember(p, store, next) ==
    IF next = "GetRepoPublicKey"
    THEN [cachedKey EXCEPT ![p][Repository(store)] = publicKey[Repository(store)]]
    ELSE cachedKey

-----------------------------------------------------------------------------
(* The calls of a Delete.                                                  *)

\* Faulty variant: the secret loses its value and stays.
AfterDelete_Emptied(place) == [held EXCEPT ![place] = IF @ = Absent THEN Absent ELSE Empty]

\* A secret that is not there is no error.
AfterDelete(place) == [held EXCEPT ![place] = Absent]

-----------------------------------------------------------------------------
\* The process ends, or a lambda is recycled.
Forgotten(p) == [cachedKey EXCEPT ![p] = [r \in Repositories |-> NoKey]]

\* Github replaces the key, or the repository is created again.
ReplacePublicKey(r) ==
    /\ publicKey[r] <= MaxKeyChanges
    /\ publicKey' = [publicKey EXCEPT ![r] = @ + 1]
    /\ UNCHANGED <<held, cachedKey>>
=============================================================================
