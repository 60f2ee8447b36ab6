--------------------------- MODULE ConfigValidation ---------------------------
(***************************************************************************)
(* Reading a config file: Parse and the nested loops of v1.Validate        *)
(* (src/config/config.go), one action per check that can end them.  Config *)
(* says with Valid what the loops are expected to compute; Sidecred relies *)
(* on it.                                                                  *)
(*                                                                         *)
(* A document is [version, strict, file]: whether the strict decoding of   *)
(* version 1 accepts it, and the config it then holds.                     *)
(***************************************************************************)
EXTENDS Config

CONSTANT Documents   \* the documents that may be read

Versions == {0, 1, 2}   \* 0: the document has no version

VARIABLES
    doc,
    at,         \* the check that is next, and the loop variables
    stores,     \* aliases of the stores seen so far
    requests,   \* [store, name] of the requests seen so far
    outcome     \* "" until Validate returns or panics

vars == <<doc, at, stores, requests, outcome>>

Outcomes == {"", "valid", "rejected", "panic"}

At(check, i, ii, entry) == [check |-> check, i |-> i, ii |-> ii, entry |-> entry]

Init ==
    /\ doc \in Documents
    /\ at = At("parse", 1, 1, 1)
    /\ stores = {}
    /\ requests = {}
    /\ outcome = ""

On(check) == outcome = "" /\ at.check = check

Continue(next) == at' = next /\ outcome' = outcome
End(result)    == at' = at /\ outcome' = result

\* Continue when a check holds, and return its error when it does not.
Check(holds, next) == IF holds THEN Continue(next) ELSE End("rejected")

c == doc.file

Request == c.requests[at.i]
Creds   == Request.creds
Entries == Flatten(Creds[at.ii])

\* The embedded request of a cred is allocated by the first of its fields.
Allocated(cred) ==
    \/ cred.type # "" \/ cred.name # ""
    \/ cred.cfg # NoConfig \/ cred.window # NoWindow

-----------------------------------------------------------------------------
Parse ==
    /\ On("parse")
    /\ Check(doc.version = 1 /\ doc.strict, At("header", 1, 1, 1))
    /\ UNCHANGED <<doc, stores, requests>>

CheckHeader ==
    /\ On("header")
    /\ Check(c.namespace # "" /\ c.stores # << >>, At("stores", 1, 1, 1))
    /\ UNCHANGED <<doc, stores, requests>>

CheckStore ==
    LET s == c.stores[at.i] IN
    /\ On("stores")
    /\ at.i <= Len(c.stores)
    /\ Check(s.type \in StoreTypes /\ Alias(s) \notin stores, At("stores", at.i + 1, 1, 1))
    /\ stores' = IF outcome' = "" THEN stores \cup {Alias(s)} ELSE stores
    /\ UNCHANGED <<doc, requests>>

FinishStores ==
    /\ On("stores")
    /\ at.i > Len(c.stores)
    /\ Continue(At("requests", 1, 1, 1))
    /\ UNCHANGED <<doc, stores, requests>>

CheckRequest ==
    /\ On("requests")
    /\ at.i <= Len(c.requests)
    /\ Check(Request.store \in stores, At("creds", at.i, 1, 1))
    /\ UNCHANGED <<doc, stores, requests>>

\* A cred none of whose own fields is there makes the pointer to it nil.
CheckCred ==
    /\ On("creds")
    /\ at.ii <= Len(Creds)
    /\ IF Allocated(Creds[at.ii])
       THEN Check(ValidCred(Creds[at.ii]), At("entries", at.i, at.ii, 1))
       ELSE End("panic")
    /\ UNCHANGED <<doc, stores, requests>>

\* Faulty variant: the key of a request is its name alone.
RequestKey_NameOnly(r) == [store |-> "", name |-> r.name]

RequestKey(r) == [store |-> Request.store, name |-> r.name]

CheckEntry ==
    LET r == Entries[at.entry] IN
    /\ On("entries")
    /\ at.entry <= Len(Entries)
    /\ Check(/\ parseProviderConfig(r.type, r.cfg)
             /\ ValidProviderConfig(r.type, r.cfg)
             /\ RequestKey(r) \notin requests,
             At("entries", at.i, at.ii, at.entry + 1))
    /\ requests' = IF outcome' = "" THEN requests \cup {RequestKey(r)} ELSE requests
    /\ UNCHANGED <<doc, stores>>

FinishEntries ==
    /\ On("entries")
    /\ at.entry > Len(Entries)
    /\ Continue(At("creds", at.i, at.ii + 1, 1))
    /\ UNCHANGED <<doc, stores, requests>>

FinishCreds ==
    /\ On("creds")
    /\ at.ii > Len(Creds)
    /\ Continue(At("requests", at.i + 1, 1, 1))
    /\ UNCHANGED <<doc, stores, requests>>

Accept ==
    /\ On("requests")
    /\ at.i > Len(c.requests)
    /\ End("valid")
    /\ UNCHANGED <<doc, stores, requests>>

Next ==
    \/ Parse \/ CheckHeader \/ CheckStore \/ FinishStores
    \/ CheckRequest \/ CheckCred \/ CheckEntry \/ FinishEntries \/ FinishCreds
    \/ Accept

Spec == Init /\ [][Next]_vars

-----------------------------------------------------------------------------
(***************************************************************************)
(* The loops accept exactly the documents that Valid describes: the one    *)
(* pass over stores and requests with its two maps finds every unknown     *)
(* store, every unusable config and every pair of requests that share a    *)
(* store and a name, in whatever lists they are, and refuses nothing else  *)
(* (src/config/config.go:70-119).                                          *)
(***************************************************************************)
AgreesWithValid ==
    outcome # "" =>
        (outcome = "valid" <=> doc.version = 1 /\ doc.strict /\ Valid(doc.file))
=============================================================================
