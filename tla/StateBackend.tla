----------------------------- MODULE StateBackend -----------------------------
(***************************************************************************)
(* The backends of the state (src/backend): an object in S3, written by    *)
(* one call, and a local file, created when it is missing, truncated and   *)
(* then written (os.WriteFile).                                            *)
(***************************************************************************)
EXTENDS State

VARIABLE file   \* the state file or object

\* A partial file does not parse.
NoFile    == [kind |-> "none",    state |-> NewState]
EmptyFile == [kind |-> "empty",   state |-> NewState]
TornFile  == [kind |-> "partial", state |-> NewState]

FileOf(s) == [kind |-> "state", state |-> s]

Kinds == {"none", "empty", "partial", "state"}

\* Load takes a missing object and an empty file for the state without resources.
Loadable(f) == f.kind # "partial"

Loaded(f) == f.state

\* createFileIfNotExists, which Load of the file backend calls.
Touched(backend, f) == IF backend = "file" /\ f.kind = "none" THEN EmptyFile ELSE f
=============================================================================
