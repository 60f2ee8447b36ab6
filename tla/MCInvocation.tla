----------------------------- MODULE MCInvocation -----------------------------
(***************************************************************************)
(* Flags, faults and lifetimes for the runs of Invocation.                 *)
(***************************************************************************)
EXTENDS Invocation, MCConfigs

WithFile == [flags |-> Flags, backend |-> "file"]
WithS3   == [flags |-> Flags, backend |-> "s3"]

CallsOptions == {WithFile, WithS3, [WithS3 EXCEPT !.flags = @ \ {"github-store-enabled"}]}
FileOptions  == {WithFile}

OneProcess   == {"lambda"}
TwoProcesses == {"first", "second"}
S3Options == {WithS3}

CallFaults == {"create", "write", "destroy", "delete", "save", "torn", "crash"}

CallsStoreConfigs == {Git, One, Ssm, Bad}
AwsStoreConfigs  == {One, Ssm}

\* Credentials live one tick and are renewed in the tick after their creation.
MCLifetime == [t \in CredentialTypes |-> 1]
=============================================================================
