---------------------- MODULE MCKarpenterBootstrapper ----------------------
(* Instances of KarpenterBootstrapper for TLC: a chain of one object. *)
EXTENDS KarpenterBootstrapper

MCChain == <<"entry">>

\* A Cluster without security groups; one more with the takeover annotation and an
\* empty list for the nodes next to the control plane's groups.
MCPlain == {NewCluster(FALSE, [node |-> "unset", cp |-> "unset"])}
MCBoth == MCPlain \cup {NewCluster(TRUE, [node |-> "empty", cp |-> "set"])}
=============================================================================
