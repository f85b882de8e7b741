--------------------------- MODULE MCSelfManaged ---------------------------
(* An instance of SelfManaged for TLC. *)
EXTENDS SelfManaged

MCVersionNames == <<"v1", "v2">>
=============================================================================
