------------------------ MODULE MCKubeconfigRotator ------------------------
(* An instance of KubeconfigRotator and RotatorEvents for TLC: one unit is about a minute. *)
EXTENDS RotatorEvents

\* A flag that is not set and one that is negative: both get their default.
MCPolicy == [refreshBefore |-> 4, maxRefresh |-> 5, failureBackoff |-> -1,
             immediateRequeue |-> 0]
MCDefault == [refreshBefore |-> 3, maxRefresh |-> 6, failureBackoff |-> 1,
              immediateRequeue |-> 1]
=============================================================================
