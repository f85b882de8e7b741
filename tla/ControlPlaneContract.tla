------------------------ MODULE ControlPlaneContract ------------------------
(***************************************************************************)
(* What Cluster API may rely on when it looks at a control plane object:   *)
(* the endpoint is published before the control plane is marked            *)
(* initialized, that mark stays, and Ready=True comes only after it.  The  *)
(* Kany8sKubeadmControlPlane implements it, and so does the facade that    *)
(* projects it or any other backend.                                       *)
(***************************************************************************)
CONSTANT Endpoints

VARIABLES
  endpoint,    \* spec.controlPlaneEndpoint, as a set of at most one endpoint
  initialized, \* status.initialization.controlPlaneInitialized
  ready        \* the Ready condition is True

vars == <<endpoint, initialized, ready>>

Init == endpoint = {} /\ initialized = FALSE /\ ready = FALSE

\* The endpoint may move, and is never withdrawn.
Publish(e) == endpoint' = {e} /\ UNCHANGED <<initialized, ready>>

Initialize == endpoint # {} /\ initialized' = TRUE /\ UNCHANGED <<endpoint, ready>>

BecomeReady == initialized /\ ready' = TRUE /\ UNCHANGED <<endpoint, initialized>>

BecomeUnready == ready' = FALSE /\ UNCHANGED <<endpoint, initialized>>

Next == (\E e \in Endpoints : Publish(e)) \/ Initialize \/ BecomeReady \/ BecomeUnready

Spec == Init /\ [][Next]_vars
=============================================================================
