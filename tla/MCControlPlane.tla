--------------------------- MODULE MCControlPlane ---------------------------
(* Instances of ControlPlane for TLC. *)
EXTENDS ControlPlane

Status(ready, ep, terminal, ref, init, malformed) ==
  [ready |-> ready, ep |-> ep, terminal |-> terminal, ref |-> ref,
   init |-> init, malformed |-> malformed]

\* A backend that becomes ready, moves its endpoint, fails or reports rubbish.
StatusesBasic ==
  { Status(TRUE, "e1", FALSE, None, FALSE, FALSE),
    Status(TRUE, "e2", FALSE, None, FALSE, FALSE),
    Status(FALSE, None, TRUE, None, FALSE, FALSE),
    Status(TRUE, "bad", FALSE, None, FALSE, FALSE) }

\* A backend that publishes a kubeconfig reference, late, or a malformed status.
StatusesKubeconfig ==
  { Status(TRUE, "e1", FALSE, None, FALSE, FALSE),
    Status(TRUE, "e1", FALSE, "same", FALSE, FALSE),
    Status(FALSE, "e1", FALSE, None, FALSE, TRUE) }
=============================================================================
