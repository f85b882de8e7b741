---------------------------- MODULE EventDelivery ----------------------------
(***************************************************************************)
(* What the dynamic watcher promises the facade controller: notifications  *)
(* about an object may be coalesced and repeated, but an object that was   *)
(* notified stays carried until a delivery that comes after the            *)
(* notification, and such a delivery comes.                                *)
(***************************************************************************)
CONSTANT Keys

VARIABLES
  owed,     \* objects notified since their last delivery
  carried   \* objects some delivery of which is under way

vars == <<owed, carried>>

Init == owed = {} /\ carried = {}

Notify(k) == owed' = owed \cup {k} /\ carried' = carried \cup {k}

\* Other copies of the event may be under way still.
Deliver(k) ==
  /\ k \in carried
  /\ owed' = owed \ {k} /\ carried' \in {carried, carried \ {k}}

\* A copy is dropped: only one that nobody waits for.
Drop(k) ==
  /\ k \in carried \ owed
  /\ carried' = carried \ {k} /\ UNCHANGED owed

Next == \E k \in Keys : Notify(k) \/ Deliver(k) \/ Drop(k)

Spec == Init /\ [][Next]_vars

\* Every notified object is delivered.
FairSpec == Spec /\ \A k \in Keys : WF_vars(k \in owed /\ Deliver(k))
=============================================================================
