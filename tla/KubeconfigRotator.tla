------------------------- MODULE KubeconfigRotator -------------------------
(***************************************************************************)
(* The EKS kubeconfig rotator: it keeps the <cluster>-kubeconfig Secret    *)
(* filled with a short-lived token and comes back before the token         *)
(* expires.                                                                *)
(*                                                                         *)
(* One Cluster, one worker, every API call an action, and a clock.  due is *)
(* the time of the earliest request in the work queue (AddAfter keeps the  *)
(* earliest).  Secrets are read live and are not watched; Update carries   *)
(* the resourceVersion of the copy that was read.                          *)
(***************************************************************************)
EXTENDS Integers

CONSTANTS
  Policy,         \* the flags: any integers
  DefaultPolicy,  \* what replaces a flag that is not positive
  Life,           \* life of a generated token
  Delay,          \* bound: from the time a request is due to the end of its run
  MaxLost,        \* bound: time lost to failing runs between two good ones
  MaxEnv,         \* bound: changes users make
  MaxTime         \* bound: end of time

PolicyOf(S) == [refreshBefore: S, maxRefresh: S, failureBackoff: S, immediateRequeue: S]

\* Mutated form of WithDefaults: negative values are taken for set.
WithDefaultsNonzero(p) ==
  [f \in DOMAIN p |-> IF p[f] = 0 THEN DefaultPolicy[f] ELSE p[f]]

WithDefaults(p) ==
  LET Positive(d, default) == IF d <= 0 THEN default ELSE d IN
  [refreshBefore |-> Positive(p.refreshBefore, DefaultPolicy.refreshBefore),
   maxRefresh |-> Positive(p.maxRefresh, DefaultPolicy.maxRefresh),
   failureBackoff |-> Positive(p.failureBackoff, DefaultPolicy.failureBackoff),
   immediateRequeue |-> Positive(p.immediateRequeue, DefaultPolicy.immediateRequeue)]

P == WithDefaults(Policy)

\* Mutated form of ComputeNextRequeue: RefreshBefore is forgotten.
ComputeNextRequeueLate(t, expiration) ==
  LET until == expiration - t IN
  IF until <= 0 THEN P.immediateRequeue
  ELSE IF until > P.maxRefresh THEN P.maxRefresh ELSE until

\* A generated token's expiration is never the zero time, for which the code
\* returns FailureBackoff.
ComputeNextRequeue(t, expiration) ==
  LET until == expiration - P.refreshBefore - t IN
  IF until <= 0 THEN P.immediateRequeue
  ELSE IF until > P.maxRefresh THEN P.maxRefresh ELSE until

ASSUME ConstantsAssumption ==
  /\ Policy \in PolicyOf(Int) /\ DefaultPolicy \in PolicyOf(Nat \ {0})
  /\ Life \in Nat /\ Delay \in Nat /\ MaxLost \in Nat /\ MaxEnv \in Nat /\ MaxTime \in Nat

\* What a run costs that fails: it ends, and is retried after FailureBackoff or
\* after the rate limiter's delay, which the first dozen of retries keep below.
Cost == Delay + P.failureBackoff

\* The policy leaves room for the failures and for one slow run.
ASSUME PolicyAssumption ==
  /\ P.refreshBefore > MaxLost + Delay
  /\ Life - Delay - P.immediateRequeue > MaxLost + Delay

VARIABLES
  now,       \* the clock
  armed, due,\* is a request in the work queue, and for when?
  enabled,   \* the Cluster carries the rotator annotation and is not deleted
  takeover,  \* it carries the allow-unmanaged-takeover annotation
  secret,    \* the two Secrets
  pc, w,     \* the worker's next call and its local variables
  kept,      \* the rotator keeps the token: it wrote one and has not given up
  lost,      \* time lost to failing runs since the last good one
  env

vars == <<now, armed, due, enabled, takeover, secret, pc, w, kept, lost, env>>

Names == {"probe", "exec"}
Secret == [kind: {"absent", "foreign", "managed"}, exp: Nat]
Absent == [kind |-> "absent", exp |-> 0]
Foreign == [kind |-> "foreign", exp |-> 0]

\* takeover as read with the Cluster, the token's expiration, the Secret at hand
\* and the copy of it that was read.
Local == [takeover: BOOLEAN, exp: Nat, name: Names, got: Secret]
NoLocal == [takeover |-> FALSE, exp |-> 0, name |-> "probe", got |-> Absent]

TypeOK ==
  /\ now \in Nat /\ armed \in BOOLEAN /\ due \in Nat
  /\ enabled \in BOOLEAN /\ takeover \in BOOLEAN
  /\ secret \in [Names -> Secret]
  /\ pc \in {"idle", "token", "get", "write", "done"} /\ w \in Local
  /\ kept \in BOOLEAN /\ lost \in Int /\ env \in 0..MaxEnv

Init ==
  /\ now = 0 /\ armed = TRUE /\ due = 0
  /\ enabled = TRUE /\ takeover \in BOOLEAN
  /\ secret \in [Names -> {Absent, Foreign}]
  /\ pc = "idle" /\ w = NoLocal /\ kept = FALSE /\ lost = 0 /\ env = MaxEnv

-----------------------------------------------------------------------------
(* Reconcile *)

\* A run ends with RequeueAfter d; controller-runtime takes a d that is not
\* positive for no requeue.
Requeue(d) ==
  /\ pc' = "idle" /\ w' = NoLocal
  /\ IF d > 0 THEN armed' = TRUE /\ due' = now + d
              ELSE armed' = FALSE /\ due' = due

\* Failures that would outlast the token are not considered while it is kept.
CanFail == kept => lost + Cost <= MaxLost
Failed(d) ==
  /\ Requeue(d)
  /\ lost' = IF kept THEN lost + Cost ELSE lost

\* The Cluster is read: not enabled or deleted, nothing to do and no requeue.
StartReconcile ==
  /\ pc = "idle" /\ armed /\ due <= now
  /\ IF enabled
     THEN /\ pc' = "token" /\ w' = [NoLocal EXCEPT !.takeover = takeover]
          /\ UNCHANGED <<armed, kept>>
     ELSE /\ armed' = FALSE /\ kept' = FALSE /\ UNCHANGED <<pc, w>>
  /\ UNCHANGED <<now, due, enabled, takeover, secret, lost, env>>

\* The ACK API, the ACK Cluster, its endpoint or its region is missing, or the
\* token cannot be generated.
NotReady ==
  /\ pc = "token" /\ CanFail
  /\ Failed(P.failureBackoff)
  /\ UNCHANGED <<now, enabled, takeover, secret, kept, env>>

\* Mutated form of GenerateToken: the life of the token is subtracted.
GenerateTokenPast ==
  /\ pc = "token"
  /\ w' = [w EXCEPT !.exp = now - Life] /\ pc' = "get"
  /\ UNCHANGED <<now, armed, due, enabled, takeover, secret, kept, lost, env>>

GenerateToken ==
  /\ pc = "token"
  /\ w' = [w EXCEPT !.exp = now + Life] /\ pc' = "get"
  /\ UNCHANGED <<now, armed, due, enabled, takeover, secret, kept, lost, env>>

\* upsertManagedSecret: Get, and the unmanaged Secret that is left alone.
GetSecret ==
  /\ pc = "get"
  /\ IF secret[w.name].kind = "foreign" /\ ~w.takeover
     THEN IF w.name = "probe"
          THEN Requeue(P.maxRefresh) /\ kept' = FALSE
          ELSE pc' = "done" /\ UNCHANGED <<w, armed, due, kept>>
     ELSE /\ w' = [w EXCEPT !.got = secret[w.name]] /\ pc' = "write"
          /\ UNCHANGED <<armed, due, kept>>
  /\ UNCHANGED <<now, enabled, takeover, secret, lost, env>>

\* mutateManagedSecret: the Secret as the rotator wants it.
Wanted == [kind |-> "managed", exp |-> IF w.name = "probe" THEN w.exp ELSE 0]

\* On to the second Secret, or to the end.
NextSecret ==
  IF w.name = "probe"
  THEN pc' = "get" /\ w' = [w EXCEPT !.name = "exec"] /\ kept' = TRUE
  ELSE pc' = "done" /\ UNCHANGED <<w, kept>>

\* Mutated form of WriteSecret: whatever is there is overwritten.
WriteSecretUnlocked ==
  /\ pc = "write"
  /\ secret' = [secret EXCEPT ![w.name] = Wanted] /\ NextSecret
  /\ UNCHANGED <<now, armed, due, enabled, takeover, lost, env>>

\* Nothing to write if it is as wanted; else Create (fails if it exists by now)
\* or Update under the resourceVersion that was read.
WriteSecret ==
  /\ pc = "write"
  /\ IF w.got = Wanted \/ secret[w.name] = w.got
     THEN /\ secret' = IF w.got = Wanted THEN secret ELSE [secret EXCEPT ![w.name] = Wanted]
          /\ NextSecret /\ UNCHANGED <<armed, due, lost>>
     ELSE \E d \in 1..P.failureBackoff : Failed(d) /\ UNCHANGED <<secret, kept>>
  /\ UNCHANGED <<now, enabled, takeover, env>>

Finish ==
  /\ pc = "done"
  /\ Requeue(ComputeNextRequeue(now, w.exp)) /\ lost' = 0
  /\ UNCHANGED <<now, enabled, takeover, secret, kept, env>>

\* A call fails and its error is returned: the rate limiter's delay.
CallFails ==
  /\ pc \in {"token", "get", "write"} /\ CanFail
  /\ \E d \in 1..P.failureBackoff : Failed(d)
  /\ UNCHANGED <<now, enabled, takeover, secret, kept, env>>

Worker ==
  \/ StartReconcile \/ NotReady \/ GenerateToken \/ GetSecret \/ WriteSecret
  \/ Finish \/ CallFails

-----------------------------------------------------------------------------
(* Clock, queue and users *)

\* A request that is due is answered within Delay.
Tick ==
  /\ now < MaxTime /\ (armed => now < due + Delay)
  /\ now' = now + 1
  /\ UNCHANGED <<armed, due, enabled, takeover, secret, pc, w, kept, lost, env>>

\* An event of the Cluster or of the ACK Cluster, or a restart of the manager.
Event ==
  /\ pc = "idle" /\ (armed => now < due)
  /\ armed' = TRUE /\ due' = now
  /\ UNCHANGED <<now, enabled, takeover, secret, pc, w, kept, lost, env>>

\* Users toggle the annotations, delete a Secret or put their own in its place.
UserActs ==
  /\ env > 0 /\ env' = env - 1
  /\ \/ enabled' = ~enabled /\ UNCHANGED <<takeover, secret>>
     \/ takeover' = ~takeover /\ UNCHANGED <<enabled, secret>>
     \/ /\ CanFail
        /\ \E n \in Names, s \in {Absent, Foreign} :
             secret[n] # s /\ secret' = [secret EXCEPT ![n] = s]
        /\ UNCHANGED <<enabled, takeover>>
  /\ UNCHANGED <<now, armed, due, pc, w, kept, lost>>

Next == Worker \/ Tick \/ Event \/ UserActs

Spec == Init /\ [][Next]_vars

-----------------------------------------------------------------------------
(* Properties *)

\* The token in the Secret never expires while the rotator keeps it: a run comes
\* early enough before the expiration, failing runs, slow runs and conflicts
\* with users included.
TokenNeverExpires ==
  kept /\ secret["probe"].kind = "managed" => now < secret["probe"].exp

\* A Secret that somebody else made is not overwritten without the takeover
\* annotation, not even when it replaces a managed one behind the Get.
ForeignIsKept ==
  [][\A n \in Names :
       secret[n].kind = "foreign" /\ secret'[n].kind = "managed" => w.takeover]_vars

\* A run that found the rotator enabled always leaves a request in the queue,
\* whatever the flags: nothing else would bring it back, no Secret is watched and
\* time is no event.
NeverSleeps == [][pc # "idle" /\ pc' = "idle" => armed']_vars
=============================================================================
