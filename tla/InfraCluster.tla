---------------------------- MODULE InfraCluster ----------------------------
(***************************************************************************)
(* The Kany8sCluster reconciler, the infrastructure provider's half of the *)
(* Cluster API contract: without a ResourceGraphDefinition it says         *)
(* "provisioned" at once (stub mode); with one it keeps a kro instance and *)
(* mirrors the instance's readiness (kro mode).                            *)
(*                                                                         *)
(* One object, one worker, every API call an action.  The object and the   *)
(* owner Cluster are read from informer caches, definition and instance    *)
(* are unstructured and read live.  Only the object itself is watched.     *)
(* The status goes out as one MergeFrom patch from the copy that was read. *)
(***************************************************************************)
EXTENDS Naturals, Sequences

CONSTANTS
  KroSpecs,  \* the valid values of spec.kroSpec
  Changing,  \* kinds of change the environment may make; the rest is in place
  MaxLag,    \* bound: versions of the object the cache can be behind, + 1
  MaxEnv,    \* bound: changes the environment makes
  MaxFail    \* bound: failed API calls and manager restarts

ChangeKinds == {"mode", "spec", "link", "cluster", "rgd", "reports", "regress", "lost"}

May(kind) == kind \in Changing

ASSUME ConstantsAssumption ==
  /\ KroSpecs # {} /\ "bad" \notin KroSpecs /\ "none" \notin KroSpecs
  /\ Changing \subseteq ChangeKinds
  /\ MaxLag \in Nat /\ MaxLag > 1 /\ MaxEnv \in Nat /\ MaxFail \in Nat

VARIABLES
  hist,         \* versions of the Kany8sCluster from cache to server
  clusterSeen,  \* the owner Cluster is in the cache
  rgd,          \* the ResourceGraphDefinition: "absent", "invalid" or "ok"
  declares,     \* its schema declares spec.clusterUID (the opt-in)
  inst,         \* the kro instance
  queued, timer,
  pc, w,        \* the worker's next call and its local variables
  env, fails

worldVars == <<clusterSeen, rgd, declares>>
vars == <<hist, worldVars, inst, queued, timer, pc, w, env, fails>>

\* The Ready condition by its reason: "Ready" is the one with status True, the
\* last two are what a kro instance may give as reasons of its own.
Reasons == {"absent", "Ready", "Provisioning", "RGD", "WaitingForOwnerCluster",
            "InvalidKroSpec", "Failing"}

KC == [mode: {"stub", "kro"}, spec: KroSpecs \cup {"bad"}, linked: BOOLEAN,
       prov: BOOLEAN, failed: BOOLEAN, cond: Reasons]

\* st: what status.ready and status.reason say; "malformed" cannot be read.
Inst == [exists: BOOLEAN, spec: KroSpecs \cup {"none"}, uid: BOOLEAN,
         st: {"empty", "failing", "ready", "malformed"}]
NoInst == [exists |-> FALSE, spec |-> "none", uid |-> FALSE, st |-> "empty"]

\* kc; ownerClusterUID is known; provisioned, reason, failure and requeueAfter.
Local == [kc: KC, uid: BOOLEAN, prov: BOOLEAN, cond: Reasons, failed: BOOLEAN,
          requeue: BOOLEAN]
NewKC(mode, s) == [mode |-> mode, spec |-> s, linked |-> ~May("link"), prov |-> FALSE,
                   failed |-> FALSE, cond |-> "absent"]
NoLocal == [kc |-> NewKC("stub", "bad"), uid |-> FALSE, prov |-> FALSE,
            cond |-> "absent", failed |-> FALSE, requeue |-> FALSE]

Api == hist[Len(hist)]

TypeOK ==
  /\ hist \in Seq(KC) /\ Len(hist) \in 1..MaxLag
  /\ clusterSeen \in BOOLEAN /\ rgd \in {"absent", "invalid", "ok"} /\ declares \in BOOLEAN
  /\ inst \in Inst /\ queued \in BOOLEAN /\ timer \in BOOLEAN
  /\ pc \in {"idle", "resolve", "schema", "owner", "sync", "read", "patch"}
  /\ w \in Local /\ env \in 0..MaxEnv /\ fails \in 0..MaxFail

Init ==
  /\ hist \in {<<NewKC(m, s)>> : m \in {"stub", "kro"}, s \in KroSpecs \cup {"bad"}}
  /\ clusterSeen = ~May("cluster") /\ declares \in BOOLEAN
  /\ rgd = (IF May("rgd") THEN "absent" ELSE "ok")
  /\ inst = NoInst /\ queued = TRUE /\ timer = FALSE /\ pc = "idle" /\ w = NoLocal
  /\ env = MaxEnv /\ fails = MaxFail

-----------------------------------------------------------------------------
(* Calls *)

Write(new) ==
  IF new = Api THEN UNCHANGED hist
  ELSE Len(hist) < MaxLag /\ hist' = Append(hist, new)

Merged(b, a, s) == IF a # b THEN a ELSE s

\* client.MergeFrom(before) applied by the server.
Patched(after) ==
  [Api EXCEPT !.prov = Merged(w.kc.prov, after.prov, Api.prov),
              !.failed = Merged(w.kc.failed, after.failed, Api.failed),
              !.cond = Merged(w.kc.cond, after.cond, Api.cond)]

Finish(requeue) == pc' = "idle" /\ w' = NoLocal /\ timer' = (timer \/ requeue)

\* The rest of Reconcile is skipped up to the status: not provisioned, retried.
Wait(reason) ==
  /\ w' = [w EXCEPT !.prov = FALSE, !.cond = reason, !.requeue = TRUE]
  /\ pc' = "patch"

-----------------------------------------------------------------------------
(* Reconcile *)

\* r.Get; without a definition the infrastructure is ready at once.
StartReconcile ==
  /\ pc = "idle" /\ queued /\ queued' = FALSE
  /\ LET stub == hist[1].mode = "stub" IN
     /\ w' = [NoLocal EXCEPT !.kc = hist[1], !.prov = stub,
                             !.cond = IF stub THEN "Ready" ELSE "Provisioning"]
     /\ pc' = IF stub THEN "patch" ELSE "resolve"
  /\ UNCHANGED <<hist, worldVars, inst, timer, env, fails>>

\* Mutated form of ResolveRGD: a missing definition is not polled for.
ResolveRGDOnce ==
  /\ pc = "resolve"
  /\ \/ rgd = "ok" /\ pc' = "schema" /\ UNCHANGED <<w, fails>>
     \/ rgd # "ok" /\ w' = [w EXCEPT !.cond = "RGD"] /\ pc' = "patch" /\ UNCHANGED fails
     \/ fails > 0 /\ fails' = fails - 1 /\ Wait("RGD")
  /\ UNCHANGED <<hist, worldVars, inst, queued, timer, env>>

\* kro.ResolveInstanceGVK: missing, invalid and unreadable are one path.
ResolveRGD ==
  /\ pc = "resolve"
  /\ \/ rgd = "ok" /\ pc' = "schema" /\ UNCHANGED <<w, fails>>
     \/ rgd # "ok" /\ Wait("RGD") /\ UNCHANGED fails
     \/ fails > 0 /\ fails' = fails - 1 /\ Wait("RGD")
  /\ UNCHANGED <<hist, worldVars, inst, queued, timer, env>>

\* kro.SchemaHasSpecField(clusterUID), a second read of the definition, which
\* fails if it is gone by now.  Without the opt-in no owner is needed.
CheckSchema ==
  /\ pc = "schema"
  /\ \/ /\ rgd # "absent" /\ pc' = IF declares THEN "owner" ELSE "sync"
        /\ UNCHANGED <<w, fails>>
     \/ rgd = "absent" /\ Wait("RGD") /\ UNCHANGED fails
     \/ fails > 0 /\ fails' = fails - 1 /\ Wait("RGD")
  /\ UNCHANGED <<hist, worldVars, inst, queued, timer, env>>

\* Mutated form of ReadOwner: a missing owner reference is no reason to wait.
ReadOwnerOptional ==
  /\ pc = "owner"
  /\ IF w.kc.linked /\ ~clusterSeen THEN Wait("WaitingForOwnerCluster")
     ELSE w' = [w EXCEPT !.uid = w.kc.linked] /\ pc' = "sync"
  /\ UNCHANGED <<hist, worldVars, inst, queued, timer, env, fails>>

\* util.GetOwnerCluster, from the cache.
ReadOwner ==
  /\ pc = "owner"
  /\ IF w.kc.linked /\ clusterSeen THEN w' = [w EXCEPT !.uid = TRUE] /\ pc' = "sync"
     ELSE Wait("WaitingForOwnerCluster")
  /\ UNCHANGED <<hist, worldVars, inst, queued, timer, env, fails>>

\* Mutated form of SyncInstance: an existing instance is left alone.
SyncInstanceOnce ==
  /\ pc = "sync"
  /\ IF w.kc.spec = "bad"
     THEN /\ w' = [w EXCEPT !.cond = "InvalidKroSpec", !.failed = TRUE]
          /\ pc' = "patch" /\ UNCHANGED inst
     ELSE /\ inst' = IF inst.exists THEN inst
                     ELSE [inst EXCEPT !.exists = TRUE, !.spec = w.kc.spec, !.uid = w.uid]
          /\ pc' = "read" /\ UNCHANGED w
  /\ UNCHANGED <<hist, worldVars, queued, timer, env, fails>>

\* Mutated form of SyncInstance: spec.kroSpec is passed on as it is.
SyncInstanceUnchecked ==
  /\ pc = "sync" /\ pc' = "read"
  /\ inst' = [inst EXCEPT !.exists = TRUE, !.spec = w.kc.spec, !.uid = w.uid]
  /\ UNCHANGED <<hist, worldVars, queued, timer, w, env, fails>>

\* buildKroInstanceSpec, an error of which is terminal and not retried, and
\* CreateOrUpdate with the whole spec.
SyncInstance ==
  /\ pc = "sync"
  /\ IF w.kc.spec = "bad"
     THEN /\ w' = [w EXCEPT !.cond = "InvalidKroSpec", !.failed = TRUE]
          /\ pc' = "patch" /\ UNCHANGED inst
     ELSE /\ inst' = [inst EXCEPT !.exists = TRUE, !.spec = w.kc.spec, !.uid = w.uid]
          /\ pc' = "read" /\ UNCHANGED w
  /\ UNCHANGED <<hist, worldVars, queued, timer, env, fails>>

\* The instance is read again, and its status.
ReadInstance ==
  /\ pc = "read"
  /\ CASE ~inst.exists \/ inst.st = "malformed" -> Finish(TRUE)
       [] inst.exists /\ inst.st = "ready" ->
            /\ w' = [w EXCEPT !.prov = TRUE, !.cond = "Ready"]
            /\ pc' = "patch" /\ UNCHANGED timer
       [] inst.exists /\ inst.st \in {"empty", "failing"} ->
            /\ Wait(IF inst.st = "failing" THEN "Failing" ELSE "Provisioning")
            /\ UNCHANGED timer
  /\ UNCHANGED <<hist, worldVars, inst, queued, env, fails>>

\* r.Status().Patch and the result.
PatchStatus ==
  /\ pc = "patch"
  /\ Write(Patched([w.kc EXCEPT !.prov = w.prov, !.cond = w.cond, !.failed = w.failed]))
  /\ Finish(w.requeue)
  /\ UNCHANGED <<worldVars, inst, queued, env, fails>>

CallFails ==
  /\ pc \in {"sync", "read", "patch"} /\ fails > 0 /\ fails' = fails - 1
  /\ Finish(TRUE)
  /\ UNCHANGED <<hist, worldVars, inst, queued, env>>

Restart ==
  /\ fails > 0 /\ fails' = fails - 1
  /\ hist' = <<Api>> /\ queued' = TRUE /\ timer' = FALSE /\ pc' = "idle" /\ w' = NoLocal
  /\ UNCHANGED <<worldVars, inst, env>>

Worker ==
  \/ StartReconcile \/ ResolveRGD \/ CheckSchema \/ ReadOwner
  \/ SyncInstance \/ ReadInstance \/ PatchStatus

-----------------------------------------------------------------------------
(* Cache, queue and environment *)

CacheAdvance ==
  /\ Len(hist) > 1 /\ hist' = Tail(hist) /\ queued' = TRUE
  /\ UNCHANGED <<worldVars, inst, timer, pc, w, env, fails>>

TimerFires ==
  /\ timer /\ timer' = FALSE /\ queued' = TRUE
  /\ UNCHANGED <<hist, worldVars, inst, pc, w, env, fails>>

Changes == env > 0 /\ env' = env - 1

\* A user edits the spec, Cluster API sets the owner reference.
EditObject ==
  /\ Changes
  /\ \/ May("mode") /\ \E m \in {"stub", "kro"} : Write([Api EXCEPT !.mode = m])
     \/ May("spec") /\ \E s \in KroSpecs \cup {"bad"} : Write([Api EXCEPT !.spec = s])
     \/ May("link") /\ Write([Api EXCEPT !.linked = TRUE])
  /\ hist' # hist
  /\ UNCHANGED <<worldVars, inst, queued, timer, pc, w, fails>>

\* The Cluster appears; the definition comes, goes, or is invalid.
WorldChanges ==
  /\ Changes
  /\ \/ May("cluster") /\ ~clusterSeen /\ clusterSeen' = TRUE /\ UNCHANGED rgd
     \/ May("rgd") /\ rgd' \in {"absent", "invalid", "ok"} \ {rgd} /\ UNCHANGED clusterSeen
  /\ UNCHANGED <<hist, declares, inst, queued, timer, pc, w, fails>>

\* kro reports on the instance; a ready one may regress, any may be deleted.
InstanceChanges ==
  /\ Changes /\ inst.exists
  /\ \/ /\ May("reports") /\ inst.st # "ready"
        /\ \E st \in {"failing", "ready", "malformed"} : inst' = [inst EXCEPT !.st = st]
     \/ May("regress") /\ inst.st = "ready" /\ inst' = [inst EXCEPT !.st = "failing"]
     \/ May("lost") /\ inst' = NoInst
  /\ inst' # inst
  /\ UNCHANGED <<hist, worldVars, queued, timer, pc, w, fails>>

Environment == EditObject \/ WorldChanges \/ InstanceChanges

Next ==
  \/ Worker \/ CallFails \/ Restart
  \/ CacheAdvance \/ TimerFires \/ Environment

Spec == Init /\ [][Next]_vars

\* The queue hands out requests, cache and timers deliver; nothing is assumed of
\* the environment.
Fairness == WF_vars(Worker) /\ WF_vars(CacheAdvance) /\ WF_vars(TimerFires)
FairSpec == Spec /\ Fairness

-----------------------------------------------------------------------------
(* Properties *)

\* Objects a definition makes refer to the Cluster by its uid: where the schema
\* asks for clusterUID no instance exists without it, however late reference
\* and Cluster come.
InstanceIsIdentified == inst.exists /\ declares => inst.uid

Settled == pc = "idle" /\ ~queued /\ ~timer /\ Len(hist) = 1

Published(prov, cond, failed) ==
  Api.prov = prov /\ Api.cond = cond /\ Api.failed = failed

\* What the object should say: the stub's yes, the invalid spec, or what the
\* instance, which carries the object's spec, reports.
Mirrored ==
  CASE Api.mode = "stub" -> Published(TRUE, "Ready", FALSE)
    [] Api.mode = "kro" /\ Api.spec = "bad" -> Published(FALSE, "InvalidKroSpec", TRUE)
    [] Api.mode = "kro" /\ Api.spec # "bad" ->
         /\ inst.exists /\ inst.spec = Api.spec
         /\ IF inst.st = "ready" THEN Published(TRUE, "Ready", FALSE)
            ELSE Api.prov = FALSE /\ Api.failed = FALSE

\* The controller comes to rest, with nothing watched but the object itself,
\* only when what it published is what there is; for instances that stay ready.
SettledIsMirrored == Settled => Mirrored

\* Whatever order definition, Cluster and reports come in, the object converges.
Mirrors ==
  <>[](\/ Api.mode = "stub"
       \/ /\ rgd = "ok" /\ (declares => Api.linked /\ clusterSeen)
          /\ inst.st # "malformed"
     => Mirrored)

\* In kro mode, provisioned mirrors the instance's status.ready (ADR 0005).
ProvisionedMirrors ==
  Settled /\ Api.mode = "kro" /\ Api.spec # "bad" =>
    (Api.prov <=> inst.exists /\ inst.st = "ready")
=============================================================================
