---------------------------- MODULE ControlPlane ----------------------------
(***************************************************************************)
(* The Kany8sControlPlane facade reconciler, the API server object it      *)
(* publishes to, the informer cache it reads from and the backend object   *)
(* it projects.                                                            *)
(*                                                                         *)
(* One Kany8sControlPlane, one worker (controller-runtime never runs two   *)
(* reconciles of one key at a time).  Every API call of Reconcile is an    *)
(* action of its own, so the environment may act between any two of them.  *)
(*                                                                         *)
(*   - hist is the object's versions the informer cache has not delivered  *)
(*     yet: hist[1] is what r.Get returns, its last element is what the    *)
(*     API server holds.  A new version is delivered by CacheAdvance.      *)
(*   - client.MergeFrom patches carry neither resourceVersion nor uid:     *)
(*     they write the difference to a possibly stale base onto whatever    *)
(*     the server holds, and refresh the local copy with the response.     *)
(*   - instances of kro and external backends are unstructured and read    *)
(*     live; the kubeadm backend is typed and read from a cache (view).    *)
(***************************************************************************)
EXTENDS Naturals, Sequences

CONSTANTS
  Backend,    \* "kro", "kubeadm" or "external": the one backend selected
  Versions,   \* Kubernetes versions a user may ask for
  Endpoints,  \* endpoints a backend may report, after endpoint.Parse
  Statuses,   \* the backend statuses the environment may report
  Changing,   \* the kinds of change the environment may make; what may not
              \* change (owner, Cluster, definition) is in place from the start
  MaxLag,     \* bound: versions of the object the cache can be behind, + 1
  MaxUid,     \* bound: incarnations of the object (delete and re-create)
  MaxEnv,     \* bound: changes the environment makes
  MaxFail     \* bound: API failures, watch failures and manager restarts

None == "none"

(***************************************************************************)
(* kro.InstanceStatus plus what is read beside it: kubeconfigSecretRef,    *)
(* and for the kubeadm backend Initialization.ControlPlaneInitialized.     *)
(* ep = "bad" is an endpoint that endpoint.Parse refuses; malformed is a   *)
(* status field of the wrong JSON type; terminal stands for a terminal     *)
(* flag that comes with a reason or a message.                             *)
(***************************************************************************)
InstanceStatus ==
  [ready: BOOLEAN, ep: Endpoints \cup {None, "bad"}, terminal: BOOLEAN,
   ref: {None, "same", "cross"}, init: BOOLEAN, malformed: BOOLEAN]

NoStatus == [ready |-> FALSE, ep |-> None, terminal |-> FALSE, ref |-> None,
             init |-> FALSE, malformed |-> FALSE]

ChangeKinds == {"version", "cfg", "owner", "backend", "lost", "cluster", "rgd",
                "source", "target"}

May(kind) == kind \in Changing

ASSUME ConstantsAssumption ==
  /\ Backend \in {"kro", "kubeadm", "external"}
  /\ Versions # {} /\ None \notin Versions
  /\ None \notin Endpoints /\ "bad" \notin Endpoints
  /\ Statuses \subseteq InstanceStatus /\ Changing \subseteq ChangeKinds
  /\ MaxLag \in Nat /\ MaxLag > 1
  /\ MaxUid \in Nat \ {0} /\ MaxEnv \in Nat /\ MaxFail \in Nat

\* The kubeadm reconciler keeps ControlPlaneContract: endpoint, then Initialized,
\* then Ready.
ASSUME KubeadmAssumption ==
  Backend = "kubeadm" =>
    \A s \in Statuses : (s.ready => s.init) /\ (s.init => s.ep \in Endpoints)

VARIABLES
  hist,       \* versions of the Kany8sControlPlane from cache to server
  clusterSeen,\* is the owner Cluster in the manager's cache?
  rgdOK,      \* does the ResourceGraphDefinition resolve to a GVK? (kro)
  inst,       \* the backend object at the API server
  view,       \* the kubeadm backend object as the typed cache shows it
  src,        \* the provider's kubeconfig source Secret
  tgt,        \* the <cluster>-kubeconfig Secret
  watch,      \* is the dynamic informer for the backend registered?
  instEvent,  \* a backend event not yet in the work queue
  queued,     \* the request is in the work queue
  timer,      \* a RequeueAfter or a rate-limited retry is outstanding
  pc, w,      \* the worker's next call and its local variables
  env, fails  \* remaining environment changes and failures

serverVars == <<hist, clusterSeen, rgdOK, inst, view, src, tgt>>
queueVars  == <<watch, instEvent, queued, timer>>
vars == <<serverVars, queueVars, pc, w, env, fails>>

-----------------------------------------------------------------------------
(* Objects *)

\* Condition statuses: "absent", "True", "False".  Creating is not kept: it is
\* written and removed together with Ready=False and Ready=True.
Conds == [ready: {"absent", "True", "False"}, kc: {"absent", "True", "False"},
          rgd: {"absent", "False"}]

\* cfg: "valid", or a spec that Reconcile itself reports as a terminal failure.
CP == [exists: BOOLEAN, uid: 1..MaxUid, cfg: {"valid", "badSpec", "noBackend"},
       version: Versions, owner: BOOLEAN, ep: Endpoints \cup {None},
       init: BOOLEAN, sver: Versions \cup {None}, failed: BOOLEAN, conds: Conds]

NewCP(uid, v) ==
  [exists |-> TRUE, uid |-> uid, cfg |-> "valid", version |-> v,
   owner |-> ~May("owner"), ep |-> None, init |-> FALSE, sver |-> None,
   failed |-> FALSE,
   conds |-> [ready |-> "absent", kc |-> "absent", rgd |-> "absent"]]

\* ident: the owner Cluster's identity is on the object; obs: the version the
\* status was computed for.
Inst == [exists: BOOLEAN, owner: 0..MaxUid, ver: Versions \cup {None},
         ident: BOOLEAN, st: InstanceStatus, obs: Versions \cup {None}]

NoInst == [exists |-> FALSE, owner |-> 0, ver |-> None, ident |-> FALSE,
           st |-> NoStatus, obs |-> None]

Secret == [kind: {"absent", "foreign", "copied"}, owner: 0..MaxUid]
NoSecret == [kind |-> "absent", owner |-> 0]

\* Local variables of Reconcile: cp, ownerCluster and its error, the status
\* read from the backend, ensureWatchErr, and the kubeconfig result.
Local == [cp: CP, owner: {"notset", "err", "ok"}, st: InstanceStatus,
          watchErr: BOOLEAN, kc: {"off", "ok", "requeue"}]
NoLocal == [cp |-> [NewCP(1, CHOOSE v \in Versions : TRUE) EXCEPT !.exists = FALSE],
            owner |-> "notset", st |-> NoStatus, watchErr |-> FALSE, kc |-> "off"]

PCs == {"idle", "resolve", "rgdFailed", "watch", "invalid", "sync",
        "kubeconfig", "target", "kcTrue", "kcFalse", "endpoint",
        "initialized", "conditions"}

Api == hist[Len(hist)]
Cached == hist[1]

TypeOK ==
  /\ hist \in Seq(CP) /\ Len(hist) \in 1..MaxLag
  /\ clusterSeen \in BOOLEAN /\ rgdOK \in BOOLEAN
  /\ inst \in Inst /\ view \in Inst
  /\ src \in {"absent", "invalid", "good"} /\ tgt \in Secret
  /\ watch \in BOOLEAN /\ instEvent \in BOOLEAN
  /\ queued \in BOOLEAN /\ timer \in BOOLEAN
  /\ pc \in PCs /\ w \in Local
  /\ env \in 0..MaxEnv /\ fails \in 0..MaxFail

-----------------------------------------------------------------------------
(* Writes to the object *)

\* A write that changes nothing creates no version; the bound MaxLag makes a
\* write wait for the cache instead of letting it fall further behind.
Write(new) ==
  IF new = Api THEN UNCHANGED hist
  ELSE Len(hist) < MaxLag /\ hist' = Append(hist, new)

Merged(b, a, s) == IF a # b THEN a ELSE s

\* client.MergeFrom: the fields where after differs from before, written onto
\* the server's object.  status.conditions is a list: replaced as a whole.
MergePatch(before, after, server) ==
  [server EXCEPT
     !.ep     = Merged(before.ep, after.ep, server.ep),
     !.init   = Merged(before.init, after.init, server.init),
     !.sver   = Merged(before.sver, after.sver, server.sver),
     !.failed = Merged(before.failed, after.failed, server.failed),
     !.conds  = Merged(before.conds, after.conds, server.conds)]

\* The worker sends the change from its local copy to `after`.
Patched(after) == MergePatch(w.cp, after, Api)
SendPatch(after) == Api.exists /\ Write(Patched(after))

\* The end of a Reconcile, its local variables gone; requeue is TRUE for a
\* RequeueAfter or an error.
Finish(requeue) ==
  /\ pc' = "idle" /\ w' = NoLocal
  /\ timer' = (timer \/ requeue)

\* Mutated form of ConditionsAndFailure: a failure is not cleared before Ready.
ConditionsAndFailureSticky(cp, ready, failed) ==
  IF ready
  THEN [cp EXCEPT !.conds.ready = "True", !.failed = FALSE, !.sver = cp.version]
  ELSE [cp EXCEPT !.conds.ready = "False", !.failed = @ \/ failed]

\* reconcileConditionsAndFailure: the object it wants.
ConditionsAndFailure(cp, ready, failed) ==
  IF ready
  THEN [cp EXCEPT !.conds.ready = "True", !.failed = FALSE, !.sver = cp.version]
  ELSE [cp EXCEPT !.conds.ready = "False", !.failed = failed]

-----------------------------------------------------------------------------
Init ==
  /\ hist \in {<<NewCP(1, v)>> : v \in Versions}
  /\ clusterSeen = ~May("cluster") /\ rgdOK = ~May("rgd")
  /\ inst = NoInst /\ view = NoInst
  /\ src = "absent" /\ tgt = NoSecret
  /\ watch = FALSE /\ instEvent = FALSE /\ queued = TRUE /\ timer = FALSE
  /\ pc = "idle" /\ w = NoLocal
  /\ env = MaxEnv /\ fails = MaxFail

-----------------------------------------------------------------------------
(* The reconciler *)

\* r.Get, GetOwnerCluster and selectedControlPlaneBackend.
StartReconcile ==
  /\ pc = "idle" /\ queued
  /\ queued' = FALSE
  /\ IF ~Cached.exists THEN UNCHANGED <<pc, w>>
     ELSE /\ w' = [cp |-> Cached, st |-> NoStatus, watchErr |-> FALSE,
                   kc |-> "off",
                   owner |-> IF ~Cached.owner THEN "notset"
                             ELSE IF clusterSeen THEN "ok" ELSE "err"]
          /\ pc' = IF Cached.cfg = "noBackend" THEN "invalid"
                   ELSE IF Backend = "kro" THEN "resolve" ELSE "watch"
  /\ UNCHANGED <<serverVars, watch, instEvent, timer, env, fails>>

\* kro.ResolveInstanceGVK: a missing or invalid definition and a failed read
\* take the same path.
ResolveRGD ==
  /\ pc = "resolve"
  /\ \/ pc' = (IF rgdOK THEN "watch" ELSE "rgdFailed") /\ UNCHANGED fails
     \/ fails > 0 /\ fails' = fails - 1 /\ pc' = "rgdFailed"
  /\ UNCHANGED <<serverVars, queueVars, w, env>>

\* Mutated form of UpdateLocked: a patch or an Update without resourceVersion.
UpdateUnlocked(new) == Write(new)

\* Status().Update sends the local copy whole, under its resourceVersion: a
\* copy that is not the server's object is refused with a conflict.
UpdateLocked(new) == w.cp = Api /\ Write(new)

\* requeueWithRGDResolutionCondition
ReportRGDFailure ==
  /\ pc = "rgdFailed"
  /\ \/ UpdateLocked([w.cp EXCEPT !.conds.rgd = "False"])
     \/ w.cp # Api /\ UNCHANGED hist
  /\ Finish(TRUE)
  /\ UNCHANGED <<clusterSeen, rgdOK, inst, view, src, tgt, watch, instEvent,
                 queued, env, fails>>

\* An informer that starts watching delivers the objects that exist.
Registered == watch' = TRUE /\ instEvent' = (instEvent \/ (~watch /\ inst.exists))

\* InstanceWatcher.EnsureWatch: its error is kept, the reconcile goes on.  A
\* cache-sync timeout leaves the informer registered, a mapping error does not.
EnsureWatch ==
  /\ pc = "watch"
  /\ \/ /\ Registered
        /\ UNCHANGED <<w, fails>>
     \/ /\ fails > 0 /\ fails' = fails - 1
        /\ w' = [w EXCEPT !.watchErr = TRUE]
        /\ Registered \/ UNCHANGED <<watch, instEvent>>
  /\ pc' = IF w.cp.cfg = "badSpec" /\ Backend # "kubeadm" THEN "invalid" ELSE "sync"
  /\ UNCHANGED <<serverVars, queued, timer, env>>

\* BackendNotSelected / MultipleBackendsSelected (retried), and invalid kroSpec
\* or externalBackend (not retried): a terminal failure.
ReportInvalid ==
  /\ pc = "invalid"
  /\ SendPatch(ConditionsAndFailure(w.cp, FALSE, TRUE))
  /\ Finish(w.cp.cfg = "noBackend")
  /\ UNCHANGED <<clusterSeen, rgdOK, inst, view, src, tgt, watch, instEvent,
                 queued, env, fails>>

\* What CreateOrUpdate starts from.
Seen == IF Backend = "kubeadm" THEN view ELSE inst

\* The mutate function: version and cluster identity.  The external backend's
\* spec is rebuilt without the identity when the Cluster is unknown; labels
\* and owner references of the others stay.
Mutated(o) ==
  [o EXCEPT !.exists = TRUE, !.owner = w.cp.uid, !.ver = w.cp.version,
            !.ident = (w.owner = "ok") \/ (@ /\ Backend # "external")]

\* SetControllerReference fails on an object another uid controls; Create fails
\* on an object the cache does not show, Update on one it shows outdated.
SyncRefused ==
  \/ Seen.exists /\ Seen.owner # w.cp.uid
  \/ Seen # inst /\ (~Seen.exists \/ Mutated(Seen) # Seen)

\* CreateOrUpdate of the backend object and the status read from the result.
SyncBackend ==
  /\ pc = "sync"
  /\ IF SyncRefused
     THEN /\ Finish(TRUE)
          /\ UNCHANGED <<inst, instEvent>>
     ELSE LET o == Mutated(Seen) IN
          /\ inst' = IF o = Seen THEN inst ELSE o
          /\ instEvent' = (instEvent \/ (watch /\ inst' # inst))
          /\ IF o.st.malformed THEN Finish(TRUE)
             ELSE /\ w' = [w EXCEPT !.st = o.st]
                  /\ pc' = IF Backend = "kubeadm" THEN "endpoint" ELSE "kubeconfig"
                  /\ UNCHANGED timer
  /\ UNCHANGED <<hist, clusterSeen, rgdOK, view, src, tgt, watch, queued, env, fails>>

\* reconcileKubeconfigSecret up to its first write; a failed read of the source
\* Secret is reported like a missing one.
CheckKubeconfig ==
  /\ pc = "kubeconfig"
  /\ \/ /\ pc' = IF w.st.ref = None THEN "endpoint"
                 ELSE IF w.owner = "ok" /\ w.st.ref = "same" /\ src = "good"
                      THEN "target" ELSE "kcFalse"
        /\ UNCHANGED fails
     \/ /\ w.st.ref # None /\ fails > 0 /\ fails' = fails - 1
        /\ pc' = "kcFalse"
  /\ UNCHANGED <<serverVars, queueVars, w, env>>

WriteTarget ==
  /\ pc = "target"
  /\ IF tgt.kind = "foreign" \/ (tgt.kind = "copied" /\ tgt.owner # w.cp.uid)
     THEN Finish(TRUE) /\ UNCHANGED tgt
     ELSE /\ tgt' = [kind |-> "copied", owner |-> w.cp.uid]
          /\ pc' = "kcTrue" /\ UNCHANGED <<timer, w>>
  /\ UNCHANGED <<hist, clusterSeen, rgdOK, inst, view, src, watch, instEvent,
                 queued, env, fails>>

\* reconcileKubeconfigSecretCondition
ReportKubeconfig ==
  /\ pc \in {"kcTrue", "kcFalse"}
  /\ LET after == [w.cp EXCEPT !.conds.kc = IF pc = "kcTrue" THEN "True" ELSE "False"]
     IN  /\ SendPatch(after)
         /\ w' = [w EXCEPT !.cp = Patched(after),
                           !.kc = IF pc = "kcTrue" THEN "ok" ELSE "requeue"]
  /\ pc' = "endpoint"
  /\ UNCHANGED <<clusterSeen, rgdOK, inst, view, src, tgt, queueVars, env, fails>>

\* Mutated forms of PatchEndpoint: the endpoint is not parsed; the base of the
\* patch is taken after the assignment, so that the patch is empty.
PatchEndpointUnparsed ==
  /\ pc = "endpoint"
  /\ LET after == [w.cp EXCEPT !.ep = w.st.ep]
     IN  SendPatch(after) /\ w' = [w EXCEPT !.cp = Patched(after)]
  /\ pc' = "initialized"
  /\ UNCHANGED <<clusterSeen, rgdOK, inst, view, src, tgt, queueVars, env, fails>>
PatchEndpointEmpty ==
  /\ pc = "endpoint"
  /\ SendPatch(w.cp) /\ w' = [w EXCEPT !.cp = Patched(w.cp)]
  /\ pc' = "initialized"
  /\ UNCHANGED <<clusterSeen, rgdOK, inst, view, src, tgt, queueVars, env, fails>>

\* Mutated form of PatchEndpoint: an endpoint that moves is not followed.
PatchEndpointOnce ==
  /\ pc = "endpoint"
  /\ IF w.st.ep \in Endpoints /\ w.cp.ep = None
     THEN LET after == [w.cp EXCEPT !.ep = w.st.ep]
          IN  SendPatch(after) /\ w' = [w EXCEPT !.cp = Patched(after)]
     ELSE UNCHANGED <<hist, w>>
  /\ pc' = "initialized"
  /\ UNCHANGED <<clusterSeen, rgdOK, inst, view, src, tgt, queueVars, env, fails>>

\* spec.controlPlaneEndpoint
PatchEndpoint ==
  /\ pc = "endpoint"
  /\ IF w.st.ep \in Endpoints /\ w.cp.ep # w.st.ep
     THEN LET after == [w.cp EXCEPT !.ep = w.st.ep]
          IN  SendPatch(after) /\ w' = [w EXCEPT !.cp = Patched(after)]
     ELSE UNCHANGED <<hist, w>>
  /\ pc' = "initialized"
  /\ UNCHANGED <<clusterSeen, rgdOK, inst, view, src, tgt, queueVars, env, fails>>

BackendInitialized ==
  IF Backend = "kubeadm" THEN w.st.init ELSE w.st.ep \in Endpoints

\* status.initialization.controlPlaneInitialized
PatchInitialized ==
  /\ pc = "initialized"
  /\ IF BackendInitialized /\ ~w.cp.init
     THEN LET after == [w.cp EXCEPT !.init = TRUE]
          IN  SendPatch(after) /\ w' = [w EXCEPT !.cp = Patched(after)]
     ELSE UNCHANGED <<hist, w>>
  /\ pc' = "conditions"
  /\ UNCHANGED <<clusterSeen, rgdOK, inst, view, src, tgt, queueVars, env, fails>>

\* Mutated form of ControlPlaneReady: a known endpoint is taken for ready.
ControlPlaneReadyEarly(st) == st.ep \in Endpoints

ControlPlaneReady(st) == st.ready /\ st.ep \in Endpoints
OverallReady == ControlPlaneReady(w.st) /\ w.kc # "requeue"

\* Mutated forms of Result: the watch error, the kubeconfig wait or every wait
\* is dropped.
ResultNoWatchErr == ~ControlPlaneReady(w.st) \/ w.kc = "requeue"
ResultNoKubeconfig == ~ControlPlaneReady(w.st) \/ w.watchErr
ResultOnlyWatchErr == w.watchErr

\* The ctrl.Result at the end of Reconcile: is there a RequeueAfter?
Result == ~ControlPlaneReady(w.st) \/ w.kc = "requeue" \/ w.watchErr

\* reconcileConditionsAndFailure and the end of Reconcile.
PatchConditions ==
  /\ pc = "conditions"
  /\ SendPatch(ConditionsAndFailure(w.cp, OverallReady, w.st.terminal \/ w.st.ep = "bad"))
  /\ Finish(Result)
  /\ UNCHANGED <<clusterSeen, rgdOK, inst, view, src, tgt, watch, instEvent,
                 queued, env, fails>>

\* Any other call may fail: the error is returned and the request retried.
CallFails ==
  /\ pc \notin {"idle", "resolve", "watch", "kubeconfig"} /\ fails > 0
  /\ fails' = fails - 1
  /\ Finish(TRUE)
  /\ UNCHANGED <<serverVars, watch, instEvent, queued, env>>

\* A patch of an object that is gone fails with NotFound.
PatchNotFound ==
  /\ pc \in {"invalid", "kcTrue", "kcFalse", "endpoint", "initialized", "conditions"}
  /\ ~Api.exists
  /\ Finish(TRUE)
  /\ UNCHANGED <<serverVars, watch, instEvent, queued, env, fails>>

\* The manager restarts: caches are listed again, every object is enqueued.
Restart ==
  /\ fails > 0 /\ fails' = fails - 1
  /\ pc' = "idle" /\ w' = NoLocal /\ hist' = <<Api>> /\ view' = inst
  /\ watch' = FALSE /\ instEvent' = FALSE /\ queued' = TRUE /\ timer' = FALSE
  /\ UNCHANGED <<clusterSeen, rgdOK, inst, src, tgt, env>>

Worker ==
  \/ StartReconcile \/ ResolveRGD \/ ReportRGDFailure \/ EnsureWatch
  \/ ReportInvalid \/ SyncBackend \/ CheckKubeconfig \/ WriteTarget
  \/ ReportKubeconfig \/ PatchEndpoint \/ PatchInitialized \/ PatchConditions
  \/ PatchNotFound

-----------------------------------------------------------------------------
(* Queue and informers *)

\* The object's next version and, of the kubeadm backend, the latest one arrive in
\* the informer caches; the facade's queue hears of the object only.
CacheAdvance ==
  /\ hist' \in {hist, Tail(hist)} /\ hist' # <<>>
  /\ view' \in {view, inst} /\ (Backend # "kubeadm" => view' = view)
  /\ <<hist', view'>> # <<hist, view>>
  /\ queued' = (queued \/ hist' # hist)
  /\ UNCHANGED <<clusterSeen, rgdOK, inst, src, tgt, watch, instEvent,
                 timer, pc, w, env, fails>>

\* The dynamic watcher hands a coalesced event to the queue (DynamicWatch).
DeliverEvent ==
  /\ instEvent
  /\ instEvent' = FALSE /\ queued' = TRUE
  /\ UNCHANGED <<serverVars, watch, timer, pc, w, env, fails>>

TimerFires ==
  /\ timer
  /\ timer' = FALSE /\ queued' = TRUE
  /\ UNCHANGED <<serverVars, watch, instEvent, pc, w, env, fails>>

Delivery == CacheAdvance \/ DeliverEvent \/ TimerFires

-----------------------------------------------------------------------------
(* The environment *)

Changes == env > 0 /\ env' = env - 1

\* The user edits the spec, CAPI sets the owner reference.
EditSpec ==
  /\ Changes /\ Api.exists
  /\ \/ May("version") /\ \E v \in Versions : Write([Api EXCEPT !.version = v])
     \/ May("cfg") /\ \E c \in {"valid", "badSpec", "noBackend"} :
                         Write([Api EXCEPT !.cfg = c])
     \/ May("owner") /\ Write([Api EXCEPT !.owner = TRUE])
  /\ hist' # hist
  /\ UNCHANGED <<clusterSeen, rgdOK, inst, view, src, tgt, queueVars, pc, w, fails>>

DeleteCP ==
  /\ Changes /\ Api.exists /\ Api.uid < MaxUid
  /\ Write([Api EXCEPT !.exists = FALSE])
  /\ UNCHANGED <<clusterSeen, rgdOK, inst, view, src, tgt, queueVars, pc, w, fails>>

RecreateCP ==
  /\ ~Api.exists /\ Api.uid < MaxUid
  /\ Write(NewCP(Api.uid + 1, Api.version))
  /\ UNCHANGED <<clusterSeen, rgdOK, inst, view, src, tgt, queueVars, pc, w, env, fails>>

\* The garbage collector removes objects whose controller is gone.
CollectGarbage ==
  LET orphan(o) == ~Api.exists \/ o.owner # Api.uid IN
  /\ \/ /\ inst.exists /\ orphan(inst)
        /\ inst' = NoInst /\ instEvent' = (instEvent \/ watch) /\ UNCHANGED tgt
     \/ /\ tgt.kind = "copied" /\ orphan(tgt)
        /\ tgt' = NoSecret /\ UNCHANGED <<inst, instEvent>>
  /\ UNCHANGED <<hist, clusterSeen, rgdOK, view, src, watch, queued, timer, pc, w,
                 env, fails>>

\* The backend's own controller reports a status for the spec it sees, or the
\* object is deleted behind the facade's back.
BackendReports ==
  /\ Changes /\ inst.exists
  /\ \/ /\ May("backend")
        /\ \E s \in Statuses : inst' = [inst EXCEPT !.st = s, !.obs = inst.ver]
     \/ May("lost") /\ inst' = NoInst
  /\ inst' # inst
  /\ instEvent' = (instEvent \/ watch)
  /\ UNCHANGED <<hist, clusterSeen, rgdOK, view, src, tgt, watch, queued, timer,
                 pc, w, fails>>

\* Things the facade reads but does not watch.
UnwatchedChange ==
  /\ Changes
  /\ \/ May("cluster") /\ clusterSeen' = TRUE /\ UNCHANGED <<rgdOK, src, tgt>>
     \/ May("rgd") /\ rgdOK' = ~rgdOK /\ UNCHANGED <<clusterSeen, src, tgt>>
     \/ /\ May("source") /\ src' \in {"absent", "invalid", "good"}
        /\ UNCHANGED <<clusterSeen, rgdOK, tgt>>
     \/ /\ May("target") /\ tgt' \in {NoSecret, [kind |-> "foreign", owner |-> 0]}
        /\ tgt.kind # "copied" /\ UNCHANGED <<clusterSeen, rgdOK, src>>
  /\ <<clusterSeen, rgdOK, src, tgt>>' # <<clusterSeen, rgdOK, src, tgt>>
  /\ UNCHANGED <<hist, inst, view, queueVars, pc, w, fails>>

Environment ==
  \/ EditSpec \/ DeleteCP \/ RecreateCP \/ CollectGarbage \/ BackendReports
  \/ UnwatchedChange

Next == Worker \/ CallFails \/ Restart \/ Delivery \/ Environment

Spec == Init /\ [][Next]_vars

(***************************************************************************)
(* The work queue hands out every queued request, informers and timers     *)
(* deliver, the garbage collector runs.  Nothing is assumed of users,      *)
(* backends or failures; both are finite by MaxEnv and MaxFail.            *)
(***************************************************************************)
Fairness ==
  /\ WF_vars(Worker)
  /\ WF_vars(CacheAdvance /\ hist' # hist) /\ WF_vars(CacheAdvance /\ view' # view)
  /\ WF_vars(DeliverEvent) /\ WF_vars(TimerFires)
  /\ WF_vars(CollectGarbage) /\ WF_vars(RecreateCP)

FairSpec == Spec /\ Fairness

-----------------------------------------------------------------------------
(* Properties *)

\* status.initialization.controlPlaneInitialized is a latch: no patch from a
\* stale copy and no whole-status Update takes it back for the same object.
InitializedIsLatched ==
  [][(Api.init /\ Api.uid = Api'.uid) => Api'.init]_vars

\* A published Ready=True never precedes what the CAPI contract derives from it:
\* the endpoint is in the spec and the control plane is marked initialized,
\* although the three are written by three patches from a possibly stale copy.
ReadyIsBacked ==
  Api.conds.ready = "True" => Api.init /\ Api.ep \in Endpoints

Published == INSTANCE ControlPlaneContract WITH
  endpoint <- {Api.ep} \ {None}, initialized <- Api.init, ready <- Api.conds.ready = "True"

\* The facade keeps the contract of a control plane at every write, provided its
\* backend does and the object is not made anew under its name.
KeepsContract == Published!Spec

\* Nothing is left that would make the worker run again.
Settled ==
  /\ pc = "idle" /\ ~queued /\ ~timer /\ ~instEvent
  /\ Len(hist) = 1 /\ Api.exists

\* The published object is the projection of the backend as it is now.
Projected ==
  /\ inst.exists /\ inst.owner = Api.uid /\ inst.ver = Api.version
  /\ ControlPlaneReady(inst.st) /\ Api.conds.ready = "True" /\ ~Api.failed
  /\ Api.ep = inst.st.ep /\ Api.init /\ Api.sver = Api.version
  /\ inst.st.ref # None /\ Backend # "kubeadm"
       => Api.conds.kc = "True" /\ tgt = [kind |-> "copied", owner |-> Api.uid]

\* No lost wakeup: when the controller has come to rest, the published status is
\* the projection of the backend's present state, or reports the invalid spec.
SettledIsProjected ==
  Settled =>
    IF Api.cfg = "badSpec" /\ Backend # "kubeadm"
    THEN Api.conds.ready = "False" /\ Api.failed
    ELSE Projected

\* Reconcile gets as far as reconcileConditionsAndFailure.
Reportable ==
  /\ Backend = "kro" => rgdOK
  /\ ~inst.st.malformed
  /\ Backend # "kubeadm" /\ inst.st.ref # None => tgt.kind # "foreign"

\* The published conditions say of the backend what it last reported.
Reported ==
  IF Api.cfg = "noBackend" \/ (Api.cfg = "badSpec" /\ Backend # "kubeadm")
  THEN Api.conds.ready = "False" /\ Api.failed
  ELSE /\ ~ControlPlaneReady(inst.st) =>
            /\ Api.conds.ready = "False"
            /\ Api.failed = (inst.st.terminal \/ inst.st.ep = "bad")
       /\ ControlPlaneReady(inst.st)
            /\ (inst.st.ref = None \/ (inst.st.ref = "same" /\ src = "good"
                                        /\ Api.owner /\ clusterSeen)) => Projected

\* Whatever happened before, once the environment and the failures stop the
\* published status converges to what the backend reports, good or bad.
Converges == <>[](Api.exists /\ (Reportable => Reported))

(* Statements of the documentation that the code does not keep (README) *)

\* status.version changes only to a version the backend's status is about.
VersionIsObserved == [][Api'.sver # Api.sver => Api'.sver = inst.obs]_vars

\* controlPlaneInitialized is set when the endpoint is known and valid.
InitializedNeedsEndpoint == Api.init => Api.ep \in Endpoints

\* The facade passes the Cluster's identity on to the backend it made.
IdentityIsPassedOn == Settled /\ Projected /\ Api.owner /\ clusterSeen => inst.ident
=============================================================================
