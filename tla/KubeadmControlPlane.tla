------------------------ MODULE KubeadmControlPlane ------------------------
(***************************************************************************)
(* The Kany8sKubeadmControlPlane reconciler: from an owner Cluster and its *)
(* infrastructure endpoint it makes certificates, the kubeconfig Secret, a *)
(* KubeadmConfig, an infrastructure machine and a Machine, and publishes   *)
(* endpoint, initialization and readiness.                                 *)
(*                                                                         *)
(* One object, one worker, every API call an action.  The object itself,   *)
(* KubeadmConfig and Machine are typed and read from informer caches       *)
(* (hist[1], configView, machineView); Secrets, the infrastructure cluster *)
(* and machine are read live.  Only the object itself is watched.  Patches *)
(* are MergeFrom patches from the copy that was read.                      *)
(***************************************************************************)
EXTENDS Naturals, Sequences

CONSTANTS
  Versions,   \* Kubernetes versions, numbers
  Endpoints,  \* endpoints the infrastructure may report
  Changing,   \* kinds of change the environment may make; the rest is in place
  MaxLag,     \* bound: versions of the object the cache can be behind, + 1
  MaxEnv,     \* bound: changes the environment makes
  MaxFail     \* bound: failed API calls and manager restarts

None == "none"

ChangeKinds == {"upgrade", "rollback", "link", "cluster", "infra", "template", "probe",
                "machine"}

May(kind) == kind \in Changing

ASSUME ConstantsAssumption ==
  /\ Versions # {} /\ Versions \subseteq Nat \ {0}
  /\ None \notin Endpoints /\ "absent" \notin Endpoints /\ Changing \subseteq ChangeKinds
  /\ MaxLag \in Nat /\ MaxLag > 1 /\ MaxEnv \in Nat /\ MaxFail \in Nat

VARIABLES
  hist,        \* versions of the object from cache to server
  cluster,     \* the owner Cluster is in the cache
  infra,       \* the infrastructure cluster: "absent", or its endpoint or None
  template,    \* the machine template can be resolved
  probe,       \* RemoteConnectionProbe of the Cluster
  ca,          \* the cluster's certificates exist
  kubeconfig,  \* the server in the kubeconfig Secret, None without a Secret
  config, configView,    \* KubeadmConfig and its cached copy: its endpoint
  infraMachine,          \* the infrastructure machine exists
  machine, machineView,  \* Machine and its cached copy: version (0: absent), ready
  queued, timer,
  pc, w,       \* the worker's next call and its local variables
  env, fails

cpVars == <<hist>>
envVars == <<cluster, infra, template, probe>>
madeVars == <<ca, kubeconfig, config, configView, infraMachine, machine, machineView>>
vars == <<cpVars, envVars, madeVars, queued, timer, pc, w, env, fails>>

\* linked: the object has the owner reference to the Cluster.
CP == [version: Versions, linked: BOOLEAN, ep: Endpoints \cup {None}, init: BOOLEAN,
       sver: Versions \cup {0},
       conds: [ready: {"absent", "True", "False"}, owner: {"absent", "True", "False"}]]
NewCP(v, linked) ==
  [version |-> v, linked |-> linked, ep |-> None, init |-> FALSE, sver |-> 0,
   conds |-> [ready |-> "absent", owner |-> "absent"]]
Machine == [ver: Versions \cup {0}, ready: BOOLEAN]
NoMachine == [ver |-> 0, ready |-> FALSE]

\* cp, owner (resolved) and its probe condition, and the endpoint read.
Local == [cp: CP, owner: BOOLEAN, probe: BOOLEAN, ep: Endpoints \cup {None}]
NoLocal == [cp |-> NewCP(CHOOSE v \in Versions : TRUE, FALSE), owner |-> FALSE,
            probe |-> FALSE, ep |-> None]

Api == hist[Len(hist)]

TypeOK ==
  /\ hist \in Seq(CP) /\ Len(hist) \in 1..MaxLag
  /\ cluster \in BOOLEAN /\ template \in BOOLEAN /\ probe \in BOOLEAN
  /\ infra \in Endpoints \cup {None, "absent"}
  /\ ca \in BOOLEAN /\ infraMachine \in BOOLEAN
  /\ kubeconfig \in Endpoints \cup {None}
  /\ config \in Endpoints \cup {None} /\ configView \in Endpoints \cup {None}
  /\ machine \in Machine /\ machineView \in Machine
  /\ queued \in BOOLEAN /\ timer \in BOOLEAN
  /\ pc \in {"idle", "owner", "certs", "infra", "notReady", "endpoint", "kubeconfig",
             "config", "infraMachine", "machine", "initialized", "ready"}
  /\ w \in Local /\ env \in 0..MaxEnv /\ fails \in 0..MaxFail

Init ==
  /\ hist \in {<<NewCP(v, ~May("link"))>> : v \in Versions}
  /\ cluster = ~May("cluster") /\ template = ~May("template") /\ probe = FALSE
  /\ infra \in (IF May("infra") THEN {"absent"} ELSE Endpoints)
  /\ ca = FALSE /\ kubeconfig = None /\ config = None /\ configView = None
  /\ infraMachine = FALSE /\ machine = NoMachine /\ machineView = NoMachine
  /\ queued = TRUE /\ timer = FALSE /\ pc = "idle" /\ w = NoLocal
  /\ env = MaxEnv /\ fails = MaxFail

-----------------------------------------------------------------------------
(* Calls *)

Write(new) ==
  IF new = Api THEN UNCHANGED hist
  ELSE Len(hist) < MaxLag /\ hist' = Append(hist, new)

Merged(b, a, s) == IF a # b THEN a ELSE s

\* client.MergeFrom(w.cp) applied by the server; w.cp becomes the response.
Patched(after) ==
  [Api EXCEPT !.ep = Merged(w.cp.ep, after.ep, Api.ep),
              !.init = Merged(w.cp.init, after.init, Api.init),
              !.sver = Merged(w.cp.sver, after.sver, Api.sver),
              !.conds = Merged(w.cp.conds, after.conds, Api.conds)]
Patch(after) == Write(Patched(after)) /\ w' = [w EXCEPT !.cp = Patched(after)]

Finish(requeue) == pc' = "idle" /\ w' = NoLocal /\ timer' = (timer \/ requeue)

\* Get, Create if the cache has nothing (AlreadyExists is success), else Patch
\* with the difference between the cached copy and the wanted one.
CreateOrPatch(absent, view, server, wanted) ==
  IF view = absent
  THEN IF server = absent THEN wanted ELSE server
  ELSE Merged(view, wanted, server)

-----------------------------------------------------------------------------
(* Reconcile *)

\* r.Get and GetOwnerCluster: the reference and the Cluster it names.
StartReconcile ==
  /\ pc = "idle" /\ queued /\ queued' = FALSE
  /\ w' = [cp |-> hist[1], owner |-> hist[1].linked /\ cluster, probe |-> probe, ep |-> None]
  /\ pc' = "owner"
  /\ UNCHANGED <<cpVars, envVars, madeVars, timer, env, fails>>

\* reconcileOwnerClusterResolvedCondition, and the returns without an owner.
PatchOwner ==
  /\ pc = "owner"
  /\ LET after == [w.cp EXCEPT !.conds.owner = IF w.owner THEN "True" ELSE "False"] IN
     IF w.owner THEN Patch(after) /\ pc' = "certs" /\ UNCHANGED timer
     ELSE Write(Patched(after)) /\ Finish(TRUE)
  /\ UNCHANGED <<envVars, madeVars, queued, env, fails>>

\* certificates.LookupOrGenerate
Certificates ==
  /\ pc = "certs" /\ pc' = "infra" /\ ca' = TRUE
  /\ UNCHANGED <<cpVars, envVars, kubeconfig, config, configView, infraMachine, machine,
                 machineView, queued, timer, w, env, fails>>

\* Mutated form of ReadInfra: the missing reference is not noticed.
ReadInfraUnchecked ==
  /\ pc = "infra"
  /\ w' = [w EXCEPT !.ep = infra]
  /\ pc' = IF infra = None THEN "notReady" ELSE "endpoint"
  /\ UNCHANGED <<cpVars, envVars, madeVars, queued, timer, env, fails>>

\* The infrastructure cluster and its spec.controlPlaneEndpoint.
ReadInfra ==
  /\ pc = "infra"
  /\ IF infra = "absent" THEN Finish(TRUE)
     ELSE /\ w' = [w EXCEPT !.ep = infra]
          /\ pc' = IF infra = None THEN "notReady" ELSE "endpoint"
          /\ UNCHANGED timer
  /\ UNCHANGED <<cpVars, envVars, madeVars, queued, env, fails>>

\* Mutated form of NotReady: no RequeueAfter.
NotReadyOnce ==
  /\ pc = "notReady"
  /\ Write(Patched([w.cp EXCEPT !.conds.ready = "False"]))
  /\ Finish(FALSE)
  /\ UNCHANGED <<envVars, madeVars, queued, env, fails>>

\* requeueNotReady
NotReady ==
  /\ pc = "notReady"
  /\ Write(Patched([w.cp EXCEPT !.conds.ready = "False"]))
  /\ Finish(TRUE)
  /\ UNCHANGED <<envVars, madeVars, queued, env, fails>>

PatchEndpoint ==
  /\ pc = "endpoint" /\ pc' = "kubeconfig"
  /\ IF w.cp.ep # w.ep THEN Patch([w.cp EXCEPT !.ep = w.ep]) ELSE UNCHANGED <<hist, w>>
  /\ UNCHANGED <<envVars, madeVars, queued, timer, env, fails>>

\* reconcileClusterKubeconfigSecret: made from the CA if there is none or its
\* server is another one.
WriteKubeconfig ==
  /\ pc = "kubeconfig" /\ pc' = "config" /\ kubeconfig' = w.ep
  /\ UNCHANGED <<cpVars, envVars, ca, config, configView, infraMachine, machine,
                 machineView, queued, timer, w, env, fails>>

\* reconcileInitialControlPlaneKubeadmConfig
WriteConfig ==
  /\ pc = "config" /\ pc' = "infraMachine"
  /\ config' = CreateOrPatch(None, configView, config, w.ep)
  /\ UNCHANGED <<cpVars, envVars, ca, kubeconfig, configView, infraMachine, machine,
                 machineView, queued, timer, w, env, fails>>

\* Mutated form of WriteInfraMachine: its error is not returned.
WriteInfraMachineIgnored ==
  /\ pc = "infraMachine" /\ pc' = "machine"
  /\ infraMachine' = (infraMachine \/ template) /\ UNCHANGED <<w, timer>>
  /\ UNCHANGED <<cpVars, envVars, ca, kubeconfig, config, configView, machine,
                 machineView, queued, env, fails>>

\* reconcileInfraMachine: an error without a template.
WriteInfraMachine ==
  /\ pc = "infraMachine"
  /\ IF template
     THEN pc' = "machine" /\ infraMachine' = TRUE /\ UNCHANGED <<w, timer>>
     ELSE Finish(TRUE) /\ UNCHANGED infraMachine
  /\ UNCHANGED <<cpVars, envVars, ca, kubeconfig, config, configView, machine,
                 machineView, queued, env, fails>>

\* Mutated form of WriteMachine: an existing Machine is left alone.
WriteMachineOnce ==
  /\ pc = "machine" /\ pc' = "initialized"
  /\ machine' = [machine EXCEPT !.ver = IF @ = 0 THEN w.cp.version ELSE @]
  /\ UNCHANGED <<cpVars, envVars, ca, kubeconfig, config, configView, infraMachine,
                 machineView, queued, timer, w, env, fails>>

\* reconcileControlPlaneMachine
WriteMachine ==
  /\ pc = "machine" /\ pc' = "initialized"
  /\ machine' = [machine EXCEPT !.ver =
                   CreateOrPatch(0, machineView.ver, machine.ver, w.cp.version)]
  /\ UNCHANGED <<cpVars, envVars, ca, kubeconfig, config, configView, infraMachine,
                 machineView, queued, timer, w, env, fails>>

\* Mutated form of ReconcileInitialized: not initialized is not noticed.
ReconcileInitializedAlways ==
  /\ pc = "initialized" /\ pc' = "ready"
  /\ IF ~w.cp.init /\ (w.probe \/ machineView.ready)
     THEN Patch([w.cp EXCEPT !.init = TRUE])
     ELSE UNCHANGED <<hist, w>>
  /\ UNCHANGED <<envVars, madeVars, queued, timer, env, fails>>

\* reconcileReadiness up to its last step: the probe, or else a ready Machine.
ReconcileInitialized ==
  /\ pc = "initialized"
  /\ LET reached == w.probe \/ machineView.ready IN
     /\ IF ~w.cp.init /\ reached
        THEN Patch([w.cp EXCEPT !.init = TRUE])
        ELSE UNCHANGED <<hist, w>>
     /\ pc' = IF w.cp.init \/ reached THEN "ready" ELSE "notReady"
  /\ UNCHANGED <<envVars, madeVars, queued, timer, env, fails>>

\* reconcileReadyConditions with True.
PatchReady ==
  /\ pc = "ready"
  /\ Write(Patched([w.cp EXCEPT !.conds.ready = "True", !.sver = w.cp.version]))
  /\ Finish(FALSE)
  /\ UNCHANGED <<envVars, madeVars, queued, env, fails>>

\* A call fails: an error or a RequeueAfter, either way a retry.
CallFails ==
  /\ pc # "idle" /\ fails > 0 /\ fails' = fails - 1
  /\ Finish(TRUE)
  /\ UNCHANGED <<cpVars, envVars, madeVars, queued, env>>

Restart ==
  /\ fails > 0 /\ fails' = fails - 1
  /\ hist' = <<Api>> /\ configView' = config /\ machineView' = machine
  /\ queued' = TRUE /\ timer' = FALSE /\ pc' = "idle" /\ w' = NoLocal
  /\ UNCHANGED <<envVars, ca, kubeconfig, config, infraMachine, machine, env>>

Worker ==
  \/ StartReconcile \/ PatchOwner \/ Certificates \/ ReadInfra \/ NotReady
  \/ PatchEndpoint \/ WriteKubeconfig \/ WriteConfig \/ WriteInfraMachine
  \/ WriteMachine \/ ReconcileInitialized \/ PatchReady

-----------------------------------------------------------------------------
(* Caches, queue and environment *)

CacheAdvance ==
  /\ Len(hist) > 1 /\ hist' = Tail(hist) /\ queued' = TRUE
  /\ UNCHANGED <<envVars, madeVars, timer, pc, w, env, fails>>

\* Caches of objects the reconciler reads but does not watch.
ViewAdvance ==
  /\ <<configView, machineView>> # <<config, machine>>
  /\ \/ configView' = config /\ UNCHANGED machineView
     \/ machineView' = machine /\ UNCHANGED configView
  /\ UNCHANGED <<cpVars, envVars, ca, kubeconfig, config, infraMachine, machine, queued,
                 timer, pc, w, env, fails>>

TimerFires ==
  /\ timer /\ timer' = FALSE /\ queued' = TRUE
  /\ UNCHANGED <<cpVars, envVars, madeVars, pc, w, env, fails>>

Changes == env > 0 /\ env' = env - 1

\* The facade (or a user) sets another version or the reference to the Cluster.
EditObject ==
  /\ Changes
  /\ \/ \E v \in Versions :
          /\ \/ v > Api.version /\ May("upgrade")
             \/ v < Api.version /\ May("rollback")
          /\ Write([Api EXCEPT !.version = v])
     \/ May("link") /\ ~Api.linked /\ Write([Api EXCEPT !.linked = TRUE])
  /\ UNCHANGED <<envVars, madeVars, queued, timer, pc, w, fails>>

\* The Cluster appears, the infrastructure appears and gets its endpoint (which
\* it then keeps, by the CAPI contract), the template appears, the control plane
\* answers, the Machine becomes ready or not.  A control plane takes longer to
\* come up than the cache to show its Machine.
WorldChanges ==
  /\ Changes
  /\ \/ May("cluster") /\ ~cluster /\ cluster' = TRUE
        /\ UNCHANGED <<infra, template, probe, machine>>
     \/ May("infra") /\ infra \notin Endpoints /\ infra' \in Endpoints \cup {None}
        /\ UNCHANGED <<cluster, template, probe, machine>>
     \/ May("template") /\ ~template /\ template' = TRUE
        /\ UNCHANGED <<cluster, infra, probe, machine>>
     \/ May("probe") /\ ~probe /\ machineView.ver # 0 /\ probe' = TRUE
        /\ UNCHANGED <<cluster, infra, template, machine>>
     \/ May("machine") /\ machineView.ver # 0 /\ machine' = [machine EXCEPT !.ready = ~@]
        /\ UNCHANGED envVars
  /\ UNCHANGED <<cpVars, ca, kubeconfig, config, configView, infraMachine, machineView,
                 queued, timer, pc, w, fails>>

Next ==
  \/ Worker \/ CallFails \/ Restart
  \/ CacheAdvance \/ ViewAdvance \/ TimerFires
  \/ EditObject \/ WorldChanges

Spec == Init /\ [][Next]_vars

\* The queue hands out requests, caches and timers deliver; nothing is assumed
\* of the environment.
Fairness ==
  WF_vars(Worker) /\ WF_vars(CacheAdvance) /\ WF_vars(ViewAdvance) /\ WF_vars(TimerFires)
FairSpec == Spec /\ Fairness

-----------------------------------------------------------------------------
(* Properties *)

\* What the facade assumes of this backend (ControlPlane!KubeadmAssumption): a
\* published Ready=True comes with the initialized latch and the endpoint.
ReadyIsInitialized ==
  Api.conds.ready = "True" => Api.init /\ Api.ep \in Endpoints

\* The Machine, from which CAPI starts to build, is not created before all it
\* refers to and needs: certificates, kubeconfig, bootstrap configuration and
\* infrastructure machine.
MachineHasParts ==
  machine.ver # 0 => ca /\ kubeconfig # None /\ config # None /\ infraMachine

Settled == pc = "idle" /\ ~queued /\ ~timer /\ Len(hist) = 1

\* At rest, everything made agrees with the object: it is ready, kubeconfig and
\* bootstrap configuration lead to its endpoint, the Machine has its version.
SettledIsBuilt ==
  Settled =>
    /\ Api.conds = [ready |-> "True", owner |-> "True"]
    /\ Api.ep = infra /\ kubeconfig = infra /\ config = infra
    /\ machine.ver = Api.version /\ Api.sver = Api.version

Published == INSTANCE ControlPlaneContract WITH
  endpoint <- {Api.ep} \ {None}, initialized <- Api.init, ready <- Api.conds.ready = "True"

\* The object keeps the contract of a control plane at every write, although each
\* is the difference between an outdated copy and the wanted object.
KeepsContract == Published!Spec

\* Once everything it waits for is there, the control plane becomes ready.
BecomesReady ==
  <>[](cluster /\ template /\ infra \in Endpoints /\ (probe \/ machine.ready)
         => Api.conds.ready = "True")

\* status.version is a version the control plane Machine was told to run.
VersionIsMachines == Settled => Api.sver = machine.ver
=============================================================================
