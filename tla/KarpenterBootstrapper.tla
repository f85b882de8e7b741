------------------------ MODULE KarpenterBootstrapper ------------------------
(***************************************************************************)
(* The EKS Karpenter bootstrapper.  For a Cluster that carries the label   *)
(* it makes a chain of managed resources in order, lets Flux install       *)
(* Karpenter, restarts the Deployments whose Pods are older than their     *)
(* Fargate profile, and, when the Cluster is deleted, holds a finalizer    *)
(* until the nodes Karpenter launched are gone.                            *)
(*                                                                         *)
(* One Cluster, one worker, every call that can fail or be interfered with *)
(* an action.  The Cluster is read from a cache (log, oldest version       *)
(* first); the other objects are unstructured and read live.  A Patch is   *)
(* a merge patch against the copy at hand: a list (finalizers, topology    *)
(* variables) is replaced as a whole.                                      *)
(***************************************************************************)
EXTENDS Integers, Sequences

CONSTANTS
  Chain,     \* OIDC provider, IAM policy and roles, instance profile, AccessEntry
  Instances, \* EC2 instances that Karpenter may launch
  Missings,  \* which optional APIs may not be installed: sets of "flux" and "crs"
  Rotator,   \* does the kubeconfig rotator run for the Cluster?
  Initial,   \* the Clusters to begin with
  Installed, \* whether the bootstrapper has already been through with them
  Reporting, \* what is reported later: a subset of {"ack", "profiles", "kubeconfig"};
             \* the rest is in place from the start
  Edits,     \* what users change: a subset of {"delete", "toggle", "takeover", "object"}
  MaxLag,    \* bound: versions of the Cluster that a run may be behind
  MaxEnv,    \* bound: changes users make
  MaxFail    \* bound: calls that fail, and restarts of the manager

ASSUME ConstantsAssumption ==
  /\ Chain \in Seq(STRING) /\ Missings \subseteq SUBSET {"flux", "crs"}
  /\ Installed \subseteq BOOLEAN /\ Reporting \subseteq {"ack", "profiles", "kubeconfig"}
  /\ Edits \subseteq {"delete", "toggle", "takeover", "object"}
  /\ Rotator \in BOOLEAN /\ MaxLag \in Nat /\ MaxEnv \in Nat /\ MaxFail \in Nat

\* The managed objects in their order, and the step that reads the profiles.
Steps == <<"sg">> \o Chain \o <<"profiles", "oci", "hr", "cm", "crs">>
Resources == {Steps[k] : k \in DOMAIN Steps} \ {"profiles"}
Deployments == {"coredns", "karpenter"}

VARIABLES
  cluster,    \* the Cluster on the API server
  log,        \* its versions from the cached one on
  queued, timer, \* the work queue: a request, the earliest delayed request
  pc, w,      \* the worker's next call and its local variables
  res,        \* the managed objects: absent, foreign (not ours) or managed
  suspended,  \* Flux objects with spec.suspend
  missing,    \* optional APIs that are not installed
  sgID, hrReady, fargate, prereq, kubeconfig, ack, \* what others report
  deploy,     \* the workload's Deployments: Pods newer than their profile?
  fluxRun,    \* a Helm run is in flight
  nodepool,   \* NodePool and EC2NodeClass are applied
  inst, eni,  \* EC2 instances and their network interfaces
  env, fails

clusterVars == <<cluster, log>>
workerVars == <<queued, timer, pc, w>>
reported == <<missing, sgID, hrReady, fargate, prereq, kubeconfig, ack>>
workload == <<deploy, fluxRun, nodepool, inst, eni>>
budget == <<env, fails>>
vars == <<clusterVars, workerVars, res, suspended, reported, workload, budget>>

Cluster == [exists: BOOLEAN, deleting: BOOLEAN, fin: SUBSET {"capi", "karpenter"},
            enabled: BOOLEAN, takeover: BOOLEAN, label: BOOLEAN, region: BOOLEAN,
            groups: [node: {"unset", "empty", "set"}, cp: {"unset", "set"}],
            restarted: SUBSET Deployments]

\* The Cluster at hand, the next step, the object that was read, the requeue
\* decided so far, which profiles are ACTIVE, whether Karpenter is installed, the
\* Deployments to restart, and, on deletion, the region and the instances to
\* terminate.
Local == [cl: Cluster, k: 0..Len(Steps), got: {"absent", "foreign", "managed"}, short: BOOLEAN,
          active: SUBSET Deployments, flux: BOOLEAN, todo: SUBSET Deployments,
          region: BOOLEAN, ids: SUBSET Instances, tries: 0..2]

\* Security groups for the nodes: the topology variable, else the one of the
\* control plane.
HasGroups(c) == c.groups.node = "set" \/ (c.groups.node = "unset" /\ c.groups.cp = "set")

TypeOK ==
  /\ cluster \in Cluster /\ log \in Seq(Cluster) /\ log # << >>
  /\ queued \in BOOLEAN /\ timer \in {"none", "short", "steady"}
  /\ w \in Local
  /\ pc \in {"idle", "finalizer", "label", "check", "region", "step", "write", "sgID", "patchNode",
             "patchCP", "propagate", "hrReady", "plan", "restart", "annotate", "finish",
             "suspend", "resolve", "scale", "nodepools", "describe", "terminate", "enis", "release"}
  /\ missing \subseteq {"flux", "crs"}
  /\ res \in [Resources -> {"absent", "foreign", "managed"}] /\ suspended \subseteq {"oci", "hr"}
  /\ sgID \in BOOLEAN /\ hrReady \in BOOLEAN /\ fargate \subseteq Deployments
  /\ prereq \in BOOLEAN /\ kubeconfig \in BOOLEAN /\ ack \in BOOLEAN
  /\ deploy \in [Deployments -> {"absent", "stale", "fresh", "down"}]
  /\ fluxRun \in BOOLEAN /\ nodepool \in BOOLEAN
  /\ inst \in [Instances -> {"none", "running", "shutting", "terminated"}]
  /\ eni \in [Instances -> {"none", "attached", "available"}]
  /\ env \in 0..MaxEnv /\ fails \in 0..MaxFail

NewCluster(takeover, groups) ==
  [exists |-> TRUE, deleting |-> FALSE, fin |-> {}, enabled |-> TRUE, takeover |-> takeover,
   label |-> FALSE, region |-> FALSE, groups |-> groups, restarted |-> {}]

ASSUME InitialAssumption ==
  Initial \subseteq {NewCluster(takeover, groups) : takeover \in BOOLEAN,
                      groups \in [node: {"unset", "empty", "set"}, cp: {"unset", "set"}]}

NoLocal == [cl |-> NewCluster(FALSE, [node |-> "unset", cp |-> "unset"]), k |-> 0, got |-> "absent",
            short |-> FALSE, active |-> {}, flux |-> FALSE, todo |-> {}, region |-> FALSE,
            ids |-> {}, tries |-> 0]

\* A Cluster before the bootstrapper's first run, or at rest after its last.
InitWith(installed) ==
  /\ cluster \in {IF ~installed THEN c
                  ELSE [c EXCEPT !.fin = {"capi", "karpenter"}, !.label = TRUE, !.region = TRUE,
                                 !.groups = [node |-> "set", cp |-> "set"], !.restarted = Deployments]
                  : c \in Initial}
  /\ queued = ~installed /\ timer = IF installed THEN "steady" ELSE "none"
  /\ missing \in (IF installed THEN {{}} ELSE Missings)
  /\ res = [r \in Resources |-> IF installed THEN "managed" ELSE "absent"]
  /\ sgID = installed /\ hrReady = installed /\ nodepool = installed
  /\ prereq = (installed \/ "ack" \notin Reporting) /\ ack = prereq
  /\ kubeconfig = (installed \/ "kubeconfig" \notin Reporting)
  /\ fargate = IF installed \/ "profiles" \notin Reporting THEN Deployments ELSE {}
  /\ deploy = IF installed THEN [d \in Deployments |-> "fresh"]
              ELSE [coredns |-> "stale", karpenter |-> "absent"]

Init ==
  /\ \E installed \in Installed : InitWith(installed)
  /\ log = <<cluster>> /\ pc = "idle" /\ w = NoLocal
  /\ suspended = {} /\ fluxRun = FALSE
  /\ inst = [i \in Instances |-> "none"] /\ eni = [i \in Instances |-> "none"]
  /\ env = MaxEnv /\ fails = MaxFail

-----------------------------------------------------------------------------
(* Calls and results *)

\* The run ends with an error: it is queued again by the rate limiter.
Error == pc' = "idle" /\ w' = NoLocal /\ queued' = TRUE /\ timer' = timer

\* The run ends with RequeueAfter; the queue keeps the earlier time.
Requeue(t) ==
  /\ pc' = "idle" /\ w' = NoLocal /\ queued' = queued
  /\ timer' = IF "short" \in {t, timer} THEN "short" ELSE t

Continue(next, l) ==
  /\ pc' = next /\ w' = IF next = "idle" THEN NoLocal ELSE l
  /\ UNCHANGED <<queued, timer>>

\* After the attempt to stop provisioning: without a region the nodes are not
\* looked for.
AfterStop == IF w.region THEN "describe" ELSE "release"

\* A call fails.  Most errors end the run; those of the security group, of the
\* restarts and of the deletion become a RequeueAfter, and a failure to resolve
\* the region or to stop provisioning is only logged.
Fail ==
  \/ /\ \/ pc \in {"sgID", "plan", "restart", "annotate", "suspend", "describe", "terminate", "enis"}
        \/ pc \in {"step", "write"} /\ w.k = 1
     /\ Requeue("short")
  \/ pc = "resolve" /\ Continue("scale", [w EXCEPT !.region = w.cl.region])
  \/ pc \in {"scale", "nodepools"} /\ Continue(AfterStop, w)
  \/ /\ \/ pc \in {"finalizer", "label", "check", "region", "patchNode", "patchCP", "hrReady", "release"}
        \/ pc \in {"step", "write"} /\ w.k > 1
     /\ Error

Write(c) ==
  LET stored == IF c.deleting /\ c.fin = {} THEN [c EXCEPT !.exists = FALSE] ELSE c IN
  /\ cluster' = stored
  /\ log' = IF stored = cluster THEN log ELSE Append(log, stored)

\* Patch(new) against the copy at hand, and on to next: nothing is sent if nothing
\* changed; the server refuses a finalizer that is new on a Cluster being deleted.
\* The answer replaces the copy.
PatchThen(new, next) ==
  LET merged == [f \in DOMAIN cluster |-> IF new[f] # w.cl[f] THEN new[f] ELSE cluster[f]] IN
  IF new = w.cl
  THEN Continue(next, w) /\ UNCHANGED clusterVars
  ELSE IF cluster.exists /\ (cluster.deleting => merged.fin \subseteq cluster.fin)
  THEN Write(merged) /\ Continue(next, [w EXCEPT !.cl = cluster'])
  ELSE Fail /\ UNCHANGED clusterVars

-----------------------------------------------------------------------------
(* Reconcile: bootstrap *)

\* Mutated form of StartReconcile: the finalizer is left for later.
StartReconcileUnguarded ==
  LET c == Head(log) IN
  /\ pc = "idle" /\ queued /\ Len(log) <= 1 + MaxLag
  /\ queued' = FALSE /\ timer' = timer
  /\ \/ /\ c.exists /\ c.deleting /\ "karpenter" \in c.fin
        /\ pc' = "suspend" /\ w' = [NoLocal EXCEPT !.cl = c]
     \/ /\ c.exists /\ ~c.deleting /\ c.enabled
        /\ pc' = "label" /\ w' = [NoLocal EXCEPT !.cl = c]
     \/ /\ \/ ~c.exists
           \/ c.deleting /\ "karpenter" \notin c.fin
           \/ ~c.deleting /\ ~c.enabled
        /\ UNCHANGED <<pc, w>>
  /\ UNCHANGED <<clusterVars, res, suspended, reported, workload, budget>>

StartReconcile ==
  LET c == Head(log) IN
  /\ pc = "idle" /\ queued /\ Len(log) <= 1 + MaxLag
  /\ queued' = FALSE /\ timer' = timer
  /\ \/ /\ c.exists /\ c.deleting /\ "karpenter" \in c.fin
        /\ pc' = "suspend" /\ w' = [NoLocal EXCEPT !.cl = c]
     \/ /\ c.exists /\ ~c.deleting /\ c.enabled
        /\ pc' = "finalizer" /\ w' = [NoLocal EXCEPT !.cl = c]
     \/ /\ \/ ~c.exists
           \/ c.deleting /\ "karpenter" \notin c.fin
           \/ ~c.deleting /\ ~c.enabled
        /\ UNCHANGED <<pc, w>>
  /\ UNCHANGED <<clusterVars, res, suspended, reported, workload, budget>>

EnsureFinalizer ==
  /\ pc = "finalizer"
  /\ PatchThen([w.cl EXCEPT !.fin = @ \cup {"karpenter"}], "label")
  /\ UNCHANGED <<res, suspended, reported, workload, budget>>

EnsureLabel ==
  /\ pc = "label"
  /\ PatchThen([w.cl EXCEPT !.label = TRUE], "check")
  /\ UNCHANGED <<res, suspended, reported, workload, budget>>

\* Mutated form of CheckPrerequisites: no requeue.
CheckPrerequisitesOnce ==
  /\ pc = "check"
  /\ IF prereq THEN Continue("region", w) ELSE Continue("idle", w)
  /\ UNCHANGED <<clusterVars, res, suspended, reported, workload, budget>>

\* Topology, APIs, the ACK Cluster and its status, the region, the subnets.
CheckPrerequisites ==
  /\ pc = "check"
  /\ IF prereq THEN Continue("region", w) ELSE Requeue("short")
  /\ UNCHANGED <<clusterVars, res, suspended, reported, workload, budget>>

\* Both annotations that the deletion will need: the region and the EKS name.
AnnotateRegion ==
  /\ pc = "region"
  /\ PatchThen([w.cl EXCEPT !.region = TRUE], "step")
  /\ UNCHANGED <<res, suspended, reported, workload, budget>>

ApiMissing(r) ==
  \/ r \in {"oci", "hr"} /\ "flux" \in missing
  \/ r = "crs" /\ "crs" \in missing

\* Steps that do not apply: there are security groups already, an API is not
\* installed, or there are no security groups for a NodePool.
Skipped(r, c) ==
  \/ r = "sg" /\ HasGroups(c)
  \/ ApiMissing(r)
  \/ r \in {"cm", "crs"} /\ ~HasGroups(c)

Goto(k, l) ==
  LET ks == {j \in k..Len(Steps) : ~Skipped(Steps[j], l.cl)} IN
  IF ks = {} THEN Continue("plan", l)
  ELSE Continue("step", [l EXCEPT !.k = CHOOSE j \in ks : \A i \in ks : j <= i])

\* An object that is not ours stays as it is: no chain without its links, no
\* Karpenter without both Flux objects.
NotManaged(r) ==
  IF r = "oci" \/ r = "hr" THEN Goto(Len(Steps) - 1, w)
  ELSE IF r = "cm" \/ r = "crs" THEN Continue("plan", w)
  ELSE Requeue("steady")

Managed(r) ==
  IF r = "sg" THEN Continue("sgID", w)
  ELSE IF r = "hr" THEN Continue("hrReady", w)
  ELSE Goto(w.k + 1, w)

\* upsertManagedUnstructured: Get.
GetResource ==
  /\ pc = "step" /\ w.k > 0 /\ Steps[w.k] # "profiles"
  /\ LET r == Steps[w.k] IN
     IF res[r] = "foreign" /\ ~w.cl.takeover THEN NotManaged(r)
     ELSE IF res[r] = "managed" THEN Managed(r)
     ELSE Continue("write", [w EXCEPT !.got = res[r]])
  /\ UNCHANGED <<clusterVars, res, suspended, reported, workload, budget>>

\* Mutated form of WriteResource: whatever is there is overwritten.
WriteResourceUnlocked ==
  /\ pc = "write"
  /\ LET r == Steps[w.k] IN
     IF res[r] \in {"absent", "foreign", "managed"}
     THEN /\ res' = [res EXCEPT ![r] = "managed"]
          /\ hrReady' = (hrReady /\ r # "hr")
          /\ Managed(r)
     ELSE Fail /\ UNCHANGED <<res, hrReady>>
  /\ UNCHANGED <<clusterVars, suspended, missing, sgID, fargate, prereq, kubeconfig, ack, workload, budget>>

\* Create, or Update under the resourceVersion read.  Flux has yet to observe the
\* new generation of a HelmRelease.
WriteResource ==
  /\ pc = "write"
  /\ LET r == Steps[w.k] IN
     IF res[r] = w.got
     THEN /\ res' = [res EXCEPT ![r] = "managed"]
          /\ hrReady' = (hrReady /\ r # "hr")
          /\ Managed(r)
     ELSE Fail /\ UNCHANGED <<res, hrReady>>
  /\ UNCHANGED <<clusterVars, suspended, missing, sgID, fargate, prereq, kubeconfig, ack, workload, budget>>

FirstStep ==
  /\ pc = "step" /\ w.k = 0
  /\ Goto(1, w)
  /\ UNCHANGED <<clusterVars, res, suspended, reported, workload, budget>>

\* The id of the security group, once AWS has made it, goes into the topology.
ReadGroupID ==
  /\ pc = "sgID"
  /\ IF sgID THEN Continue("patchNode", w) ELSE Goto(w.k + 1, [w EXCEPT !.short = TRUE])
  /\ UNCHANGED <<clusterVars, res, suspended, reported, workload, budget>>

PatchNodeGroups ==
  /\ pc = "patchNode"
  /\ PatchThen([w.cl EXCEPT !.groups.node = "set"], "patchCP")
  /\ UNCHANGED <<res, suspended, reported, workload, budget>>

\* The node variable was patched: the run ends for the topology to propagate.
PatchControlPlaneGroups ==
  /\ pc = "patchCP"
  /\ PatchThen([w.cl EXCEPT !.groups.cp = "set"], "propagate")
  /\ UNCHANGED <<res, suspended, reported, workload, budget>>

Propagate ==
  /\ pc = "propagate" /\ Requeue("short")
  /\ UNCHANGED <<clusterVars, res, suspended, reported, workload, budget>>

\* Mutated form of ReadProfiles: profiles that are not ACTIVE do not shorten the requeue.
ReadProfilesOnce ==
  /\ pc = "step" /\ w.k > 0 /\ Steps[w.k] = "profiles"
  /\ Goto(w.k + 1, [w EXCEPT !.active = fargate])
  /\ UNCHANGED <<clusterVars, res, suspended, reported, workload, budget>>

ReadProfiles ==
  /\ pc = "step" /\ w.k > 0 /\ Steps[w.k] = "profiles"
  /\ Goto(w.k + 1, [w EXCEPT !.active = fargate, !.short = @ \/ fargate # Deployments])
  /\ UNCHANGED <<clusterVars, res, suspended, reported, workload, budget>>

ReadHelmRelease ==
  /\ pc = "hrReady"
  /\ Goto(w.k + 1, [w EXCEPT !.flux = hrReady])
  /\ UNCHANGED <<clusterVars, res, suspended, reported, workload, budget>>

\* Mutated form of PlanRestarts: the profiles are not looked at.
PlanRestartsEarly ==
  /\ pc = "plan"
  /\ LET need == {d \in Deployments \ w.cl.restarted : d = "karpenter" => w.flux} IN
     IF need = {} \/ ~kubeconfig
     THEN Continue("finish", [w EXCEPT !.short = @ \/ (need # {} /\ Rotator)])
     ELSE Continue("restart", [w EXCEPT !.todo = need])
  /\ UNCHANGED <<clusterVars, res, suspended, reported, workload, budget>>

\* Restart once what is older than its ACTIVE profile; without a kubeconfig wait
\* for the rotator, if there is one.
PlanRestarts ==
  /\ pc = "plan"
  /\ LET need == {d \in w.active \ w.cl.restarted : d = "karpenter" => w.flux} IN
     IF need = {} \/ ~kubeconfig
     THEN Continue("finish", [w EXCEPT !.short = @ \/ (need # {} /\ Rotator)])
     ELSE Continue("restart", [w EXCEPT !.todo = need])
  /\ UNCHANGED <<clusterVars, res, suspended, reported, workload, budget>>

\* Those still to restart, CoreDNS first.
Todo == w.todo \ w.cl.restarted
Subject == IF "coredns" \in Todo THEN "coredns" ELSE "karpenter"

RolloutRestart ==
  /\ pc = "restart"
  /\ IF Todo = {} THEN Continue("finish", w) /\ UNCHANGED deploy
     ELSE IF deploy[Subject] = "absent"
     THEN Continue("restart", [w EXCEPT !.todo = @ \ {Subject}, !.short = TRUE]) /\ UNCHANGED deploy
     ELSE /\ deploy' = [deploy EXCEPT ![Subject] =
                          IF @ = "down" THEN @ ELSE IF Subject \in fargate THEN "fresh" ELSE "stale"]
          /\ Continue("annotate", w)
  /\ UNCHANGED <<clusterVars, res, suspended, reported, fluxRun, nodepool, inst, eni, budget>>

AnnotateRestart ==
  /\ pc = "annotate"
  /\ PatchThen([w.cl EXCEPT !.restarted = @ \cup {Subject}], "restart")
  /\ UNCHANGED <<res, suspended, reported, workload, budget>>

Finish ==
  /\ pc = "finish"
  /\ Requeue(IF w.short \/ missing # {} THEN "short" ELSE "steady")
  /\ UNCHANGED <<clusterVars, res, suspended, reported, workload, budget>>

-----------------------------------------------------------------------------
(* Reconcile: deletion *)

\* Mutated form of SuspendFlux: every managed object is suspended.
SuspendFluxAll ==
  /\ pc = "suspend"
  /\ LET open == {r \in Resources : res[r] = "managed" /\ r \notin suspended} IN
     IF open = {} \/ "flux" \in missing
     THEN Continue("resolve", w) /\ UNCHANGED suspended
     ELSE /\ suspended' = suspended \cup {CHOOSE r \in open : TRUE}
          /\ Continue("suspend", w)
  /\ UNCHANGED <<clusterVars, res, reported, workload, budget>>

\* spec.suspend of the Flux objects that are ours, one after the other.
SuspendFlux ==
  /\ pc = "suspend"
  /\ LET open == {r \in {"oci", "hr"} : res[r] = "managed" /\ r \notin suspended} IN
     IF open = {} \/ "flux" \in missing
     THEN Continue("resolve", w) /\ UNCHANGED suspended
     ELSE /\ suspended' = suspended \cup {IF "oci" \in open THEN "oci" ELSE "hr"}
          /\ Continue("suspend", w)
  /\ UNCHANGED <<clusterVars, res, reported, workload, budget>>

\* The annotation of the Cluster, that of the rotator's Secret, the ACK Cluster.
ResolveRegion ==
  /\ pc = "resolve"
  /\ Continue("scale", [w EXCEPT !.region = w.cl.region \/ (kubeconfig /\ Rotator) \/ ack])
  /\ UNCHANGED <<clusterVars, res, suspended, reported, workload, budget>>

\* stopWorkloadKarpenterProvisioning, if there is a way into the workload: no
\* replicas of Karpenter, then nothing for it to provision.
ScaleDown ==
  /\ pc = "scale"
  /\ IF kubeconfig \/ (ack /\ w.region)
     THEN /\ deploy' = [deploy EXCEPT !["karpenter"] = IF @ = "absent" THEN @ ELSE "down"]
          /\ Continue("nodepools", w)
     ELSE Continue(AfterStop, w) /\ UNCHANGED deploy
  /\ UNCHANGED <<clusterVars, res, suspended, reported, fluxRun, nodepool, inst, eni, budget>>

DeleteNodePools ==
  /\ pc = "nodepools"
  /\ nodepool' = FALSE /\ Continue(AfterStop, w)
  /\ UNCHANGED <<clusterVars, res, suspended, reported, deploy, fluxRun, inst, eni, budget>>

\* Mutated form of DescribeInstances: instances that shut down count as gone.
DescribeInstancesRunning ==
  /\ pc = "describe"
  /\ LET ids == {i \in Instances : inst[i] = "running"}
         shutting == {i \in Instances : inst[i] = "shutting"} IN
     IF ids # {} THEN Continue("terminate", [w EXCEPT !.ids = ids])
     ELSE IF FALSE THEN Requeue("short")
     ELSE Continue("enis", w)
  /\ UNCHANGED <<clusterVars, res, suspended, reported, workload, budget>>

\* Mutated form of DescribeInstances: no requeue while instances shut down.
DescribeInstancesOnce ==
  /\ pc = "describe"
  /\ LET ids == {i \in Instances : inst[i] = "running"}
         shutting == {i \in Instances : inst[i] = "shutting"} IN
     IF ids # {} THEN Continue("terminate", [w EXCEPT !.ids = ids])
     ELSE IF shutting # {} THEN Continue("idle", w)
     ELSE Continue("enis", w)
  /\ UNCHANGED <<clusterVars, res, suspended, reported, workload, budget>>

\* cleanupKarpenterEC2Instances: Describe.
DescribeInstances ==
  /\ pc = "describe"
  /\ LET ids == {i \in Instances : inst[i] = "running"}
         shutting == {i \in Instances : inst[i] = "shutting"} IN
     IF ids # {} THEN Continue("terminate", [w EXCEPT !.ids = ids])
     ELSE IF shutting # {} THEN Requeue("short")
     ELSE Continue("enis", w)
  /\ UNCHANGED <<clusterVars, res, suspended, reported, workload, budget>>

\* Terminate, and up to two more rounds for what Karpenter launched meanwhile.
TerminateInstances ==
  /\ pc = "terminate"
  /\ inst' = [i \in Instances |-> IF i \in w.ids /\ inst[i] = "running" THEN "shutting" ELSE inst[i]]
  /\ IF w.tries < 2 THEN Continue("describe", [w EXCEPT !.ids = {}, !.tries = @ + 1])
     ELSE Requeue("short")
  /\ UNCHANGED <<clusterVars, res, suspended, reported, deploy, fluxRun, nodepool, eni, budget>>

\* Interfaces of our security group that are available (not attached) are deleted
\* and looked for again later.
DeleteOrphanENIs ==
  /\ pc = "enis"
  /\ LET orphans == {i \in Instances : eni[i] = "available"} IN
     IF res["sg"] = "managed" /\ sgID /\ orphans # {}
     THEN eni' = [i \in Instances |-> IF i \in orphans THEN "none" ELSE eni[i]] /\ Requeue("short")
     ELSE UNCHANGED eni /\ Continue("release", w)
  /\ UNCHANGED <<clusterVars, res, suspended, reported, deploy, fluxRun, nodepool, inst, budget>>

RemoveFinalizer ==
  /\ pc = "release"
  /\ PatchThen([w.cl EXCEPT !.fin = @ \ {"karpenter"}], "idle")
  /\ UNCHANGED <<res, suspended, reported, workload, budget>>

Worker ==
  \/ StartReconcile \/ EnsureFinalizer \/ EnsureLabel \/ CheckPrerequisites \/ AnnotateRegion
  \/ FirstStep \/ GetResource \/ WriteResource \/ ReadGroupID \/ PatchNodeGroups
  \/ PatchControlPlaneGroups \/ Propagate \/ ReadProfiles \/ ReadHelmRelease \/ PlanRestarts
  \/ RolloutRestart \/ AnnotateRestart \/ Finish
  \/ SuspendFlux \/ ResolveRegion \/ ScaleDown \/ DeleteNodePools \/ DescribeInstances
  \/ TerminateInstances \/ DeleteOrphanENIs \/ RemoveFinalizer

CallFails ==
  /\ fails > 0 /\ fails' = fails - 1 /\ Fail
  /\ UNCHANGED <<clusterVars, res, suspended, reported, workload, env>>

\* The manager restarts: the cache is current and every Cluster is queued.
Restart ==
  /\ pc # "idle" /\ fails > 0 /\ fails' = fails - 1
  /\ pc' = "idle" /\ w' = NoLocal /\ queued' = TRUE /\ timer' = "none"
  /\ log' = <<cluster>>
  /\ UNCHANGED <<cluster, res, suspended, reported, workload, env>>

-----------------------------------------------------------------------------
(* Queue, users, Flux, ClusterResourceSet, ACK, Karpenter and AWS *)

CacheAdvance ==
  /\ Len(log) > 1 /\ log' = Tail(log) /\ queued' = TRUE
  /\ UNCHANGED <<cluster, timer, pc, w, res, suspended, reported, workload, budget>>

TimerFires ==
  /\ timer # "none" /\ timer' = "none" /\ queued' = TRUE
  /\ UNCHANGED <<clusterVars, pc, w, res, suspended, reported, workload, budget>>

\* Cluster API adds its own finalizer, and removes it at the end of its deletion.
ClusterAPI ==
  /\ cluster.exists
  /\ \/ /\ ~cluster.deleting /\ "capi" \notin cluster.fin
        /\ Write([cluster EXCEPT !.fin = @ \cup {"capi"}])
     \/ /\ cluster.deleting /\ "capi" \in cluster.fin
        /\ Write([cluster EXCEPT !.fin = @ \ {"capi"}])
  /\ UNCHANGED <<workerVars, res, suspended, reported, workload, budget>>

\* Users delete the Cluster or toggle its label or the takeover annotation, delete
\* a managed object or make one of the same name.
UserActs ==
  /\ env > 0 /\ env' = env - 1
  /\ \/ /\ cluster.exists /\ ~cluster.deleting
        /\ \/ "delete" \in Edits /\ Write([cluster EXCEPT !.deleting = TRUE])
           \/ "toggle" \in Edits /\ Write([cluster EXCEPT !.enabled = ~@])
           \/ "takeover" \in Edits /\ Write([cluster EXCEPT !.takeover = ~@])
        /\ UNCHANGED <<res, queued, hrReady, sgID>>
     \/ /\ "object" \in Edits
        /\ \E r \in Resources :
             /\ \/ res[r] = "managed" /\ res' = [res EXCEPT ![r] = "absent"] /\ queued' = TRUE
                \/ /\ res[r] = "absent" /\ ~ApiMissing(r)
                   /\ res' = [res EXCEPT ![r] = "foreign"] /\ queued' = queued
             /\ hrReady' = (hrReady /\ r # "hr") /\ sgID' = (sgID /\ r # "sg")
        /\ UNCHANGED clusterVars
  /\ UNCHANGED <<timer, pc, w, suspended, missing, fargate, prereq, kubeconfig, ack, workload, fails>>

\* The ACK Cluster becomes active with all that is needed of it; the profiles
\* become ACTIVE; the security group gets its id; the rotator writes the Secret.
Reports ==
  /\ \/ /\ ~prereq /\ ~cluster.deleting /\ prereq' = TRUE /\ ack' = TRUE
        /\ UNCHANGED <<fargate, sgID, kubeconfig, queued>>
     \/ /\ \E d \in Deployments \ fargate : prereq /\ fargate' = fargate \cup {d}
        /\ UNCHANGED <<prereq, ack, sgID, kubeconfig, queued>>
     \/ /\ ~sgID /\ res["sg"] = "managed" /\ sgID' = TRUE /\ queued' = TRUE
        /\ UNCHANGED <<prereq, ack, fargate, kubeconfig>>
     \/ /\ ~kubeconfig /\ ack /\ ~cluster.deleting /\ kubeconfig' = TRUE
        /\ UNCHANGED <<prereq, ack, fargate, sgID, queued>>
  /\ UNCHANGED <<clusterVars, timer, pc, w, res, suspended, missing, hrReady, workload, budget>>

\* While the Cluster is deleted the Secret and the ACK Cluster go away as well.
Withdraws ==
  /\ cluster.deleting
  /\ \/ kubeconfig /\ kubeconfig' = FALSE /\ UNCHANGED ack
     \/ ack /\ ~kubeconfig /\ ack' = FALSE /\ UNCHANGED kubeconfig
  /\ UNCHANGED <<clusterVars, workerVars, res, suspended, missing, sgID, hrReady, fargate, prereq, workload, budget>>

\* A Helm run, once begun, ignores spec.suspend.
FluxStarts ==
  /\ res["oci"] = "managed" /\ res["hr"] = "managed"
  /\ "hr" \notin suspended /\ kubeconfig /\ ~fluxRun
  /\ fluxRun' = TRUE
  /\ UNCHANGED <<clusterVars, workerVars, res, suspended, reported, deploy, nodepool, inst, eni, budget>>

HelmInstalls ==
  /\ fluxRun /\ fluxRun' = FALSE
  /\ deploy' = [deploy EXCEPT !["karpenter"] =
                  IF @ = "fresh" \/ "karpenter" \in fargate THEN "fresh" ELSE "stale"]
  /\ UNCHANGED <<clusterVars, workerVars, res, suspended, reported, nodepool, inst, eni, budget>>

\* Helm waits for the Pods; if they do not run in time the install is undone.
HelmReports ==
  /\ res["hr"] = "managed" /\ "hr" \notin suspended
  /\ \/ /\ deploy["karpenter"] = "fresh" /\ ~hrReady
        /\ hrReady' = TRUE /\ queued' = TRUE /\ UNCHANGED deploy
     \/ /\ deploy["karpenter"] = "stale" /\ "karpenter" \in fargate /\ ~hrReady
        /\ deploy' = [deploy EXCEPT !["karpenter"] = "absent"] /\ UNCHANGED <<hrReady, queued>>
  /\ UNCHANGED <<clusterVars, timer, pc, w, res, suspended, missing, sgID, fargate, prereq, kubeconfig, ack,
                 fluxRun, nodepool, inst, eni, budget>>

AppliesNodePool ==
  /\ ~nodepool /\ res["cm"] = "managed" /\ res["crs"] = "managed" /\ kubeconfig
  /\ cluster.exists /\ ~cluster.deleting /\ cluster.enabled /\ cluster.label
  /\ nodepool' = TRUE
  /\ UNCHANGED <<clusterVars, workerVars, res, suspended, reported, deploy, fluxRun, inst, eni, budget>>

CanLaunch == deploy["karpenter"] = "fresh" /\ nodepool

Launch ==
  /\ CanLaunch
  /\ \E i \in Instances :
       /\ inst[i] = "none"
       /\ inst' = [inst EXCEPT ![i] = "running"] /\ eni' = [eni EXCEPT ![i] = "attached"]
  /\ UNCHANGED <<clusterVars, workerVars, res, suspended, reported, deploy, fluxRun, nodepool, budget>>

\* An instance ends; its interface is deleted with it or left behind later.
AWSProgress ==
  /\ \E i \in Instances :
       \/ inst[i] = "shutting" /\ inst' = [inst EXCEPT ![i] = "terminated"] /\ UNCHANGED eni
       \/ /\ inst[i] = "terminated" /\ eni[i] = "attached" /\ UNCHANGED inst
          /\ \E e \in {"none", "available"} : eni' = [eni EXCEPT ![i] = e]
  /\ UNCHANGED <<clusterVars, workerVars, res, suspended, reported, deploy, fluxRun, nodepool, budget>>

World ==
  \/ ClusterAPI \/ Reports \/ Withdraws \/ FluxStarts \/ HelmInstalls \/ HelmReports
  \/ AppliesNodePool \/ Launch \/ AWSProgress

Next ==
  \/ Worker \/ CallFails \/ Restart \/ CacheAdvance \/ TimerFires \/ UserActs \/ World

Spec == Init /\ [][Next]_vars

\* The worker, the queue and the informer run on; AWS, ACK, Flux and the rotator
\* get done what they have begun.  Failures and users' changes are bounded.
FairSpec ==
  /\ Spec /\ WF_vars(Worker) /\ WF_vars(CacheAdvance) /\ WF_vars(TimerFires)
  /\ WF_vars(Reports) /\ WF_vars(FluxStarts) /\ WF_vars(HelmInstalls) /\ WF_vars(HelmReports)
  /\ WF_vars(AWSProgress)

-----------------------------------------------------------------------------
(* Properties *)

\* upsertManagedUnstructured does not overwrite an object somebody else made,
\* unless the takeover annotation was read, not even one made behind its Get.
ForeignIsKept ==
  [][\A r \in Resources : res[r] = "foreign" /\ res'[r] = "managed" => w.cl.takeover]_vars

\* Nothing is made that the deletion would not come back to: when an object becomes
\* managed the Cluster on the server has the finalizer and the region, stale
\* copies and concurrent deletion notwithstanding.
CreatedIsGuarded ==
  [][\A r \in Resources : res[r] # "managed" /\ res'[r] = "managed" =>
       cluster.exists /\ "karpenter" \in cluster.fin /\ cluster.region]_vars

\* The finalizer is removed only when no instance is left, unless Karpenter could
\* not be stopped (no way into the workload, or the calls failed) and launched one
\* behind the last Describe.
ReleasedIsClean ==
  [][/\ "karpenter" \in cluster.fin /\ "karpenter" \notin cluster'.fin
     /\ \E i \in Instances : inst[i] \in {"running", "shutting"}
     => CanLaunch]_vars

\* A Deployment is recorded as restarted only if its Pods are not older than
\* its ACTIVE Fargate profile: it will not be restarted again.
RestartedIsFresh == \A d \in cluster.restarted : deploy[d] # "stale"

\* At rest: nothing queued, nothing in the cache's way, ten minutes to go.
Settled ==
  /\ pc = "idle" /\ ~queued /\ timer = "steady" /\ Len(log) = 1
  /\ cluster.exists /\ ~cluster.deleting /\ cluster.enabled

\* The bootstrapper comes to rest only with everything in place, or in front of
\* an object that is not its own.
SettledIsBootstrapped ==
  Settled => \/ \E r \in Resources : res[r] = "foreign"
             \/ /\ \A r \in Resources \ {"sg"} : res[r] = "managed"
                /\ HasGroups(cluster) /\ fargate = Deployments

\* Both security group variables are patched when they are empty.
BothGroupsPatched ==
  Settled /\ cluster.groups.node = "set" => cluster.groups.cp = "set"

\* A deleted Cluster is released in the end.
DeletionCompletes ==
  cluster.deleting /\ "karpenter" \in cluster.fin ~> "karpenter" \notin cluster.fin

\* A Cluster that stays, with no foreign object in the way, gets everything, and
\* its Deployments are restarted.
Bootstraps ==
  <>[](/\ cluster.exists /\ ~cluster.deleting /\ cluster.enabled /\ missing = {}
       /\ \A r \in Resources : res[r] # "foreign")
  => <>[](/\ \A r \in Resources \ {"sg"} : res[r] = "managed"
          /\ cluster.restarted = Deployments)

(* A statement of the documentation that the code does not keep (README) *)

\* The finalizer stays until the interfaces left behind by the nodes are deleted.
NoOrphanENI ==
  cluster.deleting /\ "karpenter" \notin cluster.fin /\ res["sg"] = "managed" /\ sgID
    => \A i \in Instances : eni[i] # "available"
=============================================================================
