---------------------------- MODULE SelfManaged ----------------------------
(***************************************************************************)
(* The self-managed control plane: the facade with its kubeadm backend,    *)
(* the two reconcilers of one manager and the Kany8sKubeadmControlPlane    *)
(* between them.  The facade writes its spec and reads its status, both    *)
(* through the manager's typed cache; the kubeadm reconciler reads it from *)
(* the same cache and writes its status; the facade's dynamic watcher sees *)
(* it through an informer of its own.                                      *)
(*                                                                         *)
(* The steps are those of ControlPlane and of KubeadmControlPlane: inst is *)
(* what the facade sees of the last element of khist, view of the first.   *)
(* Failing calls and restarts are left to the two parts (MaxFail = 0): a   *)
(* restart of the manager empties both queues and both caches at once.     *)
(***************************************************************************)
EXTENDS ControlPlane

CONSTANTS
  VersionNames,  \* the versions, in their order
  KChanging      \* the kinds of change in the world of the kubeadm reconciler

VARIABLES
  khist,                                   \* versions of the kubeadm object
  infra, template, probe,
  ca, kubeconfig, config, configView, infraMachine, machine, machineView,
  kqueued, ktimer, kpc, kw                 \* the kubeadm reconciler

K == INSTANCE KubeadmControlPlane WITH
       Versions <- DOMAIN VersionNames, Changing <- KChanging, hist <- khist,
       cluster <- clusterSeen, queued <- kqueued, timer <- ktimer, pc <- kpc, w <- kw

worldVars == <<infra, template, probe>>
madeVars == <<ca, kubeconfig, config, configView, infraMachine, machine, machineView>>
kworkerVars == <<kqueued, ktimer, kpc, kw>>
kvars == <<khist, worldVars, madeVars, kworkerVars>>
svars == <<vars, kvars>>

\* The facade without what it shares or is told by others.
facadeVars == <<hist, rgdOK, src, tgt, watch, queued, timer, pc, w>>

ASSUME SelfManagedAssumption ==
  /\ Backend = "kubeadm" /\ MaxUid = 1 /\ MaxFail = 0
  /\ VersionNames \in Seq(Versions) /\ "absent" \notin Endpoints
  /\ Versions = {VersionNames[n] : n \in DOMAIN VersionNames}
  /\ Changing \subseteq {"version", "owner", "cluster"}
  /\ KChanging \subseteq {"rollback", "infra", "template", "probe", "machine"}

Number(version) == CHOOSE n \in DOMAIN VersionNames : VersionNames[n] = version

\* kubeadmBackendStatusToInstanceStatus, and what the facade wrote.
Reflected(kcp) ==
  [exists |-> TRUE, owner |-> 1, ver |-> VersionNames[kcp.version], ident |-> kcp.linked,
   st |-> [NoStatus EXCEPT !.ready = kcp.conds.ready = "True", !.ep = kcp.ep,
                           !.init = kcp.init],
   obs |-> IF kcp.sver = 0 THEN None ELSE VersionNames[kcp.sver]]

SInit ==
  /\ Init /\ Api.version = VersionNames[1]
  /\ khist = <<K!NewCP(1, FALSE)>>
  /\ template = ~K!May("template") /\ probe = FALSE
  /\ infra \in (IF K!May("infra") THEN {"absent"} ELSE Endpoints)
  /\ ca = FALSE /\ kubeconfig = None /\ config = None /\ configView = None
  /\ infraMachine = FALSE /\ machine = K!NoMachine /\ machineView = K!NoMachine
  /\ kqueued = FALSE /\ ktimer = FALSE /\ kpc = "idle" /\ kw = K!NoLocal

-----------------------------------------------------------------------------
(* The facade *)

\* Update carries the resourceVersion of the typed cache's copy, which any write
\* to the object outdates, the kubeadm reconciler's too.
Outdated == view.exists /\ Len(khist) > 1 /\ Mutated(view) # view

\* What the facade writes becomes a version of the kubeadm object.
FacadeSyncs ==
  /\ pc = "sync"
  /\ IF Outdated THEN Finish(TRUE) /\ UNCHANGED <<serverVars, watch, instEvent, queued, env, fails>>
     ELSE SyncBackend
  /\ khist' = IF inst' = inst THEN khist
              ELSE IF ~inst.exists
                   THEN <<K!NewCP(Number(inst'.ver), inst'.ident)>>
                   ELSE Append(khist, [K!Api EXCEPT !.version = Number(inst'.ver),
                                                    !.linked = inst'.ident])
  /\ Len(khist') <= MaxLag
  /\ UNCHANGED <<worldVars, madeVars, kworkerVars>>

\* Does a user who edits the object not take a version back?
Forward == Number(Api.version) <= Number(Api'.version)

\* Everything else the facade does, its queue and its users.
FacadeSteps ==
  /\ \/ pc # "sync" /\ Worker
     \/ CacheAdvance /\ UNCHANGED view
     \/ DeliverEvent \/ TimerFires
     \/ EditSpec /\ (K!May("rollback") \/ Forward)
     \/ UnwatchedChange
  /\ UNCHANGED kvars

-----------------------------------------------------------------------------
(* The kubeadm reconciler *)

\* Its writes to the object are what the facade sees, and is told of.
KubeadmSteps ==
  /\ inst.exists
  /\ K!Worker \/ K!TimerFires \/ K!ViewAdvance \/ K!WorldChanges
  /\ inst' = Reflected(khist'[Len(khist')])
  /\ instEvent' = (instEvent \/ (watch /\ khist' # khist))
  /\ UNCHANGED <<facadeVars, view>>

\* The manager's typed cache, from which both read the object: it appears there,
\* and follows the server version by version.
ObjectAppears ==
  /\ ~view.exists /\ CacheAdvance /\ UNCHANGED hist /\ kqueued' = TRUE
  /\ UNCHANGED <<khist, worldVars, madeVars, ktimer, kpc, kw>>

ObjectAdvances ==
  /\ K!CacheAdvance /\ view' = Reflected(khist'[1])
  /\ UNCHANGED <<facadeVars, inst, instEvent>>

Object == ObjectAppears \/ ObjectAdvances

SNext == FacadeSyncs \/ FacadeSteps \/ KubeadmSteps \/ Object

SSpec == SInit /\ [][SNext]_svars

-----------------------------------------------------------------------------
(* Properties *)

\* Both reconcilers are at rest.
BothSettled ==
  /\ Settled /\ (inst.exists => view.exists)
  /\ kpc = "idle" /\ ~kqueued /\ ~ktimer /\ Len(khist) = 1

\* At rest the user's object, the kubeadm object and what was built from it tell
\* one story, through two caches and two informers that are behind in different
\* ways: the facade is ready, and it points where the infrastructure does.
SettledIsBuilt ==
  BothSettled =>
    /\ Projected /\ K!Api.linked /\ Api.ep = infra
    /\ kubeconfig = infra /\ config = infra /\ machine.ver # 0

\* A control plane that its users find ready has been built: what the facade says
\* last, over two caches, holds of what the other reconciler made first.
ReadyIsBuilt ==
  Api.conds.ready = "True" =>
    K!Api.init /\ ca /\ kubeconfig = Api.ep /\ machine.ver # 0
=============================================================================
