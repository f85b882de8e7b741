--------------------------- MODULE OCMBootstrapper ---------------------------
(***************************************************************************)
(* The OCM AWS IRSA bootstrapper: for every Cluster that is labelled for   *)
(* it, an ACK IAM Role that lets the EKS cluster register with the hub     *)
(* whose ARN is in an annotation.                                          *)
(*                                                                         *)
(* The name of the Role is made of the hub and the EKS cluster, so the     *)
(* Clusters that name the same ACK cluster and hub share one Role; these   *)
(* are the Clusters of this module, with one ACK cluster and one worker.   *)
(* Clusters are typed and read from a cache (seen); ACK cluster and Roles  *)
(* are unstructured and read live.  Watched are Clusters and, if their     *)
(* APIs were there when the manager started, the ACK cluster (its Clusters *)
(* looked up in the cache) and managed Roles (the Cluster in their label). *)
(* Every run of an enabled Cluster asks for another one: after a failure   *)
(* soon ("retry"), else after SteadyStateRequeue, the Role being another's *)
(* ("refused") or reconciled ("steady").  The two intervals are positive:  *)
(* the code replaces a flag of zero and keeps a negative one.              *)
(***************************************************************************)
EXTENDS Naturals, FiniteSets

CONSTANTS
  Clusters,   \* the Clusters that name this ACK cluster
  Hubs,       \* hub ARNs; their Roles have different names
  Issuers,    \* OIDC issuers the ACK cluster may report
  Changing,   \* kinds of change the environment may make; the rest is in place
  Off,        \* Clusters that start switched off, with a long wait not yet over
  MaxUid,     \* bound: incarnations of a Cluster
  MaxEvents   \* bound: changes of the environment, failed calls and restarts

None == "none"

ChangeKinds == {"enable", "hub", "takeover", "delete", "apis", "ack", "roles"}

May(kind) == kind \in Changing

ASSUME ConstantsAssumption ==
  /\ Clusters # {} /\ Hubs # {} /\ Issuers # {}
  /\ None \notin Clusters \cup Hubs \cup Issuers
  /\ "creating" \notin Issuers /\ Off \subseteq Clusters /\ Changing \subseteq ChangeKinds
  /\ MaxUid \in Nat \ {0} /\ MaxEvents \in Nat

VARIABLES
  api, seen,  \* the Clusters at the server and in the cache
  ack,        \* the ACK cluster: "creating" (or absent), or active with an issuer
  role,       \* the Role of each hub
  apis,       \* the ACK APIs are installed
  watching,   \* they were when the manager started: their objects are watched
  ackEvent,   \* an event of the ACK cluster is not mapped to Clusters yet
  queued, timer,
  pc, w,      \* the worker's next call and its local variables
  untold,     \* auxiliary: the Clusters whose Role users took away without an
              \* event that finds them, and that have not read it since
  events

worldVars == <<ack, apis, watching, ackEvent>>
vars == <<api, seen, worldVars, role, queued, timer, pc, w, untold, events>>

\* uid 0: there is no such Cluster.  hub None: no annotation, or not an ARN.
Cluster == [uid: 0..MaxUid, deleting: BOOLEAN, enabled: BOOLEAN, named: BOOLEAN,
            hub: Hubs \cup {None}, takeover: BOOLEAN]
NewCluster(uid) ==
  [uid |-> uid, deleting |-> FALSE, enabled |-> TRUE, named |-> FALSE,
   hub |-> CHOOSE h \in Hubs : TRUE, takeover |-> FALSE]
NoCluster == NewCluster(0)

\* kind: absent, somebody else's, or with the managed-by annotation.  owners:
\* the uid in the owner reference to each Cluster, 0 without one.
Role == [kind: {"absent", "foreign", "managed"}, label: Clusters \cup {None},
         owners: [Clusters -> 0..MaxUid], issuer: Issuers \cup {None}]
NoRole == [kind |-> "absent", label |-> None, owners |-> [c \in Clusters |-> 0],
           issuer |-> None]

\* The Cluster, its copy, the issuer and the Role that were read.
Local == [c: Clusters \cup {None}, copy: Cluster, issuer: Issuers \cup {None}, role: Role]
NoLocal == [c |-> None, copy |-> NoCluster, issuer |-> None,
            role |-> NoRole]

TypeOK ==
  /\ api \in [Clusters -> Cluster] /\ seen \in [Clusters -> Cluster]
  /\ ack \in {"creating"} \cup Issuers
  /\ role \in [Hubs -> Role]
  /\ apis \in BOOLEAN /\ watching \in BOOLEAN /\ ackEvent \in BOOLEAN
  /\ queued \subseteq Clusters /\ timer \in [Clusters -> {"none", "retry", "refused", "steady"}]
  /\ pc \in {"idle", "label", "ack", "role", "create", "update"} /\ w \in Local
  /\ (pc # "idle" => w.c \in Clusters)
  /\ (pc \in {"role", "create", "update"} => w.copy.hub \in Hubs)
  /\ untold \subseteq Clusters /\ events \in 0..MaxEvents

Init ==
  /\ api = [c \in Clusters |-> [NewCluster(1) EXCEPT !.enabled = c \notin Off]] /\ seen = api
  /\ ack = CHOOSE i \in Issuers : TRUE
  /\ role = [h \in Hubs |-> NoRole]
  /\ apis \in {TRUE, ~May("apis")} /\ watching = apis /\ ackEvent = FALSE
  /\ queued = Clusters /\ timer = [c \in Clusters |-> IF c \in Off THEN "steady" ELSE "none"]
  /\ pc = "idle" /\ w = NoLocal /\ untold = {} /\ events = MaxEvents

-----------------------------------------------------------------------------
(* Reconcile *)

Happens == events > 0 /\ events' = events - 1

\* RequeueAfter or an error; an earlier retry that is outstanding stays.
Finish(kind) ==
  /\ pc' = "idle" /\ w' = NoLocal
  /\ timer' = [timer EXCEPT ![w.c] = IF @ = "retry" THEN @ ELSE kind]

\* A write of a Role; its event enqueues the Cluster in the label of a managed
\* Role, before and after.
Mapped(r) == IF r.kind = "managed" THEN {r.label} ELSE {}

\* Mutated form of SetRole: what was there before is not looked at.
SetRoleNew(h, r) ==
  /\ role' = [role EXCEPT ![h] = r]
  /\ queued' = IF watching /\ r # role[h] THEN queued \cup Mapped(r) ELSE queued

SetRole(h, r) ==
  /\ role' = [role EXCEPT ![h] = r]
  /\ queued' = IF watching /\ r # role[h] THEN queued \cup Mapped(r) \cup Mapped(role[h])
               ELSE queued

\* r.Get, and the returns for Clusters this is not for.
StartReconcile ==
  /\ pc = "idle"
  /\ \E c \in queued :
       LET copy == seen[c] IN
       /\ queued' = queued \ {c}
       /\ IF copy.uid = 0 \/ copy.deleting \/ ~copy.enabled
          THEN UNCHANGED <<pc, w>>
          ELSE /\ w' = [NoLocal EXCEPT !.c = c, !.copy = copy]
               /\ pc' = IF copy.named THEN "ack" ELSE "label"
  /\ UNCHANGED <<api, seen, worldVars, role, timer, untold, events>>

\* ensureClusterNameLabel: a patch without uid, whose response is used from here.
EnsureLabel ==
  /\ pc = "label"
  /\ IF api[w.c].uid = 0 THEN Finish("retry") /\ UNCHANGED api
     ELSE /\ api' = [api EXCEPT ![w.c].named = TRUE]
          /\ w' = [w EXCEPT !.copy = api'[w.c]]
          /\ pc' = "ack" /\ UNCHANGED timer
  /\ UNCHANGED <<seen, worldVars, role, queued, untold, events>>

\* Mutated forms of ReadACK: what is missing is left to the next event; a missing
\* annotation is not noticed.
ReadACKOnce ==
  /\ pc = "ack"
  /\ IF apis /\ ack \in Issuers /\ w.copy.hub \in Hubs
     THEN w' = [w EXCEPT !.issuer = ack] /\ pc' = "role" /\ UNCHANGED timer
     ELSE pc' = "idle" /\ w' = NoLocal /\ UNCHANGED timer
  /\ UNCHANGED <<api, seen, worldVars, role, queued, untold, events>>

ReadACKUnchecked ==
  /\ pc = "ack"
  /\ IF apis /\ ack \in Issuers
     THEN w' = [w EXCEPT !.issuer = ack] /\ pc' = "role" /\ UNCHANGED timer
     ELSE Finish("retry")
  /\ UNCHANGED <<api, seen, worldVars, role, queued, untold, events>>

\* The APIs, the ACK cluster, its status and the hub's ARN.
ReadACK ==
  /\ pc = "ack"
  /\ IF apis /\ ack \in Issuers /\ w.copy.hub \in Hubs
     THEN w' = [w EXCEPT !.issuer = ack] /\ pc' = "role" /\ UNCHANGED timer
     ELSE Finish("retry")
  /\ UNCHANGED <<api, seen, worldVars, role, queued, untold, events>>

\* upsertManagedUnstructured: somebody else's Role needs the takeover annotation.
GetRole ==
  /\ pc = "role"
  /\ LET r == role[w.copy.hub] IN
     IF r.kind = "foreign" /\ ~w.copy.takeover THEN Finish("refused")
     ELSE /\ w' = [w EXCEPT !.role = r]
          /\ pc' = IF r.kind = "absent" THEN "create" ELSE "update"
          /\ UNCHANGED timer
  /\ untold' = untold \ {w.c}
  /\ UNCHANGED <<api, seen, worldVars, role, queued, events>>

\* The mutate function of ensureOCMManagedClusterRole and SetOwnerReference,
\* which replaces the uid of a reference to a Cluster of that name.
Wanted(r) ==
  [r EXCEPT !.kind = "managed", !.label = w.c, !.owners[w.c] = w.copy.uid,
            !.issuer = w.issuer]

\* Mutated form of WriteRole: the Role is written without resourceVersion.
WriteRoleUnlocked ==
  /\ pc \in {"create", "update"}
  /\ SetRole(w.copy.hub, Wanted(w.role)) /\ Finish("steady")
  /\ UNCHANGED <<api, seen, worldVars, untold, events>>

\* Create or Update of what was read; refused if the Role is another one by now.
WriteRole ==
  /\ pc \in {"create", "update"}
  /\ LET h == w.copy.hub IN
     IF Wanted(w.role) = w.role \/ role[h] = w.role
     THEN /\ IF Wanted(w.role) = w.role THEN UNCHANGED <<role, queued>>
             ELSE SetRole(h, Wanted(w.role))
          /\ Finish("steady")
     ELSE Finish("retry") /\ UNCHANGED <<role, queued>>
  /\ UNCHANGED <<api, seen, worldVars, untold, events>>

CallFails ==
  /\ pc # "idle" /\ Happens
  /\ Finish("retry")
  /\ UNCHANGED <<api, seen, worldVars, role, queued, untold>>

\* A restart lists every Cluster, and watches the APIs that are there.
Restart ==
  /\ Happens
  /\ seen' = api /\ queued' = Clusters /\ timer' = [c \in Clusters |-> "none"]
  /\ watching' = apis /\ ackEvent' = FALSE /\ pc' = "idle" /\ w' = NoLocal
  /\ untold' = {} /\ UNCHANGED <<api, ack, apis, role>>

Worker == StartReconcile \/ EnsureLabel \/ ReadACK \/ GetRole \/ WriteRole

-----------------------------------------------------------------------------
(* Cache, events and timers *)

CacheAdvance ==
  /\ \E c \in Clusters :
       /\ seen[c] # api[c] /\ seen' = [seen EXCEPT ![c] = api[c]]
       /\ queued' = queued \cup {c}
  /\ UNCHANGED <<api, worldVars, role, timer, pc, w, untold, events>>

\* Mutated form of MapACKEvent: one Cluster for every ACK cluster.
MapACKEventOne ==
  /\ ackEvent /\ ackEvent' = FALSE
  /\ \E c \in Clusters :
       seen[c].uid # 0 /\ seen[c].enabled /\ queued' = queued \cup {c}
  /\ UNCHANGED <<api, seen, ack, apis, watching, role, timer, pc, w, untold, events>>

\* mapACKClusterToCAPIClustersForOCM: the Clusters the cache shows as enabled.
MapACKEvent ==
  /\ ackEvent /\ ackEvent' = FALSE
  /\ queued' = queued \cup {c \in Clusters : seen[c].uid # 0 /\ seen[c].enabled}
  /\ UNCHANGED <<api, seen, ack, apis, watching, role, timer, pc, w, untold, events>>

TimerFires ==
  /\ \E c \in Clusters :
       /\ timer[c] # "none" /\ timer' = [timer EXCEPT ![c] = "none"]
       /\ queued' = queued \cup {c}
  /\ UNCHANGED <<api, seen, worldVars, role, pc, w, untold, events>>

\* The garbage collector removes a Role whose owners are all gone.
Dangling(r, c) == r.owners[c] # 0 /\ r.owners[c] # api[c].uid
CollectGarbage ==
  /\ \E h \in Hubs :
       /\ \E c \in Clusters : Dangling(role[h], c)
       /\ \A c \in Clusters : Dangling(role[h], c) \/ role[h].owners[c] = 0
       /\ SetRole(h, NoRole)
  /\ UNCHANGED <<api, seen, worldVars, timer, pc, w, untold, events>>

-----------------------------------------------------------------------------
(* The environment *)


\* Users label, annotate, delete and create Clusters.
EditCluster ==
  /\ Happens
  /\ \E c \in Clusters :
       \/ /\ api[c].uid # 0 /\ ~api[c].deleting
          /\ \/ May("enable") /\ api' = [api EXCEPT ![c].enabled = ~@]
             \/ May("hub") /\ \E h \in Hubs \cup {None} : api' = [api EXCEPT ![c].hub = h]
             \/ May("takeover") /\ api' = [api EXCEPT ![c].takeover = TRUE]
             \/ May("delete") /\ api' = [api EXCEPT ![c].deleting = TRUE]
  /\ api' # api
  /\ UNCHANGED <<seen, worldVars, role, queued, timer, pc, w, untold>>

\* A deleted Cluster goes when its finalizers are gone, for good or because
\* another one takes its name, complete with label and annotation.
ReplaceCluster ==
  /\ \E c \in Clusters :
       /\ api[c].deleting
       /\ \/ api' = [api EXCEPT ![c] = NoCluster]
          \/ /\ api[c].uid < MaxUid
             /\ api' = [api EXCEPT ![c].uid = @ + 1, ![c].deleting = FALSE,
                                   ![c].named = FALSE]
  /\ UNCHANGED <<seen, worldVars, role, queued, timer, pc, w, untold, events>>

\* The ACK cluster becomes active, goes, or comes back with another issuer; its
\* APIs are installed.
WorldChanges ==
  /\ Happens
  /\ \/ /\ May("ack") /\ apis /\ ack' \in ({"creating"} \cup Issuers) \ {ack}
        /\ ackEvent' = watching /\ UNCHANGED <<apis, watching>>
     \/ May("apis") /\ ~apis /\ apis' = TRUE /\ UNCHANGED <<ack, watching, ackEvent>>
  /\ UNCHANGED <<api, seen, role, queued, timer, pc, w, untold>>

\* Users delete a Role or take it out of management.  The event finds the Cluster
\* in the label of a managed Role, and nobody else who owns it.
TakeAway(h, r) ==
  /\ SetRole(h, r)
  /\ untold' = untold \cup {c \in Clusters : /\ role[h].owners[c] # 0
                                           /\ role[h].kind = "managed" => role[h].label # c}

\* Or they make one of that name.
UserActs ==
  /\ Happens /\ May("roles")
  /\ \E h \in Hubs :
       \/ role[h].kind = "absent" /\ SetRole(h, [NoRole EXCEPT !.kind = "foreign"])
          /\ UNCHANGED untold
       \/ role[h].kind = "managed" /\ TakeAway(h, [role[h] EXCEPT !.kind = "foreign"])
       \/ role[h].kind # "absent" /\ TakeAway(h, NoRole)
  /\ UNCHANGED <<api, seen, worldVars, timer, pc, w>>

Environment == EditCluster \/ ReplaceCluster \/ WorldChanges \/ UserActs

Next ==
  \/ Worker \/ CallFails \/ Restart
  \/ CacheAdvance \/ MapACKEvent \/ TimerFires \/ CollectGarbage \/ Environment

Spec == Init /\ [][Next]_vars

\* The one worker takes the Clusters from a first-in first-out queue; informers
\* and timers keep going.  Nothing is assumed of the environment.
FairSpec ==
  /\ Spec
  /\ WF_vars(EnsureLabel \/ ReadACK \/ GetRole \/ WriteRole)
  /\ WF_vars(CacheAdvance) /\ WF_vars(MapACKEvent)
  /\ \A c \in Clusters : /\ SF_vars(StartReconcile /\ c \in queued \ queued')
                         /\ WF_vars(TimerFires /\ timer'[c] # timer[c])

-----------------------------------------------------------------------------
(* Properties *)

\* A Role somebody else manages is changed only for a Cluster that allows it,
\* whenever it came to be or stopped being managed.
ForeignIsKept ==
  [][\A h \in Hubs : role[h].kind = "foreign" /\ role'[h].kind = "managed"
        => w.copy.takeover]_vars

Wants(c) ==
  /\ api[c].uid # 0 /\ ~api[c].deleting /\ api[c].enabled /\ api[c].hub \in Hubs
  /\ ack \in Issuers /\ apis

\* The Role of the Cluster's hub trusts the present issuer and stays as long as
\* the Cluster, or it is somebody else's that the Cluster may not take over.
Provisioned(c) ==
  LET r == role[api[c].hub] IN
  \/ r.kind = "foreign" /\ ~api[c].takeover
  \/ r.kind = "managed" /\ r.issuer = ack /\ r.owners[c] = api[c].uid

\* The Role was reconciled and nothing but the long wait is ahead.
Steady(c) ==
  /\ timer[c] = "steady" /\ c \notin queued /\ (pc # "idle" => w.c # c)
  /\ seen[c] = api[c] /\ ~ackEvent

\* With the watches in place the long wait is what a reconciled Cluster needs: the
\* events reach it, although they are mapped through a stale cache, and although
\* another Cluster that shares the Role has overwritten its label.  The exception
\* is what the label loses: a Cluster whose Role users deleted or handed over
\* under another's label, or after it was handed over, has no event, and waits.
SteadyIsProvisioned ==
  watching => \A c \in Clusters :
    Wants(c) /\ Steady(c) /\ c \notin untold => Provisioned(c)

\* In the end every Cluster that wants its Role has it, the untold ones and those
\* without the watches included: no return of Reconcile leaves it without another
\* run, and no Cluster of those that overwrite each other's label starves.
Provisions == <>[](\A c \in Clusters : Wants(c) => Provisioned(c))

\* Not so: Clusters that share a Role leave it alone in the end (README, observations).
LabelSettles == <>[][role' = role]_role

\* The safety behind it: no Cluster that wants its Role is forgotten, another run
\* of it is always ahead, also without the watches.
NeverForgotten ==
  \A c \in Clusters : Wants(c) =>
    c \in queued \/ timer[c] # "none" \/ (pc # "idle" /\ w.c = c) \/ seen[c] # api[c]
=============================================================================
