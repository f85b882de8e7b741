--------------------- MODULE KarpenterBootstrapperProofs ---------------------
(***************************************************************************)
(* Proofs about KarpenterBootstrapper for every chain of resources, every  *)
(* lag of the cache and any number of changes and failures: what the       *)
(* bootstrapper makes, the deletion will come back to, and what others     *)
(* made it leaves alone.                                                   *)
(***************************************************************************)
EXTENDS KarpenterBootstrapper, WellFoundedInduction, TLAPS

\* The worker's next calls: with the Cluster in the queue's hands, making objects,
\* before that but behind the finalizer, and on deletion.
Making == {"step", "write", "sgID", "patchNode", "patchCP", "propagate", "hrReady", "plan",
           "restart", "annotate", "finish"}
Held == {"label", "check", "region"} \cup Making

\* Where the worker goes on after a patch of the Cluster.
Continuations == {"label", "check", "step", "patchCP", "propagate", "restart", "idle"}
Releasing == {"suspend", "resolve", "scale", "nodepools", "describe", "terminate", "enis",
              "release"}

Has(c) == "karpenter" \in c.fin

\* What the records and functions of the model are.
Types ==
  /\ cluster \in Cluster /\ log \in Seq(Cluster) /\ log # << >>
  /\ {"cl", "got"} \subseteq DOMAIN w /\ w.cl \in Cluster
  /\ res \in [Resources -> {"absent", "foreign", "managed"}]
  /\ pc \in {"idle", "finalizer"} \cup Held \cup Releasing

\* The versions in the cache's way: neither deletion nor region is ever taken
\* back, and the finalizer not before every version shows the deletion.
History ==
  /\ Has(cluster) => cluster.exists
  /\ \A i \in 1..Len(log) :
       /\ log[i].deleting => cluster.deleting
       /\ log[i].region => cluster.region
       /\ Has(log[i]) /\ ~log[i].deleting => Has(cluster)
  /\ \A i, j \in 1..Len(log) : i <= j /\ log[i].deleting => log[j].deleting

AllDeleting == cluster.deleting /\ \A i \in 1..Len(log) : log[i].deleting

\* What the worker's place and copy say about the Cluster on the server.
Guarded ==
  /\ w.cl.region => cluster.region
  /\ pc = "finalizer" /\ Has(w.cl) => Has(cluster)
  /\ pc \in Held => Has(cluster)
  /\ pc \in Making => cluster.region
  /\ pc \in Releasing => AllDeleting
  /\ pc = "write" /\ w.got = "foreign" => w.cl.takeover

GuardInv == Types /\ History /\ Guarded

-----------------------------------------------------------------------------
(* Records *)

LEMMA NewTypes ==
  /\ \A b \in BOOLEAN, g \in [node: {"unset", "empty", "set"}, cp: {"unset", "set"}] :
       NewCluster(b, g) \in Cluster /\ ~Has(NewCluster(b, g)) /\ NewCluster(b, g).exists
  /\ {"cl", "got"} \subseteq DOMAIN NoLocal /\ NoLocal.cl \in Cluster /\ ~NoLocal.cl.region
<1>1. ASSUME NEW b \in BOOLEAN, NEW g \in [node: {"unset", "empty", "set"}, cp: {"unset", "set"}]
      PROVE  /\ NewCluster(b, g) \in Cluster /\ ~Has(NewCluster(b, g))
             /\ NewCluster(b, g).exists /\ ~NewCluster(b, g).region
  BY DEF NewCluster, Cluster, Has
<1>2. [node |-> "unset", cp |-> "unset"] \in [node: {"unset", "empty", "set"}, cp: {"unset", "set"}]
  OBVIOUS
<1>3. {"cl", "got"} \subseteq DOMAIN NoLocal
      /\ NoLocal.cl = NewCluster(FALSE, [node |-> "unset", cp |-> "unset"])
  BY DEF NoLocal
<1>4. QED BY <1>1, <1>2, <1>3

\* A Cluster n like c, but for its finalizers and its region.
Like(n, c, fin, region) ==
  /\ n \in Cluster /\ n.fin = fin /\ n.region = region
  /\ n.deleting = c.deleting /\ n.exists = c.exists /\ n.takeover = c.takeover

\* The Cluster at hand with one of its parts changed.
LEMMA EditedTypes ==
  ASSUME NEW c \in Cluster
  PROVE  /\ Like([c EXCEPT !.label = TRUE], c, c.fin, c.region)
         /\ Like([c EXCEPT !.region = TRUE], c, c.fin, TRUE)
         /\ Like([c EXCEPT !.groups.node = "set"], c, c.fin, c.region)
         /\ Like([c EXCEPT !.groups.cp = "set"], c, c.fin, c.region)
         /\ \A f \in SUBSET {"capi", "karpenter"} : Like([c EXCEPT !.fin = f], c, f, c.region)
         /\ \A r \in SUBSET Deployments : Like([c EXCEPT !.restarted = r], c, c.fin, c.region)
<1> USE DEF Like
<1>1. Like([c EXCEPT !.label = TRUE], c, c.fin, c.region)
  BY DEF Cluster
<1>2. Like([c EXCEPT !.region = TRUE], c, c.fin, TRUE)
  BY DEF Cluster
<1>3. Like([c EXCEPT !.groups.node = "set"], c, c.fin, c.region)
  BY DEF Cluster
<1>4. Like([c EXCEPT !.groups.cp = "set"], c, c.fin, c.region)
  BY DEF Cluster
<1>5. ASSUME NEW f \in SUBSET {"capi", "karpenter"}
      PROVE  Like([c EXCEPT !.fin = f], c, f, c.region)
  BY DEF Cluster
<1>6. ASSUME NEW r \in SUBSET Deployments
      PROVE  Like([c EXCEPT !.restarted = r], c, c.fin, c.region)
  BY DEF Cluster
<1>7. QED BY <1>1, <1>2, <1>3, <1>4, <1>5, <1>6

\* Changing another local variable leaves the Cluster at hand and the object that
\* was read alone.
LEMMA LocalEdit ==
  ASSUME {"cl", "got"} \subseteq DOMAIN w, NEW l,
         \E f, v : f \notin {"cl", "got"} /\ l = [w EXCEPT ![f] = v]
  PROVE  {"cl", "got"} \subseteq DOMAIN l /\ l.cl = w.cl /\ l.got = w.got
OBVIOUS

-----------------------------------------------------------------------------
(* Writes of the Cluster *)

\* A write that keeps deletion and region, and the finalizer unless every version
\* shows the deletion, keeps the history's invariant.
LEMMA WriteHistory ==
  ASSUME Types, History, NEW c \in Cluster, Write(c),
         cluster.deleting => c.deleting, cluster.region => c.region,
         Has(cluster) => Has(c) \/ AllDeleting,
         c.exists \/ ~Has(c)
  PROVE  /\ History' /\ cluster' \in Cluster /\ log' \in Seq(Cluster) /\ log' # << >>
         /\ cluster'.fin = c.fin /\ cluster'.region = c.region /\ cluster'.deleting = c.deleting
         /\ AllDeleting => AllDeleting'
<1> DEFINE stored == IF c.deleting /\ c.fin = {} THEN [c EXCEPT !.exists = FALSE] ELSE c
<1>1. /\ stored \in Cluster /\ stored.fin = c.fin /\ stored.region = c.region
      /\ stored.deleting = c.deleting /\ (Has(c) => stored.exists)
  BY DEF Cluster, Has
<1>2. cluster' = stored /\ log' = IF stored = cluster THEN log ELSE Append(log, stored)
  BY DEF Write
<1> HIDE DEF stored
<1>3. Has(cluster') => cluster'.exists
  BY <1>1, <1>2 DEF Has
<1>4. CASE stored = cluster
  BY <1>1, <1>2, <1>4 DEF Types, History, AllDeleting, Has
<1>5. CASE stored # cluster
  <2>1. Len(log) \in Nat /\ log \in Seq(Cluster)
    BY DEF Types
  <2>2. /\ log' \in Seq(Cluster) /\ Len(log') = Len(log) + 1 /\ log'[Len(log) + 1] = stored
        /\ \A i \in 1..Len(log) : log'[i] = log[i]
    BY <1>1, <1>2, <1>5, <2>1
  <2>3. ASSUME NEW i \in 1..Len(log')
        PROVE  \/ i \in 1..Len(log) /\ log'[i] = log[i]
               \/ i = Len(log) + 1 /\ log'[i] = stored
    BY <2>1, <2>2
  <2>4. ASSUME NEW i \in 1..Len(log')
        PROVE  /\ log'[i].deleting => cluster'.deleting
               /\ log'[i].region => cluster'.region
               /\ Has(log'[i]) /\ ~log'[i].deleting => Has(cluster')
    <3>1. CASE i \in 1..Len(log) /\ log'[i] = log[i]
      BY <1>1, <1>2, <3>1 DEF History, AllDeleting, Has
    <3>2. CASE log'[i] = stored
      BY <1>2, <3>2
    <3>3. QED BY <2>3, <3>1, <3>2
  <2>5. ASSUME NEW i \in 1..Len(log'), NEW j \in 1..Len(log'), i <= j, log'[i].deleting
        PROVE  log'[j].deleting
    <3>1. CASE j = Len(log) + 1
      BY <1>2, <2>2, <2>4, <2>5, <3>1
    <3>2. CASE j # Len(log) + 1
      <4>1. i \in 1..Len(log) /\ j \in 1..Len(log)
        BY <2>1, <2>2, <2>5, <3>2
      <4>2. QED BY <2>2, <2>5, <4>1 DEF History
    <3>3. QED BY <3>1, <3>2
  <2>6. AllDeleting => AllDeleting'
    BY <1>1, <1>2, <2>3 DEF AllDeleting
  <2>7. log' # << >>
    BY <2>1, <2>2
  <2>8. QED BY <1>1, <1>2, <1>3, <2>2, <2>4, <2>5, <2>6, <2>7 DEF History
<1>6. QED BY <1>4, <1>5

\* What Patch sends of a copy that differs from the server's Cluster.
LEMMA PatchSends ==
  ASSUME Types, NEW new \in Cluster, NEW next, PatchThen(new, next), new.exists = w.cl.exists,
         new.deleting = w.cl.deleting
  PROVE  \/ /\ new = w.cl /\ pc' = next /\ UNCHANGED clusterVars
            /\ w' = IF next = "idle" THEN NoLocal ELSE w
         \/ Fail /\ UNCHANGED clusterVars
         \/ /\ pc' = next /\ cluster.exists
            /\ IF next = "idle" THEN w' = NoLocal
               ELSE {"cl", "got"} \subseteq DOMAIN w' /\ w'.cl = cluster'
            /\ \E m \in Cluster :
                 /\ Write(m) /\ m.exists = cluster.exists /\ m.deleting = cluster.deleting
                 /\ m.fin = IF new.fin # w.cl.fin THEN new.fin ELSE cluster.fin
                 /\ m.region = IF new.region # w.cl.region THEN new.region ELSE cluster.region
                 /\ m.restarted \in {new.restarted, cluster.restarted}
            /\ next # "idle" => DOMAIN w' = DOMAIN w /\ \A f \in DOMAIN w \ {"cl"} : w'[f] = w[f]
<1> DEFINE merged == [f \in DOMAIN cluster |-> IF new[f] # w.cl[f] THEN new[f] ELSE cluster[f]]
<1>1. cluster \in Cluster /\ w.cl \in Cluster
  BY DEF Types
<1>2. merged \in Cluster
  BY <1>1 DEF Cluster
<1>3. /\ merged.exists = cluster.exists /\ merged.deleting = cluster.deleting
      /\ merged.fin = IF new.fin # w.cl.fin THEN new.fin ELSE cluster.fin
      /\ merged.region = IF new.region # w.cl.region THEN new.region ELSE cluster.region
      /\ merged.restarted \in {new.restarted, cluster.restarted}
  BY <1>1 DEF Cluster
<1>4. CASE new = w.cl
  BY <1>4 DEF PatchThen, Continue
<1>5. CASE new # w.cl /\ cluster.exists /\ (cluster.deleting => merged.fin \subseteq cluster.fin)
  <2>1. /\ Write(merged) /\ pc' = next
        /\ w' = IF next = "idle" THEN NoLocal ELSE [w EXCEPT !.cl = cluster']
    BY <1>5 DEF PatchThen, Continue
  <2>2. IF next = "idle" THEN w' = NoLocal
        ELSE {"cl", "got"} \subseteq DOMAIN w' /\ w'.cl = cluster'
    BY <2>1 DEF Types
  <2>4. next # "idle" => DOMAIN w' = DOMAIN w /\ \A f \in DOMAIN w \ {"cl"} : w'[f] = w[f]
    BY <2>1
  <2> HIDE DEF merged
  <2>3. QED BY <1>2, <1>3, <1>5, <2>1, <2>2, <2>4
<1>6. CASE new # w.cl /\ ~(cluster.exists /\ (cluster.deleting => merged.fin \subseteq cluster.fin))
  BY <1>6 DEF PatchThen
<1>7. QED BY <1>4, <1>5, <1>6

-----------------------------------------------------------------------------
(* The worker *)

SameCopy == {"cl", "got"} \subseteq DOMAIN w' /\ w'.cl = w.cl

\* The moves that need no new knowledge of the Cluster.
Move ==
  \/ pc' = "idle" /\ w' = NoLocal
  \/ pc \in Making /\ pc' \in Making \ {"write"} /\ SameCopy
  \/ pc \in Releasing /\ pc' \in Releasing /\ SameCopy

LEMMA MoveStep ==
  ASSUME GuardInv, Move, UNCHANGED clusterVars,
         res' \in [Resources -> {"absent", "foreign", "managed"}]
  PROVE  GuardInv'
<1>1. Types'
  BY NewTypes DEF GuardInv, Types, Move, SameCopy, clusterVars, Held
<1>2. History' /\ (AllDeleting => AllDeleting')
  BY DEF GuardInv, History, AllDeleting, clusterVars, Has
<1>3. Guarded'
  <2>1. CASE pc' = "idle" /\ w' = NoLocal
    BY <2>1, NewTypes DEF Guarded, Held, Making, Releasing
  <2>2. CASE pc \in Making /\ pc' \in Making \ {"write"} /\ SameCopy
    BY <2>2 DEF GuardInv, Guarded, Held, Making, Releasing, SameCopy, clusterVars, Has
  <2>3. CASE pc \in Releasing /\ pc' \in Releasing /\ SameCopy
    BY <1>2, <2>3 DEF GuardInv, Guarded, Held, Making, Releasing, SameCopy, clusterVars
  <2>4. QED BY <2>1, <2>2, <2>3 DEF Move
<1>4. QED BY <1>1, <1>2, <1>3 DEF GuardInv

LEMMA GotoMove ==
  ASSUME {"cl", "got"} \subseteq DOMAIN w, NEW k, NEW l, Goto(k, l),
         {"cl", "got"} \subseteq DOMAIN l, l.cl = w.cl
  PROVE  pc' \in {"plan", "step"} /\ SameCopy
<1>1. PICK j : w' = l \/ w' = [l EXCEPT !.k = j]
  BY DEF Goto, Continue
<1>2. pc' \in {"plan", "step"}
  BY DEF Goto, Continue
<1>3. QED BY <1>1, <1>2 DEF SameCopy

\* A failing call ends the run or, on deletion, may go on without its result.
LEMMA FailMove ==
  ASSUME Types, Fail PROVE Move
<1>1. {"cl", "got"} \subseteq DOMAIN [w EXCEPT !.region = w.cl.region]
      /\ [w EXCEPT !.region = w.cl.region].cl = w.cl
  BY DEF Types
<1>2. AfterStop \in {"describe", "release"}
  BY DEF AfterStop
<1>3. CASE pc = "resolve" /\ Continue("scale", [w EXCEPT !.region = w.cl.region])
  BY <1>1, <1>3 DEF Continue, Move, SameCopy, Releasing
<1>4. CASE pc \in {"scale", "nodepools"} /\ Continue(AfterStop, w)
  BY <1>2, <1>4 DEF Continue, Move, SameCopy, Releasing, Types
<1>5. CASE Requeue("short") \/ Error
  BY <1>5 DEF Requeue, Error, Move
<1>6. QED BY <1>3, <1>4, <1>5 DEF Fail

\* A Patch on the way to the objects: the finalizer and the region it adds are on
\* the server, whether it was sent or the copy had them already.
LEMMA PatchGuard ==
  ASSUME GuardInv, pc \in {"finalizer"} \cup Held, UNCHANGED res,
         NEW fin \in {w.cl.fin, w.cl.fin \cup {"karpenter"}}, NEW region \in {w.cl.region, TRUE},
         NEW new, Like(new, w.cl, fin, region), NEW next \in Held \ {"write"},
         PatchThen(new, next),
         pc = "finalizer" => fin = w.cl.fin \cup {"karpenter"},
         next \in Making => pc \in Making \/ region
  PROVE  GuardInv'
<1>1. Types /\ History /\ new \in Cluster /\ cluster \in Cluster /\ w.cl \in Cluster
  BY DEF GuardInv, Types, Like
<1>2. next # "idle" /\ new.exists = w.cl.exists /\ new.deleting = w.cl.deleting
  BY DEF Held, Making, Like
<1>3. CASE new = w.cl /\ pc' = next /\ w' = w /\ UNCHANGED clusterVars
  <2>1. fin = w.cl.fin /\ region = w.cl.region
    BY <1>3 DEF Like
  <2>2. Has(cluster)
    BY <2>1 DEF GuardInv, Guarded, Has
  <2>3. next \in Making => cluster.region
    BY <2>1 DEF GuardInv, Guarded
  <2>4. Types' /\ History'
    BY <1>1, <1>3 DEF Types, History, clusterVars, Has
  <2>5. Guarded'
    BY <1>3, <2>2, <2>3 DEF GuardInv, Guarded, Held, Making, Releasing, clusterVars, Has
  <2>6. QED BY <2>4, <2>5 DEF GuardInv
<1>4. CASE Fail /\ UNCHANGED clusterVars
  BY <1>1, <1>4, FailMove, MoveStep DEF Types
<1>5. CASE /\ pc' = next /\ {"cl", "got"} \subseteq DOMAIN w' /\ w'.cl = cluster'
           /\ cluster.exists
           /\ \E m \in Cluster :
                /\ Write(m) /\ m.exists = cluster.exists /\ m.deleting = cluster.deleting
                /\ m.fin = IF new.fin # w.cl.fin THEN new.fin ELSE cluster.fin
                /\ m.region = IF new.region # w.cl.region THEN new.region ELSE cluster.region
  <2>1. PICK m \in Cluster :
          /\ Write(m) /\ m.exists = cluster.exists /\ m.deleting = cluster.deleting
          /\ m.fin = IF new.fin # w.cl.fin THEN new.fin ELSE cluster.fin
          /\ m.region = IF new.region # w.cl.region THEN new.region ELSE cluster.region
    BY <1>5
  <2>2. Has(m)
    BY <2>1 DEF GuardInv, Guarded, Has, Like
  <2>3. (cluster.region => m.region) /\ (next \in Making => m.region)
    BY <2>1 DEF GuardInv, Guarded, Like
  <2>4. /\ History' /\ cluster' \in Cluster /\ log' \in Seq(Cluster) /\ log' # << >>
        /\ cluster'.fin = m.fin /\ cluster'.region = m.region
    BY <1>1, <1>5, <2>1, <2>2, <2>3, WriteHistory
  <2>5. Types'
    BY <1>1, <1>5, <2>4 DEF Types
  <2>6. Guarded'
    BY <1>5, <2>2, <2>3, <2>4 DEF Guarded, Held, Making, Releasing, Has
  <2>7. QED BY <2>4, <2>5, <2>6 DEF GuardInv
<1>6. QED BY <1>1, <1>2, <1>3, <1>4, <1>5, PatchSends

-----------------------------------------------------------------------------
(* The steps of the worker *)

LEMMA StartStep ==
  ASSUME GuardInv, StartReconcile PROVE GuardInv'
<1> DEFINE c == Head(log)
           start == [NoLocal EXCEPT !.cl = c]
<1>1. /\ Len(log) \in Nat /\ 1 \in 1..Len(log) /\ c = log[1] /\ c \in Cluster
      /\ log \in Seq(Cluster)
  BY DEF GuardInv, Types
<1>2. {"cl", "got"} \subseteq DOMAIN start /\ start.cl = c
  BY DEF NoLocal
<1>3. (c.region => cluster.region) /\ (Has(c) /\ ~c.deleting => Has(cluster))
      /\ (c.deleting => AllDeleting)
  BY <1>1 DEF GuardInv, History, AllDeleting
<1>4. UNCHANGED clusterVars /\ res' = res
  BY DEF StartReconcile
<1>5. History' /\ (AllDeleting => AllDeleting')
  BY <1>4 DEF GuardInv, History, AllDeleting, clusterVars, Has
<1> HIDE DEF start
<1>6. CASE c.deleting /\ pc' = "suspend" /\ w' = start
  <2>1. Types'
    BY <1>1, <1>2, <1>4, <1>6 DEF GuardInv, Types, clusterVars, Releasing
  <2>2. Guarded'
    BY <1>2, <1>3, <1>4, <1>5, <1>6 DEF Guarded, Held, Making, Releasing, clusterVars
  <2>3. QED BY <1>5, <2>1, <2>2 DEF GuardInv
<1>7. CASE ~c.deleting /\ pc' = "finalizer" /\ w' = start
  <2>1. Types'
    BY <1>1, <1>2, <1>4, <1>7 DEF GuardInv, Types, clusterVars
  <2>2. Guarded'
    BY <1>2, <1>3, <1>4, <1>7 DEF Guarded, Held, Making, Releasing, clusterVars, Has
  <2>3. QED BY <1>5, <2>1, <2>2 DEF GuardInv
<1>8. CASE pc = "idle" /\ UNCHANGED <<pc, w>>
  <2>1. Types'
    BY <1>4, <1>8 DEF GuardInv, Types, clusterVars
  <2>2. Guarded'
    BY <1>4, <1>8 DEF GuardInv, Guarded, Held, Making, Releasing, clusterVars
  <2>3. QED BY <1>5, <2>1, <2>2 DEF GuardInv
<1>9. QED BY <1>6, <1>7, <1>8 DEF StartReconcile, start

\* The Patches on the way: the finalizer, the label, the region, the topology's
\* groups and the Deployments that were restarted.
LEMMA PatchSteps ==
  ASSUME GuardInv,
         \/ EnsureFinalizer \/ EnsureLabel \/ AnnotateRegion
         \/ PatchNodeGroups \/ PatchControlPlaneGroups \/ AnnotateRestart
  PROVE  GuardInv'
<1> USE DEF Held, Making
<1>0. w.cl \in Cluster /\ w.cl.fin \in SUBSET {"capi", "karpenter"} /\ w.cl.restarted \in SUBSET Deployments
  BY DEF GuardInv, Types, Cluster
<1>1. CASE EnsureFinalizer
  <2> DEFINE new == [w.cl EXCEPT !.fin = w.cl.fin \cup {"karpenter"}]
  <2>1. Like(new, w.cl, w.cl.fin \cup {"karpenter"}, w.cl.region)
    BY <1>0, EditedTypes
  <2>2. pc = "finalizer" /\ PatchThen(new, "label") /\ UNCHANGED res
    BY <1>1 DEF EnsureFinalizer
  <2> HIDE DEF new
  <2>3. QED BY <2>1, <2>2, PatchGuard
<1>2. CASE EnsureLabel
  <2> DEFINE new == [w.cl EXCEPT !.label = TRUE]
  <2>1. Like(new, w.cl, w.cl.fin, w.cl.region)
    BY <1>0, EditedTypes
  <2>2. pc = "label" /\ PatchThen(new, "check") /\ UNCHANGED res
    BY <1>2 DEF EnsureLabel
  <2> HIDE DEF new
  <2>3. QED BY <2>1, <2>2, PatchGuard
<1>3. CASE AnnotateRegion
  <2> DEFINE new == [w.cl EXCEPT !.region = TRUE]
  <2>1. Like(new, w.cl, w.cl.fin, TRUE)
    BY <1>0, EditedTypes
  <2>2. pc = "region" /\ PatchThen(new, "step") /\ UNCHANGED res
    BY <1>3 DEF AnnotateRegion
  <2> HIDE DEF new
  <2>3. QED BY <2>1, <2>2, PatchGuard
<1>4. CASE PatchNodeGroups
  <2> DEFINE new == [w.cl EXCEPT !.groups.node = "set"]
  <2>1. Like(new, w.cl, w.cl.fin, w.cl.region)
    BY <1>0, EditedTypes
  <2>2. pc = "patchNode" /\ PatchThen(new, "patchCP") /\ UNCHANGED res
    BY <1>4 DEF PatchNodeGroups
  <2> HIDE DEF new
  <2>3. QED BY <2>1, <2>2, PatchGuard
<1>5. CASE PatchControlPlaneGroups
  <2> DEFINE new == [w.cl EXCEPT !.groups.cp = "set"]
  <2>1. Like(new, w.cl, w.cl.fin, w.cl.region)
    BY <1>0, EditedTypes
  <2>2. pc = "patchCP" /\ PatchThen(new, "propagate") /\ UNCHANGED res
    BY <1>5 DEF PatchControlPlaneGroups
  <2> HIDE DEF new
  <2>3. QED BY <2>1, <2>2, PatchGuard
<1>6. CASE AnnotateRestart
  <2> DEFINE new == [w.cl EXCEPT !.restarted = w.cl.restarted \cup {Subject}]
  <2>1. w.cl.restarted \cup {Subject} \in SUBSET Deployments
    BY <1>0 DEF Subject, Deployments
  <2>2. Like(new, w.cl, w.cl.fin, w.cl.region)
    BY <1>0, <2>1, EditedTypes
  <2>3. pc = "annotate" /\ PatchThen(new, "restart") /\ UNCHANGED res
    BY <1>6 DEF AnnotateRestart
  <2> HIDE DEF new
  <2>4. QED BY <2>2, <2>3, PatchGuard
<1>7. QED BY <1>1, <1>2, <1>3, <1>4, <1>5, <1>6

\* The finalizer goes only when every version shows the deletion.
LEMMA ReleaseStep ==
  ASSUME GuardInv, RemoveFinalizer PROVE GuardInv'
<1> DEFINE new == [w.cl EXCEPT !.fin = w.cl.fin \ {"karpenter"}]
<1>1. Types /\ History /\ AllDeleting /\ w.cl \in Cluster /\ w.cl.fin \in SUBSET {"capi", "karpenter"}
      /\ cluster.fin \in SUBSET {"capi", "karpenter"}
  BY DEF GuardInv, Guarded, Types, RemoveFinalizer, Releasing, Cluster
<1>2. Like(new, w.cl, w.cl.fin \ {"karpenter"}, w.cl.region)
  BY <1>1, EditedTypes
<1>3. pc = "release" /\ PatchThen(new, "idle") /\ UNCHANGED res
  BY DEF RemoveFinalizer
<1> HIDE DEF new
<1>4. \/ pc' = "idle" /\ w' = NoLocal /\ UNCHANGED clusterVars
      \/ Fail /\ UNCHANGED clusterVars
      \/ /\ pc' = "idle" /\ w' = NoLocal /\ cluster.exists
         /\ \E m \in Cluster :
              /\ Write(m) /\ m.exists = cluster.exists /\ m.deleting = cluster.deleting
              /\ m.region = cluster.region
  BY <1>1, <1>2, <1>3, PatchSends DEF Like
<1>5. CASE pc' = "idle" /\ w' = NoLocal /\ UNCHANGED clusterVars
  BY <1>3, <1>5, MoveStep DEF Move, GuardInv, Types
<1>6. CASE Fail /\ UNCHANGED clusterVars
  BY <1>1, <1>3, <1>6, FailMove, MoveStep DEF Types
<1>7. CASE /\ pc' = "idle" /\ w' = NoLocal /\ cluster.exists
           /\ \E m \in Cluster :
                /\ Write(m) /\ m.exists = cluster.exists /\ m.deleting = cluster.deleting
                /\ m.region = cluster.region
  <2>1. PICK m \in Cluster :
          /\ Write(m) /\ m.exists = cluster.exists /\ m.deleting = cluster.deleting
          /\ m.region = cluster.region
    BY <1>7
  <2>2. History' /\ cluster' \in Cluster /\ log' \in Seq(Cluster) /\ log' # << >>
    BY <1>1, <1>7, <2>1, WriteHistory
  <2>3. Types'
    BY <1>1, <1>3, <1>7, <2>2, NewTypes DEF Types
  <2>4. Guarded'
    BY <1>7, NewTypes DEF Guarded, Held, Making, Releasing
  <2>5. QED BY <2>2, <2>3, <2>4 DEF GuardInv
<1>8. QED BY <1>4, <1>5, <1>6, <1>7

LEMMA CheckStep ==
  ASSUME GuardInv, CheckPrerequisites PROVE GuardInv'
<1>1. UNCHANGED clusterVars /\ res' = res /\ pc = "check"
  BY DEF CheckPrerequisites
<1>2. CASE pc' = "region" /\ w' = w
  <2>1. Types' /\ History'
    BY <1>1, <1>2 DEF GuardInv, Types, History, clusterVars, Has, Held
  <2>2. Guarded'
    BY <1>1, <1>2 DEF GuardInv, Guarded, Held, Making, Releasing, clusterVars, Has
  <2>3. QED BY <2>1, <2>2 DEF GuardInv
<1>3. CASE Requeue("short")
  BY <1>1, <1>3, MoveStep DEF Move, Requeue, GuardInv, Types
<1>4. QED BY <1>2, <1>3 DEF CheckPrerequisites, Continue

\* Where upsertManagedUnstructured goes on.
LEMMA UpsertMoves ==
  ASSUME Types, NEW r, Managed(r) \/ NotManaged(r)
  PROVE  \/ pc' = "idle" /\ w' = NoLocal
         \/ pc' \in Making \ {"write"} /\ SameCopy
<1>1. {"cl", "got"} \subseteq DOMAIN w
  BY DEF Types
<1>2. ASSUME NEW next \in Making \ {"write"}, Continue(next, w)
      PROVE  pc' \in Making \ {"write"} /\ SameCopy
  BY <1>1, <1>2 DEF Continue, SameCopy, Making
<1>3. ASSUME NEW k, Goto(k, w)
      PROVE  pc' \in Making \ {"write"} /\ SameCopy
  BY <1>1, <1>3, GotoMove DEF Making
<1>4. CASE Requeue("steady")
  BY <1>4 DEF Requeue
<1>5. CASE Continue("sgID", w) \/ Continue("hrReady", w) \/ Continue("plan", w)
  BY <1>2, <1>5 DEF Making
<1>6. CASE Goto(w.k + 1, w) \/ Goto(Len(Steps) - 1, w)
  BY <1>3, <1>6
<1>7. QED BY <1>4, <1>5, <1>6 DEF Managed, NotManaged

\* The Get of upsertManagedUnstructured: what goes on to a write is not ours only
\* with the takeover annotation at hand.
LEMMA GetStep ==
  ASSUME GuardInv, GetResource PROVE GuardInv'
<1> DEFINE r == Steps[w.k]
           l == [w EXCEPT !.got = res[r]]
<1>1. UNCHANGED clusterVars /\ res' = res /\ pc = "step" /\ Types
  BY DEF GetResource, GuardInv
<1>2. CASE Managed(r) \/ NotManaged(r)
  BY <1>1, <1>2, UpsertMoves, MoveStep DEF Move, Types, Making
<1>3. CASE /\ ~(res[r] = "foreign" /\ ~w.cl.takeover) /\ pc' = "write" /\ w' = l
  <2>1. {"cl", "got"} \subseteq DOMAIN l /\ l.cl = w.cl /\ l.got = res[r]
    BY <1>1 DEF Types
  <2> HIDE DEF l
  <2>2. Types' /\ History'
    BY <1>1, <1>3, <2>1 DEF GuardInv, Types, History, clusterVars, Has, Held, Making
  <2>3. Guarded'
    BY <1>1, <1>3, <2>1 DEF GuardInv, Guarded, Held, Making, Releasing, clusterVars, Has
  <2>4. QED BY <2>2, <2>3 DEF GuardInv
<1>4. QED BY <1>2, <1>3 DEF GetResource, Continue

LEMMA WriteStep ==
  ASSUME GuardInv, WriteResource PROVE GuardInv'
<1>1. UNCHANGED clusterVars /\ pc = "write" /\ Types
  BY DEF WriteResource, GuardInv
<1>2. res' \in [Resources -> {"absent", "foreign", "managed"}]
  BY <1>1 DEF WriteResource, Types
<1>3. Managed(Steps[w.k]) \/ Fail
  BY DEF WriteResource
<1>4. Move
  BY <1>1, <1>3, UpsertMoves, FailMove DEF Move, Making
<1>5. QED BY <1>1, <1>2, <1>4, MoveStep

\* Local variables with the Cluster at hand as it was.
Kept(l) == {"cl", "got"} \subseteq DOMAIN l /\ l.cl = w.cl

LEMMA KeptMoves ==
  ASSUME Types
  PROVE  /\ \A next, l : Continue(next, l) /\ Kept(l) /\ pc \in Making /\ next \in Making \ {"write"} => Move
         /\ \A next, l : Continue(next, l) /\ Kept(l) /\ pc \in Releasing /\ next \in Releasing => Move
         /\ \A k, l : Goto(k, l) /\ Kept(l) /\ pc \in Making => Move
         /\ \A t : Requeue(t) => Move
<1>1. ASSUME NEW next, NEW l, Continue(next, l), Kept(l), pc \in Making, next \in Making \ {"write"}
      PROVE  Move
  BY <1>1 DEF Continue, Kept, Move, SameCopy, Making
<1>2. ASSUME NEW next, NEW l, Continue(next, l), Kept(l), pc \in Releasing, next \in Releasing
      PROVE  Move
  BY <1>2 DEF Continue, Kept, Move, SameCopy, Releasing
<1>3. ASSUME NEW k, NEW l, Goto(k, l), Kept(l), pc \in Making
      PROVE  Move
  BY <1>3, GotoMove DEF Kept, Move, Making, Types
<1>4. ASSUME NEW t, Requeue(t) PROVE Move
  BY <1>4 DEF Requeue, Move
<1>5. QED BY <1>1, <1>2, <1>3, <1>4

\* The calls between the Patches.
LEMMA MakingSteps ==
  ASSUME GuardInv,
         \/ FirstStep \/ ReadGroupID \/ Propagate \/ ReadProfiles \/ ReadHelmRelease
         \/ PlanRestarts \/ RolloutRestart \/ Finish
  PROVE  GuardInv'
<1>1. Types /\ res' \in [Resources -> {"absent", "foreign", "managed"}]
      /\ UNCHANGED clusterVars /\ pc \in Making
  BY DEF GuardInv, Types, Making, FirstStep, ReadGroupID, Propagate, ReadProfiles, ReadHelmRelease,
         PlanRestarts, RolloutRestart, Finish
<1>2. Kept(w)
  BY <1>1 DEF Kept, Types
<1>3. \A v : Kept([w EXCEPT !.short = v]) /\ Kept([w EXCEPT !.flux = v]) /\ Kept([w EXCEPT !.todo = v])
  BY <1>1 DEF Kept, Types
<1>4. \A u, v : Kept([w EXCEPT !.active = u, !.short = v]) /\ Kept([w EXCEPT !.todo = u, !.short = v])
  BY <1>1 DEF Kept, Types
<1>5. {"patchNode", "finish", "restart", "annotate"} \subseteq Making \ {"write"}
  BY DEF Making
<1>6. CASE FirstStep
  BY <1>1, <1>2, <1>6, KeptMoves, MoveStep, Zenon DEF FirstStep
<1>7. CASE ReadGroupID
  <2>1. Continue("patchNode", w) \/ Goto(w.k + 1, [w EXCEPT !.short = TRUE])
    BY <1>7 DEF ReadGroupID
  <2>2. Move
    BY <1>1, <1>2, <1>3, <1>5, <2>1, KeptMoves, Zenon
  <2>3. QED BY <1>1, <2>2, MoveStep
<1>8. CASE ReadProfiles
  <2>1. Goto(w.k + 1, [w EXCEPT !.active = fargate, !.short = w.short \/ fargate # Deployments])
    BY <1>8 DEF ReadProfiles
  <2>2. Move
    BY <1>1, <1>4, <2>1, KeptMoves, Zenon
  <2>3. QED BY <1>1, <2>2, MoveStep
<1>9. CASE ReadHelmRelease
  <2>1. Goto(w.k + 1, [w EXCEPT !.flux = hrReady])
    BY <1>9 DEF ReadHelmRelease
  <2>2. Move
    BY <1>1, <1>3, <2>1, KeptMoves, Zenon
  <2>3. QED BY <1>1, <2>2, MoveStep
<1>10. CASE PlanRestarts
  <2> DEFINE need == {d \in w.active \ w.cl.restarted : d = "karpenter" => w.flux}
  <2>1. \/ Continue("finish", [w EXCEPT !.short = w.short \/ (need # {} /\ Rotator)])
        \/ Continue("restart", [w EXCEPT !.todo = need])
    BY <1>10 DEF PlanRestarts
  <2>2. Move
    BY <1>1, <1>3, <1>5, <2>1, KeptMoves, Zenon
  <2>3. QED BY <1>1, <2>2, MoveStep
<1>11. CASE RolloutRestart
  <2>1. \/ Continue("finish", w) \/ Continue("annotate", w)
        \/ Continue("restart", [w EXCEPT !.todo = w.todo \ {Subject}, !.short = TRUE])
    BY <1>11 DEF RolloutRestart
  <2>2. Move
    BY <1>1, <1>2, <1>4, <1>5, <2>1, KeptMoves, Zenon
  <2>3. QED BY <1>1, <2>2, MoveStep
<1>12. CASE Propagate \/ Finish
  <2>1. Move
    BY <1>1, <1>12, KeptMoves, Zenon DEF Propagate, Finish
  <2>2. QED BY <1>1, <2>1, MoveStep
<1>13. QED BY <1>6, <1>7, <1>8, <1>9, <1>10, <1>11, <1>12

\* The calls of the deletion before the finalizer.
LEMMA DeletionSteps ==
  ASSUME GuardInv,
         \/ SuspendFlux \/ ResolveRegion \/ ScaleDown \/ DeleteNodePools \/ DescribeInstances
         \/ TerminateInstances \/ DeleteOrphanENIs
  PROVE  GuardInv'
<1>1. Types /\ res' \in [Resources -> {"absent", "foreign", "managed"}]
      /\ UNCHANGED clusterVars /\ pc \in Releasing
  BY DEF GuardInv, Types, Releasing, SuspendFlux, ResolveRegion, ScaleDown, DeleteNodePools,
         DescribeInstances, TerminateInstances, DeleteOrphanENIs
<1>2. /\ Kept(w)
      /\ \A v : Kept([w EXCEPT !.region = v]) /\ Kept([w EXCEPT !.ids = v])
      /\ \A u, v : Kept([w EXCEPT !.ids = u, !.tries = v])
  BY <1>1 DEF Kept, Types
<1>3. /\ {"suspend", "resolve", "scale", "nodepools", "describe", "terminate", "enis", "release"}
            \subseteq Releasing
      /\ AfterStop \in Releasing
  BY DEF Releasing, AfterStop
<1>4. CASE SuspendFlux
  <2>1. Continue("resolve", w) \/ Continue("suspend", w)
    BY <1>4 DEF SuspendFlux
  <2>2. Move
    BY <1>1, <1>2, <1>3, <2>1, KeptMoves, Zenon
  <2>3. QED BY <1>1, <2>2, MoveStep
<1>5. CASE ResolveRegion
  <2>1. Continue("scale", [w EXCEPT !.region = w.cl.region \/ (kubeconfig /\ Rotator) \/ ack])
    BY <1>5 DEF ResolveRegion
  <2>2. Move
    BY <1>1, <1>2, <1>3, <2>1, KeptMoves, Zenon
  <2>3. QED BY <1>1, <2>2, MoveStep
<1>6. CASE ScaleDown \/ DeleteNodePools
  <2>1. Continue("nodepools", w) \/ Continue(AfterStop, w)
    BY <1>6 DEF ScaleDown, DeleteNodePools
  <2>2. Move
    BY <1>1, <1>2, <1>3, <2>1, KeptMoves, Zenon
  <2>3. QED BY <1>1, <2>2, MoveStep
<1>7. CASE DescribeInstances
  <2>1. \/ \E ids : Continue("terminate", [w EXCEPT !.ids = ids])
        \/ Requeue("short") \/ Continue("enis", w)
    BY <1>7, Zenon DEF DescribeInstances
  <2>2. Move
    BY <1>1, <1>2, <1>3, <2>1, KeptMoves, Zenon
  <2>3. QED BY <1>1, <2>2, MoveStep
<1>8. CASE TerminateInstances
  <2>1. \/ Continue("describe", [w EXCEPT !.ids = {}, !.tries = w.tries + 1])
        \/ Requeue("short")
    BY <1>8 DEF TerminateInstances
  <2>2. Move
    BY <1>1, <1>2, <1>3, <2>1, KeptMoves, Zenon
  <2>3. QED BY <1>1, <2>2, MoveStep
<1>9. CASE DeleteOrphanENIs
  <2>1. Requeue("short") \/ Continue("release", w)
    BY <1>9 DEF DeleteOrphanENIs
  <2>2. Move
    BY <1>1, <1>2, <1>3, <2>1, KeptMoves, Zenon
  <2>3. QED BY <1>1, <2>2, MoveStep
<1>10. QED BY <1>4, <1>5, <1>6, <1>7, <1>8, <1>9

-----------------------------------------------------------------------------
(* The other steps *)

LEMMA FailStep ==
  ASSUME GuardInv, CallFails PROVE GuardInv'
<1>1. Types /\ Fail /\ UNCHANGED clusterVars /\ res' = res
  BY DEF GuardInv, CallFails
<1>2. QED BY <1>1, FailMove, MoveStep DEF Types

LEMMA RestartStep ==
  ASSUME GuardInv, Restart PROVE GuardInv'
<1>1. /\ cluster' = cluster /\ log' = <<cluster>> /\ pc' = "idle" /\ w' = NoLocal /\ res' = res
      /\ cluster \in Cluster
  BY DEF Restart, GuardInv, Types
<1>2. log' \in Seq(Cluster) /\ log' # << >> /\ Len(log') = 1 /\ log'[1] = cluster
  BY <1>1
<1>3. \A i \in 1..Len(log') : i = 1
  BY <1>2
<1>4. Types'
  BY <1>1, <1>2, NewTypes DEF GuardInv, Types
<1>5. History'
  BY <1>1, <1>2, <1>3 DEF GuardInv, History, Has
<1>6. Guarded'
  BY <1>1, NewTypes DEF Guarded, Held, Making, Releasing
<1>7. QED BY <1>4, <1>5, <1>6 DEF GuardInv

LEMMA CacheStep ==
  ASSUME GuardInv, CacheAdvance PROVE GuardInv'
<1>1. /\ log \in Seq(Cluster) /\ Len(log) > 1 /\ log' = Tail(log)
      /\ UNCHANGED <<cluster, pc, w, res>>
  BY DEF CacheAdvance, GuardInv, Types
<1>2. /\ log' \in Seq(Cluster) /\ Len(log') = Len(log) - 1 /\ log' # << >> /\ Len(log) \in Nat
      /\ \A i \in 1..Len(log') : i + 1 \in 1..Len(log) /\ log'[i] = log[i + 1]
  BY <1>1
<1>3. Types'
  BY <1>1, <1>2 DEF GuardInv, Types
<1>4. History'
  <2>1. ASSUME NEW i \in 1..Len(log')
        PROVE  /\ log'[i].deleting => cluster'.deleting
               /\ log'[i].region => cluster'.region
               /\ Has(log'[i]) /\ ~log'[i].deleting => Has(cluster')
    BY <1>1, <1>2 DEF GuardInv, History
  <2>2. ASSUME NEW i \in 1..Len(log'), NEW j \in 1..Len(log'), i <= j, log'[i].deleting
        PROVE  log'[j].deleting
    <3>1. i + 1 \in 1..Len(log) /\ j + 1 \in 1..Len(log) /\ i + 1 <= j + 1
      BY <1>2, <2>2
    <3>2. QED BY <1>2, <2>2, <3>1 DEF GuardInv, History
  <2>3. Has(cluster') => cluster'.exists
    BY <1>1 DEF GuardInv, History
  <2>4. QED BY <2>1, <2>2, <2>3 DEF History
<1>5. AllDeleting => AllDeleting'
  BY <1>1, <1>2 DEF AllDeleting
<1>6. Guarded'
  BY <1>1, <1>5 DEF GuardInv, Guarded
<1>7. QED BY <1>3, <1>4, <1>6 DEF GuardInv

\* Writes of the Cluster by others.
LEMMA OthersWrite ==
  ASSUME GuardInv, NEW c \in Cluster, Write(c), UNCHANGED <<pc, w, res>>,
         cluster.deleting => c.deleting, cluster.region => c.region,
         Has(cluster) => Has(c), c.exists
  PROVE  GuardInv'
<1>1. Types /\ History
  BY DEF GuardInv
<1>2. /\ History' /\ cluster' \in Cluster /\ log' \in Seq(Cluster) /\ log' # << >>
      /\ cluster'.fin = c.fin /\ cluster'.region = c.region /\ (AllDeleting => AllDeleting')
  BY <1>1, WriteHistory
<1>3. Types'
  BY <1>1, <1>2 DEF Types
<1>4. Guarded'
  BY <1>2 DEF GuardInv, Guarded, Has
<1>5. QED BY <1>2, <1>3, <1>4 DEF GuardInv

LEMMA ClusterAPIStep ==
  ASSUME GuardInv, ClusterAPI PROVE GuardInv'
<1>1. cluster \in Cluster /\ cluster.exists /\ UNCHANGED <<pc, w, res>>
  BY DEF GuardInv, Types, ClusterAPI, workerVars
<1>2. PICK f \in {cluster.fin \cup {"capi"}, cluster.fin \ {"capi"}} : Write([cluster EXCEPT !.fin = f])
  BY DEF ClusterAPI
<1>3. f \in SUBSET {"capi", "karpenter"} /\ (Has(cluster) => "karpenter" \in f)
  BY <1>1 DEF Cluster, Has
<1> DEFINE c == [cluster EXCEPT !.fin = f]
<1>4. Like(c, cluster, f, cluster.region)
  BY <1>1, <1>3, EditedTypes
<1>5. Write(c)
  BY <1>2
<1> HIDE DEF c
<1>6. QED BY <1>1, <1>3, <1>4, <1>5, OthersWrite DEF Like, Has

LEMMA UserStep ==
  ASSUME GuardInv, UserActs PROVE GuardInv'
<1>1. cluster \in Cluster /\ UNCHANGED <<pc, w>>
  BY DEF GuardInv, Types, UserActs
<1>2. CASE /\ cluster.exists /\ ~cluster.deleting /\ res' = res
           /\ \/ Write([cluster EXCEPT !.deleting = TRUE])
              \/ Write([cluster EXCEPT !.enabled = ~cluster.enabled])
              \/ Write([cluster EXCEPT !.takeover = ~cluster.takeover])
  <2>1. PICK c : /\ Write(c)
                 /\ c \in {[cluster EXCEPT !.deleting = TRUE],
                           [cluster EXCEPT !.enabled = ~cluster.enabled],
                           [cluster EXCEPT !.takeover = ~cluster.takeover]}
    BY <1>2
  <2>2. c \in Cluster /\ c.fin = cluster.fin /\ c.region = cluster.region /\ c.exists
    BY <1>1, <1>2, <2>1 DEF Cluster
  <2>3. QED BY <1>1, <1>2, <2>1, <2>2, OthersWrite DEF Has
<1>3. CASE UNCHANGED clusterVars /\ res' \in [Resources -> {"absent", "foreign", "managed"}]
  <2>1. Types' /\ History'
    BY <1>1, <1>3 DEF GuardInv, Types, History, clusterVars, Has
  <2>2. Guarded'
    BY <1>1, <1>3 DEF GuardInv, Guarded, AllDeleting, clusterVars
  <2>3. QED BY <2>1, <2>2 DEF GuardInv
<1>4. QED BY <1>2, <1>3 DEF UserActs, GuardInv, Types

\* Steps that do not touch what the invariant speaks of.
LEMMA AsideStep ==
  ASSUME GuardInv, UNCHANGED <<cluster, log, pc, w, res>> PROVE GuardInv'
<1>1. Types' /\ History'
  BY DEF GuardInv, Types, History, Has
<1>2. Guarded'
  BY DEF GuardInv, Guarded, AllDeleting
<1>3. QED BY <1>1, <1>2 DEF GuardInv

-----------------------------------------------------------------------------
(* The invariant and the theorems *)

LEMMA GuardInit == Init => GuardInv
<1> SUFFICES ASSUME Init PROVE GuardInv
  OBVIOUS
<1>1. PICK installed \in Installed : InitWith(installed)
  BY DEF Init
<1>2. PICK c \in Initial :
        cluster = IF ~installed THEN c
                  ELSE [c EXCEPT !.fin = {"capi", "karpenter"}, !.label = TRUE, !.region = TRUE,
                                 !.groups = [node |-> "set", cp |-> "set"], !.restarted = Deployments]
  BY <1>1 DEF InitWith
<1>3. c \in Cluster /\ ~Has(c) /\ c.exists
  BY <1>2, InitialAssumption, NewTypes
<1>4. cluster \in Cluster /\ cluster.exists
  BY <1>2, <1>3 DEF Cluster, Deployments
<1>5. log \in Seq(Cluster) /\ Len(log) = 1 /\ log[1] = cluster /\ log # << >>
  BY <1>4 DEF Init
<1>6. \A i \in 1..Len(log) : i = 1
  BY <1>5
<1>7. res \in [Resources -> {"absent", "foreign", "managed"}]
  BY <1>1 DEF InitWith
<1>8. pc = "idle" /\ w = NoLocal
  BY DEF Init
<1>9. Types
  BY <1>4, <1>5, <1>7, <1>8, NewTypes DEF Types
<1>10. History
  BY <1>4, <1>5, <1>6 DEF History
<1>11. Guarded
  BY <1>8, NewTypes DEF Guarded, Held, Making, Releasing
<1>12. QED BY <1>9, <1>10, <1>11 DEF GuardInv

LEMMA GuardNext == GuardInv /\ [Next]_vars => GuardInv'
<1> SUFFICES ASSUME GuardInv, [Next]_vars PROVE GuardInv'
  OBVIOUS
<1>1. CASE Worker
  BY <1>1, StartStep, PatchSteps, ReleaseStep, CheckStep, GetStep, WriteStep, MakingSteps, DeletionSteps
  DEF Worker
<1>2. CASE CallFails \/ Restart \/ CacheAdvance \/ UserActs \/ ClusterAPI
  BY <1>2, FailStep, RestartStep, CacheStep, UserStep, ClusterAPIStep
<1>3. CASE \/ TimerFires \/ Reports \/ Withdraws \/ FluxStarts \/ HelmInstalls \/ HelmReports
           \/ AppliesNodePool \/ Launch \/ AWSProgress
  <2>1. UNCHANGED <<cluster, log, pc, w, res>>
    BY <1>3 DEF TimerFires, Reports, Withdraws, FluxStarts, HelmInstalls, HelmReports, AppliesNodePool,
                Launch, AWSProgress, clusterVars, workerVars
  <2>2. QED BY <2>1, AsideStep
<1>4. CASE UNCHANGED vars
  <2>1. UNCHANGED <<cluster, log, pc, w, res>>
    BY <1>4 DEF vars, clusterVars, workerVars
  <2>2. QED BY <2>1, AsideStep
<1>5. QED BY <1>1, <1>2, <1>3, <1>4 DEF Next, World

LEMMA AlwaysGuarded == Spec => []GuardInv
<1>1. QED BY GuardInit, GuardNext, PTL DEF Spec

\* Objects become managed only at a write, and are written as they were read.
LEMMA MadeByWrite ==
  ASSUME GuardInv, [Next]_vars, NEW r \in Resources, res[r] # "managed", res'[r] = "managed"
  PROVE  pc = "write" /\ res[r] = w.got /\ UNCHANGED cluster
<1>0. res \in [Resources -> {"absent", "foreign", "managed"}]
  BY DEF GuardInv, Types
<1>1. CASE WriteResource
  BY <1>0, <1>1 DEF WriteResource, clusterVars
<1>2. CASE UserActs
  BY <1>0, <1>2 DEF UserActs
<1>3. CASE res' = res
  BY <1>3
<1>4. CASE Worker
  BY <1>1, <1>3, <1>4
  DEF Worker, StartReconcile, EnsureFinalizer, EnsureLabel, CheckPrerequisites, AnnotateRegion,
      FirstStep, GetResource, ReadGroupID, PatchNodeGroups, PatchControlPlaneGroups, Propagate,
      ReadProfiles, ReadHelmRelease, PlanRestarts, RolloutRestart, AnnotateRestart, Finish,
      SuspendFlux, ResolveRegion, ScaleDown, DeleteNodePools, DescribeInstances, TerminateInstances,
      DeleteOrphanENIs, RemoveFinalizer
<1>5. CASE CallFails \/ Restart \/ CacheAdvance \/ TimerFires \/ World \/ UNCHANGED vars
  BY <1>3, <1>5
  DEF CallFails, Restart, CacheAdvance, TimerFires, World, ClusterAPI, Reports, Withdraws,
      FluxStarts, HelmInstalls, HelmReports, AppliesNodePool, Launch, AWSProgress, vars
<1>6. QED BY <1>2, <1>4, <1>5 DEF Next

\* An object becomes managed (Create or Update of upsertManagedUnstructured) only
\* while the Cluster on the server has the bootstrapper's finalizer and the region
\* that the deletion needs, whatever the lag of the cache, the users and failures.
THEOREM CreatedGuarded == Spec => CreatedIsGuarded
<1>1. GuardInv /\ [Next]_vars =>
        [\A r \in Resources : res[r] # "managed" /\ res'[r] = "managed" =>
           cluster.exists /\ "karpenter" \in cluster.fin /\ cluster.region]_vars
  <2> SUFFICES ASSUME GuardInv, [Next]_vars, NEW r \in Resources,
                      res[r] # "managed", res'[r] = "managed"
               PROVE  cluster.exists /\ "karpenter" \in cluster.fin /\ cluster.region
    OBVIOUS
  <2>1. pc = "write"
    BY MadeByWrite
  <2>2. QED BY <2>1 DEF GuardInv, Guarded, History, Held, Making, Has
<1>2. QED BY <1>1, AlwaysGuarded, PTL DEF Spec, CreatedIsGuarded

\* An object that somebody else made is taken over only with the annotation read,
\* not even one made between the Get and the write.
THEOREM ForeignKept == Spec => ForeignIsKept
<1>1. GuardInv /\ [Next]_vars =>
        [\A r \in Resources : res[r] = "foreign" /\ res'[r] = "managed" => w.cl.takeover]_vars
  <2> SUFFICES ASSUME GuardInv, [Next]_vars, NEW r \in Resources,
                      res[r] = "foreign", res'[r] = "managed"
               PROVE  w.cl.takeover
    OBVIOUS
  <2>1. pc = "write" /\ res[r] = w.got
    BY MadeByWrite
  <2>2. QED BY <2>1 DEF GuardInv, Guarded
<1>2. QED BY <1>1, AlwaysGuarded, PTL DEF Spec, ForeignIsKept

-----------------------------------------------------------------------------
(* Restarts are recorded truthfully *)

\* Deployments behind an ACTIVE profile whose Pods are not older than it.
Fresh == {d \in fargate : deploy[d] # "stale"}

\* Every version of the Cluster there is: on the server, on its way and at hand.
Versions == {cluster, w.cl} \cup {log[i] : i \in 1..Len(log)}

\* Local variables that plan restarts behind ACTIVE profiles only.
Sound(l) == DOMAIN l = DOMAIN NoLocal /\ l.active \subseteq fargate /\ l.todo \subseteq fargate

RestartInv ==
  /\ fargate \subseteq Deployments
  /\ deploy \in [Deployments -> {"absent", "stale", "fresh", "down"}]
  /\ Sound(w)
  /\ \A c \in Versions : c.restarted \subseteq Fresh
  /\ pc = "annotate" => Subject \in Fresh

\* What is fresh stays fresh: a new Helm run makes Pods behind the profile.
LEMMA FreshGrows ==
  ASSUME RestartInv, [Next]_vars
  PROVE  /\ Fresh \subseteq Fresh' /\ fargate \subseteq fargate' /\ fargate' \subseteq Deployments
         /\ deploy' \in [Deployments -> {"absent", "stale", "fresh", "down"}]
<1>1. CASE UNCHANGED <<fargate, deploy>>
  BY <1>1 DEF RestartInv, Fresh
<1>2. CASE Reports
  <2>1. deploy' = deploy /\ fargate \subseteq fargate' /\ fargate' \subseteq Deployments
    BY <1>2 DEF Reports, RestartInv, workload
  <2>2. QED BY <2>1 DEF RestartInv, Fresh
<1>3. CASE RolloutRestart
  <2>1. CASE deploy' = deploy
    BY <1>1, <1>3, <2>1 DEF RolloutRestart, reported
  <2>2. CASE deploy' = [deploy EXCEPT ![Subject] =
                          IF deploy[Subject] = "down" THEN deploy[Subject]
                          ELSE IF Subject \in fargate THEN "fresh" ELSE "stale"]
    <3>1. fargate' = fargate
      BY <1>3 DEF RolloutRestart, reported
    <3>2. QED BY <2>2, <3>1 DEF RestartInv, Fresh
  <2>3. QED BY <1>3, <2>1, <2>2 DEF RolloutRestart
<1>4. CASE ScaleDown
  BY <1>4 DEF ScaleDown, reported, RestartInv, Fresh
<1>5. CASE HelmInstalls
  BY <1>5 DEF HelmInstalls, reported, RestartInv, Fresh
<1>6. CASE HelmReports
  BY <1>6 DEF HelmReports, RestartInv, Fresh
<1>7. CASE Worker
  BY <1>1, <1>3, <1>4, <1>7
  DEF Worker, StartReconcile, EnsureFinalizer, EnsureLabel, CheckPrerequisites, AnnotateRegion,
      FirstStep, GetResource, WriteResource, ReadGroupID, PatchNodeGroups, PatchControlPlaneGroups,
      Propagate, ReadProfiles, ReadHelmRelease, PlanRestarts, AnnotateRestart, Finish,
      SuspendFlux, ResolveRegion, DeleteNodePools, DescribeInstances, TerminateInstances,
      DeleteOrphanENIs, RemoveFinalizer, reported, workload
<1>8. CASE CallFails \/ Restart \/ CacheAdvance \/ TimerFires \/ UserActs \/ UNCHANGED vars
  BY <1>1, <1>8 DEF CallFails, Restart, CacheAdvance, TimerFires, UserActs, vars, reported, workload
<1>9. CASE World
  BY <1>1, <1>2, <1>5, <1>6, <1>9
  DEF World, ClusterAPI, Withdraws, FluxStarts, AppliesNodePool, Launch, AWSProgress, reported, workload
<1>10. QED BY <1>7, <1>8, <1>9 DEF Next

\* A write adds no other version.
LEMMA WriteVersions ==
  ASSUME Types, NEW m \in Cluster, Write(m), NEW S, m.restarted \subseteq S,
         \A c \in Versions : c.restarted \subseteq S
  PROVE  cluster'.restarted \subseteq S /\ \A i \in 1..Len(log') : log'[i].restarted \subseteq S
<1> DEFINE stored == IF m.deleting /\ m.fin = {} THEN [m EXCEPT !.exists = FALSE] ELSE m
<1>1. stored \in Cluster /\ stored.restarted \subseteq S
  BY DEF Cluster
<1>2. cluster' = stored /\ log' = IF stored = cluster THEN log ELSE Append(log, stored)
  BY DEF Write
<1> HIDE DEF stored
<1>3. \A i \in 1..Len(log) : log[i].restarted \subseteq S
  BY DEF Versions
<1>4. CASE log' = log
  BY <1>1, <1>2, <1>3, <1>4
<1>5. CASE log' = Append(log, stored)
  <2>1. \A i \in 1..Len(log') : (i \in 1..Len(log) /\ log'[i] = log[i]) \/ log'[i] = stored
    BY <1>1, <1>5 DEF Types
  <2>2. QED BY <1>1, <1>2, <1>3, <2>1
<1>6. QED BY <1>2, <1>4, <1>5

\* What a step may leave in the worker's hands, and the calls after which a
\* Deployment is about to be recorded.
Handled ==
  /\ Sound(w') /\ w'.cl \in {w.cl, NoLocal.cl, cluster', log[1]}
  /\ pc' = "annotate" => RolloutRestart \/ UNCHANGED <<pc, w>>

LEMMA Handling ==
  ASSUME Sound(w), Types
  PROVE  /\ \A next, l : Continue(next, l) /\ Sound(l) /\ l.cl = w.cl /\ next # "annotate" => Handled
         /\ \A k, l : Goto(k, l) /\ Sound(l) /\ l.cl = w.cl => Handled
         /\ \A t : Requeue(t) => Handled
         /\ Error \/ Fail => Handled
         /\ UNCHANGED <<pc, w>> => Handled
<1>1. Sound(NoLocal) /\ {"cl", "k"} \subseteq DOMAIN NoLocal
  BY DEF Sound, NoLocal
<1>2. ASSUME NEW next, NEW l, Continue(next, l), Sound(l), l.cl = w.cl, next # "annotate"
      PROVE  Handled
  BY <1>1, <1>2 DEF Continue, Handled
<1>3. ASSUME NEW k, NEW l, Goto(k, l), Sound(l), l.cl = w.cl
      PROVE  Handled
  <2>1. PICK j : Continue("plan", l) \/ Continue("step", [l EXCEPT !.k = j])
    BY <1>3 DEF Goto
  <2>2. Sound([l EXCEPT !.k = j]) /\ [l EXCEPT !.k = j].cl = w.cl
    BY <1>1, <1>3 DEF Sound
  <2>3. QED BY <1>2, <1>3, <2>1, <2>2
<1>4. ASSUME NEW t, Requeue(t) PROVE Handled
  BY <1>1, <1>4 DEF Requeue, Handled
<1>5. ASSUME Error PROVE Handled
  BY <1>1, <1>5 DEF Error, Handled
<1>6. ASSUME Fail PROVE Handled
  <2>1. Sound([w EXCEPT !.region = w.cl.region]) /\ [w EXCEPT !.region = w.cl.region].cl = w.cl
    BY <1>1 DEF Sound, NoLocal
  <2>2. AfterStop # "annotate"
    BY DEF AfterStop
  <2>3. QED BY <1>2, <1>4, <1>5, <1>6, <2>1, <2>2 DEF Fail
<1>7. ASSUME UNCHANGED <<pc, w>> PROVE Handled
  BY <1>7 DEF Handled
<1>8. QED BY <1>2, <1>3, <1>4, <1>5, <1>6, <1>7

\* A Patch adds no version but its own.
LEMMA PatchHandled ==
  ASSUME Types, Sound(w), NEW new \in Cluster, new.exists = w.cl.exists, new.deleting = w.cl.deleting,
         NEW next \in Continuations,
         PatchThen(new, next),
         NEW S, new.restarted \subseteq S, \A c \in Versions : c.restarted \subseteq S
  PROVE  /\ Handled /\ cluster'.restarted \subseteq S
         /\ \A i \in 1..Len(log') : log'[i].restarted \subseteq S
<1>1. ASSUME UNCHANGED clusterVars
      PROVE  cluster'.restarted \subseteq S /\ \A i \in 1..Len(log') : log'[i].restarted \subseteq S
  BY <1>1 DEF clusterVars, Versions
<1>2. CASE new = w.cl /\ pc' = next /\ UNCHANGED clusterVars /\ w' = IF next = "idle" THEN NoLocal ELSE w
  <2>1. Handled
    BY <1>2 DEF Handled, Sound, NoLocal, Continuations
  <2>2. QED BY <1>1, <1>2, <2>1
<1>3. CASE Fail /\ UNCHANGED clusterVars
  BY <1>1, <1>3, Handling
<1>4. CASE /\ pc' = next
           /\ IF next = "idle" THEN w' = NoLocal
              ELSE {"cl", "got"} \subseteq DOMAIN w' /\ w'.cl = cluster'
           /\ \E m \in Cluster : Write(m) /\ m.restarted \in {new.restarted, cluster.restarted}
           /\ next # "idle" => DOMAIN w' = DOMAIN w /\ \A f \in DOMAIN w \ {"cl"} : w'[f] = w[f]
  <2>1. PICK m \in Cluster : Write(m) /\ m.restarted \in {new.restarted, cluster.restarted}
    BY <1>4
  <2>2. m.restarted \subseteq S
    BY <2>1 DEF Versions
  <2>3. cluster'.restarted \subseteq S /\ \A i \in 1..Len(log') : log'[i].restarted \subseteq S
    BY <2>1, <2>2, WriteVersions
  <2>4. Sound(w')
    <3>1. CASE next = "idle"
      BY <1>4, <3>1 DEF Sound, NoLocal
    <3>2. CASE next # "idle"
      <4>1. {"active", "todo"} \subseteq DOMAIN w \ {"cl"}
        BY DEF Sound, NoLocal
      <4>2. w'["active"] = w["active"] /\ w'["todo"] = w["todo"] /\ DOMAIN w' = DOMAIN w
        BY <1>4, <3>2, <4>1
      <4>3. QED BY <4>2 DEF Sound
    <3>3. QED BY <3>1, <3>2
  <2>5. QED BY <1>4, <2>3, <2>4 DEF Handled, Continuations
<1>5. \/ new = w.cl /\ pc' = next /\ UNCHANGED clusterVars /\ w' = IF next = "idle" THEN NoLocal ELSE w
      \/ Fail /\ UNCHANGED clusterVars
      \/ /\ pc' = next
         /\ IF next = "idle" THEN w' = NoLocal
            ELSE {"cl", "got"} \subseteq DOMAIN w' /\ w'.cl = cluster'
         /\ \E m \in Cluster : Write(m) /\ m.restarted \in {new.restarted, cluster.restarted}
         /\ next # "idle" => DOMAIN w' = DOMAIN w /\ \A f \in DOMAIN w \ {"cl"} : w'[f] = w[f]
  BY PatchSends, Zenon
<1>6. QED BY <1>2, <1>3, <1>4, <1>5

\* Calls that leave the Cluster alone.
LEMMA QuietHandled ==
  ASSUME Types, RestartInv,
         \/ StartReconcile \/ CheckPrerequisites \/ FirstStep \/ GetResource \/ WriteResource
         \/ ReadGroupID \/ Propagate \/ ReadProfiles \/ ReadHelmRelease \/ PlanRestarts
         \/ RolloutRestart \/ Finish \/ SuspendFlux \/ ResolveRegion \/ ScaleDown
         \/ DeleteNodePools \/ DescribeInstances \/ TerminateInstances \/ DeleteOrphanENIs
         \/ CallFails
  PROVE  Handled
<1>0. Sound(w) /\ Sound(NoLocal) /\ DOMAIN w = DOMAIN NoLocal
  BY DEF RestartInv, Sound, NoLocal
<1>1. /\ \A v : /\ Sound([w EXCEPT !.got = v]) /\ [w EXCEPT !.got = v].cl = w.cl
                /\ Sound([w EXCEPT !.short = v]) /\ [w EXCEPT !.short = v].cl = w.cl
                /\ Sound([w EXCEPT !.flux = v]) /\ [w EXCEPT !.flux = v].cl = w.cl
                /\ Sound([w EXCEPT !.region = v]) /\ [w EXCEPT !.region = v].cl = w.cl
                /\ Sound([w EXCEPT !.ids = v]) /\ [w EXCEPT !.ids = v].cl = w.cl
  BY <1>0 DEF Sound, NoLocal
<1>2. \A u, v : Sound([w EXCEPT !.ids = u, !.tries = v]) /\ [w EXCEPT !.ids = u, !.tries = v].cl = w.cl
  BY <1>0 DEF Sound, NoLocal
<1>3. CASE StartReconcile
  <2>1. CASE UNCHANGED <<pc, w>>
    BY <1>0, <2>1, Handling
  <2>2. CASE w' = [NoLocal EXCEPT !.cl = Head(log)] /\ pc' \in {"suspend", "finalizer"}
    <3>1. Head(log) = log[1]
      BY DEF Types
    <3>2. Sound(w') /\ w'.cl = log[1]
      BY <2>2, <3>1 DEF Sound, NoLocal
    <3>3. QED BY <2>2, <3>2 DEF Handled
  <2>3. QED BY <1>3, <2>1, <2>2 DEF StartReconcile
<1>4. CASE CheckPrerequisites \/ Propagate \/ Finish \/ SuspendFlux \/ ScaleDown \/ DeleteNodePools
           \/ DeleteOrphanENIs \/ CallFails
  <2>1. /\ AfterStop # "annotate"
        /\ \/ \E next \in {"region", "resolve", "suspend", "nodepools", "release", AfterStop} : Continue(next, w)
           \/ \E t : Requeue(t)
           \/ Fail
    BY <1>4, Zenon DEF AfterStop, CheckPrerequisites, Propagate, Finish, SuspendFlux, ScaleDown,
       DeleteNodePools, DeleteOrphanENIs, CallFails
  <2>2. QED BY <1>0, <2>1, Handling
<1>5. CASE FirstStep
  BY <1>0, <1>5, Handling, Zenon DEF FirstStep
<1>6. CASE GetResource \/ WriteResource
  <2>1. \/ \E r : Managed(r) \/ NotManaged(r)
        \/ Fail
        \/ \E v : Continue("write", [w EXCEPT !.got = v])
    BY <1>6, Zenon DEF GetResource, WriteResource
  <2>2. ASSUME NEW r, Managed(r) \/ NotManaged(r) PROVE Handled
    <3>1. \/ \E next \in {"sgID", "hrReady", "plan"} : Continue(next, w)
          \/ \E k : Goto(k, w)
          \/ Requeue("steady")
      BY <2>2, Zenon DEF Managed, NotManaged
    <3>2. QED BY <1>0, <3>1, Handling
  <2>3. ASSUME NEW v, Continue("write", [w EXCEPT !.got = v]) PROVE Handled
    BY <1>0, <1>1, <2>3, Handling, Zenon
  <2>4. QED BY <1>0, <2>1, <2>2, <2>3, Handling
<1>7. CASE ReadGroupID \/ ReadHelmRelease
  <2>1. \/ Continue("patchNode", w)
        \/ Goto(w.k + 1, [w EXCEPT !.short = TRUE])
        \/ Goto(w.k + 1, [w EXCEPT !.flux = hrReady])
    BY <1>7 DEF ReadGroupID, ReadHelmRelease
  <2>2. "patchNode" # "annotate"
    OBVIOUS
  <2>3. QED BY <1>0, <1>1, <2>1, <2>2, Handling, Zenon
<1>8. CASE ReadProfiles
  <2> DEFINE l == [w EXCEPT !.active = fargate, !.short = w.short \/ fargate # Deployments]
  <2>1. Goto(w.k + 1, l)
    BY <1>8 DEF ReadProfiles
  <2>2. Sound(l) /\ l.cl = w.cl
    BY <1>0 DEF Sound, NoLocal
  <2> HIDE DEF l
  <2>3. QED BY <1>0, <2>1, <2>2, Handling
<1>9. CASE PlanRestarts
  <2> DEFINE need == {d \in w.active \ w.cl.restarted : d = "karpenter" => w.flux}
  <2>1. \/ Continue("finish", [w EXCEPT !.short = w.short \/ (need # {} /\ Rotator)])
        \/ Continue("restart", [w EXCEPT !.todo = need])
    BY <1>9 DEF PlanRestarts
  <2>2. Sound([w EXCEPT !.todo = need]) /\ [w EXCEPT !.todo = need].cl = w.cl
    BY <1>0 DEF Sound, NoLocal
  <2>3. "finish" # "annotate" /\ "restart" # "annotate"
    OBVIOUS
  <2>4. QED BY <1>0, <1>1, <2>1, <2>2, <2>3, Handling, Zenon
<1>10. CASE RolloutRestart
  <2> DEFINE l == [w EXCEPT !.todo = w.todo \ {Subject}, !.short = TRUE]
  <2>1. \/ Continue("finish", w) \/ Continue("annotate", w) \/ Continue("restart", l)
    BY <1>10 DEF RolloutRestart
  <2>2. Sound(l) /\ l.cl = w.cl
    BY <1>0 DEF Sound, NoLocal
  <2> HIDE DEF l
  <2>3. CASE Continue("annotate", w)
    BY <1>0, <1>10, <2>3 DEF Continue, Handled
  <2>4. QED BY <1>0, <2>1, <2>2, <2>3, Handling
<1>11. CASE ResolveRegion \/ DescribeInstances \/ TerminateInstances
  <2>1. \/ \E v : Continue("scale", [w EXCEPT !.region = v])
        \/ \E v : Continue("terminate", [w EXCEPT !.ids = v])
        \/ \E u, v : Continue("describe", [w EXCEPT !.ids = u, !.tries = v])
        \/ Continue("enis", w) \/ Requeue("short")
    BY <1>11, Zenon DEF ResolveRegion, DescribeInstances, TerminateInstances
  <2>2. "scale" # "annotate" /\ "terminate" # "annotate" /\ "describe" # "annotate" /\ "enis" # "annotate"
    OBVIOUS
  <2>3. QED BY <1>0, <1>1, <1>2, <2>1, <2>2, Handling, Zenon
<1>12. QED BY <1>3, <1>4, <1>5, <1>6, <1>7, <1>8, <1>9, <1>10, <1>11

\* No step makes a version with a record that is not fresh.
LEMMA VersionsStep ==
  ASSUME GuardInv, RestartInv, [Next]_vars
  PROVE  /\ Handled /\ cluster'.restarted \subseteq Fresh
         /\ \A i \in 1..Len(log') : log'[i].restarted \subseteq Fresh
<1> DEFINE Recorded == cluster'.restarted \subseteq Fresh /\ \A i \in 1..Len(log') : log'[i].restarted \subseteq Fresh
<1>0. /\ Types /\ Sound(w) /\ w.cl \in Cluster /\ cluster \in Cluster
      /\ \A c \in Versions : c.restarted \subseteq Fresh
      /\ cluster.restarted \subseteq Fresh /\ w.cl.restarted \subseteq Fresh
      /\ \A i \in 1..Len(log) : log[i].restarted \subseteq Fresh
      /\ w.cl.fin \in SUBSET {"capi", "karpenter"} /\ w.cl.restarted \in SUBSET Deployments
  BY DEF GuardInv, RestartInv, Types, Versions, Cluster
<1>1. ASSUME UNCHANGED clusterVars PROVE Recorded
  BY <1>0, <1>1 DEF clusterVars
<1>2. ASSUME NEW m \in Cluster, Write(m), m.restarted = cluster.restarted PROVE Recorded
  BY <1>0, <1>2, WriteVersions
<1>3. ASSUME UNCHANGED <<pc, w>> PROVE Handled
  BY <1>0, <1>3, Handling
<1>4. CASE \/ StartReconcile \/ CheckPrerequisites \/ FirstStep \/ GetResource \/ WriteResource
           \/ ReadGroupID \/ Propagate \/ ReadProfiles \/ ReadHelmRelease \/ PlanRestarts
           \/ RolloutRestart \/ Finish \/ SuspendFlux \/ ResolveRegion \/ ScaleDown
           \/ DeleteNodePools \/ DescribeInstances \/ TerminateInstances \/ DeleteOrphanENIs
           \/ CallFails
  <2>1. UNCHANGED clusterVars
    BY <1>4 DEF StartReconcile, CheckPrerequisites, FirstStep, GetResource, WriteResource, ReadGroupID,
       Propagate, ReadProfiles, ReadHelmRelease, PlanRestarts, RolloutRestart, Finish, SuspendFlux,
       ResolveRegion, ScaleDown, DeleteNodePools, DescribeInstances, TerminateInstances,
       DeleteOrphanENIs, CallFails
  <2>2. QED BY <1>0, <1>1, <1>4, <2>1, QuietHandled
<1>5. ASSUME NEW new, Like(new, w.cl, new.fin, new.region), new.restarted \subseteq Fresh,
             NEW next \in Continuations,
             PatchThen(new, next)
      PROVE  Handled /\ Recorded
  <2>1. new \in Cluster /\ new.exists = w.cl.exists /\ new.deleting = w.cl.deleting
    BY <1>5 DEF Like
  <2>2. \A c \in Versions : c.restarted \subseteq Fresh
    BY <1>0
  <2>3. /\ Handled /\ cluster'.restarted \subseteq Fresh
        /\ \A i \in 1..Len(log') : log'[i].restarted \subseteq Fresh
    BY <1>0, <1>5, <2>1, <2>2, PatchHandled, Zenon
  <2>4. QED BY <2>3
<1>6. CASE EnsureFinalizer \/ RemoveFinalizer
  <2>1. PICK f \in {w.cl.fin \cup {"karpenter"}, w.cl.fin \ {"karpenter"}}, next \in {"label", "idle"} :
          PatchThen([w.cl EXCEPT !.fin = f], next)
    BY <1>6 DEF EnsureFinalizer, RemoveFinalizer
  <2> DEFINE new == [w.cl EXCEPT !.fin = f]
  <2>2. f \in SUBSET {"capi", "karpenter"}
    BY <1>0
  <2>3. Like(new, w.cl, f, w.cl.region) /\ new.restarted = w.cl.restarted
    BY <1>0, <2>2, EditedTypes DEF Cluster
  <2>4. PatchThen(new, next)
    BY <2>1
  <2> HIDE DEF new
  <2>5. Like(new, w.cl, new.fin, new.region)
    BY <2>3 DEF Like
  <2>6. QED BY <1>0, <1>5, <2>3, <2>4, <2>5 DEF Continuations
<1>7. CASE EnsureLabel
  <2> DEFINE new == [w.cl EXCEPT !.label = TRUE]
  <2>1. Like(new, w.cl, w.cl.fin, w.cl.region) /\ new.restarted = w.cl.restarted
    BY <1>0, EditedTypes DEF Cluster
  <2>2. PatchThen(new, "check")
    BY <1>7 DEF EnsureLabel
  <2> HIDE DEF new
  <2>3. Like(new, w.cl, new.fin, new.region)
    BY <2>1 DEF Like
  <2>4. QED BY <1>0, <1>5, <2>1, <2>2, <2>3 DEF Continuations
<1>8. CASE AnnotateRegion
  <2> DEFINE new == [w.cl EXCEPT !.region = TRUE]
  <2>1. Like(new, w.cl, w.cl.fin, TRUE) /\ new.restarted = w.cl.restarted
    BY <1>0, EditedTypes DEF Cluster
  <2>2. PatchThen(new, "step")
    BY <1>8 DEF AnnotateRegion
  <2> HIDE DEF new
  <2>3. Like(new, w.cl, new.fin, new.region)
    BY <2>1 DEF Like
  <2>4. QED BY <1>0, <1>5, <2>1, <2>2, <2>3 DEF Continuations
<1>9. CASE PatchNodeGroups
  <2> DEFINE new == [w.cl EXCEPT !.groups.node = "set"]
  <2>1. Like(new, w.cl, w.cl.fin, w.cl.region) /\ new.restarted = w.cl.restarted
    BY <1>0, EditedTypes DEF Cluster
  <2>2. PatchThen(new, "patchCP")
    BY <1>9 DEF PatchNodeGroups
  <2> HIDE DEF new
  <2>3. Like(new, w.cl, new.fin, new.region)
    BY <2>1 DEF Like
  <2>4. QED BY <1>0, <1>5, <2>1, <2>2, <2>3 DEF Continuations
<1>10. CASE PatchControlPlaneGroups
  <2> DEFINE new == [w.cl EXCEPT !.groups.cp = "set"]
  <2>1. Like(new, w.cl, w.cl.fin, w.cl.region) /\ new.restarted = w.cl.restarted
    BY <1>0, EditedTypes DEF Cluster
  <2>2. PatchThen(new, "propagate")
    BY <1>10 DEF PatchControlPlaneGroups
  <2> HIDE DEF new
  <2>3. Like(new, w.cl, new.fin, new.region)
    BY <2>1 DEF Like
  <2>4. QED BY <1>0, <1>5, <2>1, <2>2, <2>3 DEF Continuations
<1>11. CASE AnnotateRestart
  <2> DEFINE r == w.cl.restarted \cup {Subject}
             new == [w.cl EXCEPT !.restarted = r]
  <2>1. r \in SUBSET Deployments /\ r \subseteq Fresh
    BY <1>0, <1>11 DEF AnnotateRestart, RestartInv, Subject, Deployments
  <2>2. PatchThen(new, "restart")
    BY <1>11 DEF AnnotateRestart
  <2> HIDE DEF r
  <2>3. Like(new, w.cl, w.cl.fin, w.cl.region) /\ new.restarted = r
    BY <1>0, <2>1, EditedTypes DEF Cluster
  <2> HIDE DEF new
  <2>4. Like(new, w.cl, new.fin, new.region)
    BY <2>3 DEF Like
  <2>5. QED BY <1>5, <2>1, <2>2, <2>3, <2>4 DEF Continuations
<1>12. CASE Restart
  <2>1. Handled
    BY <1>12 DEF Restart, Handled, Sound, NoLocal
  <2>2. cluster' = cluster /\ Len(log') = 1 /\ log'[1] = cluster
    BY <1>12 DEF Restart
  <2>3. QED BY <1>0, <2>1, <2>2
<1>13. CASE CacheAdvance
  <2>1. UNCHANGED <<cluster, pc, w>> /\ log' = Tail(log) /\ Len(log) > 1
    BY <1>13 DEF CacheAdvance
  <2>2. \A i \in 1..Len(log') : i + 1 \in 1..Len(log) /\ log'[i] = log[i + 1]
    BY <1>0, <2>1 DEF Types
  <2>3. QED BY <1>0, <1>3, <2>1, <2>2
<1>14. CASE ClusterAPI
  <2>1. PICK f \in {cluster.fin \cup {"capi"}, cluster.fin \ {"capi"}} : Write([cluster EXCEPT !.fin = f])
    BY <1>14 DEF ClusterAPI
  <2> DEFINE m == [cluster EXCEPT !.fin = f]
  <2>2. m \in Cluster /\ m.restarted = cluster.restarted
    BY <1>0 DEF Cluster
  <2>3. Write(m)
    BY <2>1
  <2> HIDE DEF m
  <2>4. QED BY <1>2, <1>3, <1>14, <2>2, <2>3 DEF ClusterAPI, workerVars
<1>15. CASE UserActs
  <2>1. UNCHANGED <<pc, w>>
    BY <1>15 DEF UserActs
  <2>2. CASE UNCHANGED clusterVars
    BY <1>1, <1>3, <2>1, <2>2
  <2>3. CASE \E m \in {[cluster EXCEPT !.deleting = TRUE],
                       [cluster EXCEPT !.enabled = ~cluster.enabled],
                       [cluster EXCEPT !.takeover = ~cluster.takeover]} : Write(m)
    <3>1. PICK m \in {[cluster EXCEPT !.deleting = TRUE],
                      [cluster EXCEPT !.enabled = ~cluster.enabled],
                      [cluster EXCEPT !.takeover = ~cluster.takeover]} : Write(m)
      BY <2>3
    <3>2. m \in Cluster /\ m.restarted = cluster.restarted
      BY <1>0 DEF Cluster
    <3>3. QED BY <1>2, <1>3, <2>1, <3>1, <3>2
  <2>4. QED BY <1>15, <2>2, <2>3 DEF UserActs
<1>16. CASE \/ TimerFires \/ Reports \/ Withdraws \/ FluxStarts \/ HelmInstalls \/ HelmReports
            \/ AppliesNodePool \/ Launch \/ AWSProgress \/ UNCHANGED vars
  <2>1. UNCHANGED clusterVars /\ UNCHANGED <<pc, w>>
    BY <1>16 DEF TimerFires, Reports, Withdraws, FluxStarts, HelmInstalls, HelmReports, AppliesNodePool,
                 Launch, AWSProgress, workerVars, vars
  <2>2. QED BY <1>1, <1>3, <2>1
<1>17. QED BY <1>4, <1>6, <1>7, <1>8, <1>9, <1>10, <1>11, <1>12, <1>13, <1>14, <1>15, <1>16
       DEF Next, Worker, World

LEMMA RestartInit == Init => RestartInv
<1> SUFFICES ASSUME Init PROVE RestartInv
  OBVIOUS
<1>0. GuardInv
  BY GuardInit
<1>1. PICK installed \in Installed : InitWith(installed)
  BY DEF Init
<1>2. PICK c \in Initial :
        cluster = IF ~installed THEN c
                  ELSE [c EXCEPT !.fin = {"capi", "karpenter"}, !.label = TRUE, !.region = TRUE,
                                 !.groups = [node |-> "set", cp |-> "set"], !.restarted = Deployments]
  BY <1>1 DEF InitWith
<1>3. c \in Cluster /\ c.restarted = {}
  BY <1>2, InitialAssumption, NewTypes DEF NewCluster
<1>4. fargate \in {{}, Deployments} /\ (installed => fargate = Deployments)
  BY <1>1 DEF InitWith
<1>5. /\ deploy \in [Deployments -> {"absent", "stale", "fresh", "down"}]
      /\ installed => \A d \in Deployments : deploy[d] = "fresh"
  <2>1. CASE installed
    BY <1>1, <2>1 DEF InitWith
  <2>2. CASE ~installed
    BY <1>1, <2>2 DEF InitWith, Deployments
  <2>3. QED BY <2>1, <2>2
<1>6. cluster.restarted \subseteq Fresh
  <2>1. CASE ~installed
    BY <1>2, <1>3, <2>1
  <2>2. CASE installed
    BY <1>2, <1>3, <1>4, <1>5, <2>2 DEF Cluster, Fresh
  <2>3. QED BY <2>1, <2>2
<1>7. w = NoLocal /\ pc = "idle" /\ Len(log) = 1 /\ log[1] = cluster
  BY DEF Init
<1>8. Sound(w) /\ w.cl.restarted = {}
  BY <1>7 DEF Sound, NoLocal, NewCluster
<1>9. \A v \in Versions : v.restarted \subseteq Fresh
  BY <1>6, <1>7, <1>8 DEF Versions
<1>10. QED BY <1>4, <1>5, <1>7, <1>8, <1>9 DEF RestartInv

LEMMA RestartNext == GuardInv /\ RestartInv /\ [Next]_vars => RestartInv'
<1> SUFFICES ASSUME GuardInv, RestartInv, [Next]_vars PROVE RestartInv'
  OBVIOUS
<1>1. /\ Fresh \subseteq Fresh' /\ fargate \subseteq fargate' /\ fargate' \subseteq Deployments
      /\ deploy' \in [Deployments -> {"absent", "stale", "fresh", "down"}]
  BY FreshGrows
<1>2. /\ Handled /\ cluster'.restarted \subseteq Fresh
      /\ \A i \in 1..Len(log') : log'[i].restarted \subseteq Fresh
  BY VersionsStep
<1>3. Sound(w)'
  BY <1>1, <1>2 DEF Handled, Sound
<1>4. w'.cl.restarted \subseteq Fresh
  <2>1. NoLocal.cl.restarted = {}
    BY DEF NoLocal, NewCluster
  <2>2. 1 \in 1..Len(log)
    BY DEF GuardInv, Types
  <2>3. w.cl.restarted \subseteq Fresh /\ log[1].restarted \subseteq Fresh
    BY <2>2 DEF RestartInv, Versions
  <2>4. QED BY <1>2, <2>1, <2>3 DEF Handled
<1>5. \A c \in Versions' : c.restarted \subseteq Fresh'
  BY <1>1, <1>2, <1>4 DEF Versions
<1>6. ASSUME pc' = "annotate" PROVE Subject' \in Fresh'
  <2>1. CASE UNCHANGED <<pc, w>>
    BY <1>1, <1>6, <2>1 DEF RestartInv, Subject, Todo
  <2>2. CASE RolloutRestart
    <3>1. /\ Todo # {} /\ w' = w /\ fargate' = fargate
          /\ deploy' = [deploy EXCEPT ![Subject] =
                          IF deploy[Subject] = "down" THEN deploy[Subject]
                          ELSE IF Subject \in fargate THEN "fresh" ELSE "stale"]
      BY <1>6, <2>2 DEF RolloutRestart, Continue, reported
    <3>2. Todo \subseteq fargate /\ fargate \subseteq {"coredns", "karpenter"}
      BY DEF RestartInv, Sound, Todo, Deployments
    <3>3. Subject \in fargate
      BY <3>1, <3>2 DEF Subject
    <3>4. Subject' = Subject
      BY <3>1 DEF Subject, Todo
    <3>5. deploy'[Subject] # "stale"
      BY <3>1, <3>3 DEF RestartInv
    <3>6. QED BY <3>1, <3>3, <3>4, <3>5 DEF Fresh
  <2>3. QED BY <1>2, <1>6, <2>1, <2>2 DEF Handled
<1>7. QED BY <1>1, <1>3, <1>5, <1>6 DEF RestartInv

\* A Deployment that is recorded as restarted on the Cluster has Pods no older than
\* its ACTIVE Fargate profile, although restart and record are two calls, the
\* record goes out from an old copy, and Helm runs go on beside them.
THEOREM RestartsAreTrue == Spec => []RestartedIsFresh
<1>1. RestartInv => RestartedIsFresh
  BY DEF RestartInv, Versions, Fresh, RestartedIsFresh
<1>2. QED BY <1>1, RestartInit, RestartNext, AlwaysGuarded, PTL DEF Spec

-----------------------------------------------------------------------------
(* The finalizer and the instances *)

Live == \E i \in Instances : inst[i] \in {"running", "shutting"}
Nodes == nodepool \/ Live
Stopping == Releasing \ {"suspend", "resolve"}

\* Nodes come only after the region was recorded and before the deletion, so that
\* a deletion that finds no region has no nodes to look for; behind the last
\* Describe there are instances only if Karpenter still launches them.
NodesInv ==
  /\ inst \in [Instances -> {"none", "running", "shutting", "terminated"}]
  /\ (\E r \in Resources : res[r] = "managed") => cluster.region
  /\ Nodes => cluster.region /\ \A i \in 1..Len(log) : log[i].deleting => log[i].region
  /\ pc \in Releasing /\ Nodes => w.cl.region
  /\ pc \in Stopping /\ Nodes => w.region
  /\ pc \in {"enis", "release"} /\ Live => CanLaunch

\* What a step may do to the Cluster.
ClusterStepped ==
  \/ UNCHANGED clusterVars
  \/ cluster' = cluster /\ log' \in {Tail(log), <<cluster>>} /\ Len(log) > 0
  \/ \E m \in Cluster : /\ Write(m) /\ (cluster.region => m.region)
                        /\ Has(cluster) => Has(m) \/ RemoveFinalizer

LEMMA PatchStepped ==
  ASSUME Types, NEW fin, NEW region, NEW new, Like(new, w.cl, fin, region), NEW next, PatchThen(new, next),
         w.cl.region => region, "karpenter" \in fin \/ RemoveFinalizer \/ fin = w.cl.fin
  PROVE  ClusterStepped
<1>1. new \in Cluster /\ new.exists = w.cl.exists /\ new.deleting = w.cl.deleting
      /\ new.fin = fin /\ new.region = region
  BY DEF Like
<1>2. ASSUME NEW m \in Cluster, Write(m),
             m.fin = IF new.fin # w.cl.fin THEN new.fin ELSE cluster.fin,
             m.region = IF new.region # w.cl.region THEN new.region ELSE cluster.region
      PROVE  ClusterStepped
  <2>1. (cluster.region => m.region) /\ (Has(cluster) => Has(m) \/ RemoveFinalizer)
    <3>1. w.cl.region \in BOOLEAN /\ region \in BOOLEAN
      BY <1>1 DEF Types, Cluster
    <3>2. QED BY <1>1, <1>2, <3>1 DEF Has
  <2>2. QED BY <1>2, <2>1 DEF ClusterStepped
<1>3. \/ UNCHANGED clusterVars
      \/ \E m \in Cluster : /\ Write(m)
                            /\ m.fin = IF new.fin # w.cl.fin THEN new.fin ELSE cluster.fin
                            /\ m.region = IF new.region # w.cl.region THEN new.region ELSE cluster.region
  BY <1>1, PatchSends, Zenon
<1>4. QED BY <1>2, <1>3 DEF ClusterStepped

LEMMA ClusterStep ==
  ASSUME GuardInv, [Next]_vars PROVE ClusterStepped
<1>0. /\ Types /\ w.cl \in Cluster /\ cluster \in Cluster
      /\ w.cl.fin \in SUBSET {"capi", "karpenter"} /\ w.cl.restarted \in SUBSET Deployments
  BY DEF GuardInv, Types, Cluster
<1>1. ASSUME UNCHANGED clusterVars PROVE ClusterStepped
  BY <1>1 DEF ClusterStepped
<1>2. CASE EnsureFinalizer \/ RemoveFinalizer
  <2>1. PICK f \in {w.cl.fin \cup {"karpenter"}, w.cl.fin \ {"karpenter"}}, next \in {"label", "idle"} :
          /\ PatchThen([w.cl EXCEPT !.fin = f], next)
          /\ "karpenter" \in f \/ RemoveFinalizer
    BY <1>2 DEF EnsureFinalizer, RemoveFinalizer
  <2>2. f \in SUBSET {"capi", "karpenter"}
    BY <1>0
  <2> DEFINE new == [w.cl EXCEPT !.fin = f]
  <2>3. Like(new, w.cl, f, w.cl.region) /\ PatchThen(new, next)
    BY <1>0, <2>1, <2>2, EditedTypes
  <2> HIDE DEF new
  <2>4. QED BY <1>0, <2>1, <2>3, PatchStepped
<1>3. CASE EnsureLabel
  <2>1. PatchThen([w.cl EXCEPT !.label = TRUE], "check")
    BY <1>3 DEF EnsureLabel
  <2>2. Like([w.cl EXCEPT !.label = TRUE], w.cl, w.cl.fin, w.cl.region)
    BY <1>0, EditedTypes
  <2>3. QED BY <1>0, <2>1, <2>2, PatchStepped, Zenon
<1>4. CASE AnnotateRegion
  <2>1. PatchThen([w.cl EXCEPT !.region = TRUE], "step")
    BY <1>4 DEF AnnotateRegion
  <2>2. Like([w.cl EXCEPT !.region = TRUE], w.cl, w.cl.fin, TRUE)
    BY <1>0, EditedTypes
  <2>3. QED BY <1>0, <2>1, <2>2, PatchStepped, Zenon
<1>5. CASE PatchNodeGroups
  <2>1. PatchThen([w.cl EXCEPT !.groups.node = "set"], "patchCP")
    BY <1>5 DEF PatchNodeGroups
  <2>2. Like([w.cl EXCEPT !.groups.node = "set"], w.cl, w.cl.fin, w.cl.region)
    BY <1>0, EditedTypes
  <2>3. QED BY <1>0, <2>1, <2>2, PatchStepped, Zenon
<1>6. CASE PatchControlPlaneGroups
  <2>1. PatchThen([w.cl EXCEPT !.groups.cp = "set"], "propagate")
    BY <1>6 DEF PatchControlPlaneGroups
  <2>2. Like([w.cl EXCEPT !.groups.cp = "set"], w.cl, w.cl.fin, w.cl.region)
    BY <1>0, EditedTypes
  <2>3. QED BY <1>0, <2>1, <2>2, PatchStepped, Zenon
<1>7. CASE AnnotateRestart
  <2>1. PatchThen([w.cl EXCEPT !.restarted = w.cl.restarted \cup {Subject}], "restart")
    BY <1>7 DEF AnnotateRestart
  <2>2. w.cl.restarted \cup {Subject} \in SUBSET Deployments
    BY <1>0 DEF Subject, Deployments
  <2>3. Like([w.cl EXCEPT !.restarted = w.cl.restarted \cup {Subject}], w.cl, w.cl.fin, w.cl.region)
    BY <1>0, <2>2, EditedTypes
  <2>4. QED BY <1>0, <2>1, <2>3, PatchStepped, Zenon
<1>8. CASE Restart \/ CacheAdvance
  <2>1. cluster' = cluster /\ log' \in {Tail(log), <<cluster>>} /\ Len(log) > 0
    BY <1>0, <1>8 DEF Restart, CacheAdvance, Types
  <2>2. QED BY <2>1 DEF ClusterStepped
<1>9. ASSUME NEW m \in Cluster, Write(m), m.region = cluster.region, Has(cluster) => Has(m)
      PROVE  ClusterStepped
  BY <1>9 DEF ClusterStepped
<1>10. CASE ClusterAPI
  <2>1. PICK f \in {cluster.fin \cup {"capi"}, cluster.fin \ {"capi"}} : Write([cluster EXCEPT !.fin = f])
    BY <1>10 DEF ClusterAPI
  <2> DEFINE m == [cluster EXCEPT !.fin = f]
  <2>2. m \in Cluster /\ m.region = cluster.region /\ (Has(cluster) => Has(m))
    BY <1>0 DEF Cluster, Has
  <2>3. Write(m)
    BY <2>1
  <2> HIDE DEF m
  <2>4. QED BY <1>9, <2>2, <2>3
<1>11. CASE UserActs
  <2>1. CASE UNCHANGED clusterVars
    BY <1>1, <2>1
  <2>2. CASE \E m \in {[cluster EXCEPT !.deleting = TRUE],
                       [cluster EXCEPT !.enabled = ~cluster.enabled],
                       [cluster EXCEPT !.takeover = ~cluster.takeover]} : Write(m)
    <3>1. PICK m \in {[cluster EXCEPT !.deleting = TRUE],
                      [cluster EXCEPT !.enabled = ~cluster.enabled],
                      [cluster EXCEPT !.takeover = ~cluster.takeover]} : Write(m)
      BY <2>2
    <3>2. m \in Cluster /\ m.region = cluster.region /\ m.fin = cluster.fin
      BY <1>0 DEF Cluster
    <3>3. QED BY <1>9, <3>1, <3>2 DEF Has
  <2>3. QED BY <1>11, <2>1, <2>2 DEF UserActs
<1>12. CASE \/ StartReconcile \/ CheckPrerequisites \/ FirstStep \/ GetResource \/ WriteResource
            \/ ReadGroupID \/ Propagate \/ ReadProfiles \/ ReadHelmRelease \/ PlanRestarts
            \/ RolloutRestart \/ Finish \/ SuspendFlux \/ ResolveRegion \/ ScaleDown
            \/ DeleteNodePools \/ DescribeInstances \/ TerminateInstances \/ DeleteOrphanENIs
            \/ CallFails
  BY <1>1, <1>12 DEF StartReconcile, CheckPrerequisites, FirstStep, GetResource, WriteResource, ReadGroupID,
       Propagate, ReadProfiles, ReadHelmRelease, PlanRestarts, RolloutRestart, Finish, SuspendFlux,
       ResolveRegion, ScaleDown, DeleteNodePools, DescribeInstances, TerminateInstances,
       DeleteOrphanENIs, CallFails
<1>13. CASE \/ TimerFires \/ Reports \/ Withdraws \/ FluxStarts \/ HelmInstalls \/ HelmReports
            \/ AppliesNodePool \/ Launch \/ AWSProgress \/ UNCHANGED vars
  BY <1>1, <1>13 DEF TimerFires, Reports, Withdraws, FluxStarts, HelmInstalls, HelmReports, AppliesNodePool,
                 Launch, AWSProgress, vars
<1>14. QED BY <1>2, <1>3, <1>4, <1>5, <1>6, <1>7, <1>8, <1>10, <1>11, <1>12, <1>13 DEF Next, Worker, World

\* The region is never taken back, and every version that shows the deletion has it
\* once there is none without.
RegionKnown == cluster.region /\ \A i \in 1..Len(log) : log[i].deleting => log[i].region

LEMMA RegionStep ==
  ASSUME Types, ClusterStepped
  PROVE  (cluster.region => cluster'.region) /\ (RegionKnown => RegionKnown')
<1>0. log \in Seq(Cluster)
  BY DEF Types
<1>1. CASE UNCHANGED clusterVars
  BY <1>1 DEF clusterVars, RegionKnown
<1>2. CASE cluster' = cluster /\ log' = Tail(log) /\ Len(log) > 0
  <2>1. \A i \in 1..Len(log') : i + 1 \in 1..Len(log) /\ log'[i] = log[i + 1]
    BY <1>0, <1>2
  <2>2. QED BY <1>2, <2>1 DEF RegionKnown
<1>3. CASE cluster' = cluster /\ log' = <<cluster>>
  <2>1. \A i \in 1..Len(log') : log'[i] = cluster
    BY <1>3
  <2>2. QED BY <1>3, <2>1 DEF RegionKnown
<1>4. CASE \E m \in Cluster : Write(m) /\ (cluster.region => m.region)
  <2>1. PICK m \in Cluster : Write(m) /\ (cluster.region => m.region)
    BY <1>4
  <2> DEFINE stored == IF m.deleting /\ m.fin = {} THEN [m EXCEPT !.exists = FALSE] ELSE m
  <2>2. stored \in Cluster /\ stored.region = m.region
    BY DEF Cluster
  <2>3. cluster' = stored /\ log' = IF stored = cluster THEN log ELSE Append(log, stored)
    BY <2>1 DEF Write
  <2> HIDE DEF stored
  <2>4. CASE log' = log
    BY <2>1, <2>2, <2>3, <2>4 DEF RegionKnown
  <2>5. CASE log' = Append(log, stored)
    <3>1. \A i \in 1..Len(log') : (i \in 1..Len(log) /\ log'[i] = log[i]) \/ log'[i] = stored
      BY <1>0, <2>2, <2>5
    <3>2. QED BY <2>1, <2>2, <2>3, <3>1 DEF RegionKnown
  <2>6. QED BY <2>3, <2>4, <2>5
<1>5. QED BY <1>1, <1>2, <1>3, <1>4 DEF ClusterStepped

\* The way of the deletion's worker.
Stepped ==
  \/ pc' \notin Releasing
  \/ UNCHANGED <<pc, w>> /\ (pc \in {"enis", "release"} => ~Worker /\ ~CallFails)
  \/ pc' = "suspend" /\ Head(log).deleting /\ w'.cl = Head(log)
  \/ pc = "suspend" /\ pc' \in {"suspend", "resolve"} /\ w' = w
  \/ pc = "resolve" /\ pc' = "scale" /\ w'.cl = w.cl /\ (w.cl.region => w'.region)
  \/ pc \in {"scale", "nodepools"} /\ pc' \in {"nodepools", "describe"} /\ w' = w
  \/ pc \in {"scale", "nodepools"} /\ pc' = "release" /\ w' = w /\ ~w.region
  \/ pc \in {"describe", "terminate"} /\ pc' \in {"describe", "terminate"} /\ w'.cl = w.cl /\ w'.region = w.region
  \/ pc = "describe" /\ pc' = "enis" /\ w' = w /\ ~Live /\ UNCHANGED inst
  \/ pc = "enis" /\ pc' = "release" /\ w' = w /\ UNCHANGED <<inst, deploy, nodepool>>

LEMMA PatchQuits ==
  ASSUME NEW new, NEW next, next \notin Releasing, PatchThen(new, next),
         pc \notin {"resolve", "scale", "nodepools"}
  PROVE  pc' \notin Releasing
BY DEF PatchThen, Continue, Fail, Requeue, Error, Releasing

LEMMA SteppedOn ==
  ASSUME GuardInv, RestartInv, inst \in [Instances -> {"none", "running", "shutting", "terminated"}],
         [Next]_vars
  PROVE  Stepped
<1>0. {"cl", "region", "ids", "tries"} \subseteq DOMAIN w
  BY DEF RestartInv, Sound, NoLocal
<1>1. ASSUME NEW t, Requeue(t) PROVE pc' \notin Releasing
  BY <1>1 DEF Requeue, Releasing
<1>2. ASSUME NEW next, next \notin Releasing, NEW l, Continue(next, l) PROVE pc' \notin Releasing
  BY <1>2 DEF Continue
<1>3. ASSUME NEW k, NEW l, Goto(k, l) PROVE pc' \notin Releasing
  BY <1>3 DEF Goto, Continue, Releasing
<1>4. ASSUME Fail, pc \notin {"resolve", "scale", "nodepools"} PROVE pc' \notin Releasing
  BY <1>4 DEF Fail, Requeue, Error, Releasing
<1>5. ASSUME NEW r, Managed(r) \/ NotManaged(r) PROVE pc' \notin Releasing
  <2>1. \/ \E next \in {"sgID", "hrReady", "plan"} : Continue(next, w)
        \/ \E k : Goto(k, w)
        \/ Requeue("steady")
    BY <1>5, Zenon DEF Managed, NotManaged
  <2>2. {"sgID", "hrReady", "plan"} \cap Releasing = {}
    BY DEF Releasing
  <2>3. QED BY <1>1, <1>2, <1>3, <2>1, <2>2
<1>6. CASE \/ EnsureFinalizer \/ EnsureLabel \/ AnnotateRegion \/ PatchNodeGroups
           \/ PatchControlPlaneGroups \/ AnnotateRestart \/ RemoveFinalizer
  <2>1. PICK new, next : /\ PatchThen(new, next) /\ next \notin Releasing
                         /\ pc \notin {"resolve", "scale", "nodepools"}
    BY <1>6 DEF EnsureFinalizer, EnsureLabel, AnnotateRegion, PatchNodeGroups, PatchControlPlaneGroups,
       AnnotateRestart, RemoveFinalizer, Releasing
  <2>2. QED BY <2>1, PatchQuits DEF Stepped
<1>7. CASE StartReconcile
  BY <1>7 DEF StartReconcile, Stepped, NoLocal, Releasing
<1>8. CASE CheckPrerequisites \/ Propagate \/ Finish \/ FirstStep \/ ReadGroupID \/ ReadProfiles
           \/ ReadHelmRelease \/ PlanRestarts \/ RolloutRestart
  <2>1. \/ \E next \in {"region", "patchNode", "finish", "restart", "annotate"} : \E l : Continue(next, l)
        \/ \E t : Requeue(t)
        \/ \E k, l : Goto(k, l)
    BY <1>8, Zenon DEF CheckPrerequisites, Propagate, Finish, FirstStep, ReadGroupID, ReadProfiles,
       ReadHelmRelease, PlanRestarts, RolloutRestart
  <2>2. {"region", "patchNode", "finish", "restart", "annotate"} \cap Releasing = {}
    BY DEF Releasing
  <2>3. QED BY <1>1, <1>2, <1>3, <2>1, <2>2 DEF Stepped
<1>9. CASE GetResource \/ WriteResource
  <2>1. \/ \E r : Managed(r) \/ NotManaged(r)
        \/ Fail
        \/ \E l : Continue("write", l)
    BY <1>9, Zenon DEF GetResource, WriteResource
  <2>2. pc \notin {"resolve", "scale", "nodepools"} /\ "write" \notin Releasing
    BY <1>9 DEF GetResource, WriteResource, Releasing
  <2>3. QED BY <1>2, <1>4, <1>5, <2>1, <2>2 DEF Stepped
<1>10. CASE SuspendFlux
  BY <1>10 DEF SuspendFlux, Continue, Stepped
<1>11. CASE ResolveRegion
  BY <1>0, <1>11 DEF ResolveRegion, Continue, Stepped
<1>12. CASE ScaleDown \/ DeleteNodePools
  BY <1>12 DEF ScaleDown, DeleteNodePools, Continue, AfterStop, Stepped
<1>13. CASE DescribeInstances
  <2>1. CASE Requeue("short")
    BY <1>1, <2>1 DEF Stepped
  <2>2. CASE \E ids : Continue("terminate", [w EXCEPT !.ids = ids])
    BY <1>0, <1>13, <2>2 DEF DescribeInstances, Continue, Stepped
  <2>3. CASE /\ Continue("enis", w) /\ {i \in Instances : inst[i] = "running"} = {}
             /\ {i \in Instances : inst[i] = "shutting"} = {}
    <3>1. ~Live
      BY <2>3 DEF Live
    <3>2. QED BY <1>13, <2>3, <3>1 DEF DescribeInstances, Continue, Stepped, workload
  <2>4. QED BY <1>13, <2>1, <2>2, <2>3 DEF DescribeInstances
<1>14. CASE TerminateInstances
  <2>1. CASE Requeue("short")
    BY <1>1, <2>1 DEF Stepped
  <2>2. CASE Continue("describe", [w EXCEPT !.ids = {}, !.tries = w.tries + 1])
    BY <1>0, <1>14, <2>2 DEF TerminateInstances, Continue, Stepped
  <2>3. QED BY <1>14, <2>1, <2>2 DEF TerminateInstances
<1>15. CASE DeleteOrphanENIs
  BY <1>1, <1>15 DEF DeleteOrphanENIs, Continue, Stepped
<1>16. CASE CallFails
  <2>1. CASE pc \notin {"resolve", "scale", "nodepools"}
    BY <1>4, <1>16, <2>1 DEF CallFails, Stepped
  <2>2. CASE pc \in {"resolve", "scale", "nodepools"}
    BY <1>0, <1>16, <2>2 DEF CallFails, Fail, Requeue, Error, Continue, AfterStop, Stepped
  <2>3. QED BY <2>1, <2>2
<1>17. CASE Restart
  BY <1>17 DEF Restart, Stepped, Releasing
<1>18. ASSUME pc \in {"enis", "release"}, Worker \/ CallFails PROVE Stepped
  BY <1>6, <1>15, <1>16, <1>18
  DEF Worker, StartReconcile, EnsureFinalizer, EnsureLabel, CheckPrerequisites, AnnotateRegion,
      FirstStep, GetResource, WriteResource, ReadGroupID, PatchNodeGroups, PatchControlPlaneGroups,
      Propagate, ReadProfiles, ReadHelmRelease, PlanRestarts, RolloutRestart, AnnotateRestart, Finish,
      SuspendFlux, ResolveRegion, ScaleDown, DeleteNodePools, DescribeInstances, TerminateInstances
<1>19. CASE CacheAdvance \/ TimerFires \/ UserActs \/ World \/ UNCHANGED vars
  <2>1. UNCHANGED <<pc, w>>
    BY <1>19 DEF CacheAdvance, TimerFires, UserActs, World, ClusterAPI, Reports, Withdraws, FluxStarts,
       HelmInstalls, HelmReports, AppliesNodePool, Launch, AWSProgress, workerVars, vars
  <2>2. QED BY <1>18, <2>1 DEF Stepped
<1>20. QED BY <1>6, <1>7, <1>8, <1>9, <1>10, <1>11, <1>12, <1>13, <1>14, <1>15, <1>16, <1>17, <1>19
       DEF Next, Worker

LEMMA ConcatAt ==
  ASSUME NEW S, NEW s \in Seq(S), NEW t \in Seq(S), NEW k \in 1..Len(t)
  PROVE  /\ s \o t \in Seq(S)
         /\ Len(s) + k \in DOMAIN (s \o t) /\ (s \o t)[Len(s) + k] = t[k]
<1>1. Len(s) \in Nat /\ Len(s \o t) = Len(s) + Len(t) /\ s \o t \in Seq(S) /\ Len(t) \in Nat
  OBVIOUS
<1>2. DOMAIN (s \o t) = 1..Len(s \o t)
  BY <1>1
<1>3. QED BY <1>1, <1>2

LEMMA Tuples ==
  ASSUME NEW S, NEW a \in S, NEW b \in S, NEW c \in S, NEW d \in S, NEW e \in S
  PROVE  <<a>> \in Seq(S) /\ <<a, b, c, d, e>> \in Seq(S)
OBVIOUS

LEMMA SeqWidens ==
  ASSUME NEW S, NEW T, S \subseteq T, NEW s \in Seq(S)
  PROVE  s \in Seq(T)
OBVIOUS

\* The list of steps has the ConfigMap in it.
LEMMA StepsHaveConfigMap == "cm" \in Resources
<1> DEFINE S == STRING \cup {"sg", "profiles", "oci", "hr", "cm", "crs"}
           first == <<"sg">>
           last == <<"profiles", "oci", "hr", "cm", "crs">>
<1>1. /\ "sg" \in S /\ "profiles" \in S /\ "oci" \in S /\ "hr" \in S /\ "cm" \in S /\ "crs" \in S
      /\ STRING \subseteq S
  OBVIOUS
<1>2. Steps = (first \o Chain) \o last
  BY Zenon DEF Steps
<1>3. last[4] = "cm" /\ 4 \in 1..Len(last)
  OBVIOUS
<1> HIDE DEF S
<1>4. first \in Seq(S) /\ last \in Seq(S)
  BY <1>1, Tuples, Zenon
<1>5. Chain \in Seq(S)
  BY <1>1, ConstantsAssumption, SeqWidens, Zenon
<1> HIDE DEF first, last
<1>6. first \o Chain \in Seq(S)
  BY <1>4, <1>5
<1>7. /\ Len(first \o Chain) + 4 \in DOMAIN ((first \o Chain) \o last)
      /\ ((first \o Chain) \o last)[Len(first \o Chain) + 4] = last[4]
  BY <1>3, <1>4, <1>6, ConcatAt
<1>8. Len(first \o Chain) + 4 \in DOMAIN Steps /\ Steps[Len(first \o Chain) + 4] = "cm"
  BY <1>2, <1>3, <1>7
<1>9. "cm" \in {Steps[k] : k \in DOMAIN Steps} /\ "cm" # "profiles"
  BY <1>8
<1>10. QED BY <1>9 DEF Resources

\* Where new nodes come from.
LEMMA NodesStep ==
  ASSUME GuardInv, NodesInv, [Next]_vars
  PROVE  /\ inst' \in [Instances -> {"none", "running", "shutting", "terminated"}]
         /\ Live' => Live \/ Launch
         /\ Nodes' => Nodes \/ AppliesNodePool
<1>0. inst \in [Instances -> {"none", "running", "shutting", "terminated"}]
  BY DEF NodesInv
<1>1. CASE UNCHANGED inst /\ (nodepool' => nodepool)
  BY <1>0, <1>1 DEF Live, Nodes
<1>2. CASE AppliesNodePool
  BY <1>0, <1>2 DEF AppliesNodePool, Live
<1>3. CASE Launch
  BY <1>0, <1>3 DEF Launch, CanLaunch, Live, Nodes
<1>4. CASE TerminateInstances
  <2>1. /\ inst' = [i \in Instances |-> IF i \in w.ids /\ inst[i] = "running" THEN "shutting" ELSE inst[i]]
        /\ nodepool' = nodepool
    BY <1>4 DEF TerminateInstances
  <2>2. QED BY <1>0, <2>1 DEF Live, Nodes
<1>5. CASE AWSProgress
  <2>1. nodepool' = nodepool /\ \/ inst' = inst
                                \/ \E i \in Instances : inst' = [inst EXCEPT ![i] = "terminated"]
    BY <1>5 DEF AWSProgress
  <2>2. QED BY <1>0, <2>1 DEF Live, Nodes
<1>6. CASE Worker
  BY <1>1, <1>4, <1>6
  DEF Worker, StartReconcile, EnsureFinalizer, EnsureLabel, CheckPrerequisites, AnnotateRegion,
      FirstStep, GetResource, WriteResource, ReadGroupID, PatchNodeGroups, PatchControlPlaneGroups, Propagate,
      ReadProfiles, ReadHelmRelease, PlanRestarts, RolloutRestart, AnnotateRestart, Finish,
      SuspendFlux, ResolveRegion, ScaleDown, DeleteNodePools, DescribeInstances,
      DeleteOrphanENIs, RemoveFinalizer, workload
<1>7. CASE CallFails \/ Restart \/ CacheAdvance \/ TimerFires \/ UserActs \/ UNCHANGED vars
  BY <1>1, <1>7 DEF CallFails, Restart, CacheAdvance, TimerFires, UserActs, vars, workload
<1>8. CASE World
  BY <1>1, <1>2, <1>3, <1>5, <1>8
  DEF World, ClusterAPI, Reports, Withdraws, FluxStarts, HelmInstalls, HelmReports, workload
<1>9. QED BY <1>6, <1>7, <1>8 DEF Next

\* While the worker looks on, Karpenter is not stopped by anybody else.
LEMMA LaunchKept ==
  ASSUME [Next]_vars, ~Worker, deploy \in [Deployments -> {"absent", "stale", "fresh", "down"}]
  PROVE  CanLaunch => CanLaunch'
<1>1. CASE UNCHANGED <<deploy, nodepool>>
  BY <1>1 DEF CanLaunch
<1>2. CASE HelmInstalls \/ HelmReports \/ AppliesNodePool
  BY <1>2 DEF HelmInstalls, HelmReports, AppliesNodePool, CanLaunch, Deployments
<1>3. CASE CallFails \/ Restart \/ CacheAdvance \/ TimerFires \/ UserActs \/ UNCHANGED vars
  BY <1>1, <1>3 DEF CallFails, Restart, CacheAdvance, TimerFires, UserActs, vars, workload
<1>4. CASE World
  BY <1>1, <1>2, <1>4
  DEF World, ClusterAPI, Reports, Withdraws, FluxStarts, Launch, AWSProgress, workload
<1>5. QED BY <1>3, <1>4 DEF Next

LEMMA NodesInit == Init => NodesInv
<1> SUFFICES ASSUME Init PROVE NodesInv
  OBVIOUS
<1>1. PICK installed \in Installed : InitWith(installed)
  BY DEF Init
<1>2. PICK c \in Initial :
        cluster = IF ~installed THEN c
                  ELSE [c EXCEPT !.fin = {"capi", "karpenter"}, !.label = TRUE, !.region = TRUE,
                                 !.groups = [node |-> "set", cp |-> "set"], !.restarted = Deployments]
  BY <1>1 DEF InitWith
<1>3. c \in Cluster /\ ~c.deleting
  BY <1>2, InitialAssumption, NewTypes DEF NewCluster
<1>4. (installed => cluster.region) /\ ~cluster.deleting
  BY <1>2, <1>3 DEF Cluster
<1>5. nodepool = installed /\ res = [r \in Resources |-> IF installed THEN "managed" ELSE "absent"]
  BY <1>1 DEF InitWith
<1>6. inst = [i \in Instances |-> "none"] /\ pc = "idle" /\ log = <<cluster>>
  BY DEF Init
<1>7. ~Live
  BY <1>6 DEF Live
<1>8. installed \in BOOLEAN
  BY <1>1, ConstantsAssumption
<1>9. \A i \in 1..Len(log) : log[i] = cluster
  BY <1>6
<1>10. QED BY <1>4, <1>5, <1>6, <1>7, <1>8, <1>9 DEF NodesInv, Nodes, Releasing, Stopping

LEMMA NodesNext == GuardInv /\ RestartInv /\ NodesInv /\ [Next]_vars => NodesInv'
<1> SUFFICES ASSUME GuardInv, RestartInv, NodesInv, [Next]_vars PROVE NodesInv'
  OBVIOUS
<1>1. /\ inst' \in [Instances -> {"none", "running", "shutting", "terminated"}]
      /\ Live' => Live \/ Launch
      /\ Nodes' => Nodes \/ AppliesNodePool
  BY NodesStep
<1>2. /\ Types /\ (cluster.region => cluster'.region) /\ (RegionKnown => RegionKnown')
  BY ClusterStep, RegionStep DEF GuardInv
<1>3. (\E r \in Resources : res'[r] = "managed") => cluster'.region
  <2> SUFFICES ASSUME NEW r \in Resources, res'[r] = "managed" PROVE cluster'.region
    OBVIOUS
  <2>1. CASE res[r] = "managed"
    BY <1>2, <2>1 DEF NodesInv
  <2>2. CASE res[r] # "managed"
    <3>1. pc = "write"
      BY <2>2, MadeByWrite
    <3>2. cluster.region
      BY <3>1 DEF GuardInv, Guarded, Making
    <3>3. QED BY <1>2, <3>2
  <2>3. QED BY <2>1, <2>2
<1>4. ASSUME AppliesNodePool
      PROVE  RegionKnown /\ pc \notin Releasing /\ pc' = pc
  <2>1. res["cm"] = "managed" /\ ~cluster.deleting /\ pc' = pc
    BY <1>4 DEF AppliesNodePool, workerVars
  <2>2. cluster.region
    BY <2>1, StepsHaveConfigMap DEF NodesInv
  <2>3. \A i \in 1..Len(log) : ~log[i].deleting
    BY <2>1 DEF GuardInv, History
  <2>4. pc \notin Releasing
    BY <2>1 DEF GuardInv, Guarded, AllDeleting
  <2>5. QED BY <2>1, <2>2, <2>3, <2>4 DEF RegionKnown
<1>5. Nodes => RegionKnown
  BY DEF NodesInv, RegionKnown
<1>6. Nodes' => RegionKnown'
  BY <1>1, <1>2, <1>4, <1>5
<1>7. pc' \in Releasing /\ Nodes' => Nodes
  BY <1>1, <1>4
<1>8. Stepped
  BY SteppedOn DEF NodesInv
<1>9. ASSUME pc' \in Releasing, Nodes'
      PROVE  w'.cl.region /\ (pc' \in Stopping => w'.region)
  <2>1. Nodes /\ RegionKnown
    BY <1>5, <1>7, <1>9
  <2>2. CASE pc' = "suspend" /\ Head(log).deleting /\ w'.cl = Head(log)
    <3>1. Head(log) = log[1] /\ 1 \in 1..Len(log)
      BY <1>2 DEF Types
    <3>2. QED BY <2>1, <2>2, <3>1 DEF RegionKnown, Stopping
  <2>3. CASE UNCHANGED <<pc, w>>
    BY <1>9, <2>1, <2>3 DEF NodesInv
  <2>4. CASE pc = "suspend" /\ pc' \in {"suspend", "resolve"} /\ w' = w
    BY <2>1, <2>4 DEF NodesInv, Releasing, Stopping
  <2>5. CASE pc = "resolve" /\ pc' = "scale" /\ w'.cl = w.cl /\ (w.cl.region => w'.region)
    BY <2>1, <2>5 DEF NodesInv, Releasing, Stopping
  <2>6. CASE pc \in Stopping /\ w'.cl = w.cl /\ w'.region = w.region
    BY <2>1, <2>6 DEF NodesInv, Stopping
  <2>7. QED BY <1>8, <1>9, <2>2, <2>3, <2>4, <2>5, <2>6 DEF Stepped, Stopping, Releasing
<1>10. ASSUME pc' \in {"enis", "release"}, Live' PROVE CanLaunch'
  <2>1. CASE UNCHANGED <<pc, w>> /\ ~Worker /\ ~CallFails
    <3>1. CanLaunch
      BY <1>1, <1>10, <2>1 DEF NodesInv, Launch
    <3>2. QED BY <2>1, <3>1, LaunchKept DEF RestartInv
  <2>2. CASE pc \in {"scale", "nodepools"} /\ pc' = "release" /\ w' = w /\ ~w.region
    <3>1. pc' \in Releasing /\ Nodes'
      BY <1>10, <2>2 DEF Releasing, Nodes
    <3>2. Nodes
      BY <1>7, <3>1
    <3>3. QED BY <2>2, <3>2 DEF NodesInv, Releasing, Stopping
  <2>3. CASE pc = "describe" /\ pc' = "enis" /\ ~Live /\ UNCHANGED inst
    BY <1>10, <2>3 DEF Live
  <2>4. CASE pc = "enis" /\ pc' = "release" /\ UNCHANGED <<inst, deploy, nodepool>>
    BY <1>10, <2>4 DEF NodesInv, Live, CanLaunch
  <2>5. QED BY <1>8, <1>10, <2>1, <2>2, <2>3, <2>4 DEF Stepped, Releasing
<1>11. QED BY <1>1, <1>3, <1>6, <1>9, <1>10 DEF NodesInv, RegionKnown, Stopping

\* RemoveFinalizer takes the finalizer while an instance runs or shuts down only if
\* Karpenter could not be stopped and launched it behind the last Describe; a
\* deletion that finds no region has no nodes to look for.
THEOREM ReleasedClean == Spec => ReleasedIsClean
<1>1. Spec => []NodesInv
  BY NodesInit, NodesNext, RestartInit, RestartNext, AlwaysGuarded, PTL DEF Spec
<1>2. GuardInv /\ NodesInv /\ [Next]_vars =>
        [/\ "karpenter" \in cluster.fin /\ "karpenter" \notin cluster'.fin
         /\ \E i \in Instances : inst[i] \in {"running", "shutting"}
         => CanLaunch]_vars
  <2> SUFFICES ASSUME GuardInv, NodesInv, [Next]_vars, Has(cluster), ~Has(cluster'), Live
               PROVE  CanLaunch
    BY DEF Has, Live
  <2>1. RemoveFinalizer
    <3>1. PICK m \in Cluster : Write(m) /\ (Has(m) \/ RemoveFinalizer)
      BY ClusterStep DEF ClusterStepped, clusterVars
    <3>2. cluster'.fin = m.fin
      BY <3>1 DEF Write, Cluster
    <3>3. QED BY <3>1, <3>2 DEF Has
  <2>2. QED BY <2>1 DEF NodesInv, RemoveFinalizer
<1>3. QED BY <1>1, <1>2, AlwaysGuarded, PTL DEF Spec, ReleasedIsClean
-----------------------------------------------------------------------------
(* Types *)

LEMMA LeastNatural ==
  ASSUME NEW T, T \subseteq Nat, T # {}
  PROVE  \E x \in T : \A y \in T : x <= y
<1>1. PICK x \in T : \A y \in T : ~(<<y, x>> \in OpToRel(<, Nat))
  BY NatLessThanWellFounded, WFMin
<1>2. ASSUME NEW y \in T PROVE ~(y < x)
  BY <1>1, <1>2 DEF OpToRel
<1>3. QED BY <1>2

LEMMA StepsTyped ==
  ASSUME NEW S, S = STRING \cup {"sg", "profiles", "oci", "hr", "cm", "crs"}
  PROVE  Steps \in Seq(S)
<1>1. /\ "sg" \in S /\ "profiles" \in S /\ "oci" \in S /\ "hr" \in S /\ "cm" \in S /\ "crs" \in S
      /\ STRING \subseteq S
  OBVIOUS
<1>2. Chain \in Seq(S)
  BY <1>1, ConstantsAssumption, SeqWidens, Zenon
<1>3. <<"sg">> \in Seq(S) /\ <<"profiles", "oci", "hr", "cm", "crs">> \in Seq(S)
  BY <1>1, Tuples, Zenon
<1>4. QED BY <1>2, <1>3 DEF Steps

\* The steps are numbered from 1.
LEMMA StepsNumbered == Len(Steps) \in Nat /\ DOMAIN Steps = 1..Len(Steps)
BY StepsTyped

\* Goto finds the next step that applies, if there is one.
LEMMA GotoNext ==
  ASSUME NEW k \in Nat, NEW l, Goto(k, l)
  PROVE  \/ /\ pc' = "plan" /\ w' = l
            /\ \A i \in k..Len(Steps) : Skipped(Steps[i], l.cl)
         \/ \E j \in k..Len(Steps) :
              /\ pc' = "step" /\ w' = [l EXCEPT !.k = j]
              /\ \A i \in k..Len(Steps) : i < j => Skipped(Steps[i], l.cl)
<1> DEFINE ks == {j \in k..Len(Steps) : ~Skipped(Steps[j], l.cl)}
           m == CHOOSE j \in ks : \A i \in ks : j <= i
<1>1. CASE ks = {}
  BY <1>1 DEF Goto, Continue
<1>2. CASE ks # {}
  <2>1. ks \subseteq Nat
    BY StepsNumbered
  <2>2. \E j \in ks : \A i \in ks : j <= i
    BY <1>2, <2>1, LeastNatural
  <2>3. m \in ks /\ \A i \in ks : m <= i
    BY <2>2
  <2>4. pc' = "step" /\ w' = [l EXCEPT !.k = m]
    BY <1>2 DEF Goto, Continue
  <2> HIDE DEF m
  <2>5. ASSUME NEW i \in k..Len(Steps), i < m PROVE Skipped(Steps[i], l.cl)
    BY <2>1, <2>3, <2>5
  <2>6. QED BY <2>3, <2>4, <2>5
<1>3. QED BY <1>1, <1>2

\* Local variables with one of them changed.
LEMMA LocalEdits ==
  ASSUME NEW l \in Local
  PROVE  /\ \A c \in Cluster : [l EXCEPT !.cl = c] \in Local
         /\ \A k \in 0..Len(Steps) : [l EXCEPT !.k = k] \in Local
         /\ \A g \in {"absent", "foreign", "managed"} : [l EXCEPT !.got = g] \in Local
         /\ \A b \in BOOLEAN : /\ [l EXCEPT !.short = b] \in Local
                               /\ [l EXCEPT !.flux = b] \in Local
                               /\ [l EXCEPT !.region = b] \in Local
         /\ \A s \in SUBSET Deployments : /\ [l EXCEPT !.active = s] \in Local
                                          /\ [l EXCEPT !.todo = s] \in Local
         /\ \A s \in SUBSET Instances : [l EXCEPT !.ids = s] \in Local
         /\ \A n \in 0..2 : [l EXCEPT !.tries = n] \in Local
<1>1. \A c \in Cluster : [l EXCEPT !.cl = c] \in Local
  BY DEF Local
<1>2. \A k \in 0..Len(Steps) : [l EXCEPT !.k = k] \in Local
  BY DEF Local
<1>3. \A g \in {"absent", "foreign", "managed"} : [l EXCEPT !.got = g] \in Local
  BY DEF Local
<1>4. ASSUME NEW b \in BOOLEAN
      PROVE  /\ [l EXCEPT !.short = b] \in Local /\ [l EXCEPT !.flux = b] \in Local
             /\ [l EXCEPT !.region = b] \in Local
  BY DEF Local
<1>5. ASSUME NEW s \in SUBSET Deployments
      PROVE  [l EXCEPT !.active = s] \in Local /\ [l EXCEPT !.todo = s] \in Local
  BY DEF Local
<1>6. \A s \in SUBSET Instances : [l EXCEPT !.ids = s] \in Local
  BY DEF Local
<1>7. \A n \in 0..2 : [l EXCEPT !.tries = n] \in Local
  BY DEF Local
<1>8. QED BY <1>1, <1>2, <1>3, <1>4, <1>5, <1>6, <1>7

LEMMA NoLocalType == NoLocal \in Local
<1> DEFINE c == NewCluster(FALSE, [node |-> "unset", cp |-> "unset"])
<1>1. [node |-> "unset", cp |-> "unset"] \in [node: {"unset", "empty", "set"}, cp: {"unset", "set"}]
  OBVIOUS
<1>2. c \in Cluster
  BY <1>1, NewTypes
<1>3. 0 \in 0..Len(Steps) /\ 0 \in 0..2
  BY StepsNumbered
<1>4. NoLocal = [cl |-> c, k |-> 0, got |-> "absent", short |-> FALSE, active |-> {},
                 flux |-> FALSE, todo |-> {}, region |-> FALSE, ids |-> {}, tries |-> 0]
  BY DEF NoLocal
<1> HIDE DEF c
<1>5. QED BY <1>2, <1>3, <1>4 DEF Local

\* The ways in which a run goes on or ends keep the types of its variables.
LEMMA LocalMoves ==
  ASSUME w \in Local
  PROVE  /\ \A next, l : Continue(next, l) /\ l \in Local => w' \in Local
         /\ \A k \in Nat : \A l : Goto(k, l) /\ l \in Local => w' \in Local
         /\ (\E t : Requeue(t)) \/ Error \/ Fail => w' \in Local
         /\ w.k + 1 \in Nat /\ Len(Steps) - 1 \in Nat
<1>1. ASSUME NEW next, NEW l, Continue(next, l), l \in Local PROVE w' \in Local
  BY <1>1, NoLocalType DEF Continue
<1>2. ASSUME NEW k \in Nat, NEW l, Goto(k, l), l \in Local PROVE w' \in Local
  <2>1. CASE w' = l
    BY <1>2, <2>1
  <2>2. CASE \E j \in k..Len(Steps) : w' = [l EXCEPT !.k = j]
    <3>1. PICK j \in k..Len(Steps) : w' = [l EXCEPT !.k = j]
      BY <2>2
    <3>2. j \in 0..Len(Steps)
      BY StepsNumbered
    <3>3. QED BY <1>2, <3>1, <3>2, LocalEdits
  <2>3. QED BY <1>2, <2>1, <2>2, GotoNext
<1>3. (\E t : Requeue(t)) \/ Error => w' \in Local
  BY NoLocalType DEF Requeue, Error
<1>4. ASSUME Fail PROVE w' \in Local
  <2>1. w.cl.region \in BOOLEAN
    BY DEF Local, Cluster
  <2>2. [w EXCEPT !.region = w.cl.region] \in Local
    BY <2>1, LocalEdits
  <2>3. QED BY <1>1, <1>3, <1>4, <2>2 DEF Fail
<1>5. w.k + 1 \in Nat
  BY DEF Local
<1>6. Len(Steps) - 1 \in Nat
  <2>1. "cm" \in {Steps[i] : i \in DOMAIN Steps}
    BY StepsHaveConfigMap DEF Resources
  <2>2. QED BY <2>1, StepsNumbered
<1>7. QED BY <1>1, <1>2, <1>3, <1>4, <1>5, <1>6

LEMMA PatchLocal ==
  ASSUME w \in Local, cluster' \in Cluster, NEW new, NEW next, PatchThen(new, next)
  PROVE  w' \in Local
<1>1. [w EXCEPT !.cl = cluster'] \in Local
  BY LocalEdits
<1>2. \/ Continue(next, w) \/ Continue(next, [w EXCEPT !.cl = cluster']) \/ Fail
  BY DEF PatchThen
<1>3. QED BY <1>1, <1>2, LocalMoves

\* Every step keeps the types of the worker's variables.
LEMMA LocalStep ==
  ASSUME TypeOK, RestartInv, cluster' \in Cluster, [Next]_vars
  PROVE  w' \in Local
<1>0. /\ w \in Local /\ fargate \in SUBSET Deployments /\ hrReady \in BOOLEAN
      /\ w.todo \in SUBSET Deployments /\ w.short \in BOOLEAN
      /\ log \in Seq(Cluster) /\ log # << >>
  BY DEF TypeOK, Local
<1>1. CASE StartReconcile
  <2>1. Head(log) \in Cluster
    BY <1>0
  <2>2. [NoLocal EXCEPT !.cl = Head(log)] \in Local
    BY <2>1, LocalEdits, NoLocalType
  <2>3. QED BY <1>0, <1>1, <2>2 DEF StartReconcile
<1>2. CASE \/ EnsureFinalizer \/ EnsureLabel \/ AnnotateRegion \/ PatchNodeGroups
           \/ PatchControlPlaneGroups \/ AnnotateRestart \/ RemoveFinalizer
  <2>1. \E new, next : PatchThen(new, next)
    BY <1>2 DEF EnsureFinalizer, EnsureLabel, AnnotateRegion, PatchNodeGroups,
       PatchControlPlaneGroups, AnnotateRestart, RemoveFinalizer
  <2>2. QED BY <1>0, <2>1, PatchLocal
<1>3. CASE CheckPrerequisites \/ Propagate \/ Finish \/ SuspendFlux \/ ScaleDown
           \/ DeleteNodePools \/ DeleteOrphanENIs \/ CallFails
  <2>1. (\E next : Continue(next, w)) \/ (\E t : Requeue(t)) \/ Fail
    BY <1>3, Zenon DEF CheckPrerequisites, Propagate, Finish, SuspendFlux, ScaleDown,
       DeleteNodePools, DeleteOrphanENIs, CallFails
  <2>2. QED BY <1>0, <2>1, LocalMoves
<1>4. CASE FirstStep
  <2>1. Goto(1, w) /\ 1 \in Nat
    BY <1>4 DEF FirstStep
  <2>2. QED BY <1>0, <2>1, LocalMoves
<1>5. ASSUME NEW r, Managed(r) \/ NotManaged(r) PROVE w' \in Local
  <2>1. \/ \E next : Continue(next, w)
        \/ Goto(w.k + 1, w) \/ Goto(Len(Steps) - 1, w)
        \/ Requeue("steady")
    BY <1>5, Zenon DEF Managed, NotManaged
  <2>2. QED BY <1>0, <2>1, LocalMoves
<1>6. CASE GetResource
  <2> DEFINE r == Steps[w.k]
  <2>1. \/ Managed(r) \/ NotManaged(r)
        \/ Continue("write", [w EXCEPT !.got = res[r]])
    BY <1>6 DEF GetResource
  <2>2. res[r] \in {"absent", "foreign", "managed"}
    <3>1. w.k \in DOMAIN Steps
      BY <1>0, <1>6, StepsNumbered DEF GetResource, Local
    <3>2. r \in Resources
      BY <1>6, <3>1 DEF GetResource, Resources
    <3>3. QED BY <3>2 DEF TypeOK
  <2> HIDE DEF r
  <2>3. [w EXCEPT !.got = res[r]] \in Local
    BY <1>0, <2>2, LocalEdits
  <2>4. QED BY <1>0, <1>5, <2>1, <2>3, LocalMoves
<1>7. CASE WriteResource
  <2>1. Fail \/ \E r : Managed(r)
    BY <1>7, Zenon DEF WriteResource
  <2>2. QED BY <1>0, <1>5, <2>1, LocalMoves
<1>8. CASE ReadGroupID
  <2>1. Continue("patchNode", w) \/ Goto(w.k + 1, [w EXCEPT !.short = TRUE])
    BY <1>8 DEF ReadGroupID
  <2>2. [w EXCEPT !.short = TRUE] \in Local
    BY <1>0, LocalEdits
  <2>3. QED BY <1>0, <2>1, <2>2, LocalMoves
<1>9. CASE ReadProfiles
  <2> DEFINE b == w.short \/ fargate # Deployments
             l == [w EXCEPT !.active = fargate, !.short = b]
  <2>1. Goto(w.k + 1, l)
    BY <1>9 DEF ReadProfiles
  <2>2. b \in BOOLEAN
    OBVIOUS
  <2>3. l = [[w EXCEPT !.active = fargate] EXCEPT !.short = b]
    BY <1>0 DEF Local
  <2> HIDE DEF l, b
  <2>4. l \in Local
    BY <1>0, <2>2, <2>3, LocalEdits
  <2>5. QED BY <1>0, <2>1, <2>4, LocalMoves
<1>10. CASE ReadHelmRelease
  <2>1. Goto(w.k + 1, [w EXCEPT !.flux = hrReady])
    BY <1>10 DEF ReadHelmRelease
  <2>2. [w EXCEPT !.flux = hrReady] \in Local
    BY <1>0, LocalEdits
  <2>3. QED BY <1>0, <2>1, <2>2, LocalMoves
<1>11. CASE PlanRestarts
  <2> DEFINE need == {d \in w.active \ w.cl.restarted : d = "karpenter" => w.flux}
             b == w.short \/ (need # {} /\ Rotator)
  <2>1. Continue("finish", [w EXCEPT !.short = b]) \/ Continue("restart", [w EXCEPT !.todo = need])
    BY <1>11 DEF PlanRestarts
  <2>2. b \in BOOLEAN /\ need \in SUBSET Deployments
    BY <1>0 DEF Local
  <2> HIDE DEF need, b
  <2>3. [w EXCEPT !.short = b] \in Local /\ [w EXCEPT !.todo = need] \in Local
    BY <1>0, <2>2, LocalEdits
  <2>4. QED BY <1>0, <2>1, <2>3, LocalMoves
<1>12. CASE RolloutRestart
  <2> DEFINE t == w.todo \ {Subject}
             l == [w EXCEPT !.todo = t, !.short = TRUE]
  <2>1. Continue("finish", w) \/ Continue("annotate", w) \/ Continue("restart", l)
    BY <1>12 DEF RolloutRestart
  <2>2. t \in SUBSET Deployments
    BY <1>0
  <2>3. l = [[w EXCEPT !.todo = t] EXCEPT !.short = TRUE]
    BY <1>0 DEF Local
  <2> HIDE DEF l, t
  <2>4. l \in Local
    BY <1>0, <2>2, <2>3, LocalEdits
  <2>5. QED BY <1>0, <2>1, <2>4, LocalMoves
<1>13. CASE ResolveRegion
  <2> DEFINE b == w.cl.region \/ (kubeconfig /\ Rotator) \/ ack
  <2>1. Continue("scale", [w EXCEPT !.region = b])
    BY <1>13 DEF ResolveRegion
  <2>2. b \in BOOLEAN
    OBVIOUS
  <2> HIDE DEF b
  <2>3. QED BY <1>0, <2>1, <2>2, LocalEdits, LocalMoves
<1>14. CASE DescribeInstances
  <2> DEFINE ids == {i \in Instances : inst[i] = "running"}
  <2>1. \/ Continue("terminate", [w EXCEPT !.ids = ids])
        \/ Continue("enis", w) \/ Requeue("short")
    BY <1>14 DEF DescribeInstances
  <2>2. ids \in SUBSET Instances
    OBVIOUS
  <2> HIDE DEF ids
  <2>3. [w EXCEPT !.ids = ids] \in Local
    BY <1>0, <2>2, LocalEdits
  <2>4. QED BY <1>0, <2>1, <2>3, LocalMoves
<1>15. CASE TerminateInstances
  <2> DEFINE l == [w EXCEPT !.ids = {}, !.tries = w.tries + 1]
  <2>1. (w.tries < 2 /\ Continue("describe", l)) \/ Requeue("short")
    BY <1>15 DEF TerminateInstances
  <2>2. w.tries < 2 => w.tries + 1 \in 0..2
    BY <1>0 DEF Local
  <2>3. l = [[w EXCEPT !.ids = {}] EXCEPT !.tries = w.tries + 1]
    BY <1>0 DEF Local
  <2> HIDE DEF l
  <2>4. w.tries < 2 => l \in Local
    BY <1>0, <2>2, <2>3, LocalEdits
  <2>5. QED BY <1>0, <2>1, <2>4, LocalMoves
<1>16. CASE Restart
  BY <1>16, NoLocalType DEF Restart
<1>17. CASE CacheAdvance \/ TimerFires \/ UserActs \/ World \/ UNCHANGED vars
  <2>1. UNCHANGED w
    BY <1>17 DEF CacheAdvance, TimerFires, UserActs, World, ClusterAPI, Reports, Withdraws,
       FluxStarts, HelmInstalls, HelmReports, AppliesNodePool, Launch, AWSProgress, workerVars, vars
  <2>2. QED BY <1>0, <2>1
<1>18. QED
  BY <1>1, <1>2, <1>3, <1>4, <1>6, <1>7, <1>8, <1>9, <1>10, <1>11, <1>12, <1>13, <1>14, <1>15,
     <1>16, <1>17 DEF Next, Worker

\* The types of the queue and of the delayed request.
QueueOK == queued \in BOOLEAN /\ timer \in {"none", "short", "steady"}

LEMMA QueueMoves ==
  ASSUME QueueOK
  PROVE  /\ (\E next, l : Continue(next, l)) => QueueOK'
         /\ (\E k, l : Goto(k, l)) => QueueOK'
         /\ Requeue("short") \/ Requeue("steady") \/ Error \/ Fail => QueueOK'
         /\ UNCHANGED <<queued, timer>> => QueueOK'
<1> USE DEF QueueOK
<1>1. (\E next, l : Continue(next, l)) => QueueOK'
  BY DEF Continue
<1>2. (\E k, l : Goto(k, l)) => QueueOK'
  BY DEF Goto, Continue
<1>3. Requeue("short") \/ Requeue("steady") \/ Error => QueueOK'
  BY DEF Requeue, Error
<1>4. Fail => QueueOK'
  BY <1>1, <1>3 DEF Fail
<1>5. UNCHANGED <<queued, timer>> => QueueOK'
  OBVIOUS
<1>6. QED BY <1>1, <1>2, <1>3, <1>4, <1>5

LEMMA QueueStep ==
  ASSUME QueueOK, [Next]_vars PROVE QueueOK'
<1>1. CASE StartReconcile \/ Restart \/ CacheAdvance \/ TimerFires
  BY <1>1 DEF StartReconcile, Restart, CacheAdvance, TimerFires, QueueOK
<1>2. CASE \/ EnsureFinalizer \/ EnsureLabel \/ AnnotateRegion \/ PatchNodeGroups
           \/ PatchControlPlaneGroups \/ AnnotateRestart \/ RemoveFinalizer
  <2>1. \E new, next : PatchThen(new, next)
    BY <1>2 DEF EnsureFinalizer, EnsureLabel, AnnotateRegion, PatchNodeGroups,
       PatchControlPlaneGroups, AnnotateRestart, RemoveFinalizer
  <2>2. (\E next, l : Continue(next, l)) \/ Fail
    BY <2>1 DEF PatchThen
  <2>3. QED BY <2>2, QueueMoves
<1>3. CASE CheckPrerequisites \/ Propagate \/ Finish \/ SuspendFlux \/ ScaleDown
           \/ DeleteNodePools \/ DeleteOrphanENIs \/ CallFails
  <2>1. \/ \E next, l : Continue(next, l)
        \/ Requeue("short") \/ Requeue("steady") \/ Fail
    BY <1>3 DEF CheckPrerequisites, Propagate, Finish, SuspendFlux, ScaleDown,
       DeleteNodePools, DeleteOrphanENIs, CallFails
  <2>2. QED BY <2>1, QueueMoves
<1>4. CASE \/ FirstStep \/ ReadGroupID \/ ReadProfiles \/ ReadHelmRelease \/ PlanRestarts
           \/ RolloutRestart \/ ResolveRegion \/ DescribeInstances \/ TerminateInstances
  <2>1. \/ \E next, l : Continue(next, l)
        \/ \E k, l : Goto(k, l)
        \/ Requeue("short")
    BY <1>4, Zenon DEF FirstStep, ReadGroupID, ReadProfiles, ReadHelmRelease, PlanRestarts,
       RolloutRestart, ResolveRegion, DescribeInstances, TerminateInstances
  <2>2. QED BY <2>1, QueueMoves
<1>5. CASE GetResource \/ WriteResource
  <2>1. \/ \E r : Managed(r) \/ NotManaged(r)
        \/ \E next, l : Continue(next, l)
        \/ Fail
    BY <1>5, Zenon DEF GetResource, WriteResource
  <2>2. ASSUME NEW r, Managed(r) \/ NotManaged(r)
        PROVE  \/ \E next, l : Continue(next, l)
               \/ \E k, l : Goto(k, l)
               \/ Requeue("steady")
    BY <2>2, Zenon DEF Managed, NotManaged
  <2>3. QED BY <2>1, <2>2, QueueMoves
<1>6. CASE UserActs \/ World \/ UNCHANGED vars
  BY <1>6 DEF UserActs, World, ClusterAPI, Reports, Withdraws, FluxStarts, HelmInstalls,
     HelmReports, AppliesNodePool, Launch, AWSProgress, workerVars, vars, QueueOK
<1>7. QED BY <1>1, <1>2, <1>3, <1>4, <1>5, <1>6 DEF Next, Worker

\* The types of what others report, of the rest of the world and of the bounds.
ReportedOK ==
  /\ missing \subseteq {"flux", "crs"} /\ suspended \subseteq {"oci", "hr"}
  /\ sgID \in BOOLEAN /\ hrReady \in BOOLEAN
  /\ prereq \in BOOLEAN /\ kubeconfig \in BOOLEAN /\ ack \in BOOLEAN
WorldOK ==
  /\ fluxRun \in BOOLEAN /\ nodepool \in BOOLEAN
  /\ eni \in [Instances -> {"none", "attached", "available"}]
BoundsOK == env \in 0..MaxEnv /\ fails \in 0..MaxFail

LEMMA ReportedStep ==
  ASSUME ReportedOK, [Next]_vars PROVE ReportedOK'
<1> USE DEF ReportedOK
<1>1. CASE UNCHANGED <<suspended, reported>>
  BY <1>1 DEF reported
<1>2. CASE WriteResource
  BY <1>2 DEF WriteResource
<1>3. CASE SuspendFlux
  BY <1>3 DEF SuspendFlux, reported
<1>4. CASE UserActs
  <2>1. /\ UNCHANGED <<suspended, missing, prereq, kubeconfig, ack>>
        /\ \/ UNCHANGED <<hrReady, sgID>>
           \/ \E r \in Resources : hrReady' = (hrReady /\ r # "hr") /\ sgID' = (sgID /\ r # "sg")
    BY <1>4 DEF UserActs
  <2>2. QED BY <2>1
<1>5. CASE Reports
  BY <1>5 DEF Reports
<1>6. CASE Withdraws
  BY <1>6 DEF Withdraws
<1>7. CASE HelmReports
  BY <1>7 DEF HelmReports
<1>8. CASE Worker
  BY <1>1, <1>2, <1>3, <1>8
  DEF Worker, StartReconcile, EnsureFinalizer, EnsureLabel, CheckPrerequisites, AnnotateRegion,
      FirstStep, GetResource, ReadGroupID, PatchNodeGroups, PatchControlPlaneGroups, Propagate,
      ReadProfiles, ReadHelmRelease, PlanRestarts, RolloutRestart, AnnotateRestart, Finish,
      ResolveRegion, ScaleDown, DeleteNodePools, DescribeInstances, TerminateInstances,
      DeleteOrphanENIs, RemoveFinalizer
<1>9. CASE CallFails \/ Restart \/ CacheAdvance \/ TimerFires \/ UNCHANGED vars
  BY <1>1, <1>9 DEF CallFails, Restart, CacheAdvance, TimerFires, vars
<1>10. CASE World
  BY <1>1, <1>5, <1>6, <1>7, <1>10
  DEF World, ClusterAPI, FluxStarts, HelmInstalls, AppliesNodePool, Launch, AWSProgress
<1>11. QED BY <1>4, <1>8, <1>9, <1>10 DEF Next

LEMMA WorldStep ==
  ASSUME WorldOK, [Next]_vars PROVE WorldOK'
<1> USE DEF WorldOK
<1>1. CASE UNCHANGED <<fluxRun, nodepool, eni>>
  BY <1>1
<1>2. CASE DeleteNodePools \/ FluxStarts \/ HelmInstalls \/ AppliesNodePool
  BY <1>2 DEF DeleteNodePools, FluxStarts, HelmInstalls, AppliesNodePool
<1>3. CASE DeleteOrphanENIs
  <2>1. \/ UNCHANGED eni
        \/ \E orphans : eni' = [i \in Instances |-> IF i \in orphans THEN "none" ELSE eni[i]]
    BY <1>3, Zenon DEF DeleteOrphanENIs
  <2>2. QED BY <1>3, <2>1 DEF DeleteOrphanENIs
<1>4. CASE Launch
  BY <1>4 DEF Launch
<1>5. CASE AWSProgress
  BY <1>5 DEF AWSProgress
<1>6. CASE Worker
  BY <1>1, <1>2, <1>3, <1>6
  DEF Worker, StartReconcile, EnsureFinalizer, EnsureLabel, CheckPrerequisites, AnnotateRegion,
      FirstStep, GetResource, WriteResource, ReadGroupID, PatchNodeGroups, PatchControlPlaneGroups,
      Propagate, ReadProfiles, ReadHelmRelease, PlanRestarts, RolloutRestart, AnnotateRestart, Finish,
      SuspendFlux, ResolveRegion, ScaleDown, DescribeInstances, TerminateInstances,
      RemoveFinalizer, workload
<1>7. CASE CallFails \/ Restart \/ CacheAdvance \/ TimerFires \/ UserActs \/ UNCHANGED vars
  BY <1>1, <1>7 DEF CallFails, Restart, CacheAdvance, TimerFires, UserActs, vars, workload
<1>8. CASE World
  BY <1>1, <1>2, <1>4, <1>5, <1>8
  DEF World, ClusterAPI, Reports, Withdraws, HelmReports, workload
<1>9. QED BY <1>6, <1>7, <1>8 DEF Next

LEMMA BoundsStep ==
  ASSUME BoundsOK, [Next]_vars PROVE BoundsOK'
<1> USE DEF BoundsOK
<1>1. CASE UNCHANGED budget
  BY <1>1 DEF budget
<1>2. CASE CallFails \/ Restart \/ UserActs
  <2>1. \/ fails > 0 /\ fails' = fails - 1 /\ env' = env
        \/ env > 0 /\ env' = env - 1 /\ fails' = fails
    BY <1>2 DEF CallFails, Restart, UserActs
  <2>2. QED BY <2>1, ConstantsAssumption
<1>3. CASE Worker
  BY <1>1, <1>3
  DEF Worker, StartReconcile, EnsureFinalizer, EnsureLabel, CheckPrerequisites, AnnotateRegion,
      FirstStep, GetResource, WriteResource, ReadGroupID, PatchNodeGroups, PatchControlPlaneGroups,
      Propagate, ReadProfiles, ReadHelmRelease, PlanRestarts, RolloutRestart, AnnotateRestart, Finish,
      SuspendFlux, ResolveRegion, ScaleDown, DeleteNodePools, DescribeInstances, TerminateInstances,
      DeleteOrphanENIs, RemoveFinalizer, budget
<1>4. CASE CacheAdvance \/ TimerFires \/ UNCHANGED vars
  BY <1>1, <1>4 DEF CacheAdvance, TimerFires, vars
<1>5. CASE World
  BY <1>1, <1>5
  DEF World, ClusterAPI, Reports, Withdraws, FluxStarts, HelmInstalls, HelmReports,
      AppliesNodePool, Launch, AWSProgress
<1>6. QED BY <1>2, <1>3, <1>4, <1>5 DEF Next

\* The type invariant in the parts that the other invariants do not have.
LEMMA TypeParts ==
  ASSUME Types, RestartInv, inst \in [Instances -> {"none", "running", "shutting", "terminated"}]
  PROVE  TypeOK <=> w \in Local /\ QueueOK /\ ReportedOK /\ WorldOK /\ BoundsOK
BY DEF TypeOK, Types, RestartInv, QueueOK, ReportedOK, WorldOK, BoundsOK, Held, Making, Releasing

LEMMA TypeInit == Init => TypeOK
<1> SUFFICES ASSUME Init PROVE TypeOK
  OBVIOUS
<1>1. Types /\ RestartInv /\ inst \in [Instances -> {"none", "running", "shutting", "terminated"}]
  BY GuardInit, RestartInit, NodesInit DEF GuardInv, NodesInv
<1>2. PICK installed \in Installed : InitWith(installed)
  BY DEF Init
<1>3. installed \in BOOLEAN
  BY ConstantsAssumption
<1>4. w \in Local
  BY NoLocalType DEF Init
<1>5. QueueOK
  BY <1>2, <1>3 DEF InitWith, QueueOK
<1>6. missing \subseteq {"flux", "crs"}
  BY <1>2, ConstantsAssumption DEF InitWith
<1>7. ReportedOK
  BY <1>2, <1>3, <1>6 DEF Init, InitWith, ReportedOK
<1>8. WorldOK
  BY <1>2, <1>3 DEF Init, InitWith, WorldOK
<1>9. BoundsOK
  BY ConstantsAssumption DEF Init, BoundsOK
<1>10. QED BY <1>1, <1>4, <1>5, <1>7, <1>8, <1>9, TypeParts

LEMMA TypeNext == GuardInv /\ RestartInv /\ NodesInv /\ TypeOK /\ [Next]_vars => TypeOK'
<1> SUFFICES ASSUME GuardInv, RestartInv, NodesInv, TypeOK, [Next]_vars PROVE TypeOK'
  OBVIOUS
<1>1. GuardInv' /\ RestartInv' /\ NodesInv'
  BY GuardNext, RestartNext, NodesNext
<1>2. w \in Local /\ QueueOK /\ ReportedOK /\ WorldOK /\ BoundsOK
  BY TypeParts DEF GuardInv, NodesInv
<1>3. w' \in Local
  BY <1>1, LocalStep DEF GuardInv, Types
<1>4. QueueOK' /\ ReportedOK' /\ WorldOK' /\ BoundsOK'
  BY <1>2, QueueStep, ReportedStep, WorldStep, BoundsStep
<1>5. Types' /\ RestartInv'
      /\ inst' \in [Instances -> {"none", "running", "shutting", "terminated"}]
  BY <1>1 DEF GuardInv, NodesInv
<1>6. QED
  BY <1>3, <1>4, <1>5 DEF TypeOK, Types, RestartInv, QueueOK, ReportedOK, WorldOK, BoundsOK,
     Held, Making, Releasing

\* What is always true of the bootstrapper.
KarpenterInv == GuardInv /\ RestartInv /\ NodesInv /\ TypeOK

LEMMA AlwaysTyped == Spec => []KarpenterInv
<1>1. Init => KarpenterInv
  BY GuardInit, RestartInit, NodesInit, TypeInit DEF KarpenterInv
<1>2. KarpenterInv /\ [Next]_vars => KarpenterInv'
  BY GuardNext, RestartNext, NodesNext, TypeNext DEF KarpenterInv
<1>3. QED BY <1>1, <1>2, PTL DEF Spec

\* Every variable keeps its type: the worker's step stays on the list of objects
\* whatever is skipped, and the third round of terminations is the last.
THEOREM TypeCorrect == Spec => []TypeOK
BY AlwaysTyped, PTL DEF KarpenterInv
-----------------------------------------------------------------------------
(* At rest *)

Shown(c) == c.exists /\ ~c.deleting /\ c.enabled

\* The worker's calls before the objects, and after them.
Early == {"finalizer", "label", "check", "region"}
Late == {"plan", "restart", "annotate", "finish"}
Upserting == {"step", "write", "hrReady"}

\* What the run has seen to when a step is behind it.
StepDone(r, cl) ==
  /\ r \in Resources \ {"sg"} => res[r] = "managed"
  /\ r = "sg" => HasGroups(cl)
  /\ r = "profiles" => fargate = Deployments
Passed(k, cl) == \A j \in DOMAIN Steps : j < k => StepDone(Steps[j], cl)

\* An object is somebody else's, and the run will not take it over.
Foreign == \E r \in Resources : res[r] = "foreign"
Blocked == Foreign /\ (pc \in Upserting => ~w.cl.takeover)

Position ==
  IF pc \in {"step", "write"} THEN w.k
  ELSE IF pc = "hrReady" THEN w.k + 1 ELSE Len(Steps) + 1

\* Security groups that some version of the Cluster has are not lost again, although
\* the topology's variables are patched from an old copy.
GroupsKnown ==
  /\ HasGroups(w.cl) => HasGroups(cluster)
  /\ \A i \in 1..Len(log) : HasGroups(log[i]) => HasGroups(cluster)
  /\ pc = "patchCP" => w.cl.groups.node = "set"

\* Where the run is in the list: at its start, or at the object it is about to write.
Placed ==
  /\ pc \in Early => w.k = 0
  /\ pc = "write" => w.k > 0 /\ Steps[w.k] # "profiles"

\* The newest version in the cache's way is the one on the server.
Newest == log[Len(log)] = cluster

\* A run that nothing has made ask for another one has done the steps behind it.
Advanced ==
  pc \in Upserting \cup Late /\ ~queued /\ missing = {} =>
    w.short \/ Blocked \/ Passed(Position, w.cl)

Bootstrapped ==
  \/ Foreign
  \/ /\ \A r \in Resources \ {"sg"} : res[r] = "managed"
     /\ HasGroups(cluster) /\ fargate = Deployments

\* No run is under way or asked for soon.
Rested == pc = "idle" /\ ~queued /\ timer = "steady" /\ Shown(Head(log)) => Bootstrapped

RestInv == GroupsKnown /\ Newest /\ Placed /\ Advanced /\ Rested

\* The groups in a Patch of the Cluster are the new ones, if they are new.
LEMMA PatchGroups ==
  ASSUME Types, NEW new \in Cluster, NEW next, PatchThen(new, next)
  PROVE  \/ UNCHANGED clusterVars /\ (Fail \/ (new = w.cl /\ Continue(next, w)))
         \/ /\ pc' = next /\ (next # "idle" => w'.cl = cluster')
            /\ cluster'.groups = IF new.groups # w.cl.groups THEN new.groups ELSE cluster.groups
<1> DEFINE merged == [f \in DOMAIN cluster |-> IF new[f] # w.cl[f] THEN new[f] ELSE cluster[f]]
<1>1. cluster \in Cluster /\ w.cl \in Cluster
  BY DEF Types
<1>2. merged \in Cluster
  BY <1>1 DEF Cluster
<1>3. merged.groups = IF new.groups # w.cl.groups THEN new.groups ELSE cluster.groups
  BY <1>1 DEF Cluster
<1>4. CASE UNCHANGED clusterVars /\ (Fail \/ (new = w.cl /\ Continue(next, w)))
  BY <1>4
<1>5. CASE Write(merged) /\ Continue(next, [w EXCEPT !.cl = cluster'])
  <2>1. pc' = next /\ (next # "idle" => w'.cl = cluster')
    BY <1>5 DEF Continue, Types
  <2> HIDE DEF merged
  <2>2. cluster'.groups = merged.groups
    BY <1>2, <1>5 DEF Write, Cluster
  <2>3. QED BY <1>3, <2>1, <2>2
<1>6. QED BY <1>4, <1>5 DEF PatchThen

\* A step leaves the groups alone, or sets the ones for the nodes.
LEMMA GroupsStep ==
  ASSUME KarpenterInv, GroupsKnown, [Next]_vars
  PROVE  /\ HasGroups(cluster) => HasGroups(cluster')
         /\ pc' = "patchCP" => w'.cl.groups.node = "set"
<1>0. /\ Types /\ w.cl \in Cluster /\ cluster \in Cluster
      /\ w.cl.fin \in SUBSET {"capi", "karpenter"} /\ w.cl.restarted \in SUBSET Deployments
  BY DEF KarpenterInv, GuardInv, Types, Cluster
<1>1. ASSUME cluster'.groups = cluster.groups PROVE HasGroups(cluster) => HasGroups(cluster')
  BY <1>1 DEF HasGroups
<1>2. ASSUME NEW new \in Cluster, new.groups = w.cl.groups, NEW next, next # "patchCP",
             PatchThen(new, next)
      PROVE  cluster'.groups = cluster.groups /\ pc' # "patchCP"
  <2>1. Fail => pc' # "patchCP"
    BY DEF Fail, Requeue, Error, Continue, AfterStop
  <2>2. CASE UNCHANGED clusterVars /\ (Fail \/ (new = w.cl /\ Continue(next, w)))
    BY <1>2, <2>1, <2>2 DEF clusterVars, Continue
  <2>3. CASE /\ pc' = next
             /\ cluster'.groups = IF new.groups # w.cl.groups THEN new.groups ELSE cluster.groups
    BY <1>2, <2>3
  <2>4. QED BY <1>0, <1>2, <2>2, <2>3, PatchGroups
<1>3. CASE EnsureFinalizer \/ RemoveFinalizer
  <2>1. PICK f \in {w.cl.fin \cup {"karpenter"}, w.cl.fin \ {"karpenter"}}, next \in {"label", "idle"} :
          PatchThen([w.cl EXCEPT !.fin = f], next)
    BY <1>3 DEF EnsureFinalizer, RemoveFinalizer
  <2>2. f \in SUBSET {"capi", "karpenter"}
    BY <1>0
  <2> DEFINE new == [w.cl EXCEPT !.fin = f]
  <2>3. new \in Cluster /\ new.groups = w.cl.groups /\ PatchThen(new, next)
    BY <1>0, <2>1, <2>2 DEF Cluster
  <2> HIDE DEF new
  <2>4. QED BY <1>1, <1>2, <2>3
<1>4. CASE EnsureLabel
  <2> DEFINE new == [w.cl EXCEPT !.label = TRUE]
  <2>1. new \in Cluster /\ new.groups = w.cl.groups /\ PatchThen(new, "check")
    BY <1>0, <1>4 DEF EnsureLabel, Cluster
  <2> HIDE DEF new
  <2>2. QED BY <1>1, <1>2, <2>1
<1>5. CASE AnnotateRegion
  <2> DEFINE new == [w.cl EXCEPT !.region = TRUE]
  <2>1. new \in Cluster /\ new.groups = w.cl.groups /\ PatchThen(new, "step")
    BY <1>0, <1>5 DEF AnnotateRegion, Cluster
  <2> HIDE DEF new
  <2>2. QED BY <1>1, <1>2, <2>1
<1>6. CASE AnnotateRestart
  <2> DEFINE r == w.cl.restarted \cup {Subject}
             new == [w.cl EXCEPT !.restarted = r]
  <2>1. r \in SUBSET Deployments
    BY <1>0 DEF Subject, Deployments
  <2>2. PatchThen(new, "restart")
    BY <1>6 DEF AnnotateRestart
  <2> HIDE DEF r
  <2>3. new \in Cluster /\ new.groups = w.cl.groups
    BY <1>0, <2>1 DEF Cluster
  <2> HIDE DEF new
  <2>4. QED BY <1>1, <1>2, <2>2, <2>3
<1>7. CASE PatchNodeGroups
  <2> DEFINE new == [w.cl EXCEPT !.groups.node = "set"]
  <2>1. /\ new \in Cluster /\ new.groups.node = "set" /\ PatchThen(new, "patchCP")
        /\ pc = "patchNode"
    BY <1>0, <1>7 DEF PatchNodeGroups, Cluster
  <2>2. new.groups = w.cl.groups => new = w.cl
    BY <1>0 DEF Cluster
  <2> HIDE DEF new
  <2>3. Fail => pc' # "patchCP"
    BY DEF Fail, Requeue, Error, Continue, AfterStop
  <2>4. CASE UNCHANGED clusterVars /\ (Fail \/ (new = w.cl /\ Continue("patchCP", w)))
    BY <1>1, <2>1, <2>3, <2>4 DEF clusterVars, Continue
  <2>5. CASE /\ w'.cl = cluster' /\ new # w.cl
             /\ cluster'.groups = IF new.groups # w.cl.groups THEN new.groups ELSE cluster.groups
    BY <2>1, <2>2, <2>5 DEF HasGroups
  <2>6. new = w.cl => UNCHANGED clusterVars /\ (Fail \/ (new = w.cl /\ Continue("patchCP", w)))
    BY <2>1 DEF PatchThen
  <2>7. QED BY <1>0, <2>1, <2>4, <2>5, <2>6, PatchGroups
<1>8. CASE PatchControlPlaneGroups
  <2> DEFINE new == [w.cl EXCEPT !.groups.cp = "set"]
  <2>1. /\ new \in Cluster /\ new.groups.node = w.cl.groups.node /\ PatchThen(new, "propagate")
        /\ w.cl.groups.node = "set"
    BY <1>0, <1>8 DEF PatchControlPlaneGroups, Cluster, GroupsKnown
  <2> HIDE DEF new
  <2>2. Fail => pc' # "patchCP"
    BY DEF Fail, Requeue, Error, Continue, AfterStop
  <2>3. CASE UNCHANGED clusterVars /\ (Fail \/ (new = w.cl /\ Continue("propagate", w)))
    BY <1>1, <2>2, <2>3 DEF clusterVars, Continue
  <2>4. CASE /\ pc' = "propagate"
             /\ cluster'.groups = IF new.groups # w.cl.groups THEN new.groups ELSE cluster.groups
    BY <2>1, <2>4 DEF HasGroups
  <2>5. QED BY <1>0, <2>1, <2>3, <2>4, PatchGroups
<1>9. CASE ClusterAPI
  <2>1. PICK f \in {cluster.fin \cup {"capi"}, cluster.fin \ {"capi"}} : Write([cluster EXCEPT !.fin = f])
    BY <1>9 DEF ClusterAPI
  <2> DEFINE m == [cluster EXCEPT !.fin = f]
  <2>2. m \in Cluster /\ m.groups = cluster.groups
    BY <1>0 DEF Cluster
  <2>3. Write(m)
    BY <2>1
  <2> HIDE DEF m
  <2>4. cluster'.groups = cluster.groups
    BY <2>2, <2>3 DEF Write, Cluster
  <2>5. QED BY <1>1, <1>9, <2>4 DEF ClusterAPI, workerVars, GroupsKnown
<1>10. CASE UserActs
  <2>1. CASE UNCHANGED clusterVars
    BY <1>10, <2>1 DEF UserActs, GroupsKnown, clusterVars
  <2>2. CASE \E m \in {[cluster EXCEPT !.deleting = TRUE],
                       [cluster EXCEPT !.enabled = ~cluster.enabled],
                       [cluster EXCEPT !.takeover = ~cluster.takeover]} : Write(m)
    <3>1. PICK m \in {[cluster EXCEPT !.deleting = TRUE],
                      [cluster EXCEPT !.enabled = ~cluster.enabled],
                      [cluster EXCEPT !.takeover = ~cluster.takeover]} : Write(m)
      BY <2>2
    <3>2. m \in Cluster /\ m.groups = cluster.groups
      BY <1>0 DEF Cluster
    <3>3. cluster'.groups = cluster.groups
      BY <3>1, <3>2 DEF Write, Cluster
    <3>4. QED BY <1>1, <1>10, <3>3 DEF UserActs, GroupsKnown
  <2>3. QED BY <1>10, <2>1, <2>2 DEF UserActs
<1>11. ASSUME UNCHANGED cluster, pc' # "patchCP" \/ UNCHANGED <<pc, w>>
       PROVE  /\ HasGroups(cluster) => HasGroups(cluster')
              /\ pc' = "patchCP" => w'.cl.groups.node = "set"
  BY <1>11 DEF GroupsKnown
<1>12. CASE \/ StartReconcile \/ CheckPrerequisites \/ FirstStep \/ GetResource \/ WriteResource
            \/ ReadGroupID \/ Propagate \/ ReadProfiles \/ ReadHelmRelease \/ PlanRestarts
            \/ RolloutRestart \/ Finish \/ SuspendFlux \/ ResolveRegion \/ ScaleDown
            \/ DeleteNodePools \/ DescribeInstances \/ TerminateInstances \/ DeleteOrphanENIs
            \/ CallFails \/ Restart
  <2>1. UNCHANGED cluster
    BY <1>12 DEF StartReconcile, CheckPrerequisites, FirstStep, GetResource, WriteResource,
       ReadGroupID, Propagate, ReadProfiles, ReadHelmRelease, PlanRestarts, RolloutRestart, Finish,
       SuspendFlux, ResolveRegion, ScaleDown, DeleteNodePools, DescribeInstances,
       TerminateInstances, DeleteOrphanENIs, CallFails, Restart, clusterVars
  <2>2. ASSUME NEW next, NEW l, Continue(next, l), next # "patchCP" PROVE pc' # "patchCP"
    BY <2>2 DEF Continue
  <2>0. \A next \in {"sgID", "hrReady", "plan", "write", "patchNode"} : next # "patchCP"
    OBVIOUS
  <2>3. ASSUME NEW k, NEW l, Goto(k, l) PROVE pc' # "patchCP"
    BY <2>3 DEF Goto, Continue
  <2>4. ASSUME (\E t : Requeue(t)) \/ Error \/ Fail PROVE pc' # "patchCP"
    BY <2>4 DEF Fail, Requeue, Error, Continue, AfterStop
  <2>5. ASSUME NEW r, Managed(r) \/ NotManaged(r) PROVE pc' # "patchCP"
    <3>1. \/ \E next \in {"sgID", "hrReady", "plan"} : Continue(next, w)
          \/ \E k : Goto(k, w)
          \/ \E t : Requeue(t)
      BY <2>5, Zenon DEF Managed, NotManaged
    <3>2. QED BY <2>0, <2>2, <2>3, <2>4, <3>1, Zenon
  <2>6. CASE GetResource \/ WriteResource
    <3>1. \/ \E r : Managed(r) \/ NotManaged(r)
          \/ \E l : Continue("write", l)
          \/ Fail
      BY <2>6, Zenon DEF GetResource, WriteResource
    <3>2. pc' # "patchCP"
      BY <2>0, <2>2, <2>4, <2>5, <3>1, Zenon
    <3>3. QED BY <1>11, <2>1, <3>2
  <2>7. CASE \/ FirstStep \/ ReadGroupID \/ ReadProfiles \/ ReadHelmRelease
    <3>1. (\E k, l : Goto(k, l)) \/ Continue("patchNode", w)
      BY <2>7, Zenon DEF FirstStep, ReadGroupID, ReadProfiles, ReadHelmRelease
    <3>2. pc' # "patchCP"
      BY <2>0, <2>2, <2>3, <3>1, Zenon
    <3>3. QED BY <1>11, <2>1, <3>2
  <2>8. CASE \/ StartReconcile \/ CheckPrerequisites \/ Propagate \/ PlanRestarts \/ RolloutRestart
             \/ Finish \/ SuspendFlux \/ ResolveRegion \/ ScaleDown \/ DeleteNodePools
             \/ DescribeInstances \/ TerminateInstances \/ DeleteOrphanENIs \/ CallFails \/ Restart
    <3>1. pc' # "patchCP"
      BY <2>4, <2>8 DEF StartReconcile, CheckPrerequisites, Propagate, PlanRestarts,
         RolloutRestart, Finish, SuspendFlux, ResolveRegion, ScaleDown, DeleteNodePools,
         DescribeInstances, TerminateInstances, DeleteOrphanENIs, CallFails, Restart, Continue,
         Requeue, AfterStop
    <3>2. QED BY <1>11, <2>1, <3>1
  <2>9. QED BY <1>12, <2>6, <2>7, <2>8
<1>13. CASE \/ CacheAdvance \/ TimerFires \/ Reports \/ Withdraws \/ FluxStarts \/ HelmInstalls
            \/ HelmReports \/ AppliesNodePool \/ Launch \/ AWSProgress \/ UNCHANGED vars
  BY <1>11, <1>13 DEF CacheAdvance, TimerFires, Reports, Withdraws, FluxStarts, HelmInstalls,
     HelmReports, AppliesNodePool, Launch, AWSProgress, clusterVars, workerVars, vars
<1>14. QED BY <1>3, <1>4, <1>5, <1>6, <1>7, <1>8, <1>9, <1>10, <1>12, <1>13
       DEF Next, Worker, World

LEMMA GroupsKnownStep ==
  ASSUME KarpenterInv, GroupsKnown, [Next]_vars PROVE GroupsKnown'
<1>0. /\ Types /\ GuardInv /\ RestartInv /\ log \in Seq(Cluster) /\ log # << >>
  BY DEF KarpenterInv, GuardInv, Types
<1>1. /\ HasGroups(cluster) => HasGroups(cluster')
      /\ pc' = "patchCP" => w'.cl.groups.node = "set"
  BY GroupsStep
<1>2. HasGroups(w'.cl) => HasGroups(cluster')
  <2>1. w'.cl \in {w.cl, NoLocal.cl, cluster', log[1]}
    BY <1>0, VersionsStep DEF Handled
  <2>2. ~HasGroups(NoLocal.cl)
    BY DEF NoLocal, NewCluster, HasGroups
  <2>3. 1 \in 1..Len(log)
    BY <1>0
  <2>4. QED BY <1>1, <2>1, <2>2, <2>3 DEF GroupsKnown
<1>3. ASSUME NEW i \in 1..Len(log'), HasGroups(log'[i]) PROVE HasGroups(cluster')
  <2>1. CASE UNCHANGED clusterVars
    BY <1>3, <2>1 DEF clusterVars, GroupsKnown
  <2>2. CASE cluster' = cluster /\ log' = Tail(log)
    <3>1. i + 1 \in 1..Len(log) /\ log'[i] = log[i + 1]
      BY <1>0, <2>2
    <3>2. QED BY <1>3, <2>2, <3>1 DEF GroupsKnown
  <2>3. CASE cluster' = cluster /\ log' = <<cluster>>
    BY <1>3, <2>3
  <2>4. CASE \E m \in Cluster : Write(m)
    <3>1. log' = log \/ log' = Append(log, cluster')
      BY <2>4 DEF Write
    <3>2. cluster' \in Cluster
      BY <1>0, GuardNext DEF GuardInv, Types
    <3>3. (i \in 1..Len(log) /\ log'[i] = log[i]) \/ log'[i] = cluster'
      BY <1>0, <3>1, <3>2
    <3>4. QED BY <1>1, <1>3, <3>3 DEF GroupsKnown
  <2>5. QED BY <1>0, <2>1, <2>2, <2>3, <2>4, ClusterStep DEF ClusterStepped
<1>4. QED BY <1>1, <1>2, <1>3 DEF GroupsKnown

\* Who changes objects, and who forgets a request.
LEMMA ResStep ==
  ASSUME KarpenterInv, [Next]_vars
  PROVE  /\ \A r \in Resources :
              /\ res[r] = "managed" => res'[r] = "managed" \/ queued' = TRUE
              /\ res[r] = "foreign" =>
                   res'[r] = "foreign" \/ (pc = "write" /\ WriteResource /\ w.got = "foreign")
         /\ missing' = missing
         /\ queued = TRUE => queued' = TRUE \/ StartReconcile
<1>0. res \in [Resources -> {"absent", "foreign", "managed"}]
  BY DEF KarpenterInv, GuardInv, Types
<1>1. CASE WriteResource
  <2>1. /\ \/ UNCHANGED res
           \/ res[Steps[w.k]] = w.got /\ res' = [res EXCEPT ![Steps[w.k]] = "managed"]
        /\ missing' = missing /\ pc = "write"
    BY <1>1 DEF WriteResource
  <2>2. queued = TRUE => queued' = TRUE
    <3>1. \/ \E next, l : Continue(next, l)
          \/ \E k, l : Goto(k, l)
          \/ \E t : Requeue(t)
          \/ Fail
      BY <1>1, Zenon DEF WriteResource, Managed
    <3>2. QED BY <3>1 DEF Goto, Continue, Requeue, Fail, Error
  <2>3. QED BY <1>0, <1>1, <2>1, <2>2
<1>2. CASE UserActs
  <2>1. /\ \/ UNCHANGED <<res, queued>>
           \/ \E r \in Resources :
                \/ res[r] = "managed" /\ res' = [res EXCEPT ![r] = "absent"] /\ queued' = TRUE
                \/ res[r] = "absent" /\ res' = [res EXCEPT ![r] = "foreign"] /\ queued' = queued
        /\ missing' = missing
    BY <1>2 DEF UserActs
  <2>2. QED BY <1>0, <2>1
<1>3. ASSUME res' = res, missing' = missing, queued = TRUE => queued' = TRUE \/ StartReconcile
      PROVE  /\ \A r \in Resources :
                  /\ res[r] = "managed" => res'[r] = "managed" \/ queued' = TRUE
                  /\ res[r] = "foreign" =>
                       res'[r] = "foreign" \/ (pc = "write" /\ WriteResource /\ w.got = "foreign")
             /\ missing' = missing
             /\ queued = TRUE => queued' = TRUE \/ StartReconcile
  BY <1>3
<1>4. CASE StartReconcile
  BY <1>3, <1>4 DEF StartReconcile, reported
<1>5. CASE \/ EnsureFinalizer \/ EnsureLabel \/ AnnotateRegion \/ PatchNodeGroups
           \/ PatchControlPlaneGroups \/ AnnotateRestart \/ RemoveFinalizer
  <2>1. res' = res /\ missing' = missing /\ \E new, next : PatchThen(new, next)
    BY <1>5 DEF EnsureFinalizer, EnsureLabel, AnnotateRegion, PatchNodeGroups,
       PatchControlPlaneGroups, AnnotateRestart, RemoveFinalizer, reported
  <2>2. (\E next, l : Continue(next, l)) \/ Fail
    BY <2>1 DEF PatchThen
  <2>3. queued = TRUE => queued' = TRUE
    BY <2>2 DEF Continue, Requeue, Fail, Error
  <2>4. QED BY <1>3, <2>1, <2>3
<1>6. CASE \/ CheckPrerequisites \/ Propagate \/ Finish \/ SuspendFlux \/ ScaleDown
           \/ DeleteNodePools \/ DeleteOrphanENIs \/ FirstStep \/ ReadGroupID \/ ReadProfiles
           \/ ReadHelmRelease \/ PlanRestarts \/ RolloutRestart \/ ResolveRegion
           \/ DescribeInstances \/ TerminateInstances \/ GetResource
  <2>1. res' = res /\ missing' = missing
    BY <1>6 DEF CheckPrerequisites, Propagate, Finish, SuspendFlux, ScaleDown,
       DeleteNodePools, DeleteOrphanENIs, FirstStep, ReadGroupID, ReadProfiles, ReadHelmRelease,
       PlanRestarts, RolloutRestart, ResolveRegion, DescribeInstances, TerminateInstances,
       GetResource, reported
  <2>2. \/ \E next, l : Continue(next, l)
        \/ \E k, l : Goto(k, l)
        \/ \E t : Requeue(t)
    BY <1>6, Zenon DEF CheckPrerequisites, Propagate, Finish, SuspendFlux, ScaleDown,
       DeleteNodePools, DeleteOrphanENIs, FirstStep, ReadGroupID, ReadProfiles, ReadHelmRelease,
       PlanRestarts, RolloutRestart, ResolveRegion, DescribeInstances, TerminateInstances,
       GetResource, Managed, NotManaged
  <2>3. queued = TRUE => queued' = TRUE
    BY <2>2 DEF Goto, Continue, Requeue
  <2>4. QED BY <1>3, <2>1, <2>3
<1>7. CASE CallFails
  <2>1. queued = TRUE => queued' = TRUE
    BY <1>7 DEF CallFails, Fail, Continue, Requeue, Error
  <2>2. QED BY <1>3, <1>7, <2>1 DEF CallFails, reported
<1>8. CASE Restart \/ CacheAdvance \/ TimerFires \/ World \/ UNCHANGED vars
  <2>1. res' = res /\ missing' = missing
    BY <1>8 DEF Restart, CacheAdvance, TimerFires, World, ClusterAPI, Reports, Withdraws,
       FluxStarts, HelmInstalls, HelmReports, AppliesNodePool, Launch, AWSProgress, vars, reported
  <2>2. queued = TRUE => queued' = TRUE
    BY <1>8 DEF Restart, CacheAdvance, TimerFires, World, ClusterAPI, Reports, Withdraws,
       FluxStarts, HelmInstalls, HelmReports, AppliesNodePool, Launch, AWSProgress, workerVars, vars
  <2>3. QED BY <1>3, <2>1, <2>2
<1>9. QED BY <1>1, <1>2, <1>4, <1>5, <1>6, <1>7, <1>8 DEF Next, Worker

\* A step that is done stays done, unless a request is queued.
LEMMA DoneKept ==
  ASSUME KarpenterInv, [Next]_vars, queued' # TRUE, NEW k, NEW cl, Passed(k, cl)
  PROVE  Passed(k, cl)'
<1>1. fargate = Deployments => fargate' = Deployments
  BY FreshGrows DEF KarpenterInv
<1>2. QED BY <1>1, ResStep DEF Passed, StepDone

\* An object that is somebody else's stays so, unless the run may take it over.
LEMMA ForeignStays ==
  ASSUME KarpenterInv, [Next]_vars, Foreign, WriteResource => ~w.cl.takeover
  PROVE  Foreign'
<1>1. pc = "write" /\ w.got = "foreign" => w.cl.takeover
  BY DEF KarpenterInv, GuardInv, Guarded
<1>2. PICK r \in Resources : res[r] = "foreign"
  BY DEF Foreign
<1>3. res'[r] = "foreign"
  BY <1>1, <1>2, ResStep
<1>4. QED BY <1>2, <1>3 DEF Foreign

\* What a run that goes on with local variables l at position k owes.
Track(k, l) == l.short \/ (Foreign /\ ~l.cl.takeover) \/ Passed(k, l.cl)

LEMMA TrackKept ==
  ASSUME KarpenterInv, [Next]_vars, queued' # TRUE, NEW k, NEW l, Track(k, l),
         WriteResource => l.cl = w.cl
  PROVE  Track(k, l)'
BY DoneKept, ForeignStays DEF Track

\* The first step is the security group; the profiles are among the others.
LEMMA FirstIsGroup ==
  /\ 1 \in DOMAIN Steps /\ Steps[1] = "sg"
  /\ \E j \in DOMAIN Steps : Steps[j] = "profiles"
<1> DEFINE S == STRING \cup {"sg", "profiles", "oci", "hr", "cm", "crs"}
           first == <<"sg">>
           last == <<"profiles", "oci", "hr", "cm", "crs">>
<1>1. /\ "sg" \in S /\ "profiles" \in S /\ "oci" \in S /\ "hr" \in S /\ "cm" \in S /\ "crs" \in S
      /\ STRING \subseteq S
  OBVIOUS
<1>2. Steps = (first \o Chain) \o last
  BY Zenon DEF Steps
<1>3. last[1] = "profiles" /\ 1 \in 1..Len(last) /\ first[1] = "sg" /\ Len(first) = 1
  OBVIOUS
<1> HIDE DEF S
<1>4. first \in Seq(S) /\ last \in Seq(S)
  BY <1>1, Tuples, Zenon
<1>5. Chain \in Seq(S)
  BY <1>1, ConstantsAssumption, SeqWidens, Zenon
<1> HIDE DEF first, last
<1>6. first \o Chain \in Seq(S)
  BY <1>4, <1>5
<1>7. /\ Len(first \o Chain) + 1 \in DOMAIN ((first \o Chain) \o last)
      /\ ((first \o Chain) \o last)[Len(first \o Chain) + 1] = last[1]
  BY <1>3, <1>4, <1>6, ConcatAt
<1>8. (first \o Chain)[1] = "sg" /\ 1 \in 1..Len(first \o Chain)
  <2>1. Len(first) \in Nat /\ Len(Chain) \in Nat
    BY <1>4, <1>5
  <2>2. Len(first \o Chain) = Len(first) + Len(Chain)
    BY <1>4, <1>5
  <2>3. (first \o Chain)[1] = first[1]
    <3>1. 1 \in 1..Len(first)
      BY <1>3
    <3>2. QED BY <1>4, <1>5, <3>1
  <2>4. QED BY <1>3, <2>1, <2>2, <2>3
<1>9. ((first \o Chain) \o last)[1] = (first \o Chain)[1] /\ 1 \in DOMAIN ((first \o Chain) \o last)
  <2> DEFINE s == first \o Chain
  <2>1. s \in Seq(S) /\ 1 \in 1..Len(s) /\ Len(s) \in Nat /\ Len(last) \in Nat
    BY <1>4, <1>6, <1>8
  <2> HIDE DEF s
  <2>2. Len(s \o last) = Len(s) + Len(last) /\ DOMAIN (s \o last) = 1..Len(s \o last)
    BY <1>4, <2>1
  <2>3. (s \o last)[1] = s[1]
    BY <1>4, <2>1
  <2>4. QED BY <2>1, <2>2, <2>3 DEF s
<1>10. QED BY <1>2, <1>3, <1>7, <1>8, <1>9

\* What is passed over on the way to a step that applies needs no doing.
LEMMA SkippedIsDone ==
  ASSUME missing = {}, NEW k \in Nat \ {0}, NEW m \in Nat, NEW cl, Passed(k, cl)',
         \A i \in k..Len(Steps) : i < m => Skipped(Steps[i], cl)
  PROVE  Passed(m, cl)'
<1> SUFFICES ASSUME NEW j \in DOMAIN Steps, j < m PROVE StepDone(Steps[j], cl)'
  BY DEF Passed
<1>0. Len(Steps) \in Nat /\ DOMAIN Steps = 1..Len(Steps) /\ j \in Nat
  BY StepsNumbered
<1>1. CASE j < k
  BY <1>1 DEF Passed
<1>2. CASE ~(j < k)
  <2>1. Skipped(Steps[j], cl)
    BY <1>0, <1>2
  <2>2. HasGroups(cl)
    <3>1. CASE 1 < k
      <4>1. StepDone(Steps[1], cl)'
        BY <3>1, FirstIsGroup DEF Passed
      <4>2. QED BY <4>1, FirstIsGroup DEF StepDone
    <3>2. CASE ~(1 < k)
      <4>1. Skipped("sg", cl)
        <5>1. (1 \in k..Len(Steps) /\ 1 < m) \/ j = 1
          BY <1>0, <3>2, FirstIsGroup
        <5>2. QED BY <2>1, <5>1, FirstIsGroup
      <4>2. QED BY <4>1, Zenon DEF Skipped, ApiMissing
    <3>3. QED BY <3>1, <3>2
  <2>3. Steps[j] = "sg"
    BY <2>1, <2>2 DEF Skipped, ApiMissing
  <2>4. QED BY <2>2, <2>3 DEF StepDone
<1>3. QED BY <1>1, <1>2

\* A run that goes on to the next step that applies, with what it owes.
LEMMA TrackGoto ==
  ASSUME missing = {}, NEW k \in Nat \ {0}, NEW l \in Local, Goto(k, l), Track(k, l)'
  PROVE  Advanced'
<1>0. Len(Steps) \in Nat /\ Len(Steps) + 1 \in Nat /\ k \in Nat
  BY StepsNumbered
<1>1. CASE /\ pc' = "plan" /\ w' = l
           /\ \A i \in k..Len(Steps) : Skipped(Steps[i], l.cl)
  <2>1. Position' = Len(Steps) + 1 /\ (Foreign' => Blocked')
    BY <1>1 DEF Position, Blocked, Upserting
  <2>2. Passed(k, l.cl)' => Passed(Len(Steps) + 1, l.cl)'
    BY <1>0, <1>1, SkippedIsDone
  <2>3. w'.short \/ Blocked' \/ Passed(Len(Steps) + 1, l.cl)'
    BY <1>1, <2>1, <2>2 DEF Track
  <2>4. Passed(Len(Steps) + 1, l.cl)' => Passed(Position, w.cl)'
    BY <1>1, <2>1 DEF Passed
  <2>5. QED BY <2>3, <2>4 DEF Advanced
<1>2. ASSUME NEW j \in k..Len(Steps), pc' = "step", w' = [l EXCEPT !.k = j],
             \A i \in k..Len(Steps) : i < j => Skipped(Steps[i], l.cl)
      PROVE  Advanced'
  <2>1. w'.k = j /\ w'.short = l.short /\ w'.cl = l.cl
    BY <1>2 DEF Local
  <2>2. Position' = j /\ (Foreign' /\ ~l.cl.takeover => Blocked')
    BY <1>2, <2>1 DEF Position, Blocked, Upserting
  <2>3. j \in Nat
    BY <1>0
  <2>4. Passed(k, l.cl)' => Passed(j, l.cl)'
    BY <1>2, <2>3, SkippedIsDone
  <2>5. w'.short \/ Blocked' \/ Passed(j, l.cl)'
    BY <2>1, <2>2, <2>4 DEF Track
  <2>6. Passed(j, l.cl)' => Passed(Position, w.cl)'
    BY <2>1, <2>2 DEF Passed
  <2>7. QED BY <2>5, <2>6 DEF Advanced
<1>3. QED BY <1>0, <1>1, <1>2, GotoNext

\* Outside the upserts and what follows them nothing is owed.
LEMMA NothingOwed ==
  ASSUME pc' \notin Upserting \cup Late \/ queued' = TRUE \/ missing' # {} PROVE Advanced'
BY DEF Advanced

\* What the run owes where it is.
LEMMA Owed ==
  ASSUME Advanced, pc \in Upserting \cup Late, queued # TRUE, missing = {}
  PROVE  /\ pc \in Upserting => Track(Position, w)
         /\ w.short \/ Foreign \/ Passed(Position, w.cl)
BY DEF Advanced, Track, Blocked

\* A step of somebody else leaves the run where it is.
LEMMA OthersAdvance ==
  ASSUME KarpenterInv, [Next]_vars, Advanced, UNCHANGED <<pc, w>>, pc # "idle", ~WriteResource
  PROVE  Advanced'
<1>1. ~StartReconcile
  BY DEF StartReconcile
<1> SUFFICES ASSUME queued' # TRUE, pc \in Upserting \cup Late, missing' = {}
             PROVE  w.short \/ Blocked' \/ Passed(Position, w.cl)'
  BY DEF Advanced
<1>2. queued # TRUE /\ missing = {}
  BY <1>1, ResStep
<1>3. w.short \/ Blocked \/ Passed(Position, w.cl)
  BY <1>2 DEF Advanced
<1>4. Blocked => Blocked'
  BY <1>1, ForeignStays DEF Blocked
<1>5. ASSUME Passed(Position, w.cl) PROVE Passed(Position, w.cl)'
  <2>1. PICK k, cl : k = Position /\ cl = w.cl
    OBVIOUS
  <2>2. Passed(k, cl)
    BY <1>5, <2>1
  <2>3. Passed(k, cl)'
    BY <2>2, DoneKept
  <2>4. Position' = k /\ w'.cl = cl
    BY <2>1 DEF Position
  <2>5. QED BY <2>3, <2>4 DEF Passed
<1>6. QED BY <1>3, <1>4, <1>5

\* Upserting one object: what the run owes behind it.
LEMMA UpsertOwes ==
  ASSUME missing = {}, NEW l \in Local, l = w, l.k \in Nat \ {0}, Steps[l.k] # "profiles",
         Managed(Steps[l.k]), res'[Steps[l.k]] = "managed", Track(l.k, l)'
  PROVE  Advanced'
<1>0. Steps[l.k] # "profiles" /\ l.k + 1 \in Nat \ {0} /\ l.k + 1 = w.k + 1
  OBVIOUS
<1>1. CASE Steps[l.k] = "sg"
  <2>1. pc' = "sgID"
    BY <1>1 DEF Managed, Continue
  <2>2. QED BY <2>1, NothingOwed DEF Upserting, Late
<1>2. CASE Steps[l.k] # "sg"
  <2>1. StepDone(Steps[l.k], l.cl)'
    BY <1>0, <1>2 DEF StepDone
  <2>2. Passed(l.k, l.cl)' => Passed(l.k + 1, l.cl)'
    <3>1. \A j \in DOMAIN Steps : j < l.k + 1 => j < l.k \/ j = l.k
      BY StepsNumbered
    <3>2. QED BY <2>1, <3>1 DEF Passed
  <2>3. Track(l.k + 1, l)'
    BY <2>2 DEF Track
  <2>4. CASE Steps[l.k] = "hr"
    <3>1. pc' = "hrReady" /\ w' = l
      BY <1>2, <2>4 DEF Managed, Continue
    <3>2. Position' = l.k + 1 /\ (Foreign' /\ ~l.cl.takeover => Blocked')
      BY <3>1 DEF Position, Blocked
    <3>3. QED BY <2>3, <3>1, <3>2 DEF Track, Advanced, Passed
  <2>5. CASE Steps[l.k] # "hr"
    <3>1. Goto(l.k + 1, l)
      BY <1>2, <2>5 DEF Managed
    <3>2. QED BY <1>0, <2>3, <3>1, TrackGoto
  <2>6. QED BY <2>4, <2>5
<1>3. QED BY <1>1, <1>2

LEMMA GetAdvances ==
  ASSUME KarpenterInv, [Next]_vars, Advanced, GetResource PROVE Advanced'
<1>1. /\ pc = "step" /\ w.k > 0 /\ Steps[w.k] # "profiles" /\ w \in Local
      /\ UNCHANGED <<res, missing>>
  BY DEF GetResource, KarpenterInv, TypeOK, reported
<1>2. PICK l \in Local : l = w
  BY <1>1
<1>3. l.k \in Nat \ {0} /\ Len(Steps) - 1 \in Nat \ {0}
  <2>1. l.k \in 0..Len(Steps) /\ 0 < l.k
    BY <1>1, <1>2 DEF Local
  <2>2. 0 < Len(Steps) - 1
    <3>1. PICK j \in DOMAIN Steps : Steps[j] = "profiles"
      BY FirstIsGroup
    <3>2. j # 1 /\ j \in 1..Len(Steps) /\ Len(Steps) \in Nat
      BY <3>1, FirstIsGroup, StepsNumbered
    <3>3. QED BY <3>2
  <2>3. QED BY <2>1, <2>2, StepsNumbered
<1> SUFFICES ASSUME queued' # TRUE, missing = {} PROVE Advanced'
  BY <1>1, NothingOwed
<1>4. queued # TRUE
  BY <1>1, ResStep DEF StartReconcile
<1>5. Track(l.k, l)
  BY <1>1, <1>2, <1>4, Owed DEF Upserting, Position
<1>6. Track(l.k, l)'
  <2>1. WriteResource => l.cl = w.cl
    BY <1>2
  <2>2. QED BY <1>5, <2>1, TrackKept
<1>7. CASE res[Steps[w.k]] = "foreign" /\ ~w.cl.takeover /\ NotManaged(Steps[w.k])
  <2>1. Foreign' /\ ~l.cl.takeover
    <3>1. Foreign
      BY <1>1, <1>2, <1>3, <1>7, StepsNumbered DEF Foreign, Resources, Local
    <3>2. QED BY <1>1, <1>2, <1>7, <3>1 DEF Foreign
  <2>2. CASE Goto(Len(Steps) - 1, w)
    <3>1. Track(Len(Steps) - 1, l)'
      BY <2>1 DEF Track
    <3>2. Goto(Len(Steps) - 1, l)
      BY <1>2, <2>2
    <3>3. QED BY <1>3, <3>1, <3>2, TrackGoto
  <2>3. CASE Continue("plan", w)
    <3>1. pc' = "plan"
      BY <2>3 DEF Continue
    <3>2. pc' \notin Upserting
      BY <3>1 DEF Upserting
    <3>3. QED BY <2>1, <3>2 DEF Advanced, Blocked
  <2>4. CASE Requeue("steady")
    <3>1. pc' = "idle"
      BY <2>4 DEF Requeue
    <3>2. QED BY <3>1, NothingOwed DEF Upserting, Late
  <2>5. QED BY <1>7, <2>2, <2>3, <2>4 DEF NotManaged
<1>8. CASE res[Steps[w.k]] = "managed" /\ Managed(Steps[w.k])
  BY <1>1, <1>2, <1>3, <1>6, <1>8, UpsertOwes
<1>9. CASE Continue("write", [w EXCEPT !.got = res[Steps[w.k]]])
  <2>1. pc' = "write" /\ w'.k = l.k /\ w'.cl = l.cl /\ w'.short = l.short
    BY <1>1, <1>2, <1>9 DEF Continue, Local
  <2>2. Position' = l.k /\ (Foreign' /\ ~l.cl.takeover => Blocked')
    BY <2>1 DEF Position, Blocked
  <2>3. QED BY <1>6, <2>1, <2>2 DEF Track, Advanced, Passed
<1>10. QED BY <1>7, <1>8, <1>9 DEF GetResource

LEMMA WriteAdvances ==
  ASSUME KarpenterInv, Placed, [Next]_vars, Advanced, WriteResource PROVE Advanced'
<1>1. pc = "write" /\ w.k > 0 /\ Steps[w.k] # "profiles" /\ w \in Local /\ missing' = missing
  BY DEF WriteResource, KarpenterInv, TypeOK, Placed
<1>2. PICK l \in Local : l = w
  BY <1>1
<1>3. l.k \in Nat \ {0} /\ l.k \in DOMAIN Steps
  BY <1>1, <1>2, StepsNumbered DEF Local
<1> SUFFICES ASSUME queued' # TRUE, missing = {} PROVE Advanced'
  BY <1>1, NothingOwed
<1>4. queued # TRUE
  BY <1>1, ResStep DEF StartReconcile
<1>5. Track(l.k, l)'
  <2>1. Track(l.k, l)
    BY <1>1, <1>2, <1>4, Owed DEF Upserting, Position
  <2>2. WriteResource => l.cl = w.cl
    BY <1>2
  <2>3. QED BY <2>1, <2>2, TrackKept
<1>6. CASE res' = [res EXCEPT ![Steps[w.k]] = "managed"] /\ Managed(Steps[w.k])
  <2>1. Steps[l.k] \in Resources /\ res \in [Resources -> {"absent", "foreign", "managed"}]
    BY <1>1, <1>2, <1>3 DEF Resources, KarpenterInv, TypeOK
  <2>2. res'[Steps[l.k]] = "managed"
    BY <1>2, <1>6, <2>1
  <2>3. QED BY <1>1, <1>2, <1>3, <1>5, <1>6, <2>2, UpsertOwes
<1>7. CASE Fail
  <2>1. pc' = "idle"
    BY <1>1, <1>7 DEF Fail, Requeue, Error
  <2>2. QED BY <2>1, NothingOwed DEF Upserting, Late
<1>8. QED BY <1>6, <1>7 DEF WriteResource

\* The other steps that move along the list.
LEMMA ReadAdvances ==
  ASSUME KarpenterInv, [Next]_vars, Advanced, FirstStep \/ ReadGroupID \/ ReadProfiles \/ ReadHelmRelease
  PROVE  Advanced'
<1>1. /\ w \in Local /\ UNCHANGED <<res, missing, fargate>> /\ pc \in {"step", "sgID", "hrReady"}
      /\ ~WriteResource /\ ~StartReconcile
  BY DEF FirstStep, ReadGroupID, ReadProfiles, ReadHelmRelease, KarpenterInv, TypeOK, reported,
         WriteResource, StartReconcile
<1>2. w.k \in Nat /\ w.k + 1 \in Nat \ {0} /\ 1 \in Nat \ {0} /\ fargate \in SUBSET Deployments
      /\ w.short \in BOOLEAN
  BY <1>1, StepsNumbered DEF Local, KarpenterInv, TypeOK
<1> SUFFICES ASSUME queued' # TRUE, missing = {} PROVE Advanced'
  BY <1>1, NothingOwed
<1>3. queued # TRUE
  BY <1>1, ResStep
<1>4. CASE FirstStep
  <2>1. PICK l \in Local : l = w
    BY <1>1
  <2>2. Goto(1, l)
    BY <1>4, <2>1 DEF FirstStep
  <2>3. Passed(1, l.cl)'
    BY StepsNumbered DEF Passed
  <2>4. QED BY <1>2, <2>2, <2>3, TrackGoto DEF Track
<1>5. CASE ReadGroupID /\ sgID
  <2>1. pc' = "patchNode"
    BY <1>5 DEF ReadGroupID, Continue
  <2>2. QED BY <2>1, NothingOwed DEF Upserting, Late
<1>6. CASE ReadGroupID /\ ~sgID
  <2>1. [w EXCEPT !.short = TRUE] \in Local /\ [w EXCEPT !.short = TRUE].short = TRUE
    BY <1>1, LocalEdits DEF Local
  <2>2. PICK l \in Local, k \in Nat \ {0} : l = [w EXCEPT !.short = TRUE] /\ k = w.k + 1
    BY <1>2, <2>1
  <2>3. Goto(k, l)
    BY <1>6, <2>2 DEF ReadGroupID
  <2>4. Track(k, l)'
    BY <2>1, <2>2 DEF Track
  <2>5. QED BY <2>3, <2>4, TrackGoto
<1>7. CASE ReadProfiles
  <2> DEFINE b == w.short \/ fargate # Deployments
             new == [[w EXCEPT !.active = fargate] EXCEPT !.short = b]
  <2>1. [w EXCEPT !.active = fargate, !.short = b] = new
    BY <1>1 DEF Local
  <2>2. b \in BOOLEAN
    OBVIOUS
  <2>3. new \in Local /\ new.short = b /\ new.cl = w.cl /\ new.k = w.k
    <3>1. [w EXCEPT !.active = fargate] \in Local
      BY <1>1, <1>2, LocalEdits
    <3>2. new \in Local
      BY <2>2, <3>1, LocalEdits
    <3> HIDE DEF b
    <3>3. QED BY <1>1, <3>2 DEF Local
  <2>4. Goto(w.k + 1, [w EXCEPT !.active = fargate, !.short = b]) /\ Steps[w.k] = "profiles"
        /\ pc = "step"
    BY <1>7 DEF ReadProfiles
  <2> HIDE DEF new
  <2>5. PICK l \in Local, k \in Nat : l = new /\ k = w.k
    BY <1>2, <2>3
  <2>6. k + 1 \in Nat \ {0}
    BY <2>5
  <2>7. Goto(k + 1, l)
    BY <2>1, <2>4, <2>5
  <2>8. Track(k, l)'
    <3>1. Track(w.k, w)
      BY <1>3, <2>4, Owed DEF Upserting, Position
    <3>2. Track(k, l)
      BY <2>3, <2>5, <3>1 DEF Track
    <3>3. WriteResource => l.cl = w.cl
      BY <1>1
    <3>4. QED BY <3>2, <3>3, TrackKept
  <2>9. l.short \/ fargate' = Deployments
    BY <1>1, <2>3, <2>5
  <2>10. CASE l.short
    BY <2>6, <2>7, <2>10, TrackGoto DEF Track
  <2>11. CASE fargate' = Deployments
    <3>1. StepDone(Steps[k], l.cl)'
      BY <2>4, <2>5, <2>11 DEF StepDone, Resources
    <3>2. \A j \in DOMAIN Steps : j < k + 1 => j < k \/ j = k
      BY StepsNumbered
    <3>3. Passed(k, l.cl)' => Passed(k + 1, l.cl)'
      BY <3>1, <3>2 DEF Passed
    <3>4. Track(k + 1, l)'
      BY <2>8, <3>3 DEF Track
    <3>5. QED BY <2>6, <2>7, <3>4, TrackGoto
  <2>12. QED BY <2>9, <2>10, <2>11
<1>8. CASE ReadHelmRelease
  <2>1. /\ [w EXCEPT !.flux = hrReady] \in Local
        /\ [w EXCEPT !.flux = hrReady].short = w.short
        /\ [w EXCEPT !.flux = hrReady].cl = w.cl
    <3>1. hrReady \in BOOLEAN
      BY DEF KarpenterInv, TypeOK
    <3>2. [w EXCEPT !.flux = hrReady] \in Local
      BY <1>1, <3>1, LocalEdits
    <3>3. QED BY <1>1, <3>2 DEF Local
  <2>2. PICK l \in Local, k \in Nat \ {0} : l = [w EXCEPT !.flux = hrReady] /\ k = w.k + 1
    BY <1>2, <2>1
  <2>3. Goto(k, l) /\ pc = "hrReady"
    BY <1>8, <2>2 DEF ReadHelmRelease
  <2>4. Track(w.k + 1, w)
    BY <1>3, <2>3, Owed DEF Upserting, Position
  <2>5. Track(k, l)
    BY <2>1, <2>2, <2>4 DEF Track
  <2>6. Track(k, l)'
    <3>1. WriteResource => l.cl = w.cl
      BY <1>1
    <3>2. QED BY <2>5, <3>1, TrackKept
  <2>7. QED BY <2>3, <2>6, TrackGoto
<1>9. QED BY <1>4, <1>5, <1>6, <1>7, <1>8

\* The restarts go on without losing anything.
LEMMA LateAdvances ==
  ASSUME KarpenterInv, GroupsKnown, [Next]_vars, Advanced, PlanRestarts \/ RolloutRestart \/ AnnotateRestart
  PROVE  Advanced'
<1>1. /\ pc \in {"plan", "restart", "annotate"} /\ w \in Local /\ UNCHANGED <<missing>>
      /\ ~WriteResource /\ ~StartReconcile
  BY DEF PlanRestarts, RolloutRestart, AnnotateRestart, KarpenterInv, TypeOK, reported, WriteResource,
         StartReconcile
<1>2. \/ /\ pc' \in {"finish", "restart", "annotate"}
         /\ w.short => w'.short = TRUE
         /\ HasGroups(w.cl) => HasGroups(w'.cl)
      \/ pc' = "idle"
  <2>1. CASE PlanRestarts
    <3>1. \/ \E b : Continue("finish", [w EXCEPT !.short = w.short \/ b])
          \/ \E t : Continue("restart", [w EXCEPT !.todo = t])
      BY <2>1 DEF PlanRestarts
    <3>2. CASE \E b : Continue("finish", [w EXCEPT !.short = w.short \/ b])
      BY <1>1, <3>2 DEF Continue, Local
    <3>3. CASE \E t : Continue("restart", [w EXCEPT !.todo = t])
      BY <1>1, <3>3 DEF Continue, Local
    <3>4. QED BY <3>1, <3>2, <3>3
  <2>2. CASE RolloutRestart
    <3>1. \/ Continue("finish", w) \/ Continue("annotate", w)
          \/ \E t : Continue("restart", [w EXCEPT !.todo = t, !.short = TRUE])
      BY <2>2 DEF RolloutRestart
    <3>2. CASE Continue("finish", w) \/ Continue("annotate", w)
      BY <1>1, <3>2 DEF Continue, Local
    <3>3. CASE \E t : Continue("restart", [w EXCEPT !.todo = t, !.short = TRUE])
      BY <1>1, <3>3 DEF Continue, Local
    <3>4. QED BY <3>1, <3>2, <3>3
  <2>3. CASE AnnotateRestart
    <3>1. PICK new : PatchThen(new, "restart")
      BY <2>3 DEF AnnotateRestart
    <3>2. CASE Fail
      <4>1. pc = "annotate"
        BY <2>3 DEF AnnotateRestart
      <4>2. QED BY <3>2, <4>1 DEF Fail, Requeue, Error
    <3>3. CASE Continue("restart", w)
      BY <1>1, <3>3 DEF Continue, Local
    <3>4. CASE Continue("restart", [w EXCEPT !.cl = cluster'])
      <4>1. pc' = "restart" /\ w'.cl = cluster' /\ w'.short = w.short
        BY <1>1, <3>4 DEF Continue, Local
      <4>2. HasGroups(w.cl) => HasGroups(w'.cl)
        BY <4>1, GroupsStep DEF GroupsKnown
      <4>3. QED BY <1>1, <4>1, <4>2 DEF Local
    <3>5. QED BY <3>1, <3>2, <3>3, <3>4 DEF PatchThen
  <2>4. QED BY <2>1, <2>2, <2>3
<1> SUFFICES ASSUME queued' # TRUE, missing = {}, pc' # "idle" PROVE Advanced'
  BY <1>1, NothingOwed DEF Upserting, Late
<1>3. queued # TRUE
  BY <1>1, ResStep
<1>4. w.short \/ Foreign \/ Passed(Len(Steps) + 1, w.cl)
  <2>1. Position = Len(Steps) + 1
    BY <1>1 DEF Position
  <2>2. QED BY <1>1, <1>3, <2>1, Owed DEF Late
<1>5. pc' \in {"finish", "restart", "annotate"}
  BY <1>2
<1>6. Position' = Len(Steps) + 1 /\ pc' \notin Upserting
  BY <1>5 DEF Position, Upserting
<1>7. CASE w.short
  BY <1>2, <1>7 DEF Advanced
<1>8. CASE Foreign
  BY <1>1, <1>6, <1>8, ForeignStays DEF Advanced, Blocked
<1>9. CASE Passed(Len(Steps) + 1, w.cl)
  <2>1. PICK k, cl : k = Len(Steps) + 1 /\ cl = w.cl
    OBVIOUS
  <2>2. Passed(k, cl)'
    <3>1. Passed(k, cl)
      BY <1>9, <2>1
    <3>2. QED BY <3>1, DoneKept
  <2>3. Passed(Position, w.cl)'
    BY <1>2, <1>6, <2>1, <2>2 DEF Passed, StepDone
  <2>4. QED BY <2>3 DEF Advanced
<1>10. QED BY <1>4, <1>7, <1>8, <1>9

\* A failing call ends the run, or goes on with the deletion.
LEMMA FailEnds ==
  ASSUME Fail
  PROVE  /\ pc' \notin Upserting \cup Late \cup Early
         /\ pc' = "idle" => timer' = "short" \/ queued' = TRUE
<1>1. AfterStop \in {"describe", "release"}
  BY DEF AfterStop
<1>2. CASE Requeue("short") \/ Error
  BY <1>2 DEF Requeue, Error, Upserting, Late, Early
<1>3. ASSUME NEW next \in {"scale", "describe", "release"}, NEW l, Continue(next, l)
      PROVE  pc' \notin Upserting \cup Late \cup Early \cup {"idle"}
  <2>1. pc' \in {"scale", "describe", "release"}
    BY <1>3 DEF Continue
  <2>2. QED BY <2>1 DEF Upserting, Late, Early
<1>4. QED BY <1>1, <1>2, <1>3 DEF Fail

\* Where a patch leads: onwards, or to the end of the run.
LEMMA PatchLeads ==
  ASSUME w \in Local, NEW new, NEW next, PatchThen(new, next)
  PROVE  \/ pc' = next /\ (next # "idle" => w'.k = w.k)
         \/ Fail
<1>1. Continue(next, w) \/ Continue(next, [w EXCEPT !.cl = cluster']) \/ Fail
  BY DEF PatchThen
<1>2. QED BY <1>1 DEF Continue, Local

LEMMA PlacedStep ==
  ASSUME KarpenterInv, Placed, [Next]_vars PROVE Placed'
<1>0. w \in Local
  BY DEF KarpenterInv, TypeOK
<1>1. CASE StartReconcile
  <2>1. \/ w' = [NoLocal EXCEPT !.cl = Head(log)] /\ pc' # "write"
        \/ UNCHANGED <<pc, w>>
    BY <1>1 DEF StartReconcile
  <2>2. [NoLocal EXCEPT !.cl = Head(log)].k = 0
    BY DEF NoLocal
  <2>3. QED BY <2>1, <2>2 DEF Placed
<1>2. CASE EnsureFinalizer \/ EnsureLabel \/ CheckPrerequisites \/ AnnotateRegion
  <2>1. pc \in Early
    BY <1>2 DEF EnsureFinalizer, EnsureLabel, CheckPrerequisites, AnnotateRegion, Early
  <2>2. \/ \E new, next : next \in {"label", "check", "step"} /\ PatchThen(new, next)
        \/ Continue("region", w) \/ Requeue("short")
    BY <1>2 DEF EnsureFinalizer, EnsureLabel, CheckPrerequisites, AnnotateRegion
  <2>3. \/ pc' \in {"label", "check", "step", "region"} /\ w'.k = w.k
        \/ Fail \/ pc' = "idle"
    BY <1>0, <2>2, PatchLeads DEF Continue, Requeue
  <2>4. Fail => pc' = "idle"
    BY <1>2 DEF EnsureFinalizer, EnsureLabel, CheckPrerequisites, AnnotateRegion, Fail, Requeue, Error
  <2>5. QED BY <2>1, <2>3, <2>4 DEF Placed, Early
<1>3. CASE GetResource
  <2>1. \/ \E r : Managed(r) \/ NotManaged(r)
        \/ pc' = "write" /\ w'.k = w.k /\ w.k > 0 /\ Steps[w.k] # "profiles"
    BY <1>0, <1>3 DEF GetResource, Continue, Local
  <2>2. (\E r : Managed(r) \/ NotManaged(r)) => pc' \in {"sgID", "hrReady", "plan", "step", "idle"}
    BY DEF Managed, NotManaged, Goto, Continue, Requeue
  <2>3. pc' = "write" => pc' \notin Early
    BY DEF Early
  <2>4. QED BY <2>1, <2>2, <2>3 DEF Placed, Early
<1>4. CASE \/ WriteResource \/ FirstStep \/ ReadGroupID \/ ReadProfiles \/ ReadHelmRelease
  <2>1. \/ \E r : Managed(r)
        \/ \E k, l : Goto(k, l)
        \/ Continue("patchNode", w)
        \/ Fail
    BY <1>4, Zenon DEF WriteResource, FirstStep, ReadGroupID, ReadProfiles, ReadHelmRelease
  <2>2. Fail => pc' \notin Early /\ pc' # "write"
    BY FailEnds DEF Upserting
  <2>3. ~Fail => pc' \in {"sgID", "hrReady", "plan", "step", "patchNode"}
    BY <2>1 DEF Managed, Goto, Continue
  <2>4. QED BY <2>2, <2>3 DEF Placed, Early
<1>5. CASE PatchNodeGroups \/ PatchControlPlaneGroups \/ AnnotateRestart \/ RemoveFinalizer
  <2>1. \E new, next : next \in {"patchCP", "propagate", "restart", "idle"} /\ PatchThen(new, next)
    BY <1>5 DEF PatchNodeGroups, PatchControlPlaneGroups, AnnotateRestart, RemoveFinalizer
  <2>2. pc' \in {"patchCP", "propagate", "restart", "idle"} \/ Fail
    BY <1>0, <2>1, PatchLeads
  <2>3. QED BY <2>2, FailEnds DEF Placed, Early, Upserting
<1>6. CASE \/ Propagate \/ PlanRestarts \/ RolloutRestart \/ Finish \/ SuspendFlux \/ ResolveRegion
           \/ ScaleDown \/ DeleteNodePools \/ DescribeInstances \/ TerminateInstances
           \/ DeleteOrphanENIs \/ Restart
  <2>1. pc' \in {"finish", "restart", "annotate", "resolve", "suspend", "scale", "nodepools", "describe",
                 "terminate", "enis", "release", "idle"}
    BY <1>6 DEF Propagate, PlanRestarts, RolloutRestart, Finish, SuspendFlux, ResolveRegion, ScaleDown,
       DeleteNodePools, DescribeInstances, TerminateInstances, DeleteOrphanENIs, Restart, Continue,
       Requeue, AfterStop
  <2>2. QED BY <2>1 DEF Placed, Early
<1>7. CASE CallFails
  BY <1>7, FailEnds DEF CallFails, Placed, Upserting
<1>8. CASE CacheAdvance \/ TimerFires \/ UserActs \/ World \/ UNCHANGED vars
  <2>1. UNCHANGED <<pc, w>>
    BY <1>8 DEF CacheAdvance, TimerFires, UserActs, World, ClusterAPI, Reports, Withdraws,
       FluxStarts, HelmInstalls, HelmReports, AppliesNodePool, Launch, AWSProgress, workerVars, vars
  <2>2. QED BY <2>1 DEF Placed
<1>9. QED BY <1>1, <1>2, <1>3, <1>4, <1>5, <1>6, <1>7, <1>8 DEF Next, Worker

LEMMA NewestStep ==
  ASSUME KarpenterInv, Newest, [Next]_vars PROVE Newest'
<1>0. log \in Seq(Cluster) /\ log # << >> /\ log' # << >> /\ GuardInv /\ cluster' \in Cluster
  BY GuardNext DEF KarpenterInv, GuardInv, Types
<1>1. CASE UNCHANGED clusterVars
  BY <1>1 DEF Newest, clusterVars
<1>2. CASE cluster' = cluster /\ log' = <<cluster>>
  BY <1>2 DEF Newest
<1>3. CASE cluster' = cluster /\ log' = Tail(log)
  <2>1. Len(log) \in Nat /\ Len(log) > 1
    BY <1>0, <1>3
  <2>2. Len(Tail(log)) = Len(log) - 1 /\ Tail(log)[Len(log) - 1] = log[Len(log)]
    BY <1>0, <2>1
  <2>3. QED BY <1>3, <2>2 DEF Newest
<1>4. CASE \E m \in Cluster : Write(m)
  <2>1. (cluster' = cluster /\ log' = log) \/ log' = Append(log, cluster')
    BY <1>4 DEF Write
  <2>2. QED BY <1>0, <2>1 DEF Newest
<1>5. QED BY <1>0, <1>1, <1>2, <1>3, <1>4, ClusterStep DEF ClusterStepped

LEMMA AdvancedStep ==
  ASSUME KarpenterInv, GroupsKnown, Placed, Advanced, [Next]_vars PROVE Advanced'
<1>0. w \in Local /\ TypeOK
  BY DEF KarpenterInv, TypeOK
<1>1. CASE \/ FirstStep \/ GetResource \/ WriteResource \/ ReadGroupID \/ ReadProfiles
           \/ ReadHelmRelease \/ PlanRestarts \/ RolloutRestart \/ AnnotateRestart
  BY <1>1, GetAdvances, WriteAdvances, ReadAdvances, LateAdvances
<1>2. CASE StartReconcile
  <2>1. pc' \in {"suspend", "finalizer", "idle"}
    BY <1>2 DEF StartReconcile
  <2>2. QED BY <2>1, NothingOwed DEF Upserting, Late
<1>3. CASE AnnotateRegion
  <2>1. pc = "region" /\ \E new : PatchThen(new, "step")
    BY <1>3 DEF AnnotateRegion
  <2>2. CASE Fail
    BY <2>2, FailEnds, NothingOwed
  <2>3. CASE pc' = "step" /\ w'.k = w.k
    <3>1. w'.k = 0
      BY <2>1, <2>3 DEF Placed, Early
    <3>2. Position' = 0
      BY <2>3, <3>1 DEF Position
    <3>3. Passed(Position, w.cl)'
      BY <3>2, StepsNumbered DEF Passed
    <3>4. QED BY <3>3 DEF Advanced
  <2>4. QED BY <1>0, <2>1, <2>2, <2>3, PatchLeads
<1>4. CASE EnsureFinalizer \/ EnsureLabel \/ PatchNodeGroups \/ PatchControlPlaneGroups \/ RemoveFinalizer
  <2>1. \E new, next : next \in {"label", "check", "patchCP", "propagate", "idle"} /\ PatchThen(new, next)
    BY <1>4 DEF EnsureFinalizer, EnsureLabel, PatchNodeGroups, PatchControlPlaneGroups, RemoveFinalizer
  <2>2. pc' \in {"label", "check", "patchCP", "propagate", "idle"} \/ Fail
    BY <1>0, <2>1, PatchLeads
  <2>3. pc' \notin Upserting \cup Late
    BY <2>2, FailEnds DEF Upserting, Late
  <2>4. QED BY <2>3, NothingOwed
<1>5. CASE \/ CheckPrerequisites \/ Propagate \/ Finish \/ SuspendFlux \/ ResolveRegion \/ ScaleDown
           \/ DeleteNodePools \/ DescribeInstances \/ TerminateInstances \/ DeleteOrphanENIs \/ Restart
  <2>1. pc' \in {"region", "resolve", "suspend", "scale", "nodepools", "describe", "terminate",
                 "enis", "release", "idle"}
    BY <1>5 DEF CheckPrerequisites, Propagate, Finish, SuspendFlux, ResolveRegion, ScaleDown,
       DeleteNodePools, DescribeInstances, TerminateInstances, DeleteOrphanENIs, Restart, Continue,
       Requeue, AfterStop
  <2>2. QED BY <2>1, NothingOwed DEF Upserting, Late
<1>6. CASE CallFails
  BY <1>6, FailEnds, NothingOwed DEF CallFails
<1>7. CASE CacheAdvance \/ TimerFires \/ UserActs \/ World \/ UNCHANGED vars
  <2>1. UNCHANGED <<pc, w>> /\ (CacheAdvance \/ TimerFires => queued' = TRUE)
    BY <1>7 DEF CacheAdvance, TimerFires, UserActs, World, ClusterAPI, Reports, Withdraws,
       FluxStarts, HelmInstalls, HelmReports, AppliesNodePool, Launch, AWSProgress, workerVars, vars
  <2>2. CASE pc = "idle"
    BY <2>1, <2>2, NothingOwed DEF Upserting, Late
  <2>3. ~WriteResource
    <3>1. WriteResource => pc = "write" /\ ((\E r : Managed(r)) \/ Fail)
      BY Zenon DEF WriteResource
    <3>2. (\E r : Managed(r)) => pc' # "write"
      BY DEF Managed, Goto, Continue
    <3>3. QED BY <2>1, <3>1, <3>2, FailEnds DEF Upserting
  <2>4. CASE pc # "idle"
    BY <2>1, <2>3, <2>4, OthersAdvance
  <2>5. QED BY <2>2, <2>4
<1>8. QED BY <1>1, <1>2, <1>3, <1>4, <1>5, <1>6, <1>7 DEF Next, Worker

\* A run that has all steps behind it has made everything.
LEMMA AllPassed ==
  ASSUME GroupsKnown, Passed(Len(Steps) + 1, w.cl) PROVE Bootstrapped
<1>1. \A j \in DOMAIN Steps : StepDone(Steps[j], w.cl)
  BY StepsNumbered DEF Passed
<1>2. \A r \in Resources \ {"sg"} : res[r] = "managed"
  BY <1>1 DEF Resources, StepDone
<1>3. HasGroups(cluster)
  BY <1>1, FirstIsGroup DEF StepDone, GroupsKnown
<1>4. fargate = Deployments
  BY <1>1, FirstIsGroup DEF StepDone
<1>5. QED BY <1>2, <1>3, <1>4 DEF Bootstrapped

\* What is made stays, or the run is asked for again.
LEMMA BootstrappedKept ==
  ASSUME KarpenterInv, GroupsKnown, [Next]_vars, Bootstrapped, ~WriteResource, queued' # TRUE
  PROVE  Bootstrapped'
<1>2. CASE Foreign
  BY <1>2, ForeignStays DEF Bootstrapped
<1>3. CASE /\ \A r \in Resources \ {"sg"} : res[r] = "managed"
           /\ HasGroups(cluster) /\ fargate = Deployments
  <2>1. \A r \in Resources \ {"sg"} : res'[r] = "managed"
    BY <1>3, ResStep
  <2>2. HasGroups(cluster') /\ fargate' = Deployments
    BY <1>3, GroupsStep, FreshGrows DEF KarpenterInv
  <2>3. QED BY <2>1, <2>2 DEF Bootstrapped
<1>4. QED BY <1>2, <1>3 DEF Bootstrapped

\* The cached version is replaced with a request.
LEMMA HeadKept ==
  ASSUME KarpenterInv, [Next]_vars, queued' # TRUE PROVE Head(log') = Head(log)
<1>0. log \in Seq(Cluster) /\ log # << >> /\ GuardInv /\ cluster' \in Cluster
  BY GuardNext DEF KarpenterInv, GuardInv, Types
<1>1. ~CacheAdvance /\ ~Restart
  BY DEF CacheAdvance, Restart
<1>2. CASE \/ StartReconcile \/ CheckPrerequisites \/ FirstStep \/ GetResource \/ WriteResource
           \/ ReadGroupID \/ Propagate \/ ReadProfiles \/ ReadHelmRelease \/ PlanRestarts
           \/ RolloutRestart \/ Finish \/ SuspendFlux \/ ResolveRegion \/ ScaleDown
           \/ DeleteNodePools \/ DescribeInstances \/ TerminateInstances \/ DeleteOrphanENIs
           \/ CallFails \/ TimerFires \/ Reports \/ Withdraws \/ FluxStarts \/ HelmInstalls
           \/ HelmReports \/ AppliesNodePool \/ Launch \/ AWSProgress \/ UNCHANGED vars
  BY <1>2 DEF StartReconcile, CheckPrerequisites, FirstStep, GetResource, WriteResource,
     ReadGroupID, Propagate, ReadProfiles, ReadHelmRelease, PlanRestarts, RolloutRestart, Finish,
     SuspendFlux, ResolveRegion, ScaleDown, DeleteNodePools, DescribeInstances, TerminateInstances,
     DeleteOrphanENIs, CallFails, TimerFires, Reports, Withdraws, FluxStarts, HelmInstalls,
     HelmReports, AppliesNodePool, Launch, AWSProgress, vars, clusterVars
<1>3. ASSUME UNCHANGED log \/ log' = Append(log, cluster') PROVE Head(log') = Head(log)
  BY <1>0, <1>3
<1>4. CASE \/ EnsureFinalizer \/ EnsureLabel \/ AnnotateRegion \/ PatchNodeGroups
           \/ PatchControlPlaneGroups \/ AnnotateRestart \/ RemoveFinalizer
  <2>1. \E new, next : PatchThen(new, next)
    BY <1>4 DEF EnsureFinalizer, EnsureLabel, AnnotateRegion, PatchNodeGroups,
       PatchControlPlaneGroups, AnnotateRestart, RemoveFinalizer
  <2>2. UNCHANGED log \/ \E m : Write(m)
    BY <2>1, Zenon DEF PatchThen, clusterVars
  <2>3. QED BY <1>3, <2>2 DEF Write
<1>5. CASE ClusterAPI \/ UserActs
  <2>1. UNCHANGED log \/ \E m : Write(m)
    BY <1>5, Zenon DEF ClusterAPI, UserActs, clusterVars
  <2>2. QED BY <1>3, <2>1 DEF Write
<1>6. QED BY <1>1, <1>2, <1>4, <1>5 DEF Next, Worker, World

LEMMA RestedStep ==
  ASSUME KarpenterInv, GroupsKnown, Advanced, Rested, [Next]_vars PROVE Rested'
<1> SUFFICES ASSUME pc' = "idle", queued' # TRUE, timer' = "steady", Shown(Head(log'))
             PROVE  Bootstrapped'
  BY DEF Rested
<1>0. Shown(Head(log)) /\ w \in Local
  BY HeadKept DEF KarpenterInv, TypeOK
<1>1. CASE CacheAdvance \/ TimerFires \/ UserActs \/ World \/ UNCHANGED vars
  <2>1. UNCHANGED <<pc, timer>> /\ ~StartReconcile /\ ~WriteResource
    BY <1>1 DEF CacheAdvance, TimerFires, UserActs, World, ClusterAPI, Reports, Withdraws,
       FluxStarts, HelmInstalls, HelmReports, AppliesNodePool, Launch, AWSProgress, workerVars, vars,
       StartReconcile, WriteResource
  <2>2. queued # TRUE
    BY <2>1, ResStep
  <2>3. Bootstrapped
    BY <1>0, <2>1, <2>2 DEF Rested
  <2>4. QED BY <2>1, <2>3, BootstrappedKept
<1>2. CASE StartReconcile
  BY <1>0, <1>2 DEF StartReconcile, Shown
<1>3. CASE Finish
  <2>1. /\ pc = "finish" /\ UNCHANGED <<res, queued>> /\ ~w.short /\ missing = {} /\ ~WriteResource
    BY <1>3 DEF Finish, Requeue, WriteResource
  <2>2. Position = Len(Steps) + 1
    BY <2>1 DEF Position
  <2>3. Foreign \/ Passed(Len(Steps) + 1, w.cl)
    BY <2>1, <2>2, Owed DEF Late
  <2>4. Bootstrapped
    BY <2>3, AllPassed DEF Bootstrapped
  <2>5. QED BY <2>1, <2>4, BootstrappedKept
<1>4. CASE GetResource
  <2>1. UNCHANGED res /\ pc = "step" /\ w.k > 0 /\ Steps[w.k] # "profiles"
    BY <1>4 DEF GetResource
  <2>2. \/ res[Steps[w.k]] = "foreign"
        \/ \E r : Managed(r)
        \/ \E l : Continue("write", l)
    BY <1>4, Zenon DEF GetResource
  <2>3. (\E r : Managed(r)) \/ (\E l : Continue("write", l)) => pc' # "idle"
    BY DEF Managed, Goto, Continue
  <2>4. w.k \in DOMAIN Steps
    BY <1>0, <2>1, StepsNumbered DEF Local
  <2>5. QED BY <2>1, <2>2, <2>3, <2>4 DEF Bootstrapped, Foreign, Resources
<1>5. CASE RemoveFinalizer
  <2>1. AllDeleting
    BY <1>5 DEF RemoveFinalizer, KarpenterInv, GuardInv, Guarded, Releasing
  <2>2. Head(log).deleting
    BY <2>1 DEF AllDeleting, KarpenterInv, GuardInv, Types
  <2>3. QED BY <1>0, <2>2 DEF Shown
<1>6. CASE \/ EnsureFinalizer \/ EnsureLabel \/ AnnotateRegion \/ PatchNodeGroups
           \/ PatchControlPlaneGroups \/ AnnotateRestart
  <2>1. \E new, next : next \in {"label", "check", "step", "patchCP", "propagate", "restart"}
                       /\ PatchThen(new, next)
    BY <1>6 DEF EnsureFinalizer, EnsureLabel, AnnotateRegion, PatchNodeGroups,
       PatchControlPlaneGroups, AnnotateRestart
  <2>2. pc' \in {"label", "check", "step", "patchCP", "propagate", "restart"} \/ Fail
    BY <1>0, <2>1, PatchLeads
  <2>3. QED BY <2>2, FailEnds
<1>7. CASE \/ CheckPrerequisites \/ Propagate \/ DescribeInstances \/ TerminateInstances
           \/ DeleteOrphanENIs \/ Restart
  <2>1. pc' # "idle" \/ timer' = "short" \/ queued' = TRUE
    BY <1>7 DEF CheckPrerequisites, Propagate, DescribeInstances, TerminateInstances,
       DeleteOrphanENIs, Restart, Continue, Requeue
  <2>2. QED BY <2>1
<1>8. CASE \/ FirstStep \/ WriteResource \/ ReadGroupID \/ ReadProfiles \/ ReadHelmRelease
           \/ CallFails
  <2>1. \/ \E r : Managed(r)
        \/ \E k, l : Goto(k, l)
        \/ Continue("patchNode", w)
        \/ Fail
    BY <1>8, Zenon DEF FirstStep, WriteResource, ReadGroupID, ReadProfiles, ReadHelmRelease, CallFails
  <2>2. pc' # "idle" \/ Fail
    BY <2>1 DEF Managed, Goto, Continue
  <2>3. QED BY <2>2, FailEnds
<1>9. CASE \/ PlanRestarts \/ RolloutRestart \/ SuspendFlux \/ ResolveRegion \/ ScaleDown \/ DeleteNodePools
  <2>1. pc' # "idle"
    BY <1>9 DEF PlanRestarts, RolloutRestart, SuspendFlux, ResolveRegion, ScaleDown,
       DeleteNodePools, Continue, AfterStop
  <2>2. QED BY <2>1
<1>10. QED BY <1>1, <1>2, <1>3, <1>4, <1>5, <1>6, <1>7, <1>8, <1>9 DEF Next, Worker

LEMMA RestInit == Init => RestInv
<1> SUFFICES ASSUME Init PROVE RestInv
  OBVIOUS
<1>1. KarpenterInv
  BY GuardInit, RestartInit, NodesInit, TypeInit DEF KarpenterInv
<1>2. log = <<cluster>> /\ pc = "idle" /\ w = NoLocal
  BY DEF Init
<1>3. GroupsKnown
  <2>1. ~HasGroups(NoLocal.cl)
    BY DEF NoLocal, NewCluster, HasGroups
  <2>2. QED BY <1>2, <2>1 DEF GroupsKnown
<1>4. Newest /\ Placed /\ Advanced
  BY <1>2 DEF Newest, Placed, Advanced, Early, Late, Upserting
<1>5. Rested
  <2>1. PICK installed \in Installed : InitWith(installed)
    BY DEF Init
  <2>2. CASE ~installed
    BY <2>1, <2>2 DEF InitWith, Rested
  <2>3. CASE installed
    <3>1. \A r \in Resources : res[r] = "managed"
      BY <2>1, <2>3 DEF InitWith
    <3>2. fargate = Deployments
      BY <2>1, <2>3 DEF InitWith
    <3>3. PICK c \in Initial :
            cluster = [c EXCEPT !.fin = {"capi", "karpenter"}, !.label = TRUE, !.region = TRUE,
                                !.groups = [node |-> "set", cp |-> "set"], !.restarted = Deployments]
      BY <2>1, <2>3 DEF InitWith
    <3>4. c \in Cluster
      BY InitialAssumption, NewTypes
    <3>5. cluster.groups = [node |-> "set", cp |-> "set"]
      BY <3>3, <3>4 DEF Cluster
    <3>6. HasGroups(cluster)
      BY <3>5 DEF HasGroups
    <3>7. QED BY <3>1, <3>2, <3>6 DEF Rested, Bootstrapped
  <2>4. QED BY <2>2, <2>3
<1>6. QED BY <1>3, <1>4, <1>5 DEF RestInv

\* The bootstrapper rests for ten minutes only with every object made but the
\* optional security group, security groups for the nodes known and every profile
\* ACTIVE, or with a foreign object in the way: each shorter way out of the run asks
\* for another one soon.  That both variables are patched is not said, nor is it so
\* (BothGroupsPatched); the restarts are RestartsAreTrue's.
THEOREM SettledBootstrapped == Spec => []SettledIsBootstrapped
<1>1. KarpenterInv /\ RestInv /\ [Next]_vars => RestInv'
  BY GroupsKnownStep, NewestStep, PlacedStep, AdvancedStep, RestedStep DEF RestInv
<1>2. KarpenterInv /\ RestInv => SettledIsBootstrapped
  <2> SUFFICES ASSUME KarpenterInv, RestInv, Settled PROVE Bootstrapped
    BY DEF SettledIsBootstrapped, Bootstrapped, Foreign
  <2>1. Head(log) = cluster
    BY DEF Settled, RestInv, Newest, KarpenterInv, GuardInv, Types
  <2>2. QED BY <2>1 DEF Settled, Shown, RestInv, Rested
<1>3. QED BY <1>1, <1>2, RestInit, AlwaysTyped, PTL DEF Spec
=============================================================================
