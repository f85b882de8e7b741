------------------------- MODULE ControlPlaneProofs -------------------------
(* Proofs about ControlPlane, for every value of its constants. *)
EXTENDS ControlPlane, TLAPS

\* What TypeOK says of the history.
HistOK == hist \in Seq(CP) /\ Len(hist) \in 1..MaxLag

\* The server's and the cached object are objects.
LEMMA ApiType ==
  ASSUME HistOK PROVE Api \in CP /\ Cached \in CP
BY ConstantsAssumption DEF HistOK, Api, Cached

\* Writing an object keeps the history a history and makes it the server's.
LEMMA WriteType ==
  ASSUME HistOK, NEW new \in CP, Write(new)
  PROVE  HistOK' /\ Api' = new
<1>1. CASE new = Api
  BY <1>1 DEF Write, HistOK, Api
<1>2. CASE new # Api
  <2>1. hist' = Append(hist, new) /\ Len(hist) < MaxLag
    BY <1>2 DEF Write
  <2>2. Len(hist') = Len(hist) + 1 /\ hist'[Len(hist) + 1] = new /\ hist' \in Seq(CP)
    BY <2>1 DEF HistOK
  <2>3. QED BY <2>1, <2>2, ConstantsAssumption DEF HistOK, Api
<1>3. QED BY <1>1, <1>2

\* A merge patch of objects is an object.
LEMMA MergePatchType ==
  ASSUME NEW b \in CP, NEW a \in CP, NEW s \in CP
  PROVE  MergePatch(b, a, s) \in CP
<1> DEFINE e == Merged(b.ep, a.ep, s.ep)
           i == Merged(b.init, a.init, s.init)
           v == Merged(b.sver, a.sver, s.sver)
           f == Merged(b.failed, a.failed, s.failed)
           c == Merged(b.conds, a.conds, s.conds)
<1>1. /\ e \in Endpoints \cup {None} /\ i \in BOOLEAN /\ v \in Versions \cup {None}
      /\ f \in BOOLEAN /\ c \in Conds
  BY DEF Merged, CP
<1>2. MergePatch(b, a, s) =
        [s EXCEPT !.ep = e, !.init = i, !.sver = v, !.failed = f, !.conds = c]
  BY DEF MergePatch
<1> HIDE DEF e, i, v, f, c
<1>3. [s EXCEPT !.ep = e, !.init = i, !.sver = v, !.failed = f, !.conds = c] \in CP
  BY <1>1 DEF CP
<1>4. QED BY <1>2, <1>3

\* What reconcileConditionsAndFailure wants is an object.
LEMMA ConditionsType ==
  ASSUME NEW c \in CP, NEW r \in BOOLEAN, NEW f \in BOOLEAN
  PROVE  ConditionsAndFailure(c, r, f) \in CP
BY DEF ConditionsAndFailure, CP, Conds

\* The bounds are numbers.
LEMMA Bounds ==
  /\ MaxLag \in Nat /\ MaxLag > 1 /\ MaxUid \in Nat /\ MaxUid > 0
  /\ MaxEnv \in Nat /\ MaxFail \in Nat
BY ConstantsAssumption

\* The status of a backend that has not reported is a status.
LEMMA NoStatusType == NoStatus \in InstanceStatus
BY DEF NoStatus, InstanceStatus

\* A new Kany8sControlPlane is an object.
LEMMA NewCPType ==
  ASSUME NEW u \in 1..MaxUid, NEW v \in Versions PROVE NewCP(u, v) \in CP
BY DEF NewCP, CP, Conds, May

\* So are the local variables between two runs.
LEMMA NoLocalType == NoLocal \in Local
<1>1. (CHOOSE v \in Versions : TRUE) \in Versions
  BY ConstantsAssumption
<1>2. NewCP(1, CHOOSE v \in Versions : TRUE) \in CP
  BY <1>1, NewCPType, ConstantsAssumption
<1>3. [NewCP(1, CHOOSE v \in Versions : TRUE) EXCEPT !.exists = FALSE] \in CP
  BY <1>2 DEF CP
<1>4. QED BY <1>3, NoStatusType DEF NoLocal, Local

\* The reconciler's changes to its local copy are objects, and so is the result
\* of sending them.
LEMMA PatchedType ==
  ASSUME TypeOK, NEW a \in CP, SendPatch(a)
  PROVE  Patched(a) \in CP /\ HistOK' /\ Api' = Patched(a)
<1>1. w.cp \in CP
  BY DEF TypeOK, Local
<1>2. Patched(a) \in CP
  BY <1>1, ApiType, MergePatchType DEF Patched, TypeOK, HistOK
<1>3. QED BY <1>2, WriteType DEF SendPatch, TypeOK, HistOK

\* Finishing leaves no local variables and an idle worker.
LEMMA FinishType ==
  ASSUME TypeOK, NEW r \in BOOLEAN, Finish(r)
  PROVE  pc' \in PCs /\ w' \in Local /\ timer' \in BOOLEAN
BY NoLocalType DEF Finish, TypeOK, PCs

\* The mutate function of CreateOrUpdate returns a backend object.
LEMMA MutatedType ==
  ASSUME TypeOK, pc # "idle" PROVE Mutated(Seen) \in Inst /\ Mutated(Seen).st \in InstanceStatus
<1>1. w.cp.uid \in 0..MaxUid /\ w.cp.version \in Versions
  BY ConstantsAssumption DEF TypeOK, Local, CP
<1>2. Seen \in Inst
  BY DEF Seen, TypeOK
<1>3. QED BY <1>1, <1>2 DEF Mutated, Inst

\* What the cache has next is the history without its first version.
LEMMA Delivered ==
  ASSUME hist \in Seq(CP), Len(hist) \in Nat \ {0}, CacheAdvance
  PROVE  \/ hist' = hist
         \/ /\ hist' \in Seq(CP) /\ Len(hist) > 1 /\ Len(hist') = Len(hist) - 1
            /\ \A i \in 1..Len(hist) - 1 : hist'[i] = hist[i + 1]
<1>1. CASE hist' = Tail(hist)
  <2>1. hist # <<>>
    OBVIOUS
  <2>2. /\ Len(hist') = Len(hist) - 1 /\ hist' \in Seq(CP)
        /\ \A i \in 1..Len(hist) - 1 : hist'[i] = hist[i + 1]
    BY <1>1, <2>1
  <2>3. hist' # <<>>
    BY DEF CacheAdvance
  <2>4. Len(hist') # 0
    BY <2>2, <2>3
  <2>5. Len(hist) > 1
    BY <2>2, <2>4
  <2>6. QED BY <2>2, <2>5
<1>2. QED BY <1>1 DEF CacheAdvance

\* Every step keeps the types.
LEMMA TypeStep ==
  ASSUME TypeOK, [Next]_vars PROVE TypeOK'
<1>a. HistOK /\ w.cp \in CP /\ w.st \in InstanceStatus /\ Api \in CP /\ Cached \in CP
  BY ApiType DEF TypeOK, HistOK, Local
<1>1. CASE StartReconcile
  <2>1. CASE ~Cached.exists
    BY <1>1, <2>1 DEF StartReconcile, TypeOK, PCs, serverVars
  <2>2. CASE Cached.exists
    <3>1. w' \in Local
      <4> DEFINE o == IF ~Cached.owner THEN "notset" ELSE IF clusterSeen THEN "ok" ELSE "err"
      <4>1. o \in {"notset", "err", "ok"}
        OBVIOUS
      <4>2. w' = [cp |-> Cached, st |-> NoStatus, watchErr |-> FALSE, kc |-> "off",
                  owner |-> o]
        BY <1>1, <2>2 DEF StartReconcile
      <4> HIDE DEF o
      <4>3. QED BY <4>1, <4>2, <1>a, NoStatusType DEF Local
    <3>2. pc' \in PCs
      BY <1>1, <2>2 DEF StartReconcile, PCs
    <3>3. QED BY <1>1, <3>1, <3>2 DEF StartReconcile, TypeOK, serverVars
  <2>3. QED BY <2>1, <2>2
<1>2. CASE ResolveRGD
  BY <1>2, Bounds DEF ResolveRGD, TypeOK, PCs, serverVars, queueVars
<1>3. CASE ReportRGDFailure
  <2>1. [w.cp EXCEPT !.conds.rgd = "False"] \in CP
    BY <1>a DEF CP, Conds
  <2>2. HistOK'
    BY <1>3, <2>1, <1>a, WriteType DEF ReportRGDFailure, UpdateLocked, HistOK
  <2>3. QED BY <1>3, <2>2, FinishType DEF ReportRGDFailure, TypeOK, HistOK
<1>4. CASE EnsureWatch
  <2>1. w' \in Local
    BY <1>4 DEF EnsureWatch, TypeOK, Local
  <2>2. watch' \in BOOLEAN /\ instEvent' \in BOOLEAN
    BY <1>4 DEF EnsureWatch, Registered, TypeOK
  <2>3. pc' \in PCs /\ fails' \in 0..MaxFail
    BY <1>4, Bounds DEF EnsureWatch, TypeOK, PCs
  <2>4. QED BY <1>4, <2>1, <2>2, <2>3 DEF EnsureWatch, TypeOK, serverVars
<1>5. CASE ReportInvalid
  <2>1. HistOK'
    BY <1>5, <1>a, ConditionsType, PatchedType DEF ReportInvalid
  <2>2. QED BY <1>5, <2>1, FinishType DEF ReportInvalid, TypeOK, HistOK
<1>6. CASE SyncBackend
  <2>1. Mutated(Seen) \in Inst /\ Mutated(Seen).st \in InstanceStatus
    BY <1>6, MutatedType DEF SyncBackend
  <2>2. inst' \in Inst /\ instEvent' \in BOOLEAN
    BY <1>6, <2>1 DEF SyncBackend, TypeOK
  <2>3. pc' \in PCs /\ w' \in Local /\ timer' \in BOOLEAN
    BY <1>6, <2>1, NoLocalType DEF SyncBackend, Finish, TypeOK, PCs, Local
  <2>4. QED BY <1>6, <2>2, <2>3 DEF SyncBackend, TypeOK
<1>7. CASE CheckKubeconfig
  BY <1>7, Bounds DEF CheckKubeconfig, TypeOK, PCs, serverVars, queueVars
<1>8. CASE WriteTarget
  <2>1. tgt' \in Secret
    <3>1. w.cp.uid \in 0..MaxUid
      BY <1>a, Bounds DEF CP
    <3>2. [kind |-> "copied", owner |-> w.cp.uid] \in Secret
      BY <3>1 DEF Secret
    <3>3. tgt' \in {tgt, [kind |-> "copied", owner |-> w.cp.uid]}
      BY <1>8 DEF WriteTarget
    <3>4. QED BY <3>2, <3>3 DEF TypeOK
  <2>2. pc' \in PCs /\ w' \in Local /\ timer' \in BOOLEAN
    BY <1>8, NoLocalType DEF WriteTarget, Finish, TypeOK, PCs
  <2>3. QED BY <1>8, <2>1, <2>2 DEF WriteTarget, TypeOK
<1>9. CASE ReportKubeconfig
  <2> DEFINE after == [w.cp EXCEPT !.conds.kc = IF pc = "kcTrue" THEN "True" ELSE "False"]
  <2>1. after \in CP
    BY <1>a DEF CP, Conds
  <2>2. SendPatch(after) /\ w' = [w EXCEPT !.cp = Patched(after),
                         !.kc = IF pc = "kcTrue" THEN "ok" ELSE "requeue"]
    BY <1>9 DEF ReportKubeconfig
  <2> HIDE DEF after
  <2>3. Patched(after) \in CP /\ HistOK'
    BY <2>1, <2>2, PatchedType
  <2>4. w' \in Local
    BY <2>2, <2>3 DEF TypeOK, Local
  <2>5. QED BY <1>9, <2>3, <2>4 DEF ReportKubeconfig, TypeOK, PCs, queueVars, HistOK
<1>10. CASE PatchEndpoint
  <2> DEFINE after == [w.cp EXCEPT !.ep = w.st.ep]
  <2>1. CASE w.st.ep \in Endpoints /\ w.cp.ep # w.st.ep
    <3>1. after \in CP
      BY <1>a, <2>1 DEF CP
    <3>2. SendPatch(after) /\ w' = [w EXCEPT !.cp = Patched(after)]
      BY <1>10, <2>1 DEF PatchEndpoint
    <3> HIDE DEF after
    <3>3. Patched(after) \in CP /\ HistOK'
      BY <3>1, <3>2, PatchedType
    <3>4. w' \in Local
      BY <3>2, <3>3 DEF TypeOK, Local
    <3>5. QED BY <1>10, <3>3, <3>4 DEF PatchEndpoint, TypeOK, PCs, queueVars, HistOK
  <2>2. CASE ~(w.st.ep \in Endpoints /\ w.cp.ep # w.st.ep)
    BY <1>10, <2>2 DEF PatchEndpoint, TypeOK, PCs, queueVars
  <2>3. QED BY <2>1, <2>2
<1>11. CASE PatchInitialized
  <2> DEFINE after == [w.cp EXCEPT !.init = TRUE]
  <2>1. CASE BackendInitialized /\ ~w.cp.init
    <3>1. after \in CP
      BY <1>a DEF CP
    <3>2. SendPatch(after) /\ w' = [w EXCEPT !.cp = Patched(after)]
      BY <1>11, <2>1 DEF PatchInitialized
    <3> HIDE DEF after
    <3>3. Patched(after) \in CP /\ HistOK'
      BY <3>1, <3>2, PatchedType
    <3>4. w' \in Local
      BY <3>2, <3>3 DEF TypeOK, Local
    <3>5. QED BY <1>11, <3>3, <3>4 DEF PatchInitialized, TypeOK, PCs, queueVars, HistOK
  <2>2. CASE ~(BackendInitialized /\ ~w.cp.init)
    BY <1>11, <2>2 DEF PatchInitialized, TypeOK, PCs, queueVars
  <2>3. QED BY <2>1, <2>2
<1>12. CASE PatchConditions
  <2>1. OverallReady \in BOOLEAN /\ (w.st.terminal \/ w.st.ep = "bad") \in BOOLEAN
        /\ Result \in BOOLEAN
    BY <1>a DEF OverallReady, ControlPlaneReady, Result, InstanceStatus, TypeOK, Local
  <2>2. HistOK'
    BY <1>12, <2>1, <1>a, ConditionsType, PatchedType DEF PatchConditions
  <2>3. QED BY <1>12, <2>1, <2>2, FinishType DEF PatchConditions, TypeOK, HistOK
<1>13. CASE PatchNotFound
  BY <1>13, FinishType DEF PatchNotFound, TypeOK, serverVars
<1>14. CASE CallFails
  <2>1. pc' \in PCs /\ w' \in Local /\ timer' \in BOOLEAN
    BY <1>14, FinishType DEF CallFails
  <2>2. fails' \in 0..MaxFail
    BY <1>14, Bounds DEF CallFails, TypeOK
  <2>3. QED BY <1>14, <2>1, <2>2 DEF CallFails, TypeOK, serverVars
<1>15. CASE Restart
  <2>1. hist' \in Seq(CP) /\ Len(hist') \in 1..MaxLag
    BY <1>15, <1>a, ConstantsAssumption DEF Restart
  <2>2. fails' \in 0..MaxFail
    BY <1>15, Bounds DEF Restart, TypeOK
  <2>3. QED BY <1>15, <2>1, <2>2, NoLocalType DEF Restart, TypeOK, PCs
<1>16. CASE CacheAdvance
  <2>1. hist' \in Seq(CP) /\ Len(hist') \in 1..MaxLag
    BY <1>16, <1>a, Bounds, Delivered DEF HistOK
  <2>2. view' \in Inst /\ queued' \in BOOLEAN
    BY <1>16 DEF CacheAdvance, TypeOK
  <2>3. QED BY <1>16, <2>1, <2>2 DEF CacheAdvance, TypeOK
<1>17. CASE DeliverEvent \/ TimerFires
  BY <1>17 DEF DeliverEvent, TimerFires, TypeOK, queueVars, serverVars
<1>18. CASE EditSpec
  <2>1. PICK new \in CP : Write(new)
    BY <1>18, <1>a DEF EditSpec, CP
  <2>2. HistOK'
    BY <2>1, <1>a, WriteType
  <2>3. QED BY <1>18, <2>2, Bounds DEF EditSpec, Changes, TypeOK, queueVars, HistOK
<1>19. CASE DeleteCP
  <2>1. [Api EXCEPT !.exists = FALSE] \in CP
    BY <1>a DEF CP
  <2>2. HistOK'
    BY <1>19, <2>1, <1>a, WriteType DEF DeleteCP
  <2>3. QED BY <1>19, <2>2, Bounds DEF DeleteCP, Changes, TypeOK, queueVars, HistOK
<1>20. CASE RecreateCP
  <2>1. Api.uid + 1 \in 1..MaxUid /\ Api.version \in Versions
    BY <1>20, <1>a, ConstantsAssumption DEF RecreateCP, CP
  <2>2. NewCP(Api.uid + 1, Api.version) \in CP
    BY <2>1, NewCPType
  <2>3. HistOK'
    BY <1>20, <2>2, <1>a, WriteType DEF RecreateCP
  <2>4. QED BY <1>20, <2>3 DEF RecreateCP, TypeOK, queueVars, HistOK
<1>21. CASE CollectGarbage
  <2>1. NoInst \in Inst /\ NoSecret \in Secret
    BY NoStatusType, ConstantsAssumption DEF NoInst, Inst, NoSecret, Secret
  <2>2. QED BY <1>21, <2>1 DEF CollectGarbage, TypeOK
<1>22. CASE BackendReports
  <2>1. NoInst \in Inst
    BY NoStatusType, ConstantsAssumption DEF NoInst, Inst
  <2>2. ASSUME NEW s \in Statuses PROVE [inst EXCEPT !.st = s, !.obs = inst.ver] \in Inst
    BY ConstantsAssumption DEF TypeOK, Inst
  <2>3. inst' \in Inst
    BY <1>22, <2>1, <2>2 DEF BackendReports
  <2>4. env' \in 0..MaxEnv
    <3>1. Changes
      BY <1>22 DEF BackendReports
    <3>2. QED BY <3>1, Bounds DEF Changes, TypeOK
  <2>5. instEvent' \in BOOLEAN
    BY <1>22 DEF BackendReports, TypeOK
  <2>6. QED BY <1>22, <2>3, <2>4, <2>5 DEF BackendReports, TypeOK
<1>23. CASE UnwatchedChange
  <2>1. NoSecret \in Secret /\ [kind |-> "foreign", owner |-> 0] \in Secret
    BY ConstantsAssumption DEF NoSecret, Secret
  <2>2. env' \in 0..MaxEnv
    BY <1>23, Bounds DEF UnwatchedChange, Changes, TypeOK
  <2>3. /\ clusterSeen' \in BOOLEAN /\ rgdOK' \in BOOLEAN /\ tgt' \in Secret
        /\ src' \in {"absent", "invalid", "good"}
    BY <1>23, <2>1 DEF UnwatchedChange, TypeOK
  <2>4. QED BY <1>23, <2>2, <2>3 DEF UnwatchedChange, TypeOK, queueVars
<1>24. CASE UNCHANGED vars
  BY <1>24 DEF vars, serverVars, queueVars, TypeOK
<1>25. QED
  BY <1>1, <1>2, <1>3, <1>4, <1>5, <1>6, <1>7, <1>8, <1>9, <1>10, <1>11, <1>12,
     <1>13, <1>14, <1>15, <1>16, <1>17, <1>18, <1>19, <1>20, <1>21, <1>22, <1>23,
     <1>24 DEF Next, Worker, Delivery, Environment

\* The variables have their types at the beginning.
LEMMA InitType ==
  ASSUME Init PROVE TypeOK
<1>1. PICK v \in Versions : hist = <<NewCP(1, v)>>
  BY DEF Init
<1>2. NewCP(1, v) \in CP
  BY NewCPType, ConstantsAssumption
<1>3. hist \in Seq(CP) /\ Len(hist) \in 1..MaxLag
  BY <1>1, <1>2, ConstantsAssumption
<1>4. NoInst \in Inst /\ NoSecret \in Secret
  BY NoStatusType, ConstantsAssumption DEF NoInst, Inst, NoSecret, Secret
<1>5. clusterSeen \in BOOLEAN /\ rgdOK \in BOOLEAN
  BY DEF Init, May
<1>6. env \in 0..MaxEnv /\ fails \in 0..MaxFail
  BY Bounds DEF Init
<1>7. QED BY <1>3, <1>4, <1>5, <1>6, NoLocalType DEF Init, TypeOK, PCs

\* Every variable keeps its type (TypeOK), whatever the bounds are.
THEOREM TypeCorrect == Spec => []TypeOK
<1>1. Init => TypeOK
  BY InitType
<1>2. TypeOK /\ [Next]_vars => TypeOK'
  BY TypeStep
<1>3. QED BY <1>1, <1>2, PTL DEF Spec

-----------------------------------------------------------------------------
(* The published fields only grow, and Ready=True is backed by them *)

\* b has everything of the CAPI contract that a has.
Later(a, b) == (a.init => b.init) /\ (a.ep \in Endpoints => b.ep \in Endpoints)

\* ReadyIsBacked of one version of the object.
Backed(c) == c.conds.ready = "True" => c.init /\ c.ep \in Endpoints

HistInv ==
  /\ \A i, j \in 1..Len(hist) : i <= j => Later(hist[i], hist[j])
  /\ \A i \in 1..Len(hist) : Backed(hist[i])

\* A status that a backend keeping the contract may have: of the others any.
Possible ==
  {s \in InstanceStatus :
     Backend = "kubeadm" => (s.ready => s.init) /\ (s.init => s.ep \in Endpoints)}

\* Those of the environment are, and one that reports nothing is.
LEMMA StatusesPossible == Statuses \cup {NoStatus} \subseteq Possible
<1>1. NoStatus.ready = FALSE /\ NoStatus.init = FALSE
  BY DEF NoStatus
<1>2. QED BY <1>1, NoStatusType, ConstantsAssumption, KubeadmAssumption DEF Possible

\* The inductive invariant: every undelivered version and the worker's copy are
\* no later than the server's, and what the worker is about to publish as ready
\* is in its copy already.
BackedInv ==
  /\ HistInv
  /\ Later(w.cp, Api) /\ Backed(w.cp)
  /\ inst.st \in Possible /\ view.st \in Possible /\ w.st \in Possible
  /\ pc \in {"initialized", "conditions"} /\ w.st.ep \in Endpoints => w.cp.ep \in Endpoints
  /\ pc = "conditions" /\ BackendInitialized => w.cp.init

\* The fields of a merge patch.
LEMMA MergePatchFields ==
  ASSUME NEW b \in CP, NEW a \in CP, NEW s \in CP
  PROVE  /\ MergePatch(b, a, s).init = Merged(b.init, a.init, s.init)
         /\ MergePatch(b, a, s).ep = Merged(b.ep, a.ep, s.ep)
         /\ MergePatch(b, a, s).conds = Merged(b.conds, a.conds, s.conds)
         /\ MergePatch(b, a, s).uid = s.uid
BY DEF MergePatch, CP

\* A delivered version or a restart leaves the server's object alone.
LEMMA TailKeepsApi ==
  ASSUME HistOK, CacheAdvance \/ Restart
  PROVE  Api' = Api
<1>1. CASE CacheAdvance
  BY <1>1, Delivered DEF HistOK, Api
<1>2. CASE Restart
  BY <1>2 DEF Restart, Api
<1>3. QED BY <1>1, <1>2

\* A write of a later, backed version keeps the history's invariant.
LEMMA WriteHist ==
  ASSUME HistOK, HistInv, NEW new \in CP, Later(Api, new), Backed(new), Write(new)
  PROVE  HistInv'
<1>1. CASE new = Api
  BY <1>1 DEF Write, HistInv
<1>2. CASE new # Api
  <2>1. hist' = Append(hist, new) /\ hist \in Seq(CP) /\ Len(hist) \in Nat /\ Len(hist) > 0
    BY <1>2 DEF Write, HistOK
  <2>2. /\ Len(hist') = Len(hist) + 1
        /\ \A i \in 1..Len(hist) : hist'[i] = hist[i]
        /\ hist'[Len(hist) + 1] = new
    BY <2>1
  <2>3. \A i \in 1..Len(hist) : Later(hist[i], new)
    <3>1. \A i \in 1..Len(hist) : Later(hist[i], Api)
      BY <2>1 DEF HistInv, Api
    <3>2. QED BY <3>1 DEF Later
  <2>4. Later(new, new)
    BY DEF Later
  <2>5. ASSUME NEW i \in 1..Len(hist'), NEW j \in 1..Len(hist'), i <= j
        PROVE  Later(hist'[i], hist'[j])
    <3>1. CASE j \in 1..Len(hist)
      BY <2>1, <2>2, <2>5, <3>1 DEF HistInv
    <3>2. CASE j = Len(hist) + 1
      BY <2>1, <2>2, <2>3, <2>4, <2>5, <3>2
    <3>3. QED BY <2>1, <2>2, <3>1, <3>2
  <2>6. ASSUME NEW i \in 1..Len(hist') PROVE Backed(hist'[i])
    BY <2>1, <2>2 DEF HistInv
  <2>7. QED BY <2>5, <2>6 DEF HistInv, Later, Backed
<1>3. QED BY <1>1, <1>2

\* A patch that only adds to the local copy only adds to the server's object,
\* however stale the copy is, and its result is backed if the wanted one is.
LEMMA PatchHist ==
  ASSUME TypeOK, BackedInv, NEW a \in CP, SendPatch(a), Later(w.cp, a), Backed(a)
  PROVE  /\ HistInv' /\ Api' = Patched(a) /\ Patched(a) \in CP
         /\ Later(a, Patched(a)) /\ Backed(Patched(a))
<1>1. HistOK /\ w.cp \in CP /\ Api \in CP
  BY ApiType DEF TypeOK, HistOK, Local
<1>2. Backed(Api)
  <2>1. Len(hist) \in 1..Len(hist)
    BY <1>1 DEF HistOK
  <2>2. QED BY <2>1 DEF BackedInv, HistInv, Api
<1>3. /\ Patched(a).init = Merged(w.cp.init, a.init, Api.init)
      /\ Patched(a).ep = Merged(w.cp.ep, a.ep, Api.ep)
      /\ Patched(a).conds = Merged(w.cp.conds, a.conds, Api.conds)
  BY <1>1, MergePatchFields DEF Patched
<1>4. Patched(a) \in CP /\ Api' = Patched(a)
  BY PatchedType
<1>5. a.ep \in Endpoints \cup {None} /\ w.cp.ep \in Endpoints \cup {None}
      /\ a.init \in BOOLEAN /\ w.cp.init \in BOOLEAN /\ Api.init \in BOOLEAN
  BY <1>1 DEF CP
<1>6. Later(Api, Patched(a))
  BY <1>3, <1>5 DEF Later, Merged
<1>7. Later(a, Patched(a))
  BY <1>3, <1>5 DEF Later, Merged, BackedInv
<1>8. Backed(Patched(a))
  BY <1>2, <1>3, <1>5, <1>6, <1>7 DEF Merged, Backed, Later
<1>9. HistInv'
  BY <1>1, <1>4, <1>6, <1>8, WriteHist DEF SendPatch, BackedInv
<1>10. QED BY <1>4, <1>7, <1>8, <1>9

\* BackedInv from its parts, for a step that patches the object.
LEMMA BackedAfterPatch ==
  ASSUME TypeOK, BackedInv, NEW a \in CP, SendPatch(a), Later(w.cp, a), Backed(a),
         UNCHANGED <<inst, view>>,
         w'.cp = Patched(a), w'.st = w.st,
         pc' \in {"endpoint", "initialized", "conditions"},
         pc' \in {"initialized", "conditions"} /\ w.st.ep \in Endpoints => a.ep \in Endpoints,
         pc' = "conditions" /\ BackendInitialized => a.init
  PROVE  BackedInv'
<1>1. /\ HistInv' /\ Api' = Patched(a)
      /\ Later(a, Patched(a)) /\ Backed(Patched(a))
  BY PatchHist
<1>2. Later(w'.cp, Api')
  BY <1>1 DEF Later
<1>3. BackendInitialized' = BackendInitialized
  BY DEF BackendInitialized
<1>4. QED BY <1>1, <1>2, <1>3 DEF BackedInv, Later, Possible, Backed

\* BackedInv when the worker finishes.
LEMMA BackedAfterFinish ==
  ASSUME TypeOK, BackedInv, HistInv', NEW r, Finish(r), UNCHANGED view,
         inst'.st \in Possible
  PROVE  BackedInv'
<1>1. w' = NoLocal /\ pc' = "idle"
  BY DEF Finish
<1>2. NoLocal.cp.init = FALSE /\ NoLocal.cp.ep = None /\ NoLocal.st = NoStatus
      /\ NoLocal.cp.conds.ready = "absent"
  BY DEF NoLocal, NewCP
<1>3. Later(w'.cp, Api') /\ Backed(w'.cp)
  BY <1>1, <1>2, ConstantsAssumption DEF Later, Backed
<1>4. QED BY <1>1, <1>2, <1>3, StatusesPossible DEF BackedInv

\* BackedInv when the object, the worker and the statuses stay.
LEMMA BackedKept ==
  ASSUME BackedInv, UNCHANGED <<hist, pc, w>>, inst'.st \in Possible, view'.st \in Possible
  PROVE  BackedInv'
BY DEF BackedInv, HistInv, Later, Backed, Possible, Api, BackendInitialized

\* BackedInv when somebody else writes a version that keeps the contract fields.
LEMMA BackedWrite ==
  ASSUME TypeOK, BackedInv, NEW new \in CP, Write(new),
         new.init = Api.init, new.ep = Api.ep, new.conds = Api.conds,
         UNCHANGED <<pc, w, inst, view>>
  PROVE  BackedInv'
<1>1. HistOK
  BY DEF TypeOK, HistOK
<1>2. Backed(Api)
  <2>1. Len(hist) \in 1..Len(hist)
    BY <1>1 DEF HistOK
  <2>2. QED BY <2>1 DEF BackedInv, HistInv, Api
<1>3. Later(Api, new) /\ Backed(new)
  BY <1>2 DEF Later, Backed
<1>4. HistInv' /\ Api' = new
  BY <1>1, <1>3, WriteHist, WriteType DEF BackedInv
<1>5. Later(w'.cp, Api')
  BY <1>3, <1>4 DEF BackedInv, Later
<1>6. QED BY <1>4, <1>5 DEF BackedInv, Possible, Later, Backed, BackendInitialized

\* What is about to be reported as ready is in the worker's copy already.
LEMMA ReadyIsHad ==
  ASSUME BackedInv, pc = "conditions", OverallReady
  PROVE  w.cp.init /\ w.cp.ep \in Endpoints
<1>1. w.st.ready /\ w.st.ep \in Endpoints
  BY DEF OverallReady, ControlPlaneReady
<1>2. BackendInitialized
  BY <1>1 DEF BackedInv, Possible, BackendInitialized
<1>3. QED BY <1>1, <1>2 DEF BackedInv

\* The step of the induction: an object that is never re-created under its name
\* keeps BackedInv.
LEMMA BackedStep ==
  ASSUME MaxUid = 1, TypeOK, BackedInv, [Next]_vars
  PROVE  BackedInv'
<1>a. /\ HistOK /\ HistInv /\ w.cp \in CP /\ w.st \in InstanceStatus
      /\ Api \in CP /\ Cached \in CP /\ Api.uid = 1
  BY ApiType DEF TypeOK, HistOK, Local, BackedInv, CP
<1>b. Later(Cached, Api) /\ Backed(Cached) /\ Backed(Api)
  <2>1. 1 \in 1..Len(hist) /\ Len(hist) \in 1..Len(hist) /\ 1 <= Len(hist)
    BY <1>a DEF HistOK
  <2>2. QED BY <2>1, <1>a DEF HistInv, Api, Cached
<1>c. inst.st \in Possible /\ view.st \in Possible
  BY DEF BackedInv
<1>1. CASE StartReconcile
  <2>1. CASE ~Cached.exists
    BY <1>1, <2>1, <1>c, BackedKept DEF StartReconcile, serverVars
  <2>2. CASE Cached.exists
    <3>1. w'.cp = Cached /\ w'.st = NoStatus /\ pc' \in {"invalid", "resolve", "watch"}
      BY <1>1, <2>2 DEF StartReconcile
    <3>2. UNCHANGED <<hist, inst, view>>
      BY <1>1 DEF StartReconcile, serverVars
    <3>3. HistInv' /\ Api' = Api
      BY <1>a, <3>2 DEF HistInv, Api, Later, Backed
    <3>4. QED BY <1>b, <1>c, <3>1, <3>2, <3>3, StatusesPossible DEF BackedInv
  <2>3. QED BY <2>1, <2>2
<1>2. CASE ResolveRGD \/ CheckKubeconfig
  <2>1. /\ UNCHANGED <<hist, w, inst, view>>
        /\ pc' \in {"watch", "rgdFailed", "endpoint", "target", "kcFalse"}
    BY <1>2 DEF ResolveRGD, CheckKubeconfig, serverVars
  <2>2. HistInv' /\ Api' = Api
    BY <1>a, <2>1 DEF HistInv, Api, Later, Backed
  <2>3. QED BY <2>1, <2>2 DEF BackedInv, Possible
<1>3. CASE ReportRGDFailure
  <2> DEFINE new == [w.cp EXCEPT !.conds.rgd = "False"]
  <2>1. /\ new \in CP /\ new.init = w.cp.init /\ new.ep = w.cp.ep
        /\ new.conds.ready = w.cp.conds.ready
    BY <1>a DEF CP, Conds
  <2>2. (w.cp = Api /\ Write(new)) \/ UNCHANGED hist
    BY <1>3 DEF ReportRGDFailure, UpdateLocked
  <2> HIDE DEF new
  <2>3. HistInv'
    <3>1. CASE w.cp = Api /\ Write(new)
      <4>1. Later(Api, new) /\ Backed(new)
        BY <2>1, <3>1, <1>b DEF Later, Backed
      <4>2. QED BY <2>1, <3>1, <4>1, <1>a, WriteHist
    <3>2. CASE UNCHANGED hist
      BY <3>2, <1>a DEF HistInv, Later, Backed
    <3>3. QED BY <2>2, <3>1, <3>2
  <2>4. QED BY <1>3, <1>c, <2>3, BackedAfterFinish DEF ReportRGDFailure
<1>4. CASE EnsureWatch
  <2>1. /\ UNCHANGED <<hist, inst, view>> /\ w'.cp = w.cp /\ w'.st = w.st
        /\ pc' \in {"invalid", "sync"}
    BY <1>4 DEF EnsureWatch, serverVars, TypeOK, Local
  <2>2. HistInv' /\ Api' = Api
    BY <1>a, <2>1 DEF HistInv, Api, Later, Backed
  <2>3. QED BY <2>1, <2>2 DEF BackedInv, Possible
<1>5. CASE ReportInvalid
  <2> DEFINE after == ConditionsAndFailure(w.cp, FALSE, TRUE)
  <2>0. after \in CP
    BY <1>a, ConditionsType
  <2>1. /\ after.init = w.cp.init /\ after.ep = w.cp.ep
        /\ after.conds.ready = "False"
    BY <1>a DEF ConditionsAndFailure, CP, Conds
  <2>2. SendPatch(after)
    BY <1>5 DEF ReportInvalid
  <2> HIDE DEF after
  <2>3. HistInv'
    <3>1. Later(w.cp, after) /\ Backed(after)
      BY <2>1 DEF Later, Backed
    <3>2. QED BY <2>0, <2>2, <3>1, PatchHist
  <2>4. QED BY <1>5, <1>c, <2>3, BackedAfterFinish DEF ReportInvalid
<1>6. CASE SyncBackend
  <2>1. Mutated(Seen).st = Seen.st /\ Seen.st \in Possible
    <3>1. Seen \in Inst
      BY DEF Seen, TypeOK
    <3>2. QED BY <3>1, <1>c DEF Mutated, Seen, Inst
  <2>2. inst'.st \in Possible /\ UNCHANGED <<hist, view>>
    BY <1>6, <1>c, <2>1 DEF SyncBackend
  <2>3. HistInv' /\ Api' = Api
    BY <1>a, <2>2 DEF HistInv, Api, Later, Backed
  <2>4. CASE Finish(TRUE)
    BY <2>2, <2>3, <2>4, BackedAfterFinish
  <2>5. CASE ~Finish(TRUE)
    <3>1. w' = [w EXCEPT !.st = Mutated(Seen).st] /\ pc' \in {"endpoint", "kubeconfig"}
      BY <1>6, <2>5 DEF SyncBackend
    <3>2. w'.cp = w.cp /\ w'.st = Mutated(Seen).st
      BY <3>1 DEF TypeOK, Local
    <3>3. QED BY <2>1, <2>2, <2>3, <3>1, <3>2 DEF BackedInv, Possible
  <2>6. QED BY <2>4, <2>5
<1>7. CASE WriteTarget
  <2>1. UNCHANGED <<hist, inst, view>>
    BY <1>7 DEF WriteTarget
  <2>2. HistInv' /\ Api' = Api
    BY <1>a, <2>1 DEF HistInv, Api, Later, Backed
  <2>3. CASE Finish(TRUE)
    BY <1>c, <2>1, <2>2, <2>3, BackedAfterFinish
  <2>4. CASE ~Finish(TRUE)
    <3>1. UNCHANGED w /\ pc' = "kcTrue"
      BY <1>7, <2>4 DEF WriteTarget
    <3>2. QED BY <2>1, <2>2, <3>1 DEF BackedInv, Possible
  <2>5. QED BY <2>3, <2>4
<1>8. CASE ReportKubeconfig
  <2> DEFINE k == IF pc = "kcTrue" THEN "True" ELSE "False"
             after == [w.cp EXCEPT !.conds.kc = k]
  <2>1. /\ after \in CP /\ after.init = w.cp.init /\ after.ep = w.cp.ep
        /\ after.conds.ready = w.cp.conds.ready
    BY <1>a DEF CP, Conds
  <2>2. SendPatch(after) /\ w'.cp = Patched(after) /\ w'.st = w.st
    BY <1>8 DEF ReportKubeconfig, TypeOK, Local
  <2>3. pc' = "endpoint" /\ UNCHANGED <<inst, view>>
    BY <1>8 DEF ReportKubeconfig
  <2> HIDE DEF after, k
  <2>4. Later(w.cp, after) /\ Backed(after)
    BY <2>1 DEF Later, Backed, BackedInv
  <2>5. QED BY <2>1, <2>2, <2>3, <2>4, BackedAfterPatch
<1>9. CASE PatchEndpoint
  <2> DEFINE after == [w.cp EXCEPT !.ep = w.st.ep]
  <2>1. CASE w.st.ep \in Endpoints /\ w.cp.ep # w.st.ep
    <3>1. /\ after \in CP /\ after.init = w.cp.init /\ after.ep = w.st.ep
          /\ after.conds = w.cp.conds
      BY <1>a, <2>1 DEF CP
    <3>2. SendPatch(after) /\ w'.cp = Patched(after) /\ w'.st = w.st
      BY <1>9, <2>1 DEF PatchEndpoint, TypeOK, Local
    <3>3. pc' = "initialized" /\ UNCHANGED <<inst, view>>
      BY <1>9 DEF PatchEndpoint
    <3> HIDE DEF after
    <3>4. Later(w.cp, after) /\ Backed(after)
      BY <2>1, <3>1 DEF Later, Backed, BackedInv
    <3>5. QED BY <2>1, <3>1, <3>2, <3>3, <3>4, BackedAfterPatch
  <2>2. CASE ~(w.st.ep \in Endpoints /\ w.cp.ep # w.st.ep)
    <3>1. UNCHANGED <<hist, w, inst, view>> /\ pc' = "initialized"
      BY <1>9, <2>2 DEF PatchEndpoint
    <3>2. HistInv' /\ Api' = Api
      BY <1>a, <3>1 DEF HistInv, Api, Later, Backed
    <3>3. QED BY <2>2, <3>1, <3>2 DEF BackedInv, Possible
  <2>3. QED BY <2>1, <2>2
<1>10. CASE PatchInitialized
  <2> DEFINE after == [w.cp EXCEPT !.init = TRUE]
  <2>1. CASE BackendInitialized /\ ~w.cp.init
    <3>1. /\ after \in CP /\ after.init = TRUE /\ after.ep = w.cp.ep
          /\ after.conds = w.cp.conds
      BY <1>a DEF CP
    <3>2. SendPatch(after) /\ w'.cp = Patched(after) /\ w'.st = w.st
      BY <1>10, <2>1 DEF PatchInitialized, TypeOK, Local
    <3>3. pc' = "conditions" /\ UNCHANGED <<inst, view>> /\ pc = "initialized"
      BY <1>10 DEF PatchInitialized
    <3> HIDE DEF after
    <3>4. Later(w.cp, after) /\ Backed(after)
      BY <3>1 DEF Later, Backed, BackedInv
    <3>5. w.st.ep \in Endpoints => after.ep \in Endpoints
      BY <3>1, <3>3 DEF BackedInv
    <3>6. QED BY <3>1, <3>2, <3>3, <3>4, <3>5, BackedAfterPatch
  <2>2. CASE ~(BackendInitialized /\ ~w.cp.init)
    <3>1. UNCHANGED <<hist, w, inst, view>> /\ pc' = "conditions" /\ pc = "initialized"
      BY <1>10, <2>2 DEF PatchInitialized
    <3>2. HistInv' /\ Api' = Api /\ BackendInitialized' = BackendInitialized
      BY <1>a, <3>1 DEF HistInv, Api, Later, Backed, BackendInitialized
    <3>3. QED BY <2>2, <3>1, <3>2 DEF BackedInv, Possible
  <2>3. QED BY <2>1, <2>2
<1>11. CASE PatchConditions
  <2> DEFINE f == w.st.terminal \/ w.st.ep = "bad"
             after == ConditionsAndFailure(w.cp, OverallReady, f)
  <2>1. OverallReady \in BOOLEAN /\ f \in BOOLEAN
    BY <1>a DEF OverallReady, ControlPlaneReady, InstanceStatus
  <2>2. after \in CP
    BY <1>a, <2>1, ConditionsType
  <2>3. /\ after.init = w.cp.init /\ after.ep = w.cp.ep
        /\ after.conds.ready = "True" => OverallReady
    BY <1>a, <2>1 DEF ConditionsAndFailure, CP, Conds
  <2>4. SendPatch(after) /\ pc = "conditions"
    BY <1>11 DEF PatchConditions
  <2> HIDE DEF after, f
  <2>5. OverallReady => w.cp.init /\ w.cp.ep \in Endpoints
    BY <2>4, ReadyIsHad
  <2>6. Later(w.cp, after) /\ Backed(after)
    BY <2>3, <2>5 DEF Later, Backed
  <2>7. HistInv'
    BY <2>2, <2>4, <2>6, PatchHist
  <2>8. QED BY <1>11, <1>c, <2>7, BackedAfterFinish DEF PatchConditions
<1>12. CASE PatchNotFound \/ CallFails
  <2>1. UNCHANGED <<hist, inst, view>> /\ Finish(TRUE)
    BY <1>12 DEF PatchNotFound, CallFails, serverVars
  <2>2. HistInv'
    BY <1>a, <2>1 DEF HistInv, Later, Backed
  <2>3. QED BY <1>c, <2>1, <2>2, BackedAfterFinish
<1>13. CASE Restart
  <2>1. hist' = <<Api>> /\ w' = NoLocal /\ pc' = "idle" /\ view' = inst /\ inst' = inst
    BY <1>13 DEF Restart
  <2>2. HistInv'
    <3>1. Len(hist') = 1 /\ hist'[1] = Api
      BY <2>1
    <3>2. QED BY <3>1, <1>b DEF HistInv, Later
  <2>3. NoLocal.cp.init = FALSE /\ NoLocal.cp.ep = None /\ NoLocal.st = NoStatus
        /\ NoLocal.cp.conds.ready = "absent"
    BY DEF NoLocal, NewCP
  <2>4. Later(w'.cp, Api') /\ Backed(w'.cp)
    BY <2>1, <2>3, ConstantsAssumption DEF Later, Backed
  <2>5. QED BY <2>1, <2>2, <2>3, <2>4, <1>c, StatusesPossible DEF BackedInv
<1>14. CASE CacheAdvance
  <2>1. HistInv'
    <3>1. CASE hist' = hist
      BY <1>a, <3>1 DEF HistInv, Later, Backed
    <3>2. CASE /\ Len(hist) > 1 /\ Len(hist') = Len(hist) - 1
               /\ \A i \in 1..Len(hist) - 1 : hist'[i] = hist[i + 1]
      <4>1. Len(hist) \in Nat
        BY <1>a DEF HistOK
      <4>2. \A i \in 1..Len(hist') : i + 1 \in 1..Len(hist) /\ hist'[i] = hist[i + 1]
        BY <3>2, <4>1
      <4>3. ASSUME NEW i \in 1..Len(hist'), NEW j \in 1..Len(hist'), i <= j
            PROVE  Later(hist'[i], hist'[j])
        <5>1. i + 1 <= j + 1
          BY <3>2, <4>1, <4>3
        <5>2. QED BY <1>a, <4>2, <5>1 DEF HistInv
      <4>4. \A i \in 1..Len(hist') : Backed(hist'[i])
        BY <1>a, <4>2 DEF HistInv
      <4>5. QED BY <4>3, <4>4 DEF HistInv, Later, Backed
    <3>3. QED BY <1>14, <1>a, <3>1, <3>2, Delivered DEF HistOK
  <2>2. Api' = Api /\ UNCHANGED <<pc, w, inst>> /\ view' \in {inst, view}
    BY <1>14, <1>a, TailKeepsApi DEF CacheAdvance
  <2>3. QED BY <2>1, <2>2, <1>c DEF BackedInv, Possible, BackendInitialized
<1>15. CASE DeliverEvent \/ TimerFires \/ UnwatchedChange \/ UNCHANGED vars
  <2>1. UNCHANGED <<hist, pc, w, inst>> /\ view' \in {inst, view}
    BY <1>15 DEF DeliverEvent, TimerFires, UnwatchedChange, vars, serverVars
  <2>2. QED BY <2>1, <1>c, BackedKept
<1>16. CASE EditSpec
  <2>1. PICK new \in CP : Write(new) /\ new.init = Api.init /\ new.ep = Api.ep
                           /\ new.conds = Api.conds
    <3>1. ASSUME NEW v \in Versions
          PROVE  LET n == [Api EXCEPT !.version = v] IN
                 n \in CP /\ n.init = Api.init /\ n.ep = Api.ep /\ n.conds = Api.conds
      BY <1>a DEF CP
    <3>2. ASSUME NEW c \in {"valid", "badSpec", "noBackend"}
          PROVE  LET n == [Api EXCEPT !.cfg = c] IN
                 n \in CP /\ n.init = Api.init /\ n.ep = Api.ep /\ n.conds = Api.conds
      BY <1>a DEF CP
    <3>3. LET n == [Api EXCEPT !.owner = TRUE] IN
          n \in CP /\ n.init = Api.init /\ n.ep = Api.ep /\ n.conds = Api.conds
      BY <1>a DEF CP
    <3>4. \/ \E v \in Versions : Write([Api EXCEPT !.version = v])
          \/ \E c \in {"valid", "badSpec", "noBackend"} : Write([Api EXCEPT !.cfg = c])
          \/ Write([Api EXCEPT !.owner = TRUE])
      BY <1>16 DEF EditSpec
    <3>5. QED BY <3>1, <3>2, <3>3, <3>4, Zenon
  <2>2. QED BY <1>16, <2>1, BackedWrite DEF EditSpec
<1>17. CASE DeleteCP \/ RecreateCP
  BY <1>17, <1>a DEF DeleteCP, RecreateCP
<1>18. CASE CollectGarbage \/ BackendReports
  <2>1. UNCHANGED <<hist, pc, w, view>>
    BY <1>18 DEF CollectGarbage, BackendReports
  <2>2. inst'.st \in Possible
    <3>1. CASE CollectGarbage
      BY <3>1, <1>c, StatusesPossible DEF CollectGarbage, NoInst
    <3>2. CASE BackendReports
      <4>1. inst' = NoInst \/ \E s \in Statuses : inst' = [inst EXCEPT !.st = s, !.obs = inst.ver]
        BY <3>2 DEF BackendReports
      <4>2. ASSUME NEW s \in Statuses PROVE [inst EXCEPT !.st = s, !.obs = inst.ver].st = s
        BY DEF TypeOK, Inst
      <4>3. CASE inst' = NoInst
        BY <4>3, StatusesPossible DEF NoInst
      <4>4. CASE inst' # NoInst
        <5>1. PICK s \in Statuses : inst' = [inst EXCEPT !.st = s, !.obs = inst.ver]
          BY <4>1, <4>4
        <5>2. inst'.st = s
          BY <4>2, <5>1
        <5>3. QED BY <5>2, StatusesPossible
      <4>5. QED BY <4>3, <4>4
    <3>3. QED BY <1>18, <3>1, <3>2
  <2>3. QED BY <1>c, <2>1, <2>2, BackedKept
<1>19. QED
  BY <1>1, <1>2, <1>3, <1>4, <1>5, <1>6, <1>7, <1>8, <1>9, <1>10, <1>11, <1>12, <1>13,
     <1>14, <1>15, <1>16, <1>17, <1>18 DEF Next, Worker, Delivery, Environment

\* The initial states satisfy BackedInv.
LEMMA BackedInit == Init => BackedInv
<1> SUFFICES ASSUME Init PROVE BackedInv
  OBVIOUS
<1>1. PICK v \in Versions : hist = <<NewCP(1, v)>>
  BY DEF Init
<1>2. Len(hist) = 1 /\ hist[1] = NewCP(1, v) /\ Api = NewCP(1, v)
  BY <1>1 DEF Api
<1>3. \A u, x : /\ NewCP(u, x).init = FALSE /\ NewCP(u, x).ep = None
                /\ NewCP(u, x).conds.ready = "absent"
  BY DEF NewCP
<1>4. HistInv
  BY <1>2, <1>3, ConstantsAssumption DEF HistInv, Later, Backed
<1>5. NoLocal.cp.init = FALSE /\ NoLocal.cp.ep = None /\ NoLocal.st = NoStatus
      /\ NoLocal.cp.conds.ready = "absent"
  BY DEF NoLocal, NewCP
<1>6. w = NoLocal /\ pc = "idle" /\ inst.st = NoStatus /\ view.st = NoStatus
  BY DEF Init, NoInst
<1>7. QED BY <1>4, <1>5, <1>6, ConstantsAssumption, StatusesPossible DEF BackedInv, Later, Backed

\* For every set of versions, endpoints and statuses, every cache lag and any
\* number of failures and restarts: a published Ready=True comes with the
\* initialized latch and a valid endpoint, as long as the object is not deleted
\* and re-created under its name (with re-creation it can be violated: a patch
\* computed for the old object is applied to the new one).
THEOREM ReadyBacked ==
  ASSUME MaxUid = 1
  PROVE  Spec => []ReadyIsBacked
<1>1. TypeOK /\ BackedInv /\ [Next]_vars => BackedInv'
  BY BackedStep
<1>2. TypeOK /\ BackedInv => ReadyIsBacked
  <2> SUFFICES ASSUME TypeOK, BackedInv PROVE ReadyIsBacked
    OBVIOUS
  <2>1. Len(hist) \in 1..Len(hist)
    BY DEF TypeOK
  <2>2. QED BY <2>1 DEF BackedInv, HistInv, Api, Backed, ReadyIsBacked
<1>3. QED BY <1>1, <1>2, BackedInit, TypeCorrect, PTL DEF Spec

-----------------------------------------------------------------------------
(* The latch *)

Latch == (Api.init /\ Api.uid = Api'.uid) => Api'.init

\* A patch whose wanted object keeps the copy's init keeps the server's.
LEMMA PatchLatch ==
  ASSUME TypeOK, NEW a \in CP, SendPatch(a), w.cp.init => a.init
  PROVE  Latch
<1>1. w.cp \in CP /\ Api \in CP
  BY ApiType DEF TypeOK, HistOK, Local
<1>2. Patched(a).init = Merged(w.cp.init, a.init, Api.init) /\ Api' = Patched(a)
  BY <1>1, MergePatchFields, PatchedType DEF Patched
<1>3. a.init \in BOOLEAN /\ w.cp.init \in BOOLEAN /\ Api.init \in BOOLEAN
  BY <1>1 DEF CP
<1>4. QED BY <1>2, <1>3 DEF Merged, Latch

\* A write of a new object with the server's init keeps it.
LEMMA WriteLatch ==
  ASSUME TypeOK, NEW new \in CP, Write(new), new.init = Api.init
  PROVE  Latch
<1>1. Api' = new
  BY WriteType DEF TypeOK, HistOK
<1>2. QED BY <1>1 DEF Latch

\* The step: re-creation gives the object another uid, the locked whole-status
\* Update starts from the server's own object, patches add to a stale copy.
LEMMA LatchStep ==
  ASSUME TypeOK, [Next]_vars
  PROVE  Latch
<1>a. /\ HistOK /\ w.cp \in CP /\ w.st \in InstanceStatus /\ Api \in CP
  BY ApiType DEF TypeOK, HistOK, Local
<1>1. CASE UNCHANGED hist
  BY <1>1 DEF Latch, Api
<1>2. CASE ReportRGDFailure
  <2> DEFINE new == [w.cp EXCEPT !.conds.rgd = "False"]
  <2>1. new \in CP /\ new.init = w.cp.init
    BY <1>a DEF CP, Conds
  <2>2. (w.cp = Api /\ Write(new)) \/ UNCHANGED hist
    BY <1>2 DEF ReportRGDFailure, UpdateLocked
  <2> HIDE DEF new
  <2>3. QED BY <1>1, <2>1, <2>2, WriteLatch
<1>3. CASE ReportInvalid
  <2> DEFINE after == ConditionsAndFailure(w.cp, FALSE, TRUE)
  <2>1. after \in CP
    BY <1>a, ConditionsType
  <2>2. after.init = w.cp.init
    BY <1>a DEF ConditionsAndFailure, CP
  <2>3. SendPatch(after)
    BY <1>3 DEF ReportInvalid
  <2> HIDE DEF after
  <2>4. QED BY <2>1, <2>2, <2>3, PatchLatch
<1>4. CASE ReportKubeconfig
  <2> DEFINE k == IF pc = "kcTrue" THEN "True" ELSE "False"
             after == [w.cp EXCEPT !.conds.kc = k]
  <2>1. after \in CP /\ after.init = w.cp.init
    BY <1>a DEF CP, Conds
  <2>2. SendPatch(after)
    BY <1>4 DEF ReportKubeconfig
  <2> HIDE DEF after
  <2>3. QED BY <2>1, <2>2, PatchLatch
<1>5. CASE PatchEndpoint
  <2> DEFINE after == [w.cp EXCEPT !.ep = w.st.ep]
  <2>1. CASE w.st.ep \in Endpoints /\ w.cp.ep # w.st.ep
    <3>1. after \in CP /\ after.init = w.cp.init
      BY <1>a, <2>1 DEF CP
    <3>2. SendPatch(after)
      BY <1>5, <2>1 DEF PatchEndpoint
    <3> HIDE DEF after
    <3>3. QED BY <3>1, <3>2, PatchLatch
  <2>2. CASE ~(w.st.ep \in Endpoints /\ w.cp.ep # w.st.ep)
    BY <1>1, <1>5, <2>2 DEF PatchEndpoint
  <2>3. QED BY <2>1, <2>2
<1>6. CASE PatchInitialized
  <2> DEFINE after == [w.cp EXCEPT !.init = TRUE]
  <2>1. CASE BackendInitialized /\ ~w.cp.init
    <3>1. after \in CP /\ after.init = TRUE
      BY <1>a DEF CP
    <3>2. SendPatch(after)
      BY <1>6, <2>1 DEF PatchInitialized
    <3> HIDE DEF after
    <3>3. QED BY <3>1, <3>2, PatchLatch
  <2>2. CASE ~(BackendInitialized /\ ~w.cp.init)
    BY <1>1, <1>6, <2>2 DEF PatchInitialized
  <2>3. QED BY <2>1, <2>2
<1>7. CASE PatchConditions
  <2> DEFINE f == w.st.terminal \/ w.st.ep = "bad"
             after == ConditionsAndFailure(w.cp, OverallReady, f)
  <2>1. OverallReady \in BOOLEAN /\ f \in BOOLEAN
    BY <1>a DEF OverallReady, ControlPlaneReady, InstanceStatus
  <2>2. after \in CP
    BY <1>a, <2>1, ConditionsType
  <2>3. after.init = w.cp.init
    BY <1>a, <2>1 DEF ConditionsAndFailure, CP
  <2>4. SendPatch(after)
    BY <1>7 DEF PatchConditions
  <2> HIDE DEF after
  <2>5. QED BY <2>2, <2>3, <2>4, PatchLatch
<1>8. CASE CacheAdvance \/ Restart
  BY <1>8, <1>a, TailKeepsApi DEF Latch
<1>9. CASE EditSpec
  <2>1. ASSUME NEW v \in Versions
        PROVE  LET n == [Api EXCEPT !.version = v] IN n \in CP /\ n.init = Api.init
    BY <1>a DEF CP
  <2>2. ASSUME NEW c \in {"valid", "badSpec", "noBackend"}
        PROVE  LET n == [Api EXCEPT !.cfg = c] IN n \in CP /\ n.init = Api.init
    BY <1>a DEF CP
  <2>3. LET n == [Api EXCEPT !.owner = TRUE] IN n \in CP /\ n.init = Api.init
    BY <1>a DEF CP
  <2>4. \/ \E v \in Versions : Write([Api EXCEPT !.version = v])
        \/ \E c \in {"valid", "badSpec", "noBackend"} : Write([Api EXCEPT !.cfg = c])
        \/ Write([Api EXCEPT !.owner = TRUE])
    BY <1>9 DEF EditSpec
  <2>5. PICK new \in CP : Write(new) /\ new.init = Api.init
    BY <2>1, <2>2, <2>3, <2>4, Zenon
  <2>6. QED BY <2>5, WriteLatch
<1>10. CASE DeleteCP
  <2>1. [Api EXCEPT !.exists = FALSE] \in CP /\ [Api EXCEPT !.exists = FALSE].init = Api.init
    BY <1>a DEF CP
  <2>2. QED BY <1>10, <2>1, WriteLatch DEF DeleteCP
<1>11. CASE RecreateCP
  <2>1. Api.uid \in Nat /\ Api.uid < MaxUid /\ MaxUid \in Nat /\ Api.version \in Versions
    BY <1>11, <1>a, ConstantsAssumption DEF RecreateCP, CP
  <2>2. NewCP(Api.uid + 1, Api.version) \in CP
    BY <1>11, <1>a, <2>1, NewCPType DEF CP
  <2>3. Api' = NewCP(Api.uid + 1, Api.version)
    BY <1>11, <1>a, <2>2, WriteType DEF RecreateCP
  <2>4. Api'.uid = Api.uid + 1
    BY <2>3 DEF NewCP
  <2>5. QED BY <2>1, <2>4 DEF Latch
<1>12. CASE UNCHANGED vars
  BY <1>1, <1>12 DEF vars, serverVars
<1>13. CASE \/ StartReconcile \/ ResolveRGD \/ EnsureWatch \/ SyncBackend \/ CheckKubeconfig
           \/ WriteTarget \/ PatchNotFound \/ CallFails \/ DeliverEvent
           \/ TimerFires \/ CollectGarbage \/ BackendReports \/ UnwatchedChange
  BY <1>1, <1>13 DEF StartReconcile, ResolveRGD, EnsureWatch, SyncBackend, CheckKubeconfig,
     WriteTarget, PatchNotFound, CallFails, DeliverEvent, TimerFires,
     CollectGarbage, BackendReports, UnwatchedChange, serverVars
<1>14. QED
  BY <1>2, <1>3, <1>4, <1>5, <1>6, <1>7, <1>8, <1>9, <1>10, <1>11, <1>12, <1>13
     DEF Next, Worker, Delivery, Environment

\* For every number of incarnations, lags, failures and statuses: no stale patch,
\* whole-status Update, restart or re-creation takes the initialized latch back
\* from an object that has it.
THEOREM InitializedLatched == Spec => InitializedIsLatched
<1>1. TypeOK /\ [Next]_vars => [(Api.init /\ Api.uid = Api'.uid) => Api'.init]_vars
  BY LatchStep DEF Latch
<1>2. QED BY <1>1, TypeCorrect, PTL DEF Spec, InitializedIsLatched

-----------------------------------------------------------------------------
(* The facade implements ControlPlaneContract *)

\* What a step may do to the Ready condition alone.
LEMMA ReadyMoves ==
  ASSUME TypeOK, BackedInv, Api'.ep = Api.ep, Api'.init = Api.init,
         Api'.conds.ready = "True" => Api.init
  PROVE  [Published!Next]_(Published!vars)
<1>1. {Api.ep} \ {None} = {Api'.ep} \ {None}
  OBVIOUS
<1>2. CASE Api'.conds.ready = "True"
  <2>1. (Api.conds.ready = "True")' = TRUE
    BY <1>2
  <2>2. QED BY <1>1, <1>2, <2>1 DEF Published!Next, Published!BecomeReady
<1>3. CASE Api'.conds.ready # "True"
  <2>1. (Api.conds.ready = "True")' = FALSE
    BY <1>3
  <2>2. QED BY <1>1, <1>3, <2>1 DEF Published!Next, Published!BecomeUnready
<1>4. QED BY <1>2, <1>3

\* A step that leaves the server's object alone.
LEMMA ApiKept ==
  ASSUME TypeOK, BackedInv, Api' = Api
  PROVE  [Published!Next]_(Published!vars)
<1>1. Backed(Api)
  <2>1. Len(hist) \in 1..Len(hist)
    BY DEF TypeOK
  <2>2. QED BY <2>1 DEF BackedInv, HistInv, Api
<1>2. QED BY <1>1, ReadyMoves DEF Backed

\* A patch of conditions: the list of a stale copy replaces the server's, and
\* with it Ready, which the copy, and so the server's object, backs.
LEMMA ConditionsMove ==
  ASSUME TypeOK, BackedInv, NEW a \in CP, SendPatch(a),
         a.ep = w.cp.ep, a.init = w.cp.init, Backed(a)
  PROVE  [Published!Next]_(Published!vars)
<1>1. HistOK /\ w.cp \in CP /\ Api \in CP
  BY ApiType DEF TypeOK, HistOK, Local
<1>2. /\ Api'.init = Merged(w.cp.init, a.init, Api.init)
      /\ Api'.ep = Merged(w.cp.ep, a.ep, Api.ep)
      /\ Api'.conds = Merged(w.cp.conds, a.conds, Api.conds)
  BY <1>1, MergePatchFields, PatchedType DEF Patched
<1>3. Api'.init = Api.init /\ Api'.ep = Api.ep
  BY <1>2 DEF Merged
<1>4. Backed(Api)
  <2>1. Len(hist) \in 1..Len(hist)
    BY <1>1 DEF HistOK
  <2>2. QED BY <2>1 DEF BackedInv, HistInv, Api
<1>5. a.init => Api.init
  BY DEF BackedInv, Later
<1>6. Api'.conds.ready = "True" => Api.init
  BY <1>2, <1>4, <1>5 DEF Merged, Backed
<1>7. QED BY <1>3, <1>6, ReadyMoves

\* The initialized latch is set from a copy whose endpoint the server still has.
LEMMA InitializedMoves ==
  ASSUME TypeOK, BackedInv, PatchInitialized
  PROVE  [Published!Next]_(Published!vars)
<1>1. HistOK /\ w.cp \in CP /\ Api \in CP /\ pc = "initialized"
  BY ApiType DEF TypeOK, HistOK, Local, PatchInitialized
<1> DEFINE after == [w.cp EXCEPT !.init = TRUE]
<1>2. CASE BackendInitialized /\ ~w.cp.init
  <2>1. after \in CP /\ after.init = TRUE /\ after.ep = w.cp.ep /\ after.conds = w.cp.conds
    BY <1>1 DEF CP
  <2>2. SendPatch(after)
    BY <1>2 DEF PatchInitialized
  <2> HIDE DEF after
  <2>3. /\ Api'.init = Merged(w.cp.init, after.init, Api.init)
        /\ Api'.ep = Merged(w.cp.ep, after.ep, Api.ep)
        /\ Api'.conds = Merged(w.cp.conds, after.conds, Api.conds)
    BY <1>1, <2>1, <2>2, MergePatchFields, PatchedType DEF Patched
  <2>4. Api'.init = TRUE /\ Api'.ep = Api.ep /\ Api'.conds = Api.conds
    BY <1>2, <2>1, <2>3 DEF Merged
  <2>5. w.st.ep \in Endpoints
    <3>1. CASE Backend = "kubeadm"
      BY <1>2, <3>1 DEF BackendInitialized, BackedInv, Possible
    <3>2. CASE Backend # "kubeadm"
      BY <1>2, <3>2 DEF BackendInitialized
    <3>3. QED BY <3>1, <3>2
  <2>6. Api.ep \in Endpoints
    BY <1>1, <2>5 DEF BackedInv, Later
  <2>7. {Api.ep} \ {None} # {}
    BY <2>6, ConstantsAssumption
  <2>8. QED BY <2>4, <2>7 DEF Published!Next, Published!Initialize
<1>3. CASE ~(BackendInitialized /\ ~w.cp.init)
  BY <1>3, ApiKept DEF PatchInitialized, Api
<1>4. QED BY <1>2, <1>3

\* The endpoint goes out alone, and is one.
LEMMA EndpointMoves ==
  ASSUME TypeOK, BackedInv, PatchEndpoint
  PROVE  [Published!Next]_(Published!vars)
<1>1. HistOK /\ w.cp \in CP /\ Api \in CP
  BY ApiType DEF TypeOK, HistOK, Local
<1> DEFINE after == [w.cp EXCEPT !.ep = w.st.ep]
<1>2. CASE w.st.ep \in Endpoints /\ w.cp.ep # w.st.ep
  <2>1. /\ after \in CP /\ after.init = w.cp.init /\ after.ep = w.st.ep
        /\ after.conds = w.cp.conds
    BY <1>1, <1>2 DEF CP
  <2>2. SendPatch(after)
    BY <1>2 DEF PatchEndpoint
  <2> HIDE DEF after
  <2>3. /\ Api'.init = Merged(w.cp.init, after.init, Api.init)
        /\ Api'.ep = Merged(w.cp.ep, after.ep, Api.ep)
        /\ Api'.conds = Merged(w.cp.conds, after.conds, Api.conds)
    BY <1>1, <2>1, <2>2, MergePatchFields, PatchedType DEF Patched
  <2>4. Api'.init = Api.init /\ Api'.ep = w.st.ep /\ Api'.conds = Api.conds
    BY <1>2, <2>1, <2>3 DEF Merged
  <2>5. ({Api.ep} \ {None})' = {w.st.ep}
    BY <1>2, <2>4, ConstantsAssumption
  <2>6. Published!Publish(w.st.ep)
    BY <2>4, <2>5 DEF Published!Publish
  <2>7. QED BY <1>2, <2>6 DEF Published!Next
<1>3. CASE ~(w.st.ep \in Endpoints /\ w.cp.ep # w.st.ep)
  BY <1>3, ApiKept DEF PatchEndpoint, Api
<1>4. QED BY <1>2, <1>3

\* A version somebody else writes leaves the contract's fields alone.
LEMMA EditMoves ==
  ASSUME TypeOK, BackedInv, EditSpec
  PROVE  [Published!Next]_(Published!vars)
<1>1. HistOK /\ Api \in CP
  BY ApiType DEF TypeOK, HistOK
<1>2. ASSUME NEW v \in Versions
      PROVE  LET n == [Api EXCEPT !.version = v] IN
             n \in CP /\ n.init = Api.init /\ n.ep = Api.ep /\ n.conds = Api.conds
  BY <1>1 DEF CP
<1>3. ASSUME NEW c \in {"valid", "badSpec", "noBackend"}
      PROVE  LET n == [Api EXCEPT !.cfg = c] IN
             n \in CP /\ n.init = Api.init /\ n.ep = Api.ep /\ n.conds = Api.conds
  BY <1>1 DEF CP
<1>4. LET n == [Api EXCEPT !.owner = TRUE] IN
      n \in CP /\ n.init = Api.init /\ n.ep = Api.ep /\ n.conds = Api.conds
  BY <1>1 DEF CP
<1>5. \/ \E v \in Versions : Write([Api EXCEPT !.version = v])
      \/ \E c \in {"valid", "badSpec", "noBackend"} : Write([Api EXCEPT !.cfg = c])
      \/ Write([Api EXCEPT !.owner = TRUE])
  BY DEF EditSpec
<1>6. PICK new \in CP : Write(new) /\ new.init = Api.init /\ new.ep = Api.ep
                         /\ new.conds = Api.conds
  BY <1>2, <1>3, <1>4, <1>5, Zenon
<1>7. Api' = new
  BY <1>1, <1>6, WriteType
<1>8. Backed(Api)
  <2>1. Len(hist) \in 1..Len(hist)
    BY <1>1 DEF HistOK
  <2>2. QED BY <2>1 DEF BackedInv, HistInv, Api
<1>9. QED BY <1>6, <1>7, <1>8, ReadyMoves DEF Backed

\* Every step is a step of the contract, or none of its business.
LEMMA ContractStep ==
  ASSUME MaxUid = 1, TypeOK, BackedInv, [Next]_vars
  PROVE  [Published!Next]_(Published!vars)
<1>a. /\ HistOK /\ w.cp \in CP /\ w.st \in InstanceStatus /\ Api \in CP /\ Api.uid = 1
  BY ApiType DEF TypeOK, HistOK, Local, CP
<1>1. CASE UNCHANGED hist
  BY <1>1, ApiKept DEF Api
<1>2. CASE ReportRGDFailure
  <2> DEFINE new == [w.cp EXCEPT !.conds.rgd = "False"]
  <2>1. /\ new \in CP /\ new.init = w.cp.init /\ new.ep = w.cp.ep
        /\ new.conds.ready = w.cp.conds.ready
    BY <1>a DEF CP, Conds
  <2>2. (w.cp = Api /\ Write(new)) \/ UNCHANGED hist
    BY <1>2 DEF ReportRGDFailure, UpdateLocked
  <2> HIDE DEF new
  <2>3. w.cp = Api /\ Write(new) => Api' = new
    BY <2>1, <1>a, WriteType
  <2>4. QED BY <1>1, <2>1, <2>2, <2>3, ReadyMoves DEF BackedInv, Backed
<1>3. CASE ReportInvalid
  <2> DEFINE after == ConditionsAndFailure(w.cp, FALSE, TRUE)
  <2>1. after \in CP
    BY <1>a, ConditionsType
  <2>2. after.init = w.cp.init /\ after.ep = w.cp.ep /\ after.conds.ready = "False"
    BY <1>a DEF ConditionsAndFailure, CP, Conds
  <2>3. SendPatch(after)
    BY <1>3 DEF ReportInvalid
  <2> HIDE DEF after
  <2>4. QED BY <2>1, <2>2, <2>3, ConditionsMove DEF Backed
<1>4. CASE ReportKubeconfig
  <2> DEFINE k == IF pc = "kcTrue" THEN "True" ELSE "False"
             after == [w.cp EXCEPT !.conds.kc = k]
  <2>1. /\ after \in CP /\ after.init = w.cp.init /\ after.ep = w.cp.ep
        /\ after.conds.ready = w.cp.conds.ready
    BY <1>a DEF CP, Conds
  <2>2. SendPatch(after)
    BY <1>4 DEF ReportKubeconfig
  <2> HIDE DEF after
  <2>3. QED BY <2>1, <2>2, ConditionsMove DEF Backed, BackedInv
<1>5. CASE PatchConditions
  <2> DEFINE f == w.st.terminal \/ w.st.ep = "bad"
             after == ConditionsAndFailure(w.cp, OverallReady, f)
  <2>1. OverallReady \in BOOLEAN /\ f \in BOOLEAN
    BY <1>a DEF OverallReady, ControlPlaneReady, InstanceStatus
  <2>2. after \in CP
    BY <1>a, <2>1, ConditionsType
  <2>3. /\ after.init = w.cp.init /\ after.ep = w.cp.ep
        /\ after.conds.ready = "True" => OverallReady
    BY <1>a, <2>1 DEF ConditionsAndFailure, CP, Conds
  <2>4. SendPatch(after) /\ pc = "conditions"
    BY <1>5 DEF PatchConditions
  <2> HIDE DEF after, f
  <2>5. OverallReady => w.cp.init /\ w.cp.ep \in Endpoints
    BY <2>4, ReadyIsHad
  <2>6. QED BY <2>2, <2>3, <2>4, <2>5, ConditionsMove DEF Backed
<1>6. CASE CacheAdvance \/ Restart
  BY <1>6, <1>a, TailKeepsApi, ApiKept
<1>7. CASE DeleteCP \/ RecreateCP
  BY <1>7, <1>a DEF DeleteCP, RecreateCP
<1>8. CASE UNCHANGED vars
  BY <1>1, <1>8 DEF vars, serverVars
<1>9. CASE \/ StartReconcile \/ ResolveRGD \/ EnsureWatch \/ SyncBackend \/ CheckKubeconfig
           \/ WriteTarget \/ PatchNotFound \/ CallFails \/ DeliverEvent
           \/ TimerFires \/ CollectGarbage \/ BackendReports \/ UnwatchedChange
  BY <1>1, <1>9 DEF StartReconcile, ResolveRGD, EnsureWatch, SyncBackend, CheckKubeconfig,
     WriteTarget, PatchNotFound, CallFails, DeliverEvent, TimerFires,
     CollectGarbage, BackendReports, UnwatchedChange, serverVars
<1>10. QED
  BY <1>2, <1>3, <1>4, <1>5, <1>6, <1>7, <1>8, <1>9, InitializedMoves, EndpointMoves,
     EditMoves DEF Next, Worker, Delivery, Environment

\* The contract's beginning: nothing is published.
LEMMA ContractInit ==
  ASSUME Init PROVE Published!Init
<1>1. PICK v \in Versions : hist = <<NewCP(1, v)>>
  BY DEF Init
<1>2. Api = NewCP(1, v)
  BY <1>1 DEF Api
<1>3. Api.ep = None /\ Api.init = FALSE /\ Api.conds.ready = "absent"
  BY <1>2 DEF NewCP
<1>4. QED BY <1>3 DEF Published!Init

\* For every kind of backend that keeps it, every staleness and any number of
\* failures and restarts: the facade keeps the contract of a control plane, as
\* long as the object is not made anew under its name.
THEOREM ContractKept ==
  ASSUME MaxUid = 1
  PROVE  Spec => KeepsContract
<1>1. Init => Published!Init
  BY ContractInit
<1>2. TypeOK /\ BackedInv /\ [Next]_vars => [Published!Next]_(Published!vars)
  BY ContractStep
<1>3. TypeOK /\ BackedInv /\ [Next]_vars => BackedInv'
  BY BackedStep
<1>4. QED
  BY <1>1, <1>2, <1>3, BackedInit, TypeCorrect, PTL DEF Spec, KeepsContract, Published!Spec
-----------------------------------------------------------------------------
(***************************************************************************)
(* Rest.  What the worker has read and written so far is still so as long  *)
(* as nothing is on its way that would make it run again: a change of the  *)
(* object is a version in the cache's way or the request in the queue, one *)
(* of the backend an event, if the backend is watched, and a worker that   *)
(* could not watch it asks for another run.                                *)
(***************************************************************************)

\* Nothing but the worker's own timer is left to make it run again.
Calm == ~queued /\ ~instEvent /\ Len(hist) = 1

\* The worker's copy is the server's object, up to its own last patch.
Current == Calm /\ pc # "idle" => w.cp = Api /\ Api.exists

Watched == {"sync", "kubeconfig", "target", "kcTrue", "kcFalse", "endpoint",
            "initialized", "conditions"}
Synced == Watched \ {"sync"}
KubeconfigDone == {"endpoint", "initialized", "conditions"}

CopiedTarget == tgt = [kind |-> "copied", owner |-> Api.uid]

\* How far the run has come with the object it read.
PathTaken ==
  /\ pc \in {"resolve", "rgdFailed", "watch"} => Api.cfg # "noBackend"
  /\ pc = "invalid" => Api.cfg # "valid"
  /\ pc \in Watched => Api.cfg = "valid" /\ (watch \/ w.watchErr)

\* The backend is as the worker made it and read it.
BackendRead ==
  pc \in Synced /\ watch =>
    inst.exists /\ inst.owner = Api.uid /\ inst.ver = Api.version /\ inst.st = w.st

KubeconfigWritten ==
  /\ pc \notin KubeconfigDone \cup {"idle"} => w.kc = "off"
  /\ pc = "kcTrue" => CopiedTarget
  /\ pc \in KubeconfigDone =>
       /\ w.st.ref # None => w.kc # "off"
       /\ w.kc = "ok" => Api.conds.kc = "True" /\ CopiedTarget

ContractWritten ==
  /\ pc \in {"initialized", "conditions"} /\ w.st.ep \in Endpoints => Api.ep = w.st.ep
  /\ pc = "conditions" /\ w.st.ep \in Endpoints => Api.init

Progress == Calm => PathTaken /\ BackendRead /\ KubeconfigWritten /\ ContractWritten

\* What a worker that asks for no other run leaves behind.
Outcome ==
  IF Api.cfg = "badSpec" THEN Api.conds.ready = "False" /\ Api.failed
  ELSE watch /\ Projected

Final == Calm /\ pc = "idle" /\ ~timer /\ Api.exists => Outcome

RestInv == Current /\ Progress /\ Final

\* Whatever will make the worker run again excuses everything.
LEMMA RestStirred ==
  ASSUME ~Calm' PROVE RestInv'
BY DEF RestInv, Current, Progress, Final

\* A step that leaves the object one version long has left it alone.
LEMMA CalmWrite ==
  ASSUME HistOK, NEW new \in CP, Write(new), Len(hist') = 1
  PROVE  hist' = hist /\ Api = new /\ Api' = Api
<1>1. CASE new # Api
  <2>1. hist' = Append(hist, new)
    BY <1>1 DEF Write
  <2>2. Len(hist') = Len(hist) + 1 /\ Len(hist) \in Nat /\ Len(hist) > 0
    BY <2>1 DEF HistOK
  <2>3. QED BY <2>2
<1>2. CASE new = Api
  BY <1>2 DEF Write, Api
<1>3. QED BY <1>1, <1>2

\* A patch of a current copy that makes no new version changed nothing: the
\* object was as wanted.
LEMMA CalmPatch ==
  ASSUME TypeOK, NEW a \in CP, SendPatch(a), Len(hist') = 1, w.cp = Api
  PROVE  /\ hist' = hist /\ Api' = Api /\ Patched(a) = Api
         /\ Api.ep = a.ep /\ Api.init = a.init /\ Api.sver = a.sver
         /\ Api.failed = a.failed /\ Api.conds = a.conds
<1>1. Patched(a) \in CP /\ HistOK /\ Api \in CP
  BY PatchedType, ApiType DEF TypeOK, HistOK
<1>2. hist' = hist /\ Api = Patched(a) /\ Api' = Api
  BY <1>1, CalmWrite DEF SendPatch
<1>3. MergePatch(Api, a, Api) = Api
  BY <1>2 DEF Patched
<1>4. /\ MergePatch(Api, a, Api).ep = Merged(Api.ep, a.ep, Api.ep)
      /\ MergePatch(Api, a, Api).init = Merged(Api.init, a.init, Api.init)
      /\ MergePatch(Api, a, Api).sver = Merged(Api.sver, a.sver, Api.sver)
      /\ MergePatch(Api, a, Api).failed = Merged(Api.failed, a.failed, Api.failed)
      /\ MergePatch(Api, a, Api).conds = Merged(Api.conds, a.conds, Api.conds)
  BY <1>1 DEF MergePatch, CP
<1>5. QED BY <1>2, <1>3, <1>4 DEF Merged

\* The run starts from the cached object.
LEMMA RestStart ==
  ASSUME TypeOK, RestInv, StartReconcile PROVE RestInv'
<1> SUFFICES ASSUME Calm' PROVE RestInv'
  BY RestStirred
<1>1. hist' = hist /\ Api' = Api /\ Len(hist) = 1 /\ Cached = Api /\ pc = "idle"
  BY DEF Calm, StartReconcile, serverVars, Api, Cached
<1>2. CASE ~Cached.exists
  <2>1. pc' = "idle" /\ ~Api'.exists
    BY <1>1, <1>2 DEF StartReconcile
  <2>2. QED BY <2>1 DEF RestInv, Current, Progress, Final, PathTaken, BackendRead,
                        KubeconfigWritten, ContractWritten, Watched, Synced, KubeconfigDone
<1>3. CASE Cached.exists
  <2>1. /\ w'.cp = Cached /\ w'.kc = "off"
        /\ pc' = IF Cached.cfg = "noBackend" THEN "invalid"
                 ELSE IF Backend = "kro" THEN "resolve" ELSE "watch"
    BY <1>3 DEF StartReconcile
  <2>2. QED BY <1>1, <1>3, <2>1 DEF RestInv, Current, Progress, Final, PathTaken,
               BackendRead, KubeconfigWritten, ContractWritten, Watched, Synced, KubeconfigDone
<1>4. QED BY <1>2, <1>3

\* A run that ends with a retry, whatever became of it.
LEMMA RestRetried ==
  ASSUME pc' = "idle", timer' PROVE RestInv'
BY DEF RestInv, Current, Progress, Final, PathTaken, BackendRead, KubeconfigWritten,
       ContractWritten, Watched, Synced, KubeconfigDone

\* The other calls before the backend's spec is written.
LEMMA RestBefore ==
  ASSUME TypeOK, RestInv, Backend # "kubeadm",
         ResolveRGD \/ ReportRGDFailure \/ EnsureWatch \/ ReportInvalid
  PROVE  RestInv'
<1> SUFFICES ASSUME Calm' PROVE RestInv'
  BY RestStirred
<1>1. CASE ResolveRGD
  <2>1. UNCHANGED <<hist, inst, tgt, watch, instEvent, queued, timer, w>>
        /\ pc = "resolve" /\ pc' \in {"watch", "rgdFailed"}
    BY <1>1 DEF ResolveRGD, serverVars, queueVars
  <2>2. Calm /\ Api' = Api
    BY <2>1 DEF Calm, Api
  <2>3. QED BY <2>1, <2>2 DEF RestInv, Current, Progress, Final, PathTaken, BackendRead,
               KubeconfigWritten, ContractWritten, Watched, Synced, KubeconfigDone
<1>2. CASE ReportRGDFailure
  BY <1>2, RestRetried DEF ReportRGDFailure, Finish
<1>3. CASE EnsureWatch
  <2>1. /\ UNCHANGED <<hist, inst, tgt, queued, timer>> /\ w'.cp = w.cp
        /\ pc = "watch"
        /\ pc' = IF w.cp.cfg = "badSpec" THEN "invalid" ELSE "sync"
    BY <1>3 DEF EnsureWatch, serverVars, TypeOK, Local
  <2>1a. w'.kc = w.kc
    BY <1>3 DEF EnsureWatch, TypeOK, Local
  <2>2. watch' \/ w'.watchErr
    BY <1>3 DEF EnsureWatch, Registered, TypeOK, Local
  <2>3. instEvent => instEvent'
    BY <1>3 DEF EnsureWatch, Registered
  <2>4. Calm /\ Api' = Api
    BY <2>1, <2>3 DEF Calm, Api
  <2>5. Api.cfg \in {"valid", "badSpec", "noBackend"} /\ w.cp = Api /\ Api.exists
        /\ Api.cfg # "noBackend"
    BY <2>1, <2>4, ApiType DEF RestInv, Current, Progress, PathTaken, TypeOK, HistOK, CP
  <2>6. QED BY <2>1, <2>1a, <2>2, <2>4, <2>5 DEF RestInv, Current, Progress, Final, PathTaken,
               BackendRead, KubeconfigWritten, ContractWritten, Watched, Synced, KubeconfigDone
<1>4. CASE ReportInvalid
  <2> DEFINE a == ConditionsAndFailure(w.cp, FALSE, TRUE)
  <2>1. SendPatch(a) /\ pc = "invalid" /\ Finish(w.cp.cfg = "noBackend")
        /\ UNCHANGED <<instEvent, queued>>
    BY <1>4 DEF ReportInvalid
  <2>2. w.cp \in CP
    BY DEF TypeOK, Local
  <2>3. a \in CP /\ a.conds.ready = "False" /\ a.failed
    BY <2>2 DEF ConditionsAndFailure, CP, Conds
  <2>4. CASE timer'
    BY <2>1, <2>4, RestRetried DEF Finish
  <2>5. CASE ~timer'
    <3>1. Len(hist') = 1 /\ Len(hist) \in 1..MaxLag /\ pc # "idle" /\ HistOK
      BY <2>1 DEF Calm, TypeOK, HistOK
    <3>2. Patched(a) \in CP
      BY <2>1, <2>3, PatchedType
    <3>3. hist' = hist
      BY <2>1, <3>1, <3>2, CalmWrite DEF SendPatch
    <3>4. Calm
      BY <2>1, <3>3 DEF Calm
    <3>5. w.cp = Api /\ Api.exists /\ Api.cfg # "valid"
      BY <2>1, <3>1, <3>4 DEF RestInv, Current, Progress, PathTaken
    <3>6. Api' = Api /\ Api.failed = a.failed /\ Api.conds = a.conds
      BY <2>1, <2>3, <3>1, <3>5, CalmPatch
    <3>7. Api.cfg = "badSpec"
      BY <2>1, <2>2, <2>5, <3>5 DEF Finish, CP
    <3>8. pc' = "idle"
      BY <2>1 DEF Finish
    <3>9. Outcome'
      BY <2>3, <3>6, <3>7 DEF Outcome
    <3>10. QED BY <3>8, <3>9 DEF RestInv, Current, Progress, Final, PathTaken,
                  BackendRead, KubeconfigWritten, ContractWritten, Watched, Synced,
                  KubeconfigDone
  <2>6. QED BY <2>4, <2>5
<1>5. QED BY <1>1, <1>2, <1>3, <1>4

\* The backend object is as wanted, or a watched change of it will be heard of.
LEMMA RestSync ==
  ASSUME TypeOK, RestInv, Backend # "kubeadm", SyncBackend PROVE RestInv'
<1> SUFFICES ASSUME Calm' PROVE RestInv'
  BY RestStirred
<1>1. /\ UNCHANGED <<hist, tgt, watch, queued>> /\ pc = "sync" /\ Api' = Api
      /\ instEvent => instEvent'
  BY DEF SyncBackend, Api
<1>2. Calm
  BY <1>1 DEF Calm
<1>3. CASE Finish(TRUE)
  BY <1>3, RestRetried DEF Finish
<1>4. CASE ~Finish(TRUE)
  <2>1. Seen = inst
    BY DEF Seen
  <2> DEFINE o == Mutated(inst)
  <2>2. /\ ~SyncRefused /\ inst' = o /\ w' = [w EXCEPT !.st = o.st]
        /\ pc' = "kubeconfig"
    BY <1>4, <2>1 DEF SyncBackend
  <2>3. o.exists /\ o.owner = w.cp.uid /\ o.ver = w.cp.version
    BY DEF Mutated, TypeOK, Inst
  <2>4. w.cp = Api /\ Api.exists
    BY <1>1, <1>2 DEF RestInv, Current
  <2>5. w'.cp = w.cp /\ w'.st = o.st /\ w'.watchErr = w.watchErr /\ w'.kc = w.kc
    BY <2>2 DEF TypeOK, Local
  <2> HIDE DEF o
  <2>6. QED BY <1>1, <1>2, <2>2, <2>3, <2>4, <2>5 DEF RestInv, Current, Progress, Final,
               PathTaken, BackendRead, KubeconfigWritten, ContractWritten, Watched, Synced,
               KubeconfigDone
<1>5. QED BY <1>3, <1>4

\* The kubeconfig Secret.
LEMMA RestKubeconfig ==
  ASSUME TypeOK, RestInv, Backend # "kubeadm",
         CheckKubeconfig \/ WriteTarget \/ ReportKubeconfig
  PROVE  RestInv'
<1> SUFFICES ASSUME Calm' PROVE RestInv'
  BY RestStirred
<1>1. CASE CheckKubeconfig
  <2>1. /\ UNCHANGED <<hist, inst, tgt, watch, instEvent, queued, timer, w>>
        /\ pc = "kubeconfig" /\ pc' \in {"endpoint", "target", "kcFalse"}
        /\ pc' = "endpoint" => w.st.ref = None
    BY <1>1 DEF CheckKubeconfig, serverVars, queueVars
  <2>2. Calm /\ Api' = Api
    BY <2>1 DEF Calm, Api
  <2>3. w.kc \in {"off", "ok", "requeue"}
    BY DEF TypeOK, Local
  <2>4. QED BY <2>1, <2>2, <2>3 DEF RestInv, Current, Progress, Final, PathTaken,
               BackendRead, KubeconfigWritten, ContractWritten, Watched, Synced, KubeconfigDone
<1>2. CASE WriteTarget
  <2>1. /\ UNCHANGED <<hist, inst, watch, instEvent, queued>> /\ pc = "target"
    BY <1>2 DEF WriteTarget
  <2>2. Calm /\ Api' = Api
    BY <2>1 DEF Calm, Api
  <2>3. CASE Finish(TRUE)
    BY <2>3, RestRetried DEF Finish
  <2>4. CASE ~Finish(TRUE)
    <3>1. /\ tgt' = [kind |-> "copied", owner |-> w.cp.uid]
          /\ pc' = "kcTrue" /\ UNCHANGED <<timer, w>>
      BY <1>2, <2>4 DEF WriteTarget
    <3>2. w.cp = Api /\ Api.exists
      BY <2>1, <2>2 DEF RestInv, Current
    <3>3. QED BY <2>1, <2>2, <3>1, <3>2 DEF RestInv, Current, Progress, Final, PathTaken,
                 BackendRead, KubeconfigWritten, ContractWritten, Watched, Synced,
                 KubeconfigDone, CopiedTarget
  <2>5. QED BY <2>3, <2>4
<1>3. CASE ReportKubeconfig
  <2> DEFINE a == [w.cp EXCEPT !.conds.kc = IF pc = "kcTrue" THEN "True" ELSE "False"]
  <2>1. /\ SendPatch(a) /\ pc \in {"kcTrue", "kcFalse"} /\ pc' = "endpoint"
        /\ w' = [w EXCEPT !.cp = Patched(a), !.kc = IF pc = "kcTrue" THEN "ok" ELSE "requeue"]
        /\ UNCHANGED <<inst, tgt, watch, instEvent, queued, timer>>
    BY <1>3 DEF ReportKubeconfig, queueVars
  <2>2. w.cp \in CP
    BY DEF TypeOK, Local
  <2>3. a \in CP /\ a.conds.kc = IF pc = "kcTrue" THEN "True" ELSE "False"
    BY <2>2 DEF CP, Conds
  <2> HIDE DEF a
  <2>4. Patched(a) \in CP /\ HistOK
    BY <2>1, <2>3, PatchedType DEF TypeOK, HistOK
  <2>5. hist' = hist
    BY <2>1, <2>4, CalmWrite DEF SendPatch, Calm
  <2>6. Calm
    BY <2>1, <2>5 DEF Calm
  <2>7. w.cp = Api /\ Api.exists
    BY <2>1, <2>6 DEF RestInv, Current
  <2>8. Api' = Api /\ Patched(a) = Api /\ Api.conds.kc = a.conds.kc
    BY <2>1, <2>3, <2>7, CalmPatch DEF Calm
  <2>9. /\ w'.cp = Api /\ w'.st = w.st /\ w'.watchErr = w.watchErr
        /\ w'.kc = IF pc = "kcTrue" THEN "ok" ELSE "requeue"
    BY <2>1, <2>8 DEF TypeOK, Local
  <2>10. QED BY <2>1, <2>3, <2>6, <2>7, <2>8, <2>9 DEF RestInv, Current, Progress, Final,
                PathTaken, BackendRead, KubeconfigWritten, ContractWritten, Watched, Synced,
                KubeconfigDone, CopiedTarget
<1>4. QED BY <1>1, <1>2, <1>3

\* A patch of one field of the CAPI contract.
LEMMA RestContract ==
  ASSUME TypeOK, RestInv, Backend # "kubeadm", PatchEndpoint \/ PatchInitialized
  PROVE  RestInv'
<1> SUFFICES ASSUME Calm' PROVE RestInv'
  BY RestStirred
<1>1. /\ UNCHANGED <<inst, tgt, watch, instEvent, queued, timer>>
      /\ pc \in {"endpoint", "initialized"}
      /\ pc' = IF pc = "endpoint" THEN "initialized" ELSE "conditions"
  BY DEF PatchEndpoint, PatchInitialized, queueVars
<1>2. w.cp \in CP /\ w.st.ep \in Endpoints \cup {None, "bad"}
  BY DEF TypeOK, Local, InstanceStatus
<1>3. ASSUME NEW a \in CP, SendPatch(a), w' = [w EXCEPT !.cp = Patched(a)],
             pc = "endpoint" /\ w.st.ep \in Endpoints => a.ep = w.st.ep,
             pc = "initialized" => a.init
      PROVE  RestInv'
  <2>1. Patched(a) \in CP /\ HistOK
    BY <1>3, PatchedType DEF TypeOK, HistOK
  <2>2. hist' = hist
    BY <1>3, <2>1, CalmWrite DEF SendPatch, Calm
  <2>3. Calm
    BY <1>1, <2>2 DEF Calm
  <2>4. w.cp = Api /\ Api.exists
    BY <1>1, <2>3 DEF RestInv, Current
  <2>5. Api' = Api /\ Patched(a) = Api /\ Api.ep = a.ep /\ Api.init = a.init
    BY <1>3, <2>4, CalmPatch DEF Calm
  <2>6. w'.cp = Api /\ w'.st = w.st /\ w'.watchErr = w.watchErr /\ w'.kc = w.kc
    BY <1>3, <2>5 DEF TypeOK, Local
  <2>7. QED BY <1>1, <1>3, <2>3, <2>4, <2>5, <2>6 DEF RestInv, Current, Progress, Final,
               PathTaken, BackendRead, KubeconfigWritten, ContractWritten, Watched, Synced,
               KubeconfigDone, CopiedTarget
<1>4. ASSUME UNCHANGED <<hist, w>>,
             pc = "endpoint" /\ w.st.ep \in Endpoints => w.cp.ep = w.st.ep,
             pc = "initialized" /\ w.st.ep \in Endpoints => w.cp.init
      PROVE  RestInv'
  <2>1. Calm /\ Api' = Api
    BY <1>1, <1>4 DEF Calm, Api
  <2>2. w.cp = Api /\ Api.exists
    BY <1>1, <2>1 DEF RestInv, Current
  <2>3. QED BY <1>1, <1>4, <2>1, <2>2 DEF RestInv, Current, Progress, Final,
               PathTaken, BackendRead, KubeconfigWritten, ContractWritten, Watched, Synced,
               KubeconfigDone, CopiedTarget
<1>5. CASE PatchEndpoint
  <2>1. pc = "endpoint"
    BY <1>5 DEF PatchEndpoint
  <2>2. CASE w.st.ep \in Endpoints /\ w.cp.ep # w.st.ep
    <3> DEFINE a == [w.cp EXCEPT !.ep = w.st.ep]
    <3>1. SendPatch(a) /\ w' = [w EXCEPT !.cp = Patched(a)]
      BY <1>5, <2>2 DEF PatchEndpoint
    <3>2. a \in CP /\ a.ep = w.st.ep
      BY <1>2, <2>2 DEF CP
    <3> HIDE DEF a
    <3>3. QED BY <1>3, <2>1, <3>1, <3>2
  <2>3. CASE ~(w.st.ep \in Endpoints /\ w.cp.ep # w.st.ep)
    <3>1. UNCHANGED <<hist, w>>
      BY <1>5, <2>3 DEF PatchEndpoint
    <3>2. QED BY <1>4, <2>1, <2>3, <3>1
  <2>4. QED BY <2>2, <2>3
<1>6. CASE PatchInitialized
  <2>1. pc = "initialized"
    BY <1>6 DEF PatchInitialized
  <2>2. CASE BackendInitialized /\ ~w.cp.init
    <3> DEFINE a == [w.cp EXCEPT !.init = TRUE]
    <3>1. SendPatch(a) /\ w' = [w EXCEPT !.cp = Patched(a)]
      BY <1>6, <2>2 DEF PatchInitialized
    <3>2. a \in CP /\ a.init
      BY <1>2 DEF CP
    <3> HIDE DEF a
    <3>3. QED BY <1>3, <2>1, <3>1, <3>2
  <2>3. CASE ~(BackendInitialized /\ ~w.cp.init)
    <3>1. UNCHANGED <<hist, w>>
      BY <1>6, <2>3 DEF PatchInitialized
    <3>2. QED BY <1>4, <2>1, <2>3, <3>1 DEF BackendInitialized
  <2>4. QED BY <2>2, <2>3
<1>7. QED BY <1>5, <1>6

\* The last patch: a run that asks for no other found the backend ready and
\* published it.
LEMMA RestConditions ==
  ASSUME TypeOK, RestInv, Backend # "kubeadm", PatchConditions PROVE RestInv'
<1> SUFFICES ASSUME Calm' PROVE RestInv'
  BY RestStirred
<1> DEFINE f == w.st.terminal \/ w.st.ep = "bad"
           a == ConditionsAndFailure(w.cp, OverallReady, f)
<1>1. /\ SendPatch(a) /\ Finish(Result) /\ pc = "conditions"
      /\ UNCHANGED <<inst, tgt, watch, instEvent, queued>>
  BY DEF PatchConditions
<1>2. w.cp \in CP /\ f \in BOOLEAN /\ OverallReady \in BOOLEAN
  BY DEF TypeOK, Local, InstanceStatus, OverallReady, ControlPlaneReady
<1>3. a \in CP
  BY <1>2, ConditionsType
<1>4. CASE timer'
  BY <1>1, <1>4, RestRetried DEF Finish
<1>5. CASE ~timer'
  <2>1. ControlPlaneReady(w.st) /\ w.kc # "requeue" /\ ~w.watchErr /\ pc' = "idle"
    BY <1>1, <1>5 DEF Finish, Result
  <2>2. a.conds.ready = "True" /\ a.failed = FALSE /\ a.sver = w.cp.version
    BY <1>2, <2>1 DEF ConditionsAndFailure, OverallReady, CP, Conds
  <2> HIDE DEF a
  <2>3. Patched(a) \in CP /\ HistOK
    BY <1>1, <1>3, PatchedType DEF TypeOK, HistOK
  <2>4. hist' = hist
    BY <1>1, <2>3, CalmWrite DEF SendPatch, Calm
  <2>5. Calm
    BY <1>1, <2>4 DEF Calm
  <2>6. w.cp = Api /\ Api.exists
    BY <1>1, <2>5 DEF RestInv, Current
  <2>7. Api' = Api /\ Api.conds = a.conds /\ Api.failed = a.failed /\ Api.sver = a.sver
    BY <1>1, <1>3, <2>6, CalmPatch DEF Calm
  <2>8. PathTaken /\ BackendRead /\ KubeconfigWritten /\ ContractWritten
    BY <2>5 DEF RestInv, Progress
  <2>9. w.st.ep \in Endpoints /\ w.kc \in {"off", "ok", "requeue"}
    BY <2>1 DEF ControlPlaneReady, TypeOK, Local
  <2>10. watch /\ Api.cfg = "valid"
    BY <1>1, <2>1, <2>8 DEF PathTaken, Watched
  <2>11. inst.exists /\ inst.owner = Api.uid /\ inst.ver = Api.version /\ inst.st = w.st
    BY <1>1, <2>8, <2>10 DEF BackendRead, Synced, Watched
  <2>12. Api.ep = inst.st.ep /\ Api.init
    BY <1>1, <2>8, <2>9, <2>11 DEF ContractWritten
  <2>13. inst.st.ref # None => Api.conds.kc = "True" /\ CopiedTarget
    BY <1>1, <2>1, <2>8, <2>9, <2>11 DEF KubeconfigWritten, KubeconfigDone
  <2>14. Projected
    BY <2>1, <2>2, <2>6, <2>7, <2>11, <2>12, <2>13 DEF Projected, CopiedTarget
  <2>15. (watch /\ Projected)'
    BY <1>1, <2>7, <2>10, <2>14 DEF Projected, ControlPlaneReady
  <2>16. QED BY <2>1, <2>7, <2>10, <2>15 DEF RestInv, Current, Progress, Final, Outcome,
                PathTaken, BackendRead, KubeconfigWritten, ContractWritten, Watched, Synced,
                KubeconfigDone
<1>6. QED BY <1>4, <1>5

\* Everything else either stirs the worker or changes nothing it relies on.
LEMMA RestOthers ==
  ASSUME TypeOK, RestInv, CallFails \/ PatchNotFound \/ Restart \/ Delivery \/ UNCHANGED vars
  PROVE  RestInv'
<1>1. CASE CallFails \/ PatchNotFound
  BY <1>1, RestRetried DEF CallFails, PatchNotFound, Finish
<1>2. CASE Restart
  BY <1>2, RestStirred DEF Restart, Calm
<1>3. CASE DeliverEvent \/ TimerFires
  BY <1>3, RestStirred DEF DeliverEvent, TimerFires, Calm
<1>4. CASE CacheAdvance
  <2> SUFFICES ASSUME Calm' PROVE RestInv'
    BY RestStirred
  <2>1. UNCHANGED <<hist, inst, tgt, watch, instEvent, timer, pc, w>> /\ ~queued
    BY <1>4 DEF CacheAdvance, Calm
  <2>2. Calm /\ Api' = Api
    BY <2>1 DEF Calm, Api
  <2>3. QED BY <2>1, <2>2 DEF RestInv, Current, Progress, Final, Outcome, PathTaken, BackendRead,
               KubeconfigWritten, ContractWritten, Calm, Api, Projected, CopiedTarget
<1>5. CASE UNCHANGED vars
  BY <1>5 DEF vars, serverVars, queueVars, RestInv, Current, Progress, Final, Outcome,
              PathTaken, BackendRead, KubeconfigWritten, ContractWritten, Calm, Api,
              Projected, CopiedTarget
<1>6. QED BY <1>1, <1>2, <1>3, <1>4, <1>5 DEF Delivery

\* So does the environment.  A write makes a version that the cache has yet to
\* deliver; the garbage collector takes nothing that has the object's uid.
LEMMA RestEnvironment ==
  ASSUME TypeOK, RestInv, Environment PROVE RestInv'
<1> SUFFICES ASSUME Calm' PROVE RestInv'
  BY RestStirred
<1>1. HistOK /\ Api \in CP
  BY ApiType DEF TypeOK, HistOK
<1>2. CASE EditSpec \/ DeleteCP \/ RecreateCP
  <2>1. PICK new : Write(new) /\ new # Api
    <3>1. CASE EditSpec
      BY <1>1, <3>1 DEF EditSpec, Write
    <3>2. CASE DeleteCP
      <4>1. [Api EXCEPT !.exists = FALSE] # Api
        BY <1>1, <3>2 DEF DeleteCP, CP
      <4>2. QED BY <3>2, <4>1 DEF DeleteCP
    <3>3. CASE RecreateCP
      <4>1. NewCP(Api.uid + 1, Api.version) # Api
        BY <1>1, <3>3 DEF RecreateCP, NewCP
      <4>2. QED BY <3>3, <4>1 DEF RecreateCP
    <3>4. QED BY <1>2, <3>1, <3>2, <3>3
  <2>2. hist' = Append(hist, new)
    BY <2>1 DEF Write
  <2>3. Len(hist') = Len(hist) + 1 /\ Len(hist) \in Nat /\ Len(hist) > 0
    BY <1>1, <2>2 DEF HistOK
  <2>4. QED BY <2>3 DEF Calm
<1>3. CASE CollectGarbage \/ BackendReports
  <2>1. UNCHANGED <<hist, watch, queued, timer, pc, w>> /\ Api' = Api
    BY <1>3 DEF CollectGarbage, BackendReports, Api
  <2>2. ~instEvent /\ (watch => inst' = inst)
    <3>1. CASE CollectGarbage
      BY <3>1 DEF CollectGarbage, Calm, TypeOK
    <3>2. CASE BackendReports
      BY <3>2 DEF BackendReports, Calm, TypeOK
    <3>3. QED BY <1>3, <3>1, <3>2
  <2>3. Calm
    BY <2>1, <2>2 DEF Calm
  <2>4. Api.exists /\ CopiedTarget => tgt' = tgt
    <3>1. CopiedTarget => tgt.kind = "copied" /\ tgt.owner = Api.uid
      BY DEF CopiedTarget
    <3>2. CASE CollectGarbage
      BY <3>1, <3>2 DEF CollectGarbage
    <3>3. CASE BackendReports
      BY <3>3 DEF BackendReports
    <3>4. QED BY <1>3, <3>2, <3>3
  <2>5. QED BY <2>1, <2>2, <2>3, <2>4 DEF RestInv, Current, Progress, Final, Outcome,
               PathTaken, BackendRead, KubeconfigWritten, ContractWritten, Projected,
               CopiedTarget, Watched, Synced, KubeconfigDone
<1>4. CASE UnwatchedChange
  <2>1. UNCHANGED <<hist, inst, watch, instEvent, queued, timer, pc, w>>
    BY <1>4 DEF UnwatchedChange, queueVars
  <2>2. Calm /\ Api' = Api
    BY <2>1 DEF Calm, Api
  <2>3. CopiedTarget => tgt' = tgt
    BY <1>4 DEF UnwatchedChange, CopiedTarget
  <2>4. QED BY <2>1, <2>2, <2>3 DEF RestInv, Current, Progress, Final, Outcome,
               PathTaken, BackendRead, KubeconfigWritten, ContractWritten, Projected,
               CopiedTarget, Watched, Synced, KubeconfigDone
<1>5. QED BY <1>2, <1>3, <1>4 DEF Environment

\* No lost wakeup (SettledIsProjected): with a kro or an external backend, when
\* nothing is queued, delayed or undelivered, the status the facade published is
\* the projection of what the backend object says now, or reports the invalid
\* spec, whatever changed, failed, restarted or was re-created before.
THEOREM SettledProjected ==
  ASSUME Backend # "kubeadm" PROVE Spec => []SettledIsProjected
<1>1. Init => RestInv
  BY DEF Init, RestInv, Current, Progress, Final, Calm
<1>2. TypeOK /\ RestInv /\ [Next]_vars => RestInv'
  <2> SUFFICES ASSUME TypeOK, RestInv, [Next]_vars PROVE RestInv'
    OBVIOUS
  <2>1. CASE StartReconcile
    BY <2>1, RestStart
  <2>2. CASE ResolveRGD \/ ReportRGDFailure \/ EnsureWatch \/ ReportInvalid
    BY <2>2, RestBefore
  <2>3. CASE SyncBackend
    BY <2>3, RestSync
  <2>4. CASE CheckKubeconfig \/ WriteTarget \/ ReportKubeconfig
    BY <2>4, RestKubeconfig
  <2>5. CASE PatchEndpoint \/ PatchInitialized
    BY <2>5, RestContract
  <2>6. CASE PatchConditions
    BY <2>6, RestConditions
  <2>7. CASE CallFails \/ PatchNotFound \/ Restart \/ Delivery \/ UNCHANGED vars
    BY <2>7, RestOthers
  <2>8. CASE Environment
    BY <2>8, RestEnvironment
  <2>9. QED BY <2>1, <2>2, <2>3, <2>4, <2>5, <2>6, <2>7, <2>8 DEF Next, Worker
<1>3. RestInv => SettledIsProjected
  BY DEF RestInv, Final, Calm, Outcome, Settled, SettledIsProjected
<1>4. QED BY <1>1, <1>2, <1>3, TypeCorrect, PTL DEF Spec
=============================================================================
