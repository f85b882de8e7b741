---------------------- MODULE KubeadmControlPlaneProofs ----------------------
(* Proofs about KubeadmControlPlane, for every value of its constants. *)
EXTENDS KubeadmControlPlane, TLAPS

\* What TypeOK says of the history.
HistOK == hist \in Seq(CP) /\ Len(hist) \in 1..MaxLag

\* The server's and the cached object are objects.
LEMMA ApiType ==
  ASSUME HistOK PROVE Api \in CP /\ hist[1] \in CP /\ Len(hist) \in 1..Len(hist)
BY ConstantsAssumption DEF HistOK, Api

\* Writing an object keeps the history a history and makes it the server's.
LEMMA WriteType ==
  ASSUME HistOK, NEW new \in CP, Write(new)
  PROVE  HistOK' /\ Api' = new
<1>1. CASE new = Api
  BY <1>1 DEF Write, HistOK, Api
<1>2. CASE new # Api
  <2>1. hist' = Append(hist, new) /\ Len(hist) < MaxLag
    BY <1>2 DEF Write
  <2>2. Len(hist') = Len(hist) + 1 /\ hist'[Len(hist) + 1] = new /\ hist' \in Seq(CP)
    BY <2>1 DEF HistOK
  <2>3. QED BY <2>1, <2>2, ConstantsAssumption DEF HistOK, Api
<1>3. QED BY <1>1, <1>2

\* The fields of the object that results from a patch.
LEMMA PatchedFields ==
  ASSUME TypeOK, NEW a \in CP
  PROVE  /\ Patched(a) \in CP
         /\ Patched(a).version = Api.version /\ Patched(a).linked = Api.linked
         /\ Patched(a).ep = Merged(w.cp.ep, a.ep, Api.ep)
         /\ Patched(a).init = Merged(w.cp.init, a.init, Api.init)
         /\ Patched(a).conds = Merged(w.cp.conds, a.conds, Api.conds)
<1>0. w.cp \in CP /\ Api \in CP
  BY ApiType DEF TypeOK, HistOK, Local
<1> DEFINE e == Merged(w.cp.ep, a.ep, Api.ep)
           i == Merged(w.cp.init, a.init, Api.init)
           v == Merged(w.cp.sver, a.sver, Api.sver)
           c == Merged(w.cp.conds, a.conds, Api.conds)
<1>1. /\ e \in Endpoints \cup {None} /\ i \in BOOLEAN /\ v \in Versions \cup {0}
      /\ c \in [ready: {"absent", "True", "False"}, owner: {"absent", "True", "False"}]
  BY <1>0 DEF Merged, CP
<1>2. Patched(a) = [Api EXCEPT !.ep = e, !.init = i, !.sver = v, !.conds = c]
  BY DEF Patched
<1> HIDE DEF e, i, v, c
<1>3. LET o == [Api EXCEPT !.ep = e, !.init = i, !.sver = v, !.conds = c] IN
      /\ o \in CP /\ o.version = Api.version /\ o.linked = Api.linked
      /\ o.ep = e /\ o.init = i /\ o.conds = c
  BY <1>0, <1>1 DEF CP
<1>4. QED BY <1>2, <1>3 DEF e, i, c

\* A new object is an object.
LEMMA NewCPType ==
  ASSUME NEW v \in Versions, NEW l \in BOOLEAN PROVE NewCP(v, l) \in CP
BY DEF NewCP, CP

\* So are the local variables between two runs.
LEMMA NoLocalType == NoLocal \in Local
<1>1. (CHOOSE v \in Versions : TRUE) \in Versions
  BY ConstantsAssumption
<1>2. NewCP(CHOOSE v \in Versions : TRUE, FALSE) \in CP
  BY <1>1, NewCPType
<1>3. QED BY <1>2 DEF NoLocal, Local

\* What sending a change does to the history and to the local copy.
LEMMA PatchType ==
  ASSUME TypeOK, NEW a \in CP, Patch(a)
  PROVE  HistOK' /\ Api' = Patched(a) /\ w' \in Local
         /\ w'.cp = Patched(a) /\ w'.ep = w.ep
<1>1. Patched(a) \in CP /\ HistOK /\ w \in Local
  BY PatchedFields DEF TypeOK, HistOK
<1>2. Write(Patched(a)) /\ w' = [w EXCEPT !.cp = Patched(a)]
  BY DEF Patch
<1>3. HistOK' /\ Api' = Patched(a)
  BY <1>1, <1>2, WriteType
<1>4. QED BY <1>1, <1>2, <1>3 DEF Local

\* What the steps that patch want is an object.
LEMMA WantedType ==
  ASSUME TypeOK
  PROVE  /\ \A s \in {"True", "False"} :
              /\ [w.cp EXCEPT !.conds.owner = s] \in CP
              /\ [w.cp EXCEPT !.conds.ready = s] \in CP
              /\ [w.cp EXCEPT !.conds.ready = s, !.sver = w.cp.version] \in CP
         /\ [w.cp EXCEPT !.ep = w.ep] \in CP
         /\ [w.cp EXCEPT !.init = TRUE] \in CP
<1>1. w.cp \in CP /\ w.ep \in Endpoints \cup {None} /\ w.cp.version \in Versions \cup {0}
  BY DEF TypeOK, Local, CP
<1>2. ASSUME NEW s \in {"True", "False"}
      PROVE  /\ [w.cp EXCEPT !.conds.owner = s] \in CP
             /\ [w.cp EXCEPT !.conds.ready = s] \in CP
             /\ [w.cp EXCEPT !.conds.ready = s, !.sver = w.cp.version] \in CP
  BY <1>1 DEF CP
<1>3. [w.cp EXCEPT !.ep = w.ep] \in CP
  BY <1>1 DEF CP
<1>4. [w.cp EXCEPT !.init = TRUE] \in CP
  BY <1>1 DEF CP
<1>5. QED BY <1>2, <1>3, <1>4

\* The result of CreateOrPatch is one of the values it looks at.
LEMMA CreateOrPatchOneOf ==
  ASSUME NEW a, NEW v, NEW s, NEW x
  PROVE  CreateOrPatch(a, v, s, x) \in {s, x}
BY DEF CreateOrPatch, Merged

-----------------------------------------------------------------------------
(* Types *)

PCs == {"idle", "owner", "certs", "infra", "notReady", "endpoint", "kubeconfig",
        "config", "infraMachine", "machine", "initialized", "ready"}

\* Everything that is made keeps its type.
MadeOK ==
  /\ ca \in BOOLEAN /\ infraMachine \in BOOLEAN
  /\ kubeconfig \in Endpoints \cup {None}
  /\ config \in Endpoints \cup {None} /\ configView \in Endpoints \cup {None}
  /\ machine \in Machine /\ machineView \in Machine

EnvOK ==
  /\ cluster \in BOOLEAN /\ template \in BOOLEAN /\ probe \in BOOLEAN
  /\ infra \in Endpoints \cup {None, "absent"}

WorkerOK == queued \in BOOLEAN /\ timer \in BOOLEAN /\ pc \in PCs /\ w \in Local

\* TypeOK by its parts.
LEMMA TypeParts ==
  TypeOK <=> HistOK /\ MadeOK /\ EnvOK /\ WorkerOK /\ env \in 0..MaxEnv /\ fails \in 0..MaxFail
BY DEF TypeOK, HistOK, MadeOK, EnvOK, WorkerOK, PCs

\* Finishing leaves no local variables and an idle worker.
LEMMA FinishType ==
  ASSUME TypeOK, NEW r \in BOOLEAN, Finish(r)
  PROVE  pc' \in PCs /\ w' \in Local /\ timer' \in BOOLEAN
BY NoLocalType DEF Finish, TypeOK, PCs

\* A patch that ends the run, and one that goes on.
LEMMA LastPatchType ==
  ASSUME TypeOK, NEW a \in CP, NEW r \in BOOLEAN, Write(Patched(a)), Finish(r),
         UNCHANGED <<envVars, madeVars, queued, env, fails>>
  PROVE  TypeOK'
<1>1. HistOK'
  BY PatchedFields, WriteType DEF TypeOK, HistOK
<1>2. QED
  BY <1>1, FinishType DEF TypeOK, HistOK, envVars, madeVars, PCs

LEMMA NextPatchType ==
  ASSUME TypeOK, NEW a \in CP, Patch(a) \/ UNCHANGED <<hist, w>>, pc' \in PCs,
         UNCHANGED <<envVars, madeVars, queued, timer, env, fails>>
  PROVE  TypeOK'
<1>1. HistOK' /\ w' \in Local
  BY PatchType DEF TypeOK, HistOK
<1>2. QED
  BY <1>1 DEF TypeOK, HistOK, envVars, madeVars, PCs

\* Every step of the worker keeps the types.
LEMMA WorkerTypes ==
  ASSUME TypeOK, Worker PROVE TypeOK'
<1>a. HistOK /\ w \in Local /\ w.cp \in CP /\ w.ep \in Endpoints \cup {None}
      /\ Api \in CP /\ hist[1] \in CP
  BY ApiType DEF TypeOK, HistOK, Local
<1>1. CASE StartReconcile
  <2>1. (hist[1].linked /\ cluster) \in BOOLEAN
    BY <1>a DEF TypeOK, CP
  <2>2. w' \in Local
    BY <1>1, <1>a, <2>1 DEF StartReconcile, TypeOK, Local, CP
  <2>3. QED BY <1>1, <2>2 DEF StartReconcile, TypeOK, cpVars, envVars, madeVars
<1>2. CASE PatchOwner
  <2> DEFINE s == IF w.owner THEN "True" ELSE "False"
             after == [w.cp EXCEPT !.conds.owner = s]
  <2>1. after \in CP
    BY WantedType
  <2>2. CASE w.owner
    <3>1. Patch(after) /\ pc' = "certs" /\ UNCHANGED timer
      BY <1>2, <2>2 DEF PatchOwner
    <3>2. UNCHANGED <<envVars, madeVars, queued, env, fails>>
      BY <1>2 DEF PatchOwner
    <3> HIDE DEF after
    <3>3. QED BY <2>1, <3>1, <3>2, NextPatchType DEF PCs
  <2>3. CASE ~w.owner
    <3>1. Write(Patched(after)) /\ Finish(TRUE) /\ UNCHANGED <<envVars, madeVars, queued, env, fails>>
      BY <1>2, <2>3 DEF PatchOwner
    <3> HIDE DEF after
    <3>2. QED BY <2>1, <3>1, LastPatchType
  <2>4. QED BY <2>2, <2>3
<1>3. CASE Certificates
  BY <1>3 DEF Certificates, TypeOK, cpVars, envVars
<1>4. CASE ReadInfra
  <2>1. CASE infra = "absent"
    BY <1>4, <2>1, FinishType DEF ReadInfra, TypeOK, cpVars, envVars, madeVars, PCs
  <2>2. CASE infra # "absent"
    <3>1. w' = [w EXCEPT !.ep = infra] /\ infra \in Endpoints \cup {None}
      BY <1>4, <2>2 DEF ReadInfra, TypeOK
    <3>2. w' \in Local
      BY <1>a, <3>1 DEF Local
    <3>3. QED BY <1>4, <2>2, <3>2 DEF ReadInfra, TypeOK, cpVars, envVars, madeVars
  <2>3. QED BY <2>1, <2>2
<1>5. CASE NotReady
  <2> DEFINE after == [w.cp EXCEPT !.conds.ready = "False"]
  <2>1. after \in CP /\ Write(Patched(after)) /\ Finish(TRUE)
        /\ UNCHANGED <<envVars, madeVars, queued, env, fails>>
    BY <1>5, WantedType DEF NotReady
  <2> HIDE DEF after
  <2>2. QED BY <2>1, LastPatchType
<1>6. CASE PatchEndpoint
  <2> DEFINE after == [w.cp EXCEPT !.ep = w.ep]
  <2>1. after \in CP /\ (Patch(after) \/ UNCHANGED <<hist, w>>) /\ pc' = "kubeconfig"
        /\ UNCHANGED <<envVars, madeVars, queued, timer, env, fails>>
    BY <1>6, WantedType DEF PatchEndpoint
  <2> HIDE DEF after
  <2>2. QED BY <2>1, NextPatchType DEF PCs
<1>7. CASE WriteKubeconfig
  BY <1>7, <1>a DEF WriteKubeconfig, TypeOK, cpVars, envVars
<1>8. CASE WriteConfig
  <2>1. config' \in {config, w.ep}
    BY <1>8, CreateOrPatchOneOf DEF WriteConfig
  <2>2. QED BY <1>8, <1>a, <2>1 DEF WriteConfig, TypeOK, cpVars, envVars
<1>9. CASE WriteInfraMachine
  <2>1. CASE template
    BY <1>9, <2>1 DEF WriteInfraMachine, TypeOK, cpVars, envVars
  <2>2. CASE ~template
    BY <1>9, <2>2, FinishType DEF WriteInfraMachine, TypeOK, cpVars, envVars, PCs
  <2>3. QED BY <2>1, <2>2
<1>10. CASE WriteMachine
  <2> DEFINE v == CreateOrPatch(0, machineView.ver, machine.ver, w.cp.version)
  <2>1. v \in {machine.ver, w.cp.version}
    BY CreateOrPatchOneOf
  <2>2. v \in Versions \cup {0}
    BY <1>a, <2>1 DEF CP, TypeOK, Machine
  <2>3. machine' = [machine EXCEPT !.ver = v]
    BY <1>10 DEF WriteMachine
  <2> HIDE DEF v
  <2>4. machine' \in Machine
    BY <2>2, <2>3 DEF TypeOK, Machine
  <2>5. QED BY <1>10, <2>4 DEF WriteMachine, TypeOK, cpVars, envVars
<1>11. CASE ReconcileInitialized
  <2> DEFINE after == [w.cp EXCEPT !.init = TRUE]
  <2>1. after \in CP /\ (Patch(after) \/ UNCHANGED <<hist, w>>) /\ pc' \in PCs
        /\ UNCHANGED <<envVars, madeVars, queued, timer, env, fails>>
    BY <1>11, WantedType DEF ReconcileInitialized, PCs
  <2> HIDE DEF after
  <2>2. QED BY <2>1, NextPatchType
<1>12. CASE PatchReady
  <2> DEFINE after == [w.cp EXCEPT !.conds.ready = "True", !.sver = w.cp.version]
  <2>1. after \in CP /\ Write(Patched(after)) /\ Finish(FALSE)
        /\ UNCHANGED <<envVars, madeVars, queued, env, fails>>
    BY <1>12, WantedType DEF PatchReady
  <2> HIDE DEF after
  <2>2. QED BY <2>1, LastPatchType
<1>13. QED
  BY <1>1, <1>2, <1>3, <1>4, <1>5, <1>6, <1>7, <1>8, <1>9, <1>10, <1>11, <1>12 DEF Worker

\* A delivered version or a restart leaves the server's object alone.
LEMMA TailKeepsApi ==
  ASSUME HistOK, CacheAdvance \/ Restart
  PROVE  HistOK' /\ Api' = Api
<1>1. CASE CacheAdvance
  <2>1. hist \in Seq(CP) /\ Len(hist) > 1 /\ hist' = Tail(hist)
    BY <1>1 DEF CacheAdvance, HistOK
  <2>2. Len(hist') = Len(hist) - 1 /\ hist'[Len(hist) - 1] = hist[Len(hist)]
        /\ hist' \in Seq(CP)
    BY <2>1
  <2>3. QED BY <2>1, <2>2, ConstantsAssumption DEF Api, HistOK
<1>2. CASE Restart
  <2>1. Api \in CP /\ hist' = <<Api>>
    BY <1>2, ApiType DEF Restart
  <2>2. QED BY <2>1, ConstantsAssumption DEF HistOK, Api
<1>3. QED BY <1>1, <1>2

\* A version somebody else writes.
LEMMA EditType ==
  ASSUME TypeOK, EditObject
  PROVE  \E new \in CP : /\ Write(new) /\ new.init = Api.init /\ new.ep = Api.ep
                         /\ new.conds = Api.conds
<1>0. Api \in CP
  BY ApiType DEF TypeOK, HistOK
<1>1. ASSUME NEW v \in Versions
      PROVE  LET n == [Api EXCEPT !.version = v] IN
             n \in CP /\ n.init = Api.init /\ n.ep = Api.ep /\ n.conds = Api.conds
  BY <1>0 DEF CP
<1>2. LET n == [Api EXCEPT !.linked = TRUE] IN
      n \in CP /\ n.init = Api.init /\ n.ep = Api.ep /\ n.conds = Api.conds
  BY <1>0 DEF CP
<1>3. \/ \E v \in Versions : Write([Api EXCEPT !.version = v])
      \/ Write([Api EXCEPT !.linked = TRUE])
  BY DEF EditObject
<1>4. QED BY <1>1, <1>2, <1>3, Zenon

\* Every step keeps the types.
LEMMA TypeStep ==
  ASSUME TypeOK, [Next]_vars PROVE TypeOK'
<1>a. HistOK /\ env \in Nat /\ fails \in Nat
  BY DEF TypeOK, HistOK
<1>1. CASE CallFails
  <2>1. fails' \in 0..MaxFail
    BY <1>1, ConstantsAssumption DEF CallFails, TypeOK
  <2>2. pc' \in PCs /\ w' \in Local /\ timer' \in BOOLEAN
    BY <1>1, FinishType DEF CallFails
  <2>3. QED
    BY <1>1, <2>1, <2>2 DEF CallFails, TypeOK, cpVars, envVars, madeVars, PCs
<1>2. CASE Restart
  <2>1. HistOK'
    BY <1>2, <1>a, TailKeepsApi
  <2>2. fails' \in 0..MaxFail
    BY <1>2, ConstantsAssumption DEF Restart, TypeOK
  <2>3. QED
    BY <1>2, <2>1, <2>2, NoLocalType DEF Restart, TypeOK, HistOK, envVars
<1>3. CASE CacheAdvance
  <2>1. HistOK'
    BY <1>3, <1>a, TailKeepsApi
  <2>2. QED BY <1>3, <2>1 DEF CacheAdvance, TypeOK, HistOK, envVars, madeVars
<1>4. CASE ViewAdvance
  BY <1>4 DEF ViewAdvance, TypeOK, cpVars, envVars
<1>5. CASE TimerFires
  <2>1. queued' \in BOOLEAN /\ timer' \in BOOLEAN
    BY <1>5 DEF TimerFires
  <2>2. UNCHANGED <<cpVars, envVars, madeVars, pc, w, env, fails>>
    BY <1>5 DEF TimerFires
  <2>3. QED BY <2>1, <2>2 DEF TypeOK, cpVars, envVars, madeVars
<1>6. CASE EditObject
  <2>1. HistOK'
    BY <1>6, <1>a, EditType, WriteType
  <2>2. env' \in 0..MaxEnv
    BY <1>6, ConstantsAssumption DEF EditObject, Changes, TypeOK
  <2>3. QED BY <1>6, <2>1, <2>2 DEF EditObject, TypeOK, HistOK, envVars, madeVars
<1>7. CASE WorldChanges
  <2>1. env' \in 0..MaxEnv
    BY <1>7, ConstantsAssumption DEF WorldChanges, Changes, TypeOK
  <2>2. machine' \in Machine
    BY <1>7 DEF WorldChanges, TypeOK, Machine, envVars
  <2>3. EnvOK'
    BY <1>7 DEF WorldChanges, TypeOK, EnvOK, envVars
  <2>4. QED
    BY <1>7, <2>1, <2>2, <2>3 DEF WorldChanges, TypeOK, EnvOK, cpVars
<1>8. CASE UNCHANGED vars
  BY <1>8 DEF vars, cpVars, envVars, madeVars, TypeOK
<1>9. QED
  BY <1>1, <1>2, <1>3, <1>4, <1>5, <1>6, <1>7, <1>8, WorkerTypes DEF Next

\* Every variable keeps its type (TypeOK), whatever the bounds are.
THEOREM TypeCorrect == Spec => []TypeOK
<1>1. Init => TypeOK
  <2> SUFFICES ASSUME Init PROVE TypeOK
    OBVIOUS
  <2>1. PICK v \in Versions : hist = <<NewCP(v, ~May("link"))>>
    BY DEF Init
  <2>2. NewCP(v, ~May("link")) \in CP
    BY NewCPType DEF May
  <2>3. hist \in Seq(CP) /\ Len(hist) \in 1..MaxLag
    BY <2>1, <2>2, ConstantsAssumption
  <2>4. env \in 0..MaxEnv /\ fails \in 0..MaxFail
    BY ConstantsAssumption DEF Init
  <2>5. infra \in Endpoints \cup {None, "absent"}
    BY DEF Init
  <2>6. NoMachine \in Machine
    BY DEF NoMachine, Machine
  <2>7. QED BY <2>3, <2>4, <2>5, <2>6, NoLocalType DEF Init, TypeOK, May
<1>2. TypeOK /\ [Next]_vars => TypeOK'
  BY TypeStep
<1>3. QED BY <1>1, <1>2, PTL DEF Spec

-----------------------------------------------------------------------------
(* The contract fields only grow, and Ready=True is backed by them *)

\* b has everything of the contract that a has.
Later(a, b) == (a.init => b.init) /\ (a.ep \in Endpoints => b.ep \in Endpoints)

\* What the contract says of one version of the object.
Backed(c) == (c.conds.ready = "True" => c.init) /\ (c.init => c.ep \in Endpoints)

HistInv ==
  /\ \A i, j \in 1..Len(hist) : i <= j => Later(hist[i], hist[j])
  /\ \A i \in 1..Len(hist) : Backed(hist[i])

AfterEndpoint == {"kubeconfig", "config", "infraMachine", "machine", "initialized", "ready"}

\* The inductive invariant: every undelivered version and the worker's copy are
\* no later than the server's, and the worker has what it is about to claim.
ContractInv ==
  /\ HistInv
  /\ Later(w.cp, Api) /\ Backed(w.cp)
  /\ pc \in AfterEndpoint \cup {"endpoint"} => w.ep \in Endpoints
  /\ pc \in AfterEndpoint => w.cp.ep \in Endpoints
  /\ pc = "ready" => w.cp.init

\* The server's and the cached object are backed.
LEMMA ApiBacked ==
  ASSUME HistOK, HistInv PROVE Backed(Api) /\ Backed(hist[1]) /\ Later(hist[1], Api)
<1>1. 1 \in 1..Len(hist) /\ Len(hist) \in 1..Len(hist) /\ 1 <= Len(hist)
  BY DEF HistOK
<1>2. QED BY <1>1 DEF HistInv, Api

\* A write of a later, backed version keeps the history's invariant.
LEMMA WriteHist ==
  ASSUME HistOK, HistInv, NEW new \in CP, Later(Api, new), Backed(new), Write(new)
  PROVE  HistInv'
<1>1. CASE new = Api
  BY <1>1 DEF Write, HistInv
<1>2. CASE new # Api
  <2>1. hist' = Append(hist, new) /\ hist \in Seq(CP) /\ Len(hist) \in Nat /\ Len(hist) > 0
    BY <1>2 DEF Write, HistOK
  <2>2. /\ Len(hist') = Len(hist) + 1
        /\ \A i \in 1..Len(hist) : hist'[i] = hist[i]
        /\ hist'[Len(hist) + 1] = new
    BY <2>1
  <2>3. \A i \in 1..Len(hist) : Later(hist[i], new)
    <3>1. \A i \in 1..Len(hist) : Later(hist[i], Api)
      BY <2>1 DEF HistInv, Api
    <3>2. QED BY <3>1 DEF Later
  <2>4. Later(new, new)
    BY DEF Later
  <2>5. ASSUME NEW i \in 1..Len(hist'), NEW j \in 1..Len(hist'), i <= j
        PROVE  Later(hist'[i], hist'[j])
    <3>1. CASE j \in 1..Len(hist)
      BY <2>1, <2>2, <2>5, <3>1 DEF HistInv
    <3>2. CASE j = Len(hist) + 1
      BY <2>1, <2>2, <2>3, <2>4, <2>5, <3>2
    <3>3. QED BY <2>1, <2>2, <3>1, <3>2
  <2>6. ASSUME NEW i \in 1..Len(hist') PROVE Backed(hist'[i])
    BY <2>1, <2>2 DEF HistInv
  <2>7. QED BY <2>5, <2>6 DEF HistInv, Later, Backed
<1>3. QED BY <1>1, <1>2

\* A patch that only adds to the local copy only adds to the server's object,
\* however stale the copy is, and its result is backed if the wanted one is.
LEMMA PatchHist ==
  ASSUME TypeOK, ContractInv, NEW a \in CP, Write(Patched(a)), Later(w.cp, a), Backed(a)
  PROVE  /\ HistInv' /\ Api' = Patched(a) /\ Later(a, Patched(a)) /\ Backed(Patched(a))
<1>1. HistOK /\ w.cp \in CP /\ Api \in CP
  BY ApiType DEF TypeOK, HistOK, Local
<1>2. Backed(Api)
  BY <1>1, ApiBacked DEF ContractInv
<1>3. /\ Patched(a) \in CP
      /\ Patched(a).init = Merged(w.cp.init, a.init, Api.init)
      /\ Patched(a).ep = Merged(w.cp.ep, a.ep, Api.ep)
      /\ Patched(a).conds = Merged(w.cp.conds, a.conds, Api.conds)
  BY PatchedFields
<1>4. a.ep \in Endpoints \cup {None} /\ w.cp.ep \in Endpoints \cup {None}
      /\ a.init \in BOOLEAN /\ w.cp.init \in BOOLEAN /\ Api.init \in BOOLEAN
  BY <1>1 DEF CP
<1>5. Later(Api, Patched(a))
  BY <1>3, <1>4 DEF Later, Merged
<1>6. Later(a, Patched(a))
  BY <1>3, <1>4 DEF Later, Merged, ContractInv
<1>7. Backed(Patched(a))
  <2>1. Patched(a).conds.ready = "True" => Patched(a).init
    BY <1>2, <1>3, <1>5, <1>6 DEF Merged, Backed, Later
  <2>2. Patched(a).init => Patched(a).ep \in Endpoints
    BY <1>2, <1>3, <1>5, <1>6 DEF Merged, Backed, Later
  <2>3. QED BY <2>1, <2>2 DEF Backed
<1>8. Api' = Patched(a)
  BY <1>1, <1>3, WriteType
<1>9. HistInv'
  BY <1>1, <1>3, <1>5, <1>7, WriteHist DEF ContractInv
<1>10. QED BY <1>6, <1>7, <1>8, <1>9

\* ContractInv when the worker finishes.
LEMMA InvAfterFinish ==
  ASSUME HistInv', NEW r, Finish(r)
  PROVE  ContractInv'
<1>1. w' = NoLocal /\ pc' = "idle"
  BY DEF Finish
<1>2. NoLocal.cp.init = FALSE /\ NoLocal.cp.ep = None
      /\ NoLocal.cp.conds.ready = "absent"
  BY DEF NoLocal, NewCP
<1>3. Later(w'.cp, Api') /\ Backed(w'.cp)
  BY <1>1, <1>2, ConstantsAssumption DEF Later, Backed
<1>4. QED BY <1>1, <1>3 DEF ContractInv, AfterEndpoint

\* ContractInv when the worker goes on after a patch, or leaves its copy alone.
LEMMA InvAfterPatch ==
  ASSUME TypeOK, ContractInv, NEW a \in CP, Patch(a), Later(w.cp, a), Backed(a),
         pc' \in AfterEndpoint \cup {"endpoint"} => w.ep \in Endpoints,
         pc' \in AfterEndpoint => a.ep \in Endpoints,
         pc' = "ready" => a.init
  PROVE  ContractInv'
<1>1. /\ HistInv' /\ Api' = Patched(a) /\ Later(a, Patched(a)) /\ Backed(Patched(a))
  BY PatchHist DEF Patch
<1>2. w'.cp = Patched(a) /\ w'.ep = w.ep
  BY PatchType
<1>3. QED BY <1>1, <1>2 DEF ContractInv, Later

LEMMA InvKept ==
  ASSUME ContractInv, UNCHANGED hist, w'.cp = w.cp,
         pc' \in AfterEndpoint \cup {"endpoint"} => w'.ep \in Endpoints,
         pc' \in AfterEndpoint => w.cp.ep \in Endpoints,
         pc' = "ready" => w.cp.init
  PROVE  ContractInv'
BY DEF ContractInv, HistInv, Later, Backed, Api

\* The step of the induction, for the worker.
LEMMA WorkerKeepsContract ==
  ASSUME TypeOK, ContractInv, Worker PROVE ContractInv'
<1>a. HistOK /\ HistInv /\ w \in Local /\ w.cp \in CP /\ Api \in CP /\ hist[1] \in CP
  BY ApiType DEF TypeOK, HistOK, Local, ContractInv
<1>1. CASE StartReconcile
  <2>1. w'.cp = hist[1] /\ pc' = "owner" /\ UNCHANGED hist
    BY <1>1 DEF StartReconcile, cpVars
  <2>2. Backed(hist[1]) /\ Later(hist[1], Api)
    BY <1>a, ApiBacked
  <2>3. HistInv' /\ Api' = Api
    BY <1>a, <2>1 DEF HistInv, Api, Later, Backed
  <2>4. QED BY <2>1, <2>2, <2>3 DEF ContractInv, AfterEndpoint
<1>2. CASE PatchOwner
  <2> DEFINE s == IF w.owner THEN "True" ELSE "False"
             after == [w.cp EXCEPT !.conds.owner = s]
  <2>1. /\ after \in CP /\ after.init = w.cp.init /\ after.ep = w.cp.ep
        /\ after.conds.ready = w.cp.conds.ready
    BY <1>a, WantedType DEF CP
  <2>2. \/ Patch(after) /\ pc' = "certs"
        \/ Write(Patched(after)) /\ Finish(TRUE)
    BY <1>2 DEF PatchOwner
  <2> HIDE DEF after, s
  <2>3. Later(w.cp, after) /\ Backed(after)
    BY <2>1 DEF Later, Backed, ContractInv
  <2>4. CASE Patch(after) /\ pc' = "certs"
    BY <2>1, <2>3, <2>4, InvAfterPatch DEF AfterEndpoint
  <2>5. CASE Write(Patched(after)) /\ Finish(TRUE)
    BY <2>1, <2>3, <2>5, PatchHist, InvAfterFinish
  <2>6. QED BY <2>2, <2>4, <2>5
<1>3. CASE Certificates
  BY <1>3, InvKept DEF Certificates, cpVars, AfterEndpoint
<1>4. CASE ReadInfra
  <2>1. CASE infra = "absent"
    <3>1. UNCHANGED hist /\ Finish(TRUE)
      BY <1>4, <2>1 DEF ReadInfra, cpVars
    <3>2. HistInv'
      BY <1>a, <3>1 DEF HistInv, Later, Backed
    <3>3. QED BY <3>1, <3>2, InvAfterFinish
  <2>2. CASE infra # "absent"
    <3>1. w' = [w EXCEPT !.ep = infra] /\ UNCHANGED hist
          /\ pc' = IF infra = None THEN "notReady" ELSE "endpoint"
      BY <1>4, <2>2 DEF ReadInfra, cpVars
    <3>2. w'.cp = w.cp /\ w'.ep = infra
      BY <1>a, <3>1 DEF Local
    <3>3. infra = None \/ infra \in Endpoints
      BY <2>2 DEF TypeOK
    <3>4. QED BY <3>1, <3>2, <3>3, InvKept DEF AfterEndpoint
  <2>3. QED BY <2>1, <2>2
<1>5. CASE NotReady
  <2> DEFINE after == [w.cp EXCEPT !.conds.ready = "False"]
  <2>1. after \in CP /\ after.init = w.cp.init /\ after.ep = w.cp.ep
        /\ after.conds.ready = "False"
    BY <1>a, WantedType DEF CP
  <2>2. Write(Patched(after)) /\ Finish(TRUE)
    BY <1>5 DEF NotReady
  <2> HIDE DEF after
  <2>3. Later(w.cp, after) /\ Backed(after)
    BY <2>1 DEF Later, Backed, ContractInv
  <2>4. QED BY <2>1, <2>2, <2>3, PatchHist, InvAfterFinish
<1>6. CASE PatchEndpoint
  <2> DEFINE after == [w.cp EXCEPT !.ep = w.ep]
  <2>0. w.ep \in Endpoints /\ pc' = "kubeconfig"
    BY <1>6 DEF ContractInv, PatchEndpoint
  <2>1. CASE w.cp.ep # w.ep
    <3>1. after \in CP /\ after.init = w.cp.init /\ after.ep = w.ep
          /\ after.conds = w.cp.conds
      BY <1>a, WantedType DEF CP
    <3>2. Patch(after)
      BY <1>6, <2>1 DEF PatchEndpoint
    <3> HIDE DEF after
    <3>3. Later(w.cp, after) /\ Backed(after)
      BY <2>0, <3>1 DEF Later, Backed, ContractInv
    <3>4. QED BY <2>0, <3>1, <3>2, <3>3, InvAfterPatch
  <2>2. CASE w.cp.ep = w.ep
    BY <1>6, <2>0, <2>2, InvKept DEF PatchEndpoint
  <2>3. QED BY <2>1, <2>2
<1>7. CASE WriteKubeconfig \/ WriteConfig \/ WriteMachine
  <2>1. UNCHANGED <<hist, w>> /\ pc \in AfterEndpoint
        /\ pc' \in AfterEndpoint /\ pc' # "ready"
    BY <1>7 DEF WriteKubeconfig, WriteConfig, WriteMachine, cpVars, AfterEndpoint
  <2>2. QED BY <2>1, InvKept DEF ContractInv
<1>8. CASE WriteInfraMachine
  <2>1. CASE template
    BY <1>8, <2>1, InvKept DEF WriteInfraMachine, cpVars, AfterEndpoint, ContractInv
  <2>2. CASE ~template
    <3>1. UNCHANGED hist /\ Finish(TRUE)
      BY <1>8, <2>2 DEF WriteInfraMachine, cpVars
    <3>2. HistInv'
      BY <1>a, <3>1 DEF HistInv, Later, Backed
    <3>3. QED BY <3>1, <3>2, InvAfterFinish
  <2>3. QED BY <2>1, <2>2
<1>9. CASE ReconcileInitialized
  <2> DEFINE after == [w.cp EXCEPT !.init = TRUE]
             reached == w.probe \/ machineView.ready
  <2>0. /\ w.ep \in Endpoints /\ w.cp.ep \in Endpoints
        /\ pc' = IF w.cp.init \/ reached THEN "ready" ELSE "notReady"
    BY <1>9 DEF ContractInv, ReconcileInitialized, AfterEndpoint
  <2>1. CASE ~w.cp.init /\ reached
    <3>1. after \in CP /\ after.init = TRUE /\ after.ep = w.cp.ep
          /\ after.conds = w.cp.conds
      BY <1>a, WantedType DEF CP
    <3>2. Patch(after)
      BY <1>9, <2>1 DEF ReconcileInitialized
    <3> HIDE DEF after
    <3>3. Later(w.cp, after) /\ Backed(after)
      BY <2>0, <3>1 DEF Later, Backed
    <3>4. QED BY <2>0, <3>1, <3>2, <3>3, InvAfterPatch
  <2>2. CASE ~(~w.cp.init /\ reached)
    <3>1. UNCHANGED <<hist, w>>
      BY <1>9, <2>2 DEF ReconcileInitialized
    <3>2. pc' = "ready" => w.cp.init
      BY <2>0, <2>2
    <3>3. QED BY <2>0, <3>1, <3>2, InvKept
  <2>3. QED BY <2>1, <2>2
<1>10. CASE PatchReady
  <2> DEFINE after == [w.cp EXCEPT !.conds.ready = "True", !.sver = w.cp.version]
  <2>1. after \in CP /\ after.init = w.cp.init /\ after.ep = w.cp.ep
    BY <1>a, WantedType DEF CP
  <2>2. Write(Patched(after)) /\ Finish(FALSE) /\ w.cp.init /\ w.cp.ep \in Endpoints
    BY <1>10 DEF PatchReady, ContractInv, AfterEndpoint
  <2> HIDE DEF after
  <2>3. Later(w.cp, after) /\ Backed(after)
    BY <2>1, <2>2 DEF Later, Backed
  <2>4. QED BY <2>1, <2>2, <2>3, PatchHist, InvAfterFinish
<1>11. QED
  BY <1>1, <1>2, <1>3, <1>4, <1>5, <1>6, <1>7, <1>8, <1>9, <1>10 DEF Worker

\* Somebody else's write of the object: the contract's fields stay.
LEMMA InvAfterEdit ==
  ASSUME TypeOK, ContractInv, NEW new \in CP, Write(new), new.init = Api.init,
         new.ep = Api.ep, new.conds = Api.conds, UNCHANGED <<pc, w>>
  PROVE  ContractInv'
<1>1. HistOK /\ HistInv
  BY DEF TypeOK, HistOK, ContractInv
<1>2. Later(Api, new) /\ Backed(new)
  BY <1>1, ApiBacked DEF Later, Backed
<1>3. HistInv' /\ Api' = new
  BY <1>1, <1>2, WriteHist, WriteType
<1>4. Later(w'.cp, Api')
  BY <1>2, <1>3 DEF ContractInv, Later
<1>5. QED BY <1>3, <1>4 DEF ContractInv, Backed

\* The step of the induction.
LEMMA ContractInvStep ==
  ASSUME TypeOK, ContractInv, [Next]_vars PROVE ContractInv'
<1>a. HistOK /\ HistInv /\ Api \in CP
  BY ApiType DEF TypeOK, HistOK, ContractInv
<1>1. CASE CallFails
  <2>1. UNCHANGED hist /\ Finish(TRUE)
    BY <1>1 DEF CallFails, cpVars
  <2>2. HistInv'
    BY <1>a, <2>1 DEF HistInv, Later, Backed
  <2>3. QED BY <2>1, <2>2, InvAfterFinish
<1>2. CASE Restart
  <2>2. Len(hist') = 1 /\ hist'[1] = Api
    BY <1>2 DEF Restart
  <2>3. HistInv'
    BY <2>2, <1>a, ApiBacked DEF HistInv, Later
  <2>4. NoLocal.cp.init = FALSE /\ NoLocal.cp.ep = None
        /\ NoLocal.cp.conds.ready = "absent"
    BY DEF NoLocal, NewCP
  <2>5. w' = NoLocal /\ pc' = "idle"
    BY <1>2 DEF Restart
  <2>6. Later(w'.cp, Api') /\ Backed(w'.cp)
    BY <2>4, <2>5, ConstantsAssumption DEF Later, Backed
  <2>7. QED BY <2>3, <2>5, <2>6 DEF ContractInv, AfterEndpoint
<1>3. CASE CacheAdvance
  <2>1. hist' = Tail(hist) /\ Len(hist) > 1 /\ hist \in Seq(CP) /\ UNCHANGED <<pc, w>>
    BY <1>3, <1>a DEF CacheAdvance, HistOK
  <2>2. Len(hist') = Len(hist) - 1 /\ \A i \in 1..Len(hist) - 1 : hist'[i] = hist[i + 1]
    BY <2>1
  <2>3. HistInv'
    BY <2>1, <2>2, <1>a DEF HistInv
  <2>4. Api' = Api
    BY <1>3, <1>a, TailKeepsApi
  <2>5. QED BY <2>1, <2>3, <2>4 DEF ContractInv, Later, Backed
<1>4. CASE ViewAdvance \/ TimerFires \/ WorldChanges \/ UNCHANGED vars
  <2>1. UNCHANGED <<hist, pc, w>>
    BY <1>4 DEF ViewAdvance, TimerFires, WorldChanges, vars, cpVars
  <2>2. QED BY <2>1, InvKept DEF ContractInv
<1>5. CASE EditObject
  <2>1. PICK new \in CP : Write(new) /\ new.init = Api.init /\ new.ep = Api.ep
                           /\ new.conds = Api.conds
    BY <1>5, EditType
  <2>2. UNCHANGED <<pc, w>>
    BY <1>5 DEF EditObject
  <2>3. QED BY <2>1, <2>2, InvAfterEdit
<1>6. QED
  BY <1>1, <1>2, <1>3, <1>4, <1>5, WorkerKeepsContract DEF Next

\* The initial states satisfy ContractInv.
LEMMA ContractInit == Init => ContractInv
<1> SUFFICES ASSUME Init PROVE ContractInv
  OBVIOUS
<1>1. PICK v \in Versions : hist = <<NewCP(v, ~May("link"))>>
  BY DEF Init
<1>2. Len(hist) = 1 /\ hist[1] = NewCP(v, ~May("link")) /\ Api = hist[1]
  BY <1>1 DEF Api
<1>3. \A u, x : /\ NewCP(u, x).init = FALSE /\ NewCP(u, x).ep = None
                /\ NewCP(u, x).conds.ready = "absent"
  BY DEF NewCP
<1>4. HistInv
  BY <1>2, <1>3, ConstantsAssumption DEF HistInv, Later, Backed
<1>5. w = NoLocal /\ pc = "idle"
  BY DEF Init
<1>6. NoLocal.cp.init = FALSE /\ NoLocal.cp.ep = None
      /\ NoLocal.cp.conds.ready = "absent"
  BY <1>3 DEF NoLocal
<1>7. QED
  BY <1>4, <1>5, <1>6, ConstantsAssumption DEF ContractInv, Later, Backed, AfterEndpoint

\* ContractInv holds in every reachable state.
LEMMA ContractInvariant == Spec => []ContractInv
<1>1. TypeOK /\ ContractInv /\ [Next]_vars => ContractInv'
  BY ContractInvStep
<1>2. QED BY <1>1, ContractInit, TypeCorrect, PTL DEF Spec

-----------------------------------------------------------------------------
(* The object implements ControlPlaneContract *)

\* What a step may do to the Ready condition alone.
LEMMA ReadyMoves ==
  ASSUME Api'.ep = Api.ep, Api'.init = Api.init, Api'.conds.ready = "True" => Api.init
  PROVE  [Published!Next]_(Published!vars)
<1>1. {Api.ep} \ {None} = {Api'.ep} \ {None}
  OBVIOUS
<1>2. CASE Api'.conds.ready = "True"
  <2>1. (Api.conds.ready = "True")' = TRUE
    BY <1>2
  <2>2. QED BY <1>1, <1>2, <2>1 DEF Published!Next, Published!BecomeReady
<1>3. CASE Api'.conds.ready # "True"
  <2>1. (Api.conds.ready = "True")' = FALSE
    BY <1>3
  <2>2. QED BY <1>1, <1>3, <2>1 DEF Published!Next, Published!BecomeUnready
<1>4. QED BY <1>2, <1>3

\* A step that leaves the server's object alone.
LEMMA ApiKept ==
  ASSUME TypeOK, ContractInv, Api' = Api
  PROVE  [Published!Next]_(Published!vars)
<1>1. Backed(Api)
  BY ApiBacked DEF ContractInv, TypeOK, HistOK
<1>2. QED BY <1>1, ReadyMoves DEF Backed

\* A patch of conditions: the list of a stale copy replaces the server's, and
\* with it Ready, which the copy, and so the server's object, backs.
LEMMA ConditionsMove ==
  ASSUME TypeOK, ContractInv, NEW a \in CP, Write(Patched(a)),
         a.ep = w.cp.ep, a.init = w.cp.init, Backed(a)
  PROVE  [Published!Next]_(Published!vars)
<1>1. HistOK /\ Backed(Api)
  BY ApiBacked DEF ContractInv, TypeOK, HistOK
<1>2. /\ Api' = Patched(a)
      /\ Patched(a).init = Merged(w.cp.init, a.init, Api.init)
      /\ Patched(a).ep = Merged(w.cp.ep, a.ep, Api.ep)
      /\ Patched(a).conds = Merged(w.cp.conds, a.conds, Api.conds)
  BY <1>1, PatchedFields, WriteType
<1>3. Api'.init = Api.init /\ Api'.ep = Api.ep
  BY <1>2 DEF Merged
<1>4. a.init => Api.init
  BY DEF ContractInv, Later
<1>5. Api'.conds.ready = "True" => Api.init
  BY <1>1, <1>2, <1>4 DEF Merged, Backed
<1>6. QED BY <1>3, <1>5, ReadyMoves

\* Every step is a step of the contract, or none of its business.
LEMMA ContractStep ==
  ASSUME TypeOK, ContractInv, [Next]_vars
  PROVE  [Published!Next]_(Published!vars)
<1>a. HistOK /\ w \in Local /\ w.cp \in CP /\ Api \in CP
  BY ApiType DEF TypeOK, HistOK, Local
<1>1. CASE UNCHANGED hist
  BY <1>1, ApiKept DEF Api
<1>2. CASE PatchOwner
  <2> DEFINE s == IF w.owner THEN "True" ELSE "False"
             after == [w.cp EXCEPT !.conds.owner = s]
  <2>1. /\ after \in CP /\ after.init = w.cp.init /\ after.ep = w.cp.ep
        /\ after.conds.ready = w.cp.conds.ready
    BY <1>a, WantedType DEF CP
  <2>2. Write(Patched(after))
    BY <1>2 DEF PatchOwner, Patch
  <2> HIDE DEF after, s
  <2>3. QED BY <2>1, <2>2, ConditionsMove DEF Backed, ContractInv
<1>3. CASE NotReady
  <2> DEFINE after == [w.cp EXCEPT !.conds.ready = "False"]
  <2>1. after \in CP /\ after.init = w.cp.init /\ after.ep = w.cp.ep
        /\ after.conds.ready = "False"
    BY <1>a, WantedType DEF CP
  <2>2. Write(Patched(after))
    BY <1>3 DEF NotReady
  <2> HIDE DEF after
  <2>3. QED BY <2>1, <2>2, ConditionsMove DEF Backed, ContractInv
<1>4. CASE PatchReady
  <2> DEFINE after == [w.cp EXCEPT !.conds.ready = "True", !.sver = w.cp.version]
  <2>1. after \in CP /\ after.init = w.cp.init /\ after.ep = w.cp.ep
    BY <1>a, WantedType DEF CP
  <2>2. Write(Patched(after)) /\ w.cp.init /\ w.cp.ep \in Endpoints
    BY <1>4 DEF PatchReady, ContractInv, AfterEndpoint
  <2> HIDE DEF after
  <2>3. QED BY <2>1, <2>2, ConditionsMove DEF Backed
<1>5. CASE PatchEndpoint
  <2> DEFINE after == [w.cp EXCEPT !.ep = w.ep]
  <2>1. CASE w.cp.ep # w.ep
    <3>1. after \in CP /\ after.init = w.cp.init /\ after.ep = w.ep
          /\ after.conds = w.cp.conds
      BY <1>a, WantedType DEF CP
    <3>2. Patch(after) /\ w.ep \in Endpoints
      BY <1>5, <2>1 DEF PatchEndpoint, ContractInv
    <3> HIDE DEF after
    <3>3. /\ Api'.init = Merged(w.cp.init, after.init, Api.init)
          /\ Api'.ep = Merged(w.cp.ep, after.ep, Api.ep)
          /\ Api'.conds = Merged(w.cp.conds, after.conds, Api.conds)
      BY <3>1, <3>2, PatchedFields, PatchType
    <3>4. Api'.init = Api.init /\ Api'.ep = w.ep /\ Api'.conds = Api.conds
      BY <2>1, <3>1, <3>3 DEF Merged
    <3>5. ({Api.ep} \ {None})' = {w.ep}
      BY <3>2, <3>4, ConstantsAssumption
    <3>6. Published!Publish(w.ep)
      BY <3>4, <3>5 DEF Published!Publish
    <3>7. QED BY <3>2, <3>6 DEF Published!Next
  <2>2. CASE w.cp.ep = w.ep
    BY <1>1, <1>5, <2>2 DEF PatchEndpoint
  <2>3. QED BY <2>1, <2>2
<1>6. CASE ReconcileInitialized
  <2> DEFINE after == [w.cp EXCEPT !.init = TRUE]
             reached == w.probe \/ machineView.ready
  <2>1. CASE ~w.cp.init /\ reached
    <3>1. after \in CP /\ after.init = TRUE /\ after.ep = w.cp.ep
          /\ after.conds = w.cp.conds
      BY <1>a, WantedType DEF CP
    <3>2. Patch(after) /\ w.cp.ep \in Endpoints
      BY <1>6, <2>1 DEF ReconcileInitialized, ContractInv, AfterEndpoint
    <3> HIDE DEF after
    <3>3. /\ Api'.init = Merged(w.cp.init, after.init, Api.init)
          /\ Api'.ep = Merged(w.cp.ep, after.ep, Api.ep)
          /\ Api'.conds = Merged(w.cp.conds, after.conds, Api.conds)
      BY <3>1, <3>2, PatchedFields, PatchType
    <3>4. Api'.init = TRUE /\ Api'.ep = Api.ep /\ Api'.conds = Api.conds
      BY <2>1, <3>1, <3>3 DEF Merged
    <3>5. {Api.ep} \ {None} # {}
      BY <3>2, ConstantsAssumption DEF ContractInv, Later
    <3>6. QED BY <3>4, <3>5 DEF Published!Next, Published!Initialize
  <2>2. CASE ~(~w.cp.init /\ reached)
    BY <1>1, <1>6, <2>2 DEF ReconcileInitialized
  <2>3. QED BY <2>1, <2>2
<1>7. CASE CacheAdvance \/ Restart
  BY <1>7, <1>a, TailKeepsApi, ApiKept
<1>8. CASE EditObject
  <2>1. PICK new \in CP : Write(new) /\ new.init = Api.init /\ new.ep = Api.ep
                           /\ new.conds = Api.conds
    BY <1>8, EditType
  <2>2. Api' = new /\ Backed(Api)
    BY <1>a, <2>1, WriteType, ApiBacked DEF ContractInv
  <2>3. QED BY <2>1, <2>2, ReadyMoves DEF Backed
<1>9. CASE \/ StartReconcile \/ Certificates \/ ReadInfra \/ WriteKubeconfig \/ WriteConfig
           \/ WriteInfraMachine \/ WriteMachine \/ CallFails \/ ViewAdvance \/ TimerFires
           \/ WorldChanges \/ UNCHANGED vars
  BY <1>1, <1>9 DEF StartReconcile, Certificates, ReadInfra, WriteKubeconfig, WriteConfig,
     WriteInfraMachine, WriteMachine, CallFails, ViewAdvance, TimerFires, WorldChanges,
     vars, cpVars
<1>10. QED
  BY <1>2, <1>3, <1>4, <1>5, <1>6, <1>7, <1>8, <1>9 DEF Next, Worker

\* No step takes the initialized latch back.
LEMMA LatchKept ==
  ASSUME TypeOK, ContractInv, [Next]_vars PROVE Api.init => (Api.init)'
BY ContractStep
   DEF Published!Next, Published!Publish, Published!Initialize, Published!BecomeReady,
       Published!BecomeUnready, Published!vars

\* For every set of versions and endpoints, every staleness and any number of
\* failures and restarts: the kubeadm control plane implements the contract that
\* the facade assumes of it.
THEOREM ContractKept == Spec => KeepsContract
<1>1. Init => Published!Init
  <2> SUFFICES ASSUME Init PROVE Published!Init
    OBVIOUS
  <2>1. PICK v \in Versions : hist = <<NewCP(v, ~May("link"))>>
    BY DEF Init
  <2>2. Api = NewCP(v, ~May("link"))
    BY <2>1 DEF Api
  <2>3. Api.ep = None /\ Api.init = FALSE /\ Api.conds.ready = "absent"
    BY <2>2 DEF NewCP
  <2>4. QED BY <2>3 DEF Published!Init
<1>2. TypeOK /\ ContractInv /\ [Next]_vars => [Published!Next]_(Published!vars)
  BY ContractStep
<1>3. QED
  BY <1>1, <1>2, ContractInvariant, TypeCorrect, PTL DEF Spec, KeepsContract, Published!Spec

-----------------------------------------------------------------------------
(* The Machine comes last *)

\* The inductive invariant: what was made stays, the worker has made what comes
\* before the step it is at, and no cache shows a configuration that never was.
PartsInv ==
  /\ MachineHasParts
  /\ configView # None => config # None
  /\ pc \notin {"idle", "owner", "certs"} => ca
  /\ pc \in {"config", "infraMachine", "machine", "initialized", "ready"} => kubeconfig # None
  /\ pc \in {"infraMachine", "machine", "initialized", "ready"} => config # None
  /\ pc \in {"machine", "initialized", "ready"} => infraMachine

\* A step that makes nothing and does not move the worker forward.
LEMMA PartsKept ==
  ASSUME PartsInv, UNCHANGED madeVars, pc' \in {pc, "idle"}
  PROVE  PartsInv'
BY DEF PartsInv, MachineHasParts, madeVars

\* The worker's endpoint is one when it writes kubeconfig and configuration.
LEMMA WorkerKeepsParts ==
  ASSUME TypeOK, ContractInv, PartsInv, Worker PROVE PartsInv'
<1>1. CASE StartReconcile \/ PatchOwner
  <2>1. UNCHANGED madeVars /\ pc' \in {"owner", "certs", "idle"}
    BY <1>1 DEF StartReconcile, PatchOwner, Finish
  <2>2. QED BY <2>1 DEF PartsInv, MachineHasParts, madeVars
<1>2. CASE Certificates
  BY <1>2 DEF Certificates, PartsInv, MachineHasParts
<1>3. CASE ReadInfra \/ NotReady
  <2>1. UNCHANGED madeVars /\ pc \in {"infra", "notReady"}
        /\ pc' \in {"idle", "notReady", "endpoint"}
    BY <1>3 DEF ReadInfra, NotReady, Finish
  <2>2. QED BY <2>1 DEF PartsInv, MachineHasParts, madeVars
<1>4. CASE PatchEndpoint
  <2>1. UNCHANGED madeVars /\ pc = "endpoint" /\ pc' = "kubeconfig"
    BY <1>4 DEF PatchEndpoint
  <2>2. QED BY <2>1 DEF PartsInv, MachineHasParts, madeVars
<1>5. CASE WriteKubeconfig
  <2>1. kubeconfig' = w.ep /\ w.ep # None
    BY <1>5, ConstantsAssumption DEF WriteKubeconfig, ContractInv, AfterEndpoint
  <2>2. QED BY <1>5, <2>1 DEF WriteKubeconfig, PartsInv, MachineHasParts
<1>6. CASE WriteConfig
  <2>1. w.ep # None
    BY <1>6, ConstantsAssumption DEF WriteConfig, ContractInv, AfterEndpoint
  <2>2. config' # None
    BY <1>6, <2>1 DEF WriteConfig, CreateOrPatch, Merged, PartsInv
  <2>3. QED BY <1>6, <2>2 DEF WriteConfig, PartsInv, MachineHasParts
<1>7. CASE WriteInfraMachine
  <2>1. CASE template
    BY <1>7, <2>1 DEF WriteInfraMachine, PartsInv, MachineHasParts
  <2>2. CASE ~template
    BY <1>7, <2>2, PartsKept DEF WriteInfraMachine, Finish, madeVars
  <2>3. QED BY <2>1, <2>2
<1>8. CASE WriteMachine
  BY <1>8 DEF WriteMachine, PartsInv, MachineHasParts
<1>9. CASE ReconcileInitialized
  <2>1. UNCHANGED madeVars /\ pc = "initialized" /\ pc' \in {"ready", "notReady"}
    BY <1>9 DEF ReconcileInitialized
  <2>2. QED BY <2>1 DEF PartsInv, MachineHasParts, madeVars
<1>10. CASE PatchReady
  BY <1>10, PartsKept DEF PatchReady, Finish
<1>11. QED
  BY <1>1, <1>2, <1>3, <1>4, <1>5, <1>6, <1>7, <1>8, <1>9, <1>10 DEF Worker

\* The step of the induction.
LEMMA PartsStep ==
  ASSUME TypeOK, ContractInv, PartsInv, [Next]_vars PROVE PartsInv'
<1>1. CASE CallFails \/ CacheAdvance \/ TimerFires \/ EditObject
  <2>1. UNCHANGED madeVars /\ pc' \in {pc, "idle"}
    BY <1>1 DEF CallFails, CacheAdvance, TimerFires, EditObject, Finish
  <2>2. QED BY <2>1, PartsKept
<1>2. CASE Restart
  BY <1>2 DEF Restart, PartsInv, MachineHasParts
<1>3. CASE ViewAdvance
  BY <1>3 DEF ViewAdvance, PartsInv, MachineHasParts
<1>4. CASE WorldChanges
  <2>1. machine'.ver = machine.ver
    BY <1>4 DEF WorldChanges, TypeOK, Machine
  <2>2. UNCHANGED <<ca, kubeconfig, config, configView, infraMachine, pc>>
    BY <1>4 DEF WorldChanges
  <2>3. QED BY <2>1, <2>2 DEF PartsInv, MachineHasParts
<1>5. CASE UNCHANGED vars
  BY <1>5, PartsKept DEF vars
<1>6. QED BY <1>1, <1>2, <1>3, <1>4, <1>5, WorkerKeepsParts DEF Next

\* For every staleness of the caches and any number of failures and restarts:
\* no Machine exists without everything it needs.
THEOREM MachineComesLast == Spec => []MachineHasParts
<1>1. Init => PartsInv
  BY DEF Init, NoMachine, PartsInv, MachineHasParts
<1>2. TypeOK /\ ContractInv /\ PartsInv /\ [Next]_vars => PartsInv'
  BY PartsStep
<1>3. PartsInv => MachineHasParts
  BY DEF PartsInv
<1>4. QED BY <1>1, <1>2, <1>3, ContractInvariant, TypeCorrect, PTL DEF Spec
-----------------------------------------------------------------------------
(***************************************************************************)
(* What is built leads to the infrastructure's one endpoint, and nothing   *)
(* answers for a control plane whose Machine the cache has not shown.      *)
(***************************************************************************)

Leads(endpoint) == endpoint \in {None, infra}

SecretsLead == Leads(kubeconfig) /\ Leads(config) /\ Leads(configView)

CopiesLead == Leads(w.cp.ep) /\ \A i \in 1..Len(hist) : Leads(hist[i].ep)

\* A probe, a ready Machine or the initialized latch: somebody has seen it run.
SeenRunning == machine.ready \/ machineView.ready \/ probe \/ w.probe \/ Api.init

MachineShown ==
  /\ machineView.ver # 0 => machine.ver # 0
  /\ SeenRunning => machineView.ver # 0

BuildInv ==
  /\ SecretsLead /\ CopiesLead /\ MachineShown
  /\ pc \in AfterEndpoint \cup {"endpoint"} => w.ep = infra

\* A write of an object that leads to the infrastructure's endpoint.
LEMMA WriteLeads ==
  ASSUME HistOK, NEW new \in CP, Write(new), UNCHANGED infra, Leads(new.ep),
         \A i \in 1..Len(hist) : Leads(hist[i].ep)
  PROVE  (\A i \in 1..Len(hist) : Leads(hist[i].ep))'
<1>1. CASE new = Api
  BY <1>1 DEF Write, Leads
<1>2. CASE new # Api
  <2>1. hist' = Append(hist, new) /\ hist \in Seq(CP) /\ Len(hist) \in Nat
    BY <1>2 DEF Write, HistOK
  <2>2. /\ Len(hist') = Len(hist) + 1
        /\ \A i \in 1..Len(hist) : hist'[i] = hist[i]
        /\ hist'[Len(hist) + 1] = new
    BY <2>1
  <2>3. ASSUME NEW i \in 1..Len(hist') PROVE Leads(hist'[i].ep)
    BY <2>1, <2>2, <2>3
  <2>4. QED BY <2>3 DEF Leads
<1>3. QED BY <1>1, <1>2

\* A patch of one of the worker's wanted objects.
LEMMA PatchLeads ==
  ASSUME TypeOK, BuildInv, NEW a \in CP, Write(Patched(a)), Leads(a.ep),
         a.init => w.cp.init \/ machineView.ver # 0,
         UNCHANGED <<infra, probe, kubeconfig, config, configView, machine, machineView>>
  PROVE  /\ SecretsLead' /\ (\A i \in 1..Len(hist) : Leads(hist[i].ep))'
         /\ Leads(Patched(a).ep)
         /\ ((Api.init)' => machineView.ver # 0)
<1>1. HistOK /\ Api \in CP /\ w.cp \in CP /\ Leads(Api.ep)
  <2>1. HistOK /\ w.cp \in CP
    BY DEF TypeOK, HistOK, Local
  <2>2. QED BY <2>1, ApiType DEF BuildInv, CopiesLead, Api
<1>2. /\ Patched(a) \in CP
      /\ Patched(a).ep = Merged(w.cp.ep, a.ep, Api.ep)
      /\ Patched(a).init = Merged(w.cp.init, a.init, Api.init)
  BY PatchedFields
<1>3. Leads(Patched(a).ep)
  BY <1>1, <1>2 DEF Merged
<1>4. Api' = Patched(a) /\ (\A i \in 1..Len(hist) : Leads(hist[i].ep))'
  BY <1>1, <1>2, <1>3, WriteType, WriteLeads DEF BuildInv, CopiesLead
<1>5. Patched(a).init => machineView.ver # 0
  BY <1>1, <1>2 DEF Merged, BuildInv, MachineShown, SeenRunning, CP
<1>6. SecretsLead'
  BY DEF BuildInv, SecretsLead, Leads
<1>7. QED BY <1>3, <1>4, <1>5, <1>6

\* BuildInv when the worker finishes, after a last patch or without.
LEMMA BuildAfterFinish ==
  ASSUME BuildInv, NEW r, Finish(r), SecretsLead',
         (\A i \in 1..Len(hist) : Leads(hist[i].ep))',
         (Api.init)' => machineView.ver # 0, UNCHANGED <<probe, machine, machineView>>
  PROVE  BuildInv'
<1>1. w' = NoLocal /\ pc' = "idle"
  BY DEF Finish
<1>2. NoLocal.cp.ep = None /\ NoLocal.probe = FALSE
  BY DEF NoLocal, NewCP
<1>3. CopiesLead'
  BY <1>1, <1>2 DEF CopiesLead, Leads
<1>4. MachineShown'
  BY <1>1, <1>2 DEF MachineShown, SeenRunning, BuildInv
<1>5. QED BY <1>1, <1>3, <1>4 DEF BuildInv, AfterEndpoint

\* BuildInv when the worker goes on after a patch.
LEMMA BuildAfterPatch ==
  ASSUME TypeOK, BuildInv, NEW a \in CP, Patch(a), Leads(a.ep),
         a.init => w.cp.init \/ machineView.ver # 0,
         UNCHANGED <<infra, probe, kubeconfig, config, configView, machine, machineView>>,
         pc' \in AfterEndpoint \cup {"endpoint"} => w.ep = infra
  PROVE  BuildInv'
<1>1. /\ SecretsLead' /\ (\A i \in 1..Len(hist) : Leads(hist[i].ep))'
      /\ Leads(Patched(a).ep)
      /\ ((Api.init)' => machineView.ver # 0)
  BY PatchLeads DEF Patch
<1>2. w'.cp = Patched(a) /\ w'.ep = w.ep /\ w'.probe = w.probe
  BY DEF Patch, TypeOK, Local
<1>2a. infra' = infra /\ probe' = probe /\ machine' = machine /\ machineView' = machineView
  OBVIOUS
<1>3. CopiesLead'
  <2>1. Leads(w.cp.ep)'
    BY <1>1, <1>2, <1>2a DEF Leads
  <2>2. QED BY <1>1, <2>1 DEF CopiesLead
<1>4. MachineShown'
  BY <1>1, <1>2, <1>2a DEF MachineShown, SeenRunning, BuildInv
<1>5. QED BY <1>1, <1>2, <1>3, <1>4 DEF BuildInv

\* BuildInv when the object and the worker's copy stay.
LEMMA BuildKept ==
  ASSUME BuildInv, UNCHANGED <<hist, infra>>, w'.cp = w.cp,
         w'.probe => machineView'.ver # 0, SecretsLead',
         machineView'.ver # 0 => machine'.ver # 0, machineView.ver # 0 => machineView'.ver # 0,
         machine'.ready \/ machineView'.ready \/ probe' => machineView'.ver # 0,
         pc' \in AfterEndpoint \cup {"endpoint"} => w'.ep = infra
  PROVE  BuildInv'
<1>1. CopiesLead' /\ Api' = Api
  BY DEF BuildInv, CopiesLead, Leads, Api
<1>2. MachineShown'
  BY <1>1 DEF BuildInv, MachineShown, SeenRunning
<1>3. QED BY <1>1, <1>2 DEF BuildInv

\* The worker keeps BuildInv: the latch it sets is one a running Machine backs.
LEMMA WorkerBuilds ==
  ASSUME TypeOK, ContractInv, BuildInv, Worker PROVE BuildInv'
<1>a. HistOK /\ w \in Local /\ w.cp \in CP /\ Api \in CP /\ hist[1] \in CP /\ Leads(hist[1].ep)
  <2>1. HistOK /\ w \in Local /\ w.cp \in CP
    BY DEF TypeOK, HistOK, Local
  <2>2. 1 \in 1..Len(hist)
    BY <2>1 DEF HistOK
  <2>3. QED BY <2>1, <2>2, ApiType DEF BuildInv, CopiesLead
<1>b. Leads(w.cp.ep) /\ (w.cp.init => Api.init)
  BY DEF BuildInv, CopiesLead, ContractInv, Later
<1>1. CASE StartReconcile
  <2>1. /\ w'.cp = hist[1] /\ w'.probe = probe /\ pc' = "owner"
        /\ UNCHANGED <<hist, infra, probe, kubeconfig, config, configView, machine, machineView>>
    BY <1>1 DEF StartReconcile, cpVars, envVars, madeVars
  <2>2. CopiesLead'
    BY <1>a, <2>1 DEF CopiesLead, Leads, BuildInv
  <2>3. MachineShown'
    BY <2>1 DEF MachineShown, SeenRunning, BuildInv, Api
  <2>4. SecretsLead'
    BY <2>1 DEF BuildInv, SecretsLead, Leads
  <2>5. QED BY <2>1, <2>2, <2>3, <2>4 DEF BuildInv, AfterEndpoint
<1>2. CASE PatchOwner
  <2> DEFINE s == IF w.owner THEN "True" ELSE "False"
             after == [w.cp EXCEPT !.conds.owner = s]
  <2>1. after \in CP /\ after.init = w.cp.init /\ after.ep = w.cp.ep
    BY <1>a, WantedType DEF CP
  <2>2. /\ \/ Patch(after) /\ pc' = "certs"
           \/ Write(Patched(after)) /\ Finish(TRUE)
        /\ UNCHANGED <<envVars, madeVars>>
    BY <1>2 DEF PatchOwner
  <2> HIDE DEF after, s
  <2>3. CASE Patch(after) /\ pc' = "certs"
    BY <1>b, <2>1, <2>2, <2>3, BuildAfterPatch DEF AfterEndpoint, envVars, madeVars
  <2>4. CASE Write(Patched(after)) /\ Finish(TRUE)
    <3>1. UNCHANGED <<infra, probe, kubeconfig, config, configView, machine, machineView>>
      BY <2>2 DEF envVars, madeVars
    <3>2. /\ SecretsLead' /\ (\A i \in 1..Len(hist) : Leads(hist[i].ep))'
          /\ ((Api.init)' => machineView.ver # 0)
      BY <1>b, <2>1, <2>4, <3>1, PatchLeads
    <3>3. QED BY <2>4, <3>1, <3>2, BuildAfterFinish
  <2>5. QED BY <2>2, <2>3, <2>4
<1>3. CASE Certificates
  <2>1. /\ UNCHANGED <<hist, infra, probe, kubeconfig, config, configView, machine, machineView, w>>
        /\ pc' = "infra"
    BY <1>3 DEF Certificates, cpVars, envVars
  <2>2. QED BY <2>1, BuildKept DEF BuildInv, SecretsLead, Leads, MachineShown, SeenRunning,
               AfterEndpoint
<1>4. CASE ReadInfra
  <2>1. UNCHANGED <<hist, infra, probe, kubeconfig, config, configView, machine, machineView>>
    BY <1>4 DEF ReadInfra, cpVars, envVars, madeVars
  <2>2. /\ SecretsLead' /\ (\A i \in 1..Len(hist) : Leads(hist[i].ep))'
        /\ ((Api.init)' => machineView.ver # 0)
    BY <2>1 DEF BuildInv, SecretsLead, CopiesLead, Leads, MachineShown, SeenRunning, Api
  <2>3. CASE infra = "absent"
    <3>1. Finish(TRUE)
      BY <1>4, <2>3 DEF ReadInfra
    <3>2. QED BY <2>1, <2>2, <3>1, BuildAfterFinish
  <2>4. CASE infra # "absent"
    <3>1. w' = [w EXCEPT !.ep = infra]
      BY <1>4, <2>4 DEF ReadInfra
    <3>2. w'.cp = w.cp /\ w'.ep = infra /\ w'.probe = w.probe
      BY <1>a, <3>1 DEF Local
    <3>3. QED BY <2>1, <2>2, <3>2, BuildKept DEF BuildInv, MachineShown, SeenRunning
  <2>5. QED BY <2>3, <2>4
<1>5. CASE NotReady
  <2> DEFINE after == [w.cp EXCEPT !.conds.ready = "False"]
  <2>1. after \in CP /\ after.init = w.cp.init /\ after.ep = w.cp.ep
    BY <1>a, WantedType DEF CP
  <2>2. Write(Patched(after)) /\ Finish(TRUE) /\ UNCHANGED <<envVars, madeVars>>
    BY <1>5 DEF NotReady
  <2> HIDE DEF after
  <2>3. UNCHANGED <<infra, probe, kubeconfig, config, configView, machine, machineView>>
    BY <2>2 DEF envVars, madeVars
  <2>4. /\ SecretsLead' /\ (\A i \in 1..Len(hist) : Leads(hist[i].ep))'
        /\ ((Api.init)' => machineView.ver # 0)
    BY <1>b, <2>1, <2>2, <2>3, PatchLeads
  <2>5. QED BY <2>2, <2>3, <2>4, BuildAfterFinish
<1>6. CASE PatchEndpoint
  <2> DEFINE after == [w.cp EXCEPT !.ep = w.ep]
  <2>1. pc = "endpoint" /\ UNCHANGED <<envVars, madeVars>> /\ w.ep = infra
    BY <1>6 DEF PatchEndpoint, BuildInv
  <2>2. CASE w.cp.ep # w.ep
    <3>1. after \in CP /\ after.init = w.cp.init /\ after.ep = w.ep
      BY <1>a, WantedType DEF CP
    <3>2. Patch(after)
      BY <1>6, <2>2 DEF PatchEndpoint
    <3> HIDE DEF after
    <3>3. Leads(after.ep)
      BY <2>1, <3>1 DEF Leads
    <3>4. QED BY <2>1, <3>1, <3>2, <3>3, BuildAfterPatch DEF envVars, madeVars
  <2>3. CASE w.cp.ep = w.ep
    <3>1. UNCHANGED <<hist, w>>
      BY <1>6, <2>3 DEF PatchEndpoint
    <3>2. QED BY <2>1, <3>1, BuildKept DEF envVars, madeVars, BuildInv, SecretsLead, Leads,
                 MachineShown, SeenRunning
  <2>4. QED BY <2>2, <2>3
<1>7. CASE WriteKubeconfig \/ WriteConfig
  <2>1. /\ UNCHANGED <<hist, infra, probe, configView, machine, machineView, w>>
        /\ pc \in AfterEndpoint
    BY <1>7 DEF WriteKubeconfig, WriteConfig, cpVars, envVars, AfterEndpoint
  <2>2. w.ep = infra
    BY <2>1 DEF BuildInv
  <2>3. kubeconfig' \in {kubeconfig, w.ep} /\ config' \in {config, w.ep}
    BY <1>7, CreateOrPatchOneOf DEF WriteKubeconfig, WriteConfig
  <2>4. SecretsLead'
    BY <2>1, <2>2, <2>3 DEF SecretsLead, Leads, BuildInv
  <2>5. QED BY <2>1, <2>2, <2>4, BuildKept DEF BuildInv, MachineShown, SeenRunning
<1>8. CASE WriteInfraMachine
  <2>1. UNCHANGED <<hist, infra, probe, kubeconfig, config, configView, machine, machineView>>
        /\ pc = "infraMachine"
    BY <1>8 DEF WriteInfraMachine, cpVars, envVars
  <2>2. /\ SecretsLead' /\ (\A i \in 1..Len(hist) : Leads(hist[i].ep))'
        /\ ((Api.init)' => machineView.ver # 0)
    BY <2>1 DEF BuildInv, SecretsLead, CopiesLead, Leads, MachineShown, SeenRunning, Api
  <2>3. Finish(TRUE) \/ UNCHANGED w
    BY <1>8 DEF WriteInfraMachine
  <2>4. QED BY <2>1, <2>2, <2>3, BuildAfterFinish, BuildKept DEF BuildInv, MachineShown,
               SeenRunning, AfterEndpoint
<1>9. CASE WriteMachine
  <2>1. /\ UNCHANGED <<hist, infra, probe, kubeconfig, config, configView, machineView, w>>
        /\ pc \in AfterEndpoint
    BY <1>9 DEF WriteMachine, cpVars, envVars, AfterEndpoint
  <2>2. /\ machine'.ready = machine.ready
        /\ machine'.ver = CreateOrPatch(0, machineView.ver, machine.ver, w.cp.version)
    BY <1>9 DEF WriteMachine, TypeOK, Machine
  <2>3. w.cp.version # 0
    BY <1>a, ConstantsAssumption DEF CP
  <2>4. machine.ver # 0 => machine'.ver # 0
    BY <2>2, <2>3, CreateOrPatchOneOf
  <2>5. SecretsLead'
    BY <2>1 DEF SecretsLead, Leads, BuildInv
  <2>6. QED BY <2>1, <2>2, <2>4, <2>5, BuildKept DEF BuildInv, MachineShown, SeenRunning
<1>10. CASE ReconcileInitialized
  <2> DEFINE after == [w.cp EXCEPT !.init = TRUE]
  <2>1. pc = "initialized" /\ UNCHANGED <<envVars, madeVars>> /\ w.ep = infra
    BY <1>10 DEF ReconcileInitialized, BuildInv, AfterEndpoint
  <2>2. CASE ~w.cp.init /\ (w.probe \/ machineView.ready)
    <3>1. after \in CP /\ after.ep = w.cp.ep
      BY <1>a, WantedType DEF CP
    <3>2. Patch(after)
      BY <1>10, <2>2 DEF ReconcileInitialized
    <3> HIDE DEF after
    <3>3. machineView.ver # 0
      BY <2>2 DEF BuildInv, MachineShown, SeenRunning
    <3>4. QED BY <1>b, <2>1, <3>1, <3>2, <3>3, BuildAfterPatch DEF envVars, madeVars
  <2>3. CASE ~(~w.cp.init /\ (w.probe \/ machineView.ready))
    <3>1. UNCHANGED <<hist, w>>
      BY <1>10, <2>3 DEF ReconcileInitialized
    <3>2. QED BY <2>1, <3>1, BuildKept DEF envVars, madeVars, BuildInv, SecretsLead, Leads,
                 MachineShown, SeenRunning
  <2>4. QED BY <2>2, <2>3
<1>11. CASE PatchReady
  <2> DEFINE after == [w.cp EXCEPT !.conds.ready = "True", !.sver = w.cp.version]
  <2>1. after \in CP /\ after.init = w.cp.init /\ after.ep = w.cp.ep
    BY <1>a, WantedType DEF CP
  <2>2. Write(Patched(after)) /\ Finish(FALSE) /\ UNCHANGED <<envVars, madeVars>>
    BY <1>11 DEF PatchReady
  <2> HIDE DEF after
  <2>3. UNCHANGED <<infra, probe, kubeconfig, config, configView, machine, machineView>>
    BY <2>2 DEF envVars, madeVars
  <2>4. /\ SecretsLead' /\ (\A i \in 1..Len(hist) : Leads(hist[i].ep))'
        /\ ((Api.init)' => machineView.ver # 0)
    BY <1>b, <2>1, <2>2, <2>3, PatchLeads
  <2>5. QED BY <2>2, <2>3, <2>4, BuildAfterFinish
<1>12. QED
  BY <1>1, <1>2, <1>3, <1>4, <1>5, <1>6, <1>7, <1>8, <1>9, <1>10, <1>11 DEF Worker

\* Somebody else's write of the object: what it leads to and the latch stay.
LEMMA BuildAfterEdit ==
  ASSUME TypeOK, BuildInv, NEW new \in CP, Write(new), new.ep = Api.ep, new.init = Api.init,
         UNCHANGED <<infra, probe, madeVars, pc, w>>
  PROVE  BuildInv'
<1>1. HistOK /\ Len(hist) \in 1..Len(hist)
  BY ApiType DEF TypeOK, HistOK
<1>2. Leads(new.ep) /\ \A i \in 1..Len(hist) : Leads(hist[i].ep)
  BY <1>1 DEF BuildInv, CopiesLead, Api
<1>3. Api' = new /\ (\A i \in 1..Len(hist) : Leads(hist[i].ep))'
  BY <1>1, <1>2, WriteType, WriteLeads
<1>4. CopiesLead' /\ SecretsLead'
  BY <1>3 DEF BuildInv, CopiesLead, SecretsLead, Leads, madeVars
<1>5. MachineShown'
  BY <1>3 DEF BuildInv, MachineShown, SeenRunning, madeVars
<1>6. QED BY <1>4, <1>5 DEF BuildInv

\* The step of the induction.
LEMMA BuildStep ==
  ASSUME TypeOK, ContractInv, BuildInv, [Next]_vars PROVE BuildInv'
<1>a. HistOK /\ Len(hist) \in 1..Len(hist)
  BY ApiType DEF TypeOK, HistOK
<1>b. /\ \A i \in 1..Len(hist) : Leads(hist[i].ep)
      /\ Api.init => machineView.ver # 0
  BY DEF BuildInv, CopiesLead, MachineShown, SeenRunning
<1>1. CASE CallFails
  <2>1. Finish(TRUE) /\ UNCHANGED <<hist, infra, probe, madeVars>>
    BY <1>1 DEF CallFails, cpVars, envVars
  <2>2. SecretsLead' /\ (\A i \in 1..Len(hist) : Leads(hist[i].ep))' /\ Api' = Api
    BY <1>b, <2>1 DEF BuildInv, SecretsLead, Leads, madeVars, Api
  <2>3. QED BY <1>b, <2>1, <2>2, BuildAfterFinish DEF madeVars
<1>2. CASE Restart
  <2>1. /\ Len(hist') = 1 /\ hist'[1] = Api /\ Api' = Api /\ w' = NoLocal /\ pc' = "idle"
        /\ UNCHANGED <<infra, probe, kubeconfig, config, machine>>
        /\ configView' = config /\ machineView' = machine
    BY <1>2 DEF Restart, envVars, Api
  <2>2. NoLocal.cp.ep = None /\ NoLocal.probe = FALSE
    BY DEF NoLocal, NewCP
  <2>3. CopiesLead' /\ SecretsLead'
    BY <1>a, <1>b, <2>1, <2>2 DEF CopiesLead, SecretsLead, Leads, BuildInv, Api
  <2>4. MachineShown'
    BY <2>1, <2>2 DEF MachineShown, SeenRunning, BuildInv
  <2>5. QED BY <2>1, <2>3, <2>4 DEF BuildInv, AfterEndpoint
<1>3. CASE CacheAdvance
  <2>1. /\ hist' = Tail(hist) /\ Len(hist) > 1 /\ hist \in Seq(CP)
        /\ UNCHANGED <<infra, probe, madeVars, pc, w>>
    BY <1>3, <1>a DEF CacheAdvance, HistOK, envVars
  <2>2. Len(hist') = Len(hist) - 1 /\ \A i \in 1..Len(hist) - 1 : hist'[i] = hist[i + 1]
    BY <2>1
  <2>3. Api' = Api
    BY <1>3, <1>a, TailKeepsApi
  <2>4. \A i \in 1..Len(hist') : Leads(hist'[i].ep)
    BY <1>b, <2>1, <2>2
  <2>5. CopiesLead' /\ SecretsLead'
    BY <2>1, <2>4 DEF BuildInv, CopiesLead, SecretsLead, Leads, madeVars
  <2>6. MachineShown'
    BY <2>1, <2>3 DEF BuildInv, MachineShown, SeenRunning, madeVars
  <2>7. QED BY <2>1, <2>5, <2>6 DEF BuildInv
<1>4. CASE ViewAdvance \/ TimerFires \/ UNCHANGED vars
  <2>1. /\ UNCHANGED <<hist, infra, probe, kubeconfig, config, machine, pc, w>>
        /\ configView' \in {config, configView} /\ machineView' \in {machine, machineView}
    BY <1>4 DEF ViewAdvance, TimerFires, vars, cpVars, envVars, madeVars
  <2>2. SecretsLead'
    BY <2>1 DEF BuildInv, SecretsLead, Leads
  <2>3. QED BY <2>1, <2>2, BuildKept DEF BuildInv, MachineShown, SeenRunning
<1>5. CASE EditObject
  <2>1. PICK new \in CP : Write(new) /\ new.init = Api.init /\ new.ep = Api.ep
    BY <1>5, <1>a, EditType
  <2>2. UNCHANGED <<infra, probe, madeVars, pc, w>>
    BY <1>5 DEF EditObject, envVars
  <2>3. QED BY <2>1, <2>2, BuildAfterEdit
<1>6. CASE WorldChanges
  <2>1. UNCHANGED <<hist, kubeconfig, config, configView, machineView, pc, w>>
    BY <1>6 DEF WorldChanges, cpVars
  <2>2. machine'.ver = machine.ver /\ (probe' \/ machine'.ready =>
                                         probe \/ machine.ready \/ machineView.ver # 0)
    BY <1>6 DEF WorldChanges, TypeOK, Machine, envVars
  <2>3. infra' = infra \/ infra \notin Endpoints
    BY <1>6 DEF WorldChanges, envVars
  <2>4. \A e \in Endpoints \cup {None} : Leads(e) => Leads(e)'
    BY <2>3 DEF Leads
  <2>5. /\ kubeconfig \in Endpoints \cup {None} /\ config \in Endpoints \cup {None}
        /\ configView \in Endpoints \cup {None} /\ w.cp.ep \in Endpoints \cup {None}
    BY DEF TypeOK, Local, CP
  <2>5a. ASSUME NEW i \in 1..Len(hist) PROVE hist[i].ep \in Endpoints \cup {None}
    <3>1. hist[i] \in CP
      BY <1>a DEF HistOK
    <3>2. QED BY <3>1 DEF CP
  <2>6. SecretsLead' /\ CopiesLead'
    BY <2>1, <2>4, <2>5, <2>5a DEF BuildInv, SecretsLead, CopiesLead, Leads
  <2>7. MachineShown'
    BY <2>1, <2>2 DEF BuildInv, MachineShown, SeenRunning, Api
  <2>8. pc \in AfterEndpoint \cup {"endpoint"} => w.ep \in Endpoints /\ w.ep = infra
    BY DEF ContractInv, BuildInv
  <2>9. QED BY <2>1, <2>3, <2>6, <2>7, <2>8 DEF BuildInv
<1>7. QED
  BY <1>1, <1>2, <1>3, <1>4, <1>5, <1>6, WorkerBuilds DEF Next

-----------------------------------------------------------------------------
(***************************************************************************)
(* Rest.  With nothing queued and nothing undelivered the worker's copy is *)
(* the object, and what it wrote in this run, it wrote from this object.   *)
(***************************************************************************)

\* Nothing but the worker's own timer is left to make it run again.
Calm == ~queued /\ Len(hist) = 1

Current == Calm /\ pc # "idle" => w.cp = Api

\* What the run has done for the object as it is.
Written ==
  /\ pc \notin {"idle", "owner"} => Api.conds.owner = "True"
  /\ pc \in AfterEndpoint => Api.ep = w.ep
  /\ pc \in AfterEndpoint \ {"kubeconfig"} => kubeconfig = w.ep
  /\ pc \in {"infraMachine", "machine", "initialized", "ready"} => config = w.ep
  /\ pc = "ready" => Api.init

Progress == Calm => Written

\* What a worker that asks for no other run leaves behind.
Outcome ==
  /\ infra \in Endpoints /\ Api.ep = infra /\ kubeconfig = infra /\ config = infra
  /\ Api.conds = [ready |-> "True", owner |-> "True"]
  /\ Api.init /\ Api.sver = Api.version

Final == Calm /\ pc = "idle" /\ ~timer => Outcome

RestInv == Current /\ Progress /\ Final

\* Whatever will make the worker run again excuses everything.
LEMMA RestStirred ==
  ASSUME ~Calm' PROVE RestInv'
BY DEF RestInv, Current, Progress, Final

\* A run that ends with a retry, whatever became of it.
LEMMA RestRetried ==
  ASSUME pc' = "idle", timer' PROVE RestInv'
BY DEF RestInv, Current, Progress, Final, Written, AfterEndpoint

\* A step that leaves the object one version long has left it alone.
LEMMA CalmWrite ==
  ASSUME HistOK, NEW new \in CP, Write(new), Len(hist') = 1
  PROVE  hist' = hist /\ Api = new /\ Api' = Api
<1>1. CASE new # Api
  <2>1. hist' = Append(hist, new)
    BY <1>1 DEF Write
  <2>2. Len(hist') = Len(hist) + 1 /\ Len(hist) \in Nat /\ Len(hist) > 0
    BY <2>1 DEF HistOK
  <2>3. QED BY <2>2
<1>2. CASE new = Api
  BY <1>2 DEF Write, Api
<1>3. QED BY <1>1, <1>2

\* A patch that makes no new version found the object as wanted.
LEMMA CalmPatch ==
  ASSUME TypeOK, RestInv, NEW a \in CP, Write(Patched(a)), Calm', UNCHANGED queued, pc # "idle"
  PROVE  /\ hist' = hist /\ Api' = Api /\ Patched(a) = Api /\ Calm /\ w.cp = Api
         /\ Api.ep = a.ep /\ Api.init = a.init /\ Api.sver = a.sver /\ Api.conds = a.conds
<1>1. Patched(a) \in CP /\ HistOK /\ Api \in CP
  BY PatchedFields, ApiType DEF TypeOK, HistOK
<1>2. hist' = hist /\ Api = Patched(a) /\ Api' = Api
  BY <1>1, CalmWrite DEF Calm
<1>3. Calm /\ w.cp = Api
  BY <1>2 DEF Calm, RestInv, Current
<1> DEFINE e == Merged(Api.ep, a.ep, Api.ep)
           i == Merged(Api.init, a.init, Api.init)
           v == Merged(Api.sver, a.sver, Api.sver)
           c == Merged(Api.conds, a.conds, Api.conds)
<1>4. Api = [Api EXCEPT !.ep = e, !.init = i, !.sver = v, !.conds = c]
  BY <1>2, <1>3 DEF Patched
<1>5. e = a.ep /\ i = a.init /\ v = a.sver /\ c = a.conds
  BY DEF Merged
<1> HIDE DEF e, i, v, c
<1>6. Api.ep = e /\ Api.init = i /\ Api.sver = v /\ Api.conds = c
  BY <1>1, <1>4 DEF CP
<1>7. QED BY <1>2, <1>3, <1>5, <1>6

\* The worker at rest has written what its object says, in every field.
LEMMA WorkerRests ==
  ASSUME TypeOK, ContractInv, PartsInv, BuildInv, RestInv, Worker PROVE RestInv'
<1> SUFFICES ASSUME Calm' PROVE RestInv'
  BY RestStirred
<1>a. w \in Local /\ w.cp \in CP /\ Api \in CP /\ HistOK
  BY ApiType DEF TypeOK, HistOK, Local
<1>1. CASE StartReconcile
  <2>1. hist' = hist /\ Api' = Api /\ w'.cp = hist[1] /\ pc' = "owner" /\ Api = hist[1]
    BY <1>1 DEF StartReconcile, cpVars, Api, Calm
  <2>2. QED BY <2>1 DEF RestInv, Current, Progress, Final, Written, AfterEndpoint
<1>2. CASE PatchOwner
  <2> DEFINE s == IF w.owner THEN "True" ELSE "False"
             after == [w.cp EXCEPT !.conds.owner = s]
  <2>1. after \in CP /\ after.conds.owner = s
    BY <1>a, WantedType DEF CP
  <2>2. /\ pc = "owner" /\ UNCHANGED queued
        /\ IF w.owner THEN Patch(after) /\ pc' = "certs" ELSE Finish(TRUE)
    BY <1>2 DEF PatchOwner
  <2> HIDE DEF after
  <2>3. CASE ~w.owner
    BY <2>2, <2>3, RestRetried DEF Finish
  <2>4. CASE w.owner
    <3>1. Patch(after) /\ pc' = "certs" /\ s = "True"
      BY <2>2, <2>4
    <3>2. Api' = Api /\ Patched(after) = Api /\ Api.conds = after.conds
      BY <2>1, <2>2, <3>1, CalmPatch DEF Patch
    <3>3. w'.cp = Api
      BY <2>1, <3>1, <3>2, PatchType
    <3>4. QED BY <2>1, <3>1, <3>2, <3>3 DEF RestInv, Current, Progress, Final, Written, AfterEndpoint
  <2>5. QED BY <2>3, <2>4
<1>3. CASE Certificates \/ WriteKubeconfig \/ WriteConfig \/ WriteMachine
  <2>1. UNCHANGED <<hist, infra, queued, timer, w>> /\ Api' = Api
    BY <1>3 DEF Certificates, WriteKubeconfig, WriteConfig, WriteMachine, cpVars, envVars, Api
  <2>2. Calm
    BY <2>1 DEF Calm
  <2>3. CASE Certificates
    BY <2>1, <2>2, <2>3 DEF Certificates, RestInv, Current, Progress, Final, Written, AfterEndpoint
  <2>4. CASE WriteKubeconfig
    BY <2>1, <2>2, <2>4 DEF WriteKubeconfig, RestInv, Current, Progress, Final, Written, AfterEndpoint
  <2>5. CASE WriteConfig
    <3>1. w.ep = infra /\ w.ep \in Endpoints /\ Leads(config) /\ Leads(configView) /\ pc = "config"
      BY <2>5 DEF WriteConfig, BuildInv, ContractInv, SecretsLead, AfterEndpoint
    <3>2. config' = w.ep
      BY <2>5, <3>1, ConstantsAssumption DEF WriteConfig, CreateOrPatch, Merged, Leads, PartsInv
    <3>3. QED BY <2>1, <2>2, <2>5, <3>2 DEF WriteConfig, RestInv, Current, Progress, Final,
                 Written, AfterEndpoint
  <2>6. CASE WriteMachine
    BY <2>1, <2>2, <2>6 DEF WriteMachine, RestInv, Current, Progress, Final, Written, AfterEndpoint
  <2>7. QED BY <1>3, <2>3, <2>4, <2>5, <2>6
<1>4. CASE ReadInfra
  <2>1. UNCHANGED <<hist, queued>> /\ Api' = Api /\ pc = "infra"
    BY <1>4 DEF ReadInfra, cpVars, Api
  <2>2. CASE infra = "absent"
    BY <1>4, <2>2, RestRetried DEF ReadInfra, Finish
  <2>3. CASE infra # "absent"
    <3>1. /\ w' = [w EXCEPT !.ep = infra]
          /\ pc' \in {"notReady", "endpoint"}
      BY <1>4, <2>3 DEF ReadInfra
    <3>2. w'.cp = w.cp
      BY <1>a, <3>1 DEF Local
    <3>3. Calm
      BY <2>1 DEF Calm
    <3>4. QED BY <2>1, <3>1, <3>2, <3>3 DEF RestInv, Current, Progress, Final, Written, AfterEndpoint
  <2>4. QED BY <2>2, <2>3
<1>5. CASE NotReady
  BY <1>5, RestRetried DEF NotReady, Finish
<1>6. CASE PatchEndpoint
  <2> DEFINE after == [w.cp EXCEPT !.ep = w.ep]
  <2>1. pc = "endpoint" /\ pc' = "kubeconfig" /\ UNCHANGED queued
    BY <1>6 DEF PatchEndpoint
  <2>2. CASE w.cp.ep # w.ep
    <3>1. after \in CP /\ after.ep = w.ep
      BY <1>a, WantedType DEF CP
    <3>2. Patch(after)
      BY <1>6, <2>2 DEF PatchEndpoint
    <3> HIDE DEF after
    <3>3. Api' = Api /\ Patched(after) = Api /\ Api.ep = after.ep /\ Calm
      BY <2>1, <3>1, <3>2, CalmPatch DEF Patch
    <3>4. w'.cp = Api /\ w'.ep = w.ep
      BY <3>1, <3>2, <3>3, PatchType
    <3>5. QED BY <2>1, <3>1, <3>3, <3>4 DEF RestInv, Current, Progress, Final, Written, AfterEndpoint
  <2>3. CASE w.cp.ep = w.ep
    <3>1. UNCHANGED <<hist, w>> /\ Api' = Api
      BY <1>6, <2>3 DEF PatchEndpoint, Api
    <3>2. Calm
      BY <2>1, <3>1 DEF Calm
    <3>3. w.cp = Api
      BY <2>1, <3>2 DEF RestInv, Current
    <3>4. QED BY <2>1, <2>3, <3>1, <3>2, <3>3 DEF RestInv, Current, Progress, Final, Written, AfterEndpoint
  <2>4. QED BY <2>2, <2>3
<1>7. CASE WriteInfraMachine
  <2>1. UNCHANGED <<hist, kubeconfig, config, queued>> /\ Api' = Api /\ pc = "infraMachine"
    BY <1>7 DEF WriteInfraMachine, cpVars, Api
  <2>2. CASE ~template
    BY <1>7, <2>2, RestRetried DEF WriteInfraMachine, Finish
  <2>3. CASE template
    <3>1. UNCHANGED w /\ pc' = "machine"
      BY <1>7, <2>3 DEF WriteInfraMachine
    <3>2. Calm
      BY <2>1 DEF Calm
    <3>3. QED BY <2>1, <3>1, <3>2 DEF RestInv, Current, Progress, Final, Written, AfterEndpoint
  <2>4. QED BY <2>2, <2>3
<1>8. CASE ReconcileInitialized
  <2> DEFINE after == [w.cp EXCEPT !.init = TRUE]
             reached == w.probe \/ machineView.ready
  <2>1. /\ pc = "initialized" /\ UNCHANGED <<kubeconfig, config, queued>>
        /\ pc' = IF w.cp.init \/ reached THEN "ready" ELSE "notReady"
    BY <1>8 DEF ReconcileInitialized, madeVars
  <2>2. CASE ~w.cp.init /\ reached
    <3>1. after \in CP /\ after.init
      BY <1>a, WantedType DEF CP
    <3>2. Patch(after)
      BY <1>8, <2>2 DEF ReconcileInitialized
    <3> HIDE DEF after
    <3>3. Api.init = after.init /\ w.cp = Api
      BY <2>1, <3>1, <3>2, CalmPatch DEF Patch
    <3>4. QED BY <2>2, <3>1, <3>3
  <2>3. CASE ~(~w.cp.init /\ reached)
    <3>1. UNCHANGED <<hist, w>> /\ Api' = Api
      BY <1>8, <2>3 DEF ReconcileInitialized, Api
    <3>2. Calm
      BY <2>1, <3>1 DEF Calm
    <3>3. w.cp = Api
      BY <2>1, <3>2 DEF RestInv, Current
    <3>4. pc' = "ready" => Api.init
      BY <2>1, <2>3, <3>3
    <3> HIDE DEF reached
    <3>5. pc' \in {"ready", "notReady"}
      BY <2>1
    <3>6. QED BY <2>1, <3>1, <3>2, <3>3, <3>4, <3>5 DEF RestInv, Current, Progress, Final,
                 Written, AfterEndpoint
  <2>4. QED BY <2>2, <2>3
<1>9. CASE PatchReady
  <2> DEFINE after == [w.cp EXCEPT !.conds.ready = "True", !.sver = w.cp.version]
  <2>1. /\ after \in CP /\ after.conds = [w.cp.conds EXCEPT !.ready = "True"]
        /\ after.sver = w.cp.version
    BY <1>a, WantedType DEF CP
  <2>2. /\ Write(Patched(after)) /\ pc = "ready" /\ pc' = "idle"
        /\ UNCHANGED <<infra, kubeconfig, config, queued>>
    BY <1>9 DEF PatchReady, Finish, envVars, madeVars
  <2> HIDE DEF after
  <2>3. /\ Api' = Api /\ Calm /\ w.cp = Api
        /\ Api.sver = after.sver /\ Api.conds = after.conds
    BY <2>1, <2>2, CalmPatch
  <2>4. w.ep = infra /\ w.ep \in Endpoints
    BY <2>2 DEF ContractInv, BuildInv, AfterEndpoint
  <2>5. /\ Api.conds.owner = "True" /\ Api.ep = w.ep /\ kubeconfig = w.ep
        /\ config = w.ep /\ Api.init
    BY <2>2, <2>3 DEF RestInv, Progress, Written, AfterEndpoint
  <2>6. Api.conds = [ready |-> "True", owner |-> "True"]
    <3>1. Api.conds = [Api.conds EXCEPT !.ready = "True"]
      BY <2>1, <2>3
    <3>2. Api.conds \in [ready: {"absent", "True", "False"}, owner: {"absent", "True", "False"}]
      BY <1>a DEF CP
    <3>3. Api.conds.ready = "True"
      BY <3>1, <3>2
    <3>4. QED BY <2>5, <3>2, <3>3
  <2>7. Outcome'
    BY <2>1, <2>2, <2>3, <2>4, <2>5, <2>6 DEF Outcome
  <2>8. QED BY <2>2, <2>7 DEF RestInv, Current, Progress, Final, Written, AfterEndpoint
<1>10. QED
  BY <1>1, <1>2, <1>3, <1>4, <1>5, <1>6, <1>7, <1>8, <1>9 DEF Worker

\* A write by somebody else is a version that the cache has yet to deliver.
LEMMA RestAfterEdit ==
  ASSUME TypeOK, RestInv, NEW new \in CP, Write(new),
         UNCHANGED <<infra, kubeconfig, config, queued, timer, pc, w>>
  PROVE  RestInv'
<1> SUFFICES ASSUME Calm' PROVE RestInv'
  BY RestStirred
<1>1. hist' = hist /\ Api' = Api
  BY CalmWrite DEF TypeOK, HistOK, Calm
<1>2. Calm
  BY <1>1 DEF Calm
<1>3. QED BY <1>1, <1>2 DEF RestInv, Current, Progress, Final, Written, Outcome

\* The step of the induction.
LEMMA RestStep ==
  ASSUME TypeOK, ContractInv, PartsInv, BuildInv, RestInv, [Next]_vars PROVE RestInv'
<1>1. CASE CallFails
  BY <1>1, RestRetried DEF CallFails, Finish
<1>2. CASE Restart \/ CacheAdvance \/ TimerFires
  BY <1>2, RestStirred DEF Restart, CacheAdvance, TimerFires, Calm
<1>3. CASE ViewAdvance \/ UNCHANGED vars
  <2>1. UNCHANGED <<hist, infra, kubeconfig, config, queued, timer, pc, w>>
    BY <1>3 DEF ViewAdvance, vars, cpVars, envVars, madeVars
  <2>2. QED BY <2>1 DEF RestInv, Current, Progress, Final, Written, Outcome, Calm, Api
<1>4. CASE EditObject
  <2>1. PICK new \in CP : Write(new)
    BY <1>4, EditType
  <2>2. UNCHANGED <<infra, kubeconfig, config, queued, timer, pc, w>>
    BY <1>4 DEF EditObject, envVars, madeVars
  <2>3. QED BY <2>1, <2>2, RestAfterEdit
<1>5. CASE WorldChanges
  <2>1. UNCHANGED <<hist, kubeconfig, config, queued, timer, pc, w>>
    BY <1>5 DEF WorldChanges, cpVars
  <2>2. infra' = infra \/ infra \notin Endpoints
    BY <1>5 DEF WorldChanges, envVars
  <2>3. QED BY <2>1, <2>2 DEF RestInv, Current, Progress, Final, Written, Outcome, Calm, Api
<1>6. QED
  BY <1>1, <1>2, <1>3, <1>4, <1>5, WorkerRests DEF Next

-----------------------------------------------------------------------------
(***************************************************************************)
(* The Machine's version.  Unless the user takes a version back, no cache  *)
(* is ahead of the Machine and the Machine not of the object, so that the  *)
(* difference to an outdated copy is never lost.                           *)
(***************************************************************************)

Ordered ==
  /\ machineView.ver <= machine.ver /\ machine.ver <= Api.version
  /\ pc \notin {"idle", "owner"} => machine.ver <= w.cp.version /\ w.cp.version <= Api.version

MachineCurrent ==
  /\ Calm /\ pc \in {"initialized", "ready"} /\ Api.init => machine.ver = Api.version
  /\ Calm /\ pc = "idle" /\ ~timer => machine.ver = Api.version

VersionInv == Ordered /\ MachineCurrent

\* The versions compared are numbers.
LEMMA VersionNumbers ==
  ASSUME TypeOK
  PROVE  /\ machine.ver \in Nat /\ machineView.ver \in Nat
         /\ Api.version \in Nat \ {0} /\ w.cp.version \in Nat
<1>1. Api \in CP /\ w.cp \in CP /\ machine \in Machine /\ machineView \in Machine
  BY ApiType DEF TypeOK, HistOK, Local
<1>2. /\ machine.ver \in Versions \cup {0} /\ machineView.ver \in Versions \cup {0}
      /\ Api.version \in Versions /\ w.cp.version \in Versions
  BY <1>1 DEF CP, Machine
<1>3. \A v \in Versions : v \in Nat \ {0}
  BY ConstantsAssumption
<1>4. machine.ver \in Nat /\ machineView.ver \in Nat
  BY <1>2, <1>3
<1>5. Api.version \in Nat \ {0} /\ w.cp.version \in Nat \ {0}
  BY <1>2, <1>3
<1>6. QED BY <1>4, <1>5

\* A patch leaves the spec alone.
LEMMA PatchKeepsVersion ==
  ASSUME TypeOK, NEW a \in CP, Write(Patched(a))
  PROVE  Api'.version = Api.version
<1>1. Patched(a) \in CP /\ Patched(a).version = Api.version
  BY PatchedFields
<1>2. QED BY <1>1, WriteType DEF TypeOK, HistOK

\* No step of the worker changes the version the user asked for.
LEMMA WorkerKeepsVersion ==
  ASSUME TypeOK, Worker PROVE Api'.version = Api.version
<1>1. CASE PatchOwner
  <2> DEFINE s == IF w.owner THEN "True" ELSE "False"
             after == [w.cp EXCEPT !.conds.owner = s]
  <2>1. after \in CP /\ Write(Patched(after))
    BY <1>1, WantedType DEF PatchOwner, Patch
  <2>2. QED BY <2>1, PatchKeepsVersion
<1>2. CASE NotReady
  BY <1>2, WantedType, PatchKeepsVersion DEF NotReady
<1>3. CASE PatchEndpoint
  BY <1>3, WantedType, PatchKeepsVersion DEF PatchEndpoint, Patch, Api
<1>4. CASE ReconcileInitialized
  BY <1>4, WantedType, PatchKeepsVersion DEF ReconcileInitialized, Patch, Api
<1>5. CASE PatchReady
  BY <1>5, WantedType, PatchKeepsVersion DEF PatchReady
<1>6. CASE \/ StartReconcile \/ Certificates \/ ReadInfra \/ WriteKubeconfig
           \/ WriteConfig \/ WriteInfraMachine \/ WriteMachine
  BY <1>6 DEF StartReconcile, Certificates, ReadInfra, WriteKubeconfig,
              WriteConfig, WriteInfraMachine, WriteMachine, cpVars, Api
<1>7. QED BY <1>1, <1>2, <1>3, <1>4, <1>5, <1>6 DEF Worker

\* The Machine is written from a copy that is no older than it.
LEMMA WorkerOrders ==
  ASSUME TypeOK, Ordered, Worker PROVE Ordered'
<1>a. w \in Local /\ w.cp \in CP /\ Api \in CP
  BY ApiType DEF TypeOK, HistOK, Local
<1>b. Api'.version = Api.version
  BY WorkerKeepsVersion
<1>c. /\ machine.ver \in Nat /\ machineView.ver \in Nat
      /\ Api.version \in Nat \ {0} /\ w.cp.version \in Nat
  BY VersionNumbers
<1>1. CASE StartReconcile
  BY <1>1, <1>b DEF StartReconcile, madeVars, Ordered
<1>2. CASE PatchOwner
  <2> DEFINE s == IF w.owner THEN "True" ELSE "False"
             after == [w.cp EXCEPT !.conds.owner = s]
  <2>1. after \in CP /\ UNCHANGED <<machine, machineView>> /\ (Patch(after) \/ pc' = "idle")
    BY <1>2, WantedType DEF PatchOwner, madeVars, Finish
  <2> HIDE DEF after
  <2>2. CASE pc' = "idle"
    BY <1>b, <2>1, <2>2 DEF Ordered
  <2>3. CASE Patch(after)
    <3>1. w'.cp.version = Api.version
      BY <2>1, <2>3, PatchType, PatchedFields
    <3>2. QED BY <1>b, <1>c, <2>1, <3>1 DEF Ordered
  <2>4. QED BY <2>1, <2>2, <2>3
<1>3. CASE PatchEndpoint \/ ReconcileInitialized
  <2>1. UNCHANGED <<machine, machineView>> /\ pc \notin {"idle", "owner"}
    BY <1>3 DEF PatchEndpoint, ReconcileInitialized, madeVars
  <2>2. \/ w' = w
        \/ Patch([w.cp EXCEPT !.ep = w.ep]) \/ Patch([w.cp EXCEPT !.init = TRUE])
    BY <1>3 DEF PatchEndpoint, ReconcileInitialized
  <2>3. w' = w \/ w'.cp.version = Api.version
    BY <2>2, WantedType, PatchType, PatchedFields
  <2>4. QED BY <1>b, <1>c, <2>1, <2>3 DEF Ordered
<1>4. CASE WriteMachine
  <2>1. /\ UNCHANGED <<machineView, w>> /\ pc = "machine"
        /\ machine'.ver = CreateOrPatch(0, machineView.ver, machine.ver, w.cp.version)
    BY <1>4 DEF WriteMachine, TypeOK, Machine
  <2>2. machine'.ver <= w.cp.version /\ machine.ver <= machine'.ver
    BY <1>c, <2>1 DEF Ordered, CreateOrPatch, Merged
  <2>3. machine'.ver \in Nat
    BY <1>c, <2>1, CreateOrPatchOneOf
  <2>4. QED BY <1>b, <1>c, <2>1, <2>2, <2>3 DEF Ordered
<1>5. CASE ReadInfra
  <2>1. /\ UNCHANGED <<machine, machineView>> /\ pc = "infra"
        /\ pc' = "idle" \/ w' = [w EXCEPT !.ep = infra]
    BY <1>5 DEF ReadInfra, madeVars, Finish
  <2>2. pc' = "idle" \/ w'.cp = w.cp
    BY <1>a, <2>1 DEF Local
  <2>3. QED BY <1>b, <2>1, <2>2 DEF Ordered
<1>6. CASE Certificates \/ NotReady \/ WriteKubeconfig \/ WriteConfig
           \/ WriteInfraMachine \/ PatchReady
  <2>1. UNCHANGED <<machine, machineView>> /\ pc \notin {"idle", "owner"}
        /\ (pc' = "idle" \/ w' = w)
    BY <1>6 DEF Certificates, NotReady, WriteKubeconfig, WriteConfig, WriteInfraMachine,
                PatchReady, madeVars, Finish
  <2>2. QED BY <1>b, <2>1 DEF Ordered
<1>7. QED BY <1>1, <1>2, <1>3, <1>4, <1>5, <1>6 DEF Worker

\* A worker that finds a running Machine gives it the object's version.
LEMMA WorkerIsCurrent ==
  ASSUME TypeOK, ContractInv, BuildInv, RestInv, VersionInv, Worker PROVE MachineCurrent'
<1> SUFFICES ASSUME Calm' PROVE MachineCurrent'
  BY DEF MachineCurrent
<1>a. w \in Local /\ w.cp \in CP /\ Api \in CP
  BY ApiType DEF TypeOK, HistOK, Local
<1>c. /\ machine.ver \in Nat /\ machineView.ver \in Nat
      /\ Api.version \in Nat \ {0} /\ w.cp.version \in Nat
  BY VersionNumbers
<1>1. CASE WriteMachine
  <2>1. /\ UNCHANGED <<hist, machineView, w, queued>> /\ pc = "machine" /\ pc' = "initialized"
        /\ machine'.ver = CreateOrPatch(0, machineView.ver, machine.ver, w.cp.version)
        /\ Api' = Api
    BY <1>1 DEF WriteMachine, TypeOK, Machine, cpVars, Api
  <2>2. Calm /\ w.cp = Api
    BY <2>1 DEF Calm, RestInv, Current
  <2>3. Api.init => machine'.ver = Api.version
    BY <1>c, <2>1, <2>2 DEF BuildInv, MachineShown, SeenRunning, VersionInv, Ordered,
                            CreateOrPatch, Merged
  <2>4. QED BY <2>1, <2>3 DEF MachineCurrent
<1>2. CASE ReconcileInitialized
  <2> DEFINE after == [w.cp EXCEPT !.init = TRUE]
  <2>1. /\ pc = "initialized" /\ pc' \in {"ready", "notReady"}
        /\ UNCHANGED <<machine, queued>> /\ (UNCHANGED hist \/ Patch(after))
    BY <1>2 DEF ReconcileInitialized, madeVars
  <2>2. after \in CP
    BY WantedType
  <2> HIDE DEF after
  <2>3. CASE Patch(after)
    BY <2>1, <2>2, <2>3, CalmPatch DEF Patch, MachineCurrent, VersionInv
  <2>4. CASE UNCHANGED hist
    BY <2>1, <2>4 DEF MachineCurrent, VersionInv, Calm, Api
  <2>5. QED BY <2>1, <2>3, <2>4
<1>3. CASE PatchReady
  <2> DEFINE after == [w.cp EXCEPT !.conds.ready = "True", !.sver = w.cp.version]
  <2>1. after \in CP /\ Write(Patched(after)) /\ pc = "ready" /\ pc' = "idle"
        /\ UNCHANGED <<machine, queued>>
    BY <1>3, WantedType DEF PatchReady, Finish, madeVars
  <2> HIDE DEF after
  <2>2. Api' = Api /\ Calm
    BY <2>1, CalmPatch
  <2>3. Api.init
    BY <2>1, <2>2 DEF RestInv, Progress, Written
  <2>4. QED BY <2>1, <2>2, <2>3 DEF MachineCurrent, VersionInv
<1>4. CASE \/ StartReconcile \/ PatchOwner \/ Certificates \/ ReadInfra \/ NotReady
           \/ PatchEndpoint \/ WriteKubeconfig \/ WriteConfig \/ WriteInfraMachine
  <2>1. pc' \notin {"initialized", "ready"} /\ (pc' # "idle" \/ timer')
    BY <1>4 DEF StartReconcile, PatchOwner, Certificates, ReadInfra, NotReady, PatchEndpoint,
                WriteKubeconfig, WriteConfig, WriteInfraMachine, Finish
  <2>2. QED BY <2>1 DEF MachineCurrent
<1>5. QED BY <1>1, <1>2, <1>3, <1>4 DEF Worker

\* The step of the induction.
LEMMA VersionStep ==
  ASSUME TypeOK, ContractInv, BuildInv, RestInv, VersionInv, ~May("rollback"), [Next]_vars
  PROVE  VersionInv'
<1>c. /\ machine.ver \in Nat /\ machineView.ver \in Nat
      /\ Api.version \in Nat \ {0} /\ w.cp.version \in Nat
  BY VersionNumbers
<1>1. CASE CallFails
  BY <1>1 DEF CallFails, Finish, VersionInv, Ordered, MachineCurrent, cpVars, madeVars, Api
<1>2. CASE Restart
  <2>1. Api' = Api /\ pc' = "idle" /\ queued' /\ machine' = machine /\ machineView' = machine
    BY <1>2, TailKeepsApi DEF Restart, TypeOK, HistOK
  <2>2. QED BY <1>c, <2>1 DEF VersionInv, Ordered, MachineCurrent, Calm
<1>3. CASE CacheAdvance \/ TimerFires
  <2>1. Api' = Api /\ queued' /\ UNCHANGED <<pc, w, machine, machineView>>
    BY <1>3, TailKeepsApi DEF CacheAdvance, TimerFires, TypeOK, HistOK, cpVars, madeVars, Api
  <2>2. QED BY <2>1 DEF VersionInv, Ordered, MachineCurrent, Calm
<1>4. CASE ViewAdvance \/ WorldChanges \/ UNCHANGED vars
  <2>1. UNCHANGED <<hist, pc, w, queued, timer>> /\ machine'.ver = machine.ver
        /\ machineView'.ver \in {machine.ver, machineView.ver}
    BY <1>4 DEF ViewAdvance, WorldChanges, vars, cpVars, madeVars, TypeOK, Machine
  <2>2. QED BY <1>c, <2>1 DEF VersionInv, Ordered, MachineCurrent, Calm, Api
<1>5. CASE EditObject
  <2>1. /\ UNCHANGED <<pc, w, queued, timer, machine, machineView>>
        /\ \/ \E v \in Versions : v > Api.version /\ Write([Api EXCEPT !.version = v])
           \/ Write([Api EXCEPT !.linked = TRUE])
    BY <1>5 DEF EditObject, madeVars
  <2>2. Api \in CP
    BY ApiType DEF TypeOK, HistOK
  <2>3. PICK new \in CP : Write(new) /\ Api.version <= new.version
    <3>1. CASE Write([Api EXCEPT !.linked = TRUE])
      <4> DEFINE n == [Api EXCEPT !.linked = TRUE]
      <4>1. n \in CP /\ n.version = Api.version /\ Write(n)
        BY <2>2, <3>1 DEF CP
      <4> HIDE DEF n
      <4>2. Api.version <= n.version
        BY <1>c, <4>1
      <4>3. QED BY <4>1, <4>2
    <3>2. CASE \E v \in Versions : v > Api.version /\ Write([Api EXCEPT !.version = v])
      <4>1. PICK v \in Versions : v > Api.version /\ Write([Api EXCEPT !.version = v])
        BY <3>2
      <4> DEFINE n == [Api EXCEPT !.version = v]
      <4>2. n \in CP /\ n.version = v /\ Write(n)
        BY <2>2, <4>1 DEF CP
      <4> HIDE DEF n
      <4>3. v \in Nat
        BY ConstantsAssumption
      <4>4. Api.version <= n.version
        BY <1>c, <4>1, <4>2, <4>3
      <4>5. QED BY <4>2, <4>4
    <3>3. QED BY <2>1, <3>1, <3>2
  <2>4. Api' = new /\ new.version \in Nat
    BY <2>3, WriteType, ConstantsAssumption DEF TypeOK, HistOK, CP
  <2>5. Ordered'
    BY <1>c, <2>1, <2>3, <2>4 DEF VersionInv, Ordered
  <2>6. Calm' => Calm /\ Api' = Api
    BY <2>1, <2>3, CalmWrite DEF Calm, TypeOK, HistOK
  <2>7. QED BY <2>1, <2>5, <2>6 DEF VersionInv, MachineCurrent
<1>6. CASE Worker
  BY <1>6, WorkerOrders, WorkerIsCurrent DEF VersionInv
<1>7. QED
  BY <1>1, <1>2, <1>3, <1>4, <1>5, <1>6 DEF Next

\* No lost wakeup (SettledIsBuilt): for every lag of the caches and any number of
\* failures and restarts, when the reconciler has come to rest its object is
\* ready, kubeconfig and bootstrap configuration lead to the infrastructure's
\* endpoint, and the Machine has the object's version.  A user who takes a
\* version back is left out: the difference to an outdated copy of the Machine
\* may then be empty.
THEOREM SettledBuilt ==
  ASSUME ~May("rollback") PROVE Spec => []SettledIsBuilt
<1>1. Init => PartsInv /\ BuildInv /\ RestInv /\ VersionInv
  <2> SUFFICES ASSUME Init PROVE PartsInv /\ BuildInv /\ RestInv /\ VersionInv
    OBVIOUS
  <2>1. PICK v \in Versions : hist = <<NewCP(v, ~May("link"))>>
    BY DEF Init
  <2>2. /\ Len(hist) = 1 /\ Api = hist[1] /\ Api.version = v /\ Api.ep = None
        /\ Api.init = FALSE /\ v \in Nat \ {0}
    BY <2>1, ConstantsAssumption DEF Api, NewCP
  <2>3. /\ pc = "idle" /\ queued /\ probe = FALSE /\ kubeconfig = None /\ config = None
        /\ configView = None /\ machine = NoMachine /\ machineView = NoMachine /\ w = NoLocal
    BY DEF Init
  <2>4. /\ w.cp.ep = None /\ w.probe = FALSE /\ machine.ver = 0 /\ machine.ready = FALSE
        /\ machineView.ver = 0 /\ machineView.ready = FALSE
    BY <2>3 DEF NoLocal, NewCP, NoMachine
  <2>5. PartsInv
    BY <2>3, <2>4 DEF PartsInv, MachineHasParts
  <2>6. BuildInv
    BY <2>2, <2>3, <2>4 DEF BuildInv, SecretsLead, CopiesLead, Leads, MachineShown,
                            SeenRunning, AfterEndpoint
  <2>7. RestInv /\ VersionInv
    BY <2>2, <2>3, <2>4 DEF RestInv, Current, Progress, Final, VersionInv, Ordered,
                            MachineCurrent, Calm
  <2>8. QED BY <2>5, <2>6, <2>7
<1>2. TypeOK /\ ContractInv /\ PartsInv /\ [Next]_vars => PartsInv'
  BY PartsStep
<1>3. TypeOK /\ ContractInv /\ BuildInv /\ [Next]_vars => BuildInv'
  BY BuildStep
<1>4. TypeOK /\ ContractInv /\ PartsInv /\ BuildInv /\ RestInv /\ [Next]_vars => RestInv'
  BY RestStep
<1>5. TypeOK /\ ContractInv /\ BuildInv /\ RestInv /\ VersionInv /\ [Next]_vars => VersionInv'
  BY VersionStep
<1>6. RestInv /\ VersionInv => SettledIsBuilt
  BY DEF RestInv, Final, Calm, Outcome, VersionInv, MachineCurrent, Settled, SettledIsBuilt
<1>7. QED
  BY <1>1, <1>2, <1>3, <1>4, <1>5, <1>6, ContractInvariant, TypeCorrect, PTL DEF Spec
=============================================================================
