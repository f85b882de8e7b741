------------------------- MODULE InfraClusterProofs -------------------------
(***************************************************************************)
(* Proofs about InfraCluster for every set of specs, every lag of the      *)
(* cache and any number of changes and failures: instances are made with   *)
(* the Cluster's uid, and the controller rests only on what it mirrored.   *)
(***************************************************************************)
EXTENDS InfraCluster, TLAPS

\* What TypeOK says of the history.
HistOK == hist \in Seq(KC) /\ Len(hist) \in 1..MaxLag

\* The server's and the cached object are objects.
LEMMA ApiType ==
  ASSUME HistOK PROVE Api \in KC /\ hist[1] \in KC
BY ConstantsAssumption DEF HistOK, Api

\* Writing an object keeps the history a history; the cached object stays until
\* the cache advances.
LEMMA WriteType ==
  ASSUME HistOK, NEW new \in KC, Write(new)
  PROVE  /\ HistOK' /\ hist'[1] = hist[1]
         /\ \/ hist' = hist /\ new = Api
            \/ Len(hist') # 1
<1>1. CASE new = Api
  BY <1>1 DEF Write, HistOK
<1>2. CASE new # Api
  <2>1. hist' = Append(hist, new) /\ Len(hist) < MaxLag
    BY <1>2 DEF Write
  <2>2. Len(hist') = Len(hist) + 1 /\ hist' \in Seq(KC) /\ hist'[1] = hist[1]
    BY <2>1 DEF HistOK
  <2>3. QED BY <2>2, <2>1, ConstantsAssumption DEF HistOK
<1>3. QED BY <1>1, <1>2

\* A new object is an object, and so are the local variables between two runs.
LEMMA NewTypes ==
  /\ \A m \in {"stub", "kro"}, s \in KroSpecs \cup {"bad"} : NewKC(m, s) \in KC
  /\ NoLocal \in Local /\ NoInst \in Inst
BY DEF NewKC, KC, NoLocal, Local, NoInst, Inst, Reasons, May

\* The status that PatchStatus wants is part of an object.
Wanted == [w.kc EXCEPT !.prov = w.prov, !.cond = w.cond, !.failed = w.failed]

\* The fields of the object that results from the patch.
LEMMA PatchedFields ==
  ASSUME TypeOK
  PROVE  /\ Patched(Wanted) \in KC
         /\ w.kc = Api =>
              /\ Patched(Wanted).mode = Api.mode /\ Patched(Wanted).spec = Api.spec
              /\ Patched(Wanted).prov = w.prov /\ Patched(Wanted).cond = w.cond
              /\ Patched(Wanted).failed = w.failed
<1>1. w.kc \in KC /\ Api \in KC /\ w.prov \in BOOLEAN /\ w.cond \in Reasons /\ w.failed \in BOOLEAN
  BY ApiType DEF TypeOK, HistOK, Local
<1>2. Wanted \in KC /\ Wanted.prov = w.prov /\ Wanted.cond = w.cond /\ Wanted.failed = w.failed
  BY <1>1 DEF Wanted, KC
<1> DEFINE p == Merged(w.kc.prov, Wanted.prov, Api.prov)
           f == Merged(w.kc.failed, Wanted.failed, Api.failed)
           c == Merged(w.kc.cond, Wanted.cond, Api.cond)
<1>3. p \in BOOLEAN /\ f \in BOOLEAN /\ c \in Reasons
  BY <1>1, <1>2 DEF Merged, KC
<1>4. w.kc = Api => p = w.prov /\ f = w.failed /\ c = w.cond
  BY <1>2 DEF Merged
<1>5. Patched(Wanted) = [Api EXCEPT !.prov = p, !.failed = f, !.cond = c]
  BY DEF Patched
<1> HIDE DEF p, f, c
<1>6. LET o == [Api EXCEPT !.prov = p, !.failed = f, !.cond = c] IN
        /\ o \in KC /\ o.mode = Api.mode /\ o.spec = Api.spec
        /\ o.prov = p /\ o.failed = f /\ o.cond = c
  BY <1>1, <1>3 DEF KC
<1>7. QED BY <1>4, <1>5, <1>6

\* What Wait leaves in the local variables.
LEMMA WaitFields ==
  ASSUME w \in Local, NEW reason \in Reasons, Wait(reason)
  PROVE  /\ w' \in Local /\ pc' = "patch"
         /\ w'.kc = w.kc /\ w'.requeue /\ ~w'.prov
BY DEF Wait, Local

\* The three outcomes of reading the instance.
LEMMA ReadOutcome ==
  ASSUME w \in Local, inst \in Inst, ReadInstance
  PROVE  \/ Finish(TRUE)
         \/ /\ inst.exists /\ inst.st = "ready" /\ pc' = "patch" /\ UNCHANGED timer
            /\ w' = [w EXCEPT !.prov = TRUE, !.cond = "Ready"]
         \/ \E reason \in {"Failing", "Provisioning"} : Wait(reason) /\ UNCHANGED timer
<1>1. inst.exists \in BOOLEAN /\ inst.st \in {"empty", "failing", "ready", "malformed"}
  BY DEF Inst
<1>2. CASE ~inst.exists \/ inst.st = "malformed"
  BY <1>1, <1>2 DEF ReadInstance
<1>3. CASE inst.exists /\ inst.st = "ready"
  BY <1>1, <1>3 DEF ReadInstance
<1>4. CASE inst.exists /\ inst.st \in {"empty", "failing"}
  BY <1>1, <1>4 DEF ReadInstance
<1>5. QED BY <1>1, <1>2, <1>3, <1>4

-----------------------------------------------------------------------------
(* Types *)

LEMMA TypeStep ==
  ASSUME TypeOK, [Next]_vars PROVE TypeOK'
<1> USE ConstantsAssumption DEF TypeOK
<1>1. HistOK /\ Api \in KC /\ hist[1] \in KC
  BY ApiType DEF HistOK
<1>2. NoLocal \in Local /\ NoInst \in Inst
  BY NewTypes
<1>3. CASE StartReconcile
  <2>1. w' \in Local
    BY <1>1, <1>2, <1>3 DEF StartReconcile, Local, Reasons
  <2>2. QED BY <1>3, <2>1 DEF StartReconcile, worldVars
<1>4. CASE ResolveRGD
  <2>1. w' \in Local /\ pc' \in {"schema", "patch"}
    BY <1>4, WaitFields DEF ResolveRGD, Reasons
  <2>2. QED BY <1>4, <2>1 DEF ResolveRGD, worldVars
<1>5. CASE CheckSchema
  <2>1. w' \in Local /\ pc' \in {"owner", "sync", "patch"}
    BY <1>5, WaitFields DEF CheckSchema, Reasons
  <2>2. QED BY <1>5, <2>1 DEF CheckSchema, worldVars
<1>6. CASE ReadOwner
  <2>1. [w EXCEPT !.uid = TRUE] \in Local
    BY DEF Local
  <2>2. w' \in Local /\ pc' \in {"sync", "patch"}
    BY <1>6, <2>1, WaitFields DEF ReadOwner, Reasons
  <2>3. QED BY <1>6, <2>2 DEF ReadOwner, worldVars
<1>7. CASE SyncInstance
  <2>1. [w EXCEPT !.cond = "InvalidKroSpec", !.failed = TRUE] \in Local
    BY DEF Local, Reasons
  <2>2. w.kc.spec # "bad" =>
          [inst EXCEPT !.exists = TRUE, !.spec = w.kc.spec, !.uid = w.uid] \in Inst
    BY DEF Local, KC, Inst
  <2>3. w' \in Local /\ inst' \in Inst /\ pc' \in {"patch", "read"}
    BY <1>7, <2>1, <2>2 DEF SyncInstance
  <2>4. QED BY <1>7, <2>3 DEF SyncInstance, worldVars
<1>8. CASE ReadInstance
  <2>1. [w EXCEPT !.prov = TRUE, !.cond = "Ready"] \in Local
    BY DEF Local, Reasons
  <2>2. inst.st \in {"empty", "failing", "ready", "malformed"} /\ inst.exists \in BOOLEAN
    BY DEF Inst
  <2>3. w' \in Local /\ pc' \in {"idle", "patch"} /\ timer' \in BOOLEAN
    BY <1>2, <1>8, <2>1, <2>2, WaitFields DEF ReadInstance, Finish, Reasons
  <2>4. QED BY <1>8, <2>3 DEF ReadInstance, worldVars
<1>9. CASE PatchStatus
  <2>1. Write(Patched(Wanted)) /\ Patched(Wanted) \in KC
    BY <1>9, PatchedFields DEF PatchStatus, Wanted
  <2>2. HistOK'
    BY <1>1, <2>1, WriteType
  <2>3. w' \in Local /\ pc' = "idle" /\ timer' \in BOOLEAN
    BY <1>2, <1>9 DEF PatchStatus, Finish, Local
  <2>4. QED BY <1>9, <2>2, <2>3 DEF PatchStatus, worldVars, HistOK
<1>10. CASE CallFails
  BY <1>2, <1>10 DEF CallFails, Finish, worldVars
<1>11. CASE Restart
  <2>1. <<Api>> \in Seq(KC) /\ Len(<<Api>>) \in 1..MaxLag
    BY <1>1
  <2>2. HistOK' /\ fails' \in 0..MaxFail
    BY <1>11, <2>1 DEF Restart, HistOK
  <2>3. QED BY <1>2, <1>11, <2>2 DEF Restart, worldVars, HistOK
<1>12. CASE CacheAdvance
  <2>1. Tail(hist) \in Seq(KC) /\ Len(Tail(hist)) \in 1..MaxLag
    BY <1>12 DEF CacheAdvance
  <2>2. QED BY <1>12, <2>1 DEF CacheAdvance, worldVars
<1>13. CASE TimerFires
  BY <1>13 DEF TimerFires, worldVars
<1>14. CASE EditObject
  <2>1. PICK new \in KC : Write(new)
    <3>1. /\ \A m \in {"stub", "kro"} : [Api EXCEPT !.mode = m] \in KC
          /\ \A s \in KroSpecs \cup {"bad"} : [Api EXCEPT !.spec = s] \in KC
          /\ [Api EXCEPT !.linked = TRUE] \in KC
      BY <1>1 DEF KC
    <3>2. QED BY <1>14, <3>1 DEF EditObject
  <2>2. HistOK'
    BY <1>1, <2>1, WriteType
  <2>3. QED BY <1>14, <2>2 DEF EditObject, Changes, worldVars, HistOK
<1>15. CASE WorldChanges
  <2>1. env' \in 0..MaxEnv
    BY <1>15 DEF WorldChanges, Changes
  <2>2. clusterSeen' \in BOOLEAN /\ rgd' \in {"absent", "invalid", "ok"}
    BY <1>15, Zenon DEF WorldChanges
  <2>3. QED BY <1>15, <2>1, <2>2 DEF WorldChanges
<1>16. CASE InstanceChanges
  <2>1. \A st \in {"failing", "ready", "malformed"} : [inst EXCEPT !.st = st] \in Inst
    BY DEF Inst
  <2>2. inst' \in Inst
    BY <1>2, <1>16, <2>1 DEF InstanceChanges
  <2>3. QED BY <1>16, <2>2 DEF InstanceChanges, Changes, worldVars
<1>17. CASE UNCHANGED vars
  BY <1>17 DEF vars, worldVars
<1>18. QED
  BY <1>3, <1>4, <1>5, <1>6, <1>7, <1>8, <1>9, <1>10, <1>11, <1>12, <1>13, <1>14, <1>15,
     <1>16, <1>17 DEF Next, Worker, Environment

\* Every variable keeps its type.
THEOREM TypeCorrect == Spec => []TypeOK
<1>1. Init => TypeOK
  <2> SUFFICES ASSUME Init PROVE TypeOK
    OBVIOUS
  <2>1. PICK m \in {"stub", "kro"}, s \in KroSpecs \cup {"bad"} : hist = <<NewKC(m, s)>>
    BY DEF Init
  <2>2. hist \in Seq(KC) /\ Len(hist) \in 1..MaxLag
    BY <2>1, NewTypes, ConstantsAssumption
  <2>3. /\ clusterSeen \in BOOLEAN /\ rgd \in {"absent", "invalid", "ok"}
        /\ declares \in BOOLEAN
    BY DEF Init, May
  <2>4. env \in 0..MaxEnv /\ fails \in 0..MaxFail
    BY ConstantsAssumption DEF Init
  <2>5. QED BY <2>2, <2>3, <2>4, NewTypes DEF Init, TypeOK
<1>2. TypeOK /\ [Next]_vars => TypeOK'
  BY TypeStep
<1>3. QED BY <1>1, <1>2, PTL DEF Spec

-----------------------------------------------------------------------------
(* Identity *)

\* The worker gets to the instance only with the uid, or where none is asked for;
\* the schema, once made, keeps asking for it or not.
IdentityInv ==
  /\ InstanceIsIdentified
  /\ pc = "sync" /\ declares => w.uid

LEMMA IdentityStep ==
  ASSUME TypeOK, IdentityInv, [Next]_vars PROVE IdentityInv'
<1> USE DEF IdentityInv, InstanceIsIdentified
<1>1. w \in Local /\ inst \in Inst
  BY DEF TypeOK
<1>2. CASE CheckSchema
  BY <1>2 DEF CheckSchema, Wait, worldVars
<1>3. CASE ReadOwner
  <2>1. [w EXCEPT !.uid = TRUE].uid
    BY <1>1 DEF Local
  <2>2. QED BY <1>3, <2>1 DEF ReadOwner, Wait, worldVars
<1>4. CASE SyncInstance
  <2>1. LET i == [inst EXCEPT !.exists = TRUE, !.spec = w.kc.spec, !.uid = w.uid] IN
          i.uid = w.uid
    BY <1>1 DEF Inst
  <2>2. QED BY <1>4, <2>1 DEF SyncInstance, worldVars
<1>5. CASE InstanceChanges
  <2>1. ASSUME NEW st
        PROVE  LET i == [inst EXCEPT !.st = st] IN i.exists = inst.exists /\ i.uid = inst.uid
    BY <1>1 DEF Inst
  <2>2. ~NoInst.exists
    BY DEF NoInst
  <2>3. (inst'.exists = inst.exists /\ inst'.uid = inst.uid) \/ ~inst'.exists
    BY <1>5, <2>1, <2>2 DEF InstanceChanges
  <2>4. QED BY <1>5, <2>3 DEF InstanceChanges, worldVars
<1>6. CASE StartReconcile
  BY <1>6 DEF StartReconcile, worldVars
<1>7. CASE ResolveRGD
  BY <1>7 DEF ResolveRGD, Wait, worldVars
<1>8. CASE ReadInstance
  <2>1. pc' # "sync"
    BY <1>1, <1>8, ReadOutcome DEF Finish, Wait
  <2>2. QED BY <1>8, <2>1 DEF ReadInstance, worldVars
<1>9. CASE PatchStatus \/ CallFails \/ Restart
  BY <1>9 DEF PatchStatus, CallFails, Restart, Finish, worldVars
<1>10. CASE CacheAdvance \/ TimerFires \/ EditObject \/ WorldChanges \/ UNCHANGED vars
  BY <1>10 DEF CacheAdvance, TimerFires, EditObject, WorldChanges, vars, worldVars
<1>11. QED
  BY <1>2, <1>3, <1>4, <1>5, <1>6, <1>7, <1>8, <1>9, <1>10 DEF Next, Worker, Environment

\* Where the definition asks for the Cluster's uid, no instance exists without
\* it, whatever is read stale, fails, or comes late.
THEOREM Identified == Spec => []InstanceIsIdentified
<1>1. Init => IdentityInv
  BY DEF Init, IdentityInv, InstanceIsIdentified, NoInst
<1>2. TypeOK /\ IdentityInv /\ [Next]_vars => IdentityInv'
  BY IdentityStep
<1>3. IdentityInv => InstanceIsIdentified
  BY DEF IdentityInv
<1>4. QED BY <1>1, <1>2, <1>3, TypeCorrect, PTL DEF Spec

-----------------------------------------------------------------------------
(* Rest *)

\* Status (prov, cond, failed) is right for object o and instance i, and nothing
\* more is expected to happen to it.
Final(i, o, prov, cond, failed) ==
  \/ o.mode = "stub" /\ prov /\ cond = "Ready" /\ ~failed
  \/ o.mode = "kro" /\ o.spec = "bad" /\ ~prov /\ cond = "InvalidKroSpec" /\ failed
  \/ /\ o.mode = "kro" /\ o.spec # "bad"
     /\ i.exists /\ i.spec = o.spec /\ i.st = "ready"
     /\ prov /\ cond = "Ready" /\ ~failed

\* Unless the queue will hear of a change, the worker works on the cached object.
Current == ~queued /\ pc # "idle" => w.kc = hist[1]

\* What the worker has found out on its way to the status.
Progress ==
  /\ pc \notin {"idle", "patch"} => w.kc.mode = "kro" /\ ~w.prov /\ ~w.failed
  /\ pc = "read" => w.kc.spec # "bad" /\ inst.spec = w.kc.spec
  /\ pc = "patch" /\ ~w.requeue => Final(inst, w.kc, w.prov, w.cond, w.failed)

RestInv ==
  /\ Current /\ Progress
  /\ Settled => Final(inst, Api, Api.prov, Api.cond, Api.failed)

\* An instance that was ready stays so, and keeps its spec.
LEMMA FinalKept ==
  ASSUME NEW i, NEW j, NEW o, NEW prov, NEW cond, NEW failed,
         Final(i, o, prov, cond, failed),
         i.exists => j.exists /\ j.spec = i.spec /\ (i.st = "ready" => j.st = "ready")
  PROVE  Final(j, o, prov, cond, failed)
BY DEF Final

\* While nothing but the environment moves, what was settled or found out stays.
LEMMA EnvironmentRest ==
  ASSUME TypeOK, RestInv, ~May("regress"), ~May("lost"), Environment
  PROVE  RestInv'
<1>1. w \in Local /\ inst \in Inst /\ HistOK /\ Api \in KC
  BY ApiType DEF TypeOK, HistOK
<1>2. CASE EditObject
  <2>1. PICK new \in KC : Write(new)
    <3>1. /\ \A m \in {"stub", "kro"} : [Api EXCEPT !.mode = m] \in KC
          /\ \A s \in KroSpecs \cup {"bad"} : [Api EXCEPT !.spec = s] \in KC
          /\ [Api EXCEPT !.linked = TRUE] \in KC
      BY <1>1 DEF KC
    <3>2. QED BY <1>2, <3>1 DEF EditObject
  <2>2. hist'[1] = hist[1] /\ Len(hist') # 1
    BY <1>1, <1>2, <2>1, WriteType DEF EditObject
  <2>3. UNCHANGED <<inst, queued, timer, pc, w>>
    BY <1>2 DEF EditObject
  <2>4. Current' /\ ~Settled'
    BY <2>2, <2>3 DEF RestInv, Current, Settled
  <2>5. Progress'
    BY <2>3 DEF RestInv, Progress, Final
  <2>6. QED BY <2>4, <2>5 DEF RestInv
<1>3. CASE WorldChanges
  BY <1>3 DEF WorldChanges, RestInv, Current, Progress, Settled, Api
<1>4. CASE InstanceChanges
  <2>1. PICK st : inst.st # "ready" /\ inst' = [inst EXCEPT !.st = st]
    BY <1>4 DEF InstanceChanges
  <2>2. /\ inst'.exists = inst.exists /\ inst'.spec = inst.spec
    BY <1>1, <2>1 DEF Inst
  <2>3. UNCHANGED <<hist, queued, timer, pc, w>>
    BY <1>4 DEF InstanceChanges
  <2>4. ASSUME NEW o, NEW prov, NEW cond, NEW failed, Final(inst, o, prov, cond, failed)
        PROVE  Final(inst', o, prov, cond, failed)
    BY <2>1, <2>2, <2>4, FinalKept
  <2>5. Current'
    BY <2>3 DEF RestInv, Current
  <2>6. Progress'
    BY <2>2, <2>3, <2>4 DEF RestInv, Progress
  <2>7. Settled' => Settled /\ Api' = Api
    BY <2>3 DEF Settled, Api
  <2>8. QED BY <2>4, <2>5, <2>6, <2>7 DEF RestInv
<1>5. QED BY <1>2, <1>3, <1>4 DEF Environment

\* The worker on its way leaves nothing settled, as it is not idle.
LEMMA WorkerRest ==
  ASSUME TypeOK, RestInv,
         StartReconcile \/ ResolveRGD \/ CheckSchema \/ ReadOwner \/ SyncInstance \/ ReadInstance
  PROVE  RestInv'
<1>1. w \in Local /\ inst \in Inst /\ hist[1] \in KC /\ NoLocal \in Local
  BY ApiType, NewTypes DEF TypeOK, HistOK
<1> USE DEF RestInv, Current, Progress
<1>2. CASE StartReconcile
  <2> DEFINE stub == hist[1].mode = "stub"
             n == [NoLocal EXCEPT !.kc = hist[1], !.prov = stub,
                                  !.cond = IF stub THEN "Ready" ELSE "Provisioning"]
  <2>1. n.kc = hist[1] /\ n.prov = stub /\ ~n.failed /\ (stub => n.cond = "Ready")
    BY <1>1 DEF NoLocal, Local
  <2>2. w' = n /\ pc' = (IF stub THEN "patch" ELSE "resolve") /\ UNCHANGED <<hist, inst>>
    BY <1>2 DEF StartReconcile
  <2>3. ~stub => hist[1].mode = "kro"
    BY <1>1 DEF KC
  <2> HIDE DEF n
  <2>4. Current' /\ ~Settled'
    BY <2>1, <2>2 DEF Settled
  <2>5. Progress'
    BY <2>1, <2>2, <2>3 DEF Final
  <2>6. QED BY <2>4, <2>5
<1>3. CASE ResolveRGD
  <2>1. (w' = w /\ pc' = "schema") \/ Wait("RGD")
    BY <1>3 DEF ResolveRGD
  <2>2. pc \notin {"idle", "patch"} /\ UNCHANGED <<hist, inst, queued>>
    BY <1>3 DEF ResolveRGD
  <2>3. "RGD" \in Reasons
    BY DEF Reasons
  <2>4. QED BY <1>1, <2>1, <2>2, <2>3, WaitFields DEF Settled
<1>4. CASE CheckSchema
  <2>1. (w' = w /\ pc' \in {"owner", "sync"}) \/ Wait("RGD")
    BY <1>4 DEF CheckSchema
  <2>2. pc \notin {"idle", "patch"} /\ UNCHANGED <<hist, inst, queued>>
    BY <1>4 DEF CheckSchema
  <2>3. "RGD" \in Reasons
    BY DEF Reasons
  <2>4. QED BY <1>1, <2>1, <2>2, <2>3, WaitFields DEF Settled
<1>5. CASE ReadOwner
  <2>1. (w' = [w EXCEPT !.uid = TRUE] /\ pc' = "sync") \/ Wait("WaitingForOwnerCluster")
    BY <1>5 DEF ReadOwner
  <2>2. pc \notin {"idle", "patch"} /\ UNCHANGED <<hist, inst, queued>>
    BY <1>5 DEF ReadOwner
  <2>3. "WaitingForOwnerCluster" \in Reasons
    BY DEF Reasons
  <2>4. LET n == [w EXCEPT !.uid = TRUE] IN
          n.kc = w.kc /\ n.prov = w.prov /\ n.failed = w.failed
    BY <1>1 DEF Local
  <2>5. QED BY <1>1, <2>1, <2>2, <2>3, <2>4, WaitFields DEF Settled
<1>6. CASE SyncInstance
  <2>1. LET n == [w EXCEPT !.cond = "InvalidKroSpec", !.failed = TRUE] IN
          n.kc = w.kc /\ n.prov = w.prov /\ n.cond = "InvalidKroSpec" /\ n.failed
    BY <1>1 DEF Local
  <2>2. LET i == [inst EXCEPT !.exists = TRUE, !.spec = w.kc.spec, !.uid = w.uid] IN
          i.spec = w.kc.spec
    BY <1>1 DEF Inst
  <2>3. pc \notin {"idle", "patch"} /\ UNCHANGED <<hist, queued>>
    BY <1>6 DEF SyncInstance
  <2>4. CASE w.kc.spec = "bad"
    <3>1. /\ pc' = "patch" /\ UNCHANGED <<hist, queued, inst>>
          /\ w'.kc = w.kc /\ w'.prov = w.prov /\ w'.cond = "InvalidKroSpec" /\ w'.failed
      BY <1>6, <2>1, <2>3, <2>4 DEF SyncInstance
    <3>2. Current' /\ ~Settled'
      BY <2>3, <3>1 DEF Settled
    <3>3. Progress'
      BY <2>3, <2>4, <3>1 DEF Final
    <3>4. QED BY <3>2, <3>3
  <2>5. CASE w.kc.spec # "bad"
    <3>1. pc' = "read" /\ UNCHANGED <<hist, queued, w>> /\ inst'.spec = w.kc.spec
      BY <1>6, <2>2, <2>3, <2>5 DEF SyncInstance
    <3>2. Current' /\ ~Settled'
      BY <2>3, <3>1 DEF Settled
    <3>3. Progress'
      BY <2>3, <2>5, <3>1
    <3>4. QED BY <3>2, <3>3
  <2>6. QED BY <2>4, <2>5
<1>7. CASE ReadInstance
  <2>1. pc = "read" /\ UNCHANGED <<hist, inst, queued>>
    BY <1>7 DEF ReadInstance
  <2>2. CASE Finish(TRUE)
    BY <2>1, <2>2 DEF Finish, Settled
  <2>3. CASE /\ inst.exists /\ inst.st = "ready" /\ pc' = "patch"
             /\ w' = [w EXCEPT !.prov = TRUE, !.cond = "Ready"]
    <3>1. w'.kc = w.kc /\ w'.prov /\ w'.cond = "Ready" /\ w'.failed = w.failed
      BY <1>1, <2>3 DEF Local
    <3>2. QED BY <2>1, <2>3, <3>1 DEF Settled, Final
  <2>4. CASE \E reason \in {"Failing", "Provisioning"} : Wait(reason)
    BY <1>1, <2>1, <2>4, WaitFields DEF Settled, Reasons
  <2>5. QED BY <1>1, <1>7, <2>2, <2>3, <2>4, ReadOutcome
<1>8. QED BY <1>2, <1>3, <1>4, <1>5, <1>6, <1>7

\* The patch makes the status of an object that is still the cached one what the
\* worker found out; a newer object is in the history, and its event to come.
LEMMA PatchRest ==
  ASSUME TypeOK, RestInv, PatchStatus
  PROVE  RestInv'
<1>1. HistOK /\ Write(Patched(Wanted)) /\ Patched(Wanted) \in KC
  BY PatchedFields DEF TypeOK, HistOK, PatchStatus, Wanted
<1>2. pc = "patch" /\ pc' = "idle" /\ UNCHANGED <<inst, queued>> /\ timer' = (timer \/ w.requeue)
  BY DEF PatchStatus, Finish
<1>3. ASSUME Settled'
      PROVE  Final(inst', Api', Api'.prov, Api'.cond, Api'.failed)
  <2>1. ~queued /\ ~w.requeue /\ Len(hist') = 1
    BY <1>2, <1>3 DEF Settled
  <2>2. hist' = hist /\ Patched(Wanted) = Api
    BY <1>1, <2>1, WriteType
  <2>3. w.kc = Api
    BY <1>2, <2>1, <2>2 DEF RestInv, Current, Api
  <2>4. Api' = Api /\ Api.prov = w.prov /\ Api.cond = w.cond /\ Api.failed = w.failed
    BY <2>2, <2>3, PatchedFields DEF Api
  <2>5. QED BY <1>2, <2>1, <2>3, <2>4 DEF RestInv, Progress
<1>4. QED BY <1>2, <1>3 DEF RestInv, Current, Progress

LEMMA RestStep ==
  ASSUME TypeOK, RestInv, ~May("regress"), ~May("lost"), [Next]_vars
  PROVE  RestInv'
<1>1. CASE CallFails
  BY <1>1 DEF CallFails, Finish, RestInv, Current, Progress, Settled
<1>2. CASE Restart
  BY <1>2 DEF Restart, RestInv, Current, Progress, Settled
<1>3. CASE CacheAdvance \/ TimerFires
  BY <1>3 DEF CacheAdvance, TimerFires, RestInv, Current, Progress, Settled
<1>4. CASE UNCHANGED vars
  BY <1>4 DEF vars, RestInv, Current, Progress, Settled, Api
<1>5. QED
  BY <1>1, <1>2, <1>3, <1>4, WorkerRest, PatchRest, EnvironmentRest DEF Next, Worker

\* The controller, which watches nothing but its object, comes to rest only when
\* what it published is what there is, however stale its reads are and whatever
\* fails; as long as an instance that is ready stays so.
THEOREM RestIsMirrored ==
  ASSUME ~May("regress"), ~May("lost")
  PROVE  Spec => []SettledIsMirrored
<1>1. Init => RestInv
  BY DEF Init, RestInv, Current, Progress, Settled
<1>2. TypeOK /\ RestInv /\ [Next]_vars => RestInv'
  BY RestStep
<1>3. TypeOK /\ RestInv => SettledIsMirrored
  <2> SUFFICES ASSUME TypeOK, RestInv, Settled PROVE Mirrored
    BY DEF SettledIsMirrored
  <2>1. Api \in KC /\ Final(inst, Api, Api.prov, Api.cond, Api.failed)
    BY ApiType DEF TypeOK, HistOK, RestInv
  <2>2. /\ Api.mode \in {"stub", "kro"}
        /\ Api.prov \in BOOLEAN /\ Api.failed \in BOOLEAN
    BY <2>1 DEF KC
  <2>3. CASE Api.mode = "stub"
    BY <2>1, <2>2, <2>3 DEF Final, Mirrored, Published
  <2>4. CASE Api.mode = "kro" /\ Api.spec = "bad"
    BY <2>1, <2>2, <2>4 DEF Final, Mirrored, Published
  <2>5. CASE Api.mode = "kro" /\ Api.spec # "bad"
    BY <2>1, <2>2, <2>5 DEF Final, Mirrored, Published
  <2>6. QED BY <2>2, <2>3, <2>4, <2>5
<1>4. QED BY <1>1, <1>2, <1>3, TypeCorrect, PTL DEF Spec
=============================================================================
