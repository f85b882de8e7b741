------------------------- MODULE SelfManagedProofs -------------------------
(***************************************************************************)
(* Proofs about SelfManaged, for every value of its constants: a self-     *)
(* managed control plane that its users find ready has been built, and     *)
(* when both reconcilers rest all they made tells one story.               *)
(*                                                                         *)
(* The facade's steps are those of ControlPlane, and what ControlPlaneProofs*)
(* shows of them is used here.  What the kubeadm reconciler does is shown  *)
(* again, of K's steps, as far as it is needed.                            *)
(***************************************************************************)
EXTENDS SelfManaged, ControlPlaneProofs

\* The kubeadm reconciler's own assumptions hold here.
LEMMA PartAssumption == K!ConstantsAssumption
<1>1. DOMAIN VersionNames = 1..Len(VersionNames) /\ Len(VersionNames) \in Nat
  BY SelfManagedAssumption
<1>2. DOMAIN VersionNames # {}
  BY ConstantsAssumption, SelfManagedAssumption
<1>3. KChanging \subseteq K!ChangeKinds
  BY SelfManagedAssumption DEF K!ChangeKinds
<1>4. K!None \notin Endpoints
  BY ConstantsAssumption DEF K!None, None
<1>5. QED
  BY <1>1, <1>2, <1>3, <1>4, ConstantsAssumption, SelfManagedAssumption
     DEF K!ConstantsAssumption

\* The number of a version names it.
LEMMA NumberOf ==
  ASSUME NEW v \in Versions
  PROVE  Number(v) \in DOMAIN VersionNames /\ VersionNames[Number(v)] = v
BY SelfManagedAssumption DEF Number

-----------------------------------------------------------------------------
(* What goes from the one reconciler to the other *)

\* What is claimed by an object, or by a status, has been reached: the kubeadm
\* control plane is initialized, and its endpoint is the infrastructure's.
Vouched(c) == (c.init => K!Api.init) /\ (c.ep \in Endpoints => c.ep = infra)

\* A version of the kubeadm object keeps the contract.
KeptBy(c) == (c.conds.ready = "True" => c.init) /\ (c.init => c.ep \in Endpoints)

\* What it has, the server's object has.
Sane(c) == Vouched(c) /\ KeptBy(c) /\ (c.ep \in Endpoints => K!Api.ep \in Endpoints)

KubeadmTypes ==
  /\ khist \in Seq(K!CP) /\ Len(khist) \in Nat \ {0} /\ kw \in K!Local
  /\ machine \in K!Machine /\ machineView \in K!Machine
  /\ infra \in Endpoints \cup {None, "absent"} /\ probe \in BOOLEAN

ObjectInv == Sane(kw.cp) /\ \A i \in 1..Len(khist) : Sane(khist[i])

\* A probe, a ready Machine or the initialized latch: somebody has seen it run.
SeenRunning == machine.ready \/ machineView.ready \/ probe \/ kw.probe \/ K!Api.init

\* A Machine that runs has been shown, one that was shown exists, and one that
\* exists has its certificates and its kubeconfig.
MachineInv ==
  /\ SeenRunning => machineView.ver # 0
  /\ machineView.ver # 0 => machine.ver # 0
  /\ machine.ver # 0 => ca /\ infra \in Endpoints /\ kubeconfig = infra

AfterEndpoint == {"kubeconfig", "config", "infraMachine", "machine", "initialized", "ready"}
AfterKubeconfig == AfterEndpoint \ {"kubeconfig"}

\* What the worker has done before the step it is at.
PlaceInv ==
  /\ kpc \in AfterEndpoint \cup {"endpoint"} => ca /\ infra \in Endpoints /\ kw.ep = infra
  /\ kpc \in {"infra", "notReady"} => ca
  /\ kpc \in AfterEndpoint => kw.cp.ep = infra
  /\ kpc \in AfterKubeconfig => kubeconfig = infra
  /\ kpc = "ready" => kw.cp.init

KubeadmInv == KubeadmTypes /\ ObjectInv /\ MachineInv /\ PlaceInv

\* Neither the latch nor the endpoint is taken back.
Grows ==
  /\ K!Api.init => K!Api'.init
  /\ K!Api.ep \in Endpoints => K!Api'.ep \in Endpoints
  /\ infra \in Endpoints => infra' = infra

-----------------------------------------------------------------------------
(* The kubeadm reconciler *)

\* The server's and the cached object are objects, and sane.
LEMMA KubeadmApi ==
  ASSUME khist \in Seq(K!CP), Len(khist) \in Nat \ {0},
         \A i \in 1..Len(khist) : Sane(khist[i])
  PROVE  /\ K!Api \in K!CP /\ Sane(K!Api) /\ khist[1] \in K!CP /\ Sane(khist[1])
         /\ 1 \in 1..Len(khist) /\ Len(khist) \in 1..Len(khist)
<1>1. 1 \in 1..Len(khist) /\ Len(khist) \in 1..Len(khist)
  OBVIOUS
<1>2. K!Api = khist[Len(khist)]
  BY DEF K!Api
<1>3. QED BY <1>1, <1>2

\* A new object claims nothing.
LEMMA NewKubeadm ==
  ASSUME NEW n \in DOMAIN VersionNames, NEW l \in BOOLEAN
  PROVE  /\ K!NewCP(n, l) \in K!CP /\ Sane(K!NewCP(n, l))
         /\ K!NewCP(n, l).init = FALSE /\ K!NewCP(n, l).ep \notin Endpoints
         /\ K!NewCP(n, l).version = n /\ K!NewCP(n, l).linked = l
BY ConstantsAssumption DEF K!NewCP, K!CP, K!None, None, Sane, Vouched, KeptBy

\* Nor do the local variables between two runs.
LEMMA KubeadmIdle ==
  K!NoLocal \in K!Local /\ Sane(K!NoLocal.cp) /\ K!NoLocal.probe = FALSE
<1>1. (CHOOSE v \in DOMAIN VersionNames : TRUE) \in DOMAIN VersionNames
  BY PartAssumption DEF K!ConstantsAssumption
<1> DEFINE n == CHOOSE v \in DOMAIN VersionNames : TRUE
<1>2. K!NewCP(n, FALSE) \in K!CP /\ Sane(K!NewCP(n, FALSE))
  BY <1>1, NewKubeadm
<1>3. K!NoLocal = [cp |-> K!NewCP(n, FALSE), owner |-> FALSE, probe |-> FALSE, ep |-> K!None]
  BY DEF K!NoLocal
<1> HIDE DEF n
<1>4. QED BY <1>2, <1>3 DEF K!Local

\* A version behind the others that takes nothing back.
LEMMA SaneAppended ==
  ASSUME khist \in Seq(K!CP), Len(khist) \in Nat \ {0},
         \A i \in 1..Len(khist) : Sane(khist[i]),
         NEW new \in K!CP, KeptBy(new), new.ep \in Endpoints => new.ep = infra,
         K!Api.init => new.init, K!Api.ep \in Endpoints => new.ep \in Endpoints,
         khist' = Append(khist, new), UNCHANGED infra
  PROVE  /\ khist' \in Seq(K!CP) /\ Len(khist') \in Nat \ {0} /\ (K!Api)' = new /\ Grows
         /\ Sane(new)' /\ (\A i \in 1..Len(khist) : Sane(khist[i]))'
<1>1. /\ khist' \in Seq(K!CP) /\ Len(khist') = Len(khist) + 1
      /\ \A i \in 1..Len(khist) : khist'[i] = khist[i]
      /\ khist'[Len(khist) + 1] = new
  OBVIOUS
<1>2. (K!Api)' = new /\ Len(khist') \in Nat \ {0}
  BY <1>1 DEF K!Api
<1>3. Grows
  BY <1>2 DEF Grows
<1>4. Sane(new)'
  BY <1>2 DEF Sane, Vouched, KeptBy
<1>5. ASSUME NEW i \in 1..Len(khist') PROVE Sane(khist[i])'
  <2>1. CASE i \in 1..Len(khist)
    BY <1>1, <1>2, <2>1 DEF Sane, Vouched, KeptBy
  <2>2. CASE i = Len(khist) + 1
    BY <1>1, <1>2, <1>4, <2>2 DEF Sane, Vouched, KeptBy
  <2>3. QED BY <1>1, <1>2, <2>1, <2>2
<1>6. QED BY <1>1, <1>2, <1>3, <1>4, <1>5

\* The same of a write, which may find the version there.
LEMMA SaneWritten ==
  ASSUME khist \in Seq(K!CP), Len(khist) \in Nat \ {0},
         \A i \in 1..Len(khist) : Sane(khist[i]),
         NEW new \in K!CP, KeptBy(new), new.ep \in Endpoints => new.ep = infra,
         K!Api.init => new.init, K!Api.ep \in Endpoints => new.ep \in Endpoints,
         K!Write(new), UNCHANGED infra
  PROVE  /\ khist' \in Seq(K!CP) /\ Len(khist') \in Nat \ {0} /\ (K!Api)' = new /\ Grows
         /\ Sane(new)' /\ (\A i \in 1..Len(khist) : Sane(khist[i]))'
         /\ khist' = khist \/ khist' = Append(khist, new)
<1>1. CASE khist' = Append(khist, new)
  BY <1>1, SaneAppended
<1>2. CASE new = K!Api /\ khist' = khist
  <2>1. (K!Api)' = K!Api
    BY <1>2 DEF K!Api
  <2>2. Sane(K!Api)
    BY KubeadmApi
  <2>3. \A i \in 1..Len(khist') : Sane(khist[i])'
    BY <1>2, <2>1 DEF Sane, Vouched, KeptBy
  <2>4. QED BY <1>2, <2>1, <2>2, <2>3 DEF Grows, Sane, Vouched, KeptBy
<1>3. QED BY <1>1, <1>2 DEF K!Write

\* What results from a patch that takes nothing back.
LEMMA KubeadmPatched ==
  ASSUME KubeadmInv, NEW a \in K!CP, KeptBy(a),
         a.ep = kw.cp.ep \/ (a.ep = infra /\ infra \in Endpoints),
         kw.cp.init => a.init
  PROVE  /\ K!Patched(a) \in K!CP /\ KeptBy(K!Patched(a))
         /\ K!Patched(a).ep \in Endpoints => K!Patched(a).ep = infra
         /\ K!Api.init => K!Patched(a).init
         /\ K!Api.ep \in Endpoints => K!Patched(a).ep \in Endpoints
         /\ a.ep \in Endpoints => K!Patched(a).ep = infra
         /\ a.init => K!Patched(a).init
         /\ K!Patched(a).init => K!Api.init \/ (a.init /\ ~kw.cp.init)
<1>0. kw.cp \in K!CP /\ K!Api \in K!CP /\ Sane(kw.cp) /\ Sane(K!Api)
  BY KubeadmApi DEF KubeadmInv, KubeadmTypes, ObjectInv, K!Local
<1> DEFINE e == K!Merged(kw.cp.ep, a.ep, K!Api.ep)
           i == K!Merged(kw.cp.init, a.init, K!Api.init)
           v == K!Merged(kw.cp.sver, a.sver, K!Api.sver)
           c == K!Merged(kw.cp.conds, a.conds, K!Api.conds)
<1>1. /\ e \in Endpoints \cup {K!None} /\ i \in BOOLEAN /\ v \in DOMAIN VersionNames \cup {0}
      /\ c \in [ready: {"absent", "True", "False"}, owner: {"absent", "True", "False"}]
  BY <1>0 DEF K!Merged, K!CP
<1>2. K!Patched(a) = [K!Api EXCEPT !.ep = e, !.init = i, !.sver = v, !.conds = c]
  BY DEF K!Patched
<1>3. /\ e = IF a.ep # kw.cp.ep THEN a.ep ELSE K!Api.ep
      /\ i = IF a.init # kw.cp.init THEN a.init ELSE K!Api.init
      /\ c \in {a.conds, K!Api.conds}
      /\ c = a.conds \/ c = K!Api.conds
  BY DEF K!Merged
<1> HIDE DEF e, i, v, c
<1>4. LET o == [K!Api EXCEPT !.ep = e, !.init = i, !.sver = v, !.conds = c] IN
      o \in K!CP /\ o.ep = e /\ o.init = i /\ o.conds = c
  BY <1>0, <1>1 DEF K!CP
<1> DEFINE p == K!Patched(a)
<1>5. p \in K!CP /\ p.ep = e /\ p.init = i /\ p.conds = c
  BY <1>2, <1>4
<1> HIDE DEF p
<1>6. a.init \in BOOLEAN /\ kw.cp.init \in BOOLEAN /\ K!Api.init \in BOOLEAN
  BY <1>0 DEF K!CP
<1>7. /\ kw.cp.init => K!Api.init
      /\ kw.cp.ep \in Endpoints => kw.cp.ep = infra /\ K!Api.ep \in Endpoints
      /\ K!Api.ep \in Endpoints => K!Api.ep = infra
      /\ K!Api.conds.ready = "True" => K!Api.init
      /\ K!Api.init => K!Api.ep \in Endpoints
      /\ a.conds.ready = "True" => a.init
      /\ a.init => a.ep \in Endpoints
  BY <1>0 DEF Sane, Vouched, KeptBy
<1>8. /\ e \in Endpoints => e = infra
      /\ K!Api.ep \in Endpoints => e \in Endpoints
      /\ a.ep \in Endpoints => e = infra
  BY <1>3, <1>7
<1>9. /\ K!Api.init => i
      /\ a.init => i
      /\ i => K!Api.init \/ (a.init /\ ~kw.cp.init)
  BY <1>3, <1>6, <1>7
<1>10. i => e \in Endpoints
  BY <1>7, <1>8, <1>9
<1>11. c.ready = "True" => i
  BY <1>3, <1>7, <1>9
<1>12. KeptBy(p)
  BY <1>5, <1>10, <1>11 DEF KeptBy
<1>13. QED BY <1>5, <1>8, <1>9, <1>12 DEF p

\* What sending it does to the versions.
LEMMA KubeadmSends ==
  ASSUME KubeadmInv, NEW a \in K!CP, KeptBy(a),
         a.ep = kw.cp.ep \/ (a.ep = infra /\ infra \in Endpoints),
         kw.cp.init => a.init,
         K!Write(K!Patched(a)), UNCHANGED infra
  PROVE  /\ khist' \in Seq(K!CP) /\ Len(khist') \in Nat \ {0} /\ (K!Api)' = K!Patched(a)
         /\ Grows /\ (\A i \in 1..Len(khist) : Sane(khist[i]))'
         /\ khist'[1] = khist[1]
<1> DEFINE p == K!Patched(a)
<1>1. /\ p \in K!CP /\ KeptBy(p) /\ (p.ep \in Endpoints => p.ep = infra)
      /\ K!Api.init => p.init
      /\ K!Api.ep \in Endpoints => p.ep \in Endpoints
  BY KubeadmPatched
<1>2. /\ khist \in Seq(K!CP) /\ Len(khist) \in Nat \ {0}
      /\ \A i \in 1..Len(khist) : Sane(khist[i])
  BY DEF KubeadmInv, KubeadmTypes, ObjectInv
<1>3. K!Write(p)
  OBVIOUS
<1>4. p = K!Patched(a)
  OBVIOUS
<1> HIDE DEF p
<1>5. /\ khist' \in Seq(K!CP) /\ Len(khist') \in Nat \ {0} /\ (K!Api)' = p /\ Grows
      /\ (\A i \in 1..Len(khist) : Sane(khist[i]))'
      /\ khist' = khist \/ khist' = Append(khist, p)
  BY <1>1, <1>2, <1>3, SaneWritten
<1>6. khist'[1] = khist[1]
  BY <1>1, <1>2, <1>5
<1>7. QED BY <1>4, <1>5, <1>6

\* The worker's copy is sane if it is the server's, the cached one or none.
LEMMA CopySane ==
  ASSUME khist' \in Seq(K!CP), Len(khist') \in Nat \ {0},
         (\A i \in 1..Len(khist) : Sane(khist[i]))', kw'.cp \in {(K!Api)', khist'[1]}
  PROVE  Sane(kw.cp)'
<1>1. 1 \in 1..Len(khist') /\ Len(khist') \in 1..Len(khist')
  OBVIOUS
<1>2. (K!Api)' = khist'[Len(khist')]
  BY DEF K!Api
<1>3. PICK i \in 1..Len(khist') : kw'.cp = khist'[i]
  BY <1>1, <1>2
<1>4. Sane(khist[i])'
  BY <1>3
<1>5. QED BY <1>3, <1>4 DEF Sane, Vouched, KeptBy

\* Steps that write nothing to the object.
LEMMA ObjectKept ==
  ASSUME KubeadmInv, UNCHANGED khist, infra' = infra \/ infra \notin Endpoints,
         kw'.cp \in {kw.cp, khist[1]} \/ kw' = K!NoLocal
  PROVE  ObjectInv' /\ Grows /\ (K!Api)' = K!Api
<1>1. (K!Api)' = K!Api
  BY DEF K!Api
<1>2. Grows
  BY <1>1 DEF Grows
<1>3. \A c : Sane(c) => (c.init => (K!Api)'.init) /\ (c.ep \in Endpoints => c.ep = infra')
                        /\ KeptBy(c) /\ (c.ep \in Endpoints => (K!Api)'.ep \in Endpoints)
  BY <1>1 DEF Sane, Vouched
<1>4. \A i \in 1..Len(khist) : Sane(khist[i])
  BY DEF KubeadmInv, ObjectInv
<1>5. (\A i \in 1..Len(khist) : Sane(khist[i]))'
  BY <1>3, <1>4 DEF Sane, Vouched, KeptBy
<1>6. Sane(kw.cp)'
  <2>1. Sane(kw.cp) /\ Sane(khist[1]) /\ Sane(K!NoLocal.cp)
    BY KubeadmApi, KubeadmIdle DEF KubeadmInv, KubeadmTypes, ObjectInv
  <2>2. Sane(kw'.cp)
    BY <2>1
  <2>3. QED BY <1>3, <2>2 DEF Sane, Vouched, KeptBy
<1>7. QED BY <1>1, <1>2, <1>5, <1>6 DEF ObjectInv

\* What a step of the kubeadm side keeps, and how it grows.
Kept == KubeadmInv' /\ Grows /\ khist'[1] = khist[1]

\* A run that ends without a write.
LEMMA KubeadmStops ==
  ASSUME KubeadmInv, NEW r, K!Finish(r), UNCHANGED <<khist, infra, probe, ca, kubeconfig, machine, machineView>>
  PROVE  Kept
<1>1. kw' = K!NoLocal /\ kpc' = "idle"
  BY DEF K!Finish
<1>2. ObjectInv' /\ Grows /\ (K!Api)' = K!Api
  BY <1>1, ObjectKept
<1>3. KubeadmTypes'
  BY <1>1, KubeadmIdle DEF KubeadmInv, KubeadmTypes
<1>4. MachineInv'
  BY <1>1, <1>2, KubeadmIdle DEF KubeadmInv, MachineInv, SeenRunning
<1>5. PlaceInv'
  BY <1>1 DEF PlaceInv, AfterKubeconfig, AfterEndpoint
<1>6. QED BY <1>2, <1>3, <1>4, <1>5 DEF Kept, KubeadmInv

\* A run that ends with a write.
LEMMA KubeadmEnds ==
  ASSUME KubeadmInv, NEW a \in K!CP, KeptBy(a), a.ep = kw.cp.ep, a.init = kw.cp.init,
         K!Write(K!Patched(a)), NEW r, K!Finish(r),
         UNCHANGED <<infra, probe, ca, kubeconfig, machine, machineView>>
  PROVE  Kept
<1>1. kw' = K!NoLocal /\ kpc' = "idle"
  BY DEF K!Finish
<1>2. /\ khist' \in Seq(K!CP) /\ Len(khist') \in Nat \ {0} /\ (K!Api)' = K!Patched(a)
      /\ Grows /\ (\A i \in 1..Len(khist) : Sane(khist[i]))'
      /\ khist'[1] = khist[1]
  BY KubeadmSends
<1>3. K!Patched(a).init => K!Api.init
  BY KubeadmPatched
<1>4. ObjectInv'
  <2>1. K!NoLocal.cp.init = FALSE /\ K!NoLocal.cp.ep \notin Endpoints /\ Sane(K!NoLocal.cp)
    BY KubeadmIdle, PartAssumption
       DEF K!NoLocal, K!NewCP, K!ConstantsAssumption
  <2>2. Sane(kw.cp)'
    BY <1>1, <2>1 DEF Sane, Vouched, KeptBy
  <2>3. QED BY <1>2, <2>2 DEF ObjectInv
<1>5. KubeadmTypes'
  BY <1>1, <1>2, KubeadmIdle DEF KubeadmInv, KubeadmTypes
<1>6. MachineInv'
  BY <1>1, <1>2, <1>3, KubeadmIdle DEF KubeadmInv, MachineInv, SeenRunning
<1>7. PlaceInv'
  BY <1>1 DEF PlaceInv, AfterKubeconfig, AfterEndpoint
<1>8. QED BY <1>2, <1>4, <1>5, <1>6, <1>7 DEF Kept, KubeadmInv

\* A run that goes on after a patch, or without one.
LEMMA KubeadmGoesOn ==
  ASSUME KubeadmInv, NEW a \in K!CP, KeptBy(a),
         a.ep = kw.cp.ep \/ (a.ep = infra /\ infra \in Endpoints),
         kw.cp.init => a.init, a.init => SeenRunning \/ kw.cp.init,
         K!Patch(a), UNCHANGED <<infra, probe, ca, kubeconfig, machine, machineView>>
  PROVE  /\ KubeadmTypes' /\ ObjectInv' /\ MachineInv' /\ Grows /\ khist'[1] = khist[1]
         /\ kw'.ep = kw.ep /\ kw'.probe = kw.probe /\ kw'.owner = kw.owner
         /\ a.ep \in Endpoints => kw'.cp.ep = infra
         /\ a.init => kw'.cp.init
<1>1. K!Write(K!Patched(a)) /\ kw' = [kw EXCEPT !.cp = K!Patched(a)] /\ kw \in K!Local
  BY DEF K!Patch, KubeadmInv, KubeadmTypes
<1>2. /\ khist' \in Seq(K!CP) /\ Len(khist') \in Nat \ {0} /\ (K!Api)' = K!Patched(a)
      /\ Grows /\ (\A i \in 1..Len(khist) : Sane(khist[i]))'
      /\ khist'[1] = khist[1]
  BY <1>1, KubeadmSends
<1>3. /\ K!Patched(a) \in K!CP
      /\ a.ep \in Endpoints => K!Patched(a).ep = infra
      /\ a.init => K!Patched(a).init
      /\ K!Patched(a).init => K!Api.init \/ (a.init /\ ~kw.cp.init)
  BY KubeadmPatched
<1>4. /\ kw' \in K!Local /\ kw'.cp = K!Patched(a)
      /\ kw'.ep = kw.ep /\ kw'.probe = kw.probe /\ kw'.owner = kw.owner
  BY <1>1, <1>3 DEF K!Local
<1>5. ObjectInv'
  BY <1>2, <1>4, CopySane DEF ObjectInv
<1>6. KubeadmTypes'
  BY <1>2, <1>4 DEF KubeadmInv, KubeadmTypes
<1>7. MachineInv'
  <2>1. SeenRunning' => SeenRunning
    BY <1>2, <1>3, <1>4 DEF SeenRunning
  <2>2. QED BY <2>1 DEF KubeadmInv, MachineInv
<1>8. QED BY <1>2, <1>3, <1>4, <1>5, <1>6, <1>7

\* The worker's local variables.
LEMMA KubeadmLocal ==
  ASSUME KubeadmInv
  PROVE  /\ kw \in K!Local /\ kw.cp \in K!CP /\ KeptBy(kw.cp) /\ Sane(kw.cp)
         /\ kw.cp.version \in DOMAIN VersionNames /\ kw.cp.version # 0
         /\ kw.ep \in Endpoints \cup {K!None} /\ K!None = None
<1>1. 0 \notin DOMAIN VersionNames
  BY PartAssumption DEF K!ConstantsAssumption
<1>2. QED
  BY <1>1 DEF KubeadmInv, KubeadmTypes, ObjectInv, Sane, K!Local, K!CP, K!None, None

\* Every step of the worker keeps the invariant.
LEMMA KubeadmWorker == ASSUME KubeadmInv, K!Worker PROVE Kept
<1> USE DEF K!envVars, K!madeVars, K!cpVars
<1>a. /\ kw \in K!Local /\ kw.cp \in K!CP /\ KeptBy(kw.cp) /\ Sane(kw.cp)
      /\ kw.cp.version \in DOMAIN VersionNames /\ kw.cp.version # 0
      /\ kw.ep \in Endpoints \cup {K!None} /\ K!None = None
  BY KubeadmLocal
<1>b. KubeadmTypes /\ ObjectInv /\ MachineInv /\ PlaceInv
  BY DEF KubeadmInv
<1>1. CASE K!StartReconcile
  <2>1. /\ kw' = [cp |-> khist[1], owner |-> khist[1].linked /\ clusterSeen,
                  probe |-> probe, ep |-> K!None]
        /\ kpc' = "owner" /\ UNCHANGED <<khist, infra, probe, ca, kubeconfig, machine, machineView>>
    BY <1>1 DEF K!StartReconcile
  <2>2. kw'.cp = khist[1] /\ kw'.probe = probe
    BY <2>1
  <2>3. ObjectInv' /\ Grows /\ (K!Api)' = K!Api
    BY <2>1, <2>2, ObjectKept
  <2>4. KubeadmTypes'
    <3>1. khist[1] \in K!CP
      BY <1>b, KubeadmApi DEF KubeadmTypes, ObjectInv
    <3>2. (khist[1].linked /\ clusterSeen) \in BOOLEAN
      OBVIOUS
    <3>3. probe \in BOOLEAN
      BY <1>b DEF KubeadmTypes
    <3>4. kw' \in K!Local
      BY <2>1, <3>1, <3>2, <3>3 DEF K!Local
    <3>5. QED BY <1>b, <2>1, <3>4 DEF KubeadmTypes
  <2>5. MachineInv'
    BY <1>b, <2>1, <2>2, <2>3 DEF MachineInv, SeenRunning
  <2>6. PlaceInv'
    BY <2>1 DEF PlaceInv, AfterKubeconfig, AfterEndpoint
  <2>7. QED BY <2>1, <2>3, <2>4, <2>5, <2>6 DEF Kept, KubeadmInv
<1>2. CASE K!PatchOwner
  <2> DEFINE s == IF kw.owner THEN "True" ELSE "False"
             a == [kw.cp EXCEPT !.conds.owner = s]
  <2>1. a \in K!CP /\ a.ep = kw.cp.ep /\ a.init = kw.cp.init
        /\ a.conds.ready = kw.cp.conds.ready
    BY <1>a DEF K!CP
  <2>2. IF kw.owner THEN K!Patch(a) /\ kpc' = "certs" ELSE K!Write(K!Patched(a)) /\ K!Finish(TRUE)
    BY <1>2 DEF K!PatchOwner
  <2>3. UNCHANGED <<infra, probe, ca, kubeconfig, machine, machineView>>
    BY <1>2 DEF K!PatchOwner
  <2> HIDE DEF a
  <2>4. KeptBy(a)
    BY <1>a, <2>1 DEF KeptBy
  <2>5. CASE kw.owner
    <3>1. KubeadmTypes' /\ ObjectInv' /\ MachineInv' /\ Grows /\ khist'[1] = khist[1]
      BY <2>1, <2>2, <2>3, <2>4, <2>5, KubeadmGoesOn
    <3>2. PlaceInv'
      BY <2>2, <2>5 DEF PlaceInv, AfterKubeconfig, AfterEndpoint
    <3>3. QED BY <3>1, <3>2 DEF Kept, KubeadmInv
  <2>6. CASE ~kw.owner
    BY <2>1, <2>2, <2>3, <2>4, <2>6, KubeadmEnds
  <2>7. QED BY <2>5, <2>6
<1>3. CASE K!Certificates
  <2>1. kpc = "certs" /\ kpc' = "infra" /\ ca' = TRUE
        /\ UNCHANGED <<khist, infra, probe, kubeconfig, machine, machineView, kw>>
    BY <1>3 DEF K!Certificates
  <2>2. ObjectInv' /\ Grows /\ (K!Api)' = K!Api
    BY <2>1, ObjectKept
  <2>3. KubeadmTypes'
    BY <1>b, <2>1 DEF KubeadmTypes
  <2>4. MachineInv'
    BY <1>b, <2>1, <2>2 DEF MachineInv, SeenRunning
  <2>5. PlaceInv'
    BY <2>1 DEF PlaceInv, AfterKubeconfig, AfterEndpoint
  <2>6. QED BY <2>1, <2>2, <2>3, <2>4, <2>5 DEF Kept, KubeadmInv
<1>4. CASE K!ReadInfra
  <2>1. UNCHANGED <<khist, infra, probe, ca, kubeconfig, machine, machineView>> /\ kpc = "infra"
    BY <1>4 DEF K!ReadInfra
  <2>2. CASE infra = "absent"
    <3>1. K!Finish(TRUE)
      BY <1>4, <2>2 DEF K!ReadInfra
    <3>2. QED BY <2>1, <3>1, KubeadmStops
  <2>3. CASE infra # "absent"
    <3>1. kw' = [kw EXCEPT !.ep = infra]
          /\ kpc' = IF infra = None THEN "notReady" ELSE "endpoint"
      BY <1>4, <2>3 DEF K!ReadInfra, K!None, None
    <3>2. infra \in Endpoints \cup {K!None}
      BY <1>a, <1>b, <2>3 DEF KubeadmTypes
    <3>3. kw' \in K!Local /\ kw'.cp = kw.cp /\ kw'.ep = infra /\ kw'.probe = kw.probe
      BY <1>a, <3>1, <3>2 DEF K!Local
    <3>4. ObjectInv' /\ Grows /\ (K!Api)' = K!Api
      BY <2>1, <3>3, ObjectKept
    <3>5. KubeadmTypes'
      BY <1>b, <2>1, <3>3 DEF KubeadmTypes
    <3>6. MachineInv'
      BY <1>b, <2>1, <3>3, <3>4 DEF MachineInv, SeenRunning
    <3>7. ca
      BY <1>b, <2>1 DEF PlaceInv
    <3>8. PlaceInv'
      <4>1. CASE infra = None
        BY <2>1, <3>1, <3>7, <4>1 DEF PlaceInv, AfterKubeconfig, AfterEndpoint
      <4>2. CASE infra # None
        <5>1. infra \in Endpoints /\ kpc' = "endpoint"
          BY <1>a, <3>1, <3>2, <4>2
        <5>2. QED
          BY <2>1, <3>3, <3>7, <5>1 DEF PlaceInv, AfterKubeconfig, AfterEndpoint
      <4>3. QED BY <4>1, <4>2
    <3>9. QED BY <2>1, <3>4, <3>5, <3>6, <3>8 DEF Kept, KubeadmInv
  <2>4. QED BY <2>2, <2>3
<1>5. CASE K!NotReady
  <2> DEFINE a == [kw.cp EXCEPT !.conds.ready = "False"]
  <2>1. a \in K!CP /\ a.ep = kw.cp.ep /\ a.init = kw.cp.init /\ a.conds.ready = "False"
    BY <1>a DEF K!CP
  <2>2. K!Write(K!Patched(a)) /\ K!Finish(TRUE)
        /\ UNCHANGED <<infra, probe, ca, kubeconfig, machine, machineView>>
    BY <1>5 DEF K!NotReady
  <2> HIDE DEF a
  <2>3. KeptBy(a)
    BY <1>a, <2>1 DEF KeptBy
  <2>4. QED BY <2>1, <2>2, <2>3, KubeadmEnds
<1>6. CASE K!PatchEndpoint
  <2>1. kpc = "endpoint" /\ kpc' = "kubeconfig"
        /\ UNCHANGED <<infra, probe, ca, kubeconfig, machine, machineView>>
    BY <1>6 DEF K!PatchEndpoint
  <2>2. ca /\ infra \in Endpoints /\ kw.ep = infra
    BY <1>b, <2>1 DEF PlaceInv
  <2>3. CASE kw.cp.ep # kw.ep
    <3> DEFINE a == [kw.cp EXCEPT !.ep = kw.ep]
    <3>1. a \in K!CP /\ a.ep = infra /\ a.init = kw.cp.init /\ a.conds = kw.cp.conds
      BY <1>a, <2>2 DEF K!CP
    <3>2. K!Patch(a)
      BY <1>6, <2>3 DEF K!PatchEndpoint
    <3> HIDE DEF a
    <3>3. KeptBy(a)
      BY <1>a, <2>2, <3>1 DEF KeptBy
    <3>4. /\ KubeadmTypes' /\ ObjectInv' /\ MachineInv' /\ Grows /\ khist'[1] = khist[1]
          /\ kw'.ep = kw.ep /\ kw'.cp.ep = infra
      BY <2>1, <2>2, <3>1, <3>2, <3>3, KubeadmGoesOn
    <3>5. PlaceInv'
      BY <2>1, <2>2, <3>4 DEF PlaceInv, AfterKubeconfig, AfterEndpoint
    <3>6. QED BY <3>4, <3>5 DEF Kept, KubeadmInv
  <2>4. CASE kw.cp.ep = kw.ep
    <3>1. UNCHANGED <<khist, kw>>
      BY <1>6, <2>4 DEF K!PatchEndpoint
    <3>2. ObjectInv' /\ Grows /\ (K!Api)' = K!Api
      BY <2>1, <3>1, ObjectKept
    <3>3. KubeadmTypes'
      BY <1>b, <2>1, <3>1 DEF KubeadmTypes
    <3>4. MachineInv'
      BY <1>b, <2>1, <3>1, <3>2 DEF MachineInv, SeenRunning
    <3>5. PlaceInv'
      BY <2>1, <2>2, <2>4, <3>1 DEF PlaceInv, AfterKubeconfig, AfterEndpoint
    <3>6. QED BY <3>1, <3>2, <3>3, <3>4, <3>5 DEF Kept, KubeadmInv
  <2>5. QED BY <2>3, <2>4
<1>7. CASE K!WriteKubeconfig
  <2>1. kpc = "kubeconfig" /\ kpc' = "config" /\ kubeconfig' = kw.ep
        /\ UNCHANGED <<khist, infra, probe, ca, machine, machineView, kw>>
    BY <1>7 DEF K!WriteKubeconfig
  <2>2. ObjectInv' /\ Grows /\ (K!Api)' = K!Api
    BY <2>1, ObjectKept
  <2>3. KubeadmTypes'
    BY <1>b, <2>1 DEF KubeadmTypes
  <2>4. ca /\ infra \in Endpoints /\ kw.ep = infra /\ kw.cp.ep = infra
    BY <1>b, <2>1 DEF PlaceInv, AfterEndpoint
  <2>5. MachineInv'
    BY <1>b, <2>1, <2>2, <2>4 DEF MachineInv, SeenRunning
  <2>6. PlaceInv'
    BY <2>1, <2>4 DEF PlaceInv, AfterKubeconfig, AfterEndpoint
  <2>7. QED BY <2>1, <2>2, <2>3, <2>5, <2>6 DEF Kept, KubeadmInv
<1>8. CASE K!WriteConfig \/ (K!WriteInfraMachine /\ template)
  <2>1. /\ \/ kpc = "config" /\ kpc' = "infraMachine"
           \/ kpc = "infraMachine" /\ kpc' = "machine"
        /\ UNCHANGED <<khist, infra, probe, ca, kubeconfig, machine, machineView, kw>>
    BY <1>8 DEF K!WriteConfig, K!WriteInfraMachine
  <2>2. ObjectInv' /\ Grows /\ (K!Api)' = K!Api
    BY <2>1, ObjectKept
  <2>3. KubeadmTypes'
    BY <1>b, <2>1 DEF KubeadmTypes
  <2>4. ca /\ infra \in Endpoints /\ kw.ep = infra /\ kw.cp.ep = infra /\ kubeconfig = infra
    BY <1>b, <2>1 DEF PlaceInv, AfterKubeconfig, AfterEndpoint
  <2>5. MachineInv'
    BY <1>b, <2>1, <2>2 DEF MachineInv, SeenRunning
  <2>6. PlaceInv'
    BY <2>1, <2>4 DEF PlaceInv, AfterKubeconfig, AfterEndpoint
  <2>7. QED BY <2>1, <2>2, <2>3, <2>5, <2>6 DEF Kept, KubeadmInv
<1>9. CASE K!WriteInfraMachine /\ ~template
  <2>1. K!Finish(TRUE)
        /\ UNCHANGED <<khist, infra, probe, ca, kubeconfig, machine, machineView>>
    BY <1>9 DEF K!WriteInfraMachine
  <2>2. QED BY <2>1, KubeadmStops
<1>10. CASE K!WriteMachine
  <2> DEFINE v == K!CreateOrPatch(0, machineView.ver, machine.ver, kw.cp.version)
  <2>1. kpc = "machine" /\ kpc' = "initialized" /\ machine' = [machine EXCEPT !.ver = v]
        /\ UNCHANGED <<khist, infra, probe, ca, kubeconfig, machineView, kw>>
    BY <1>10 DEF K!WriteMachine
  <2>2. v = machine.ver \/ v = kw.cp.version
    BY DEF K!CreateOrPatch, K!Merged
  <2> HIDE DEF v
  <2>3. machine' \in K!Machine /\ machine'.ver = v /\ machine'.ready = machine.ready
    BY <1>a, <1>b, <2>1, <2>2 DEF KubeadmTypes, K!Machine
  <2>4. ca /\ infra \in Endpoints /\ kw.ep = infra /\ kw.cp.ep = infra /\ kubeconfig = infra
    BY <1>b, <2>1 DEF PlaceInv, AfterKubeconfig, AfterEndpoint
  <2>5. ObjectInv' /\ Grows /\ (K!Api)' = K!Api
    BY <2>1, ObjectKept
  <2>6. KubeadmTypes'
    BY <1>b, <2>1, <2>3 DEF KubeadmTypes
  <2>7. MachineInv'
    BY <1>a, <1>b, <2>1, <2>2, <2>3, <2>4, <2>5 DEF MachineInv, SeenRunning
  <2>8. PlaceInv'
    BY <2>1, <2>4 DEF PlaceInv, AfterKubeconfig, AfterEndpoint
  <2>9. QED BY <2>1, <2>5, <2>6, <2>7, <2>8 DEF Kept, KubeadmInv
<1>11. CASE K!ReconcileInitialized
  <2> DEFINE reached == kw.probe \/ machineView.ready
             a == [kw.cp EXCEPT !.init = TRUE]
  <2>1. /\ kpc = "initialized"
        /\ kpc' = IF kw.cp.init \/ reached THEN "ready" ELSE "notReady"
        /\ UNCHANGED <<infra, probe, ca, kubeconfig, machine, machineView>>
    BY <1>11 DEF K!ReconcileInitialized
  <2>2. ca /\ infra \in Endpoints /\ kw.ep = infra /\ kw.cp.ep = infra /\ kubeconfig = infra
    BY <1>b, <2>1 DEF PlaceInv, AfterKubeconfig, AfterEndpoint
  <2>3. CASE ~kw.cp.init /\ reached
    <3>1. a \in K!CP /\ a.ep = kw.cp.ep /\ a.init = TRUE /\ a.conds = kw.cp.conds
      BY <1>a DEF K!CP
    <3>2. K!Patch(a)
      BY <1>11, <2>3 DEF K!ReconcileInitialized
    <3>3. SeenRunning
      BY <2>3 DEF SeenRunning
    <3> HIDE DEF a
    <3>4. KeptBy(a)
      BY <2>2, <3>1 DEF KeptBy
    <3>5. /\ KubeadmTypes' /\ ObjectInv' /\ MachineInv' /\ Grows /\ khist'[1] = khist[1]
          /\ kw'.ep = kw.ep /\ kw'.cp.ep = infra /\ kw'.cp.init
      BY <2>1, <2>2, <3>1, <3>2, <3>3, <3>4, KubeadmGoesOn
    <3>6. PlaceInv'
      BY <2>1, <2>2, <3>5 DEF PlaceInv, AfterKubeconfig, AfterEndpoint
    <3>7. QED BY <3>5, <3>6 DEF Kept, KubeadmInv
  <2>4. CASE ~(~kw.cp.init /\ reached)
    <3>1. UNCHANGED <<khist, kw>>
      BY <1>11, <2>4 DEF K!ReconcileInitialized
    <3>2. ObjectInv' /\ Grows /\ (K!Api)' = K!Api
      BY <2>1, <3>1, ObjectKept
    <3>3. KubeadmTypes'
      BY <1>b, <2>1, <3>1 DEF KubeadmTypes
    <3>4. MachineInv'
      BY <1>b, <2>1, <3>1, <3>2 DEF MachineInv, SeenRunning
    <3>5. PlaceInv'
      BY <2>1, <2>2, <2>4, <3>1 DEF PlaceInv, AfterKubeconfig, AfterEndpoint
    <3>6. QED BY <3>1, <3>2, <3>3, <3>4, <3>5 DEF Kept, KubeadmInv
  <2>5. QED BY <2>3, <2>4
<1>12. CASE K!PatchReady
  <2> DEFINE a == [kw.cp EXCEPT !.conds.ready = "True", !.sver = kw.cp.version]
  <2>1. a \in K!CP /\ a.ep = kw.cp.ep /\ a.init = kw.cp.init
    BY <1>a DEF K!CP
  <2>2. K!Write(K!Patched(a)) /\ K!Finish(FALSE) /\ kpc = "ready"
        /\ UNCHANGED <<infra, probe, ca, kubeconfig, machine, machineView>>
    BY <1>12 DEF K!PatchReady
  <2> HIDE DEF a
  <2>3. kw.cp.init
    BY <1>b, <2>2 DEF PlaceInv
  <2>4. KeptBy(a)
    BY <1>a, <2>1, <2>3 DEF KeptBy
  <2>5. QED BY <2>1, <2>2, <2>4, KubeadmEnds
<1>13. QED
  BY <1>1, <1>2, <1>3, <1>4, <1>5, <1>6, <1>7, <1>8, <1>9, <1>10, <1>11, <1>12 DEF K!Worker

\* So do the cache of what it made, its timer and its world.
LEMMA KubeadmAround ==
  ASSUME KubeadmInv, K!TimerFires \/ K!ViewAdvance \/ K!WorldChanges PROVE Kept
<1> USE DEF K!envVars, K!madeVars, K!cpVars
<1>b. KubeadmTypes /\ ObjectInv /\ MachineInv /\ PlaceInv
  BY DEF KubeadmInv
<1>1. CASE K!TimerFires
  <2>1. UNCHANGED <<khist, infra, probe, ca, kubeconfig, machine, machineView, kpc, kw>>
    BY <1>1 DEF K!TimerFires
  <2>2. ObjectInv' /\ Grows /\ (K!Api)' = K!Api
    BY <2>1, ObjectKept
  <2>3. KubeadmTypes' /\ MachineInv' /\ PlaceInv'
    BY <1>b, <2>1, <2>2 DEF KubeadmTypes, MachineInv, SeenRunning, PlaceInv
  <2>4. QED BY <2>1, <2>2, <2>3 DEF Kept, KubeadmInv
<1>2. CASE K!ViewAdvance
  <2>1. /\ UNCHANGED <<khist, infra, probe, ca, kubeconfig, machine, kpc, kw>>
        /\ machineView' \in {machineView, machine}
    BY <1>2 DEF K!ViewAdvance
  <2>2. ObjectInv' /\ Grows /\ (K!Api)' = K!Api
    BY <2>1, ObjectKept
  <2>3. KubeadmTypes' /\ PlaceInv'
    BY <1>b, <2>1 DEF KubeadmTypes, PlaceInv
  <2>4. MachineInv'
    BY <1>b, <2>1, <2>2 DEF MachineInv, SeenRunning
  <2>5. QED BY <2>1, <2>2, <2>3, <2>4 DEF Kept, KubeadmInv
<1>3. CASE K!WorldChanges
  <2>1. /\ UNCHANGED <<khist, ca, kubeconfig, machineView, kpc, kw>>
        /\ infra' = infra \/ (infra \notin Endpoints /\ infra' \in Endpoints \cup {K!None})
        /\ probe' = probe \/ (probe' = TRUE /\ machineView.ver # 0)
        /\ \/ machine' = machine
           \/ machine' = [machine EXCEPT !.ready = ~@] /\ machineView.ver # 0
    BY <1>3 DEF K!WorldChanges
  <2>2. ObjectInv' /\ Grows /\ (K!Api)' = K!Api
    BY <2>1, ObjectKept
  <2>3. machine' \in K!Machine /\ machine'.ver = machine.ver
        /\ (machine'.ready => machine.ready \/ machineView.ver # 0)
    BY <1>b, <2>1 DEF KubeadmTypes, K!Machine
  <2>4. KubeadmTypes'
    BY <1>b, <2>1, <2>3 DEF KubeadmTypes, K!None, None
  <2>5. MachineInv'
    BY <1>b, <2>1, <2>2, <2>3 DEF MachineInv, SeenRunning
  <2>6. PlaceInv'
    BY <1>b, <2>1 DEF PlaceInv, AfterKubeconfig, AfterEndpoint
  <2>7. QED BY <2>1, <2>2, <2>4, <2>5, <2>6 DEF Kept, KubeadmInv
<1>4. QED BY <1>1, <1>2, <1>3

\* The cache of the object follows: the server's object stays.
LEMMA KubeadmAdvances ==
  ASSUME KubeadmInv, K!CacheAdvance
  PROVE  /\ KubeadmInv' /\ Grows /\ (K!Api)' = K!Api
         /\ Len(khist) > 1 /\ khist'[1] \in K!CP /\ Len(khist') \in Nat \ {0}
<1> USE DEF K!envVars, K!madeVars
<1>b. KubeadmTypes /\ ObjectInv /\ MachineInv /\ PlaceInv
  BY DEF KubeadmInv
<1>1. /\ Len(khist) > 1 /\ khist' = Tail(khist)
      /\ UNCHANGED <<infra, probe, ca, kubeconfig, machine, machineView, kpc, kw>>
  BY DEF K!CacheAdvance
<1>2. /\ khist' \in Seq(K!CP) /\ Len(khist') = Len(khist) - 1 /\ Len(khist') \in Nat \ {0}
      /\ \A i \in 1..Len(khist') : khist'[i] = khist[i + 1] /\ i + 1 \in 1..Len(khist)
  BY <1>b, <1>1 DEF KubeadmTypes
<1>3. (K!Api)' = K!Api /\ khist'[1] \in K!CP
  BY <1>b, <1>2 DEF K!Api, KubeadmTypes
<1>4. ObjectInv'
  BY <1>b, <1>1, <1>2, <1>3 DEF ObjectInv, Sane, Vouched, KeptBy
<1>5. KubeadmTypes' /\ MachineInv' /\ PlaceInv'
  BY <1>b, <1>1, <1>2, <1>3 DEF KubeadmTypes, MachineInv, SeenRunning, PlaceInv
<1>6. QED BY <1>1, <1>2, <1>3, <1>4, <1>5 DEF Grows, KubeadmInv

\* The facade writes the spec: version and reference, a version behind the others.
LEMMA KubeadmEdited ==
  ASSUME KubeadmInv, NEW n \in DOMAIN VersionNames, NEW l \in BOOLEAN,
         khist' = Append(khist, [K!Api EXCEPT !.version = n, !.linked = l]),
         UNCHANGED <<infra, probe, ca, kubeconfig, machine, machineView, kpc, kw>>
  PROVE  Kept /\ (K!Api)' = [K!Api EXCEPT !.version = n, !.linked = l]
<1>b. KubeadmTypes /\ ObjectInv /\ MachineInv /\ PlaceInv
  BY DEF KubeadmInv
<1>1. K!Api \in K!CP /\ Sane(K!Api)
  BY <1>b, KubeadmApi DEF KubeadmTypes, ObjectInv
<1> DEFINE o == [K!Api EXCEPT !.version = n, !.linked = l]
<1>2. o \in K!CP /\ o.init = K!Api.init /\ o.ep = K!Api.ep /\ o.conds = K!Api.conds
  BY <1>1 DEF K!CP
<1>3. khist' = Append(khist, o) /\ o = [K!Api EXCEPT !.version = n, !.linked = l]
  OBVIOUS
<1> HIDE DEF o
<1>4. KeptBy(o) /\ (o.ep \in Endpoints => o.ep = infra)
  BY <1>1, <1>2 DEF Sane, Vouched, KeptBy
<1>5. /\ khist' \in Seq(K!CP) /\ Len(khist') \in Nat \ {0} /\ (K!Api)' = o /\ Grows
      /\ (\A i \in 1..Len(khist) : Sane(khist[i]))'
  BY <1>b, <1>2, <1>3, <1>4, SaneAppended DEF KubeadmTypes, ObjectInv
<1>6. khist'[1] = khist[1]
  BY <1>b, <1>2, <1>3 DEF KubeadmTypes
<1>7. ObjectInv'
  <2>1. Sane(kw.cp)'
    BY <1>b, <1>2, <1>5 DEF ObjectInv, Sane, Vouched, KeptBy
  <2>2. QED BY <1>5, <2>1 DEF ObjectInv
<1>8. KubeadmTypes' /\ MachineInv' /\ PlaceInv'
  BY <1>b, <1>2, <1>5 DEF KubeadmTypes, MachineInv, SeenRunning, PlaceInv
<1>9. QED BY <1>3, <1>5, <1>6, <1>7, <1>8 DEF Kept, KubeadmInv

\* A history of one version.
LEMMA OneVersion ==
  ASSUME NEW S, NEW x \in S, NEW s, s = <<x>>
  PROVE  /\ s \in Seq(S) /\ Len(s) = 1 /\ s[1] = x /\ s[Len(s)] = x
         /\ \A i \in 1..Len(s) : s[i] = x
OBVIOUS

\* The facade creates the object, of which nothing is known yet.
LEMMA KubeadmCreated ==
  ASSUME KubeadmInv, NEW n \in DOMAIN VersionNames, NEW l \in BOOLEAN,
         khist = <<K!NewCP(1, FALSE)>>, khist' = <<K!NewCP(n, l)>>, kw = K!NoLocal,
         UNCHANGED <<infra, probe, ca, kubeconfig, machine, machineView, kpc, kw>>
  PROVE  KubeadmInv' /\ Grows /\ (K!Api)' = K!NewCP(n, l)
<1>b. KubeadmTypes /\ ObjectInv /\ MachineInv /\ PlaceInv
  BY DEF KubeadmInv
<1>1. 1 \in DOMAIN VersionNames
  BY SelfManagedAssumption, ConstantsAssumption
<1> DEFINE o == K!NewCP(n, l)
           empty == K!NewCP(1, FALSE)
<1>2. o \in K!CP /\ o.init = FALSE /\ o.ep \notin Endpoints /\ KeptBy(o)
  BY NewKubeadm DEF Sane
<1>3. empty \in K!CP /\ empty.init = FALSE /\ empty.ep \notin Endpoints
  BY <1>1, NewKubeadm
<1>4. khist = <<empty>> /\ khist' = <<o>> /\ o = K!NewCP(n, l)
  OBVIOUS
<1> HIDE DEF o, empty
<1>5. K!Api = empty /\ (K!Api)' = o
  <2>1. K!Api = khist[Len(khist)] /\ (K!Api)' = khist'[Len(khist')]
    BY DEF K!Api
  <2>2. khist[Len(khist)] = empty
    BY <1>3, <1>4, OneVersion, Zenon
  <2>3. khist'[Len(khist')] = o
    BY <1>2, <1>4, OneVersion, Zenon
  <2>4. QED BY <2>1, <2>2, <2>3
<1>6. Grows
  BY <1>3, <1>5 DEF Grows
<1>7. K!NoLocal.cp.init = FALSE /\ K!NoLocal.cp.ep \notin Endpoints /\ Sane(K!NoLocal.cp)
  BY KubeadmIdle, PartAssumption DEF K!NoLocal, K!NewCP, K!ConstantsAssumption
<1>8. ObjectInv'
  <2>1. Sane(kw.cp)'
    BY <1>7 DEF Sane, Vouched, KeptBy
  <2>2. (\A i \in 1..Len(khist) : Sane(khist[i]))'
    <3>1. \A i \in 1..Len(khist') : khist'[i] = o
      BY <1>4
    <3>2. QED BY <1>2, <3>1 DEF Sane, Vouched, KeptBy
  <2>3. QED BY <2>1, <2>2 DEF ObjectInv
<1>9. KubeadmTypes'
  BY <1>b, <1>2, <1>4 DEF KubeadmTypes
<1>10. MachineInv' /\ PlaceInv'
  BY <1>b, <1>2, <1>3, <1>5 DEF MachineInv, SeenRunning, PlaceInv
<1>11. QED BY <1>4, <1>5, <1>6, <1>8, <1>9, <1>10 DEF KubeadmInv

-----------------------------------------------------------------------------
(* What goes over the two caches *)

\* What the facade is shown of a version of the kubeadm object.
LEMMA ReflectedFields ==
  ASSUME NEW c \in K!CP
  PROVE  /\ Reflected(c) \in Inst
         /\ Reflected(c).exists = TRUE /\ Reflected(c).owner = 1
         /\ Reflected(c).ver = VersionNames[c.version] /\ Reflected(c).ident = c.linked
         /\ Reflected(c).st \in InstanceStatus
         /\ Reflected(c).st.ready = (c.conds.ready = "True")
         /\ Reflected(c).st.ep = c.ep /\ Reflected(c).st.init = c.init
         /\ ~Reflected(c).st.malformed
<1>1. /\ c.version \in DOMAIN VersionNames /\ c.linked \in BOOLEAN /\ c.init \in BOOLEAN
      /\ c.ep \in Endpoints \cup {None} /\ c.sver \in DOMAIN VersionNames \cup {0}
  BY DEF K!CP, K!None, None
<1>2. VersionNames[c.version] \in Versions
      /\ (IF c.sver = 0 THEN None ELSE VersionNames[c.sver]) \in Versions \cup {None}
  BY <1>1, SelfManagedAssumption
<1> DEFINE r == c.conds.ready = "True"
           s == [NoStatus EXCEPT !.ready = r, !.ep = c.ep, !.init = c.init]
           o == IF c.sver = 0 THEN None ELSE VersionNames[c.sver]
<1>3. r \in BOOLEAN
  OBVIOUS
<1>4. s \in InstanceStatus /\ s.ready = r /\ s.ep = c.ep /\ s.init = c.init /\ ~s.malformed
  BY <1>1, <1>3 DEF NoStatus, InstanceStatus
<1>5. Reflected(c) = [exists |-> TRUE, owner |-> 1, ver |-> VersionNames[c.version],
                      ident |-> c.linked, st |-> s, obs |-> o]
  BY DEF Reflected
<1>6. r = (c.conds.ready = "True")
  OBVIOUS
<1>7. o \in Versions \cup {None}
  BY <1>2
<1>8. 1 \in 0..MaxUid
  BY Bounds
<1> HIDE DEF r, s, o
<1>9. QED BY <1>1, <1>2, <1>4, <1>5, <1>6, <1>7, <1>8 DEF Inst

\* It is a status of a backend that keeps the contract.
LEMMA ReflectedPossible ==
  ASSUME NEW c \in K!CP, KeptBy(c) PROVE Reflected(c).st \in Possible
<1> DEFINE s == Reflected(c).st
<1>1. /\ s \in InstanceStatus /\ s.ready = (c.conds.ready = "True")
      /\ s.ep = c.ep /\ s.init = c.init
  BY ReflectedFields
<1> HIDE DEF s
<1>2. s \in Possible
  BY <1>1 DEF Possible, KeptBy
<1>3. QED BY <1>2 DEF s

\* Whatever the facade holds or has published was true when it was said.
TruthInv ==
  /\ Vouched(w.cp) /\ Vouched(w.st) /\ Vouched(inst.st) /\ Vouched(view.st)
  /\ \A i \in 1..Len(hist) : Vouched(hist[i])

\* What has been reached stays so.
LEMMA TruthAfter ==
  ASSUME K!Api.init => K!Api'.init, infra \in Endpoints => infra' = infra,
         Vouched(w'.cp), Vouched(w'.st), Vouched(inst'.st), Vouched(view'.st),
         \A i \in 1..Len(hist') : Vouched(hist'[i])
  PROVE  TruthInv'
BY DEF TruthInv, Vouched

-----------------------------------------------------------------------------
(* The facade's steps *)

\* Between two runs nothing is claimed.
LEMMA NothingClaimed == Vouched(NoStatus) /\ Vouched(NoLocal.cp) /\ Vouched(NoLocal.st)
<1>1. /\ NoStatus.init = FALSE /\ NoStatus.ep = None
      /\ NoLocal.cp.init = FALSE /\ NoLocal.cp.ep = None /\ NoLocal.st = NoStatus
  BY DEF NoStatus, NoLocal, NewCP
<1>2. QED BY <1>1, ConstantsAssumption DEF Vouched

\* A version that claims nothing new is written.
LEMMA WriteTruth ==
  ASSUME HistOK, \A i \in 1..Len(hist) : Vouched(hist[i]),
         NEW new \in CP, Vouched(new), Write(new)
  PROVE  \A i \in 1..Len(hist') : Vouched(hist'[i])
<1>1. CASE new = Api
  BY <1>1 DEF Write
<1>2. CASE new # Api
  <2>1. hist' = Append(hist, new) /\ hist \in Seq(CP) /\ Len(hist) \in Nat
    BY <1>2 DEF Write, HistOK
  <2>2. /\ Len(hist') = Len(hist) + 1
        /\ \A i \in 1..Len(hist) : hist'[i] = hist[i]
        /\ hist'[Len(hist) + 1] = new
    BY <2>1
  <2>3. ASSUME NEW i \in 1..Len(hist') PROVE Vouched(hist'[i])
    BY <2>1, <2>2
  <2>4. QED BY <2>3
<1>3. QED BY <1>1, <1>2

\* The worker sends what it may claim.
LEMMA PatchTruth ==
  ASSUME TypeOK, \A i \in 1..Len(hist) : Vouched(hist[i]),
         NEW a \in CP, Vouched(a), SendPatch(a)
  PROVE  Vouched(Patched(a)) /\ \A i \in 1..Len(hist') : Vouched(hist'[i])
<1>1. HistOK /\ w.cp \in CP /\ Api \in CP /\ Len(hist) \in 1..Len(hist)
  BY ApiType DEF TypeOK, HistOK, Local
<1>2. Vouched(Api)
  BY <1>1 DEF Api
<1>3. /\ Patched(a).init = Merged(w.cp.init, a.init, Api.init)
      /\ Patched(a).ep = Merged(w.cp.ep, a.ep, Api.ep)
  BY <1>1, MergePatchFields DEF Patched
<1>4. Vouched(Patched(a))
  BY <1>2, <1>3 DEF Vouched, Merged
<1>5. Patched(a) \in CP /\ Write(Patched(a))
  BY PatchedType DEF SendPatch
<1>6. QED BY <1>1, <1>4, <1>5, WriteTruth

\* What the facade says next is what it was told.
LEMMA FacadeTruth ==
  ASSUME TypeOK, TruthInv, Backend = "kubeadm",
         Worker \/ Delivery \/ EditSpec \/ UnwatchedChange
  PROVE  /\ Vouched(w'.cp) /\ Vouched(w'.st) /\ Vouched(inst'.st) /\ Vouched(view'.st)
         /\ \A i \in 1..Len(hist') : Vouched(hist'[i])
<1>a. /\ HistOK /\ w.cp \in CP /\ w.st \in InstanceStatus /\ Api \in CP /\ Cached \in CP
      /\ 1 \in 1..Len(hist) /\ Len(hist) \in 1..Len(hist)
  BY ApiType DEF TypeOK, HistOK, Local
<1>b. /\ Vouched(w.cp) /\ Vouched(w.st) /\ Vouched(inst.st) /\ Vouched(view.st)
      /\ \A i \in 1..Len(hist) : Vouched(hist[i])
      /\ Vouched(Cached) /\ Vouched(Api)
  BY <1>a DEF TruthInv, Cached, Api
<1>1. CASE StartReconcile
  <2>1. UNCHANGED <<hist, inst, view>>
    BY <1>1 DEF StartReconcile, serverVars
  <2>2. UNCHANGED w \/ (w'.cp = Cached /\ w'.st = NoStatus)
    BY <1>1 DEF StartReconcile
  <2>3. QED BY <1>b, <2>1, <2>2, NothingClaimed
<1>2. CASE ResolveRGD \/ EnsureWatch \/ CheckKubeconfig
  <2>1. UNCHANGED <<hist, inst, view>> /\ w'.cp = w.cp /\ w'.st = w.st
    BY <1>2 DEF ResolveRGD, EnsureWatch, CheckKubeconfig, serverVars, TypeOK, Local
  <2>2. QED BY <1>b, <2>1
<1>3. CASE WriteTarget \/ PatchNotFound
  <2>1. UNCHANGED <<hist, inst, view>> /\ w' \in {w, NoLocal}
    BY <1>3 DEF WriteTarget, PatchNotFound, Finish, serverVars
  <2>2. QED BY <1>b, <2>1, NothingClaimed
<1>4. CASE ReportRGDFailure
  <2> DEFINE new == [w.cp EXCEPT !.conds.rgd = "False"]
  <2>1. new \in CP /\ new.init = w.cp.init /\ new.ep = w.cp.ep
    BY <1>a DEF CP, Conds
  <2>2. (w.cp = Api /\ Write(new)) \/ UNCHANGED hist
    BY <1>4 DEF ReportRGDFailure, UpdateLocked
  <2> HIDE DEF new
  <2>3. Vouched(new)
    BY <1>b, <2>1 DEF Vouched
  <2>4. \A i \in 1..Len(hist') : Vouched(hist'[i])
    BY <1>a, <1>b, <2>1, <2>2, <2>3, WriteTruth
  <2>5. w' = NoLocal /\ UNCHANGED <<inst, view>>
    BY <1>4 DEF ReportRGDFailure, Finish
  <2>6. QED BY <1>b, <2>4, <2>5, NothingClaimed
<1>5. CASE ReportInvalid \/ PatchConditions
  <2>1. PICK r \in BOOLEAN, f \in BOOLEAN : SendPatch(ConditionsAndFailure(w.cp, r, f))
    <3>1. OverallReady \in BOOLEAN /\ (w.st.terminal \/ w.st.ep = "bad") \in BOOLEAN
      BY <1>a DEF OverallReady, ControlPlaneReady, InstanceStatus
    <3>2. QED BY <1>5, <3>1 DEF ReportInvalid, PatchConditions
  <2> DEFINE after == ConditionsAndFailure(w.cp, r, f)
  <2>2. after \in CP /\ after.init = w.cp.init /\ after.ep = w.cp.ep
    <3>1. after \in CP
      BY <1>a, ConditionsType
    <3>2. after.init = w.cp.init /\ after.ep = w.cp.ep
      BY <1>a DEF ConditionsAndFailure, CP
    <3>3. QED BY <3>1, <3>2
  <2>3. SendPatch(after)
    BY <2>1
  <2> HIDE DEF after
  <2>4. Vouched(after)
    BY <1>b, <2>2 DEF Vouched
  <2>5. \A i \in 1..Len(hist') : Vouched(hist'[i])
    BY <1>b, <2>2, <2>3, <2>4, PatchTruth
  <2>6. w' = NoLocal /\ UNCHANGED <<inst, view>>
    BY <1>5 DEF ReportInvalid, PatchConditions, Finish
  <2>7. QED BY <1>b, <2>5, <2>6, NothingClaimed
<1>6. CASE SyncBackend
  <2>1. Mutated(Seen).st = Seen.st /\ Vouched(Seen.st)
    <3>1. Seen \in Inst
      BY DEF Seen, TypeOK
    <3>2. QED BY <3>1, <1>b DEF Mutated, Seen, Inst
  <2>2. inst' \in {inst, Mutated(Seen)} /\ UNCHANGED <<hist, view>>
    BY <1>6 DEF SyncBackend
  <2>3. w' \in {NoLocal, [w EXCEPT !.st = Mutated(Seen).st]}
    BY <1>6 DEF SyncBackend, Finish
  <2>4. [w EXCEPT !.st = Mutated(Seen).st].cp = w.cp
        /\ [w EXCEPT !.st = Mutated(Seen).st].st = Mutated(Seen).st
    BY DEF TypeOK, Local
  <2>5. Vouched(w'.cp) /\ Vouched(w'.st)
    <3>1. CASE w' = NoLocal
      BY <3>1, NothingClaimed
    <3>2. CASE w' = [w EXCEPT !.st = Mutated(Seen).st]
      <4>1. w'.cp = w.cp /\ w'.st = Seen.st
        BY <3>2, <2>1, <2>4
      <4>2. QED BY <1>b, <2>1, <4>1
    <3>3. QED BY <2>3, <3>1, <3>2
  <2>6. QED BY <1>b, <2>1, <2>2, <2>5
<1>7. CASE ReportKubeconfig
  <2> DEFINE k == IF pc = "kcTrue" THEN "True" ELSE "False"
             after == [w.cp EXCEPT !.conds.kc = k]
  <2>1. after \in CP /\ after.init = w.cp.init /\ after.ep = w.cp.ep
    BY <1>a DEF CP, Conds
  <2>2. SendPatch(after) /\ w'.cp = Patched(after) /\ w'.st = w.st
    BY <1>7 DEF ReportKubeconfig, TypeOK, Local
  <2>3. UNCHANGED <<inst, view>>
    BY <1>7 DEF ReportKubeconfig
  <2> HIDE DEF after, k
  <2>4. Vouched(after)
    BY <1>b, <2>1 DEF Vouched
  <2>5. QED BY <1>b, <2>1, <2>2, <2>3, <2>4, PatchTruth
<1>8. CASE PatchEndpoint
  <2> DEFINE after == [w.cp EXCEPT !.ep = w.st.ep]
  <2>1. UNCHANGED <<inst, view>>
    BY <1>8 DEF PatchEndpoint
  <2>2. CASE w.st.ep \in Endpoints /\ w.cp.ep # w.st.ep
    <3>1. after \in CP /\ after.init = w.cp.init /\ after.ep = w.st.ep
      BY <1>a, <2>2 DEF CP
    <3>2. SendPatch(after) /\ w'.cp = Patched(after) /\ w'.st = w.st
      BY <1>8, <2>2 DEF PatchEndpoint, TypeOK, Local
    <3> HIDE DEF after
    <3>3. Vouched(after)
      BY <1>b, <3>1 DEF Vouched
    <3>4. QED BY <1>b, <2>1, <3>1, <3>2, <3>3, PatchTruth
  <2>3. CASE ~(w.st.ep \in Endpoints /\ w.cp.ep # w.st.ep)
    BY <1>8, <1>b, <2>1, <2>3 DEF PatchEndpoint
  <2>4. QED BY <2>2, <2>3
<1>9. CASE PatchInitialized
  <2> DEFINE after == [w.cp EXCEPT !.init = TRUE]
  <2>1. UNCHANGED <<inst, view>>
    BY <1>9 DEF PatchInitialized
  <2>2. CASE BackendInitialized /\ ~w.cp.init
    <3>1. after \in CP /\ after.init = TRUE /\ after.ep = w.cp.ep
      BY <1>a DEF CP
    <3>2. SendPatch(after) /\ w'.cp = Patched(after) /\ w'.st = w.st
      BY <1>9, <2>2 DEF PatchInitialized, TypeOK, Local
    <3> HIDE DEF after
    <3>3. w.st.init
      BY <2>2 DEF BackendInitialized
    <3>4. Vouched(after)
      BY <1>b, <3>1, <3>3 DEF Vouched
    <3>5. QED BY <1>b, <2>1, <3>1, <3>2, <3>4, PatchTruth
  <2>3. CASE ~(BackendInitialized /\ ~w.cp.init)
    BY <1>9, <1>b, <2>1, <2>3 DEF PatchInitialized
  <2>4. QED BY <2>2, <2>3
<1>10. CASE CacheAdvance
  <2>1. UNCHANGED <<w, inst>> /\ view' \in {view, inst}
    BY <1>10 DEF CacheAdvance
  <2>2. \A i \in 1..Len(hist') : Vouched(hist'[i])
    <3>1. CASE hist' = hist
      BY <1>b, <3>1
    <3>2. CASE /\ Len(hist) > 1 /\ Len(hist') = Len(hist) - 1
               /\ \A i \in 1..Len(hist) - 1 : hist'[i] = hist[i + 1]
      <4>1. Len(hist) \in Nat
        BY <1>a DEF HistOK
      <4>2. \A i \in 1..Len(hist') : i + 1 \in 1..Len(hist) /\ hist'[i] = hist[i + 1]
        BY <3>2, <4>1
      <4>3. QED BY <1>b, <4>2
    <3>3. QED BY <1>10, <1>a, <3>1, <3>2, Delivered DEF HistOK
  <2>3. QED BY <1>b, <2>1, <2>2
<1>11. CASE DeliverEvent \/ TimerFires \/ UnwatchedChange
  <2>1. UNCHANGED <<hist, w, inst, view>>
    BY <1>11 DEF DeliverEvent, TimerFires, UnwatchedChange, serverVars
  <2>2. QED BY <1>b, <2>1
<1>12. CASE EditSpec
  <2>1. ASSUME NEW v \in Versions
        PROVE  LET n == [Api EXCEPT !.version = v] IN
               n \in CP /\ n.init = Api.init /\ n.ep = Api.ep
    BY <1>a DEF CP
  <2>2. ASSUME NEW c \in {"valid", "badSpec", "noBackend"}
        PROVE  LET n == [Api EXCEPT !.cfg = c] IN
               n \in CP /\ n.init = Api.init /\ n.ep = Api.ep
    BY <1>a DEF CP
  <2>3. LET n == [Api EXCEPT !.owner = TRUE] IN
        n \in CP /\ n.init = Api.init /\ n.ep = Api.ep
    BY <1>a DEF CP
  <2>4. \/ \E v \in Versions : Write([Api EXCEPT !.version = v])
        \/ \E c \in {"valid", "badSpec", "noBackend"} : Write([Api EXCEPT !.cfg = c])
        \/ Write([Api EXCEPT !.owner = TRUE])
    BY <1>12 DEF EditSpec
  <2>5. PICK new \in CP : Write(new) /\ new.init = Api.init /\ new.ep = Api.ep
    BY <2>1, <2>2, <2>3, <2>4, Zenon
  <2>6. Vouched(new)
    BY <1>b, <2>5 DEF Vouched
  <2>7. \A i \in 1..Len(hist') : Vouched(hist'[i])
    BY <1>a, <1>b, <2>5, <2>6, WriteTruth
  <2>8. UNCHANGED <<w, inst, view>>
    BY <1>12 DEF EditSpec
  <2>9. QED BY <1>b, <2>7, <2>8
<1>13. QED
  BY <1>1, <1>2, <1>3, <1>4, <1>5, <1>6, <1>7, <1>8, <1>9, <1>10, <1>11, <1>12
     DEF Worker, Delivery

-----------------------------------------------------------------------------
(* The two reconcilers together *)

\* The facade sees the kubeadm object through its two informers, and nothing
\* happens to it before the cache shows it.
SharedInv ==
  /\ inst.exists => inst = Reflected(K!Api)
  /\ ~inst.exists => inst = NoInst /\ khist = <<K!NewCP(1, FALSE)>>
  /\ view.exists => inst.exists /\ view = Reflected(khist[1])
  /\ ~view.exists => /\ view = NoInst /\ Len(khist) = 1
                     /\ kpc = "idle" /\ kw = K!NoLocal /\ ~kqueued /\ ~ktimer

\* The inductive invariant: the facade's own, the kubeadm reconciler's, that they
\* look at one object, and that the facade says of it only what is so.
SelfInv == TypeOK /\ BackedInv /\ KubeadmInv /\ SharedInv /\ TruthInv

\* The first version is a version.
LEMMA FirstNumber == 1 \in DOMAIN VersionNames
BY SelfManagedAssumption, ConstantsAssumption

\* Backend objects with equal fields are equal, and so are statuses.
LEMMA SameInst ==
  ASSUME NEW a \in Inst, NEW b \in Inst, a.exists = b.exists, a.owner = b.owner,
         a.ver = b.ver, a.ident = b.ident, a.st = b.st, a.obs = b.obs
  PROVE  a = b
BY DEF Inst

LEMMA SameStatus ==
  ASSUME NEW a \in InstanceStatus, NEW b \in InstanceStatus,
         a.ready = b.ready, a.ep = b.ep, a.init = b.init,
         a.terminal = b.terminal, a.ref = b.ref, a.malformed = b.malformed
  PROVE  a = b
BY DEF InstanceStatus

\* An edit of the spec leaves what is reported.
LEMMA ReflectedEdit ==
  ASSUME NEW c \in K!CP, NEW o \in K!CP,
         o.init = c.init, o.ep = c.ep, o.conds = c.conds, o.sver = c.sver
  PROVE  Reflected(o).st = Reflected(c).st /\ Reflected(o).obs = Reflected(c).obs
<1> DEFINE s(x) == [NoStatus EXCEPT !.ready = x.conds.ready = "True", !.ep = x.ep, !.init = x.init]
           v(x) == IF x.sver = 0 THEN None ELSE VersionNames[x.sver]
<1>1. s(o) = s(c) /\ v(o) = v(c)
  OBVIOUS
<1>2. \A x : Reflected(x) = [exists |-> TRUE, owner |-> 1, ver |-> VersionNames[x.version],
                            ident |-> x.linked, st |-> s(x), obs |-> v(x)]
  BY DEF Reflected
<1> HIDE DEF s, v
<1>3. QED BY <1>1, <1>2

\* A new object has reported nothing.
LEMMA ReflectedNew ==
  ASSUME NEW n \in DOMAIN VersionNames, NEW l \in BOOLEAN
  PROVE  LET o == K!NewCP(n, l) IN
         /\ Reflected(o) \in Inst /\ Reflected(o).exists = TRUE /\ Reflected(o).owner = 1
         /\ Reflected(o).ver = VersionNames[n] /\ Reflected(o).ident = l
         /\ Reflected(o).st = NoStatus /\ Reflected(o).obs = None
<1> DEFINE o == K!NewCP(n, l)
<1>1. /\ o \in K!CP /\ o.version = n /\ o.linked = l /\ o.init = FALSE /\ o.ep = None
      /\ o.conds.ready = "absent" /\ o.sver = 0
  BY NewKubeadm DEF K!NewCP, K!None, None
<1> HIDE DEF o
<1> DEFINE r == o.conds.ready = "True"
           s == [NoStatus EXCEPT !.ready = r, !.ep = o.ep, !.init = o.init]
           v == IF o.sver = 0 THEN None ELSE VersionNames[o.sver]
<1>2. r = FALSE /\ v = None
  BY <1>1
<1>3. Reflected(o) = [exists |-> TRUE, owner |-> 1, ver |-> VersionNames[o.version],
                      ident |-> o.linked, st |-> s, obs |-> v]
  BY DEF Reflected
<1> HIDE DEF r, v
<1>4. s = NoStatus
  <2>1. r \in BOOLEAN /\ o.ep \in Endpoints \cup {None} /\ o.init \in BOOLEAN
    BY <1>1, <1>2
  <2>2. NoStatus \in InstanceStatus /\ NoStatus.ready = FALSE /\ NoStatus.ep = None
        /\ NoStatus.init = FALSE
    BY NoStatusType DEF NoStatus
  <2>3. /\ s \in InstanceStatus /\ s.ready = r /\ s.ep = o.ep /\ s.init = o.init
        /\ s.terminal = NoStatus.terminal /\ s.ref = NoStatus.ref
        /\ s.malformed = NoStatus.malformed
    BY <2>1 DEF NoStatus, InstanceStatus
  <2> HIDE DEF s
  <2>4. QED BY <1>1, <1>2, <2>2, <2>3, SameStatus
<1> HIDE DEF s
<1>5. Reflected(o).st = NoStatus /\ Reflected(o).obs = None
  BY <1>2, <1>3, <1>4
<1>6. QED BY <1>1, <1>5, ReflectedFields DEF o

\* All but the synchronization leaves what the facade sees of the backend alone.
LEMMA FacadeLeaves ==
  ASSUME TypeOK, pc # "sync", Worker \/ (CacheAdvance /\ UNCHANGED view) \/ DeliverEvent
                              \/ TimerFires \/ EditSpec \/ UnwatchedChange
  PROVE  UNCHANGED <<inst, view>>
<1>1. CASE Worker
  BY <1>1 DEF Worker, StartReconcile, ResolveRGD, ReportRGDFailure, EnsureWatch,
     ReportInvalid, SyncBackend, CheckKubeconfig, WriteTarget, ReportKubeconfig,
     PatchEndpoint, PatchInitialized, PatchConditions, PatchNotFound, serverVars
<1>2. CASE ~Worker
  BY <1>2 DEF CacheAdvance, DeliverEvent, TimerFires, EditSpec, UnwatchedChange, serverVars
<1>3. QED BY <1>1, <1>2

\* So do its queue and its users at any time.
LEMMA AroundLeaves ==
  ASSUME (CacheAdvance /\ UNCHANGED view) \/ DeliverEvent \/ TimerFires \/ EditSpec \/ UnwatchedChange
  PROVE  UNCHANGED <<inst, view>>
BY DEF CacheAdvance, DeliverEvent, TimerFires, EditSpec, UnwatchedChange, serverVars

\* The kubeadm side when none of it moves.
LEMMA KubeadmKept ==
  ASSUME KubeadmInv, UNCHANGED <<khist, worldVars, madeVars, kpc, kw>>
  PROVE  KubeadmInv' /\ Grows /\ (K!Api)' = K!Api
<1>1. UNCHANGED <<khist, infra, probe, ca, kubeconfig, machine, machineView, kpc, kw>>
  BY DEF worldVars, madeVars
<1>2. ObjectInv' /\ Grows /\ (K!Api)' = K!Api
  BY <1>1, ObjectKept
<1>3. KubeadmTypes' /\ MachineInv' /\ PlaceInv'
  BY <1>1, <1>2 DEF KubeadmInv, KubeadmTypes, MachineInv, SeenRunning, PlaceInv
<1>4. QED BY <1>2, <1>3 DEF KubeadmInv

\* Everything the facade does but writing to the kubeadm object.
LEMMA FacadeStepsKeep ==
  ASSUME SelfInv, FacadeSteps PROVE SelfInv' /\ [Next]_vars
<1>1. TypeOK /\ BackedInv /\ KubeadmInv /\ SharedInv /\ TruthInv
  BY DEF SelfInv
<1>2. Backend = "kubeadm" /\ MaxUid = 1
  BY SelfManagedAssumption
<1>3. Next /\ (Worker \/ Delivery \/ EditSpec \/ UnwatchedChange) /\ UNCHANGED kvars
  BY DEF FacadeSteps, Next, Delivery, Environment
<1>4. UNCHANGED <<inst, view>>
  BY <1>1, FacadeLeaves, AroundLeaves DEF FacadeSteps
<1>5. TypeOK' /\ BackedInv'
  BY <1>1, <1>2, <1>3, TypeStep, BackedStep
<1>6. KubeadmInv' /\ Grows /\ (K!Api)' = K!Api
  BY <1>1, <1>3, KubeadmKept DEF kvars, kworkerVars
<1>7. SharedInv'
  BY <1>1, <1>3, <1>4, <1>6 DEF SharedInv, kvars, kworkerVars
<1>8. TruthInv'
  <2>1. /\ Vouched(w'.cp) /\ Vouched(w'.st) /\ Vouched(inst'.st) /\ Vouched(view'.st)
        /\ \A i \in 1..Len(hist') : Vouched(hist'[i])
    BY <1>1, <1>2, <1>3, FacadeTruth
  <2>2. QED BY <1>6, <2>1, TruthAfter DEF Grows
<1>9. QED BY <1>3, <1>5, <1>6, <1>7, <1>8 DEF SelfInv

\* The local object is the one that exists.
LEMMA OneObject ==
  ASSUME TypeOK
  PROVE  w.cp.uid = 1 /\ w.cp.version \in Versions /\ inst \in Inst /\ view \in Inst
         /\ Seen = view
BY SelfManagedAssumption DEF TypeOK, Local, CP, Seen

\* What the facade asks for.
LEMMA MutatedFields ==
  ASSUME TypeOK
  PROVE  /\ Mutated(view) \in Inst /\ Mutated(view).exists = TRUE /\ Mutated(view).owner = 1
         /\ Mutated(view).ver = w.cp.version
         /\ Mutated(view).st = view.st /\ Mutated(view).obs = view.obs
<1>1. w.cp.uid = 1 /\ w.cp.version \in Versions /\ view \in Inst /\ MaxUid = 1
  BY OneObject, SelfManagedAssumption
<1> DEFINE i == (w.owner = "ok") \/ (view.ident /\ Backend # "external")
<1>2. i \in BOOLEAN /\ 1 \in 0..MaxUid
  BY <1>1
<1>3. Mutated(view) = [view EXCEPT !.exists = TRUE, !.owner = w.cp.uid, !.ver = w.cp.version,
                                   !.ident = i]
  BY DEF Mutated
<1> HIDE DEF i
<1>4. QED BY <1>1, <1>2, <1>3 DEF Inst

\* What follows of the two parts' own steps for the facade.
LEMMA FacadeFollows ==
  ASSUME TypeOK, BackedInv, TruthInv, Next, Worker \/ Delivery \/ EditSpec \/ UnwatchedChange, Grows
  PROVE  TypeOK' /\ BackedInv' /\ TruthInv'
<1>1. Backend = "kubeadm" /\ MaxUid = 1
  BY SelfManagedAssumption
<1>2. TypeOK' /\ BackedInv'
  BY <1>1, TypeStep, BackedStep
<1>3. /\ Vouched(w'.cp) /\ Vouched(w'.st) /\ Vouched(inst'.st) /\ Vouched(view'.st)
      /\ \A i \in 1..Len(hist') : Vouched(hist'[i])
  BY <1>1, FacadeTruth
<1>4. QED BY <1>2, <1>3, TruthAfter DEF Grows

\* The facade creates the kubeadm object.
LEMMA CreatesKeeps ==
  ASSUME SelfInv, FacadeSyncs, ~Outdated, ~inst.exists, inst' # inst PROVE SelfInv'
<1>1. TypeOK /\ BackedInv /\ KubeadmInv /\ SharedInv /\ TruthInv
  BY DEF SelfInv
<1>2. /\ inst = NoInst /\ khist = <<K!NewCP(1, FALSE)>> /\ ~view.exists /\ view = NoInst
      /\ kpc = "idle" /\ kw = K!NoLocal /\ ~kqueued /\ ~ktimer
  BY <1>1 DEF SharedInv
<1>3. SyncBackend /\ khist' = <<K!NewCP(Number(inst'.ver), inst'.ident)>>
      /\ UNCHANGED <<worldVars, madeVars, kworkerVars>>
  BY DEF FacadeSyncs
<1>4. inst' = Mutated(view) /\ UNCHANGED view
  BY <1>1, <1>3, OneObject DEF SyncBackend
<1>5. /\ Mutated(view) \in Inst /\ inst'.exists = TRUE /\ inst'.owner = 1 /\ inst'.ver = w.cp.version
      /\ inst'.st = NoStatus /\ inst'.obs = None /\ inst'.ident \in BOOLEAN
      /\ w.cp.version \in Versions
  <2>1. view.st = NoStatus /\ view.obs = None
    BY <1>2 DEF NoInst
  <2>2. Mutated(view).ident \in BOOLEAN
    BY <1>1, MutatedFields DEF Inst
  <2>3. QED BY <1>1, <1>4, <2>1, <2>2, MutatedFields, OneObject
<1> DEFINE n == Number(inst'.ver)
           l == inst'.ident
<1>6. n \in DOMAIN VersionNames /\ l \in BOOLEAN /\ VersionNames[n] = inst'.ver
  BY <1>5, NumberOf
<1>7. UNCHANGED <<infra, probe, ca, kubeconfig, machine, machineView, kqueued, ktimer, kpc, kw>>
  BY <1>3 DEF worldVars, madeVars, kworkerVars
<1>8. khist' = <<K!NewCP(n, l)>> /\ l = inst'.ident
  BY <1>3
<1> HIDE DEF n, l
<1>9. KubeadmInv' /\ Grows /\ (K!Api)' = K!NewCP(n, l)
  BY <1>1, <1>2, <1>6, <1>7, <1>8, KubeadmCreated
<1>10. Reflected((K!Api)') = inst'
  <2> DEFINE o == Reflected(K!NewCP(n, l))
  <2>1. /\ o \in Inst /\ o.exists = TRUE /\ o.owner = 1
        /\ o.ver = VersionNames[n] /\ o.ident = l
        /\ o.st = NoStatus /\ o.obs = None
    BY <1>6, ReflectedNew
  <2> HIDE DEF o
  <2>2. inst' \in Inst
    BY <1>4, <1>5
  <2>3. o = inst'
    BY <1>5, <1>6, <1>8, <2>1, <2>2, SameInst
  <2>4. QED BY <1>9, <2>3 DEF o
<1>11. SharedInv'
  <2>1. Len(khist') = 1
    <3>1. K!NewCP(n, l) \in K!CP
      BY <1>6, NewKubeadm
    <3>2. QED BY <1>8, <3>1, OneVersion, Zenon
  <2>2. (Reflected(K!Api))' = Reflected((K!Api)')
    BY DEF Reflected
  <2>3. inst' = (Reflected(K!Api))'
    BY <1>10, <2>2
  <2>4. (inst.exists)' = TRUE /\ (view.exists)' = FALSE /\ view' = NoInst
    BY <1>2, <1>4, <1>5 DEF NoInst
  <2>5. kpc' = "idle" /\ kw' = K!NoLocal /\ ~kqueued' /\ ~ktimer'
    BY <1>2, <1>7
  <2>6. QED BY <2>1, <2>3, <2>4, <2>5 DEF SharedInv
<1>12. TypeOK' /\ BackedInv' /\ TruthInv'
  BY <1>1, <1>3, <1>9, FacadeFollows DEF Next, Worker
<1>13. QED BY <1>9, <1>11, <1>12 DEF SelfInv

\* It writes the version or the reference to the object it sees.
LEMMA EditsKeeps ==
  ASSUME SelfInv, FacadeSyncs, ~Outdated, inst.exists, inst' # inst PROVE SelfInv'
<1>1. TypeOK /\ BackedInv /\ KubeadmInv /\ SharedInv /\ TruthInv
  BY DEF SelfInv
<1>2. /\ SyncBackend
      /\ khist' = Append(khist, [K!Api EXCEPT !.version = Number(inst'.ver),
                                              !.linked = inst'.ident])
      /\ UNCHANGED <<worldVars, madeVars, kworkerVars>>
  BY DEF FacadeSyncs
<1>3. inst' = Mutated(view) /\ Mutated(view) # view /\ ~SyncRefused /\ UNCHANGED view
  BY <1>1, <1>2, OneObject DEF SyncBackend
<1>4. view.exists
  <2>1. CASE ~view.exists
    <3>1. view = NoInst
      BY <1>1, <2>1 DEF SharedInv
    <3>2. view # inst
      BY <3>1 DEF NoInst
    <3>3. SyncRefused
      BY <1>1, <2>1, <3>2, OneObject DEF SyncRefused
    <3>4. QED BY <1>3, <3>3
  <2>2. QED BY <2>1
<1>5. Len(khist) = 1
  <2>1. ~(Len(khist) > 1)
    BY <1>3, <1>4 DEF Outdated
  <2>2. khist \in Seq(K!CP) /\ Len(khist) \in Nat /\ Len(khist) # 0
    BY <1>1 DEF KubeadmInv, KubeadmTypes
  <2> DEFINE len == Len(khist)
  <2>3. len \in Nat /\ len # 0 /\ ~(len > 1)
    BY <2>1, <2>2
  <2> HIDE DEF len
  <2>4. len = 1
    BY <2>3
  <2>5. QED BY <2>4 DEF len
<1>6. K!Api \in K!CP /\ view = Reflected(K!Api)
  <2>1. view = Reflected(khist[1]) /\ K!Api = khist[1]
    BY <1>1, <1>4, <1>5 DEF SharedInv, K!Api
  <2>2. QED BY <1>1, <2>1, KubeadmApi DEF KubeadmInv, KubeadmTypes, ObjectInv
<1>7. /\ inst' \in Inst /\ inst'.exists = TRUE /\ inst'.owner = 1 /\ inst'.ver = w.cp.version
      /\ inst'.st = view.st /\ inst'.obs = view.obs /\ inst'.ident \in BOOLEAN
      /\ w.cp.version \in Versions
  <2>1. Mutated(view).ident \in BOOLEAN
    BY <1>1, MutatedFields DEF Inst
  <2>2. QED BY <1>1, <1>3, <2>1, MutatedFields, OneObject
<1> DEFINE n == Number(inst'.ver)
           l == inst'.ident
           new == [K!Api EXCEPT !.version = n, !.linked = l]
<1>8. n \in DOMAIN VersionNames /\ l \in BOOLEAN /\ VersionNames[n] = inst'.ver
  BY <1>7, NumberOf
<1>9. UNCHANGED <<infra, probe, ca, kubeconfig, machine, machineView, kqueued, ktimer, kpc, kw>>
  BY <1>2 DEF worldVars, madeVars, kworkerVars
<1>10. khist' = Append(khist, [K!Api EXCEPT !.version = n, !.linked = l]) /\ l = inst'.ident
  BY <1>2
<1> HIDE DEF n, l
<1>11. Kept /\ (K!Api)' = new
  BY <1>1, <1>8, <1>9, <1>10, KubeadmEdited
<1>a. new = [K!Api EXCEPT !.version = n, !.linked = l]
  OBVIOUS
<1> HIDE DEF new
<1>12. Reflected(new) = inst'
  <2>1. /\ new \in K!CP /\ new.version = n /\ new.linked = l
        /\ new.init = K!Api.init /\ new.ep = K!Api.ep
        /\ new.conds = K!Api.conds /\ new.sver = K!Api.sver
    BY <1>6, <1>8, <1>a DEF K!CP
  <2>2. /\ Reflected(new) \in Inst /\ Reflected(new).exists = TRUE /\ Reflected(new).owner = 1
        /\ Reflected(new).ver = VersionNames[n] /\ Reflected(new).ident = l
    BY <2>1, ReflectedFields
  <2>3. Reflected(new).st = view.st /\ Reflected(new).obs = view.obs
    BY <1>6, <2>1, ReflectedEdit
  <2> DEFINE o == Reflected(new)
  <2>4. /\ o \in Inst /\ o.exists = TRUE /\ o.owner = 1 /\ o.ver = VersionNames[n]
        /\ o.ident = l /\ o.st = view.st /\ o.obs = view.obs
    BY <2>2, <2>3
  <2> HIDE DEF o
  <2>5. o = inst'
    BY <1>7, <1>8, <1>10, <2>4, SameInst
  <2>6. QED BY <2>5 DEF o
<1>13. SharedInv'
  <2>1. inst' = (Reflected(K!Api))'
    BY <1>11, <1>12 DEF Reflected
  <2>2. view' = (Reflected(khist[1]))'
    <3>1. view = Reflected(khist[1]) /\ khist'[1] = khist[1]
      BY <1>1, <1>4, <1>11 DEF SharedInv, Kept
    <3>2. QED BY <1>3, <3>1 DEF Reflected
  <2>3. (inst.exists)' /\ (view.exists)'
    BY <1>3, <1>4, <1>7
  <2>4. QED BY <2>1, <2>2, <2>3 DEF SharedInv
<1>14. TypeOK' /\ BackedInv' /\ TruthInv'
  BY <1>1, <1>2, <1>11, FacadeFollows DEF Next, Worker, Kept
<1>15. QED BY <1>11, <1>13, <1>14 DEF SelfInv, Kept

\* It finds nothing to write, or may not write what it finds.
LEMMA SyncsIdlyKeeps ==
  ASSUME SelfInv, FacadeSyncs, inst' = inst PROVE SelfInv'
<1>1. TypeOK /\ BackedInv /\ KubeadmInv /\ SharedInv /\ TruthInv
  BY DEF SelfInv
<1>2. UNCHANGED <<khist, worldVars, madeVars, kworkerVars>>
  BY DEF FacadeSyncs
<1>3. KubeadmInv' /\ Grows /\ (K!Api)' = K!Api
  BY <1>1, <1>2, KubeadmKept DEF kworkerVars
<1>4. UNCHANGED view
  BY DEF FacadeSyncs, SyncBackend, serverVars
<1>5. SharedInv'
  BY <1>1, <1>2, <1>3, <1>4 DEF SharedInv, kworkerVars
<1>6. CASE Outdated
  <2>1. Finish(TRUE) /\ UNCHANGED <<serverVars, watch, instEvent, queued, env, fails>>
    BY <1>6 DEF FacadeSyncs
  <2>2. UNCHANGED <<hist, clusterSeen, rgdOK, inst, view, src, tgt, watch, instEvent, queued, env, fails>>
    BY <2>1 DEF serverVars
  <2>3. pc' \in PCs /\ w' \in Local /\ timer' \in BOOLEAN
    BY <1>1, <2>1, FinishType
  <2>4. TypeOK'
    BY <1>1, <2>2, <2>3 DEF TypeOK
  <2>5. HistInv'
    BY <1>1, <2>2 DEF BackedInv, HistInv
  <2>6. BackedInv'
    BY <1>1, <2>1, <2>2, <2>5, BackedAfterFinish DEF BackedInv
  <2>7. w' = NoLocal
    BY <2>1 DEF Finish
  <2>8. TruthInv'
    <3>1. /\ Vouched(w'.cp) /\ Vouched(w'.st) /\ Vouched(inst'.st) /\ Vouched(view'.st)
          /\ \A i \in 1..Len(hist') : Vouched(hist'[i])
      BY <1>1, <2>2, <2>7, NothingClaimed DEF TruthInv
    <3>2. QED BY <1>3, <3>1, TruthAfter DEF Grows
  <2>9. QED BY <1>3, <1>5, <2>4, <2>6, <2>8 DEF SelfInv
<1>7. CASE ~Outdated
  <2>1. SyncBackend
    BY <1>7 DEF FacadeSyncs
  <2>2. TypeOK' /\ BackedInv' /\ TruthInv'
    BY <1>1, <1>3, <2>1, FacadeFollows DEF Next, Worker
  <2>3. QED BY <1>3, <1>5, <2>2 DEF SelfInv
<1>8. QED BY <1>6, <1>7

LEMMA FacadeSyncsKeeps ==
  ASSUME SelfInv, FacadeSyncs PROVE SelfInv'
<1>1. Outdated => inst' = inst
  BY DEF FacadeSyncs, serverVars
<1>2. QED BY <1>1, CreatesKeeps, EditsKeeps, SyncsIdlyKeeps

\* A step of the kubeadm reconciler's keeps the types of what it shares.
LEMMA SharedTypes ==
  ASSUME TypeOK, K!Worker \/ K!TimerFires \/ K!ViewAdvance \/ K!WorldChanges
  PROVE  clusterSeen' \in BOOLEAN /\ env' \in 0..MaxEnv /\ UNCHANGED fails
<1>1. CASE K!WorldChanges
  <2>1. env' = env - 1 /\ env > 0 /\ env \in 0..MaxEnv /\ UNCHANGED fails
    BY <1>1 DEF K!WorldChanges, K!Changes, TypeOK
  <2>2. clusterSeen' \in {clusterSeen, TRUE}
    BY <1>1 DEF K!WorldChanges, K!envVars
  <2>3. clusterSeen' \in BOOLEAN
    BY <2>2 DEF TypeOK
  <2>4. env' \in 0..MaxEnv
    BY <2>1, ConstantsAssumption
  <2>5. QED BY <2>1, <2>3, <2>4
<1>2. CASE K!Worker \/ K!TimerFires \/ K!ViewAdvance
  <2>1. UNCHANGED <<clusterSeen, env, fails>>
    BY <1>2 DEF K!Worker, K!StartReconcile, K!PatchOwner, K!Certificates, K!ReadInfra,
       K!NotReady, K!PatchEndpoint, K!WriteKubeconfig, K!WriteConfig, K!WriteInfraMachine,
       K!WriteMachine, K!ReconcileInitialized, K!PatchReady, K!TimerFires, K!ViewAdvance,
       K!envVars
  <2>2. QED BY <2>1 DEF TypeOK
<1>3. QED BY <1>1, <1>2

\* A worker without a request does nothing, and the world leaves it alone.
LEMMA NobodyAsks ==
  ASSUME kpc = "idle", ~kqueued, ~ktimer,
         K!Worker \/ K!TimerFires \/ K!ViewAdvance \/ K!WorldChanges
  PROVE  UNCHANGED <<khist, kpc, kw, kqueued, ktimer>>
<1>1. ~K!Worker /\ ~K!TimerFires
  BY DEF K!Worker, K!StartReconcile, K!PatchOwner, K!Certificates, K!ReadInfra,
     K!NotReady, K!PatchEndpoint, K!WriteKubeconfig, K!WriteConfig, K!WriteInfraMachine,
     K!WriteMachine, K!ReconcileInitialized, K!PatchReady, K!TimerFires
<1>2. QED BY <1>1 DEF K!ViewAdvance, K!WorldChanges, K!cpVars

\* What is left of the facade's invariant when it does not move.
LEMMA FacadeStands ==
  ASSUME SelfInv, Grows, (K!Api)' \in K!CP, Sane(K!Api)', khist'[1] \in K!CP, Sane(khist[1])',
         inst' = inst \/ inst' = Reflected((K!Api)'),
         view' = view \/ view' = Reflected(khist'[1]),
         UNCHANGED <<hist, rgdOK, src, tgt, watch, timer, pc, w>>,
         clusterSeen' \in BOOLEAN, instEvent' \in BOOLEAN, queued' \in BOOLEAN,
         env' \in 0..MaxEnv, UNCHANGED fails
  PROVE  TypeOK' /\ BackedInv' /\ TruthInv'
<1>1. TypeOK /\ BackedInv /\ TruthInv
  BY DEF SelfInv
<1>2. \A c \in K!CP : KeptBy(c) =>
         /\ Reflected(c) \in Inst /\ Reflected(c).st \in Possible
         /\ Reflected(c).st.init = c.init /\ Reflected(c).st.ep = c.ep
  BY ReflectedFields, ReflectedPossible
<1>3. KeptBy((K!Api)') /\ KeptBy(khist'[1])
  BY DEF Sane, KeptBy
<1>4. inst' \in Inst /\ view' \in Inst /\ inst'.st \in Possible /\ view'.st \in Possible
  BY <1>1, <1>2, <1>3 DEF TypeOK, BackedInv
<1>5. TypeOK'
  BY <1>1, <1>4 DEF TypeOK
<1>6. BackedInv'
  BY <1>1, <1>4, BackedKept
<1>7. TruthInv'
  <2>1. \A c : Vouched(c) => (c.init => (K!Api)'.init) /\ (c.ep \in Endpoints => c.ep = infra')
    BY DEF Vouched, Grows
  <2>2. /\ (K!Api)'.init => (K!Api)'.init
        /\ (K!Api)'.ep \in Endpoints => (K!Api)'.ep = infra'
        /\ khist'[1].init => (K!Api)'.init
        /\ khist'[1].ep \in Endpoints => khist'[1].ep = infra'
    BY DEF Sane, Vouched
  <2>3. (inst'.st.init => (K!Api)'.init) /\ (inst'.st.ep \in Endpoints => inst'.st.ep = infra')
    BY <1>1, <1>2, <1>3, <2>1, <2>2 DEF TruthInv
  <2>4. (view'.st.init => (K!Api)'.init) /\ (view'.st.ep \in Endpoints => view'.st.ep = infra')
    BY <1>1, <1>2, <1>3, <2>1, <2>2 DEF TruthInv
  <2>5. QED BY <1>1, <2>1, <2>3, <2>4 DEF TruthInv, Vouched
<1>8. QED BY <1>5, <1>6, <1>7

\* The sane versions of an invariant state.
Ensured == K!Api \in K!CP /\ Sane(K!Api) /\ khist[1] \in K!CP /\ Sane(khist[1])

LEMMA KubeadmEnsures == KubeadmInv => Ensured
BY KubeadmApi DEF KubeadmInv, KubeadmTypes, ObjectInv, Ensured

\* The kubeadm reconciler's steps.
LEMMA KubeadmStepsKeep ==
  ASSUME SelfInv, KubeadmSteps PROVE SelfInv' /\ UNCHANGED hist
<1>1. TypeOK /\ BackedInv /\ KubeadmInv /\ SharedInv /\ TruthInv
  BY DEF SelfInv
<1>2. K!Worker \/ K!TimerFires \/ K!ViewAdvance \/ K!WorldChanges
  BY DEF KubeadmSteps
<1>3. Kept
  BY <1>1, <1>2, KubeadmWorker, KubeadmAround
<1>4. KubeadmInv' /\ Grows /\ khist'[1] = khist[1]
  BY <1>3 DEF Kept
<1>5. (K!Api)' \in K!CP /\ Sane(K!Api)' /\ khist'[1] \in K!CP /\ Sane(khist[1])'
  <2>1. Ensured'
    BY <1>4, KubeadmEnsures, PTL
  <2>2. QED BY <2>1 DEF Ensured
<1>6. inst' = Reflected((K!Api)') /\ inst.exists
      /\ UNCHANGED <<hist, rgdOK, src, tgt, watch, queued, timer, pc, w, view>>
  BY DEF KubeadmSteps, facadeVars, K!Api
<1>7. clusterSeen' \in BOOLEAN /\ env' \in 0..MaxEnv /\ UNCHANGED fails
  BY <1>1, <1>2, SharedTypes
<1>8. instEvent' \in BOOLEAN /\ queued' \in BOOLEAN
  BY <1>1, <1>6 DEF KubeadmSteps, TypeOK
<1>9. TypeOK' /\ BackedInv' /\ TruthInv'
  BY <1>4, <1>5, <1>6, <1>7, <1>8, FacadeStands
<1>10. SharedInv'
  <2>1. inst' = (Reflected(K!Api))' /\ (inst.exists)'
    BY <1>5, <1>6, ReflectedFields DEF Reflected
  <2>2. CASE view.exists
    <3>1. view = Reflected(khist[1])
      BY <1>1, <2>2 DEF SharedInv
    <3>2. view' = (Reflected(khist[1]))' /\ (view.exists)'
      BY <1>4, <1>6, <2>2, <3>1 DEF Reflected
    <3>3. QED BY <2>1, <3>2 DEF SharedInv
  <2>3. CASE ~view.exists
    <3>1. UNCHANGED <<khist, kpc, kw, kqueued, ktimer>>
      BY <1>1, <1>2, <2>3, NobodyAsks DEF SharedInv
    <3>2. QED BY <1>1, <1>6, <2>1, <2>3, <3>1 DEF SharedInv
  <2>4. QED BY <2>2, <2>3
<1>11. QED BY <1>4, <1>6, <1>9, <1>10 DEF SelfInv

\* The object appears in the cache of both.
LEMMA ObjectAppearsKeeps ==
  ASSUME SelfInv, ObjectAppears PROVE SelfInv' /\ UNCHANGED hist
<1>1. TypeOK /\ BackedInv /\ KubeadmInv /\ SharedInv /\ TruthInv
  BY DEF SelfInv
<1>2. /\ ~view.exists /\ CacheAdvance /\ UNCHANGED <<hist, inst>>
      /\ UNCHANGED <<khist, worldVars, madeVars, ktimer, kpc, kw>>
  BY DEF ObjectAppears, CacheAdvance
<1>3. view' = inst /\ view' # view
  BY <1>2 DEF CacheAdvance
<1>4. view = NoInst /\ Len(khist) = 1
  BY <1>1, <1>2 DEF SharedInv
<1>5. inst.exists
  BY <1>1, <1>3, <1>4 DEF SharedInv
<1>6. KubeadmInv' /\ Grows /\ (K!Api)' = K!Api
  BY <1>1, <1>2, KubeadmKept
<1>7. TypeOK' /\ BackedInv' /\ TruthInv'
  BY <1>1, <1>2, <1>6, FacadeFollows DEF Next, Delivery
<1>8. SharedInv'
  <2>1. K!Api = khist[1] /\ inst = Reflected(K!Api)
    BY <1>1, <1>4, <1>5 DEF SharedInv, K!Api
  <2>2. inst' = (Reflected(K!Api))' /\ view' = (Reflected(khist[1]))'
    BY <1>2, <1>3, <1>6, <2>1 DEF Reflected
  <2>3. (inst.exists)' /\ (view.exists)'
    BY <1>2, <1>3, <1>5
  <2>4. QED BY <2>2, <2>3 DEF SharedInv
<1>9. QED BY <1>2, <1>6, <1>7, <1>8 DEF SelfInv

\* The cache follows.
LEMMA ObjectAdvancesKeeps ==
  ASSUME SelfInv, ObjectAdvances PROVE SelfInv' /\ UNCHANGED hist
<1>1. TypeOK /\ BackedInv /\ KubeadmInv /\ SharedInv /\ TruthInv
  BY DEF SelfInv
<1>2. /\ K!CacheAdvance /\ view' = Reflected(khist'[1])
      /\ UNCHANGED <<hist, rgdOK, src, tgt, watch, queued, timer, pc, w, inst, instEvent>>
  BY DEF ObjectAdvances, facadeVars
<1>3. KubeadmInv' /\ Grows /\ (K!Api)' = K!Api /\ Len(khist) > 1
  BY <1>1, <1>2, KubeadmAdvances
<1>4. (K!Api)' \in K!CP /\ Sane(K!Api)' /\ khist'[1] \in K!CP /\ Sane(khist[1])'
  <2>1. Ensured'
    BY <1>3, KubeadmEnsures, PTL
  <2>2. QED BY <2>1 DEF Ensured
<1>5. UNCHANGED <<clusterSeen, env, fails>>
  BY <1>2 DEF K!CacheAdvance, K!envVars
<1>6. TypeOK' /\ BackedInv' /\ TruthInv'
  <2>1. /\ clusterSeen' \in BOOLEAN /\ instEvent' \in BOOLEAN /\ queued' \in BOOLEAN
        /\ env' \in 0..MaxEnv /\ UNCHANGED fails
    BY <1>1, <1>2, <1>5 DEF TypeOK
  <2>2. QED BY <1>2, <1>3, <1>4, <2>1, FacadeStands
<1>7. view.exists /\ inst.exists /\ inst = Reflected(K!Api)
  <2> DEFINE len == Len(khist)
  <2>1. len \in Nat /\ len > 1
    BY <1>1, <1>3 DEF KubeadmInv, KubeadmTypes
  <2>2. ~view.exists => len = 1
    BY <1>1 DEF SharedInv
  <2> HIDE DEF len
  <2>3. view.exists
    BY <2>1, <2>2
  <2>4. view.exists => inst.exists
    BY <1>1, Zenon DEF SharedInv
  <2>5. inst.exists => inst = Reflected(K!Api)
    BY <1>1, Zenon DEF SharedInv
  <2>6. QED BY <2>3, <2>4, <2>5
<1>8. SharedInv'
  <2>1. inst' = (Reflected(K!Api))' /\ view' = (Reflected(khist[1]))'
    BY <1>2, <1>3, <1>7 DEF Reflected
  <2>2. (inst.exists)' /\ (view.exists)'
    BY <1>2, <1>4, <1>7, ReflectedFields
  <2>3. QED BY <2>1, <2>2 DEF SharedInv
<1>9. QED BY <1>2, <1>3, <1>6, <1>8 DEF SelfInv

\* Every step keeps the invariant and is, for the facade's object, one of the
\* facade's own or none.
LEMMA SelfStep ==
  ASSUME SelfInv, [SNext]_svars PROVE SelfInv' /\ ([Next]_vars \/ UNCHANGED hist)
<1>1. CASE FacadeSyncs
  <2>1. SyncBackend \/ UNCHANGED hist
    BY <1>1 DEF FacadeSyncs, serverVars
  <2>2. QED BY <1>1, <2>1, FacadeSyncsKeeps DEF Next, Worker
<1>2. CASE FacadeSteps
  BY <1>2, FacadeStepsKeep
<1>3. CASE KubeadmSteps \/ Object
  BY <1>3, KubeadmStepsKeep, ObjectAppearsKeeps, ObjectAdvancesKeeps DEF Object
<1>4. CASE UNCHANGED svars
  <2>1. TypeOK /\ BackedInv /\ KubeadmInv /\ SharedInv /\ TruthInv
    BY DEF SelfInv
  <2>2. UNCHANGED vars /\ UNCHANGED kvars
    BY <1>4 DEF svars
  <2>3. TypeOK' /\ BackedInv'
    BY <2>1, <2>2, TypeStep, BackedStep, SelfManagedAssumption
  <2>4. KubeadmInv' /\ Grows /\ (K!Api)' = K!Api
    BY <2>1, <2>2, KubeadmKept DEF kvars, kworkerVars
  <2>5. UNCHANGED <<inst, view, khist, kpc, kw, kqueued, ktimer, hist, w>>
    BY <2>2 DEF vars, serverVars, kvars, kworkerVars
  <2>6. SharedInv'
    BY <2>1, <2>4, <2>5 DEF SharedInv
  <2>7. TruthInv'
    BY <2>1, <2>4, <2>5, TruthAfter DEF TruthInv, Grows
  <2>8. QED BY <2>2, <2>3, <2>4, <2>6, <2>7 DEF SelfInv
<1>5. QED BY <1>1, <1>2, <1>3, <1>4 DEF SNext

\* The beginning.
LEMMA SelfBegins == ASSUME SInit PROVE SelfInv
<1>1. TypeOK /\ BackedInv
  BY InitType, BackedInit DEF SInit
<1>2. K!NewCP(1, FALSE) \in K!CP /\ Sane(K!NewCP(1, FALSE))
  BY FirstNumber, NewKubeadm
<1>3. khist = <<K!NewCP(1, FALSE)>>
  BY DEF SInit
<1>4. /\ khist \in Seq(K!CP) /\ Len(khist) = 1 /\ K!Api = K!NewCP(1, FALSE)
      /\ \A i \in 1..Len(khist) : khist[i] = K!NewCP(1, FALSE)
  <2> DEFINE o == K!NewCP(1, FALSE)
  <2>1. o \in K!CP /\ khist = <<o>>
    BY <1>2, <1>3
  <2> HIDE DEF o
  <2>2. /\ khist \in Seq(K!CP) /\ Len(khist) = 1 /\ khist[Len(khist)] = o
        /\ \A i \in 1..Len(khist) : khist[i] = o
    BY <2>1, OneVersion
  <2>3. K!Api = khist[Len(khist)]
    BY Zenon DEF K!Api
  <2>4. /\ khist \in Seq(K!CP) /\ Len(khist) = 1 /\ K!Api = o
        /\ \A i \in 1..Len(khist) : khist[i] = o
    BY <2>2, <2>3, Zenon
  <2>5. QED BY <2>4, Zenon DEF o
<1>5. KubeadmTypes
  <2>1. K!NoMachine \in K!Machine
    BY DEF K!NoMachine, K!Machine
  <2>2. infra \in Endpoints \cup {None, "absent"} /\ probe = FALSE
    BY DEF SInit
  <2>3. machine = K!NoMachine /\ machineView = K!NoMachine /\ kw = K!NoLocal
    BY DEF SInit
  <2>4. khist \in Seq(K!CP)
    BY <1>4, Zenon
  <2>5. Len(khist) \in Nat \ {0}
    <3> DEFINE len == Len(khist)
    <3>1. len = 1
      BY <1>4, Zenon
    <3> HIDE DEF len
    <3>2. len \in Nat \ {0}
      BY <3>1
    <3>3. QED BY <3>2 DEF len
  <2>6. kw \in K!Local
    BY <2>3, KubeadmIdle, Zenon
  <2>7. QED BY <2>1, <2>2, <2>3, <2>4, <2>5, <2>6 DEF KubeadmTypes
<1>6. ObjectInv
  <2>1. kw = K!NoLocal
    BY DEF SInit
  <2>2. QED BY <1>2, <1>4, <2>1, KubeadmIdle, Zenon DEF ObjectInv
<1>7. MachineInv
  <2>1. K!Api.init = FALSE
    BY <1>4, FirstNumber, NewKubeadm
  <2>2. /\ machine.ready = FALSE /\ machineView.ready = FALSE
        /\ machine.ver = 0 /\ machineView.ver = 0
    BY DEF SInit, K!NoMachine
  <2>3. probe = FALSE /\ kw.probe = FALSE
    BY KubeadmIdle DEF SInit
  <2>4. QED BY <2>1, <2>2, <2>3 DEF MachineInv, SeenRunning
<1>8. PlaceInv
  BY DEF SInit, PlaceInv, AfterKubeconfig, AfterEndpoint
<1>9. inst = NoInst /\ view = NoInst /\ w = NoLocal
  BY DEF SInit, Init
<1>10. SharedInv
  BY <1>3, <1>4, <1>9 DEF SharedInv, NoInst, SInit
<1>11. TruthInv
  <2>1. NoInst.st = NoStatus
    BY DEF NoInst
  <2>2. PICK v \in Versions : hist = <<NewCP(1, v)>>
    BY DEF SInit, Init
  <2>3. NewCP(1, v).init = FALSE /\ NewCP(1, v).ep = None
    BY DEF NewCP
  <2>4. Vouched(NewCP(1, v))
    BY <2>3, ConstantsAssumption DEF Vouched
  <2>5. \A i \in 1..Len(hist) : hist[i] = NewCP(1, v)
    BY <2>2
  <2>6. QED BY <1>9, <2>1, <2>4, <2>5, NothingClaimed DEF TruthInv
<1>12. QED BY <1>1, <1>5, <1>6, <1>7, <1>8, <1>10, <1>11 DEF SelfInv, KubeadmInv

\* Ready is told of what has been built (ReadyIsBuilt): the invariant says that
\* the facade's Ready=True comes with latch and endpoint, that both are the
\* kubeadm object's, that it has the latch of a Machine that was seen to run, and
\* that a Machine comes after its certificates and its kubeconfig.
THEOREM ReadyBuilt == SSpec => []ReadyIsBuilt
<1>1. SInit => SelfInv
  BY SelfBegins
<1>2. SelfInv /\ [SNext]_svars => SelfInv'
  BY SelfStep
<1>3. SelfInv => ReadyIsBuilt
  <2> SUFFICES ASSUME SelfInv, Api.conds.ready = "True"
               PROVE  K!Api.init /\ ca /\ kubeconfig = Api.ep /\ machine.ver # 0
    BY DEF ReadyIsBuilt
  <2>1. TypeOK /\ BackedInv /\ KubeadmInv /\ TruthInv
    BY DEF SelfInv
  <2>2. Len(hist) \in 1..Len(hist)
    BY <2>1 DEF TypeOK
  <2>3. Backed(Api) /\ Vouched(Api)
    BY <2>1, <2>2 DEF BackedInv, HistInv, TruthInv, Api
  <2>4. K!Api.init /\ Api.ep = infra
    BY <2>3 DEF Backed, Vouched
  <2>5. MachineInv /\ SeenRunning
    BY <2>1, <2>4 DEF KubeadmInv, SeenRunning
  <2>6. QED BY <2>4, <2>5 DEF MachineInv
<1>4. QED BY <1>1, <1>2, <1>3, PTL DEF SSpec

\* The contract the facade keeps (KeepsContract) it keeps over a backend whose
\* part of it is shown and not assumed.
THEOREM ContractKeptOver == SSpec => KeepsContract
<1>1. SInit => Published!Init
  BY ContractInit DEF SInit
<1>2. SInit => SelfInv
  BY SelfBegins
<1>3. SelfInv /\ [SNext]_svars => SelfInv'
  BY SelfStep
<1>4. SelfInv /\ [SNext]_svars => [Published!Next]_(Published!vars)
  <2> SUFFICES ASSUME SelfInv, [SNext]_svars PROVE [Published!Next]_(Published!vars)
    OBVIOUS
  <2>1. TypeOK /\ BackedInv /\ MaxUid = 1
    BY SelfManagedAssumption DEF SelfInv
  <2>2. CASE [Next]_vars
    BY <2>1, <2>2, ContractStep
  <2>3. CASE UNCHANGED hist
    BY <2>1, <2>3, ApiKept DEF Api
  <2>4. QED BY <2>2, <2>3, SelfStep
<1>5. QED BY <1>1, <1>2, <1>3, <1>4, PTL DEF SSpec, KeepsContract, Published!Spec
-----------------------------------------------------------------------------
(***************************************************************************)
(* Rest of both.  Users take no version back, so that versions are told    *)
(* apart by their numbers: none that is still on its way is newer than the *)
(* one at the server, and the kubeadm object asks for none that the cached *)
(* version of the user's object does not.  A backend that the cache shows  *)
(* with the version wanted is then the one at the server.                  *)
(***************************************************************************)

\* The run takes the path of the kubeadm backend: the object stays and is valid.
PathInv ==
  /\ pc \in {"idle", "watch", "sync", "endpoint", "initialized", "conditions"}
  /\ \A i \in 1..Len(hist) : hist[i].exists /\ hist[i].cfg = "valid"

\* The number of the version a kubeadm object asks for.
Rank(c) == Number(VersionNames[c.version])

\* Versions in the order in which users asked for them.
InOrder == \A i, j \in 1..Len(hist) : i <= j => Number(hist[i].version) <= Number(hist[j].version)

\* And as the facade has passed them on.
PassedOn == \A i \in 1..Len(khist) : Rank(khist[i]) <= Rank(K!Api)
Followed == inst.exists => Rank(K!Api) <= Number(Cached.version)

\* What the worker is about to pass on is no older than what it has.
Wanted ==
  pc \in {"watch", "sync"} =>
    /\ Number(w.cp.version) <= Number(Cached.version)
    /\ inst.exists => Rank(K!Api) <= Number(w.cp.version)

OrderInv == InOrder /\ PassedOn /\ Followed /\ Wanted

\* The user's object does not move, its cache follows, or a write that leaves it
\* there and takes no version back comes behind the others.
ObjectMoves ==
  \/ UNCHANGED hist
  \/ hist' = Tail(hist) /\ Len(hist) > 1
  \/ \E new \in CP : /\ hist' = Append(hist, new) /\ new.exists = Api.exists
                     /\ new.cfg = Api.cfg /\ Number(Api.version) <= Number(new.version)

\* The numbers are numbers.
LEMMA NumberType ==
  /\ \A v \in Versions : Number(v) \in Nat
  /\ \A c \in K!CP : VersionNames[c.version] \in Versions /\ Rank(c) \in Nat
<1>1. \A v \in Versions : Number(v) \in Nat
  <2>1. DOMAIN VersionNames = 1..Len(VersionNames) /\ Len(VersionNames) \in Nat
    BY SelfManagedAssumption
  <2>2. QED BY <2>1, NumberOf
<1>2. ASSUME NEW c \in K!CP PROVE VersionNames[c.version] \in Versions /\ Rank(c) \in Nat
  <2>1. c.version \in DOMAIN VersionNames
    BY DEF K!CP
  <2>2. VersionNames[c.version] \in Versions
    BY <2>1, SelfManagedAssumption
  <2>3. QED BY <1>1, <2>2 DEF Rank
<1>3. QED BY <1>1, <1>2

\* The facade's patches leave the spec alone.
LEMMA PatchMoves ==
  ASSUME TypeOK, NEW a \in CP, SendPatch(a) PROVE ObjectMoves
<1>1. Patched(a) \in CP /\ Api \in CP /\ HistOK
  BY PatchedType, ApiType DEF TypeOK, HistOK
<1>2. /\ Patched(a).exists = Api.exists /\ Patched(a).cfg = Api.cfg
      /\ Patched(a).version = Api.version
  BY <1>1 DEF Patched, MergePatch, CP
<1>3. Write(Patched(a))
  BY DEF SendPatch
<1> DEFINE p == Patched(a)
<1>4. p \in CP /\ p.exists = Api.exists /\ p.cfg = Api.cfg /\ p.version = Api.version /\ Write(p)
  BY <1>1, <1>2, <1>3
<1> HIDE DEF p
<1>5. Number(Api.version) <= Number(p.version)
  <2>1. Number(Api.version) \in Nat
    BY <1>1, NumberType DEF CP
  <2>2. QED BY <1>4, <2>1
<1>6. UNCHANGED hist \/ hist' = Append(hist, p)
  BY <1>4 DEF Write
<1>7. QED BY <1>4, <1>5, <1>6 DEF ObjectMoves

\* Neither do users take a version back, nor the object away.
LEMMA EditMovesOn ==
  ASSUME TypeOK, EditSpec, Forward PROVE ObjectMoves
<1>1. Api \in CP /\ HistOK
  BY ApiType DEF TypeOK, HistOK
<1>2. ~May("cfg")
  BY SelfManagedAssumption DEF May
<1>3. \/ \E v \in Versions : Write([Api EXCEPT !.version = v])
      \/ Write([Api EXCEPT !.owner = TRUE])
  BY <1>2 DEF EditSpec
<1>4. ASSUME NEW v \in Versions
      PROVE  LET n == [Api EXCEPT !.version = v] IN
             n \in CP /\ n.exists = Api.exists /\ n.cfg = Api.cfg
  BY <1>1 DEF CP
<1>5. LET n == [Api EXCEPT !.owner = TRUE] IN
      n \in CP /\ n.exists = Api.exists /\ n.cfg = Api.cfg
  BY <1>1 DEF CP
<1>6. PICK new \in CP : Write(new) /\ new.exists = Api.exists /\ new.cfg = Api.cfg
  BY <1>3, <1>4, <1>5, Zenon
<1>7. Api' = new
  BY <1>1, <1>6, WriteType
<1>8. Number(Api.version) <= Number(new.version)
  BY <1>7 DEF Forward
<1>9. UNCHANGED hist \/ hist' = Append(hist, new)
  BY <1>6 DEF Write
<1>10. QED BY <1>6, <1>8, <1>9 DEF ObjectMoves

\* The facade's calls on this path.
LEMMA PathSteps ==
  ASSUME PathInv, Worker
  PROVE  \/ StartReconcile \/ EnsureWatch \/ SyncBackend \/ PatchEndpoint
         \/ PatchInitialized \/ PatchConditions \/ PatchNotFound
BY DEF PathInv, Worker, ResolveRGD, ReportRGDFailure, ReportInvalid, CheckKubeconfig,
       WriteTarget, ReportKubeconfig

\* A step of the worker's moves it no further than a patch.
LEMMA WorkerMovesOn ==
  ASSUME TypeOK, PathInv, Worker PROVE ObjectMoves
<1>a. w.cp \in CP /\ w.st.ep \in Endpoints \cup {None, "bad"}
  BY DEF TypeOK, Local, InstanceStatus
<1>1. CASE StartReconcile \/ EnsureWatch \/ SyncBackend \/ PatchNotFound
  BY <1>1 DEF StartReconcile, EnsureWatch, SyncBackend, PatchNotFound, serverVars, ObjectMoves
<1>2. CASE PatchEndpoint
  <2>1. w.st.ep \in Endpoints => [w.cp EXCEPT !.ep = w.st.ep] \in CP
    BY <1>a DEF CP
  <2>2. UNCHANGED hist \/ (w.st.ep \in Endpoints /\ SendPatch([w.cp EXCEPT !.ep = w.st.ep]))
    BY <1>2 DEF PatchEndpoint
  <2>3. QED BY <2>1, <2>2, PatchMoves DEF ObjectMoves
<1>3. CASE PatchInitialized
  <2>1. [w.cp EXCEPT !.init = TRUE] \in CP
    BY <1>a DEF CP
  <2>2. UNCHANGED hist \/ SendPatch([w.cp EXCEPT !.init = TRUE])
    BY <1>3 DEF PatchInitialized
  <2>3. QED BY <2>1, <2>2, PatchMoves DEF ObjectMoves
<1>4. CASE PatchConditions
  <2> DEFINE f == w.st.terminal \/ w.st.ep = "bad"
             r == OverallReady
  <2>1. f \in BOOLEAN /\ r \in BOOLEAN
    BY DEF TypeOK, Local, InstanceStatus, OverallReady, ControlPlaneReady
  <2>2. SendPatch(ConditionsAndFailure(w.cp, r, f))
    BY <1>4 DEF PatchConditions
  <2> HIDE DEF f, r
  <2>3. ConditionsAndFailure(w.cp, r, f) \in CP
    BY <1>a, <2>1, ConditionsType
  <2>4. QED BY <2>2, <2>3, PatchMoves
<1>5. QED BY <1>1, <1>2, <1>3, <1>4, PathSteps

\* Whatever the facade and its users do.
LEMMA FacadeMovesOn ==
  ASSUME TypeOK, PathInv, ~K!May("rollback"), FacadeSteps PROVE ObjectMoves
<1>1. \/ Worker \/ CacheAdvance \/ DeliverEvent \/ TimerFires
      \/ (EditSpec /\ Forward) \/ UnwatchedChange
  BY DEF FacadeSteps
<1>2. CASE CacheAdvance
  <2>1. HistOK
    BY DEF TypeOK, HistOK
  <2>2. hist' = hist \/ hist' = Tail(hist)
    BY <1>2 DEF CacheAdvance
  <2>3. hist' = Tail(hist) => Len(hist) > 1
    BY <1>2, <2>1 DEF CacheAdvance, HistOK
  <2>4. QED BY <2>2, <2>3 DEF ObjectMoves
<1>3. CASE DeliverEvent \/ TimerFires \/ UnwatchedChange
  BY <1>3 DEF DeliverEvent, TimerFires, UnwatchedChange, serverVars, ObjectMoves
<1>4. QED BY <1>1, <1>2, <1>3, WorkerMovesOn, EditMovesOn

\* The versions stay in order, and the cached one is never an older one.
LEMMA InOrderMoves ==
  ASSUME TypeOK, InOrder, ObjectMoves
  PROVE  /\ InOrder' /\ Number(Cached.version) <= Number(Cached'.version)
         /\ PathInv => \A i \in 1..Len(hist') : hist'[i].exists /\ hist'[i].cfg = "valid"
<1>1. hist \in Seq(CP) /\ Len(hist) \in Nat \ {0} /\ \A i \in 1..Len(hist) : hist[i] \in CP
  BY DEF TypeOK
<1>2. \A i \in 1..Len(hist) : Number(hist[i].version) \in Nat
  <2>1. ASSUME NEW i \in 1..Len(hist) PROVE Number(hist[i].version) \in Nat
    <3>1. hist[i].version \in Versions
      BY <1>1 DEF CP
    <3>2. QED BY <3>1, NumberType
  <2>2. QED BY <2>1
<1>3. CASE UNCHANGED hist
  BY <1>1, <1>2, <1>3 DEF InOrder, Cached, PathInv
<1>4. CASE hist' = Tail(hist) /\ Len(hist) > 1
  <2>1. /\ Len(hist') = Len(hist) - 1
        /\ \A i \in 1..Len(hist') : hist'[i] = hist[i + 1] /\ i + 1 \in 1..Len(hist)
    BY <1>1, <1>4
  <2>2. InOrder'
    BY <1>1, <2>1 DEF InOrder
  <2>3. hist'[1] = hist[2] /\ 1 \in 1..Len(hist) /\ 2 \in 1..Len(hist) /\ 1 <= 2
    BY <1>1, <1>4, <2>1
  <2>4. Number(hist[1].version) <= Number(hist[2].version)
    BY <2>3 DEF InOrder
  <2>5. QED BY <2>1, <2>2, <2>3, <2>4 DEF Cached, PathInv
<1>5. ASSUME NEW new \in CP, hist' = Append(hist, new), new.exists = Api.exists,
             new.cfg = Api.cfg, Number(Api.version) <= Number(new.version)
      PROVE  /\ InOrder' /\ Number(Cached.version) <= Number(Cached'.version)
             /\ PathInv => \A i \in 1..Len(hist') : hist'[i].exists /\ hist'[i].cfg = "valid"
  <2>1. /\ Len(hist') = Len(hist) + 1 /\ hist'[Len(hist) + 1] = new
        /\ \A i \in 1..Len(hist) : hist'[i] = hist[i]
    BY <1>1, <1>5
  <2>2. Api = hist[Len(hist)] /\ Len(hist) \in 1..Len(hist) /\ 1 \in 1..Len(hist)
    BY <1>1 DEF Api
  <2>3. Number(new.version) \in Nat
    BY NumberType DEF CP
  <2>4. ASSUME NEW i \in 1..Len(hist), NEW j \in 1..Len(hist'), i <= j
        PROVE  Number(hist[i].version) <= Number(hist'[j].version)
    <3>1. CASE j \in 1..Len(hist)
      BY <2>1, <2>4, <3>1 DEF InOrder
    <3>2. CASE j = Len(hist) + 1
      <4>1. Number(hist[i].version) <= Number(Api.version)
        BY <2>2 DEF InOrder
      <4>2. Number(hist[i].version) \in Nat /\ Number(Api.version) \in Nat
        BY <1>2, <2>2
      <4>3. hist'[j] = new
        BY <2>1, <3>2
      <4>4. QED BY <1>5, <2>3, <4>1, <4>2, <4>3
    <3>3. QED BY <1>1, <2>1, <3>1, <3>2
  <2>5. ASSUME NEW i \in 1..Len(hist'), NEW j \in 1..Len(hist'), i <= j
        PROVE  Number(hist'[i].version) <= Number(hist'[j].version)
    <3>1. CASE i \in 1..Len(hist)
      BY <2>1, <2>4, <2>5, <3>1
    <3>2. CASE i = Len(hist) + 1
      <4>1. j = i
        BY <1>1, <2>1, <2>5, <3>2
      <4>2. hist'[i] = new /\ hist'[j] = new
        BY <2>1, <3>2, <4>1
      <4>3. QED BY <2>3, <4>2
    <3>3. QED BY <1>1, <2>1, <3>1, <3>2
  <2>6. InOrder'
    BY <2>5 DEF InOrder
  <2>7. Number(Cached.version) <= Number(Cached'.version)
    BY <1>2, <2>1, <2>2 DEF Cached
  <2>8. PathInv => \A i \in 1..Len(hist') : hist'[i].exists /\ hist'[i].cfg = "valid"
    BY <1>1, <1>5, <2>1, <2>2 DEF PathInv
  <2>9. QED BY <2>6, <2>7, <2>8
<1>6. QED BY <1>3, <1>4, <1>5 DEF ObjectMoves

\* Where the facade's steps lead; what it is about to pass on is what it read.
LEMMA FacadePlaces ==
  ASSUME TypeOK, PathInv, FacadeSteps
  PROVE  /\ pc' \in {"idle", "watch", "sync", "endpoint", "initialized", "conditions"}
         /\ pc' \in {"watch", "sync"} =>
              (w'.cp = Cached /\ hist' = hist) \/ (pc \in {"watch", "sync"} /\ w'.cp = w.cp)
<1>1. CASE StartReconcile
  <2>1. Cached.cfg = "valid" /\ Backend = "kubeadm"
    BY SelfManagedAssumption DEF PathInv, TypeOK, Cached
  <2>2. (w'.cp = Cached /\ pc' = "watch") \/ UNCHANGED <<pc, w>>
    BY <1>1, <2>1 DEF StartReconcile
  <2>3. UNCHANGED hist
    BY <1>1 DEF StartReconcile, serverVars
  <2>4. QED BY <2>2, <2>3 DEF PathInv
<1>2. CASE EnsureWatch
  <2>1. pc = "watch" /\ pc' = "sync" /\ w'.cp = w.cp
    BY <1>2, SelfManagedAssumption DEF EnsureWatch, TypeOK, Local
  <2>2. QED BY <2>1
<1>3. CASE PatchEndpoint \/ PatchInitialized \/ PatchConditions \/ PatchNotFound
  <2>1. pc' \in {"initialized", "conditions", "idle"}
    BY <1>3 DEF PatchEndpoint, PatchInitialized, PatchConditions, PatchNotFound, Finish
  <2>2. QED BY <2>1
<1>4. CASE CacheAdvance \/ DeliverEvent \/ TimerFires \/ EditSpec \/ UnwatchedChange
  <2>1. UNCHANGED <<pc, w>>
    BY <1>4 DEF CacheAdvance, DeliverEvent, TimerFires, EditSpec, UnwatchedChange
  <2>2. QED BY <2>1 DEF PathInv
<1>5. CASE SyncBackend /\ pc # "sync"
  BY <1>5 DEF SyncBackend
<1>6. QED BY <1>1, <1>2, <1>3, <1>4, <1>5, PathSteps DEF FacadeSteps

\* The order under the facade's steps but the one that writes the kubeadm object.
LEMMA FacadeKeepsOrder ==
  ASSUME SelfInv, PathInv, OrderInv, ~K!May("rollback"), FacadeSteps
  PROVE  PathInv' /\ OrderInv'
<1>1. TypeOK /\ KubeadmInv /\ InOrder /\ PassedOn /\ Followed /\ Wanted
  BY DEF SelfInv, OrderInv
<1>2. /\ InOrder' /\ Number(Cached.version) <= Number(Cached'.version)
      /\ \A i \in 1..Len(hist') : hist'[i].exists /\ hist'[i].cfg = "valid"
  BY <1>1, FacadeMovesOn, InOrderMoves
<1>3. /\ pc' \in {"idle", "watch", "sync", "endpoint", "initialized", "conditions"}
      /\ pc' \in {"watch", "sync"} =>
           (w'.cp = Cached /\ hist' = hist) \/ (pc \in {"watch", "sync"} /\ w'.cp = w.cp)
  BY <1>1, FacadePlaces
<1>4. UNCHANGED <<inst, khist>> /\ (K!Api)' = K!Api
  BY <1>1, FacadeLeaves, AroundLeaves DEF FacadeSteps, kvars, K!Api
<1>5. PathInv'
  BY <1>2, <1>3 DEF PathInv
<1>6. PassedOn'
  BY <1>1, <1>4 DEF PassedOn, Rank
<1>7. /\ Cached.version \in Versions /\ Cached'.version \in Versions /\ w.cp.version \in Versions
      /\ K!Api \in K!CP
  <2>1. TypeOK'
    BY FacadeStepsKeep DEF SelfInv
  <2>2. HistOK /\ HistOK'
    BY <1>1, <2>1 DEF TypeOK, HistOK
  <2>3. Cached \in CP
    BY <2>2, ApiType
  <2>4. (HistOK => Cached \in CP)'
    BY ApiType, PTL
  <2>5. Cached' \in CP
    BY <2>2, <2>4
  <2>6. K!Api \in K!CP
    BY <1>1, KubeadmEnsures DEF Ensured
  <2>7. QED BY <1>1, <2>3, <2>5, <2>6 DEF CP, TypeOK, Local
<1>8. /\ Number(Cached.version) \in Nat /\ Number(Cached'.version) \in Nat
      /\ Number(w.cp.version) \in Nat /\ Rank(K!Api) \in Nat
  BY <1>7, NumberType
<1>9. Followed'
  BY <1>1, <1>2, <1>4, <1>8 DEF Followed, Rank
<1>10. Wanted'
  <2> SUFFICES ASSUME pc' \in {"watch", "sync"}
               PROVE  /\ Number(w'.cp.version) <= Number(Cached'.version)
                      /\ inst.exists => Rank(K!Api) <= Number(w'.cp.version)
    BY <1>4 DEF Wanted, Rank
  <2>1. CASE w'.cp = Cached /\ hist' = hist
    BY <1>1, <1>8, <2>1 DEF Followed, Cached
  <2>2. CASE pc \in {"watch", "sync"} /\ w'.cp = w.cp
    BY <1>1, <1>2, <1>8, <2>2 DEF Wanted
  <2>3. QED BY <1>3, <2>1, <2>2
<1>11. QED BY <1>2, <1>5, <1>6, <1>9, <1>10 DEF OrderInv

\* A version behind the others asks for no less.
LEMMA PassedOnAfter ==
  ASSUME KubeadmInv, PassedOn, NEW new \in K!CP, khist' = Append(khist, new),
         Rank(K!Api) <= Rank(new)
  PROVE  PassedOn' /\ (K!Api)' = new
<1>1. khist \in Seq(K!CP) /\ Len(khist) \in Nat \ {0}
  BY DEF KubeadmInv, KubeadmTypes
<1>2. /\ Len(khist') = Len(khist) + 1 /\ khist'[Len(khist) + 1] = new
      /\ \A i \in 1..Len(khist) : khist'[i] = khist[i] /\ khist[i] \in K!CP
  BY <1>1
<1>3. (K!Api)' = new /\ K!Api \in K!CP
  BY <1>1, <1>2 DEF K!Api
<1>4. Rank(new) \in Nat /\ Rank(K!Api) \in Nat /\ \A i \in 1..Len(khist) : Rank(khist[i]) \in Nat
  BY <1>2, <1>3, NumberType
<1>5. ASSUME NEW i \in 1..Len(khist') PROVE Rank(khist'[i]) <= Rank(new)
  <2>1. CASE i \in 1..Len(khist)
    <3>1. khist'[i] = khist[i] /\ Rank(khist[i]) <= Rank(K!Api)
      BY <1>2, <2>1 DEF PassedOn
    <3>2. QED BY <1>4, <2>1, <3>1
  <2>2. CASE i = Len(khist) + 1
    BY <1>2, <1>4, <2>2
  <2>3. QED BY <1>1, <1>2, <2>1, <2>2
<1>6. PassedOn'
  BY <1>3, <1>5 DEF PassedOn, Rank
<1>7. QED BY <1>3, <1>6

\* The facade's write to the kubeadm object, if it makes one: the version it wants.
LEMMA SyncWrites ==
  ASSUME SelfInv, FacadeSyncs, inst' # inst
  PROVE  /\ ~Outdated /\ inst'.exists /\ inst'.ver = w.cp.version
         /\ \E new \in K!CP :
              /\ Rank(new) = Number(w.cp.version)
              /\ \/ ~inst.exists /\ khist' = <<new>>
                 \/ inst.exists /\ khist' = Append(khist, new)
<1>1. TypeOK /\ KubeadmInv
  BY DEF SelfInv
<1>2. ~Outdated /\ SyncBackend
  BY DEF FacadeSyncs, serverVars
<1>3. inst' = Mutated(view)
  BY <1>1, <1>2, OneObject DEF SyncBackend
<1>4. /\ inst' \in Inst /\ inst'.exists = TRUE /\ inst'.ver = w.cp.version /\ w.cp.version \in Versions
  BY <1>1, <1>3, MutatedFields, OneObject
<1> DEFINE n == Number(inst'.ver)
           l == inst'.ident
<1>5. /\ n \in DOMAIN VersionNames /\ l \in BOOLEAN /\ VersionNames[n] = w.cp.version
  BY <1>4, NumberOf DEF Inst
<1>6. /\ ~inst.exists => khist' = <<K!NewCP(n, l)>>
      /\ inst.exists => khist' = Append(khist, [K!Api EXCEPT !.version = n, !.linked = l])
  BY DEF FacadeSyncs
<1> HIDE DEF n, l
<1>7. K!NewCP(n, l) \in K!CP /\ K!NewCP(n, l).version = n
  BY <1>5, NewKubeadm
<1>8. K!Api \in K!CP
  BY <1>1, KubeadmEnsures DEF Ensured
<1>9. LET o == [K!Api EXCEPT !.version = n, !.linked = l] IN o \in K!CP /\ o.version = n
  BY <1>5, <1>8 DEF K!CP
<1>10. \A c \in K!CP : c.version = n => Rank(c) = Number(w.cp.version)
  BY <1>5 DEF Rank
<1>11. CASE ~inst.exists
  BY <1>2, <1>4, <1>6, <1>7, <1>10, <1>11
<1>12. CASE inst.exists
  BY <1>2, <1>4, <1>6, <1>9, <1>10, <1>12
<1>13. QED BY <1>11, <1>12

\* The order under that write.
LEMMA SyncKeepsOrder ==
  ASSUME SelfInv, PathInv, OrderInv, FacadeSyncs PROVE PathInv' /\ OrderInv'
<1>1. TypeOK /\ KubeadmInv /\ InOrder /\ PassedOn /\ Followed /\ Wanted
  BY DEF SelfInv, OrderInv
<1>2. UNCHANGED hist /\ pc = "sync"
  BY DEF FacadeSyncs, SyncBackend, serverVars
<1>3. pc' \in {"idle", "endpoint"}
  BY SelfManagedAssumption DEF FacadeSyncs, SyncBackend, Finish
<1>4. PathInv' /\ InOrder' /\ Wanted'
  BY <1>1, <1>2, <1>3 DEF PathInv, InOrder, Wanted
<1>5. CASE inst' = inst
  <2>1. UNCHANGED khist /\ (K!Api)' = K!Api
    BY <1>5 DEF FacadeSyncs, K!Api
  <2>2. PassedOn' /\ Followed'
    BY <1>1, <1>2, <1>5, <2>1 DEF PassedOn, Followed, Rank, Cached
  <2>3. QED BY <1>4, <2>2 DEF OrderInv
<1>6. CASE inst' # inst
  <2>1. PICK new \in K!CP :
              /\ Rank(new) = Number(w.cp.version)
              /\ \/ ~inst.exists /\ khist' = <<new>>
                 \/ inst.exists /\ khist' = Append(khist, new)
    BY <1>6, SyncWrites
  <2>2. Number(w.cp.version) <= Number(Cached.version)
        /\ (inst.exists => Rank(K!Api) <= Number(w.cp.version))
    BY <1>1, <1>2 DEF Wanted
  <2>3. PassedOn' /\ (K!Api)' = new
    <3>1. CASE khist' = <<new>>
      <4>0. new \in K!CP
        BY <2>1
      <4>1. Len(khist') = 1 /\ khist'[Len(khist')] = new /\ \A i \in 1..Len(khist') : khist'[i] = new
        BY <4>0, <3>1, OneVersion
      <4>2. (K!Api)' = new
        BY <4>1, Zenon DEF K!Api
      <4>3. Rank(new) <= Rank(new)
        BY NumberType
      <4>4. QED BY <4>1, <4>2, <4>3 DEF PassedOn, Rank
    <3>2. CASE inst.exists /\ khist' = Append(khist, new)
      BY <1>1, <2>1, <2>2, <3>2, PassedOnAfter
    <3>3. QED BY <2>1, <3>1, <3>2
  <2>4. Followed'
    BY <1>2, <2>1, <2>2, <2>3 DEF Followed, Rank, Cached
  <2>5. QED BY <1>4, <2>3, <2>4 DEF OrderInv
<1>7. QED BY <1>5, <1>6

\* What the kubeadm reconciler writes is its status.
LEMMA KubeadmWrites ==
  ASSUME KubeadmInv, K!Worker
  PROVE  \/ UNCHANGED khist
         \/ \E new \in K!CP : /\ khist' = Append(khist, new)
                              /\ new.version = K!Api.version /\ new.linked = K!Api.linked
<1> USE DEF K!envVars, K!madeVars, K!cpVars
<1>a. kw \in K!Local /\ kw.cp \in K!CP /\ KeptBy(kw.cp) /\ kw.ep \in Endpoints \cup {K!None}
  BY KubeadmLocal
<1>b. K!Api \in K!CP
  BY KubeadmEnsures DEF Ensured
<1>1. ASSUME NEW a \in K!CP, K!Write(K!Patched(a))
      PROVE  \/ UNCHANGED khist
             \/ \E new \in K!CP : /\ khist' = Append(khist, new)
                                  /\ new.version = K!Api.version /\ new.linked = K!Api.linked
  <2> DEFINE e == K!Merged(kw.cp.ep, a.ep, K!Api.ep)
             i == K!Merged(kw.cp.init, a.init, K!Api.init)
             v == K!Merged(kw.cp.sver, a.sver, K!Api.sver)
             c == K!Merged(kw.cp.conds, a.conds, K!Api.conds)
             p == K!Patched(a)
  <2>1. /\ e \in Endpoints \cup {K!None} /\ i \in BOOLEAN /\ v \in DOMAIN VersionNames \cup {0}
        /\ c \in [ready: {"absent", "True", "False"}, owner: {"absent", "True", "False"}]
    BY <1>a, <1>b, <1>1 DEF K!Merged, K!CP
  <2>2. p = [K!Api EXCEPT !.ep = e, !.init = i, !.sver = v, !.conds = c] /\ K!Write(p)
    BY <1>1 DEF K!Patched
  <2> HIDE DEF e, i, v, c, p
  <2>3. p \in K!CP /\ p.version = K!Api.version /\ p.linked = K!Api.linked
    BY <1>b, <2>1, <2>2 DEF K!CP
  <2>4. QED BY <2>2, <2>3 DEF K!Write
<1>2. CASE K!PatchOwner
  <2> DEFINE s == IF kw.owner THEN "True" ELSE "False"
             a == [kw.cp EXCEPT !.conds.owner = s]
  <2>1. a \in K!CP
    BY <1>a DEF K!CP
  <2>2. K!Write(K!Patched(a))
    BY <1>2 DEF K!PatchOwner, K!Patch
  <2> HIDE DEF a
  <2>3. QED BY <1>1, <2>1, <2>2
<1>3. CASE K!NotReady
  <2> DEFINE a == [kw.cp EXCEPT !.conds.ready = "False"]
  <2>1. a \in K!CP
    BY <1>a DEF K!CP
  <2>2. K!Write(K!Patched(a))
    BY <1>3 DEF K!NotReady
  <2> HIDE DEF a
  <2>3. QED BY <1>1, <2>1, <2>2
<1>4. CASE K!PatchEndpoint
  <2> DEFINE a == [kw.cp EXCEPT !.ep = kw.ep]
  <2>1. a \in K!CP
    BY <1>a DEF K!CP
  <2>2. UNCHANGED khist \/ K!Write(K!Patched(a))
    BY <1>4 DEF K!PatchEndpoint, K!Patch
  <2> HIDE DEF a
  <2>3. QED BY <1>1, <2>1, <2>2
<1>5. CASE K!ReconcileInitialized
  <2> DEFINE a == [kw.cp EXCEPT !.init = TRUE]
  <2>1. a \in K!CP
    BY <1>a DEF K!CP
  <2>2. UNCHANGED khist \/ K!Write(K!Patched(a))
    BY <1>5 DEF K!ReconcileInitialized, K!Patch
  <2> HIDE DEF a
  <2>3. QED BY <1>1, <2>1, <2>2
<1>6. CASE K!PatchReady
  <2> DEFINE a == [kw.cp EXCEPT !.conds.ready = "True", !.sver = kw.cp.version]
  <2>1. a \in K!CP
    BY <1>a DEF K!CP
  <2>2. K!Write(K!Patched(a))
    BY <1>6 DEF K!PatchReady
  <2> HIDE DEF a
  <2>3. QED BY <1>1, <2>1, <2>2
<1>7. CASE \/ K!StartReconcile \/ K!Certificates \/ K!ReadInfra \/ K!WriteKubeconfig
           \/ K!WriteConfig \/ K!WriteInfraMachine \/ K!WriteMachine
  BY <1>7 DEF K!StartReconcile, K!Certificates, K!ReadInfra, K!WriteKubeconfig,
              K!WriteConfig, K!WriteInfraMachine, K!WriteMachine
<1>8. QED BY <1>2, <1>3, <1>4, <1>5, <1>6, <1>7 DEF K!Worker

\* The order when the kubeadm reconciler writes its status and its cache follows.
LEMMA OthersKeepOrder ==
  ASSUME SelfInv, PathInv, OrderInv, KubeadmSteps \/ Object PROVE PathInv' /\ OrderInv'
<1>1. TypeOK /\ KubeadmInv /\ SharedInv /\ InOrder /\ PassedOn /\ Followed /\ Wanted
  BY DEF SelfInv, OrderInv
<1>2. UNCHANGED <<hist, pc, w>>
  BY DEF KubeadmSteps, Object, ObjectAppears, ObjectAdvances, CacheAdvance, facadeVars
<1>3. inst'.exists = inst.exists
  <2>1. CASE KubeadmSteps
    BY <1>1, <2>1 DEF KubeadmSteps, Reflected, TypeOK, Inst
  <2>2. CASE Object
    BY <2>2 DEF Object, ObjectAppears, ObjectAdvances, CacheAdvance
  <2>3. QED BY <2>1, <2>2
<1>4. PathInv' /\ InOrder'
  BY <1>1, <1>2 DEF PathInv, InOrder
<1>5. PassedOn' /\ Rank((K!Api)') = Rank(K!Api)
  <2>1. CASE UNCHANGED khist
    <3>1. (K!Api)' = K!Api
      BY <2>1 DEF K!Api
    <3>2. QED BY <1>1, <2>1, <3>1 DEF PassedOn, Rank
  <2>2. CASE KubeadmSteps /\ K!Worker
    <3>1. ASSUME NEW new \in K!CP, khist' = Append(khist, new), new.version = K!Api.version
          PROVE  PassedOn' /\ Rank((K!Api)') = Rank(K!Api)
      <4>1. Rank(new) = Rank(K!Api)
        BY <3>1 DEF Rank
      <4>2. Rank(new) \in Nat
        BY NumberType
      <4>3. Rank(K!Api) <= Rank(new)
        BY <4>1, <4>2
      <4>4. QED BY <1>1, <3>1, <4>1, <4>3, PassedOnAfter
    <3>2. QED BY <1>1, <2>1, <2>2, <3>1, KubeadmWrites
  <2>3. CASE ObjectAdvances
    <3>1. /\ Len(khist) > 1 /\ khist' = Tail(khist) /\ (K!Api)' = K!Api
      BY <1>1, <2>3, KubeadmAdvances DEF ObjectAdvances, K!CacheAdvance
    <3>2. khist \in Seq(K!CP) /\ Len(khist) \in Nat
      BY <1>1 DEF KubeadmInv, KubeadmTypes
    <3>3. \A i \in 1..Len(khist') : khist'[i] = khist[i + 1] /\ i + 1 \in 1..Len(khist)
      BY <3>1, <3>2
    <3>4. QED BY <1>1, <3>1, <3>3 DEF PassedOn, Rank
  <2>4. QED
    BY <2>1, <2>2, <2>3 DEF KubeadmSteps, Object, ObjectAppears, K!TimerFires, K!ViewAdvance,
                            K!WorldChanges, K!cpVars
<1>6. Followed' /\ Wanted'
  <2>1. Rank((K!Api)') = (Rank(K!Api))'
    BY DEF Rank
  <2>2. QED BY <1>1, <1>2, <1>3, <1>5, <2>1 DEF Followed, Wanted, Cached
<1>7. QED BY <1>4, <1>5, <1>6 DEF OrderInv

\* The order in every step.
LEMMA OrderStep ==
  ASSUME SelfInv, PathInv, OrderInv, ~K!May("rollback"), [SNext]_svars
  PROVE  PathInv' /\ OrderInv'
<1>1. CASE UNCHANGED svars
  <2>1. UNCHANGED <<hist, khist, inst, pc, w>> /\ (K!Api)' = K!Api
    BY <1>1 DEF svars, vars, serverVars, kvars, K!Api
  <2>2. QED
    BY <2>1 DEF PathInv, OrderInv, InOrder, PassedOn, Followed, Wanted, Rank, Cached
<1>2. QED BY <1>1, FacadeKeepsOrder, SyncKeepsOrder, OthersKeepOrder DEF SNext

-----------------------------------------------------------------------------
(* The kubeadm reconciler at rest. *)

\* No cached configuration is another one than the server's, and that leads where
\* the infrastructure does.
ConfigInv ==
  /\ config # None => config = infra /\ infra \in Endpoints
  /\ configView # None => configView = config

\* The reconciler has seen the object as it is, and none of its writes is unseen.
KCalm == ~kqueued /\ Len(khist) = 1

KCurrent == KCalm /\ kpc # "idle" => kw.cp = K!Api

\* What its run has found and done.
KWritten ==
  /\ kpc \notin {"idle", "owner"} => kw.owner
  /\ kpc \in {"infraMachine", "machine", "initialized", "ready"} => config = infra
  /\ KCalm /\ kpc # "idle" /\ kw.owner => K!Api.linked

\* What a run that asks for no other leaves behind.
KOutcome ==
  /\ infra \in Endpoints /\ K!Api.ep = infra /\ kubeconfig = infra /\ config = infra
  /\ K!Api.linked /\ K!Api.conds.ready = "True"

KFinal == KCalm /\ kpc = "idle" /\ ~ktimer /\ view.exists => KOutcome

KRestInv == ConfigInv /\ KCurrent /\ KWritten /\ KFinal

\* A run that ends with a retry.
LEMMA KRetried ==
  ASSUME ConfigInv', kpc' = "idle", ktimer' PROVE KRestInv'
BY DEF KRestInv, KCurrent, KWritten, KFinal

\* Whatever makes the reconciler run again excuses everything but what its run
\* already knows.
LEMMA KStirred ==
  ASSUME KRestInv, ConfigInv', ~KCalm', UNCHANGED <<kpc, kw, config, infra>>
  PROVE  KRestInv'
BY DEF KRestInv, KCurrent, KWritten, KFinal

\* A run that goes on.
LEMMA KGoesOn ==
  ASSUME KRestInv, ConfigInv', kpc # "idle", kpc' # "idle", kw'.owner = kw.owner,
         kpc' # "owner" => kw.owner,
         kpc' \in {"infraMachine", "machine", "initialized", "ready"} => config' = infra',
         KCalm' => KCalm /\ (K!Api)' = K!Api /\ kw'.cp = (K!Api)'
  PROVE  KRestInv'
BY DEF KRestInv, KCurrent, KWritten, KFinal

\* A write that leaves the object one version long has left it alone.
LEMMA KCalmWrite ==
  ASSUME KubeadmInv, NEW new \in K!CP, K!Write(new), Len(khist') = 1
  PROVE  khist' = khist /\ K!Api = new /\ (K!Api)' = K!Api
<1>1. CASE new # K!Api
  <2>1. khist' = Append(khist, new)
    BY <1>1 DEF K!Write
  <2>2. khist \in Seq(K!CP) /\ Len(khist) \in Nat \ {0}
    BY DEF KubeadmInv, KubeadmTypes
  <2>3. Len(khist') = Len(khist) + 1
    BY <2>1, <2>2
  <2>4. QED BY <2>2, <2>3
<1>2. CASE new = K!Api
  BY <1>2 DEF K!Write, K!Api
<1>3. QED BY <1>1, <1>2

\* A patched object is one.
LEMMA KPatchedType ==
  ASSUME KubeadmInv, NEW a \in K!CP PROVE K!Patched(a) \in K!CP
<1>1. kw.cp \in K!CP /\ K!Api \in K!CP
  BY KubeadmLocal, KubeadmEnsures DEF Ensured
<1> DEFINE e == K!Merged(kw.cp.ep, a.ep, K!Api.ep)
           i == K!Merged(kw.cp.init, a.init, K!Api.init)
           v == K!Merged(kw.cp.sver, a.sver, K!Api.sver)
           c == K!Merged(kw.cp.conds, a.conds, K!Api.conds)
<1>2. /\ e \in Endpoints \cup {K!None} /\ i \in BOOLEAN /\ v \in DOMAIN VersionNames \cup {0}
      /\ c \in [ready: {"absent", "True", "False"}, owner: {"absent", "True", "False"}]
  BY <1>1 DEF K!Merged, K!CP
<1>3. K!Patched(a) = [K!Api EXCEPT !.ep = e, !.init = i, !.sver = v, !.conds = c]
  BY DEF K!Patched
<1> HIDE DEF e, i, v, c
<1>4. QED BY <1>1, <1>2, <1>3 DEF K!CP

\* A patch that makes no new version found the object as wanted.
LEMMA KCalmPatch ==
  ASSUME KubeadmInv, KRestInv, NEW a \in K!CP, K!Write(K!Patched(a)), KCalm',
         UNCHANGED kqueued, kpc # "idle"
  PROVE  /\ khist' = khist /\ (K!Api)' = K!Api /\ K!Patched(a) = K!Api /\ KCalm
         /\ kw.cp = K!Api /\ K!Api.conds = a.conds
<1>1. K!Patched(a) \in K!CP /\ K!Api \in K!CP
  BY KPatchedType, KubeadmEnsures DEF Ensured
<1>2. khist' = khist /\ K!Api = K!Patched(a) /\ (K!Api)' = K!Api
  BY <1>1, KCalmWrite DEF KCalm
<1>3. KCalm /\ kw.cp = K!Api
  BY <1>2 DEF KCalm, KRestInv, KCurrent
<1> DEFINE e == K!Merged(kw.cp.ep, a.ep, K!Api.ep)
           i == K!Merged(kw.cp.init, a.init, K!Api.init)
           v == K!Merged(kw.cp.sver, a.sver, K!Api.sver)
           c == K!Merged(kw.cp.conds, a.conds, K!Api.conds)
<1>4. K!Api = [K!Api EXCEPT !.ep = e, !.init = i, !.sver = v, !.conds = c]
  BY <1>2 DEF K!Patched
<1>5. c = a.conds
  BY <1>3 DEF K!Merged
<1> HIDE DEF e, i, v, c
<1>6. K!Api.conds = c
  BY <1>1, <1>4 DEF K!CP
<1>7. QED BY <1>2, <1>3, <1>5, <1>6

\* The worker goes on after a patch.
LEMMA KPatchGoes ==
  ASSUME KubeadmInv, KRestInv, NEW a \in K!CP, K!Patch(a), UNCHANGED kqueued, kpc # "idle"
  PROVE  /\ kw'.owner = kw.owner
         /\ KCalm' => KCalm /\ (K!Api)' = K!Api /\ kw'.cp = (K!Api)'
<1> DEFINE p == K!Patched(a)
<1>1. kw' = [kw EXCEPT !.cp = p] /\ kw \in K!Local /\ K!Write(p)
  BY KubeadmLocal DEF K!Patch
<1>2. KCalm' => KCalm /\ (K!Api)' = K!Api /\ p = K!Api
  BY <1>1, KCalmPatch
<1> HIDE DEF p
<1>3. kw'.owner = kw.owner /\ kw'.cp = p
  BY <1>1 DEF K!Local
<1>4. QED BY <1>2, <1>3

\* Nothing that a run makes leads anywhere but where the infrastructure does.
LEMMA ConfigLeads ==
  ASSUME KubeadmInv, ConfigInv,
         K!Worker \/ K!TimerFires \/ K!ViewAdvance \/ K!WorldChanges
  PROVE  ConfigInv' /\ (infra' = infra \/ infra \notin Endpoints)
<1> USE DEF K!envVars, K!madeVars, K!cpVars
<1>1. CASE K!WriteConfig
  <2>1. kw.ep = infra /\ infra \in Endpoints /\ K!None = None /\ None \notin Endpoints
    BY <1>1, KubeadmLocal, ConstantsAssumption DEF K!WriteConfig, KubeadmInv, PlaceInv, AfterEndpoint
  <2>2. config' = infra /\ UNCHANGED <<infra, configView>>
    BY <1>1, <2>1 DEF K!WriteConfig, K!CreateOrPatch, K!Merged, ConfigInv
  <2>3. configView # None => config = infra
    BY <2>1 DEF ConfigInv
  <2>4. QED BY <2>1, <2>2, <2>3 DEF ConfigInv
<1>2. CASE K!ViewAdvance
  BY <1>2 DEF K!ViewAdvance, ConfigInv
<1>3. CASE K!WorldChanges
  <2>1. UNCHANGED <<config, configView>> /\ (infra' = infra \/ infra \notin Endpoints)
    BY <1>3 DEF K!WorldChanges
  <2>2. QED BY <2>1 DEF ConfigInv
<1>4. CASE \/ K!StartReconcile \/ K!PatchOwner \/ K!Certificates \/ K!ReadInfra \/ K!NotReady
           \/ K!PatchEndpoint \/ K!WriteKubeconfig \/ K!WriteInfraMachine \/ K!WriteMachine
           \/ K!ReconcileInitialized \/ K!PatchReady \/ K!TimerFires
  <2>1. UNCHANGED <<config, configView, infra>>
    BY <1>4 DEF K!StartReconcile, K!PatchOwner, K!Certificates, K!ReadInfra, K!NotReady,
                K!PatchEndpoint, K!WriteKubeconfig, K!WriteInfraMachine, K!WriteMachine,
                K!ReconcileInitialized, K!PatchReady, K!TimerFires
  <2>2. QED BY <2>1 DEF ConfigInv
<1>5. QED BY <1>1, <1>2, <1>3, <1>4 DEF K!Worker

\* The worker comes to rest with everything made and published.
LEMMA KWorkerRests ==
  ASSUME KubeadmInv, KRestInv, K!Worker PROVE KRestInv'
<1> USE DEF K!envVars, K!madeVars, K!cpVars
<1>a. kw \in K!Local /\ kw.cp \in K!CP /\ kw.ep \in Endpoints \cup {K!None}
  BY KubeadmLocal
<1>b. ConfigInv'
  BY ConfigLeads DEF KRestInv
<1>c. KWritten /\ KCurrent /\ PlaceInv
  BY DEF KRestInv, KubeadmInv
<1>1. CASE K!StartReconcile
  <2>1. /\ kw'.cp = khist[1] /\ (kw'.owner => khist[1].linked) /\ kpc' = "owner"
        /\ khist' = khist /\ (K!Api)' = K!Api
    BY <1>1 DEF K!StartReconcile, K!Api
  <2>2. KCalm' => K!Api = khist[1]
    BY <2>1 DEF KCalm, K!Api
  <2>3. QED BY <1>b, <2>1, <2>2 DEF KRestInv, KCurrent, KWritten, KFinal
<1>2. CASE K!PatchOwner
  <2> DEFINE s == IF kw.owner THEN "True" ELSE "False"
             a == [kw.cp EXCEPT !.conds.owner = s]
  <2>1. a \in K!CP
    BY <1>a DEF K!CP
  <2>2. /\ kpc = "owner" /\ UNCHANGED kqueued
        /\ IF kw.owner THEN K!Patch(a) /\ kpc' = "certs" ELSE K!Finish(TRUE)
    BY <1>2 DEF K!PatchOwner
  <2> HIDE DEF a
  <2>3. CASE ~kw.owner
    BY <1>b, <2>2, <2>3, KRetried DEF K!Finish
  <2>4. CASE kw.owner
    <3>1. /\ kw'.owner = kw.owner
          /\ KCalm' => KCalm /\ (K!Api)' = K!Api /\ kw'.cp = (K!Api)'
      BY <2>1, <2>2, <2>4, KPatchGoes
    <3>2. QED BY <1>b, <2>2, <2>4, <3>1, KGoesOn
  <2>5. QED BY <2>3, <2>4
<1>3. ASSUME kpc # "idle", kpc' # "idle", kpc' # "owner", UNCHANGED <<khist, kqueued>>,
             kw'.owner = kw.owner, kw'.cp = kw.cp, kpc # "owner",
             kpc' \in {"infraMachine", "machine", "initialized", "ready"} => config' = infra'
      PROVE  KRestInv'
  <2>1. kw.owner
    BY <1>c, <1>3 DEF KWritten
  <2>2. (K!Api)' = K!Api
    BY <1>3 DEF K!Api
  <2>3. KCalm' => KCalm /\ kw'.cp = (K!Api)'
    BY <1>c, <1>3, <2>2 DEF KCalm, KCurrent
  <2>4. QED BY <1>b, <1>3, <2>1, <2>2, <2>3, KGoesOn
<1>4. CASE K!Certificates \/ K!WriteKubeconfig \/ K!WriteMachine
  <2>1. /\ UNCHANGED <<khist, kqueued, kw, config, infra>>
        /\ \/ kpc = "certs" /\ kpc' = "infra"
           \/ kpc = "kubeconfig" /\ kpc' = "config"
           \/ kpc = "machine" /\ kpc' = "initialized"
    BY <1>4 DEF K!Certificates, K!WriteKubeconfig, K!WriteMachine
  <2>2. kpc' \in {"infraMachine", "machine", "initialized", "ready"} => config' = infra'
    BY <1>c, <2>1 DEF KWritten
  <2>3. QED BY <1>3, <2>1, <2>2
<1>5. CASE K!WriteConfig
  <2>1. UNCHANGED <<khist, kqueued, kw, infra>> /\ kpc = "config" /\ kpc' = "infraMachine"
    BY <1>5 DEF K!WriteConfig
  <2>2. kw.ep = infra /\ infra \in Endpoints /\ K!None = None /\ None \notin Endpoints
    BY <1>c, <2>1, KubeadmLocal, ConstantsAssumption DEF PlaceInv, AfterEndpoint
  <2>3. config' = infra'
    BY <1>5, <2>1, <2>2 DEF K!WriteConfig, K!CreateOrPatch, K!Merged, KRestInv, ConfigInv
  <2>4. QED BY <1>3, <2>1, <2>3
<1>6. CASE K!ReadInfra
  <2>1. UNCHANGED <<khist, kqueued>> /\ kpc = "infra"
    BY <1>6 DEF K!ReadInfra
  <2>2. CASE infra = "absent"
    BY <1>6, <1>b, <2>2, KRetried DEF K!ReadInfra, K!Finish
  <2>3. CASE infra # "absent"
    <3>1. kw' = [kw EXCEPT !.ep = infra] /\ kpc' \in {"notReady", "endpoint"}
      BY <1>6, <2>3 DEF K!ReadInfra
    <3>2. kw'.owner = kw.owner /\ kw'.cp = kw.cp
      BY <1>a, <3>1 DEF K!Local
    <3>3. QED BY <1>3, <2>1, <3>1, <3>2
  <2>4. QED BY <2>2, <2>3
<1>7. CASE K!NotReady
  BY <1>7, <1>b, KRetried DEF K!NotReady, K!Finish
<1>8. CASE K!WriteInfraMachine
  <2>1. UNCHANGED <<khist, kqueued, config, infra>> /\ kpc = "infraMachine"
    BY <1>8 DEF K!WriteInfraMachine
  <2>2. CASE ~template
    BY <1>8, <1>b, <2>2, KRetried DEF K!WriteInfraMachine, K!Finish
  <2>3. CASE template
    <3>1. UNCHANGED kw /\ kpc' = "machine"
      BY <1>8, <2>3 DEF K!WriteInfraMachine
    <3>2. config' = infra'
      BY <1>c, <2>1 DEF KWritten
    <3>3. QED BY <1>3, <2>1, <3>1, <3>2
  <2>4. QED BY <2>2, <2>3
<1>9. CASE K!PatchEndpoint
  <2> DEFINE a == [kw.cp EXCEPT !.ep = kw.ep]
  <2>1. kpc = "endpoint" /\ kpc' = "kubeconfig" /\ UNCHANGED kqueued
    BY <1>9 DEF K!PatchEndpoint
  <2>2. CASE kw.cp.ep # kw.ep
    <3>1. a \in K!CP
      BY <1>a DEF K!CP
    <3>2. K!Patch(a)
      BY <1>9, <2>2 DEF K!PatchEndpoint
    <3> HIDE DEF a
    <3>3. /\ kw'.owner = kw.owner
          /\ KCalm' => KCalm /\ (K!Api)' = K!Api /\ kw'.cp = (K!Api)'
      BY <2>1, <3>1, <3>2, KPatchGoes
    <3>4. kw.owner
      BY <1>c, <2>1 DEF KWritten
    <3>5. QED BY <1>b, <2>1, <3>3, <3>4, KGoesOn
  <2>3. CASE kw.cp.ep = kw.ep
    <3>1. UNCHANGED <<khist, kw>>
      BY <1>9, <2>3 DEF K!PatchEndpoint
    <3>2. QED BY <1>3, <2>1, <3>1
  <2>4. QED BY <2>2, <2>3
<1>10. CASE K!ReconcileInitialized
  <2> DEFINE a == [kw.cp EXCEPT !.init = TRUE]
             reached == kw.probe \/ machineView.ready
  <2>1. /\ kpc = "initialized" /\ kpc' \in {"ready", "notReady"}
        /\ UNCHANGED <<kqueued, config, infra>>
    BY <1>10 DEF K!ReconcileInitialized
  <2>2. config' = infra' /\ kw.owner
    BY <1>c, <2>1 DEF KWritten
  <2>3. CASE ~kw.cp.init /\ reached
    <3>1. a \in K!CP
      BY <1>a DEF K!CP
    <3>2. K!Patch(a)
      BY <1>10, <2>3 DEF K!ReconcileInitialized
    <3> HIDE DEF a
    <3>3. /\ kw'.owner = kw.owner
          /\ KCalm' => KCalm /\ (K!Api)' = K!Api /\ kw'.cp = (K!Api)'
      BY <2>1, <3>1, <3>2, KPatchGoes
    <3>4. QED BY <1>b, <2>1, <2>2, <3>3, KGoesOn
  <2>4. CASE ~(~kw.cp.init /\ reached)
    <3>1. UNCHANGED <<khist, kw>>
      BY <1>10, <2>4 DEF K!ReconcileInitialized
    <3>2. QED BY <1>3, <2>1, <2>2, <3>1
  <2>5. QED BY <2>3, <2>4
<1>11. CASE K!PatchReady
  <2> DEFINE a == [kw.cp EXCEPT !.conds.ready = "True", !.sver = kw.cp.version]
  <2>1. a \in K!CP /\ a.conds.ready = "True"
    BY <1>a DEF K!CP
  <2>2. /\ K!Write(K!Patched(a)) /\ kpc = "ready" /\ kpc' = "idle"
        /\ UNCHANGED <<kqueued, infra, kubeconfig, config>>
    BY <1>11 DEF K!PatchReady, K!Finish
  <2> HIDE DEF a
  <2>3. /\ infra \in Endpoints /\ kw.cp.ep = infra /\ kubeconfig = infra /\ config = infra
        /\ kw.owner
    BY <1>c, <2>2 DEF PlaceInv, AfterEndpoint, AfterKubeconfig, KWritten
  <2>4. KCalm' => KOutcome'
    <3> SUFFICES ASSUME KCalm' PROVE KOutcome'
      OBVIOUS
    <3>1. /\ (K!Api)' = K!Api /\ KCalm /\ kw.cp = K!Api /\ K!Api.conds = a.conds
      BY <2>1, <2>2, KCalmPatch
    <3>2. K!Api.linked
      BY <1>c, <2>2, <2>3, <3>1 DEF KWritten
    <3>3. QED BY <2>1, <2>2, <2>3, <3>1, <3>2 DEF KOutcome
  <2>5. QED BY <1>b, <2>2, <2>4 DEF KRestInv, KCurrent, KWritten, KFinal
<1>12. QED
  BY <1>1, <1>2, <1>4, <1>5, <1>6, <1>7, <1>8, <1>9, <1>10, <1>11 DEF K!Worker

\* What the caches, the timer and the world do around it.
LEMMA KAroundRests ==
  ASSUME KubeadmInv, KRestInv, UNCHANGED view,
         K!TimerFires \/ K!ViewAdvance \/ K!WorldChanges
  PROVE  KRestInv'
<1> USE DEF K!envVars, K!madeVars, K!cpVars
<1>1. ConfigInv' /\ (infra' = infra \/ infra \notin Endpoints)
  BY ConfigLeads DEF KRestInv
<1>2. CASE K!TimerFires
  <2>1. UNCHANGED <<kpc, kw, config, infra>> /\ kqueued'
    BY <1>2 DEF K!TimerFires
  <2>2. ~KCalm'
    BY <2>1 DEF KCalm
  <2>3. QED BY <1>1, <2>1, <2>2, KStirred
<1>3. CASE K!ViewAdvance \/ K!WorldChanges
  <2>1. UNCHANGED <<khist, kqueued, ktimer, kpc, kw, config, kubeconfig>>
    BY <1>3 DEF K!ViewAdvance, K!WorldChanges
  <2>2. (K!Api)' = K!Api
    BY <2>1 DEF K!Api
  <2>3. kpc \in AfterEndpoint => infra \in Endpoints
    BY DEF KubeadmInv, PlaceInv
  <2>4. KCurrent'
    BY <2>1, <2>2 DEF KRestInv, KCurrent, KCalm
  <2>5. KWritten'
    BY <1>1, <2>1, <2>2, <2>3 DEF KRestInv, KWritten, KCalm, AfterEndpoint
  <2>6. KFinal'
    BY <1>1, <2>1, <2>2 DEF KRestInv, KFinal, KCalm, KOutcome
  <2>7. QED BY <1>1, <2>4, <2>5, <2>6 DEF KRestInv
<1>4. QED BY <1>2, <1>3

\* Nothing of the reconciler changes, nor of what it sees.
LEMMA KLeft ==
  ASSUME KRestInv, UNCHANGED <<view, khist, infra, kubeconfig, config, configView, kqueued,
                               ktimer, kpc, kw>>
  PROVE  KRestInv'
<1>1. (K!Api)' = K!Api
  BY DEF K!Api
<1>2. QED BY <1>1 DEF KRestInv, ConfigInv, KCurrent, KWritten, KFinal, KCalm, KOutcome

\* A write of the facade's is a version that the cache has yet to show.
LEMMA KAfterSync ==
  ASSUME SelfInv, KRestInv, FacadeSyncs PROVE KRestInv'
<1>1. TypeOK /\ KubeadmInv /\ SharedInv
  BY DEF SelfInv
<1>2. UNCHANGED <<view, infra, kubeconfig, config, configView, kqueued, ktimer, kpc, kw>>
  BY DEF FacadeSyncs, SyncBackend, serverVars, worldVars, madeVars, kworkerVars
<1>3. CASE inst' = inst
  <2>1. khist' = khist
    BY <1>3 DEF FacadeSyncs
  <2>2. QED BY <1>2, <2>1, KLeft
<1>4. CASE inst' # inst /\ inst.exists
  <2>1. PICK new \in K!CP : khist' = Append(khist, new)
    BY <1>4, SyncWrites
  <2>2. khist \in Seq(K!CP) /\ Len(khist) \in Nat \ {0}
    BY <1>1 DEF KubeadmInv, KubeadmTypes
  <2>3. Len(khist') # 1
    BY <2>1, <2>2
  <2>4. ~KCalm' /\ ConfigInv'
    BY <1>2, <2>3 DEF KCalm, KRestInv, ConfigInv
  <2>5. QED BY <1>2, <2>4, KStirred
<1>5. CASE inst' # inst /\ ~inst.exists
  <2>1. ~view.exists /\ kpc = "idle"
    BY <1>1, <1>5 DEF SharedInv
  <2>2. QED BY <1>2, <2>1 DEF KRestInv, ConfigInv, KCurrent, KWritten, KFinal
<1>6. QED BY <1>3, <1>4, <1>5

\* The kubeadm reconciler comes to rest with everything built.
LEMMA KRestStep ==
  ASSUME SelfInv, KRestInv, [SNext]_svars PROVE KRestInv'
<1>1. TypeOK /\ KubeadmInv
  BY DEF SelfInv
<1>2. CASE UNCHANGED svars
  <2>1. UNCHANGED <<view, khist, infra, kubeconfig, config, configView, kqueued, ktimer, kpc, kw>>
    BY <1>2 DEF svars, vars, serverVars, kvars, worldVars, madeVars, kworkerVars
  <2>2. QED BY <2>1, KLeft
<1>3. CASE FacadeSteps
  <2>1. UNCHANGED view /\ UNCHANGED kvars
    BY <1>1, <1>3, FacadeLeaves, AroundLeaves DEF FacadeSteps
  <2>2. UNCHANGED <<view, khist, infra, kubeconfig, config, configView, kqueued, ktimer, kpc, kw>>
    BY <2>1 DEF kvars, worldVars, madeVars, kworkerVars
  <2>3. QED BY <2>2, KLeft
<1>4. CASE KubeadmSteps
  BY <1>1, <1>4, KWorkerRests, KAroundRests DEF KubeadmSteps
<1>5. CASE Object
  <2>1. UNCHANGED <<kpc, kw, config, configView, infra>> /\ kqueued' = TRUE
    BY <1>5 DEF Object, ObjectAppears, ObjectAdvances, K!CacheAdvance, K!envVars, K!madeVars,
                worldVars, madeVars
  <2>2. ~KCalm' /\ ConfigInv'
    BY <2>1 DEF KCalm, KRestInv, ConfigInv
  <2>3. QED BY <2>1, <2>2, KStirred
<1>6. QED BY <1>2, <1>3, <1>4, <1>5, KAfterSync DEF SNext

-----------------------------------------------------------------------------
(* The facade at rest. *)

FCalm == ~queued /\ Len(hist) = 1

FCurrent == FCalm /\ pc # "idle" => w.cp = Api

\* What its run has done for the object as it is.
FWritten ==
  FCalm =>
    /\ pc \in {"endpoint", "initialized", "conditions"}
         => inst.exists /\ inst.ver = Api.version
    /\ pc \in {"initialized", "conditions"} /\ w.st.ep \in Endpoints => Api.ep = w.st.ep
    /\ pc = "conditions" /\ w.st.init => Api.init

\* What a run that asks for no other leaves behind.
FOutcome ==
  /\ inst.exists /\ inst.ver = Api.version
  /\ Api.conds.ready = "True" /\ ~Api.failed
  /\ Api.init /\ Api.ep \in Endpoints /\ Api.sver = Api.version

FFinal == FCalm /\ pc = "idle" /\ ~timer => FOutcome

FRestInv == FCurrent /\ FWritten /\ FFinal

\* Whatever will make the facade run again excuses everything.
LEMMA FStirred == ASSUME ~FCalm' PROVE FRestInv'
BY DEF FRestInv, FCurrent, FWritten, FFinal

\* A run that ends with a retry.
LEMMA FRetried == ASSUME pc' = "idle", timer' PROVE FRestInv'
BY DEF FRestInv, FCurrent, FWritten, FFinal

\* Nothing of the facade changes but what it sees of its backend's status.
LEMMA FLeft ==
  ASSUME FRestInv, UNCHANGED <<hist, queued, timer, pc, w>>,
         inst'.exists = inst.exists, inst'.ver = inst.ver
  PROVE  FRestInv'
<1>1. Api' = Api
  BY DEF Api
<1>2. QED BY <1>1 DEF FRestInv, FCurrent, FWritten, FFinal, FCalm, FOutcome

\* A patch of a run that goes on.
LEMMA FPatchGoes ==
  ASSUME TypeOK, FRestInv, NEW a \in CP, SendPatch(a), w' = [w EXCEPT !.cp = Patched(a)],
         FCalm', UNCHANGED queued, pc # "idle"
  PROVE  /\ FCalm /\ hist' = hist /\ Api' = Api /\ w.cp = Api /\ w'.cp = Api /\ w'.st = w.st
         /\ Api.ep = a.ep /\ Api.init = a.init
<1>1. Patched(a) \in CP /\ HistOK
  BY PatchedType DEF TypeOK, HistOK
<1>2. hist' = hist
  BY <1>1, CalmWrite DEF SendPatch, FCalm
<1>3. FCalm /\ w.cp = Api
  BY <1>2 DEF FCalm, FRestInv, FCurrent
<1>4. Api' = Api /\ Patched(a) = Api /\ Api.ep = a.ep /\ Api.init = a.init
  BY <1>3, CalmPatch DEF FCalm
<1>5. w'.cp = Api /\ w'.st = w.st
  BY <1>4 DEF TypeOK, Local
<1>6. QED BY <1>2, <1>3, <1>4, <1>5

\* The run starts from the cached object and registers its watch.
LEMMA FStarts ==
  ASSUME TypeOK, PathInv, FRestInv, StartReconcile \/ EnsureWatch PROVE FRestInv'
<1> SUFFICES ASSUME FCalm' PROVE FRestInv'
  BY FStirred
<1>1. CASE StartReconcile
  <2>1. hist' = hist /\ Api' = Api /\ Len(hist) = 1 /\ Cached = Api
    BY <1>1 DEF FCalm, StartReconcile, serverVars, Api, Cached
  <2>2. Cached.exists /\ Cached.cfg = "valid"
    BY <2>1 DEF PathInv, Cached
  <2>3. w'.cp = Cached /\ pc' = "watch"
    BY <1>1, <2>2, SelfManagedAssumption DEF StartReconcile
  <2>4. QED BY <2>1, <2>3 DEF FRestInv, FCurrent, FWritten, FFinal
<1>2. CASE EnsureWatch
  <2>1. UNCHANGED <<hist, queued>> /\ w'.cp = w.cp /\ pc = "watch" /\ pc' = "sync"
    BY <1>2, SelfManagedAssumption DEF EnsureWatch, serverVars, TypeOK, Local
  <2>2. FCalm /\ Api' = Api
    BY <2>1 DEF FCalm, Api
  <2>3. QED BY <2>1, <2>2 DEF FRestInv, FCurrent, FWritten, FFinal
<1>3. QED BY <1>1, <1>2

\* It publishes endpoint and latch.
LEMMA FPublishes ==
  ASSUME TypeOK, FRestInv, UNCHANGED inst, PatchEndpoint \/ PatchInitialized PROVE FRestInv'
<1> SUFFICES ASSUME FCalm' PROVE FRestInv'
  BY FStirred
<1>1. w.cp \in CP /\ w.st.ep \in Endpoints \cup {None, "bad"}
  BY DEF TypeOK, Local, InstanceStatus
<1>2. CASE PatchEndpoint
  <2> DEFINE a == [w.cp EXCEPT !.ep = w.st.ep]
  <2>1. pc = "endpoint" /\ pc' = "initialized" /\ UNCHANGED queued
    BY <1>2 DEF PatchEndpoint, queueVars
  <2>2. CASE w.st.ep \in Endpoints /\ w.cp.ep # w.st.ep
    <3>1. SendPatch(a) /\ w' = [w EXCEPT !.cp = Patched(a)]
      BY <1>2, <2>2 DEF PatchEndpoint
    <3>2. a \in CP /\ a.ep = w.st.ep
      BY <1>1, <2>2 DEF CP
    <3> HIDE DEF a
    <3>3. FCalm /\ Api' = Api /\ w'.cp = Api /\ w'.st = w.st /\ Api.ep = a.ep
      BY <2>1, <3>1, <3>2, FPatchGoes
    <3>4. QED BY <2>1, <3>2, <3>3 DEF FRestInv, FCurrent, FWritten, FFinal
  <2>3. CASE ~(w.st.ep \in Endpoints /\ w.cp.ep # w.st.ep)
    <3>1. UNCHANGED <<hist, w>>
      BY <1>2, <2>3 DEF PatchEndpoint
    <3>2. FCalm /\ Api' = Api
      BY <2>1, <3>1 DEF FCalm, Api
    <3>3. QED BY <2>1, <2>3, <3>1, <3>2 DEF FRestInv, FCurrent, FWritten, FFinal
  <2>4. QED BY <2>2, <2>3
<1>3. CASE PatchInitialized
  <2> DEFINE a == [w.cp EXCEPT !.init = TRUE]
  <2>1. pc = "initialized" /\ pc' = "conditions" /\ UNCHANGED queued
    BY <1>3 DEF PatchInitialized, queueVars
  <2>2. BackendInitialized = w.st.init
    BY SelfManagedAssumption DEF BackendInitialized
  <2>3. CASE w.st.init /\ ~w.cp.init
    <3>1. SendPatch(a) /\ w' = [w EXCEPT !.cp = Patched(a)]
      BY <1>3, <2>2, <2>3 DEF PatchInitialized
    <3>2. a \in CP /\ a.init
      BY <1>1 DEF CP
    <3> HIDE DEF a
    <3>3. FCalm /\ Api' = Api /\ w'.cp = Api /\ w'.st = w.st /\ Api.init = a.init
      BY <2>1, <3>1, <3>2, FPatchGoes
    <3>4. QED BY <2>1, <3>2, <3>3 DEF FRestInv, FCurrent, FWritten, FFinal
  <2>4. CASE ~(w.st.init /\ ~w.cp.init)
    <3>1. UNCHANGED <<hist, w>>
      BY <1>3, <2>2, <2>4 DEF PatchInitialized
    <3>2. FCalm /\ Api' = Api
      BY <2>1, <3>1 DEF FCalm, Api
    <3>3. QED BY <2>1, <2>4, <3>1, <3>2 DEF FRestInv, FCurrent, FWritten, FFinal
  <2>5. QED BY <2>3, <2>4
<1>4. QED BY <1>2, <1>3

\* A run that asks for no other found the backend ready and published it.
LEMMA FRests ==
  ASSUME TypeOK, w.st \in Possible, FRestInv, UNCHANGED inst, PatchConditions PROVE FRestInv'
<1> SUFFICES ASSUME FCalm' PROVE FRestInv'
  BY FStirred
<1> DEFINE f == w.st.terminal \/ w.st.ep = "bad"
           a == ConditionsAndFailure(w.cp, OverallReady, f)
<1>1. SendPatch(a) /\ Finish(Result) /\ pc = "conditions" /\ UNCHANGED queued
  BY DEF PatchConditions
<1>2. w.cp \in CP /\ f \in BOOLEAN /\ OverallReady \in BOOLEAN
  BY DEF TypeOK, Local, InstanceStatus, OverallReady, ControlPlaneReady
<1>3. a \in CP
  BY <1>2, ConditionsType
<1>4. CASE timer'
  BY <1>1, <1>4, FRetried DEF Finish
<1>5. CASE ~timer'
  <2>1. ControlPlaneReady(w.st) /\ w.kc # "requeue" /\ pc' = "idle"
    BY <1>1, <1>5 DEF Finish, Result
  <2>2. a.conds.ready = "True" /\ a.failed = FALSE /\ a.sver = w.cp.version
    BY <1>2, <2>1 DEF ConditionsAndFailure, OverallReady, CP, Conds
  <2> HIDE DEF a
  <2>3. Patched(a) \in CP /\ HistOK
    BY <1>1, <1>3, PatchedType DEF TypeOK, HistOK
  <2>4. hist' = hist
    BY <1>1, <2>3, CalmWrite DEF SendPatch, FCalm
  <2>5. FCalm /\ w.cp = Api
    BY <1>1, <2>4 DEF FCalm, FRestInv, FCurrent
  <2>6. Api' = Api /\ Api.conds = a.conds /\ Api.failed = a.failed /\ Api.sver = a.sver
    BY <1>1, <1>3, <2>5, CalmPatch DEF FCalm
  <2>7. w.st.ready /\ w.st.ep \in Endpoints /\ w.st.init
    BY <2>1, SelfManagedAssumption DEF ControlPlaneReady, Possible
  <2>8. inst.exists /\ inst.ver = Api.version /\ Api.ep = w.st.ep /\ Api.init
    BY <1>1, <2>5, <2>7 DEF FRestInv, FWritten
  <2>9. FOutcome'
    BY <2>2, <2>5, <2>6, <2>7, <2>8 DEF FOutcome
  <2>10. QED BY <2>1, <2>9 DEF FRestInv, FCurrent, FWritten, FFinal
<1>6. QED BY <1>4, <1>5

\* The facade's steps but the one that writes the kubeadm object.
LEMMA FStepsRest ==
  ASSUME SelfInv, PathInv, FRestInv, FacadeSteps PROVE FRestInv'
<1>1. TypeOK /\ w.st \in Possible /\ HistOK
  BY DEF SelfInv, BackedInv, TypeOK, HistOK
<1>2. UNCHANGED <<inst, view>>
  BY <1>1, FacadeLeaves, AroundLeaves DEF FacadeSteps
<1>3. CASE pc # "sync" /\ Worker
  <2>1. CASE PatchNotFound
    BY <2>1, FRetried DEF PatchNotFound, Finish
  <2>2. ~SyncBackend
    BY <1>3 DEF SyncBackend
  <2>3. QED BY <1>1, <1>2, <1>3, <2>1, <2>2, PathSteps, FStarts, FPublishes, FRests
<1>4. CASE CacheAdvance
  <2>1. queued'
    BY <1>2, <1>4 DEF CacheAdvance
  <2>2. QED BY <2>1, FStirred DEF FCalm
<1>5. CASE DeliverEvent \/ TimerFires
  BY <1>5, FStirred DEF DeliverEvent, TimerFires, FCalm
<1>6. CASE EditSpec
  <2>1. PICK new : Write(new) /\ hist' # hist
    BY <1>6 DEF EditSpec
  <2>2. hist' = Append(hist, new) /\ hist \in Seq(CP) /\ Len(hist) \in Nat \ {0}
    BY <1>1, <2>1 DEF Write, TypeOK
  <2>3. hist' = Append(hist, new) => Len(hist') = Len(hist) + 1
    BY <2>2
  <2>4. Len(hist') # 1
    BY <2>2, <2>3
  <2>5. QED BY <2>4, FStirred DEF FCalm
<1>7. CASE UnwatchedChange
  <2>1. UNCHANGED <<hist, queued, timer, pc, w>>
    BY <1>7 DEF UnwatchedChange, queueVars
  <2>2. QED BY <1>2, <2>1, FLeft
<1>8. QED BY <1>3, <1>4, <1>5, <1>6, <1>7 DEF FacadeSteps

\* A cached backend object with the version wanted is the one at the server: of the
\* versions on their way none asks for less than the cached one and none for more
\* than the server's, and that for no more than what is wanted.
LEMMA SeenIsCurrent ==
  ASSUME SelfInv, OrderInv, view.exists, view.ver = Cached.version
  PROVE  inst.exists /\ inst.ver = Cached.version
<1>1. TypeOK /\ KubeadmInv /\ SharedInv /\ PassedOn /\ Followed
  BY DEF SelfInv, OrderInv
<1>2. inst.exists /\ view = Reflected(khist[1]) /\ inst = Reflected(K!Api)
  BY <1>1 DEF SharedInv
<1>3. K!Api \in K!CP /\ khist[1] \in K!CP
  BY <1>1, KubeadmEnsures DEF Ensured
<1>4. view.ver = VersionNames[khist[1].version] /\ inst.ver = VersionNames[K!Api.version]
  BY <1>2, <1>3, ReflectedFields
<1>5. /\ Rank(khist[1]) = Number(view.ver) /\ Rank(K!Api) = Number(inst.ver)
      /\ Rank(khist[1]) \in Nat /\ Rank(K!Api) \in Nat
  BY <1>3, <1>4, NumberType DEF Rank
<1>6. Rank(khist[1]) <= Rank(K!Api)
  <2>1. 1 \in 1..Len(khist)
    BY <1>1 DEF KubeadmInv, KubeadmTypes
  <2>2. QED BY <1>1, <2>1 DEF PassedOn
<1>7. Rank(K!Api) <= Rank(khist[1])
  BY <1>1, <1>2, <1>5 DEF Followed
<1>8. Number(inst.ver) = Number(view.ver)
  BY <1>5, <1>6, <1>7
<1>9. inst.ver \in Versions /\ view.ver \in Versions
  BY <1>3, <1>4, NumberType
<1>10. QED BY <1>2, <1>8, <1>9, NumberOf

\* The backend object is as wanted.
LEMMA FSyncs ==
  ASSUME SelfInv, PathInv, OrderInv, FRestInv, FacadeSyncs PROVE FRestInv'
<1> SUFFICES ASSUME FCalm' PROVE FRestInv'
  BY FStirred
<1>1. TypeOK /\ Seen = view /\ w.cp.version \in Versions
  BY OneObject DEF SelfInv
<1>2. pc = "sync" /\ UNCHANGED <<hist, queued>>
  BY DEF FacadeSyncs, SyncBackend, serverVars
<1>3. FCalm /\ Api' = Api
  BY <1>2 DEF FCalm, Api
<1>4. w.cp = Api /\ Cached = Api
  BY <1>2, <1>3 DEF FRestInv, FCurrent, FCalm, Cached, Api
<1>5. CASE Finish(TRUE)
  BY <1>5, FRetried DEF Finish
<1>6. CASE ~Finish(TRUE)
  <2>1. /\ ~Outdated /\ ~SyncRefused /\ SyncBackend
        /\ inst' = IF Mutated(view) = view THEN inst ELSE Mutated(view)
        /\ w' = [w EXCEPT !.st = Mutated(view).st] /\ pc' = "endpoint"
    BY <1>1, <1>6, SelfManagedAssumption DEF FacadeSyncs, SyncBackend
  <2>2. /\ Mutated(view).exists = TRUE /\ Mutated(view).ver = w.cp.version
    BY <1>1, MutatedFields
  <2>3. inst'.exists /\ inst'.ver = Api.version
    <3>1. CASE Mutated(view) = view
      <4>1. view.exists /\ view.ver = Cached.version
        BY <1>4, <2>2, <3>1
      <4>2. QED BY <1>4, <2>1, <3>1, <4>1, SeenIsCurrent
    <3>2. CASE Mutated(view) # view
      BY <1>4, <2>1, <2>2, <3>2
    <3>3. QED BY <3>1, <3>2
  <2>4. w'.cp = w.cp
    BY <1>1, <2>1 DEF TypeOK, Local
  <2>5. QED BY <1>3, <1>4, <2>1, <2>3, <2>4 DEF FRestInv, FCurrent, FWritten, FFinal
<1>7. QED BY <1>5, <1>6

\* The facade comes to rest with everything passed on and published.
LEMMA FRestStep ==
  ASSUME SelfInv, PathInv, OrderInv, FRestInv, [SNext]_svars PROVE FRestInv'
<1>1. TypeOK /\ KubeadmInv /\ SharedInv
  BY DEF SelfInv
<1>2. CASE UNCHANGED svars
  <2>1. UNCHANGED <<hist, inst, queued, timer, pc, w>>
    BY <1>2 DEF svars, vars, serverVars, queueVars
  <2>2. QED BY <2>1, FLeft
<1>3. CASE KubeadmSteps
  <2>1. UNCHANGED <<hist, queued, timer, pc, w>>
    BY <1>3 DEF KubeadmSteps, facadeVars
  <2>2. inst.exists /\ inst' = Reflected((K!Api)') /\ inst.ver = VersionNames[K!Api.version]
    <3>1. inst.exists /\ inst = Reflected(K!Api) /\ inst' = Reflected((K!Api)')
      BY <1>1, <1>3 DEF KubeadmSteps, SharedInv, K!Api
    <3>2. K!Api \in K!CP
      BY <1>1, KubeadmEnsures DEF Ensured
    <3>3. QED BY <3>1, <3>2, ReflectedFields
  <2>3. (K!Api)' \in K!CP
    <3>1. SelfInv'
      BY <1>3, KubeadmStepsKeep
    <3>2. KubeadmInv'
      BY <3>1 DEF SelfInv
    <3>3. (KubeadmInv => Ensured)'
      BY KubeadmEnsures, PTL
    <3>4. QED BY <3>2, <3>3 DEF Ensured
  <2>4. (K!Api)'.version = K!Api.version
    <3>1. CASE UNCHANGED khist
      BY <3>1 DEF K!Api
    <3>2. CASE K!Worker
      <4>1. CASE \E new \in K!CP : khist' = Append(khist, new) /\ new.version = K!Api.version
        <5>1. PICK new \in K!CP : khist' = Append(khist, new) /\ new.version = K!Api.version
          BY <4>1
        <5>2. khist \in Seq(K!CP) /\ Len(khist) \in Nat
          BY <1>1 DEF KubeadmInv, KubeadmTypes
        <5>3. khist'[Len(khist')] = new
          BY <5>1, <5>2
        <5>4. QED BY <5>1, <5>3 DEF K!Api
      <4>2. QED BY <1>1, <3>1, <3>2, <4>1, KubeadmWrites
    <3>3. QED
      BY <1>3, <3>1, <3>2 DEF KubeadmSteps, K!TimerFires, K!ViewAdvance, K!WorldChanges, K!cpVars
  <2>5. inst'.exists = TRUE /\ inst'.ver = VersionNames[(K!Api)'.version]
    BY <2>2, <2>3, ReflectedFields
  <2>6. inst.exists = TRUE
    BY <1>1, <2>2 DEF TypeOK, Inst
  <2>7. QED BY <2>1, <2>2, <2>4, <2>5, <2>6, FLeft
<1>4. CASE Object
  <2>1. UNCHANGED <<hist, queued, timer, pc, w, inst>>
    <3>1. UNCHANGED <<hist, timer, pc, w, inst>>
      BY <1>4 DEF Object, ObjectAppears, ObjectAdvances, CacheAdvance, facadeVars
    <3>2. queued \in BOOLEAN /\ (queued' = queued \/ queued' = (queued \/ hist' # hist))
      BY <1>1, <1>4 DEF Object, ObjectAppears, ObjectAdvances, CacheAdvance, facadeVars, TypeOK
    <3>3. QED BY <3>1, <3>2
  <2>2. QED BY <2>1, FLeft
<1>5. QED BY <1>2, <1>3, <1>4, FStepsRest, FSyncs DEF SNext

\* What both rest on.
BothInv == PathInv /\ OrderInv /\ KRestInv /\ FRestInv

\* It holds before either has run.
LEMMA BothBegin == ASSUME SInit PROVE BothInv
<1>1. PICK v \in Versions : hist = <<NewCP(1, v)>>
  BY DEF SInit, Init
<1>2. inst.exists = FALSE /\ view.exists = FALSE /\ pc = "idle" /\ queued = TRUE
  BY DEF SInit, Init, NoInst
<1>3. kpc = "idle" /\ config = None /\ configView = None
  BY DEF SInit
<1>4. Len(hist) = 1 /\ \A i \in 1..Len(hist) : hist[i] = NewCP(1, v)
  BY <1>1
<1>5. PathInv
  <2>1. NewCP(1, v).exists = TRUE /\ NewCP(1, v).cfg = "valid"
    BY DEF NewCP
  <2>2. QED BY <1>2, <1>4, <2>1 DEF PathInv
<1>6. InOrder
  <2>1. NewCP(1, v).version = v /\ Number(v) \in Nat
    BY NumberType DEF NewCP
  <2>2. QED BY <1>4, <2>1 DEF InOrder
<1>7. PassedOn
  <2> DEFINE o == K!NewCP(1, FALSE)
  <2>1. o \in K!CP /\ khist = <<o>>
    BY FirstNumber, NewKubeadm DEF SInit
  <2> HIDE DEF o
  <2>2. khist[Len(khist)] = o /\ \A i \in 1..Len(khist) : khist[i] = o
    BY <2>1, OneVersion
  <2>3. K!Api = khist[Len(khist)]
    BY Zenon DEF K!Api
  <2>4. Rank(o) <= Rank(o)
    BY <2>1, NumberType
  <2>5. QED BY <2>2, <2>3, <2>4 DEF PassedOn
<1>8. Followed /\ Wanted
  BY <1>2 DEF Followed, Wanted
<1>9. KRestInv
  BY <1>2, <1>3 DEF KRestInv, ConfigInv, KCurrent, KWritten, KFinal
<1>10. FRestInv
  BY <1>2 DEF FRestInv, FCurrent, FWritten, FFinal, FCalm
<1>11. QED BY <1>5, <1>6, <1>7, <1>8, <1>9, <1>10 DEF BothInv, OrderInv

\* At rest one story (SettledIsBuilt), as long as no user takes a version back: a
\* facade that asks for no other run has passed the version on and found its backend
\* ready, a kubeadm reconciler that asks for no other has published the endpoint it
\* built for, and what the one last read of the other can only have grown since.
\* With a version taken back, a cache that still shows an earlier object with that
\* version hides from the facade that the server's asks for another.
THEOREM SelfSettledBuilt ==
  ASSUME ~K!May("rollback") PROVE SSpec => []SettledIsBuilt
<1>1. SInit => SelfInv /\ BothInv
  BY SelfBegins, BothBegin
<1>2. SelfInv /\ BothInv /\ [SNext]_svars => SelfInv' /\ BothInv'
  BY SelfStep, OrderStep, KRestStep, FRestStep DEF BothInv
<1>3. SelfInv /\ BothInv => SettledIsBuilt
  <2> SUFFICES ASSUME SelfInv, BothInv, BothSettled
               PROVE  /\ Projected /\ K!Api.linked /\ Api.ep = infra
                      /\ kubeconfig = infra /\ config = infra /\ machine.ver # 0
    BY DEF SettledIsBuilt
  <2>1. TypeOK /\ KubeadmInv /\ SharedInv /\ TruthInv
    BY DEF SelfInv
  <2>2. FOutcome
    BY DEF BothInv, FRestInv, FFinal, FCalm, BothSettled, Settled
  <2>3. KOutcome
    <3>1. view.exists
      BY <2>2 DEF BothSettled, FOutcome
    <3>2. KCalm /\ kpc = "idle" /\ ~ktimer
      BY DEF BothSettled, KCalm
    <3>3. QED BY <3>1, <3>2 DEF BothInv, KRestInv, KFinal
  <2>4. /\ inst.owner = 1 /\ inst.st.ready = (K!Api.conds.ready = "True")
        /\ inst.st.ep = K!Api.ep
    <3>1. K!Api \in K!CP /\ inst = Reflected(K!Api)
      BY <2>1, <2>2, KubeadmEnsures DEF Ensured, SharedInv, FOutcome
    <3>2. QED BY <3>1, ReflectedFields
  <2>5. Api.uid = 1
    BY <2>1, ApiType, SelfManagedAssumption DEF TypeOK, HistOK, CP
  <2>6. Vouched(Api)
    BY <2>1 DEF TypeOK, TruthInv, Api
  <2>7. Api.ep = infra /\ K!Api.init
    BY <2>2, <2>6 DEF FOutcome, Vouched
  <2>8. Projected
    BY <2>2, <2>3, <2>4, <2>5, <2>7, SelfManagedAssumption
       DEF Projected, ControlPlaneReady, FOutcome, KOutcome
  <2>9. machine.ver # 0
    BY <2>1, <2>7 DEF KubeadmInv, MachineInv, SeenRunning
  <2>10. QED BY <2>3, <2>7, <2>8, <2>9 DEF KOutcome
<1>4. QED BY <1>1, <1>2, <1>3, PTL DEF SSpec
=============================================================================
