----------------------- MODULE OCMBootstrapperProofs -----------------------
(***************************************************************************)
(* Proofs about OCMBootstrapper, for any number of Clusters that share an  *)
(* ACK cluster, any hubs and issuers, and any number of events.            *)
(***************************************************************************)
EXTENDS OCMBootstrapper, TLAPS

\* A managed Role carries a Cluster in its label, to which its events go.
Labelled == \A h \in Hubs : role[h].kind = "managed" => role[h].label \in Clusters

TypeInv == TypeOK /\ Labelled

\* A new Cluster is a Cluster, whatever the hub that CHOOSE names.
LEMMA NewTypes ==
  /\ \A uid \in 0..MaxUid : NewCluster(uid) \in Cluster
  /\ NoRole \in Role /\ NoRole.kind = "absent" /\ NoLocal \in Local
<1>1. (CHOOSE h \in Hubs : TRUE) \in Hubs
  BY ConstantsAssumption
<1>2. ASSUME NEW uid \in 0..MaxUid PROVE NewCluster(uid) \in Cluster
  BY <1>1 DEF NewCluster, Cluster
<1>3. 0 \in 0..MaxUid
  BY ConstantsAssumption
<1>4. NoRole \in Role /\ NoRole.kind = "absent"
  BY <1>3 DEF NoRole, Role
<1>5. NoLocal \in Local
  BY <1>2, <1>3, <1>4 DEF NoLocal, NoCluster, Local
<1>6. QED BY <1>2, <1>4, <1>5

\* So is an edited one.
LEMMA EditedTypes ==
  ASSUME NEW c \in Cluster
  PROVE  /\ [c EXCEPT !.named = TRUE] \in Cluster
         /\ \A b \in BOOLEAN : [c EXCEPT !.enabled = b] \in Cluster
         /\ \A h \in Hubs \cup {None} : [c EXCEPT !.hub = h] \in Cluster
         /\ [c EXCEPT !.takeover = TRUE] \in Cluster
         /\ [c EXCEPT !.deleting = TRUE] \in Cluster
         /\ c.uid < MaxUid =>
              [c EXCEPT !.uid = c.uid + 1, !.deleting = FALSE, !.named = FALSE] \in Cluster
<1>1. c.uid < MaxUid => c.uid + 1 \in 0..MaxUid
  BY ConstantsAssumption DEF Cluster
<1>2. QED BY <1>1 DEF Cluster

\* A run ends with a request for another one.
LEMMA FinishType ==
  ASSUME TypeOK, pc # "idle", NEW kind \in {"retry", "refused", "steady"}, Finish(kind)
  PROVE  /\ pc' = "idle" /\ w' \in Local
         /\ timer' \in [Clusters -> {"none", "retry", "refused", "steady"}]
         /\ timer'[w.c] # "none"
         /\ \A c \in Clusters : timer[c] # "none" => timer'[c] # "none"
<1>1. w.c \in Clusters /\ timer \in [Clusters -> {"none", "retry", "refused", "steady"}]
  BY DEF TypeOK
<1>2. w' \in Local
  BY NewTypes DEF Finish
<1>3. QED BY <1>1, <1>2 DEF Finish

\* Writing a Role enqueues Clusters only.
LEMMA SetRoleType ==
  ASSUME TypeInv, NEW h \in Hubs, NEW r \in Role, SetRole(h, r),
         r.kind = "managed" => r.label \in Clusters
  PROVE  role' \in [Hubs -> Role] /\ Labelled' /\ queued' \subseteq Clusters
         /\ queued \subseteq queued'
<1>1. role \in [Hubs -> Role] /\ queued \subseteq Clusters
  BY DEF TypeInv, TypeOK
<1>2. role' = [role EXCEPT ![h] = r]
  BY DEF SetRole
<1>3. role' \in [Hubs -> Role] /\ Labelled'
  BY <1>1, <1>2 DEF TypeInv, Labelled
<1>4. Mapped(r) \subseteq Clusters /\ Mapped(role[h]) \subseteq Clusters
  BY DEF Mapped, TypeInv, Labelled
<1>5. QED BY <1>1, <1>3, <1>4 DEF SetRole

\* The Role the reconciler wants is a managed one with the Cluster in its label.
LEMMA WantedType ==
  ASSUME TypeOK, pc # "idle"
  PROVE  Wanted(w.role) \in Role /\ Wanted(w.role).kind = "managed"
         /\ Wanted(w.role).label \in Clusters
<1>1. /\ w.role \in Role /\ w.c \in Clusters /\ w.issuer \in Issuers \cup {None}
      /\ w.copy.uid \in 0..MaxUid
  BY DEF TypeOK, Local, Cluster
<1> DEFINE o == [w.role.owners EXCEPT ![w.c] = w.copy.uid]
<1>2. o \in [Clusters -> 0..MaxUid]
  BY <1>1 DEF Role
<1>3. Wanted(w.role) = [w.role EXCEPT !.kind = "managed", !.label = w.c, !.owners = o,
                                      !.issuer = w.issuer]
  BY DEF Wanted
<1> HIDE DEF o
<1>4. LET r == [w.role EXCEPT !.kind = "managed", !.label = w.c, !.owners = o,
                              !.issuer = w.issuer] IN
        r \in Role /\ r.kind = "managed" /\ r.label = w.c
  BY <1>1, <1>2 DEF Role
<1>5. QED BY <1>1, <1>3, <1>4

LEMMA TypeStep ==
  ASSUME TypeInv, [Next]_vars PROVE TypeInv'
<1> USE ConstantsAssumption DEF TypeOK, TypeInv
<1>1. NoLocal \in Local /\ NoRole \in Role /\ NoRole.kind = "absent"
  BY NewTypes
<1>2. CASE StartReconcile
  <2>1. PICK c \in queued :
          /\ queued' = queued \ {c}
          /\ \/ UNCHANGED <<pc, w>>
             \/ /\ w' = [NoLocal EXCEPT !.c = c, !.copy = seen[c]]
                /\ pc' \in {"ack", "label"}
    BY <1>2 DEF StartReconcile
  <2>2. LET n == [NoLocal EXCEPT !.c = c, !.copy = seen[c]] IN n \in Local /\ n.c = c
    BY <1>1, <2>1 DEF Local
  <2>3. w' \in Local /\ (pc' # "idle" => w'.c \in Clusters) /\ pc' \in {"idle", "label", "ack"}
    BY <1>2, <2>1, <2>2 DEF StartReconcile
  <2>4. QED BY <1>2, <2>1, <2>3 DEF StartReconcile, worldVars, Labelled
<1>3. CASE EnsureLabel
  <2>1. CASE api[w.c].uid = 0
    BY <1>3, <2>1, FinishType DEF EnsureLabel, worldVars, Labelled
  <2>2. CASE api[w.c].uid # 0
    <3>1. w.c \in Clusters /\ w \in Local
      BY <1>3 DEF EnsureLabel
    <3>2. [api[w.c] EXCEPT !.named = TRUE] \in Cluster
      BY <3>1, EditedTypes
    <3>3. api' = [api EXCEPT ![w.c] = [api[w.c] EXCEPT !.named = TRUE]]
      BY <1>3, <2>2, <3>1 DEF EnsureLabel
    <3>4. api' \in [Clusters -> Cluster] /\ api'[w.c] \in Cluster
      BY <3>1, <3>2, <3>3
    <3>5. w' = [w EXCEPT !.copy = api'[w.c]] /\ pc' = "ack"
      BY <1>3, <2>2 DEF EnsureLabel
    <3>6. w' \in Local /\ w'.c = w.c
      BY <3>1, <3>4, <3>5 DEF Local
    <3>7. UNCHANGED <<seen, worldVars, role, queued, untold, events, timer>>
      BY <1>3, <2>2 DEF EnsureLabel
    <3>8. QED BY <3>1, <3>4, <3>5, <3>6, <3>7 DEF worldVars, Labelled
  <2>3. QED BY <2>1, <2>2
<1>4. CASE ReadACK
  <2>1. CASE apis /\ ack \in Issuers /\ w.copy.hub \in Hubs
    <3>1. LET n == [w EXCEPT !.issuer = ack] IN
            n \in Local /\ n.c = w.c /\ n.copy = w.copy
      BY <2>1 DEF Local
    <3>2. QED BY <1>4, <2>1, <3>1 DEF ReadACK, worldVars, Labelled
  <2>2. CASE ~(apis /\ ack \in Issuers /\ w.copy.hub \in Hubs)
    BY <1>4, <2>2, FinishType DEF ReadACK, worldVars, Labelled
  <2>3. QED BY <2>1, <2>2
<1>5. CASE GetRole
  <2> DEFINE r == role[w.copy.hub]
  <2>1. CASE r.kind = "foreign" /\ ~w.copy.takeover
    BY <1>5, <2>1, FinishType DEF GetRole, worldVars, Labelled
  <2>2. CASE ~(r.kind = "foreign" /\ ~w.copy.takeover)
    <3>1. r \in Role
      BY <1>5 DEF GetRole
    <3>2. LET n == [w EXCEPT !.role = r] IN
            n \in Local /\ n.c = w.c /\ n.copy = w.copy
      BY <3>1 DEF Local
    <3>3. w' = [w EXCEPT !.role = r] /\ pc' \in {"create", "update"} /\ UNCHANGED timer
      BY <1>5, <2>2 DEF GetRole
    <3>4. QED BY <1>5, <3>2, <3>3 DEF GetRole, worldVars, Labelled
  <2>3. QED BY <2>1, <2>2
<1>6. CASE WriteRole
  <2>1. w.copy.hub \in Hubs /\ pc # "idle"
    BY <1>6 DEF WriteRole
  <2>2. \/ UNCHANGED <<role, queued>>
        \/ SetRole(w.copy.hub, Wanted(w.role))
    BY <1>6 DEF WriteRole
  <2>3. role' \in [Hubs -> Role] /\ Labelled' /\ queued' \subseteq Clusters
    BY <2>1, <2>2, SetRoleType, WantedType DEF Labelled
  <2>4. \/ Finish("steady") \/ Finish("retry")
    BY <1>6 DEF WriteRole
  <2>5. /\ pc' = "idle" /\ w' \in Local
        /\ timer' \in [Clusters -> {"none", "retry", "refused", "steady"}]
    BY <2>1, <2>4, FinishType
  <2>6. QED BY <1>6, <2>3, <2>5 DEF WriteRole, worldVars
<1>7. CASE CallFails
  <2>1. events' \in 0..MaxEvents
    BY <1>7 DEF CallFails, Happens
  <2>2. QED BY <1>7, <2>1, FinishType DEF CallFails, worldVars, Labelled
<1>8. CASE Restart
  <2>1. events' \in 0..MaxEvents
    BY <1>8 DEF Restart, Happens
  <2>2. QED BY <1>1, <1>8, <2>1 DEF Restart, Labelled
<1>9. CASE CacheAdvance
  BY <1>9 DEF CacheAdvance, worldVars, Labelled
<1>10. CASE MapACKEvent
  BY <1>10 DEF MapACKEvent, Labelled
<1>11. CASE TimerFires
  BY <1>11 DEF TimerFires, worldVars, Labelled
<1>12. CASE CollectGarbage
  <2>1. PICK h \in Hubs : SetRole(h, NoRole)
    BY <1>12 DEF CollectGarbage
  <2>2. role' \in [Hubs -> Role] /\ Labelled' /\ queued' \subseteq Clusters
    BY <1>1, <2>1, SetRoleType
  <2>3. QED BY <1>12, <2>2 DEF CollectGarbage, worldVars
<1>13. CASE EditCluster
  <2>1. PICK c \in Clusters, r \in Cluster : api' = [api EXCEPT ![c] = r]
    <3>1. PICK c \in Clusters :
            \/ api' = [api EXCEPT ![c].enabled = ~@]
            \/ \E h \in Hubs \cup {None} : api' = [api EXCEPT ![c].hub = h]
            \/ api' = [api EXCEPT ![c].takeover = TRUE]
            \/ api' = [api EXCEPT ![c].deleting = TRUE]
      BY <1>13 DEF EditCluster
    <3>2. api[c] \in Cluster /\ (~api[c].enabled) \in BOOLEAN
      OBVIOUS
    <3>3. PICK r \in Cluster : api' = [api EXCEPT ![c] = r]
      BY <3>1, <3>2, EditedTypes
    <3>4. QED BY <3>3
  <2>2. api' \in [Clusters -> Cluster]
    BY <2>1
  <2>3. events' \in 0..MaxEvents
    BY <1>13 DEF EditCluster, Happens
  <2>4. QED BY <1>13, <2>2, <2>3 DEF EditCluster, worldVars, Labelled
<1>14. CASE ReplaceCluster
  <2>1. PICK c \in Clusters :
          \/ api' = [api EXCEPT ![c] = NoCluster]
          \/ /\ api[c].uid < MaxUid
             /\ api' = [api EXCEPT ![c].uid = @ + 1, ![c].deleting = FALSE, ![c].named = FALSE]
    BY <1>14 DEF ReplaceCluster
  <2>2. NoCluster \in Cluster
    BY NewTypes DEF NoCluster
  <2>3. api[c].uid < MaxUid =>
          [api[c] EXCEPT !.uid = api[c].uid + 1, !.deleting = FALSE, !.named = FALSE] \in Cluster
    BY EditedTypes
  <2>4. api' \in [Clusters -> Cluster]
    BY <2>1, <2>2, <2>3
  <2>5. QED BY <1>14, <2>4 DEF ReplaceCluster, worldVars, Labelled
<1>15. CASE WorldChanges
  <2>1. events' \in 0..MaxEvents
    BY <1>15 DEF WorldChanges, Happens
  <2>2. /\ ack' \in {"creating"} \cup Issuers /\ apis' \in BOOLEAN /\ watching' \in BOOLEAN
        /\ ackEvent' \in BOOLEAN
    BY <1>15 DEF WorldChanges
  <2>3. QED BY <1>15, <2>1, <2>2 DEF WorldChanges, Labelled
<1>16. CASE UserActs
  <2>1. PICK h \in Hubs : \/ SetRole(h, [NoRole EXCEPT !.kind = "foreign"])
                          \/ SetRole(h, [role[h] EXCEPT !.kind = "foreign"])
                          \/ SetRole(h, NoRole)
    BY <1>16 DEF UserActs, TakeAway
  <2>2. ASSUME NEW r \in Role
        PROVE  LET n == [r EXCEPT !.kind = "foreign"] IN n \in Role /\ n.kind = "foreign"
    BY DEF Role
  <2>3. PICK r \in Role : SetRole(h, r) /\ r.kind # "managed"
    BY <1>1, <2>1, <2>2
  <2>4. role' \in [Hubs -> Role] /\ Labelled' /\ queued' \subseteq Clusters
    BY <2>3, SetRoleType
  <2>5. events' \in 0..MaxEvents
    BY <1>16 DEF UserActs, Happens
  <2>6. untold' \subseteq Clusters
    BY <1>16 DEF UserActs, TakeAway
  <2>7. QED BY <1>16, <2>4, <2>5, <2>6 DEF UserActs, worldVars
<1>17. CASE UNCHANGED vars
  BY <1>17 DEF vars, worldVars, Labelled
<1>18. QED
  BY <1>2, <1>3, <1>4, <1>5, <1>6, <1>7, <1>8, <1>9, <1>10, <1>11, <1>12, <1>13, <1>14,
     <1>15, <1>16, <1>17 DEF Next, Worker, Environment

LEMMA TypeInvariant == Spec => []TypeInv
<1>1. Init => TypeInv
  <2> SUFFICES ASSUME Init PROVE TypeInv
    OBVIOUS
  <2>1. (CHOOSE i \in Issuers : TRUE) \in Issuers /\ 1 \in 0..MaxUid
    BY ConstantsAssumption
  <2>2. api \in [Clusters -> Cluster] /\ seen \in [Clusters -> Cluster]
    <3>1. [NewCluster(1) EXCEPT !.enabled = TRUE] \in Cluster
          /\ [NewCluster(1) EXCEPT !.enabled = FALSE] \in Cluster
      BY <2>1, NewTypes, EditedTypes
    <3>2. QED BY <3>1 DEF Init
  <2>3. role \in [Hubs -> Role] /\ Labelled
    BY NewTypes DEF Init, Labelled
  <2>4. apis \in BOOLEAN /\ watching \in BOOLEAN
    BY DEF Init, May
  <2>5. /\ timer \in [Clusters -> {"none", "retry", "refused", "steady"}]
        /\ events \in 0..MaxEvents
    BY ConstantsAssumption DEF Init
  <2>6. QED BY <2>1, <2>2, <2>3, <2>4, <2>5, NewTypes DEF Init, TypeInv, TypeOK
<1>2. TypeInv /\ [Next]_vars => TypeInv'
  BY TypeStep
<1>3. QED BY <1>1, <1>2, PTL DEF Spec

\* Every variable keeps its type, and no Role is managed for nobody.
THEOREM TypeCorrect == Spec => []TypeOK
BY TypeInvariant, PTL DEF TypeInv

-----------------------------------------------------------------------------
(* Roles of others *)

\* What the worker is about to take over, the copy of its Cluster allows it to.
AllowedInv == pc \in {"create", "update"} /\ w.role.kind = "foreign" => w.copy.takeover

LEMMA AllowedStep ==
  ASSUME TypeOK, AllowedInv, [Next]_vars PROVE AllowedInv'
<1> USE DEF AllowedInv
<1>1. CASE GetRole
  <2>1. w \in Local
    BY DEF TypeOK
  <2>2. LET n == [w EXCEPT !.role = role[w.copy.hub]] IN
          n.role = role[w.copy.hub] /\ n.copy = w.copy
    BY <2>1 DEF Local
  <2>3. QED BY <1>1, <2>2 DEF GetRole, Finish
<1>2. CASE StartReconcile \/ EnsureLabel \/ ReadACK \/ WriteRole \/ CallFails \/ Restart
  <2>1. pc' \notin {"create", "update"} \/ UNCHANGED <<pc, w>>
    BY <1>2 DEF StartReconcile, EnsureLabel, ReadACK, WriteRole, CallFails, Restart, Finish
  <2>2. QED BY <2>1
<1>3. CASE \/ CacheAdvance \/ MapACKEvent \/ TimerFires \/ CollectGarbage \/ EditCluster
           \/ ReplaceCluster \/ WorldChanges \/ UserActs \/ UNCHANGED vars
  BY <1>3 DEF CacheAdvance, MapACKEvent, TimerFires, CollectGarbage, EditCluster,
     ReplaceCluster, WorldChanges, UserActs, vars
<1>4. QED BY <1>1, <1>2, <1>3 DEF Next, Worker, Environment

\* A Role that somebody else manages is changed only for a Cluster that allows
\* it, whenever it came to be or stopped being managed: the resourceVersion that
\* was read is the one that is replaced.
THEOREM ForeignKept == Spec => ForeignIsKept
<1>1. Init => AllowedInv
  BY DEF Init, AllowedInv
<1>2. TypeOK /\ AllowedInv /\ [Next]_vars => AllowedInv'
  BY AllowedStep
<1>3. TypeOK /\ AllowedInv /\ [Next]_vars =>
        [\A h \in Hubs : role[h].kind = "foreign" /\ role'[h].kind = "managed"
           => w.copy.takeover]_vars
  <2> SUFFICES ASSUME TypeOK, AllowedInv, Next, NEW h \in Hubs,
                      role[h].kind = "foreign", role'[h].kind = "managed"
               PROVE  w.copy.takeover
    OBVIOUS
  <2>1. role \in [Hubs -> Role]
    BY DEF TypeOK
  <2>2. CASE WriteRole
    <3>1. \/ UNCHANGED role
          \/ role[w.copy.hub] = w.role /\ SetRole(w.copy.hub, Wanted(w.role))
      BY <2>2 DEF WriteRole
    <3>2. role[w.copy.hub] = w.role /\ SetRole(w.copy.hub, Wanted(w.role))
      BY <3>1
    <3>3. h = w.copy.hub
      BY <2>1, <3>2 DEF SetRole
    <3>4. QED BY <2>2, <3>2, <3>3 DEF WriteRole, AllowedInv
  <2>3. CASE CollectGarbage
    <3>1. PICK g \in Hubs : SetRole(g, NoRole)
      BY <2>3 DEF CollectGarbage
    <3>2. QED BY <2>1, <3>1 DEF SetRole, NoRole
  <2>4. CASE UserActs
    <3>1. PICK g \in Hubs : \/ SetRole(g, [NoRole EXCEPT !.kind = "foreign"])
                            \/ SetRole(g, [role[g] EXCEPT !.kind = "foreign"])
                            \/ SetRole(g, NoRole)
      BY <2>4 DEF UserActs, TakeAway
    <3>2. PICK r : SetRole(g, r) /\ r.kind # "managed"
      BY <2>1, <3>1, NewTypes DEF Role
    <3>3. QED BY <2>1, <3>2 DEF SetRole
  <2>5. CASE ~(WriteRole \/ CollectGarbage \/ UserActs)
    <3>1. UNCHANGED role
      BY <2>5 DEF Next, Worker, Environment, StartReconcile, EnsureLabel, ReadACK, GetRole,
         CallFails, Restart, CacheAdvance, MapACKEvent, TimerFires, EditCluster,
         ReplaceCluster, WorldChanges
    <3>2. QED BY <3>1
  <2>6. QED BY <2>2, <2>3, <2>4, <2>5
<1>4. QED BY <1>1, <1>2, <1>3, TypeCorrect, PTL DEF Spec, ForeignIsKept

-----------------------------------------------------------------------------
(* Progress *)

Asked(c) == c \in queued \/ timer[c] # "none" \/ (pc # "idle" /\ w.c = c)

\* For every Cluster that the cache shows as one for the bootstrapper a run is
\* queued, asked for later, or under way.
AskedInv ==
  \A c \in Clusters : seen[c].uid # 0 /\ ~seen[c].deleting /\ seen[c].enabled => Asked(c)

LEMMA AskedStep ==
  ASSUME TypeInv, AskedInv, [Next]_vars PROVE AskedInv'
<1> USE DEF AskedInv, Asked
<1>1. /\ queued \subseteq Clusters /\ timer \in [Clusters -> {"none", "retry", "refused", "steady"}]
      /\ seen \in [Clusters -> Cluster] /\ (pc # "idle" => w.c \in Clusters)
  BY DEF TypeInv, TypeOK
<1>2. CASE StartReconcile
  <2>1. PICK c \in queued :
          /\ queued' = queued \ {c}
          /\ IF seen[c].uid = 0 \/ seen[c].deleting \/ ~seen[c].enabled
             THEN UNCHANGED <<pc, w>>
             ELSE w' = [NoLocal EXCEPT !.c = c, !.copy = seen[c]] /\ pc' # "idle"
    BY <1>2 DEF StartReconcile
  <2>2. [NoLocal EXCEPT !.c = c, !.copy = seen[c]].c = c
    BY DEF NoLocal
  <2>3. pc = "idle" /\ UNCHANGED <<seen, timer>>
    BY <1>2 DEF StartReconcile
  <2>4. QED BY <1>1, <2>1, <2>2, <2>3
<1>3. ASSUME pc # "idle", UNCHANGED seen, queued \subseteq queued',
             Finish("retry") \/ Finish("refused") \/ Finish("steady")
      PROVE  AskedInv'
  BY <1>3, FinishType DEF TypeInv
<1>4. ASSUME pc # "idle", pc' # "idle", w'.c = w.c, UNCHANGED <<seen, queued, timer>>
      PROVE  AskedInv'
  BY <1>4
<1>5. CASE EnsureLabel
  <2>1. w \in Local
    BY DEF TypeInv, TypeOK
  <2>2. [w EXCEPT !.copy = api'[w.c]].c = w.c
    BY <2>1 DEF Local
  <2>3. \/ Finish("retry")
        \/ w' = [w EXCEPT !.copy = api'[w.c]] /\ pc' = "ack" /\ UNCHANGED timer
    BY <1>5 DEF EnsureLabel
  <2>4. QED BY <1>3, <1>4, <1>5, <2>2, <2>3 DEF EnsureLabel
<1>6. CASE ReadACK
  <2>1. w \in Local
    BY DEF TypeInv, TypeOK
  <2>2. [w EXCEPT !.issuer = ack].c = w.c
    BY <2>1 DEF Local
  <2>3. QED BY <1>3, <1>4, <1>6, <2>2 DEF ReadACK
<1>7. CASE GetRole
  <2>1. w \in Local
    BY DEF TypeInv, TypeOK
  <2>2. [w EXCEPT !.role = role[w.copy.hub]].c = w.c
    BY <2>1 DEF Local
  <2>3. QED BY <1>3, <1>4, <1>7, <2>2 DEF GetRole
<1>8. CASE WriteRole
  <2>1. queued \subseteq queued'
    BY <1>8 DEF WriteRole, SetRole
  <2>2. QED BY <1>3, <1>8, <2>1 DEF WriteRole
<1>9. CASE CallFails
  BY <1>3, <1>9 DEF CallFails
<1>10. CASE Restart
  BY <1>10 DEF Restart
<1>11. CASE CacheAdvance
  BY <1>1, <1>11 DEF CacheAdvance
<1>12. CASE TimerFires
  BY <1>1, <1>12 DEF TimerFires
<1>13. CASE MapACKEvent \/ CollectGarbage \/ UserActs
  <2>1. queued \subseteq queued' /\ UNCHANGED <<seen, timer, pc, w>>
    BY <1>13 DEF MapACKEvent, CollectGarbage, UserActs, TakeAway, SetRole
  <2>2. QED BY <2>1
<1>14. CASE EditCluster \/ ReplaceCluster \/ WorldChanges \/ UNCHANGED vars
  BY <1>14 DEF EditCluster, ReplaceCluster, WorldChanges, vars
<1>15. QED
  BY <1>2, <1>5, <1>6, <1>7, <1>8, <1>9, <1>10, <1>11, <1>12, <1>13, <1>14
     DEF Next, Worker, Environment

\* No Cluster that wants its Role is forgotten, with the watches or without, and
\* after every one of Reconcile's returns: another run is always ahead of it.
THEOREM NobodyForgotten == Spec => []NeverForgotten
<1>1. Init => AskedInv
  BY DEF Init, AskedInv, Asked
<1>2. TypeInv /\ AskedInv /\ [Next]_vars => AskedInv'
  BY AskedStep
<1>3. AskedInv => NeverForgotten
  BY DEF AskedInv, Asked, NeverForgotten, Wants
<1>4. QED BY <1>1, <1>2, <1>3, TypeInvariant, PTL DEF Spec
-----------------------------------------------------------------------------
(* The long wait *)

\* The Cluster that the cache shows is gone, replaced, or got its label since; an
\* event of it is ahead.
Outlived(c) == api[c].uid # seen[c].uid \/ (api[c].named /\ ~seen[c].named)

\* The cache shows the Cluster as one for the bootstrapper.
Shown(c) == seen[c].uid # 0 /\ ~seen[c].deleting /\ seen[c].enabled

\* The cache shows a Cluster that is or that was; one that is gone has nothing to wait for.
CacheBehind ==
  \A c \in Clusters :
    /\ api[c].uid = 0 \/ (seen[c].uid # 0 /\ seen[c].uid <= api[c].uid)
    /\ api[c].uid = 0 => ~api[c].deleting

\* The worker's copy is the cache's, unless there is an event that tells it so.
CopyCurrent ==
  pc # "idle" /\ w.c \notin queued =>
    Shown(w.c) /\ (w.copy = seen[w.c] \/ Outlived(w.c))

LabelMissing == pc = "label" => ~w.copy.named

\* The issuer that was read is the present one, or its event has been mapped.
IssuerCurrent ==
  watching /\ pc \in {"role", "create", "update"} /\ w.issuer # ack /\ ~ackEvent =>
    \A c \in Clusters : Shown(c) => c \in queued

\* A Role that was read with the Cluster in its label is as it was, or its event
\* has been mapped.
RoleCurrent ==
  watching /\ pc \in {"create", "update"} /\ w.c \notin queued
    /\ w.role.kind = "managed" /\ w.role.label = w.c =>
      role[w.copy.hub] = w.role

\* Nothing but the long wait is ahead of the Cluster.
Rests(c) == timer[c] = "steady" /\ c \notin queued /\ (pc # "idle" => w.c # c)

\* The Role of the Cluster that the cache shows: owned by it, with the present issuer
\* unless it is somebody else's and not to be taken over.
Kept(c) ==
  LET r == role[seen[c].hub] IN
  /\ seen[c].hub \in Hubs /\ r.kind # "absent"
  /\ r.owners[c] = seen[c].uid
  /\ r.kind = "managed" => r.issuer = ack
  /\ r.kind = "foreign" => ~seen[c].takeover

\* A Cluster rests with its Role, unless users took the Role away unheard.
RestKept ==
  watching /\ ~ackEvent =>
    \A c \in Clusters :
      Rests(c) /\ Shown(c) /\ ~Outlived(c) /\ c \notin untold => Kept(c)

SteadyInv ==
  /\ CacheBehind /\ CopyCurrent /\ LabelMissing /\ IssuerCurrent /\ RoleCurrent
  /\ RestKept

\* Writes at the server leave a Cluster outlived, and the cache behind.
LEMMA OutlivedStays ==
  ASSUME TypeInv, CacheBehind, [Next]_vars, UNCHANGED seen
  PROVE  CacheBehind' /\ \A c \in Clusters : Outlived(c) => Outlived(c)'
<1> USE DEF Outlived, CacheBehind
<1>1. api \in [Clusters -> Cluster] /\ seen \in [Clusters -> Cluster]
  BY DEF TypeInv, TypeOK
<1>2. \A c \in Clusters : api[c].uid \in Nat /\ seen[c].uid \in Nat
  BY <1>1 DEF Cluster
<1>3. CASE UNCHANGED api
  BY <1>3
<1>4. ASSUME \A c \in Clusters : /\ api'[c].uid = api[c].uid
                                 /\ api[c].uid = 0 => api'[c] = api[c]
                                 /\ api[c].named => api'[c].named
      PROVE  CacheBehind' /\ \A c \in Clusters : Outlived(c) => Outlived(c)'
  BY <1>4
<1>5. CASE EnsureLabel
  <2>1. w.c \in Clusters
    BY <1>5 DEF EnsureLabel, TypeInv, TypeOK
  <2>2. CASE api[w.c].uid = 0
    BY <1>3, <1>5, <2>2 DEF EnsureLabel
  <2>3. CASE api[w.c].uid # 0
    <3>1. api' = [api EXCEPT ![w.c].named = TRUE]
      BY <1>5, <2>3 DEF EnsureLabel
    <3>2. QED BY <1>1, <1>4, <2>1, <2>3, <3>1 DEF Cluster
  <2>4. QED BY <2>2, <2>3
<1>6. CASE EditCluster
  <2>1. PICK c \in Clusters :
          /\ api[c].uid # 0
          /\ \/ api' = [api EXCEPT ![c].enabled = ~@]
             \/ \E h \in Hubs \cup {None} : api' = [api EXCEPT ![c].hub = h]
             \/ api' = [api EXCEPT ![c].takeover = TRUE]
             \/ api' = [api EXCEPT ![c].deleting = TRUE]
    BY <1>6 DEF EditCluster
  <2>2. \A d \in Clusters : api'[d].uid = api[d].uid /\ api'[d].named = api[d].named
                            /\ (d # c => api'[d] = api[d])
    BY <1>1, <2>1 DEF Cluster
  <2>3. QED BY <1>4, <2>1, <2>2
<1>7. CASE ReplaceCluster
  <2>1. PICK c \in Clusters :
          /\ api[c].deleting
          /\ \/ api' = [api EXCEPT ![c] = NoCluster]
             \/ api' = [api EXCEPT ![c].uid = @ + 1, ![c].deleting = FALSE, ![c].named = FALSE]
    BY <1>7 DEF ReplaceCluster
  <2>2. /\ \A d \in Clusters \ {c} : api'[d] = api[d]
        /\ ~api'[c].deleting /\ (api'[c].uid = 0 \/ api'[c].uid = api[c].uid + 1)
    BY <1>1, <2>1 DEF Cluster, NoCluster, NewCluster
  <2>3. api[c].uid # 0 /\ seen[c].uid # 0 /\ seen[c].uid <= api[c].uid
    BY <2>1
  <2>4. Outlived(c)'
    BY <1>2, <2>2, <2>3
  <2>5. CacheBehind'
    BY <1>2, <2>2, <2>3
  <2>6. QED BY <2>2, <2>4, <2>5
<1>8. QED
  BY <1>3, <1>5, <1>6, <1>7 DEF Next, Worker, Environment, StartReconcile, ReadACK, GetRole,
     WriteRole, CallFails, Restart, CacheAdvance, MapACKEvent, TimerFires, CollectGarbage,
     WorldChanges, UserActs, vars

\* A run that ends without a Role asks for another one soon.
LEMMA RetryRests ==
  ASSUME TypeInv, SteadyInv, [Next]_vars, pc # "idle",
         NEW kind \in {"retry", "refused"}, Finish(kind),
         UNCHANGED <<seen, worldVars, role, queued>>, untold \ {w.c} \subseteq untold'
  PROVE  SteadyInv'
<1>1. CacheBehind' /\ \A c \in Clusters : Outlived(c) => Outlived(c)'
  BY OutlivedStays DEF SteadyInv
<1>2. pc' = "idle" /\ timer' = [timer EXCEPT ![w.c] = IF @ = "retry" THEN @ ELSE kind]
  BY DEF Finish
<1>3. /\ w.c \in Clusters /\ timer \in [Clusters -> {"none", "retry", "refused", "steady"}]
  BY DEF TypeInv, TypeOK
<1>4. CopyCurrent' /\ LabelMissing' /\ IssuerCurrent' /\ RoleCurrent'
  BY <1>2 DEF CopyCurrent, LabelMissing, IssuerCurrent, RoleCurrent
<1>5. \A c \in Clusters : Rests(c)' => Rests(c) /\ c # w.c
  BY <1>2, <1>3 DEF Rests
<1>6. RestKept'
  BY <1>1, <1>5 DEF SteadyInv, RestKept, Kept, Shown, worldVars
<1>7. QED BY <1>1, <1>4, <1>6 DEF SteadyInv

\* Nor does an event, a timer or an edit make a Cluster rest that did not.
LEMMA QueueingRests ==
  ASSUME TypeInv, SteadyInv, [Next]_vars, queued \subseteq queued',
         UNCHANGED <<seen, worldVars, role, pc, w, untold>>,
         \A c \in Clusters : timer'[c] = timer[c] \/ timer'[c] = "none"
  PROVE  SteadyInv'
<1>1. CacheBehind' /\ \A c \in Clusters : Outlived(c) => Outlived(c)'
  BY OutlivedStays DEF SteadyInv
<1>2. pc # "idle" => w.c \in Clusters
  BY DEF TypeInv, TypeOK
<1>3. CopyCurrent'
  BY <1>1, <1>2 DEF SteadyInv, CopyCurrent, Shown
<1>4. LabelMissing' /\ IssuerCurrent' /\ RoleCurrent'
  BY DEF SteadyInv, LabelMissing, IssuerCurrent, RoleCurrent, Shown, worldVars
<1>5. \A c \in Clusters : Rests(c)' => Rests(c)
  BY DEF Rests
<1>6. RestKept'
  BY <1>1, <1>5 DEF SteadyInv, RestKept, Kept, Shown, worldVars
<1>7. QED BY <1>1, <1>3, <1>4, <1>6 DEF SteadyInv

\* A Role that users or the garbage collector change is none that a resting
\* Cluster keeps, or the Cluster hears of it, or is untold.
LEMMA OthersRest ==
  ASSUME TypeInv, SteadyInv, [Next]_vars, NEW h \in Hubs, NEW r \in Role, SetRole(h, r),
         r.kind # "managed",
         UNCHANGED <<api, seen, worldVars, timer, pc, w>>,
         \A c \in Clusters :
           Rests(c)' /\ Shown(c) /\ ~Outlived(c) /\ Kept(c) /\ seen[c].hub = h /\ watching =>
             c \in untold',
         untold \subseteq untold'
  PROVE  SteadyInv'
<1>1. CacheBehind' /\ \A c \in Clusters : Outlived(c) <=> Outlived(c)'
  BY DEF SteadyInv, CacheBehind, Outlived
<1>2. /\ role \in [Hubs -> Role] /\ role' = [role EXCEPT ![h] = r]
      /\ queued \subseteq queued'
      /\ watching /\ r # role[h] /\ role[h].kind = "managed" => role[h].label \in queued'
  BY DEF TypeInv, TypeOK, SetRole, Mapped
<1>3. /\ pc # "idle" => w.c \in Clusters
      /\ pc \in {"role", "create", "update"} => w.copy.hub \in Hubs
  BY DEF TypeInv, TypeOK
<1>4. CopyCurrent'
  BY <1>1, <1>2, <1>3 DEF SteadyInv, CopyCurrent, Shown
<1>5. LabelMissing' /\ IssuerCurrent'
  BY <1>2 DEF SteadyInv, LabelMissing, IssuerCurrent, Shown, worldVars
<1>6. RoleCurrent'
  <2> SUFFICES ASSUME watching, pc \in {"create", "update"}, w.c \notin queued',
                      w.role.kind = "managed", w.role.label = w.c
               PROVE  role'[w.copy.hub] = w.role
    BY DEF RoleCurrent, worldVars
  <2>1. role[w.copy.hub] = w.role /\ w.copy.hub \in Hubs
    BY <1>2, <1>3 DEF SteadyInv, RoleCurrent
  <2>2. w.copy.hub = h => r = role[h]
    BY <1>2, <2>1
  <2>3. QED BY <1>2, <2>1, <2>2
<1>7. RestKept'
  <2> SUFFICES ASSUME watching, ~ackEvent, NEW c \in Clusters, Rests(c)', Shown(c),
                      ~Outlived(c), c \notin untold'
               PROVE  Kept(c)'
    BY <1>1 DEF RestKept, Shown, worldVars
  <2>1. Rests(c)
    BY <1>2 DEF Rests
  <2>2. Kept(c)
    BY <2>1 DEF SteadyInv, RestKept
  <2>3. seen[c].hub # h
    BY <2>2
  <2>4. QED BY <1>2, <2>2, <2>3 DEF Kept, worldVars
<1>8. QED BY <1>1, <1>4, <1>5, <1>6, <1>7 DEF SteadyInv

\* A Role that is written keeps its other owners and has the issuer that was read.
LEMMA WantedFields ==
  ASSUME TypeOK, pc # "idle"
  PROVE  /\ Wanted(w.role).issuer = w.issuer /\ Wanted(w.role).kind = "managed"
         /\ Wanted(w.role).label = w.c /\ Wanted(w.role).owners[w.c] = w.copy.uid
         /\ \A c \in Clusters \ {w.c} : Wanted(w.role).owners[c] = w.role.owners[c]
<1>1. w.role \in Role /\ w.c \in Clusters
  BY DEF TypeOK, Local
<1> DEFINE o == [w.role.owners EXCEPT ![w.c] = w.copy.uid]
<1>2. o[w.c] = w.copy.uid /\ \A c \in Clusters \ {w.c} : o[c] = w.role.owners[c]
  BY <1>1 DEF Role
<1>3. Wanted(w.role) = [w.role EXCEPT !.kind = "managed", !.label = w.c, !.owners = o,
                                      !.issuer = w.issuer]
  BY DEF Wanted
<1> HIDE DEF o
<1>4. LET r == [w.role EXCEPT !.kind = "managed", !.label = w.c, !.owners = o,
                              !.issuer = w.issuer] IN
        r.kind = "managed" /\ r.label = w.c /\ r.issuer = w.issuer /\ r.owners = o
  BY <1>1 DEF Role
<1>5. QED BY <1>2, <1>3, <1>4

\* A reconciled Cluster has its Role with the present issuer; the others that share
\* the Role keep theirs.
LEMMA WriteRests ==
  ASSUME TypeInv, SteadyInv, [Next]_vars, WriteRole PROVE SteadyInv'
<1> DEFINE h == w.copy.hub
           r == Wanted(w.role)
<1>1. CASE ~(r = w.role \/ role[h] = w.role)
  BY <1>1, RetryRests DEF WriteRole
<1>2. CASE r = w.role \/ role[h] = w.role
  <2>1. /\ pc \in {"create", "update"} /\ UNCHANGED <<api, seen, worldVars, untold, events>>
        /\ Finish("steady")
        /\ IF r = w.role THEN UNCHANGED <<role, queued>> ELSE SetRole(h, r) /\ role[h] = w.role
    BY <1>2 DEF WriteRole
  <2>2. /\ role \in [Hubs -> Role] /\ h \in Hubs /\ w.c \in Clusters
        /\ timer \in [Clusters -> {"none", "retry", "refused", "steady"}]
        /\ seen \in [Clusters -> Cluster]
    BY <2>1 DEF TypeInv, TypeOK
  <2>3. /\ r.issuer = w.issuer /\ r.kind = "managed" /\ r.label = w.c
        /\ r.owners[w.c] = w.copy.uid
        /\ \A c \in Clusters \ {w.c} : r.owners[c] = w.role.owners[c]
    BY <2>1, WantedFields DEF TypeInv
  <2> HIDE DEF r, h
  <2>4. CacheBehind' /\ \A c \in Clusters : Outlived(c) <=> Outlived(c)'
    BY <2>1 DEF SteadyInv, CacheBehind, Outlived
  <2>5. pc' = "idle" /\ timer' = [timer EXCEPT ![w.c] = IF @ = "retry" THEN @ ELSE "steady"]
    BY <2>1 DEF Finish
  <2>6. CopyCurrent' /\ LabelMissing' /\ IssuerCurrent' /\ RoleCurrent'
    BY <2>5 DEF CopyCurrent, LabelMissing, IssuerCurrent, RoleCurrent
  <2>7. RestKept'
    <3> SUFFICES ASSUME watching, ~ackEvent, NEW c \in Clusters, Rests(c)', Shown(c),
                        ~Outlived(c), c \notin untold
                 PROVE  Kept(c)'
      BY <2>1, <2>4 DEF RestKept, Shown, worldVars
    <3>1. queued \subseteq queued' /\ c \notin queued /\ timer'[c] = "steady"
      BY <2>1 DEF Rests, SetRole
    <3>2. w.issuer = ack
      BY <2>1, <3>1 DEF SteadyInv, IssuerCurrent
    <3>3. CASE c = w.c
      <4>1. r = w.role
        <5> SUFFICES ASSUME r # w.role PROVE FALSE
          OBVIOUS
        <5>1. SetRole(h, r) /\ r # role[h]
          BY <2>1
        <5>2. w.c \in queued'
          BY <2>3, <5>1 DEF SetRole, Mapped
        <5>3. QED BY <3>3, <5>2 DEF Rests
      <4>2. role[h] = r /\ UNCHANGED role
        BY <2>1, <2>3, <3>1, <3>3, <4>1 DEF SteadyInv, RoleCurrent, h
      <4>3. w.copy = seen[c]
        BY <2>1, <3>1, <3>3 DEF SteadyInv, CopyCurrent
      <4>4. QED BY <2>1, <2>2, <2>3, <3>2, <3>3, <4>2, <4>3 DEF Kept, worldVars, h
    <3>4. CASE c # w.c
      <4>1. Rests(c) /\ Kept(c)
        BY <2>2, <2>5, <3>1, <3>4 DEF SteadyInv, RestKept, Rests
      <4>2. CASE UNCHANGED role
        BY <2>1, <4>1, <4>2 DEF Kept, worldVars
      <4>3. CASE SetRole(h, r) /\ role[h] = w.role
        <5>1. role' = [role EXCEPT ![h] = r]
          BY <4>3 DEF SetRole
        <5>2. CASE seen[c].hub = h
          BY <2>1, <2>2, <2>3, <3>2, <3>4, <4>1, <4>3, <5>1, <5>2 DEF Kept, worldVars
        <5>3. CASE seen[c].hub # h
          BY <2>1, <2>2, <4>1, <5>1, <5>3 DEF Kept, worldVars
        <5>4. QED BY <5>2, <5>3
      <4>4. QED BY <2>1, <4>2, <4>3
    <3>5. QED BY <3>3, <3>4
  <2>8. QED BY <2>4, <2>6, <2>7 DEF SteadyInv
<1>3. QED BY <1>1, <1>2

\* A Cluster that is shown and queued gets a run with the copy the cache shows.
LEMMA StartRests ==
  ASSUME TypeInv, SteadyInv, [Next]_vars, StartReconcile PROVE SteadyInv'
<1>1. PICK c \in queued :
        /\ queued' = queued \ {c}
        /\ IF seen[c].uid = 0 \/ seen[c].deleting \/ ~seen[c].enabled
           THEN UNCHANGED <<pc, w>>
           ELSE /\ w' = [NoLocal EXCEPT !.c = c, !.copy = seen[c]]
                /\ pc' = IF seen[c].named THEN "ack" ELSE "label"
  BY DEF StartReconcile
<1>2. LET n == [NoLocal EXCEPT !.c = c, !.copy = seen[c]] IN n.c = c /\ n.copy = seen[c]
  BY DEF NoLocal
<1>3. pc = "idle" /\ UNCHANGED <<api, seen, worldVars, role, timer, untold, events>>
  BY DEF StartReconcile
<1>4. queued \subseteq Clusters /\ seen \in [Clusters -> Cluster]
  BY DEF TypeInv, TypeOK
<1>5. CacheBehind' /\ \A d \in Clusters : Outlived(d) <=> Outlived(d)'
  BY <1>3 DEF SteadyInv, CacheBehind, Outlived
<1>6. seen[c].named \in BOOLEAN /\ seen[c].enabled \in BOOLEAN /\ seen[c].deleting \in BOOLEAN
  BY <1>4 DEF Cluster
<1>7. /\ pc' \in {"idle", "ack", "label"}
      /\ pc' # "idle" => w'.c = c /\ w'.copy = seen[c] /\ Shown(c)
      /\ pc' = "label" => ~seen[c].named
  BY <1>1, <1>2, <1>3, <1>6 DEF Shown
<1>8. CopyCurrent' /\ LabelMissing' /\ IssuerCurrent' /\ RoleCurrent'
  BY <1>3, <1>7 DEF CopyCurrent, LabelMissing, IssuerCurrent, RoleCurrent, Shown
<1>9. RestKept'
  <2> SUFFICES ASSUME watching, ~ackEvent, NEW d \in Clusters, Rests(d)', Shown(d), ~Outlived(d),
                      d \notin untold
               PROVE  Kept(d)'
    BY <1>3, <1>5 DEF RestKept, Shown, worldVars
  <2>1. d # c
    <3> SUFFICES ASSUME d = c PROVE FALSE
      OBVIOUS
    <3>1. pc' # "idle" /\ w'.c = c
      BY <1>1, <1>2, <1>6 DEF Shown
    <3>2. QED BY <3>1 DEF Rests
  <2>2. Rests(d)
    BY <1>1, <1>3, <2>1 DEF Rests
  <2>3. QED BY <1>3, <2>2 DEF SteadyInv, RestKept, Kept, worldVars
<1>10. QED BY <1>5, <1>8, <1>9 DEF SteadyInv

\* The label's patch returns a Cluster that the cache does not show yet.
LEMMA LabelRests ==
  ASSUME TypeInv, SteadyInv, [Next]_vars, EnsureLabel PROVE SteadyInv'
<1>1. pc = "label" /\ w.c \in Clusters /\ w \in Local /\ api \in [Clusters -> Cluster]
      /\ seen \in [Clusters -> Cluster]
  BY DEF EnsureLabel, TypeInv, TypeOK
<1>2. UNCHANGED <<seen, worldVars, role, queued, untold, events>>
  BY DEF EnsureLabel
<1>3. CASE api[w.c].uid = 0
  BY <1>1, <1>2, <1>3, RetryRests DEF EnsureLabel
<1>4. CASE api[w.c].uid # 0
  <2>1. /\ api' = [api EXCEPT ![w.c].named = TRUE] /\ pc' = "ack" /\ UNCHANGED timer
        /\ w' = [w EXCEPT !.copy = api'[w.c]]
    BY <1>4 DEF EnsureLabel
  <2>2. w'.c = w.c /\ api'[w.c].named /\ api'[w.c].uid = api[w.c].uid
    BY <1>1, <2>1 DEF Local, Cluster
  <2>3. CacheBehind' /\ \A c \in Clusters : Outlived(c) => Outlived(c)'
    BY <1>2, OutlivedStays DEF SteadyInv
  <2>4. w.c \notin queued => Shown(w.c) /\ Outlived(w.c)'
    <3> SUFFICES ASSUME w.c \notin queued PROVE Shown(w.c) /\ Outlived(w.c)'
      OBVIOUS
    <3>1. Shown(w.c) /\ (w.copy = seen[w.c] \/ Outlived(w.c))
      BY <1>1 DEF SteadyInv, CopyCurrent
    <3>2. ~w.copy.named
      BY <1>1 DEF SteadyInv, LabelMissing
    <3>3. CASE w.copy = seen[w.c]
      BY <1>2, <2>2, <3>1, <3>2, <3>3 DEF Outlived
    <3>4. CASE Outlived(w.c)
      BY <1>1, <2>2, <2>3, <3>1, <3>4 DEF Outlived
    <3>5. QED BY <3>1, <3>3, <3>4
  <2>5. CopyCurrent'
    BY <1>2, <2>2, <2>4 DEF CopyCurrent, Shown
  <2>6. LabelMissing' /\ IssuerCurrent' /\ RoleCurrent'
    BY <2>1 DEF LabelMissing, IssuerCurrent, RoleCurrent
  <2>7. \A c \in Clusters : Rests(c)' => Rests(c)
    BY <1>1, <1>2, <2>1, <2>2 DEF Rests
  <2>8. RestKept'
    BY <1>2, <2>3, <2>7 DEF SteadyInv, RestKept, Kept, Shown, worldVars
  <2>9. QED BY <2>3, <2>5, <2>6, <2>8 DEF SteadyInv
<1>5. QED BY <1>3, <1>4

\* The reads go on with what there is.
LEMMA ReadRests ==
  ASSUME TypeInv, SteadyInv, [Next]_vars, ReadACK \/ GetRole PROVE SteadyInv'
<1>1. w.c \in Clusters /\ w \in Local /\ pc \in {"ack", "role"}
      /\ UNCHANGED <<api, seen, worldVars, role, queued, events>>
      /\ untold \ {w.c} \subseteq untold'
  BY DEF ReadACK, GetRole, TypeInv, TypeOK
<1>2. CASE Finish("retry") \/ Finish("refused")
  BY <1>1, <1>2, RetryRests
<1>3. CASE ~(Finish("retry") \/ Finish("refused"))
  <2>1. /\ w'.c = w.c /\ w'.copy = w.copy /\ UNCHANGED timer
        /\ \/ pc' = "role" /\ w'.issuer = ack
           \/ /\ pc = "role" /\ pc' \in {"create", "update"} /\ w'.issuer = w.issuer
              /\ w'.role = role[w.copy.hub]
    <3>1. CASE ReadACK
      <4>1. w' = [w EXCEPT !.issuer = ack] /\ pc' = "role" /\ UNCHANGED timer
        BY <1>3, <3>1 DEF ReadACK
      <4>2. QED BY <1>1, <4>1 DEF Local
    <3>2. CASE GetRole
      <4>1. w' = [w EXCEPT !.role = role[w.copy.hub]] /\ pc' \in {"create", "update"}
            /\ pc = "role" /\ UNCHANGED timer
        BY <1>3, <3>2 DEF GetRole
      <4>2. QED BY <1>1, <4>1 DEF Local
    <3>3. QED BY <3>1, <3>2
  <2>2. CacheBehind' /\ \A c \in Clusters : Outlived(c) <=> Outlived(c)'
    BY <1>1 DEF SteadyInv, CacheBehind, Outlived
  <2>3. CopyCurrent'
    BY <1>1, <2>1, <2>2 DEF SteadyInv, CopyCurrent, Shown
  <2>4. LabelMissing' /\ RoleCurrent'
    BY <1>1, <2>1 DEF LabelMissing, RoleCurrent
  <2>5. IssuerCurrent'
    BY <1>1, <2>1 DEF SteadyInv, IssuerCurrent, Shown, worldVars
  <2>6. \A c \in Clusters : Rests(c)' => Rests(c) /\ c # w.c
    BY <1>1, <2>1 DEF Rests
  <2>7. RestKept'
    BY <1>1, <2>2, <2>6 DEF SteadyInv, RestKept, Kept, Shown, worldVars
  <2>8. QED BY <2>2, <2>3, <2>4, <2>5, <2>7 DEF SteadyInv
<1>4. QED BY <1>2, <1>3

\* What the cache learns about a Cluster enqueues it; a restart enqueues all.
LEMMA CacheRests ==
  ASSUME TypeInv, SteadyInv, [Next]_vars, CacheAdvance PROVE SteadyInv'
<1>1. PICK c \in Clusters : seen' = [seen EXCEPT ![c] = api[c]] /\ queued' = queued \cup {c}
  BY DEF CacheAdvance
<1>2. UNCHANGED <<api, worldVars, role, timer, pc, w, untold, events>>
  BY DEF CacheAdvance
<1>3. seen \in [Clusters -> Cluster] /\ api \in [Clusters -> Cluster]
  BY DEF TypeInv, TypeOK
<1>4. \A d \in Clusters \ {c} : seen'[d] = seen[d]
  BY <1>1, <1>3
<1>5. seen'[c] = api[c] /\ api[c].uid \in Nat
  BY <1>1, <1>3 DEF Cluster
<1>6. CacheBehind'
  BY <1>2, <1>4, <1>5 DEF SteadyInv, CacheBehind
<1>7. CopyCurrent'
  <2> SUFFICES ASSUME pc # "idle", w.c \notin queued'
               PROVE  /\ Shown(w.c)'
                      /\ w.copy = seen'[w.c] \/ Outlived(w.c)'
    BY <1>2 DEF CopyCurrent
  <2>1. w.c \in Clusters \ {c} /\ w.c \notin queued
    BY <1>1 DEF TypeInv, TypeOK
  <2>2. QED BY <1>2, <1>4, <2>1 DEF SteadyInv, CopyCurrent, Shown, Outlived
<1>8. LabelMissing' /\ RoleCurrent'
  BY <1>1, <1>2 DEF SteadyInv, LabelMissing, RoleCurrent, worldVars
<1>9. IssuerCurrent'
  BY <1>1, <1>2, <1>4 DEF SteadyInv, IssuerCurrent, Shown, worldVars
<1>10. RestKept'
  <2> SUFFICES ASSUME watching, ~ackEvent, NEW d \in Clusters, Rests(d)', Shown(d)', ~Outlived(d)',
                      d \notin untold
               PROVE  Kept(d)'
    BY <1>2 DEF RestKept, worldVars
  <2>1. d # c /\ Rests(d)
    BY <1>1, <1>2 DEF Rests
  <2>2. seen'[d] = seen[d]
    BY <1>4, <2>1
  <2>3. Shown(d) /\ ~Outlived(d)
    BY <1>2, <2>2 DEF Shown, Outlived
  <2>4. QED BY <1>2, <2>1, <2>2, <2>3 DEF SteadyInv, RestKept, Kept, worldVars
<1>11. QED BY <1>6, <1>7, <1>8, <1>9, <1>10 DEF SteadyInv

LEMMA SteadyStep ==
  ASSUME TypeInv, SteadyInv, [Next]_vars PROVE SteadyInv'
<1>1. CASE CallFails
  <2>1. pc # "idle" /\ Finish("retry") /\ UNCHANGED <<seen, worldVars, role, queued, untold>>
    BY <1>1 DEF CallFails
  <2>2. QED BY <2>1, RetryRests
<1>2. CASE Restart
  <2>1. CacheBehind'
    BY <1>2 DEF Restart, SteadyInv, CacheBehind, TypeInv, TypeOK, Cluster
  <2>2. CopyCurrent' /\ LabelMissing' /\ IssuerCurrent' /\ RoleCurrent' /\ RestKept'
    BY <1>2 DEF Restart, CopyCurrent, LabelMissing, IssuerCurrent, RoleCurrent, RestKept, Rests
  <2>3. QED BY <2>1, <2>2 DEF SteadyInv
<1>3. CASE MapACKEvent
  <2>1. /\ UNCHANGED <<api, seen, ack, apis, watching, role, timer, pc, w, untold, events>>
        /\ queued \subseteq queued' /\ \A c \in Clusters : Shown(c) => c \in queued'
    BY <1>3 DEF MapACKEvent, Shown
  <2>2. CacheBehind' /\ LabelMissing'
    BY <2>1 DEF SteadyInv, CacheBehind, LabelMissing
  <2>3. CopyCurrent' /\ RoleCurrent'
    BY <2>1 DEF SteadyInv, CopyCurrent, RoleCurrent, Shown, Outlived
  <2>4. IssuerCurrent' /\ RestKept'
    BY <2>1 DEF IssuerCurrent, RestKept, Rests, Shown
  <2>5. QED BY <2>2, <2>3, <2>4 DEF SteadyInv
<1>4. CASE TimerFires
  <2>1. timer \in [Clusters -> {"none", "retry", "refused", "steady"}]
    BY DEF TypeInv, TypeOK
  <2>2. /\ queued \subseteq queued' /\ UNCHANGED <<seen, worldVars, role, pc, w, untold>>
        /\ \A c \in Clusters : timer'[c] = timer[c] \/ timer'[c] = "none"
    BY <1>4, <2>1 DEF TimerFires
  <2>3. QED BY <2>2, QueueingRests
<1>5. CASE CollectGarbage
  <2>1. PICK h \in Hubs :
          /\ \A c \in Clusters : Dangling(role[h], c) \/ role[h].owners[c] = 0
          /\ SetRole(h, NoRole)
    BY <1>5 DEF CollectGarbage
  <2>2. ASSUME NEW c \in Clusters, Shown(c), ~Outlived(c), Kept(c)
        PROVE  seen[c].hub # h
    BY <2>1, <2>2 DEF Shown, Outlived, Kept, Dangling
  <2>3. NoRole \in Role /\ NoRole.kind # "managed"
    BY NewTypes
  <2>4. UNCHANGED <<api, seen, worldVars, timer, pc, w, untold>>
    BY <1>5 DEF CollectGarbage
  <2>5. QED BY <2>1, <2>2, <2>3, <2>4, OthersRest
<1>6. CASE UserActs
  <2>1. PICK h \in Hubs :
          \/ /\ role[h].kind = "absent" /\ UNCHANGED untold
             /\ SetRole(h, [NoRole EXCEPT !.kind = "foreign"])
          \/ role[h].kind = "managed" /\ TakeAway(h, [role[h] EXCEPT !.kind = "foreign"])
          \/ TakeAway(h, NoRole)
    BY <1>6 DEF UserActs
  <2>2. UNCHANGED <<api, seen, worldVars, timer, pc, w>>
    BY <1>6 DEF UserActs
  <2>3. role[h] \in Role
    BY DEF TypeInv, TypeOK
  <2>4. ASSUME NEW r \in Role
        PROVE  LET n == [r EXCEPT !.kind = "foreign"] IN n \in Role /\ n.kind = "foreign"
    BY DEF Role
  <2>5. NoRole \in Role /\ NoRole.kind = "absent"
    BY NewTypes
  <2>6. CASE role[h].kind = "absent" /\ SetRole(h, [NoRole EXCEPT !.kind = "foreign"])
             /\ UNCHANGED untold
    <3>1. \A c \in Clusters : Kept(c) => seen[c].hub # h
      BY <2>6 DEF Kept
    <3>2. QED BY <2>2, <2>4, <2>5, <2>6, <3>1, OthersRest
  <2>7. ASSUME NEW r \in Role, TakeAway(h, r), r.kind # "managed"
        PROVE  SteadyInv'
    <3>1. SetRole(h, r) /\ untold \subseteq untold'
      BY <2>7 DEF TakeAway
    <3>2. role[h].kind = "managed" /\ watching => role[h].label \in queued'
      BY <2>7, <3>1 DEF SetRole, Mapped
    <3>3. ASSUME NEW c \in Clusters, Rests(c)', Shown(c), Kept(c), seen[c].hub = h, watching
          PROVE  c \in untold'
      <4>1. role[h].owners[c] # 0
        BY <3>3 DEF Shown, Kept
      <4>2. role[h].kind = "managed" => role[h].label # c
        BY <3>2, <3>3 DEF Rests
      <4>3. QED BY <2>7, <4>1, <4>2 DEF TakeAway
    <3>4. QED BY <2>2, <2>7, <3>1, <3>3, OthersRest
  <2>8. CASE role[h].kind = "managed" /\ TakeAway(h, [role[h] EXCEPT !.kind = "foreign"])
    <3> DEFINE r == [role[h] EXCEPT !.kind = "foreign"]
    <3>1. r \in Role /\ r.kind = "foreign" /\ TakeAway(h, r)
      BY <2>3, <2>4, <2>8
    <3> HIDE DEF r
    <3>2. QED BY <2>7, <3>1
  <2>9. CASE TakeAway(h, NoRole)
    BY <2>5, <2>7, <2>9
  <2>10. QED BY <2>1, <2>6, <2>8, <2>9
<1>7. CASE EditCluster \/ ReplaceCluster
  <2>1. UNCHANGED <<seen, worldVars, role, queued, timer, pc, w, untold>>
    BY <1>7 DEF EditCluster, ReplaceCluster
  <2>2. QED BY <2>1, QueueingRests
<1>8. CASE WorldChanges
  <2>1. /\ UNCHANGED <<api, seen, watching, role, queued, timer, pc, w, untold>>
        /\ watching /\ ~ackEvent' => UNCHANGED <<ack, ackEvent>>
    BY <1>8 DEF WorldChanges, TypeInv, TypeOK
  <2>2. CacheBehind' /\ LabelMissing' /\ CopyCurrent' /\ RoleCurrent'
    BY <2>1 DEF SteadyInv, CacheBehind, LabelMissing, CopyCurrent, RoleCurrent, Shown, Outlived
  <2>3. IssuerCurrent'
    BY <2>1 DEF SteadyInv, IssuerCurrent, Shown
  <2>4. RestKept'
    BY <2>1 DEF SteadyInv, RestKept, Rests, Shown, Outlived, Kept
  <2>5. QED BY <2>2, <2>3, <2>4 DEF SteadyInv
<1>9. CASE UNCHANGED vars
  <2>1. /\ queued \subseteq queued' /\ UNCHANGED <<seen, worldVars, role, pc, w, untold>>
        /\ \A c \in Clusters : timer'[c] = timer[c] \/ timer'[c] = "none"
    BY <1>9 DEF vars, worldVars
  <2>2. QED BY <2>1, QueueingRests
<1>10. QED
  BY <1>1, <1>2, <1>3, <1>4, <1>5, <1>6, <1>7, <1>8, <1>9, StartRests, LabelRests, ReadRests,
     WriteRests, CacheRests DEF Next, Worker, Environment

\* With the watches in place a Cluster for which nothing but the long wait is
\* ahead has its Role, with the present issuer: the Role's and the ACK cluster's
\* events reach it, although they are mapped through a cache that is behind, and
\* through a label that the Clusters of one EKS cluster overwrite in turn.  Not so
\* a Cluster whose Role users took away when the label did not name it.
THEOREM SteadyProvisioned == Spec => []SteadyIsProvisioned
<1>1. Init => SteadyInv
  <2> SUFFICES ASSUME Init PROVE SteadyInv
    OBVIOUS
  <2>1. \A c \in Clusters : api[c] = seen[c] /\ seen[c].uid = 1 /\ ~api[c].deleting
    BY DEF Init, NewCluster, Cluster
  <2>2. CacheBehind
    BY <2>1 DEF CacheBehind
  <2>3. CopyCurrent /\ LabelMissing /\ IssuerCurrent /\ RoleCurrent /\ RestKept
    BY DEF Init, CopyCurrent, LabelMissing, IssuerCurrent, RoleCurrent, RestKept, Rests
  <2>4. QED BY <2>2, <2>3 DEF SteadyInv
<1>2. TypeInv /\ SteadyInv /\ [Next]_vars => SteadyInv'
  BY SteadyStep
<1>3. TypeInv /\ SteadyInv => SteadyIsProvisioned
  <2> SUFFICES ASSUME TypeInv, SteadyInv, watching, NEW c \in Clusters, Wants(c), Steady(c),
                      c \notin untold
               PROVE  Provisioned(c)
    BY DEF SteadyIsProvisioned
  <2>1. seen[c] = api[c] /\ Rests(c) /\ ~ackEvent
    BY DEF Steady, Rests
  <2>2. Shown(c) /\ ~Outlived(c)
    BY <2>1 DEF Wants, Shown, Outlived
  <2>3. Kept(c)
    BY <2>1, <2>2 DEF SteadyInv, RestKept
  <2>4. role[api[c].hub] \in Role
    BY DEF Wants, TypeInv, TypeOK
  <2>5. QED BY <2>1, <2>3, <2>4 DEF Kept, Provisioned, Role
<1>4. QED BY <1>1, <1>2, <1>3, TypeInvariant, PTL DEF Spec
=============================================================================
