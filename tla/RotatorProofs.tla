---------------------------- MODULE RotatorProofs ---------------------------
(***************************************************************************)
(* The kubeconfig token never expires, for every requeue policy and every  *)
(* token life that leave room for the failures considered; and the dedupe  *)
(* cache never makes the rotator's events misleading, whatever its TTL and *)
(* its limit, the other Clusters, and the times of the runs.               *)
(***************************************************************************)
EXTENDS RotatorEvents, FiniteSetTheorems, TLAPS

Kept == kept /\ secret["probe"].kind = "managed"

\* The worker has written the probe Secret in this run.
Wrote == pc = "done" \/ (pc \in {"get", "write"} /\ w.name = "exec")

\* A request in the queue has not been waiting for longer than Delay.
QueueInv ==
  /\ armed => now <= due + Delay
  /\ pc # "idle" => armed /\ due <= now

\* The token at hand was generated after the request was due; what the worker
\* read is what is there, or a user replaced it and there is time to retry; once
\* written, the Secret holds this token.
WorkerInv ==
  /\ pc = "token" => w.name = "probe"
  /\ pc \in {"get", "write", "done"} => due + Life <= w.exp
  /\ pc = "write" => \/ secret[w.name] = w.got
                     \/ secret[w.name].kind # "managed" /\ CanFail
  /\ Wrote => kept /\ (secret["probe"].kind = "managed" => secret["probe"].exp = w.exp)

\* The next run is due early enough for what failures may still cost.
MarginInv ==
  /\ 0 <= lost /\ lost <= MaxLost
  /\ Kept => armed /\ due + MaxLost + Delay < secret["probe"].exp + lost

RotatorInv == TypeOK /\ QueueInv /\ WorkerInv /\ MarginInv

-----------------------------------------------------------------------------

\* WithDefaults makes every duration of the policy positive, so that no
\* RequeueAfter of the code asks for no requeue.
LEMMA PolicyPositive ==
  /\ P.refreshBefore \in Nat \ {0} /\ P.maxRefresh \in Nat \ {0}
  /\ P.failureBackoff \in Nat \ {0} /\ P.immediateRequeue \in Nat \ {0}
BY ConstantsAssumption DEF P, WithDefaults, PolicyOf

\* Between two runs the worker has no Secret at hand.
LEMMA NoLocalType == NoLocal \in Local /\ NoLocal.name = "probe"
BY DEF NoLocal, Local, Names, Secret, Absent

\* ComputeNextRequeue is positive, and does not sleep past RefreshBefore unless
\* only ImmediateRequeue is left.
LEMMA RequeueBounds ==
  ASSUME NEW t \in Int, NEW e \in Int
  PROVE  /\ ComputeNextRequeue(t, e) \in Int
         /\ ComputeNextRequeue(t, e) > 0
         /\ \/ ComputeNextRequeue(t, e) = P.immediateRequeue
            \/ t + ComputeNextRequeue(t, e) <= e - P.refreshBefore
BY PolicyPositive DEF ComputeNextRequeue

\* The first run is due at once and no token is kept yet.
LEMMA InitInv == Init => RotatorInv
<1> SUFFICES ASSUME Init PROVE RotatorInv
  OBVIOUS
<1>1. {Absent, Foreign} \subseteq Secret
  BY DEF Absent, Foreign, Secret
<1>2. secret \in [Names -> Secret] /\ MaxEnv \in 0..MaxEnv
  BY <1>1, ConstantsAssumption DEF Init
<1>3. now \in Nat /\ due \in Nat /\ lost \in Int /\ env \in 0..MaxEnv
  BY <1>2 DEF Init
<1>4. armed \in BOOLEAN /\ kept \in BOOLEAN /\ enabled \in BOOLEAN /\ w \in Local
      /\ pc \in {"idle", "token", "get", "write", "done"} /\ takeover \in BOOLEAN
  BY NoLocalType, Zenon DEF Init
<1>5. TypeOK
  BY <1>2, <1>3, <1>4 DEF TypeOK
<1> QED
  BY <1>5, ConstantsAssumption DEF Init, RotatorInv, QueueInv, WorkerInv, MarginInv, Kept, Wrote

\* A run that fails is retried within Cost of the time it was due.
LEMMA FailedInv ==
  ASSUME RotatorInv, pc # "idle", CanFail, UNCHANGED <<now, enabled, takeover, secret, kept, env>>,
         NEW d \in 1..P.failureBackoff, Failed(d)
  PROVE  RotatorInv'
<1>1. /\ pc' = "idle" /\ w' = NoLocal /\ armed' = TRUE /\ due' = now + d
      /\ lost' = IF kept THEN lost + Cost ELSE lost
  BY PolicyPositive DEF Failed, Requeue
<1>2. now <= due + Delay
  BY DEF RotatorInv, QueueInv
<1>3. Cost \in Nat /\ Cost = Delay + P.failureBackoff /\ d \in Nat /\ d > 0 /\ d <= P.failureBackoff
  BY PolicyPositive, ConstantsAssumption DEF Cost
<1>4. TypeOK /\ now \in Nat /\ due \in Nat /\ lost \in Int /\ secret["probe"].exp \in Nat
  BY DEF RotatorInv, TypeOK, Secret, Names
<1>5. TypeOK'
  BY <1>1, <1>3, <1>4, NoLocalType DEF TypeOK
<1>6. QueueInv'
  BY <1>1, <1>3, <1>4, ConstantsAssumption DEF QueueInv
<1>7. WorkerInv'
  BY <1>1 DEF WorkerInv, Wrote
<1>8. MarginInv'
  <2>1. CASE kept
    <3>1. lost' = lost + Cost /\ lost + Cost <= MaxLost
      BY <1>1, <2>1 DEF CanFail
    <3>2. now + d + MaxLost + Delay <= due + MaxLost + Delay + Cost
      BY <1>2, <1>3, <1>4, ConstantsAssumption, PolicyPositive
    <3>3. Kept' <=> Kept
      BY DEF Kept
    <3> QED
      BY <1>1, <1>3, <1>4, <3>1, <3>2, <3>3, ConstantsAssumption DEF RotatorInv, MarginInv
  <2>2. CASE ~kept
    BY <1>1, <2>2 DEF RotatorInv, MarginInv, Kept
  <2> QED
    BY <2>1, <2>2
<1> QED
  BY <1>5, <1>6, <1>7, <1>8 DEF RotatorInv

\* A run that starts is not late; one that finds the rotator off gives the token up.
LEMMA StartInv == RotatorInv /\ StartReconcile => RotatorInv'
<1> SUFFICES ASSUME RotatorInv, StartReconcile PROVE RotatorInv'
  OBVIOUS
<1> DEFINE l == [NoLocal EXCEPT !.takeover = takeover]
<1>1. l \in Local /\ l.name = "probe"
  BY NoLocalType DEF RotatorInv, TypeOK, Local
<1>2. \/ pc' = "token" /\ w' = l /\ UNCHANGED <<armed, kept>>
      \/ armed' = FALSE /\ kept' = FALSE /\ UNCHANGED <<pc, w>>
  BY DEF StartReconcile
<1>3. pc = "idle" /\ armed /\ due <= now
      /\ UNCHANGED <<now, due, enabled, takeover, secret, lost, env>>
  BY DEF StartReconcile
<1> HIDE DEF l
<1>4. TypeOK'
  BY <1>1, <1>2, <1>3 DEF RotatorInv, TypeOK
<1>5. WorkerInv'
  BY <1>1, <1>2, <1>3 DEF WorkerInv, Wrote
<1>6. QueueInv'
  BY <1>2, <1>3 DEF RotatorInv, QueueInv
<1>7. Kept' => Kept /\ armed'
  BY <1>2, <1>3 DEF Kept
<1>8. MarginInv'
  BY <1>3, <1>7 DEF RotatorInv, MarginInv
<1> QED
  BY <1>4, <1>5, <1>6, <1>8 DEF RotatorInv

\* A new token lives at least from the time the run was due.
LEMMA TokenInv == RotatorInv /\ GenerateToken => RotatorInv'
<1> SUFFICES ASSUME RotatorInv, GenerateToken PROVE RotatorInv'
  OBVIOUS
<1>1. /\ w' \in Local /\ w'.exp = now + Life /\ w'.name = w.name
  BY ConstantsAssumption DEF GenerateToken, RotatorInv, TypeOK, Local
<1>2. now \in Nat /\ due \in Nat /\ due <= now /\ armed
  BY DEF GenerateToken, RotatorInv, TypeOK, QueueInv
<1>3. pc = "token" /\ pc' = "get"
      /\ UNCHANGED <<now, armed, due, enabled, takeover, secret, kept, lost, env>>
  BY DEF GenerateToken
<1>4. w.name = "probe"
  BY DEF GenerateToken, RotatorInv, WorkerInv
<1>5. TypeOK'
  BY <1>1, <1>3 DEF RotatorInv, TypeOK
<1>6. WorkerInv'
  BY <1>1, <1>2, <1>3, <1>4, ConstantsAssumption DEF WorkerInv, Wrote
<1> QED
  BY <1>3, <1>5, <1>6 DEF RotatorInv, QueueInv, MarginInv, Kept

\* A foreign Secret ends the keeping; any other is the one the write will replace.
LEMMA GetInv == RotatorInv /\ GetSecret => RotatorInv'
<1> SUFFICES ASSUME RotatorInv, GetSecret PROVE RotatorInv'
  OBVIOUS
<1> USE DEF RotatorInv, QueueInv, WorkerInv, MarginInv, Kept, Wrote
<1>1. CASE secret[w.name].kind = "foreign" /\ ~w.takeover /\ w.name = "probe"
  <2>1. /\ Requeue(P.maxRefresh) /\ kept' = FALSE
        /\ UNCHANGED <<now, enabled, takeover, secret, lost, env>>
    BY <1>1 DEF GetSecret
  <2>2. pc' = "idle" /\ w' = NoLocal /\ armed' = TRUE /\ due' = now + P.maxRefresh
    BY <2>1, PolicyPositive DEF Requeue
  <2>3. TypeOK'
    <3>1. now + P.maxRefresh \in Nat
      BY PolicyPositive DEF TypeOK
    <3> QED
      BY <2>1, <2>2, <3>1, NoLocalType DEF TypeOK
  <2>4. QueueInv'
    BY <2>1, <2>2, PolicyPositive, ConstantsAssumption DEF TypeOK
  <2> QED
    BY <2>1, <2>2, <2>3, <2>4
<1>2. CASE secret[w.name].kind = "foreign" /\ ~w.takeover /\ w.name # "probe"
  <2>1. /\ pc = "get" /\ pc' = "done"
        /\ UNCHANGED <<w, armed, due, kept, now, enabled, takeover, secret, lost, env>>
    BY <1>2 DEF GetSecret
  <2>2. w.name = "exec"
    BY <1>2 DEF TypeOK, Local, Names
  <2>3. TypeOK'
    BY <2>1 DEF TypeOK
  <2> QED
    BY <2>1, <2>2, <2>3
<1>3. CASE ~(secret[w.name].kind = "foreign" /\ ~w.takeover)
  <2>1. /\ w' = [w EXCEPT !.got = secret[w.name]] /\ pc = "get" /\ pc' = "write"
        /\ UNCHANGED <<armed, due, kept, now, enabled, takeover, secret, lost, env>>
    BY <1>3 DEF GetSecret
  <2>2. w' \in Local /\ w'.name = w.name /\ w'.exp = w.exp /\ w'.got = secret[w.name]
    BY <2>1 DEF TypeOK, Local
  <2>3. TypeOK'
    BY <2>1, <2>2 DEF TypeOK
  <2> QED
    BY <2>1, <2>2, <2>3
<1> QED
  BY <1>1, <1>2, <1>3

\* The write puts this run's token into the Secret or fails on a user's change.
LEMMA WriteInv == RotatorInv /\ WriteSecret => RotatorInv'
<1> SUFFICES ASSUME RotatorInv, WriteSecret PROVE RotatorInv'
  OBVIOUS
<1>1. CASE w.got = Wanted \/ secret[w.name] = w.got
  <2>1. /\ pc = "write" /\ NextSecret
        /\ UNCHANGED <<armed, due, lost, now, enabled, takeover, env>>
        /\ \/ secret' = [secret EXCEPT ![w.name] = Wanted]
           \/ w.got = Wanted /\ secret' = secret
    BY <1>1 DEF WriteSecret
  <2>2. Wanted \in Secret /\ Wanted.kind = "managed"
        /\ (w.name = "probe" => Wanted.exp = w.exp)
    BY DEF Wanted, Secret, RotatorInv, TypeOK, Local
  <2>3. P.immediateRequeue > 0 /\ P.immediateRequeue \in Int
    BY PolicyPositive
  <2>4. CASE w.name = "probe"
    <3>1. /\ pc' = "get" /\ w' = [w EXCEPT !.name = "exec"] /\ kept' = TRUE
      BY <2>1, <2>4 DEF NextSecret
    <3>2. secret'["probe"].kind = "managed" => secret'["probe"].exp = w.exp
      BY <2>1, <2>2, <2>4 DEF RotatorInv, WorkerInv, TypeOK, Names, Secret
    <3>3. w.exp \in Nat /\ w'.exp = w.exp /\ w'.name = "exec" /\ w' \in Local
      BY <3>1 DEF RotatorInv, TypeOK, Local, Names
    <3>4. TypeOK'
      BY <2>1, <2>2, <3>1, <3>3 DEF RotatorInv, TypeOK, Names
    <3>5. due + Life <= w.exp /\ armed /\ due \in Nat
      BY <2>1 DEF RotatorInv, WorkerInv, QueueInv, TypeOK
    <3>6. WorkerInv'
      BY <2>1, <3>1, <3>2, <3>3, <3>5 DEF WorkerInv, Wrote
    <3>7. MarginInv'
      BY <2>1, <2>3, <3>1, <3>2, <3>3, <3>5, ConstantsAssumption, PolicyAssumption
         DEF RotatorInv, MarginInv, Kept, TypeOK
    <3> QED
      BY <2>1, <3>1, <3>4, <3>6, <3>7 DEF RotatorInv, QueueInv
  <2>5. CASE w.name = "exec"
    <3>1. pc' = "done" /\ UNCHANGED <<w, kept>> /\ secret'["probe"] = secret["probe"]
      BY <2>1, <2>5 DEF NextSecret, RotatorInv, TypeOK, Names
    <3>2. TypeOK'
      BY <2>1, <2>2, <3>1 DEF RotatorInv, TypeOK, Names
    <3> QED
      BY <2>1, <2>5, <3>1, <3>2
         DEF RotatorInv, QueueInv, WorkerInv, MarginInv, Kept, Wrote
  <2> QED
    BY <2>4, <2>5 DEF RotatorInv, TypeOK, Local, Names
<1>2. CASE ~(w.got = Wanted \/ secret[w.name] = w.got)
  <2>1. PICK d \in 1..P.failureBackoff : Failed(d)
    BY <1>2 DEF WriteSecret
  <2>2. CanFail /\ pc # "idle"
    BY <1>2 DEF WriteSecret, RotatorInv, WorkerInv
  <2>3. UNCHANGED <<now, enabled, takeover, secret, kept, env>>
    BY <1>2 DEF WriteSecret
  <2> QED
    BY <2>1, <2>2, <2>3, FailedInv
<1> QED
  BY <1>1, <1>2

\* The requeue that a good run computes leaves the margin for the failures to come.
LEMMA FinishInv == RotatorInv /\ Finish => RotatorInv'
<1> SUFFICES ASSUME RotatorInv, Finish PROVE RotatorInv'
  OBVIOUS
<1> DEFINE r == ComputeNextRequeue(now, w.exp)
<1>1. now \in Nat /\ due \in Nat /\ w.exp \in Nat /\ lost \in Int
  BY DEF RotatorInv, TypeOK, Local
<1>2. /\ r \in Int /\ r > 0
      /\ \/ r = P.immediateRequeue
         \/ now + r <= w.exp - P.refreshBefore
  <2>1. now \in Int /\ w.exp \in Int
    BY <1>1
  <2> QED
    BY <2>1, RequeueBounds, Zenon
<1> HIDE DEF r
<1>3. /\ pc' = "idle" /\ w' = NoLocal /\ armed' = TRUE /\ due' = now + r /\ lost' = 0
      /\ UNCHANGED <<now, enabled, takeover, secret, kept, env>>
  BY <1>2 DEF Finish, Requeue, r
<1>4. pc = "done" /\ now <= due + Delay /\ due + Life <= w.exp
  BY DEF Finish, RotatorInv, QueueInv, WorkerInv
<1>5. TypeOK'
  BY <1>1, <1>2, <1>3, NoLocalType DEF RotatorInv, TypeOK
<1>6. QueueInv'
  BY <1>1, <1>2, <1>3, ConstantsAssumption DEF QueueInv
<1>7. WorkerInv'
  BY <1>3 DEF WorkerInv, Wrote
<1>8. now + r + MaxLost + Delay < w.exp
  BY <1>1, <1>2, <1>4, PolicyPositive, ConstantsAssumption, PolicyAssumption
<1>9. MarginInv'
  BY <1>1, <1>2, <1>3, <1>4, <1>8, ConstantsAssumption
     DEF RotatorInv, WorkerInv, MarginInv, Kept, Wrote
<1> QED
  BY <1>5, <1>6, <1>7, <1>9 DEF RotatorInv

\* Time does not pass by a request that is due.
LEMMA TickInv == RotatorInv /\ Tick => RotatorInv'
BY ConstantsAssumption
   DEF Tick, RotatorInv, TypeOK, QueueInv, WorkerInv, MarginInv, Kept, Wrote, CanFail

\* An event only makes the next run come earlier.
LEMMA EventInv == RotatorInv /\ Event => RotatorInv'
BY ConstantsAssumption
   DEF Event, RotatorInv, TypeOK, QueueInv, WorkerInv, MarginInv, Kept, Wrote, CanFail, Secret, Names

\* Users change a kept Secret only while there is time to retry the write.
LEMMA UserInv == RotatorInv /\ UserActs => RotatorInv'
<1> SUFFICES ASSUME RotatorInv, UserActs PROVE RotatorInv'
  OBVIOUS
<1>1. env' \in 0..MaxEnv
  BY ConstantsAssumption DEF UserActs, RotatorInv, TypeOK
<1>2. CASE UNCHANGED secret
  BY <1>1, <1>2
     DEF UserActs, RotatorInv, TypeOK, QueueInv, WorkerInv, MarginInv, Kept, Wrote, CanFail
<1>3. CASE secret' # secret
  <2>1. CanFail /\ \E n \in Names, s \in {Absent, Foreign} : secret' = [secret EXCEPT ![n] = s]
    BY <1>3 DEF UserActs
  <2>2. PICK n \in Names, s \in {Absent, Foreign} : secret' = [secret EXCEPT ![n] = s]
    BY <2>1
  <2>3. s \in Secret /\ s.kind # "managed"
    BY DEF Absent, Foreign, Secret
  <2>4. UNCHANGED <<now, armed, due, pc, w, kept, lost, enabled, takeover>>
    BY <1>3 DEF UserActs
  <2>5. TypeOK' /\ \A m \in Names : secret'[m] = secret[m] \/ secret'[m].kind # "managed"
    BY <1>1, <2>2, <2>3, <2>4 DEF RotatorInv, TypeOK
  <2>6. "probe" \in Names /\ w.name \in Names
    BY DEF RotatorInv, TypeOK, Local, Names
  <2> QED
    BY <2>1, <2>4, <2>5, <2>6
       DEF RotatorInv, QueueInv, WorkerInv, MarginInv, Kept, Wrote, CanFail
<1> QED
  BY <1>2, <1>3

\* The step of the induction, one case per action.
LEMMA NextInv == RotatorInv /\ [Next]_vars => RotatorInv'
<1> SUFFICES ASSUME RotatorInv, [Next]_vars PROVE RotatorInv'
  OBVIOUS
<1>1. CASE NotReady
  <2>1. P.failureBackoff \in 1..P.failureBackoff
    BY PolicyPositive
  <2> QED
    BY <1>1, <2>1, FailedInv DEF NotReady
<1>2. CASE CallFails
  <2>1. PICK d \in 1..P.failureBackoff : Failed(d)
    BY <1>2 DEF CallFails
  <2> QED
    BY <1>2, <2>1, FailedInv DEF CallFails
<1>3. CASE UNCHANGED vars
  BY <1>3 DEF vars, RotatorInv, TypeOK, QueueInv, WorkerInv, MarginInv, Kept, Wrote, CanFail
<1> QED
  BY <1>1, <1>2, <1>3, StartInv, TokenInv, GetInv, WriteInv, FinishInv, TickInv, EventInv,
     UserInv DEF Next, Worker

\* The queue, the worker and the margin agree in every reachable state, whatever
\* the policy: the invariant that TokenIsFresh and the theorems below rest on.
THEOREM Invariance == Spec => []RotatorInv
<1>1. RotatorInv /\ [Next]_vars => RotatorInv'
  BY NextInv
<1> QED
  BY InitInv, <1>1, PTL DEF Spec

\* The rotator refreshes the token in the <cluster>-kubeconfig Secret before it
\* expires: for every policy, once defaulted, and every token life in which
\* RefreshBefore, or what is left after ImmediateRequeue, exceeds the time that
\* failing runs lose plus one slow run.
THEOREM TokenIsFresh == Spec => []TokenNeverExpires
<1>1. RotatorInv => TokenNeverExpires
  BY ConstantsAssumption
     DEF RotatorInv, TypeOK, QueueInv, MarginInv, Kept, TokenNeverExpires, Secret, Names
<1> QED
  BY <1>1, Invariance, PTL

\* The variables keep their types: the numbers stay numbers although a token's
\* life, the clock and the policy are not bounded.
THEOREM TypeCorrect == Spec => []TypeOK
<1>1. RotatorInv => TypeOK
  BY DEF RotatorInv
<1> QED
  BY <1>1, Invariance, PTL

-----------------------------------------------------------------------------
(* Ownership and requeues *)

\* A foreign Secret gets as far as the write only with the takeover annotation.
ReadInv == pc = "write" /\ w.got.kind = "foreign" => w.takeover

\* GetSecret is the only step that puts a Secret into the worker's hands.
LEMMA ReadStep == RotatorInv /\ ReadInv /\ [Next]_vars => ReadInv'
<1> SUFFICES ASSUME RotatorInv, ReadInv, [Next]_vars PROVE ReadInv'
  OBVIOUS
<1>1. CASE StartReconcile
  BY <1>1 DEF StartReconcile, ReadInv
<1>2. CASE NotReady
  BY <1>2 DEF NotReady, Failed, Requeue, ReadInv
<1>3. CASE GenerateToken
  BY <1>3 DEF GenerateToken, ReadInv
<1>4. CASE GetSecret
  BY <1>4 DEF GetSecret, Requeue, ReadInv, RotatorInv, TypeOK, Local
<1>5. CASE WriteSecret
  BY <1>5 DEF WriteSecret, NextSecret, Failed, Requeue, ReadInv
<1>6. CASE Finish
  BY <1>6 DEF Finish, Requeue, ReadInv
<1>7. CASE CallFails
  BY <1>7 DEF CallFails, Failed, Requeue, ReadInv
<1>8. CASE Tick \/ Event \/ UserActs \/ UNCHANGED vars
  BY <1>8 DEF Tick, Event, UserActs, vars, ReadInv
<1> QED
  BY <1>1, <1>2, <1>3, <1>4, <1>5, <1>6, <1>7, <1>8 DEF Next, Worker

\* upsertManagedSecret replaces a foreign Secret only under the takeover annotation
\* it read: Get and Update are bound by the resourceVersion, Get and Create by the
\* name.
THEOREM ForeignKept == Spec => ForeignIsKept
<1>1. Init => ReadInv
  BY DEF Init, ReadInv
<1>2. ASSUME RotatorInv, ReadInv, [Next]_vars
      PROVE  \A n \in Names :
               secret[n].kind = "foreign" /\ secret'[n].kind = "managed" => w.takeover
  <2> SUFFICES ASSUME NEW n \in Names, secret[n].kind = "foreign", secret'[n].kind = "managed"
               PROVE  w.takeover
    OBVIOUS
  <2>1. secret' # secret
    OBVIOUS
  <2>2. CASE WriteSecret
    <3>1. pc = "write" /\ secret[w.name] = w.got
      BY <2>1, <2>2 DEF WriteSecret
    <3>2. secret' = [secret EXCEPT ![w.name] = Wanted]
      BY <2>1, <2>2 DEF WriteSecret
    <3>3. w.name = n
      BY <1>2, <3>2 DEF RotatorInv, TypeOK
    <3> QED
      BY <1>2, <3>1, <3>3 DEF ReadInv
  <2>3. CASE UserActs
    BY <1>2, <2>3 DEF UserActs, Absent, Foreign, RotatorInv, TypeOK
  <2> QED
    BY <1>2, <2>1, <2>2, <2>3 DEF Next, Worker, StartReconcile, NotReady, GenerateToken, GetSecret,
       Finish, CallFails, Tick, Event, vars
<1> QED
  BY <1>1, <1>2, ReadStep, Invariance, PTL DEF Spec, ForeignIsKept

\* Every way out of a run that found the rotator enabled leaves a request in the
\* queue, since no duration of a policy with defaults is zero or negative.
THEOREM AlwaysRequeued == Spec => NeverSleeps
<1>1. ASSUME RotatorInv, [Next]_vars, pc # "idle", pc' = "idle" PROVE armed'
  <2>1. CASE NotReady
    BY <2>1, PolicyPositive DEF NotReady, Failed, Requeue
  <2>2. CASE GetSecret
    BY <1>1, <2>2, PolicyPositive DEF GetSecret, Requeue
  <2>3. CASE WriteSecret
    BY <1>1, <2>3 DEF WriteSecret, NextSecret, Failed, Requeue
  <2>4. CASE Finish
    BY <1>1, <2>4, RequeueBounds DEF Finish, Requeue, RotatorInv, TypeOK, Local
  <2>5. CASE CallFails
    BY <2>5 DEF CallFails, Failed, Requeue
  <2> QED
    BY <1>1, <2>1, <2>2, <2>3, <2>4, <2>5
       DEF Next, Worker, StartReconcile, GenerateToken, Tick, Event, UserActs, vars
<1> QED
  BY <1>1, Invariance, PTL DEF Spec, NeverSleeps

-----------------------------------------------------------------------------
(* The rotator with its events *)

\* What the cache remembers of the rotator's Cluster is the last event emitted.
RemembersTold == \A e \in last : e.key = Me => e.sig = told.sig /\ e.at = told.at

DedupeInv ==
  /\ EventTypeOK /\ IsFiniteSet(last)
  /\ RemembersTold /\ LastEventIsCurrent /\ ProblemsAreRepeated /\ CacheIsBounded

-----------------------------------------------------------------------------
(* The cache *)

\* The entry of a key takes the place of its former one.
LEMMA WithEntry ==
  ASSUME NEW C, IsFiniteSet(C), C \subseteq Entries, NEW n \in Entries
  PROVE  /\ With(C, n) \subseteq Entries /\ IsFiniteSet(With(C, n))
         /\ Cardinality(With(C, n)) <= Cardinality(C) + 1
         /\ \A e \in With(C, n) : e.key = n.key => e = n
         /\ \A e \in With(C, n) : e.key # n.key => e \in C
<1> DEFINE rest == {e \in C : e.key # n.key}
<1>1. rest \subseteq C /\ With(C, n) = rest \cup {n}
  BY DEF With
<1>2. IsFiniteSet(rest) /\ Cardinality(rest) <= Cardinality(C)
  BY <1>1, FS_Subset
<1>3. /\ IsFiniteSet(rest \cup {n})
      /\ Cardinality(rest \cup {n}) <= Cardinality(rest) + 1
  <2>1. Cardinality(rest) \in Nat
    BY <1>2, FS_CardinalityType
  <2> HIDE DEF rest
  <2>2. /\ IsFiniteSet(rest \cup {n})
        /\ \/ Cardinality(rest \cup {n}) = Cardinality(rest)
           \/ Cardinality(rest \cup {n}) = Cardinality(rest) + 1
    BY <1>2, FS_AddElement
  <2>3. QED BY <2>1, <2>2
<1>4. Cardinality(C) \in Nat /\ Cardinality(rest) \in Nat /\ Cardinality(rest \cup {n}) \in Nat
  BY <1>2, <1>3, FS_CardinalityType
<1>5. Cardinality(With(C, n)) <= Cardinality(C) + 1
  BY <1>1, <1>2, <1>3, <1>4
<1>6. IsFiniteSet(With(C, n))
  BY <1>1, <1>3
<1>7. QED BY <1>1, <1>5, <1>6

\* A cache that was at most one above the limit keeps it.
LEMMA FittedCache ==
  ASSUME NEW C, IsFiniteSet(C), NEW r \in Fitted(C),
         MaxEntries > 0 => Cardinality(C) <= MaxEntries + 1
  PROVE  /\ r \subseteq C /\ IsFiniteSet(r)
         /\ MaxEntries > 0 => Cardinality(r) <= MaxEntries
<1>1. Cardinality(C) \in Nat
  BY FS_CardinalityType
<1>2. CASE IsFull(C)
  <2>1. PICK e \in C : r = C \ {e}
    BY <1>2 DEF Fitted, Oldest
  <2>2. IsFiniteSet(r) /\ Cardinality(r) = Cardinality(C) - 1
    BY <2>1, FS_RemoveElement
  <2>3. QED BY <1>1, <2>1, <2>2, DedupeAssumption
<1>3. CASE ~IsFull(C)
  BY <1>1, <1>3, DedupeAssumption DEF Fitted, IsFull
<1>4. QED BY <1>2, <1>3

\* What shouldEmit answers and leaves: it suppresses what the cache knows and
\* has not expired, else the cache holds nothing but the new event of the key.
LEMMA Answers ==
  ASSUME NEW k \in Keys, NEW s \in Signatures, NEW t \in Nat,
         last \subseteq Entries, IsFiniteSet(last), CacheIsBounded,
         NEW r \in ShouldEmit(k, s, t)
  PROVE  /\ r.cache \subseteq Entries /\ IsFiniteSet(r.cache)
         /\ MaxEntries > 0 => Cardinality(r.cache) <= MaxEntries
         /\ \A e \in r.cache : e.key # k => e \in last
         /\ \/ /\ ~r.emit /\ r.cache \subseteq last
               /\ \E e \in last : e.key = k /\ e.sig = s /\ (TTL > 0 => t - e.at <= TTL)
            \/ /\ r.emit
               /\ \A e \in r.cache : e.key = k => e = Entry(k, s, t)
<1> DEFINE C == Compacted(t)
           n == Entry(k, s, t)
<1>1. C \subseteq last
  BY DEF Compacted
<1>2. IsFiniteSet(C) /\ Cardinality(C) <= Cardinality(last)
  BY <1>1, FS_Subset
<1>3. Cardinality(C) \in Nat /\ Cardinality(last) \in Nat
  BY <1>2, FS_CardinalityType
<1>4. MaxEntries > 0 => Cardinality(C) <= MaxEntries
  BY <1>2, <1>3, DedupeAssumption DEF CacheIsBounded
<1>5. CASE IsKnown(C, k, s)
  <2>1. r.emit = FALSE /\ r.cache = C
    BY <1>5 DEF ShouldEmit, Answer
  <2>2. PICK e \in C : e.key = k /\ e.sig = s
    BY <1>5 DEF IsKnown
  <2>3. ~IsExpired(t, e)
    BY <2>2 DEF Compacted
  <2>4. e.at \in Nat
    BY <1>1, <2>2 DEF Entries
  <2>5. TTL > 0 => t - e.at <= TTL
    BY <2>3, <2>4, DedupeAssumption DEF IsExpired
  <2> HIDE DEF C
  <2>6. QED BY <1>1, <1>2, <1>4, <2>1, <2>2, <2>5
<1>6. CASE ~IsKnown(C, k, s)
  <2>1. PICK cache \in Fitted(With(C, n)) : r = Answer(TRUE, cache)
    BY <1>6 DEF ShouldEmit
  <2>2. r.emit = TRUE /\ r.cache = cache
    BY <2>1 DEF Answer
  <2>3. n \in Entries /\ n.key = k
    BY DEF Entry, Entries
  <2> HIDE DEF C, n
  <2>4. /\ With(C, n) \subseteq Entries /\ IsFiniteSet(With(C, n))
        /\ Cardinality(With(C, n)) <= Cardinality(C) + 1
        /\ \A e \in With(C, n) : e.key = n.key => e = n
        /\ \A e \in With(C, n) : e.key # n.key => e \in C
    BY <1>1, <1>2, <2>3, WithEntry
  <2>5. Cardinality(With(C, n)) \in Nat
    BY <2>4, FS_CardinalityType
  <2>6. MaxEntries > 0 => Cardinality(With(C, n)) <= MaxEntries + 1
    BY <1>3, <1>4, <2>4, <2>5, DedupeAssumption
  <2>7. /\ cache \subseteq With(C, n) /\ IsFiniteSet(cache)
        /\ MaxEntries > 0 => Cardinality(cache) <= MaxEntries
    BY <2>4, <2>6, FittedCache
  <2>8. \A e \in cache : e.key = k => e = n
    BY <2>3, <2>4, <2>7
  <2>9. \A e \in cache : e.key # k => e \in last
    BY <1>1, <2>3, <2>4, <2>7
  <2>10. QED BY <2>2, <2>4, <2>7, <2>8, <2>9 DEF n
<1>7. QED BY <1>5, <1>6

-----------------------------------------------------------------------------
(* The steps *)

\* A report that is suppressed repeats the one on the Cluster.
LEMMA SaysStep ==
  ASSUME DedupeInv, now \in Nat, changed' \in BOOLEAN, NEW s \in Signatures, Says(s)
  PROVE  DedupeInv'
<1>1. PICK r \in ShouldEmit(Me, s, now) :
        /\ last' = r.cache
        /\ told' = IF r.emit THEN Entry(Me, s, now) ELSE told
  BY DEF Says
<1>2. said' = Entry(Me, s, now)
  BY DEF Says
<1>3. Me \in Keys
  BY MeAssumption
<1>4. /\ r.cache \subseteq Entries /\ IsFiniteSet(r.cache)
      /\ MaxEntries > 0 => Cardinality(r.cache) <= MaxEntries
      /\ \/ /\ ~r.emit /\ r.cache \subseteq last
            /\ \E e \in last : e.key = Me /\ e.sig = s /\ (TTL > 0 => now - e.at <= TTL)
         \/ /\ r.emit
            /\ \A e \in r.cache : e.key = Me => e = Entry(Me, s, now)
  BY <1>3, Answers DEF DedupeInv, EventTypeOK
<1>5. Entry(Me, s, now) \in Entries
  BY <1>3 DEF Entry, Entries
<1>6. /\ Entry(Me, s, now).sig = s /\ Entry(Me, s, now).at = now
  BY DEF Entry
<1>7. /\ last' \subseteq Entries /\ IsFiniteSet(last') /\ CacheIsBounded'
      /\ {told', said'} \subseteq Entries \cup {Nothing}
  BY <1>1, <1>2, <1>4, <1>5 DEF CacheIsBounded, DedupeInv, EventTypeOK
<1>8. CASE ~r.emit
  <2>1. told' = told /\ last' \subseteq last
    BY <1>1, <1>4, <1>8
  <2>2. PICK e \in last : e.key = Me /\ e.sig = s /\ (TTL > 0 => now - e.at <= TTL)
    BY <1>4, <1>8
  <2>3. e.sig = told.sig /\ e.at = told.at
    BY <2>2 DEF DedupeInv, RemembersTold
  <2>4. RemembersTold' /\ LastEventIsCurrent' /\ ProblemsAreRepeated'
    BY <1>2, <1>6, <2>1, <2>2, <2>3
    DEF DedupeInv, RemembersTold, LastEventIsCurrent, ProblemsAreRepeated
  <2>5. QED BY <1>7, <2>4 DEF DedupeInv, EventTypeOK, Nothing
<1>9. CASE r.emit
  <2>1. told' = Entry(Me, s, now)
    BY <1>1, <1>9
  <2>2. RemembersTold' /\ LastEventIsCurrent'
    BY <1>1, <1>2, <1>4, <1>9, <2>1 DEF RemembersTold, LastEventIsCurrent
  <2>3. ProblemsAreRepeated'
    BY <1>2, <1>6, <2>1, DedupeAssumption DEF ProblemsAreRepeated
  <2>4. QED BY <1>7, <2>2, <2>3 DEF DedupeInv, EventTypeOK, Nothing
<1>10. QED BY <1>8, <1>9

\* Nothing is said: the cache may only be the same or lost.
LEMMA QuietStep ==
  ASSUME DedupeInv, changed' \in BOOLEAN, last' \in {last, {}}, UNCHANGED <<told, said>>
  PROVE  DedupeInv'
<1>1. IsFiniteSet({}) /\ Cardinality({}) = 0
  BY FS_EmptySet
<1>2. IsFiniteSet(last') /\ CacheIsBounded'
  BY <1>1, DedupeAssumption DEF DedupeInv, CacheIsBounded
<1>3. QED
  BY <1>2 DEF DedupeInv, EventTypeOK, Nothing, RemembersTold, LastEventIsCurrent, ProblemsAreRepeated

\* An event of another Cluster can only evict or expire this one's entry.
LEMMA OtherStep ==
  ASSUME DedupeInv, now \in Nat, OtherSays
  PROVE  DedupeInv'
<1>0. PICK k \in Keys \ {Me} : \E r \in ShouldEmit(k, "notReady", now) : last' = r.cache
  BY DEF OtherSays
<1>1. PICK r \in ShouldEmit(k, "notReady", now) : last' = r.cache
  BY <1>0
<1>2. "notReady" \in Signatures
  BY MeAssumption
<1>3. /\ r.cache \subseteq Entries /\ IsFiniteSet(r.cache)
      /\ MaxEntries > 0 => Cardinality(r.cache) <= MaxEntries
      /\ \A e \in r.cache : e.key # k => e \in last
  BY <1>1, <1>2, Answers DEF DedupeInv, EventTypeOK
<1>4. UNCHANGED <<changed, told, said>>
  BY DEF OtherSays
<1>5. IsFiniteSet(last') /\ CacheIsBounded' /\ RemembersTold'
  BY <1>1, <1>3, <1>4 DEF DedupeInv, CacheIsBounded, RemembersTold
<1>6. QED
  BY <1>1, <1>3, <1>4, <1>5 DEF DedupeInv, EventTypeOK, Nothing, LastEventIsCurrent, ProblemsAreRepeated

\* Each report of a run is one of the signatures.
LEMMA ReportsStep ==
  ASSUME DedupeInv, TypeOK, Reports
  PROVE  DedupeInv'
<1>1. now \in Nat /\ changed \in BOOLEAN
  BY DEF TypeOK, DedupeInv, EventTypeOK
<1>2. changed' \in BOOLEAN
  BY <1>1 DEF Reports
<1>3. \/ Silent
      \/ \E s \in Signatures : Says(s)
  BY MeAssumption DEF Reports, About
<1>4. CASE Silent
  BY <1>2, <1>4, QuietStep DEF Silent
<1>5. CASE \E s \in Signatures : Says(s)
  BY <1>1, <1>2, <1>5, SaysStep
<1>6. QED BY <1>3, <1>4, <1>5

LEMMA EventStep ==
  ASSUME DedupeInv, TypeOK, [ENext]_evars
  PROVE  DedupeInv'
<1>1. now \in Nat /\ changed \in BOOLEAN
  BY DEF TypeOK, DedupeInv, EventTypeOK
<1>2. CASE Reports
  BY <1>2, ReportsStep
<1>3. CASE OtherSays
  BY <1>1, <1>3, OtherStep
<1>4. CASE UNCHANGED eventVars
  BY <1>1, <1>4, QuietStep DEF eventVars
<1>5. CASE last' = {} /\ UNCHANGED <<changed, told, said>>
  BY <1>1, <1>5, QuietStep
<1>6. QED BY <1>2, <1>3, <1>4, <1>5 DEF ENext, evars

-----------------------------------------------------------------------------
(* Theorems *)

\* The rotator with its events is the rotator: what is proved of the one holds
\* of the other.
THEOREM EventsAreAdded == ESpec => Spec
<1>1. EInit => Init
  BY DEF EInit
<1>2. [ENext]_evars => [Next]_vars
  BY DEF ENext, Reports, OtherSays, Next, Worker, evars, vars
<1>3. QED BY <1>1, <1>2, PTL DEF ESpec, Spec

\* The cache's memory of the Cluster is the event on it, at every step.
LEMMA EventInvariant == ESpec => []DedupeInv
<1>1. EInit => DedupeInv
  <2> SUFFICES ASSUME EInit PROVE DedupeInv
    OBVIOUS
  <2>1. IsFiniteSet({}) /\ Cardinality({}) = 0
    BY FS_EmptySet
  <2>2. IsFiniteSet(last) /\ CacheIsBounded
    BY <2>1, DedupeAssumption DEF EInit, CacheIsBounded
  <2>3. Nothing.at = 0
    BY DEF Nothing, Entry
  <2>4. ProblemsAreRepeated
    BY <2>3, DedupeAssumption DEF EInit, ProblemsAreRepeated
  <2>5. QED
    BY <2>2, <2>4 DEF EInit, DedupeInv, EventTypeOK, RemembersTold, LastEventIsCurrent
<1>2. DedupeInv /\ TypeOK /\ [ENext]_evars => DedupeInv'
  BY EventStep
<1>3. ESpec => []TypeOK
  BY EventsAreAdded, TypeCorrect, PTL
<1>4. QED BY <1>1, <1>2, <1>3, PTL DEF ESpec

\* Whatever the dedupe suppresses, evicts, forgets at a restart, or is told about
\* other Clusters, the last event emitted says what the last run had to report.
THEOREM EventsAreCurrent == ESpec => []LastEventIsCurrent
BY EventInvariant, PTL DEF DedupeInv

\* When a run reports something, the event that says so is not older than TTL.
THEOREM EventsAreRepeated == ESpec => []ProblemsAreRepeated
BY EventInvariant, PTL DEF DedupeInv

\* The dedupe cache keeps its limit, although a call removes one entry at most.
THEOREM CacheBounded == ESpec => []CacheIsBounded
BY EventInvariant, PTL DEF DedupeInv
=============================================================================
