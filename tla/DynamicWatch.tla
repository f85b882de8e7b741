---------------------------- MODULE DynamicWatch ----------------------------
(***************************************************************************)
(* The dynamic watcher of internal/dynamicwatch: informers registered at   *)
(* run time, their event handlers, the bounded event channel, the pending  *)
(* map that takes what the channel has no room for, and the flusher.       *)
(*                                                                         *)
(* Its goroutines: Start, the reconcile workers that call EnsureWatch, one *)
(* event handler per informer, the flusher, and the controller that reads  *)
(* the channel.  Every section under w.mu, every non-blocking send and     *)
(* every call between them is an action.                                   *)
(*                                                                         *)
(* An event is an object's key and the number of the notification it was   *)
(* built for: a fresh allocation, so the number is the pointer identity    *)
(* that flushPending compares.                                             *)
(***************************************************************************)
EXTENDS Naturals, Sequences

CONSTANTS
  Kinds,      \* kinds of backend objects (GVRs)
  Keys,       \* the namespaced objects of these kinds
  kindOf,     \* the kind of each object
  Callers,    \* goroutines that call EnsureWatch
  Cap,        \* capacity of the event channel
  MaxEvents   \* bound: notifications per object

None == "none"

ASSUME ConstantsAssumption ==
  /\ None \notin Keys
  /\ kindOf \in [Keys -> Kinds]
  /\ Cap \in Nat \ {0} /\ MaxEvents \in Nat

VARIABLES
  stopSet,    \* w.stopCh # nil
  startPC,    \* Start: "new", "locked", "running"
  flusher,    \* the flusher goroutine runs
  reg,        \* kinds in w.informers: created in the factory, handler added
  running,    \* kinds whose informer the factory has started
  callPC,     \* EnsureWatch: per caller "idle", "start" or "wait"
  ver,        \* notifications of each object so far
  seen,       \* notifications of each object when it was last received
  handler,    \* per kind: the step of enqueue and its key
  chan,       \* the event channel
  pending,    \* w.pending: per key the number of the event, 0 if absent
  flushSig,   \* flushCh holds a signal
  flushPC, held  \* flushPending: its step, and key and obj

startVars == <<stopSet, startPC, flusher, reg, running, callPC>>
eventVars == <<ver, seen, handler, chan, pending, flushSig, flushPC, held>>
vars == <<startVars, eventVars>>

Event == [key: Keys, n: Nat]
NoEvent == [key |-> None, n |-> 0]
Idle == [pc |-> "idle", key |-> None]

TypeOK ==
  /\ stopSet \in BOOLEAN /\ flusher \in BOOLEAN /\ flushSig \in BOOLEAN
  /\ startPC \in {"new", "locked", "running"}
  /\ reg \in SUBSET Kinds /\ running \in SUBSET Kinds
  /\ callPC \in [Callers -> {"idle", "start", "wait"}]
  /\ ver \in [Keys -> Nat] /\ seen \in [Keys -> Nat]
  /\ handler \in [Kinds -> {Idle} \cup [pc: {"pending", "signal"}, key: Keys]]
  /\ chan \in Seq(Event) /\ Len(chan) <= Cap
  /\ pending \in [Keys -> Nat]
  /\ flushPC \in {"idle", "pick", "send", "delete"}
  /\ held \in Event \cup {NoEvent}
  /\ flushPC \in {"send", "delete"} => held \in Event

Init ==
  /\ stopSet = FALSE /\ startPC = "new" /\ flusher = FALSE
  /\ reg = {} /\ running = {}
  /\ callPC = [c \in Callers |-> "idle"]
  /\ ver = [k \in Keys |-> 0] /\ seen = [k \in Keys |-> 0]
  /\ handler = [g \in Kinds |-> Idle]
  /\ chan = << >> /\ pending = [k \in Keys |-> 0]
  /\ flushSig = FALSE /\ flushPC = "idle" /\ held = NoEvent

-----------------------------------------------------------------------------
(* Start and EnsureWatch *)

\* Start under w.mu: the stop channel is published.
StartLock ==
  /\ startPC = "new"
  /\ stopSet' = TRUE /\ startPC' = "locked"
  /\ UNCHANGED <<flusher, reg, running, callPC, eventVars>>

\* go flushLoop, then factory.Start: every informer created so far.
StartFactory ==
  /\ startPC = "locked"
  /\ flusher' = TRUE /\ running' = running \cup reg /\ startPC' = "running"
  /\ UNCHANGED <<stopSet, reg, callPC, eventVars>>

\* Mutated form of EnsureLock: w.stopCh is read before the lock is taken.
EnsureLockEarlyRead(c, g) ==
  /\ callPC[c] = "idle"
  /\ reg' = reg \cup {g}
  /\ \E stop \in {FALSE, stopSet} :
       callPC' = [callPC EXCEPT ![c] = IF ~stop THEN "idle"
                                       ELSE IF g \in reg THEN "wait" ELSE "start"]
  /\ UNCHANGED <<stopSet, startPC, flusher, running, eventVars>>

\* EnsureWatch under w.mu: an unknown kind gets an informer with a handler.
EnsureLock(c, g) ==
  /\ callPC[c] = "idle"
  /\ reg' = reg \cup {g}
  /\ callPC' = [callPC EXCEPT ![c] = IF ~stopSet THEN "idle"
                                     ELSE IF g \in reg THEN "wait" ELSE "start"]
  /\ UNCHANGED <<stopSet, startPC, flusher, running, eventVars>>

EnsureStart(c) ==
  /\ callPC[c] = "start"
  /\ running' = running \cup reg
  /\ callPC' = [callPC EXCEPT ![c] = "wait"]
  /\ UNCHANGED <<stopSet, startPC, flusher, reg, eventVars>>

\* waitForCacheSync: synced, or timed out; the caller is told, w is unchanged.
EnsureWait(c) ==
  /\ callPC[c] = "wait"
  /\ callPC' = [callPC EXCEPT ![c] = "idle"]
  /\ UNCHANGED <<stopSet, startPC, flusher, reg, running, eventVars>>

-----------------------------------------------------------------------------
(* enqueue: the event handlers *)

\* An informer calls its handler for a new, changed or deleted object; the
\* handler tries the channel.
Enqueue(k) ==
  /\ kindOf[k] \in running /\ handler[kindOf[k]] = Idle /\ ver[k] < MaxEvents
  /\ ver' = [ver EXCEPT ![k] = @ + 1]
  /\ IF Len(chan) < Cap
     THEN /\ chan' = Append(chan, [key |-> k, n |-> ver[k] + 1])
          /\ UNCHANGED handler
     ELSE /\ handler' = [handler EXCEPT ![kindOf[k]] = [pc |-> "pending", key |-> k]]
          /\ UNCHANGED chan
  /\ UNCHANGED <<startVars, seen, pending, flushSig, flushPC, held>>

EnqueuePending(g) ==
  /\ handler[g].pc = "pending"
  /\ LET k == handler[g].key IN
     /\ pending' = [pending EXCEPT ![k] = ver[k]]
     /\ handler' = [handler EXCEPT ![g].pc = "signal"]
  /\ UNCHANGED <<startVars, ver, seen, chan, flushSig, flushPC, held>>

SignalFlush(g) ==
  /\ handler[g].pc = "signal"
  /\ flushSig' = TRUE /\ handler' = [handler EXCEPT ![g] = Idle]
  /\ UNCHANGED <<startVars, ver, seen, chan, pending, flushPC, held>>

-----------------------------------------------------------------------------
(* The flusher *)

\* Mutated form of FlushWake: no ticker.
FlushWakeNoTicker ==
  /\ flusher /\ flushPC = "idle" /\ flushSig
  /\ flushPC' = "pick" /\ flushSig' = FALSE
  /\ UNCHANGED <<startVars, ver, seen, handler, chan, pending, held>>

\* flushLoop wakes up on its ticker or on a signal.
FlushWake ==
  /\ flusher /\ flushPC = "idle"
  /\ flushPC' = "pick" /\ flushSig' \in {flushSig, FALSE}
  /\ UNCHANGED <<startVars, ver, seen, handler, chan, pending, held>>

\* Mutated form of FlushPick: an empty map is not noticed.
FlushPickNil ==
  /\ flushPC = "pick" /\ flushPC' = "send"
  /\ \/ \E k \in Keys :
          pending[k] # 0 /\ held' = [key |-> k, n |-> pending[k]]
     \/ (\A k \in Keys : pending[k] = 0) /\ held' = NoEvent
  /\ UNCHANGED <<startVars, ver, seen, handler, chan, pending, flushSig>>

\* flushPending under w.mu: any pending entry, or none and it returns.
FlushPick ==
  /\ flushPC = "pick"
  /\ \/ \E k \in Keys :
          /\ pending[k] # 0
          /\ held' = [key |-> k, n |-> pending[k]] /\ flushPC' = "send"
     \/ /\ \A k \in Keys : pending[k] = 0
        /\ flushPC' = "idle" /\ held' = NoEvent
  /\ UNCHANGED <<startVars, ver, seen, handler, chan, pending, flushSig>>

FlushSend ==
  /\ flushPC = "send"
  /\ IF Len(chan) < Cap
     THEN chan' = Append(chan, held) /\ flushPC' = "delete" /\ UNCHANGED held
     ELSE flushPC' = "idle" /\ held' = NoEvent /\ UNCHANGED chan
  /\ UNCHANGED <<startVars, ver, seen, handler, pending, flushSig>>

\* Mutated form of FlushDelete: the entry is deleted whatever it is now.
FlushDeleteAny ==
  /\ flushPC = "delete"
  /\ pending' = [pending EXCEPT ![held.key] = 0]
  /\ flushPC' = "pick" /\ held' = NoEvent
  /\ UNCHANGED <<startVars, ver, seen, handler, chan, flushSig>>

\* Under w.mu again: the entry is deleted if it is still the event that was sent.
FlushDelete ==
  /\ flushPC = "delete"
  /\ pending' = [pending EXCEPT ![held.key] = IF @ = held.n THEN 0 ELSE @]
  /\ flushPC' = "pick" /\ held' = NoEvent
  /\ UNCHANGED <<startVars, ver, seen, handler, chan, flushSig>>

\* The facade controller receives an event; the reconcile it causes reads the
\* object as it is from then on.
Receive ==
  /\ chan # << >>
  /\ LET k == Head(chan).key IN seen' = [seen EXCEPT ![k] = ver[k]]
  /\ chan' = Tail(chan)
  /\ UNCHANGED <<startVars, ver, handler, pending, flushSig, flushPC, held>>

Flusher == FlushWake \/ FlushPick \/ FlushSend \/ FlushDelete

Next ==
  \/ StartLock \/ StartFactory
  \/ \E c \in Callers : EnsureStart(c) \/ EnsureWait(c) \/ \E g \in Kinds : EnsureLock(c, g)
  \/ \E k \in Keys : Enqueue(k)
  \/ \E g \in Kinds : EnqueuePending(g) \/ SignalFlush(g)
  \/ Flusher \/ Receive

Spec == Init /\ [][Next]_vars

(***************************************************************************)
(* Goroutines that can run do run.  Nothing forces a user to create or     *)
(* change objects, nor a reconcile to call EnsureWatch.                    *)
(***************************************************************************)
Fairness ==
  /\ WF_vars(StartLock) /\ WF_vars(StartFactory)
  /\ \A c \in Callers : WF_vars(EnsureStart(c)) /\ WF_vars(EnsureWait(c))
  /\ \A g \in Kinds : WF_vars(EnqueuePending(g) \/ SignalFlush(g))
  /\ WF_vars(Flusher) /\ WF_vars(Receive)

FairSpec == Spec /\ Fairness

-----------------------------------------------------------------------------
(* Properties *)

\* Keys with a delivery under way: in the channel, in the pending map, or with
\* a handler that found the channel full.
InChan(k) == \E i \in 1..Len(chan) : chan[i].key = k
InHandler(k) == handler[kindOf[k]] = [pc |-> "pending", key |-> k]
Carried(k) == InChan(k) \/ pending[k] # 0 \/ InHandler(k)
Owed(k) == ver[k] # seen[k]

\* No event is lost: an object that was notified after the controller last
\* received an event for it has one on its way, also while flushPending works on
\* an entry that a handler replaces.
NoEventLost == \A k \in Keys : Owed(k) => Carried(k)

\* No informer is left unstarted by a race of Start and EnsureWatch: once Start
\* has run, a registered informer runs or a caller is about to start it.
RegisteredRuns ==
  startPC = "running" =>
    \A g \in reg : g \in running \/ \E c \in Callers : callPC[c] = "start"

\* The watcher keeps the promise the facade relies on: events are coalesced and
\* repeated but not dropped, and each notified object is delivered in the end.
Promise == INSTANCE EventDelivery WITH
  owed <- {k \in Keys : Owed(k)}, carried <- {k \in Keys : Carried(k)}
KeepsPromise == Promise!FairSpec
=============================================================================
