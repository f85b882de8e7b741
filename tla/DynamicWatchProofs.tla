------------------------- MODULE DynamicWatchProofs -------------------------
(* The dynamic watcher loses no event and keeps the promise of EventDelivery, *)
(* for every set of objects and callers and every channel capacity.           *)
EXTENDS DynamicWatch, TLAPS

\* What a handler holds, and what the flusher holds: an entry of the pending map
\* that may have been replaced, by a newer event, since it was read.
HandlerInv ==
  \A g \in Kinds : handler[g].pc = "pending" =>
    kindOf[handler[g].key] = g /\ pending[handler[g].key] < ver[handler[g].key]

PendingInv == \A k \in Keys : pending[k] <= ver[k] /\ seen[k] <= ver[k]

HeldInv ==
  flushPC \in {"send", "delete"} =>
    /\ held.n # 0 /\ pending[held.key] # 0 /\ held.n <= ver[held.key]
    /\ InHandler(held.key) => held.n < ver[held.key]

\* The entry that is about to be deleted is not needed any more.
DeleteInv ==
  flushPC = "delete" /\ pending[held.key] = held.n /\ Owed(held.key)
    => InChan(held.key) \/ InHandler(held.key)

WatchInv == NoEventLost /\ HandlerInv /\ PendingInv /\ HeldInv /\ DeleteInv

-----------------------------------------------------------------------------
(* The channel *)

\* Sending adds the sent object's key to those in the channel.
LEMMA SendKeys ==
  ASSUME chan \in Seq(Event), NEW e, chan' = Append(chan, e)
  PROVE  \A k : InChan(k)' <=> InChan(k) \/ k = e.key
<1> SUFFICES ASSUME NEW k PROVE InChan(k)' <=> InChan(k) \/ k = e.key
  OBVIOUS
<1>1. /\ Len(chan) \in Nat /\ Len(chan') = Len(chan) + 1
      /\ \A i \in 1..Len(chan) : chan'[i] = chan[i]
      /\ chan'[Len(chan) + 1] = e
  OBVIOUS
<1>2. InChan(k)' <=> \E i \in 1..Len(chan') : chan'[i].key = k
  BY DEF InChan
<1>3. \A i : i \in 1..Len(chan') <=> i \in 1..Len(chan) \/ i = Len(chan) + 1
  BY <1>1
<1>4. QED BY <1>1, <1>2, <1>3 DEF InChan

\* A send into a channel with room.
LEMMA SendBound ==
  ASSUME chan \in Seq(Event), NEW e \in Event, Len(chan) < Cap, chan' = Append(chan, e)
  PROVE  chan' \in Seq(Event) /\ Len(chan') <= Cap
<1>1. Cap \in Nat /\ Len(chan) \in Nat
  BY ConstantsAssumption
<1>2. QED BY <1>1

\* Receiving removes at most the received object's key.
LEMMA ReceiveKeys ==
  ASSUME chan \in Seq(Event), chan # << >>, chan' = Tail(chan)
  PROVE  \A k : /\ InChan(k)' => InChan(k)
                /\ InChan(k) => InChan(k)' \/ k = Head(chan).key
<1> SUFFICES ASSUME NEW k
             PROVE  /\ InChan(k)' => InChan(k)
                    /\ InChan(k) => InChan(k)' \/ k = Head(chan).key
  OBVIOUS
<1>1. /\ Len(chan) \in Nat /\ Len(chan) > 0 /\ Len(chan') = Len(chan) - 1
      /\ \A i \in 1..Len(chan) - 1 : chan'[i] = chan[i + 1]
      /\ Head(chan) = chan[1]
  OBVIOUS
<1>2. InChan(k)' <=> \E i \in 1..Len(chan') : chan'[i].key = k
  BY DEF InChan
<1>3. ASSUME NEW i \in 1..Len(chan'), chan'[i].key = k PROVE InChan(k)
  <2>1. i + 1 \in 1..Len(chan) /\ chan[i + 1].key = k
    BY <1>1, <1>3
  <2>2. QED BY <2>1 DEF InChan
<1>4. ASSUME NEW i \in 1..Len(chan), chan[i].key = k, i # 1 PROVE InChan(k)'
  <2>1. i - 1 \in 1..Len(chan') /\ chan'[i - 1] = chan[i]
    BY <1>1, <1>4
  <2>2. QED BY <1>2, <1>4, <2>1
<1>5. QED BY <1>1, <1>2, <1>3, <1>4 DEF InChan

-----------------------------------------------------------------------------
(* Types *)

\* The types of all variables, for every value of the constants.
THEOREM TypeCorrect == Spec => []TypeOK
<1>1. Init => TypeOK
  <2> SUFFICES ASSUME Init PROVE TypeOK
    OBVIOUS
  <2>1. chan \in Seq(Event) /\ Len(chan) <= Cap
    BY ConstantsAssumption DEF Init
  <2>2. /\ ver \in [Keys -> Nat] /\ seen \in [Keys -> Nat] /\ pending \in [Keys -> Nat]
        /\ handler \in [Kinds -> {Idle} \cup [pc: {"pending", "signal"}, key: Keys]]
    BY DEF Init
  <2>3. QED BY <2>1, <2>2 DEF Init, TypeOK
<1>2. TypeOK /\ [Next]_vars => TypeOK'
  <2> SUFFICES ASSUME TypeOK, [Next]_vars PROVE TypeOK'
    OBVIOUS
  <2> USE ConstantsAssumption
  <2>1. CASE StartLock \/ StartFactory
    BY <2>1 DEF StartLock, StartFactory, TypeOK, eventVars
  <2>2. CASE \E c \in Callers : EnsureStart(c) \/ EnsureWait(c) \/ \E g \in Kinds : EnsureLock(c, g)
    BY <2>2 DEF EnsureStart, EnsureWait, EnsureLock, TypeOK, eventVars
  <2>3. ASSUME NEW k \in Keys, Enqueue(k) PROVE TypeOK'
    <3>1. ver' \in [Keys -> Nat]
      BY <2>3 DEF Enqueue, TypeOK
    <3>2. chan' \in Seq(Event) /\ Len(chan') <= Cap
      <4> DEFINE e == [key |-> k, n |-> ver[k] + 1]
      <4>1. e \in Event
        BY DEF Event, TypeOK
      <4>2. (Len(chan) < Cap /\ chan' = Append(chan, e)) \/ chan' = chan
        BY <2>3 DEF Enqueue
      <4> HIDE DEF e
      <4>3. QED BY <4>1, <4>2, SendBound DEF TypeOK
    <3>3. handler' \in [Kinds -> {Idle} \cup [pc: {"pending", "signal"}, key: Keys]]
      <4> DEFINE h == [pc |-> "pending", key |-> k]
      <4>1. h \in [pc: {"pending", "signal"}, key: Keys]
        OBVIOUS
      <4>2. handler' = handler \/ handler' = [handler EXCEPT ![kindOf[k]] = h]
        BY <2>3 DEF Enqueue
      <4> HIDE DEF h
      <4>3. QED BY <4>1, <4>2 DEF TypeOK
    <3>4. QED BY <2>3, <3>1, <3>2, <3>3 DEF Enqueue, TypeOK, startVars
  <2>4. ASSUME NEW g \in Kinds, EnqueuePending(g) PROVE TypeOK'
    <3>1. handler[g] \in [pc: {"pending", "signal"}, key: Keys]
      BY <2>4 DEF EnqueuePending, TypeOK, Idle
    <3>2. pending' \in [Keys -> Nat]
      BY <2>4, <3>1 DEF EnqueuePending, TypeOK
    <3>3. handler' = [handler EXCEPT ![g] = [handler[g] EXCEPT !.pc = "signal"]]
      BY <2>4 DEF EnqueuePending
    <3>4. [handler[g] EXCEPT !.pc = "signal"] \in [pc: {"pending", "signal"}, key: Keys]
      BY <3>1
    <3>5. handler' \in [Kinds -> {Idle} \cup [pc: {"pending", "signal"}, key: Keys]]
      BY <3>3, <3>4 DEF TypeOK
    <3>6. QED BY <2>4, <3>2, <3>5 DEF EnqueuePending, TypeOK, startVars
  <2>5. ASSUME NEW g \in Kinds, SignalFlush(g) PROVE TypeOK'
    BY <2>5 DEF SignalFlush, TypeOK, startVars
  <2>6. CASE FlushWake
    BY <2>6 DEF FlushWake, TypeOK, startVars
  <2>7. CASE FlushPick
    <3>1. held' \in Event \cup {NoEvent} /\ (flushPC' = "send" => held' \in Event)
          /\ flushPC' \in {"send", "idle"}
      BY <2>7 DEF FlushPick, TypeOK, Event
    <3>2. QED BY <2>7, <3>1 DEF FlushPick, TypeOK, startVars
  <2>8. CASE FlushSend
    <3>1. chan' \in Seq(Event) /\ Len(chan') <= Cap
      <4>1. held \in Event /\ ((Len(chan) < Cap /\ chan' = Append(chan, held)) \/ chan' = chan)
        BY <2>8 DEF FlushSend, TypeOK
      <4>2. QED BY <4>1, SendBound DEF TypeOK
    <3>2. QED BY <2>8, <3>1 DEF FlushSend, TypeOK, startVars
  <2>9. CASE FlushDelete
    BY <2>9 DEF FlushDelete, TypeOK, startVars, Event
  <2>10. CASE Receive
    <3>1. chan' \in Seq(Event) /\ Len(chan') <= Cap
      BY <2>10 DEF Receive, TypeOK
    <3>2. seen' \in [Keys -> Nat]
      BY <2>10 DEF Receive, TypeOK, Event
    <3>3. QED BY <2>10, <3>1, <3>2 DEF Receive, TypeOK, startVars
  <2>11. CASE UNCHANGED vars
    BY <2>11 DEF vars, startVars, eventVars, TypeOK
  <2>12. QED
    BY <2>1, <2>2, <2>3, <2>4, <2>5, <2>6, <2>7, <2>8, <2>9, <2>10, <2>11
       DEF Next, Flusher
<1>3. QED BY <1>1, <1>2, PTL DEF Spec

-----------------------------------------------------------------------------
(* No event is lost *)

\* The step of the induction, one case per action.
LEMMA WatchStep ==
  ASSUME TypeOK, WatchInv, [Next]_vars
  PROVE  WatchInv'
<1>a. \A k \in Keys : /\ kindOf[k] \in Kinds /\ ver[k] \in Nat /\ seen[k] \in Nat
                      /\ pending[k] \in Nat
  BY ConstantsAssumption DEF TypeOK
<1>b. flushPC \in {"send", "delete"} => held.key \in Keys /\ held.n \in Nat
  BY DEF TypeOK, Event
<1>1. CASE UNCHANGED eventVars
  BY <1>1 DEF eventVars, WatchInv, NoEventLost, HandlerInv, PendingInv, HeldInv, DeleteInv,
     Owed, Carried, InChan, InHandler
<1>2. ASSUME NEW k \in Keys, Enqueue(k) PROVE WatchInv'
  <2>1. /\ handler[kindOf[k]] = Idle
        /\ ver' = [ver EXCEPT ![k] = ver[k] + 1]
        /\ UNCHANGED <<seen, pending, flushPC, held>>
    BY <1>2 DEF Enqueue
  <2>2. ver'[k] = ver[k] + 1 /\ \A j \in Keys : j # k => ver'[j] = ver[j]
    BY <2>1 DEF TypeOK
  <2>3. ASSUME NEW j \in Keys, j # k
        PROVE  /\ Owed(j)' = Owed(j)
               /\ InHandler(j)' = InHandler(j)
               /\ InChan(j) => InChan(j)'
    <3>1. Owed(j)' = Owed(j)
      BY <2>1, <2>2, <2>3 DEF Owed
    <3>2. InHandler(j)' = InHandler(j)
      <4> DEFINE h == [pc |-> "pending", key |-> k]
      <4>1. handler' = handler \/ handler' = [handler EXCEPT ![kindOf[k]] = h]
        BY <1>2 DEF Enqueue
      <4>2. h # [pc |-> "pending", key |-> j] /\ Idle # [pc |-> "pending", key |-> j]
        BY <2>3 DEF Idle
      <4> HIDE DEF h
      <4>3. QED BY <1>a, <2>1, <4>1, <4>2 DEF InHandler, TypeOK
    <3>3. InChan(j) => InChan(j)'
      <4> DEFINE e == [key |-> k, n |-> ver[k] + 1]
      <4>1. chan' = chan \/ chan' = Append(chan, e)
        BY <1>2 DEF Enqueue
      <4> HIDE DEF e
      <4>2. QED BY <4>1, SendKeys DEF TypeOK, InChan
    <3>4. QED BY <3>1, <3>2, <3>3
  <2>4. InChan(k)' \/ InHandler(k)'
    <3>1. CASE Len(chan) < Cap
      <4> DEFINE e == [key |-> k, n |-> ver[k] + 1]
      <4>1. chan' = Append(chan, e) /\ e.key = k
        BY <1>2, <3>1 DEF Enqueue
      <4> HIDE DEF e
      <4>2. QED BY <4>1, SendKeys DEF TypeOK
    <3>2. CASE ~(Len(chan) < Cap)
      BY <1>a, <1>2, <3>2 DEF Enqueue, TypeOK, InHandler
    <3>3. QED BY <3>1, <3>2
  <2>5. ~InHandler(k)
    BY <2>1 DEF InHandler, Idle
  <2>6. NoEventLost'
    BY <2>1, <2>3, <2>4 DEF WatchInv, NoEventLost, Carried
  <2>7. HandlerInv'
    <3> SUFFICES ASSUME NEW g \in Kinds, handler'[g].pc = "pending"
                 PROVE  /\ kindOf[handler'[g].key] = g
                        /\ pending'[handler'[g].key] < ver'[handler'[g].key]
      BY DEF HandlerInv
    <3>1. CASE handler'[g] = handler[g]
      <4>1. handler[g].key \in Keys /\ handler[g].key # k
        BY <2>1, <3>1 DEF TypeOK, Idle, WatchInv, HandlerInv
      <4>2. QED BY <2>1, <2>2, <3>1, <4>1 DEF WatchInv, HandlerInv
    <3>2. CASE handler'[g] # handler[g]
      <4>1. g = kindOf[k] /\ handler'[g].key = k
        BY <1>2, <3>2, <1>a DEF Enqueue, TypeOK
      <4>2. pending[k] <= ver[k]
        BY DEF WatchInv, PendingInv
      <4>3. QED BY <1>a, <2>1, <2>2, <4>1, <4>2
    <3>3. QED BY <3>1, <3>2
  <2>8. PendingInv'
    BY <1>a, <2>1, <2>2 DEF WatchInv, PendingInv
  <2>9. HeldInv'
    BY <1>a, <1>b, <2>1, <2>2, <2>3 DEF WatchInv, HeldInv
  <2>10. DeleteInv'
    BY <1>b, <2>1, <2>3, <2>4 DEF WatchInv, DeleteInv
  <2>11. QED BY <2>6, <2>7, <2>8, <2>9, <2>10 DEF WatchInv
<1>3. ASSUME NEW g \in Kinds, EnqueuePending(g) PROVE WatchInv'
  <2>0. PICK k \in Keys : handler[g] = [pc |-> "pending", key |-> k]
    <3>1. handler[g] \in [pc: {"pending", "signal"}, key: Keys] /\ handler[g].pc = "pending"
      BY <1>3 DEF EnqueuePending, TypeOK, Idle
    <3>2. QED BY <3>1
  <2>1. /\ handler[g].pc = "pending" /\ handler[g].key = k
        /\ kindOf[k] = g /\ pending[k] < ver[k]
    BY <2>0 DEF WatchInv, HandlerInv
  <2>2. /\ pending' = [pending EXCEPT ![k] = ver[k]]
        /\ UNCHANGED <<ver, seen, chan, flushPC, held>>
    BY <1>3, <2>1 DEF EnqueuePending
  <2>3. /\ pending'[k] = ver[k] /\ \A j \in Keys : j # k => pending'[j] = pending[j]
    BY <2>1, <2>2 DEF TypeOK
  <2>4. /\ handler'[g].pc = "signal"
        /\ \A f \in Kinds : f # g => handler'[f] = handler[f]
    BY <1>3, <2>1 DEF EnqueuePending, TypeOK
  <2>5. InHandler(k)
    BY <2>0, <2>1 DEF InHandler
  <2>6. \A j \in Keys : j # k => InHandler(j)' = InHandler(j)
    BY <1>a, <2>1, <2>4 DEF InHandler
  <2>7. \A j \in Keys : Owed(j)' = Owed(j) /\ InChan(j)' = InChan(j)
    BY <2>2 DEF Owed, InChan
  <2>8. ~InHandler(k)'
    BY <2>1, <2>4 DEF InHandler
  <2>9. NoEventLost'
    BY <1>a, <2>1, <2>3, <2>6, <2>7 DEF WatchInv, NoEventLost, Carried
  <2>10. HandlerInv'
    <3> SUFFICES ASSUME NEW f \in Kinds, handler'[f].pc = "pending"
                 PROVE  /\ kindOf[handler'[f].key] = f
                        /\ pending'[handler'[f].key] < ver'[handler'[f].key]
      BY DEF HandlerInv
    <3>1. f # g /\ handler'[f] = handler[f] /\ handler[f].pc = "pending"
      BY <2>4
    <3>2. kindOf[handler[f].key] = f /\ pending[handler[f].key] < ver[handler[f].key]
          /\ handler[f].key \in Keys
      BY <3>1 DEF WatchInv, HandlerInv, TypeOK, Idle
    <3>3. handler[f].key # k
      BY <2>1, <3>1, <3>2
    <3>4. QED BY <2>2, <2>3, <3>1, <3>2, <3>3
  <2>11. PendingInv'
    BY <1>a, <2>1, <2>2, <2>3 DEF WatchInv, PendingInv
  <2>12. HeldInv'
    BY <1>a, <1>b, <2>1, <2>2, <2>3, <2>6, <2>8 DEF WatchInv, HeldInv
  <2>13. DeleteInv'
    <3> SUFFICES ASSUME flushPC = "delete", pending'[held.key] = held.n, Owed(held.key)
                 PROVE  InChan(held.key)' \/ InHandler(held.key)'
      BY <1>b, <2>2, <2>7 DEF DeleteInv
    <3>1. held.key # k
      BY <1>a, <1>b, <2>1, <2>3, <2>5 DEF WatchInv, HeldInv
    <3>2. pending[held.key] = held.n /\ held.key \in Keys
      BY <1>b, <2>3, <3>1
    <3>3. InChan(held.key) \/ InHandler(held.key)
      BY <3>2 DEF WatchInv, DeleteInv
    <3>4. PICK j \in Keys : j = held.key /\ j = held'.key
      BY <2>2, <3>2
    <3>5. InChan(j)' \/ InHandler(j)'
      BY <2>6, <2>7, <3>1, <3>3, <3>4
    <3>6. QED BY <3>4, <3>5 DEF InChan, InHandler
  <2>14. QED BY <2>9, <2>10, <2>11, <2>12, <2>13 DEF WatchInv
<1>4. ASSUME NEW g \in Kinds, SignalFlush(g) PROVE WatchInv'
  <2>1. /\ handler[g].pc = "signal" /\ handler' = [handler EXCEPT ![g] = Idle]
        /\ UNCHANGED <<ver, seen, chan, pending, flushPC, held>>
    BY <1>4 DEF SignalFlush
  <2>2. \A j \in Keys : InHandler(j)' = InHandler(j)
    BY <1>a, <2>1 DEF InHandler, Idle, TypeOK
  <2>3. \A f \in Kinds : handler'[f].pc = "pending" => handler'[f] = handler[f]
    BY <2>1 DEF Idle, TypeOK
  <2>4. \A j \in Keys : Owed(j)' = Owed(j) /\ InChan(j)' = InChan(j)
    BY <2>1 DEF Owed, InChan
  <2>5. NoEventLost'
    BY <2>1, <2>2, <2>4 DEF WatchInv, NoEventLost, Carried
  <2>6. HandlerInv' /\ PendingInv'
    BY <2>1, <2>3 DEF WatchInv, HandlerInv, PendingInv
  <2>7. HeldInv' /\ DeleteInv'
    BY <1>b, <2>1, <2>2, <2>4 DEF WatchInv, HeldInv, DeleteInv
  <2>8. QED BY <2>5, <2>6, <2>7 DEF WatchInv
<1>5. CASE FlushWake \/ FlushPick
  <2>1. UNCHANGED <<ver, seen, handler, chan, pending>>
    BY <1>5 DEF FlushWake, FlushPick
  <2>2. \A j \in Keys : /\ Owed(j)' = Owed(j) /\ InChan(j)' = InChan(j)
                        /\ InHandler(j)' = InHandler(j)
    BY <2>1 DEF Owed, InChan, InHandler
  <2>3. NoEventLost' /\ HandlerInv' /\ PendingInv'
    BY <2>1, <2>2 DEF WatchInv, NoEventLost, Carried, HandlerInv, PendingInv
  <2>4. flushPC' # "delete" /\ DeleteInv'
    BY <1>5 DEF FlushWake, FlushPick, DeleteInv
  <2>5. HeldInv'
    <3>1. CASE flushPC' # "send"
      BY <2>4, <3>1 DEF HeldInv
    <3>2. CASE flushPC' = "send"
      <4>1. PICK k \in Keys : pending[k] # 0 /\ held' = [key |-> k, n |-> pending[k]]
        BY <1>5, <3>2 DEF FlushWake, FlushPick
      <4>2. held'.key = k /\ held'.n = pending[k]
        BY <4>1
      <4>3. pending[k] <= ver[k] /\ (InHandler(k) => pending[k] < ver[k])
        BY <1>a DEF WatchInv, PendingInv, HandlerInv, InHandler
      <4>4. QED BY <2>1, <2>2, <4>1, <4>2, <4>3 DEF HeldInv
    <3>3. QED BY <3>1, <3>2
  <2>6. QED BY <2>3, <2>4, <2>5 DEF WatchInv
<1>6. CASE FlushSend
  <2>1. UNCHANGED <<ver, seen, handler, pending>> /\ flushPC = "send" /\ held.key \in Keys
    BY <1>6, <1>b DEF FlushSend
  <2>2. \A j \in Keys : Owed(j)' = Owed(j) /\ InHandler(j)' = InHandler(j)
    BY <2>1 DEF Owed, InHandler
  <2>3. CASE Len(chan) < Cap
    <3>1. chan' = Append(chan, held) /\ flushPC' = "delete" /\ UNCHANGED held
      BY <1>6, <2>3 DEF FlushSend
    <3>2. \A j \in Keys : InChan(j)' <=> InChan(j) \/ j = held.key
      BY <3>1, SendKeys DEF TypeOK
    <3>3. NoEventLost' /\ HandlerInv' /\ PendingInv'
      BY <2>1, <2>2, <3>2 DEF WatchInv, NoEventLost, Carried, HandlerInv, PendingInv
    <3>4. HeldInv' /\ DeleteInv'
      BY <2>1, <2>2, <3>1, <3>2 DEF WatchInv, HeldInv, DeleteInv
    <3>5. QED BY <3>3, <3>4 DEF WatchInv
  <2>4. CASE ~(Len(chan) < Cap)
    <3>1. UNCHANGED chan /\ flushPC' = "idle"
      BY <1>6, <2>4 DEF FlushSend
    <3>2. QED BY <2>1, <2>2, <3>1 DEF WatchInv, NoEventLost, Carried, InChan, HandlerInv,
                 PendingInv, HeldInv, DeleteInv
  <2>5. QED BY <2>3, <2>4
<1>7. CASE FlushDelete
  <2>1. /\ flushPC = "delete" /\ flushPC' = "pick" /\ UNCHANGED <<ver, seen, handler, chan>>
        /\ held.key \in Keys
    BY <1>7, <1>b DEF FlushDelete
  <2>2. /\ pending'[held.key] = IF pending[held.key] = held.n THEN 0 ELSE pending[held.key]
        /\ \A j \in Keys : j # held.key => pending'[j] = pending[j]
    BY <1>7, <2>1 DEF FlushDelete, TypeOK
  <2>3. \A j \in Keys : /\ Owed(j)' = Owed(j) /\ InHandler(j)' = InHandler(j)
                        /\ InChan(j)' = InChan(j)
    BY <2>1 DEF Owed, InHandler, InChan
  <2>4. NoEventLost'
    <3> SUFFICES ASSUME NEW j \in Keys, Owed(j) PROVE Carried(j)'
      BY <2>3 DEF NoEventLost
    <3>1. CASE pending'[j] = pending[j]
      BY <2>3, <3>1 DEF WatchInv, NoEventLost, Carried
    <3>2. CASE pending'[j] # pending[j]
      BY <2>1, <2>2, <2>3, <3>2 DEF WatchInv, DeleteInv, Carried
    <3>3. QED BY <3>1, <3>2
  <2>5. \A j \in Keys : pending'[j] <= pending[j]
    BY <1>a, <2>1, <2>2
  <2>6. PendingInv'
    BY <1>a, <2>1, <2>2 DEF WatchInv, PendingInv
  <2>7. HandlerInv'
    <3> SUFFICES ASSUME NEW f \in Kinds, handler[f].pc = "pending"
                 PROVE  /\ kindOf[handler[f].key] = f
                        /\ pending'[handler[f].key] < ver[handler[f].key]
      BY <2>1 DEF HandlerInv
    <3>1. kindOf[handler[f].key] = f /\ pending[handler[f].key] < ver[handler[f].key]
          /\ handler[f].key \in Keys
      BY DEF WatchInv, HandlerInv, TypeOK, Idle
    <3>2. QED BY <1>a, <2>1, <2>2, <3>1
  <2>8. HeldInv' /\ DeleteInv'
    BY <2>1 DEF HeldInv, DeleteInv
  <2>9. QED BY <2>4, <2>6, <2>7, <2>8 DEF WatchInv
<1>8. CASE Receive
  <2>0. PICK k \in Keys : k = Head(chan).key
    <3>1. Head(chan) \in Event
      BY <1>8 DEF Receive, TypeOK
    <3>2. QED BY <3>1 DEF Event
  <2>1. /\ chan # << >> /\ chan' = Tail(chan) /\ seen' = [seen EXCEPT ![k] = ver[k]]
        /\ UNCHANGED <<ver, handler, pending, flushPC, held>>
    BY <1>8, <2>0 DEF Receive
  <2>3. \A j \in Keys : InChan(j) => InChan(j)' \/ j = k
    BY <2>0, <2>1, ReceiveKeys DEF TypeOK
  <2>4. seen'[k] = ver[k] /\ \A j \in Keys : j # k => seen'[j] = seen[j]
    BY <2>1 DEF TypeOK
  <2>5. \A j \in Keys : /\ InHandler(j)' = InHandler(j)
                        /\ Owed(j)' => Owed(j) /\ j # k
    BY <2>1, <2>4 DEF InHandler, Owed
  <2>6. NoEventLost'
    <3> SUFFICES ASSUME NEW j \in Keys, Owed(j)' PROVE Carried(j)'
      BY DEF NoEventLost
    <3>1. Carried(j) /\ j # k
      BY <2>5 DEF WatchInv, NoEventLost
    <3>2. QED BY <2>1, <2>3, <2>5, <3>1 DEF Carried
  <2>7. HandlerInv' /\ PendingInv'
    BY <1>a, <2>1, <2>4 DEF WatchInv, HandlerInv, PendingInv
  <2>8. HeldInv' /\ DeleteInv'
    <3>1. HeldInv'
      BY <1>b, <2>1, <2>5 DEF WatchInv, HeldInv
    <3>2. ASSUME flushPC = "delete", pending[held.key] = held.n, Owed(held.key)'
          PROVE  InChan(held.key)' \/ InHandler(held.key)'
      <4>1. PICK j \in Keys : j = held.key
        BY <1>b, <3>2
      <4>2. Owed(j)' /\ Owed(j) /\ j # k
        BY <2>1, <2>5, <3>2, <4>1 DEF Owed
      <4>3. InChan(j) \/ InHandler(j)
        BY <3>2, <4>1, <4>2 DEF WatchInv, DeleteInv
      <4>4. InChan(j)' \/ InHandler(j)'
        BY <2>3, <2>5, <4>2, <4>3
      <4>5. QED BY <2>1, <4>1, <4>4 DEF InChan, InHandler
    <3>3. QED BY <2>1, <3>1, <3>2 DEF DeleteInv
  <2>9. QED BY <2>6, <2>7, <2>8 DEF WatchInv
<1>9. CASE \/ StartLock \/ StartFactory \/ UNCHANGED vars
           \/ \E c \in Callers : EnsureStart(c) \/ EnsureWait(c) \/ \E g \in Kinds : EnsureLock(c, g)
  BY <1>1, <1>9 DEF StartLock, StartFactory, EnsureStart, EnsureWait, EnsureLock, vars
<1>10. QED
  BY <1>2, <1>3, <1>4, <1>5, <1>6, <1>7, <1>8, <1>9 DEF Next, Flusher

\* WatchInv holds of every reachable state.
LEMMA WatchInvariant == Spec => []WatchInv
<1>1. Init => WatchInv
  <2> SUFFICES ASSUME Init PROVE WatchInv
    OBVIOUS
  <2>1. \A k \in Keys : ver[k] = 0 /\ seen[k] = 0 /\ pending[k] = 0
    BY DEF Init
  <2>2. \A g \in Kinds : handler[g].pc = "idle"
    BY DEF Init, Idle
  <2>3. flushPC = "idle"
    BY DEF Init
  <2>4. QED BY <2>1, <2>2, <2>3 DEF WatchInv, NoEventLost, Owed, HandlerInv, PendingInv, HeldInv, DeleteInv
<1>2. TypeOK /\ WatchInv /\ [Next]_vars => WatchInv'
  BY WatchStep
<1>3. QED BY <1>1, <1>2, TypeCorrect, PTL DEF Spec

\* For every capacity, every set of objects and every interleaving of handlers,
\* flusher and receiver: an object with a notification the controller has not
\* answered has an event in the channel, in the pending map or on its way there.
THEOREM NoLoss == Spec => []NoEventLost
BY WatchInvariant, PTL DEF WatchInv

-----------------------------------------------------------------------------
(* Every registered informer is started *)

StartInv ==
  /\ startPC # "new" => stopSet
  /\ RegisteredRuns

\* The race of Start and EnsureWatch is decided under w.mu: who registers after
\* the stop channel is published starts the informer, who registers before it is
\* covered by Start's own factory.Start.
THEOREM InformersStarted == Spec => []RegisteredRuns
<1>1. Init => StartInv
  BY DEF Init, StartInv, RegisteredRuns
<1>2. TypeOK /\ StartInv /\ [Next]_vars => StartInv'
  <2> SUFFICES ASSUME TypeOK, StartInv, [Next]_vars PROVE StartInv'
    OBVIOUS
  <2>1. CASE StartLock \/ StartFactory
    BY <2>1 DEF StartLock, StartFactory, StartInv, RegisteredRuns
  <2>2. ASSUME NEW c \in Callers, EnsureStart(c) PROVE StartInv'
    BY <2>2 DEF EnsureStart, StartInv, RegisteredRuns, TypeOK
  <2>3. ASSUME NEW c \in Callers, EnsureWait(c) PROVE StartInv'
    BY <2>3 DEF EnsureWait, StartInv, RegisteredRuns, TypeOK
  <2>4. ASSUME NEW c \in Callers, NEW g \in Kinds, EnsureLock(c, g) PROVE StartInv'
    <3>1. startPC' = startPC /\ stopSet' = stopSet /\ running' = running /\ reg' = reg \cup {g}
          /\ callPC[c] = "idle"
          /\ callPC' = [callPC EXCEPT ![c] = IF ~stopSet THEN "idle"
                                             ELSE IF g \in reg THEN "wait" ELSE "start"]
      BY <2>4 DEF EnsureLock
    <3>2. \A d \in Callers : callPC[d] = "start" => callPC'[d] = "start"
      BY <3>1 DEF TypeOK
    <3>3. stopSet /\ g \notin reg => callPC'[c] = "start"
      BY <3>1 DEF TypeOK
    <3>4. QED BY <3>1, <3>2, <3>3 DEF StartInv, RegisteredRuns
  <2>5. CASE UNCHANGED startVars
    BY <2>5 DEF startVars, StartInv, RegisteredRuns
  <2>6. QED
    BY <2>1, <2>2, <2>3, <2>4, <2>5 DEF Next, Flusher, Enqueue, EnqueuePending, SignalFlush,
       FlushWake, FlushPick, FlushSend, FlushDelete, Receive, vars
<1>3. StartInv => RegisteredRuns
  BY DEF StartInv
<1>4. QED BY <1>1, <1>2, <1>3, TypeCorrect, PTL DEF Spec

-----------------------------------------------------------------------------
(* The watcher implements EventDelivery *)

\* A step that changes neither what is owed nor what is carried.
LEMMA SameSets ==
  ASSUME \A j \in Keys : (Owed(j)' <=> Owed(j)) /\ (Carried(j)' <=> Carried(j))
  PROVE  UNCHANGED Promise!vars
<1>1. {j \in Keys : Owed(j)}' = {j \in Keys : Owed(j)}
  OBVIOUS
<1>2. {j \in Keys : Carried(j)}' = {j \in Keys : Carried(j)}
  OBVIOUS
<1>3. QED BY <1>1, <1>2 DEF Promise!vars

\* Every step of the watcher is a step of EventDelivery or leaves it unchanged.
LEMMA PromiseStep ==
  ASSUME TypeOK, WatchInv, [Next]_vars
  PROVE  [Promise!Next]_(Promise!vars)
<1>a. \A k \in Keys : /\ kindOf[k] \in Kinds /\ ver[k] \in Nat /\ seen[k] \in Nat
                      /\ pending[k] \in Nat /\ seen[k] <= ver[k]
  BY ConstantsAssumption DEF TypeOK, WatchInv, PendingInv
<1>b. flushPC \in {"send", "delete"} => held.key \in Keys /\ held.n \in Nat
  BY DEF TypeOK, Event
<1>1. CASE UNCHANGED <<ver, seen, handler, chan, pending>>
  BY <1>1, SameSets DEF Owed, Carried, InChan, InHandler
<1>2. ASSUME NEW k \in Keys, Enqueue(k) PROVE Promise!Notify(k)
  <2>1. /\ handler[kindOf[k]] = Idle
        /\ ver' = [ver EXCEPT ![k] = ver[k] + 1]
        /\ UNCHANGED <<seen, pending>>
    BY <1>2 DEF Enqueue
  <2>2. ver'[k] = ver[k] + 1 /\ \A j \in Keys : j # k => ver'[j] = ver[j]
    BY <2>1 DEF TypeOK
  <2>3. \A j \in Keys : Owed(j)' <=> Owed(j) \/ j = k
    BY <1>a, <2>1, <2>2 DEF Owed
  <2>4. \A j \in Keys : Carried(j)' <=> Carried(j) \/ j = k
    <3>1. CASE Len(chan) < Cap
      <4> DEFINE e == [key |-> k, n |-> ver[k] + 1]
      <4>1. chan' = Append(chan, e) /\ e.key = k /\ handler' = handler
        BY <1>2, <3>1 DEF Enqueue
      <4> HIDE DEF e
      <4>2. \A j \in Keys : InChan(j)' <=> InChan(j) \/ j = k
        BY <4>1, SendKeys DEF TypeOK
      <4>3. \A j \in Keys : InHandler(j)' = InHandler(j)
        BY <4>1 DEF InHandler
      <4>4. QED BY <2>1, <4>2, <4>3 DEF Carried
    <3>2. CASE ~(Len(chan) < Cap)
      <4> DEFINE h == [pc |-> "pending", key |-> k]
      <4>1. chan' = chan /\ handler' = [handler EXCEPT ![kindOf[k]] = h]
        BY <1>2, <3>2 DEF Enqueue
      <4>2. \A j : (h = [pc |-> "pending", key |-> j]) <=> j = k
        OBVIOUS
      <4>3. \A j : Idle # [pc |-> "pending", key |-> j]
        BY DEF Idle
      <4> HIDE DEF h
      <4>4. \A j \in Keys : InHandler(j)' <=> InHandler(j) \/ j = k
        BY <1>a, <2>1, <4>1, <4>2, <4>3 DEF InHandler, TypeOK
      <4>5. \A j \in Keys : InChan(j)' = InChan(j)
        BY <4>1 DEF InChan
      <4>6. QED BY <2>1, <4>4, <4>5 DEF Carried
    <3>3. QED BY <3>1, <3>2
  <2>5. {j \in Keys : Owed(j)}' = {j \in Keys : Owed(j)} \cup {k}
    BY <2>3
  <2>6. {j \in Keys : Carried(j)}' = {j \in Keys : Carried(j)} \cup {k}
    BY <2>4
  <2>7. QED BY <2>5, <2>6 DEF Promise!Notify
<1>3. ASSUME NEW g \in Kinds, EnqueuePending(g) PROVE UNCHANGED Promise!vars
  <2>1. PICK k \in Keys : handler[g] = [pc |-> "pending", key |-> k]
    <3>1. handler[g] \in [pc: {"pending", "signal"}, key: Keys] /\ handler[g].pc = "pending"
      BY <1>3 DEF EnqueuePending, TypeOK, Idle
    <3>2. QED BY <3>1
  <2>2. /\ handler[g].pc = "pending" /\ handler[g].key = k
        /\ kindOf[k] = g /\ pending[k] < ver[k]
    BY <2>1 DEF WatchInv, HandlerInv
  <2>3. /\ pending' = [pending EXCEPT ![k] = ver[k]] /\ UNCHANGED <<ver, seen, chan>>
    BY <1>3, <2>2 DEF EnqueuePending
  <2>4. /\ pending'[k] = ver[k] /\ \A j \in Keys : j # k => pending'[j] = pending[j]
    BY <2>3 DEF TypeOK
  <2>5. /\ handler'[g].pc = "signal"
        /\ \A f \in Kinds : f # g => handler'[f] = handler[f]
    BY <1>3, <2>2 DEF EnqueuePending, TypeOK
  <2>6. InHandler(k) /\ \A j \in Keys : j # k => InHandler(j)' = InHandler(j)
    BY <1>a, <2>1, <2>2, <2>5 DEF InHandler
  <2>7. \A j \in Keys : (Owed(j)' <=> Owed(j)) /\ (InChan(j)' <=> InChan(j))
    BY <2>3 DEF Owed, InChan
  <2>8. \A j \in Keys : Carried(j)' <=> Carried(j)
    BY <1>a, <2>2, <2>4, <2>6, <2>7 DEF Carried
  <2>9. QED BY <2>7, <2>8, SameSets
<1>4. ASSUME NEW g \in Kinds, SignalFlush(g) PROVE UNCHANGED Promise!vars
  <2>1. /\ handler[g].pc = "signal" /\ handler' = [handler EXCEPT ![g] = Idle]
        /\ UNCHANGED <<ver, seen, chan, pending>>
    BY <1>4 DEF SignalFlush
  <2>2. \A j \in Keys : InHandler(j)' <=> InHandler(j)
    BY <1>a, <2>1 DEF InHandler, Idle, TypeOK
  <2>3. \A j \in Keys : (Owed(j)' <=> Owed(j)) /\ (Carried(j)' <=> Carried(j))
    BY <2>1, <2>2 DEF Owed, Carried, InChan
  <2>4. QED BY <2>3, SameSets
<1>5. CASE FlushSend
  <2>1. /\ UNCHANGED <<ver, seen, handler, pending>> /\ pending[held.key] # 0
        /\ chan' = chan \/ chan' = Append(chan, held)
    BY <1>5 DEF FlushSend, WatchInv, HeldInv
  <2>2. \A j \in Keys : /\ InChan(j)' => InChan(j) \/ j = held.key
                        /\ InChan(j) => InChan(j)'
    BY <2>1, SendKeys DEF TypeOK, InChan
  <2>3. \A j \in Keys : (Owed(j)' <=> Owed(j)) /\ (InHandler(j)' <=> InHandler(j))
    BY <2>1 DEF Owed, InHandler
  <2>4. \A j \in Keys : Carried(j)' <=> Carried(j)
    BY <2>1, <2>2, <2>3 DEF Carried
  <2>5. QED BY <2>3, <2>4, SameSets
<1>6. CASE FlushDelete
  <2>1. PICK k \in Keys : k = held.key
    BY <1>6, <1>b DEF FlushDelete
  <2>2. /\ flushPC = "delete" /\ UNCHANGED <<ver, seen, handler, chan>>
        /\ pending'[k] = IF pending[k] = held.n THEN 0 ELSE pending[k]
        /\ \A j \in Keys : j # k => pending'[j] = pending[j]
    BY <1>6, <2>1 DEF FlushDelete, TypeOK
  <2>3. \A j \in Keys : /\ Owed(j)' <=> Owed(j)
                        /\ InHandler(j)' <=> InHandler(j)
                        /\ InChan(j)' <=> InChan(j)
    BY <2>2 DEF Owed, InHandler, InChan
  <2>4. \A j \in Keys : j # k => (Carried(j)' <=> Carried(j))
    BY <2>2, <2>3 DEF Carried
  <2>5. Carried(k)
    BY <2>1, <2>2 DEF Carried, WatchInv, HeldInv
  <2>6. CASE Carried(k)'
    BY <2>3, <2>4, <2>5, <2>6, SameSets
  <2>7. CASE ~Carried(k)'
    <3>1. ~Owed(k)
      BY <2>1, <2>2, <2>3, <2>5, <2>7 DEF Carried, WatchInv, DeleteInv
    <3>2. {j \in Keys : Owed(j)}' = {j \in Keys : Owed(j)}
      BY <2>3
    <3>3. {j \in Keys : Carried(j)}' = {j \in Keys : Carried(j)} \ {k}
      BY <2>4, <2>7
    <3>4. k \in {j \in Keys : Carried(j)} \ {j \in Keys : Owed(j)}
      BY <2>5, <3>1
    <3>5. Promise!Drop(k)
      BY <3>2, <3>3, <3>4 DEF Promise!Drop
    <3>6. QED BY <3>5 DEF Promise!Next
  <2>8. QED BY <2>6, <2>7
<1>7. CASE Receive
  <2>1. PICK k \in Keys : k = Head(chan).key
    <3>1. Head(chan) \in Event
      BY <1>7 DEF Receive, TypeOK
    <3>2. QED BY <3>1 DEF Event
  <2>2. /\ chan # << >> /\ chan' = Tail(chan) /\ seen' = [seen EXCEPT ![k] = ver[k]]
        /\ UNCHANGED <<ver, handler, pending>>
    BY <1>7, <2>1 DEF Receive
  <2>3. \A j \in Keys : /\ InChan(j) => InChan(j)' \/ j = k
                        /\ InChan(j)' => InChan(j)
    BY <2>1, <2>2, ReceiveKeys DEF TypeOK
  <2>4. seen'[k] = ver[k] /\ \A j \in Keys : j # k => seen'[j] = seen[j]
    BY <2>2 DEF TypeOK
  <2>5. \A j \in Keys : /\ InHandler(j)' <=> InHandler(j)
                        /\ Owed(j)' <=> Owed(j) /\ j # k
    BY <2>2, <2>4 DEF InHandler, Owed
  <2>6. \A j \in Keys : j # k => (Carried(j)' <=> Carried(j))
    BY <2>2, <2>3, <2>5 DEF Carried
  <2>7. Carried(k)
    <3>1. 1 \in 1..Len(chan) /\ chan[1] = Head(chan)
      BY <2>2 DEF TypeOK
    <3>2. QED BY <2>1, <3>1 DEF Carried, InChan
  <2>8. {j \in Keys : Owed(j)}' = {j \in Keys : Owed(j)} \ {k}
    BY <2>5
  <2>9. {j \in Keys : Carried(j)}' \in {{j \in Keys : Carried(j)}, {j \in Keys : Carried(j)} \ {k}}
    <3>1. CASE Carried(k)'
      BY <2>6, <2>7, <3>1
    <3>2. CASE ~Carried(k)'
      BY <2>6, <3>2
    <3>3. QED BY <3>1, <3>2
  <2>10. Promise!Deliver(k)
    BY <2>7, <2>8, <2>9 DEF Promise!Deliver
  <2>11. QED BY <2>10 DEF Promise!Next
<1>8. CASE \/ FlushWake \/ FlushPick \/ StartLock \/ StartFactory \/ UNCHANGED vars
           \/ \E c \in Callers : EnsureStart(c) \/ EnsureWait(c) \/ \E g \in Kinds : EnsureLock(c, g)
  BY <1>1, <1>8 DEF FlushWake, FlushPick, StartLock, StartFactory, EnsureStart, EnsureWait,
     EnsureLock, vars, eventVars
<1>9. QED
  BY <1>2, <1>3, <1>4, <1>5, <1>6, <1>7, <1>8 DEF Next, Flusher, Promise!Next

\* The safety part of KeepsPromise, for every value of the constants: whatever
\* the channel, the pending map and the flusher do, the controller is served as
\* by EventDelivery.
THEOREM Refines == Spec => Promise!Spec
<1>1. Init => Promise!Init
  <2> SUFFICES ASSUME Init PROVE Promise!Init
    OBVIOUS
  <2>1. \A k \in Keys : ~Owed(k) /\ ~Carried(k)
    <3> SUFFICES ASSUME NEW k \in Keys PROVE ~Owed(k) /\ ~Carried(k)
      OBVIOUS
    <3>1. ver[k] = 0 /\ seen[k] = 0 /\ pending[k] = 0 /\ Len(chan) = 0
      BY DEF Init
    <3>2. kindOf[k] \in Kinds /\ handler[kindOf[k]].pc = "idle"
      BY ConstantsAssumption DEF Init, Idle
    <3>3. QED BY <3>1, <3>2 DEF Owed, Carried, InChan, InHandler
  <2>2. QED BY <2>1 DEF Promise!Init
<1>2. TypeOK /\ WatchInv /\ [Next]_vars => [Promise!Next]_(Promise!vars)
  BY PromiseStep
<1>3. QED BY <1>1, <1>2, TypeCorrect, WatchInvariant, PTL DEF Spec, Promise!Spec
=============================================================================
