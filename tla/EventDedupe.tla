---------------------------- MODULE EventDedupe ----------------------------
(***************************************************************************)
(* The cache that decides which Kubernetes Events the EKS controllers      *)
(* emit: one signature per object, forgotten after TTL, at most MaxEntries *)
(* objects.  shouldEmit runs under one mutex, so it is one step.           *)
(***************************************************************************)
EXTENDS Integers, FiniteSets

CONSTANTS
  Keys,       \* the objects events are about
  Signatures, \* type, reason and message of an event
  TTL,        \* not positive: entries do not expire
  MaxEntries  \* not positive: no limit

ASSUME DedupeAssumption == TTL \in Int /\ MaxEntries \in Int

VARIABLE last  \* the last event of each object, as a set of entries

Entry(k, s, t) == [key |-> k, sig |-> s, at |-> t]
Entries == [key: Keys, sig: Signatures, at: Nat]

\* Mutated form of IsExpired: the operands of Sub are swapped.
IsExpiredSwapped(t, e) == TTL > 0 /\ e.at - t > TTL

IsExpired(t, e) == TTL > 0 /\ t - e.at > TTL

\* compactLocked
Compacted(t) == {e \in last : ~IsExpired(t, e)}

\* Mutated form of IsFull: the limit is checked before the entry is added.
IsFullLate(cache) == MaxEntries > 0 /\ Cardinality(cache) - 1 > MaxEntries

IsFull(cache) == MaxEntries > 0 /\ Cardinality(cache) > MaxEntries

\* The entries one of which enforceSizeLocked may remove.
Oldest(cache) == {e \in cache : \A f \in cache : e.at <= f.at}

\* enforceSizeLocked: one removal is enough, since a call adds at most one entry
\* to a cache that kept the limit.
Fitted(cache) == IF IsFull(cache) THEN {cache \ {e} : e \in Oldest(cache)} ELSE {cache}

\* The cache with the entry in the place of its key's former one.
With(cache, entry) == {e \in cache : e.key # entry.key} \cup {entry}

\* Mutated form of IsKnown: one event per object and TTL, whatever it says.
IsKnownAny(cache, k, s) == \E e \in cache : e.key = k

\* What is left in the compacted cache has not expired.
IsKnown(cache, k, s) == \E e \in cache : e.key = k /\ e.sig = s

Answer(emit, cache) == [emit |-> emit, cache |-> cache]

\* shouldEmit at time t: its answers, and the cache it leaves with each.
ShouldEmit(k, s, t) ==
  IF IsKnown(Compacted(t), k, s) THEN {Answer(FALSE, Compacted(t))}
  ELSE {Answer(TRUE, cache) : cache \in Fitted(With(Compacted(t), Entry(k, s, t)))}
=============================================================================
