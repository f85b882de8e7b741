--------------------------- MODULE RotatorEvents ---------------------------
(***************************************************************************)
(* The rotator with the events it emits about its Cluster, through the     *)
(* dedupe cache it shares with the other Clusters of the process.  Every   *)
(* action is one of KubeconfigRotator's with what it says, or the events   *)
(* of the other Clusters, which take room in the cache.                    *)
(***************************************************************************)
EXTENDS KubeconfigRotator, EventDedupe

CONSTANT Me  \* the key of the rotator's Cluster

ASSUME MeAssumption ==
  /\ Me \in Keys
  /\ Signatures = {"notReady", "tokenError", "probeForeign", "execForeign",
                   "probeTakenOver", "execTakenOver", "synced"}

Nothing == Entry(Me, "nothing", 0)

VARIABLES
  changed,  \* the run has written a Secret
  told,     \* the last event of the Cluster that was emitted, and when
  said      \* the last event a run had to report, and when

eventVars == <<last, changed, told, said>>
evars == <<vars, eventVars>>

EventTypeOK ==
  /\ last \subseteq Entries /\ changed \in BOOLEAN
  /\ {told, said} \subseteq Entries \cup {Nothing}

EInit ==
  /\ Init
  /\ last = {} /\ changed = FALSE
  /\ told = Nothing /\ said = Nothing

\* emitEvent
Says(s) ==
  /\ \E r \in ShouldEmit(Me, s, now) :
       /\ last' = r.cache
       /\ told' = IF r.emit THEN Entry(Me, s, now) ELSE told
  /\ said' = Entry(Me, s, now)
Silent == UNCHANGED <<last, told, said>>

About(n, probe, exec) == IF n = "probe" THEN probe ELSE exec

\* What the waiting returns report, a Secret that is somebody else's, one that
\* was taken over, and at the end that something was written.
Reports ==
  \/ StartReconcile /\ changed' = FALSE /\ Silent
  \/ NotReady /\ UNCHANGED changed /\ (Says("notReady") \/ Says("tokenError"))
  \/ GenerateToken /\ UNCHANGED changed /\ Silent
  \/ /\ GetSecret /\ UNCHANGED changed
     /\ IF pc' = "write" THEN Silent
        ELSE Says(About(w.name, "probeForeign", "execForeign"))
  \/ /\ WriteSecret /\ changed' = (changed \/ secret' # secret)
     /\ IF secret' # secret /\ w.got.kind = "foreign"
        THEN Says(About(w.name, "probeTakenOver", "execTakenOver")) ELSE Silent
  \/ Finish /\ UNCHANGED changed /\ (IF changed THEN Says("synced") ELSE Silent)
  \/ CallFails /\ UNCHANGED changed /\ Silent

\* The reconciler's events of another Cluster.
OtherSays ==
  /\ \E k \in Keys \ {Me} : \E r \in ShouldEmit(k, "notReady", now) : last' = r.cache
  /\ UNCHANGED <<vars, changed, told, said>>

ENext ==
  \/ Reports \/ OtherSays
  \/ (Tick \/ Event \/ UserActs) /\ UNCHANGED eventVars
  \/ Event /\ last' = {} /\ UNCHANGED <<changed, told, said>>  \* a restart

ESpec == EInit /\ [][ENext]_evars

-----------------------------------------------------------------------------
(* Properties *)

\* The last event on the Cluster says what the last run had to report: whatever
\* is suppressed, evicted, forgotten at a restart or said about other Clusters in
\* between, an old message never stands for a new state.
LastEventIsCurrent == told.sig = said.sig

\* A problem that lasts stays visible: when a run reports something, the event
\* that says so is not older than TTL, so one message is repeated once per TTL.
ProblemsAreRepeated == TTL > 0 => said.at - told.at <= TTL

\* The cache does not grow past its limit.
CacheIsBounded == MaxEntries > 0 => Cardinality(last) <= MaxEntries
=============================================================================
