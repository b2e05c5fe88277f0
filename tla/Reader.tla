-------------------------------- MODULE Reader --------------------------------
(***************************************************************************)
(* The background reader of `_schemas` (reader.rs, spawn), the tracker of  *)
(* ordering barriers, and the handlers that wait on a barrier (KafkaStore, *)
(* BarrierGuard).  The reader follows one topic incarnation, rebuilds its  *)
(* store when the topic is replaced or the log no longer has its next      *)
(* offset, and tells waiters of the barriers it has read.                  *)
(*                                                                         *)
(* External: the topic's incarnation, its records, the log cleaner.        *)
(* Transactions are in PrimaryWrites; here every record is committed.      *)
(*                                                                         *)
(* Data abstraction: a record changes the store or is a barrier; the store *)
(* is the set of records folded into it and max_id.  A record that changes *)
(* the store brings an id, its offset, so ids grow along the log.          *)
(***************************************************************************)
EXTENDS Naturals, Sequences, FiniteSets, FiniteSetsExt

CONSTANTS
    Waiters,        \* handlers; each one orders one barrier
    State,          \* a record that changes the store
    Gone,           \* an offset the log cleaner has emptied
    None,           \* no rebuild under way; no barrier ordered
    MaxTopics,      \* bound: incarnations of the topic
    MaxWrites,      \* bound: store-changing records written
    MaxFaults       \* bound: lost connections and failed requests

(* A store, and one under construction with the offset that completes it. *)
Stores   == [records : SUBSET (Nat \X Nat), maxId : Nat]
Rebuilds == [store : Stores, end : Nat]

ASSUME ReaderAssumption ==
    /\ State \notin Waiters /\ Gone \notin Waiters \cup {State}
    /\ None \notin Waiters \cup (Nat \X Nat) \cup Rebuilds
    /\ MaxTopics \in Nat \ {0} /\ MaxWrites \in Nat /\ MaxFaults \in Nat

VARIABLES
    topic,          \* the current incarnation
    log,            \* its records; a waiter stands for its barrier
    start,          \* its log start offset
    pc,             \* where the reader's loop is
    topicId,        \* the incarnation the reader follows
    resolved,       \* the incarnation the last metadata answer named
    low,            \* the log start ListOffsets answered
    next,           \* the next offset to fetch
    live,           \* the store that handlers read
    rebuild,        \* the store being rebuilt, or None
    observed,       \* barriers read and not yet published
    pending,        \* Barriers::pending
    seen,           \* Barriers::seen
    invalidated,    \* Barriers::invalidated
    phase,          \* phase[w]: where handler w is
    changed,        \* changed[w]: the watch has news for w
    at,             \* at[w]: topic and offset of w's barrier, or None
    maxSeen,        \* the largest id read from the incarnation followed
    writes,         \* store-changing records written so far
    faults          \* faults so far

brokerVars  == <<topic, log, start, writes>>
cursorVars  == <<topicId, resolved, low, next>>
storeVars   == <<live, rebuild, observed, maxSeen>>
trackerVars == <<pending, seen, invalidated>>
waitVars    == <<phase, changed, at>>
vars == <<brokerVars, pc, cursorVars, storeVars, trackerVars, waitVars, faults>>

EmptyStore == [records |-> {}, maxId |-> 0]

Init ==
    /\ topic = 1 /\ log = <<>> /\ start = 1 /\ writes = 0
    /\ pc = "connect"
    /\ topicId = 1 /\ resolved = 1 /\ low = 1 /\ next = 1
    /\ live = EmptyStore /\ rebuild = None /\ observed = {} /\ maxSeen = 0
    /\ pending = {} /\ seen = {} /\ invalidated = {}
    /\ phase = [w \in Waiters |-> "idle"]
    /\ changed = [w \in Waiters |-> FALSE]
    /\ at = [w \in Waiters |-> None]
    /\ faults = 0

end == Len(log) + 1

-------------------------------------------------------------------------------
(* The topic. *)

Write ==
    /\ writes < MaxWrites /\ writes' = writes + 1
    /\ log' = Append(log, State)
    /\ UNCHANGED <<topic, start, pc, cursorVars, storeVars, trackerVars, waitVars, faults>>

(* A record whose key has a later one; a barrier's key is its own. *)
Compact ==
    /\ \E i, j \in DOMAIN log :
          /\ i < j /\ log[i] = log[j] /\ log[i] # Gone
          /\ log' = [log EXCEPT ![i] = Gone]
    /\ UNCHANGED <<topic, start, writes, pc, cursorVars, storeVars, trackerVars, waitVars, faults>>

(* Emptied offsets leave the head of the log. *)
Trim ==
    /\ start \in DOMAIN log /\ log[start] = Gone
    /\ start' = start + 1
    /\ UNCHANGED <<topic, log, writes, pc, cursorVars, storeVars, trackerVars, waitVars, faults>>

RecreateTopic ==
    /\ topic < MaxTopics
    /\ topic' = topic + 1 /\ log' = <<>> /\ start' = 1
    /\ UNCHANGED <<writes, pc, cursorVars, storeVars, trackerVars, waitVars, faults>>

-------------------------------------------------------------------------------
(* The barrier tracker and its waiters. *)

Reserve(w) ==
    /\ phase[w] = "idle"
    /\ phase' = [phase EXCEPT ![w] = "reserved"]
    /\ pending' = pending \cup {w}
    /\ UNCHANGED <<brokerVars, pc, cursorVars, storeVars, seen, invalidated, changed, at, faults>>

Order(w) ==
    /\ phase[w] = "reserved"
    /\ phase' = [phase EXCEPT ![w] = "polling"]
    /\ log' = Append(log, w)
    /\ at' = [at EXCEPT ![w] = <<topic, Len(log) + 1>>]
    /\ UNCHANGED <<topic, start, writes, pc, cursorVars, storeVars, trackerVars, changed, faults>>

(* Seeded defect: the token stays pending. *)
EndingForgetful(w, outcome) ==
    /\ phase' = [phase EXCEPT ![w] = outcome]
    /\ seen' = seen \ {w}
    /\ invalidated' = invalidated \ {w}
    /\ UNCHANGED pending

Ending(w, outcome) ==
    /\ phase' = [phase EXCEPT ![w] = outcome]
    /\ pending' = pending \ {w}
    /\ seen' = seen \ {w}
    /\ invalidated' = invalidated \ {w}

(* BarrierTracker::poll, and BarrierGuard::finish or its drop after it,    *)
(* which cancel the token.                                                 *)
Poll(w) ==
    /\ phase[w] = "polling"
    /\ \/ w \in invalidated /\ Ending(w, "failed")
       \/ w \notin invalidated /\ w \in seen /\ Ending(w, "done")
       \/ /\ w \notin invalidated \cup seen
          /\ phase' = [phase EXCEPT ![w] = "asleep"]
          /\ UNCHANGED trackerVars
    /\ UNCHANGED <<brokerVars, pc, cursorVars, storeVars, changed, at, faults>>

Wake(w) ==
    /\ phase[w] = "asleep" /\ changed[w]
    /\ phase' = [phase EXCEPT ![w] = "polling"]
    /\ changed' = [changed EXCEPT ![w] = FALSE]
    /\ UNCHANGED <<brokerVars, pc, cursorVars, storeVars, trackerVars, at, faults>>

(* The deadline passes, the write of the barrier fails or the handler is   *)
(* dropped: the guard's drop cancels the token.                            *)
Timeout(w) ==
    /\ phase[w] \in {"reserved", "polling", "asleep"}
    /\ faults < MaxFaults /\ faults' = faults + 1
    /\ Ending(w, "failed")
    /\ UNCHANGED <<brokerVars, pc, cursorVars, storeVars, changed, at>>

(* The tombstone of the barrier's key, whose token the reader finds again. *)
Clear(w) ==
    /\ phase[w] \in {"done", "failed"}
    /\ phase' = [phase EXCEPT ![w] = "cleared"]
    /\ log' = Append(log, w)
    /\ UNCHANGED <<topic, start, writes, pc, cursorVars, storeVars, trackerVars, changed, at, faults>>

(* barrier_tx.send_modify.  A waiter's receiver is a clone of one that     *)
(* never looked, so news from before its wait counts too.                  *)
Notify == changed' = [w \in Waiters |-> TRUE]

-------------------------------------------------------------------------------
(* The reader's loop. *)

invalidate_all ==
    /\ invalidated' = invalidated \cup pending
    /\ pending' = {} /\ seen' = {}

(* connect_topic_leader answers.  A topic other than the one followed      *)
(* invalidates every barrier before its bounds are asked for.              *)
Connect ==
    /\ pc = "connect"
    /\ resolved' = topic
    /\ IF topic = topicId
       THEN /\ pc' = "fetch"
            /\ UNCHANGED <<observed, trackerVars, changed>>
       ELSE /\ pc' = "bounds"
            /\ observed' = {} /\ invalidate_all /\ Notify
    /\ UNCHANGED <<brokerVars, topicId, low, next, live, rebuild, maxSeen, phase, at, faults>>

(* log_bounds asks for the log start and the log end one after the other,  *)
(* by the topic's name: another incarnation may answer.                    *)
LogStart ==
    /\ pc \in {"bounds", "reset"}
    /\ low' = start
    /\ pc' = IF pc = "bounds" THEN "boundsEnd" ELSE "resetEnd"
    /\ UNCHANGED <<brokerVars, topicId, resolved, next, storeVars, trackerVars, waitVars, faults>>

(* Seeded defect: an interrupted rebuild's high water is lost. *)
BeginRebuildFromLive(preserve) ==
    LET snapshot == [EmptyStore EXCEPT !.maxId = IF preserve THEN live.maxId ELSE 0]
    IN  /\ next' = low
        /\ IF low >= end
           THEN live' = snapshot /\ rebuild' = None
           ELSE rebuild' = [store |-> snapshot, end |-> end] /\ UNCHANGED live

begin_rebuild(preserve) ==
    LET marks    == {live.maxId} \cup (IF rebuild = None THEN {} ELSE {rebuild.store.maxId})
        snapshot == [EmptyStore EXCEPT !.maxId = IF preserve THEN Max(marks) ELSE 0]
    IN  /\ next' = low
        /\ IF low >= end
           THEN live' = snapshot /\ rebuild' = None
           ELSE rebuild' = [store |-> snapshot, end |-> end] /\ UNCHANGED live

FollowReplacement ==
    /\ pc = "boundsEnd" /\ pc' = "fetch"
    /\ begin_rebuild(FALSE)
    /\ topicId' = resolved /\ maxSeen' = 0
    /\ UNCHANGED <<brokerVars, resolved, low, observed, trackerVars, waitVars, faults>>

ResetToLogStart ==
    /\ pc = "resetEnd" /\ pc' = "fetch"
    /\ begin_rebuild(TRUE)
    /\ UNCHANGED <<brokerVars, topicId, resolved, low, observed, maxSeen, trackerVars, waitVars, faults>>

(* A request fails or the connection is lost. *)
Reconnect ==
    /\ pc # "connect" /\ pc' = "connect"
    /\ faults < MaxFaults /\ faults' = faults + 1
    /\ UNCHANGED <<brokerVars, cursorVars, storeVars, trackerVars, waitVars>>

(* A fetch names the incarnation; one that is gone is an unknown topic id. *)
RefreshTopic ==
    /\ pc = "fetch" /\ topicId # topic
    /\ pc' = "connect"
    /\ UNCHANGED <<brokerVars, cursorVars, storeVars, trackerVars, waitVars, faults>>

OffsetOutOfRange ==
    /\ pc = "fetch" /\ topicId = topic
    /\ next < start \/ next > end
    /\ pc' = "reset"
    /\ UNCHANGED <<brokerVars, cursorVars, storeVars, trackerVars, waitVars, faults>>

(* A store with the records of offsets next..last folded in. *)
Applied(store, last) ==
    LET offsets == {i \in next..last : log[i] = State}
    IN  [records |-> store.records \cup {<<topicId, i>> : i \in offsets},
         maxId   |-> Max(offsets \cup {store.maxId})]

(* BarrierTracker::observe, for each of a set of tokens *)
observe(tokens) ==
    /\ seen' = seen \cup (tokens \cap pending)
    /\ UNCHANGED <<pending, invalidated>>

(* The fold of a fetch, into the rebuild while there is one, which becomes *)
(* the live store once its end is reached (complete_rebuild).              *)
Fold(last) ==
    /\ next' = last + 1
    /\ maxSeen' = Max({maxSeen} \cup {i \in next..last : log[i] = State})
    /\ \/ rebuild = None /\ live' = Applied(live, last) /\ UNCHANGED rebuild
       \/ /\ rebuild # None /\ next' >= rebuild.end
          /\ live' = Applied(rebuild.store, last) /\ rebuild' = None
       \/ /\ rebuild # None /\ next' < rebuild.end
          /\ rebuild' = [rebuild EXCEPT !.store = Applied(@, last)]
          /\ UNCHANGED live

(* Seeded defects: waiters learn of a barrier before the rebuild that      *)
(* covers it is done; a fetch publishes only the barriers of earlier ones. *)
PublishEager(read) == observe(read) /\ observed' = {} /\ Notify
PublishLate(read) ==
    IF rebuild' = None
    THEN observe(observed) /\ observed' = read \ observed /\ Notify
    ELSE observed' = read /\ UNCHANGED <<trackerVars, changed>>

Publish(read) ==
    IF rebuild' = None
    THEN observe(read) /\ observed' = {} /\ Notify
    ELSE observed' = read /\ UNCHANGED <<trackerVars, changed>>

(* A fetch of the records up to any offset. *)
Fetch ==
    /\ pc = "fetch" /\ topicId = topic /\ next >= start
    /\ \E last \in next..Len(log) :
          /\ Fold(last)
          /\ Publish(observed \cup ({log[i] : i \in next..last} \ {State, Gone}))
    /\ UNCHANGED <<brokerVars, pc, topicId, resolved, low, phase, at, faults>>

-------------------------------------------------------------------------------
Loop == Connect \/ LogStart \/ FollowReplacement \/ ResetToLogStart
        \/ RefreshTopic \/ OffsetOutOfRange \/ Fetch

Next ==
    \/ Write \/ Compact \/ Trim \/ RecreateTopic
    \/ Loop \/ Reconnect
    \/ \E w \in Waiters : Reserve(w) \/ Order(w) \/ Poll(w) \/ Wake(w) \/ Timeout(w) \/ Clear(w)

-------------------------------------------------------------------------------

(* A handler whose barrier was seen wrote it to the incarnation followed,  *)
(* and finds every record the log has before it in the live store, which   *)
(* mixes no two incarnations, whatever rebuilds the reader went through    *)
(* (reader.rs, "Publish only after applying visible records",              *)
(* BarrierTracker::invalidate_all).                                        *)
SeenIsApplied ==
    /\ \A q, r \in live.records : q[1] = r[1]
    /\ \A w \in seen : at[w] # None =>
          /\ at[w][1] = topicId
          /\ at[w][1] = topic =>
                {<<topic, i>> : i \in {j \in 1..at[w][2] : log[j] = State}} \subseteq live.records

(* The tracker holds no token of a handler that has ended, so its sets are *)
(* bounded by the handlers in flight (BarrierTracker::cancel).             *)
NoTokenLeaks ==
    \A w \in pending \cup seen \cup invalidated :
        phase[w] \in {"reserved", "polling", "asleep"}

(* When no rebuild is under way, max_id covers every id ever read from the *)
(* incarnation followed, so a reset to the log start brings no id back     *)
(* (begin_rebuild, preserve_id_high_water).                                *)
IdHighWaterKept == rebuild = None => live.maxId >= maxSeen

(* A handler that waits for its barrier is told, with no deadline to help  *)
(* it: the record is read in the end, or the topic was replaced            *)
(* (KafkaStore::start waits without a deadline, await_barrier_rx).         *)
WaitersAnswered ==
    \A w \in Waiters : phase[w] \in {"polling", "asleep"} ~> phase[w] \in {"done", "failed"}

===============================================================================
