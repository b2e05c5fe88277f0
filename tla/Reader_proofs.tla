----------------------------- MODULE Reader_proofs -----------------------------
(***************************************************************************)
(* Theorems about a node that has made sure of its topic and reads it, for *)
(* any number of handlers and any bounds: what a handler is told about its *)
(* barrier is true of the store it reads, the tracker keeps no token too   *)
(* long, and max_id outlives a reset to the log start.                     *)
(***************************************************************************)
EXTENDS Bootstrap, WellFoundedInduction, TLAPS

-------------------------------------------------------------------------------
(* The inductive invariant. *)

Active == {"reserved", "polling", "asleep"}
Phases == Active \cup {"idle", "done", "failed", "cleared"}
Loops == {"connect", "bounds", "boundsEnd", "reset", "resetEnd", "fetch"}

TopicType ==
    /\ topic \in Nat /\ topicId \in Nat /\ resolved \in Nat
    /\ log \in Seq(Waiters \cup {State, Gone})
    /\ start \in Nat \ {0} /\ start <= Len(log) + 1
    /\ low \in Nat \ {0} /\ next \in Nat \ {0}
    /\ pc \in Loops
StoreType ==
    /\ live \in Stores /\ rebuild \in {None} \cup Rebuilds /\ maxSeen \in Nat
    /\ observed \subseteq Waiters
WaitType ==
    /\ pending \subseteq Waiters /\ seen \subseteq Waiters /\ invalidated \subseteq Waiters
    /\ phase \in [Waiters -> Phases]
    /\ at \in [Waiters -> {None} \cup (Nat \X Nat)]

(* The incarnation followed is no later than the current one, and one that *)
(* is given up leaves nothing to tell.                                     *)
TopicInv ==
    /\ topicId <= topic /\ resolved <= topic
    /\ pc \in {"bounds", "boundsEnd"} => topicId < resolved /\ seen = {} /\ observed = {}

(* The head of the log is empty up to its start, and what ListOffsets      *)
(* answered is no further than that, unless the topic was replaced.        *)
StartInv ==
    /\ \A j \in 1..(start - 1) : log[j] = Gone
    /\ pc = "boundsEnd" /\ resolved = topic => low <= start
    /\ pc = "resetEnd" /\ topicId = topic => low <= start
    /\ topicId = topic => next <= Len(log) + 1

(* Tokens: who holds one, and where its barrier is. *)
TokenInv ==
    /\ NoTokenLeaks /\ seen \subseteq pending
    /\ \A w \in Waiters : phase[w] \in {"idle", "reserved"} =>
          /\ at[w] = None /\ w \notin observed
          /\ \A i \in 1..Len(log) : log[i] # w
    /\ \A w \in Waiters : phase[w] \in {"polling", "asleep"} =>
          \A i \in 1..Len(log) : log[i] = w => at[w] = <<topic, i>>
    /\ \A w \in Waiters : at[w] # None =>
          at[w][1] <= topic /\ (at[w][1] = topic => at[w][2] <= Len(log))

(* A barrier that was read lies behind the reader, or will when the        *)
(* rebuild is done.                                                        *)
Behind(n) == n < next \/ (rebuild # None /\ n < rebuild.end)
ReadInv ==
    \A w \in pending \cap (observed \cup seen) :
        at[w] # None /\ at[w][1] = topicId /\ (topicId = topic => Behind(at[w][2]))

(* The store that is folded into has every record behind the reader, all   *)
(* of the incarnation followed, and the largest id seen.                   *)
Folding == IF rebuild = None THEN live ELSE rebuild.store
FoldInv ==
    /\ topicId = topic => \A j \in 1..Len(log) :
          j < next /\ log[j] = State => <<topic, j>> \in Folding.records
    /\ \A r \in Folding.records : r[1] = topicId
    /\ Folding.maxId >= maxSeen

(* SeenIsApplied, record by record. *)
SeenInv ==
    /\ \A q, r \in live.records : q[1] = r[1]
    /\ \A w \in seen : at[w] # None =>
          /\ at[w][1] = topicId
          /\ at[w][1] = topic => \A j \in 1..at[w][2] :
                log[j] = State => <<topic, j>> \in live.records

ReaderInv ==
    /\ TopicType /\ StoreType /\ WaitType
    /\ TopicInv /\ StartInv /\ TokenInv /\ ReadInv /\ FoldInv /\ SeenInv

(* Before the start is done the reader has read nothing. *)
BootInv ==
    stage # "started" =>
        /\ pc = "connect" /\ log = <<>> /\ start = 1 /\ next = 1
        /\ live = EmptyStore /\ rebuild = None /\ observed = {} /\ maxSeen = 0
        /\ pending = {} /\ seen = {} /\ invalidated = {}
        /\ \A w \in Waiters : phase[w] = "idle" /\ at[w] = None

USE DEF brokerVars, cursorVars, storeVars, trackerVars, waitVars

-------------------------------------------------------------------------------
(* The operators. *)

(* A bounded set of numbers has a largest one. *)
LEMMA MaxFacts ==
    ASSUME NEW S, S \subseteq Nat, S # {}, NEW n \in Nat, \A x \in S : x <= n
    PROVE  Max(S) \in S /\ Max(S) \in Nat /\ \A x \in S : Max(S) >= x
  <1> DEFINE T == {n - x : x \in S}
  <1>1. T \subseteq Nat /\ T # {}
    <2>1. \A x \in S : n - x \in Nat
      OBVIOUS
    <2> QED  BY <2>1, Zenon
  <1>2. PICK m \in T : \A y \in T : <<y, m>> \notin OpToRel(<, Nat)
    <2> HIDE DEF T
    <2> QED  BY <1>1, NatLessThanWellFounded, WFMin, Zenon
  <1>3. \A a, b \in Nat : a < b => <<a, b>> \in OpToRel(<, Nat)
    BY DEF OpToRel
  <1>4. \A y \in T : ~(y < m)
    <2> HIDE DEF T
    <2> QED  BY <1>1, <1>2, <1>3, Zenon
  <1>5. PICK x \in S : m = n - x
    OBVIOUS
  <1>6. \A y \in S : ~(n - y < n - x)
    BY <1>4, <1>5, Zenon
  <1> HIDE DEF T
  <1>7. \A y \in S : x >= y
    BY <1>6
  <1>8. Max(S) \in S /\ \A y \in S : Max(S) >= y
    BY <1>7, Zenon DEF Max
  <1> QED  BY <1>8, Zenon

(* What a record appended to the log leaves as it was. *)
LEMMA AppendFacts ==
    ASSUME NEW S, NEW l \in Seq(S), NEW e \in S
    PROVE  /\ Append(l, e) \in Seq(S) /\ Len(Append(l, e)) = Len(l) + 1
           /\ Len(l) \in Nat
           /\ \A i \in 1..Len(l) : Append(l, e)[i] = l[i]
           /\ Append(l, e)[Len(l) + 1] = e
  OBVIOUS

-------------------------------------------------------------------------------
(* The topic. *)

(* A record at the end of the log: a change of the store, a handler's      *)
(* barrier, or its tombstone once the handler has ended.                   *)
LEMMA AppendStep ==
    ASSUME ReaderInv, NEW e \in Waiters \cup {State}, log' = Append(log, e),
           UNCHANGED <<topic, start, pc, cursorVars, storeVars, trackerVars>>,
           \/ e = State /\ UNCHANGED <<phase, at>>
           \/ /\ e \in Waiters /\ phase[e] = "reserved"
              /\ phase' = [phase EXCEPT ![e] = "polling"]
              /\ at' = [at EXCEPT ![e] = <<topic, Len(log) + 1>>]
           \/ /\ e \in Waiters /\ phase[e] \in {"done", "failed"}
              /\ phase' = [phase EXCEPT ![e] = "cleared"] /\ at' = at
    PROVE  ReaderInv'
  <1>1. /\ log' \in Seq(Waiters \cup {State, Gone}) /\ Len(log') = Len(log) + 1
        /\ Len(log) \in Nat
        /\ \A i \in 1..Len(log) : log'[i] = log[i]
        /\ log'[Len(log) + 1] = e
    BY AppendFacts DEF ReaderInv, TopicType
  <1>2. TopicType' /\ StoreType' /\ TopicInv' /\ StartInv'
    BY <1>1 DEF ReaderInv, TopicType, StoreType, TopicInv, StartInv
  <1>3. WaitType'
    <2>1. <<topic, Len(log) + 1>> \in Nat \X Nat
      BY <1>1 DEF ReaderInv, TopicType
    <2> QED  BY <2>1 DEF ReaderInv, WaitType, Phases, Active
  <1>4. TokenInv'
    <2>1. NoTokenLeaks' /\ (seen \subseteq pending)'
      BY DEF ReaderInv, WaitType, TokenInv, NoTokenLeaks
    <2>2. \A w \in Waiters : phase'[w] \in {"idle", "reserved"} =>
            phase'[w] = phase[w] /\ at'[w] = at[w] /\ e # w
      BY ReaderAssumption DEF ReaderInv, WaitType
    <2>3. \A w \in Waiters : phase'[w] \in {"polling", "asleep"} =>
            \/ phase'[w] = phase[w] /\ at'[w] = at[w] /\ e # w
            \/ e = w /\ phase[w] = "reserved" /\ at'[w] = <<topic, Len(log) + 1>>
      BY ReaderAssumption DEF ReaderInv, WaitType
    <2>4. \A w \in Waiters : at'[w] = at[w] \/ at'[w] = <<topic, Len(log) + 1>>
      BY DEF ReaderInv, WaitType
    <2>5. \A w \in Waiters : phase'[w] \in {"idle", "reserved"} =>
            /\ at'[w] = None /\ w \notin observed'
            /\ \A i \in 1..Len(log') : log'[i] # w
      BY <1>1, <2>2 DEF ReaderInv, TokenInv
    <2>6. \A w \in Waiters : phase'[w] \in {"polling", "asleep"} =>
            \A i \in 1..Len(log') : log'[i] = w => at'[w] = <<topic, i>>
      BY <1>1, <2>3 DEF ReaderInv, TokenInv
    <2>7. \A w \in Waiters : at'[w] # None =>
            at'[w][1] <= topic /\ (at'[w][1] = topic => at'[w][2] <= Len(log'))
      BY <1>1, <2>4 DEF ReaderInv, TopicType, WaitType, TokenInv
    <2> QED  BY <2>1, <2>5, <2>6, <2>7, Zenon DEF TokenInv
  <1>5. \A w \in pending : at[w] # None => at'[w] = at[w]
    BY DEF ReaderInv, WaitType, TokenInv, NoTokenLeaks
  <1>6. ReadInv'
    BY <1>1, <1>5 DEF ReaderInv, ReadInv, Behind
  <1>7. FoldInv'
    BY <1>1 DEF ReaderInv, TopicType, StartInv, FoldInv, Folding
  <1>8. SeenInv'
    <2>1. \A w \in seen : at[w] # None /\ at'[w] = at[w]
      BY <1>5 DEF ReaderInv, TokenInv, ReadInv
    <2>2. \A w \in seen : at[w][1] = topic => \A j \in 1..at[w][2] : log'[j] = log[j]
      BY <1>1, <2>1 DEF ReaderInv, WaitType, TokenInv
    <2>3. ASSUME NEW w \in seen, at[w][1] = topic, NEW j \in 1..at[w][2], log'[j] = State
          PROVE  <<topic, j>> \in live.records
      BY <2>1, <2>2, <2>3, Zenon DEF ReaderInv, SeenInv
    <2> QED  BY <2>1, <2>3, Zenon DEF ReaderInv, SeenInv
  <1> QED  BY <1>2, <1>3, <1>4, <1>6, <1>7, <1>8 DEF ReaderInv

(* The log cleaner empties an offset. *)
LEMMA CompactStep ==
    ASSUME ReaderInv, Compact
    PROVE  ReaderInv'
  <1>1. /\ log' \in Seq(Waiters \cup {State, Gone}) /\ Len(log') = Len(log)
        /\ Len(log) \in Nat
        /\ \A i \in 1..Len(log) : log'[i] \in {log[i], Gone}
    BY DEF ReaderInv, TopicType, Compact
  <1>2. TopicType' /\ StoreType' /\ WaitType' /\ TopicInv' /\ StartInv' /\ ReadInv'
    BY <1>1 DEF ReaderInv, TopicType, StoreType, WaitType, TopicInv, StartInv, ReadInv,
                Behind, Compact
  <1>3. TokenInv'
    BY <1>1, ReaderAssumption DEF ReaderInv, WaitType, TokenInv, NoTokenLeaks, Compact
  <1>4. FoldInv'
    BY <1>1, ReaderAssumption DEF ReaderInv, TopicType, FoldInv, Folding, Compact
  <1>5. SeenInv'
    <2>1. \A w \in seen : at[w] # None /\ at[w] \in Nat \X Nat
      BY DEF ReaderInv, WaitType, TokenInv, ReadInv
    <2>2. \A w \in seen : at[w][1] = topic => \A j \in 1..at[w][2] : log'[j] \in {log[j], Gone}
      BY <1>1, <2>1 DEF ReaderInv, TokenInv, WaitType
    <2> QED  BY <2>1, <2>2, ReaderAssumption DEF ReaderInv, SeenInv, Compact
  <1> QED  BY <1>2, <1>3, <1>4, <1>5 DEF ReaderInv

(* Emptied offsets leave the head of the log. *)
LEMMA TrimStep ==
    ASSUME ReaderInv, Trim
    PROVE  ReaderInv'
  <1>1. TopicType' /\ StoreType' /\ WaitType' /\ TopicInv'
    BY DEF ReaderInv, TopicType, StoreType, WaitType, TopicInv, Trim
  <1>2. StartInv'
    BY DEF ReaderInv, TopicType, StartInv, Trim
  <1>3. TokenInv' /\ ReadInv' /\ FoldInv' /\ SeenInv'
    BY DEF ReaderInv, TokenInv, NoTokenLeaks, ReadInv, Behind, FoldInv, Folding, SeenInv, Trim
  <1> QED  BY <1>1, <1>2, <1>3 DEF ReaderInv

(* The topic is replaced: nothing the reader knows is about the new one. *)
LEMMA RecreateStep ==
    ASSUME ReaderInv, RecreateTopic
    PROVE  ReaderInv'
  <1>1. /\ TopicType' /\ StoreType' /\ WaitType' /\ TopicInv' /\ StartInv'
        /\ topicId < topic' /\ Len(log') = 0
    BY DEF ReaderInv, TopicType, StoreType, WaitType, TopicInv, StartInv, RecreateTopic
  <1>2. TokenInv'
    BY <1>1 DEF ReaderInv, TopicType, WaitType, TokenInv, NoTokenLeaks, RecreateTopic
  <1>3. ReadInv' /\ FoldInv'
    BY <1>1 DEF ReaderInv, TopicType, ReadInv, FoldInv, Folding, RecreateTopic
  <1>4. SeenInv'
    BY <1>1 DEF ReaderInv, TopicType, SeenInv, RecreateTopic
  <1> QED  BY <1>1, <1>2, <1>3, <1>4 DEF ReaderInv

-------------------------------------------------------------------------------
(* The handlers. *)

(* A handler that stays active, before or after its barrier. *)
LEMMA ActiveStep ==
    ASSUME ReaderInv, NEW w \in Waiters, NEW p \in Active,
           phase' = [phase EXCEPT ![w] = p],
           \/ phase[w] = "idle" /\ p = "reserved" /\ pending' = pending \cup {w}
           \/ phase[w] \in {"polling", "asleep"} /\ p # "reserved" /\ pending' = pending,
           UNCHANGED <<brokerVars, pc, cursorVars, storeVars, seen, invalidated, at>>
    PROVE  ReaderInv'
  <1>1. TopicType' /\ StoreType' /\ TopicInv' /\ StartInv' /\ FoldInv' /\ SeenInv'
    BY DEF ReaderInv, TopicType, StoreType, TopicInv, StartInv, FoldInv, Folding, SeenInv
  <1>2. WaitType'
    BY DEF ReaderInv, WaitType, Phases, Active
  <1>3. TokenInv'
    BY DEF ReaderInv, WaitType, TokenInv, NoTokenLeaks, Phases, Active
  <1>4. ReadInv'
    <2>1. \A v \in pending' \cap (observed \cup seen) : v \in pending
      BY DEF ReaderInv, TokenInv, NoTokenLeaks
    <2> QED  BY <2>1 DEF ReaderInv, ReadInv, Behind
  <1> QED  BY <1>1, <1>2, <1>3, <1>4 DEF ReaderInv

(* A handler that ends takes its token along. *)
LEMMA EndingStep ==
    ASSUME ReaderInv, NEW w \in Waiters, NEW outcome \in {"done", "failed"},
           Ending(w, outcome),
           UNCHANGED <<brokerVars, pc, cursorVars, storeVars, at>>
    PROVE  ReaderInv'
  <1>1. TopicType' /\ StoreType' /\ TopicInv' /\ StartInv' /\ FoldInv' /\ SeenInv'
    BY DEF ReaderInv, TopicType, StoreType, TopicInv, StartInv, FoldInv, Folding, SeenInv,
           Ending
  <1>2. WaitType'
    BY DEF ReaderInv, WaitType, Phases, Active, Ending
  <1>3. TokenInv'
    BY DEF ReaderInv, WaitType, TokenInv, NoTokenLeaks, Phases, Active, Ending
  <1>4. ReadInv'
    BY DEF ReaderInv, ReadInv, Behind, Ending
  <1> QED  BY <1>1, <1>2, <1>3, <1>4 DEF ReaderInv

-------------------------------------------------------------------------------
(* The loop of the reader. *)

(* A step that only moves the loop. *)
LEMMA LoopStep ==
    ASSUME ReaderInv, pc' \in {"connect", "reset", "fetch"},
           topic' = topic /\ resolved' \in {resolved, topic},
           UNCHANGED <<log, start, topicId, low, next, storeVars, trackerVars, phase, at>>
    PROVE  ReaderInv'
  <1>1. TopicType' /\ StoreType' /\ WaitType' /\ TopicInv' /\ StartInv'
    BY DEF ReaderInv, TopicType, StoreType, WaitType, TopicInv, StartInv, Loops
  <1>2. TokenInv' /\ ReadInv' /\ FoldInv' /\ SeenInv'
    BY DEF ReaderInv, TokenInv, NoTokenLeaks, ReadInv, Behind, FoldInv, Folding, SeenInv
  <1> QED  BY <1>1, <1>2 DEF ReaderInv

(* Another incarnation: every token is invalidated. *)
LEMMA ConnectStep ==
    ASSUME ReaderInv, Connect
    PROVE  ReaderInv'
  <1>1. CASE topic = topicId
    BY <1>1, LoopStep DEF Connect
  <1>2. CASE topic # topicId
    <2>1. /\ pc' = "bounds" /\ resolved' = topic
          /\ observed' = {} /\ pending' = {} /\ seen' = {}
          /\ invalidated' = invalidated \cup pending
      BY <1>2 DEF Connect, invalidate_all
    <2>2. TopicType' /\ StoreType' /\ WaitType'
      BY <2>1 DEF ReaderInv, TopicType, StoreType, WaitType, Loops, Connect
    <2>3. TopicInv' /\ StartInv'
      BY <1>2, <2>1 DEF ReaderInv, TopicType, TopicInv, StartInv, Connect
    <2>4. TokenInv' /\ ReadInv'
      BY <2>1 DEF ReaderInv, TokenInv, NoTokenLeaks, ReadInv, Connect
    <2>5. FoldInv' /\ SeenInv'
      BY <2>1 DEF ReaderInv, FoldInv, Folding, SeenInv, Connect
    <2> QED  BY <2>2, <2>3, <2>4, <2>5 DEF ReaderInv
  <1> QED  BY <1>1, <1>2, Zenon

(* The log start is asked for. *)
LEMMA LogStartStep ==
    ASSUME ReaderInv, LogStart
    PROVE  ReaderInv'
  <1>1. TopicType' /\ StoreType' /\ WaitType' /\ TopicInv' /\ StartInv'
    BY DEF ReaderInv, TopicType, StoreType, WaitType, TopicInv, StartInv, Loops, LogStart
  <1>2. TokenInv' /\ ReadInv' /\ FoldInv' /\ SeenInv'
    BY DEF ReaderInv, TokenInv, NoTokenLeaks, ReadInv, Behind, FoldInv, Folding, SeenInv,
           LogStart
  <1> QED  BY <1>1, <1>2 DEF ReaderInv

-------------------------------------------------------------------------------
(* Rebuilds. *)

(* The store a rebuild begins with: empty, and behind the log start there  *)
(* is nothing; a reset keeps the largest id seen.                          *)
Begun(preserve) ==
    /\ live' \in Stores /\ rebuild' \in {None} \cup Rebuilds /\ next' = low
    /\ Folding'.records = {} /\ Folding'.maxId \in Nat
    /\ preserve => Folding'.maxId >= maxSeen
    /\ \/ low >= Len(log) + 1 /\ rebuild' = None /\ live'.records = {}
       \/ low < Len(log) + 1 /\ rebuild' # None /\ rebuild'.end = Len(log) + 1 /\ live' = live

(* What begin_rebuild does. *)
LEMMA RebuildBegins ==
    ASSUME ReaderInv, NEW preserve \in BOOLEAN, begin_rebuild(preserve)
    PROVE  Begun(preserve)
  <1> DEFINE marks == {live.maxId} \cup (IF rebuild = None THEN {} ELSE {rebuild.store.maxId})
             top   == IF preserve THEN Max(marks) ELSE 0
             snapshot == [EmptyStore EXCEPT !.maxId = top]
  <1>1. live \in Stores /\ (rebuild # None => rebuild \in Rebuilds) /\ Len(log) \in Nat
        /\ low \in Nat /\ maxSeen \in Nat
    BY DEF ReaderInv, TopicType, StoreType
  <1>2. /\ marks \subseteq Nat /\ marks # {} /\ Folding.maxId \in marks
        /\ \E n \in Nat : \A x \in marks : x <= n
    <2>1. live.maxId \in Nat /\ (rebuild # None => rebuild.store.maxId \in Nat)
      BY <1>1 DEF Stores, Rebuilds
    <2>2. CASE rebuild = None
      BY <2>1, <2>2 DEF Folding
    <2>3. CASE rebuild # None
      <3>1. marks = {live.maxId, rebuild.store.maxId}
        BY <2>3
      <3> HIDE DEF marks
      <3>2. \E n \in Nat : live.maxId <= n /\ rebuild.store.maxId <= n
        <4>1. live.maxId <= live.maxId + rebuild.store.maxId
              /\ rebuild.store.maxId <= live.maxId + rebuild.store.maxId
              /\ live.maxId + rebuild.store.maxId \in Nat
          BY <2>1, <2>3
        <4> QED  BY <4>1, Zenon
      <3> QED  BY <2>1, <2>3, <3>1, <3>2, Zenon DEF Folding
    <2> QED  BY <2>2, <2>3, Zenon
  <1> HIDE DEF marks
  <1>3. Max(marks) \in Nat /\ Max(marks) >= Folding.maxId
    BY <1>2, MaxFacts, Zenon
  <1>4. top \in Nat /\ (preserve => top >= maxSeen)
    <2>1. Folding.maxId \in Nat /\ Folding.maxId >= maxSeen
      BY <1>2, Zenon DEF ReaderInv, FoldInv
    <2> QED  BY <1>1, <1>3, <2>1
  <1>5. snapshot = [records |-> {}, maxId |-> top]
    BY DEF EmptyStore
  <1> HIDE DEF top, snapshot
  <1>6. snapshot \in Stores /\ snapshot.records = {} /\ snapshot.maxId = top
    BY <1>4, <1>5 DEF Stores
  <1>7. /\ next' = low
        /\ IF low >= end THEN live' = snapshot /\ rebuild' = None
           ELSE rebuild' = [store |-> snapshot, end |-> end] /\ UNCHANGED live
    BY Zenon DEF begin_rebuild, snapshot, top, marks
  <1>8. CASE low >= end
    BY <1>1, <1>4, <1>6, <1>7, <1>8 DEF Begun, Folding, end
  <1>9. CASE ~(low >= end)
    <2>1. /\ rebuild' \in Rebuilds /\ rebuild'.store = snapshot /\ rebuild'.end = end
          /\ live' = live /\ next' = low
      BY <1>1, <1>6, <1>7, <1>9 DEF Rebuilds, end
    <2>2. rebuild' # None
      BY <2>1, ReaderAssumption
    <2> QED  BY <1>1, <1>4, <1>6, <1>9, <2>1, <2>2 DEF Begun, Folding, end
  <1> QED  BY <1>8, <1>9, Zenon

(* The reader follows another incarnation, about which no one was told     *)
(* anything yet.                                                           *)
LEMMA FollowStep ==
    ASSUME ReaderInv, FollowReplacement
    PROVE  ReaderInv'
  <1>1. Begun(FALSE) /\ seen = {} /\ observed = {}
    BY RebuildBegins, Zenon DEF FollowReplacement, ReaderInv, TopicInv
  <1>2. TopicType' /\ StoreType' /\ WaitType' /\ TopicInv'
    BY <1>1 DEF ReaderInv, TopicType, StoreType, WaitType, TopicInv, Loops, Begun,
                FollowReplacement
  <1>3. StartInv'
    BY <1>1 DEF ReaderInv, TopicType, StartInv, Begun, FollowReplacement
  <1>4. TokenInv' /\ ReadInv'
    BY <1>1 DEF ReaderInv, TokenInv, NoTokenLeaks, ReadInv, FollowReplacement
  <1>5. FoldInv'
    BY <1>1, <1>3, ReaderAssumption
    DEF ReaderInv, TopicType, StartInv, FoldInv, Begun, FollowReplacement
  <1>6. SeenInv'
    BY <1>1 DEF ReaderInv, SeenInv, Begun, FollowReplacement
  <1> QED  BY <1>2, <1>3, <1>4, <1>5, <1>6 DEF ReaderInv

(* A reset to the log start. *)
LEMMA ResetStep ==
    ASSUME ReaderInv, ResetToLogStart
    PROVE  ReaderInv'
  <1>1. Begun(TRUE)
    BY RebuildBegins, Zenon DEF ResetToLogStart
  <1>2. TopicType' /\ StoreType' /\ WaitType' /\ TopicInv'
    BY <1>1 DEF ReaderInv, TopicType, StoreType, WaitType, TopicInv, Loops, Begun,
                ResetToLogStart
  <1>3. StartInv'
    BY <1>1 DEF ReaderInv, TopicType, StartInv, Begun, ResetToLogStart
  <1>4. TokenInv'
    BY DEF ReaderInv, TokenInv, NoTokenLeaks, ResetToLogStart
  <1>5. ReadInv'
    BY <1>1 DEF ReaderInv, TopicType, WaitType, TokenInv, ReadInv, Behind, Begun,
                ResetToLogStart
  <1>6. FoldInv'
    BY <1>1, <1>3, ReaderAssumption
    DEF ReaderInv, TopicType, StartInv, FoldInv, Begun, ResetToLogStart
  <1>7. SeenInv'
    <2>1. CASE live' = live
      BY <2>1 DEF ReaderInv, SeenInv, ResetToLogStart
    <2>2. CASE low >= Len(log) + 1 /\ live'.records = {}
      <3>1. topicId = topic => \A j \in 1..Len(log) : log[j] = Gone
        BY <2>2 DEF ReaderInv, TopicType, StartInv, ResetToLogStart
      <3>2. \A w \in seen : at[w] # None /\ at[w] \in Nat \X Nat
        BY DEF ReaderInv, WaitType, TokenInv, ReadInv
      <3>3. \A w \in seen : at[w][1] = topic => \A j \in 1..at[w][2] : log[j] # State
        <4>1. \A w \in seen : at[w][1] = topicId
              /\ (at[w][1] = topic => at[w][2] \in Nat /\ at[w][2] <= Len(log))
          BY <3>2 DEF ReaderInv, WaitType, TokenInv, SeenInv
        <4>2. Len(log) \in Nat /\ State # Gone
          BY ReaderAssumption DEF ReaderInv, TopicType
        <4> QED  BY <3>1, <4>1, <4>2
      <3> QED  BY <2>2, <3>2, <3>3 DEF ReaderInv, SeenInv, ResetToLogStart
    <2> QED  BY <1>1, <2>1, <2>2, Zenon DEF Begun
  <1> QED  BY <1>2, <1>3, <1>4, <1>5, <1>6, <1>7 DEF ReaderInv

-------------------------------------------------------------------------------
(* Fetches. *)

(* What folding the records up to an offset adds to a store. *)
Extends(old, new, last) ==
    /\ new \in Stores
    /\ old.records \subseteq new.records
    /\ \A r \in new.records : r \in old.records \/ r[1] = topicId
    /\ \A j \in next..last : log[j] = State => <<topicId, j>> \in new.records
    /\ new.maxId >= old.maxId
    /\ \A j \in next..last : log[j] = State => new.maxId >= j

(* Applied adds the records up to the offset. *)
LEMMA AppliedFacts ==
    ASSUME ReaderInv, NEW old \in Stores, NEW last \in next..Len(log)
    PROVE  Extends(old, Applied(old, last), last)
  <1> DEFINE offsets == {i \in next..last : log[i] = State}
             ids == offsets \cup {old.maxId}
             added == {<<topicId, i>> : i \in offsets}
  <1>1. /\ next \in Nat /\ last \in Nat /\ topicId \in Nat
        /\ old.maxId \in Nat /\ old.records \subseteq Nat \X Nat
    BY DEF ReaderInv, TopicType, Stores
  <1>2. /\ ids \subseteq Nat /\ ids # {} /\ last + old.maxId \in Nat
        /\ \A x \in ids : x <= last + old.maxId
    BY <1>1
  <1>3. added \subseteq Nat \X Nat /\ \A r \in added : r[1] = topicId
    BY <1>1
  <1>4. \A j \in offsets : <<topicId, j>> \in added /\ j \in ids
    OBVIOUS
  <1> HIDE DEF ids, added
  <1>5. Max(ids) \in Nat /\ \A x \in ids : Max(ids) >= x
    BY <1>2, MaxFacts, Zenon
  <1>6. old.maxId \in ids
    BY DEF ids
  <1>7. Applied(old, last) = [records |-> old.records \cup added, maxId |-> Max(ids)]
    BY Zenon DEF Applied, ids, added
  <1>8. /\ Applied(old, last).records = old.records \cup added
        /\ Applied(old, last).maxId = Max(ids)
        /\ Applied(old, last) \in Stores
    BY <1>1, <1>3, <1>5, <1>7 DEF Stores
  <1> QED  BY <1>3, <1>4, <1>5, <1>6, <1>8, Zenon DEF Extends

(* A fold completes the rebuild it is part of, or leaves the live store. *)
Folded(last) ==
    /\ next' = last + 1 /\ live' \in Stores /\ rebuild' \in {None} \cup Rebuilds
    /\ maxSeen' \in Nat /\ Extends(Folding, Folding', last) /\ Folding'.maxId >= maxSeen'
    /\ \/ rebuild' = None /\ (rebuild # None => last + 1 >= rebuild.end)
       \/ /\ rebuild # None /\ rebuild' # None /\ rebuild'.end = rebuild.end
          /\ live' = live

(* What Fold does. *)
LEMMA FoldFacts ==
    ASSUME ReaderInv, NEW last \in next..Len(log), Fold(last)
    PROVE  Folded(last)
  <1> DEFINE ids == {maxSeen} \cup {i \in next..last : log[i] = State}
  <1>1. /\ next \in Nat /\ last \in Nat /\ maxSeen \in Nat /\ live \in Stores
        /\ rebuild # None => rebuild \in Rebuilds
        /\ Folding \in Stores /\ Folding.maxId >= maxSeen
    <2>1. /\ next \in Nat /\ maxSeen \in Nat /\ live \in Stores
          /\ rebuild # None => rebuild \in Rebuilds /\ rebuild.store \in Stores
      BY DEF ReaderInv, TopicType, StoreType, Rebuilds
    <2>2. last \in Nat
      BY <2>1
    <2> QED  BY <2>1, <2>2, Zenon DEF Folding, ReaderInv, FoldInv
  <1>2. /\ ids \subseteq Nat /\ ids # {} /\ last + maxSeen \in Nat
        /\ \A x \in ids : x <= last + maxSeen
    BY <1>1
  <1>3. maxSeen' = Max(ids) /\ next' = last + 1
    BY Zenon DEF Fold
  <1>4. \A x \in ids : x = maxSeen \/ (x \in next..last /\ log[x] = State)
    OBVIOUS
  <1> HIDE DEF ids
  <1>5. maxSeen' \in Nat /\ maxSeen' \in ids
    BY <1>2, <1>3, MaxFacts, Zenon
  <1>6. ASSUME Extends(Folding, Folding', last)
        PROVE  Folding'.maxId >= maxSeen'
    <2>1. Folding'.maxId \in Nat /\ Folding.maxId \in Nat
          /\ Folding'.maxId >= Folding.maxId
      BY <1>1, <1>6 DEF Extends, Stores
    <2>2. CASE maxSeen' = maxSeen
      BY <1>1, <2>1, <2>2
    <2>3. CASE maxSeen' \in next..last /\ log[maxSeen'] = State
      BY <1>6, <2>3, Zenon DEF Extends
    <2> QED  BY <1>4, <1>5, <2>2, <2>3, Zenon
  <1>7. CASE rebuild = None
    <2>1. live' = Applied(live, last) /\ rebuild' = None
      BY <1>7, Zenon DEF Fold
    <2>2. Folding = live /\ Folding' = live'
      BY <1>7, <2>1, Zenon DEF Folding
    <2>3. Extends(Folding, Folding', last)
      BY <1>1, <2>1, <2>2, AppliedFacts, Zenon
    <2>4. live' \in Stores
      BY <2>2, <2>3, Zenon DEF Extends
    <2> QED  BY <1>3, <1>5, <1>6, <1>7, <2>1, <2>3, <2>4, Zenon DEF Folded
  <1>8. CASE rebuild # None /\ next' >= rebuild.end
    <2>1. live' = Applied(rebuild.store, last) /\ rebuild' = None
      BY <1>1, <1>3, <1>8 DEF Fold, Rebuilds
    <2>2. Folding = rebuild.store /\ Folding' = live'
      BY <1>8, <2>1, Zenon DEF Folding
    <2>3. Extends(Folding, Folding', last)
      BY <1>1, <2>1, <2>2, AppliedFacts, Zenon
    <2>4. live' \in Stores
      BY <2>2, <2>3, Zenon DEF Extends
    <2> QED  BY <1>3, <1>5, <1>6, <1>8, <2>1, <2>3, <2>4, Zenon DEF Folded
  <1>9. CASE rebuild # None /\ ~(next' >= rebuild.end)
    <2>1. rebuild' = [rebuild EXCEPT !.store = Applied(rebuild.store, last)] /\ live' = live
      BY <1>8, <1>9, Zenon DEF Fold
    <2>2. Extends(Folding, Applied(rebuild.store, last), last) /\ Folding = rebuild.store
      BY <1>1, <1>9, AppliedFacts, Zenon DEF Folding
    <2>3. /\ rebuild' \in Rebuilds /\ rebuild'.end = rebuild.end
          /\ rebuild'.store = Applied(rebuild.store, last)
      BY <1>1, <1>9, <2>1, <2>2 DEF Rebuilds, Extends
    <2>4. rebuild' # None
      BY <2>3, ReaderAssumption
    <2>5. Folding' = rebuild'.store
      BY <2>4, Zenon DEF Folding
    <2>6. Extends(Folding, Folding', last)
      BY <2>2, <2>3, <2>5, Zenon
    <2> QED  BY <1>1, <1>3, <1>5, <1>6, <1>9, <2>1, <2>3, <2>4, <2>6, Zenon DEF Folded
  <1> QED  BY <1>7, <1>8, <1>9, Zenon

(* A fetch: what was read is told only once the live store has it. *)
LEMMA FetchStep ==
    ASSUME ReaderInv, Fetch
    PROVE  ReaderInv'
  <1>1. PICK last \in next..Len(log) :
          /\ Fold(last)
          /\ Publish(observed \cup ({log[i] : i \in next..last} \ {State, Gone}))
    BY Zenon DEF Fetch
  <1> DEFINE read == observed \cup ({log[i] : i \in next..last} \ {State, Gone})
  <1>2. /\ Folded(last) /\ topicId = topic
        /\ topic' = topic /\ log' = log /\ start' = start /\ pc' = pc /\ pc = "fetch"
        /\ topicId' = topicId /\ resolved' = resolved /\ low' = low
        /\ phase' = phase /\ at' = at
    BY <1>1, FoldFacts, Zenon DEF Fetch
  <1>3. /\ pending' = pending /\ invalidated' = invalidated
        /\ seen' \subseteq seen \cup (read \cap pending) /\ observed' \subseteq read
        /\ seen \subseteq seen'
        /\ rebuild' # None => seen' = seen
    BY <1>1, Zenon DEF Publish, observe
  <1>4. read \subseteq Waiters
    <2>1. \A i \in next..last : log[i] \in Waiters \cup {State, Gone}
      BY DEF ReaderInv, TopicType
    <2> QED  BY <2>1, Zenon DEF ReaderInv, StoreType
  <1>5. \A w \in read : w \in observed \/ \E i \in next..last : log[i] = w
    BY Zenon
  <1> HIDE DEF read
  <1>6. TopicType' /\ StoreType' /\ WaitType' /\ TopicInv' /\ StartInv'
    <2>1. TopicType' /\ TopicInv' /\ StartInv'
      BY <1>2 DEF ReaderInv, TopicType, TopicInv, StartInv, Folded
    <2>2. StoreType'
      BY <1>2, <1>3, <1>4, Zenon DEF StoreType, Folded
    <2>3. WaitType'
      BY <1>2, <1>3, <1>4, Zenon DEF ReaderInv, WaitType
    <2> QED  BY <2>1, <2>2, <2>3
  <1>7. \A i \in next..last : i \in 1..Len(log) /\ i < last + 1
    BY DEF ReaderInv, TopicType
  <1>8. TokenInv'
    <2>1. \A w \in read : phase[w] \notin {"idle", "reserved"}
      BY <1>4, <1>5, <1>7, Zenon DEF ReaderInv, TokenInv
    <2> QED  BY <1>2, <1>3, <2>1, Zenon DEF ReaderInv, TokenInv, NoTokenLeaks
  <1>9. ReadInv'
    <2>1. ASSUME NEW w \in pending, w \in observed \cup seen
          PROVE  at[w] # None /\ at[w][1] = topicId /\ Behind(at[w][2])'
      <3>1. at[w] # None /\ at[w][1] = topicId /\ Behind(at[w][2])
        BY <1>2, <2>1, Zenon DEF ReaderInv, ReadInv
      <3>2. at[w][2] \in Nat /\ next \in Nat /\ last \in Nat /\ next <= last
            /\ (rebuild # None => rebuild.end \in Nat)
        BY <2>1, <3>1 DEF ReaderInv, TopicType, StoreType, WaitType, Rebuilds
      <3>3. Behind(at[w][2])'
        BY <1>2, <3>1, <3>2 DEF Behind, Folded
      <3> QED  BY <3>1, <3>3, Zenon
    <2>2. ASSUME NEW w \in pending, NEW i \in next..last, log[i] = w
          PROVE  at[w] # None /\ at[w][1] = topicId /\ Behind(at[w][2])'
      <3>1. phase[w] \in {"polling", "asleep"} /\ w \in Waiters
        BY <1>7, <2>2, Zenon DEF ReaderInv, WaitType, TokenInv, NoTokenLeaks
      <3>2. at[w] = <<topic, i>> /\ i \in Nat /\ topic \in Nat
        BY <1>7, <2>2, <3>1 DEF ReaderInv, TokenInv, TopicType
      <3>3. at[w] # None /\ at[w][1] = topicId /\ at[w][2] = i
        BY <1>2, <3>2, ReaderAssumption
      <3>4. Behind(at[w][2])'
        BY <1>2, <1>7, <3>3 DEF Behind, Folded
      <3> QED  BY <3>3, <3>4, Zenon
    <2>3. \A w \in (pending \cap (observed \cup seen))' :
            at[w] # None /\ at[w][1] = topicId /\ Behind(at[w][2])'
      BY <1>3, <1>5, <2>1, <2>2, Zenon
    <2> QED  BY <1>2, <2>3, Zenon DEF ReadInv
  <1>10. FoldInv'
    <2>1. \A j \in 1..Len(log) : j < last + 1 => j < next \/ j \in next..last
      BY <1>2 DEF ReaderInv, TopicType
    <2>2. \A j \in 1..Len(log) :
            j < last + 1 /\ log[j] = State => <<topic, j>> \in Folding'.records
      BY <1>2, <2>1, Zenon DEF ReaderInv, FoldInv, Folded, Extends
    <2>3. \A r \in Folding'.records : r[1] = topicId
      BY <1>2, Zenon DEF ReaderInv, FoldInv, Folded, Extends
    <2> QED  BY <1>2, <2>2, <2>3, Zenon DEF FoldInv, Folded
  <1>11. SeenInv'
    <2>1. CASE rebuild' # None
      BY <1>2, <1>3, <2>1, Zenon DEF ReaderInv, SeenInv, Folded
    <2>2. CASE rebuild' = None
      <3>1. Folding' = live'
        BY <2>2, Zenon DEF Folding
      <3>2. \A q \in live'.records : q[1] = topicId
        BY <1>2, <1>10, <3>1, Zenon DEF FoldInv
      <3>3. ASSUME NEW w \in seen'
            PROVE  at[w][1] = topicId /\ at[w][2] < next' /\ at[w][2] \in Nat
                   /\ at[w][2] <= Len(log)
        <4>1. w \in pending' /\ w \in Waiters
          BY <1>6, <1>8, <3>3, Zenon DEF TokenInv, WaitType
        <4>2. at[w] # None /\ at[w][1] = topicId /\ Behind(at[w][2])'
          BY <1>2, <1>9, <3>3, <4>1, Zenon DEF ReadInv
        <4>3. at[w][2] < next'
          BY <1>2, <2>2, <4>2 DEF Behind
        <4> QED  BY <1>2, <4>1, <4>2, <4>3 DEF ReaderInv, WaitType, TokenInv
      <3>4. ASSUME NEW w \in seen', NEW j \in 1..at[w][2], log[j] = State
            PROVE  <<topic, j>> \in live'.records
        <4>1. j \in 1..Len(log) /\ j < next'
          BY <1>2, <1>6, <3>3 DEF TopicType
        <4> QED  BY <1>2, <1>10, <3>1, <3>4, <4>1, Zenon DEF FoldInv
      <3> QED  BY <1>2, <3>2, <3>3, <3>4, Zenon DEF SeenInv
    <2> QED  BY <2>1, <2>2, Zenon
  <1> QED  BY <1>6, <1>8, <1>9, <1>10, <1>11 DEF ReaderInv

-------------------------------------------------------------------------------
(* The theorems. *)

(* Each action of the reader, its topic and its handlers preserves the     *)
(* invariant.                                                              *)
LEMMA ReaderStep ==
    ASSUME ReaderInv, Next
    PROVE  ReaderInv'
  <1>1. CASE Write
    BY <1>1, AppendStep DEF Write
  <1>2. CASE Loop
    <2>1. CASE RefreshTopic \/ OffsetOutOfRange
      BY <2>1, LoopStep DEF RefreshTopic, OffsetOutOfRange
    <2> QED  BY <1>2, <2>1, ConnectStep, LogStartStep, FollowStep, ResetStep, FetchStep, Zenon
             DEF Loop
  <1>3. CASE Reconnect
    BY <1>3, LoopStep DEF Reconnect
  <1>4. ASSUME NEW w \in Waiters, Order(w) \/ Clear(w)
        PROVE  ReaderInv'
    BY <1>4, AppendStep DEF Order, Clear
  <1>5. ASSUME NEW w \in Waiters, Reserve(w) \/ Wake(w)
        PROVE  ReaderInv'
    BY <1>5, ActiveStep DEF Reserve, Wake, Active
  <1>6. ASSUME NEW w \in Waiters, Poll(w) \/ Timeout(w)
        PROVE  ReaderInv'
    <2>1. CASE phase' = [phase EXCEPT ![w] = "asleep"] /\ UNCHANGED trackerVars /\ Poll(w)
      BY <2>1, ActiveStep, Zenon DEF Poll, Active
    <2>2. CASE \E outcome \in {"done", "failed"} : Ending(w, outcome)
      BY <1>6, <2>2, EndingStep DEF Poll, Timeout
    <2> QED  BY <1>6, <2>1, <2>2, Zenon DEF Poll, Timeout
  <1> QED  BY <1>1, <1>2, <1>3, <1>4, <1>5, <1>6, CompactStep, TrimStep, RecreateStep, Zenon
           DEF Next

(* Nothing is read before the start is done. *)
LEMMA BootInitially ==
    ASSUME BootInit
    PROVE  ReaderInv /\ BootInv
  <1>1. TopicType /\ StoreType /\ WaitType
    BY DEF BootInit, Init, TopicType, StoreType, WaitType, Stores, EmptyStore, Loops,
           Phases, Active
  <1>2. TopicInv /\ StartInv /\ TokenInv
    BY DEF BootInit, Init, TopicInv, StartInv, TokenInv, NoTokenLeaks
  <1>3. ReadInv /\ FoldInv /\ SeenInv
    BY DEF BootInit, Init, ReadInv, FoldInv, Folding, SeenInv, EmptyStore
  <1>4. BootInv
    BY DEF BootInit, Init, BootInv
  <1> QED  BY <1>1, <1>2, <1>3, <1>4 DEF ReaderInv

(* The topic id that the start hands to the reader, which has read nothing. *)
LEMMA MetadataStep ==
    ASSUME ReaderInv, BootInv, metadata
    PROVE  ReaderInv'
  <1>1. /\ stage # "started" /\ topicId' = topic
        /\ UNCHANGED <<topic, log, start, pc, resolved, low, next, storeVars, trackerVars,
                       phase, at>>
    BY DEF metadata
  <1>2. TopicType' /\ StoreType' /\ WaitType'
    BY <1>1, Zenon DEF ReaderInv, TopicType, StoreType, WaitType
  <1>3. TopicInv' /\ StartInv'
    BY <1>1 DEF ReaderInv, BootInv, TopicType, TopicInv, StartInv
  <1>4. TokenInv'
    BY <1>1, Zenon DEF ReaderInv, TokenInv, NoTokenLeaks
  <1>5. ReadInv' /\ SeenInv'
    BY <1>1 DEF BootInv, ReadInv, SeenInv, EmptyStore
  <1>6. FoldInv'
    BY <1>1 DEF BootInv, FoldInv, Folding, EmptyStore
  <1> QED  BY <1>2, <1>3, <1>4, <1>5, <1>6 DEF ReaderInv

(* A step that leaves the reader, its topic and its handlers alone. *)
LEMMA ReaderSame ==
    ASSUME ReaderInv,
           UNCHANGED <<brokerVars, pc, cursorVars, storeVars, trackerVars, waitVars>>
    PROVE  ReaderInv'
  <1>1. TopicType' /\ StoreType' /\ WaitType'
    BY Zenon DEF ReaderInv, TopicType, StoreType, WaitType
  <1>2. TopicInv' /\ StartInv'
    BY Zenon DEF ReaderInv, TopicInv, StartInv
  <1>3. TokenInv'
    BY Zenon DEF ReaderInv, TokenInv, NoTokenLeaks
  <1>4. ReadInv' /\ FoldInv'
    BY Zenon DEF ReaderInv, ReadInv, Behind, FoldInv, Folding
  <1>5. SeenInv'
    BY Zenon DEF ReaderInv, SeenInv
  <1> QED  BY <1>1, <1>2, <1>3, <1>4, <1>5 DEF ReaderInv

(* Every step of the start and of the node after it preserves both. *)
LEMMA BootStep ==
    ASSUME ReaderInv, BootInv, [BootNext]_allVars
    PROVE  ReaderInv' /\ BootInv'
  <1>1. CASE Replaced
    <2>1. ReaderInv'
      BY <1>1, RecreateStep, Zenon DEF Replaced
    <2>2. BootInv'
      BY <1>1, Zenon DEF Replaced, RecreateTopic, BootInv
    <2> QED  BY <2>1, <2>2
  <1>2. CASE metadata
    <2>1. BootInv'
      BY <1>2, Zenon DEF metadata, BootInv
    <2> QED  BY <1>2, <2>1, MetadataStep, Zenon
  <1>3. CASE create_topics \/ retry \/ describe_configs \/ UNCHANGED allVars
    <2>1. UNCHANGED <<brokerVars, pc, cursorVars, storeVars, trackerVars, waitVars>>
          /\ (stage' # "started" => stage # "started")
      BY <1>3, Zenon DEF create_topics, retry, describe_configs, allVars, vars, bootVars
    <2>2. BootInv'
      BY <2>1, Zenon DEF BootInv
    <2> QED  BY <2>1, <2>2, ReaderSame, Zenon
  <1>4. CASE Running(Next)
    <2>1. Next /\ stage' = "started"
      BY <1>4, Zenon DEF Running, bootVars
    <2>2. BootInv'
      BY <2>1, Zenon DEF BootInv
    <2> QED  BY <2>1, <2>2, ReaderStep, Zenon
  <1> QED  BY <1>1, <1>2, <1>3, <1>4, Zenon DEF BootNext, Boot

(* The invariant holds of a node that starts, for as long as it runs. *)
LEMMA ReaderAlways == BootSpec => []ReaderInv
  <1>1. BootInit => ReaderInv /\ BootInv
    BY BootInitially, Zenon
  <1>2. ReaderInv /\ BootInv /\ [BootNext]_allVars => ReaderInv' /\ BootInv'
    BY BootStep, Zenon
  <1> QED  BY <1>1, <1>2, PTL DEF BootSpec

(* A handler whose barrier was seen finds every record before it in the    *)
(* live store, which mixes no two incarnations of the topic, whatever      *)
(* replacements, resets and lost connections there were: publication after *)
(* application (reader.rs), for any number of handlers and of incarnations. *)
THEOREM Seen == BootSpec => []SeenIsApplied
  <1>1. ReaderInv => SeenIsApplied
    BY DEF ReaderInv, SeenInv, SeenIsApplied
  <1> QED  BY <1>1, ReaderAlways, PTL

(* The tracker's sets hold tokens of handlers in flight only, however they *)
(* end (BarrierTracker::cancel).                                           *)
THEOREM Tokens == BootSpec => []NoTokenLeaks
  <1>1. ReaderInv => NoTokenLeaks
    BY DEF ReaderInv, TokenInv
  <1> QED  BY <1>1, ReaderAlways, PTL

(* max_id of the live store covers every id read from the incarnation      *)
(* followed, through any number of interrupted rebuilds (begin_rebuild).   *)
THEOREM HighWater == BootSpec => []IdHighWaterKept
  <1>1. ReaderInv => IdHighWaterKept
    BY DEF ReaderInv, FoldInv, Folding, IdHighWaterKept
  <1> QED  BY <1>1, ReaderAlways, PTL

===============================================================================
