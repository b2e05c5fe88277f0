------------------------- MODULE PrimaryWrites_steps --------------------------
(***************************************************************************)
(* First part of the proof of PrimaryWrites: what the log operators do,    *)
(* and the steps of the handlers, of the group and of the reader.  Every   *)
(* lemma named ...Step says that one action of PrimaryWrites preserves     *)
(* IndInv, for any sets of nodes and schemas and any bounds.               *)
(***************************************************************************)
EXTENDS PrimaryWrites, TLAPS

USE DEF groupVars, brokerVars, storeVars, fenceVars, opVars, countVars

(***************************************************************************)
(* Facts about numbers.                                                    *)
(***************************************************************************)

(* A counter goes on counting; what lies in a range is a number.           *)
LEMMA Arithmetic ==
    /\ \A k \in Nat : k + 1 \in Nat /\ k + 1 # 0
    /\ \A i, k \in Nat : \A g \in (i + 1)..k : g \in Nat /\ g <= k
  OBVIOUS

(* The next offset, or epoch, is beyond every earlier one.                 *)
LEMMA NextOffset ==
    \A i, k \in Nat : i <= k => i <= k + 1 /\ i < k + 1 /\ i # k + 1
  OBVIOUS

(* Offsets lie below the next one.                                         *)
LEMMA Below ==
    \A k \in Nat : \A i \in 1..k : i < k + 1 /\ i \in Nat
  OBVIOUS

(***************************************************************************)
(* What each way of writing the log does to its open and committed         *)
(* records.                                                                *)
(***************************************************************************)

(* Ending a transaction changes the status of its open records only.       *)
LEMMA ResolveFacts ==
    ASSUME NEW l \in Seq(Record), NEW o \in {"committed", "aborted"}
    PROVE  /\ Resolve(l, o) \in Seq(Record)
           /\ Len(Resolve(l, o)) = Len(l)
           /\ \A i \in 1..Len(l) :
                Resolve(l, o)[i] = IF l[i].status = "open"
                                   THEN [l[i] EXCEPT !.status = o] ELSE l[i]
  <1>1. \A i \in 1..Len(l) : l[i] \in Record
    OBVIOUS
  <1>2. \A i \in 1..Len(l) : [l[i] EXCEPT !.status = o] \in Record
    BY <1>1, Zenon DEF Record
  <1>3. Resolve(l, o) \in [1..Len(l) -> Record]
    BY <1>1, <1>2 DEF Resolve
  <1>4. Resolve(l, o) \in Seq(Record) /\ Len(Resolve(l, o)) = Len(l)
    BY <1>3
  <1> QED  BY <1>4 DEF Resolve

(* Offsets of open and of committed records are offsets of the log.        *)
LEMMA OffsetFacts ==
    ASSUME TypeOK
    PROVE  /\ Len(log) \in Nat
           /\ Open \subseteq 1..Len(log) /\ Committed \subseteq 1..Len(log)
           /\ Open \subseteq Nat /\ Committed \subseteq Nat
           /\ Open \cap Committed = {}
           /\ \A i \in 1..Len(log) : log[i] \in Record
  BY DEF TypeOK, Open, Committed

(* Generations are counted from 0.                                         *)
LEMMA GenerationType ==
    ASSUME TypeOK
    PROVE  generation \in Nat /\ 0 <= generation
  BY DEF TypeOK, generation

(* One more answer.                                                        *)
LEMMA AnswerType ==
    \A a \in SUBSET (Schemas \X Nat), s \in Schemas, id \in Nat :
        a \cup {<<s, id>>} \in SUBSET (Schemas \X Nat)
  OBVIOUS

(* A barrier is neither open nor committed, and lies behind everything.    *)
LEMMA LogBarrier ==
    ASSUME TypeOK, NEW n \in Nodes, log' = Append(log, Barrier(n))
    PROVE  /\ log' \in Seq(Record) /\ Len(log') = Len(log) + 1
           /\ Open' = Open /\ Committed' = Committed
           /\ \A i \in 1..Len(log) : log'[i] = log[i]
  <1>1. Barrier(n) \in Record
    BY DEF Barrier, Record
  <1>2. log' \in Seq(Record) /\ Len(log') = Len(log) + 1
    BY <1>1 DEF TypeOK
  <1>3. /\ \A i \in 1..Len(log) : log'[i] = log[i]
        /\ log'[Len(log) + 1].status = "plain"
    BY <1>1 DEF TypeOK, Barrier
  <1>4. Len(log) \in Nat
    BY DEF TypeOK
  <1> QED  BY <1>2, <1>3, <1>4 DEF Open, Committed

(* An abort leaves nothing open and no committed record changed.           *)
LEMMA LogAbort ==
    ASSUME TypeOK, log' = Resolve(log, "aborted")
    PROVE  /\ log' \in Seq(Record) /\ Len(log') = Len(log)
           /\ Open' = {} /\ Committed' = Committed
           /\ \A i \in Committed : log'[i] = log[i]
  <1>1. log \in Seq(Record)
    BY DEF TypeOK
  <1>2. /\ log' \in Seq(Record) /\ Len(log') = Len(log)
        /\ \A i \in 1..Len(log) :
             log'[i] = IF log[i].status = "open"
                       THEN [log[i] EXCEPT !.status = "aborted"] ELSE log[i]
    BY <1>1, ResolveFacts, Zenon
  <1>3. \A i \in 1..Len(log) : log[i] \in Record
    BY <1>1
  <1>4. \A i \in 1..Len(log) :
          log'[i].status = IF log[i].status = "open" THEN "aborted" ELSE log[i].status
    BY <1>2, <1>3, Zenon DEF Record
  <1>5. Open' = {} /\ Committed' = Committed
    BY <1>2, <1>4 DEF Open, Committed
  <1>6. \A i \in Committed : log'[i] = log[i]
    BY <1>2, Zenon DEF Committed
  <1> QED  BY <1>2, <1>5, <1>6

(* A commit turns what is open into committed records of the same content. *)
LEMMA LogCommit ==
    ASSUME TypeOK, log' = Resolve(log, "committed")
    PROVE  /\ log' \in Seq(Record) /\ Len(log') = Len(log)
           /\ Open' = {} /\ Committed' = Committed \cup Open
           /\ \A i \in Committed \cup Open :
                /\ log'[i].id = log[i].id /\ log'[i].schema = log[i].schema
                /\ log'[i].gen = log[i].gen
  <1>1. log \in Seq(Record)
    BY DEF TypeOK
  <1>2. /\ log' \in Seq(Record) /\ Len(log') = Len(log)
        /\ \A i \in 1..Len(log) :
             log'[i] = IF log[i].status = "open"
                       THEN [log[i] EXCEPT !.status = "committed"] ELSE log[i]
    BY <1>1, ResolveFacts, Zenon
  <1>3. \A i \in 1..Len(log) : log[i] \in Record
    BY <1>1
  <1>4. \A i \in 1..Len(log) :
          /\ log'[i].status = IF log[i].status = "open" THEN "committed" ELSE log[i].status
          /\ log'[i].id = log[i].id /\ log'[i].schema = log[i].schema
          /\ log'[i].gen = log[i].gen
    BY <1>2, <1>3, Zenon DEF Record
  <1>5. Open' = {} /\ Committed' = Committed \cup Open
    BY <1>2, <1>4 DEF Open, Committed
  <1>6. Committed \cup Open \subseteq 1..Len(log)
    BY DEF Open, Committed
  <1> QED  BY <1>2, <1>4, <1>5, <1>6

(* A transaction's record goes to the end of the log, open.                *)
LEMMA LogAppend ==
    ASSUME NEW l \in Seq(Record), NEW r \in Record, r.status = "open",
           NEW m, m = Append(l, r)
    PROVE  /\ m \in Seq(Record) /\ Len(m) = Len(l) + 1
           /\ \A i \in 1..Len(l) : m[i] = l[i]
           /\ m[Len(l) + 1] = r
           /\ {i \in 1..Len(m) : m[i].status = "open"}
                = {i \in 1..Len(l) : l[i].status = "open"} \cup {Len(l) + 1}
           /\ {i \in 1..Len(m) : m[i].status = "committed"}
                = {i \in 1..Len(l) : l[i].status = "committed"}
  <1>1. m \in Seq(Record) /\ Len(m) = Len(l) + 1 /\ Len(l) \in Nat
    OBVIOUS
  <1>2. (\A i \in 1..Len(l) : m[i] = l[i]) /\ m[Len(l) + 1] = r
    OBVIOUS
  <1>3. {i \in 1..Len(m) : m[i].status = "open"}
          = {i \in 1..Len(l) : l[i].status = "open"} \cup {Len(l) + 1}
    BY <1>1, <1>2
  <1>4. {i \in 1..Len(m) : m[i].status = "committed"}
          = {i \in 1..Len(l) : l[i].status = "committed"}
    BY <1>1, <1>2
  <1> QED  BY <1>1, <1>2, <1>3, <1>4

(***************************************************************************)
(* What a send leaves in the log: its record at k, alone in the open       *)
(* transaction, behind the committed records.                              *)
Sends(k, n, s, id, g, e) ==
    /\ k = Len(log) + 1 /\ Len(log) \in Nat /\ log' \in Seq(Record) /\ Len(log') = k
    /\ Open' = {k} /\ Committed' = Committed
    /\ \A i \in Committed : log'[i] = log[i] /\ i < k /\ i \in Nat
    /\ log'[k].node = n /\ log'[k].schema = s /\ log'[k].id = id
    /\ log'[k].gen = g /\ log'[k].epoch = e

(* The send of a new epoch aborts what the earlier one left open.          *)
LEMMA LogSend ==
    ASSUME TypeOK, NEW n \in Nodes, NEW s \in Schemas, NEW id \in Nat, NEW g \in Nat,
           NEW e \in Nat,
           log' = Append(Resolve(log, "aborted"), OpenRecord(n, s, id, g, e))
    PROVE  \E k \in Nat : Sends(k, n, s, id, g, e)
  <1> DEFINE l == Resolve(log, "aborted")
             rec == OpenRecord(n, s, id, g, e)
  <1>1. log \in Seq(Record) /\ Len(log) \in Nat /\ log' = Append(l, rec)
    BY DEF TypeOK
  <1>2. /\ l \in Seq(Record) /\ Len(l) = Len(log)
        /\ \A i \in 1..Len(log) :
             l[i] = IF log[i].status = "open"
                    THEN [log[i] EXCEPT !.status = "aborted"] ELSE log[i]
    BY <1>1, ResolveFacts, Zenon
  <1>3. \A i \in 1..Len(log) : log[i] \in Record
    BY <1>1
  <1>4. /\ rec \in Record /\ rec.status = "open"
        /\ rec.node = n /\ rec.schema = s /\ rec.id = id /\ rec.gen = g /\ rec.epoch = e
    BY DEF OpenRecord, Record
  <1> HIDE DEF l, rec
  <1>5. /\ log' \in Seq(Record) /\ Len(log') = Len(l) + 1 /\ log'[Len(l) + 1] = rec
        /\ \A i \in 1..Len(l) : log'[i] = l[i]
        /\ {i \in 1..Len(log') : log'[i].status = "open"}
              = {i \in 1..Len(l) : l[i].status = "open"} \cup {Len(l) + 1}
        /\ {i \in 1..Len(log') : log'[i].status = "committed"}
              = {i \in 1..Len(l) : l[i].status = "committed"}
    <2>1. l \in Seq(Record)
      BY <1>2, Zenon
    <2>2. rec \in Record /\ rec.status = "open"
      BY <1>4, Zenon
    <2>3. \A m : m = Append(l, rec) =>
            /\ m \in Seq(Record) /\ Len(m) = Len(l) + 1 /\ m[Len(l) + 1] = rec
            /\ \A i \in 1..Len(l) : m[i] = l[i]
            /\ {i \in 1..Len(m) : m[i].status = "open"}
                  = {i \in 1..Len(l) : l[i].status = "open"} \cup {Len(l) + 1}
            /\ {i \in 1..Len(m) : m[i].status = "committed"}
                  = {i \in 1..Len(l) : l[i].status = "committed"}
      BY <2>1, <2>2, LogAppend, SMTT(30)
    <2> QED  BY <1>1, <2>3, Zenon
  <1>6. \A i \in 1..Len(log) :
          l[i].status = IF log[i].status = "open" THEN "aborted" ELSE log[i].status
    BY <1>2, <1>3, Zenon DEF Record
  <1>7. Open' = {Len(log) + 1} /\ Committed' = Committed
    <2>1. {i \in 1..Len(log) : l[i].status = "open"} = {}
      BY <1>6
    <2>2. {i \in 1..Len(log) : l[i].status = "committed"} = Committed
      BY <1>6 DEF Committed
    <2>3. /\ Open' = {i \in 1..Len(log') : log'[i].status = "open"}
          /\ Committed' = {i \in 1..Len(log') : log'[i].status = "committed"}
      BY Zenon DEF Open, Committed
    <2> QED  BY <1>2, <1>5, <2>1, <2>2, <2>3, Zenon
  <1>8. \A i \in Committed : log'[i] = log[i] /\ i < Len(log) + 1 /\ i \in Nat
    <2>1. \A i \in Committed : i \in 1..Len(log) /\ log[i].status # "open"
      BY DEF Committed
    <2>2. \A i \in Committed : log'[i] = log[i]
      BY <1>2, <1>5, <2>1, Zenon
    <2> QED  BY <1>1, <2>1, <2>2, Below, Zenon
  <1>9. Len(log) + 1 \in Nat
    BY <1>1
  <1> QED  BY <1>1, <1>2, <1>4, <1>5, <1>7, <1>8, <1>9, Zenon DEF Sends

(* Frames: what an unchanged part of the state preserves.                  *)
(***************************************************************************)

(* The safety properties depend on the committed records and the answers.  *)
LEMMA SafetyFrame ==
    ASSUME IndInv, Committed' = Committed, \A i \in Committed : log'[i] = log[i],
           acked' = acked
    PROVE  UniqueIds' /\ StalePrimaryRejected' /\ AckedDurable'
  BY DEF IndInv, UniqueIds, StalePrimaryRejected, AckedDurable

(* A store agrees with the committed records as long as they stay.         *)
LEMMA StoreFrame ==
    ASSUME IndInv, UNCHANGED storeVars,
           Committed' = Committed, \A i \in Committed : log'[i] = log[i],
           \A n \in Nodes : applied[n] <= Len(log') /\ \A i \in Open' : applied[n] < i
    PROVE  StoreInv'
  <1> SUFFICES ASSUME NEW n \in Nodes
               PROVE  /\ \A i \in Committed : i <= applied[n]
                            => log'[i].id <= maxId[n] /\ idOf[n][log'[i].schema] = log'[i].id
                      /\ \A s \in Schemas : idOf[n][s] # 0
                            => \E i \in Committed :
                                 log'[i].schema = s /\ log'[i].id = idOf[n][s]
    BY ZenonT(30) DEF StoreInv
  <1>1. StoreInv
    BY Zenon DEF IndInv
  <1> QED  BY <1>1 DEF StoreInv

(* With the brokers' state unchanged, so is all that is said of it.        *)
LEMMA BrokerFrame ==
    ASSUME UNCHANGED brokerVars
    PROVE  /\ Open' = Open /\ Committed' = Committed
           /\ \A s, id : Fresh(s, id)' <=> Fresh(s, id)
           /\ \A k : NoLate(k)' <=> NoLate(k)
           /\ \A i : SoleCandidate(i)' <=> SoleCandidate(i)
           /\ \A i : Validated(i)' <=> Validated(i)
  BY DEF Open, Committed, Fresh, NoLate, SoleCandidate, Validated

(* Nothing changes in the handler of m.                                    *)
SameOp(m) ==
    /\ phase'[m] = phase[m] /\ want'[m] = want[m] /\ newId'[m] = newId[m]
    /\ opGen'[m] = opGen[m] /\ token'[m] = token[m]

(* A step of one handler that writes nothing keeps the invariant, if the   *)
(* handler knows what its new phase asks of the holder of the epoch.       *)
LEMMA HandlerStep ==
    ASSUME IndInv, TypeOK', NEW n \in Nodes,
           UNCHANGED <<masters, primary, brokerVars, storeVars, fenceVars>>,
           \A m \in Nodes \ {n} : SameOp(m),
           phase'[n] \in Fenced => producerEpoch[n] # 0,
           opGen'[n] <= generation,
           phase'[n] \in Fenced \cup {"fence"} => opGen'[n] # 0,
           phase'[n] \in Holding => want'[n] \in Schemas,
           phase'[n] \in {"send", "validate", "commit"} => newId'[n] # 0,
           phase'[n] \notin {"await", "order2", "await2"},
           Holds(n) =>
             /\ phase'[n] \in {"recheck", "decide"} => \A i \in Committed : i <= applied[n]
             /\ phase'[n] = "send" => Fresh(want'[n], newId'[n])
             /\ phase'[n] \in {"recheck", "decide", "send", "validate", "commit"}
                  => NoLate("commit")
             /\ phase'[n] \in {"validate", "commit"}
                  => NoLate("send") /\ Driving(n)',
           AckedDurable'
    PROVE  IndInv'
  <1>0. /\ Open' = Open /\ Committed' = Committed
        /\ \A s, id : Fresh(s, id)' <=> Fresh(s, id)
        /\ \A k : NoLate(k)' <=> NoLate(k)
        /\ \A i : SoleCandidate(i)' <=> SoleCandidate(i)
        /\ \A i : Validated(i)' <=> Validated(i)
    BY BrokerFrame, Zenon
  <1>1. EpochInv'
    <2>1. \A m \in Nodes : phase'[m] \in Fenced \/ fencedGen'[m] # 0 => producerEpoch'[m] # 0
      BY Zenon DEF IndInv, EpochInv, SameOp
    <2> QED  BY <1>0, <2>1, Zenon DEF IndInv, EpochInv, Holds
  <1>2. GenerationInv'
    BY <1>0, Zenon DEF IndInv, TypeOK, GenerationInv, generation, SameOp
  <1>3. RecordInv'
    BY <1>0, Zenon DEF IndInv, TypeOK, RecordInv, SameOp
  <1>4. StoreInv'
    BY <1>0 DEF IndInv, StoreInv
  <1>5. HolderInv'
    <2> SUFFICES ASSUME NEW m \in Nodes, Holds(m)
                 PROVE  /\ phase'[m] = "await" => \A i \in Committed : i < token'[m]
                        /\ phase'[m] \in {"recheck", "decide"}
                              => \A i \in Committed : i <= applied[m]
                        /\ phase'[m] = "send" => Fresh(want'[m], newId'[m])
                        /\ phase'[m] \in {"recheck", "decide", "send", "validate", "commit"}
                              => NoLate("commit")
                        /\ phase'[m] \in {"validate", "commit"} => NoLate("send") /\ Driving(m)'
      BY <1>0, Zenon DEF HolderInv, Holds
    <2>1. CASE m = n
      BY <2>1, Zenon
    <2>2. CASE m # n
      <3>1. Driving(m)' <=> Driving(m)
        BY <1>0, <2>2, SMTT(30) DEF Driving, SameOp
      <3> QED  BY <2>2, <3>1, Zenon DEF IndInv, HolderInv, SameOp
    <2> QED  BY <2>1, <2>2
  <1>6. LateInv'
    BY <1>0, ZenonT(30) DEF IndInv, TypeOK, LateInv, Holds, SameOp
  <1>7. AnsweredInv'
    BY <1>0, Zenon DEF IndInv, TypeOK, AnsweredInv, SameOp
  <1>8. UniqueIds' /\ StalePrimaryRejected'
    BY <1>0 DEF IndInv, UniqueIds, StalePrimaryRejected
  <1> QED  BY <1>1, <1>2, <1>3, <1>4, <1>5, <1>6, <1>7, <1>8, Zenon DEF IndInv

OpTypeOK ==
    /\ phase \in [Nodes -> Phases]
    /\ want \in [Nodes -> Schemas \cup {NoSchema}]
    /\ newId \in [Nodes -> Nat]
    /\ opGen \in [Nodes -> Nat]
    /\ token \in [Nodes -> Nat]

(* Giving up the write gate leaves the other handlers alone.               *)
LEMMA ReleaseFacts ==
    ASSUME TypeOK, NEW n \in Nodes, Release(n)
    PROVE  /\ OpTypeOK' /\ phase'[n] = "idle" /\ opGen'[n] = 0
           /\ \A m \in Nodes \ {n} : SameOp(m)
  BY Zenon DEF TypeOK, OpTypeOK, Release, SameOp, Phases

(* Moving on keeps the request, and the other handlers.                    *)
LEMMA GotoFacts ==
    ASSUME TypeOK, NEW n \in Nodes, NEW p \in Phases, Goto(n, p)
    PROVE  /\ OpTypeOK' /\ phase'[n] = p
           /\ want'[n] = want[n] /\ newId'[n] = newId[n] /\ opGen'[n] = opGen[n]
           /\ \A m \in Nodes \ {n} : SameOp(m)
  BY Zenon DEF TypeOK, OpTypeOK, Goto, SameOp

(* Any step of a handler that only gives up the gate.                      *)
LEMMA ReleaseStep ==
    ASSUME IndInv, NEW n \in Nodes, Release(n),
           UNCHANGED <<groupVars, brokerVars, storeVars, fenceVars, acked, countVars>>
    PROVE  IndInv'
  <1>1. TypeOK
    BY Zenon DEF IndInv
  <1>2. /\ OpTypeOK' /\ phase'[n] = "idle" /\ opGen'[n] = 0
        /\ \A m \in Nodes \ {n} : SameOp(m)
    BY <1>1, ReleaseFacts, Zenon
  <1>3. TypeOK'
    BY <1>1, <1>2, Zenon DEF TypeOK, OpTypeOK
  <1>4. Committed' = Committed
    BY BrokerFrame, Zenon
  <1>5. AckedDurable'
    BY <1>4, SafetyFrame, Zenon
  <1>6. generation \in Nat /\ 0 <= generation
    BY <1>1, GenerationType, Zenon
  <1> QED  BY <1>2, <1>3, <1>5, <1>6, HandlerStep, Zenon DEF Fenced, Holding

(* The end of KafkaStore::start.                                           *)
LEMMA ServeStep ==
    ASSUME IndInv, NEW n \in Nodes, Serve(n)
    PROVE  IndInv'
  BY ReleaseStep, Zenon DEF Serve

(* A new request promises nothing yet.                                     *)
LEMMA AdmitStep ==
    ASSUME IndInv, NEW n \in Nodes, NEW s \in Schemas, Admit(n, s)
    PROVE  IndInv'
  <1>1. TypeOK
    BY Zenon DEF IndInv
  <1>2. TypeOK'
    <2>1. phase' \in [Nodes -> Phases] /\ want' \in [Nodes -> Schemas \cup {NoSchema}]
      BY <1>1, Zenon DEF TypeOK, Admit, Phases
    <2>2. requests' \in Nat
      BY <1>1 DEF TypeOK, Admit
    <2> QED  BY <1>1, <2>1, <2>2, Zenon DEF TypeOK, Admit
  <1>3. /\ phase'[n] = "prepare" /\ want'[n] = s /\ opGen'[n] = opGen[n]
        /\ \A m \in Nodes \ {n} : SameOp(m)
    BY <1>1, Zenon DEF TypeOK, Admit, SameOp
  <1>4. Committed' = Committed /\ acked' = acked /\ log' = log
    BY BrokerFrame, Zenon DEF Admit
  <1>5. AckedDurable'
    BY <1>4, SafetyFrame, Zenon
  <1>6. opGen'[n] <= generation
    BY <1>3, Zenon DEF IndInv, GenerationInv
  <1> QED  BY <1>2, <1>3, <1>5, <1>6, HandlerStep, Zenon DEF Fenced, Holding, Admit

(* The first look at the election reads a generation that exists.          *)
LEMMA PrepareStep ==
    ASSUME IndInv, NEW n \in Nodes, Prepare(n)
    PROVE  IndInv'
  <1>1. TypeOK /\ phase[n] = "prepare"
    BY Zenon DEF IndInv, Prepare
  <1>2. CASE primary[n] = 0
    BY <1>2, ReleaseStep, Zenon DEF Prepare
  <1>3. CASE primary[n] # 0
    <2>1. TypeOK'
      BY <1>1, <1>3, Zenon DEF TypeOK, Prepare, Phases
    <2>2. /\ phase'[n] = "fence" /\ want'[n] = want[n] /\ opGen'[n] = primary[n]
          /\ \A m \in Nodes \ {n} : SameOp(m)
      BY <1>1, <1>3, ZenonT(30) DEF TypeOK, Prepare, SameOp
    <2>3. UNCHANGED <<groupVars, brokerVars, storeVars, fenceVars, acked>>
      BY <1>3, Zenon DEF Prepare
    <2>4. AckedDurable'
      BY <2>3, BrokerFrame, SafetyFrame, Zenon
    <2>5. want[n] \in Schemas /\ primary[n] <= generation
      BY <1>1, Zenon DEF IndInv, RecordInv, GenerationInv, Holding
    <2> QED  BY <1>3, <2>1, <2>2, <2>3, <2>4, <2>5, HandlerStep, Zenon DEF Fenced
  <1> QED  BY <1>2, <1>3, Zenon

(* Once the barrier is applied, all that is committed is in the store, and *)
(* no EndTxn of this epoch is under way: its record would be open in front *)
(* of the barrier and would have held the reader up.                       *)
LEMMA AwaitBarrierStep ==
    ASSUME IndInv, NEW n \in Nodes, AwaitBarrier(n)
    PROVE  IndInv'
  <1>1. /\ TypeOK /\ phase[n] = "await" /\ applied[n] >= token[n]
        /\ UNCHANGED <<groupVars, brokerVars, storeVars, fenceVars, acked, countVars>>
    BY Zenon DEF IndInv, AwaitBarrier
  <1>2. /\ OpTypeOK' /\ phase'[n] = "recheck" /\ want'[n] = want[n]
        /\ opGen'[n] = opGen[n] /\ \A m \in Nodes \ {n} : SameOp(m)
    BY <1>1, GotoFacts, Zenon DEF AwaitBarrier, Phases
  <1>3. TypeOK'
    BY <1>1, <1>2, ZenonT(30) DEF TypeOK, OpTypeOK
  <1>4. AckedDurable'
    BY <1>1, BrokerFrame, SafetyFrame, ZenonT(30)
  <1>5. /\ producerEpoch[n] # 0 /\ want[n] \in Schemas
        /\ opGen[n] <= generation /\ opGen[n] # 0
    BY <1>1, Zenon DEF IndInv, EpochInv, RecordInv, GenerationInv, Fenced, Holding
  <1>6. ASSUME Holds(n)
        PROVE  (\A i \in Committed : i <= applied[n]) /\ NoLate("commit")
    <2>1. \A i \in Committed : i < token[n]
      BY <1>1, <1>6, Zenon DEF IndInv, HolderInv
    <2>2. applied[n] \in Nat /\ token[n] \in Nat /\ Open \cup Committed \subseteq Nat
      BY <1>1, OffsetFacts, ZenonT(30) DEF TypeOK
    <2>3. \A i \in Committed : i <= applied[n]
      BY <1>1, <2>1, <2>2
    <2>4. ASSUME NEW r \in late, r.kind = "commit", r.epoch = epoch
          PROVE  FALSE
      <3>1. PICK i \in Open : i < token[n]
        BY <1>1, <1>6, <2>4, Zenon DEF IndInv, LateInv
      <3>2. applied[n] < i
        BY <3>1, Zenon DEF IndInv, StoreInv
      <3> QED  BY <1>1, <2>2, <3>1, <3>2
    <2> QED  BY <2>3, <2>4, ZenonT(30) DEF NoLate
  <1> QED  BY <1>1, <1>2, <1>3, <1>4, <1>5, <1>6, HandlerStep, Zenon DEF Fenced

(* The second look at the election changes nothing in what is known.       *)
LEMMA RecheckStep ==
    ASSUME IndInv, NEW n \in Nodes, Recheck(n)
    PROVE  IndInv'
  <1>1. /\ TypeOK /\ phase[n] = "recheck"
        /\ UNCHANGED <<groupVars, brokerVars, storeVars, fenceVars, acked, countVars>>
    BY Zenon DEF IndInv, Recheck
  <1>2. CASE Release(n)
    BY <1>1, <1>2, ReleaseStep, Zenon
  <1>3. CASE Goto(n, "decide")
    <2>1. /\ OpTypeOK' /\ phase'[n] = "decide" /\ want'[n] = want[n]
          /\ opGen'[n] = opGen[n] /\ \A m \in Nodes \ {n} : SameOp(m)
      BY <1>1, <1>3, GotoFacts, Zenon DEF Phases
    <2>2. TypeOK'
      BY <1>1, <2>1, Zenon DEF TypeOK, OpTypeOK
    <2>3. AckedDurable'
      BY <1>1, BrokerFrame, SafetyFrame, Zenon
    <2>4. /\ producerEpoch[n] # 0 /\ want[n] \in Schemas
          /\ opGen[n] <= generation /\ opGen[n] # 0
      BY <1>1, Zenon DEF IndInv, EpochInv, RecordInv, GenerationInv, Fenced, Holding
    <2>5. Holds(n) => (\A i \in Committed : i <= applied[n]) /\ NoLate("commit")
      BY <1>1, Zenon DEF IndInv, HolderInv
    <2> QED  BY <1>1, <2>1, <2>2, <2>3, <2>4, <2>5, HandlerStep, Zenon DEF Fenced
  <1> QED  BY <1>2, <1>3, Zenon DEF Recheck

(* The decision is taken on a store that contains all that is committed.   *)
LEMMA DecideStep ==
    ASSUME IndInv, NEW n \in Nodes, Decide(n)
    PROVE  IndInv'
  <1>1. /\ TypeOK /\ phase[n] = "decide" /\ want[n] \in Schemas
        /\ producerEpoch[n] # 0 /\ opGen[n] <= generation /\ opGen[n] # 0
        /\ UNCHANGED <<groupVars, brokerVars, storeVars, fenceVars, countVars>>
    BY Zenon DEF IndInv, Decide, RecordInv, EpochInv, GenerationInv, Holding, Fenced
  <1>2. CASE idOf[n][want[n]] # 0
    <2>1. /\ Release(n) /\ acked' = acked \cup {<<want[n], idOf[n][want[n]]>>}
      BY <1>2, Zenon DEF Decide
    <2>2. /\ OpTypeOK' /\ phase'[n] = "idle" /\ opGen'[n] = 0
          /\ \A m \in Nodes \ {n} : SameOp(m)
      BY <1>1, <2>1, ReleaseFacts, Zenon
    <2>3. acked' \in SUBSET (Schemas \X Nat)
      <3>1. acked \in SUBSET (Schemas \X Nat) /\ idOf[n][want[n]] \in Nat
        BY <1>1, Zenon DEF TypeOK
      <3> QED  BY <1>1, <2>1, <3>1, AnswerType, SMTT(30)
    <2>4. TypeOK'
      BY <1>1, <2>2, <2>3, Zenon DEF TypeOK, OpTypeOK
    <2>5. AckedDurable'
      <3>1. \E i \in Committed : log[i].schema = want[n] /\ log[i].id = idOf[n][want[n]]
        BY <1>1, <1>2, ZenonT(30) DEF IndInv, StoreInv
      <3>2. Committed' = Committed /\ log' = log
        BY <1>1, BrokerFrame, Zenon
      <3> QED  BY <2>1, <3>1, <3>2, SMTT(30) DEF IndInv, AckedDurable
    <2>6. generation \in Nat /\ 0 <= generation
      BY <1>1, GenerationType, Zenon
    <2> QED  BY <1>1, <2>2, <2>4, <2>5, <2>6, HandlerStep, Zenon DEF Fenced, Holding
  <1>3. CASE idOf[n][want[n]] = 0
    <2>1. /\ acked' = acked /\ phase'[n] = "send" /\ newId'[n] = maxId[n] + 1
          /\ want'[n] = want[n] /\ opGen'[n] = opGen[n]
          /\ \A m \in Nodes \ {n} : SameOp(m)
      BY <1>1, <1>3, ZenonT(30) DEF Decide, TypeOK, SameOp
    <2>2. OpTypeOK'
      <3>1. maxId[n] + 1 \in Nat
        BY <1>1, Arithmetic, Zenon DEF TypeOK
      <3>2. /\ phase' = [phase EXCEPT ![n] = "send"]
            /\ newId' = [newId EXCEPT ![n] = maxId[n] + 1]
            /\ UNCHANGED <<want, opGen, token>>
        BY <1>3, Zenon DEF Decide
      <3> QED  BY <1>1, <3>1, <3>2, Zenon DEF TypeOK, OpTypeOK, Phases
    <2>3. TypeOK'
      BY <1>1, <2>1, <2>2, Zenon DEF TypeOK, OpTypeOK
    <2>4. AckedDurable'
      BY <1>1, <2>1, BrokerFrame, SafetyFrame, Zenon
    <2>5. ASSUME Holds(n)
          PROVE  NoLate("commit") /\ Fresh(want[n], maxId[n] + 1)
      <3>1. NoLate("commit") /\ \A i \in Committed : i <= applied[n]
        BY <1>1, <2>5, Zenon DEF IndInv, HolderInv
      <3>2. ASSUME NEW i \in Committed
            PROVE  log[i].id < maxId[n] + 1 /\ log[i].schema # want[n]
        <4>1. log[i].id <= maxId[n] /\ idOf[n][log[i].schema] = log[i].id
          BY <3>1, Zenon DEF IndInv, StoreInv
        <4>2. log[i].id # 0
          BY Zenon DEF IndInv, RecordInv
        <4>3. log[i].id \in Nat /\ maxId[n] \in Nat
          BY <1>1, OffsetFacts, Zenon DEF TypeOK, Record
        <4> QED  BY <1>3, <4>1, <4>2, <4>3, SMTT(30)
      <3> QED  BY <3>1, <3>2, Zenon DEF Fresh
    <2>6. newId'[n] # 0
      <3>1. maxId[n] + 1 # 0
        BY <1>1, Arithmetic, Zenon DEF TypeOK
      <3> QED  BY <2>1, <3>1, Zenon
    <2> QED  BY <1>1, <2>1, <2>3, <2>4, <2>5, <2>6, HandlerStep, Zenon DEF Fenced
  <1> QED  BY <1>2, <1>3, Zenon

(* The answer follows the barrier behind the committed record.             *)
LEMMA AwaitAppliedStep ==
    ASSUME IndInv, NEW n \in Nodes, AwaitApplied(n)
    PROVE  IndInv'
  <1>1. /\ TypeOK /\ phase[n] = "await2" /\ want[n] \in Schemas
        /\ Release(n) /\ acked' = acked \cup {<<want[n], newId[n]>>}
        /\ UNCHANGED <<groupVars, brokerVars, storeVars, fenceVars, countVars>>
    BY Zenon DEF IndInv, AwaitApplied, RecordInv, Holding, Fenced
  <1>2. /\ OpTypeOK' /\ phase'[n] = "idle" /\ opGen'[n] = 0
        /\ \A m \in Nodes \ {n} : SameOp(m)
    BY <1>1, ReleaseFacts, Zenon
  <1>3. acked' \in SUBSET (Schemas \X Nat)
    <2>1. acked \in SUBSET (Schemas \X Nat) /\ newId[n] \in Nat
      BY <1>1, Zenon DEF TypeOK
    <2> QED  BY <1>1, <2>1, AnswerType, SMTT(30)
  <1>4. TypeOK'
    BY <1>1, <1>2, <1>3, Zenon DEF TypeOK, OpTypeOK
  <1>5. AckedDurable'
    <2>1. \E i \in Committed : log[i].schema = want[n] /\ log[i].id = newId[n]
      BY <1>1, ZenonT(30) DEF IndInv, AnsweredInv
    <2>2. Committed' = Committed /\ log' = log
      BY <1>1, BrokerFrame, Zenon
    <2> QED  BY <1>1, <2>1, <2>2 DEF IndInv, AckedDurable
  <1>6. generation \in Nat /\ 0 <= generation
    BY <1>1, GenerationType, Zenon
  <1> QED  BY <1>1, <1>2, <1>4, <1>5, <1>6, HandlerStep, Zenon DEF Fenced, Holding

(***************************************************************************)
(* The election group and the reader.                                      *)
(***************************************************************************)

(* The invariant only asks of the group that generations do not fall.      *)
LEMMA GroupStep ==
    ASSUME IndInv, TypeOK',
           UNCHANGED <<brokerVars, storeVars, fenceVars, opVars, acked>>,
           generation <= generation',
           \A n \in Nodes : primary'[n] <= generation'
    PROVE  IndInv'
  <1>0. /\ Open' = Open /\ Committed' = Committed
        /\ \A s, id : Fresh(s, id)' <=> Fresh(s, id)
        /\ \A k : NoLate(k)' <=> NoLate(k)
        /\ \A i : SoleCandidate(i)' <=> SoleCandidate(i)
        /\ \A i : Validated(i)' <=> Validated(i)
    BY BrokerFrame, Zenon
  <1>1. EpochInv'
    BY <1>0, Zenon DEF IndInv, EpochInv, Holds
  <1>2. GenerationInv'
    <2>1. generation \in Nat /\ generation' \in Nat
      BY SMTT(30) DEF IndInv, TypeOK, generation
    <2>2. /\ \A n \in Nodes : opGen[n] \in Nat
          /\ \A r \in late : r.gen \in Nat
          /\ \A i \in Open \cup Committed : log[i].gen \in Nat
      BY OffsetFacts, Zenon DEF IndInv, TypeOK, LateRequest, Record
    <2>3. ASSUME NEW g \in Nat, g <= generation
          PROVE  g <= generation'
      BY <2>1, <2>3
    <2> QED  BY <1>0, <2>2, <2>3, Zenon DEF IndInv, GenerationInv
  <1>3. RecordInv' /\ StoreInv' /\ AnsweredInv'
    BY <1>0, ZenonT(30) DEF IndInv, RecordInv, StoreInv, AnsweredInv
  <1>4. HolderInv'
    BY <1>0, Zenon DEF IndInv, HolderInv, Holds, Driving
  <1>5. LateInv'
    BY <1>0, ZenonT(30) DEF IndInv, LateInv, Holds
  <1>6. UniqueIds' /\ StalePrimaryRejected' /\ AckedDurable'
    BY <1>0, SafetyFrame, Zenon
  <1> QED  BY <1>1, <1>2, <1>3, <1>4, <1>5, <1>6, Zenon DEF IndInv

(* A completed rebalance raises the generation.                            *)
LEMMA RebalanceStep ==
    ASSUME IndInv, NEW m \in Nodes, Rebalance(m)
    PROVE  IndInv'
  <1>1. TypeOK
    BY Zenon DEF IndInv
  <1>2. masters' \in Seq(Nodes) /\ generation' = generation + 1 /\ generation \in Nat
    BY <1>1 DEF TypeOK, Rebalance, generation
  <1>3. TypeOK'
    BY <1>1, <1>2, Zenon DEF TypeOK, Rebalance
  <1>4. \A n \in Nodes : primary'[n] <= generation'
    <2>1. \A n \in Nodes : primary[n] \in Nat /\ primary[n] <= generation
      BY <1>1, Zenon DEF IndInv, GenerationInv, TypeOK
    <2> QED  BY <1>2, <2>1 DEF Rebalance
  <1> QED  BY <1>2, <1>3, <1>4, GroupStep DEF Rebalance

(* A node publishes a generation the group has reached.                    *)
LEMMA PublishStep ==
    ASSUME IndInv, NEW n \in Nodes, Publish(n)
    PROVE  IndInv'
  <1>1. TypeOK /\ masters' = masters
    BY Zenon DEF IndInv, Publish
  <1>2. generation \in Nat /\ generation' = generation
    BY <1>1 DEF TypeOK, generation
  <1>3. PICK g \in (synced[n] + 1)..generation :
          /\ synced' = [synced EXCEPT ![n] = g]
          /\ primary' = [primary EXCEPT ![n] = IF masters[g] = n THEN g ELSE 0]
    BY Zenon DEF Publish
  <1>4. g \in Nat /\ g <= generation
    <2>1. synced[n] \in Nat
      BY <1>1, Zenon DEF TypeOK
    <2> QED  BY <1>2, <2>1, Arithmetic, Zenon
  <1>5. TypeOK'
    <2>1. synced' \in [Nodes -> Nat] /\ primary' \in [Nodes -> Nat]
      BY <1>1, <1>3, <1>4, Zenon DEF TypeOK
    <2> QED  BY <1>1, <2>1, Zenon DEF TypeOK, Publish
  <1>6. \A m \in Nodes : primary'[m] <= generation
    BY <1>1, <1>2, <1>3, <1>4 DEF IndInv, GenerationInv, TypeOK
  <1> QED  BY <1>2, <1>5, <1>6, GroupStep DEF Publish

(* A lost election session takes a belief away.                            *)
LEMMA LoseSessionStep ==
    ASSUME IndInv, NEW n \in Nodes, LoseSession(n)
    PROVE  IndInv'
  <1>1. TypeOK /\ masters' = masters
    BY Zenon DEF IndInv, LoseSession
  <1>2. generation \in Nat /\ generation' = generation
    BY <1>1 DEF TypeOK, generation
  <1>3. TypeOK'
    BY <1>1, Zenon DEF TypeOK, LoseSession
  <1>4. \A m \in Nodes : primary'[m] <= generation
    BY <1>1, <1>2 DEF IndInv, GenerationInv, TypeOK, LoseSession
  <1> QED  BY <1>2, <1>3, <1>4, GroupStep DEF LoseSession

(* The reader stays below the open transaction and folds what it passes.   *)
LEMMA ApplyStep ==
    ASSUME IndInv, NEW n \in Nodes, Apply(n)
    PROVE  IndInv'
  <1> DEFINE k == applied[n] + 1
  <1>1. /\ TypeOK /\ k \in 1..Len(log) /\ Stable(k)
        /\ applied' = [applied EXCEPT ![n] = k]
        /\ UNCHANGED <<groupVars, brokerVars, fenceVars, opVars, acked, countVars>>
    BY Zenon DEF IndInv, Apply
  <1>2. /\ Open' = Open /\ Committed' = Committed /\ log' = log
        /\ \A s, id : Fresh(s, id)' <=> Fresh(s, id)
        /\ \A q : NoLate(q)' <=> NoLate(q)
        /\ \A i : SoleCandidate(i)' <=> SoleCandidate(i)
        /\ \A i : Validated(i)' <=> Validated(i)
    BY <1>1, BrokerFrame, Zenon
  <1>3. /\ applied \in [Nodes -> Nat] /\ Open \subseteq Nat /\ Committed \subseteq Nat
        /\ Len(log) \in Nat
    BY <1>1, OffsetFacts, Zenon DEF TypeOK
  <1>4. /\ applied' \in [Nodes -> Nat] /\ applied'[n] = k
        /\ \A m \in Nodes \ {n} : applied'[m] = applied[m]
        /\ \A m \in Nodes : applied[m] <= applied'[m]
    BY <1>1, <1>3
  <1>5. /\ maxId' \in [Nodes -> Nat] /\ idOf' \in [Nodes -> [Schemas -> Nat]]
        /\ \A m \in Nodes \ {n} : maxId'[m] = maxId[m] /\ idOf'[m] = idOf[m]
        /\ k \in Committed => /\ maxId'[n] >= log[k].id /\ maxId'[n] >= maxId[n]
                             /\ idOf'[n] = [idOf[n] EXCEPT ![log[k].schema] = log[k].id]
        /\ k \notin Committed => maxId'[n] = maxId[n] /\ idOf'[n] = idOf[n]
    <2>1. maxId \in [Nodes -> Nat] /\ idOf \in [Nodes -> [Schemas -> Nat]]
      BY <1>1, Zenon DEF TypeOK
    <2>2. CASE k \in Committed
      <3>1. log[k].schema \in Schemas /\ log[k].id \in Nat
        BY <1>1, <2>2, OffsetFacts, Zenon DEF IndInv, RecordInv, Record
      <3>2. /\ maxId' = [maxId EXCEPT ![n] = IF log[k].id > maxId[n] THEN log[k].id ELSE maxId[n]]
            /\ idOf' = [idOf EXCEPT ![n] = [idOf[n] EXCEPT ![log[k].schema] = log[k].id]]
        BY <2>2, Zenon DEF Apply
      <3> HIDE DEF k
      <3>3. maxId' \in [Nodes -> Nat] /\ maxId'[n] >= log[k].id /\ maxId'[n] >= maxId[n]
        BY <2>1, <3>1, <3>2
      <3>4. idOf' \in [Nodes -> [Schemas -> Nat]]
        BY <2>1, <3>1, <3>2, Zenon
      <3>5. idOf'[n] = [idOf[n] EXCEPT ![log[k].schema] = log[k].id]
        BY <2>1, <3>2, Zenon
      <3>6. \A m \in Nodes \ {n} : maxId'[m] = maxId[m] /\ idOf'[m] = idOf[m]
        BY <2>1, <3>2, Zenon
      <3> QED  BY <2>2, <3>3, <3>4, <3>5, <3>6, Zenon
    <2>3. CASE k \notin Committed
      BY <2>1, <2>3, Zenon DEF Apply
    <2> QED  BY <2>2, <2>3, Zenon
  <1> HIDE DEF k
  <1>6. TypeOK'
    BY <1>1, <1>4, <1>5, Zenon DEF TypeOK
  <1>7. StoreInv'
    <2> SUFFICES ASSUME NEW m \in Nodes
                 PROVE  /\ applied'[m] <= Len(log)
                        /\ \A i \in Open : applied'[m] < i
                        /\ \A i \in Committed : i <= applied'[m]
                              => log[i].id <= maxId'[m] /\ idOf'[m][log[i].schema] = log[i].id
                        /\ \A s \in Schemas : idOf'[m][s] # 0
                              => \E i \in Committed : log[i].schema = s /\ log[i].id = idOf'[m][s]
      BY <1>2, ZenonT(30) DEF StoreInv
    <2>1. CASE m # n
      <3>1. applied'[m] = applied[m] /\ maxId'[m] = maxId[m] /\ idOf'[m] = idOf[m]
        BY <1>4, <1>5, <2>1, Zenon
      <3> QED  BY <3>1 DEF IndInv, StoreInv
    <2>2. CASE m = n
      <3>1. applied'[n] <= Len(log) /\ \A i \in Open : applied'[n] < i
        BY <1>1, <1>4 DEF Stable
      <3>2. ASSUME NEW i \in Committed, i <= applied'[n]
            PROVE  log[i].id <= maxId'[n] /\ idOf'[n][log[i].schema] = log[i].id
        <4>1. /\ log[i].id \in Nat /\ log[i].schema \in Schemas
              /\ maxId[n] \in Nat /\ maxId'[n] \in Nat /\ idOf[n] \in [Schemas -> Nat]
          BY <1>1, <1>5, OffsetFacts, Zenon DEF IndInv, RecordInv, Record, TypeOK
        <4>2. CASE i = k
          BY <1>5, <3>2, <4>1, <4>2, Zenon
        <4>3. CASE i # k
          <5>1. i <= applied[n]
            BY <1>3, <1>4, <3>2, <4>3 DEF k
          <5>2. log[i].id <= maxId[n] /\ idOf[n][log[i].schema] = log[i].id
            BY <5>1, Zenon DEF IndInv, StoreInv
          <5>3. k \in Committed => log[k].schema # log[i].schema /\ log[k].id \in Nat
            BY <1>1, <4>3, OffsetFacts, Zenon DEF IndInv, UniqueIds, Record
          <5>4. log[i].id <= maxId'[n]
            BY <1>5, <4>1, <5>2, SMTT(30)
          <5>5. idOf'[n][log[i].schema] = log[i].id
            BY <1>5, <4>1, <5>2, <5>3, Zenon
          <5> QED  BY <5>4, <5>5, Zenon
        <4> QED  BY <4>2, <4>3, Zenon
      <3>3. ASSUME NEW s \in Schemas, idOf'[n][s] # 0
            PROVE  \E i \in Committed : log[i].schema = s /\ log[i].id = idOf'[n][s]
        <4>1. idOf[n] \in [Schemas -> Nat]
          BY <1>1, Zenon DEF TypeOK
        <4>2. CASE k \in Committed /\ log[k].schema = s
          BY <1>5, <4>1, <4>2, Zenon
        <4>3. CASE ~(k \in Committed /\ log[k].schema = s)
          <5>1. idOf'[n][s] = idOf[n][s]
            BY <1>5, <4>1, <4>3, Zenon
          <5> QED  BY <3>3, <5>1 DEF IndInv, StoreInv
        <4> QED  BY <4>2, <4>3, Zenon
      <3> QED  BY <2>2, <3>1, <3>2, <3>3, Zenon
    <2> QED  BY <2>1, <2>2, Zenon
  <1>8. HolderInv'
    <2>1. \A m \in Nodes, i \in Committed : i <= applied[m] => i <= applied'[m]
      BY <1>3, <1>4
    <2>2. \A m \in Nodes : (Driving(m)' <=> Driving(m)) /\ (Holds(m)' <=> Holds(m))
      BY <1>1, <1>2, Zenon DEF Driving, Holds
    <2> QED  BY <1>1, <1>2, <2>1, <2>2, Zenon DEF IndInv, HolderInv
  <1>9. EpochInv' /\ GenerationInv' /\ RecordInv'
    BY <1>1, <1>2, ZenonT(30) DEF IndInv, EpochInv, GenerationInv, RecordInv, Holds, generation
  <1>10. LateInv' /\ AnsweredInv'
    BY <1>1, <1>2, Zenon DEF IndInv, LateInv, AnsweredInv, Holds
  <1>11. UniqueIds' /\ StalePrimaryRejected' /\ AckedDurable'
    BY <1>1, <1>2, SafetyFrame, Zenon
  <1> QED  BY <1>6, <1>7, <1>8, <1>9, <1>10, <1>11, Zenon DEF IndInv

(***************************************************************************)
(* Barriers and epochs.                                                    *)
(***************************************************************************)

(* Only the open and the committed records matter to the invariant.        *)
LEMMA RecordFrame ==
    ASSUME Open' = Open, Committed' = Committed,
           \A i \in Open \cup Committed : log'[i] = log[i]
    PROVE  /\ \A s, id : Fresh(s, id)' <=> Fresh(s, id)
           /\ \A i \in Open : SoleCandidate(i)' <=> SoleCandidate(i)
           /\ \A i \in Open : Validated(i)' <=> Validated(i)
  <1>1. \A s, id : Fresh(s, id)' <=> Fresh(s, id)
    BY Zenon DEF Fresh
  <1>2. \A i \in Open : SoleCandidate(i)' <=> SoleCandidate(i)
    BY <1>1, Zenon DEF SoleCandidate
  <1> QED  BY <1>1, <1>2 DEF Validated

(* A barrier lies behind every record there is.                            *)
LEMMA BarrierStep ==
    ASSUME IndInv, NEW n \in Nodes, NEW p \in {"boot", "await", "await2"},
           OrderBarrierThen(n, p),
           p = "boot" => phase[n] = "down",
           p = "await" => phase[n] = "order",
           p = "await2" => phase[n] = "order2",
           UNCHANGED <<groupVars, storeVars, fenceVars, acked, countVars>>
    PROVE  IndInv'
  <1>1. TypeOK /\ epoch' = epoch /\ late' = late
    BY Zenon DEF IndInv, OrderBarrierThen
  <1>2. /\ log' \in Seq(Record) /\ Len(log') = Len(log) + 1
        /\ Open' = Open /\ Committed' = Committed
        /\ \A i \in 1..Len(log) : log'[i] = log[i]
    BY <1>1, LogBarrier, Zenon DEF OrderBarrierThen
  <1>3. /\ Len(log) \in Nat /\ Open \subseteq 1..Len(log) /\ Committed \subseteq 1..Len(log)
    BY <1>1, OffsetFacts, Zenon
  <1>4. \A i \in Open \cup Committed : log'[i] = log[i] /\ i <= Len(log) /\ i \in Nat
    BY <1>2, <1>3
  <1>5. /\ \A s, id : Fresh(s, id)' <=> Fresh(s, id)
        /\ \A i \in Open : SoleCandidate(i)' <=> SoleCandidate(i)
        /\ \A i \in Open : Validated(i)' <=> Validated(i)
    BY <1>2, <1>4, RecordFrame, Zenon
  <1>6. \A k : NoLate(k)' <=> NoLate(k)
    BY <1>1, Zenon DEF NoLate
  <1>7. /\ phase'[n] = p /\ want'[n] = want[n] /\ newId'[n] = newId[n]
        /\ opGen'[n] = opGen[n] /\ token'[n] = Len(log) + 1
        /\ \A m \in Nodes \ {n} : SameOp(m)
    BY <1>1, Zenon DEF OrderBarrierThen, SameOp, TypeOK
  <1>8. TypeOK'
    <2>1. token' \in [Nodes -> Nat] /\ phase' \in [Nodes -> Phases]
      BY <1>1, <1>3, SMTT(30) DEF OrderBarrierThen, TypeOK, Phases
    <2> QED  BY <1>1, <1>2, <2>1, Zenon DEF OrderBarrierThen, TypeOK
  <1>9. EpochInv'
    <2>1. \A m \in Nodes : phase'[m] \in Fenced \/ fencedGen'[m] # 0 => producerEpoch'[m] # 0
      BY <1>7, Zenon DEF IndInv, EpochInv, SameOp, Fenced
    <2> QED  BY <1>1, <1>2, <1>4, <2>1, SMTT(30) DEF IndInv, EpochInv, Holds
  <1>10. GenerationInv'
    <2>1. \A m \in Nodes : opGen'[m] = opGen[m]
      BY <1>7, Zenon DEF SameOp
    <2>2. \A m \in Nodes : phase'[m] \in Fenced \cup {"fence"} => opGen'[m] # 0
      BY <1>7, Zenon DEF IndInv, GenerationInv, SameOp, Fenced
    <2> QED  BY <1>1, <1>2, <1>4, <2>1, <2>2, Zenon DEF IndInv, GenerationInv, generation
  <1>11. RecordInv'
    <2>1. \A m \in Nodes :
            /\ phase'[m] \in Holding => want'[m] \in Schemas
            /\ phase'[m] \in {"send", "validate", "commit"} => newId'[m] # 0
      BY <1>7, Zenon DEF IndInv, RecordInv, SameOp, Holding, Fenced
    <2> QED  BY <1>1, <1>2, <1>4, <2>1, Zenon DEF IndInv, RecordInv
  <1>12. StoreInv'
    <2>1. \A m \in Nodes : applied[m] \in Nat /\ applied[m] <= Len(log)
      BY <1>1, Zenon DEF IndInv, StoreInv, TypeOK
    <2>2. \A m \in Nodes : applied[m] <= Len(log')
      BY <1>2, <1>3, <2>1, SMTT(30)
    <2> QED  BY <1>2, <1>4, <2>2, StoreFrame, ZenonT(30) DEF IndInv, StoreInv
  <1>13. HolderInv'
    <2> SUFFICES ASSUME NEW m \in Nodes, Holds(m)
                 PROVE  /\ phase'[m] = "await" => \A i \in Committed : i < token'[m]
                        /\ phase'[m] \in {"recheck", "decide"}
                              => \A i \in Committed : i <= applied[m]
                        /\ phase'[m] = "send" => Fresh(want'[m], newId'[m])
                        /\ phase'[m] \in {"recheck", "decide", "send", "validate", "commit"}
                              => NoLate("commit")
                        /\ phase'[m] \in {"validate", "commit"} => NoLate("send") /\ Driving(m)'
      BY <1>1, <1>2, <1>5, <1>6, Zenon DEF HolderInv, Holds
    <2>1. CASE m = n
      BY <1>3, <1>4, <1>7, <2>1, SMTT(30)
    <2>2. CASE m # n
      <3>1. Driving(m)' <=> Driving(m)
        BY <1>2, <1>4, <1>5, <1>7, <2>2, ZenonT(30) DEF Driving, SameOp
      <3> QED  BY <1>7, <2>2, <3>1, Zenon DEF IndInv, HolderInv, SameOp
    <2> QED  BY <2>1, <2>2, Zenon
  <1>14. LateInv'
    <2>1. \A i \in Open, m \in Nodes :
            (Holds(m) /\ phase[m] = "await" => i < token[m])
              => (Holds(m) /\ phase'[m] = "await" => i < token'[m])
      <3> SUFFICES ASSUME NEW i \in Open, NEW m \in Nodes, phase'[m] = "await",
                          phase[m] = "await" => i < token[m]
                   PROVE  i < token'[m]
        BY Zenon
      <3>1. CASE m = n
        <4>1. i \in Nat /\ i <= Len(log)
          BY <1>4, Zenon
        <4>2. i < Len(log) + 1
          BY <1>3, <4>1, NextOffset, Zenon
        <4> QED  BY <1>7, <3>1, <4>2, Zenon
      <3>2. CASE m # n
        BY <1>7, <3>2, Zenon DEF SameOp
      <3> QED  BY <3>1, <3>2, Zenon
    <2> QED  BY <1>1, <1>2, <1>5, <1>6, <2>1, Zenon DEF IndInv, LateInv, Holds
  <1>15. AnsweredInv'
    <2> SUFFICES ASSUME NEW m \in Nodes, phase'[m] \in {"order2", "await2"}
                 PROVE  \E i \in Committed :
                          /\ log[i].schema = want'[m] /\ log[i].id = newId'[m]
                          /\ phase'[m] = "await2" => i < token'[m]
      BY <1>2, <1>4, Zenon DEF AnsweredInv
    <2>1. /\ phase[m] \in {"order2", "await2"} /\ want'[m] = want[m] /\ newId'[m] = newId[m]
      BY <1>7, Zenon DEF SameOp
    <2>2. PICK i \in Committed :
            /\ log[i].schema = want[m] /\ log[i].id = newId[m]
            /\ phase[m] = "await2" => i < token[m]
      BY <2>1, Zenon DEF IndInv, AnsweredInv
    <2>3. phase'[m] = "await2" => i < token'[m]
      BY <1>3, <1>4, <1>7, <2>2 DEF SameOp
    <2> QED  BY <2>1, <2>2, <2>3, Zenon
  <1>16. UniqueIds' /\ StalePrimaryRejected' /\ AckedDurable'
    BY <1>2, <1>4, SafetyFrame, Zenon
  <1> QED  BY <1>8, <1>9, <1>10, <1>11, <1>12, <1>13, <1>14, <1>15, <1>16, Zenon DEF IndInv

(* The first barrier of KafkaStore::start.                                 *)
LEMMA StartStep ==
    ASSUME IndInv, NEW n \in Nodes, Start(n)
    PROVE  IndInv'
  BY BarrierStep, Zenon DEF Start

(* The barrier of prepare_write.                                           *)
LEMMA OrderBarrierStep ==
    ASSUME IndInv, NEW n \in Nodes, OrderBarrier(n)
    PROVE  IndInv'
  BY BarrierStep, Zenon DEF OrderBarrier

(* The barrier of await_applied.                                           *)
LEMMA OrderAppliedStep ==
    ASSUME IndInv, NEW n \in Nodes, OrderApplied(n)
    PROVE  IndInv'
  BY BarrierStep, Zenon DEF OrderApplied

(* A new epoch leaves no one with an older epoch anything to commit. F     *)
(* is the node that takes the epoch, if one does.                          *)
LEMMA EpochStep ==
    ASSUME IndInv, TypeOK', NextEpoch, NEW F \in SUBSET Nodes,
           \A a, b \in F : a = b,
           \A m \in Nodes \ F : /\ SameOp(m) /\ producerEpoch'[m] = producerEpoch[m]
                                /\ fencedGen'[m] = fencedGen[m],
           \A m \in F : /\ phase[m] = "fence" /\ phase'[m] = "order"
                        /\ want'[m] = want[m] /\ opGen'[m] = opGen[m]
                        /\ producerEpoch'[m] = epoch + 1,
           late' \subseteq late,
           UNCHANGED <<groupVars, storeVars, acked>>
    PROVE  IndInv'
  <1>1. TypeOK /\ epoch' = epoch + 1 /\ epoch \in Nat
    BY Zenon DEF IndInv, NextEpoch, TypeOK
  <1>0. epoch + 1 # 0 /\ \A e \in Nat : e <= epoch => e <= epoch' /\ e # epoch + 1
    BY <1>1
  <1>2. /\ log' \in Seq(Record) /\ Len(log') = Len(log)
        /\ Open' = {} /\ Committed' = Committed
        /\ \A i \in Committed : log'[i] = log[i]
    BY <1>1, LogAbort, ZenonT(30) DEF NextEpoch
  <1>3. \A m \in Nodes : producerEpoch[m] \in Nat /\ producerEpoch[m] <= epoch
    BY <1>1, Zenon DEF IndInv, EpochInv, TypeOK
  <1>4. \A r \in late : r.epoch \in Nat /\ r.epoch <= epoch
    BY <1>1, ZenonT(30) DEF IndInv, EpochInv, TypeOK, LateRequest
  <1>5. \A r \in late' : r.epoch # epoch'
    BY <1>1, <1>4, <1>0, Zenon
  <1>6. \A m \in Nodes : Holds(m)' => m \in F
    BY <1>1, <1>3, <1>0, Zenon DEF Holds
  <1>7. EpochInv'
    <2>1. \A m \in Nodes : producerEpoch'[m] <= epoch'
      BY <1>1, <1>3, SMTT(30)
    <2>2. \A m \in Nodes : phase'[m] \in Fenced \/ fencedGen'[m] # 0 => producerEpoch'[m] # 0
      <3> SUFFICES ASSUME NEW m \in Nodes,
                          phase'[m] \in Fenced \/ fencedGen'[m] # 0
                   PROVE  producerEpoch'[m] # 0
        BY Zenon
      <3>1. CASE m \in F
        BY <1>0, <3>1, Zenon
      <3>2. CASE m \notin F
        <4>1. /\ phase'[m] = phase[m] /\ fencedGen'[m] = fencedGen[m]
              /\ producerEpoch'[m] = producerEpoch[m]
          BY <3>2, Zenon DEF SameOp
        <4>2. phase[m] \in Fenced \/ fencedGen[m] # 0 => producerEpoch[m] # 0
          BY Zenon DEF IndInv, EpochInv
        <4> QED  BY <4>1, <4>2, Zenon
      <3> QED  BY <3>1, <3>2, Zenon
    <2>3. \A a, b \in Nodes :
            producerEpoch'[a] = producerEpoch'[b] /\ producerEpoch'[a] # 0 => a = b
      <3> SUFFICES ASSUME NEW a \in Nodes, NEW b \in Nodes,
                          producerEpoch'[a] = producerEpoch'[b], producerEpoch'[a] # 0
                   PROVE  a = b
        BY Zenon
      <3>1. \A m \in Nodes \ F : producerEpoch'[m] # epoch + 1
        BY <1>0, <1>3, Zenon
      <3>2. CASE a \in F \/ b \in F
        BY <3>1, <3>2, Zenon
      <3>3. CASE a \notin F /\ b \notin F
        <4>1. producerEpoch'[a] = producerEpoch[a] /\ producerEpoch'[b] = producerEpoch[b]
          BY <3>3, Zenon
        <4>2. producerEpoch[a] = producerEpoch[b] /\ producerEpoch[a] # 0 => a = b
          BY Zenon DEF IndInv, EpochInv
        <4> QED  BY <4>1, <4>2, Zenon
      <3> QED  BY <3>2, <3>3, Zenon
    <2>4. \A r \in late' : r.epoch <= epoch' /\ (r.kind # "init" => r.epoch # 0)
      BY <1>1, <1>4, <1>0, Zenon DEF IndInv, EpochInv
    <2>5. \A r \in late', m \in Nodes :
            r.kind # "init" /\ r.epoch = producerEpoch'[m] => r.node = m
      BY <1>1, <1>4 DEF IndInv, EpochInv
    <2> QED  BY <1>2, <2>1, <2>2, <2>3, <2>4, <2>5, Zenon DEF EpochInv
  <1>8. GenerationInv'
    <2>1. \A m \in Nodes : opGen'[m] = opGen[m]
      BY Zenon DEF SameOp
    <2>2. \A m \in Nodes : phase'[m] \in Fenced \cup {"fence"} => opGen'[m] # 0
      BY Zenon DEF IndInv, GenerationInv, SameOp, Fenced
    <2> QED  BY <1>2, <2>1, <2>2, Zenon DEF IndInv, GenerationInv, generation
  <1>9. RecordInv'
    <2>1. \A m \in Nodes :
            /\ phase'[m] \in Holding => want'[m] \in Schemas
            /\ phase'[m] \in {"send", "validate", "commit"} => newId'[m] # 0
      BY ZenonT(30) DEF IndInv, RecordInv, SameOp, Holding, Fenced
    <2> QED  BY <1>2, <2>1, ZenonT(30) DEF IndInv, RecordInv
  <1>10. StoreInv'
    BY <1>2 DEF IndInv, StoreInv
  <1>11. HolderInv'
    BY <1>6, Zenon DEF HolderInv
  <1>12. LateInv'
    BY <1>5, Zenon DEF LateInv
  <1>13. AnsweredInv'
    <2>1. \A m \in Nodes : phase'[m] \in {"order2", "await2"} => SameOp(m)
      BY Zenon
    <2> QED  BY <1>2, <2>1, ZenonT(30) DEF IndInv, AnsweredInv, SameOp
  <1>14. UniqueIds' /\ StalePrimaryRejected' /\ AckedDurable'
    BY <1>2, SafetyFrame, Zenon
  <1> QED  BY <1>7, <1>8, <1>9, <1>10, <1>11, <1>12, <1>13, <1>14, Zenon DEF IndInv

(* A new epoch keeps the types of the broker state.                        *)
LEMMA NextEpochType ==
    ASSUME TypeOK, NextEpoch
    PROVE  epoch' \in Nat /\ log' \in Seq(Record)
  BY LogAbort, SMTT(30) DEF TypeOK, NextEpoch

(* The coordinator gives a transaction up: nobody holds the new epoch.     *)
LEMMA TxnTimeoutStep ==
    ASSUME IndInv, TxnTimeout
    PROVE  IndInv'
  <1>1. TypeOK /\ NextEpoch
    BY Zenon DEF IndInv, TxnTimeout
  <1>2. epoch' \in Nat /\ log' \in Seq(Record)
    BY <1>1, NextEpochType, Zenon
  <1>3. faults' \in Nat
    BY <1>1 DEF TxnTimeout, TypeOK
  <1>4. TypeOK'
    BY <1>1, <1>2, <1>3, Zenon DEF TypeOK, TxnTimeout
  <1>5. \A m \in Nodes : /\ SameOp(m) /\ producerEpoch'[m] = producerEpoch[m]
                         /\ fencedGen'[m] = fencedGen[m]
    BY Zenon DEF TxnTimeout, SameOp
  <1> DEFINE F == {}
  <1>6. /\ F \in SUBSET Nodes /\ \A a, b \in F : a = b
        /\ \A m \in F : /\ phase[m] = "fence" /\ phase'[m] = "order"
                        /\ want'[m] = want[m] /\ opGen'[m] = opGen[m]
                        /\ producerEpoch'[m] = epoch + 1
    BY Zenon
  <1>7. \A m \in Nodes \ F : /\ SameOp(m) /\ producerEpoch'[m] = producerEpoch[m]
                             /\ fencedGen'[m] = fencedGen[m]
    BY <1>5, Zenon
  <1>8. late' \subseteq late /\ UNCHANGED <<groupVars, storeVars, acked>>
    BY Zenon DEF TxnTimeout
  <1> HIDE DEF F
  <1> QED  BY <1>1, <1>4, <1>6, <1>7, <1>8, EpochStep, Zenon

(* SchemaWriter::fence: nothing to do in a known generation, otherwise the *)
(* node alone holds the new epoch.                                         *)
LEMMA FenceStep ==
    ASSUME IndInv, NEW n \in Nodes, Fence(n)
    PROVE  IndInv'
  <1>1. /\ TypeOK /\ phase[n] = "fence" /\ Goto(n, "order")
        /\ UNCHANGED <<groupVars, late, storeVars, acked, countVars>>
    BY Zenon DEF IndInv, Fence
  <1>2. /\ OpTypeOK' /\ phase'[n] = "order" /\ want'[n] = want[n]
        /\ newId'[n] = newId[n] /\ opGen'[n] = opGen[n]
        /\ \A m \in Nodes \ {n} : SameOp(m)
    BY <1>1, GotoFacts, Zenon DEF Phases
  <1>3. CASE fencedGen[n] = opGen[n]
    <2>1. UNCHANGED <<epoch, log, fenceVars>>
      BY <1>3, Zenon DEF Fence
    <2>2. TypeOK'
      BY <1>1, <1>2, <2>1, Zenon DEF TypeOK, OpTypeOK
    <2>3. AckedDurable'
      BY <1>1, <2>1, BrokerFrame, SafetyFrame, Zenon
    <2>4. opGen[n] # 0 /\ opGen[n] <= generation /\ want[n] \in Schemas
      BY <1>1, Zenon DEF IndInv, GenerationInv, RecordInv, Fenced, Holding
    <2>5. producerEpoch[n] # 0
      BY <1>3, <2>4, Zenon DEF IndInv, EpochInv
    <2> QED  BY <1>1, <1>2, <2>1, <2>2, <2>3, <2>4, <2>5, HandlerStep, Zenon
  <1>4. CASE fencedGen[n] # opGen[n]
    <2>1. /\ NextEpoch
          /\ producerEpoch' = [producerEpoch EXCEPT ![n] = epoch + 1]
          /\ fencedGen' = [fencedGen EXCEPT ![n] = opGen[n]]
      BY <1>4, Zenon DEF Fence
    <2>2. epoch' \in Nat /\ log' \in Seq(Record)
      BY <1>1, <2>1, NextEpochType, Zenon
    <2>3. producerEpoch' \in [Nodes -> Nat] /\ fencedGen' \in [Nodes -> Nat]
      BY <1>1, <2>1, SMTT(30) DEF TypeOK
    <2>4. TypeOK'
      BY <1>1, <1>2, <2>2, <2>3, Zenon DEF TypeOK, OpTypeOK
    <2>5. producerEpoch'[n] = epoch + 1
      BY <1>1, <2>1, Zenon DEF TypeOK
    <2>6. \A m \in Nodes \ {n} : /\ SameOp(m) /\ producerEpoch'[m] = producerEpoch[m]
                                 /\ fencedGen'[m] = fencedGen[m]
      BY <1>1, <1>2, <2>1, Zenon DEF TypeOK
    <2> DEFINE F == {n}
    <2>7. /\ F \in SUBSET Nodes /\ \A a, b \in F : a = b
          /\ \A m \in Nodes \ F : /\ SameOp(m) /\ producerEpoch'[m] = producerEpoch[m]
                                  /\ fencedGen'[m] = fencedGen[m]
          /\ \A m \in F : /\ phase[m] = "fence" /\ phase'[m] = "order"
                          /\ want'[m] = want[m] /\ opGen'[m] = opGen[m]
                          /\ producerEpoch'[m] = epoch + 1
      BY <1>1, <1>2, <2>5, <2>6, Zenon
    <2>8. late' \subseteq late /\ UNCHANGED <<groupVars, storeVars, acked>>
      BY <1>1, Zenon
    <2> HIDE DEF F
    <2> QED  BY <2>1, <2>4, <2>7, <2>8, EpochStep, Zenon
  <1> QED  BY <1>3, <1>4, Zenon

(***************************************************************************)
(* The transaction of a request.                                           *)
(***************************************************************************)

(* A node that holds the epoch holds it alone.                             *)
LEMMA SoleHolder ==
    ASSUME IndInv, NEW n \in Nodes, Holds(n), producerEpoch[n] # 0
    PROVE  epoch # 0 /\ \A m \in Nodes : Holds(m) => m = n
  BY Zenon DEF IndInv, EpochInv, Holds

(* The holder's record is alone in the transaction it opens.               *)
LEMMA SendStep ==
    ASSUME IndInv, NEW n \in Nodes, Send(n)
    PROVE  IndInv'
  <1>1. /\ TypeOK /\ phase[n] = "send"
        /\ UNCHANGED <<groupVars, epoch, storeVars, fenceVars, acked, countVars>>
    BY Zenon DEF IndInv, Send
  <1>2. CASE Release(n) /\ UNCHANGED <<log, late>>
    BY <1>1, <1>2, ReleaseStep, Zenon
  <1>3. CASE /\ producerEpoch[n] = epoch
             /\ log' = Append(Resolve(log, "aborted"),
                              OpenRecord(n, want[n], newId[n], opGen[n], epoch))
             /\ late' = {r \in late : ~(r.kind = "send" /\ r.node = n)}
             /\ Goto(n, "validate")
    <2>1. /\ want[n] \in Schemas /\ newId[n] # 0 /\ producerEpoch[n] # 0
          /\ opGen[n] # 0 /\ opGen[n] <= generation
      BY <1>1, Zenon DEF IndInv, RecordInv, EpochInv, GenerationInv, Fenced, Holding
    <2>2. newId[n] \in Nat /\ opGen[n] \in Nat /\ epoch \in Nat
      BY <1>1, Zenon DEF TypeOK
    <2>3. PICK k \in Nat : Sends(k, n, want[n], newId[n], opGen[n], epoch)
      BY <1>1, <1>3, <2>1, <2>2, LogSend, Zenon
    <2>4. /\ k = Len(log) + 1 /\ Len(log) \in Nat /\ log' \in Seq(Record) /\ Len(log') = k
          /\ Open' = {k} /\ Committed' = Committed
      BY <2>3, Zenon DEF Sends
    <2>5. \A i \in Committed : log'[i] = log[i] /\ i < k /\ i \in Nat
      BY <2>3, Zenon DEF Sends
    <2>6. /\ log'[k].node = n /\ log'[k].schema = want[n] /\ log'[k].id = newId[n]
          /\ log'[k].gen = opGen[n] /\ log'[k].epoch = epoch
      BY <2>3, Zenon DEF Sends
    <2>7. /\ OpTypeOK' /\ phase'[n] = "validate" /\ want'[n] = want[n]
          /\ newId'[n] = newId[n] /\ opGen'[n] = opGen[n]
          /\ \A m \in Nodes \ {n} : SameOp(m)
      BY <1>1, <1>3, GotoFacts, Zenon DEF Phases
    <2>8. late' \subseteq late
      BY <1>3, Zenon
    <2>9. TypeOK'
      BY <1>1, <2>4, <2>7, <2>8, Zenon DEF TypeOK, OpTypeOK
    <2>10. epoch # 0 /\ \A m \in Nodes : Holds(m) => m = n
      BY <1>3, <2>1, SoleHolder, Zenon DEF Holds
    <2>11. Holds(n) /\ \A m \in Nodes : Holds(m)' <=> Holds(m)
      BY <1>1, <1>3, Zenon DEF Holds
    <2>12. NoLate("commit") /\ Fresh(want[n], newId[n])
      BY <1>1, <2>11, Zenon DEF IndInv, HolderInv
    <2>13. NoLate("commit")' /\ NoLate("send")'
      <3>1. \A r \in late : r.kind = "send" /\ r.epoch = epoch => r.node = n
        BY <1>3, Zenon DEF IndInv, EpochInv
      <3>2. \A r \in late' : r \in late /\ ~(r.kind = "send" /\ r.node = n)
        BY <1>3, Zenon
      <3> QED  BY <1>1, <2>12, <3>1, <3>2, Zenon DEF NoLate
    <2>14. EpochInv'
      <3>1. \A m \in Nodes : phase'[m] \in Fenced \/ fencedGen'[m] # 0 => producerEpoch'[m] # 0
        BY <1>1, <2>1, <2>7, Zenon DEF IndInv, EpochInv, SameOp
      <3>2. /\ \A i \in Open' : epoch' # 0 /\ log'[i].epoch = epoch'
            /\ \A i \in Open', m \in Nodes : Holds(m)' => log'[i].node = m
        BY <1>1, <2>4, <2>6, <2>10, <2>11, Zenon
      <3> QED  BY <1>1, <2>8, <3>1, <3>2, ZenonT(30) DEF IndInv, EpochInv
    <2>15. GenerationInv'
      <3>1. \A m \in Nodes : opGen'[m] = opGen[m]
        BY <2>7, Zenon DEF SameOp
      <3>2. \A m \in Nodes : phase'[m] \in Fenced \cup {"fence"} => opGen'[m] # 0
        BY <2>1, <2>7, Zenon DEF IndInv, GenerationInv, SameOp
      <3>3. generation' = generation
        BY <1>1, Zenon DEF generation
      <3> QED  BY <1>1, <2>1, <2>4, <2>5, <2>6, <2>8, <3>1, <3>2, <3>3, ZenonT(30) DEF IndInv, GenerationInv
    <2>16. RecordInv'
      <3>1. \A m \in Nodes :
              /\ phase'[m] \in Holding => want'[m] \in Schemas
              /\ phase'[m] \in {"send", "validate", "commit"} => newId'[m] # 0
        BY <2>1, <2>7, Zenon DEF IndInv, RecordInv, SameOp
      <3> QED  BY <2>1, <2>4, <2>5, <2>6, <2>8, <3>1, ZenonT(30) DEF IndInv, RecordInv
    <2>17. StoreInv'
      <3>1. \A m \in Nodes : applied[m] \in Nat /\ applied[m] <= Len(log)
        BY <1>1, Zenon DEF IndInv, StoreInv, TypeOK
      <3>2. \A m \in Nodes : applied[m] <= Len(log') /\ \A i \in Open' : applied[m] < i
        <4> SUFFICES ASSUME NEW m \in Nodes
                     PROVE  applied[m] <= Len(log') /\ \A i \in Open' : applied[m] < i
          BY Zenon
        <4>1. applied[m] <= Len(log) + 1 /\ applied[m] < Len(log) + 1
          BY <2>4, <3>1, NextOffset, Zenon
        <4> QED  BY <2>4, <4>1, Zenon
      <3> QED  BY <1>1, <2>4, <2>5, <3>2, StoreFrame, Zenon
    <2>18. Driving(n)'
      <3>1. SoleCandidate(k)'
        BY <2>4, <2>5, <2>6, <2>12, Zenon DEF SoleCandidate, Fresh
      <3> QED  BY <2>4, <2>6, <2>7, <3>1, Zenon DEF Driving
    <2>19. HolderInv'
      BY <2>7, <2>10, <2>11, <2>13, <2>18, Zenon DEF HolderInv
    <2>20. LateInv'
      BY <2>13, Zenon DEF LateInv, NoLate
    <2>21. AnsweredInv'
      BY <2>4, <2>5, <2>7, ZenonT(30) DEF IndInv, AnsweredInv, SameOp
    <2>22. UniqueIds' /\ StalePrimaryRejected' /\ AckedDurable'
      BY <1>1, <2>4, <2>5, SafetyFrame, Zenon
    <2> QED  BY <2>9, <2>14, <2>15, <2>16, <2>17, <2>19, <2>20, <2>21, <2>22, Zenon DEF IndInv
  <1> QED  BY <1>1, <1>2, <1>3, Zenon DEF Send

(* A stale primary aborts its own transaction; nobody else is affected.    *)
LEMMA AbortStep ==
    ASSUME IndInv, NEW n \in Nodes, phase[n] = "validate", Holds(n), Release(n),
           log' = Resolve(log, "aborted"),
           UNCHANGED <<groupVars, epoch, late, storeVars, fenceVars, acked, countVars>>
    PROVE  IndInv'
  <1>1. TypeOK
    BY Zenon DEF IndInv
  <1>2. /\ log' \in Seq(Record) /\ Len(log') = Len(log)
        /\ Open' = {} /\ Committed' = Committed
        /\ \A i \in Committed : log'[i] = log[i]
    BY <1>1, LogAbort, Zenon
  <1>3. /\ OpTypeOK' /\ phase'[n] = "idle" /\ opGen'[n] = 0
        /\ \A m \in Nodes \ {n} : SameOp(m)
    BY <1>1, ReleaseFacts, Zenon
  <1>4. TypeOK'
    BY <1>1, <1>2, <1>3, Zenon DEF TypeOK, OpTypeOK
  <1>5. \A m \in Nodes : Holds(m)' => m = n
    <2>1. producerEpoch[n] # 0
      BY Zenon DEF IndInv, EpochInv, Fenced
    <2> QED  BY <2>1, SoleHolder, Zenon DEF Holds
  <1>6. EpochInv'
    <2>1. \A m \in Nodes : phase'[m] \in Fenced \/ fencedGen'[m] # 0 => producerEpoch'[m] # 0
      BY <1>3, Zenon DEF IndInv, EpochInv, SameOp, Fenced
    <2> QED  BY <1>2, <2>1, ZenonT(30) DEF IndInv, EpochInv
  <1>7. GenerationInv'
    <2>1. generation \in Nat /\ 0 <= generation /\ generation' = generation
      BY <1>1, GenerationType, Zenon DEF generation
    <2>2. \A m \in Nodes : opGen'[m] <= generation
      BY <1>3, <2>1, ZenonT(30) DEF IndInv, GenerationInv, SameOp
    <2>3. \A m \in Nodes : phase'[m] \in Fenced \cup {"fence"} => opGen'[m] # 0
      BY <1>3, Zenon DEF IndInv, GenerationInv, SameOp, Fenced
    <2>4. \A i \in Open' \cup Committed' : log'[i].gen <= generation
      BY <1>2, Zenon DEF IndInv, GenerationInv
    <2> QED  BY <2>1, <2>2, <2>3, <2>4, Zenon DEF IndInv, GenerationInv
  <1>8. RecordInv'
    <2>1. \A m \in Nodes :
            /\ phase'[m] \in Holding => want'[m] \in Schemas
            /\ phase'[m] \in {"send", "validate", "commit"} => newId'[m] # 0
      BY <1>3, Zenon DEF IndInv, RecordInv, SameOp, Holding, Fenced
    <2> QED  BY <1>2, <2>1, Zenon DEF IndInv, RecordInv
  <1>9. StoreInv'
    <2>1. \A m \in Nodes : applied[m] <= Len(log')
      BY <1>2, Zenon DEF IndInv, StoreInv
    <2> QED  BY <1>2, <2>1, StoreFrame, Zenon
  <1>10. HolderInv'
    BY <1>3, <1>5, Zenon DEF HolderInv
  <1>11. LateInv'
    <2>1. NoLate("commit")
      BY Zenon DEF IndInv, HolderInv
    <2> QED  BY <2>1, Zenon DEF LateInv, NoLate
  <1>12. AnsweredInv'
    BY <1>2, <1>3, ZenonT(30) DEF IndInv, AnsweredInv, SameOp
  <1>13. UniqueIds' /\ StalePrimaryRejected' /\ AckedDurable'
    BY <1>2, SafetyFrame, Zenon
  <1> QED
    BY <1>4, <1>6, <1>7, <1>8, <1>9, <1>10, <1>11, <1>12, <1>13, Zenon DEF IndInv

(* A validated generation is the current one, so no newer one has written. *)
LEMMA ValidateStep ==
    ASSUME IndInv, NEW n \in Nodes, Validate(n)
    PROVE  IndInv'
  <1>1. /\ TypeOK /\ phase[n] = "validate"
        /\ UNCHANGED <<groupVars, epoch, late, storeVars, fenceVars, acked, countVars>>
    BY Zenon DEF IndInv, Validate
  <1>2. CASE Release(n) /\ UNCHANGED log
    BY <1>1, <1>2, ReleaseStep, Zenon
  <1>3. CASE Release(n) /\ producerEpoch[n] = epoch /\ log' = Resolve(log, "aborted")
    BY <1>1, <1>3, AbortStep, Zenon DEF Holds
  <1>4. CASE /\ producerEpoch[n] = epoch /\ opGen[n] = generation
             /\ Goto(n, "commit") /\ UNCHANGED log
    <2>1. /\ OpTypeOK' /\ phase'[n] = "commit" /\ want'[n] = want[n]
          /\ newId'[n] = newId[n] /\ opGen'[n] = opGen[n]
          /\ \A m \in Nodes \ {n} : SameOp(m)
      BY <1>1, <1>4, GotoFacts, Zenon DEF Phases
    <2>2. TypeOK'
      BY <1>1, <1>4, <2>1, Zenon DEF TypeOK, OpTypeOK
    <2>3. AckedDurable'
      BY <1>1, <1>4, BrokerFrame, SafetyFrame, ZenonT(30)
    <2>4. /\ want[n] \in Schemas /\ newId[n] # 0 /\ producerEpoch[n] # 0
          /\ opGen[n] # 0 /\ opGen[n] <= generation
      <3>1. want[n] \in Schemas /\ newId[n] # 0
        BY <1>1, Zenon DEF IndInv, RecordInv, Fenced, Holding
      <3>2. producerEpoch[n] # 0
        BY <1>1, Zenon DEF IndInv, EpochInv, Fenced
      <3>3. opGen[n] # 0 /\ opGen[n] <= generation
        BY <1>1, Zenon DEF IndInv, GenerationInv, Fenced
      <3> QED  BY <3>1, <3>2, <3>3, Zenon
    <2>5. Holds(n) /\ NoLate("commit") /\ NoLate("send")
      BY <1>1, <1>4, Zenon DEF IndInv, HolderInv, Holds
    <2>6. Driving(n)'
      <3>1. PICK i \in Open :
              /\ SoleCandidate(i)
              /\ log[i].schema = want[n] /\ log[i].id = newId[n] /\ log[i].gen = opGen[n]
        BY <1>1, <2>5, Zenon DEF IndInv, HolderInv, Driving
      <3>2. Validated(i)
        BY <1>4, <3>1, Zenon DEF IndInv, GenerationInv, Validated
      <3>3. i \in Open' /\ SoleCandidate(i)' /\ Validated(i)' /\ log' = log
        BY <1>1, <1>4, <3>1, <3>2, BrokerFrame, Zenon
      <3> QED  BY <2>1, <3>1, <3>3, Zenon DEF Driving
    <2> QED
      BY <1>1, <1>4, <2>1, <2>2, <2>3, <2>4, <2>5, <2>6, HandlerStep, Zenon DEF Fenced
  <1> QED  BY <1>1, <1>2, <1>3, <1>4, Zenon DEF Validate

===============================================================================
