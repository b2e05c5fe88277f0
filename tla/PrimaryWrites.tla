---------------------------- MODULE PrimaryWrites ----------------------------
(***************************************************************************)
(* How registry nodes write the one-partition topic `_schemas`: a node     *)
(* that believes itself the elected primary fences the shared              *)
(* transactional id for its generation, orders a barrier record, waits     *)
(* until its own reader has applied it, looks at the election again,       *)
(* decides the id of the new schema on its folded store, and produces the  *)
(* record in a transaction that also checks its group generation           *)
(* (KafkaStore::prepare_write, KafkaStore::register, SchemaWriter).        *)
(*                                                                         *)
(* The Kafka side is external and modelled from its use: the election      *)
(* group (a generation and its master), the transaction coordinator (one   *)
(* producer epoch; a new one aborts the open transaction), and the topic   *)
(* read with isolation level read_committed.                               *)
(*                                                                         *)
(* Data abstraction: a request registers one schema under one subject, so  *)
(* the decision is the schema's id; the store is max_id and by_canonical.  *)
(* The tombstone that removes a used barrier is left out: no reader waits  *)
(* for its key any more.                                                   *)
(***************************************************************************)
EXTENDS Naturals, Sequences, FiniteSets

CONSTANTS
    Nodes,          \* the registry processes
    Schemas,        \* the schemas clients register
    NoSchema,       \* stands for "no schema" in a barrier record
    MaxGeneration,  \* bound: rebalances of the election group
    MaxRequests,    \* bound: register requests admitted to a handler
    MaxFaults       \* bound: timed out or dropped requests, and crashes

ASSUME NoSchemaAssumption == NoSchema \notin Schemas
ASSUME BoundsAssumption ==
    MaxGeneration \in Nat /\ MaxRequests \in Nat /\ MaxFaults \in Nat

VARIABLES
    masters,        \* masters[g]: the node elected in generation g
    synced,         \* synced[n]: the last generation n published
    primary,        \* primary[n]: the generation n believes to lead, 0 if none
    epoch,          \* the coordinator's epoch of the shared transactional id
    log,            \* the records of _schemas, open transactions included
    late,           \* requests of dropped handlers still on their way
    applied,        \* applied[n]: how many records n's reader has applied
    maxId,          \* maxId[n]: StoreState::max_id
    idOf,           \* idOf[n][s]: StoreState::by_canonical, 0 if unbound
    producerEpoch,  \* producerEpoch[n]: the epoch of n's fenced producer
    fencedGen,      \* fencedGen[n]: FencedState::generation_id, 0 if None
    phase,          \* phase[n]: where the holder of n's write gate is
    want,           \* want[n]: the schema the request registers
    newId,          \* newId[n]: the id decided for it
    opGen,          \* opGen[n]: the generation read by prepare_write
    token,          \* token[n]: the offset of the barrier awaited
    acked,          \* <<schema, id>> answered with success
    requests,       \* requests admitted so far
    faults          \* faults so far

groupVars  == <<masters, synced, primary>>
brokerVars == <<epoch, log, late>>
storeVars  == <<applied, maxId, idOf>>
fenceVars  == <<producerEpoch, fencedGen>>
opVars     == <<phase, want, newId, opGen, token>>
countVars  == <<requests, faults>>
vars == <<groupVars, brokerVars, storeVars, fenceVars, opVars, acked, countVars>>

generation == Len(masters)

Record ==
    [kind : {"schema", "barrier"}, node : Nodes, schema : Schemas \cup {NoSchema},
     id : Nat, gen : Nat, epoch : Nat,
     status : {"plain", "open", "committed", "aborted"}]

(* A request of a dropped handler: InitProducerId, Produce or EndTxn.      *)
LateRequest ==
    [kind : {"init", "send", "commit"}, node : Nodes, schema : Schemas,
     id : Nat, gen : Nat, epoch : Nat]

Phases == {"down", "boot", "idle", "prepare", "fence", "order", "await",
           "recheck", "decide", "send", "validate", "commit",
           "order2", "await2"}

(* Every node has started on an empty topic; no election has completed.    *)
Init ==
    /\ masters = << >>
    /\ synced = [n \in Nodes |-> 0]
    /\ primary = [n \in Nodes |-> 0]
    /\ epoch = 0
    /\ log = << >>
    /\ late = {}
    /\ applied = [n \in Nodes |-> 0]
    /\ maxId = [n \in Nodes |-> 0]
    /\ idOf = [n \in Nodes |-> [s \in Schemas |-> 0]]
    /\ producerEpoch = [n \in Nodes |-> 0]
    /\ fencedGen = [n \in Nodes |-> 0]
    /\ phase = [n \in Nodes |-> "idle"]
    /\ want = [n \in Nodes |-> NoSchema]
    /\ newId = [n \in Nodes |-> 0]
    /\ opGen = [n \in Nodes |-> 0]
    /\ token = [n \in Nodes |-> 0]
    /\ acked = {}
    /\ requests = 0
    /\ faults = 0

-----------------------------------------------------------------------------
(* The transaction coordinator and the topic.                              *)

Barrier(n) ==
    [kind |-> "barrier", node |-> n, schema |-> NoSchema, id |-> 0, gen |-> 0,
     epoch |-> 0, status |-> "plain"]

OpenRecord(n, s, id, g, e) ==
    [kind |-> "schema", node |-> n, schema |-> s, id |-> id, gen |-> g,
     epoch |-> e, status |-> "open"]

Open == {i \in 1..Len(log) : log[i].status = "open"}
Committed == {i \in 1..Len(log) : log[i].status = "committed"}

(* EndTxn or an abort: every record of the open transaction is resolved.   *)
Resolve(l, outcome) ==
    [i \in 1..Len(l) |-> IF l[i].status = "open"
                         THEN [l[i] EXCEPT !.status = outcome] ELSE l[i]]

(* InitProducerId: the next epoch, and the open transaction is aborted.    *)
NextEpoch ==
    /\ epoch' = epoch + 1
    /\ log' = Resolve(log, "aborted")

Driven == \E n \in Nodes : phase[n] \in {"validate", "commit"} /\ producerEpoch[n] = epoch

(* The coordinator aborts a transaction nobody finished, and bumps the     *)
(* epoch so that its producer cannot go on. That a handler still drives it *)
(* takes a pause beyond the write deadline: a fault.                       *)
TxnTimeout ==
    /\ Open # {}
    /\ NextEpoch
    /\ \/ ~Driven /\ UNCHANGED faults
       \/ Driven /\ faults < MaxFaults /\ faults' = faults + 1
    /\ UNCHANGED <<groupVars, late, storeVars, fenceVars, opVars, acked, requests>>

-----------------------------------------------------------------------------
(* The election group, as a node's PrimaryState shows it.                  *)

(* A rebalance completes: the group leader has assigned master m to all.   *)
Rebalance(m) ==
    /\ generation < MaxGeneration
    /\ masters' = Append(masters, m)
    /\ UNCHANGED <<synced, primary, brokerVars, storeVars, fenceVars, opVars,
                   acked, countVars>>

(* Seeded defect: the master of the generation is not looked at.           *)
PublishUnchecked(n) ==
    /\ phase[n] \notin {"down", "boot"}
    /\ \E g \in (synced[n] + 1)..generation :
        /\ synced' = [synced EXCEPT ![n] = g]
        /\ primary' = [primary EXCEPT ![n] = g]
    /\ UNCHANGED <<masters, brokerVars, storeVars, fenceVars, opVars, acked, countVars>>

(* A node publishes what SyncGroup answered, possibly after the group has  *)
(* moved on; until then it keeps the state of an earlier generation.       *)
Publish(n) ==
    /\ phase[n] \notin {"down", "boot"}
    /\ \E g \in (synced[n] + 1)..generation :
        /\ synced' = [synced EXCEPT ![n] = g]
        /\ primary' = [primary EXCEPT ![n] = IF masters[g] = n THEN g ELSE 0]
    /\ UNCHANGED <<masters, brokerVars, storeVars, fenceVars, opVars, acked, countVars>>

(* An error ends the election session: PrimaryState::default().            *)
LoseSession(n) ==
    /\ primary[n] # 0
    /\ primary' = [primary EXCEPT ![n] = 0]
    /\ UNCHANGED <<masters, synced, brokerVars, storeVars, fenceVars, opVars,
                   acked, countVars>>

-----------------------------------------------------------------------------
(* The reader task: apply the next record below the last stable offset.    *)

(* Seeded defect: fetch with isolation level read_uncommitted.             *)
StableUncommitted(i) == TRUE

Stable(i) == \A j \in Open : i < j

(* Seeded defect: the reader runs only while its node is primary.          *)
ApplyPrimary(n) ==
    LET i == applied[n] + 1 IN
    /\ phase[n] # "down"
    /\ i \in 1..Len(log)
    /\ Stable(i) /\ primary[n] # 0
    /\ applied' = [applied EXCEPT ![n] = i]
    /\ IF i \in Committed
       THEN /\ maxId' = [maxId EXCEPT ![n] = IF log[i].id > @ THEN log[i].id ELSE @]
            /\ idOf' = [idOf EXCEPT ![n][log[i].schema] = log[i].id]
       ELSE UNCHANGED <<maxId, idOf>>
    /\ UNCHANGED <<groupVars, brokerVars, fenceVars, opVars, acked, countVars>>

Apply(n) ==
    LET i == applied[n] + 1 IN
    /\ phase[n] # "down"
    /\ i \in 1..Len(log)
    /\ Stable(i)
    /\ applied' = [applied EXCEPT ![n] = i]
    /\ IF i \in Committed
       THEN /\ maxId' = [maxId EXCEPT ![n] = IF log[i].id > @ THEN log[i].id ELSE @]
            /\ idOf' = [idOf EXCEPT ![n][log[i].schema] = log[i].id]
       ELSE UNCHANGED <<maxId, idOf>>
    /\ UNCHANGED <<groupVars, brokerVars, fenceVars, opVars, acked, countVars>>

-----------------------------------------------------------------------------
(* KafkaStore: start, and one registration through the write gate.         *)

(* The gate is released: with an answer, an error, or because the handler  *)
(* was dropped.                                                            *)
Release(n) ==
    /\ phase' = [phase EXCEPT ![n] = "idle"]
    /\ want' = [want EXCEPT ![n] = NoSchema]
    /\ newId' = [newId EXCEPT ![n] = 0]
    /\ opGen' = [opGen EXCEPT ![n] = 0]
    /\ token' = [token EXCEPT ![n] = 0]

Goto(n, p) ==
    /\ phase' = [phase EXCEPT ![n] = p]
    /\ UNCHANGED <<want, newId, opGen, token>>

OrderBarrierThen(n, p) ==
    /\ log' = Append(log, Barrier(n))
    /\ token' = [token EXCEPT ![n] = Len(log) + 1]
    /\ phase' = [phase EXCEPT ![n] = p]
    /\ UNCHANGED <<epoch, late, want, newId, opGen>>

(* start: spawn the reader, order the first barrier.                       *)
Start(n) ==
    /\ phase[n] = "down"
    /\ OrderBarrierThen(n, "boot")
    /\ UNCHANGED <<groupVars, storeVars, fenceVars, acked, countVars>>

(* start, concluded: the replay has reached the barrier, requests are      *)
(* served.                                                                 *)
Serve(n) ==
    /\ phase[n] = "boot"
    /\ applied[n] >= token[n]
    /\ Release(n)
    /\ UNCHANGED <<groupVars, brokerVars, storeVars, fenceVars, acked, countVars>>

(* The forwarding layer passes a write only on a node that believes to be  *)
(* primary; the handler then takes the write gate.                         *)
Admit(n, s) ==
    /\ requests < MaxRequests
    /\ phase[n] = "idle"
    /\ primary[n] # 0
    /\ requests' = requests + 1
    /\ phase' = [phase EXCEPT ![n] = "prepare"]
    /\ want' = [want EXCEPT ![n] = s]
    /\ UNCHANGED <<newId, opGen, token, groupVars, brokerVars, storeVars,
                   fenceVars, acked, faults>>

(* prepare_write, the first look at the election.                          *)
Prepare(n) ==
    /\ phase[n] = "prepare"
    /\ \/ /\ primary[n] = 0
          /\ Release(n)
       \/ /\ primary[n] # 0
          /\ phase' = [phase EXCEPT ![n] = "fence"]
          /\ opGen' = [opGen EXCEPT ![n] = primary[n]]
          /\ UNCHANGED <<want, newId, token>>
    /\ UNCHANGED <<groupVars, brokerVars, storeVars, fenceVars, acked, countVars>>

(* SchemaWriter::fence: a new producer epoch, once per generation.         *)
Fence(n) ==
    /\ phase[n] = "fence"
    /\ \/ /\ fencedGen[n] = opGen[n]
          /\ UNCHANGED <<epoch, log, fenceVars>>
       \/ /\ fencedGen[n] # opGen[n]
          /\ NextEpoch
          /\ producerEpoch' = [producerEpoch EXCEPT ![n] = epoch + 1]
          /\ fencedGen' = [fencedGen EXCEPT ![n] = opGen[n]]
    /\ Goto(n, "order")
    /\ UNCHANGED <<groupVars, late, storeVars, acked, countVars>>

OrderBarrier(n) ==
    /\ phase[n] = "order"
    /\ OrderBarrierThen(n, "await")
    /\ UNCHANGED <<groupVars, storeVars, fenceVars, acked, countVars>>

(* Seeded defects: the barrier is not awaited; the reader must be past it. *)
AwaitBarrierNot(n) ==
    /\ phase[n] = "await"
    /\ Goto(n, "recheck")
    /\ UNCHANGED <<groupVars, brokerVars, storeVars, fenceVars, acked, countVars>>

AwaitBarrierPast(n) ==
    /\ phase[n] = "await"
    /\ applied[n] > token[n]
    /\ Goto(n, "recheck")
    /\ UNCHANGED <<groupVars, brokerVars, storeVars, fenceVars, acked, countVars>>

AwaitBarrier(n) ==
    /\ phase[n] = "await"
    /\ applied[n] >= token[n]
    /\ Goto(n, "recheck")
    /\ UNCHANGED <<groupVars, brokerVars, storeVars, fenceVars, acked, countVars>>

(* prepare_write, the second look: same generation or UnknownLeader.       *)
Recheck(n) ==
    /\ phase[n] = "recheck"
    /\ IF primary[n] = opGen[n] THEN Goto(n, "decide") ELSE Release(n)
    /\ UNCHANGED <<groupVars, brokerVars, storeVars, fenceVars, acked, countVars>>

(* register: answer a known schema at once, otherwise allot the next id.   *)
Decide(n) ==
    /\ phase[n] = "decide"
    /\ \/ /\ idOf[n][want[n]] # 0
          /\ acked' = acked \cup {<<want[n], idOf[n][want[n]]>>}
          /\ Release(n)
       \/ /\ idOf[n][want[n]] = 0
          /\ newId' = [newId EXCEPT ![n] = maxId[n] + 1]
          /\ phase' = [phase EXCEPT ![n] = "send"]
          /\ UNCHANGED <<want, opGen, token, acked>>
    /\ UNCHANGED <<groupVars, brokerVars, storeVars, fenceVars, countVars>>

(* produce_fenced: begin_transaction and send. A fenced producer is        *)
(* refused. A transaction a dropped handler left open is either aborted    *)
(* by the client first or makes it refuse; a Produce of that handler no    *)
(* longer reaches the topic afterwards.                                    *)
Send(n) ==
    /\ phase[n] = "send"
    /\ \/ /\ producerEpoch[n] = epoch
          /\ log' = Append(Resolve(log, "aborted"),
                           OpenRecord(n, want[n], newId[n], opGen[n], epoch))
          /\ late' = {r \in late : ~(r.kind = "send" /\ r.node = n)}
          /\ Goto(n, "validate")
       \/ /\ producerEpoch[n] # epoch \/ Open # {}
          /\ Release(n)
          /\ UNCHANGED <<log, late>>
    /\ UNCHANGED <<groupVars, epoch, storeVars, fenceVars, acked, countVars>>

(* Seeded defect: the transaction does not validate the generation.        *)
ValidateNot(n) ==
    /\ phase[n] = "validate"
    /\ Goto(n, "commit")
    /\ UNCHANGED <<groupVars, brokerVars, storeVars, fenceVars, acked, countVars>>

(* send_offsets_to_transaction with no offsets: the group coordinator      *)
(* compares the generation. On an error the transaction is aborted, and    *)
(* the abort itself may fail.                                              *)
Validate(n) ==
    LET valid == producerEpoch[n] = epoch /\ opGen[n] = generation IN
    /\ phase[n] = "validate"
    /\ \/ /\ valid
          /\ Goto(n, "commit")
          /\ UNCHANGED log
       \/ /\ ~valid
          /\ Release(n)
          /\ \/ /\ producerEpoch[n] = epoch
                /\ log' = Resolve(log, "aborted")
             \/ UNCHANGED log
    /\ UNCHANGED <<groupVars, epoch, late, storeVars, fenceVars, acked, countVars>>

(* Transaction::commit: EndTxn is refused once the epoch has moved on.     *)
Commit(n) ==
    /\ phase[n] = "commit"
    /\ \/ /\ producerEpoch[n] = epoch
          /\ log' = Resolve(log, "committed")
          /\ Goto(n, "order2")
       \/ /\ producerEpoch[n] # epoch
          /\ Release(n)
          /\ UNCHANGED log
    /\ UNCHANGED <<groupVars, epoch, late, storeVars, fenceVars, acked, countVars>>

(* await_applied: a second barrier, and the answer once it is applied.     *)
OrderApplied(n) ==
    /\ phase[n] = "order2"
    /\ OrderBarrierThen(n, "await2")
    /\ UNCHANGED <<groupVars, storeVars, fenceVars, acked, countVars>>

(* Seeded defect: the answer does not wait for the record to be applied.   *)
AwaitAppliedNot(n) ==
    /\ phase[n] = "await2"
    /\ acked' = acked \cup {<<want[n], newId[n]>>}
    /\ Release(n)
    /\ UNCHANGED <<groupVars, brokerVars, storeVars, fenceVars, countVars>>

AwaitApplied(n) ==
    /\ phase[n] = "await2"
    /\ applied[n] >= token[n]
    /\ acked' = acked \cup {<<want[n], newId[n]>>}
    /\ Release(n)
    /\ UNCHANGED <<groupVars, brokerVars, storeVars, fenceVars, countVars>>

-----------------------------------------------------------------------------
(* Faults: deadlines, dropped handlers, crashes, and their late requests.  *)

Pending(n, kind) ==
    [kind |-> kind, node |-> n, schema |-> want[n], id |-> newId[n],
     gen |-> opGen[n], epoch |-> producerEpoch[n]]

(* What the handler of n may have on its way to the brokers.               *)
InFlight(n) ==
    CASE phase[n] = "fence" /\ fencedGen[n] # opGen[n] -> {Pending(n, "init")}
      [] phase[n] = "send"   -> {Pending(n, "send")}
      [] phase[n] = "commit" -> {Pending(n, "commit")}
      [] OTHER -> {}

(* The deadline passes, the client goes away, or a call fails: the handler *)
(* is dropped where it waits. Its request may still arrive, or never.      *)
Drop(n) ==
    /\ faults < MaxFaults
    /\ phase[n] \notin {"down", "boot", "idle"}
    /\ faults' = faults + 1
    /\ late' \in {late, late \cup InFlight(n)}
    /\ Release(n)
    /\ UNCHANGED <<groupVars, epoch, log, storeVars, fenceVars, acked, requests>>

(* The process dies: everything in memory is lost.                         *)
Crash(n) ==
    /\ faults < MaxFaults
    /\ phase[n] # "down"
    /\ faults' = faults + 1
    /\ late' \in {late, late \cup InFlight(n)}
    /\ phase' = [phase EXCEPT ![n] = "down"]
    /\ want' = [want EXCEPT ![n] = NoSchema]
    /\ newId' = [newId EXCEPT ![n] = 0]
    /\ opGen' = [opGen EXCEPT ![n] = 0]
    /\ token' = [token EXCEPT ![n] = 0]
    /\ primary' = [primary EXCEPT ![n] = 0]
    /\ synced' = [synced EXCEPT ![n] = generation]
    /\ producerEpoch' = [producerEpoch EXCEPT ![n] = 0]
    /\ fencedGen' = [fencedGen EXCEPT ![n] = 0]
    /\ applied' = [applied EXCEPT ![n] = 0]
    /\ maxId' = [maxId EXCEPT ![n] = 0]
    /\ idOf' = [idOf EXCEPT ![n] = [s \in Schemas |-> 0]]
    /\ UNCHANGED <<masters, epoch, log, acked, requests>>

(* A late request reaches its broker. A Produce or an EndTxn of a fenced   *)
(* epoch is refused, and so has no effect.                                 *)
Arrive(r) ==
    /\ r \in late
    /\ late' = late \ {r}
    /\ \/ /\ r.kind = "init"
          /\ NextEpoch
       \/ /\ r.kind = "send" /\ r.epoch = epoch
          /\ log' = Append(log, OpenRecord(r.node, r.schema, r.id, r.gen, r.epoch))
          /\ UNCHANGED epoch
       \/ /\ r.kind = "commit" /\ r.epoch = epoch
          /\ log' = Resolve(log, "committed")
          /\ UNCHANGED epoch
       \/ /\ r.kind # "init" /\ r.epoch # epoch
          /\ UNCHANGED <<epoch, log>>
    /\ UNCHANGED <<groupVars, storeVars, fenceVars, opVars, acked, countVars>>

-----------------------------------------------------------------------------
Step(n) ==
    \/ Start(n) \/ Serve(n)
    \/ Prepare(n) \/ Fence(n) \/ OrderBarrier(n) \/ AwaitBarrier(n)
    \/ Recheck(n) \/ Decide(n) \/ Send(n) \/ Validate(n) \/ Commit(n)
    \/ OrderApplied(n) \/ AwaitApplied(n)

Next ==
    \/ \E n \in Nodes :
        \/ Step(n) \/ Apply(n) \/ Publish(n) \/ LoseSession(n)
        \/ Rebalance(n) \/ Drop(n) \/ Crash(n)
        \/ \E s \in Schemas : Admit(n, s)
    \/ TxnTimeout
    \/ \E r \in late : Arrive(r)

Spec == Init /\ [][Next]_vars

(* Ready tasks run and brokers answer; the coordinator ends an abandoned   *)
(* transaction. No rebalance, request, restart or late arrival is assured. *)
Fairness ==
    /\ \A n \in Nodes : WF_vars(Step(n) /\ phase[n] # "down") /\ WF_vars(Apply(n))
    /\ WF_vars(TxnTimeout)

LiveSpec == Spec /\ Fairness

-----------------------------------------------------------------------------
(* Every variable keeps its type; ids and generations are naturals (the    *)
(* state of KafkaStore, SchemaWriter and the brokers).                     *)
TypeOK ==
    /\ masters \in Seq(Nodes)
    /\ synced \in [Nodes -> Nat]
    /\ primary \in [Nodes -> Nat]
    /\ epoch \in Nat
    /\ log \in Seq(Record)
    /\ late \in SUBSET LateRequest
    /\ applied \in [Nodes -> Nat]
    /\ maxId \in [Nodes -> Nat]
    /\ idOf \in [Nodes -> [Schemas -> Nat]]
    /\ producerEpoch \in [Nodes -> Nat]
    /\ fencedGen \in [Nodes -> Nat]
    /\ phase \in [Nodes -> Phases]
    /\ want \in [Nodes -> Schemas \cup {NoSchema}]
    /\ newId \in [Nodes -> Nat]
    /\ opGen \in [Nodes -> Nat]
    /\ token \in [Nodes -> Nat]
    /\ acked \in SUBSET (Schemas \X Nat)
    /\ requests \in Nat
    /\ faults \in Nat

(* The ids are authoritative: over all nodes, failovers, dropped requests  *)
(* and retries, a schema is committed under one id and an id is given to   *)
(* one schema (KafkaStore::register decides on a caught-up store).         *)
UniqueIds ==
    \A i, j \in Committed :
        i # j => log[i].id # log[j].id /\ log[i].schema # log[j].schema

(* A primary that a newer one has already written behind commits nothing   *)
(* more: along the log the generations of committed records never fall     *)
(* (the empty TxnOffsetCommit of SchemaWriter::produce_fenced).            *)
StalePrimaryRejected ==
    \A i, j \in Committed : i < j => log[i].gen <= log[j].gen

(* Whatever a client was told is in the log, committed, under that id.     *)
AckedDurable ==
    \A a \in acked : \E i \in Committed : log[i].schema = a[1] /\ log[i].id = a[2]

(* No other node's abandoned transaction can hold up the barrier of the    *)
(* node that holds the producer epoch (prepare_write fences first, then    *)
(* orders the barrier).                                                    *)
BarrierNotBlocked ==
    \A n \in Nodes :
        phase[n] = "await" /\ producerEpoch[n] = epoch
            => \A i \in Open : log[i].node = n

(* Read-your-writes: when a registration is answered with an id, the store *)
(* of the answering node already binds the schema to that id.              *)
ReadYourWrites ==
    [][\A a \in acked' \ acked :
            \E n \in Nodes : phase[n] # "idle" /\ phase'[n] = "idle"
                              /\ want[n] = a[1] /\ idOf[n][a[1]] = a[2]]_vars

(* Every admitted request is answered or fails, even without its deadline: *)
(* no barrier waits for ever, whatever transaction precedes it in the log  *)
(* (prepare_write and await_applied).                                      *)
RequestsEnd ==
    \A n \in Nodes : phase[n] \notin {"idle", "down"} ~> phase[n] \in {"idle", "down"}

Lags(n) == \E i \in Committed : i > applied[n]

(* Every running node, primary or not, comes to apply every committed      *)
(* record: a reader that lags catches up (the reader task).                *)
EventuallyApplied ==
    \A n \in Nodes : Lags(n) ~> (~Lags(n) \/ phase[n] = "down")

(* "A newly elected primary initializes a new producer epoch and fences    *)
(* the previous primary's in-flight writes" (SchemaWriter::start), so that *)
(* after a failover "writes resume on the new primary" (HA design): when   *)
(* the elected primary is the only node that believes to be primary and    *)
(* no other handler runs, SchemaWriter::fence leaves it with the epoch     *)
(* that the coordinator accepts.                                           *)
ElectedPrimaryHoldsEpoch ==
    [][\A n \in Nodes :
        /\ phase[n] = "fence" /\ phase'[n] = "order"
        /\ primary[n] = generation /\ opGen[n] = generation
        /\ \A m \in Nodes \ {n} : primary[m] = 0 /\ phase[m] = "idle"
        => producerEpoch'[n] = epoch']_vars

-----------------------------------------------------------------------------
(* The inductive invariant behind UniqueIds, StalePrimaryRejected and      *)
(* AckedDurable.                                                           *)

Holds(n) == producerEpoch[n] = epoch

Fenced == {"order", "await", "recheck", "decide", "send", "validate", "commit",
           "order2", "await2"}
Holding == Fenced \cup {"prepare", "fence"}

(* An epoch belongs to the node that initialised it.                       *)
EpochInv ==
    /\ \A n \in Nodes : producerEpoch[n] <= epoch
    /\ \A n \in Nodes : phase[n] \in Fenced \/ fencedGen[n] # 0 => producerEpoch[n] # 0
    /\ \A n, m \in Nodes :
          producerEpoch[n] = producerEpoch[m] /\ producerEpoch[n] # 0 => n = m
    /\ \A r \in late : r.epoch <= epoch /\ (r.kind # "init" => r.epoch # 0)
    /\ \A r \in late, n \in Nodes :
          r.kind # "init" /\ r.epoch = producerEpoch[n] => r.node = n
    /\ \A i \in Open : epoch # 0 /\ log[i].epoch = epoch
    /\ \A i \in Open, n \in Nodes : Holds(n) => log[i].node = n

GenerationInv ==
    /\ \A n \in Nodes : primary[n] <= generation /\ opGen[n] <= generation
    /\ \A n \in Nodes : phase[n] \in Fenced \cup {"fence"} => opGen[n] # 0
    /\ \A r \in late : r.gen <= generation
    /\ \A i \in Open \cup Committed : log[i].gen <= generation

RecordInv ==
    /\ \A n \in Nodes : phase[n] \in Holding => want[n] \in Schemas
    /\ \A n \in Nodes : phase[n] \in {"send", "validate", "commit"} => newId[n] # 0
    /\ \A r \in late : r.kind # "init" => r.id # 0
    /\ \A i \in Open \cup Committed : log[i].schema \in Schemas /\ log[i].id # 0

(* A store is the fold of the committed records its reader has passed.     *)
StoreInv ==
    \A n \in Nodes :
        /\ applied[n] <= Len(log)
        /\ \A i \in Open : applied[n] < i
        /\ \A i \in Committed : i <= applied[n]
              => log[i].id <= maxId[n] /\ idOf[n][log[i].schema] = log[i].id
        /\ \A s \in Schemas : idOf[n][s] # 0
              => \E i \in Committed : log[i].schema = s /\ log[i].id = idOf[n][s]

Fresh(s, id) == \A j \in Committed : log[j].id < id /\ log[j].schema # s

NoLate(kind) == \A r \in late : r.kind = kind => r.epoch # epoch

(* Record i is all of the open transaction, and new to the log.            *)
SoleCandidate(i) ==
    /\ Open = {i}
    /\ \A j \in Committed : j < i
    /\ Fresh(log[i].schema, log[i].id)

Validated(i) == \A j \in Committed : log[j].gen <= log[i].gen

(* What the holder of the epoch knows, phase by phase: its barrier lies    *)
(* behind all that is committed, then its store contains it, then its id   *)
(* is new, then its record is alone in the open transaction.               *)
Driving(n) ==
    \E i \in Open :
        /\ SoleCandidate(i)
        /\ log[i].schema = want[n] /\ log[i].id = newId[n] /\ log[i].gen = opGen[n]
        /\ phase[n] = "commit" => Validated(i)

HolderInv ==
    \A n \in Nodes : Holds(n) =>
        /\ phase[n] = "await" => \A i \in Committed : i < token[n]
        /\ phase[n] \in {"recheck", "decide"} => \A i \in Committed : i <= applied[n]
        /\ phase[n] = "send" => Fresh(want[n], newId[n])
        /\ phase[n] \in {"recheck", "decide", "send", "validate", "commit"} => NoLate("commit")
        /\ phase[n] \in {"validate", "commit"} => NoLate("send") /\ Driving(n)

(* An EndTxn still on its way can only commit such a record, and the node  *)
(* that sent it cannot pass a barrier before it has been decided.          *)
LateInv ==
    \A r \in late : r.kind = "commit" /\ r.epoch = epoch =>
        /\ NoLate("send")
        /\ \A q \in late : q.kind = "commit" /\ q.epoch = epoch => q = r
        /\ \E i \in Open :
              /\ SoleCandidate(i) /\ Validated(i)
              /\ \A n \in Nodes : Holds(n) /\ phase[n] = "await" => i < token[n]

AnsweredInv ==
    \A n \in Nodes : phase[n] \in {"order2", "await2"} =>
        \E i \in Committed :
            /\ log[i].schema = want[n] /\ log[i].id = newId[n]
            /\ phase[n] = "await2" => i < token[n]

(* UniqueIds, StalePrimaryRejected and AckedDurable with what makes them   *)
(* inductive: a dropped handler or a fenced primary never holds anything   *)
(* that could still be committed (prepare_write and produce_fenced).       *)
IndInv ==
    /\ TypeOK /\ EpochInv /\ GenerationInv /\ RecordInv /\ StoreInv
    /\ HolderInv /\ LateInv /\ AnsweredInv
    /\ UniqueIds /\ StalePrimaryRejected /\ AckedDurable
=============================================================================
