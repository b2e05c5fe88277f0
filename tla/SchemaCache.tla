----------------------------- MODULE SchemaCache -----------------------------
(***************************************************************************)
(* The schema cache of a client process (schema-serde, cache.rs), with the *)
(* registry client under it (registry/mod.rs) and the serializers and      *)
(* deserializers over it (format/).  The process pre-warms the ids of its  *)
(* own schemas, serializes records with them, and deserializes records of  *)
(* its topics, whose writer schemas a background task fetches.             *)
(*                                                                         *)
(* The registry is external: `reg` holds the <<subject, schema>> pairs the *)
(* primary has registered, in order, and a schema's id is its rank among   *)
(* the schemas.  POSTs are forwarded to the primary; GETs are answered by  *)
(* the node the client is connected to, which has applied the first        *)
(* `applied` pairs.  A schema stands for its text, kind, references and    *)
(* message type.                                                           *)
(***************************************************************************)
EXTENDS Integers, Sequences, FiniteSets, SrErrors

CONSTANTS
    Interned,       \* the subjects of the topics, one serde each, as interned
    Local,          \* Local[s]: the schema of the process's type for s
    Foreign,        \* <<subject, schema>> pairs other clients register
    MaxRecords,     \* bound: records produced
    MaxFaults       \* bound: calls that fail in transit, or with 429 or 5xx

Subjects == {Interned[i] : i \in DOMAIN Interned}

ASSUME CacheAssumption == Interned \in Seq(Subjects) /\ MaxRecords \in Nat /\ MaxFaults \in Nat

Modes == {"AutoRegister", "LookupOnly", "UseLatest"}

VARIABLES
    reg,            \* the registry's primary
    node, applied,  \* the node that answers GETs, and what it has applied
    mode,           \* CacheConfig::mode
    subject_id, id_writer_schema, unavailable, retry_attempts, waiting, fetching,
                    \* Inner; waiting: ids whose retry_after has not passed
    todo, got,      \* prewarm: subjects left, the id of the first one if resolved
    ready,          \* prewarm has returned Ok
    flight,         \* background fetches: id to the status answered
    topic, next,    \* records, and the next to deserialize
    faults

registry == <<reg, node, applied>>
inner    == <<subject_id, id_writer_schema, unavailable, retry_attempts, waiting, fetching>>
warming  == <<todo, got, ready>>
vars     == <<registry, mode, inner, warming, flight, topic, next, faults>>

Put(f, k, v) == [x \in DOMAIN f \cup {k} |-> IF x = k THEN v ELSE f[x]]
Remove(f, k) == [x \in DOMAIN f \ {k} |-> f[x]]
Nothing == [x \in {} |-> x]
NoId == 0

(* Besides the HTTP statuses: not yet answered, and a transport failure. *)
Asked == 0
Transport == 1
Found == 200

Init ==
    /\ reg = << >>
    /\ node \in {"primary", "secondary"} /\ applied = 0
    /\ mode \in Modes
    /\ subject_id = Nothing /\ id_writer_schema = Nothing /\ unavailable = {}
    /\ retry_attempts = Nothing /\ waiting = {} /\ fetching = {}
    /\ todo = << >> /\ got = NoId /\ ready = FALSE
    /\ flight = Nothing
    /\ topic = << >> /\ next = 1
    /\ faults = 0

-------------------------------------------------------------------------------
(* The registry. *)

SchemasOf(pairs) == {pairs[i][2] : i \in DOMAIN pairs}
First(pairs, schema) == CHOOSE i \in DOMAIN pairs : /\ pairs[i][2] = schema
                                                    /\ \A j \in 1..(i - 1) : pairs[j][2] # schema
IdOf(pairs, schema) == Cardinality(SchemasOf(SubSeq(pairs, 1, First(pairs, schema))))
SchemaOf(id) == CHOOSE schema \in SchemasOf(reg) : IdOf(reg, schema) = id
Known == SubSeq(reg, 1, applied)

(* The latest version of a subject as the connected node knows it. *)
LatestIs(s, schema) ==
    \E i \in DOMAIN Known : /\ Known[i] = <<s, schema>>
                            /\ \A j \in (i + 1)..applied : Known[j][1] # s

(* The primary registers a schema; it has applied it when it answers. *)
Registers(s, schema) ==
    /\ reg' = IF \E i \in DOMAIN reg : reg[i] = <<s, schema>> THEN reg
              ELSE Append(reg, <<s, schema>>)
    /\ applied' = IF node = "primary" THEN Len(reg') ELSE applied
    /\ UNCHANGED node

Apply ==
    /\ applied < Len(reg)
    /\ applied' = applied + 1
    /\ UNCHANGED <<reg, node, mode, inner, warming, flight, topic, next, faults>>

(* Another client registers a schema and produces a record with it. *)
ForeignRecord(s, schema) ==
    /\ Len(topic) < MaxRecords
    /\ Registers(s, schema)
    /\ topic' = Append(topic, [id |-> IdOf(reg', schema), schema |-> schema])
    /\ UNCHANGED <<mode, inner, warming, flight, next, faults>>

-------------------------------------------------------------------------------
(* prewarm: one subject after the other. *)

PrewarmStart ==
    /\ todo = << >> /\ ~ready
    /\ todo' = Interned /\ ready' = (Interned = << >>)
    /\ UNCHANGED <<registry, mode, inner, got, flight, topic, next, faults>>

(* register or lookup at the primary, or the latest version as the node    *)
(* knows it, which must be the local schema.                               *)
AutoRegister(s) == Registers(s, Local[s]) /\ got' = IdOf(reg', Local[s])

LookupOnly(s) ==
    /\ \E i \in DOMAIN reg : reg[i] = <<s, Local[s]>>
    /\ got' = IdOf(reg, Local[s])
    /\ UNCHANGED registry

(* Seeded defect: the latest schema is not compared with the local one. *)
UseLatestUnchecked(s) ==
    /\ \E schema \in SchemasOf(Known) : LatestIs(s, schema) /\ got' = IdOf(reg, schema)
    /\ UNCHANGED registry

UseLatest(s) ==
    /\ LatestIs(s, Local[s])
    /\ got' = IdOf(reg, Local[s])
    /\ UNCHANGED registry

PrewarmResolve ==
    /\ todo # << >> /\ got = NoId
    /\ CASE mode = "AutoRegister" -> AutoRegister(Head(todo))
         [] mode = "LookupOnly" -> LookupOnly(Head(todo))
         [] mode = "UseLatest" -> UseLatest(Head(todo))
    /\ UNCHANGED <<mode, inner, todo, ready, flight, topic, next, faults>>

(* The references' sources have been fetched; under the lock. *)
PrewarmInstall ==
    /\ got # NoId
    /\ subject_id' = Put(subject_id, Head(todo), got)
    /\ id_writer_schema' = Put(id_writer_schema, got, Local[Head(todo)])
    /\ todo' = Tail(todo) /\ got' = NoId /\ ready' = (Tail(todo) = << >>)
    /\ UNCHANGED <<registry, mode, unavailable, retry_attempts, waiting, fetching,
                   flight, topic, next, faults>>

(* A call failed, or the registry refused it (incompatible, no such        *)
(* schema) or the latest schema differs: the rest is left, and the         *)
(* application may start again.  A registration may have been made.        *)
PrewarmError ==
    /\ todo # << >>
    /\ \/ faults < MaxFaults /\ faults' = faults + 1
       \/ got = NoId /\ UNCHANGED faults
    /\ todo' = << >> /\ got' = NoId
    /\ UNCHANGED <<registry, mode, inner, ready, flight, topic, next>>

-------------------------------------------------------------------------------
(* Serialize and deserialize. *)

(* Binding::id: the id pre-warm resolved for the topic's subject. *)
Serialize(s) ==
    /\ s \in DOMAIN subject_id /\ Len(topic) < MaxRecords
    /\ topic' = Append(topic, [id |-> subject_id[s], schema |-> Local[s]])
    /\ UNCHANGED <<registry, mode, inner, warming, flight, next, faults>>

(* writer_schema_with_references on the next record: a hit, or an id given *)
(* up, ends the record.                                                    *)
Deserialize ==
    /\ next <= Len(topic)
    /\ topic[next].id \in DOMAIN id_writer_schema \cup unavailable
    /\ next' = next + 1
    /\ UNCHANGED <<registry, mode, inner, warming, flight, topic, faults>>

(* A miss starts a fetch unless one runs or the retry delay lasts; the     *)
(* record is pending and comes again.                                      *)
StartFetch ==
    /\ next <= Len(topic)
    /\ LET id == topic[next].id
       IN  /\ id \notin DOMAIN id_writer_schema \cup unavailable \cup waiting \cup fetching
           /\ fetching' = fetching \cup {id}
           /\ flight' = Put(flight, id, Asked)
    /\ UNCHANGED <<registry, mode, subject_id, id_writer_schema, unavailable,
                   retry_attempts, waiting, warming, topic, next, faults>>

(* schema_by_id and its references: the node knows the id or answers 404. *)
FetchAnswered(id) ==
    /\ flight[id] = Asked
    /\ flight' = [flight EXCEPT ![id] = IF SchemaOf(id) \in SchemasOf(Known) THEN Found
                                         ELSE http_status("SchemaNotFound")]
    /\ UNCHANGED <<registry, mode, inner, warming, topic, next, faults>>

(* The call fails in transit, is throttled on its way, or its node cannot  *)
(* serve it.                                                               *)
FetchFails(id) ==
    /\ flight[id] = Asked /\ faults < MaxFaults
    /\ faults' = faults + 1
    /\ \E status \in {Transport, 429, http_status("Backend")} :
          flight' = [flight EXCEPT ![id] = status]
    /\ UNCHANGED <<registry, mode, inner, warming, topic, next>>

(* Seeded defect: a throttled call is taken for a missing schema. *)
TransientUnthrottled(status) == status = Transport \/ status >= 500

is_transient_registry_failure(status) == status = Transport \/ status = 429 \/ status >= 500

(* Seeded defect: a failed fetch stays in `fetching`. *)
fetching_kept(id) == IF flight[id] = Found THEN fetching \ {id} ELSE fetching

fetching_removed(id) == fetching \ {id}

(* The task's end, under the lock. *)
FetchComplete(id) ==
    LET answer    == flight[id]
        transient == is_transient_registry_failure(answer)
    IN  /\ answer # Asked
        /\ flight' = Remove(flight, id)
        /\ fetching' = fetching_removed(id)
        /\ \/ /\ answer = Found
              /\ id_writer_schema' = Put(id_writer_schema, id, SchemaOf(id))
              /\ unavailable' = unavailable \ {id}
              /\ waiting' = waiting \ {id}
              /\ retry_attempts' = Remove(retry_attempts, id)
           \/ /\ answer # Found /\ transient
              /\ retry_attempts' = Put(retry_attempts, id,
                    IF id \in DOMAIN retry_attempts THEN retry_attempts[id] + 1 ELSE 1)
              /\ waiting' = waiting \cup {id}
              /\ UNCHANGED <<id_writer_schema, unavailable>>
           \/ /\ answer # Found /\ ~transient
              /\ unavailable' = unavailable \cup {id}
              /\ waiting' = waiting \ {id}
              /\ retry_attempts' = Remove(retry_attempts, id)
              /\ UNCHANGED id_writer_schema
        /\ UNCHANGED <<registry, mode, subject_id, warming, topic, next, faults>>

(* retry_after has passed. *)
RetryElapsed(id) ==
    /\ waiting' = waiting \ {id}
    /\ UNCHANGED <<registry, mode, subject_id, id_writer_schema, unavailable,
                   retry_attempts, fetching, warming, flight, topic, next, faults>>

Next ==
    \/ Apply
    \/ \E p \in Foreign : ForeignRecord(p[1], p[2])
    \/ PrewarmStart \/ PrewarmResolve \/ PrewarmInstall \/ PrewarmError
    \/ \E s \in Subjects : Serialize(s)
    \/ Deserialize \/ StartFetch
    \/ \E id \in DOMAIN flight : FetchAnswered(id) \/ FetchFails(id) \/ FetchComplete(id)
    \/ \E id \in waiting : RetryElapsed(id)

Spec == Init /\ [][Next]_vars

(* The consumer polls again after a pending record, spawned tasks run, the *)
(* registry answers, time passes.                                          *)
Fairness ==
    /\ WF_vars(Deserialize) /\ WF_vars(StartFetch)
    /\ \A id \in 1..(MaxRecords + Cardinality(Subjects)) :
          /\ WF_vars(id \in DOMAIN flight /\ FetchAnswered(id))
          /\ WF_vars(id \in DOMAIN flight /\ FetchComplete(id))
          /\ WF_vars(id \in waiting /\ RetryElapsed(id))

LiveSpec == Spec /\ Fairness

-------------------------------------------------------------------------------
(* Properties. *)

Registered(id) == id \in {IdOf(reg, schema) : schema \in SchemasOf(reg)}

(* A record on the wire was encoded with the schema that the registry      *)
(* binds to the id in its frame, in every mode and whatever other clients  *)
(* register while pre-warm runs (cache.rs, RegisterMode::UseLatest: "This  *)
(* prevents a serializer from framing locally encoded bytes with an id for *)
(* a different writer schema"); and the schema a deserializer finds for it *)
(* is that one, whether pre-warm or a background fetch put it there.       *)
FramesNameTheirSchema ==
    /\ \A i \in DOMAIN topic : Registered(topic[i].id) /\ SchemaOf(topic[i].id) = topic[i].schema
    /\ \A id \in DOMAIN id_writer_schema : Registered(id) /\ id_writer_schema[id] = SchemaOf(id)

(* An id in a record is never given up by a client whose node is the       *)
(* primary: transport failures, 429 and 5xx answers delay a fetch and do   *)
(* not end it (error.rs, is_transient_registry_failure).  A node that is   *)
(* behind answers 404, and then the id is given up for good.               *)
NoIdGivenUp == node = "primary" => unavailable = {}

(* Every record is decided in the end: its writer schema is there, or the  *)
(* registry has said it is not; it does not stay pending, whatever mix of  *)
(* fetches, retries and pre-warms its id meets.                            *)
RecordsDecided ==
    \A n \in 1..MaxRecords : (Len(topic) >= n) ~> (next > n)

===============================================================================
