------------------------------ MODULE StoreState ------------------------------
(***************************************************************************)
(* The in-memory store of a registry node (store/mod.rs) and the fold of   *)
(* one `_schemas` record into it (reader.rs, apply_record).  Everything    *)
(* here is a pure operator on a store `st`; the module Registry has the    *)
(* operations that write records.                                          *)
(*                                                                         *)
(* Data abstraction.  A member of Schemas stands for a schema's type,      *)
(* canonical form, references and message type together, that is for its   *)
(* dedup_key; Refs gives its references.  A schema parses exactly when its *)
(* references resolve.  A subject's vector of entries, which the code      *)
(* keeps sorted by version, is a function of its versions; the code drops  *)
(* a subject with no entry, so the empty function is an absent subject.    *)
(***************************************************************************)
EXTENDS Integers, Sequences, FiniteSets, FiniteSetsExt, CompatLevels

CONSTANTS
    Subjects,       \* subject names
    NoSubject,      \* key of the registry-wide CONFIG and MODE records
    Schemas,        \* schemas, each with its references
    Refs,           \* Refs[s]: the <<subject, version>> pairs s refers to
    NoValue,        \* the null value of a tombstone; an override not set
    MaxInt,         \* i32::MAX
    DefaultLevel,   \* RegistryRuntimeConfig::default_compatibility_level
    DefaultMode     \* RegistryRuntimeConfig::default_mode

AllModes  == {"READWRITE", "READONLY", "IMPORT"}
SchemaValues == [id : Int, schema : Schemas, deleted : BOOLEAN]

ASSUME StoreAssumption ==
    /\ NoSubject \notin Subjects
    /\ MaxInt \in Nat \ {0}
    /\ Refs \in [Schemas -> SUBSET (Subjects \X (1..MaxInt))]
    /\ NoValue \notin Int /\ NoValue \notin SchemaValues
    /\ NoValue \notin AllLevels /\ NoValue \notin AllModes

-------------------------------------------------------------------------------
(* Finite maps (the BTreeMaps of StoreState). *)

Put(f, k, v) == [x \in DOMAIN f \cup {k} |-> IF x = k THEN v ELSE f[x]]
Drop(f, S) == [x \in DOMAIN f \ S |-> f[x]]
Larger(a, b) == IF a >= b THEN a ELSE b
EmptyMap == [x \in {} |-> NoValue]

-------------------------------------------------------------------------------
(* `_schemas` records.  The key is type, subject and version. *)

SchemaRecord(s, v, id, schema, deleted) ==
    [type |-> "SCHEMA", subject |-> s, version |-> v,
     value |-> [id |-> id, schema |-> schema, deleted |-> deleted]]
Tombstone(s, v) ==
    [type |-> "SCHEMA", subject |-> s, version |-> v, value |-> NoValue]
DeleteSubject(s, v) ==
    [type |-> "DELETE_SUBJECT", subject |-> s, version |-> 0, value |-> v]
VersionHighWater(s, next) ==
    [type |-> "NOOP", subject |-> s, version |-> 0, value |-> next]
Config(s, level) ==
    [type |-> "CONFIG", subject |-> s, version |-> 0, value |-> level]
Mode(s, mode) ==
    [type |-> "MODE", subject |-> s, version |-> 0, value |-> mode]

SameKey(r, q) ==
    r.type = q.type /\ r.subject = q.subject /\ r.version = q.version

-------------------------------------------------------------------------------
(* The store. *)

with_defaults ==
    [subjects      |-> [s \in Subjects |-> EmptyMap],
     byId          |-> EmptyMap,
     byCanonical   |-> EmptyMap,
     canonicalById |-> EmptyMap,
     compat        |-> [s \in Subjects \cup {NoSubject} |-> NoValue],
     mode          |-> [s \in Subjects \cup {NoSubject} |-> NoValue],
     maxId         |-> 0,
     nextVersions  |-> [s \in Subjects |-> 1]]

Versions(st, s) == DOMAIN st.subjects[s]
LiveVersions(st, s) == {v \in Versions(st, s) : ~st.subjects[s][v].deleted}
SchemaOf(st, s, v) == st.byId[st.subjects[s][v].id]

global_compat(st) ==
    IF st.compat[NoSubject] = NoValue THEN DefaultLevel ELSE st.compat[NoSubject]
global_mode(st) ==
    IF st.mode[NoSubject] = NoValue THEN DefaultMode ELSE st.mode[NoSubject]
effective_level(st, s) ==
    IF st.compat[s] = NoValue THEN global_compat(st) ELSE st.compat[s]
effective_mode(st, s) ==
    IF st.mode[s] = NoValue THEN global_mode(st) ELSE st.mode[s]

(* resolve_closure succeeds: the references, and theirs in turn, all name  *)
(* versions the store has, soft-deleted ones included.  The walk guards    *)
(* cycles, so it succeeds exactly when such a closed set exists.           *)
resolve_closure(st, refs) ==
    LET present == UNION {{<<s, v>> : v \in Versions(st, s)} : s \in Subjects}
    IN  \E closure \in SUBSET present :
            /\ refs \subseteq closure
            /\ \A c \in closure : Refs[SchemaOf(st, c[1], c[2])] \subseteq closure

(* Some version not soft-deleted refers to version v of s. *)
referenced_by(st, s, v) ==
    \E t \in Subjects : \E w \in LiveVersions(st, t) :
        <<s, v>> \in Refs[SchemaOf(st, t, w)]

(* The versions of s that find_under_subject_canonical may return; the     *)
(* code takes the first.                                                   *)
find_under_subject(st, s, schema, include_deleted) ==
    {v \in (IF include_deleted THEN Versions(st, s) ELSE LiveVersions(st, s)) :
        /\ schema \in DOMAIN st.byCanonical
        /\ st.subjects[s][v].id = st.byCanonical[schema]}

(* IMPORT refuses an id bound to another schema; it also fails when the    *)
(* references of the bound schema no longer resolve.                       *)
schema_id_conflicts(st, id, schema) ==
    /\ id \in DOMAIN st.byId
    /\ \/ st.byId[id] # schema
       \/ ~resolve_closure(st, Refs[st.byId[id]])

(* The version and the id StoreState::register gives a new schema.  The id *)
(* is max_id.0 + 1 in i32, which wraps in a release build.                 *)
next_version(st, s) == st.nextVersions[s]
next_id(st) == IF st.maxId = MaxInt THEN -MaxInt - 1 ELSE st.maxId + 1

(* StoreState::register on a clone of the store: the record to write. *)
register(st, s, schema) ==
    LET same == find_under_subject(st, s, schema, TRUE)
        id   == IF schema \in DOMAIN st.byCanonical
                THEN st.byCanonical[schema] ELSE next_id(st)
    IN  IF same # {}
        THEN SchemaRecord(s, Min(same), st.byCanonical[schema], schema, FALSE)
        ELSE SchemaRecord(s, next_version(st, s), id, schema, FALSE)

-------------------------------------------------------------------------------
(* Folding a record. *)

observe_next_version(st, s, next) ==
    [st EXCEPT !.nextVersions[s] = Larger(@, next)]
observe_version(st, s, v) ==
    observe_next_version(st, s, IF v = MaxInt THEN MaxInt ELSE v + 1)

(* The two canonical indexes after a record that binds id to a schema: the *)
(* binding the id had is dropped, and it is bound anew when the references *)
(* resolve, which takes the schema away from another id that had it.       *)
BindCanonical(st, id, schema) ==
    LET had    == {k \in DOMAIN st.byCanonical :
                     /\ id \in DOMAIN st.canonicalById
                     /\ st.canonicalById[id] = k
                     /\ st.byCanonical[k] = id}
        keys   == Drop(st.byCanonical, had)
        names  == Drop(st.canonicalById, {id})
        others == {i \in DOMAIN names :
                     /\ schema \in DOMAIN keys
                     /\ keys[schema] = i
                     /\ names[i] = schema}
    IN  IF resolve_closure(st, Refs[schema])
        THEN [st EXCEPT !.byCanonical = Put(keys, schema, id),
                        !.canonicalById = Put(Drop(names, others), id, schema)]
        ELSE [st EXCEPT !.byCanonical = keys, !.canonicalById = names]

apply_schema(st, s, v, value) ==
    LET seen  == [observe_version(st, s, v) EXCEPT
                    !.maxId = Larger(@, value.id),
                    !.byId  = Put(@, value.id, value.schema)]
        bound == BindCanonical(seen, value.id, value.schema)
    IN  [bound EXCEPT !.subjects[s] =
            Put(@, v, [id |-> value.id, deleted |-> value.deleted])]

permanent_delete_version(st, s, v) ==
    [observe_version(st, s, v) EXCEPT !.subjects[s] = Drop(@, {v})]

soft_delete_subject(st, s) ==
    [st EXCEPT !.subjects[s] =
        [v \in DOMAIN @ |-> [id |-> @[v].id, deleted |-> TRUE]]]

(* A CONFIG tombstone of the registry-wide key is ignored. *)
apply_record(st, r) ==
    CASE r.type = "SCHEMA" /\ r.value # NoValue ->
           apply_schema(st, r.subject, r.version, r.value)
      [] r.type = "SCHEMA" /\ r.value = NoValue ->
           permanent_delete_version(st, r.subject, r.version)
      [] r.type = "DELETE_SUBJECT" -> soft_delete_subject(st, r.subject)
      [] r.type = "NOOP" -> observe_next_version(st, r.subject, r.value)
      [] r.type = "MODE" -> [st EXCEPT !.mode[r.subject] = r.value]
      [] r.type = "CONFIG" ->
           IF r.subject = NoSubject /\ r.value = NoValue THEN st
           ELSE [st EXCEPT !.compat[r.subject] = r.value]

(* A store rebuilt by reading the log from its start. *)
Replay(records) ==
    LET fold[i \in 0..Len(records)] ==
            IF i = 0 THEN with_defaults ELSE apply_record(fold[i-1], records[i])
    IN  fold[Len(records)]

===============================================================================
