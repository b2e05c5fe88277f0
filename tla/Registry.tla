------------------------------- MODULE Registry -------------------------------
(***************************************************************************)
(* The operations of KafkaStore (kafkastore/mod.rs) on the compacted topic *)
(* `_schemas`: registration, imports, deletions, compatibility levels and  *)
(* modes, with log compaction, failures between the records of one         *)
(* operation, restarts and rebuilds.                                       *)
(*                                                                         *)
(* PrimaryWrites shows that an operation decides on a store that has       *)
(* applied the whole log, and that operations do not overlap.  Here an     *)
(* operation is therefore one step, except that one writing several        *)
(* records, each in a transaction of its own, takes a step for each and    *)
(* may stop between two: `todo` holds the records it has left, and the     *)
(* write gate is free when there is none.  Barrier records change no       *)
(* store and are left out.                                                 *)
(***************************************************************************)
EXTENDS StoreState

CONSTANT
    Loads           \* what the clients of one behaviour may ask for

(* A load: the <<subject, schema>> pairs clients register, the pairs       *)
(* <<reader, writer>> that format::check accepts, the modes and levels     *)
(* they set as <<subject, value>>, the explicit ids and versions of their  *)
(* imports, the descriptor sets they upload, and the bounds on the uploads *)
(* and on the records written.                                             *)
ASSUME RegistryAssumption ==
    \A ld \in Loads :
        /\ ld.menu \subseteq Subjects \X Schemas
        /\ ld.canRead \subseteq Schemas \X Schemas
        /\ ld.modes \subseteq (Subjects \cup {NoSubject}) \X AllModes
        /\ ld.levels \subseteq (Subjects \cup {NoSubject}) \X AllLevels
        /\ ld.ids \subseteq 1..MaxInt /\ ld.versions \subseteq 1..MaxInt
        /\ ld.uploads \in Nat /\ ld.maxWrites \in Nat

VARIABLES
    load,           \* the load of this behaviour
    log,            \* the records of _schemas, oldest first
    store,          \* KafkaStore::store of the primary
    todo,           \* what the operation holding the write gate still writes
    writes          \* records written so far

vars == <<load, log, store, todo, writes>>

Init ==
    /\ load \in Loads
    /\ log = <<>>
    /\ store = with_defaults
    /\ todo = <<>>
    /\ writes = 0

-------------------------------------------------------------------------------
(* Writing. *)

(* One committed record, which the reader applies. *)
Write(r) ==
    /\ writes < load.maxWrites
    /\ log' = Append(log, r)
    /\ store' = apply_record(store, r)
    /\ writes' = writes + 1
    /\ UNCHANGED load

(* An operation that found the gate free writes r, then the records rest. *)
Operation(r, rest) ==
    /\ todo = <<>>
    /\ Write(r)
    /\ todo' = rest

WriteNext ==
    /\ todo # <<>>
    /\ Write(Head(todo))
    /\ todo' = Tail(todo)

(* A deadline or a writer error ends the operation between two records. *)
Abandon ==
    /\ todo # <<>>
    /\ todo' = <<>>
    /\ UNCHANGED <<load, log, store, writes>>

(* Seeded defect: the subject's own mode is not looked at. *)
EnsureGlobalWritable(s) == global_mode(store) # "READONLY"

ensure_writable(s) == effective_mode(store, s) # "READONLY"

-------------------------------------------------------------------------------
(* Registration. *)

check_pair(level, new, old) ==
    /\ NewReadsOld(level) => <<new, old>> \in load.canRead
    /\ OldReadsNew(level) => <<old, new>> \in load.canRead

(* Seeded defect: a transitive level checks the latest version only. *)
CheckLatest(st, s, new) ==
    LET live == LiveVersions(st, s)
    IN  live # {} => check_pair(effective_level(st, s), new,
                                SchemaOf(st, s, Max(live)))

(* The new schema against the latest live version, or against all of them  *)
(* when the level is transitive.                                           *)
check_registration(st, s, new) ==
    LET level   == effective_level(st, s)
        live    == LiveVersions(st, s)
        targets == IF is_transitive(level) THEN live
                   ELSE {v \in live : \A w \in live : w <= v}
    IN  \A v \in targets : check_pair(level, new, SchemaOf(st, s, v))

(* A registration with the schema already live is answered with the        *)
(* existing version and writes nothing.                                    *)
Register(s, schema) ==
    /\ effective_mode(store, s) = "READWRITE"
    /\ resolve_closure(store, Refs[schema])
    /\ find_under_subject(store, s, schema, FALSE) = {}
    /\ check_registration(store, s, schema)
    /\ Operation(register(store, s, schema), <<>>)

(* Seeded defect: schema_id_conflicts is not consulted. *)
ImportAnyId(s, schema, id, v) ==
    /\ effective_mode(store, s) = "IMPORT"
    /\ resolve_closure(store, Refs[schema])
    /\ Operation(SchemaRecord(s, v, id, schema, FALSE), <<>>)

Import(s, schema, id, v) ==
    /\ effective_mode(store, s) = "IMPORT"
    /\ resolve_closure(store, Refs[schema])
    /\ ~schema_id_conflicts(store, id, schema)
    /\ Operation(SchemaRecord(s, v, id, schema, FALSE), <<>>)

-------------------------------------------------------------------------------
(* Deletion. *)

SoftDeleteVersion(s, v) ==
    /\ ensure_writable(s)
    /\ v \in Versions(store, s)
    /\ ~referenced_by(store, s, v)
    /\ Operation(SchemaRecord(s, v, store.subjects[s][v].id,
                              SchemaOf(store, s, v), TRUE), <<>>)

(* Seeded defects: no reference protection, no high-water record, and the  *)
(* high-water record after the tombstone.                                  *)
PermanentDeleteReferenced(s, v) ==
    /\ ensure_writable(s)
    /\ v \in Versions(store, s) \ LiveVersions(store, s)
    /\ Operation(VersionHighWater(s, next_version(store, s)), <<Tombstone(s, v)>>)

PermanentDeleteNoHighWater(s, v) ==
    /\ ensure_writable(s)
    /\ v \in Versions(store, s) \ LiveVersions(store, s)
    /\ ~referenced_by(store, s, v)
    /\ Operation(Tombstone(s, v), <<>>)

PermanentDeleteSwapped(s, v) ==
    /\ ensure_writable(s)
    /\ v \in Versions(store, s) \ LiveVersions(store, s)
    /\ ~referenced_by(store, s, v)
    /\ Operation(Tombstone(s, v), <<VersionHighWater(s, next_version(store, s))>>)

PermanentDeleteVersion(s, v) ==
    /\ ensure_writable(s)
    /\ v \in Versions(store, s) \ LiveVersions(store, s)
    /\ ~referenced_by(store, s, v)
    /\ Operation(VersionHighWater(s, next_version(store, s)), <<Tombstone(s, v)>>)

(* The marker names the highest live version. *)
SoftDeleteSubject(s) ==
    /\ ensure_writable(s)
    /\ LiveVersions(store, s) # {}
    /\ \A v \in LiveVersions(store, s) : ~referenced_by(store, s, v)
    /\ Operation(DeleteSubject(s, Max(LiveVersions(store, s))), <<>>)

(* The tombstones in ascending order of the versions. *)
PermanentDeleteSubject(s) ==
    /\ ensure_writable(s)
    /\ Versions(store, s) # {}
    /\ LiveVersions(store, s) = {}
    /\ \A v \in Versions(store, s) : ~referenced_by(store, s, v)
    /\ \E all \in [1..Cardinality(Versions(store, s)) -> Versions(store, s)] :
          /\ \A i, j \in DOMAIN all : i < j => all[i] < all[j]
          /\ Operation(VersionHighWater(s, next_version(store, s)),
                       [i \in DOMAIN all |-> Tombstone(s, all[i])]
                       \o <<Config(s, NoValue), Mode(s, NoValue)>>)

-------------------------------------------------------------------------------
(* Compatibility levels and modes; s may be NoSubject, the whole registry. *)

SetCompat(s, level) ==
    /\ (IF s = NoSubject THEN global_mode(store) ELSE effective_mode(store, s))
         # "READONLY"
    /\ Operation(Config(s, level), <<>>)

DeleteSubjectCompat(s) ==
    /\ store.compat[s] # NoValue
    /\ Operation(Config(s, NoValue), <<>>)

SetGlobalMode(mode) ==
    /\ mode = "IMPORT" => \A s \in Subjects : Versions(store, s) = {}
    /\ Operation(Mode(NoSubject, mode), <<>>)

SetSubjectMode(s, mode) ==
    /\ mode = "IMPORT" => Versions(store, s) = {}
    /\ Operation(Mode(s, mode), <<>>)

ClearSubjectMode(s) == Operation(Mode(s, NoValue), <<>>)

-------------------------------------------------------------------------------
(* The log cleaner, and a store built anew from the log. *)

(* The cleaner removes a record with a later one of the same key, and a    *)
(* tombstone that shadows no record.                                       *)
Cleanable(i) ==
    \/ \E j \in DOMAIN log : i < j /\ SameKey(log[i], log[j])
    \/ /\ log[i].value = NoValue
       /\ \A j \in DOMAIN log : j < i => ~SameKey(log[i], log[j])

Compact ==
    /\ \E i \in DOMAIN log :
          /\ Cleanable(i)
          /\ log' = SubSeq(log, 1, i - 1) \o SubSeq(log, i + 1, Len(log))
    /\ UNCHANGED <<load, store, todo, writes>>

(* The process stops and another one starts, or another node takes over:   *)
(* its store is the log replayed.                                          *)
Restart ==
    /\ store' = Replay(log)
    /\ todo' = <<>>
    /\ UNCHANGED <<load, log, writes>>

(* The reader fell behind the log start and rebuilds, keeping max_id. *)
ResetToLogStart ==
    /\ store' = [Replay(log) EXCEPT !.maxId = Larger(@, store.maxId)]
    /\ UNCHANGED <<load, log, todo, writes>>

-------------------------------------------------------------------------------
(* The requests that write, by the REST handler that makes them. *)

rest_register(s, schema) ==
    \/ Register(s, schema)
    \/ \E id \in load.ids, v \in load.versions : Import(s, schema, id, v)

(* The path names a version, or `latest`: the handler then takes the       *)
(* latest live version before it has the write gate, and it may be any     *)
(* version of the subject by the time the deletion decides.                *)
rest_delete_version(s) ==
    \E v \in Versions(store, s) :
        SoftDeleteVersion(s, v) \/ PermanentDeleteVersion(s, v)

rest_delete_subject(s) == SoftDeleteSubject(s) \/ PermanentDeleteSubject(s)

validate(level) == level \in AllLevels

rest_put_config(s, level) == validate(level) /\ SetCompat(s, level)

rest_delete_config(s) == DeleteSubjectCompat(s)

rest_put_mode(s, mode) ==
    IF s = NoSubject THEN SetGlobalMode(mode) ELSE SetSubjectMode(s, mode)

(* The handler looks for an override before it has the gate; when the      *)
(* deletion decides there may be none, or another one.                     *)
rest_delete_mode(s) ==
    /\ \E m \in load.modes : m[1] = s
    /\ ClearSubjectMode(s)

(* All that happens to a running store. *)
Step ==
    \/ \E m \in load.menu : rest_register(m[1], m[2])
    \/ \E s \in Subjects :
          \/ rest_delete_version(s)
          \/ rest_delete_subject(s)
          \/ rest_delete_config(s)
          \/ rest_delete_mode(s)
    \/ \E c \in load.levels : rest_put_config(c[1], c[2])
    \/ \E m \in load.modes : rest_put_mode(m[1], m[2])
    \/ WriteNext
    \/ Abandon
    \/ Compact
    \/ ResetToLogStart

-------------------------------------------------------------------------------
(* Properties. *)

(* What the REST reads show: the versions of the subjects, the schemas of  *)
(* the ids in use, the next versions, the levels and the modes.            *)
View(st) ==
    [subjects |-> st.subjects,
     schemas  |-> [s \in Subjects |->
                     [v \in Versions(st, s) |-> SchemaOf(st, s, v)]],
     next     |-> st.nextVersions,
     compat   |-> st.compat,
     mode     |-> st.mode]

(* However the log has been compacted, and wherever an operation stopped,  *)
(* a store replayed from it shows what the live store shows.               *)
ReplayEquivalence == View(Replay(log)) = View(store)

(* Two SCHEMA records of the log with one id carry one schema, so an id in *)
(* a message names a single schema (register, schema_id_conflicts).        *)
IdBindsOneSchema ==
    \A i, j \in DOMAIN log :
        (/\ log[i].type = "SCHEMA" /\ log[i].value # NoValue
         /\ log[j].type = "SCHEMA" /\ log[j].value # NoValue
         /\ log[i].value.id = log[j].value.id)
        => log[i].value.schema = log[j].value.schema

(* A version that is not soft-deleted refers only to versions the store    *)
(* has: reference protection in the deletions, resolve_closure in the      *)
(* registrations that create or restore a version.                         *)
LiveReferencesExist ==
    \A s \in Subjects : \A v \in LiveVersions(store, s) :
        \A r \in Refs[SchemaOf(store, s, v)] : r[2] \in Versions(store, r[1])

(* The version the next registration of a subject gets never goes back,    *)
(* through deletions, failures between their records, compaction and       *)
(* restarts: the high-water record comes before the tombstones.            *)
NextVersionNeverDrops ==
    [][\A s \in Subjects : store'.nextVersions[s] >= store.nextVersions[s]]_vars

(* While a subject is read-only its versions stay as they are, whatever    *)
(* operation was under way, and through compaction and replay.             *)
ReadOnlyUntouched ==
    [][\A s \in Subjects : effective_mode(store, s) = "READONLY" =>
          store'.subjects[s] = store.subjects[s]]_vars

(* Registering a live schema again finds it: lookup by schema, and the     *)
(* idempotence of register, survive deletions, compaction and replay.      *)
RegisteredIsFound ==
    \A s \in Subjects : \A v \in LiveVersions(store, s) :
        find_under_subject(store, s, SchemaOf(store, s, v), FALSE) # {}

(* Every live version's references resolve, transitively: what             *)
(* check_registration and check_against_version assume of stored versions. *)
ClosureResolves ==
    \A s \in Subjects : \A v \in LiveVersions(store, s) :
        resolve_closure(store, Refs[SchemaOf(store, s, v)])

(* The ids are not used up: max_id + 1 does not wrap. *)
IdsLeft == store.maxId # MaxInt

(* When the level stays at a transitive default and nothing is imported,   *)
(* of any two live versions of a subject one was checked against the       *)
(* other, in every order of deletions and restorations.                    *)
LivePairsChecked ==
    (is_transitive(DefaultLevel) /\ load.levels = {} /\ load.ids = {}) =>
        \A s \in Subjects : \A v, w \in LiveVersions(store, s) : v # w =>
            \/ check_pair(DefaultLevel, SchemaOf(store, s, v), SchemaOf(store, s, w))
            \/ check_pair(DefaultLevel, SchemaOf(store, s, w), SchemaOf(store, s, v))

===============================================================================
