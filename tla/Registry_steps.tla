---------------------------- MODULE Registry_steps -----------------------------
(***************************************************************************)
(* The store, and the steps of the operations on `_schemas`, for the       *)
(* theorems of Registry_proofs.                                            *)
(*                                                                         *)
(* First one store and one log, without actions: what a store owes to the  *)
(* records it was folded from is said without the fold, each part of the   *)
(* store from the last record of a key or from the largest of some         *)
(* records.  The lemmas show that apply_record keeps this, that so does    *)
(* Replay, that the log cleaner keeps it, and that it determines what a    *)
(* store shows.                                                            *)
(*                                                                         *)
(* Then the steps.  A step either writes one record, or removes one from   *)
(* the log, or makes a store from the log, or leaves log and store alone.  *)
(* What may be said of the record written (RecordShape, RecordBinds,       *)
(* RecordChecked) comes from the guards of the operations; that the        *)
(* invariants are kept follows from that and from the lemmas about the     *)
(* store.  What takes an induction (MinIn, MaxIn, CountsVersions,          *)
(* ReplayIsGood) is a hypothesis here and a lemma of Registry_proofs.      *)
(***************************************************************************)
EXTENDS Registry, TLAPS

-------------------------------------------------------------------------------
(* Types. *)

Keys    == Subjects \cup {NoSubject}
Numbers == 1..MaxInt

SchemaRecords == [type : {"SCHEMA"}, subject : Subjects, version : Numbers,
                  value : SchemaValues \cup {NoValue}]
NumberRecords == [type : {"DELETE_SUBJECT", "NOOP"}, subject : Subjects,
                  version : {0}, value : Numbers]
ModeRecords   == [type : {"MODE"}, subject : Keys, version : {0},
                  value : AllModes \cup {NoValue}]
ConfigRecords == [type : {"CONFIG"}, subject : Keys, version : {0},
                  value : AllLevels \cup {NoValue}]

(* The records operations write: the registry-wide level is never cleared. *)
Records ==
    SchemaRecords \cup NumberRecords \cup ModeRecords
    \cup {r \in ConfigRecords : r.subject = NoSubject => r.value # NoValue}

IsMap(f, K, V) ==
    /\ f = [x \in DOMAIN f |-> f[x]]
    /\ DOMAIN f \subseteq K
    /\ \A x \in DOMAIN f : f[x] \in V

HasFields(st) ==
    st = [subjects |-> st.subjects, byId |-> st.byId,
          byCanonical |-> st.byCanonical, canonicalById |-> st.canonicalById,
          compat |-> st.compat, mode |-> st.mode, maxId |-> st.maxId,
          nextVersions |-> st.nextVersions]

StoreType(st) ==
    /\ HasFields(st)
    /\ st.subjects = [s \in Subjects |-> st.subjects[s]]
    /\ \A s \in Subjects :
          IsMap(st.subjects[s], Numbers, [id : Int, deleted : BOOLEAN])
    /\ IsMap(st.byId, Int, Schemas)
    /\ IsMap(st.byCanonical, Schemas, Int)
    /\ IsMap(st.canonicalById, Int, Schemas)
    /\ st.compat \in [Keys -> AllLevels \cup {NoValue}]
    /\ st.mode \in [Keys -> AllModes \cup {NoValue}]
    /\ st.maxId \in Int
    /\ st.nextVersions \in [Subjects -> Numbers]

-------------------------------------------------------------------------------
(* What a store owes to the first n records of rs. *)

(* No later record has the key of record i. *)
IsLatest(rs, n, i) == \A j \in 1..n : j > i => ~SameKey(rs[i], rs[j])

HasSchema(r) == r.type = "SCHEMA" /\ r.value # NoValue
IsTombstone(r) == r.type = "SCHEMA" /\ r.value = NoValue

(* A DELETE_SUBJECT marker follows. *)
Marked(rs, n, i) ==
    \E j \in 1..n : /\ j > i
                    /\ rs[j].type = "DELETE_SUBJECT"
                    /\ rs[j].subject = rs[i].subject

EntriesFrom(st, rs, n) ==
    /\ \A s \in Subjects : \A v \in Versions(st, s) : \E i \in 1..n :
          /\ IsLatest(rs, n, i) /\ HasSchema(rs[i])
          /\ rs[i].subject = s /\ rs[i].version = v
    /\ \A i \in 1..n : (IsLatest(rs, n, i) /\ HasSchema(rs[i])) =>
          /\ rs[i].version \in Versions(st, rs[i].subject)
          /\ st.subjects[rs[i].subject][rs[i].version].id = rs[i].value.id
          /\ st.subjects[rs[i].subject][rs[i].version].deleted
               <=> (rs[i].value.deleted \/ Marked(rs, n, i))

(* The next version a record asks for. *)
After(v) == IF v = MaxInt THEN MaxInt ELSE v + 1
Asks(r, s) == r.type \in {"SCHEMA", "NOOP"} /\ r.subject = s
AsksFor(r) == IF r.type = "NOOP" THEN r.value ELSE After(r.version)

NextFrom(st, rs, n) ==
    \A s \in Subjects :
        /\ \A i \in 1..n : Asks(rs[i], s) => AsksFor(rs[i]) <= st.nextVersions[s]
        /\ \/ st.nextVersions[s] = 1
           \/ \E i \in 1..n : Asks(rs[i], s) /\ AsksFor(rs[i]) = st.nextVersions[s]

SettingsFrom(f, type, rs, n) ==
    /\ \A i \in 1..n : (IsLatest(rs, n, i) /\ rs[i].type = type) =>
          f[rs[i].subject] = rs[i].value
    /\ \A k \in Keys : f[k] = NoValue \/ \E i \in 1..n :
          IsLatest(rs, n, i) /\ rs[i].type = type /\ rs[i].subject = k

Faithful(st, rs, n) ==
    /\ EntriesFrom(st, rs, n)
    /\ NextFrom(st, rs, n)
    /\ SettingsFrom(st.compat, "CONFIG", rs, n)
    /\ SettingsFrom(st.mode, "MODE", rs, n)

-------------------------------------------------------------------------------
(* What keeps the log cleaner from losing a next version: the high-water   *)
(* records of a subject ascend, and one covers each tombstone.             *)

HighWatersAscend(rs) ==
    \A i, j \in DOMAIN rs :
        (/\ i < j /\ rs[i].type = "NOOP" /\ rs[j].type = "NOOP"
         /\ rs[i].subject = rs[j].subject) => rs[i].value <= rs[j].value

Covered(rs, s, v) ==
    \E j \in DOMAIN rs : rs[j].type = "NOOP" /\ rs[j].subject = s
                         /\ After(v) <= rs[j].value

TombstonesCovered(rs) ==
    \A i \in DOMAIN rs : IsTombstone(rs[i]) =>
        Covered(rs, rs[i].subject, rs[i].version)

-------------------------------------------------------------------------------
(* Ids. *)

BindsAll(st, rs, n) ==
    \A i \in 1..n : HasSchema(rs[i]) =>
        /\ rs[i].value.id \in DOMAIN st.byId
        /\ st.byId[rs[i].value.id] = rs[i].value.schema

KnowsIds(st, rs, n) ==
    \A i \in 1..n : HasSchema(rs[i]) => rs[i].value.id \in DOMAIN st.byId

BindsOnly(st, rs, n) ==
    \A id \in DOMAIN st.byId : \E i \in 1..n :
        /\ HasSchema(rs[i])
        /\ rs[i].value.id = id
        /\ rs[i].value.schema = st.byId[id]

IdsBelow(st) == \A id \in DOMAIN st.byId : id <= st.maxId

CanonicalSound(st) ==
    \A k \in DOMAIN st.byCanonical :
        /\ st.byCanonical[k] \in DOMAIN st.byId
        /\ st.byId[st.byCanonical[k]] = k

(* The schemas without references are found by their canonical form. *)
CanonicalFinds(st, rs, n) ==
    \A i \in 1..n : (HasSchema(rs[i]) /\ Refs[rs[i].value.schema] = {}) =>
        /\ rs[i].value.schema \in DOMAIN st.byCanonical
        /\ st.byCanonical[rs[i].value.schema] = rs[i].value.id

(* Two records with one id carry one schema; and with one schema that has  *)
(* no references, one id.                                                  *)
OneSchemaPerId(rs, n) ==
    \A i, j \in 1..n :
        (HasSchema(rs[i]) /\ HasSchema(rs[j]) /\ rs[i].value.id = rs[j].value.id)
        => rs[i].value.schema = rs[j].value.schema

OneIdPerSchema(rs, n) ==
    \A i, j \in 1..n :
        (/\ HasSchema(rs[i]) /\ HasSchema(rs[j])
         /\ rs[i].value.schema = rs[j].value.schema
         /\ Refs[rs[i].value.schema] = {})
        => rs[i].value.id = rs[j].value.id

-------------------------------------------------------------------------------
(* The parts of a store after a record. *)

(* What Put and Drop do to a map. *)
LEMMA MapFacts ==
    ASSUME NEW K, NEW V, NEW f, IsMap(f, K, V)
    PROVE  /\ \A k \in K, v \in V : IsMap(Put(f, k, v), K, V)
           /\ \A S : IsMap(Drop(f, S), K, V)
  BY DEF IsMap, Put, Drop

(* What each kind of record changes, t being the store after it. *)
SchemaEffect(st, t, s, v, value) ==
    /\ HasFields(t)
    /\ t.subjects = [st.subjects EXCEPT ![s] =
            Put(@, v, [id |-> value.id, deleted |-> value.deleted])]
    /\ t.byId = Put(st.byId, value.id, value.schema)
    /\ t.compat = st.compat /\ t.mode = st.mode
    /\ t.maxId = Larger(st.maxId, value.id)
    /\ t.nextVersions = [st.nextVersions EXCEPT ![s] = Larger(@, After(v))]

KeepsIds(st, t) ==
    /\ t.byId = st.byId /\ t.maxId = st.maxId
    /\ t.byCanonical = st.byCanonical /\ t.canonicalById = st.canonicalById

TombstoneEffect(st, t, s, v) ==
    /\ HasFields(t) /\ KeepsIds(st, t)
    /\ t.subjects = [st.subjects EXCEPT ![s] = Drop(@, {v})]
    /\ t.compat = st.compat /\ t.mode = st.mode
    /\ t.nextVersions = [st.nextVersions EXCEPT ![s] = Larger(@, After(v))]

MarkerEffect(st, t, s) ==
    /\ HasFields(t) /\ KeepsIds(st, t)
    /\ t.subjects = [st.subjects EXCEPT ![s] =
            [w \in DOMAIN @ |-> [id |-> @[w].id, deleted |-> TRUE]]]
    /\ t.compat = st.compat /\ t.mode = st.mode
    /\ t.nextVersions = st.nextVersions

HighWaterEffect(st, t, s, next) ==
    /\ HasFields(t) /\ KeepsIds(st, t)
    /\ t.subjects = st.subjects
    /\ t.compat = st.compat /\ t.mode = st.mode
    /\ t.nextVersions = [st.nextVersions EXCEPT ![s] = Larger(@, next)]

ModeEffect(st, t, k, mode) ==
    /\ HasFields(t) /\ KeepsIds(st, t)
    /\ t.subjects = st.subjects /\ t.nextVersions = st.nextVersions
    /\ t.compat = st.compat
    /\ t.mode = [st.mode EXCEPT ![k] = mode]

ConfigEffect(st, t, k, level) ==
    /\ HasFields(t) /\ KeepsIds(st, t)
    /\ t.subjects = st.subjects /\ t.nextVersions = st.nextVersions
    /\ t.compat = [st.compat EXCEPT ![k] = level]
    /\ t.mode = st.mode

(* The functions of a store are functions of the subjects. *)
HasMaps(st) ==
    /\ HasFields(st)
    /\ st.subjects = [x \in Subjects |-> st.subjects[x]]
    /\ st.nextVersions = [x \in Subjects |-> st.nextVersions[x]]

(* A schema record. *)
LEMMA SchemaFields ==
    ASSUME NEW st, HasMaps(st), NEW s \in Subjects, NEW v, NEW value
    PROVE  SchemaEffect(st, apply_schema(st, s, v, value), s, v, value)
  <1> DEFINE t == apply_schema(st, s, v, value)
  <1> DEFINE seen == [observe_version(st, s, v) EXCEPT
                        !.maxId = Larger(@, value.id),
                        !.byId  = Put(@, value.id, value.schema)]
             bound == BindCanonical(seen, value.id, value.schema)
  <1>1. /\ HasFields(seen)
        /\ seen.subjects = st.subjects
        /\ seen.byId = Put(st.byId, value.id, value.schema)
        /\ seen.byCanonical = st.byCanonical
        /\ seen.canonicalById = st.canonicalById
        /\ seen.compat = st.compat /\ seen.mode = st.mode
        /\ seen.maxId = Larger(st.maxId, value.id)
        /\ seen.nextVersions = [st.nextVersions EXCEPT ![s] = Larger(@, After(v))]
    <2> DEFINE noted == observe_version(st, s, v)
    <2>1. noted = [st EXCEPT !.nextVersions =
                     [st.nextVersions EXCEPT ![s] = Larger(@, After(v))]]
      BY Zenon DEF observe_version, observe_next_version, After
    <2> HIDE DEF noted
    <2>2. /\ HasFields(noted)
          /\ noted.subjects = st.subjects /\ noted.byId = st.byId
          /\ noted.byCanonical = st.byCanonical
          /\ noted.canonicalById = st.canonicalById
          /\ noted.compat = st.compat /\ noted.mode = st.mode
          /\ noted.maxId = st.maxId
          /\ noted.nextVersions = [st.nextVersions EXCEPT ![s] = Larger(@, After(v))]
      BY <2>1 DEF HasFields, HasMaps
    <2>3. seen = [noted EXCEPT !.maxId = Larger(noted.maxId, value.id),
                               !.byId  = Put(noted.byId, value.id, value.schema)]
      BY Zenon DEF noted
    <2> HIDE DEF seen
    <2> QED  BY <2>2, <2>3, Zenon DEF HasFields
  <1> HIDE DEF seen
  <1>2. /\ HasFields(bound)
        /\ bound.subjects = seen.subjects /\ bound.byId = seen.byId
        /\ bound.compat = seen.compat /\ bound.mode = seen.mode
        /\ bound.maxId = seen.maxId /\ bound.nextVersions = seen.nextVersions
    BY <1>1, Zenon DEF HasFields, BindCanonical
  <1>3. t = [bound EXCEPT !.subjects[s] =
                Put(@, v, [id |-> value.id, deleted |-> value.deleted])]
    BY Zenon DEF apply_schema, seen
  <1> HIDE DEF bound, t
  <1>4. st.subjects = [x \in Subjects |-> st.subjects[x]]
    BY Zenon DEF HasMaps
  <1>5. /\ HasFields(t)
        /\ t.subjects = [bound.subjects EXCEPT ![s] =
                Put(@, v, [id |-> value.id, deleted |-> value.deleted])]
        /\ t.byId = bound.byId /\ t.compat = bound.compat /\ t.mode = bound.mode
        /\ t.maxId = bound.maxId /\ t.nextVersions = bound.nextVersions
    BY <1>1, <1>2, <1>3, <1>4, Zenon DEF HasFields
  <1> QED  BY <1>1, <1>2, <1>5, Zenon DEF SchemaEffect, t

(* The other records. *)
LEMMA TombstoneFields ==
    ASSUME NEW st, HasMaps(st), NEW s \in Subjects, NEW v
    PROVE  TombstoneEffect(st, permanent_delete_version(st, s, v), s, v)
  <1> DEFINE noted == observe_version(st, s, v)
             t == permanent_delete_version(st, s, v)
  <1>1. noted = [st EXCEPT !.nextVersions =
                   [st.nextVersions EXCEPT ![s] = Larger(@, After(v))]]
    BY Zenon DEF observe_version, observe_next_version, After
  <1>2. t = [noted EXCEPT !.subjects[s] = Drop(@, {v})]
    BY Zenon DEF permanent_delete_version
  <1> HIDE DEF noted, t
  <1>3. /\ HasFields(noted) /\ KeepsIds(st, noted)
        /\ noted.subjects = st.subjects
        /\ noted.compat = st.compat /\ noted.mode = st.mode
        /\ noted.nextVersions = [st.nextVersions EXCEPT ![s] = Larger(@, After(v))]
    BY <1>1 DEF HasFields, HasMaps, KeepsIds
  <1>4. /\ HasFields(t) /\ KeepsIds(noted, t)
        /\ t.subjects = [noted.subjects EXCEPT ![s] = Drop(@, {v})]
        /\ t.compat = noted.compat /\ t.mode = noted.mode
        /\ t.nextVersions = noted.nextVersions
    BY <1>2, <1>3, Zenon DEF HasFields, KeepsIds
  <1> QED  BY <1>3, <1>4, Zenon DEF TombstoneEffect, KeepsIds, t

(* What soft_delete_subject does to the fields of a store. *)
LEMMA MarkerFields ==
    ASSUME NEW st, HasMaps(st), NEW s \in Subjects
    PROVE  MarkerEffect(st, soft_delete_subject(st, s), s)
  <1> DEFINE t == soft_delete_subject(st, s)
             f == [w \in DOMAIN st.subjects[s] |->
                     [id |-> st.subjects[s][w].id, deleted |-> TRUE]]
  <1>1. t = [st EXCEPT !.subjects = [st.subjects EXCEPT ![s] = f]]
    BY Zenon DEF soft_delete_subject
  <1> HIDE DEF t, f
  <1>2. /\ HasFields(t) /\ KeepsIds(st, t)
        /\ t.subjects = [st.subjects EXCEPT ![s] = f]
        /\ t.compat = st.compat /\ t.mode = st.mode
        /\ t.nextVersions = st.nextVersions
    BY <1>1, Zenon DEF HasFields, HasMaps, KeepsIds
  <1> QED  BY <1>2, Zenon DEF MarkerEffect, t, f

(* What observe_next_version does to the fields of a store. *)
LEMMA HighWaterFields ==
    ASSUME NEW st, HasMaps(st), NEW s \in Subjects, NEW next
    PROVE  HighWaterEffect(st, observe_next_version(st, s, next), s, next)
  BY DEF HasFields, HasMaps, HighWaterEffect, KeepsIds, observe_next_version

(* The types of the records of each kind. *)
LEMMA RecordFacts ==
    ASSUME NEW r \in Records
    PROVE  /\ r.type = "SCHEMA" => r.subject \in Subjects /\ r.version \in Numbers
           /\ HasSchema(r) => r.value \in SchemaValues
           /\ r.type \in {"DELETE_SUBJECT", "NOOP"} =>
                r.subject \in Subjects /\ r.version = 0 /\ r.value \in Numbers
           /\ r.type = "MODE" =>
                /\ r.subject \in Keys /\ r.version = 0
                /\ r.value \in AllModes \cup {NoValue}
           /\ r.type = "CONFIG" =>
                /\ r.subject \in Keys /\ r.version = 0
                /\ r.value \in AllLevels \cup {NoValue}
                /\ r.subject = NoSubject => r.value # NoValue
           /\ \/ HasSchema(r) \/ IsTombstone(r)
              \/ r.type \in {"DELETE_SUBJECT", "NOOP", "MODE", "CONFIG"}
  <1>1. /\ r.type = "SCHEMA" => r \in SchemaRecords
        /\ r.type \in {"DELETE_SUBJECT", "NOOP"} => r \in NumberRecords
        /\ r.type = "MODE" => r \in ModeRecords
        /\ r.type = "CONFIG" =>
             r \in ConfigRecords /\ (r.subject = NoSubject => r.value # NoValue)
        /\ r.type \in {"SCHEMA", "DELETE_SUBJECT", "NOOP", "MODE", "CONFIG"}
    BY DEF Records, SchemaRecords, NumberRecords, ModeRecords, ConfigRecords
  <1> QED  BY <1>1 DEF SchemaRecords, NumberRecords, ModeRecords, ConfigRecords,
                        HasSchema, IsTombstone

(* What apply_record does with a record. *)
LEMMA ApplyCases ==
    ASSUME NEW st, HasMaps(st), NEW r \in Records, NEW t, t = apply_record(st, r)
    PROVE  /\ HasSchema(r) =>
                /\ r.subject \in Subjects /\ r.version \in Numbers
                /\ r.value \in SchemaValues
                /\ t = apply_schema(st, r.subject, r.version, r.value)
                /\ SchemaEffect(st, t, r.subject, r.version, r.value)
           /\ IsTombstone(r) =>
                /\ r.subject \in Subjects /\ r.version \in Numbers
                /\ TombstoneEffect(st, t, r.subject, r.version)
           /\ r.type = "DELETE_SUBJECT" =>
                r.subject \in Subjects /\ MarkerEffect(st, t, r.subject)
           /\ r.type = "NOOP" =>
                /\ r.subject \in Subjects /\ r.value \in Numbers
                /\ HighWaterEffect(st, t, r.subject, r.value)
           /\ r.type = "MODE" =>
                /\ r.subject \in Keys /\ r.value \in AllModes \cup {NoValue}
                /\ ModeEffect(st, t, r.subject, r.value)
           /\ r.type = "CONFIG" =>
                /\ r.subject \in Keys /\ r.value \in AllLevels \cup {NoValue}
                /\ ConfigEffect(st, t, r.subject, r.value)
           /\ \/ HasSchema(r) \/ IsTombstone(r)
              \/ r.type \in {"DELETE_SUBJECT", "NOOP", "MODE", "CONFIG"}
  <1>2. CASE HasSchema(r)
    <2>1. /\ r.subject \in Subjects /\ r.version \in Numbers
          /\ r.value \in SchemaValues
          /\ apply_record(st, r) = apply_schema(st, r.subject, r.version, r.value)
      BY <1>2, RecordFacts, Zenon DEF apply_record, HasSchema
    <2> QED  BY <1>2, <2>1, SchemaFields, Zenon DEF HasSchema, IsTombstone
  <1>3. CASE IsTombstone(r)
    <2>1. /\ r.subject \in Subjects /\ r.version \in Numbers
          /\ apply_record(st, r) = permanent_delete_version(st, r.subject, r.version)
      BY <1>3, RecordFacts, Zenon DEF apply_record, IsTombstone
    <2> QED  BY <1>3, <2>1, TombstoneFields, Zenon DEF HasSchema, IsTombstone
  <1>4. CASE r.type = "DELETE_SUBJECT"
    <2>1. /\ r.subject \in Subjects
          /\ apply_record(st, r) = soft_delete_subject(st, r.subject)
      BY <1>4, RecordFacts DEF apply_record
    <2> QED  BY <1>4, <2>1, MarkerFields, Zenon DEF HasSchema, IsTombstone
  <1>5. CASE r.type = "NOOP"
    <2>1. /\ r.subject \in Subjects /\ r.value \in Numbers
          /\ apply_record(st, r) = observe_next_version(st, r.subject, r.value)
      BY <1>5, RecordFacts DEF apply_record
    <2> QED  BY <1>5, <2>1, HighWaterFields, Zenon DEF HasSchema, IsTombstone
  <1>6. CASE r.type = "MODE"
    <2>1. /\ r.subject \in Keys /\ r.value \in AllModes \cup {NoValue}
          /\ apply_record(st, r) = [st EXCEPT !.mode[r.subject] = r.value]
      BY <1>6, RecordFacts DEF apply_record
    <2>2. ModeEffect(st, t, r.subject, r.value)
      BY <2>1 DEF HasFields, HasMaps, ModeEffect, KeepsIds
    <2> QED  BY <1>6, <2>1, <2>2, Zenon DEF HasSchema, IsTombstone
  <1>7. CASE r.type = "CONFIG"
    <2>1. /\ r.subject \in Keys /\ r.value \in AllLevels \cup {NoValue}
          /\ apply_record(st, r) = [st EXCEPT !.compat[r.subject] = r.value]
      BY <1>7, RecordFacts DEF apply_record
    <2>2. ConfigEffect(st, t, r.subject, r.value)
      BY <2>1 DEF HasFields, HasMaps, ConfigEffect, KeepsIds
    <2> QED  BY <1>7, <2>1, <2>2, Zenon DEF HasSchema, IsTombstone
  <1> QED  BY <1>2, <1>3, <1>4, <1>5, <1>6, <1>7, RecordFacts, Zenon

(* The canonical indexes after a schema record: at most its own schema is  *)
(* bound anew, and only bindings to its id are lost.                       *)
LEMMA CanonicalFields ==
    ASSUME NEW st, StoreType(st), NEW s \in Subjects, NEW v,
           NEW value \in SchemaValues, NEW t, t = apply_schema(st, s, v, value)
    PROVE  /\ IsMap(t.byCanonical, Schemas, Int)
           /\ IsMap(t.canonicalById, Int, Schemas)
           /\ \A k \in DOMAIN t.byCanonical :
                 \/ k = value.schema /\ t.byCanonical[k] = value.id
                 \/ k \in DOMAIN st.byCanonical /\ t.byCanonical[k] = st.byCanonical[k]
           /\ \A k \in DOMAIN st.byCanonical :
                 (st.byCanonical[k] # value.id /\ k # value.schema) =>
                 k \in DOMAIN t.byCanonical /\ t.byCanonical[k] = st.byCanonical[k]
           /\ Refs[value.schema] = {} =>
                 /\ value.schema \in DOMAIN t.byCanonical
                 /\ t.byCanonical[value.schema] = value.id
  <1> DEFINE seen == [observe_version(st, s, v) EXCEPT
                        !.maxId = Larger(@, value.id),
                        !.byId  = Put(@, value.id, value.schema)]
             had    == {k \in DOMAIN st.byCanonical :
                          /\ value.id \in DOMAIN st.canonicalById
                          /\ st.canonicalById[value.id] = k
                          /\ st.byCanonical[k] = value.id}
             keys   == Drop(st.byCanonical, had)
             names  == Drop(st.canonicalById, {value.id})
             others == {i \in DOMAIN names :
                          /\ value.schema \in DOMAIN keys
                          /\ keys[value.schema] = i
                          /\ names[i] = value.schema}
  <1>1. /\ HasFields(seen)
        /\ seen.byCanonical = st.byCanonical
        /\ seen.canonicalById = st.canonicalById
    <2> DEFINE noted == observe_version(st, s, v)
    <2>1. noted = [st EXCEPT !.nextVersions =
                     [st.nextVersions EXCEPT ![s] = Larger(@, After(v))]]
      BY Zenon DEF observe_version, observe_next_version, After
    <2> HIDE DEF noted
    <2>2. /\ HasFields(noted)
          /\ noted.byCanonical = st.byCanonical
          /\ noted.canonicalById = st.canonicalById
      BY <2>1 DEF HasFields, StoreType
    <2>3. seen = [noted EXCEPT !.maxId = Larger(noted.maxId, value.id),
                               !.byId  = Put(noted.byId, value.id, value.schema)]
      BY Zenon DEF noted
    <2> HIDE DEF seen
    <2> QED  BY <2>2, <2>3, Zenon DEF HasFields
  <1>2. t = [BindCanonical(seen, value.id, value.schema) EXCEPT !.subjects[s] =
                Put(@, v, [id |-> value.id, deleted |-> value.deleted])]
    BY Zenon DEF apply_schema
  <1> HIDE DEF seen
  <1>3. BindCanonical(seen, value.id, value.schema) =
          IF resolve_closure(seen, Refs[value.schema])
          THEN [seen EXCEPT !.byCanonical = Put(keys, value.schema, value.id),
                            !.canonicalById = Put(Drop(names, others), value.id, value.schema)]
          ELSE [seen EXCEPT !.byCanonical = keys, !.canonicalById = names]
    BY <1>1, Zenon DEF BindCanonical
  <1>4. /\ IsMap(keys, Schemas, Int)
        /\ IsMap(Put(keys, value.schema, value.id), Schemas, Int)
        /\ IsMap(names, Int, Schemas)
        /\ IsMap(Put(Drop(names, others), value.id, value.schema), Int, Schemas)
    <2>1. value.id \in Int /\ value.schema \in Schemas
      BY DEF SchemaValues
    <2> QED  BY <2>1, MapFacts, Zenon DEF StoreType
  <1>5. Refs[value.schema] = {} => resolve_closure(seen, Refs[value.schema])
    BY Zenon DEF resolve_closure
  <1>6. /\ DOMAIN keys = DOMAIN st.byCanonical \ had
        /\ \A k \in DOMAIN keys : keys[k] = st.byCanonical[k]
    BY Zenon DEF Drop
  <1>7. \/ /\ t.byCanonical = Put(keys, value.schema, value.id)
           /\ t.canonicalById = Put(Drop(names, others), value.id, value.schema)
        \/ /\ ~resolve_closure(seen, Refs[value.schema])
           /\ t.byCanonical = keys
           /\ t.canonicalById = names
    <2> HIDE DEF keys, names, others
    <2> DEFINE bound == BindCanonical(seen, value.id, value.schema)
    <2>1. /\ HasFields(bound)
          /\ \/ /\ bound.byCanonical = Put(keys, value.schema, value.id)
                /\ bound.canonicalById = Put(Drop(names, others), value.id, value.schema)
             \/ /\ ~resolve_closure(seen, Refs[value.schema])
                /\ bound.byCanonical = keys
                /\ bound.canonicalById = names
      BY <1>1, <1>3, Zenon DEF HasFields
    <2> HIDE DEF bound
    <2>2. t.byCanonical = bound.byCanonical /\ t.canonicalById = bound.canonicalById
      BY <1>2, <2>1 DEF bound, HasFields
    <2> QED  BY <2>1, <2>2, Zenon
  <1>8. \A k \in had : st.byCanonical[k] = value.id
    OBVIOUS
  <1> HIDE DEF keys, names, others, had
  <1>9. CASE /\ t.byCanonical = Put(keys, value.schema, value.id)
             /\ t.canonicalById = Put(Drop(names, others), value.id, value.schema)
    BY <1>4, <1>6, <1>8, <1>9 DEF Put
  <1>10. CASE /\ ~resolve_closure(seen, Refs[value.schema])
              /\ t.byCanonical = keys
              /\ t.canonicalById = names
    BY <1>4, <1>5, <1>6, <1>8, <1>10, Zenon
  <1> QED  BY <1>7, <1>9, <1>10, Zenon

(* A record keeps the types of a store. *)
LEMMA StoreTypeStep ==
    ASSUME NEW st, StoreType(st), NEW r \in Records, NEW t, t = apply_record(st, r)
    PROVE  StoreType(t)
  <1> DEFINE Entry == [id : Int, deleted : BOOLEAN]
  <1>1. HasMaps(st)
    BY DEF StoreType, HasMaps
  <1>2. /\ \A a, b \in Numbers : Larger(a, b) \in Numbers
        /\ \A a, b \in Int : Larger(a, b) \in Int
        /\ \A v \in Numbers : After(v) \in Numbers
    BY StoreAssumption DEF Larger, After, Numbers
  <1>3. ASSUME NEW s \in Subjects, NEW m \in Numbers,
               t.nextVersions = [st.nextVersions EXCEPT ![s] = Larger(@, m)]
        PROVE  t.nextVersions \in [Subjects -> Numbers]
    <2>1. Larger(st.nextVersions[s], m) \in Numbers
      BY <1>2 DEF StoreType
    <2> QED  BY <1>3, <2>1 DEF StoreType
  <1>4. ASSUME NEW s \in Subjects, NEW f, IsMap(f, Numbers, Entry),
               t.subjects = [st.subjects EXCEPT ![s] = f]
        PROVE  /\ t.subjects = [x \in Subjects |-> t.subjects[x]]
               /\ \A x \in Subjects : IsMap(t.subjects[x], Numbers, Entry)
    BY <1>4 DEF StoreType
  <1>5. CASE HasSchema(r)
    <2> DEFINE e == [id |-> r.value.id, deleted |-> r.value.deleted]
    <2>1. /\ r.subject \in Subjects /\ r.version \in Numbers
          /\ r.value \in SchemaValues
          /\ t = apply_schema(st, r.subject, r.version, r.value)
          /\ SchemaEffect(st, t, r.subject, r.version, r.value)
      BY <1>1, <1>5, ApplyCases, Zenon
    <2>2. r.value.id \in Int /\ r.value.schema \in Schemas /\ e \in Entry
      BY <2>1 DEF SchemaValues
    <2>3. IsMap(t.byCanonical, Schemas, Int) /\ IsMap(t.canonicalById, Int, Schemas)
      BY <2>1, CanonicalFields
    <2>4. IsMap(t.byId, Int, Schemas)
      BY <2>1, <2>2, MapFacts DEF StoreType, SchemaEffect
    <2>5. IsMap(Put(st.subjects[r.subject], r.version, e), Numbers, Entry)
      BY <2>1, <2>2, MapFacts, Zenon DEF StoreType
    <2>6. /\ t.subjects = [x \in Subjects |-> t.subjects[x]]
          /\ \A x \in Subjects : IsMap(t.subjects[x], Numbers, Entry)
      BY <1>4, <2>1, <2>5, Zenon DEF SchemaEffect
    <2>7. t.nextVersions \in [Subjects -> Numbers]
      BY <1>2, <1>3, <2>1, Zenon DEF SchemaEffect
    <2>8. t.maxId \in Int
      <3>1. st.maxId \in Int /\ t.maxId = Larger(st.maxId, r.value.id)
        BY <2>1, Zenon DEF SchemaEffect, StoreType
      <3> QED  BY <2>2, <3>1 DEF Larger
    <2> QED  BY <2>1, <2>3, <2>4, <2>6, <2>7, <2>8, Zenon DEF StoreType, SchemaEffect
  <1>6. CASE IsTombstone(r)
    <2>1. /\ r.subject \in Subjects /\ r.version \in Numbers
          /\ TombstoneEffect(st, t, r.subject, r.version)
      BY <1>1, <1>6, ApplyCases, Zenon
    <2>2. IsMap(Drop(st.subjects[r.subject], {r.version}), Numbers, Entry)
      BY <2>1, MapFacts, Zenon DEF StoreType
    <2>3. /\ t.subjects = [x \in Subjects |-> t.subjects[x]]
          /\ \A x \in Subjects : IsMap(t.subjects[x], Numbers, Entry)
      BY <1>4, <2>1, <2>2, Zenon DEF TombstoneEffect
    <2>4. t.nextVersions \in [Subjects -> Numbers]
      BY <1>2, <1>3, <2>1, Zenon DEF TombstoneEffect
    <2> QED  BY <2>1, <2>3, <2>4, Zenon DEF StoreType, TombstoneEffect, KeepsIds
  <1>7. CASE r.type = "DELETE_SUBJECT"
    <2> DEFINE f == [w \in DOMAIN st.subjects[r.subject] |->
                       [id |-> st.subjects[r.subject][w].id, deleted |-> TRUE]]
    <2>1. r.subject \in Subjects /\ MarkerEffect(st, t, r.subject)
      BY <1>1, <1>7, ApplyCases, Zenon
    <2>2. IsMap(f, Numbers, Entry)
      BY <2>1, Zenon DEF StoreType, IsMap
    <2>3. t.subjects = [st.subjects EXCEPT ![r.subject] = f]
      BY <2>1, Zenon DEF MarkerEffect
    <2> HIDE DEF f
    <2>4. /\ t.subjects = [x \in Subjects |-> t.subjects[x]]
          /\ \A x \in Subjects : IsMap(t.subjects[x], Numbers, Entry)
      BY <1>4, <2>1, <2>2, <2>3, Zenon
    <2> QED  BY <2>1, <2>4, Zenon DEF StoreType, MarkerEffect, KeepsIds
  <1>8. CASE r.type = "NOOP"
    <2>1. /\ r.subject \in Subjects /\ r.value \in Numbers
          /\ HighWaterEffect(st, t, r.subject, r.value)
      BY <1>1, <1>8, ApplyCases, Zenon
    <2>2. t.nextVersions \in [Subjects -> Numbers]
      BY <1>3, <2>1, Zenon DEF HighWaterEffect
    <2> QED  BY <2>1, <2>2, Zenon DEF StoreType, HighWaterEffect, KeepsIds
  <1>9. CASE r.type = "MODE"
    <2>1. /\ r.subject \in Keys /\ r.value \in AllModes \cup {NoValue}
          /\ ModeEffect(st, t, r.subject, r.value)
      BY <1>1, <1>9, ApplyCases, Zenon
    <2>2. t.mode \in [Keys -> AllModes \cup {NoValue}]
      BY <2>1 DEF ModeEffect, StoreType
    <2> QED  BY <2>1, <2>2, Zenon DEF StoreType, ModeEffect, KeepsIds
  <1>10. CASE r.type = "CONFIG"
    <2>1. /\ r.subject \in Keys /\ r.value \in AllLevels \cup {NoValue}
          /\ ConfigEffect(st, t, r.subject, r.value)
      BY <1>1, <1>10, ApplyCases, Zenon
    <2>2. t.compat \in [Keys -> AllLevels \cup {NoValue}]
      BY <2>1 DEF ConfigEffect, StoreType
    <2> QED  BY <2>1, <2>2, Zenon DEF StoreType, ConfigEffect, KeepsIds
  <1> QED  BY <1>1, <1>5, <1>6, <1>7, <1>8, <1>9, <1>10, ApplyCases, Zenon

-------------------------------------------------------------------------------
(* One more record. *)

(* Which records are the latest of their key, and which are marked, when a *)
(* record follows.                                                         *)
LEMMA OneMore ==
    ASSUME NEW rs, NEW n \in Nat
    PROVE  /\ IsLatest(rs, n + 1, n + 1)
           /\ ~Marked(rs, n + 1, n + 1)
           /\ n + 1 \in 1..(n + 1)
           /\ \A i \in 1..n : i \in 1..(n + 1)
           /\ \A i \in 1..(n + 1) : i \in 1..n \/ i = n + 1
           /\ \A i \in 1..n : IsLatest(rs, n + 1, i) <=>
                 IsLatest(rs, n, i) /\ ~SameKey(rs[i], rs[n + 1])
           /\ \A i \in 1..n : Marked(rs, n + 1, i) <=>
                 \/ Marked(rs, n, i)
                 \/ /\ rs[n + 1].type = "DELETE_SUBJECT"
                    /\ rs[n + 1].subject = rs[i].subject
  BY DEF IsLatest, Marked

(* The versions and entries follow the records. *)
LEMMA EntriesStep ==
    ASSUME NEW st, StoreType(st), NEW rs, NEW n \in Nat,
           \A i \in 1..(n + 1) : rs[i] \in Records,
           EntriesFrom(st, rs, n), NEW t, t = apply_record(st, rs[n + 1])
    PROVE  EntriesFrom(t, rs, n + 1)
  <1> DEFINE r == rs[n + 1]
  <1>1. HasMaps(st) /\ r \in Records
    BY OneMore, Zenon DEF StoreType, HasMaps
  <1>2. \A i \in 1..n : /\ IsLatest(rs, n + 1, i) <=> IsLatest(rs, n, i) /\ ~SameKey(rs[i], r)
                        /\ HasSchema(rs[i]) => rs[i].subject \in Subjects
                        /\ i \in 1..(n + 1)
    BY OneMore, RecordFacts, Zenon DEF HasSchema
  <1> HIDE DEF r
  <1>3. CASE r.type = "SCHEMA"
    (* x has version v after the record, and it is not the record's.       *)
    <2> DEFINE Old(x, v) == ~(x = r.subject /\ v = r.version)
    <2>1. r.subject \in Subjects
      BY <1>1, <1>3, RecordFacts, Zenon
    <2>2. /\ \A x \in Subjects : \A v : Old(x, v) =>
                /\ v \in Versions(t, x) <=> v \in Versions(st, x)
                /\ v \in Versions(t, x) => t.subjects[x][v] = st.subjects[x][v]
          /\ r.version \in Versions(t, r.subject) <=> HasSchema(r)
          /\ HasSchema(r) => t.subjects[r.subject][r.version] =
                               [id |-> r.value.id, deleted |-> r.value.deleted]
      <3>1. CASE HasSchema(r)
        <4>1. SchemaEffect(st, t, r.subject, r.version, r.value)
          BY <1>1, <3>1, ApplyCases, Zenon DEF r
        <4> DEFINE f == st.subjects[r.subject]
                   e == [id |-> r.value.id, deleted |-> r.value.deleted]
        <4>2. /\ t.subjects = [st.subjects EXCEPT ![r.subject] = Put(f, r.version, e)]
              /\ st.subjects = [x \in Subjects |-> st.subjects[x]]
          BY <1>1, <4>1, Zenon DEF SchemaEffect, HasMaps
        <4>3. /\ DOMAIN Put(f, r.version, e) = DOMAIN f \cup {r.version}
              /\ Put(f, r.version, e)[r.version] = e
              /\ \A v \in DOMAIN f : v # r.version => Put(f, r.version, e)[v] = f[v]
          BY DEF Put
        <4> HIDE DEF e
        <4>4. /\ t.subjects[r.subject] = Put(f, r.version, e)
              /\ \A x \in Subjects : x # r.subject => t.subjects[x] = st.subjects[x]
          BY <2>1, <4>2
        <4>5. r.version \in Versions(t, r.subject) /\ t.subjects[r.subject][r.version] = e
          BY <4>3, <4>4, Zenon DEF Versions
        <4>6. ASSUME NEW x \in Subjects, NEW v, Old(x, v)
              PROVE  /\ v \in Versions(t, x) <=> v \in Versions(st, x)
                     /\ v \in Versions(t, x) => t.subjects[x][v] = st.subjects[x][v]
          BY <4>3, <4>4, <4>6, Zenon DEF Versions
        <4> QED  BY <3>1, <4>5, <4>6, Zenon DEF e
      <3>2. CASE IsTombstone(r)
        <4>1. TombstoneEffect(st, t, r.subject, r.version)
          BY <1>1, <3>2, ApplyCases, Zenon DEF r
        <4>2. ~HasSchema(r)
          BY <3>2, Zenon DEF HasSchema, IsTombstone
        <4> DEFINE f == st.subjects[r.subject]
        <4>3. /\ t.subjects = [st.subjects EXCEPT ![r.subject] = Drop(f, {r.version})]
              /\ st.subjects = [x \in Subjects |-> st.subjects[x]]
          BY <1>1, <4>1, Zenon DEF TombstoneEffect, HasMaps
        <4>4. /\ DOMAIN Drop(f, {r.version}) = DOMAIN f \ {r.version}
              /\ \A v \in DOMAIN f : v # r.version => Drop(f, {r.version})[v] = f[v]
          BY DEF Drop
        <4>5. /\ t.subjects[r.subject] = Drop(f, {r.version})
              /\ \A x \in Subjects : x # r.subject => t.subjects[x] = st.subjects[x]
          BY <2>1, <4>3
        <4>6. r.version \notin Versions(t, r.subject)
          BY <4>4, <4>5, Zenon DEF Versions
        <4>7. ASSUME NEW x \in Subjects, NEW v, Old(x, v)
              PROVE  /\ v \in Versions(t, x) <=> v \in Versions(st, x)
                     /\ v \in Versions(t, x) => t.subjects[x][v] = st.subjects[x][v]
          BY <4>4, <4>5, <4>7, Zenon DEF Versions
        <4> QED  BY <4>2, <4>6, <4>7, Zenon
      <3> QED  BY <1>3, <3>1, <3>2, Zenon DEF HasSchema, IsTombstone
    <2>3. ASSUME NEW x \in Subjects, NEW v \in Versions(t, x)
          PROVE  \E i \in 1..(n + 1) :
                    /\ IsLatest(rs, n + 1, i) /\ HasSchema(rs[i])
                    /\ rs[i].subject = x /\ rs[i].version = v
      <3>1. CASE ~Old(x, v)
        BY <2>2, <3>1, OneMore, Zenon DEF r
      <3>2. CASE Old(x, v)
        <4>1. v \in Versions(st, x)
          BY <2>2, <3>2, Zenon
        <4>2. PICK i \in 1..n : /\ IsLatest(rs, n, i) /\ HasSchema(rs[i])
                                /\ rs[i].subject = x /\ rs[i].version = v
          BY <4>1, Zenon DEF EntriesFrom
        <4>3. ~SameKey(rs[i], r)
          BY <3>2, <4>2, Zenon DEF SameKey
        <4> QED  BY <1>2, <4>2, <4>3, Zenon
      <3> QED  BY <3>1, <3>2, Zenon
    <2>4. ASSUME NEW i \in 1..(n + 1), IsLatest(rs, n + 1, i), HasSchema(rs[i])
          PROVE  /\ rs[i].version \in Versions(t, rs[i].subject)
                 /\ t.subjects[rs[i].subject][rs[i].version].id = rs[i].value.id
                 /\ t.subjects[rs[i].subject][rs[i].version].deleted
                      <=> (rs[i].value.deleted \/ Marked(rs, n + 1, i))
      <3>1. CASE i = n + 1
        <4>1. rs[i] = r /\ ~Marked(rs, n + 1, i)
          BY <3>1, OneMore, Zenon DEF r
        <4> QED  BY <2>2, <2>4, <4>1
      <3>2. CASE i \in 1..n
        <4>1. IsLatest(rs, n, i) /\ ~SameKey(rs[i], r) /\ rs[i].subject \in Subjects
          BY <1>2, <2>4, <3>2, Zenon
        <4>2. Old(rs[i].subject, rs[i].version)
          BY <1>3, <2>4, <4>1, Zenon DEF SameKey, HasSchema
        <4>3. /\ rs[i].version \in Versions(st, rs[i].subject)
              /\ st.subjects[rs[i].subject][rs[i].version].id = rs[i].value.id
              /\ st.subjects[rs[i].subject][rs[i].version].deleted
                   <=> (rs[i].value.deleted \/ Marked(rs, n, i))
          BY <2>4, <3>2, <4>1, Zenon DEF EntriesFrom
        <4>4. Marked(rs, n + 1, i) <=> Marked(rs, n, i)
          BY <1>3, <3>2, OneMore, Zenon DEF r
        <4> HIDE DEF Old
        <4> QED  BY <2>2, <4>1, <4>2, <4>3, <4>4, Zenon
      <3> QED  BY <3>1, <3>2, OneMore, Zenon
    <2> QED  BY <2>3, <2>4, Zenon DEF EntriesFrom
  <1>4. CASE r.type # "SCHEMA"
    <2>1. /\ \A x \in Subjects : Versions(t, x) = Versions(st, x)
          /\ \A x \in Subjects : \A v \in Versions(st, x) :
                /\ t.subjects[x][v].id = st.subjects[x][v].id
                /\ t.subjects[x][v].deleted <=>
                      \/ st.subjects[x][v].deleted
                      \/ r.type = "DELETE_SUBJECT" /\ r.subject = x
      <3>1. CASE r.type = "DELETE_SUBJECT"
        <4>1. r.subject \in Subjects /\ MarkerEffect(st, t, r.subject)
          BY <1>1, <3>1, ApplyCases, Zenon DEF r
        <4> DEFINE f == [w \in DOMAIN st.subjects[r.subject] |->
                           [id |-> st.subjects[r.subject][w].id, deleted |-> TRUE]]
        <4>2. t.subjects = [st.subjects EXCEPT ![r.subject] = f]
          BY <4>1, Zenon DEF MarkerEffect
        <4>3. /\ DOMAIN f = Versions(st, r.subject)
              /\ \A v \in Versions(st, r.subject) :
                    /\ f[v].id = st.subjects[r.subject][v].id
                    /\ f[v].deleted
          BY DEF Versions
        <4> HIDE DEF f
        <4>4. /\ t.subjects[r.subject] = f
              /\ \A x \in Subjects : x # r.subject => t.subjects[x] = st.subjects[x]
          BY <1>1, <4>1, <4>2 DEF HasMaps
        <4> QED  BY <3>1, <4>3, <4>4, Zenon DEF Versions
      <3>2. CASE r.type # "DELETE_SUBJECT"
        <4>1. \/ HighWaterEffect(st, t, r.subject, r.value)
              \/ ModeEffect(st, t, r.subject, r.value)
              \/ ConfigEffect(st, t, r.subject, r.value)
          <5>1. r.type = "NOOP" \/ r.type = "MODE" \/ r.type = "CONFIG"
            BY <1>1, <1>4, <3>2, RecordFacts, Zenon DEF HasSchema, IsTombstone
          <5> QED  BY <1>1, <5>1, ApplyCases, Zenon DEF r
        <4>2. t.subjects = st.subjects
          BY <4>1, Zenon DEF HighWaterEffect, ModeEffect, ConfigEffect
        <4> QED  BY <3>2, <4>2, Zenon DEF Versions
      <3> QED  BY <3>1, <3>2, Zenon
    <2>2. \A i \in 1..n : HasSchema(rs[i]) => ~SameKey(rs[i], r)
      BY <1>4, Zenon DEF SameKey, HasSchema
    <2>3. ASSUME NEW x \in Subjects, NEW v \in Versions(t, x)
          PROVE  \E i \in 1..(n + 1) :
                    /\ IsLatest(rs, n + 1, i) /\ HasSchema(rs[i])
                    /\ rs[i].subject = x /\ rs[i].version = v
      <3>1. PICK i \in 1..n : /\ IsLatest(rs, n, i) /\ HasSchema(rs[i])
                              /\ rs[i].subject = x /\ rs[i].version = v
        BY <2>1, Zenon DEF EntriesFrom
      <3> QED  BY <1>2, <2>2, <3>1, Zenon
    <2>4. ASSUME NEW i \in 1..(n + 1), IsLatest(rs, n + 1, i), HasSchema(rs[i])
          PROVE  /\ rs[i].version \in Versions(t, rs[i].subject)
                 /\ t.subjects[rs[i].subject][rs[i].version].id = rs[i].value.id
                 /\ t.subjects[rs[i].subject][rs[i].version].deleted
                      <=> (rs[i].value.deleted \/ Marked(rs, n + 1, i))
      <3>1. i \in 1..n
        BY <1>4, <2>4, OneMore, Zenon DEF HasSchema, r
      <3>2. /\ rs[i].subject \in Subjects
            /\ rs[i].version \in Versions(st, rs[i].subject)
            /\ st.subjects[rs[i].subject][rs[i].version].id = rs[i].value.id
            /\ st.subjects[rs[i].subject][rs[i].version].deleted
                 <=> (rs[i].value.deleted \/ Marked(rs, n, i))
        BY <1>2, <2>4, <3>1, Zenon DEF EntriesFrom
      <3>3. Marked(rs, n + 1, i) <=>
              Marked(rs, n, i) \/ (r.type = "DELETE_SUBJECT" /\ r.subject = rs[i].subject)
        BY <3>1, OneMore, Zenon DEF r
      <3> QED  BY <2>1, <3>2, <3>3, Zenon
    <2> QED  BY <2>3, <2>4, Zenon DEF EntriesFrom
  <1> QED  BY <1>3, <1>4, Zenon

(* Next versions, levels and modes after a record. *)
NextAfter(f, g, r) ==
    \A s \in Subjects :
        g[s] = IF Asks(r, s) THEN Larger(f[s], AsksFor(r)) ELSE f[s]
SettingAfter(f, g, type, r) ==
    \A k \in Keys : g[k] = IF r.type = type /\ r.subject = k THEN r.value ELSE f[k]

(* A record changes the next version, the level and the mode of no subject *)
(* but its own.                                                            *)
LEMMA SettingsAfter ==
    ASSUME NEW st, StoreType(st), NEW r \in Records, NEW t, t = apply_record(st, r)
    PROVE  /\ NextAfter(st.nextVersions, t.nextVersions, r)
           /\ SettingAfter(st.compat, t.compat, "CONFIG", r)
           /\ SettingAfter(st.mode, t.mode, "MODE", r)
  <1> USE DEF NextAfter, SettingAfter
  <1>1. HasMaps(st)
    BY Zenon DEF StoreType, HasMaps
  <1>2. /\ DOMAIN st.nextVersions = Subjects
        /\ DOMAIN st.compat = Keys /\ DOMAIN st.mode = Keys
    BY DEF StoreType
  <1>3. CASE r.type = "SCHEMA"
    <2>1. /\ t.nextVersions = [st.nextVersions EXCEPT ![r.subject] = Larger(@, After(r.version))]
          /\ t.compat = st.compat /\ t.mode = st.mode
      <3>1. CASE HasSchema(r)
        <4>1. SchemaEffect(st, t, r.subject, r.version, r.value)
          BY <1>1, <3>1, ApplyCases, Zenon
        <4> QED  BY <4>1, Zenon DEF SchemaEffect
      <3>2. CASE IsTombstone(r)
        <4>1. TombstoneEffect(st, t, r.subject, r.version)
          BY <1>1, <3>2, ApplyCases, Zenon
        <4> QED  BY <4>1, Zenon DEF TombstoneEffect
      <3> QED  BY <1>3, <3>1, <3>2, Zenon DEF HasSchema, IsTombstone
    <2> QED  BY <1>2, <1>3, <2>1 DEF Asks, AsksFor
  <1>4. CASE r.type = "DELETE_SUBJECT"
    <2>1. MarkerEffect(st, t, r.subject)
      BY <1>1, <1>4, ApplyCases, Zenon
    <2> QED  BY <1>4, <2>1 DEF MarkerEffect, Asks
  <1>5. CASE r.type = "NOOP"
    <2>1. HighWaterEffect(st, t, r.subject, r.value)
      BY <1>1, <1>5, ApplyCases, Zenon
    <2> QED  BY <1>2, <1>5, <2>1 DEF HighWaterEffect, Asks, AsksFor
  <1>6. CASE r.type = "MODE"
    <2>1. ModeEffect(st, t, r.subject, r.value)
      BY <1>1, <1>6, ApplyCases, Zenon
    <2> QED  BY <1>2, <1>6, <2>1 DEF ModeEffect, Asks
  <1>7. CASE r.type = "CONFIG"
    <2>1. ConfigEffect(st, t, r.subject, r.value)
      BY <1>1, <1>7, ApplyCases, Zenon
    <2> QED  BY <1>2, <1>7, <2>1 DEF ConfigEffect, Asks
  <1> QED  BY <1>3, <1>4, <1>5, <1>6, <1>7, RecordFacts, Zenon DEF HasSchema, IsTombstone

(* The next version a record asks for is a version number. *)
LEMMA AsksForNumber ==
    ASSUME NEW r \in Records, NEW s, Asks(r, s)
    PROVE  AsksFor(r) \in Numbers
  <1>1. CASE r.type = "NOOP"
    BY <1>1, RecordFacts DEF AsksFor
  <1>2. CASE r.type = "SCHEMA"
    <2>1. r.version \in Numbers
      BY <1>2, RecordFacts, Zenon
    <2> QED  BY <1>2, <2>1, StoreAssumption DEF AsksFor, After, Numbers
  <1> QED  BY <1>1, <1>2 DEF Asks

(* The next versions follow the records. *)
LEMMA NextStep ==
    ASSUME NEW st, StoreType(st), NEW rs, NEW n \in Nat,
           \A i \in 1..(n + 1) : rs[i] \in Records,
           NextFrom(st, rs, n), NEW t, t = apply_record(st, rs[n + 1])
    PROVE  NextFrom(t, rs, n + 1)
  <1> DEFINE r == rs[n + 1]
  <1>1. r \in Records
    BY OneMore, Zenon
  <1>2. \A s \in Subjects : t.nextVersions[s] =
           IF Asks(r, s) THEN Larger(st.nextVersions[s], AsksFor(r))
           ELSE st.nextVersions[s]
    <2>1. NextAfter(st.nextVersions, t.nextVersions, r)
      BY <1>1, SettingsAfter, Zenon
    <2> QED  BY <2>1, Zenon DEF NextAfter
  <1> HIDE DEF r
  <1> SUFFICES ASSUME NEW s \in Subjects
               PROVE  /\ \A i \in 1..(n + 1) :
                            Asks(rs[i], s) => AsksFor(rs[i]) <= t.nextVersions[s]
                      /\ \/ t.nextVersions[s] = 1
                         \/ \E i \in 1..(n + 1) : /\ Asks(rs[i], s)
                                                  /\ AsksFor(rs[i]) = t.nextVersions[s]
    BY Zenon DEF NextFrom
  <1>3. /\ \A i \in 1..n : Asks(rs[i], s) => AsksFor(rs[i]) <= st.nextVersions[s]
        /\ \/ st.nextVersions[s] = 1
           \/ \E i \in 1..n : Asks(rs[i], s) /\ AsksFor(rs[i]) = st.nextVersions[s]
    BY Zenon DEF NextFrom
  <1>4. /\ \A i \in 1..(n + 1) : Asks(rs[i], s) => AsksFor(rs[i]) \in Int
        /\ st.nextVersions[s] \in Int
    <2>1. \A i \in 1..(n + 1) : Asks(rs[i], s) => AsksFor(rs[i]) \in Numbers
      BY AsksForNumber, Zenon
    <2> QED  BY <2>1, StoreAssumption DEF StoreType, Numbers
  <1>5. CASE Asks(r, s)
    <2>1. /\ t.nextVersions[s] = st.nextVersions[s] \/ t.nextVersions[s] = AsksFor(r)
          /\ st.nextVersions[s] <= t.nextVersions[s] /\ AsksFor(r) <= t.nextVersions[s]
          /\ t.nextVersions[s] \in Int
      BY <1>2, <1>4, <1>5, OneMore DEF Larger, r
    <2>2. \A i \in 1..n : Asks(rs[i], s) => AsksFor(rs[i]) <= t.nextVersions[s]
      BY <1>3, <1>4, <2>1, OneMore
    <2> QED  BY <1>3, <1>5, <2>1, <2>2, OneMore, Zenon DEF r
  <1>6. CASE ~Asks(r, s)
    BY <1>2, <1>3, <1>6, OneMore, Zenon DEF r
  <1> QED  BY <1>5, <1>6, Zenon

(* A level or a mode follows the records of its kind. *)
LEMMA SettingStep ==
    ASSUME NEW rs, NEW n \in Nat, NEW type, NEW f, NEW g, SettingsFrom(f, type, rs, n),
           \A i \in 1..(n + 1) : rs[i].type = type =>
               rs[i].subject \in Keys /\ rs[i].version = 0,
           SettingAfter(f, g, type, rs[n + 1])
    PROVE  SettingsFrom(g, type, rs, n + 1)
  <1> DEFINE r == rs[n + 1]
  <1> USE DEF SettingAfter
  <1>1. ASSUME NEW i \in 1..(n + 1), IsLatest(rs, n + 1, i), rs[i].type = type
        PROVE  g[rs[i].subject] = rs[i].value
    <2>1. CASE i = n + 1
      BY <1>1, <2>1, Zenon
    <2>2. CASE i \in 1..n
      <3>1. IsLatest(rs, n, i) /\ ~SameKey(rs[i], r)
        BY <1>1, <2>2, OneMore, Zenon
      <3>2. ~(r.type = type /\ r.subject = rs[i].subject)
        BY <1>1, <3>1, OneMore, Zenon DEF SameKey
      <3> QED  BY <1>1, <2>2, <3>1, <3>2, Zenon DEF SettingsFrom
    <2> QED  BY <2>1, <2>2, OneMore, Zenon
  <1>2. ASSUME NEW k \in Keys, g[k] # NoValue
        PROVE  \E i \in 1..(n + 1) : /\ IsLatest(rs, n + 1, i)
                                     /\ rs[i].type = type /\ rs[i].subject = k
    <2>1. CASE r.type = type /\ r.subject = k
      BY <2>1, OneMore, Zenon
    <2>2. CASE ~(r.type = type /\ r.subject = k)
      <3>1. f[k] # NoValue
        BY <1>2, <2>2, Zenon
      <3>2. PICK i \in 1..n : IsLatest(rs, n, i) /\ rs[i].type = type /\ rs[i].subject = k
        BY <3>1, Zenon DEF SettingsFrom
      <3>3. ~SameKey(rs[i], r)
        BY <2>2, <3>2, Zenon DEF SameKey
      <3> QED  BY <3>2, <3>3, OneMore, Zenon
    <2> QED  BY <2>1, <2>2, Zenon
  <1> QED  BY <1>1, <1>2, Zenon DEF SettingsFrom

(* A store stays faithful to the records it folds. *)
LEMMA FaithfulStep ==
    ASSUME NEW st, StoreType(st), NEW rs, NEW n \in Nat,
           \A i \in 1..(n + 1) : rs[i] \in Records,
           Faithful(st, rs, n), NEW t, t = apply_record(st, rs[n + 1])
    PROVE  Faithful(t, rs, n + 1)
  <1>1. EntriesFrom(t, rs, n + 1)
    BY EntriesStep, Zenon DEF Faithful
  <1>2. NextFrom(t, rs, n + 1)
    BY NextStep, Zenon DEF Faithful
  <1>3. /\ \A i \in 1..(n + 1) : rs[i].type = "CONFIG" =>
              rs[i].subject \in Keys /\ rs[i].version = 0
        /\ \A i \in 1..(n + 1) : rs[i].type = "MODE" =>
              rs[i].subject \in Keys /\ rs[i].version = 0
    BY RecordFacts, Zenon
  <1>4. /\ SettingAfter(st.compat, t.compat, "CONFIG", rs[n + 1])
        /\ SettingAfter(st.mode, t.mode, "MODE", rs[n + 1])
    <2>1. rs[n + 1] \in Records
      BY OneMore, Zenon
    <2> QED  BY <2>1, SettingsAfter, Zenon
  <1>5. SettingsFrom(t.compat, "CONFIG", rs, n + 1)
    BY <1>3, <1>4, SettingStep, Zenon DEF Faithful
  <1>6. SettingsFrom(t.mode, "MODE", rs, n + 1)
    BY <1>3, <1>4, SettingStep, Zenon DEF Faithful
  <1> QED  BY <1>1, <1>2, <1>5, <1>6, Zenon DEF Faithful

-------------------------------------------------------------------------------
(* The ids after one more record, which does not bind an id anew. *)

Rebinds(st, r) ==
    /\ HasSchema(r)
    /\ r.value.id \in DOMAIN st.byId
    /\ st.byId[r.value.id] # r.value.schema

(* Such a record leaves the ids a store binds those that the log binds,    *)
(* with max_id above them.                                                 *)
LEMMA BindsStep ==
    ASSUME NEW st, StoreType(st), NEW rs, NEW n \in Nat,
           \A i \in 1..(n + 1) : rs[i] \in Records, ~Rebinds(st, rs[n + 1]),
           BindsAll(st, rs, n), IdsBelow(st), CanonicalSound(st),
           NEW t, t = apply_record(st, rs[n + 1])
    PROVE  /\ BindsAll(t, rs, n + 1) /\ IdsBelow(t) /\ CanonicalSound(t)
           /\ BindsOnly(st, rs, n) => BindsOnly(t, rs, n + 1)
           /\ (CanonicalFinds(st, rs, n) /\ OneIdPerSchema(rs, n + 1)) =>
                CanonicalFinds(t, rs, n + 1)
           /\ \A id \in DOMAIN st.byId : id \in DOMAIN t.byId /\ t.byId[id] = st.byId[id]
  <1> DEFINE r == rs[n + 1]
  <1>1. HasMaps(st) /\ r \in Records
    BY OneMore, Zenon DEF StoreType, HasMaps
  <1> HIDE DEF r
  <1>2. CASE HasSchema(r)
    <2> DEFINE id == r.value.id
               k  == r.value.schema
    <2>1. /\ r.subject \in Subjects /\ r.value \in SchemaValues
          /\ t = apply_schema(st, r.subject, r.version, r.value)
          /\ SchemaEffect(st, t, r.subject, r.version, r.value)
      BY <1>1, <1>2, ApplyCases, Zenon DEF r
    <2>2. /\ DOMAIN t.byId = DOMAIN st.byId \cup {id}
          /\ t.byId[id] = k
          /\ \A x \in DOMAIN st.byId : t.byId[x] = st.byId[x]
          /\ t.maxId = Larger(st.maxId, id)
      BY <1>2, <2>1, Zenon DEF SchemaEffect, Put, Rebinds, r
    <2>3. /\ \A x \in DOMAIN t.byCanonical :
                \/ x = k /\ t.byCanonical[x] = id
                \/ x \in DOMAIN st.byCanonical /\ t.byCanonical[x] = st.byCanonical[x]
          /\ \A x \in DOMAIN st.byCanonical :
                (st.byCanonical[x] # id /\ x # k) =>
                x \in DOMAIN t.byCanonical /\ t.byCanonical[x] = st.byCanonical[x]
          /\ Refs[k] = {} => k \in DOMAIN t.byCanonical /\ t.byCanonical[k] = id
      BY <2>1, CanonicalFields
    <2>4. BindsAll(t, rs, n + 1)
      <3>1. \A i \in 1..n : HasSchema(rs[i]) =>
               /\ rs[i].value.id \in DOMAIN t.byId
               /\ t.byId[rs[i].value.id] = rs[i].value.schema
        BY <2>2, Zenon DEF BindsAll
      <3>2. r.value.id \in DOMAIN t.byId /\ t.byId[r.value.id] = r.value.schema
        BY <2>2, Zenon
      <3> QED  BY <3>1, <3>2, OneMore, Zenon DEF BindsAll, r
    <2>5. IdsBelow(t)
      <3>1. id \in Int /\ st.maxId \in Int /\ DOMAIN st.byId \subseteq Int
        BY <2>1 DEF SchemaValues, StoreType, IsMap
      <3> QED  BY <2>2, <3>1 DEF IdsBelow, Larger
    <2>6. CanonicalSound(t)
      <3> SUFFICES ASSUME NEW x \in DOMAIN t.byCanonical
                   PROVE  /\ t.byCanonical[x] \in DOMAIN t.byId
                          /\ t.byId[t.byCanonical[x]] = x
        BY Zenon DEF CanonicalSound
      <3>1. CASE x = k /\ t.byCanonical[x] = id
        BY <2>2, <3>1, Zenon
      <3>2. CASE x \in DOMAIN st.byCanonical /\ t.byCanonical[x] = st.byCanonical[x]
        BY <2>2, <3>2, Zenon DEF CanonicalSound
      <3> QED  BY <2>3, <3>1, <3>2, Zenon
    <2>7. BindsOnly(st, rs, n) => BindsOnly(t, rs, n + 1)
      <3> SUFFICES ASSUME BindsOnly(st, rs, n), NEW x \in DOMAIN t.byId
                   PROVE  \E i \in 1..(n + 1) : /\ HasSchema(rs[i])
                                               /\ rs[i].value.id = x
                                               /\ rs[i].value.schema = t.byId[x]
        BY Zenon DEF BindsOnly
      <3>1. CASE x = id
        <4>1. /\ n + 1 \in 1..(n + 1) /\ HasSchema(rs[n + 1])
              /\ rs[n + 1].value.id = x /\ rs[n + 1].value.schema = t.byId[x]
          BY <1>2, <2>2, <3>1, OneMore, Zenon DEF r
        <4> QED  BY <4>1, Zenon
      <3>2. CASE x \in DOMAIN st.byId
        <4>1. PICK i \in 1..n : /\ HasSchema(rs[i]) /\ rs[i].value.id = x
                                /\ rs[i].value.schema = st.byId[x]
          BY <3>2, Zenon DEF BindsOnly
        <4>2. i \in 1..(n + 1) /\ t.byId[x] = st.byId[x]
          BY <2>2, <3>2, OneMore, Zenon
        <4> QED  BY <4>1, <4>2, Zenon
      <3> QED  BY <2>2, <3>1, <3>2, Zenon
    <2>8. ASSUME CanonicalFinds(st, rs, n), OneIdPerSchema(rs, n + 1)
          PROVE  CanonicalFinds(t, rs, n + 1)
      <3> SUFFICES ASSUME NEW i \in 1..(n + 1), HasSchema(rs[i]), Refs[rs[i].value.schema] = {}
                   PROVE  /\ rs[i].value.schema \in DOMAIN t.byCanonical
                          /\ t.byCanonical[rs[i].value.schema] = rs[i].value.id
        BY Zenon DEF CanonicalFinds
      <3>1. CASE rs[i].value.schema = k
        <4>1. rs[i].value.id = id
          BY <1>2, <2>8, <3>1, OneMore, Zenon DEF OneIdPerSchema, r
        <4> QED  BY <2>3, <3>1, <4>1, Zenon
      <3>2. CASE rs[i].value.schema # k
        <4>1. i \in 1..n
          BY <3>2, OneMore, Zenon DEF r
        <4>2. /\ rs[i].value.schema \in DOMAIN st.byCanonical
              /\ st.byCanonical[rs[i].value.schema] = rs[i].value.id
          BY <2>8, <4>1, Zenon DEF CanonicalFinds
        <4>3. st.byCanonical[rs[i].value.schema] # id
          <5>1. /\ st.byCanonical[rs[i].value.schema] \in DOMAIN st.byId
                /\ st.byId[st.byCanonical[rs[i].value.schema]] = rs[i].value.schema
            BY <4>2, Zenon DEF CanonicalSound
          <5> QED  BY <2>2, <3>2, <5>1, Zenon
        <4> QED  BY <2>3, <3>2, <4>2, <4>3, Zenon
      <3> QED  BY <3>1, <3>2, Zenon
    <2> QED  BY <2>2, <2>4, <2>5, <2>6, <2>7, <2>8, Zenon
  <1>3. CASE ~HasSchema(r)
    <2>1. KeepsIds(st, t)
      <3>1. CASE IsTombstone(r)
        BY <1>1, <3>1, ApplyCases, Zenon DEF r, TombstoneEffect
      <3>2. CASE r.type = "DELETE_SUBJECT"
        BY <1>1, <3>2, ApplyCases, Zenon DEF r, MarkerEffect
      <3>3. CASE r.type = "NOOP"
        BY <1>1, <3>3, ApplyCases, Zenon DEF r, HighWaterEffect
      <3>4. CASE r.type = "MODE"
        BY <1>1, <3>4, ApplyCases, Zenon DEF r, ModeEffect
      <3>5. CASE r.type = "CONFIG"
        BY <1>1, <3>5, ApplyCases, Zenon DEF r, ConfigEffect
      <3> QED  BY <1>1, <1>3, <3>1, <3>2, <3>3, <3>4, <3>5, RecordFacts, Zenon
    <2>2. BindsAll(t, rs, n + 1) /\ IdsBelow(t) /\ CanonicalSound(t)
      <3>1. BindsAll(t, rs, n + 1)
        BY <1>3, <2>1, OneMore, Zenon DEF KeepsIds, BindsAll, r
      <3> QED  BY <2>1, <3>1, Zenon DEF KeepsIds, IdsBelow, CanonicalSound
    <2>3. BindsOnly(st, rs, n) => BindsOnly(t, rs, n + 1)
      <3> SUFFICES ASSUME BindsOnly(st, rs, n), NEW x \in DOMAIN t.byId
                   PROVE  \E i \in 1..(n + 1) : /\ HasSchema(rs[i])
                                               /\ rs[i].value.id = x
                                               /\ rs[i].value.schema = t.byId[x]
        BY Zenon DEF BindsOnly
      <3>1. x \in DOMAIN st.byId /\ t.byId[x] = st.byId[x]
        BY <2>1, Zenon DEF KeepsIds
      <3>2. PICK i \in 1..n : /\ HasSchema(rs[i]) /\ rs[i].value.id = x
                              /\ rs[i].value.schema = st.byId[x]
        BY <3>1, Zenon DEF BindsOnly
      <3> QED  BY <3>1, <3>2, OneMore, Zenon
    <2>4. CanonicalFinds(st, rs, n) => CanonicalFinds(t, rs, n + 1)
      BY <1>3, <2>1, OneMore, Zenon DEF KeepsIds, CanonicalFinds, r
    <2> QED  BY <2>1, <2>2, <2>3, <2>4, Zenon DEF KeepsIds
  <1> QED  BY <1>2, <1>3, Zenon

(* No id is forgotten. *)
LEMMA KnowsStep ==
    ASSUME NEW st, StoreType(st), NEW rs, NEW n \in Nat,
           \A i \in 1..(n + 1) : rs[i] \in Records,
           KnowsIds(st, rs, n), NEW t, t = apply_record(st, rs[n + 1])
    PROVE  KnowsIds(t, rs, n + 1)
  <1> DEFINE r == rs[n + 1]
  <1>1. HasMaps(st) /\ r \in Records
    BY OneMore, Zenon DEF StoreType, HasMaps
  <1> HIDE DEF r
  <1>2. CASE HasSchema(r)
    <2>1. SchemaEffect(st, t, r.subject, r.version, r.value)
      BY <1>1, <1>2, ApplyCases, Zenon DEF r
    <2>2. t.byId = Put(st.byId, r.value.id, r.value.schema)
      BY <2>1, Zenon DEF SchemaEffect
    <2>3. DOMAIN t.byId = DOMAIN st.byId \cup {r.value.id}
      BY <2>2 DEF Put
    <2> QED  BY <2>3, OneMore, Zenon DEF KnowsIds, r
  <1>3. CASE ~HasSchema(r)
    <2>1. KeepsIds(st, t)
      <3>1. \/ IsTombstone(r) /\ TombstoneEffect(st, t, r.subject, r.version)
            \/ MarkerEffect(st, t, r.subject)
            \/ HighWaterEffect(st, t, r.subject, r.value)
            \/ ModeEffect(st, t, r.subject, r.value)
            \/ ConfigEffect(st, t, r.subject, r.value)
        <4>1. \/ IsTombstone(r) \/ r.type = "DELETE_SUBJECT" \/ r.type = "NOOP"
              \/ r.type = "MODE" \/ r.type = "CONFIG"
          BY <1>1, <1>3, RecordFacts
        <4> QED  BY <1>1, <4>1, ApplyCases, Zenon DEF r
      <3> QED  BY <3>1, Zenon DEF TombstoneEffect, MarkerEffect, HighWaterEffect,
                                  ModeEffect, ConfigEffect
    <2>2. DOMAIN t.byId = DOMAIN st.byId
      BY <2>1, Zenon DEF KeepsIds
    <2> QED  BY <1>3, <2>2, OneMore, Zenon DEF KnowsIds, r
  <1> QED  BY <1>2, <1>3, Zenon

-------------------------------------------------------------------------------
(* Replay. *)

(* The empty store owes nothing to no record. *)
LEMMA DefaultsFaithful ==
    ASSUME NEW rs
    PROVE  /\ StoreType(with_defaults) /\ Faithful(with_defaults, rs, 0)
           /\ KnowsIds(with_defaults, rs, 0)
           /\ BindsAll(with_defaults, rs, 0) /\ BindsOnly(with_defaults, rs, 0)
           /\ IdsBelow(with_defaults) /\ CanonicalSound(with_defaults)
           /\ CanonicalFinds(with_defaults, rs, 0)
  <1> DEFINE t == with_defaults
  <1>1. /\ HasFields(t) /\ t.subjects = [s \in Subjects |-> EmptyMap]
        /\ t.byId = EmptyMap /\ t.byCanonical = EmptyMap /\ t.canonicalById = EmptyMap
        /\ t.compat = [s \in Keys |-> NoValue] /\ t.mode = [s \in Keys |-> NoValue]
        /\ t.maxId = 0 /\ t.nextVersions = [s \in Subjects |-> 1]
    BY DEF with_defaults, HasFields, Keys
  <1>2. DOMAIN EmptyMap = {} /\ \A K, V : IsMap(EmptyMap, K, V)
    BY DEF EmptyMap, IsMap
  <1>3. \A i : i \notin 1..0
    OBVIOUS
  <1> HIDE DEF t
  <1>4. StoreType(t)
    <2>1. 1 \in Numbers
      BY StoreAssumption DEF Numbers
    <2> QED  BY <1>1, <1>2, <2>1 DEF StoreType
  <1>5. \A s \in Subjects : Versions(t, s) = {}
    BY <1>1, <1>2 DEF Versions
  <1>6. EntriesFrom(t, rs, 0)
    BY <1>3, <1>5, Zenon DEF EntriesFrom
  <1>7. NextFrom(t, rs, 0)
    BY <1>1, <1>3, Zenon DEF NextFrom
  <1>8. SettingsFrom(t.compat, "CONFIG", rs, 0) /\ SettingsFrom(t.mode, "MODE", rs, 0)
    BY <1>1, <1>3, Zenon DEF SettingsFrom
  <1>9. Faithful(t, rs, 0)
    BY <1>6, <1>7, <1>8, Zenon DEF Faithful
  <1>10. /\ BindsAll(t, rs, 0) /\ BindsOnly(t, rs, 0)
         /\ IdsBelow(t) /\ CanonicalSound(t) /\ CanonicalFinds(t, rs, 0)
         /\ KnowsIds(t, rs, 0)
    BY <1>1, <1>2, <1>3, Zenon
       DEF KnowsIds, BindsAll, BindsOnly, IdsBelow, CanonicalSound, CanonicalFinds
  <1> QED  BY <1>4, <1>9, <1>10, Zenon DEF t

(* What holds of the store of a prefix. *)
PrefixGood(st, rs, n) ==
    /\ StoreType(st) /\ Faithful(st, rs, n) /\ KnowsIds(st, rs, n)
    /\ OneSchemaPerId(rs, Len(rs)) =>
          /\ BindsAll(st, rs, n) /\ BindsOnly(st, rs, n)
          /\ IdsBelow(st) /\ CanonicalSound(st)
          /\ OneIdPerSchema(rs, Len(rs)) => CanonicalFinds(st, rs, n)

(* One record more. *)
LEMMA PrefixStep ==
    ASSUME NEW rs, Len(rs) \in Nat, \A i \in 1..Len(rs) : rs[i] \in Records,
           NEW n \in Nat, n < Len(rs),
           NEW st, PrefixGood(st, rs, n), NEW t, t = apply_record(st, rs[n + 1])
    PROVE  PrefixGood(t, rs, n + 1)
  <1>1. \A i \in 1..(n + 1) : i \in 1..Len(rs)
    OBVIOUS
  <1>2. \A i \in 1..(n + 1) : rs[i] \in Records
    BY <1>1, Zenon
  <1>3. /\ StoreType(st) /\ Faithful(st, rs, n) /\ KnowsIds(st, rs, n)
        /\ rs[n + 1] \in Records
    BY <1>2, OneMore, Zenon DEF PrefixGood
  <1>4. StoreType(t)
    BY <1>3, StoreTypeStep, Zenon
  <1>5. Faithful(t, rs, n + 1)
    BY <1>2, <1>3, FaithfulStep, Zenon
  <1>7. KnowsIds(t, rs, n + 1)
    BY <1>2, <1>3, KnowsStep, Zenon
  <1>6. ASSUME OneSchemaPerId(rs, Len(rs))
        PROVE  /\ BindsAll(t, rs, n + 1) /\ BindsOnly(t, rs, n + 1)
               /\ IdsBelow(t) /\ CanonicalSound(t)
               /\ OneIdPerSchema(rs, Len(rs)) => CanonicalFinds(t, rs, n + 1)
    <2>1. /\ BindsAll(st, rs, n) /\ BindsOnly(st, rs, n)
          /\ IdsBelow(st) /\ CanonicalSound(st)
          /\ OneIdPerSchema(rs, Len(rs)) => CanonicalFinds(st, rs, n)
      BY <1>6, Zenon DEF PrefixGood
    <2>2. ~Rebinds(st, rs[n + 1])
      <3> SUFFICES ASSUME Rebinds(st, rs[n + 1]) PROVE FALSE
        OBVIOUS
      <3>1. /\ HasSchema(rs[n + 1]) /\ rs[n + 1].value.id \in DOMAIN st.byId
            /\ st.byId[rs[n + 1].value.id] # rs[n + 1].value.schema
        BY Zenon DEF Rebinds
      <3>2. PICK i \in 1..n : /\ HasSchema(rs[i]) /\ rs[i].value.id = rs[n + 1].value.id
                              /\ rs[i].value.schema = st.byId[rs[n + 1].value.id]
        BY <2>1, <3>1, Zenon DEF BindsOnly
      <3>3. i \in 1..Len(rs) /\ n + 1 \in 1..Len(rs)
        BY <1>1, OneMore, Zenon
      <3>4. rs[i].value.schema = rs[n + 1].value.schema
        BY <1>6, <3>1, <3>2, <3>3, Zenon DEF OneSchemaPerId
      <3> QED  BY <3>1, <3>2, <3>4, Zenon
    <2>3. OneIdPerSchema(rs, Len(rs)) => OneIdPerSchema(rs, n + 1)
      BY <1>1, Zenon DEF OneIdPerSchema
    <2> QED  BY <1>2, <1>3, <2>1, <2>2, <2>3, BindsStep, Zenon
  <1> QED  BY <1>4, <1>5, <1>6, <1>7, Zenon DEF PrefixGood

-------------------------------------------------------------------------------
(* What is owed determines what a store shows. *)

(* The record a version comes from. *)
EntryOf(st, rs, n, i, s, v) ==
    /\ IsLatest(rs, n, i) /\ HasSchema(rs[i])
    /\ rs[i].subject = s /\ rs[i].version = v
    /\ st.subjects[s][v].id = rs[i].value.id
    /\ st.subjects[s][v].deleted <=> (rs[i].value.deleted \/ Marked(rs, n, i))

(* There is one. *)
LEMMA EntryRecord ==
    ASSUME NEW st, NEW rs, NEW n, EntriesFrom(st, rs, n),
           NEW s \in Subjects, NEW v \in Versions(st, s)
    PROVE  \E i \in 1..n : EntryOf(st, rs, n, i, s, v)
  <1>1. PICK i \in 1..n : /\ IsLatest(rs, n, i) /\ HasSchema(rs[i])
                          /\ rs[i].subject = s /\ rs[i].version = v
    <2>1. \A x \in Subjects : \A w \in Versions(st, x) : \E i \in 1..n :
             /\ IsLatest(rs, n, i) /\ HasSchema(rs[i])
             /\ rs[i].subject = x /\ rs[i].version = w
      BY Zenon DEF EntriesFrom
    <2> QED  BY <2>1, Zenon
  <1>2. /\ st.subjects[s][v].id = rs[i].value.id
        /\ st.subjects[s][v].deleted <=> (rs[i].value.deleted \/ Marked(rs, n, i))
    BY <1>1, Zenon DEF EntriesFrom
  <1> QED  BY <1>1, <1>2, Zenon DEF EntryOf

(* A version of one store is in the other, with the same entry. *)
LEMMA SameEntry ==
    ASSUME NEW a, NEW b, NEW rs, NEW n, StoreType(a), StoreType(b),
           EntriesFrom(a, rs, n), EntriesFrom(b, rs, n),
           NEW s \in Subjects, NEW v \in Versions(a, s)
    PROVE  v \in Versions(b, s) /\ a.subjects[s][v] = b.subjects[s][v]
  <1>1. PICK i \in 1..n : EntryOf(a, rs, n, i, s, v)
    BY EntryRecord, Zenon
  <1>2. /\ v \in Versions(b, s)
        /\ a.subjects[s][v].id = rs[i].value.id /\ b.subjects[s][v].id = rs[i].value.id
        /\ a.subjects[s][v].deleted <=> (rs[i].value.deleted \/ Marked(rs, n, i))
        /\ b.subjects[s][v].deleted <=> (rs[i].value.deleted \/ Marked(rs, n, i))
    BY <1>1, Zenon DEF EntriesFrom, EntryOf
  <1>3. /\ a.subjects[s][v] \in [id : Int, deleted : BOOLEAN]
        /\ b.subjects[s][v] \in [id : Int, deleted : BOOLEAN]
    BY <1>2, Zenon DEF StoreType, IsMap, Versions
  <1>4. a.subjects[s][v].deleted <=> b.subjects[s][v].deleted
    BY <1>2, Zenon
  <1> QED  BY <1>2, <1>3, <1>4

(* One next version. *)
LEMMA SameNext ==
    ASSUME NEW a, NEW b, NEW rs, NEW n, StoreType(a), StoreType(b),
           NextFrom(a, rs, n), NextFrom(b, rs, n), NEW s \in Subjects
    PROVE  a.nextVersions[s] = b.nextVersions[s]
  <1>1. a.nextVersions[s] \in Numbers /\ b.nextVersions[s] \in Numbers
    BY DEF StoreType
  <1>2. /\ \A i \in 1..n : Asks(rs[i], s) => AsksFor(rs[i]) <= a.nextVersions[s]
        /\ \A i \in 1..n : Asks(rs[i], s) => AsksFor(rs[i]) <= b.nextVersions[s]
        /\ \/ a.nextVersions[s] = 1
           \/ \E i \in 1..n : Asks(rs[i], s) /\ AsksFor(rs[i]) = a.nextVersions[s]
        /\ \/ b.nextVersions[s] = 1
           \/ \E i \in 1..n : Asks(rs[i], s) /\ AsksFor(rs[i]) = b.nextVersions[s]
    BY Zenon DEF NextFrom
  <1>3. a.nextVersions[s] = 1 \/ a.nextVersions[s] <= b.nextVersions[s]
    BY <1>2, Zenon
  <1>4. b.nextVersions[s] = 1 \/ b.nextVersions[s] <= a.nextVersions[s]
    BY <1>2, Zenon
  <1> QED  BY <1>1, <1>3, <1>4, StoreAssumption DEF Numbers

(* One setting. *)
LEMMA SameSetting ==
    ASSUME NEW f, NEW g, NEW type, NEW rs, NEW n,
           SettingsFrom(f, type, rs, n), SettingsFrom(g, type, rs, n), NEW k \in Keys
    PROVE  f[k] = g[k]
  <1>1. CASE \E i \in 1..n : IsLatest(rs, n, i) /\ rs[i].type = type /\ rs[i].subject = k
    <2>1. PICK i \in 1..n : IsLatest(rs, n, i) /\ rs[i].type = type /\ rs[i].subject = k
      BY <1>1, Zenon
    <2>2. f[rs[i].subject] = rs[i].value /\ g[rs[i].subject] = rs[i].value
      BY <2>1, Zenon DEF SettingsFrom
    <2> QED  BY <2>1, <2>2, Zenon
  <1>2. CASE ~\E i \in 1..n : IsLatest(rs, n, i) /\ rs[i].type = type /\ rs[i].subject = k
    BY <1>2, Zenon DEF SettingsFrom
  <1> QED  BY <1>1, <1>2, Zenon

(* Two stores that owe the same agree on versions, next versions and       *)
(* settings, and on the schemas when both bind the ids as the log does.    *)
Agree(a, b) ==
    /\ a.subjects = b.subjects /\ a.nextVersions = b.nextVersions
    /\ a.compat = b.compat /\ a.mode = b.mode

(* What the log owes determines a store, but for max_id. *)
LEMMA Determined ==
    ASSUME NEW a, NEW b, NEW rs, NEW n, StoreType(a), StoreType(b),
           Faithful(a, rs, n), Faithful(b, rs, n)
    PROVE  /\ Agree(a, b)
           /\ (BindsAll(a, rs, n) /\ BindsAll(b, rs, n)) =>
                \A s \in Subjects : \A v \in Versions(a, s) :
                    SchemaOf(a, s, v) = SchemaOf(b, s, v)
  <1>1. /\ EntriesFrom(a, rs, n) /\ EntriesFrom(b, rs, n)
        /\ NextFrom(a, rs, n) /\ NextFrom(b, rs, n)
        /\ SettingsFrom(a.compat, "CONFIG", rs, n) /\ SettingsFrom(b.compat, "CONFIG", rs, n)
        /\ SettingsFrom(a.mode, "MODE", rs, n) /\ SettingsFrom(b.mode, "MODE", rs, n)
    BY Zenon DEF Faithful
  <1>2. ASSUME NEW s \in Subjects
        PROVE  a.subjects[s] = b.subjects[s]
    <2>1. ASSUME NEW v \in Versions(a, s)
          PROVE  v \in Versions(b, s) /\ a.subjects[s][v] = b.subjects[s][v]
      BY <1>1, SameEntry, Zenon
    <2>4. ASSUME NEW v \in Versions(b, s)
          PROVE  v \in Versions(a, s)
      BY <1>1, SameEntry, Zenon
    <2>2. /\ a.subjects[s] = [x \in DOMAIN a.subjects[s] |-> a.subjects[s][x]]
          /\ b.subjects[s] = [x \in DOMAIN b.subjects[s] |-> b.subjects[s][x]]
      BY Zenon DEF StoreType, IsMap
    <2>3. DOMAIN a.subjects[s] = DOMAIN b.subjects[s]
      BY <2>1, <2>4, Zenon DEF Versions
    <2> QED  BY <2>1, <2>2, <2>3 DEF Versions
  <1>3. a.subjects = b.subjects
    <2>1. /\ a.subjects = [s \in Subjects |-> a.subjects[s]]
          /\ b.subjects = [s \in Subjects |-> b.subjects[s]]
      BY Zenon DEF StoreType
    <2> QED  BY <1>2, <2>1
  <1>4. a.nextVersions = b.nextVersions
    <2>1. \A s \in Subjects : a.nextVersions[s] = b.nextVersions[s]
      BY <1>1, SameNext, Zenon
    <2>2. a.nextVersions \in [Subjects -> Numbers] /\ b.nextVersions \in [Subjects -> Numbers]
      BY Zenon DEF StoreType
    <2> QED  BY <2>1, <2>2
  <1>5. a.compat = b.compat /\ a.mode = b.mode
    <2>1. \A k \in Keys : a.compat[k] = b.compat[k]
      BY <1>1, SameSetting, Zenon
    <2>2. \A k \in Keys : a.mode[k] = b.mode[k]
      BY <1>1, SameSetting, Zenon
    <2>3. /\ a.compat \in [Keys -> AllLevels \cup {NoValue}]
          /\ b.compat \in [Keys -> AllLevels \cup {NoValue}]
          /\ a.mode \in [Keys -> AllModes \cup {NoValue}]
          /\ b.mode \in [Keys -> AllModes \cup {NoValue}]
      BY Zenon DEF StoreType
    <2> QED  BY <2>1, <2>2, <2>3
  <1>6. ASSUME BindsAll(a, rs, n), BindsAll(b, rs, n),
               NEW s \in Subjects, NEW v \in Versions(a, s)
        PROVE  SchemaOf(a, s, v) = SchemaOf(b, s, v)
    <2>1. PICK i \in 1..n : EntryOf(a, rs, n, i, s, v)
      BY <1>1, EntryRecord, Zenon
    <2>2. HasSchema(rs[i]) /\ a.subjects[s][v].id = rs[i].value.id
      BY <2>1, Zenon DEF EntryOf
    <2>4. b.subjects[s][v].id = rs[i].value.id
      BY <1>3, <2>2, Zenon
    <2>3. /\ a.byId[rs[i].value.id] = rs[i].value.schema
          /\ b.byId[rs[i].value.id] = rs[i].value.schema
      BY <1>6, <2>2, Zenon DEF BindsAll
    <2> QED  BY <2>2, <2>3, <2>4, Zenon DEF SchemaOf
  <1> QED  BY <1>3, <1>4, <1>5, <1>6, Zenon DEF Agree

-------------------------------------------------------------------------------
(* The log cleaner. *)

(* The place in rs of record i of rs without record k. *)
Place(k, i) == IF i < k THEN i ELSE i + 1

(* q is rs without record k. *)
Without(q, rs, k) ==
    /\ Len(q) \in Nat /\ Len(rs) = Len(q) + 1 /\ k \in 1..Len(rs)
    /\ \A i \in 1..Len(q) : q[i] = rs[Place(k, i)]

(* What the log cleaner leaves is the log without one record. *)
LEMMA RemoveWithout ==
    ASSUME NEW S, NEW rs \in Seq(S), NEW k \in 1..Len(rs)
    PROVE  /\ SubSeq(rs, 1, k - 1) \o SubSeq(rs, k + 1, Len(rs)) \in Seq(S)
           /\ Without(SubSeq(rs, 1, k - 1) \o SubSeq(rs, k + 1, Len(rs)), rs, k)
  <1> DEFINE a == SubSeq(rs, 1, k - 1)
             b == SubSeq(rs, k + 1, Len(rs))
  <1>1. /\ a \in Seq(S) /\ Len(a) = k - 1
        /\ \A i \in 1..(k - 1) : a[i] = rs[i]
    OBVIOUS
  <1>2. /\ b \in Seq(S) /\ Len(b) = Len(rs) - k
        /\ \A i \in 1..(Len(rs) - k) : b[i] = rs[k + i]
    <2>1. /\ k + 1 \in 1..(Len(rs) + 1)
          /\ Len(rs) \in Nat
      OBVIOUS
    <2>2. b \in Seq(S)
      BY <2>1
    <2>3. Len(b) = Len(rs) - k
      BY <2>1
    <2>4. ASSUME NEW i \in 1..(Len(rs) - k) PROVE b[i] = rs[k + i]
      <3>1. b[i] = rs[(k + 1) + i - 1]
        BY <2>1
      <3> QED  BY <3>1
    <2> QED  BY <2>2, <2>3, <2>4
  <1>3. SubSeq(rs, 1, k - 1) \o SubSeq(rs, k + 1, Len(rs)) = a \o b
    OBVIOUS
  <1> HIDE DEF a, b
  <1>4. /\ a \o b \in Seq(S) /\ Len(a \o b) = Len(rs) - 1
        /\ \A i \in 1..(Len(rs) - 1) :
              (a \o b)[i] = IF i <= k - 1 THEN a[i] ELSE b[i - (k - 1)]
    <2>1. a \in Seq(S) /\ b \in Seq(S) /\ Len(a) = k - 1 /\ Len(b) = Len(rs) - k
      BY <1>1, <1>2
    <2>2. Len(rs) \in Nat /\ k \in 1..Len(rs)
      OBVIOUS
    <2>3. a \o b \in Seq(S) /\ Len(a \o b) = Len(a) + Len(b)
      BY <2>1
    <2>4. \A i \in 1..(Len(a) + Len(b)) :
             (a \o b)[i] = IF i <= Len(a) THEN a[i] ELSE b[i - Len(a)]
      BY <2>1
    <2>5. (k - 1) + (Len(rs) - k) = Len(rs) - 1
      BY <2>2
    <2>6. Len(a \o b) = Len(rs) - 1
      BY <2>1, <2>2, <2>3
    <2>7. ASSUME NEW i \in 1..(Len(rs) - 1)
          PROVE  (a \o b)[i] = IF i <= k - 1 THEN a[i] ELSE b[i - (k - 1)]
      BY <2>1, <2>2, <2>4, <2>5, <2>7
    <2> QED  BY <2>3, <2>6, <2>7, Zenon
  <1>5. ASSUME NEW i \in 1..(Len(rs) - 1)
        PROVE  (a \o b)[i] = rs[Place(k, i)]
    <2>1. CASE i < k
      BY <1>1, <1>4, <2>1 DEF Place
    <2>2. CASE ~(i < k)
      <3>1. (a \o b)[i] = b[i - (k - 1)]
        BY <1>4, <2>2
      <3>2. i - (k - 1) \in 1..(Len(rs) - k) /\ k + (i - (k - 1)) = i + 1
        BY <2>2
      <3>3. b[i - (k - 1)] = rs[k + (i - (k - 1))]
        BY <1>2, <3>2
      <3> QED  BY <2>2, <3>1, <3>2, <3>3 DEF Place
    <2> QED  BY <2>1, <2>2, Zenon
  <1>6. Without(a \o b, rs, k)
    <2>1. /\ Len(a \o b) \in Nat /\ Len(rs) = Len(a \o b) + 1
          /\ \A i \in 1..Len(a \o b) : i \in 1..(Len(rs) - 1)
      BY <1>4
    <2> QED  BY <1>5, <2>1, Zenon DEF Without
  <1> QED  BY <1>3, <1>4, <1>6, Zenon

(* The places are those of rs but k, in order. *)
PlacesFit(q, rs, k) ==
    /\ \A i \in 1..Len(q) : /\ Place(k, i) \in 1..Len(rs) /\ Place(k, i) # k
                           /\ q[i] = rs[Place(k, i)]
    /\ \A j \in 1..Len(rs) : j # k => \E i \in 1..Len(q) : Place(k, i) = j
    /\ \A i, j \in 1..Len(q) : i < j <=> Place(k, i) < Place(k, j)

(* They are. *)
LEMMA Places ==
    ASSUME NEW q, NEW rs, NEW k, Without(q, rs, k)
    PROVE  PlacesFit(q, rs, k)
  <1>1. /\ Len(q) \in Nat /\ Len(rs) = Len(q) + 1 /\ k \in 1..Len(rs)
        /\ \A i \in 1..Len(q) : q[i] = rs[Place(k, i)]
    BY Zenon DEF Without
  <1>2. \A i \in 1..Len(q) : Place(k, i) \in 1..Len(rs) /\ Place(k, i) # k
    BY <1>1 DEF Place
  <1>3. ASSUME NEW j \in 1..Len(rs), j # k
        PROVE  \E i \in 1..Len(q) : Place(k, i) = j
    <2>1. CASE j < k
      <3>1. j \in 1..Len(q) /\ Place(k, j) = j
        BY <1>1, <2>1 DEF Place
      <3> QED  BY <3>1
    <2>2. CASE j > k
      <3>1. j - 1 \in 1..Len(q) /\ Place(k, j - 1) = j
        BY <1>1, <2>2 DEF Place
      <3> QED  BY <3>1
    <2> QED  BY <1>1, <1>3, <2>1, <2>2
  <1>4. \A i, j \in 1..Len(q) : i < j <=> Place(k, i) < Place(k, j)
    BY <1>1 DEF Place
  <1> QED  BY <1>1, <1>2, <1>3, <1>4, Zenon DEF PlacesFit

(* Record k may be removed: a later record has its key, or it is a         *)
(* tombstone and no earlier one has.                                       *)
MayRemove(rs, k) ==
    \/ \E j \in 1..Len(rs) : k < j /\ SameKey(rs[k], rs[j])
    \/ /\ rs[k].value = NoValue
       /\ \A j \in 1..Len(rs) : j < k => ~SameKey(rs[k], rs[j])

(* Which records are the last of their key, and which are marked, is not   *)
(* changed.                                                                *)
LEMMA RemoveKeeps ==
    ASSUME NEW q, NEW rs, NEW k, Without(q, rs, k), MayRemove(rs, k),
           \A i \in 1..Len(rs) : rs[i] \in Records, NEW i \in 1..Len(q)
    PROVE  /\ IsLatest(q, Len(q), i) <=> IsLatest(rs, Len(rs), Place(k, i))
           /\ Marked(q, Len(q), i) <=> Marked(rs, Len(rs), Place(k, i))
  <1> DEFINE p == Place(k, i)
  <1>1. /\ \A m \in 1..Len(q) : /\ Place(k, m) \in 1..Len(rs) /\ Place(k, m) # k
                               /\ q[m] = rs[Place(k, m)]
        /\ \A m \in 1..Len(q) : m > i <=> Place(k, m) > p
        /\ \A j \in 1..Len(rs) : j # k => \E m \in 1..Len(q) : Place(k, m) = j
    <2>1. PlacesFit(q, rs, k)
      BY Places, Zenon
    <2>2. /\ \A m \in 1..Len(q) : /\ Place(k, m) \in 1..Len(rs) /\ Place(k, m) # k
                                 /\ q[m] = rs[Place(k, m)]
          /\ \A j \in 1..Len(rs) : j # k => \E m \in 1..Len(q) : Place(k, m) = j
          /\ \A a, b \in 1..Len(q) : a < b <=> Place(k, a) < Place(k, b)
      BY <2>1, Zenon DEF PlacesFit
    <2>3. \A a, b : a < b <=> b > a
      OBVIOUS
    <2> QED  BY <2>2, <2>3, Zenon
  <1>2. /\ k \in 1..Len(rs) /\ Len(rs) \in Nat /\ Len(q) \in Nat
        /\ p \in 1..Len(rs) /\ p # k /\ q[i] = rs[p]
    <2>1. k \in 1..Len(rs) /\ Len(q) \in Nat /\ Len(rs) = Len(q) + 1
      BY Zenon DEF Without
    <2>2. p \in 1..Len(rs) /\ p # k /\ q[i] = rs[p]
      BY <1>1, Zenon
    <2> QED  BY <2>1, <2>2
  <1> HIDE DEF p
  <1>3. ASSUME IsLatest(rs, Len(rs), p)
        PROVE  IsLatest(q, Len(q), i)
    <2> SUFFICES ASSUME NEW j \in 1..Len(q), j > i
                 PROVE  ~SameKey(q[i], q[j])
      BY Zenon DEF IsLatest
    <2>1. Place(k, j) \in 1..Len(rs) /\ q[j] = rs[Place(k, j)] /\ Place(k, j) > p
      BY <1>1, Zenon
    <2> QED  BY <1>2, <1>3, <2>1, Zenon DEF IsLatest
  <1>4. ASSUME IsLatest(q, Len(q), i)
        PROVE  IsLatest(rs, Len(rs), p)
    <2>1. ASSUME NEW j \in 1..Len(rs), j > p, j # k
          PROVE  ~SameKey(rs[p], rs[j])
      <3>1. PICK m \in 1..Len(q) : Place(k, m) = j
        BY <1>1, <2>1, Zenon
      <3>2. m > i /\ q[m] = rs[j]
        BY <1>1, <2>1, <3>1, Zenon
      <3> QED  BY <1>2, <1>4, <3>2, Zenon DEF IsLatest
    <2>2. ASSUME k > p, SameKey(rs[p], rs[k])
          PROVE  FALSE
      <3>1. CASE \E j \in 1..Len(rs) : k < j /\ SameKey(rs[k], rs[j])
        <4>1. PICK j \in 1..Len(rs) : k < j /\ SameKey(rs[k], rs[j])
          BY <3>1, Zenon
        <4>2. j > p /\ j # k
          BY <1>2, <2>2, <4>1
        <4> QED  BY <2>1, <2>2, <4>1, <4>2, Zenon DEF SameKey
      <3>2. CASE \A j \in 1..Len(rs) : j < k => ~SameKey(rs[k], rs[j])
        <4>1. p < k
          BY <1>2, <2>2
        <4> QED  BY <1>2, <2>2, <3>2, <4>1, Zenon DEF SameKey
      <3> QED  BY <3>1, <3>2, Zenon DEF MayRemove
    <2> QED  BY <2>1, <2>2, Zenon DEF IsLatest
  <1>5. ASSUME Marked(q, Len(q), i)
        PROVE  Marked(rs, Len(rs), p)
    <2>1. PICK j \in 1..Len(q) : /\ j > i /\ q[j].type = "DELETE_SUBJECT"
                                 /\ q[j].subject = q[i].subject
      BY <1>5, Zenon DEF Marked
    <2>2. Place(k, j) \in 1..Len(rs) /\ q[j] = rs[Place(k, j)] /\ Place(k, j) > p
      BY <1>1, <2>1, Zenon
    <2> QED  BY <1>2, <2>1, <2>2, Zenon DEF Marked
  <1>6. ASSUME Marked(rs, Len(rs), p)
        PROVE  Marked(q, Len(q), i)
    <2>1. PICK j \in 1..Len(rs) : /\ j > p /\ rs[j].type = "DELETE_SUBJECT"
                                  /\ rs[j].subject = rs[p].subject
      BY <1>6, Zenon DEF Marked
    <2>2. PICK l \in 1..Len(rs) : /\ l # k /\ l > p /\ rs[l].type = "DELETE_SUBJECT"
                                  /\ rs[l].subject = rs[p].subject
      <3>1. CASE j # k
        BY <2>1, <3>1, Zenon
      <3>2. CASE j = k
        <4>1. rs[k].value # NoValue
          <5>1. rs[k].value \in Numbers
            BY <1>2, <2>1, <3>2, RecordFacts, Zenon
          <5> QED  BY <5>1, StoreAssumption DEF Numbers
        <4>2. PICK l \in 1..Len(rs) : k < l /\ SameKey(rs[k], rs[l])
          BY <4>1, Zenon DEF MayRemove
        <4>3. l # k /\ l > p
          BY <1>2, <2>1, <3>2, <4>2
        <4> QED  BY <2>1, <3>2, <4>2, <4>3, Zenon DEF SameKey
      <3> QED  BY <3>1, <3>2, Zenon
    <2>3. PICK m \in 1..Len(q) : Place(k, m) = l
      BY <1>1, <2>2, Zenon
    <2>4. m > i /\ q[m] = rs[l]
      BY <1>1, <2>2, <2>3, Zenon
    <2> QED  BY <1>2, <2>2, <2>4, Zenon DEF Marked
  <1> QED  BY <1>3, <1>4, <1>5, <1>6, Zenon DEF p

(* A high-water record stays, or a later one that is as high. *)
LEMMA HighWaterStays ==
    ASSUME NEW rs \in Seq(Records), NEW k \in 1..Len(rs), MayRemove(rs, k),
           HighWatersAscend(rs), NEW j \in 1..Len(rs), rs[j].type = "NOOP"
    PROVE  \E l \in 1..Len(rs) : /\ l # k /\ rs[l].type = "NOOP"
                                 /\ rs[l].subject = rs[j].subject
                                 /\ rs[j].value <= rs[l].value
  <1>1. DOMAIN rs = 1..Len(rs) /\ \A i \in 1..Len(rs) : rs[i] \in Records
    OBVIOUS
  <1>2. rs[j].value \in Numbers
    BY <1>1, RecordFacts, Zenon
  <1>3. CASE j # k
    <2>1. rs[j].value <= rs[j].value
      BY <1>2 DEF Numbers
    <2> QED  BY <1>3, <2>1, Zenon
  <1>4. CASE j = k
    <2>1. rs[k].value # NoValue
      BY <1>2, <1>4, StoreAssumption DEF Numbers
    <2>2. PICK l \in 1..Len(rs) : k < l /\ SameKey(rs[k], rs[l])
      BY <2>1, Zenon DEF MayRemove
    <2>3. rs[l].type = "NOOP" /\ rs[l].subject = rs[j].subject
      BY <1>4, <2>2, Zenon DEF SameKey
    <2>4. rs[j].value <= rs[l].value
      BY <1>1, <1>4, <2>2, <2>3, Zenon DEF HighWatersAscend
    <2>5. l # k
      BY <2>2
    <2> QED  BY <2>3, <2>4, <2>5, Zenon
  <1> QED  BY <1>3, <1>4, Zenon

(* What the cleaner leaves of a log whose high-water records ascend and    *)
(* cover its tombstones is such a log.                                     *)
LEMMA RemoveCovers ==
    ASSUME NEW rs \in Seq(Records), NEW k \in 1..Len(rs), MayRemove(rs, k),
           HighWatersAscend(rs), NEW q \in Seq(Records), Without(q, rs, k)
    PROVE  /\ HighWatersAscend(q)
           /\ \A s, v : (v \in Numbers /\ Covered(rs, s, v)) => Covered(q, s, v)
           /\ TombstonesCovered(rs) => TombstonesCovered(q)
  <1>1. PlacesFit(q, rs, k)
    BY Places, Zenon
  <1>2. /\ DOMAIN rs = 1..Len(rs) /\ DOMAIN q = 1..Len(q)
        /\ \A i \in 1..Len(rs) : rs[i] \in Records
        /\ \A i \in 1..Len(q) : q[i] \in Records
    OBVIOUS
  <1>3. HighWatersAscend(q)
    <2> SUFFICES ASSUME NEW i \in 1..Len(q), NEW j \in 1..Len(q), i < j,
                        q[i].type = "NOOP", q[j].type = "NOOP", q[i].subject = q[j].subject
                 PROVE  q[i].value <= q[j].value
      BY <1>2, Zenon DEF HighWatersAscend
    <2>1. /\ Place(k, i) \in DOMAIN rs /\ q[i] = rs[Place(k, i)]
          /\ Place(k, j) \in DOMAIN rs /\ q[j] = rs[Place(k, j)]
          /\ Place(k, i) < Place(k, j)
      BY <1>1, <1>2, Zenon DEF PlacesFit
    <2> QED  BY <2>1, Zenon DEF HighWatersAscend
  <1>4. ASSUME NEW s, NEW v \in Numbers, Covered(rs, s, v)
        PROVE  Covered(q, s, v)
    <2>1. PICK j \in 1..Len(rs) : /\ rs[j].type = "NOOP" /\ rs[j].subject = s
                                  /\ After(v) <= rs[j].value
      BY <1>2, <1>4, Zenon DEF Covered
    <2>2. PICK l \in 1..Len(rs) : /\ l # k /\ rs[l].type = "NOOP"
                                  /\ rs[l].subject = rs[j].subject
                                  /\ rs[j].value <= rs[l].value
      BY <2>1, HighWaterStays, Zenon
    <2>3. PICK m \in 1..Len(q) : Place(k, m) = l
      BY <1>1, <2>2, Zenon DEF PlacesFit
    <2>4. q[m] = rs[l]
      BY <1>1, <2>3, Zenon DEF PlacesFit
    <2>5. rs[j].value \in Numbers /\ rs[l].value \in Numbers
      BY <1>2, <2>1, <2>2, RecordFacts, Zenon
    <2>6. After(v) <= q[m].value
      BY <2>1, <2>2, <2>4, <2>5, StoreAssumption DEF Numbers, After
    <2> QED  BY <1>2, <2>1, <2>2, <2>4, <2>6, Zenon DEF Covered
  <1>5. ASSUME TombstonesCovered(rs), NEW i \in 1..Len(q), IsTombstone(q[i])
        PROVE  Covered(q, q[i].subject, q[i].version)
    <2>1. Place(k, i) \in DOMAIN rs /\ q[i] = rs[Place(k, i)]
      BY <1>1, <1>2, Zenon DEF PlacesFit
    <2>2. Covered(rs, q[i].subject, q[i].version)
      BY <1>5, <2>1, Zenon DEF TombstonesCovered
    <2>3. q[i].version \in Numbers
      BY <1>2, <1>5, RecordFacts, Zenon DEF IsTombstone
    <2> QED  BY <1>4, <2>2, <2>3, Zenon
  <1> QED  BY <1>2, <1>3, <1>4, <1>5, Zenon DEF TombstonesCovered

(* The next versions the cleaned log asks for are the same. *)
LEMMA RemoveNext ==
    ASSUME NEW rs \in Seq(Records), NEW k \in 1..Len(rs), MayRemove(rs, k),
           HighWatersAscend(rs), TombstonesCovered(rs),
           NEW q \in Seq(Records), Without(q, rs, k),
           NEW st, StoreType(st), NextFrom(st, rs, Len(rs))
    PROVE  NextFrom(st, q, Len(q))
  <1>1. PlacesFit(q, rs, k)
    BY Places, Zenon
  <1>2. DOMAIN rs = 1..Len(rs) /\ \A i \in 1..Len(rs) : rs[i] \in Records
    OBVIOUS
  <1>3. ASSUME NEW s \in Subjects, NEW i \in 1..Len(q), Asks(q[i], s)
        PROVE  AsksFor(q[i]) <= st.nextVersions[s]
    <2>1. Place(k, i) \in 1..Len(rs) /\ q[i] = rs[Place(k, i)]
      BY <1>1, Zenon DEF PlacesFit
    <2> QED  BY <1>3, <2>1, Zenon DEF NextFrom
  <1>4. ASSUME NEW s \in Subjects, st.nextVersions[s] # 1
        PROVE  \E i \in 1..Len(q) : Asks(q[i], s) /\ AsksFor(q[i]) = st.nextVersions[s]
    <2> DEFINE top == st.nextVersions[s]
    <2>1. top \in Numbers
      BY DEF StoreType
    <2>2. \A i \in 1..Len(rs) : Asks(rs[i], s) => AsksFor(rs[i]) <= top
      BY Zenon DEF NextFrom
    <2>3. PICK j \in 1..Len(rs) : Asks(rs[j], s) /\ AsksFor(rs[j]) = top
      BY <1>4, Zenon DEF NextFrom
    <2> HIDE DEF top
    <2>4. ASSUME NEW l \in 1..Len(rs), rs[l].type = "NOOP", rs[l].subject = s,
                 top <= rs[l].value
          PROVE  Asks(rs[l], s) /\ AsksFor(rs[l]) = top
      <3>1. Asks(rs[l], s) /\ AsksFor(rs[l]) = rs[l].value
        BY <2>4, Zenon DEF Asks, AsksFor
      <3>2. rs[l].value <= top
        BY <2>2, <3>1, Zenon
      <3>3. rs[l].value \in Numbers
        BY <1>2, <2>4, RecordFacts, Zenon
      <3> QED  BY <2>1, <2>4, <3>1, <3>2, <3>3 DEF Numbers
    <2>5. ASSUME NEW i \in 1..Len(rs), rs[i].type = "NOOP", rs[i].subject = s,
                 top <= rs[i].value
          PROVE  \E l \in 1..Len(rs) : l # k /\ Asks(rs[l], s) /\ AsksFor(rs[l]) = top
      <3>1. PICK l \in 1..Len(rs) : /\ l # k /\ rs[l].type = "NOOP"
                                    /\ rs[l].subject = rs[i].subject
                                    /\ rs[i].value <= rs[l].value
        BY <2>5, HighWaterStays, Zenon
      <3>2. rs[i].value \in Numbers /\ rs[l].value \in Numbers
        BY <1>2, <2>5, <3>1, RecordFacts, Zenon
      <3>3. top <= rs[l].value
        BY <2>1, <2>5, <3>1, <3>2 DEF Numbers
      <3> QED  BY <2>4, <2>5, <3>1, <3>3, Zenon
    <2>6. \E l \in 1..Len(rs) : l # k /\ Asks(rs[l], s) /\ AsksFor(rs[l]) = top
      <3>1. CASE j # k
        BY <2>3, <3>1, Zenon
      <3>2. CASE j = k /\ rs[k].type = "NOOP"
        <4>1. rs[j].subject = s /\ top = rs[j].value
          BY <2>3, <3>2, Zenon DEF Asks, AsksFor
        <4>2. top <= rs[j].value
          BY <2>1, <4>1 DEF Numbers
        <4> QED  BY <2>5, <3>2, <4>1, <4>2, Zenon
      <3>3. CASE j = k /\ rs[k].type = "SCHEMA"
        <4>1. rs[k].subject = s /\ AsksFor(rs[k]) = After(rs[k].version)
          <5>1. rs[k].type # "NOOP"
            BY <3>3
          <5> QED  BY <2>3, <3>3, <5>1, Zenon DEF Asks, AsksFor
        <4>2. CASE \E l \in 1..Len(rs) : k < l /\ SameKey(rs[k], rs[l])
          <5>1. PICK l \in 1..Len(rs) : k < l /\ SameKey(rs[k], rs[l])
            BY <4>2, Zenon
          <5>2. l # k
            BY <5>1
          <5>3. rs[l].type = "SCHEMA" /\ rs[l].subject = s /\ rs[l].version = rs[k].version
            BY <3>3, <4>1, <5>1, Zenon DEF SameKey
          <5>4. rs[l].type # "NOOP"
            BY <5>3
          <5>5. Asks(rs[l], s) /\ AsksFor(rs[l]) = After(rs[k].version)
            BY <5>3, <5>4, Zenon DEF Asks, AsksFor
          <5> QED  BY <2>3, <3>3, <4>1, <5>2, <5>5, Zenon
        <4>3. CASE rs[k].value = NoValue
          <5>1. Covered(rs, rs[k].subject, rs[k].version)
            BY <1>2, <3>3, <4>3, Zenon DEF TombstonesCovered, IsTombstone
          <5>2. PICK l \in 1..Len(rs) : /\ rs[l].type = "NOOP" /\ rs[l].subject = s
                                        /\ After(rs[k].version) <= rs[l].value
            BY <1>2, <4>1, <5>1, Zenon DEF Covered
          <5>3. top <= rs[l].value
            BY <2>3, <3>3, <4>1, <5>2, Zenon
          <5> QED  BY <2>5, <5>2, <5>3, Zenon
        <4> QED  BY <4>2, <4>3, Zenon DEF MayRemove
      <3> QED  BY <2>3, <3>1, <3>2, <3>3 DEF Asks
    <2>7. PICK l \in 1..Len(rs) : l # k /\ Asks(rs[l], s) /\ AsksFor(rs[l]) = top
      BY <2>6, Zenon
    <2>8. PICK m \in 1..Len(q) : Place(k, m) = l
      BY <1>1, <2>7, Zenon DEF PlacesFit
    <2>9. q[m] = rs[l]
      BY <1>1, <2>8, Zenon DEF PlacesFit
    <2> QED  BY <2>7, <2>9, Zenon DEF top
  <1> QED  BY <1>3, <1>4, Zenon DEF NextFrom

(* A store that is faithful to a log is faithful to what the cleaner       *)
(* leaves of it, and binds the ids that are left.                          *)
LEMMA RemoveFaithful ==
    ASSUME NEW rs \in Seq(Records), NEW k \in 1..Len(rs), MayRemove(rs, k),
           HighWatersAscend(rs), TombstonesCovered(rs),
           NEW q \in Seq(Records), Without(q, rs, k),
           NEW st, StoreType(st), Faithful(st, rs, Len(rs))
    PROVE  /\ Faithful(st, q, Len(q))
           /\ KnowsIds(st, rs, Len(rs)) => KnowsIds(st, q, Len(q))
           /\ BindsAll(st, rs, Len(rs)) => BindsAll(st, q, Len(q))
           /\ CanonicalFinds(st, rs, Len(rs)) => CanonicalFinds(st, q, Len(q))
  <1>1. /\ \A i \in 1..Len(q) : Place(k, i) \in 1..Len(rs) /\ q[i] = rs[Place(k, i)]
        /\ \A j \in 1..Len(rs) : j # k => \E i \in 1..Len(q) : Place(k, i) = j
    <2>1. PlacesFit(q, rs, k)
      BY Places, Zenon
    <2> QED  BY <2>1, Zenon DEF PlacesFit
  <1>2. \A i \in 1..Len(rs) : rs[i] \in Records
    OBVIOUS
  <1>3. \A i \in 1..Len(q) :
           /\ IsLatest(q, Len(q), i) <=> IsLatest(rs, Len(rs), Place(k, i))
           /\ Marked(q, Len(q), i) <=> Marked(rs, Len(rs), Place(k, i))
    BY <1>2, RemoveKeeps, Zenon
  <1>4. IsLatest(rs, Len(rs), k) => rs[k].value = NoValue
    <2>1. ASSUME NEW j \in 1..Len(rs), k < j, SameKey(rs[k], rs[j])
          PROVE  ~IsLatest(rs, Len(rs), k)
      <3>1. j > k
        BY <2>1
      <3> QED  BY <2>1, <3>1, Zenon DEF IsLatest
    <2> QED  BY <2>1, Zenon DEF MayRemove
  <1>5. EntriesFrom(st, q, Len(q))
    <2>1. EntriesFrom(st, rs, Len(rs))
      BY Zenon DEF Faithful
    <2>2. ASSUME NEW s \in Subjects, NEW v \in Versions(st, s)
          PROVE  \E i \in 1..Len(q) :
                    /\ IsLatest(q, Len(q), i) /\ HasSchema(q[i])
                    /\ q[i].subject = s /\ q[i].version = v
      <3>1. PICK j \in 1..Len(rs) : EntryOf(st, rs, Len(rs), j, s, v)
        BY <2>1, EntryRecord, Zenon
      <3>2. /\ IsLatest(rs, Len(rs), j) /\ HasSchema(rs[j])
            /\ rs[j].subject = s /\ rs[j].version = v
        BY <3>1, Zenon DEF EntryOf
      <3>3. j # k
        BY <1>4, <3>2, Zenon DEF HasSchema
      <3>4. PICK i \in 1..Len(q) : Place(k, i) = j
        BY <1>1, <3>3, Zenon
      <3> QED  BY <1>1, <1>3, <3>2, <3>4, Zenon
    <2>3. ASSUME NEW i \in 1..Len(q), IsLatest(q, Len(q), i), HasSchema(q[i])
          PROVE  /\ q[i].version \in Versions(st, q[i].subject)
                 /\ st.subjects[q[i].subject][q[i].version].id = q[i].value.id
                 /\ st.subjects[q[i].subject][q[i].version].deleted
                      <=> (q[i].value.deleted \/ Marked(q, Len(q), i))
      <3> DEFINE j == Place(k, i)
      <3>1. j \in 1..Len(rs) /\ q[i] = rs[j] /\ IsLatest(rs, Len(rs), j) /\ HasSchema(rs[j])
        BY <1>1, <1>3, <2>3, Zenon
      <3>2. Marked(q, Len(q), i) <=> Marked(rs, Len(rs), j)
        BY <1>3, Zenon
      <3> HIDE DEF j
      <3>3. /\ rs[j].version \in Versions(st, rs[j].subject)
            /\ st.subjects[rs[j].subject][rs[j].version].id = rs[j].value.id
            /\ st.subjects[rs[j].subject][rs[j].version].deleted
                 <=> (rs[j].value.deleted \/ Marked(rs, Len(rs), j))
        BY <2>1, <3>1, Zenon DEF EntriesFrom
      <3> QED  BY <3>1, <3>2, <3>3, Zenon
    <2> QED  BY <2>2, <2>3, Zenon DEF EntriesFrom
  <1>6. ASSUME NEW f, NEW type, SettingsFrom(f, type, rs, Len(rs))
        PROVE  SettingsFrom(f, type, q, Len(q))
    <2>1. ASSUME NEW i \in 1..Len(q), IsLatest(q, Len(q), i), q[i].type = type
          PROVE  f[q[i].subject] = q[i].value
      <3> DEFINE j == Place(k, i)
      <3>1. j \in 1..Len(rs) /\ q[i] = rs[j] /\ IsLatest(rs, Len(rs), j)
        BY <1>1, <1>3, <2>1, Zenon
      <3> HIDE DEF j
      <3>2. rs[j].type = type
        BY <2>1, <3>1, Zenon
      <3>3. f[rs[j].subject] = rs[j].value
        BY <1>6, <3>1, <3>2, Zenon DEF SettingsFrom
      <3> QED  BY <3>1, <3>3, Zenon
    <2>2. ASSUME NEW x \in Keys, f[x] # NoValue
          PROVE  \E i \in 1..Len(q) :
                    IsLatest(q, Len(q), i) /\ q[i].type = type /\ q[i].subject = x
      <3>1. PICK j \in 1..Len(rs) :
               IsLatest(rs, Len(rs), j) /\ rs[j].type = type /\ rs[j].subject = x
        BY <1>6, <2>2, Zenon DEF SettingsFrom
      <3>2. f[x] = rs[j].value
        BY <1>6, <3>1, Zenon DEF SettingsFrom
      <3>3. j # k
        BY <1>4, <2>2, <3>1, <3>2, Zenon
      <3>4. PICK i \in 1..Len(q) : Place(k, i) = j
        BY <1>1, <3>3, Zenon
      <3> QED  BY <1>1, <1>3, <3>1, <3>4, Zenon
    <2> QED  BY <2>1, <2>2, Zenon DEF SettingsFrom
  <1>7. NextFrom(st, q, Len(q))
    BY RemoveNext, Zenon DEF Faithful
  <1>8. Faithful(st, q, Len(q))
    BY <1>5, <1>6, <1>7, Zenon DEF Faithful
  <1>9. /\ BindsAll(st, rs, Len(rs)) => BindsAll(st, q, Len(q))
        /\ KnowsIds(st, rs, Len(rs)) => KnowsIds(st, q, Len(q))
        /\ CanonicalFinds(st, rs, Len(rs)) => CanonicalFinds(st, q, Len(q))
    <2>1. ASSUME BindsAll(st, rs, Len(rs)), NEW i \in 1..Len(q), HasSchema(q[i])
          PROVE  /\ q[i].value.id \in DOMAIN st.byId
                 /\ st.byId[q[i].value.id] = q[i].value.schema
      <3>1. PICK j \in 1..Len(rs) : q[i] = rs[j]
        BY <1>1, Zenon
      <3> QED  BY <2>1, <3>1, Zenon DEF BindsAll
    <2>2. ASSUME CanonicalFinds(st, rs, Len(rs)), NEW i \in 1..Len(q), HasSchema(q[i]),
                 Refs[q[i].value.schema] = {}
          PROVE  /\ q[i].value.schema \in DOMAIN st.byCanonical
                 /\ st.byCanonical[q[i].value.schema] = q[i].value.id
      <3>1. PICK j \in 1..Len(rs) : q[i] = rs[j]
        BY <1>1, Zenon
      <3> QED  BY <2>2, <3>1, Zenon DEF CanonicalFinds
    <2>3. ASSUME KnowsIds(st, rs, Len(rs)), NEW i \in 1..Len(q), HasSchema(q[i])
          PROVE  q[i].value.id \in DOMAIN st.byId
      <3>1. PICK j \in 1..Len(rs) : q[i] = rs[j]
        BY <1>1, Zenon
      <3> QED  BY <2>3, <3>1, Zenon DEF KnowsIds
    <2> QED  BY <2>1, <2>2, <2>3, Zenon DEF KnowsIds, BindsAll, CanonicalFinds
  <1> QED  BY <1>8, <1>9, Zenon

(* What a store owes to n records is a matter of these records alone. *)
LEMMA SameRecords ==
    ASSUME NEW rs, NEW q, NEW n, \A i \in 1..n : q[i] = rs[i], NEW st
    PROVE  /\ Faithful(st, rs, n) => Faithful(st, q, n)
           /\ KnowsIds(st, rs, n) => KnowsIds(st, q, n)
           /\ BindsAll(st, rs, n) => BindsAll(st, q, n)
           /\ CanonicalFinds(st, rs, n) => CanonicalFinds(st, q, n)
  <1>1. \A i \in 1..n : /\ IsLatest(q, n, i) <=> IsLatest(rs, n, i)
                        /\ Marked(q, n, i) <=> Marked(rs, n, i)
    BY Zenon DEF IsLatest, Marked
  <1>2. ASSUME EntriesFrom(st, rs, n)
        PROVE  EntriesFrom(st, q, n)
    <2>1. ASSUME NEW s \in Subjects, NEW v \in Versions(st, s)
          PROVE  \E i \in 1..n : /\ IsLatest(q, n, i) /\ HasSchema(q[i])
                                 /\ q[i].subject = s /\ q[i].version = v
      <3>1. PICK i \in 1..n : EntryOf(st, rs, n, i, s, v)
        BY <1>2, EntryRecord, Zenon
      <3> QED  BY <1>1, <3>1, Zenon DEF EntryOf
    <2>2. ASSUME NEW i \in 1..n, IsLatest(q, n, i), HasSchema(q[i])
          PROVE  /\ q[i].version \in Versions(st, q[i].subject)
                 /\ st.subjects[q[i].subject][q[i].version].id = q[i].value.id
                 /\ st.subjects[q[i].subject][q[i].version].deleted
                      <=> (q[i].value.deleted \/ Marked(q, n, i))
      <3>1. q[i] = rs[i] /\ IsLatest(rs, n, i) /\ (Marked(q, n, i) <=> Marked(rs, n, i))
        BY <1>1, <2>2, Zenon
      <3>2. /\ rs[i].version \in Versions(st, rs[i].subject)
            /\ st.subjects[rs[i].subject][rs[i].version].id = rs[i].value.id
            /\ st.subjects[rs[i].subject][rs[i].version].deleted
                 <=> (rs[i].value.deleted \/ Marked(rs, n, i))
        BY <1>2, <2>2, <3>1, Zenon DEF EntriesFrom
      <3> QED  BY <3>1, <3>2, Zenon
    <2> QED  BY <2>1, <2>2, Zenon DEF EntriesFrom
  <1>3. NextFrom(st, rs, n) => NextFrom(st, q, n)
    <2>1. ASSUME NEW s \in Subjects, NextFrom(st, rs, n)
          PROVE  /\ \A i \in 1..n : Asks(q[i], s) => AsksFor(q[i]) <= st.nextVersions[s]
                 /\ \/ st.nextVersions[s] = 1
                    \/ \E i \in 1..n : Asks(q[i], s) /\ AsksFor(q[i]) = st.nextVersions[s]
      <3>1. /\ \A i \in 1..n : Asks(rs[i], s) => AsksFor(rs[i]) <= st.nextVersions[s]
            /\ \/ st.nextVersions[s] = 1
               \/ \E i \in 1..n : Asks(rs[i], s) /\ AsksFor(rs[i]) = st.nextVersions[s]
        BY <2>1, Zenon DEF NextFrom
      <3> QED  BY <3>1, Zenon
    <2> QED  BY <2>1, Zenon DEF NextFrom
  <1>4. ASSUME NEW f, NEW type, SettingsFrom(f, type, rs, n)
        PROVE  SettingsFrom(f, type, q, n)
    <2>1. /\ \A i \in 1..n : (IsLatest(rs, n, i) /\ rs[i].type = type) =>
                f[rs[i].subject] = rs[i].value
          /\ \A k \in Keys : f[k] = NoValue \/ \E i \in 1..n :
                IsLatest(rs, n, i) /\ rs[i].type = type /\ rs[i].subject = k
      BY <1>4, Zenon DEF SettingsFrom
    <2>2. \A i \in 1..n : (IsLatest(q, n, i) /\ q[i].type = type) =>
             f[q[i].subject] = q[i].value
      BY <1>1, <2>1, Zenon
    <2>3. \A k \in Keys : f[k] = NoValue \/ \E i \in 1..n :
             IsLatest(q, n, i) /\ q[i].type = type /\ q[i].subject = k
      BY <1>1, <2>1, Zenon
    <2> QED  BY <2>2, <2>3, Zenon DEF SettingsFrom
  <1>5. Faithful(st, rs, n) => Faithful(st, q, n)
    BY <1>2, <1>3, <1>4, Zenon DEF Faithful
  <1>6. /\ KnowsIds(st, rs, n) => KnowsIds(st, q, n)
        /\ BindsAll(st, rs, n) => BindsAll(st, q, n)
        /\ CanonicalFinds(st, rs, n) => CanonicalFinds(st, q, n)
    BY Zenon DEF KnowsIds, BindsAll, CanonicalFinds
  <1> QED  BY <1>5, <1>6, Zenon

-------------------------------------------------------------------------------
(* The invariants. *)

(* What an operation has left to write: tombstones, whose versions a       *)
(* high-water record covers, of a subject that may be written; then the    *)
(* level and, last of all, the mode.                                       *)
TodoRecord(r) ==
    /\ r \in Records /\ r.value = NoValue /\ r.subject \in Subjects
    /\ r.type \in {"SCHEMA", "CONFIG", "MODE"}
    /\ r.type = "SCHEMA" =>
          /\ Covered(log, r.subject, r.version)
          /\ effective_mode(store, r.subject) # "READONLY"

TodoShape ==
    /\ todo \in Seq(Records)
    /\ \A i \in 1..Len(todo) :
          TodoRecord(todo[i]) /\ (todo[i].type = "MODE" => i = Len(todo))

LogShape ==
    /\ log \in Seq(Records)
    /\ HighWatersAscend(log) /\ TombstonesCovered(log)

StoreShape ==
    /\ StoreType(store)
    /\ Faithful(store, log, Len(log)) /\ KnowsIds(store, log, Len(log))

ShapeInv ==
    /\ load \in Loads /\ writes \in Nat
    /\ LogShape /\ StoreShape /\ TodoShape

(* Ids name one schema, the schemas without references are found where no  *)
(* id was imported, and what is referred to exists.                        *)
BindInv ==
    /\ BindsAll(store, log, Len(log)) /\ IdsBelow(store) /\ CanonicalSound(store)
    /\ load.ids = {} => CanonicalFinds(store, log, Len(log))
    /\ LiveReferencesExist
    /\ \A i \in 1..Len(todo) : IsTombstone(todo[i]) =>
          ~referenced_by(store, todo[i].subject, todo[i].version)

(* The steps of RestNext that are not steps of an import alone. *)
RegistryNext ==
    \/ Step
    \/ Restart
    \/ \E s \in Subjects, schema \in Schemas : Register(s, schema)

-------------------------------------------------------------------------------
(* What an operation may write. *)

RecordShape(r) ==
    /\ r \in Records
    /\ r.type = "NOOP" => r.value = store.nextVersions[r.subject]
    /\ IsTombstone(r) => Covered(log, r.subject, r.version)
    /\ r.type \in {"SCHEMA", "DELETE_SUBJECT"} =>
          effective_mode(store, r.subject) # "READONLY"

(* Where no id is imported, a schema without references keeps its id. *)
KeepsId(r) ==
    (/\ load.ids = {} /\ HasSchema(r) /\ Refs[r.value.schema] = {}
     /\ r.value.schema \in DOMAIN store.byCanonical)
    => r.value.id = store.byCanonical[r.value.schema]

(* It binds no id anew and takes the id a schema has, restores only what   *)
(* may be referred to, and takes away only what is not.                    *)
RecordBinds(r) ==
    /\ ~Rebinds(store, r)
    /\ KeepsId(r)
    /\ (HasSchema(r) /\ ~r.value.deleted) =>
          \A p \in Refs[r.value.schema] : p[2] \in Versions(store, p[1])
    /\ IsTombstone(r) => ~referenced_by(store, r.subject, r.version)

(* Clients set no level and import nothing, and no level is set. *)
Quiet ==
    /\ is_transitive(DefaultLevel) /\ load.levels = {} /\ load.ids = {}
    /\ \A k \in Keys : store.compat[k] = NoValue

(* No level is set where clients set none, and a version made live was     *)
(* checked against the live ones.                                          *)
RecordChecked(r) ==
    /\ (load.levels = {} /\ r.type = "CONFIG") => r.value = NoValue
    /\ (Quiet /\ HasSchema(r) /\ ~r.value.deleted) =>
          \A w \in LiveVersions(store, r.subject) :
              check_pair(DefaultLevel, r.value.schema, SchemaOf(store, r.subject, w))

(* What it writes after the first record. *)
RestShape(r, rest) ==
    /\ rest \in Seq(Records)
    /\ rest # <<>> => r.type = "NOOP" /\ effective_mode(store, r.subject) # "READONLY"
    /\ \A i \in 1..Len(rest) :
          /\ rest[i].value = NoValue /\ rest[i].subject = r.subject
          /\ rest[i].type \in {"SCHEMA", "CONFIG", "MODE"}
          /\ rest[i].type = "SCHEMA" =>
                /\ rest[i].version \in Versions(store, r.subject)
                /\ ~referenced_by(store, r.subject, rest[i].version)
          /\ rest[i].type = "MODE" => i = Len(rest)

SoundOperation(r, rest) ==
    /\ Operation(r, rest)
    /\ RecordShape(r) /\ RecordChecked(r) /\ RestShape(r, rest)
    /\ (BindInv /\ IdsLeft) => RecordBinds(r)

-------------------------------------------------------------------------------
(* What is shown by induction. *)

MinIn == \A S : (S \subseteq Numbers /\ S # {}) => Min(S) \in S
MaxIn == \A S : (S \subseteq Numbers /\ S # {}) =>
            Max(S) \in S /\ \A x \in S : Max(S) >= x
CountsVersions == \A s \in Subjects : Cardinality(Versions(store, s)) \in Nat
ReplayIsGood == PrefixGood(Replay(log), log, Len(log))

-------------------------------------------------------------------------------
(* Writing one record. *)

(* The log with one record more. *)
LEMMA AppendFacts ==
    ASSUME NEW rs \in Seq(Records), NEW r \in Records
    PROVE  /\ Append(rs, r) \in Seq(Records)
           /\ Len(rs) \in Nat /\ Len(Append(rs, r)) = Len(rs) + 1
           /\ Append(rs, r)[Len(rs) + 1] = r
           /\ \A i \in 1..Len(rs) : Append(rs, r)[i] = rs[i]
           /\ \A i \in 1..(Len(rs) + 1) : Append(rs, r)[i] \in Records
           /\ DOMAIN rs = 1..Len(rs) /\ DOMAIN Append(rs, r) = 1..(Len(rs) + 1)
  OBVIOUS

(* High-water records still ascend and tombstones are still covered. *)
LEMMA WriteLog ==
    ASSUME LogShape, StoreShape, NEW r, RecordShape(r), log' = Append(log, r)
    PROVE  /\ LogShape'
           /\ \A s, v : Covered(log, s, v) => Covered(log', s, v)
  <1>1. /\ log \in Seq(Records) /\ r \in Records /\ HighWatersAscend(log)
        /\ TombstonesCovered(log)
    BY Zenon DEF LogShape, RecordShape
  <1> DEFINE n == Len(log)
  <1>2. /\ log' \in Seq(Records) /\ n \in Nat /\ log'[n + 1] = r
        /\ \A i \in 1..n : log'[i] = log[i]
        /\ DOMAIN log = 1..n /\ DOMAIN log' = 1..(n + 1)
        /\ \A i \in 1..n : log[i] \in Records
    BY <1>1, AppendFacts
  <1> HIDE DEF n
  <1>3. ASSUME NEW s, NEW v, Covered(log, s, v)
        PROVE  Covered(log', s, v)
    BY <1>2, <1>3, OneMore, Zenon DEF Covered
  <1>4. HighWatersAscend(log')
    <2> SUFFICES ASSUME NEW i \in 1..(n + 1), NEW j \in 1..(n + 1), i < j,
                        log'[i].type = "NOOP", log'[j].type = "NOOP",
                        log'[i].subject = log'[j].subject
                 PROVE  log'[i].value <= log'[j].value
      BY <1>2, Zenon DEF HighWatersAscend
    <2>1. i \in 1..n
      BY <1>2
    <2>2. CASE j \in 1..n
      <3>1. /\ log[i].type = "NOOP" /\ log[j].type = "NOOP"
            /\ log[i].subject = log[j].subject
        BY <1>2, <2>1, <2>2, Zenon
      <3>2. log[i].value <= log[j].value
        BY <1>1, <1>2, <2>1, <2>2, <3>1, Zenon DEF HighWatersAscend
      <3> QED  BY <1>2, <2>1, <2>2, <3>2, Zenon
    <2>3. CASE j = n + 1
      <3>1. /\ log[i] \in Records /\ log[i].type = "NOOP" /\ log[i].subject = r.subject
            /\ r.type = "NOOP" /\ log'[i].value = log[i].value /\ log'[j].value = r.value
        BY <1>2, <2>1, <2>3, Zenon
      <3>2. r.subject \in Subjects /\ r.value = store.nextVersions[r.subject]
        BY <1>1, <3>1, RecordFacts, Zenon DEF RecordShape
      <3>3. Asks(log[i], r.subject) /\ AsksFor(log[i]) = log[i].value
        BY <3>1, Zenon DEF Asks, AsksFor
      <3>4. log[i].value <= store.nextVersions[r.subject]
        BY <2>1, <3>2, <3>3, Zenon DEF StoreShape, Faithful, NextFrom, n
      <3> QED  BY <3>1, <3>2, <3>4, Zenon
    <2> QED  BY <1>2, <2>2, <2>3, OneMore, Zenon
  <1>5. TombstonesCovered(log')
    <2> SUFFICES ASSUME NEW i \in 1..(n + 1), IsTombstone(log'[i])
                 PROVE  Covered(log', log'[i].subject, log'[i].version)
      BY <1>2, Zenon DEF TombstonesCovered
    <2>1. CASE i \in 1..n
      BY <1>1, <1>2, <1>3, <2>1, Zenon DEF TombstonesCovered
    <2>2. CASE i = n + 1
      BY <1>2, <1>3, <2>2, Zenon DEF RecordShape
    <2> QED  BY <1>2, <2>1, <2>2, OneMore, Zenon
  <1> QED  BY <1>2, <1>3, <1>4, <1>5, Zenon DEF LogShape

(* The store follows the log. *)
LEMMA WriteStore ==
    ASSUME LogShape, StoreShape, NEW r \in Records,
           log' = Append(log, r), store' = apply_record(store, r)
    PROVE  StoreShape'
  <1>1. log \in Seq(Records)
    BY Zenon DEF LogShape
  <1> DEFINE n == Len(log)
  <1>2. /\ n \in Nat /\ Len(log') = n + 1 /\ log'[n + 1] = r
        /\ \A i \in 1..n : log'[i] = log[i]
        /\ \A i \in 1..(n + 1) : log'[i] \in Records
    BY <1>1, AppendFacts
  <1>3. StoreType(store) /\ Faithful(store, log, n) /\ KnowsIds(store, log, n)
    BY Zenon DEF StoreShape
  <1> HIDE DEF n
  <1>4. Faithful(store, log', n) /\ KnowsIds(store, log', n)
    BY <1>2, <1>3, SameRecords, Zenon
  <1>5. store' = apply_record(store, log'[n + 1])
    BY <1>2, Zenon
  <1>6. StoreType(store')
    BY <1>3, StoreTypeStep, Zenon
  <1>7. Faithful(store', log', n + 1)
    BY <1>2, <1>3, <1>4, <1>5, FaithfulStep, Zenon
  <1>8. KnowsIds(store', log', n + 1)
    BY <1>2, <1>3, <1>4, <1>5, KnowsStep, Zenon
  <1> QED  BY <1>2, <1>6, <1>7, <1>8, Zenon DEF StoreShape

-------------------------------------------------------------------------------
(* The records of the operations. *)

(* A SCHEMA record with a value. *)
IsSchemaRecord(r, s, v, id, schema, d) ==
    /\ r \in Records /\ HasSchema(r) /\ ~IsTombstone(r)
    /\ r.type = "SCHEMA" /\ r.subject = s /\ r.version = v
    /\ r.value.id = id /\ r.value.schema = schema /\ r.value.deleted = d

(* The record that SchemaRecord makes. *)
LEMMA SchemaRecordType ==
    ASSUME NEW s \in Subjects, NEW v \in Numbers, NEW id \in Int,
           NEW schema \in Schemas, NEW d \in BOOLEAN
    PROVE  IsSchemaRecord(SchemaRecord(s, v, id, schema, d), s, v, id, schema, d)
  <1> DEFINE x == [id |-> id, schema |-> schema, deleted |-> d]
  <1>1. x \in SchemaValues /\ x.id = id /\ x.schema = schema /\ x.deleted = d
    BY DEF SchemaValues
  <1>2. x # NoValue
    BY <1>1, StoreAssumption
  <1> HIDE DEF x
  <1>3. SchemaRecord(s, v, id, schema, d) =
          [type |-> "SCHEMA", subject |-> s, version |-> v, value |-> x]
    BY Zenon DEF SchemaRecord, x
  <1> QED  BY <1>1, <1>2, <1>3
           DEF IsSchemaRecord, Records, SchemaRecords, HasSchema, IsTombstone

(* The other records. *)
LEMMA RecordTypes ==
    /\ \A s \in Subjects, v \in Numbers :
          /\ Tombstone(s, v) \in Records
          /\ Tombstone(s, v).type = "SCHEMA" /\ Tombstone(s, v).subject = s
          /\ Tombstone(s, v).version = v /\ Tombstone(s, v).value = NoValue
    /\ \A s \in Subjects, v \in Numbers :
          /\ DeleteSubject(s, v) \in Records
          /\ DeleteSubject(s, v).type = "DELETE_SUBJECT" /\ DeleteSubject(s, v).subject = s
    /\ \A s \in Subjects, v \in Numbers :
          /\ VersionHighWater(s, v) \in Records /\ VersionHighWater(s, v).type = "NOOP"
          /\ VersionHighWater(s, v).subject = s /\ VersionHighWater(s, v).value = v
    /\ \A k \in Keys, x \in AllModes \cup {NoValue} :
          /\ Mode(k, x) \in Records /\ Mode(k, x).type = "MODE"
          /\ Mode(k, x).subject = k /\ Mode(k, x).value = x
    /\ \A k \in Keys, x \in AllLevels \cup {NoValue} :
          /\ (k = NoSubject => x # NoValue) => Config(k, x) \in Records
          /\ Config(k, x).type = "CONFIG"
          /\ Config(k, x).subject = k /\ Config(k, x).value = x
  BY DEF Tombstone, DeleteSubject, VersionHighWater, Mode, Config,
         Records, SchemaRecords, NumberRecords, ModeRecords, ConfigRecords

(* The parts of the invariants that the operations rest on. *)
LEMMA StoreFacts ==
    ASSUME StoreShape
    PROVE  /\ \A s \in Subjects : Versions(store, s) \subseteq Numbers
           /\ \A s \in Subjects : \A v \in Versions(store, s) :
                 /\ store.subjects[s][v].id \in Int
                 /\ store.subjects[s][v].id \in DOMAIN store.byId
                 /\ SchemaOf(store, s, v) \in Schemas
           /\ \A k \in DOMAIN store.byCanonical : store.byCanonical[k] \in Int
           /\ \A s \in Subjects : store.nextVersions[s] \in Numbers
           /\ next_id(store) \in Int
  <1>1. StoreType(store)
    BY Zenon DEF StoreShape
  <1>2. ASSUME NEW s \in Subjects, NEW v \in Versions(store, s)
        PROVE  /\ v \in Numbers /\ store.subjects[s][v].id \in Int
               /\ store.subjects[s][v].id \in DOMAIN store.byId
               /\ SchemaOf(store, s, v) \in Schemas
    <2>1. v \in Numbers /\ store.subjects[s][v] \in [id : Int, deleted : BOOLEAN]
      BY <1>1, Zenon DEF StoreType, IsMap, Versions
    <2>2. PICK i \in 1..Len(log) : EntryOf(store, log, Len(log), i, s, v)
      BY EntryRecord, Zenon DEF StoreShape, Faithful
    <2>3. store.subjects[s][v].id \in DOMAIN store.byId
      BY <2>2, Zenon DEF EntryOf, StoreShape, KnowsIds
    <2>4. SchemaOf(store, s, v) \in Schemas
      BY <1>1, <2>3, Zenon DEF StoreType, IsMap, SchemaOf
    <2> QED  BY <2>1, <2>3, <2>4
  <1>3. \A k \in DOMAIN store.byCanonical : store.byCanonical[k] \in Int
    BY <1>1, Zenon DEF StoreType, IsMap
  <1>4. \A s \in Subjects : store.nextVersions[s] \in Numbers
    BY <1>1 DEF StoreType
  <1>5. next_id(store) \in Int
    BY <1>1, StoreAssumption DEF StoreType, next_id
  <1> QED  BY <1>2, <1>3, <1>4, <1>5, Zenon

(* An operation that writes one record. *)
LEMMA OneRecord ==
    ASSUME NEW r, Operation(r, <<>>), RecordShape(r), RecordChecked(r),
           (BindInv /\ IdsLeft) => RecordBinds(r)
    PROVE  SoundOperation(r, <<>>)
  <1>1. RestShape(r, <<>>)
    BY DEF RestShape
  <1> QED  BY <1>1, Zenon DEF SoundOperation

(* What a schema refers to is there when its references resolve. *)
LEMMA ResolvedExist ==
    ASSUME NEW st, NEW refs, resolve_closure(st, refs),
           refs \subseteq Subjects \X Numbers, NEW p \in refs
    PROVE  p[2] \in Versions(st, p[1])
  <1> DEFINE present == UNION {{<<s, v>> : v \in Versions(st, s)} : s \in Subjects}
  <1>1. p \in present
    BY Zenon DEF resolve_closure
  <1>2. PICK s \in Subjects : p \in {<<s, v>> : v \in Versions(st, s)}
    BY <1>1, Zenon
  <1>3. PICK v \in Versions(st, s) : p = <<s, v>>
    BY <1>2, Zenon
  <1> QED  BY <1>3

(* The references of a schema. *)
LEMMA RefsType ==
    ASSUME NEW schema \in Schemas
    PROVE  Refs[schema] \subseteq Subjects \X Numbers
  BY StoreAssumption DEF Numbers

(* Registration. *)
LEMMA RegisterSound ==
    ASSUME MinIn, StoreShape, NEW s \in Subjects, NEW schema \in Schemas, Register(s, schema)
    PROVE  SoundOperation(register(store, s, schema), <<>>)
  <1> DEFINE same == find_under_subject(store, s, schema, TRUE)
             v  == IF same # {} THEN Min(same) ELSE next_version(store, s)
             id == IF schema \in DOMAIN store.byCanonical
                   THEN store.byCanonical[schema] ELSE next_id(store)
             r  == register(store, s, schema)
  <1>1. same # {} => schema \in DOMAIN store.byCanonical
    BY DEF find_under_subject
  <1>2. same \subseteq Versions(store, s)
    BY DEF find_under_subject
  <1>3. v \in Numbers
    <2>1. same # {} => Min(same) \in same
      BY <1>2, StoreFacts, Zenon DEF MinIn
    <2>2. next_version(store, s) \in Numbers
      BY StoreFacts, Zenon DEF next_version
    <2> QED  BY <1>2, <2>1, <2>2, StoreFacts, Zenon
  <1>4. id \in Int
    BY StoreFacts
  <1>5. r = SchemaRecord(s, v, id, schema, FALSE)
    <2>1. CASE same # {}
      BY <1>1, <2>1, Zenon DEF register
    <2>2. CASE same = {}
      BY <2>2, Zenon DEF register
    <2> QED  BY <2>1, <2>2, Zenon
  <1>6. /\ Operation(r, <<>>) /\ effective_mode(store, s) = "READWRITE"
        /\ resolve_closure(store, Refs[schema]) /\ check_registration(store, s, schema)
    BY Zenon DEF Register
  <1>7. ASSUME BindInv, IdsLeft
        PROVE  id \in DOMAIN store.byId => store.byId[id] = schema
    <2>1. CASE schema \in DOMAIN store.byCanonical
      BY <1>7, <2>1, Zenon DEF BindInv, CanonicalSound
    <2>2. CASE schema \notin DOMAIN store.byCanonical
      <3>1. id = store.maxId + 1 /\ store.maxId \in Int
        BY <1>7, <2>2 DEF IdsLeft, next_id, StoreShape, StoreType
      <3>2. id \in DOMAIN store.byId => id <= store.maxId
        BY <1>7, Zenon DEF BindInv, IdsBelow
      <3> QED  BY <3>1, <3>2
    <2> QED  BY <2>1, <2>2, Zenon
  <1> HIDE DEF v, id, r, same
  <1>8. /\ r \in Records /\ HasSchema(r) /\ ~IsTombstone(r) /\ r.type = "SCHEMA"
        /\ r.subject = s /\ r.value.id = id /\ r.value.schema = schema
    <2>1. IsSchemaRecord(r, s, v, id, schema, FALSE)
      BY <1>3, <1>4, <1>5, SchemaRecordType, Zenon
    <2> QED  BY <2>1, Zenon DEF IsSchemaRecord
  <1>9. RecordShape(r)
    BY <1>6, <1>8 DEF RecordShape
  <1>10. RecordChecked(r)
    <2>1. ASSUME Quiet, NEW w \in LiveVersions(store, s)
          PROVE  check_pair(DefaultLevel, schema, SchemaOf(store, s, w))
      <3>1. effective_level(store, s) = DefaultLevel
        BY <2>1 DEF Quiet, Keys, effective_level, global_compat
      <3> QED  BY <1>6, <2>1, <3>1, Zenon DEF check_registration, Quiet
    <2> QED  BY <1>8, <2>1 DEF RecordChecked
  <1>11. (BindInv /\ IdsLeft) => RecordBinds(r)
    <2>1. \A p \in Refs[schema] : p[2] \in Versions(store, p[1])
      BY <1>6, RefsType, ResolvedExist, Zenon
    <2>2. KeepsId(r)
      BY <1>8, Zenon DEF KeepsId, id
    <2> QED  BY <1>7, <1>8, <2>1, <2>2, Zenon DEF RecordBinds, Rebinds
  <1> QED  BY <1>6, <1>9, <1>10, <1>11, OneRecord, Zenon DEF r

(* Import under an id. *)
LEMMA ImportSound ==
    ASSUME StoreShape, load \in Loads, NEW s \in Subjects, NEW schema \in Schemas,
           NEW id \in load.ids, NEW v \in load.versions, Import(s, schema, id, v)
    PROVE  SoundOperation(SchemaRecord(s, v, id, schema, FALSE), <<>>)
  <1> DEFINE r == SchemaRecord(s, v, id, schema, FALSE)
  <1>1. id \in Int /\ v \in Numbers /\ load.ids # {}
    BY RegistryAssumption, StoreAssumption DEF Numbers
  <1>2. /\ Operation(r, <<>>) /\ effective_mode(store, s) = "IMPORT"
        /\ resolve_closure(store, Refs[schema]) /\ ~schema_id_conflicts(store, id, schema)
    BY Zenon DEF Import
  <1>3. IsSchemaRecord(r, s, v, id, schema, FALSE)
    BY <1>1, SchemaRecordType, Zenon
  <1> HIDE DEF r
  <1>4. /\ r \in Records /\ HasSchema(r) /\ ~IsTombstone(r) /\ r.type = "SCHEMA"
        /\ r.subject = s /\ r.value.id = id /\ r.value.schema = schema
    BY <1>3, Zenon DEF IsSchemaRecord
  <1>5. RecordShape(r)
    BY <1>2, <1>4 DEF RecordShape
  <1>6. RecordChecked(r)
    BY <1>1, <1>4 DEF RecordChecked, Quiet
  <1>7. RecordBinds(r)
    <2>1. \A p \in Refs[schema] : p[2] \in Versions(store, p[1])
      BY <1>2, RefsType, ResolvedExist, Zenon
    <2>2. id \in DOMAIN store.byId => store.byId[id] = schema
      BY <1>2, Zenon DEF schema_id_conflicts
    <2>3. KeepsId(r)
      BY <1>1, Zenon DEF KeepsId
    <2> QED  BY <1>4, <2>1, <2>2, <2>3, Zenon DEF RecordBinds, Rebinds
  <1> QED  BY <1>2, <1>5, <1>6, <1>7, OneRecord, Zenon DEF r

(* Soft deletion of a version. *)
LEMMA SoftDeleteVersionSound ==
    ASSUME StoreShape, NEW s \in Subjects, NEW v \in Versions(store, s),
           SoftDeleteVersion(s, v)
    PROVE  \E r : SoundOperation(r, <<>>)
  <1> DEFINE id == store.subjects[s][v].id
             schema == SchemaOf(store, s, v)
             r == SchemaRecord(s, v, id, schema, TRUE)
  <1>1. v \in Numbers /\ id \in Int /\ schema \in Schemas
    BY StoreFacts, Zenon
  <1>2. Operation(r, <<>>) /\ effective_mode(store, s) # "READONLY"
    BY Zenon DEF SoftDeleteVersion, ensure_writable
  <1>3. store.byId[id] = schema
    BY Zenon DEF SchemaOf
  <1>4. IsSchemaRecord(r, s, v, id, schema, TRUE)
    <2> HIDE DEF id, schema
    <2> QED  BY <1>1, SchemaRecordType, Zenon
  <1> HIDE DEF r, id, schema
  <1>5. /\ r \in Records /\ HasSchema(r) /\ ~IsTombstone(r) /\ r.type = "SCHEMA"
        /\ r.subject = s /\ r.value.id = id /\ r.value.schema = schema
        /\ r.value.deleted
    BY <1>4, Zenon DEF IsSchemaRecord
  <1>6. RecordShape(r)
    BY <1>2, <1>5 DEF RecordShape
  <1>7. RecordChecked(r)
    BY <1>5 DEF RecordChecked
  <1>8. BindInv => RecordBinds(r)
    <2>1. ASSUME BindInv, load.ids = {}, Refs[schema] = {}
          PROVE  id = store.byCanonical[schema]
      <3>1. PICK i \in 1..Len(log) : EntryOf(store, log, Len(log), i, s, v)
        BY EntryRecord, Zenon DEF StoreShape, Faithful
      <3>2. HasSchema(log[i]) /\ log[i].value.id = id /\ log[i].value.schema = schema
        BY <1>3, <2>1, <3>1, Zenon DEF EntryOf, BindInv, BindsAll, id
      <3> QED  BY <2>1, <3>2, Zenon DEF BindInv, CanonicalFinds
    <2>2. BindInv => KeepsId(r)
      BY <1>5, <2>1, Zenon DEF KeepsId
    <2> QED  BY <1>3, <1>5, <2>2, Zenon DEF RecordBinds, Rebinds
  <1> QED  BY <1>2, <1>6, <1>7, <1>8, OneRecord, Zenon

(* The records that are not SCHEMA records bind nothing. *)
LEMMA OtherBinds ==
    ASSUME NEW r, r.type # "SCHEMA"
    PROVE  /\ RecordBinds(r)
           /\ (r.type # "CONFIG" \/ r.value = NoValue \/ load.levels # {}) => RecordChecked(r)
  BY Zenon DEF RecordBinds, KeepsId, RecordChecked, Rebinds, HasSchema, IsTombstone

(* Soft deletion of a subject. *)
LEMMA SoftDeleteSubjectSound ==
    ASSUME MaxIn, StoreShape, NEW s \in Subjects, SoftDeleteSubject(s)
    PROVE  \E r : SoundOperation(r, <<>>)
  <1> DEFINE v == Max(LiveVersions(store, s))
             r == DeleteSubject(s, v)
  <1>1. LiveVersions(store, s) \subseteq Numbers
    BY StoreFacts DEF LiveVersions
  <1>2. v \in Numbers
    BY <1>1, Zenon DEF SoftDeleteSubject, MaxIn
  <1>3. Operation(r, <<>>) /\ effective_mode(store, s) # "READONLY"
    BY Zenon DEF SoftDeleteSubject, ensure_writable
  <1> HIDE DEF v
  <1>4. r \in Records /\ r.type = "DELETE_SUBJECT" /\ r.subject = s
    BY <1>2, RecordTypes
  <1> HIDE DEF r
  <1>5. RecordShape(r) /\ r.type # "SCHEMA" /\ r.type # "CONFIG"
    BY <1>3, <1>4 DEF RecordShape, IsTombstone
  <1> QED  BY <1>3, <1>5, OneRecord, OtherBinds, Zenon

(* Permanent deletion of a version: the high-water record, then the        *)
(* tombstone.                                                              *)
LEMMA PermanentDeleteVersionSound ==
    ASSUME StoreShape, NEW s \in Subjects, NEW v \in Versions(store, s),
           PermanentDeleteVersion(s, v)
    PROVE  \E r, rest : SoundOperation(r, rest)
  <1> DEFINE next == next_version(store, s)
             r == VersionHighWater(s, next)
             e == Tombstone(s, v)
  <1>1. /\ next \in Numbers /\ v \in Numbers /\ next = store.nextVersions[s]
    BY StoreFacts, Zenon DEF next_version
  <1>2. /\ Operation(r, <<e>>) /\ effective_mode(store, s) # "READONLY"
        /\ ~referenced_by(store, s, v)
    BY Zenon DEF PermanentDeleteVersion, ensure_writable
  <1> HIDE DEF next
  <1>3. /\ r \in Records /\ r.type = "NOOP" /\ r.subject = s /\ r.value = next
    BY <1>1, RecordTypes
  <1>4. /\ e \in Records /\ e.type = "SCHEMA" /\ e.subject = s
        /\ e.version = v /\ e.value = NoValue
    BY <1>1, RecordTypes
  <1> HIDE DEF r, e
  <1>5. RecordShape(r) /\ r.type # "SCHEMA" /\ r.type # "CONFIG"
    BY <1>1, <1>3 DEF RecordShape, IsTombstone
  <1>6. RestShape(r, <<e>>)
    <2>1. /\ <<e>> \in Seq(Records)
          /\ \A i \in 1..Len(<<e>>) : <<e>>[i] = e
      BY <1>4
    <2> QED  BY <1>2, <1>3, <1>4, <2>1 DEF RestShape
  <1> QED  BY <1>2, <1>5, <1>6, OtherBinds, Zenon DEF SoundOperation

(* A function on 1..n is a sequence of n elements. *)
LEMMA TabulatedFacts ==
    ASSUME NEW S, NEW n \in Nat, NEW f \in [1..n -> S]
    PROVE  f \in Seq(S) /\ Len(f) = n
  <1>1. f \in Seq(S)
    OBVIOUS
  <1>2. DOMAIN f = 1..n /\ DOMAIN f = 1..Len(f) /\ Len(f) \in Nat
    BY <1>1
  <1> QED  BY <1>1, <1>2

(* The elements of a concatenation. *)
LEMMA ConcatFacts ==
    ASSUME NEW S, NEW a \in Seq(S), NEW b \in Seq(S)
    PROVE  /\ a \o b \in Seq(S) /\ Len(a \o b) = Len(a) + Len(b)
           /\ \A i \in 1..(Len(a) + Len(b)) :
                 (a \o b)[i] = IF i <= Len(a) THEN a[i] ELSE b[i - Len(a)]
  OBVIOUS

(* Permanent deletion of a subject: a tombstone for each version, then the *)
(* level and the mode.                                                     *)
LEMMA PermanentDeleteSubjectSound ==
    ASSUME CountsVersions, StoreShape, NEW s \in Subjects, PermanentDeleteSubject(s)
    PROVE  \E r, rest : SoundOperation(r, rest)
  <1> DEFINE next == next_version(store, s)
             r == VersionHighWater(s, next)
             last == <<Config(s, NoValue), Mode(s, NoValue)>>
             T(all) == [i \in DOMAIN all |-> Tombstone(s, all[i])]
  <1>1. PICK all \in [1..Cardinality(Versions(store, s)) -> Versions(store, s)] :
           Operation(r, T(all) \o last)
    BY Zenon DEF PermanentDeleteSubject
  <1> DEFINE n == Cardinality(Versions(store, s))
             rest == T(all) \o last
  <1>2. /\ effective_mode(store, s) # "READONLY"
        /\ \A v \in Versions(store, s) : ~referenced_by(store, s, v)
    BY Zenon DEF PermanentDeleteSubject, ensure_writable
  <1>3. next \in Numbers /\ next = store.nextVersions[s]
    BY StoreFacts, Zenon DEF next_version
  <1>4. n \in Nat
    BY Zenon DEF CountsVersions
  <1>5. \A i \in 1..n : all[i] \in Versions(store, s) /\ all[i] \in Numbers
    BY StoreFacts, Zenon
  <1> HIDE DEF next, n
  <1>6. /\ r \in Records /\ r.type = "NOOP" /\ r.subject = s /\ r.value = next
    BY <1>3, RecordTypes
  <1>7. /\ last \in Seq(Records) /\ Len(last) = 2
        /\ last[1].type = "CONFIG" /\ last[1].subject = s /\ last[1].value = NoValue
        /\ last[2].type = "MODE" /\ last[2].subject = s /\ last[2].value = NoValue
    <2>1. s \in Keys /\ s # NoSubject
      BY StoreAssumption, Zenon DEF Keys
    <2>2. /\ Config(s, NoValue) \in Records /\ Mode(s, NoValue) \in Records
          /\ Config(s, NoValue).type = "CONFIG" /\ Config(s, NoValue).subject = s
          /\ Config(s, NoValue).value = NoValue
          /\ Mode(s, NoValue).type = "MODE" /\ Mode(s, NoValue).subject = s
          /\ Mode(s, NoValue).value = NoValue
      BY <2>1, RecordTypes
    <2> QED  BY <2>2
  <1>8. /\ T(all) \in Seq(Records) /\ Len(T(all)) = n
        /\ \A i \in 1..n : /\ T(all)[i].type = "SCHEMA" /\ T(all)[i].subject = s
                           /\ T(all)[i].version = all[i] /\ T(all)[i].value = NoValue
    <2>1. \A i \in 1..n : /\ Tombstone(s, all[i]) \in Records
                          /\ Tombstone(s, all[i]).type = "SCHEMA"
                          /\ Tombstone(s, all[i]).subject = s
                          /\ Tombstone(s, all[i]).version = all[i]
                          /\ Tombstone(s, all[i]).value = NoValue
      BY <1>5, RecordTypes
    <2>2. DOMAIN all = 1..n
      BY DEF n
    <2>3. T(all) = [i \in 1..n |-> Tombstone(s, all[i])]
      BY <2>2
    <2>4. T(all) \in [1..n -> Records]
      BY <2>1, <2>3
    <2>5. T(all) \in Seq(Records) /\ Len(T(all)) = n
      BY <1>4, <2>4, TabulatedFacts, Zenon
    <2>7. \A i \in 1..n : T(all)[i] = Tombstone(s, all[i])
      BY <2>3, Zenon
    <2> QED  BY <2>1, <2>5, <2>7, Zenon
  <1> HIDE DEF T, last, r
  <1>9. /\ rest \in Seq(Records) /\ Len(rest) = n + 2
        /\ \A i \in 1..n : rest[i] = T(all)[i]
        /\ rest[n + 1] = last[1] /\ rest[n + 2] = last[2]
    <2>1. T(all) \in Seq(Records) /\ Len(T(all)) = n /\ last \in Seq(Records) /\ Len(last) = 2
      BY <1>7, <1>8
    <2>2. /\ rest \in Seq(Records) /\ Len(rest) = Len(T(all)) + Len(last)
          /\ \A i \in 1..(Len(T(all)) + Len(last)) :
                rest[i] = IF i <= Len(T(all)) THEN T(all)[i] ELSE last[i - Len(T(all))]
      BY <2>1, ConcatFacts, Zenon
    <2> HIDE DEF rest
    <2>3. \A i \in 1..(n + 2) : rest[i] = IF i <= n THEN T(all)[i] ELSE last[i - n]
      BY <2>1, <2>2
    <2>4. \A i \in 1..n : i \in 1..(n + 2) /\ i <= n
      BY <1>4
    <2>5. /\ n + 1 \in 1..(n + 2) /\ ~(n + 1 <= n) /\ (n + 1) - n = 1
          /\ n + 2 \in 1..(n + 2) /\ ~(n + 2 <= n) /\ (n + 2) - n = 2
      BY <1>4
    <2> QED  BY <2>1, <2>2, <2>3, <2>4, <2>5, ZenonT(30)
  <1>10. \A i \in 1..(n + 2) : i \in 1..n \/ i = n + 1 \/ (i = n + 2 /\ i = Len(rest))
    BY <1>4, <1>9
  <1> HIDE DEF rest
  <1>11. RestShape(r, rest)
    <2> SUFFICES ASSUME NEW i \in 1..(n + 2)
                 PROVE  /\ rest[i].value = NoValue /\ rest[i].subject = r.subject
                        /\ rest[i].type \in {"SCHEMA", "CONFIG", "MODE"}
                        /\ rest[i].type = "SCHEMA" =>
                              /\ rest[i].version \in Versions(store, r.subject)
                              /\ ~referenced_by(store, r.subject, rest[i].version)
                        /\ rest[i].type = "MODE" => i = Len(rest)
      BY <1>2, <1>6, <1>9, Zenon DEF RestShape
    <2>1. CASE i \in 1..n
      BY <1>2, <1>5, <1>6, <1>8, <1>9, <2>1, ZenonT(30)
    <2>2. CASE i = n + 1
      BY <1>6, <1>7, <1>9, <2>2, Zenon
    <2>3. CASE i = n + 2 /\ i = Len(rest)
      BY <1>6, <1>7, <1>9, <2>3, Zenon
    <2> QED  BY <1>10, <2>1, <2>2, <2>3, Zenon
  <1>12. RecordShape(r) /\ r.type # "SCHEMA" /\ r.type # "CONFIG"
    BY <1>3, <1>6 DEF RecordShape, IsTombstone
  <1> QED  BY <1>1, <1>11, <1>12, OtherBinds, Zenon DEF SoundOperation, rest

(* Levels and modes. *)
LEMMA SettingSound ==
    ASSUME NEW r, r \in Records, Operation(r, <<>>),
           r.type = "MODE" \/ (r.type = "CONFIG" /\ (r.value = NoValue \/ load.levels # {}))
    PROVE  SoundOperation(r, <<>>)
  <1>1. RecordShape(r) /\ r.type # "SCHEMA"
    BY DEF RecordShape, IsTombstone
  <1>2. r.type # "CONFIG" \/ r.value = NoValue \/ load.levels # {}
    OBVIOUS
  <1> QED  BY <1>1, <1>2, OneRecord, OtherBinds, Zenon

-------------------------------------------------------------------------------
(* The steps. *)

(* The record that is next. *)
LEMMA TodoSound ==
    ASSUME TodoShape, todo # <<>>
    PROVE  /\ Len(todo) \in Nat /\ 1 \in 1..Len(todo) /\ Head(todo) = todo[1]
           /\ Tail(todo) \in Seq(Records) /\ Len(Tail(todo)) + 1 = Len(todo)
           /\ \A i \in 1..Len(Tail(todo)) :
                 i + 1 \in 1..Len(todo) /\ Tail(todo)[i] = todo[i + 1]
           /\ RecordShape(Head(todo))
  <1>1. todo \in Seq(Records)
    BY Zenon DEF TodoShape
  <1>2. Len(todo) \in Nat /\ 1 \in 1..Len(todo) /\ Head(todo) = todo[1]
    BY <1>1
  <1>3. Tail(todo) \in Seq(Records) /\ Len(Tail(todo)) + 1 = Len(todo)
    BY <1>1
  <1>4. \A i \in 1..Len(Tail(todo)) : i + 1 \in 1..Len(todo) /\ Tail(todo)[i] = todo[i + 1]
    BY <1>1, <1>3
  <1>5. TodoRecord(todo[1])
    BY <1>2, Zenon DEF TodoShape
  <1>6. RecordShape(todo[1])
    BY <1>5 DEF TodoRecord, RecordShape, IsTombstone
  <1> QED  BY <1>2, <1>3, <1>4, <1>6, Zenon

(* A mode changes only by a MODE record. *)
LEMMA ModeKept ==
    ASSUME StoreType(store), NEW r \in Records, r.type # "MODE",
           store' = apply_record(store, r), NEW s \in Subjects
    PROVE  effective_mode(store', s) = effective_mode(store, s)
  <1>1. SettingAfter(store.mode, store'.mode, "MODE", r)
    BY SettingsAfter, Zenon
  <1>2. \A k \in Keys : store'.mode[k] = store.mode[k]
    BY <1>1, Zenon DEF SettingAfter
  <1>3. s \in Keys /\ NoSubject \in Keys
    BY DEF Keys
  <1> QED  BY <1>2, <1>3, Zenon DEF effective_mode, global_mode

(* A version of the store is below the next one. *)
LEMMA VersionBelowNext ==
    ASSUME LogShape, StoreShape, NEW s \in Subjects, NEW v \in Versions(store, s)
    PROVE  After(v) <= store.nextVersions[s]
  <1>1. /\ EntriesFrom(store, log, Len(log)) /\ NextFrom(store, log, Len(log))
    BY Zenon DEF StoreShape, Faithful
  <1>2. PICK i \in 1..Len(log) : EntryOf(store, log, Len(log), i, s, v)
    BY <1>1, EntryRecord, Zenon
  <1>3. Asks(log[i], s) /\ AsksFor(log[i]) = After(v)
    BY <1>2 DEF EntryOf, HasSchema, Asks, AsksFor
  <1> QED  BY <1>1, <1>3, Zenon DEF NextFrom

(* After the first record of an operation. *)
LEMMA OperationShape ==
    ASSUME ShapeInv, NEW r, NEW rest, SoundOperation(r, rest)
    PROVE  ShapeInv'
  <1>1. /\ load \in Loads /\ writes \in Nat /\ LogShape /\ StoreShape /\ StoreType(store)
    BY Zenon DEF ShapeInv, StoreShape
  <1>2. /\ log' = Append(log, r) /\ store' = apply_record(store, r)
        /\ load' = load /\ writes' = writes + 1 /\ todo' = rest
        /\ RecordShape(r) /\ r \in Records /\ RestShape(r, rest)
    BY Zenon DEF SoundOperation, Operation, Write, RecordShape
  <1>3. LogShape' /\ StoreShape'
    BY <1>1, <1>2, WriteLog, WriteStore, Zenon
  <1>4. load' \in Loads /\ writes' \in Nat
    BY <1>1, <1>2
  <1>5. ASSUME NEW i \in 1..Len(rest)
        PROVE  TodoRecord(rest[i])'
    <2>1. /\ rest \in Seq(Records) /\ rest[i] \in Records /\ rest # <<>>
      BY <1>2 DEF RestShape
    <2>2. /\ r.type = "NOOP" /\ effective_mode(store, r.subject) # "READONLY"
          /\ rest[i].value = NoValue /\ rest[i].subject = r.subject
          /\ rest[i].type \in {"SCHEMA", "CONFIG", "MODE"}
          /\ rest[i].type = "SCHEMA" => rest[i].version \in Versions(store, r.subject)
      BY <1>2, <2>1, Zenon DEF RestShape
    <2>3. r.subject \in Subjects /\ r.value = store.nextVersions[r.subject]
      BY <1>2, <2>2, RecordFacts, Zenon DEF RecordShape
    <2>4. effective_mode(store', r.subject) # "READONLY"
      <3>1. r.type # "MODE"
        BY <2>2
      <3> QED  BY <1>1, <1>2, <2>2, <2>3, <3>1, ModeKept, Zenon
    <2>5. ASSUME rest[i].type = "SCHEMA"
          PROVE  Covered(log', r.subject, rest[i].version)
      <3>1. Len(log) + 1 \in DOMAIN log' /\ log'[Len(log) + 1] = r
        <4>1. log \in Seq(Records)
          BY <1>1, Zenon DEF LogShape
        <4> QED  BY <1>2, <4>1, AppendFacts
      <3>2. After(rest[i].version) <= store.nextVersions[r.subject]
        BY <1>1, <2>2, <2>3, <2>5, VersionBelowNext, Zenon
      <3> QED  BY <2>2, <2>3, <3>1, <3>2, Zenon DEF Covered
    <2> QED  BY <2>1, <2>2, <2>3, <2>4, <2>5, Zenon DEF TodoRecord
  <1>6. TodoShape'
    <2>1. rest \in Seq(Records)
      BY <1>2, Zenon DEF RestShape
    <2>2. \A i \in 1..Len(rest) : rest[i].type = "MODE" => i = Len(rest)
      BY <1>2, Zenon DEF RestShape
    <2> QED  BY <1>2, <1>5, <2>1, <2>2, Zenon DEF TodoShape
  <1> QED  BY <1>3, <1>4, <1>6, Zenon DEF ShapeInv

(* After a further record. *)
LEMMA WriteNextShape ==
    ASSUME ShapeInv, WriteNext
    PROVE  ShapeInv'
  <1>0. PICK r, tail : r = Head(todo) /\ tail = Tail(todo)
    BY Zenon
  <1>1. /\ load \in Loads /\ writes \in Nat /\ LogShape /\ StoreShape /\ StoreType(store)
        /\ TodoShape
    BY Zenon DEF ShapeInv, StoreShape
  <1>2. /\ log' = Append(log, r) /\ store' = apply_record(store, r)
        /\ load' = load /\ writes' = writes + 1 /\ todo' = tail /\ todo # <<>>
    BY <1>0, Zenon DEF WriteNext, Write
  <1>3. /\ Len(todo) \in Nat /\ 1 \in 1..Len(todo) /\ r = todo[1]
        /\ tail \in Seq(Records) /\ Len(tail) + 1 = Len(todo)
        /\ \A i \in 1..Len(tail) : i + 1 \in 1..Len(todo) /\ tail[i] = todo[i + 1]
        /\ RecordShape(r)
    BY <1>0, <1>1, <1>2, TodoSound
  <1>4. r \in Records
    BY <1>3, Zenon DEF RecordShape
  <1>5. LogShape' /\ StoreShape' /\ \A s, v : Covered(log, s, v) => Covered(log', s, v)
    BY <1>1, <1>2, <1>3, <1>4, WriteLog, WriteStore, Zenon
  <1>6. load' \in Loads /\ writes' \in Nat
    BY <1>1, <1>2
  <1>7. ASSUME NEW i \in 1..Len(tail)
        PROVE  TodoRecord(tail[i])' /\ (tail[i].type = "MODE" => i = Len(tail))
    <2>1. i + 1 \in 1..Len(todo) /\ tail[i] = todo[i + 1] /\ Len(tail) \in Nat
      BY <1>3
    <2>2. TodoRecord(tail[i]) /\ (tail[i].type = "MODE" => i + 1 = Len(todo))
      BY <1>1, <2>1, Zenon DEF TodoShape
    <2>3. r.type # "MODE"
      <3>1. 1 # Len(todo)
        BY <1>3, <2>1
      <3> QED  BY <1>1, <1>3, <3>1, Zenon DEF TodoShape
    <2>4. \A s \in Subjects : effective_mode(store', s) = effective_mode(store, s)
      BY <1>1, <1>2, <1>4, <2>3, ModeKept, Zenon
    <2>5. TodoRecord(tail[i])'
      BY <1>5, <2>2, <2>4, Zenon DEF TodoRecord
    <2>6. tail[i].type = "MODE" => i = Len(tail)
      BY <1>3, <2>1, <2>2
    <2> QED  BY <2>5, <2>6, Zenon
  <1>8. TodoShape'
    BY <1>2, <1>3, <1>7, Zenon DEF TodoShape
  <1> QED  BY <1>5, <1>6, <1>8, Zenon DEF ShapeInv

(* What is cleaned may be removed. *)
LEMMA CompactRemoves ==
    ASSUME LogShape, Compact
    PROVE  \E k \in 1..Len(log) :
              /\ MayRemove(log, k) /\ Without(log', log, k) /\ log' \in Seq(Records)
  <1>1. log \in Seq(Records) /\ DOMAIN log = 1..Len(log)
    BY DEF LogShape
  <1>2. PICK k \in 1..Len(log) :
           /\ Cleanable(k)
           /\ log' = SubSeq(log, 1, k - 1) \o SubSeq(log, k + 1, Len(log))
    BY <1>1, Zenon DEF Compact
  <1>3. MayRemove(log, k)
    BY <1>1, <1>2, Zenon DEF Cleanable, MayRemove
  <1>4. log' \in Seq(Records) /\ Without(log', log, k)
    BY <1>1, <1>2, RemoveWithout, Zenon
  <1> QED  BY <1>3, <1>4, Zenon

(* After the log cleaner. *)
LEMMA CompactShape ==
    ASSUME ShapeInv, Compact
    PROVE  ShapeInv'
  <1>1. /\ load \in Loads /\ writes \in Nat /\ LogShape /\ StoreShape /\ TodoShape
    BY Zenon DEF ShapeInv
  <1>2. load' = load /\ store' = store /\ todo' = todo /\ writes' = writes
    BY Zenon DEF Compact
  <1>3. PICK k \in 1..Len(log) :
           MayRemove(log, k) /\ Without(log', log, k) /\ log' \in Seq(Records)
    BY <1>1, CompactRemoves, Zenon
  <1>4. /\ log \in Seq(Records) /\ HighWatersAscend(log) /\ TombstonesCovered(log)
        /\ StoreType(store) /\ Faithful(store, log, Len(log)) /\ KnowsIds(store, log, Len(log))
    BY <1>1, Zenon DEF LogShape, StoreShape
  <1>5. /\ HighWatersAscend(log') /\ TombstonesCovered(log')
        /\ \A s, v : (v \in Numbers /\ Covered(log, s, v)) => Covered(log', s, v)
    BY <1>3, <1>4, RemoveCovers, Zenon
  <1>6. Faithful(store, log', Len(log')) /\ KnowsIds(store, log', Len(log'))
    BY <1>3, <1>4, RemoveFaithful, Zenon
  <1>7. LogShape' /\ StoreShape'
    BY <1>2, <1>3, <1>4, <1>5, <1>6, Zenon DEF LogShape, StoreShape
  <1>8. TodoShape'
    <2>1. ASSUME NEW r, TodoRecord(r)
          PROVE  TodoRecord(r)'
      <3>1. r.type = "SCHEMA" => r.version \in Numbers
        BY <2>1, RecordFacts, Zenon DEF TodoRecord
      <3> QED  BY <1>2, <1>5, <2>1, <3>1, Zenon DEF TodoRecord
    <2>2. \A r : TodoRecord(r) => TodoRecord(r)'
      BY <2>1, Zenon
    <2> QED  BY <1>1, <1>2, <2>2, Zenon DEF TodoShape
  <1> QED  BY <1>1, <1>2, <1>7, <1>8, Zenon DEF ShapeInv

(* A largest id does not matter to the records. *)
LEMMA LargerIdGood ==
    ASSUME NEW rs, NEW n, NEW st, PrefixGood(st, rs, n), NEW m \in Int,
           NEW t, t = [st EXCEPT !.maxId = Larger(@, m)]
    PROVE  PrefixGood(t, rs, n)
  <1>1. StoreType(st)
    BY Zenon DEF PrefixGood
  <1>2. /\ HasFields(t) /\ t.subjects = st.subjects /\ t.byId = st.byId
        /\ t.byCanonical = st.byCanonical /\ t.canonicalById = st.canonicalById
        /\ t.compat = st.compat /\ t.mode = st.mode /\ t.nextVersions = st.nextVersions
        /\ t.maxId = Larger(st.maxId, m)
    BY <1>1 DEF StoreType, HasFields
  <1>3. t.maxId \in Int /\ st.maxId \in Int /\ t.maxId >= st.maxId
    BY <1>1, <1>2 DEF StoreType, Larger
  <1>4. StoreType(t)
    BY <1>1, <1>2, <1>3, Zenon DEF StoreType
  <1>5. \A s : Versions(t, s) = Versions(st, s)
    BY <1>2, Zenon DEF Versions
  <1>6. Faithful(st, rs, n) => Faithful(t, rs, n)
    <2>1. ASSUME EntriesFrom(st, rs, n) PROVE EntriesFrom(t, rs, n)
      <3>1. ASSUME NEW s \in Subjects, NEW v \in Versions(t, s)
            PROVE  \E i \in 1..n : /\ IsLatest(rs, n, i) /\ HasSchema(rs[i])
                                  /\ rs[i].subject = s /\ rs[i].version = v
        BY <1>5, <2>1 DEF EntriesFrom
      <3>2. ASSUME NEW i \in 1..n, IsLatest(rs, n, i), HasSchema(rs[i])
            PROVE  /\ rs[i].version \in Versions(t, rs[i].subject)
                   /\ t.subjects[rs[i].subject][rs[i].version].id = rs[i].value.id
                   /\ t.subjects[rs[i].subject][rs[i].version].deleted
                        <=> (rs[i].value.deleted \/ Marked(rs, n, i))
        BY <1>2, <1>5, <2>1, <3>2, Zenon DEF EntriesFrom
      <3>3. \A s \in Subjects : \A v \in Versions(t, s) : \E i \in 1..n :
               /\ IsLatest(rs, n, i) /\ HasSchema(rs[i])
               /\ rs[i].subject = s /\ rs[i].version = v
        BY <3>1
      <3>4. \A i \in 1..n : (IsLatest(rs, n, i) /\ HasSchema(rs[i])) =>
               /\ rs[i].version \in Versions(t, rs[i].subject)
               /\ t.subjects[rs[i].subject][rs[i].version].id = rs[i].value.id
               /\ t.subjects[rs[i].subject][rs[i].version].deleted
                    <=> (rs[i].value.deleted \/ Marked(rs, n, i))
        BY <3>2, Zenon
      <3> QED  BY <3>3, <3>4, Zenon DEF EntriesFrom
    <2>2. NextFrom(st, rs, n) => NextFrom(t, rs, n)
      BY <1>2, Zenon DEF NextFrom
    <2> QED  BY <1>2, <2>1, <2>2, Zenon DEF Faithful
  <1>7. IdsBelow(st) => IdsBelow(t)
    <2>1. DOMAIN st.byId \subseteq Int
      BY <1>1, Zenon DEF StoreType, IsMap
    <2> QED  BY <1>2, <1>3, <2>1 DEF IdsBelow
  <1>8. /\ KnowsIds(st, rs, n) => KnowsIds(t, rs, n)
        /\ BindsAll(st, rs, n) => BindsAll(t, rs, n)
        /\ BindsOnly(st, rs, n) => BindsOnly(t, rs, n)
        /\ CanonicalSound(st) => CanonicalSound(t)
        /\ CanonicalFinds(st, rs, n) => CanonicalFinds(t, rs, n)
    BY <1>2 DEF KnowsIds, BindsAll, BindsOnly, CanonicalSound, CanonicalFinds
  <1> QED  BY <1>4, <1>6, <1>7, <1>8, Zenon DEF PrefixGood

(* The store made from the log is good, and shows what the live one shows. *)
LEMMA RebuildGood ==
    ASSUME ReplayIsGood, StoreShape, Restart \/ ResetToLogStart
    PROVE  PrefixGood(store', log, Len(log)) /\ Agree(store, store')
  <1>2. PrefixGood(Replay(log), log, Len(log))
    BY Zenon DEF ReplayIsGood
  <1>3. ASSUME Restart PROVE PrefixGood(store', log, Len(log))
    BY <1>2, <1>3, Zenon DEF Restart
  <1>4. ASSUME ResetToLogStart PROVE PrefixGood(store', log, Len(log))
    <2>1. store.maxId \in Int
      BY Zenon DEF StoreShape, StoreType
    <2> QED  BY <1>2, <1>4, <2>1, LargerIdGood, Zenon DEF ResetToLogStart
  <1>5. PrefixGood(store', log, Len(log))
    BY <1>3, <1>4, Zenon
  <1>6. Agree(store, store')
    BY <1>5, Determined, Zenon DEF PrefixGood, StoreShape
  <1> QED  BY <1>5, <1>6, Zenon

(* After a restart or a rebuild. *)
LEMMA RebuildShape ==
    ASSUME ReplayIsGood, ShapeInv, Restart \/ ResetToLogStart
    PROVE  ShapeInv'
  <1>1. /\ load \in Loads /\ writes \in Nat /\ LogShape /\ StoreShape /\ TodoShape
    BY Zenon DEF ShapeInv
  <1>2. /\ load' = load /\ log' = log /\ writes' = writes
        /\ todo' = todo \/ todo' = <<>>
    BY Zenon DEF Restart, ResetToLogStart
  <1>3. PrefixGood(store', log, Len(log)) /\ Agree(store, store')
    BY <1>1, RebuildGood, Zenon
  <1>4. LogShape' /\ StoreShape'
    BY <1>1, <1>2, <1>3, Zenon DEF LogShape, StoreShape, PrefixGood
  <1>5. TodoShape'
    <2>1. CASE todo' = <<>>
      BY <2>1 DEF TodoShape
    <2>2. \A s : effective_mode(store', s) = effective_mode(store, s)
      BY <1>3, Zenon DEF Agree, effective_mode, global_mode
    <2>3. \A r : TodoRecord(r) => TodoRecord(r)'
      BY <1>2, <2>2, Zenon DEF TodoRecord
    <2>4. CASE todo' = todo
      BY <1>1, <2>3, <2>4, Zenon DEF TodoShape
    <2> QED  BY <1>2, <2>1, <2>4, Zenon
  <1> QED  BY <1>1, <1>2, <1>4, <1>5, Zenon DEF ShapeInv

(* A record never lowers a next version, and leaves alone the versions of  *)
(* a subject that is read-only.                                            *)
LEMMA RecordKeeps ==
    ASSUME StoreType(store), NEW r, RecordShape(r), store' = apply_record(store, r),
           NEW s \in Subjects
    PROVE  /\ store'.nextVersions[s] >= store.nextVersions[s]
           /\ effective_mode(store, s) = "READONLY" =>
                store'.subjects[s] = store.subjects[s]
  <1>1. r \in Records /\ HasMaps(store)
    BY DEF RecordShape, HasMaps, StoreType
  <1>2. NextAfter(store.nextVersions, store'.nextVersions, r)
    BY <1>1, SettingsAfter, Zenon
  <1>3. store.nextVersions[s] \in Numbers /\ (Asks(r, s) => AsksFor(r) \in Numbers)
    BY <1>1, AsksForNumber DEF StoreType
  <1>4. store'.nextVersions[s] =
          IF Asks(r, s) THEN Larger(store.nextVersions[s], AsksFor(r))
          ELSE store.nextVersions[s]
    BY <1>2, Zenon DEF NextAfter
  <1>5. store'.nextVersions[s] >= store.nextVersions[s]
    BY <1>3, <1>4, StoreAssumption DEF Larger, Numbers
  <1>6. ASSUME effective_mode(store, s) = "READONLY"
        PROVE  store'.subjects[s] = store.subjects[s]
    <2>1. CASE r.type \in {"SCHEMA", "DELETE_SUBJECT"}
      <3>1. r.subject # s
        BY <1>6, <2>1, Zenon DEF RecordShape
      <3>2. HasSchema(r) \/ IsTombstone(r) \/ r.type = "DELETE_SUBJECT"
        BY <2>1 DEF HasSchema, IsTombstone
      <3>3. \A f, e : f = [x \in Subjects |-> f[x]] => [f EXCEPT ![r.subject] = e][s] = f[s]
        BY <3>1
      <3>4. \E e : store'.subjects = [store.subjects EXCEPT ![r.subject] = e]
        <4>1. HasSchema(r) => SchemaEffect(store, store', r.subject, r.version, r.value)
          BY <1>1, ApplyCases, Zenon
        <4>2. IsTombstone(r) => TombstoneEffect(store, store', r.subject, r.version)
          BY <1>1, ApplyCases, Zenon
        <4>3. r.type = "DELETE_SUBJECT" => MarkerEffect(store, store', r.subject)
          BY <1>1, ApplyCases, Zenon
        <4> QED  BY <3>2, <4>1, <4>2, <4>3, Zenon DEF SchemaEffect, TombstoneEffect, MarkerEffect
      <3> QED  BY <1>1, <3>3, <3>4, Zenon DEF HasMaps
    <2>2. CASE r.type \notin {"SCHEMA", "DELETE_SUBJECT"}
      <3>1. r.type \in {"NOOP", "MODE", "CONFIG"}
        BY <1>1, <2>2, RecordFacts DEF HasSchema, IsTombstone
      <3>2. r.type = "NOOP" => HighWaterEffect(store, store', r.subject, r.value)
        BY <1>1, ApplyCases, Zenon
      <3>3. r.type = "MODE" => ModeEffect(store, store', r.subject, r.value)
        BY <1>1, ApplyCases, Zenon
      <3>4. r.type = "CONFIG" => ConfigEffect(store, store', r.subject, r.value)
        BY <1>1, ApplyCases, Zenon
      <3> QED  BY <3>1, <3>2, <3>3, <3>4, Zenon DEF HighWaterEffect, ModeEffect, ConfigEffect
    <2> QED  BY <2>1, <2>2, Zenon
  <1> QED  BY <1>5, <1>6, Zenon

-------------------------------------------------------------------------------
(* Ids, references and checks. *)

(* The bindings stay. *)
LEMMA IdsStay ==
    ASSUME StoreShape, NEW r \in Records, ~Rebinds(store, r), store' = apply_record(store, r)
    PROVE  \A id \in DOMAIN store.byId :
              id \in DOMAIN store'.byId /\ store'.byId[id] = store.byId[id]
  <1>1. HasMaps(store)
    BY DEF StoreShape, StoreType, HasMaps
  <1>2. CASE HasSchema(r)
    <2>1. SchemaEffect(store, store', r.subject, r.version, r.value)
      BY <1>1, <1>2, ApplyCases, Zenon
    <2>2. store'.byId = Put(store.byId, r.value.id, r.value.schema)
      BY <2>1, Zenon DEF SchemaEffect
    <2> QED  BY <1>2, <2>2 DEF Put, Rebinds
  <1>3. CASE ~HasSchema(r)
    <2>1. KeepsIds(store, store')
      BY <1>1, <1>3, ApplyCases, Zenon
         DEF TombstoneEffect, MarkerEffect, HighWaterEffect, ModeEffect, ConfigEffect
    <2> QED  BY <2>1, Zenon DEF KeepsIds
  <1> QED  BY <1>2, <1>3, Zenon

(* A live version after a record is the record's, or was live before with  *)
(* the same schema.                                                        *)
LiveAfter(r, t, w) ==
    \/ /\ HasSchema(r) /\ ~r.value.deleted /\ r.subject = t /\ r.version = w
       /\ SchemaOf(store', t, w) = r.value.schema
    \/ w \in LiveVersions(store, t) /\ SchemaOf(store', t, w) = SchemaOf(store, t, w)

(* What a record leaves of an entry: it stays, or stays but is deleted. *)
SameOrDeleted(f, g, w) ==
    /\ w \in DOMAIN f /\ g[w].id = f[w].id
    /\ f[w].deleted => g[w].deleted

(* How the versions of a subject change. *)
LEMMA VersionsAfter ==
    ASSUME StoreShape, NEW r \in Records, store' = apply_record(store, r), NEW t \in Subjects
    PROVE  /\ \A w \in Versions(store', t) :
                 \/ /\ HasSchema(r) /\ r.subject = t /\ r.version = w
                    /\ store'.subjects[t][w] =
                          [id |-> r.value.id, deleted |-> r.value.deleted]
                 \/ SameOrDeleted(store.subjects[t], store'.subjects[t], w)
           /\ \A w \in Versions(store, t) :
                 \/ w \in Versions(store', t)
                 \/ IsTombstone(r) /\ r.subject = t /\ r.version = w
  <1> DEFINE f == store.subjects[t]
             g == store'.subjects[t]
             e == [id |-> r.value.id, deleted |-> r.value.deleted]
  <1>1. HasMaps(store) /\ store.subjects = [x \in Subjects |-> store.subjects[x]]
    BY DEF StoreShape, StoreType, HasMaps
  <1>2. CASE HasSchema(r)
    <2>1. SchemaEffect(store, store', r.subject, r.version, r.value)
      BY <1>1, <1>2, ApplyCases, Zenon
    <2>2. store'.subjects = [store.subjects EXCEPT ![r.subject] = Put(@, r.version, e)]
      BY <2>1, Zenon DEF SchemaEffect
    <2> HIDE DEF e
    <2>3. g = IF r.subject = t THEN Put(f, r.version, e) ELSE f
      BY <1>1, <2>2
    <2> HIDE DEF f, g
    <2>4. /\ \A w \in DOMAIN g : \/ r.subject = t /\ r.version = w /\ g[w] = e
                                 \/ w \in DOMAIN f /\ g[w] = f[w]
          /\ DOMAIN f \subseteq DOMAIN g
      BY <2>3 DEF Put
    <2> QED  BY <1>2, <2>4, Zenon DEF SameOrDeleted, Versions, f, g, e
  <1>3. CASE IsTombstone(r)
    <2>1. TombstoneEffect(store, store', r.subject, r.version)
      BY <1>1, <1>3, ApplyCases, Zenon
    <2>2. store'.subjects = [store.subjects EXCEPT ![r.subject] = Drop(@, {r.version})]
      BY <2>1, Zenon DEF TombstoneEffect
    <2>3. g = IF r.subject = t THEN Drop(f, {r.version}) ELSE f
      BY <1>1, <2>2
    <2> HIDE DEF f, g
    <2>4. /\ \A w \in DOMAIN g : w \in DOMAIN f /\ g[w] = f[w]
          /\ \A w \in DOMAIN f : w \in DOMAIN g \/ (r.subject = t /\ r.version = w)
      BY <2>3 DEF Drop
    <2> QED  BY <1>3, <2>4, Zenon DEF SameOrDeleted, Versions, f, g
  <1>4. CASE r.type = "DELETE_SUBJECT"
    <2>1. MarkerEffect(store, store', r.subject)
      BY <1>1, <1>4, ApplyCases, Zenon
    <2>2. store'.subjects = [store.subjects EXCEPT ![r.subject] =
            [w \in DOMAIN @ |-> [id |-> @[w].id, deleted |-> TRUE]]]
      BY <2>1, Zenon DEF MarkerEffect
    <2>3. g = IF r.subject = t THEN [w \in DOMAIN f |-> [id |-> f[w].id, deleted |-> TRUE]]
              ELSE f
      BY <1>1, <2>2, ZenonT(30)
    <2> HIDE DEF f, g
    <2>4. /\ DOMAIN g = DOMAIN f
          /\ \A w \in DOMAIN g : SameOrDeleted(f, g, w)
      BY <2>3 DEF SameOrDeleted
    <2> QED  BY <2>4, Zenon DEF Versions, f, g
  <1>5. CASE r.type \in {"NOOP", "MODE", "CONFIG"}
    <2>1. r.type = "NOOP" => HighWaterEffect(store, store', r.subject, r.value)
      BY <1>1, ApplyCases, Zenon
    <2>2. r.type = "MODE" => ModeEffect(store, store', r.subject, r.value)
      BY <1>1, ApplyCases, Zenon
    <2>3. r.type = "CONFIG" => ConfigEffect(store, store', r.subject, r.value)
      BY <1>1, ApplyCases, Zenon
    <2>4. store'.subjects = store.subjects
      BY <1>5, <2>1, <2>2, <2>3, Zenon DEF HighWaterEffect, ModeEffect, ConfigEffect
    <2> QED  BY <2>4, Zenon DEF SameOrDeleted, Versions
  <1> HIDE DEF f, g, e
  <1>6. \/ HasSchema(r) \/ IsTombstone(r) \/ r.type = "DELETE_SUBJECT"
        \/ r.type \in {"NOOP", "MODE", "CONFIG"}
    BY RecordFacts
  <1> QED  BY <1>2, <1>3, <1>4, <1>5, <1>6, Zenon

(* A live version after a record. *)
LEMMA LiveIsAfter ==
    ASSUME StoreShape, NEW r \in Records, ~Rebinds(store, r), store' = apply_record(store, r),
           NEW t \in Subjects, NEW w \in LiveVersions(store', t)
    PROVE  LiveAfter(r, t, w)
  <1>1. w \in Versions(store', t) /\ ~store'.subjects[t][w].deleted
    BY DEF LiveVersions
  <1>2. CASE /\ HasSchema(r) /\ r.subject = t /\ r.version = w
             /\ store'.subjects[t][w] = [id |-> r.value.id, deleted |-> r.value.deleted]
    <2>1. /\ store'.subjects[t][w].id = r.value.id
          /\ store'.subjects[t][w].deleted = r.value.deleted
      BY <1>2
    <2>2. HasMaps(store)
      BY DEF StoreShape, StoreType, HasMaps
    <2>3. SchemaEffect(store, store', r.subject, r.version, r.value)
      BY <1>2, <2>2, ApplyCases, Zenon
    <2>4. store'.byId = Put(store.byId, r.value.id, r.value.schema)
      BY <2>3, Zenon DEF SchemaEffect
    <2>5. store'.byId[r.value.id] = r.value.schema
      BY <2>4 DEF Put
    <2> QED  BY <1>1, <1>2, <2>1, <2>5, Zenon DEF LiveAfter, SchemaOf
  <1>3. CASE SameOrDeleted(store.subjects[t], store'.subjects[t], w)
    <2>1. /\ w \in Versions(store, t) /\ store'.subjects[t][w].id = store.subjects[t][w].id
          /\ ~store.subjects[t][w].deleted
      BY <1>1, <1>3, Zenon DEF SameOrDeleted, Versions
    <2>2. store.subjects[t][w].id \in DOMAIN store.byId
      BY <2>1, StoreFacts, Zenon
    <2>3. SchemaOf(store', t, w) = SchemaOf(store, t, w)
      BY <2>1, <2>2, IdsStay, Zenon DEF SchemaOf
    <2>4. w \in LiveVersions(store, t)
      BY <2>1 DEF LiveVersions
    <2> QED  BY <2>3, <2>4, Zenon DEF LiveAfter
  <1> QED  BY <1>1, <1>2, <1>3, VersionsAfter, Zenon

(* References to what is there stay references to what is there. *)
LEMMA ReferencesAfter ==
    ASSUME StoreShape, LiveReferencesExist, NEW r \in Records, RecordBinds(r),
           store' = apply_record(store, r)
    PROVE  LiveReferencesExist'
  <1> SUFFICES ASSUME NEW t \in Subjects, NEW w \in LiveVersions(store', t),
                      NEW p \in Refs[SchemaOf(store', t, w)]
               PROVE  p[2] \in Versions(store', p[1])
    BY Zenon DEF LiveReferencesExist
  <1>1. LiveAfter(r, t, w)
    BY LiveIsAfter, Zenon DEF RecordBinds
  <1>2. CASE /\ HasSchema(r) /\ ~r.value.deleted
             /\ SchemaOf(store', t, w) = r.value.schema
    <2>1. r.value.schema \in Schemas
      BY <1>2, RecordFacts, Zenon DEF SchemaValues
    <2>2. p[1] \in Subjects /\ p[2] \in Versions(store, p[1])
      BY <1>2, <2>1, RefsType DEF RecordBinds
    <2>3. ~IsTombstone(r)
      BY <1>2, Zenon DEF HasSchema, IsTombstone
    <2> QED  BY <2>2, <2>3, VersionsAfter, Zenon
  <1>3. CASE w \in LiveVersions(store, t) /\ SchemaOf(store', t, w) = SchemaOf(store, t, w)
    <2>1. w \in Versions(store, t)
      BY <1>3 DEF LiveVersions
    <2>2. SchemaOf(store, t, w) \in Schemas /\ p \in Refs[SchemaOf(store, t, w)]
      BY <1>3, <2>1, StoreFacts, Zenon
    <2>3. p[1] \in Subjects /\ p = <<p[1], p[2]>>
      BY <2>2, RefsType
    <2>4. p[2] \in Versions(store, p[1])
      BY <1>3, <2>2, Zenon DEF LiveReferencesExist
    <2>5. referenced_by(store, p[1], p[2])
      BY <1>3, <2>2, <2>3, Zenon DEF referenced_by
    <2>6. ~(IsTombstone(r) /\ r.subject = p[1] /\ r.version = p[2])
      BY <2>5, Zenon DEF RecordBinds
    <2> QED  BY <2>3, <2>4, <2>6, VersionsAfter, Zenon
  <1> QED  BY <1>1, <1>2, <1>3, Zenon DEF LiveAfter

(* A record without a schema makes nothing more referred to. *)
LEMMA NotMoreReferenced ==
    ASSUME StoreShape, NEW r \in Records, ~HasSchema(r), store' = apply_record(store, r),
           NEW s, NEW v, referenced_by(store', s, v)
    PROVE  referenced_by(store, s, v)
  <1>1. PICK t \in Subjects : \E w \in LiveVersions(store', t) :
           <<s, v>> \in Refs[SchemaOf(store', t, w)]
    BY Zenon DEF referenced_by
  <1>2. PICK w \in LiveVersions(store', t) : <<s, v>> \in Refs[SchemaOf(store', t, w)]
    BY <1>1, Zenon
  <1>3. ~Rebinds(store, r)
    BY Zenon DEF Rebinds
  <1>4. w \in LiveVersions(store, t) /\ SchemaOf(store', t, w) = SchemaOf(store, t, w)
    BY <1>3, LiveIsAfter, Zenon DEF LiveAfter
  <1> QED  BY <1>2, <1>4, Zenon DEF referenced_by

(* The ids after a record. *)
LEMMA IdsAfter ==
    ASSUME LogShape, StoreShape, BindInv, NEW r \in Records, RecordBinds(r),
           log' = Append(log, r), store' = apply_record(store, r)
    PROVE  /\ BindsAll(store', log', Len(log')) /\ IdsBelow(store') /\ CanonicalSound(store')
           /\ load.ids = {} => CanonicalFinds(store', log', Len(log'))
  <1> DEFINE n == Len(log)
  <1>1. log \in Seq(Records)
    BY Zenon DEF LogShape
  <1>2. /\ n \in Nat /\ Len(log') = n + 1 /\ log'[n + 1] = r
        /\ \A i \in 1..n : log'[i] = log[i]
        /\ \A i \in 1..(n + 1) : log'[i] \in Records
    BY <1>1, AppendFacts
  <1>3. /\ StoreType(store) /\ BindsAll(store, log, n) /\ IdsBelow(store)
        /\ CanonicalSound(store)
    BY Zenon DEF StoreShape, BindInv
  <1> HIDE DEF n
  <1>4. BindsAll(store, log', n)
    BY <1>2, <1>3, SameRecords, Zenon
  <1>5. ~Rebinds(store, log'[n + 1]) /\ store' = apply_record(store, log'[n + 1])
    BY <1>2, Zenon DEF RecordBinds
  <1>7. ASSUME load.ids = {}
        PROVE  CanonicalFinds(store, log', n) /\ OneIdPerSchema(log', n + 1)
    <2>1. PICK rs : rs = log'
      BY Zenon
    <2>2. CanonicalFinds(store, rs, n)
      BY <1>2, <1>7, <2>1, SameRecords, Zenon DEF BindInv, n
    <2>3. ASSUME NEW i \in 1..(n + 1), HasSchema(rs[i]), Refs[rs[i].value.schema] = {},
                 i # n + 1 \/ rs[i].value.schema \in DOMAIN store.byCanonical
          PROVE  /\ rs[i].value.schema \in DOMAIN store.byCanonical
                 /\ rs[i].value.id = store.byCanonical[rs[i].value.schema]
      <3>1. CASE i = n + 1
        BY <1>2, <1>7, <2>1, <2>3, <3>1, Zenon DEF RecordBinds, KeepsId
      <3>2. CASE i \in 1..n
        BY <2>2, <2>3, <3>2, Zenon DEF CanonicalFinds
      <3> QED  BY <1>2, <3>1, <3>2, OneMore, Zenon
    <2>4. OneIdPerSchema(rs, n + 1)
      <3> SUFFICES ASSUME NEW i \in 1..(n + 1), NEW j \in 1..(n + 1),
                          HasSchema(rs[i]), HasSchema(rs[j]),
                          rs[i].value.schema = rs[j].value.schema,
                          Refs[rs[i].value.schema] = {}, i # j
                   PROVE  rs[i].value.id = rs[j].value.id
        BY Zenon DEF OneIdPerSchema
      <3>1. rs[i].value.schema \in DOMAIN store.byCanonical
        BY <2>3, Zenon
      <3> QED  BY <2>3, <3>1, Zenon
    <2> QED  BY <2>1, <2>2, <2>4, Zenon
  <1>6. /\ BindsAll(store', log', n + 1) /\ IdsBelow(store')
        /\ CanonicalSound(store')
        /\ load.ids = {} => CanonicalFinds(store', log', n + 1)
    <2>1. PICK rs, t : rs = log' /\ t = store'
      BY Zenon
    <2>2. \A i \in 1..(n + 1) : rs[i] \in Records
      BY <1>2, <2>1, Zenon
    <2>3. /\ ~Rebinds(store, rs[n + 1]) /\ BindsAll(store, rs, n)
          /\ t = apply_record(store, rs[n + 1])
      BY <1>4, <1>5, <2>1, Zenon
    <2>5. load.ids = {} => CanonicalFinds(store, rs, n) /\ OneIdPerSchema(rs, n + 1)
      BY <1>7, <2>1, Zenon
    <2>4. /\ BindsAll(t, rs, n + 1) /\ IdsBelow(t) /\ CanonicalSound(t)
          /\ load.ids = {} => CanonicalFinds(t, rs, n + 1)
      BY <1>2, <1>3, <2>2, <2>3, <2>5, BindsStep, Zenon
    <2> QED  BY <2>1, <2>4, Zenon
  <1> QED  BY <1>2, <1>6, Zenon

(* After an operation's first record. *)
LEMMA OperationBinds ==
    ASSUME ShapeInv, BindInv, IdsLeft, NEW r, NEW rest, SoundOperation(r, rest)
    PROVE  BindInv'
  <1>1. LogShape /\ StoreShape /\ LiveReferencesExist
    BY Zenon DEF ShapeInv, BindInv
  <1>2. /\ log' = Append(log, r) /\ store' = apply_record(store, r) /\ todo' = rest
        /\ r \in Records /\ RestShape(r, rest) /\ RecordBinds(r) /\ load' = load
    BY Zenon DEF SoundOperation, Operation, Write, RecordShape
  <1>3. /\ BindsAll(store', log', Len(log')) /\ IdsBelow(store') /\ CanonicalSound(store')
        /\ load.ids = {} => CanonicalFinds(store', log', Len(log'))
    BY <1>1, <1>2, IdsAfter, Zenon
  <1>4. LiveReferencesExist'
    BY <1>1, <1>2, ReferencesAfter, Zenon
  <1>5. ASSUME NEW i \in 1..Len(rest), IsTombstone(rest[i])
        PROVE  ~referenced_by(store', rest[i].subject, rest[i].version)
    <2>1. rest # <<>>
      BY <1>2 DEF RestShape
    <2>2. /\ r.type = "NOOP" /\ rest[i].subject = r.subject
          /\ ~referenced_by(store, rest[i].subject, rest[i].version)
      BY <1>2, <1>5, <2>1, Zenon DEF RestShape, IsTombstone
    <2>3. ~HasSchema(r)
      BY <2>2 DEF HasSchema
    <2> QED  BY <1>1, <1>2, <2>2, <2>3, NotMoreReferenced, Zenon
  <1> QED  BY <1>2, <1>3, <1>4, <1>5, Zenon DEF BindInv

(* After a further record. *)
LEMMA WriteNextBinds ==
    ASSUME ShapeInv, BindInv, WriteNext
    PROVE  BindInv'
  <1>0. PICK r, tail : r = Head(todo) /\ tail = Tail(todo)
    BY Zenon
  <1>1. LogShape /\ StoreShape /\ TodoShape /\ LiveReferencesExist
    BY Zenon DEF ShapeInv, BindInv
  <1>2. /\ log' = Append(log, r) /\ store' = apply_record(store, r) /\ todo' = tail
        /\ todo # <<>> /\ load' = load
    BY <1>0, Zenon DEF WriteNext, Write
  <1>3. /\ 1 \in 1..Len(todo) /\ r = todo[1]
        /\ \A i \in 1..Len(tail) : i + 1 \in 1..Len(todo) /\ tail[i] = todo[i + 1]
    BY <1>0, <1>1, <1>2, TodoSound
  <1>4. r \in Records /\ r.value = NoValue
    BY <1>1, <1>3, Zenon DEF TodoShape, TodoRecord
  <1>5. ~HasSchema(r) /\ (IsTombstone(r) => ~referenced_by(store, r.subject, r.version))
    BY <1>3, <1>4, Zenon DEF HasSchema, BindInv
  <1>6. RecordBinds(r)
    BY <1>5, Zenon DEF RecordBinds, KeepsId, Rebinds
  <1>7. /\ BindsAll(store', log', Len(log')) /\ IdsBelow(store') /\ CanonicalSound(store')
        /\ load.ids = {} => CanonicalFinds(store', log', Len(log'))
    BY <1>1, <1>2, <1>4, <1>6, IdsAfter, Zenon
  <1>8. LiveReferencesExist'
    BY <1>1, <1>2, <1>4, <1>6, ReferencesAfter, Zenon
  <1>9. ASSUME NEW i \in 1..Len(tail), IsTombstone(tail[i])
        PROVE  ~referenced_by(store', tail[i].subject, tail[i].version)
    <2>1. ~referenced_by(store, tail[i].subject, tail[i].version)
      BY <1>3, <1>9, Zenon DEF BindInv
    <2> QED  BY <1>1, <1>2, <1>4, <1>5, <2>1, NotMoreReferenced, Zenon
  <1> QED  BY <1>2, <1>7, <1>8, <1>9, Zenon DEF BindInv

(* What two stores show is the same. *)
Shows(a, b) ==
    /\ Agree(a, b)
    /\ \A s \in Subjects : \A v \in Versions(a, s) : SchemaOf(a, s, v) = SchemaOf(b, s, v)

(* Then so are the live versions and what they refer to. *)
LEMMA ShowsLive ==
    ASSUME NEW a, NEW b, Shows(a, b)
    PROVE  /\ \A s : Versions(a, s) = Versions(b, s) /\ LiveVersions(a, s) = LiveVersions(b, s)
           /\ \A s \in Subjects : \A v \in LiveVersions(b, s) :
                 v \in LiveVersions(a, s) /\ SchemaOf(b, s, v) = SchemaOf(a, s, v)
           /\ \A s, v : referenced_by(b, s, v) => referenced_by(a, s, v)
  <1>1. a.subjects = b.subjects
    BY Zenon DEF Shows, Agree
  <1>2. \A s : Versions(a, s) = Versions(b, s) /\ LiveVersions(a, s) = LiveVersions(b, s)
    BY <1>1, Zenon DEF Versions, LiveVersions
  <1>3. \A s : LiveVersions(a, s) \subseteq Versions(a, s)
    BY DEF LiveVersions
  <1>4. \A s \in Subjects : \A v \in LiveVersions(b, s) :
           v \in LiveVersions(a, s) /\ SchemaOf(b, s, v) = SchemaOf(a, s, v)
    BY <1>2, <1>3, Zenon DEF Shows
  <1>5. \A s, v : referenced_by(b, s, v) => referenced_by(a, s, v)
    BY <1>4, Zenon DEF referenced_by
  <1> QED  BY <1>2, <1>4, <1>5, Zenon

(* A store made from the log shows what the live one shows, and binds the  *)
(* ids as the log does.                                                    *)
LEMMA GoodShows ==
    ASSUME StoreShape, BindInv, NEW st, PrefixGood(st, log, Len(log))
    PROVE  /\ Shows(store, st)
           /\ BindsAll(st, log, Len(log)) /\ IdsBelow(st) /\ CanonicalSound(st)
           /\ load.ids = {} => CanonicalFinds(st, log, Len(log))
  <1>1. /\ StoreType(store) /\ Faithful(store, log, Len(log))
        /\ BindsAll(store, log, Len(log))
    BY Zenon DEF StoreShape, BindInv
  <1>2. OneSchemaPerId(log, Len(log))
    BY <1>1, Zenon DEF BindsAll, OneSchemaPerId
  <1>3. /\ StoreType(st) /\ Faithful(st, log, Len(log)) /\ BindsAll(st, log, Len(log))
        /\ IdsBelow(st) /\ CanonicalSound(st)
    BY <1>2, Zenon DEF PrefixGood
  <1>6. load.ids = {} => CanonicalFinds(st, log, Len(log))
    <2>1. load.ids = {} => OneIdPerSchema(log, Len(log))
      BY Zenon DEF BindInv, CanonicalFinds, OneIdPerSchema
    <2> QED  BY <1>2, <2>1, Zenon DEF PrefixGood
  <1>4. Agree(store, st)
    BY <1>1, <1>3, Determined, Zenon
  <1>5. \A s \in Subjects : \A v \in Versions(store, s) :
           SchemaOf(store, s, v) = SchemaOf(st, s, v)
    BY <1>1, <1>3, Determined, Zenon
  <1> QED  BY <1>3, <1>4, <1>5, <1>6, Zenon DEF Shows

(* After a restart or a rebuild. *)
LEMMA RebuildBinds ==
    ASSUME ReplayIsGood, ShapeInv, BindInv, Restart \/ ResetToLogStart
    PROVE  BindInv' /\ Shows(store, store')
  <1>1. StoreShape /\ LiveReferencesExist
    BY Zenon DEF ShapeInv, BindInv
  <1>2. log' = log /\ load' = load /\ (todo' = todo \/ todo' = <<>>)
    BY Zenon DEF Restart, ResetToLogStart
  <1>3. PrefixGood(store', log, Len(log))
    BY <1>1, RebuildGood, Zenon
  <1>4. /\ Shows(store, store') /\ BindsAll(store', log, Len(log))
        /\ IdsBelow(store') /\ CanonicalSound(store')
        /\ load.ids = {} => CanonicalFinds(store', log, Len(log))
    BY <1>1, <1>3, GoodShows, Zenon
  <1>5. LiveReferencesExist'
    <2>1. /\ \A s : Versions(store, s) = Versions(store', s)
          /\ \A s \in Subjects : \A v \in LiveVersions(store', s) :
                v \in LiveVersions(store, s) /\ SchemaOf(store', s, v) = SchemaOf(store, s, v)
      BY <1>4, ShowsLive, Zenon
    <2>2. ASSUME NEW s \in Subjects, NEW v \in LiveVersions(store', s),
                 NEW p \in Refs[SchemaOf(store', s, v)]
          PROVE  p[2] \in Versions(store', p[1])
      <3>1. v \in LiveVersions(store, s) /\ p \in Refs[SchemaOf(store, s, v)]
        BY <2>1, Zenon
      <3>2. p[2] \in Versions(store, p[1])
        BY <1>1, <3>1, Zenon DEF LiveReferencesExist
      <3> QED  BY <2>1, <3>2, Zenon
    <2> QED  BY <2>2, Zenon DEF LiveReferencesExist
  <1>6. \A s, v : referenced_by(store', s, v) => referenced_by(store, s, v)
    BY <1>4, ShowsLive, Zenon
  <1>7. ASSUME NEW i \in 1..Len(todo'), IsTombstone(todo'[i])
        PROVE  ~referenced_by(store', todo'[i].subject, todo'[i].version)
    <2>1. todo' = todo
      BY <1>2
    <2> QED  BY <1>6, <1>7, <2>1, Zenon DEF BindInv
  <1> QED  BY <1>2, <1>4, <1>5, <1>7, Zenon DEF BindInv

(* After the log cleaner. *)
LEMMA CompactBinds ==
    ASSUME ShapeInv, BindInv, Compact
    PROVE  BindInv'
  <1>1. /\ store' = store /\ todo' = todo /\ load' = load
    BY Zenon DEF Compact
  <1>2. LogShape /\ StoreShape
    BY Zenon DEF ShapeInv
  <1>3. PICK k \in 1..Len(log) :
           MayRemove(log, k) /\ Without(log', log, k) /\ log' \in Seq(Records)
    BY <1>2, CompactRemoves, Zenon
  <1>4. /\ log \in Seq(Records) /\ HighWatersAscend(log) /\ TombstonesCovered(log)
        /\ StoreType(store) /\ Faithful(store, log, Len(log)) /\ BindsAll(store, log, Len(log))
    BY <1>2, Zenon DEF LogShape, StoreShape, BindInv
  <1>5. /\ BindsAll(store, log', Len(log'))
        /\ load.ids = {} => CanonicalFinds(store, log', Len(log'))
    BY <1>3, <1>4, RemoveFaithful, Zenon DEF BindInv
  <1> QED  BY <1>1, <1>5, Zenon DEF BindInv, LiveReferencesExist

-------------------------------------------------------------------------------
(* Checks. *)

(* No level is set where clients set none, and live versions were checked. *)
PairInv ==
    /\ load.levels = {} => \A k \in Keys : store.compat[k] = NoValue
    /\ LivePairsChecked

(* After a record. *)
LEMMA PairsAfter ==
    ASSUME StoreShape, PairInv, NEW r \in Records, ~Rebinds(store, r), RecordChecked(r),
           store' = apply_record(store, r), load' = load
    PROVE  PairInv'
  <1>1. ASSUME load.levels = {}, NEW k \in Keys PROVE store'.compat[k] = NoValue
    <2>1. SettingAfter(store.compat, store'.compat, "CONFIG", r)
      BY SettingsAfter, Zenon DEF StoreShape
    <2>2. store.compat[k] = NoValue /\ (r.type = "CONFIG" => r.value = NoValue)
      BY <1>1, Zenon DEF PairInv, RecordChecked
    <2> QED  BY <2>1, <2>2, Zenon DEF SettingAfter
  <1>2. ASSUME is_transitive(DefaultLevel), load.levels = {}, load.ids = {},
               NEW s \in Subjects, NEW v \in LiveVersions(store', s),
               NEW w \in LiveVersions(store', s), v # w
        PROVE  \/ check_pair(DefaultLevel, SchemaOf(store', s, v), SchemaOf(store', s, w))
               \/ check_pair(DefaultLevel, SchemaOf(store', s, w), SchemaOf(store', s, v))
    <2>1. LiveAfter(r, s, v) /\ LiveAfter(r, s, w)
      BY LiveIsAfter, Zenon
    <2>2. Quiet
      BY <1>2, Zenon DEF Quiet, PairInv
    <2>3. ASSUME HasSchema(r), ~r.value.deleted, r.subject = s, NEW x \in LiveVersions(store, s)
          PROVE  check_pair(DefaultLevel, r.value.schema, SchemaOf(store, s, x))
      BY <2>2, <2>3, Zenon DEF RecordChecked
    <2>4. ASSUME v \in LiveVersions(store, s), w \in LiveVersions(store, s)
          PROVE  \/ check_pair(DefaultLevel, SchemaOf(store, s, v), SchemaOf(store, s, w))
                 \/ check_pair(DefaultLevel, SchemaOf(store, s, w), SchemaOf(store, s, v))
      BY <1>2, <2>4, Zenon DEF PairInv, LivePairsChecked
    <2> QED  BY <1>2, <2>1, <2>3, <2>4, Zenon DEF LiveAfter
  <1>3. \A level, a, b : check_pair(level, a, b)' <=> check_pair(level, a, b)
    BY Zenon DEF check_pair
  <1> QED  BY <1>1, <1>2, <1>3, Zenon DEF PairInv, LivePairsChecked

(* What an operation has left to write sets no level and checks nothing. *)
LEMMA TodoChecked ==
    ASSUME NEW r, TodoRecord(r)
    PROVE  RecordChecked(r) /\ ~Rebinds(store, r)
  BY Zenon DEF TodoRecord, RecordChecked, Rebinds, HasSchema

(* A store that shows the same. *)
LEMMA PairsShown ==
    ASSUME PairInv, Shows(store, store'), load' = load
    PROVE  PairInv'
  <1>1. store'.compat = store.compat
    BY Zenon DEF Shows, Agree
  <1>2. \A s \in Subjects : \A v \in LiveVersions(store', s) :
           v \in LiveVersions(store, s) /\ SchemaOf(store', s, v) = SchemaOf(store, s, v)
    BY ShowsLive, Zenon
  <1>3. \A level, a, b : check_pair(level, a, b)' <=> check_pair(level, a, b)
    BY Zenon DEF check_pair
  <1> QED  BY <1>1, <1>2, <1>3, Zenon DEF PairInv, LivePairsChecked

===============================================================================
