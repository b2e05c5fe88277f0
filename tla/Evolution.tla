------------------------------ MODULE Evolution ------------------------------
(***************************************************************************)
(* A subject whose schemas evolve under a compatibility level, with the    *)
(* compatibility engines of the three formats (format/) in place of the    *)
(* relation CanRead of Registry.  Versions are registered and deleted; a   *)
(* registration is accepted when check_registration (compat/mod.rs) finds  *)
(* no incompatibility.  The questions are about data: what was written     *)
(* under one live version must be readable under another.                  *)
(***************************************************************************)
EXTENDS Naturals, Sequences, FiniteSets, CompatLevels

LOCAL INSTANCE SequencesExt

CONSTANTS
    Corpus,         \* Corpus[format]: the schemas clients register
    Levels,         \* the levels subjects have
    MaxLive,        \* bound: live versions at one time
    Instances       \* JSON instances

J == INSTANCE JsonDiff
V == INSTANCE JsonValid
P == INSTANCE ProtoDiff
A == INSTANCE AvroRules

Formats == {"AVRO", "JSON", "PROTOBUF"}

ASSUME EvolutionAssumption ==
    /\ Levels \subseteq AllLevels
    /\ DOMAIN Corpus = Formats
    /\ \A d \in Corpus["JSON"] : V!Exact(d.root)

VARIABLES
    format,
    level,
    versions,       \* the schemas of the live versions, oldest first
    defaults        \* history: some JSON version so far had a default

vars == <<format, level, versions, defaults>>

(* format::check *)
check(reader, writer) ==
    CASE format = "JSON" -> J!check(reader, writer)
      [] format = "PROTOBUF" -> P!check(reader, writer)
      [] format = "AVRO" -> A!check(reader, writer)

check_pair(new, old) ==
    /\ NewReadsOld(level) => check(new, old)
    /\ OldReadsNew(level) => check(old, new)

(* The new schema is held against every live version, or the latest.      *)
check_registration(new) ==
    LET targets == IF is_transitive(level) THEN DOMAIN versions
                   ELSE (DOMAIN versions) \cap {Len(versions)}
    IN  \A v \in targets : check_pair(new, versions[v])

Init ==
    /\ format \in Formats
    /\ level \in Levels
    /\ versions = << >>
    /\ defaults = FALSE

Register(schema) ==
    /\ Len(versions) < MaxLive
    /\ \A v \in DOMAIN versions : versions[v] # schema
    /\ check_registration(schema)
    /\ versions' = Append(versions, schema)
    /\ defaults' = (defaults \/ (format = "JSON" /\ V!HasDefault(schema.root)))
    /\ UNCHANGED <<format, level>>

(* A deleted version is no target of a later check: only its place among   *)
(* the live ones is lost.                                                  *)
Delete(v) ==
    /\ versions' = RemoveAt(versions, v)
    /\ UNCHANGED <<format, level, defaults>>

Next ==
    \/ \E schema \in Corpus[format] : Register(schema)
    \/ \E v \in DOMAIN versions : Delete(v)

Spec == Init /\ [][Next]_vars

-------------------------------------------------------------------------------
(* What the levels promise about data. *)

(* The <<reader, writer>> pairs of live versions that the level is about. *)
Promised ==
    {<<versions[p[1]], versions[p[2]]>> :
        p \in {q \in (DOMAIN versions) \X (DOMAIN versions) :
                \/ q[1] > q[2] /\ NewReadsOld(level)
                \/ q[2] > q[1] /\ OldReadsNew(level)}}

(* Every JSON instance that one live version lets its writers produce is   *)
(* read by the versions that the level says can read it, however many      *)
(* registrations and deletions lie between the two, although a level that  *)
(* is not transitive compares neighbours only (json/diff.rs and compat.rs, *)
(* under compat::check_registration).  Defaults are the exception: the     *)
(* version that drops the default of a property is held against the one    *)
(* that has it, not against the one before that lacks the property, so     *)
(* they need a transitive level.                                           *)
JsonReadable ==
    format = "JSON" /\ (is_transitive(level) \/ ~defaults) =>
        \A pair \in Promised : \A x \in Instances :
            V!Accepts(pair[2], x, FALSE) => V!Accepts(pair[1], x, TRUE)

-------------------------------------------------------------------------------
(* How Protobuf encodes a field, against which the engine is judged. *)

WireClasses ==
    {{"int32", "int64", "uint32", "uint64", "bool", "enum"}, {"sint32", "sint64"},
     {"string", "bytes"}, {"fixed32", "sfixed32"}, {"fixed64", "sfixed64"},
     {"float"}, {"double"}}

(* What a type is to the encoding: a scalar's name, "enum", or a message.  *)
Encoding(schema, type) ==
    LET files == {schema.file} \cup {schema.refs[n] : n \in DOMAIN schema.refs}
    IN  IF type \in P!Scalars THEN type
        ELSE IF \E f \in files : type \in P!collect_enum_names(f) THEN "enum" ELSE "message"

SameWire(writer, reader, wtype, rtype) ==
    LET e == {Encoding(writer, wtype), Encoding(reader, rtype)}
    IN  \/ e = {"message"} /\ wtype = rtype
        \/ \E class \in WireClasses : e \subseteq class

FieldReadable(writer, reader, wf, rf) ==
    IF wf.entry # P!NoEntry /\ rf.entry # P!NoEntry
    THEN \A i \in 1..2 : SameWire(writer, reader, wf.entry[i], rf.entry[i])
    ELSE SameWire(writer, reader, wf.type, rf.type)

RECURSIVE MessagesReadable(_, _, _, _)
MessagesReadable(writer, reader, wms, rms) ==
    \A m \in DOMAIN wms :
        /\ m \in DOMAIN rms
        /\ LET wf == wms[m].fields
               rf == rms[m].fields
               both == DOMAIN wf \cap DOMAIN rf
           IN  /\ \A n \in both : FieldReadable(writer, reader, wf[n], rf[n])
               /\ \A n, k \in both :
                     n # k /\ ~P!real_oneof(wf[n]) /\ ~P!real_oneof(wf[k])
                       => ~(P!real_oneof(rf[n]) /\ P!real_oneof(rf[k]) /\ rf[n].oneof = rf[k].oneof)
        /\ MessagesReadable(writer, reader, wms[m].nested, rms[m].nested)

(* Under a transitive level a Protobuf reader still has every message of   *)
(* the writer, reads each field number they share with the encoding it was *)
(* written with, and never holds two fields the writer could set together  *)
(* in one oneof, in which the second would erase the first                 *)
(* (protobuf/diff.rs, kind_group and moved_existing_member_count).         *)
ProtoReadable ==
    format = "PROTOBUF" /\ is_transitive(level) =>
        \A pair \in Promised :
            LET reader == pair[1]
                writer == pair[2]
            IN  MessagesReadable(writer, reader, writer.file.messages, reader.file.messages)

-------------------------------------------------------------------------------
(* Avro schema resolution, with aliases and enum defaults. *)

RECURSIVE Resolves(_, _)
Resolves(writer, reader) ==
    LET SameName == writer.name \in {reader.name} \cup reader.aliases
    IN  CASE A!Has(writer, "union") -> \A i \in DOMAIN writer.union : Resolves(writer.union[i], reader)
          [] ~A!Has(writer, "union") /\ A!Has(reader, "union") ->
                \E i \in DOMAIN reader.union : Resolves(writer, reader.union[i])
          [] OTHER ->
                CASE writer.type # reader.type -> <<writer.type, reader.type>> \in A!Promotes
                  [] writer.type = "enum" /\ reader.type = "enum" ->
                        /\ SameName
                        /\ \A symbol \in writer.symbols :
                              \/ symbol \in reader.symbols
                              \/ A!Has(reader, "default") /\ reader.default \in reader.symbols
                  [] writer.type = "record" /\ reader.type = "record" ->
                        /\ SameName
                        /\ \A f \in DOMAIN reader.fields :
                              IF f \in DOMAIN writer.fields
                              THEN Resolves(writer.fields[f].type, reader.fields[f].type)
                              ELSE reader.fields[f].default
                  [] writer.type = "array" /\ reader.type = "array" ->
                        Resolves(writer.items, reader.items)
                  [] OTHER -> TRUE

(* Under a transitive level whatever an Avro writer produced resolves for  *)
(* the reader, enum symbols the reader lacks and renamed types included,   *)
(* although the engine rewrites both schemas before it compares them       *)
(* (avro.rs, apply_reader_rules).                                          *)
AvroReadable ==
    format = "AVRO" /\ is_transitive(level) =>
        \A pair \in Promised : Resolves(pair[2], pair[1])

-------------------------------------------------------------------------------
(* Pure algorithms. *)

Graphs3 == [1..3 -> {<< >>, <<1>>, <<2>>, <<3>>, <<1, 2>>, <<1, 3>>, <<2, 3>>, <<1, 2, 3>>}]

(* The most branches of the original that can go to different branches of  *)
(* the update.                                                             *)
MostMatched(edges) ==
    LET Edges == {<<i, j>> \in (1..3) \X (1..3) : \E k \in DOMAIN edges[i] : edges[i][k] = j}
        Matchings == {M \in SUBSET Edges :
                        \A p, q \in M : p # q => p[1] # q[1] /\ p[2] # q[2]}
    IN  CHOOSE n \in 0..3 : /\ \E M \in Matchings : Cardinality(M) = n
                            /\ \A M \in Matchings : Cardinality(M) <= n

(* The augmenting paths of maximum_matching (json/diff.rs) find as many    *)
(* pairs of branches as there can be, for every relation between three     *)
(* branches and three.                                                     *)
MatchingIsMaximum ==
    format = "JSON" /\ versions = << >> =>
        \A edges \in Graphs3 : J!matching(1, edges, [c \in 1..3 |-> 0]) = MostMatched(edges)

===============================================================================
