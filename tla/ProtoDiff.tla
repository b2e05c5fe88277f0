------------------------------ MODULE ProtoDiff ------------------------------
(***************************************************************************)
(* The Protobuf compatibility check (format/protobuf/mod.rs, diff.rs and   *)
(* compat.rs).                                                             *)
(*                                                                         *)
(* A file is a FileDescriptorProto: [package, proto2, imports, messages,   *)
(* enums]; a message is [fields, reserved, names, nested, enums]; a field  *)
(* is [type, label, oneof, optional3, entry].  Fields are a function of    *)
(* their number; messages, nested messages and enums of their name; an     *)
(* enum is the set of its constants' numbers; `oneof` is the oneof a field *)
(* belongs to, which is synthetic when proto3_optional is set; `entry` is  *)
(* <<key type, value type>> of a map field, or NoEntry.  A type that is    *)
(* not a scalar is a name.  A schema is [file, refs], where refs gives the *)
(* file that each reference name resolves to.                              *)
(*                                                                         *)
(* Differences are kept as the set of their kinds: paths only appear in    *)
(* messages, and the verdict asks for one incompatible kind.               *)
(***************************************************************************)
EXTENDS Naturals, FiniteSets

NoOneof == "no oneof"
NoEntry == << >>

-------------------------------------------------------------------------------
(* Field kinds. *)

Scalars == {"int32", "int64", "uint32", "uint64", "bool", "sint32", "sint64",
            "string", "bytes", "fixed32", "sfixed32", "fixed64", "sfixed64",
            "float", "double"}

RECURSIVE collect_enum_names_in_message(_)
collect_enum_names_in_message(m) ==
    DOMAIN m.enums
        \cup UNION {collect_enum_names_in_message(m.nested[n]) : n \in DOMAIN m.nested}

collect_enum_names(file) ==
    DOMAIN file.enums
        \cup UNION {collect_enum_names_in_message(file.messages[n]) :
                    n \in DOMAIN file.messages}

(* Resolver::kind: a name that is no enum of this very file is a message. *)
FieldKind(enums, type) ==
    IF type \in Scalars THEN type
    ELSE IF type \in enums THEN "enum" ELSE "message"

Resolver(orig, upd) ==
    [origEnums |-> collect_enum_names(orig), updEnums |-> collect_enum_names(upd),
     origProto2 |-> orig.proto2, updProto2 |-> upd.proto2]

(* The wire group of a single value; 0 for a message, which has none. *)
kind_group(kind) ==
    CASE kind \in {"enum", "int32", "int64", "uint32", "uint64", "bool"} -> 1
      [] kind \in {"sint32", "sint64"} -> 2
      [] kind \in {"string", "bytes"} -> 3
      [] kind \in {"fixed32", "sfixed32"} -> 4
      [] kind \in {"fixed64", "sfixed64"} -> 5
      [] kind = "float" -> 6
      [] kind = "double" -> 7
      [] kind = "message" -> 0

(* A oneof the user declared, not the synthetic one of proto3 optional. *)
real_oneof(f) == f.oneof # NoOneof /\ ~f.optional3

explicit_label(f, proto2) == proto2 \/ f.optional3 \/ f.label = "repeated"

-------------------------------------------------------------------------------
(* Differences. *)

compare_field_types(ok, uk, otype, utype) ==
    LET go == kind_group(ok)
        gu == kind_group(uk)
    IN  CASE ok = uk /\ (ok \notin {"message", "enum"} \/ otype = utype) -> {}
          [] ok = uk /\ ok \in {"message", "enum"} /\ otype # utype -> {"FieldNamedTypeChanged"}
          [] ok # uk /\ 0 \notin {go, gu} /\ go = gu -> {"FieldScalarKindChangedInGroup"}
          [] ok # uk /\ 0 \notin {go, gu} /\ go # gu -> {"FieldScalarKindChangedAcross"}
          [] ok # uk /\ 0 \in {go, gu} -> {"FieldKindChanged"}

(* The key and the value types; labels of the outer field are not looked at. *)
compare_map_entries(oentry, uentry, r) ==
    UNION {compare_field_types(FieldKind(r.origEnums, oentry[i]),
                               FieldKind(r.updEnums, uentry[i]),
                               oentry[i], uentry[i]) : i \in 1..2}

(* The members of the update's oneof of f that the original has outside    *)
(* any oneof.                                                              *)
moved_existing_members(orig, upd, f) ==
    {n \in DOMAIN upd.fields :
        /\ upd.fields[n].oneof = f.oneof /\ ~upd.fields[n].optional3
        /\ n \in DOMAIN orig.fields /\ ~real_oneof(orig.fields[n])}

(* A member of the removed field's oneof lives on as a plain field. *)
oneof_has_surviving_plain_member(orig, upd, f) ==
    \E n \in DOMAIN orig.fields \cap DOMAIN upd.fields :
        orig.fields[n].oneof = f.oneof /\ ~real_oneof(upd.fields[n])

(* Seeded defect: one field that joins a oneof counts as well. *)
compare_oneof_lenient(of, uf, orig, upd) ==
    IF real_oneof(of) /\ ~real_oneof(uf) THEN {"OneofFieldMovedOut"} ELSE {}

(* compare_field, the change of oneof membership. *)
compare_oneof_membership(of, uf, orig, upd) ==
    CASE ~real_oneof(of) /\ real_oneof(uf) ->
            IF Cardinality(moved_existing_members(orig, upd, uf)) >= 2
            THEN {"OneofFieldMovedIn"} ELSE {}
      [] real_oneof(of) /\ ~real_oneof(uf) -> {"OneofFieldMovedOut"}
      [] OTHER -> {}

(* compare_field, the change of label: only where both labels were written *)
(* and the kind is the same.                                               *)
compare_label(of, uf, ok, uk, r) ==
    IF /\ of.label # uf.label /\ ok = uk
       /\ explicit_label(of, r.origProto2) /\ explicit_label(uf, r.updProto2)
    THEN IF ok \in {"string", "bytes"} THEN {"FieldStringOrBytesLabelChanged"}
                                       ELSE {"FieldNumericLabelChanged"}
    ELSE {}

compare_field(of, uf, orig, upd, r) ==
    LET ok == FieldKind(r.origEnums, of.type)
        uk == FieldKind(r.updEnums, uf.type)
    IN  compare_oneof_membership(of, uf, orig, upd)
            \cup compare_label(of, uf, ok, uk, r)
            \cup compare_field_types(ok, uk, of.type, uf.type)

removed_field(of, orig, upd) ==
    IF real_oneof(of) /\ ~oneof_has_surviving_plain_member(orig, upd, of)
    THEN "OneofFieldRemoved"
    ELSE IF of.label = "required" THEN "RequiredFieldRemoved" ELSE "FieldRemoved"

added_field(uf) ==
    IF real_oneof(uf) THEN "OneofFieldAdded"
    ELSE IF uf.label = "required" THEN "RequiredFieldAdded" ELSE "FieldAdded"

compare_fields(orig, upd, r) ==
    LET of == orig.fields
        uf == upd.fields
    IN  {removed_field(of[n], orig, upd) : n \in DOMAIN of \ DOMAIN uf}
        \cup {added_field(uf[n]) : n \in DOMAIN uf \ DOMAIN of}
        \cup UNION {IF of[n].entry # NoEntry /\ uf[n].entry # NoEntry
                    THEN compare_map_entries(of[n].entry, uf[n].entry, r)
                    ELSE compare_field(of[n], uf[n], orig, upd, r) :
                    n \in DOMAIN of \cap DOMAIN uf}

(* What a set lacks or gains, as kinds. *)
Gone(old, new, kind) == IF old \subseteq new THEN {} ELSE {kind}

compare_oneofs(orig, upd) ==
    LET Declared(m) == {m.fields[n].oneof : n \in {i \in DOMAIN m.fields : real_oneof(m.fields[i])}}
    IN  Gone(Declared(orig), Declared(upd), "OneofRemoved")
            \cup Gone(Declared(upd), Declared(orig), "OneofAdded")

compare_reserved(orig, upd) == Gone(upd.reserved, orig.reserved, "ReservedNumberAdded")

compare_reserved_names(orig, upd) == Gone(upd.names, orig.names, "ReservedNameAdded")

compare_enum_values(oe, ue) ==
    Gone(oe, ue, "EnumConstRemoved") \cup Gone(ue, oe, "EnumConstAdded")

compare_enums(orig, upd) ==
    Gone(DOMAIN orig, DOMAIN upd, "EnumRemoved")
        \cup Gone(DOMAIN upd, DOMAIN orig, "EnumAdded")
        \cup UNION {compare_enum_values(orig[e], upd[e]) : e \in DOMAIN orig \cap DOMAIN upd}

RECURSIVE compare_messages(_, _, _)
compare_message(orig, upd, r) ==
    compare_fields(orig, upd, r)
        \cup compare_oneofs(orig, upd)
        \cup compare_reserved(orig, upd)
        \cup compare_reserved_names(orig, upd)
        \cup compare_messages(orig.nested, upd.nested, r)
        \cup compare_enums(orig.enums, upd.enums)

compare_messages(orig, upd, r) ==
    Gone(DOMAIN orig, DOMAIN upd, "MessageRemoved")
        \cup Gone(DOMAIN upd, DOMAIN orig, "MessageAdded")
        \cup UNION {compare_message(orig[m], upd[m], r) : m \in DOMAIN orig \cap DOMAIN upd}

compare(orig, upd) ==
    LET r == Resolver(orig, upd)
    IN  (IF orig.package = upd.package THEN {} ELSE {"PackageChanged"})
            \cup compare_messages(orig.messages, upd.messages, r)
            \cup compare_enums(orig.enums, upd.enums)

-------------------------------------------------------------------------------
(* The verdict. *)

incompatible ==
    {"FieldScalarKindChangedAcross", "FieldKindChanged", "FieldNamedTypeChanged",
     "FieldNumericLabelChanged", "RequiredFieldAdded", "RequiredFieldRemoved",
     "OneofFieldRemoved", "OneofFieldMovedIn", "MessageRemoved"}

is_backward_compatible(kind) == kind \notin incompatible

TypesUsed(f) == IF f.entry = NoEntry THEN {f.type} ELSE {f.entry[1], f.entry[2]}

RECURSIVE NamedTypes(_)
NamedTypes(messages) ==
    UNION {UNION {TypesUsed(messages[m].fields[n]) : n \in DOMAIN messages[m].fields}
               \cup NamedTypes(messages[m].nested) : m \in DOMAIN messages} \ Scalars

RECURSIVE DeclaredTypes(_)
DeclaredTypes(messages) ==
    UNION {{m} \cup DOMAIN messages[m].enums \cup DeclaredTypes(messages[m].nested) :
           m \in DOMAIN messages}

Declares(file) == DOMAIN file.enums \cup DeclaredTypes(file.messages)

(* The descriptor pool: every import is among the files, every named type  *)
(* is declared in the file or in one it imports, nothing is declared twice.*)
Links(files) ==
    /\ \A f \in DOMAIN files :
          /\ files[f].imports \subseteq DOMAIN files
          /\ NamedTypes(files[f].messages) \subseteq
                Declares(files[f]) \cup UNION {Declares(files[i]) : i \in files[f].imports}
    /\ \A f, g \in DOMAIN files :
          f # g => Declares(files[f]) \cap Declares(files[g]) = {}

(* parse: linking happens only with imports or references. *)
parse(file, refs) ==
    \/ file.imports = {} /\ DOMAIN refs = {}
    \/ Links([f \in DOMAIN refs \cup {"schema.proto"} |->
                 IF f \in DOMAIN refs THEN refs[f] ELSE file])

(* check: the files themselves, and every reference of the writer whose    *)
(* name the reader references with another text, each parsed against the   *)
(* other references.                                                       *)
check(reader, writer) ==
    LET Others(refs, name) == [n \in DOMAIN refs \ {name} |-> refs[n]]
        changed == {n \in DOMAIN writer.refs \cap DOMAIN reader.refs :
                        writer.refs[n] # reader.refs[n]}
    IN  /\ parse(reader.file, reader.refs)
        /\ parse(writer.file, writer.refs)
        /\ \A n \in changed :
              /\ parse(writer.refs[n], Others(writer.refs, n))
              /\ parse(reader.refs[n], Others(reader.refs, n))
        /\ \A kind \in compare(writer.file, reader.file)
                           \cup UNION {compare(writer.refs[n], reader.refs[n]) : n \in changed} :
              is_backward_compatible(kind)

===============================================================================
