------------------------------ MODULE AvroRules ------------------------------
(***************************************************************************)
(* The Avro compatibility check (format/avro.rs): both schemas lose their  *)
(* logical types, the reader's aliases and enum defaults are applied, and  *)
(* apache-avro decides.                                                    *)
(*                                                                         *)
(* A schema is the record of its JSON members: [type], with `logicalType`, *)
(* `precision` or `scale` where it has them; an enum [type, name, aliases, *)
(* symbols] and perhaps `default`; a record [type, name, aliases, fields], *)
(* fields a function from names to [type, default]; an array [type, items];*)
(* or [union |-> branches].                                                *)
(***************************************************************************)
EXTENDS Naturals, Sequences

Has(s, k) == k \in DOMAIN s
Without(s, keys) == [k \in DOMAIN s \ keys |-> s[k]]

RECURSIVE erase_logical_types(_)
erase_logical_types(s) ==
    LET bare == Without(s, IF Has(s, "logicalType") THEN {"logicalType", "precision", "scale"} ELSE {})
    IN  [k \in DOMAIN bare |->
            CASE k = "fields" -> [f \in DOMAIN bare.fields |->
                                     [bare.fields[f] EXCEPT !.type = erase_logical_types(@)]]
              [] k = "union" -> [i \in DOMAIN bare.union |-> erase_logical_types(bare.union[i])]
              [] k = "items" -> erase_logical_types(bare.items)
              [] OTHER -> bare[k]]

(* The writer's name becomes the reader's where the reader has the alias. *)
apply_alias(reader, writer) ==
    IF Has(reader, "name") /\ Has(writer, "name") /\ writer.name \in reader.aliases
    THEN [writer EXCEPT !.name = reader.name] ELSE writer

(* Seeded defect: a default that is no symbol of the reader counts. *)
apply_enum_default_any(reader, writer) ==
    IF /\ reader.type = "enum" /\ writer.type = "enum"
       /\ Has(reader, "default")
    THEN [reader EXCEPT !.symbols = @ \cup writer.symbols] ELSE reader

(* A reader's enum with a default takes the writer's symbols as well. *)
apply_enum_default(reader, writer) ==
    IF /\ reader.type = "enum" /\ writer.type = "enum"
       /\ Has(reader, "default") /\ reader.default \in reader.symbols
    THEN [reader EXCEPT !.symbols = @ \cup writer.symbols] ELSE reader

(* The pair after the rules.  Unions go branch by branch in their order,   *)
(* records by field name; the items of arrays are left as they are.        *)
RECURSIVE apply_reader_rules(_, _)
apply_reader_rules(reader, writer) ==
    CASE Has(reader, "union") /\ Has(writer, "union") ->
            LET At(i) == apply_reader_rules(reader.union[i], writer.union[i])
                both  == DOMAIN reader.union \cap DOMAIN writer.union
            IN  <<[union |-> [i \in DOMAIN reader.union |->
                                 IF i \in both THEN At(i)[1] ELSE reader.union[i]]],
                  [union |-> [i \in DOMAIN writer.union |->
                                 IF i \in both THEN At(i)[2] ELSE writer.union[i]]]>>
      [] Has(reader, "union") # Has(writer, "union") -> <<reader, writer>>
      [] OTHER ->
            LET w == apply_alias(reader, writer)
                r == apply_enum_default(reader, w)
                both == IF Has(r, "fields") /\ Has(w, "fields")
                        THEN DOMAIN r.fields \cap DOMAIN w.fields ELSE {}
                At(f) == apply_reader_rules(r.fields[f].type, w.fields[f].type)
                Fields(s, i) == [f \in DOMAIN s.fields |->
                                   IF f \in both THEN [s.fields[f] EXCEPT !.type = At(f)[i]]
                                   ELSE s.fields[f]]
            IN  IF both = {} THEN <<r, w>>
                ELSE <<[r EXCEPT !.fields = Fields(r, 1)], [w EXCEPT !.fields = Fields(w, 2)]>>

(* SchemaCompatibility::can_read answers Full: the names agree, the        *)
(* reader has every symbol and can take every branch, fields the writer    *)
(* lacks have defaults, and numbers are promoted.                          *)
Promotes == {<<"int", "long">>, <<"int", "double">>, <<"long", "double">>,
             <<"string", "bytes">>, <<"bytes", "string">>}

RECURSIVE can_read(_, _)
can_read(writer, reader) ==
    CASE Has(writer, "union") ->
            \A i \in DOMAIN writer.union : can_read(writer.union[i], reader)
      [] ~Has(writer, "union") /\ Has(reader, "union") ->
            \E i \in DOMAIN reader.union : can_read(writer, reader.union[i])
      [] OTHER ->
            CASE writer.type # reader.type -> <<writer.type, reader.type>> \in Promotes
              [] writer.type = reader.type /\ writer.type = "enum" ->
                    writer.name = reader.name /\ writer.symbols \subseteq reader.symbols
              [] writer.type = reader.type /\ writer.type = "record" ->
                    /\ writer.name = reader.name
                    /\ \A f \in DOMAIN reader.fields :
                          IF f \in DOMAIN writer.fields
                          THEN can_read(writer.fields[f].type, reader.fields[f].type)
                          ELSE reader.fields[f].default
              [] writer.type = reader.type /\ writer.type = "array" ->
                    can_read(writer.items, reader.items)
              [] OTHER -> TRUE

check(reader, writer) ==
    LET ruled == apply_reader_rules(erase_logical_types(reader), erase_logical_types(writer))
    IN  can_read(ruled[2], ruled[1])

===============================================================================
