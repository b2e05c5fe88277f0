----------------------------- MODULE MCEvolution -----------------------------
EXTENDS Evolution, TLC

-------------------------------------------------------------------------------
(* JSON Schema. *)

Empty == [x \in {} |-> x]
Doc(s) == [root |-> s, refs |-> Empty]
Int == [type |-> {"integer"}]
Num == [type |-> {"number"}]
Str == [type |-> {"string"}]
Bool(b) == [bool |-> b]
Obj(props, required) == [type |-> {"object"}, properties |-> props, required |-> required]
Closed(props, required) == Obj(props, required) @@ [additionalProperties |-> Bool(FALSE)]
Rest(props, s) == Obj(props, {}) @@ [additionalProperties |-> s]
Arr(s) == [type |-> {"array"}, items |-> [one |-> s]]
Tuple(ss) == [type |-> {"array"}, items |-> [tuple |-> ss]]
Ref(r) == [ref |-> r]

JsonTypes ==
    {Empty, Int, Num, Str, [type |-> {"integer", "string"}],
     Int @@ [enum |-> {1}], Int @@ [enum |-> {1, 2}], Int @@ [const |-> 1],
     Num @@ [maximum |-> 2], Num @@ [maximum |-> 3], Num @@ [exclusiveMaximum |-> 2],
     Num @@ [minimum |-> 1], Num @@ [minimum |-> 2],
     Int @@ [multipleOf |-> 1], Int @@ [multipleOf |-> 2], Int @@ [multipleOf |-> 3],
     Str @@ [maxLength |-> 1], Str @@ [maxLength |-> 2], Str @@ [minLength |-> 1],
     Str @@ [pattern |-> {0, 1}], Str @@ [pattern |-> {1}]}

JsonObjects ==
    {Obj([a |-> Int], {}), Obj([a |-> Num], {}), Obj([a |-> Int], {"a"}),
     Obj([a |-> Int, b |-> Empty], {}), Obj([a |-> Int, b |-> Int], {}),
     Closed([a |-> Int], {}), Closed([a |-> Int, b |-> Int], {}),
     Closed([a |-> Int, b |-> Int], {"b"}),
     Closed([a |-> Int, b |-> Int @@ [default |-> 1]], {"b"}),
     Rest([a |-> Int], Num), Rest([a |-> Int], Int), Rest([a |-> Int, b |-> Num], Num),
     Rest([a |-> Int, b |-> Str], Num), Rest(Empty, Num),
     Obj([a |-> Int], {}) @@ [maxProperties |-> 1],
     Obj([a |-> Int], {}) @@ [dependencies |-> [a |-> [needs |-> {"b"}]]],
     Obj([a |-> Int], {}) @@ [dependencies |-> [a |-> [needs |-> {"b", "c"}]]],
     Obj([a |-> Int], {}) @@ [dependencies |-> [a |-> [schema |-> Obj([b |-> Int], {"b"})]]]}

JsonArrays ==
    {Arr(Int), Arr(Num), Arr(Int) @@ [maxItems |-> 1], Arr(Int) @@ [uniqueItems |-> TRUE],
     Tuple(<<Int>>), Tuple(<<Int, Str>>), Tuple(<<Num, Str>>),
     Tuple(<<Int>>) @@ [additionalItems |-> Bool(FALSE)],
     Tuple(<<Int>>) @@ [additionalItems |-> Int], Tuple(<<Int>>) @@ [additionalItems |-> Num]}

JsonCombined ==
    {[anyOf |-> <<Int, Str>>], [anyOf |-> <<Str, Num>>], [anyOf |-> <<Str>>],
     [anyOf |-> <<Num, Int>>], [anyOf |-> <<Int, Num>>],
     [allOf |-> <<Int, Num @@ [maximum |-> 2]>>], [allOf |-> <<Num @@ [maximum |-> 2]>>],
     [allOf |-> <<Num @@ [maximum |-> 3]>>],
     [not |-> Int], [not |-> Num],
     [if |-> Int, then |-> Int @@ [maximum |-> 1]], [if |-> Int, then |-> Int @@ [maximum |-> 2]],
     Ref(<<"#", "t">>) @@ [defs |-> [t |-> Int]], Ref(<<"#", "t">>) @@ [defs |-> [t |-> Num]]}

(* A list of integers, and one of numbers. *)
List(s) == Obj([a |-> s, b |-> Ref(<<"#">>)], {})

JsonRefs ==
    {[root |-> Obj([a |-> Ref(<<"other">>)], {}), refs |-> [other |-> Int]],
     [root |-> Obj([a |-> Ref(<<"other">>)], {}), refs |-> [other |-> Num]],
     Doc(List(Int)), Doc(List(Num))}

JsonCorpus == {Doc(s) : s \in JsonTypes \cup JsonObjects \cup JsonArrays \cup JsonCombined}
                  \cup JsonRefs

Scalar == {[num |-> h] : h \in 0..7} \cup {[str |-> n] : n \in 0..2}
Few == {[num |-> 2], [num |-> 3], [str |-> 1]}
SmallObjects == {[obj |-> f] : f \in UNION {[S -> Few] : S \in SUBSET {"a", "b", "c"}}}
MCInstances ==
    Scalar \cup SmallObjects
        \cup {[arr |-> s] : s \in UNION {[1..n -> Few] : n \in 0..2}}
        \cup {[obj |-> [b |-> x]] : x \in SmallObjects}

-------------------------------------------------------------------------------
(* Protobuf. *)

Field(type) == [type |-> type, label |-> "optional", oneof |-> P!NoOneof,
                optional3 |-> FALSE, entry |-> P!NoEntry]
In(o, type) == [Field(type) EXCEPT !.oneof = o]
Map(k, v) == [Field("FEntry") EXCEPT !.label = "repeated", !.entry = <<k, v>>]
Message(fields) == [fields |-> fields, reserved |-> {}, names |-> {},
                    nested |-> Empty, enums |-> Empty]
File(messages) == [package |-> "p", proto2 |-> FALSE, imports |-> {},
                   messages |-> messages, enums |-> [E |-> {0, 1}]]
Proto(file) == [file |-> file, refs |-> Empty]
One(fields) == Proto(File([M |-> Message(fields), N |-> Message(Empty)]))
Inner(t) == [Message(Empty) EXCEPT !.nested = [I |-> Message(1 :> Field(t))]]
ImportX(file) ==
    [file |-> [File([M |-> Message(1 :> Field("X"))]) EXCEPT !.imports = {"x.proto"}],
     refs |-> "x.proto" :> file]
XFile(t) == [File([X |-> Message(1 :> Field(t))]) EXCEPT !.enums = Empty]

ProtoCorpus ==
    {One(1 :> Field(t)) : t \in {"int32", "int64", "bool", "sint32", "string", "bytes",
                                 "fixed32", "sfixed32", "fixed64", "float", "E", "N"}}
    \cup {One(1 :> Map(t, u)) : t \in {"int32", "sint32"}, u \in {"string", "N"}}
    \cup {One(1 :> Field("int32") @@ 2 :> Field("string")),
          One(1 :> In("o", "int32") @@ 2 :> Field("string")),
          One(1 :> Field("int32") @@ 2 :> In("o", "string")),
          One(1 :> In("o", "int32") @@ 2 :> In("o", "string")),
          One(1 :> In("o", "int32") @@ 2 :> In("q", "string")),
          One(1 :> [In("o", "int32") EXCEPT !.optional3 = TRUE] @@ 2 :> Field("string")),
          One(1 :> [Field("int32") EXCEPT !.label = "repeated"]),
          One(Empty),
          Proto(File([M |-> Message(1 :> Field("int32"))])),
          Proto(File([M |-> Inner("int32")])), Proto(File([M |-> Inner("sint32")])),
          ImportX(XFile("int32")), ImportX(XFile("int64")), ImportX(XFile("string"))}

-------------------------------------------------------------------------------
(* Avro. *)

Prim(t) == [type |-> t]
Logical(t) == [type |-> t, logicalType |-> "decimal", precision |-> 4, scale |-> 2]
Enum(name, aliases, symbols) ==
    [type |-> "enum", name |-> name, aliases |-> aliases, symbols |-> symbols]
Defaulted(e, symbol) == e @@ [default |-> symbol]
Record(name, aliases, fields) ==
    [type |-> "record", name |-> name, aliases |-> aliases, fields |-> fields]
F(t) == [type |-> t, default |-> FALSE]
D(t) == [type |-> t, default |-> TRUE]
Enums == {Enum("E", {}, {"a"}), Enum("E", {}, {"a", "b"}), Enum("E", {}, {"b"}),
          Enum("G", {"E"}, {"a"}), Defaulted(Enum("E", {}, {"a"}), "a"),
          Defaulted(Enum("E", {}, {"a"}), "b"), Defaulted(Enum("G", {"E"}, {"b"}), "b")}

AvroCorpus ==
    {Prim("int"), Prim("long"), Prim("string"), Prim("bytes"), Logical("bytes")}
    \cup Enums
    \cup {[type |-> "array", items |-> e] : e \in Enums}
    \cup {Record("R", {}, [f |-> F(e)]) : e \in Enums}
    \cup {[union |-> <<Prim("int"), Enum("E", {}, {"a", "b"})>>],
          [union |-> <<Prim("int"), Defaulted(Enum("E", {}, {"a"}), "a")>>],
          [union |-> <<Defaulted(Enum("E", {}, {"a"}), "a"), Prim("int")>>],
          [union |-> <<Prim("int"), Prim("string")>>],
          Record("R", {}, [f |-> F(Prim("int"))]),
          Record("S", {"R"}, [f |-> F(Prim("long"))]),
          Record("R", {}, [f |-> F(Prim("int")), g |-> D(Prim("int"))]),
          Record("R", {}, [f |-> F(Prim("int")), g |-> F(Prim("int"))])}

MCCorpus == "JSON" :> JsonCorpus @@ "PROTOBUF" :> ProtoCorpus @@ "AVRO" :> AvroCorpus

===============================================================================
