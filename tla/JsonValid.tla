------------------------------ MODULE JsonValid ------------------------------
(***************************************************************************)
(* Reference semantics for JsonDiff: which instances a JSON Schema accepts.*)
(*                                                                         *)
(* An instance is [num |-> h], the number h/2; [str |-> n], a string of n  *)
(* characters; [arr |-> sequence]; or [obj |-> function of names].  A      *)
(* `pattern` is the set of lengths it matches.                             *)
(***************************************************************************)
EXTENDS JsonDiff

TypeNames(x) ==
    CASE Has(x, "num") -> IF x.num % 2 = 0 THEN {"integer", "number"} ELSE {"number"}
      [] Has(x, "str") -> {"string"}
      [] Has(x, "arr") -> {"array"}
      [] Has(x, "obj") -> {"object"}

RECURSIVE Valid(_, _, _)

ValidNumber(s, x) ==
    /\ x.num <= 2 * Get(s, "maximum", x.num)
    /\ x.num >= 2 * Get(s, "minimum", 0)
    /\ Has(s, "exclusiveMaximum") => x.num < 2 * s.exclusiveMaximum
    /\ Has(s, "exclusiveMinimum") => x.num > 2 * s.exclusiveMinimum
    /\ Has(s, "multipleOf") => x.num % (2 * s.multipleOf) = 0

ValidString(s, x) ==
    /\ x.str <= Get(s, "maxLength", x.str) /\ x.str >= Get(s, "minLength", 0)
    /\ Has(s, "pattern") => x.str \in s.pattern

ValidArray(s, x, doc) ==
    LET n == Len(x.arr)
        tuple == IF Has(s, "items") /\ Has(s.items, "tuple") THEN s.items.tuple ELSE << >>
    IN  /\ n <= Get(s, "maxItems", n) /\ n >= Get(s, "minItems", 0)
        /\ Get(s, "uniqueItems", FALSE) => Cardinality({x.arr[i] : i \in 1..n}) = n
        /\ Has(s, "items") /\ Has(s.items, "one") => \A i \in 1..n : Valid(s.items.one, x.arr[i], doc)
        /\ \A i \in 1..n \cap DOMAIN tuple : Valid(tuple[i], x.arr[i], doc)
        /\ tuple # << >> /\ Has(s, "additionalItems") =>
              \A i \in 1..n \ DOMAIN tuple : Valid(s.additionalItems, x.arr[i], doc)

(* A writer provides every required property; a reader (doc.reads) fills   *)
(* in those that have a default.                                           *)
ValidObject(s, x, doc) ==
    LET names == DOMAIN x.obj
        n     == Cardinality(names)
    IN  /\ n <= Get(s, "maxProperties", n) /\ n >= Get(s, "minProperties", 0)
        /\ \A p \in required_set(s) \ names :
              doc.reads /\ p \in Fields(s, "properties") /\ Has(s.properties[p], "default")
        /\ \A p \in names \cap Fields(s, "properties") : Valid(s.properties[p], x.obj[p], doc)
        /\ Has(s, "additionalProperties") =>
              \A p \in names \ Fields(s, "properties") : Valid(s.additionalProperties, x.obj[p], doc)
        /\ \A p \in names \cap Fields(s, "dependencies") :
              LET d == s.dependencies[p]
              IN  IF Has(d, "needs") THEN d.needs \subseteq names ELSE Valid(d.schema, x, doc)

Valid(s, x, doc) ==
    IF is_boolean(s) THEN s.bool
    ELSE IF Has(s, "ref") THEN \A t \in resolve_ref(s, doc.root, doc.refs) : Valid(t, x, doc)
    ELSE /\ types_of(s) # {} => TypeNames(x) \cap types_of(s) # {}
         /\ has_enum(s) => Has(x, "num") /\ x.num \in {2 * e : e \in enum_set(s)}
         /\ Has(x, "num") => ValidNumber(s, x)
         /\ Has(x, "str") => ValidString(s, x)
         /\ Has(x, "arr") => ValidArray(s, x, doc)
         /\ Has(x, "obj") => ValidObject(s, x, doc)
         /\ Has(s, "allOf") => \A i \in DOMAIN s.allOf : Valid(s.allOf[i], x, doc)
         /\ Has(s, "anyOf") => \E i \in DOMAIN s.anyOf : Valid(s.anyOf[i], x, doc)
         /\ Has(s, "not") => ~Valid(s.not, x, doc)
         /\ Has(s, "if") => IF Valid(s["if"], x, doc)
                            THEN Has(s, "then") => Valid(s["then"], x, doc)
                            ELSE Has(s, "else") => Valid(s["else"], x, doc)

Accepts(doc, x, reads) ==
    Valid(doc.root, x, [root |-> doc.root, refs |-> doc.refs, reads |-> reads])

(* The schemas on which the check promises soundness.  Outside of them its *)
(* rules let unreadable data through by design: `items` added where there  *)
(* were none, additionalProperties true replaced by a schema, a required   *)
(* name that is no property, patternProperties (never compared), oneOf     *)
(* (one alternative more may match), oneOf replaced by anyOf (branches not *)
(* compared), boolean subschemas (nothing to compare), a default on a      *)
(* property an additionalProperties schema covered, a shorter tuple before *)
(* additionalItems, a reference that does not resolve.                     *)
RECURSIVE Exact(_)
Subschemas(s) ==
    {s.properties[p] : p \in Fields(s, "properties")}
        \cup {s.defs[p] : p \in Fields(s, "defs")}
        \cup {s[k] : k \in {"not", "if", "then", "else"} \cap DOMAIN s}
        \cup {s[k] : k \in {j \in {"additionalProperties", "additionalItems"} \cap DOMAIN s :
                            ~is_boolean(s[j])}}
        \cup UNION {{s[k][i] : i \in DOMAIN s[k]} : k \in {"allOf", "anyOf"} \cap DOMAIN s}
        \cup (IF Has(s, "items")
              THEN IF Has(s.items, "one") THEN {s.items.one}
                   ELSE {s.items.tuple[i] : i \in DOMAIN s.items.tuple} ELSE {})
        \cup {s.dependencies[p].schema : p \in {q \in Fields(s, "dependencies") :
                                                Has(s.dependencies[q], "schema")}}

RECURSIVE HasDefault(_)
HasDefault(s) == Has(s, "default") \/ \E t \in Subschemas(s) : HasDefault(t)

Exact(s) ==
    /\ {"oneOf", "patternProperties", "bool"} \cap DOMAIN s = {}
    /\ \A k \in {"additionalProperties", "additionalItems"} \cap DOMAIN s :
          is_boolean(s[k]) => ~s[k].bool
    /\ Has(s, "items") <=> types_of(s) = {"array"}
    /\ Has(s, "items") => Has(s.items, "one") \/ Has(s.items, "tuple")
    /\ Has(s, "additionalItems") => Has(s.items, "tuple") /\ Len(s.items.tuple) = 1
    /\ "array" \in types_of(s) => types_of(s) = {"array"}
    /\ required_set(s) \subseteq Fields(s, "properties")
    /\ content_model(s) = "schema" =>
          \A p \in Fields(s, "properties") : ~Has(s.properties[p], "default")
    /\ \A t \in Subschemas(s) : Exact(t)

===============================================================================
