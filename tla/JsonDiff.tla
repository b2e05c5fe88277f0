------------------------------- MODULE JsonDiff -------------------------------
(***************************************************************************)
(* The JSON Schema compatibility check (format/json/mod.rs, diff.rs and    *)
(* compat.rs).                                                             *)
(*                                                                         *)
(* A schema is a record of the keywords it has.  A boolean schema is       *)
(* [bool |-> b].  `type`, `required` and `enum` are sets; `properties`,    *)
(* `dependencies` and `defs` are functions of names; `patternProperties`   *)
(* is a function of patterns, a pattern being the set of names it matches; *)
(* `items` is [one |-> schema], [tuple |-> schemas] or [flag |-> b]; a     *)
(* dependency is [needs |-> names] or [schema |-> s]; `ref` is <<"#">>,    *)
(* <<"#", name>> for a pointer to a member of `defs`, or <<name>> for a    *)
(* registry reference.                                                     *)
(* Bounds and multipleOf are integers (the code's f64 comparisons with an  *)
(* epsilon are exact on those).  A document is [root, refs].               *)
(*                                                                         *)
(* A difference is its kind, <<keyword, change>>; paths only appear in     *)
(* messages.  The operators follow the recursion of the code, so they are  *)
(* for documents on which it ends; JsonWalk is about the recursion itself. *)
(***************************************************************************)
EXTENDS Naturals, Sequences, FiniteSets, FiniteSetsExt

Has(s, k) == k \in DOMAIN s
Get(s, k, default) == IF Has(s, k) THEN s[k] ELSE default
Fields(s, k) == IF Has(s, k) THEN DOMAIN s[k] ELSE {}
is_boolean(s) == Has(s, "bool")

-------------------------------------------------------------------------------
(* Differences of one keyword. *)

types_of(s) == Get(s, "type", {})

compare_type(orig, upd) ==
    LET ot == types_of(orig)
        ut == types_of(upd)
    IN  CASE ot = ut -> {}
          [] ot = {"integer"} /\ ut = {"number"} -> {<<"type", "Extended">>}
          [] ot = {"number"} /\ ut = {"integer"} -> {<<"type", "Narrowed">>}
          [] ot = {} /\ ut # {} -> {<<"type", "Narrowed">>}
          [] ot # {} /\ ut = {} -> {<<"type", "Extended">>}
          [] OTHER -> CASE ut \subseteq ot -> {<<"type", "Narrowed">>}
                        [] ot \subseteq ut -> {<<"type", "Extended">>}
                        [] OTHER -> {<<"type", "Changed">>}

has_enum(s) == Has(s, "enum") \/ Has(s, "const")

(* `const` is an enum of one value. *)
enum_set(s) == IF Has(s, "enum") THEN s.enum ELSE {s.const}

compare_enum(orig, upd) ==
    CASE ~has_enum(orig) /\ ~has_enum(upd) -> {}
      [] ~has_enum(orig) /\ has_enum(upd) -> {<<"enum", "Narrowed">>}
      [] has_enum(orig) /\ ~has_enum(upd) -> {<<"enum", "Extended">>}
      [] OTHER -> LET oe == enum_set(orig)
                      ue == enum_set(upd)
                  IN  CASE oe = ue -> {}
                        [] oe # ue /\ ue \subseteq oe -> {<<"enum", "Narrowed">>}
                        [] oe # ue /\ oe \subseteq ue -> {<<"enum", "Extended">>}
                        [] OTHER -> {<<"enum", "Changed">>}

compare_bound(orig, upd, key) ==
    CASE ~Has(orig, key) /\ ~Has(upd, key) -> {}
      [] ~Has(orig, key) /\ Has(upd, key) -> {<<key, "Added">>}
      [] Has(orig, key) /\ ~Has(upd, key) -> {<<key, "Removed">>}
      [] OTHER -> CASE upd[key] = orig[key] -> {}
                    [] upd[key] < orig[key] -> {<<key, "Decreased">>}
                    [] upd[key] > orig[key] -> {<<key, "Increased">>}

UpperBounds == {"maximum", "exclusiveMaximum", "maxLength", "maxItems", "maxProperties"}
LowerBounds == {"minimum", "exclusiveMinimum", "minLength", "minItems", "minProperties"}

(* compare_numeric, and the bounds of strings, arrays and objects. *)
compare_bounds(orig, upd) ==
    UNION {compare_bound(orig, upd, key) : key \in UpperBounds \cup LowerBounds}

compare_multiple_of(orig, upd) ==
    LET k == "multipleOf"
    IN  CASE ~Has(orig, k) /\ ~Has(upd, k) -> {}
          [] ~Has(orig, k) /\ Has(upd, k) -> {<<k, "Added">>}
          [] Has(orig, k) /\ ~Has(upd, k) -> {<<k, "Removed">>}
          [] OTHER -> CASE orig[k] = upd[k] -> {}
                        [] orig[k] # upd[k] /\ orig[k] % upd[k] = 0 -> {<<k, "Reduced">>}
                        [] orig[k] % upd[k] # 0 /\ upd[k] % orig[k] = 0 -> {<<k, "Expanded">>}
                        [] OTHER -> {<<k, "Changed">>}

compare_pattern(orig, upd) ==
    CASE ~Has(orig, "pattern") /\ ~Has(upd, "pattern") -> {}
      [] ~Has(orig, "pattern") /\ Has(upd, "pattern") -> {<<"pattern", "Added">>}
      [] Has(orig, "pattern") /\ ~Has(upd, "pattern") -> {<<"pattern", "Removed">>}
      [] OTHER -> IF orig.pattern = upd.pattern THEN {} ELSE {<<"pattern", "Changed">>}

compare_unique_items(orig, upd) ==
    LET o == Get(orig, "uniqueItems", FALSE)
        u == Get(upd, "uniqueItems", FALSE)
    IN  CASE o = u -> {}
          [] u /\ ~o -> {<<"uniqueItems", "Added">>}
          [] o /\ ~u -> {<<"uniqueItems", "Removed">>}

-------------------------------------------------------------------------------
(* Objects. *)

content_model(s) ==
    CASE Has(s, "additionalProperties") ->
            IF is_boolean(s.additionalProperties)
            THEN IF s.additionalProperties.bool THEN "open" ELSE "closed"
            ELSE "schema"
      [] ~Has(s, "additionalProperties") /\ Has(s, "patternProperties") -> "partial"
      [] OTHER -> "open"

(* The schemas that apply to a property `properties` does not name. *)
covering_schemas(s, name) ==
    (IF content_model(s) = "schema" THEN {s.additionalProperties} ELSE {})
        \cup {s.patternProperties[p] : p \in {q \in Fields(s, "patternProperties") : name \in q}}

required_set(s) == Get(s, "required", {})

(* Seeded defect: a new required attribute passes. *)
compare_required_lenient(orig, upd) ==
    IF required_set(orig) \subseteq required_set(upd) THEN {} ELSE {<<"required", "Removed">>}

(* Attributes both sides describe that become required, or cease to be. *)
compare_required(orig, upd) ==
    {<<"required", IF Has(upd.properties[name], "default") THEN "WithDefaultAdded" ELSE "Added">> :
        name \in (required_set(upd) \ required_set(orig))
                    \cap Fields(orig, "properties") \cap Fields(upd, "properties")}
    \cup (IF required_set(orig) \subseteq required_set(upd) THEN {} ELSE {<<"required", "Removed">>})

(* The kind of a property `upd` adds, and of one it removes. *)
property_added(orig, upd, name) ==
    LET s     == upd.properties[name]
        model == content_model(orig)
    IN  (IF name \in required_set(upd) /\ ~Has(s, "default") THEN {<<"required", "Added">>} ELSE {})
        \cup {<<"property",
                CASE model = "open" -> IF DOMAIN s = {} THEN "EmptyAddedToOpen" ELSE "AddedToOpen"
                  [] model = "closed" -> "AddedToClosed"
                  [] OTHER -> IF covering_schemas(orig, name) = {} THEN "AddedNotCovered"
                                                                   ELSE "AddedCovered">>}

property_removed(upd, name) ==
    LET model == content_model(upd)
    IN  {<<"property",
           CASE model = "open" -> "RemovedFromOpen"
             [] model = "closed" -> "RemovedFromClosed"
             [] OTHER -> IF covering_schemas(upd, name) = {} THEN "RemovedNotCovered"
                                                             ELSE "RemovedCovered">>}

(* A required property with a default that a model not open gains: nothing *)
(* else of it is compared.                                                 *)
defaulted(orig, upd, name) ==
    /\ name \in required_set(upd) /\ Has(upd.properties[name], "default")
    /\ content_model(orig) # "open"

-------------------------------------------------------------------------------
(* The verdict. *)

is_backward_compatible(kind) ==
    \/ kind[1] \in UpperBounds /\ kind[2] \in {"Removed", "Increased"}
    \/ kind[1] \in LowerBounds /\ kind[2] \in {"Removed", "Decreased"}
    \/ kind \in {<<"type", "Extended">>, <<"enum", "Extended">>,
                 <<"property", "RemovedFromOpen">>, <<"property", "AddedToClosed">>,
                 <<"property", "AddedCovered">>, <<"property", "AddedNotCovered">>,
                 <<"property", "RemovedCovered">>, <<"property", "EmptyAddedToOpen">>,
                 <<"required", "Removed">>, <<"required", "WithDefaultAdded">>,
                 <<"required", "DefaultedPropertyAdded">>,
                 <<"additionalProperties", "Added">>, <<"additionalProperties", "Extended">>,
                 <<"multipleOf", "Removed">>, <<"multipleOf", "Reduced">>,
                 <<"pattern", "Removed">>, <<"uniqueItems", "Removed">>,
                 <<"additionalItems", "Added">>, <<"additionalItems", "Extended">>,
                 <<"combined", "Extended">>, <<"product", "Narrowed">>,
                 <<"sum", "Extended">>, <<"not", "Narrowed">>,
                 <<"dependencyArray", "Removed">>, <<"dependencyArray", "Narrowed">>,
                 <<"dependencySchema", "Removed">>}

-------------------------------------------------------------------------------
(* Subschemas. *)

(* Seeded defect: no augmenting path is looked for. *)
RECURSIVE augment_greedy(_, _, _, _)
augment_greedy(candidates, index, edges, st) ==
    IF candidates = << >> THEN [st EXCEPT !.found = FALSE]
    ELSE LET c == Head(candidates)
         IN  IF st.matched[c] = 0
             THEN [st EXCEPT !.found = TRUE, !.matched[c] = index]
             ELSE augment_greedy(Tail(candidates), index, edges, st)

(* Kuhn's algorithm: match branch `index` of the original with one of the  *)
(* candidates not seen yet, moving what is matched there elsewhere.        *)
RECURSIVE augment(_, _, _, _)
augment(candidates, index, edges, st) ==
    IF candidates = << >> THEN [st EXCEPT !.found = FALSE]
    ELSE LET c     == Head(candidates)
             other == st.matched[c]
             seen  == [st EXCEPT !.seen = @ \cup {c}]
             moved == IF other = 0 THEN [seen EXCEPT !.found = TRUE]
                      ELSE augment(edges[other], other, edges, seen)
         IN  IF c \in st.seen THEN augment(Tail(candidates), index, edges, st)
             ELSE IF moved.found THEN [moved EXCEPT !.matched[c] = index]
             ELSE augment(Tail(candidates), index, edges, moved)

RECURSIVE matching(_, _, _)
matching(index, edges, matched) ==
    IF index > Len(edges) THEN Cardinality({c \in DOMAIN matched : matched[c] # 0})
    ELSE matching(index + 1, edges,
                  augment(edges[index], index, edges,
                          [seen |-> {}, matched |-> matched, found |-> FALSE]).matched)

(* resolve_ref, as a set: empty for a reference that does not resolve. *)
resolve_ref(s, root, refs) ==
    CASE ~Has(s, "ref") -> {}
      [] Has(s, "ref") /\ s.ref = <<"#">> -> {root}
      [] Has(s, "ref") /\ Len(s.ref) = 2 ->
            {root.defs[name] : name \in {s.ref[2]} \cap Fields(root, "defs")}
      [] OTHER -> {refs[name] : name \in {s.ref[1]} \cap DOMAIN refs}

RECURSIVE compare_schema(_, _, _)

(* A comparison of its own, with no pair of references on the way to it. *)
branch_compatible(orig, upd, ctx) ==
    \A kind \in compare_schema(orig, upd, [ctx EXCEPT !.visited = {}]) :
        is_backward_compatible(kind)

maximum_matching(old, new, ctx) ==
    LET edges == [i \in DOMAIN old |->
                    SelectSeq([j \in DOMAIN new |-> j],
                              LAMBDA j : branch_compatible(old[i], new[j], ctx))]
    IN  matching(1, edges, [j \in DOMAIN new |-> 0])

(* The branches of one combinator that both sides have. *)
compare_branches(old, new, longer, shorter, ctx) ==
    LET least == IF Len(old) <= Len(new) THEN Len(old) ELSE Len(new)
    IN  CASE old = new -> {}
          [] old # new /\ maximum_matching(old, new, ctx) < least -> {<<"combined", "BranchesChanged">>}
          [] OTHER -> CASE Len(new) > Len(old) -> {longer}
                        [] Len(new) < Len(old) -> {shorter}
                        [] Len(new) = Len(old) -> {}

compare_all_of(orig, upd, ctx) ==
    CASE ~Has(orig, "allOf") /\ ~Has(upd, "allOf") -> {}
      [] Has(orig, "allOf") /\ Has(upd, "allOf") ->
            compare_branches(orig.allOf, upd.allOf, <<"product", "Extended">>,
                             <<"product", "Narrowed">>, ctx)
      [] OTHER -> {<<"combined", "Changed">>}

(* anyOf is looked for first. *)
sum_kind(s) == IF Has(s, "anyOf") THEN "anyOf" ELSE IF Has(s, "oneOf") THEN "oneOf" ELSE "none"

compare_sum(orig, upd, ctx) ==
    LET ok == sum_kind(orig)
        uk == sum_kind(upd)
    IN  CASE ok = "none" /\ uk = "none" -> {}
          [] ok # "none" /\ ok = uk ->
                compare_branches(orig[ok], upd[uk], <<"sum", "Extended">>, <<"sum", "Narrowed">>, ctx)
          [] "none" \notin {ok, uk} /\ ok # uk ->
                {<<"combined", IF uk = "anyOf" THEN "Extended" ELSE "Changed">>}
          [] ok = "none" /\ uk # "none" ->
                {IF \E j \in DOMAIN upd[uk] : branch_compatible(orig, upd[uk][j], ctx)
                 THEN <<"sum", "Extended">> ELSE <<"combined", "Changed">>}
          [] ok # "none" /\ uk = "none" ->
                {IF \A i \in DOMAIN orig[ok] : branch_compatible(orig[ok][i], upd, ctx)
                 THEN <<"sum", "Narrowed">> ELSE <<"combined", "Changed">>}

compare_not(orig, upd, ctx) ==
    CASE ~Has(orig, "not") /\ ~Has(upd, "not") -> {}
      [] Has(orig, "not") /\ Has(upd, "not") ->
            IF orig.not = upd.not THEN {}
            ELSE {<<"not", IF branch_compatible(upd.not, orig.not, ctx)
                           THEN "Narrowed" ELSE "Extended">>}
      [] OTHER -> {<<"combined", "Changed">>}

compare_combinators(orig, upd, ctx) ==
    compare_all_of(orig, upd, ctx) \cup compare_sum(orig, upd, ctx)
        \cup compare_not(orig, upd, ctx)

compare_properties(orig, upd, ctx) ==
    LET op == Fields(orig, "properties")
        up == Fields(upd, "properties")
    IN  UNION {property_removed(upd, name)
                   \cup (IF content_model(upd) \in {"open", "closed"} THEN {}
                         ELSE UNION {compare_schema(orig.properties[name], allowed, ctx) :
                                     allowed \in covering_schemas(upd, name)}) :
               name \in op \ up}
        \cup UNION {IF defaulted(orig, upd, name) THEN {<<"required", "DefaultedPropertyAdded">>}
                    ELSE property_added(orig, upd, name)
                         \cup (IF content_model(orig) \in {"open", "closed"} THEN {}
                               ELSE UNION {compare_schema(allowed, upd.properties[name], ctx) :
                                           allowed \in covering_schemas(orig, name)}) :
                    name \in up \ op}
        \cup UNION {compare_schema(orig.properties[name], upd.properties[name], ctx) :
                    name \in op \cap up}

(* compare_additional_properties; additionalItems is compared alike. *)
compare_additional(orig, upd, key, ctx) ==
    LET Closed(s)    == Has(s, key) /\ is_boolean(s[key]) /\ ~s[key].bool
        HasSchema(s) == Has(s, key) /\ ~is_boolean(s[key])
    IN  CASE Closed(orig) /\ ~Closed(upd) -> {<<key, "Added">>}
          [] Closed(upd) /\ ~Closed(orig) -> {<<key, "Removed">>}
          [] ~Has(orig, key) /\ HasSchema(upd) -> {<<key, "Narrowed">>}
          [] ~Has(upd, key) /\ HasSchema(orig) -> {<<key, "Extended">>}
          [] HasSchema(orig) /\ HasSchema(upd) -> compare_schema(orig[key], upd[key], ctx)
          [] OTHER -> {}

(* Items that are single schemas, or tuples of them; items that are not of *)
(* the same sort, boolean ones included, count as a change of type.        *)
compare_items(orig, upd, ctx) ==
    CASE ~Has(orig, "items") \/ ~Has(upd, "items") -> {}
      [] OTHER ->
         LET oi == orig.items
             ui == upd.items
         IN  CASE Has(oi, "one") /\ Has(ui, "one") -> compare_schema(oi.one, ui.one, ctx)
               [] Has(oi, "tuple") /\ Has(ui, "tuple") ->
                     UNION {compare_schema(oi.tuple[i], ui.tuple[i], ctx) :
                            i \in DOMAIN oi.tuple \cap DOMAIN ui.tuple}
                     \cup (CASE Len(ui.tuple) > Len(oi.tuple) -> {<<"additionalItems", "Removed">>}
                             [] Len(ui.tuple) < Len(oi.tuple) -> {<<"additionalItems", "Added">>}
                             [] Len(ui.tuple) = Len(oi.tuple) -> {})
               [] OTHER -> {<<"type", "Changed">>}

dependency_kind(value) == IF Has(value, "needs") THEN "dependencyArray" ELSE "dependencySchema"

compare_dependency(old, new, ctx) ==
    CASE Has(old, "needs") /\ Has(new, "needs") ->
            CASE new.needs = old.needs -> {}
              [] new.needs # old.needs /\ old.needs \subseteq new.needs -> {<<"dependencyArray", "Extended">>}
              [] new.needs # old.needs /\ new.needs \subseteq old.needs -> {<<"dependencyArray", "Narrowed">>}
              [] OTHER -> {<<"dependencyArray", "Changed">>}
      [] Has(old, "schema") /\ Has(new, "schema") -> compare_schema(old.schema, new.schema, ctx)
      [] OTHER -> {<<"dependencyArray", "Changed">>}

compare_dependencies(orig, upd, ctx) ==
    LET old == Fields(orig, "dependencies")
        new == Fields(upd, "dependencies")
    IN  {<<dependency_kind(orig.dependencies[n]), "Removed">> : n \in old \ new}
        \cup {<<dependency_kind(upd.dependencies[n]), "Added">> : n \in new \ old}
        \cup UNION {compare_dependency(orig.dependencies[n], upd.dependencies[n], ctx) :
                    n \in old \cap new}

compare_conditionals(orig, upd, ctx) ==
    UNION {CASE Has(orig, kw) # Has(upd, kw) -> {<<"conditional", "Changed">>}
             [] Has(orig, kw) /\ Has(upd, kw) ->
                   IF orig[kw] = upd[kw] THEN {}
                   ELSE {<<"conditional", "Changed">>} \cup compare_schema(orig[kw], upd[kw], ctx)
             [] OTHER -> {} : kw \in {"if", "then", "else"}}

(* A pair of references being compared already is a cycle and ends there.  *)
(* A side that does not resolve is compared as it is.                      *)
compare_refs(orig, upd, ctx) ==
    LET key == <<Get(orig, "ref", << >>), Get(upd, "ref", << >>)>>
        ores == resolve_ref(orig, ctx.oroot, ctx.orefs)
        ures == resolve_ref(upd, ctx.uroot, ctx.urefs)
        inner == [ctx EXCEPT !.visited = @ \cup {key}]
    IN  IF key \in ctx.visited \/ (ores = {} /\ ures = {}) THEN {}
        ELSE UNION {compare_schema(o, u, inner) : o \in (IF ores = {} THEN {orig} ELSE ores),
                                                  u \in (IF ures = {} THEN {upd} ELSE ures)}

compare_schema(orig, upd, ctx) ==
    IF Has(orig, "ref") \/ Has(upd, "ref") THEN compare_refs(orig, upd, ctx)
    ELSE compare_type(orig, upd)
         \cup compare_enum(orig, upd)
         \cup compare_properties(orig, upd, ctx)
         \cup compare_required(orig, upd)
         \cup compare_additional(orig, upd, "additionalProperties", ctx)
         \cup compare_bounds(orig, upd)
         \cup compare_multiple_of(orig, upd)
         \cup compare_pattern(orig, upd)
         \cup compare_items(orig, upd, ctx)
         \cup compare_additional(orig, upd, "additionalItems", ctx)
         \cup compare_unique_items(orig, upd)
         \cup compare_combinators(orig, upd, ctx)
         \cup compare_dependencies(orig, upd, ctx)
         \cup compare_conditionals(orig, upd, ctx)

compare_with_refs(orig, upd) ==
    compare_schema(orig.root, upd.root,
        [oroot |-> orig.root, uroot |-> upd.root, orefs |-> orig.refs, urefs |-> upd.refs,
         visited |-> {}])

(* check: the writer is the original, the reader the update. *)
check(reader, writer) ==
    \A kind \in compare_with_refs(writer, reader) : is_backward_compatible(kind)

===============================================================================
