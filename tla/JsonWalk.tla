------------------------------- MODULE JsonWalk -------------------------------
(***************************************************************************)
(* The recursion of the JSON Schema comparison (json/diff.rs).  JsonDiff   *)
(* says what a comparison that ends computes; here the calls of            *)
(* compare_schema are the state: the stack of those in progress, with the  *)
(* cycle guard of each, `visited`.  A call may make any of its comparisons *)
(* next, or return.                                                        *)
(***************************************************************************)
EXTENDS JsonDiff

CONSTANTS Pairs     \* <<original, update>> documents that are compared

VARIABLES pair, stack

vars == <<pair, stack>>

Call(orig, upd, visited) == [orig |-> orig, upd |-> upd, visited |-> visited]
Top == stack[Len(stack)]

Init ==
    \E p \in Pairs :
        /\ pair = p
        /\ stack = <<Call(p[1].root, p[2].root, {})>>

ref_key(c) == <<Get(c.orig, "ref", << >>), Get(c.upd, "ref", << >>)>>

(* What compare_refs compares: nothing for a pair it is walking already. *)
ref_calls(c) ==
    LET ores == resolve_ref(c.orig, pair[1].root, pair[1].refs)
        ures == resolve_ref(c.upd, pair[2].root, pair[2].refs)
    IN  IF ref_key(c) \in c.visited \/ (ores = {} /\ ures = {}) THEN {}
        ELSE {Call(o, u, c.visited \cup {ref_key(c)}) :
                  o \in (IF ores = {} THEN {c.orig} ELSE ores),
                  u \in (IF ures = {} THEN {c.upd} ELSE ures)}

(* Properties and items of both, within the same context. *)
child_calls(c) ==
    {Call(c.orig.properties[p], c.upd.properties[p], c.visited) :
        p \in Fields(c.orig, "properties") \cap Fields(c.upd, "properties")}
    \cup (IF Has(c.orig, "items") /\ Has(c.upd, "items")
             /\ Has(c.orig.items, "one") /\ Has(c.upd.items, "one")
          THEN {Call(c.orig.items.one, c.upd.items.one, c.visited)} ELSE {})

(* branch_compatible starts from a context of its own: branches of one     *)
(* combinator that are not all the same, and one side's branches against   *)
(* the other side as a whole.                                              *)
branch_calls(c) ==
    LET Branches(s, k) == {s[k][i] : i \in DOMAIN Get(s, k, << >>)}
        Fresh(os, us)  == {Call(o, u, {}) : o \in os, u \in us}
        ok == sum_kind(c.orig)
        uk == sum_kind(c.upd)
    IN  UNION {Fresh(Branches(c.orig, k), Branches(c.upd, k)) :
               k \in {j \in {"allOf", ok} : Has(c.orig, j) /\ Has(c.upd, j)
                                              /\ (j = "allOf" \/ ok = uk) /\ c.orig[j] # c.upd[j]}}
        \cup (IF ok = "none" /\ uk # "none" THEN Fresh({c.orig}, Branches(c.upd, uk)) ELSE {})
        \cup (IF ok # "none" /\ uk = "none" THEN Fresh(Branches(c.orig, ok), {c.upd}) ELSE {})

Compare ==
    /\ stack # << >>
    /\ \E c \in (IF Has(Top.orig, "ref") \/ Has(Top.upd, "ref") THEN ref_calls(Top)
                 ELSE child_calls(Top) \cup branch_calls(Top)) :
          stack' = Append(stack, c)
    /\ UNCHANGED pair

Return ==
    /\ stack # << >>
    /\ stack' = SubSeq(stack, 1, Len(stack) - 1)
    /\ UNCHANGED pair

Next == Compare \/ Return
Spec == Init /\ [][Next]_vars

(* No pair of references is walked again below a walk of the same pair, so *)
(* that recursive schemas end the comparison: the cycle guard of Ctx       *)
(* ("a cycle-guard set of the pairs already visited", json/diff.rs:138-139,*)
(* and the test references_resolve_before_diffing_and_cycles_terminate).   *)
CyclesTerminate ==
    \A i, j \in 1..(Len(stack) - 1) :
        i < j /\ ref_key(stack[i]) = ref_key(stack[j]) => ref_key(stack[i]) = <<<< >>, << >>>>

===============================================================================
