------------------------------- MODULE Sources --------------------------------
(***************************************************************************)
(* The references of a schema as the registry client of a client process   *)
(* resolves them (registry/mod.rs): resolve_reference_sources over a map   *)
(* `refs` from names to the sequence of names each refers to.  A name      *)
(* stands for the subject and version it is registered as.                 *)
(***************************************************************************)
EXTENDS Integers, Sequences

Unresolved == [ok |-> FALSE, order |-> << >>]
InSeq(x, seq) == \E i \in DOMAIN seq : seq[i] = x

RECURSIVE resolve_reference_sources(_, _, _, _, _, _)

(* Seeded defect: a source is listed before those it refers to. *)
resolve_sources_first(names, refs, order, resolving, depth, max) ==
    IF depth >= max THEN Unresolved
    ELSE IF names = << >> THEN [ok |-> TRUE, order |-> order]
    ELSE LET n     == Head(names)
             after == resolve_reference_sources(refs[n], refs, Append(order, n),
                                                resolving \cup {n}, depth + 1, max)
         IN  IF ~InSeq(n, order) /\ (n \in resolving \/ ~after.ok) THEN Unresolved
             ELSE resolve_reference_sources(Tail(names), refs,
                      IF InSeq(n, order) THEN order ELSE after.order, resolving, depth, max)

(* Depth first; `order` lists the names whose sources are in, `resolving`  *)
(* those on the way down.                                                  *)
resolve_reference_sources(names, refs, order, resolving, depth, max) ==
    IF depth >= max THEN Unresolved
    ELSE IF names = << >> THEN [ok |-> TRUE, order |-> order]
    ELSE LET n    == Head(names)
             deep == resolve_reference_sources(refs[n], refs, order, resolving \cup {n}, depth + 1, max)
         IN  CASE InSeq(n, order) ->
                     resolve_reference_sources(Tail(names), refs, order, resolving, depth, max)
               [] ~InSeq(n, order) /\ n \in resolving -> Unresolved
               [] ~InSeq(n, order) /\ n \notin resolving ->
                     IF ~deep.ok THEN Unresolved
                     ELSE resolve_reference_sources(Tail(names), refs, Append(deep.order, n),
                                                    resolving, depth, max)

===============================================================================
