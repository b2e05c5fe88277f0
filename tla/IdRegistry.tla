------------------------------ MODULE IdRegistry ------------------------------
(***************************************************************************)
(* What a registry promises to its clients, whatever happens to its nodes: *)
(* each schema gets one id, larger than all the ids given before, for good *)
(* and in one step; and a client is told an id only once it is given.      *)
(***************************************************************************)
EXTENDS Naturals

CONSTANT Schemas

VARIABLES
    bound,      \* the <<schema, id>> pairs given
    acked       \* the pairs clients were told of

vars == <<bound, acked>>

Init == bound = {} /\ acked = {}

Bind(s) ==
    /\ \E p \in bound' :
          /\ p[1] = s /\ p[2] \in Nat
          /\ bound' = bound \cup {p}
          /\ \A q \in bound : q[1] # s /\ q[2] < p[2]
    /\ UNCHANGED acked

Answer(p) ==
    /\ acked' = acked \cup {p}
    /\ UNCHANGED bound

Next ==
    \/ \E s \in Schemas : Bind(s)
    \/ \E p \in bound : Answer(p)

Spec == Init /\ [][Next]_vars

===============================================================================
