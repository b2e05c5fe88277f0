----------------------------- MODULE PrimaryRole -----------------------------
(***************************************************************************)
(* What the election promises its users, KafkaStore::prepare_write and the *)
(* forwarding layer, about the watched PrimaryState: each generation of    *)
(* the group has one master; a node comes to know the generations in       *)
(* increasing order, late or not at all, and believes to be primary for a  *)
(* generation only if it is that generation's master; it may cease to      *)
(* believe so at any time.                                                 *)
(*                                                                         *)
(* Election is shown to implement this module, and the election steps of   *)
(* PrimaryWrites to be the steps of this module, so PrimaryWrites assumes  *)
(* of the election no more than election/client.rs provides.               *)
(***************************************************************************)
EXTENDS Naturals, Sequences

CONSTANT Nodes

VARIABLES
    masters,    \* masters[g]: the node elected in generation g
    synced,     \* synced[n]: the last generation n published
    primary     \* primary[n]: the generation n believes to lead, 0 if none

vars == <<masters, synced, primary>>

generation == Len(masters)

Init ==
    /\ masters = << >>
    /\ synced = [n \in Nodes |-> 0]
    /\ primary = [n \in Nodes |-> 0]

(* A generation of the group is complete. *)
Rebalance(m) ==
    /\ masters' = Append(masters, m)
    /\ UNCHANGED <<synced, primary>>

(* ElectionClient::publish, possibly after the group has moved on. *)
Publish(n, g) ==
    /\ synced' = [synced EXCEPT ![n] = g]
    /\ primary' = [primary EXCEPT ![n] = IF masters[g] = n THEN g ELSE 0]
    /\ UNCHANGED masters

(* ElectionClient::run sends PrimaryState::default() after an error. *)
LoseSession(n) ==
    /\ primary' = [primary EXCEPT ![n] = 0]
    /\ UNCHANGED <<masters, synced>>

(* The process is gone; what its group session was told dies with it. *)
Forget(n) ==
    /\ primary' = [primary EXCEPT ![n] = 0]
    /\ synced' = [synced EXCEPT ![n] = generation]
    /\ UNCHANGED masters

Next ==
    \E n \in Nodes :
        \/ Rebalance(n)
        \/ \E g \in (synced[n] + 1)..generation : Publish(n, g)
        \/ LoseSession(n)
        \/ Forget(n)

Spec == Init /\ [][Next]_vars

=============================================================================
