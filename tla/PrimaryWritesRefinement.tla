----------------------- MODULE PrimaryWritesRefinement ------------------------
(***************************************************************************)
(* The two contracts that PrimaryWrites implements: upwards, the registry  *)
(* of ids its clients see (IdRegistry); sideways, the election as          *)
(* election/client.rs provides it (PrimaryRole), which Election implements *)
(* too, so that what PrimaryWrites assumes of the election is what the     *)
(* election client does.                                                   *)
(***************************************************************************)
EXTENDS PrimaryWrites

Role == INSTANCE PrimaryRole

(* The refinement mapping: an id is given when its record is committed. *)
Bound == {<<log[i].schema, log[i].id>> : i \in Committed}

Ids == INSTANCE IdRegistry WITH bound <- Bound

(* Every step of the write path moves the election as PrimaryRole does, or *)
(* not at all (Rebalance, Publish, LoseSession, and a crash).              *)
KeepsRole == Role!Spec

(* Seen from its clients a set of registry nodes is one atomic registry of *)
(* ids: whatever the nodes' election, fencing, barriers, transactions,     *)
(* failures and late requests do, a commit of KafkaStore::register's       *)
(* record gives one new schema the next larger id, and no other step gives *)
(* any.                                                                    *)
ImplementsIdRegistry == Ids!Spec

===============================================================================
