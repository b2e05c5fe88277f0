------------------------------- MODULE Bootstrap -------------------------------
(***************************************************************************)
(* KafkaStore::start up to the reader (topic.rs, ensure_schemas_topic):    *)
(* create `_schemas` if it is absent, wait until metadata shows it, refuse *)
(* it unless it has one partition and is compacted only, and hand its      *)
(* topic id to the reader, which Reader models.                            *)
(*                                                                         *)
(* External: the broker's answers.  Metadata may lag behind a creation,    *)
(* requests fail, and the topic may be replaced between two requests.      *)
(***************************************************************************)
EXTENDS Reader

CONSTANTS
    Absent,         \* the topic does not exist
    Compacted,      \* one partition, cleanup.policy=compact
    Split,          \* several partitions
    Deleting        \* another cleanup.policy

VARIABLES
    stage,          \* where ensure_schemas_topic is, or "started", "failed"
    kind            \* what the topic is while the start looks at it

bootVars == <<stage, kind>>
allVars == <<vars, bootVars>>

Found == {Compacted, Split, Deleting}

BootInit ==
    /\ Init
    /\ stage = "create"
    /\ kind \in Found \cup {Absent}

(* Someone deletes the topic and makes it anew, another way perhaps. *)
Replaced ==
    /\ stage \in {"create", "metadata", "describe"}
    /\ RecreateTopic
    /\ kind' \in Found
    /\ UNCHANGED stage

(* create_topics: the topic is made, or another node was first, which is   *)
(* as good; any other answer, or none, ends the start.                     *)
create_topics ==
    /\ stage = "create"
    /\ \/ /\ stage' = "metadata"
          /\ kind' = IF kind = Absent THEN Compacted ELSE kind
       \/ stage' = "failed" /\ UNCHANGED kind
    /\ UNCHANGED vars

(* Seeded defect: the deadline is not looked at. *)
retry_forever ==
    /\ stage \in {"metadata", "describe"}
    /\ stage' = "metadata"
    /\ UNCHANGED <<vars, kind>>

(* A retryable error, or a topic not shown yet, is tried again until the   *)
(* deadline; the tries before it are counted with the faults.              *)
retry ==
    /\ stage \in {"metadata", "describe"}
    /\ \/ faults < MaxFaults /\ faults' = faults + 1 /\ stage' = "metadata"
       \/ stage' = "failed" /\ UNCHANGED faults
    /\ UNCHANGED <<brokerVars, pc, cursorVars, storeVars, trackerVars, waitVars, kind>>

metadata ==
    /\ stage = "metadata"
    /\ stage' = IF kind = Split THEN "failed" ELSE "describe"
    /\ topicId' = topic
    /\ UNCHANGED <<brokerVars, pc, resolved, low, next, storeVars, trackerVars,
                   waitVars, faults, kind>>

(* describe_configs asks by the topic's name. *)
describe_configs ==
    /\ stage = "describe"
    /\ stage' = IF kind = Deleting THEN "failed" ELSE "started"
    /\ UNCHANGED <<vars, kind>>

Boot == create_topics \/ retry \/ metadata \/ describe_configs

Running(A) == stage = "started" /\ A /\ UNCHANGED bootVars

BootNext == Replaced \/ Boot \/ Running(Next)

(* The start and the tasks it spawns keep running, a handler that waits    *)
(* among them; nothing makes the topic change, a handler order a barrier,  *)
(* a request fail or a deadline pass.                                      *)
BootSpec ==
    /\ BootInit /\ [][BootNext]_allVars
    /\ WF_allVars(Boot)
    /\ WF_allVars(Running(Loop))
    /\ \A w \in Waiters : WF_allVars(Running(Poll(w) \/ Wake(w)))

-------------------------------------------------------------------------------

(* The start ends: the reader runs or the process gives up. *)
StartEnds == <>(stage \in {"started", "failed"})

================================================================================
