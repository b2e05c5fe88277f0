------------------------------- MODULE Election -------------------------------
(***************************************************************************)
(* Primary election over the Kafka group "sr" (election/client.rs): each   *)
(* node's membership task joins, syncs, publishes the PrimaryState, sends  *)
(* heartbeats, joins again on a rebalance, and starts over after an error. *)
(*                                                                         *)
(* The group coordinator is external, modelled from its use: it allots     *)
(* member ids, completes a generation when every member has joined again,  *)
(* expires members it no longer hears of, and answers SyncGroup once the   *)
(* generation's leader has sent the assignment.  A member id may outlive   *)
(* the session that obtained it: a node that reconnects gets another id,   *)
(* and both carry its identity until the coordinator expires the first.    *)
(* A member id is the node it was allotted to and a number; numbers that   *)
(* neither the group nor the node uses any more are given again.           *)
(*                                                                         *)
(* Data abstraction: a node stands for its SchemaRegistryIdentity, Rank    *)
(* for the order of the identities' url().  Metadata and assignments       *)
(* always decode.  The MEMBER_ID_REQUIRED answer and the second JoinGroup  *)
(* are one step.  Timing: a node joins within the rebalance timeout, sends *)
(* heartbeats within the session timeout and reconnects before its old id  *)
(* expires, unless a fault (counted) delays it.                            *)
(***************************************************************************)
EXTENDS Naturals, Sequences, FiniteSets

CONSTANTS
    Nodes,          \* the registry processes
    NoNode,         \* no primary_url
    Rank,           \* Rank[n]: the place of n's url() in the string order
    MaxGeneration,  \* bound: generations of the group
    MaxIds,         \* bound: ids of one node that the group holds at once
    MaxFaults       \* bound: errors, delays, crashes, starts and shutdowns

ASSUME ElectionAssumption ==
    /\ NoNode \notin Nodes
    /\ Rank \in [Nodes -> Nat]
    /\ \A n, m \in Nodes : Rank[n] = Rank[m] => n = m
    /\ MaxGeneration \in Nat /\ MaxIds \in Nat /\ MaxFaults \in Nat

VARIABLES
    Eligible,   \* the nodes configured with leader_eligibility
    process,    \* process[n]: "down", "up", or "stopping" once cancelled
    session,    \* session[n]: where ElectionClient::run is, "off" if ended
    member,     \* member[n]: the number of member_id, 0 if empty
    gen,        \* gen[n]: generation_id of the last JoinGroup answer
    view,       \* view[n]: the watched PrimaryState
    group,      \* the coordinator's group
    masters,    \* masters[g]: what the leader of generation g assigns
    synced,     \* history: synced[n], the last generation n published
    faults      \* faults so far

groupVars == <<group, masters>>
electionVars == <<Eligible, process, session, member, gen, view, groupVars, synced, faults>>

Id(n) == <<n, member[n]>>
InGroup(n) == Id(n) \in group.members
Up == {n \in Nodes : process[n] = "up"}
NoView == [gen |-> 0, master |-> NoNode]

Init ==
    /\ Eligible \in (SUBSET Nodes) \ {{}}
    /\ process = [n \in Nodes |-> "up"]
    /\ session = [n \in Nodes |-> "connect"]
    /\ member = [n \in Nodes |-> 0]
    /\ gen = [n \in Nodes |-> 0]
    /\ view = [n \in Nodes |-> NoView]
    /\ group = [state |-> "preparing", gen |-> 0, members |-> {}, joined |-> {},
                leader |-> <<NoNode, 0>>]
    /\ masters = << >>
    /\ synced = [n \in Nodes |-> 0]
    /\ faults = 0

Fault == faults < MaxFaults /\ faults' = faults + 1

-------------------------------------------------------------------------------
(* The membership task. *)

(* Seeded defect: the identities are compared the other way round. *)
SelectLast(S) ==
    LET eligible == S \cap Eligible
    IN  IF eligible = {} THEN NoNode
        ELSE CHOOSE n \in eligible : \A m \in eligible : Rank[n] >= Rank[m]

(* The eligible identity whose url sorts first. *)
select_master(S) ==
    LET eligible == S \cap Eligible
    IN  IF eligible = {} THEN NoNode
        ELSE CHOOSE n \in eligible : \A m \in eligible : Rank[n] <= Rank[m]

(* run: an error ends the session; after the back-off it starts over. *)
Bail(n) ==
    /\ session' = [session EXCEPT ![n] = "connect"]
    /\ member' = [member EXCEPT ![n] = 0]
    /\ view' = [view EXCEPT ![n] = NoView]

(* join_and_sync, the JoinGroup request.  An id the coordinator has        *)
(* expired is answered with UNKNOWN_MEMBER_ID, an error here.              *)
JoinGroup(n) ==
    LET free == {k \in 1..MaxIds : <<n, k>> \notin group.members}
        k    == IF member[n] = 0 THEN CHOOSE i \in free : \A j \in free : i <= j
                ELSE member[n]
    IN  /\ \/ session[n] = "connect" /\ process[n] = "up"
           \/ session[n] = "rejoin"
        /\ \/ /\ member[n] # 0 /\ ~InGroup(n)
              /\ Bail(n)
              /\ UNCHANGED group
           \/ /\ (member[n] = 0 /\ free # {}) \/ InGroup(n)
              /\ session' = [session EXCEPT ![n] = "join"]
              /\ member' = [member EXCEPT ![n] = k]
              /\ group' = [group EXCEPT !.state = "preparing",
                                        !.members = @ \cup {<<n, k>>},
                                        !.joined = @ \cup {<<n, k>>}]
              /\ UNCHANGED view
        /\ UNCHANGED <<process, gen, masters, synced, faults>>

(* The nodes whose SyncGroup of the current generation is held back.       *)
Waiting == {n \in Nodes : session[n] = "wait" /\ gen[n] = group.gen}

(* join_and_sync, the SyncGroup request.  The leader's releases the        *)
(* others; an error (the group has moved on) ends the session.             *)
SyncGroup(n) ==
    LET accepted == /\ gen[n] = group.gen /\ InGroup(n)
                    /\ group.state # "preparing"
    IN  /\ session[n] = "sync"
        /\ \/ /\ ~accepted
              /\ Bail(n)
              /\ UNCHANGED group
           \/ /\ accepted /\ group.state = "completing" /\ Id(n) = group.leader
              /\ group' = [group EXCEPT !.state = "stable"]
              /\ session' = [m \in Nodes |-> IF m = n \/ m \in Waiting
                                             THEN "reply" ELSE session[m]]
              /\ UNCHANGED <<member, view>>
           \/ /\ accepted /\ group.state = "completing" /\ Id(n) # group.leader
              /\ session' = [session EXCEPT ![n] = "wait"]
              /\ UNCHANGED <<member, view, group>>
           \/ /\ accepted /\ group.state = "stable"
              /\ session' = [session EXCEPT ![n] = "reply"]
              /\ UNCHANGED <<member, view, group>>
        /\ UNCHANGED <<process, gen, masters, synced, faults>>

(* A SyncGroup held back is answered with an error when a rebalance starts *)
(* before the leader's arrives, or the member expires.                     *)
SyncRefused(n) ==
    /\ session[n] = "wait"
    /\ \/ group.state = "preparing" \/ gen[n] # group.gen
       \/ ~InGroup(n)
    /\ Bail(n)
    /\ UNCHANGED <<process, gen, groupVars, synced, faults>>

(* Seeded defect: the assignment is published for the generation the group *)
(* is in, not for the one it was made for.                                 *)
PublishLate(n) ==
    /\ session[n] = "reply"
    /\ session' = [session EXCEPT ![n] = "beat"]
    /\ view' = [view EXCEPT ![n] = [gen |-> group.gen, master |-> masters[gen[n]]]]
    /\ synced' = [synced EXCEPT ![n] = group.gen]
    /\ UNCHANGED <<process, member, gen, groupVars, faults>>

(* publish: this node is primary iff the assigned identity is its own.     *)
Publish(n) ==
    /\ session[n] = "reply"
    /\ session' = [session EXCEPT ![n] = "beat"]
    /\ view' = [view EXCEPT ![n] = [gen |-> gen[n], master |-> masters[gen[n]]]]
    /\ synced' = [synced EXCEPT ![n] = gen[n]]
    /\ UNCHANGED <<process, member, gen, groupVars, faults>>

(* Seeded defect: REBALANCE_IN_PROGRESS is taken for healthy. *)
HeartbeatHealthy(n) ==
    /\ session[n] = "beat"
    /\ \/ /\ ~InGroup(n)
          /\ member' = [member EXCEPT ![n] = 0]
       \/ /\ InGroup(n)
          /\ gen[n] # group.gen
          /\ UNCHANGED member
    /\ session' = [session EXCEPT ![n] = "rejoin"]
    /\ UNCHANGED <<process, gen, view, groupVars, synced, faults>>

(* A heartbeat that is answered with UNKNOWN_MEMBER_ID, or with            *)
(* REBALANCE_IN_PROGRESS or ILLEGAL_GENERATION: join again, and keep what  *)
(* is published meanwhile.                                                 *)
Heartbeat(n) ==
    /\ session[n] = "beat"
    /\ \/ /\ ~InGroup(n)
          /\ member' = [member EXCEPT ![n] = 0]
       \/ /\ InGroup(n)
          /\ group.state = "preparing" \/ gen[n] # group.gen
          /\ UNCHANGED member
    /\ session' = [session EXCEPT ![n] = "rejoin"]
    /\ UNCHANGED <<process, gen, view, groupVars, synced, faults>>

(* A request fails, or its answer names another coordinator. *)
SessionError(n) ==
    /\ session[n] \notin {"off", "connect"}
    /\ Fault
    /\ Bail(n)
    /\ UNCHANGED <<process, gen, groupVars, synced>>

-------------------------------------------------------------------------------
(* The process: main starts the election, a signal cancels it.             *)

Start(n) ==
    /\ process[n] = "down"
    /\ Fault
    /\ process' = [process EXCEPT ![n] = "up"]
    /\ session' = [session EXCEPT ![n] = "connect"]
    /\ UNCHANGED <<member, gen, view, groupVars, synced>>

Cancel(n) ==
    /\ process[n] = "up"
    /\ Fault
    /\ process' = [process EXCEPT ![n] = "stopping"]
    /\ UNCHANGED <<session, member, gen, view, groupVars, synced>>

(* The cancelled task leaves the group between two heartbeats, or ends     *)
(* before the next attempt to connect.  The published state stays.         *)
Leave(n) ==
    /\ process[n] = "stopping"
    /\ session[n] \in {"beat", "connect"}
    /\ session' = [session EXCEPT ![n] = "off"]
    /\ \/ /\ session[n] = "beat" /\ InGroup(n)
          /\ group' = [group EXCEPT !.state = "preparing",
                                    !.members = @ \ {Id(n)}]
       \/ /\ session[n] = "connect" \/ ~InGroup(n)
          /\ UNCHANGED group
    /\ UNCHANGED <<process, member, gen, view, masters, synced, faults>>

Gone(n) ==
    /\ process' = [process EXCEPT ![n] = "down"]
    /\ session' = [session EXCEPT ![n] = "off"]
    /\ member' = [member EXCEPT ![n] = 0]
    /\ view' = [view EXCEPT ![n] = NoView]
    /\ synced' = [synced EXCEPT ![n] = group.gen]
    /\ UNCHANGED <<gen, groupVars>>

(* main returns when the server has drained; it does not wait for the      *)
(* election task to leave the group.                                       *)
Exit(n) == process[n] = "stopping" /\ Gone(n) /\ UNCHANGED faults

Crash(n) == process[n] # "down" /\ Fault /\ Gone(n)

-------------------------------------------------------------------------------
(* The coordinator. *)

(* Every member has joined, or the rebalance timeout drops those that have *)
(* not: the next generation begins, and its members get their answers.     *)
CompleteJoin ==
    /\ group.state = "preparing" /\ group.joined # {}
    /\ group.gen < MaxGeneration
    /\ \/ group.joined = group.members /\ UNCHANGED faults
       \/ group.joined # group.members /\ Fault
    /\ \E leader \in group.joined :
          group' = [state |-> "completing", gen |-> group.gen + 1,
                    members |-> group.joined, joined |-> {}, leader |-> leader]
    /\ masters' = Append(masters, select_master({id[1] : id \in group.joined}))
    /\ LET answered == {n \in Nodes : session[n] = "join" /\ Id(n) \in group.joined}
       IN  /\ session' = [n \in Nodes |-> IF n \in answered THEN "sync" ELSE session[n]]
           /\ gen' = [n \in Nodes |-> IF n \in answered THEN group.gen + 1 ELSE gen[n]]
    /\ UNCHANGED <<process, member, view, synced>>

Expel(id) ==
    /\ group' = [group EXCEPT !.state = "preparing", !.members = @ \ {id},
                              !.joined = @ \ {id}]
    /\ UNCHANGED <<process, session, member, gen, view, masters, synced>>

(* The session timeout of an id that no session uses any more. *)
ExpireGhost(id) ==
    /\ id \in group.members
    /\ Id(id[1]) # id /\ session[id[1]] # "connect"
    /\ Expel(id)
    /\ UNCHANGED faults

(* The session timeout of an id whose node was held up. *)
ExpireLive(id) ==
    /\ id \in group.members
    /\ \/ Id(id[1]) = id /\ session[id[1]] # "join"
       \/ Id(id[1]) # id /\ session[id[1]] = "connect"
    /\ Expel(id)
    /\ Fault

-------------------------------------------------------------------------------
Task(n) ==
    JoinGroup(n) \/ SyncGroup(n) \/ SyncRefused(n) \/ Publish(n) \/ Heartbeat(n)

ElectionStep ==
    \/ \E n \in Nodes :
          \/ Task(n) \/ Leave(n) \/ SessionError(n)
    \/ CompleteJoin
    \/ \E id \in group.members : ExpireGhost(id) \/ ExpireLive(id)

ProcessStep == \E n \in Nodes : Start(n) \/ Cancel(n) \/ Exit(n) \/ Crash(n)

Next == (ElectionStep \/ ProcessStep) /\ UNCHANGED Eligible

Spec == Init /\ [][Next]_electionVars

(* Tasks that can run do, and the coordinator answers and expires members. *)
(* No start, cancellation, error or delay is assured.                      *)
ElectionFairness ==
    /\ \A n \in Nodes : /\ WF_electionVars(Task(n) /\ UNCHANGED Eligible)
                        /\ WF_electionVars((Leave(n) \/ Exit(n)) /\ UNCHANGED Eligible)
    /\ WF_electionVars(CompleteJoin /\ UNCHANGED Eligible)
    /\ WF_electionVars((\E id \in group.members : ExpireGhost(id)) /\ UNCHANGED Eligible)

LiveSpec == Spec /\ ElectionFairness

-------------------------------------------------------------------------------
(* Properties. *)

(* A generation without an eligible member has no master.  For the         *)
(* abstract election that is one whose master is not in the group.         *)
Absent(eligible) == CHOOSE e \in eligible : TRUE
Elected ==
    [g \in DOMAIN masters |-> IF masters[g] = NoNode THEN Absent(Eligible) ELSE masters[g]]
Believed ==
    [n \in Nodes |-> IF view[n].master = n THEN view[n].gen ELSE 0]

Role == INSTANCE PrimaryRole WITH masters <- Elected, synced <- synced,
                                  primary <- Believed

(* The watched PrimaryState behaves as its users assume, through errors,   *)
(* late answers, ids that outlive their session, crashes and shutdowns     *)
(* (publish, run).                                                         *)
ImplementsRole == Role!Spec

(* A node that is not primary names a primary whose url sorts before its   *)
(* own, or is not eligible itself: so two nodes never forward to each      *)
(* other, however old the state of either is (select_master).              *)
ForwardDescends ==
    \A n \in Nodes : view[n].master \notin {n, NoNode} =>
        n \notin Eligible \/ Rank[view[n].master] < Rank[n]

(* Once the faults cease, every running node comes to name the eligible    *)
(* running node with the first url as primary, for good (run rejoins after *)
(* every error, and the coordinator expires the ids left behind).          *)
Converges ==
    <>[](\A n \in Up : view[n] = [gen |-> group.gen, master |-> select_master(Up)])

===============================================================================
