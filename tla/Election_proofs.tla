---------------------------- MODULE Election_proofs ----------------------------
(***************************************************************************)
(* Election implements PrimaryRole, and no two nodes forward to each       *)
(* other, for any set of nodes and any bounds.                             *)
(***************************************************************************)
EXTENDS Election, SequenceTheorems, WellFoundedInduction, TLAPS

USE DEF groupVars

Telling == {"sync", "wait", "reply"}

(* group is a record whose generation is the number of masters. *)
GroupShape ==
    group = [state |-> group.state, gen |-> Len(masters), members |-> group.members,
             joined |-> group.joined, leader |-> group.leader]

(* The shape of the state, as far as the argument needs it. *)
Shape ==
    /\ Eligible \subseteq Nodes /\ Eligible # {}
    /\ session = [n \in Nodes |-> session[n]]
    /\ gen \in [Nodes -> Nat] /\ synced \in [Nodes -> Nat]
    /\ view \in [Nodes -> [gen : Nat, master : Nodes \cup {NoNode}]]
    /\ masters \in Seq(Nodes \cup {NoNode})
    /\ GroupShape

(* A node between the answer to its JoinGroup and its publication was told *)
(* of a generation that it has not published; if it is eligible, that      *)
(* generation has a master, whose url does not sort after its own.         *)
Told(n) ==
    /\ gen[n] \in 1..Len(masters) /\ synced[n] < gen[n]
    /\ n \in Eligible => /\ masters[gen[n]] # NoNode
                         /\ Rank[masters[gen[n]]] <= Rank[n]

(* The inductive invariant. *)
RoleInv ==
    /\ Shape
    /\ \A n \in Nodes : synced[n] <= Len(masters)
    /\ \A n \in Nodes : session[n] \in Telling => Told(n)
    /\ ForwardDescends

(* A nonempty set of nodes has one whose url sorts first. *)
LEMMA FirstExists ==
    ASSUME NEW S, S \subseteq Nodes, S # {}
    PROVE  \E n \in S : \A m \in S : Rank[n] <= Rank[m]
  <1> DEFINE T == {Rank[n] : n \in S}
  <1>1. T \subseteq Nat /\ T # {}
    BY ElectionAssumption
  <1>2. \E x \in T : \A y \in T : <<y, x>> \notin OpToRel(<, Nat)
    BY <1>1, NatLessThanWellFounded, WFMin, Zenon
  <1>3. PICK x \in T : \A y \in T : <<y, x>> \notin OpToRel(<, Nat)
    BY <1>2, Zenon
  <1>4. \A a, b \in Nat : a < b => <<a, b>> \in OpToRel(<, Nat)
    BY DEF OpToRel
  <1>5. \A y \in T : x <= y
    <2> HIDE DEF T
    <2>1. \A y \in T : ~(y < x)
      BY <1>1, <1>3, <1>4, Zenon
    <2> QED  BY <1>1, <2>1
  <1> QED  BY <1>5

(* select_master picks an eligible node of the set that sorts first, if    *)
(* there is one.                                                           *)
LEMMA SelectFacts ==
    ASSUME NEW S, Eligible \subseteq Nodes
    PROVE  /\ select_master(S) \in Nodes \cup {NoNode}
           /\ \A n \in S \cap Eligible : /\ select_master(S) # NoNode
                                         /\ Rank[select_master(S)] <= Rank[n]
  <1>1. CASE S \cap Eligible = {}
    BY <1>1, Zenon DEF select_master
  <1>2. CASE S \cap Eligible # {}
    <2>1. \E n \in S \cap Eligible : \A m \in S \cap Eligible : Rank[n] <= Rank[m]
      BY <1>2, FirstExists, Zenon
    <2>2. /\ select_master(S) \in S \cap Eligible
          /\ \A m \in S \cap Eligible : Rank[select_master(S)] <= Rank[m]
      BY <1>2, <2>1, Zenon DEF select_master
    <2> QED  BY <2>2, ElectionAssumption, Zenon
  <1> QED  BY <1>1, <1>2, Zenon

-------------------------------------------------------------------------------
(* Every step is of one of four kinds; most are quiet: nobody is told of a *)
(* generation or publishes one, and at most one node forgets its view.     *)

Quiet ==
    /\ UNCHANGED <<Eligible, gen, synced, masters>>
    /\ GroupShape'
    /\ session' = [n \in Nodes |-> session'[n]]
    /\ \A n \in Nodes : session'[n] \in Telling => session[n] \in Telling
    /\ \/ UNCHANGED view
       \/ \E n \in Nodes : view' = [view EXCEPT ![n] = NoView]

(* A session that ends, as every error in ElectionClient::run ends it. *)
LEMMA BailQuiet ==
    ASSUME Shape, NEW n \in Nodes, Bail(n), UNCHANGED <<Eligible, gen, groupVars, synced>>
    PROVE  Quiet
  <1>1. session' = [m \in Nodes |-> session'[m]]
    BY Zenon DEF Bail, Shape
  <1>2. \A m \in Nodes : session'[m] \in Telling => session[m] \in Telling
    BY DEF Bail, Shape, Telling
  <1>3. GroupShape'
    BY Zenon DEF Shape, GroupShape
  <1> QED  BY <1>1, <1>2, <1>3, Zenon DEF Quiet, Bail

(* A step that gives one node another session state, and perhaps changes   *)
(* the group other than in its generation.                                 *)
LEMMA MoveQuiet ==
    ASSUME Shape, NEW n \in Nodes, NEW s, s \in Telling => session[n] \in Telling,
           session' = [session EXCEPT ![n] = s],
           UNCHANGED <<Eligible, gen, view, masters, synced>>, GroupShape'
    PROVE  Quiet
  <1>1. session' = [m \in Nodes |-> session'[m]]
    BY Zenon DEF Shape
  <1>2. \A m \in Nodes : session'[m] \in Telling => session[m] \in Telling
    BY Zenon DEF Shape
  <1> QED  BY <1>1, <1>2, Zenon DEF Quiet

(* So does one that changes the group only. *)
LEMMA GroupQuiet ==
    ASSUME Shape, UNCHANGED <<Eligible, session, gen, view, masters, synced>>, GroupShape'
    PROVE  Quiet
  BY Zenon DEF Quiet, Shape

(* The coordinator's changes of the group within a generation. *)
LEMMA GroupChanges ==
    ASSUME GroupShape, masters' = masters, NEW s, NEW m, NEW j,
           \/ group' = group
           \/ group' = [group EXCEPT !.state = s]
           \/ group' = [group EXCEPT !.state = s, !.members = m]
           \/ group' = [group EXCEPT !.state = s, !.members = m, !.joined = j]
    PROVE  GroupShape'
  <1>0. PICK a, g, b, c, d : /\ g = Len(masters)
                             /\ group = [state |-> a, gen |-> g, members |-> b,
                                         joined |-> c, leader |-> d]
    BY Zenon DEF GroupShape
  <1>1. CASE group' = group
    BY <1>1, Zenon DEF GroupShape
  <1>2. CASE group' = [group EXCEPT !.state = s]
    BY <1>2 DEF GroupShape
  <1>3. CASE group' = [group EXCEPT !.state = s, !.members = m]
    <2>1. group' = [state |-> s, gen |-> g, members |-> m, joined |-> c, leader |-> d]
      BY <1>0, <1>3, Zenon
    <2> QED  BY <1>0, <2>1 DEF GroupShape
  <1>4. CASE group' = [group EXCEPT !.state = s, !.members = m, !.joined = j]
    <2>1. group' = [state |-> s, gen |-> g, members |-> m, joined |-> j, leader |-> d]
      BY <1>0, <1>4, Zenon
    <2> QED  BY <1>0, <2>1 DEF GroupShape
  <1> QED  BY <1>1, <1>2, <1>3, <1>4, Zenon

(* JoinGroup: the node waits for the round, or its session ends. *)
LEMMA JoinQuiet ==
    ASSUME Shape, NEW n \in Nodes, JoinGroup(n), Eligible' = Eligible
    PROVE  Quiet
  <1>1. CASE Bail(n) /\ UNCHANGED group
    BY <1>1, BailQuiet, Zenon DEF JoinGroup
  <1>2. ASSUME NEW k,
               group' = [group EXCEPT !.state = "preparing",
                                      !.members = @ \cup {<<n, k>>},
                                      !.joined = @ \cup {<<n, k>>}],
               session' = [session EXCEPT ![n] = "join"], UNCHANGED view
        PROVE  Quiet
    <2>1. UNCHANGED <<gen, masters, synced>>
      BY Zenon DEF JoinGroup
    <2>2. GroupShape'
      BY <1>2, <2>1, GroupChanges, Zenon DEF Shape
    <2>3. "join" \notin Telling
      BY DEF Telling
    <2> QED  BY <1>2, <2>1, <2>2, <2>3, MoveQuiet, Zenon
  <1> QED  BY <1>1, <1>2, Zenon DEF JoinGroup

(* SyncGroup: the node stays told of the generation it was answered with,  *)
(* or its session ends.                                                    *)
LEMMA SyncQuiet ==
    ASSUME Shape, NEW n \in Nodes, SyncGroup(n), Eligible' = Eligible
    PROVE  Quiet
  <1>1. /\ session[n] = "sync" /\ "sync" \in Telling /\ "wait" \in Telling /\ "reply" \in Telling
        /\ UNCHANGED <<gen, masters, synced>>
    BY DEF SyncGroup, Telling
  <1>2. CASE Bail(n) /\ UNCHANGED group
    BY <1>1, <1>2, BailQuiet, Zenon
  <1>3. CASE /\ group' = [group EXCEPT !.state = "stable"]
             /\ session' = [m \in Nodes |-> IF m = n \/ m \in Waiting
                                            THEN "reply" ELSE session[m]]
             /\ UNCHANGED <<member, view>>
    <2>1. GroupShape'
      BY <1>1, <1>3, GroupChanges, Zenon DEF Shape
    <2>2. session' = [m \in Nodes |-> session'[m]]
      BY <1>3
    <2>3. \A m \in Nodes : session'[m] \in Telling => session[m] \in Telling
      BY <1>1, <1>3 DEF Waiting
    <2> QED  BY <1>1, <1>3, <2>1, <2>2, <2>3, Zenon DEF Quiet
  <1>4. ASSUME NEW s \in {"wait", "reply"}, session' = [session EXCEPT ![n] = s],
               UNCHANGED <<member, view, group>>
        PROVE  Quiet
    <2>1. GroupShape'
      BY <1>1, <1>4, GroupChanges, Zenon DEF Shape
    <2> QED  BY <1>1, <1>4, <2>1, MoveQuiet, Zenon
  <1> QED  BY <1>2, <1>3, <1>4, Zenon DEF SyncGroup

(* The rest of the quiet steps. *)
LEMMA OtherQuiet ==
    ASSUME Shape, NEW n \in Nodes, Eligible' = Eligible,
           \/ SyncRefused(n) \/ Heartbeat(n) \/ SessionError(n)
           \/ Start(n) \/ Cancel(n) \/ Leave(n)
           \/ \E id \in group.members : ExpireGhost(id) \/ ExpireLive(id)
    PROVE  Quiet
  <1>0. "rejoin" \notin Telling /\ "connect" \notin Telling /\ "off" \notin Telling
    BY DEF Telling
  <1>1. CASE SyncRefused(n) \/ SessionError(n)
    BY <1>1, BailQuiet, Zenon DEF SyncRefused, SessionError
  <1>2. CASE Heartbeat(n)
    <2>1. GroupShape'
      BY <1>2, GroupChanges, Zenon DEF Shape, Heartbeat
    <2> QED  BY <1>0, <1>2, <2>1, MoveQuiet, Zenon DEF Heartbeat
  <1>3. CASE Start(n)
    <2>1. GroupShape'
      BY <1>3, GroupChanges, Zenon DEF Shape, Start
    <2> QED  BY <1>0, <1>3, <2>1, MoveQuiet, Zenon DEF Start
  <1>4. CASE Cancel(n)
    <2>1. GroupShape'
      BY <1>4, GroupChanges, Zenon DEF Shape, Cancel
    <2> QED  BY <1>4, <2>1, GroupQuiet, Zenon DEF Cancel
  <1>5. CASE Leave(n)
    <2>1. GroupShape'
      BY <1>5, GroupChanges, Zenon DEF Shape, Leave
    <2> QED  BY <1>0, <1>5, <2>1, MoveQuiet, Zenon DEF Leave
  <1>6. ASSUME NEW id \in group.members, ExpireGhost(id) \/ ExpireLive(id)
        PROVE  Quiet
    <2>1. Expel(id)
      BY <1>6, Zenon DEF ExpireGhost, ExpireLive
    <2>2. GroupShape'
      BY <2>1, GroupChanges, Zenon DEF Shape, Expel
    <2> QED  BY <2>1, <2>2, GroupQuiet, Zenon DEF Expel
  <1> QED  BY <1>1, <1>2, <1>3, <1>4, <1>5, <1>6, Zenon

(* Every step is quiet, begins a generation, publishes one, or ends a node. *)
LEMMA StepKinds ==
    ASSUME Shape, Next
    PROVE  /\ Eligible' = Eligible
           /\ Quiet \/ CompleteJoin \/ \E n \in Nodes : Publish(n) \/ Gone(n)
  <1>1. Eligible' = Eligible
    BY Zenon DEF Next
  <1>2. ASSUME NEW n \in Nodes, Task(n) \/ Leave(n) \/ SessionError(n)
        PROVE  Quiet \/ Publish(n)
    BY <1>1, <1>2, JoinQuiet, SyncQuiet, OtherQuiet, Zenon DEF Task
  <1>3. ASSUME NEW id \in group.members, ExpireGhost(id) \/ ExpireLive(id)
        PROVE  Quiet
    <2>1. PICK n \in Nodes : TRUE
      BY Zenon DEF Shape
    <2> QED  BY <1>1, <1>3, <2>1, OtherQuiet, Zenon
  <1>4. ASSUME NEW n \in Nodes, Start(n) \/ Cancel(n) \/ Exit(n) \/ Crash(n)
        PROVE  Quiet \/ Gone(n)
    BY <1>1, <1>4, OtherQuiet, Zenon DEF Exit, Crash
  <1> QED  BY <1>1, <1>2, <1>3, <1>4, Zenon DEF Next, ElectionStep, ProcessStep

-------------------------------------------------------------------------------
(* The invariant. *)

(* At first nobody was told of a generation, and no view names a primary. *)
LEMMA InitInv == Init => RoleInv
  <1> SUFFICES ASSUME Init PROVE RoleInv
    OBVIOUS
  <1>1. Eligible \subseteq Nodes /\ Eligible # {}
    BY Zenon DEF Init
  <1>2. /\ session = [n \in Nodes |-> session[n]]
        /\ \A n \in Nodes : session[n] = "connect"
        /\ gen \in [Nodes -> Nat] /\ synced \in [Nodes -> Nat]
    BY DEF Init
  <1>3. /\ view \in [Nodes -> [gen : Nat, master : Nodes \cup {NoNode}]]
        /\ \A n \in Nodes : view[n].master = NoNode
    BY DEF Init, NoView
  <1>4. masters \in Seq(Nodes \cup {NoNode}) /\ Len(masters) = 0 /\ GroupShape
    BY DEF Init, GroupShape
  <1>5. \A n \in Nodes : synced[n] <= Len(masters)
    BY <1>4 DEF Init
  <1>6. \A n \in Nodes : session[n] \notin Telling
    BY <1>2 DEF Telling
  <1>7. ForwardDescends
    BY <1>3, Zenon DEF ForwardDescends
  <1> QED  BY <1>1, <1>2, <1>3, <1>4, <1>5, <1>6, <1>7, Zenon DEF RoleInv, Shape

(* A quiet step tells nobody of a generation, and at most clears a view. *)
LEMMA QuietInv ==
    ASSUME RoleInv, Quiet
    PROVE  RoleInv'
  <1>1. NoView \in [gen : Nat, master : Nodes \cup {NoNode}] /\ NoView.master = NoNode
    BY DEF NoView
  <1>2. /\ view' \in [Nodes -> [gen : Nat, master : Nodes \cup {NoNode}]]
        /\ \A n \in Nodes : view'[n] = view[n] \/ view'[n] = NoView
    BY <1>1, Zenon DEF Quiet, RoleInv, Shape
  <1>3. Shape'
    BY <1>2, Zenon DEF Quiet, RoleInv, Shape
  <1>4. \A n \in Nodes : synced'[n] <= Len(masters')
    BY Zenon DEF Quiet, RoleInv
  <1>5. ASSUME NEW n \in Nodes, session'[n] \in Telling
        PROVE  Told(n)'
    BY <1>5, Zenon DEF Quiet, RoleInv, Told
  <1>6. ForwardDescends'
    BY <1>1, <1>2, Zenon DEF Quiet, RoleInv, ForwardDescends
  <1> QED  BY <1>3, <1>4, <1>5, <1>6, Zenon DEF RoleInv

(* A node that is gone has no view and has been told of nothing. *)
LEMMA GoneInv ==
    ASSUME RoleInv, NEW n \in Nodes, Gone(n), Eligible' = Eligible
    PROVE  RoleInv'
  <1>1. NoView \in [gen : Nat, master : Nodes \cup {NoNode}] /\ NoView.master = NoNode
    BY DEF NoView
  <1>2. /\ view' \in [Nodes -> [gen : Nat, master : Nodes \cup {NoNode}]]
        /\ \A m \in Nodes : view'[m] = view[m] \/ view'[m] = NoView
    BY <1>1 DEF Gone, RoleInv, Shape
  <1>3. group.gen = Len(masters) /\ Len(masters) \in Nat
    BY DEF RoleInv, Shape, GroupShape
  <1>4. /\ synced' \in [Nodes -> Nat]
        /\ synced'[n] = Len(masters)
        /\ \A m \in Nodes \ {n} : synced'[m] = synced[m]
    BY <1>3 DEF Gone, RoleInv, Shape
  <1>5. /\ session' = [m \in Nodes |-> session'[m]]
        /\ session'[n] = "off"
        /\ \A m \in Nodes \ {n} : session'[m] = session[m]
    BY Zenon DEF Gone, RoleInv, Shape
  <1>6. Shape'
    BY <1>2, <1>4, <1>5, Zenon DEF Gone, RoleInv, Shape, GroupShape
  <1>7. \A m \in Nodes : synced'[m] <= Len(masters')
    BY <1>3, <1>4 DEF Gone, RoleInv
  <1>8. ASSUME NEW m \in Nodes, session'[m] \in Telling
        PROVE  Told(m)'
    <2>1. m # n
      BY <1>5, <1>8 DEF Telling
    <2>2. session[m] = session'[m] /\ synced'[m] = synced[m]
      BY <1>4, <1>5, <2>1, Zenon
    <2> QED  BY <1>8, <2>2, Zenon DEF Gone, RoleInv, Told
  <1>9. ForwardDescends'
    BY <1>1, <1>2, Zenon DEF Gone, RoleInv, ForwardDescends
  <1> QED  BY <1>6, <1>7, <1>8, <1>9, Zenon DEF RoleInv

(* What a node publishes it was told, so a master other than itself sorts  *)
(* before it.                                                              *)
LEMMA PublishInv ==
    ASSUME RoleInv, NEW n \in Nodes, Publish(n), Eligible' = Eligible
    PROVE  RoleInv'
  <1>1. Told(n)
    BY DEF RoleInv, Publish, Telling
  <1>2. /\ gen[n] \in Nat /\ gen[n] \in 1..Len(masters) /\ Len(masters) \in Nat
        /\ masters[gen[n]] \in Nodes \cup {NoNode}
    BY <1>1 DEF Told, RoleInv, Shape
  <1> DEFINE v == [gen |-> gen[n], master |-> masters[gen[n]]]
  <1>3. v \in [gen : Nat, master : Nodes \cup {NoNode}] /\ v.master = masters[gen[n]]
    BY <1>2
  <1>4. /\ view' \in [Nodes -> [gen : Nat, master : Nodes \cup {NoNode}]]
        /\ view'[n] = v
        /\ \A m \in Nodes \ {n} : view'[m] = view[m]
    BY <1>3 DEF Publish, RoleInv, Shape
  <1> HIDE DEF v
  <1>5. /\ synced' \in [Nodes -> Nat]
        /\ synced'[n] = gen[n]
        /\ \A m \in Nodes \ {n} : synced'[m] = synced[m]
    BY <1>2 DEF Publish, RoleInv, Shape
  <1>6. /\ session' = [m \in Nodes |-> session'[m]]
        /\ session'[n] = "beat"
        /\ \A m \in Nodes \ {n} : session'[m] = session[m]
    BY Zenon DEF Publish, RoleInv, Shape
  <1>7. Shape'
    BY <1>4, <1>5, <1>6, Zenon DEF Publish, RoleInv, Shape, GroupShape
  <1>8. \A m \in Nodes : synced'[m] <= Len(masters')
    BY <1>2, <1>5 DEF Publish, RoleInv
  <1>9. ASSUME NEW m \in Nodes, session'[m] \in Telling
        PROVE  Told(m)'
    <2>1. m # n
      BY <1>6, <1>9 DEF Telling
    <2>2. session[m] = session'[m] /\ synced'[m] = synced[m]
      BY <1>5, <1>6, <2>1, Zenon
    <2> QED  BY <1>9, <2>2, Zenon DEF Publish, RoleInv, Told
  <1>10. ASSUME v.master \notin {n, NoNode}, n \in Eligible
         PROVE  Rank[v.master] < Rank[n]
    <2>1. v.master \in Nodes /\ v.master # n /\ Rank[v.master] <= Rank[n]
      BY <1>1, <1>2, <1>3, <1>10, Zenon DEF Told
    <2> QED  BY <2>1, ElectionAssumption
  <1>11. ForwardDescends'
    BY <1>4, <1>10, Zenon DEF RoleInv, ForwardDescends
  <1> QED  BY <1>7, <1>8, <1>9, <1>11, Zenon DEF RoleInv

(* A generation begins: its master sorts first among the eligible members, *)
(* so not after any member that is told of it.                             *)
LEMMA CompleteJoinInv ==
    ASSUME RoleInv, CompleteJoin, Eligible' = Eligible
    PROVE  RoleInv'
  <1> DEFINE S   == {id[1] : id \in group.joined}
             sel == select_master(S)
             answered == {n \in Nodes : session[n] = "join" /\ Id(n) \in group.joined}
  <1>1. /\ sel \in Nodes \cup {NoNode}
        /\ \A n \in S \cap Eligible : sel # NoNode /\ Rank[sel] <= Rank[n]
    BY SelectFacts, Zenon DEF RoleInv, Shape
  <1>2. \A n \in answered : n \in S
    BY DEF Id
  <1>3. /\ masters' = Append(masters, sel)
        /\ session' = [n \in Nodes |-> IF n \in answered THEN "sync" ELSE session[n]]
        /\ gen' = [n \in Nodes |-> IF n \in answered THEN group.gen + 1 ELSE gen[n]]
        /\ UNCHANGED <<view, synced>>
        /\ \E m, leader : group' = [state |-> "completing", gen |-> group.gen + 1,
                                    members |-> m, joined |-> {}, leader |-> leader]
    BY Zenon DEF CompleteJoin
  <1> HIDE DEF S, sel, answered
  <1>4. group.gen = Len(masters) /\ Len(masters) \in Nat /\ masters \in Seq(Nodes \cup {NoNode})
    BY DEF RoleInv, Shape, GroupShape
  <1>5. /\ masters' \in Seq(Nodes \cup {NoNode}) /\ Len(masters') = Len(masters) + 1
        /\ \A i \in 1..Len(masters) : masters'[i] = masters[i]
        /\ masters'[Len(masters) + 1] = sel
    BY <1>1, <1>3, <1>4
  <1>6. GroupShape'
    BY <1>3, <1>4, <1>5 DEF GroupShape
  <1>7. gen' \in [Nodes -> Nat] /\ session' = [n \in Nodes |-> session'[n]]
    BY <1>3, <1>4 DEF RoleInv, Shape
  <1>8. Shape'
    BY <1>3, <1>5, <1>6, <1>7, Zenon DEF RoleInv, Shape
  <1>9. \A n \in Nodes : synced'[n] <= Len(masters')
    BY <1>3, <1>4, <1>5 DEF RoleInv, Shape
  <1>10. ASSUME NEW n \in Nodes, session'[n] \in Telling
         PROVE  Told(n)'
    <2>1. CASE n \in answered
      <3>1. gen'[n] = Len(masters) + 1 /\ masters'[gen'[n]] = sel
        BY <1>3, <1>4, <1>5, <2>1, Zenon
      <3>2. gen'[n] \in 1..Len(masters') /\ synced'[n] < gen'[n]
        BY <1>3, <1>4, <1>5, <3>1 DEF RoleInv, Shape
      <3> QED  BY <1>1, <1>2, <2>1, <3>1, <3>2, Zenon DEF Told
    <2>2. CASE n \notin answered
      <3>1. gen'[n] = gen[n] /\ session'[n] = session[n]
        BY <1>3, <2>2, Zenon
      <3>2. Told(n)
        BY <1>10, <3>1, Zenon DEF RoleInv
      <3>3. gen'[n] \in 1..Len(masters') /\ masters'[gen'[n]] = masters[gen[n]]
        BY <1>4, <1>5, <3>1, <3>2 DEF Told
      <3> QED  BY <1>3, <3>1, <3>2, <3>3, Zenon DEF Told
    <2> QED  BY <2>1, <2>2, Zenon
  <1>11. ForwardDescends'
    BY <1>3, Zenon DEF RoleInv, ForwardDescends
  <1> QED  BY <1>8, <1>9, <1>10, <1>11, Zenon DEF RoleInv

(* Each kind of step preserves the invariant. *)
LEMMA StepInv ==
    ASSUME RoleInv, [Next]_electionVars
    PROVE  RoleInv'
  <1>1. CASE Next
    BY <1>1, StepKinds, QuietInv, GoneInv, PublishInv, CompleteJoinInv, Zenon DEF RoleInv
  <1>2. CASE UNCHANGED electionVars
    <2>1. Quiet
      BY <1>2, GroupQuiet, Zenon DEF electionVars, RoleInv, Shape, GroupShape
    <2> QED  BY <2>1, QuietInv, Zenon
  <1> QED  BY <1>1, <1>2, Zenon

(* The invariant holds, for any number of nodes and any bounds.            *)
THEOREM RoleInvariance == Spec => []RoleInv
  <1>1. RoleInv /\ [Next]_electionVars => RoleInv'
    BY StepInv, Zenon
  <1> QED  BY InitInv, <1>1, PTL DEF Spec

(* Two nodes never forward to each other, whatever generations they know:  *)
(* a primary that a node names sorts before it, or it is not eligible      *)
(* (select_master, publish).                                               *)
THEOREM ForwardTheorem == Spec => []ForwardDescends
  <1>1. RoleInv => ForwardDescends
    BY Zenon DEF RoleInv
  <1> QED  BY RoleInvariance, <1>1, PTL

-------------------------------------------------------------------------------
(* The refinement. *)

(* The mapped masters change with the masters only. *)
LEMMA ElectedFrame ==
    ASSUME masters' = masters, Eligible' = Eligible
    PROVE  Elected' = Elected
  BY DEF Elected

(* A quiet step is a lost session of the role, or a stutter. *)
LEMMA QuietRole ==
    ASSUME RoleInv, Quiet
    PROVE  [Role!Next]_(Role!vars)
  <1>1. Elected' = Elected /\ synced' = synced
    BY ElectedFrame, Zenon DEF Quiet
  <1>2. CASE UNCHANGED view
    <2>1. Believed' = Believed
      BY <1>2, Zenon DEF Believed
    <2> QED  BY <1>1, <2>1, Zenon DEF Role!vars
  <1>3. ASSUME NEW n \in Nodes, view' = [view EXCEPT ![n] = NoView]
        PROVE  Role!LoseSession(n)
    <2>1. Believed' = [Believed EXCEPT ![n] = 0]
      BY <1>3, ElectionAssumption, Zenon DEF Believed, RoleInv, Shape, NoView
    <2> QED  BY <1>1, <2>1, Zenon DEF Role!LoseSession
  <1> QED  BY <1>2, <1>3, Zenon DEF Quiet, Role!Next

(* A node that is gone forgets what it believed. *)
LEMMA GoneRole ==
    ASSUME RoleInv, NEW n \in Nodes, Gone(n), Eligible' = Eligible
    PROVE  Role!Forget(n)
  <1>1. Elected' = Elected
    BY ElectedFrame, Zenon DEF Gone
  <1>2. Believed' = [Believed EXCEPT ![n] = 0]
    BY ElectionAssumption, Zenon DEF Believed, RoleInv, Shape, NoView, Gone
  <1>3. Role!generation = group.gen
    BY DEF Role!generation, Elected, RoleInv, Shape, GroupShape
  <1> QED  BY <1>1, <1>2, <1>3, Zenon DEF Role!Forget, Gone

(* A node that is eligible was told of a generation with a master, so the  *)
(* mapping's stand-in for a missing one is never taken for the node.       *)
LEMMA PublishRole ==
    ASSUME RoleInv, NEW n \in Nodes, Publish(n), Eligible' = Eligible
    PROVE  Role!Next
  <1>1. Told(n)
    BY DEF RoleInv, Publish, Telling
  <1>2. Elected' = Elected
    BY ElectedFrame, Zenon DEF Publish
  <1>3. gen[n] \in DOMAIN masters /\ gen[n] \in (synced[n] + 1)..Role!generation
    BY <1>1 DEF Told, RoleInv, Shape, Role!generation, Elected
  <1>4. Absent(Eligible) \in Eligible
    BY Zenon DEF Absent, RoleInv, Shape
  <1>5. Elected[gen[n]] = n <=> masters[gen[n]] = n
    BY <1>1, <1>3, <1>4, ElectionAssumption, Zenon DEF Elected, Told
  <1>6. Believed' = [Believed EXCEPT ![n] = IF masters[gen[n]] = n THEN gen[n] ELSE 0]
    BY Zenon DEF Believed, RoleInv, Shape, Publish
  <1>7. Role!Publish(n, gen[n])
    BY <1>2, <1>5, <1>6, Zenon DEF Role!Publish, Publish
  <1> QED  BY <1>3, <1>7, Zenon DEF Role!Next

(* A function that extends a sequence by one element appends it. *)
LEMMA IsAppend ==
    ASSUME NEW T, NEW s, NEW t, NEW e \in T, NEW k \in Nat,
           s \in [1..k -> T], t \in [1..(k + 1) -> T],
           \A i \in 1..k : t[i] = s[i], t[k + 1] = e
    PROVE  t = Append(s, e)
  <1>1. s \in Seq(T) /\ Len(s) = k /\ t \in Seq(T) /\ Len(t) = k + 1
    OBVIOUS
  <1>2. Append(s, e) \in Seq(T) /\ Len(Append(s, e)) = k + 1
    BY <1>1
  <1>3. \A i \in 1..(k + 1) : t[i] = Append(s, e)[i]
    BY <1>1
  <1> QED  BY <1>1, <1>2, <1>3

(* A generation that begins is a rebalance to its master, or to the stand-in *)
(* if no member is eligible (CompleteJoin, select_master).                 *)
LEMMA CompleteJoinRole ==
    ASSUME RoleInv, CompleteJoin, Eligible' = Eligible
    PROVE  Role!Next
  <1> DEFINE sel == select_master({id[1] : id \in group.joined})
             one == Absent(Eligible)
             top == IF sel = NoNode THEN one ELSE sel
  <1>1. masters' = Append(masters, sel) /\ UNCHANGED <<view, synced>>
    BY Zenon DEF CompleteJoin
  <1>2. sel \in Nodes \cup {NoNode}
    BY SelectFacts, Zenon DEF RoleInv, Shape
  <1>3. one \in Nodes
    BY Zenon DEF Absent, RoleInv, Shape
  <1>4. /\ Elected = [g \in DOMAIN masters |-> IF masters[g] = NoNode THEN one ELSE masters[g]]
        /\ Elected' = [g \in DOMAIN masters' |-> IF masters'[g] = NoNode THEN one ELSE masters'[g]]
    BY DEF Elected
  <1> HIDE DEF sel, one
  <1>5. masters \in Seq(Nodes \cup {NoNode})
    BY DEF RoleInv, Shape
  <1>6. top \in Nodes
    BY <1>2, <1>3, Zenon
  <1>7. Elected' = Append(Elected, top)
    <2> DEFINE k == Len(masters)
    <2>1. /\ k \in Nat /\ DOMAIN masters = 1..k /\ DOMAIN masters' = 1..(k + 1)
          /\ \A i \in 1..k : masters[i] \in Nodes \cup {NoNode} /\ masters'[i] = masters[i]
          /\ masters'[k + 1] = sel
      BY <1>1, <1>2, <1>5
    <2> HIDE DEF k
    <2>2. /\ Elected \in [1..k -> Nodes]
          /\ \A i \in 1..k : Elected'[i] = Elected[i]
      BY <1>3, <1>4, <2>1
    <2>3. Elected' \in [1..(k + 1) -> Nodes] /\ Elected'[k + 1] = top
      BY <1>2, <1>3, <1>4, <2>1
    <2> HIDE DEF top
    <2>4. k \in Nat
      BY <2>1
    <2> QED
      <3> SUFFICES ASSUME NEW s, NEW t, s = Elected, t = Elected'
                   PROVE  t = Append(s, top)
        OBVIOUS
      <3>1. s \in [1..k -> Nodes] /\ t \in [1..(k + 1) -> Nodes]
        BY <2>2, <2>3, Zenon
      <3>2. (\A i \in 1..k : t[i] = s[i]) /\ t[k + 1] = top
        BY <2>2, <2>3, Zenon
      <3> QED  BY ONLY <1>6, <2>4, <3>1, <3>2, IsAppend
  <1>8. Believed' = Believed
    BY <1>1, Zenon DEF Believed
  <1>9. Role!Rebalance(top)
    BY <1>1, <1>7, <1>8, Zenon DEF Role!Rebalance
  <1> QED  BY <1>6, <1>9, Zenon DEF Role!Next

(* Each kind of step is a step of the role, or a stutter. *)
LEMMA StepRole ==
    ASSUME RoleInv, [Next]_electionVars
    PROVE  [Role!Next]_(Role!vars)
  <1>1. CASE Next
    BY <1>1, StepKinds, QuietRole, GoneRole, PublishRole, CompleteJoinRole, Zenon
       DEF RoleInv, Role!Next
  <1>2. CASE UNCHANGED electionVars
    <2>1. Quiet
      BY <1>2, GroupQuiet, Zenon DEF electionVars, RoleInv, Shape, GroupShape
    <2> QED  BY <2>1, QuietRole, Zenon
  <1> QED  BY <1>1, <1>2, Zenon

(* The election client provides what the write path assumes of it: each    *)
(* generation has one master, a node learns of generations in order, and   *)
(* believes to be primary only of one whose master it is (publish, run).   *)
THEOREM ElectionTheorem == Spec => ImplementsRole
  <1>1. Init => Role!Init
    <2> SUFFICES ASSUME Init PROVE Role!Init
      OBVIOUS
    <2>1. Elected = << >>
      BY DEF Init, Elected
    <2>2. Believed = [n \in Nodes |-> 0]
      BY ElectionAssumption DEF Init, Believed, NoView
    <2> QED  BY <2>1, <2>2, Zenon DEF Init, Role!Init
  <1>2. RoleInv /\ [Next]_electionVars => [Role!Next]_(Role!vars)
    BY StepRole, Zenon
  <1> QED  BY <1>1, <1>2, RoleInvariance, PTL DEF Spec, ImplementsRole, Role!Spec

================================================================================
