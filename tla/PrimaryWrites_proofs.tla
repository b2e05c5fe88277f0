------------------------- MODULE PrimaryWrites_proofs -------------------------
(***************************************************************************)
(* The commit of a request, dropped handlers, crashes and requests that    *)
(* arrive late preserve IndInv, and with PrimaryWrites_steps so does every *)
(* action.  Then the theorems, for any sets of nodes and schemas and any   *)
(* bounds: the invariants, and that PrimaryWrites implements the election  *)
(* contract and the registry of ids.                                       *)
(***************************************************************************)
EXTENDS PrimaryWritesRefinement, PrimaryWrites_steps

USE DEF groupVars, brokerVars, storeVars, fenceVars, opVars, countVars

(***************************************************************************)
(* The commit.                                                             *)
(***************************************************************************)

(* What is committed is new to the log and of the latest generation, by    *)
(* the handler that drives it (answering) or by an EndTxn that arrives.    *)
LEMMA CommitOpenStep ==
    ASSUME IndInv, TypeOK', NEW i \in Open, SoleCandidate(i), Validated(i),
           log' = Resolve(log, "committed"), late' \subseteq late, NoLate("commit")',
           UNCHANGED <<groupVars, epoch, storeVars, fenceVars, acked>>,
           \A m \in Nodes :
             \/ SameOp(m)
             \/ /\ phase[m] = "commit" /\ phase'[m] = "order2"
                /\ want'[m] = want[m] /\ newId'[m] = newId[m] /\ opGen'[m] = opGen[m]
                /\ log[i].schema = want[m] /\ log[i].id = newId[m],
           \A m \in Nodes : Holds(m) =>
             /\ phase'[m] \notin {"recheck", "decide", "send", "validate", "commit"}
             /\ phase'[m] = "await" => i < token'[m]
    PROVE  IndInv'
  <1>1. TypeOK
    BY Zenon DEF IndInv
  <1>2. /\ Len(log') = Len(log) /\ Open' = {} /\ Committed' = Committed \cup Open
        /\ \A j \in Committed \cup Open :
             /\ log'[j].id = log[j].id /\ log'[j].schema = log[j].schema
             /\ log'[j].gen = log[j].gen
    BY <1>1, LogCommit, Zenon
  <1>3. Open = {i} /\ Committed' = Committed \cup {i}
    BY <1>2, Zenon DEF SoleCandidate
  <1>4. /\ i \in Nat /\ Committed \subseteq Nat
        /\ \A j \in Committed \cup {i} : log[j].id \in Nat /\ log[j].gen \in Nat
    BY <1>1, <1>3, OffsetFacts, Zenon DEF Record
  <1>5. \A j \in Committed :
          j < i /\ log[j].id < log[i].id /\ log[j].schema # log[i].schema /\ log[j].gen <= log[i].gen
    BY Zenon DEF SoleCandidate, Fresh, Validated
  <1>6. EpochInv'
    <2>1. \A m \in Nodes : phase'[m] \in Fenced \/ fencedGen'[m] # 0 => producerEpoch'[m] # 0
      BY Zenon DEF IndInv, EpochInv, SameOp, Fenced
    <2> QED  BY <1>2, <2>1, ZenonT(30) DEF IndInv, EpochInv
  <1>7. GenerationInv'
    <2>1. generation' = generation /\ \A m \in Nodes : opGen'[m] = opGen[m]
      BY Zenon DEF generation, SameOp
    <2>2. \A m \in Nodes : phase'[m] \in Fenced \cup {"fence"} => opGen'[m] # 0
      BY Zenon DEF IndInv, GenerationInv, SameOp, Fenced
    <2> QED  BY <1>2, <2>1, <2>2, Zenon DEF IndInv, GenerationInv
  <1>8. RecordInv'
    <2>1. \A m \in Nodes :
            /\ phase'[m] \in Holding => want'[m] \in Schemas
            /\ phase'[m] \in {"send", "validate", "commit"} => newId'[m] # 0
      BY Zenon DEF IndInv, RecordInv, SameOp, Holding, Fenced
    <2>2. \A j \in Open' \cup Committed' : log'[j].schema \in Schemas /\ log'[j].id # 0
      <3>1. \A j \in Open \cup Committed : log[j].schema \in Schemas /\ log[j].id # 0
        BY Zenon DEF IndInv, RecordInv
      <3> QED  BY <1>2, <3>1
    <2> QED  BY <2>1, <2>2, Zenon DEF IndInv, RecordInv
  <1>9. StoreInv'
    <2> SUFFICES ASSUME NEW m \in Nodes
                 PROVE  /\ applied[m] <= Len(log')
                        /\ \A j \in Committed \cup {i} : j <= applied[m]
                              => log'[j].id <= maxId[m] /\ idOf[m][log'[j].schema] = log'[j].id
                        /\ \A s \in Schemas : idOf[m][s] # 0
                              => \E j \in Committed \cup {i} :
                                   log'[j].schema = s /\ log'[j].id = idOf[m][s]
      BY <1>2, <1>3, SMTT(30) DEF StoreInv
    <2>1. applied[m] < i /\ applied[m] \in Nat
      BY <1>1, ZenonT(30) DEF IndInv, StoreInv, TypeOK
    <2>2. ~(i <= applied[m])
      BY <1>4, <2>1
    <2>3. \A j \in Committed : log'[j].id = log[j].id /\ log'[j].schema = log[j].schema
      BY <1>2, Zenon
    <2>4. applied[m] <= Len(log')
      BY <1>2, Zenon DEF IndInv, StoreInv
    <2>5. ASSUME NEW j \in Committed \cup {i}, j <= applied[m]
          PROVE  log'[j].id <= maxId[m] /\ idOf[m][log'[j].schema] = log'[j].id
      <3>1. j \in Committed
        BY <2>2, <2>5, Zenon
      <3>2. log[j].id <= maxId[m] /\ idOf[m][log[j].schema] = log[j].id
        BY <2>5, <3>1, Zenon DEF IndInv, StoreInv
      <3>3. log'[j].id = log[j].id /\ log'[j].schema = log[j].schema
        BY <2>3, <3>1, Zenon
      <3> QED  BY <3>2, <3>3, Zenon
    <2>6. ASSUME NEW s \in Schemas, idOf[m][s] # 0
          PROVE  \E j \in Committed : log'[j].schema = s /\ log'[j].id = idOf[m][s]
      <3>1. PICK j \in Committed : log[j].schema = s /\ log[j].id = idOf[m][s]
        BY <2>6, Zenon DEF IndInv, StoreInv
      <3> QED  BY <2>3, <3>1, Zenon
    <2> QED  BY <2>4, <2>5, <2>6, ZenonT(30)
  <1>10. HolderInv'
    <2>1. \A m \in Nodes : Holds(m)' => Holds(m)
      BY Zenon DEF Holds
    <2>2. ASSUME NEW m \in Nodes, Holds(m), phase'[m] = "await"
          PROVE  \A j \in Committed' : j < token'[m]
      <3>1. SameOp(m)
        BY <2>2, Zenon
      <3>2. i < token'[m] /\ \A j \in Committed : j < token[m]
        BY <2>2, <3>1, Zenon DEF IndInv, HolderInv, SameOp
      <3> QED  BY <1>3, <3>1, <3>2, Zenon DEF SameOp
    <2> QED  BY <2>1, <2>2, Zenon DEF HolderInv
  <1>11. LateInv'
    BY Zenon DEF LateInv, NoLate
  <1>12. AnsweredInv'
    <2> SUFFICES ASSUME NEW m \in Nodes, phase'[m] \in {"order2", "await2"}
                 PROVE  \E j \in Committed \cup {i} :
                          /\ log[j].schema = want'[m] /\ log[j].id = newId'[m]
                          /\ phase'[m] = "await2" => j < token'[m]
      BY <1>2, <1>3, ZenonT(30) DEF AnsweredInv
    <2>1. CASE SameOp(m)
      BY <2>1, Zenon DEF IndInv, AnsweredInv, SameOp
    <2>2. CASE ~SameOp(m)
      BY <2>2, Zenon
    <2> QED  BY <2>1, <2>2, Zenon
  <1>13. UniqueIds'
    <2> SUFFICES ASSUME NEW a \in Committed \cup {i}, NEW b \in Committed \cup {i}, a # b
                 PROVE  log[a].id # log[b].id /\ log[a].schema # log[b].schema
      BY <1>2, <1>3 DEF UniqueIds
    <2> QED  BY <1>4, <1>5, SMTT(30) DEF IndInv, UniqueIds
  <1>14. StalePrimaryRejected'
    <2> SUFFICES ASSUME NEW a \in Committed \cup {i}, NEW b \in Committed \cup {i}, a < b
                 PROVE  log[a].gen <= log[b].gen
      BY <1>2, <1>3, Zenon DEF StalePrimaryRejected
    <2>1. CASE a \in Committed /\ b \in Committed
      BY <2>1, Zenon DEF IndInv, StalePrimaryRejected
    <2>2. CASE a \in Committed /\ b = i
      BY <1>5, <2>2, Zenon
    <2>3. CASE a = i
      <3>1. b \in Committed => b < i
        BY <1>5, Zenon
      <3>2. a \in Nat /\ b \in Nat
        BY <1>4, Zenon
      <3> QED  BY <2>3, <3>1, <3>2
    <2> QED  BY <2>1, <2>2, <2>3, Zenon
  <1>15. AckedDurable'
    <2> SUFFICES ASSUME NEW a \in acked
                 PROVE  \E j \in Committed' : log'[j].schema = a[1] /\ log'[j].id = a[2]
      BY Zenon DEF AckedDurable
    <2>1. PICK j \in Committed : log[j].schema = a[1] /\ log[j].id = a[2]
      BY Zenon DEF IndInv, AckedDurable
    <2> QED  BY <1>2, <2>1, ZenonT(30)
  <1> QED
    BY <1>6, <1>7, <1>8, <1>9, <1>10, <1>11, <1>12, <1>13, <1>14, <1>15, Zenon DEF IndInv

(* The holder commits the record it drives, and only that one.             *)
LEMMA CommitStep ==
    ASSUME IndInv, NEW n \in Nodes, Commit(n)
    PROVE  IndInv'
  <1>1. /\ TypeOK /\ phase[n] = "commit"
        /\ UNCHANGED <<groupVars, epoch, late, storeVars, fenceVars, acked, countVars>>
    BY Zenon DEF IndInv, Commit
  <1>2. CASE Release(n) /\ UNCHANGED log
    BY <1>1, <1>2, ReleaseStep, Zenon
  <1>3. CASE producerEpoch[n] = epoch /\ log' = Resolve(log, "committed") /\ Goto(n, "order2")
    <2>1. /\ OpTypeOK' /\ phase'[n] = "order2" /\ want'[n] = want[n]
          /\ newId'[n] = newId[n] /\ opGen'[n] = opGen[n]
          /\ \A m \in Nodes \ {n} : SameOp(m)
      BY <1>1, <1>3, GotoFacts, Zenon DEF Phases
    <2>2. log' \in Seq(Record)
      BY <1>1, <1>3, LogCommit, Zenon
    <2>3. TypeOK'
      BY <1>1, <2>1, <2>2, Zenon DEF TypeOK, OpTypeOK
    <2>4. Holds(n) /\ NoLate("commit") /\ Driving(n)
      BY <1>1, <1>3 DEF IndInv, HolderInv, Holds
    <2>5. PICK i \in Open :
            /\ SoleCandidate(i) /\ Validated(i)
            /\ log[i].schema = want[n] /\ log[i].id = newId[n]
      BY <1>1, <2>4 DEF Driving
    <2>6. \A m \in Nodes : Holds(m) => m = n
      <3>1. producerEpoch[n] # 0
        BY <1>1 DEF IndInv, EpochInv, Fenced
      <3> QED  BY <2>4, <3>1, SoleHolder, SMTT(30)
    <2>7. NoLate("commit")' /\ late' \subseteq late
      BY <1>1, <2>4 DEF NoLate
    <2>8. \A m \in Nodes :
            \/ SameOp(m)
            \/ /\ phase[m] = "commit" /\ phase'[m] = "order2"
               /\ want'[m] = want[m] /\ newId'[m] = newId[m] /\ opGen'[m] = opGen[m]
               /\ log[i].schema = want[m] /\ log[i].id = newId[m]
      BY <1>1, <2>1, <2>5, Zenon
    <2>9. \A m \in Nodes : Holds(m) =>
            /\ phase'[m] \notin {"recheck", "decide", "send", "validate", "commit"}
            /\ phase'[m] = "await" => i < token'[m]
      BY <2>1, <2>6, Zenon
    <2> QED  BY <1>1, <1>3, <2>3, <2>5, <2>7, <2>8, <2>9, CommitOpenStep, Zenon
  <1> QED  BY <1>1, <1>2, <1>3, Zenon DEF Commit

(***************************************************************************)
(* Faults.                                                                 *)
(***************************************************************************)

(* What a handler leaves behind carries its node, its epoch and the data   *)
(* of its request.                                                         *)
LEMMA InFlightFacts ==
    ASSUME IndInv, NEW n \in Nodes, NEW r \in InFlight(n)
    PROVE  /\ r \in LateRequest /\ r.node = n /\ r.epoch = producerEpoch[n]
           /\ r.id = newId[n] /\ r.gen = opGen[n]
           /\ \/ r.kind = "init" /\ phase[n] = "fence"
              \/ r.kind = "send" /\ phase[n] = "send"
              \/ r.kind = "commit" /\ phase[n] = "commit"
           /\ r.kind # "init" => producerEpoch[n] # 0 /\ newId[n] # 0
  <1>1. \E k \in {"init", "send", "commit"} :
          /\ r = Pending(n, k)
          /\ k = "init" => phase[n] = "fence"
          /\ k # "init" => phase[n] = k
    BY DEF InFlight
  <1>2. PICK k \in {"init", "send", "commit"} :
          /\ r = Pending(n, k)
          /\ k = "init" => phase[n] = "fence"
          /\ k # "init" => phase[n] = k
    BY <1>1, Zenon
  <1>3. /\ want[n] \in Schemas /\ newId[n] \in Nat /\ opGen[n] \in Nat
        /\ producerEpoch[n] \in Nat
    BY <1>2, Zenon DEF IndInv, RecordInv, TypeOK, Holding, Fenced
  <1>4. k # "init" => producerEpoch[n] # 0 /\ newId[n] # 0
    BY <1>2 DEF IndInv, EpochInv, RecordInv, Fenced
  <1>5. /\ r \in LateRequest /\ r.node = n /\ r.epoch = producerEpoch[n]
        /\ r.id = newId[n] /\ r.gen = opGen[n] /\ r.kind = k
    BY <1>2, <1>3 DEF Pending, LateRequest
  <1> QED  BY <1>2, <1>4, <1>5, Zenon

(* A handler ends where it stands. Its request may stay under way, its     *)
(* node may lose its memory.                                               *)
LEMMA LeaveStep ==
    ASSUME IndInv, TypeOK', NEW n \in Nodes,
           late' \in {late, late \cup InFlight(n)},
           UNCHANGED <<masters, epoch, log, acked>>,
           phase'[n] \in {"idle", "down"}, opGen'[n] = 0,
           \A m \in Nodes : primary'[m] = primary[m] \/ primary'[m] = 0,
           \A m \in Nodes \ {n} :
             /\ SameOp(m) /\ producerEpoch'[m] = producerEpoch[m] /\ fencedGen'[m] = fencedGen[m]
             /\ applied'[m] = applied[m] /\ maxId'[m] = maxId[m] /\ idOf'[m] = idOf[m],
           \/ UNCHANGED <<fenceVars, storeVars>>
           \/ /\ producerEpoch'[n] = 0 /\ fencedGen'[n] = 0 /\ applied'[n] = 0
              /\ \A s \in Schemas : idOf'[n][s] = 0
    PROVE  IndInv'
  <1>1. /\ TypeOK /\ Open' = Open /\ Committed' = Committed /\ log' = log
        /\ Open \subseteq Nat /\ Committed \subseteq Nat
        /\ \A i \in Open \cup Committed : i >= 1
    BY OffsetFacts DEF IndInv, Open, Committed
  <1>2. /\ \A s, id : Fresh(s, id)' <=> Fresh(s, id)
        /\ \A i \in Open : SoleCandidate(i)' <=> SoleCandidate(i)
        /\ \A i \in Open : Validated(i)' <=> Validated(i)
    BY <1>1, RecordFrame, Zenon
  <1>3. \A r \in late' : r \in late \/ r \in InFlight(n)
    OBVIOUS
  <1>4. \A m \in Nodes : producerEpoch'[m] = producerEpoch[m] \/ (m = n /\ producerEpoch'[m] = 0)
    BY Zenon
  <1>5. \A m \in Nodes : producerEpoch[m] \in Nat /\ producerEpoch[m] <= epoch /\ epoch \in Nat
    BY <1>1, Zenon DEF IndInv, EpochInv, TypeOK
  <1>6. \A m \in Nodes \ {n} : Holds(m)' <=> Holds(m)
    BY Zenon DEF Holds
  <1>7. EpochInv'
    <2>1. \A m \in Nodes : producerEpoch'[m] <= epoch'
      BY <1>4, <1>5, SMTT(30)
    <2>2. \A m \in Nodes : phase'[m] \in Fenced \/ fencedGen'[m] # 0 => producerEpoch'[m] # 0
      BY SMTT(30) DEF IndInv, EpochInv, SameOp, Fenced
    <2>3. \A a, b \in Nodes :
            producerEpoch'[a] = producerEpoch'[b] /\ producerEpoch'[a] # 0 => a = b
      BY <1>4, SMTT(30) DEF IndInv, EpochInv
    <2>4. \A r \in late' : r.epoch <= epoch' /\ (r.kind # "init" => r.epoch # 0)
      BY <1>3, <1>5, InFlightFacts, SMTT(30) DEF IndInv, EpochInv
    <2>5. ASSUME NEW r \in late', NEW m \in Nodes, r.kind # "init", r.epoch = producerEpoch'[m]
          PROVE  r.node = m
      <3>1. producerEpoch'[m] # 0 /\ producerEpoch'[m] = producerEpoch[m]
        BY <1>4, <2>4, <2>5, Zenon
      <3>2. CASE r \in late
        BY <2>5, <3>1, <3>2, SMTT(30) DEF IndInv, EpochInv
      <3>3. CASE r \in InFlight(n)
        <4>1. r.node = n /\ r.epoch = producerEpoch[n]
          BY <3>3, InFlightFacts, ZenonT(30)
        <4> QED  BY <2>5, <3>1, <4>1, SMTT(30) DEF IndInv, EpochInv
      <3> QED  BY <1>3, <3>2, <3>3, Zenon
    <2>6. \A i \in Open, m \in Nodes : Holds(m)' => log[i].node = m
      <3>1. \A i \in Open : epoch # 0
        BY Zenon DEF IndInv, EpochInv
      <3>2. \A m \in Nodes : Holds(m)' /\ epoch # 0 => Holds(m)
        BY <1>4, Zenon DEF Holds
      <3> QED  BY <3>1, <3>2, Zenon DEF IndInv, EpochInv
    <2>7. \A i \in Open : epoch # 0 /\ log[i].epoch = epoch
      BY Zenon DEF IndInv, EpochInv
    <2> QED  BY <1>1, <2>1, <2>2, <2>3, <2>4, <2>5, <2>6, <2>7, SMTT(30) DEF EpochInv
  <1>8. GenerationInv'
    <2>1. generation \in Nat /\ generation' = generation
      BY <1>1, SMTT(30) DEF TypeOK, generation
    <2>2. \A m \in Nodes : opGen'[m] <= generation
      BY <2>1, SMTT(30) DEF IndInv, GenerationInv, SameOp
    <2>3. \A m \in Nodes : primary'[m] <= generation
      BY <2>1, SMTT(30) DEF IndInv, GenerationInv
    <2>4. \A m \in Nodes : phase'[m] \in Fenced \cup {"fence"} => opGen'[m] # 0
      BY SMTT(30) DEF IndInv, GenerationInv, SameOp, Fenced
    <2>5. \A r \in late' : r.gen <= generation
      BY <1>3, InFlightFacts DEF IndInv, GenerationInv
    <2> QED  BY <1>1, <2>1, <2>2, <2>3, <2>4, <2>5, ZenonT(30) DEF IndInv, GenerationInv
  <1>9. RecordInv'
    <2>1. \A m \in Nodes :
            /\ phase'[m] \in Holding => want'[m] \in Schemas
            /\ phase'[m] \in {"send", "validate", "commit"} => newId'[m] # 0
      BY SMTT(30) DEF IndInv, RecordInv, SameOp, Holding, Fenced
    <2>2. \A r \in late' : r.kind # "init" => r.id # 0
      BY <1>3, InFlightFacts, SMTT(30) DEF IndInv, RecordInv
    <2> QED  BY <1>1, <2>1, <2>2, ZenonT(30) DEF IndInv, RecordInv
  <1>10. StoreInv'
    <2>0. Open' = Open /\ Committed' = Committed /\ log' = log
      BY <1>1, Zenon
    <2> SUFFICES ASSUME NEW m \in Nodes
                 PROVE  /\ applied'[m] <= Len(log)
                        /\ \A i \in Open : applied'[m] < i
                        /\ \A i \in Committed : i <= applied'[m]
                              => log[i].id <= maxId'[m] /\ idOf'[m][log[i].schema] = log[i].id
                        /\ \A s \in Schemas : idOf'[m][s] # 0
                              => \E i \in Committed : log[i].schema = s /\ log[i].id = idOf'[m][s]
      BY <2>0, SMTT(30) DEF StoreInv
    <2>1. CASE applied'[m] = applied[m] /\ maxId'[m] = maxId[m] /\ idOf'[m] = idOf[m]
      BY <2>1, SMTT(30) DEF IndInv, StoreInv
    <2>2. CASE applied'[m] = 0 /\ \A s \in Schemas : idOf'[m][s] = 0
      <3>1. Len(log) \in Nat
        BY <1>1, OffsetFacts, Zenon
      <3> QED  BY <1>1, <2>2, <3>1
    <2> QED  BY <2>1, <2>2, Zenon
  <1>11. HolderInv'
    <2> SUFFICES ASSUME NEW m \in Nodes \ {n}, Holds(m)
                 PROVE  /\ phase[m] = "await" => \A i \in Committed : i < token[m]
                        /\ phase[m] \in {"recheck", "decide"}
                              => \A i \in Committed : i <= applied[m]
                        /\ phase[m] = "send" => Fresh(want[m], newId[m])
                        /\ phase[m] \in {"recheck", "decide", "send", "validate", "commit"}
                              => NoLate("commit")'
                        /\ phase[m] \in {"validate", "commit"} => NoLate("send")' /\ Driving(m)
      <3>1. ASSUME NEW k \in Nodes \ {n}
            PROVE  Driving(k)' <=> Driving(k)
        <4>1. /\ phase'[k] = phase[k] /\ want'[k] = want[k]
              /\ newId'[k] = newId[k] /\ opGen'[k] = opGen[k]
          BY Zenon DEF SameOp
        <4>2. Open' = Open /\ log' = log
          BY <1>1, Zenon
        <4> QED  BY ONLY <1>2, <4>1, <4>2, Zenon DEF Driving
      <3> QED  BY <1>1, <1>2, <1>6, <3>1, ZenonT(30) DEF HolderInv, SameOp
    <2>1. \A r \in InFlight(n) : r.kind # "init" => r.epoch # epoch
      BY InFlightFacts DEF IndInv, EpochInv, Holds
    <2>2. \A k \in {"commit", "send"} : NoLate(k) => NoLate(k)'
      BY <1>3, <2>1, Zenon DEF NoLate
    <2> QED  BY <2>2, Zenon DEF IndInv, HolderInv
  <1>12. LateInv'
    <2> SUFFICES ASSUME NEW r \in late', r.kind = "commit", r.epoch = epoch
                 PROVE  /\ NoLate("send")'
                        /\ \A q \in late' : q.kind = "commit" /\ q.epoch = epoch => q = r
                        /\ \E i \in Open :
                              /\ SoleCandidate(i) /\ Validated(i)
                              /\ \A m \in Nodes \ {n} : Holds(m) /\ phase[m] = "await" => i < token[m]
      BY <1>1, <1>2, <1>6, ZenonT(30) DEF LateInv, SameOp
    <2>1. CASE r \in late
      <3>1. ASSUME NEW q \in InFlight(n), q.kind # "init"
            PROVE  q.epoch # epoch
        <4>1. Holds(n) /\ phase[n] \in {"send", "commit"} => FALSE
          BY <2>1, Zenon DEF IndInv, HolderInv, NoLate
        <4> QED  BY <3>1, <4>1, InFlightFacts, SMTT(30) DEF Holds
      <3>2. NoLate("send")'
        BY <1>3, <2>1, <3>1, Zenon DEF IndInv, LateInv, NoLate
      <3>3. \A q \in late' : q.kind = "commit" /\ q.epoch = epoch => q = r
        BY <1>3, <2>1, <3>1, Zenon DEF IndInv, LateInv
      <3> QED  BY <2>1, <3>2, <3>3, Zenon DEF IndInv, LateInv
    <2>2. CASE r \in InFlight(n)
      <3>1. Holds(n) /\ phase[n] = "commit" /\ producerEpoch[n] # 0
        BY <2>2, InFlightFacts, Zenon DEF Holds
      <3>2. NoLate("commit") /\ NoLate("send") /\ Driving(n)
        BY <3>1, Zenon DEF IndInv, HolderInv
      <3>3. InFlight(n) = {Pending(n, "commit")}
        BY <3>1, Zenon DEF InFlight
      <3>4. NoLate("send")'
        BY <1>3, <3>2, <3>3, Zenon DEF NoLate, Pending
      <3>5. \A q \in late' : q.kind = "commit" /\ q.epoch = epoch => q = r
        BY <1>3, <2>2, <3>2, <3>3, Zenon DEF NoLate
      <3>6. \A m \in Nodes \ {n} : ~Holds(m)
        BY <3>1, SoleHolder, Zenon
      <3> QED  BY <3>1, <3>2, <3>4, <3>5, <3>6, Zenon DEF Driving
    <2> QED  BY <1>3, <2>1, <2>2, Zenon
  <1>13. AnsweredInv'
    BY <1>1, ZenonT(30) DEF IndInv, AnsweredInv, SameOp
  <1>14. UniqueIds' /\ StalePrimaryRejected' /\ AckedDurable'
    BY <1>1, SafetyFrame, Zenon
  <1> QED
    BY <1>7, <1>8, <1>9, <1>10, <1>11, <1>12, <1>13, <1>14, Zenon DEF IndInv

(* A dropped handler: only its request in flight outlives it.              *)
LEMMA DropStep ==
    ASSUME IndInv, NEW n \in Nodes, Drop(n)
    PROVE  IndInv'
  <1>1. /\ TypeOK /\ Release(n) /\ late' \in {late, late \cup InFlight(n)}
        /\ UNCHANGED <<groupVars, epoch, log, storeVars, fenceVars, acked, requests>>
    BY DEF IndInv, Drop
  <1>2. /\ OpTypeOK' /\ phase'[n] = "idle" /\ opGen'[n] = 0
        /\ \A m \in Nodes \ {n} : SameOp(m)
    BY <1>1, ReleaseFacts, Zenon
  <1>3. late' \in SUBSET LateRequest
    BY <1>1, InFlightFacts, SMTT(30) DEF TypeOK
  <1>4. faults' \in Nat
    BY <1>1 DEF Drop, TypeOK
  <1>5. TypeOK'
    BY <1>1, <1>2, <1>3, <1>4, Zenon DEF TypeOK, OpTypeOK
  <1> QED  BY <1>1, <1>2, <1>5, LeaveStep, Zenon

(* A crash forgets everything but what is in the log or in flight.         *)
LEMMA CrashStep ==
    ASSUME IndInv, NEW n \in Nodes, Crash(n)
    PROVE  IndInv'
  <1>1. /\ TypeOK /\ late' \in {late, late \cup InFlight(n)}
        /\ UNCHANGED <<masters, epoch, log, acked, requests>>
    BY DEF IndInv, Crash
  <1>2. /\ phase' \in [Nodes -> Phases] /\ want' \in [Nodes -> Schemas \cup {NoSchema}]
        /\ newId' \in [Nodes -> Nat] /\ opGen' \in [Nodes -> Nat] /\ token' \in [Nodes -> Nat]
        /\ phase'[n] = "down" /\ opGen'[n] = 0
        /\ \A m \in Nodes \ {n} : SameOp(m)
    BY <1>1, Zenon DEF TypeOK, Crash, SameOp, Phases
  <1>3. /\ primary' \in [Nodes -> Nat] /\ producerEpoch' \in [Nodes -> Nat]
        /\ fencedGen' \in [Nodes -> Nat] /\ applied' \in [Nodes -> Nat]
        /\ maxId' \in [Nodes -> Nat]
        /\ \A m \in Nodes : primary'[m] = primary[m] \/ primary'[m] = 0
        /\ producerEpoch'[n] = 0 /\ fencedGen'[n] = 0 /\ applied'[n] = 0
        /\ \A m \in Nodes \ {n} :
             /\ producerEpoch'[m] = producerEpoch[m] /\ fencedGen'[m] = fencedGen[m]
             /\ applied'[m] = applied[m] /\ maxId'[m] = maxId[m]
    BY <1>1, Zenon DEF TypeOK, Crash
  <1>4. /\ idOf' \in [Nodes -> [Schemas -> Nat]] /\ \A s \in Schemas : idOf'[n][s] = 0
        /\ \A m \in Nodes \ {n} : idOf'[m] = idOf[m]
    <2>1. /\ idOf' = [idOf EXCEPT ![n] = [s \in Schemas |-> 0]]
          /\ idOf \in [Nodes -> [Schemas -> Nat]]
      BY <1>1 DEF Crash, TypeOK
    <2> QED  BY <2>1
  <1>5. synced' \in [Nodes -> Nat] /\ faults' \in Nat
    <2>1. generation \in Nat
      BY <1>1 DEF TypeOK, generation
    <2> QED  BY <1>1, <2>1 DEF TypeOK, Crash
  <1>6. late' \in SUBSET LateRequest
    BY <1>1, InFlightFacts, SMTT(30) DEF TypeOK
  <1>7. TypeOK'
    BY <1>1, <1>2, <1>3, <1>4, <1>5, <1>6, Zenon DEF TypeOK
  <1> QED  BY <1>1, <1>2, <1>3, <1>4, <1>7, LeaveStep, Zenon

LateAppend(r) ==
    log' = Append(log, OpenRecord(r.node, r.schema, r.id, r.gen, r.epoch))

(* A Produce that arrives while its epoch lasts joins the open             *)
(* transaction, which nobody is about to commit.                           *)
LEMMA LateSendStep ==
    ASSUME IndInv, NEW r \in late, r.kind = "send", r.epoch = epoch, late' = late \ {r},
           LateAppend(r),
           UNCHANGED <<epoch, groupVars, storeVars, fenceVars, opVars, acked, countVars>>
    PROVE  IndInv'
  <1> DEFINE rec == OpenRecord(r.node, r.schema, r.id, r.gen, r.epoch)
  <1>1. /\ TypeOK /\ log \in Seq(Record) /\ Len(log) \in Nat /\ r \in LateRequest
        /\ log' = Append(log, rec)
    <2>1. TypeOK
      BY DEF IndInv
    <2>2. log \in Seq(Record) /\ r \in LateRequest
      BY <2>1 DEF TypeOK
    <2> QED  BY <2>1, <2>2 DEF LateAppend
  <1>2. /\ rec \in Record /\ rec.status = "open" /\ rec.node = r.node /\ rec.schema = r.schema
        /\ rec.id = r.id /\ rec.gen = r.gen /\ rec.epoch = epoch
    <2>1. /\ r.node \in Nodes /\ r.schema \in Schemas /\ r.id \in Nat /\ r.gen \in Nat
          /\ r.epoch \in Nat
      BY <1>1 DEF LateRequest
    <2> QED  BY <2>1 DEF OpenRecord, Record
  <1>3. PICK k \in Nat : k = Len(log) + 1
    BY <1>1
  <1> HIDE DEF rec
  <1>4. /\ log' \in Seq(Record) /\ Len(log') = k /\ log'[k] = rec
        /\ \A i \in 1..Len(log) : log'[i] = log[i]
        /\ Open' = Open \cup {k} /\ Committed' = Committed
    <2>1. /\ log' \in Seq(Record) /\ Len(log') = Len(log) + 1 /\ log'[Len(log) + 1] = rec
          /\ \A i \in 1..Len(log) : log'[i] = log[i]
          /\ {i \in 1..Len(log') : log'[i].status = "open"}
                = {i \in 1..Len(log) : log[i].status = "open"} \cup {Len(log) + 1}
          /\ {i \in 1..Len(log') : log'[i].status = "committed"}
                = {i \in 1..Len(log) : log[i].status = "committed"}
      BY <1>1, <1>2, LogAppend
    <2> QED  BY <1>3, <2>1 DEF Open, Committed
  <1>5. \A i \in Open \cup Committed : log'[i] = log[i] /\ i < k /\ i \in Nat
    BY <1>1, <1>3, <1>4, OffsetFacts
  <1>6. TypeOK'
    <2>1. late' \in SUBSET LateRequest
      BY <1>1 DEF TypeOK
    <2> QED  BY <1>1, <1>4, <2>1, Zenon DEF TypeOK
  <1>7. EpochInv'
    <2>1. epoch # 0 /\ \A m \in Nodes : Holds(m) => r.node = m
      BY Zenon DEF IndInv, EpochInv, Holds
    <2>2. /\ \A i \in Open' : epoch # 0 /\ log'[i].epoch = epoch
          /\ \A i \in Open', m \in Nodes : Holds(m) => log'[i].node = m
      <3>1. /\ \A i \in Open : log[i].epoch = epoch
            /\ \A i \in Open, m \in Nodes : Holds(m) => log[i].node = m
        BY Zenon DEF IndInv, EpochInv
      <3> QED  BY <1>2, <1>4, <1>5, <2>1, <3>1, ZenonT(30)
    <2> QED  BY <2>2, Zenon DEF IndInv, EpochInv, Holds
  <1>8. GenerationInv'
    <2>1. r.gen <= generation /\ generation' = generation
      BY Zenon DEF IndInv, GenerationInv, generation
    <2>2. \A i \in (Open \cup Committed)' : log'[i].gen <= generation
      BY <1>2, <1>4, <1>5, <2>1, ZenonT(30) DEF IndInv, GenerationInv
    <2> QED  BY <2>1, <2>2, Zenon DEF IndInv, GenerationInv
  <1>9. RecordInv'
    <2>1. r.schema \in Schemas /\ r.id # 0
      BY <1>1, Zenon DEF IndInv, RecordInv, LateRequest
    <2>2. \A i \in (Open \cup Committed)' : log'[i].schema \in Schemas /\ log'[i].id # 0
      <3>1. \A i \in Open \cup Committed : log[i].schema \in Schemas /\ log[i].id # 0
        BY Zenon DEF IndInv, RecordInv
      <3> QED  BY <1>2, <1>4, <1>5, <2>1, <3>1, ZenonT(30)
    <2> QED  BY <2>2, Zenon DEF IndInv, RecordInv
  <1>10. StoreInv'
    <2>1. \A m \in Nodes : applied[m] \in Nat /\ applied[m] <= Len(log)
      BY <1>1, Zenon DEF IndInv, StoreInv, TypeOK
    <2>2. \A m \in Nodes : applied[m] <= Len(log') /\ \A i \in Open' : applied[m] < i
      BY <1>1, <1>3, <1>4, <2>1, SMTT(30) DEF IndInv, StoreInv
    <2>3. Committed' = Committed /\ \A i \in Committed : log'[i] = log[i]
      BY <1>4, <1>5, Zenon
    <2> QED  BY <2>2, <2>3, SMTT(30) DEF IndInv, StoreInv
  <1>11. HolderInv'
    <2>1. \A m \in Nodes : Holds(m) => phase[m] \notin {"validate", "commit"}
      BY Zenon DEF IndInv, HolderInv, NoLate
    <2>2. \A s, id : Fresh(s, id) => Fresh(s, id)'
      BY <1>4, <1>5, Zenon DEF Fresh
    <2>3. NoLate("commit") => NoLate("commit")'
      BY Zenon DEF NoLate
    <2> QED  BY <1>4, <2>1, <2>2, <2>3, Zenon DEF IndInv, HolderInv, Holds
  <1>12. LateInv'
    BY Zenon DEF IndInv, LateInv, NoLate
  <1>13. AnsweredInv'
    BY <1>4, <1>5, ZenonT(30) DEF IndInv, AnsweredInv
  <1>14. UniqueIds' /\ StalePrimaryRejected' /\ AckedDurable'
    BY <1>4, <1>5, SafetyFrame, Zenon
  <1> QED
    BY <1>6, <1>7, <1>8, <1>9, <1>10, <1>11, <1>12, <1>13, <1>14, Zenon DEF IndInv

(* An EndTxn that arrives while its epoch lasts commits the record of the  *)
(* handler that sent it.                                                   *)
LEMMA LateCommitStep ==
    ASSUME IndInv, NEW r \in late, r.kind = "commit", r.epoch = epoch, late' = late \ {r},
           log' = Resolve(log, "committed"),
           UNCHANGED <<epoch, groupVars, storeVars, fenceVars, opVars, acked, countVars>>
    PROVE  IndInv'
  <1>1. TypeOK
    BY DEF IndInv
  <1>2. log' \in Seq(Record) /\ late' \in SUBSET LateRequest
    BY <1>1, LogCommit, Zenon DEF TypeOK
  <1>3. TypeOK'
    BY <1>1, <1>2, Zenon DEF TypeOK
  <1>4. PICK i \in Open :
          /\ SoleCandidate(i) /\ Validated(i)
          /\ \A m \in Nodes : Holds(m) /\ phase[m] = "await" => i < token[m]
    BY Zenon DEF IndInv, LateInv
  <1>5. NoLate("commit")'
    BY DEF IndInv, LateInv, NoLate
  <1>6. \A m \in Nodes : SameOp(m)
    BY Zenon DEF SameOp
  <1>7. \A m \in Nodes : Holds(m) =>
          /\ phase'[m] \notin {"recheck", "decide", "send", "validate", "commit"}
          /\ phase'[m] = "await" => i < token'[m]
    BY <1>4, Zenon DEF IndInv, HolderInv, NoLate
  <1> QED  BY <1>3, <1>4, <1>5, <1>6, <1>7, CommitOpenStep, Zenon

(* A refused request only disappears.                                      *)
LEMMA RefusedStep ==
    ASSUME IndInv, NEW r \in late, r.epoch # epoch, r.kind # "init", late' = late \ {r},
           UNCHANGED <<epoch, log, groupVars, storeVars, fenceVars, opVars, acked, countVars>>
    PROVE  IndInv'
  <1>1. /\ Open' = Open /\ Committed' = Committed /\ log' = log
        /\ \A q \in late' : q \in late
    BY DEF Open, Committed
  <1>2. /\ \A s, id : Fresh(s, id)' <=> Fresh(s, id)
        /\ \A i \in Open : SoleCandidate(i)' <=> SoleCandidate(i)
        /\ \A i \in Open : Validated(i)' <=> Validated(i)
    BY <1>1, RecordFrame, Zenon
  <1>3. \A k : NoLate(k) => NoLate(k)'
    BY Zenon DEF NoLate
  <1>4. TypeOK'
    BY Zenon DEF IndInv, TypeOK
  <1>5. EpochInv' /\ GenerationInv' /\ RecordInv'
    BY <1>1, ZenonT(30) DEF IndInv, EpochInv, GenerationInv, RecordInv, Holds, generation
  <1>6. StoreInv' /\ AnsweredInv'
    BY <1>1, SMTT(30) DEF IndInv, StoreInv, AnsweredInv
  <1>7. HolderInv'
    BY <1>1, <1>2, <1>3, SMTT(30) DEF IndInv, HolderInv, Holds, Driving
  <1>8. LateInv'
    BY <1>1, <1>2, <1>3, Zenon DEF IndInv, LateInv, Holds
  <1>9. UniqueIds' /\ StalePrimaryRejected' /\ AckedDurable'
    BY <1>1, SafetyFrame, Zenon
  <1> QED  BY <1>4, <1>5, <1>6, <1>7, <1>8, <1>9, Zenon DEF IndInv

(* An InitProducerId that arrives late fences every node there is.         *)
LEMMA LateInitStep ==
    ASSUME IndInv, NEW r \in late, late' = late \ {r}, NextEpoch,
           UNCHANGED <<groupVars, storeVars, fenceVars, opVars, acked, countVars>>
    PROVE  IndInv'
  <1>1. TypeOK
    BY DEF IndInv
  <1>2. epoch' \in Nat /\ log' \in Seq(Record)
    BY <1>1, NextEpochType, Zenon
  <1>3. late' \subseteq late /\ late' \in SUBSET LateRequest
    BY <1>1, Zenon DEF TypeOK
  <1>4. TypeOK'
    BY <1>1, <1>2, <1>3, Zenon DEF TypeOK
  <1> DEFINE F == {}
  <1>5. /\ F \in SUBSET Nodes /\ \A a, b \in F : a = b
        /\ \A m \in F : /\ phase[m] = "fence" /\ phase'[m] = "order"
                        /\ want'[m] = want[m] /\ opGen'[m] = opGen[m]
                        /\ producerEpoch'[m] = epoch + 1
    OBVIOUS
  <1>6. \A m \in Nodes \ F : /\ SameOp(m) /\ producerEpoch'[m] = producerEpoch[m]
                             /\ fencedGen'[m] = fencedGen[m]
    BY DEF SameOp
  <1> HIDE DEF F
  <1> QED  BY <1>3, <1>4, <1>5, <1>6, EpochStep, Zenon

(* Whatever a dropped handler left behind, its arrival is harmless.        *)
LEMMA ArriveStep ==
    ASSUME IndInv, NEW r \in late, Arrive(r)
    PROVE  IndInv'
  <1>1. /\ late' = late \ {r}
        /\ UNCHANGED <<groupVars, storeVars, fenceVars, opVars, acked, countVars>>
    BY DEF Arrive
  <1>2. CASE NextEpoch
    BY <1>1, <1>2, LateInitStep, Zenon
  <1>3. CASE /\ r.kind = "send" /\ r.epoch = epoch /\ UNCHANGED epoch /\ LateAppend(r)
    BY <1>1, <1>3, LateSendStep, Zenon
  <1>4. CASE /\ r.kind = "commit" /\ r.epoch = epoch /\ UNCHANGED epoch
             /\ log' = Resolve(log, "committed")
    BY <1>1, <1>4, LateCommitStep, Zenon
  <1>5. CASE r.kind # "init" /\ r.epoch # epoch /\ UNCHANGED <<epoch, log>>
    BY <1>1, <1>5, RefusedStep, Zenon
  <1> QED  BY <1>2, <1>3, <1>4, <1>5, Zenon DEF Arrive, LateAppend

(***************************************************************************)
(* The theorems.                                                           *)
(***************************************************************************)

(* The invariant holds of the nodes that started on an empty topic.        *)
LEMMA InitInv ==
    ASSUME Init
    PROVE  IndInv
  <1>1. TypeOK
    BY NoSchemaAssumption DEF Init, TypeOK, Phases
  <1>2. /\ Open = {} /\ Committed = {} /\ late = {} /\ acked = {} /\ generation = 0
        /\ Len(log) = 0
    BY DEF Init, Open, Committed, generation
  <1>3. \A n \in Nodes :
          /\ producerEpoch[n] = 0 /\ fencedGen[n] = 0 /\ phase[n] = "idle" /\ primary[n] = 0
          /\ opGen[n] = 0 /\ applied[n] = 0 /\ epoch = 0
    BY DEF Init
  <1>4. \A n \in Nodes, s \in Schemas : idOf[n][s] = 0
    BY Zenon DEF Init
  <1>5. EpochInv /\ GenerationInv /\ RecordInv
    BY <1>2, <1>3 DEF EpochInv, GenerationInv, RecordInv, Fenced, Holding
  <1>6. StoreInv
    BY <1>2, <1>3, <1>4 DEF StoreInv
  <1>7. HolderInv /\ LateInv /\ AnsweredInv
    BY <1>2, <1>3, Zenon DEF HolderInv, LateInv, AnsweredInv
  <1>8. UniqueIds /\ StalePrimaryRejected /\ AckedDurable
    BY <1>2 DEF UniqueIds, StalePrimaryRejected, AckedDurable
  <1> QED  BY <1>1, <1>5, <1>6, <1>7, <1>8, Zenon DEF IndInv

(* The invariant is kept when nothing changes.                             *)
LEMMA StutterInv ==
    ASSUME IndInv, UNCHANGED vars
    PROVE  IndInv'
  <1>1. /\ UNCHANGED <<brokerVars, storeVars, fenceVars, opVars, acked>>
        /\ masters' = masters /\ primary' = primary /\ TypeOK' /\ generation' = generation
    BY Zenon DEF IndInv, vars, TypeOK, generation
  <1>2. generation <= generation' /\ \A n \in Nodes : primary'[n] <= generation'
    <2>1. generation \in Nat
      BY DEF IndInv, TypeOK, generation
    <2> QED  BY <1>1, <2>1 DEF IndInv, GenerationInv
  <1> QED  BY <1>1, <1>2, GroupStep, Zenon

(* Every step of every node, of the coordinator and of the network keeps   *)
(* the invariant.                                                          *)
LEMMA NextInv ==
    ASSUME IndInv, [Next]_vars
    PROVE  IndInv'
  <1>1. ASSUME NEW n \in Nodes, Step(n)
        PROVE  IndInv'
    BY <1>1, StartStep, ServeStep, PrepareStep, FenceStep, OrderBarrierStep, AwaitBarrierStep,
       RecheckStep, DecideStep, SendStep, ValidateStep, CommitStep, OrderAppliedStep,
       AwaitAppliedStep, SMTT(30) DEF Step
  <1>2. ASSUME NEW n \in Nodes,
               \/ Apply(n) \/ Publish(n) \/ LoseSession(n) \/ Rebalance(n)
               \/ Drop(n) \/ Crash(n) \/ \E s \in Schemas : Admit(n, s)
        PROVE  IndInv'
    BY <1>2, ApplyStep, PublishStep, LoseSessionStep, RebalanceStep, DropStep, CrashStep, AdmitStep
  <1>3. CASE TxnTimeout
    BY <1>3, TxnTimeoutStep
  <1>4. ASSUME NEW r \in late, Arrive(r)
        PROVE  IndInv'
    BY <1>4, ArriveStep
  <1>5. CASE UNCHANGED vars
    BY <1>5, StutterInv, Zenon
  <1> QED  BY <1>1, <1>2, <1>3, <1>4, <1>5 DEF Next

(* The inductive invariant holds in every reachable state.                 *)
THEOREM Invariance == Spec => []IndInv
  <1>1. Init => IndInv
    BY InitInv, Zenon
  <1>2. IndInv /\ [Next]_vars => IndInv'
    BY NextInv
  <1> QED  BY <1>1, <1>2, PTL DEF Spec

(* Type correctness of the write path.                                     *)
THEOREM TypeCorrect == Spec => []TypeOK
  <1>1. IndInv => TypeOK
    BY Zenon DEF IndInv
  <1> QED  BY <1>1, Invariance, PTL

(* Over any number of nodes, failovers, dropped handlers and late          *)
(* requests, KafkaStore::register gives a schema one id and an id one      *)
(* schema.                                                                 *)
THEOREM UniqueIdsTheorem == Spec => []UniqueIds
  <1>1. IndInv => UniqueIds
    BY DEF IndInv
  <1> QED  BY <1>1, Invariance, PTL

(* SchemaWriter::produce_fenced commits nothing behind a newer generation. *)
THEOREM StalePrimaryTheorem == Spec => []StalePrimaryRejected
  <1>1. IndInv => StalePrimaryRejected
    BY Zenon DEF IndInv
  <1> QED  BY <1>1, Invariance, PTL

(* A registration that was answered with success is committed in the log   *)
(* and stays there.                                                        *)
THEOREM AckedDurableTheorem == Spec => []AckedDurable
  <1>1. IndInv => AckedDurable
    BY Zenon DEF IndInv
  <1> QED  BY <1>1, Invariance, PTL

(* prepare_write fences before it orders its barrier, so no transaction of *)
(* another node can hold the barrier of the epoch's holder up.             *)
THEOREM BarrierTheorem == Spec => []BarrierNotBlocked
  <1>1. IndInv => BarrierNotBlocked
    BY Zenon DEF IndInv, EpochInv, BarrierNotBlocked, Holds
  <1> QED  BY <1>1, Invariance, PTL

(* Only a decision on a known schema and the end of await_applied answer.  *)
LEMMA Answers ==
    ASSUME [Next]_vars
    PROVE  acked' = acked \/ \E n \in Nodes : Decide(n) \/ AwaitApplied(n)
  <1>1. ASSUME NEW n \in Nodes, Step(n), ~Decide(n), ~AwaitApplied(n)
        PROVE  acked' = acked
    BY <1>1, Zenon DEF Step, Start, Serve, Prepare, Fence, OrderBarrier, AwaitBarrier, Recheck,
                Send, Validate, Commit, OrderApplied
  <1>2. ASSUME NEW n \in Nodes,
               \/ Apply(n) \/ Publish(n) \/ LoseSession(n) \/ Rebalance(n)
               \/ Drop(n) \/ Crash(n) \/ \E s \in Schemas : Admit(n, s)
        PROVE  acked' = acked
    BY <1>2, Zenon DEF Apply, Publish, LoseSession, Rebalance, Drop, Crash, Admit
  <1>3. (TxnTimeout \/ \E r \in late : Arrive(r)) => acked' = acked
    BY DEF TxnTimeout, Arrive
  <1>4. UNCHANGED vars => acked' = acked
    BY DEF vars
  <1> QED  BY <1>1, <1>2, <1>3, <1>4, Zenon DEF Next

(* When register answers, the answering node's own store binds the schema  *)
(* to the id: the barrier it awaited lies behind the record.               *)
THEOREM ReadYourWritesTheorem == Spec => ReadYourWrites
  <1> DEFINE A == \A a \in acked' \ acked :
                    \E n \in Nodes : phase[n] # "idle" /\ phase'[n] = "idle"
                                      /\ want[n] = a[1] /\ idOf[n][a[1]] = a[2]
  <1>1. IndInv /\ [Next]_vars => [A]_vars
    <2> SUFFICES ASSUME IndInv, [Next]_vars
                 PROVE  A
      OBVIOUS
    <2>1. CASE acked' = acked
      BY <2>1, Zenon
    <2>2. ASSUME NEW n \in Nodes, Decide(n)
          PROVE  A
      <3>1. TypeOK /\ phase[n] = "decide"
        BY <2>2, Zenon DEF IndInv, Decide
      <3>2. CASE acked' = acked
        BY <3>2, Zenon
      <3>3. CASE acked' = acked \cup {<<want[n], idOf[n][want[n]]>>} /\ Release(n)
        <4>1. phase'[n] = "idle"
          BY <3>1, <3>3, ReleaseFacts, Zenon
        <4> QED  BY <3>1, <3>3, <4>1
      <3> QED  BY <2>2, <3>2, <3>3, Zenon DEF Decide
    <2>3. ASSUME NEW n \in Nodes, AwaitApplied(n)
          PROVE  A
      <3>1. /\ TypeOK /\ phase[n] = "await2" /\ applied[n] >= token[n] /\ Release(n)
            /\ acked' = acked \cup {<<want[n], newId[n]>>}
        BY <2>3, Zenon DEF IndInv, AwaitApplied
      <3>2. phase'[n] = "idle"
        BY <3>1, ReleaseFacts, Zenon
      <3>3. PICK i \in Committed : log[i].schema = want[n] /\ log[i].id = newId[n] /\ i < token[n]
        BY <3>1, Zenon DEF IndInv, AnsweredInv
      <3>4. i \in Nat /\ token[n] \in Nat /\ applied[n] \in Nat
        BY <3>1, OffsetFacts, Zenon DEF TypeOK
      <3>5. i <= applied[n]
        BY <3>1, <3>3, <3>4, SMTT(30)
      <3>6. idOf[n][want[n]] = newId[n]
        BY <3>3, <3>5 DEF IndInv, StoreInv
      <3> QED  BY <3>1, <3>2, <3>6
    <2> QED  BY <2>1, <2>2, <2>3, Answers, Zenon
  <1> QED  BY <1>1, Invariance, PTL DEF Spec, ReadYourWrites

(***************************************************************************)
(* The election contract.                                                  *)
(***************************************************************************)

(* A handler's step does not touch the election. *)
LEMMA StepKeepsGroup ==
    ASSUME NEW n \in Nodes, Step(n)
    PROVE  UNCHANGED groupVars
  BY Zenon DEF Step, Start, Serve, Prepare, Fence, OrderBarrier, AwaitBarrier, Recheck,
               Decide, Send, Validate, Commit, OrderApplied, AwaitApplied

(* Every step of PrimaryWrites is one of PrimaryRole or leaves it alone:   *)
(* a rebalance, a publication by the election client, the loss of its      *)
(* session, or a crash.                                                    *)
LEMMA StepRole ==
    ASSUME [Next]_vars
    PROVE  [Role!Next]_(Role!vars)
  <1>1. ASSUME UNCHANGED groupVars
        PROVE  UNCHANGED Role!vars
    BY <1>1, Zenon DEF Role!vars
  <1>2. ASSUME NEW n \in Nodes, Rebalance(n)
        PROVE  Role!Next
    BY <1>2, Zenon DEF Rebalance, Role!Next, Role!Rebalance
  <1>3. ASSUME NEW n \in Nodes, Publish(n)
        PROVE  Role!Next
    <2>1. PICK g \in (synced[n] + 1)..generation :
            /\ synced' = [synced EXCEPT ![n] = g]
            /\ primary' = [primary EXCEPT ![n] = IF masters[g] = n THEN g ELSE 0]
      BY <1>3, Zenon DEF Publish
    <2>2. Role!Publish(n, g)
      BY <1>3, <2>1, Zenon DEF Publish, Role!Publish
    <2>3. g \in (synced[n] + 1)..Role!generation
      BY <2>1, Zenon DEF generation, Role!generation
    <2> QED  BY <2>2, <2>3, Zenon DEF Role!Next
  <1>4. ASSUME NEW n \in Nodes, LoseSession(n)
        PROVE  Role!Next
    BY <1>4, Zenon DEF LoseSession, Role!Next, Role!LoseSession
  <1>5. ASSUME NEW n \in Nodes, Crash(n)
        PROVE  Role!Next
    BY <1>5, Zenon DEF Crash, Role!Next, Role!Forget, generation, Role!generation
  <1>6. ASSUME NEW n \in Nodes, Step(n)
        PROVE  UNCHANGED Role!vars
    BY <1>1, <1>6, StepKeepsGroup, Zenon
  <1>7. ASSUME NEW n \in Nodes, Apply(n) \/ Drop(n) \/ \E s \in Schemas : Admit(n, s)
        PROVE  UNCHANGED Role!vars
    BY <1>1, <1>7, Zenon DEF Apply, Drop, Admit
  <1>8. ASSUME TxnTimeout \/ \E r \in late : Arrive(r)
        PROVE  UNCHANGED Role!vars
    BY <1>1, <1>8, Zenon DEF TxnTimeout, Arrive
  <1>9. CASE UNCHANGED vars
    BY <1>1, <1>9, Zenon DEF vars
  <1> QED
    BY <1>2, <1>3, <1>4, <1>5, <1>6, <1>7, <1>8, <1>9, Zenon DEF Next

(* What the write path does with the election is what the election client  *)
(* provides, for any number of nodes and generations.                      *)
THEOREM RoleTheorem == Spec => KeepsRole
  <1>1. Init => Role!Init
    BY Zenon DEF Init, Role!Init
  <1>2. [Next]_vars => [Role!Next]_(Role!vars)
    BY StepRole, Zenon
  <1> QED  BY <1>1, <1>2, PTL DEF Spec, KeepsRole, Role!Spec

(***************************************************************************)
(* The registry of ids.                                                    *)
(***************************************************************************)

(* As long as the committed records stay, so do the ids given.             *)
LEMMA BoundFrame ==
    ASSUME Committed' = Committed, \A i \in Committed : log'[i] = log[i]
    PROVE  Bound' = Bound
  BY DEF Bound

(* A barrier, an abort and a record of an open transaction give no id.     *)
LEMMA NothingGiven ==
    ASSUME TypeOK, TypeOK',
           \/ log' = log
           \/ \E n \in Nodes : log' = Append(log, Barrier(n))
           \/ log' = Resolve(log, "aborted")
           \/ \E l \in {log, Resolve(log, "aborted")} :
                 \E r : r.status = "open" /\ log' = Append(l, r)
    PROVE  Bound' = Bound
  <1>1. CASE log' = log
    BY <1>1, BoundFrame, Zenon DEF Committed
  <1>2. ASSUME NEW n \in Nodes, log' = Append(log, Barrier(n))
        PROVE  Bound' = Bound
    <2>1. Committed' = Committed /\ \A i \in 1..Len(log) : log'[i] = log[i]
      BY <1>2, LogBarrier, Zenon
    <2> QED  BY <2>1, OffsetFacts, BoundFrame, Zenon
  <1>3. CASE log' = Resolve(log, "aborted")
    BY <1>3, LogAbort, BoundFrame, Zenon
  <1>4. ASSUME NEW l \in {log, Resolve(log, "aborted")}, NEW r, r.status = "open",
               log' = Append(l, r)
        PROVE  Bound' = Bound
    <2>1. log \in Seq(Record) /\ log' \in Seq(Record)
      BY Zenon DEF TypeOK
    <2>2. l \in Seq(Record)
      <3>1. Resolve(log, "aborted") \in Seq(Record)
        BY <2>1, ResolveFacts
      <3> QED  BY <1>4, <2>1, <3>1, Zenon
    <2>3. r \in Record
      <3>1. Len(l) \in Nat /\ Len(log') = Len(l) + 1 /\ log'[Len(l) + 1] = r
        BY <1>4, <2>2
      <3> QED  BY <2>1, <3>1
    <2>4. /\ \A i \in 1..Len(l) : log'[i] = l[i]
          /\ Committed' = {i \in 1..Len(l) : l[i].status = "committed"}
      BY <1>4, <2>2, <2>3, LogAppend DEF Committed
    <2>5. /\ {i \in 1..Len(l) : l[i].status = "committed"} = Committed
          /\ \A i \in Committed : l[i] = log[i]
      <3>1. CASE l = log
        BY <3>1, Zenon DEF Committed
      <3>2. CASE l = Resolve(log, "aborted")
        <4>1. /\ Len(l) = Len(log)
              /\ \A i \in 1..Len(log) :
                   l[i] = IF log[i].status = "open"
                          THEN [log[i] EXCEPT !.status = "aborted"] ELSE log[i]
          BY <2>1, <3>2, ResolveFacts, Zenon
        <4>2. \A i \in 1..Len(log) : log[i] \in Record
          BY <2>1
        <4>3. \A i \in 1..Len(log) :
                l[i].status = IF log[i].status = "open" THEN "aborted" ELSE log[i].status
          BY <4>1, <4>2, Zenon DEF Record
        <4> QED  BY <4>1, <4>3, Zenon DEF Committed
      <3> QED  BY <1>4, <3>1, <3>2, Zenon
    <2>6. Committed \subseteq 1..Len(l)
      BY <2>5, Zenon
    <2> QED  BY <2>4, <2>5, <2>6, BoundFrame, Zenon
  <1> QED  BY <1>1, <1>2, <1>3, <1>4, Zenon

(* Committing the one record of the open transaction gives one new schema  *)
(* an id larger than all before it.                                        *)
LEMMA CommitGives ==
    ASSUME IndInv, NEW i \in Open, SoleCandidate(i), log' = Resolve(log, "committed"),
           acked' = acked
    PROVE  Ids!Next
  <1> DEFINE p == <<log[i].schema, log[i].id>>
  <1>1. TypeOK /\ Open = {i} /\ Fresh(log[i].schema, log[i].id)
    BY Zenon DEF IndInv, SoleCandidate
  <1>2. log[i].schema \in Schemas
    BY Zenon DEF IndInv, RecordInv
  <1>3. log[i].id \in Nat
    BY <1>1, OffsetFacts, Zenon DEF Record
  <1>4. /\ Committed' = Committed \cup {i}
        /\ \A j \in Committed \cup {i} :
             log'[j].id = log[j].id /\ log'[j].schema = log[j].schema
    BY <1>1, LogCommit, Zenon
  <1>5. Bound' = Bound \cup {p}
    BY <1>4 DEF Bound
  <1>6. p[1] = log[i].schema /\ p[2] = log[i].id /\ p \in Bound'
    BY <1>5
  <1>7. \A q \in Bound : q[1] # log[i].schema /\ q[2] < log[i].id
    BY <1>1 DEF Bound, Fresh
  <1>8. Ids!Bind(log[i].schema)
    BY <1>3, <1>5, <1>6, <1>7, Zenon DEF Ids!Bind
  <1> QED  BY <1>2, <1>8, Zenon DEF Ids!Next

(* A handler's step gives no id unless it commits.                         *)
LEMMA HandlerGives ==
    ASSUME IndInv, IndInv', NEW n \in Nodes, Step(n)
    PROVE  Bound' = Bound \/ Ids!Next
  <1>1. TypeOK /\ TypeOK'
    BY Zenon DEF IndInv
  <1>2. ASSUME Serve(n) \/ Prepare(n) \/ AwaitBarrier(n) \/ Recheck(n) \/ Decide(n) \/ AwaitApplied(n)
        PROVE  log' = log
    BY <1>2, Zenon DEF Serve, Prepare, AwaitBarrier, Recheck, Decide, AwaitApplied
  <1>3. ASSUME Start(n) \/ OrderBarrier(n) \/ OrderApplied(n)
        PROVE  log' = Append(log, Barrier(n))
    BY <1>3, Zenon DEF Start, OrderBarrier, OrderApplied, OrderBarrierThen
  <1>4. ASSUME Fence(n) \/ Validate(n)
        PROVE  log' = log \/ log' = Resolve(log, "aborted")
    BY <1>4, Zenon DEF Fence, Validate, NextEpoch
  <1>5. ASSUME Send(n)
        PROVE  Bound' = Bound
    <2>1. \/ log' = log
          \/ log' = Append(Resolve(log, "aborted"),
                           OpenRecord(n, want[n], newId[n], opGen[n], epoch))
      BY <1>5, Zenon DEF Send
    <2>2. OpenRecord(n, want[n], newId[n], opGen[n], epoch).status = "open"
      BY DEF OpenRecord
    <2> QED  BY <1>1, <2>1, <2>2, NothingGiven, Zenon
  <1>6. ASSUME Commit(n)
        PROVE  Bound' = Bound \/ Ids!Next
    <2>1. CASE log' = log
      BY <1>1, <2>1, NothingGiven, Zenon
    <2>2. CASE Holds(n) /\ log' = Resolve(log, "committed")
      <3>1. phase[n] = "commit" /\ acked' = acked
        BY <1>6, Zenon DEF Commit
      <3>2. Driving(n)
        BY <2>2, <3>1 DEF IndInv, HolderInv
      <3>3. \E i \in Open : SoleCandidate(i)
        BY <3>2, Zenon DEF Driving
      <3> QED  BY <2>2, <3>1, <3>3, CommitGives, Zenon
    <2> QED  BY <1>6, <2>1, <2>2, Zenon DEF Commit, Holds
  <1> QED
    BY <1>1, <1>2, <1>3, <1>4, <1>5, <1>6, NothingGiven, Zenon DEF Step

(* Nor does a late request, unless it is the EndTxn that commits.          *)
LEMMA ArriveGives ==
    ASSUME IndInv, IndInv', NEW r \in late, Arrive(r)
    PROVE  Bound' = Bound \/ Ids!Next
  <1>1. TypeOK /\ TypeOK'
    BY Zenon DEF IndInv
  <1>2. CASE log' = log \/ log' = Resolve(log, "aborted")
    BY <1>1, <1>2, NothingGiven, Zenon
  <1>3. CASE log' = Append(log, OpenRecord(r.node, r.schema, r.id, r.gen, r.epoch))
    <2>1. OpenRecord(r.node, r.schema, r.id, r.gen, r.epoch).status = "open"
      BY DEF OpenRecord
    <2> QED  BY <1>1, <1>3, <2>1, NothingGiven, Zenon
  <1>4. CASE r.kind = "commit" /\ r.epoch = epoch /\ log' = Resolve(log, "committed")
    <2>1. acked' = acked
      BY Zenon DEF Arrive
    <2>2. \E i \in Open : SoleCandidate(i)
      BY <1>4, Zenon DEF IndInv, LateInv
    <2> QED  BY <1>4, <2>1, <2>2, CommitGives, Zenon
  <1> QED  BY <1>2, <1>3, <1>4, Zenon DEF Arrive, NextEpoch

(* Only what is given is answered (Decide on a known schema, or the end of *)
(* await_applied), and answering gives nothing.                            *)
LEMMA AnswerGiven ==
    ASSUME IndInv, NEW n \in Nodes, Decide(n) \/ AwaitApplied(n), acked' # acked
    PROVE  Ids!Next
  <1>1. TypeOK
    BY Zenon DEF IndInv
  <1>2. log' = log /\ Committed' = Committed
    BY Zenon DEF Decide, AwaitApplied, Committed
  <1>3. Bound' = Bound
    BY <1>2, BoundFrame, Zenon
  <1>4. ASSUME NEW p \in Bound, acked' = acked \cup {p}
        PROVE  Ids!Next
    BY <1>3, <1>4, Zenon DEF Ids!Next, Ids!Answer
  <1>5. CASE Decide(n)
    <2>1. /\ phase[n] = "decide" /\ idOf[n][want[n]] # 0
          /\ acked' = acked \cup {<<want[n], idOf[n][want[n]]>>}
      BY <1>5, Zenon DEF Decide
    <2>2. want[n] \in Schemas
      BY <2>1 DEF IndInv, RecordInv, Holding, Fenced
    <2>3. PICK i \in Committed : log[i].schema = want[n] /\ log[i].id = idOf[n][want[n]]
      BY <2>1, <2>2, Zenon DEF IndInv, StoreInv
    <2>4. <<want[n], idOf[n][want[n]]>> \in Bound
      BY <2>3, Zenon DEF Bound
    <2> QED  BY <1>4, <2>1, <2>4, Zenon
  <1>6. CASE AwaitApplied(n)
    <2>1. phase[n] = "await2" /\ acked' = acked \cup {<<want[n], newId[n]>>}
      BY <1>6, Zenon DEF AwaitApplied
    <2>2. PICK i \in Committed : log[i].schema = want[n] /\ log[i].id = newId[n]
      BY <2>1, Zenon DEF IndInv, AnsweredInv
    <2>3. <<want[n], newId[n]>> \in Bound
      BY <2>2, Zenon DEF Bound
    <2> QED  BY <1>4, <2>1, <2>3, Zenon
  <1> QED  BY <1>5, <1>6, Zenon

(* Every step of PrimaryWrites gives one id, answers one, or does neither. *)
LEMMA StepIds ==
    ASSUME IndInv, IndInv', [Next]_vars
    PROVE  [Ids!Next]_(Ids!vars)
  <1>1. TypeOK /\ TypeOK'
    BY Zenon DEF IndInv
  <1>2. CASE acked' # acked
    BY <1>2, Answers, AnswerGiven, Zenon
  <1>3. CASE acked' = acked
    <2>1. ASSUME NEW n \in Nodes,
                 \/ Apply(n) \/ Publish(n) \/ LoseSession(n) \/ Rebalance(n)
                 \/ Drop(n) \/ Crash(n) \/ \E s \in Schemas : Admit(n, s)
          PROVE  log' = log
      BY <2>1, Zenon DEF Apply, Publish, LoseSession, Rebalance, Drop, Crash, Admit
    <2>2. TxnTimeout => log' = Resolve(log, "aborted")
      BY Zenon DEF TxnTimeout, NextEpoch
    <2>3. UNCHANGED vars => log' = log
      BY Zenon DEF vars
    <2>4. Bound' = Bound \/ Ids!Next
      BY <1>1, <2>1, <2>2, <2>3, NothingGiven, HandlerGives, ArriveGives, Zenon DEF Next
    <2> QED  BY <1>3, <2>4, Zenon DEF Ids!vars
  <1> QED  BY <1>2, <1>3, Zenon

(* To its clients any number of registry nodes is one atomic registry of   *)
(* ids: KafkaStore::register gives each schema one id, in increasing order *)
(* and for good, and answers with given ids only.                          *)
THEOREM IdRegistryTheorem == Spec => ImplementsIdRegistry
  <1>1. Init => Ids!Init
    <2>1. Init => Committed = {}
      BY DEF Init, Committed
    <2> QED  BY <2>1, Zenon DEF Init, Ids!Init, Bound
  <1>2. IndInv /\ IndInv' /\ [Next]_vars => [Ids!Next]_(Ids!vars)
    BY StepIds, Zenon
  <1> QED  BY <1>1, <1>2, Invariance, PTL DEF Spec, ImplementsIdRegistry, Ids!Spec

===============================================================================
