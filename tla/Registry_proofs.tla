---------------------------- MODULE Registry_proofs ----------------------------
(***************************************************************************)
(* Theorems about the operations on `_schemas` and the reads of the store, *)
(* for every load.  Next versions never go back, a read-only subject stays *)
(* as it is, and a compatibility check foretells a registration.  As long  *)
(* as there are ids left, a store replayed from the compacted log shows    *)
(* what the live one shows, an id names one schema, what a live version    *)
(* refers to exists, live versions were checked against each other, and    *)
(* the read endpoints agree with each other.                               *)
(*                                                                         *)
(* Here are the facts that take an induction (a least and a largest        *)
(* number, the store of a replayed log), the case split of the next-state  *)
(* relation, and the theorems; the cases are in Registry_steps.            *)
(***************************************************************************)
EXTENDS Rest, Registry_steps, WellFoundedInduction, FiniteSetTheorems

-------------------------------------------------------------------------------
(* Induction. *)

(* A set of positive numbers has a least one. *)
LEMMA MinFacts ==
    ASSUME NEW S, S \subseteq Numbers, S # {}
    PROVE  Min(S) \in S /\ \A x \in S : Min(S) <= x
  <1>1. S \subseteq Nat
    BY StoreAssumption DEF Numbers
  <1>2. PICK m \in S : \A y \in S : <<y, m>> \notin OpToRel(<, Nat)
    BY <1>1, NatLessThanWellFounded, WFMin, Zenon
  <1>3. \A a, b \in Nat : a < b => <<a, b>> \in OpToRel(<, Nat)
    BY DEF OpToRel
  <1>4. \A y \in S : ~(y < m)
    BY <1>1, <1>2, <1>3, Zenon
  <1>5. \A y \in S : m <= y
    BY <1>1, <1>4
  <1> QED  BY <1>5, Zenon DEF Min

(* And a largest one. *)
LEMMA MaxFacts ==
    ASSUME NEW S, S \subseteq Numbers, S # {}
    PROVE  Max(S) \in S /\ \A x \in S : Max(S) >= x
  <1> DEFINE T == {MaxInt - x : x \in S}
  <1>1. T \subseteq Nat /\ T # {}
    <2>1. \A x \in S : MaxInt - x \in Nat
      BY StoreAssumption DEF Numbers
    <2> QED  BY <2>1, Zenon
  <1>2. PICK m \in T : \A y \in T : <<y, m>> \notin OpToRel(<, Nat)
    <2> HIDE DEF T
    <2> QED  BY <1>1, NatLessThanWellFounded, WFMin, Zenon
  <1>3. \A a, b \in Nat : a < b => <<a, b>> \in OpToRel(<, Nat)
    BY DEF OpToRel
  <1>4. \A y \in T : ~(y < m)
    <2> HIDE DEF T
    <2> QED  BY <1>1, <1>2, <1>3, Zenon
  <1>5. PICK x \in S : m = MaxInt - x
    OBVIOUS
  <1>6. \A y \in S : ~(MaxInt - y < MaxInt - x)
    BY <1>4, <1>5, Zenon
  <1> HIDE DEF T
  <1>7. \A y \in S : x >= y
    BY <1>6, StoreAssumption DEF Numbers
  <1> QED  BY <1>7, Zenon DEF Max

(* The fold of Replay exists: there is a store for each prefix. *)
LEMMA FoldExists ==
    ASSUME NEW rs, Len(rs) \in Nat
    PROVE  \E g : g = [i \in 0..Len(rs) |->
                        IF i = 0 THEN with_defaults ELSE apply_record(g[i-1], rs[i])]
  <1> DEFINE IsFold(n, g) ==
                 g = [i \in 0..n |->
                        IF i = 0 THEN with_defaults ELSE apply_record(g[i-1], rs[i])]
             Bad == {n \in Nat : ~\E g : IsFold(n, g)}
  <1>1. \E g : IsFold(0, g)
    <2> DEFINE g == [i \in 0..0 |-> with_defaults]
    <2>1. IsFold(0, g)
      OBVIOUS
    <2> QED  BY <2>1, Zenon
  <1>2. ASSUME NEW n \in Nat, NEW g, IsFold(n, g)
        PROVE  \E h : IsFold(n + 1, h)
    <2> DEFINE h == [i \in 0..(n + 1) |->
                       IF i = 0 THEN with_defaults ELSE apply_record(g[i-1], rs[i])]
    <2>1. \A i \in 0..(n + 1) : i # 0 => h[i-1] = g[i-1]
      BY <1>2
    <2>2. IsFold(n + 1, h)
      BY <2>1, Zenon
    <2> QED  BY <2>2, Zenon
  <1> HIDE DEF IsFold
  <1>3. Bad = {}
    <2> SUFFICES ASSUME Bad # {} PROVE FALSE
      OBVIOUS
    <2>1. Bad \subseteq Nat
      OBVIOUS
    <2>2. PICK x \in Bad : \A y \in Bad : <<y, x>> \notin OpToRel(<, Nat)
      <3> HIDE DEF Bad
      <3> QED  BY <2>1, NatLessThanWellFounded, WFMin, Zenon
    <2>3. x \in Nat /\ x # 0 /\ ~\E g : IsFold(x, g)
      BY <1>1
    <2>4. x - 1 \in Nat /\ x - 1 < x /\ (x - 1) + 1 = x
      BY <2>3
    <2>5. <<x - 1, x>> \in OpToRel(<, Nat)
      BY <2>3, <2>4 DEF OpToRel
    <2>6. \E g : IsFold(x - 1, g)
      BY <2>2, <2>4, <2>5, Zenon
    <2>7. \E h : IsFold((x - 1) + 1, h)
      BY <1>2, <2>4, <2>6, Zenon
    <2> QED  BY <2>3, <2>4, <2>7
  <1>4. \E g : IsFold(Len(rs), g)
    BY <1>3, Zenon
  <1> QED  BY <1>4, Zenon DEF IsFold

(* The stores of the prefixes. *)
LEMMA ReplayFold ==
    ASSUME NEW rs, Len(rs) \in Nat
    PROVE  \E g : /\ g[0] = with_defaults
                  /\ \A n \in Nat : n < Len(rs) => g[n + 1] = apply_record(g[n], rs[n + 1])
                  /\ Replay(rs) = g[Len(rs)]
  <1> DEFINE g == CHOOSE g : g = [i \in 0..Len(rs) |->
                     IF i = 0 THEN with_defaults ELSE apply_record(g[i-1], rs[i])]
  <1>1. Replay(rs) = g[Len(rs)]
    BY Zenon DEF Replay
  <1>2. g = [i \in 0..Len(rs) |->
               IF i = 0 THEN with_defaults ELSE apply_record(g[i-1], rs[i])]
    BY FoldExists, Zenon
  <1> HIDE DEF g
  <1>3. g[0] = with_defaults
    BY <1>2
  <1>4. ASSUME NEW n \in Nat, n < Len(rs)
        PROVE  g[n + 1] = apply_record(g[n], rs[n + 1])
    <2>1. n + 1 \in 0..Len(rs) /\ n + 1 # 0 /\ (n + 1) - 1 = n
      BY <1>4
    <2>2. g[n + 1] = apply_record(g[(n + 1) - 1], rs[n + 1])
      BY <1>2, <2>1
    <2> QED  BY <2>1, <2>2
  <1> QED  BY <1>1, <1>3, <1>4, Zenon

(* A replayed store is faithful to the log; and where an id has one schema *)
(* it binds the ids as the log does.                                       *)
LEMMA ReplayGood ==
    ASSUME NEW rs, Len(rs) \in Nat, \A i \in 1..Len(rs) : rs[i] \in Records
    PROVE  PrefixGood(Replay(rs), rs, Len(rs))
  <1>1. PICK g : /\ g[0] = with_defaults
                 /\ \A n \in Nat : n < Len(rs) => g[n + 1] = apply_record(g[n], rs[n + 1])
                 /\ Replay(rs) = g[Len(rs)]
    BY ReplayFold, Zenon
  <1> DEFINE Bad == {n \in Nat : n <= Len(rs) /\ ~PrefixGood(g[n], rs, n)}
  <1>2. PrefixGood(g[0], rs, 0)
    BY <1>1, DefaultsFaithful, Zenon DEF PrefixGood
  <1>3. Bad = {}
    <2> SUFFICES ASSUME Bad # {} PROVE FALSE
      OBVIOUS
    <2>1. Bad \subseteq Nat
      OBVIOUS
    <2>2. PICK x \in Bad : \A y \in Bad : <<y, x>> \notin OpToRel(<, Nat)
      <3> HIDE DEF Bad
      <3> QED  BY <2>1, NatLessThanWellFounded, WFMin, Zenon
    <2>3. x \in Nat /\ x <= Len(rs) /\ ~PrefixGood(g[x], rs, x)
      OBVIOUS
    <2>4. x # 0
      BY <1>2, <2>3, Zenon
    <2>5. x - 1 \in Nat /\ x - 1 < Len(rs) /\ x - 1 <= Len(rs) /\ x - 1 < x /\ (x - 1) + 1 = x
      BY <2>3, <2>4
    <2>6. <<x - 1, x>> \in OpToRel(<, Nat)
      BY <2>3, <2>5 DEF OpToRel
    <2>7. PrefixGood(g[x - 1], rs, x - 1)
      BY <2>2, <2>5, <2>6, Zenon
    <2>8. g[(x - 1) + 1] = apply_record(g[x - 1], rs[(x - 1) + 1])
      BY <1>1, <2>5, Zenon
    <2>9. PrefixGood(g[(x - 1) + 1], rs, (x - 1) + 1)
      BY <2>5, <2>7, <2>8, PrefixStep, Zenon
    <2> QED  BY <2>3, <2>5, <2>9, Zenon
  <1>4. Len(rs) \in Nat /\ Len(rs) <= Len(rs)
    OBVIOUS
  <1>5. PrefixGood(g[Len(rs)], rs, Len(rs))
    BY <1>3, <1>4, Zenon
  <1> QED  BY <1>1, <1>5, Zenon

(* The hypotheses of Registry_steps. *)
LEMMA Inductions ==
    ASSUME LogShape, StoreShape
    PROVE  MinIn /\ MaxIn /\ CountsVersions /\ ReplayIsGood
  <1>1. MinIn /\ MaxIn
    BY MinFacts, MaxFacts, Zenon DEF MinIn, MaxIn
  <1>2. ASSUME NEW s \in Subjects PROVE Cardinality(Versions(store, s)) \in Nat
    <2>1. Versions(store, s) \in SUBSET Numbers
      BY StoreFacts, Zenon
    <2>2. IsFiniteSet(Numbers)
      BY FS_Interval, StoreAssumption DEF Numbers
    <2> QED  BY <2>1, <2>2, FS_Subset, FS_CardinalityType, Zenon
  <1>3. Len(log) \in Nat /\ \A i \in 1..Len(log) : log[i] \in Records
    BY DEF LogShape
  <1>4. ReplayIsGood
    BY <1>3, ReplayGood, Zenon DEF ReplayIsGood
  <1> QED  BY <1>1, <1>2, <1>4, Zenon DEF CountsVersions

-------------------------------------------------------------------------------
(* The steps. *)

(* Every operation is a sound one. *)
LEMMA StepCases ==
    ASSUME ShapeInv, RegistryNext
    PROVE  \/ \E r, rest : SoundOperation(r, rest)
           \/ WriteNext \/ Abandon \/ Compact \/ Restart \/ ResetToLogStart
  <1>1. StoreShape /\ load \in Loads /\ MinIn /\ MaxIn /\ CountsVersions
    BY Inductions, Zenon DEF ShapeInv
  <1>2. /\ \A m \in load.menu : m[1] \in Subjects /\ m[2] \in Schemas
        /\ \A m \in load.modes : m[1] \in Keys /\ m[2] \in AllModes
        /\ \A c \in load.levels : c[1] \in Keys /\ c[2] \in AllLevels
    BY <1>1, RegistryAssumption, ZenonT(30) DEF Keys
  <1>3. ASSUME NEW s \in Subjects, NEW schema \in Schemas, rest_register(s, schema)
        PROVE  \E r, rest : SoundOperation(r, rest)
    BY <1>1, <1>3, RegisterSound, ImportSound, Zenon DEF rest_register
  <1>4. ASSUME NEW s \in Subjects, rest_delete_version(s) \/ rest_delete_subject(s)
        PROVE  \E r, rest : SoundOperation(r, rest)
    BY <1>1, <1>4, SoftDeleteVersionSound, PermanentDeleteVersionSound,
       SoftDeleteSubjectSound, PermanentDeleteSubjectSound, Zenon
       DEF rest_delete_version, rest_delete_subject
  <1>5. ASSUME NEW s \in Subjects, rest_delete_config(s) \/ rest_delete_mode(s)
        PROVE  \E r, rest : SoundOperation(r, rest)
    <2>1. s \in Keys /\ s # NoSubject
      BY StoreAssumption DEF Keys
    <2>2. /\ Config(s, NoValue) \in Records /\ Config(s, NoValue).type = "CONFIG"
          /\ Config(s, NoValue).value = NoValue
          /\ Mode(s, NoValue) \in Records /\ Mode(s, NoValue).type = "MODE"
      BY <2>1, RecordTypes
    <2> QED  BY <1>5, <2>2, SettingSound, Zenon
             DEF rest_delete_config, DeleteSubjectCompat, rest_delete_mode, ClearSubjectMode
  <1>6. ASSUME NEW c \in load.levels, rest_put_config(c[1], c[2])
        PROVE  \E r, rest : SoundOperation(r, rest)
    <2>1. /\ Config(c[1], c[2]) \in Records /\ Config(c[1], c[2]).type = "CONFIG"
      BY <1>2, RecordTypes, StoreAssumption
    <2>2. load.levels # {}
      OBVIOUS
    <2> QED  BY <1>6, <2>1, <2>2, SettingSound, Zenon DEF rest_put_config, SetCompat
  <1>7. ASSUME NEW m \in load.modes, rest_put_mode(m[1], m[2])
        PROVE  \E r, rest : SoundOperation(r, rest)
    <2>1. /\ Mode(m[1], m[2]) \in Records /\ Mode(m[1], m[2]).type = "MODE"
      BY <1>2, RecordTypes
    <2>2. Operation(Mode(m[1], m[2]), <<>>)
      BY <1>7, Zenon DEF rest_put_mode, SetGlobalMode, SetSubjectMode
    <2> QED  BY <2>1, <2>2, SettingSound, Zenon
  <1>8. ASSUME Step
        PROVE  \/ \E r, rest : SoundOperation(r, rest)
               \/ WriteNext \/ Abandon \/ Compact \/ ResetToLogStart
    BY <1>2, <1>3, <1>4, <1>5, <1>6, <1>7, <1>8, Zenon DEF Step
  <1> QED  BY <1>1, <1>8, RegisterSound, Zenon DEF RegistryNext

(* A step of the handlers is one of the store, or leaves it alone. *)
LEMMA RestSteps ==
    ASSUME [RestNext]_restVars
    PROVE  RegistryNext \/ UNCHANGED vars
  <1>1. ASSUME ImportRegister PROVE RegistryNext \/ UNCHANGED vars
    BY <1>1, Zenon DEF ImportRegister, RegistryNext
  <1>2. ASSUME RestNext PROVE RegistryNext \/ UNCHANGED vars
    BY <1>1, <1>2, Zenon
       DEF RestNext, RegistryNext, ImportStart, ImportReferences, ImportAbandon
  <1>3. ASSUME UNCHANGED restVars PROVE UNCHANGED vars
    BY <1>3 DEF restVars, vars
  <1> QED  BY <1>2, <1>3, Zenon

(* The shape holds at the start. *)
LEMMA ShapeInit ==
    ASSUME RestInit
    PROVE  ShapeInv
  <1>1. /\ load \in Loads /\ log = <<>> /\ store = with_defaults /\ todo = <<>> /\ writes = 0
    BY Zenon DEF RestInit, Init
  <1>2. Len(log) = 0 /\ log \in Seq(Records) /\ DOMAIN log = {}
    BY <1>1
  <1>3. LogShape
    BY <1>2, Zenon DEF LogShape, HighWatersAscend, TombstonesCovered
  <1>4. StoreShape
    BY <1>1, <1>2, DefaultsFaithful, Zenon DEF StoreShape
  <1>5. TodoShape
    BY <1>1 DEF TodoShape
  <1>6. writes \in Nat
    BY <1>1
  <1> QED  BY <1>1, <1>3, <1>4, <1>5, <1>6, Zenon DEF ShapeInv

(* And is kept. *)
LEMMA ShapeNext ==
    ASSUME ShapeInv, RegistryNext \/ UNCHANGED vars
    PROVE  ShapeInv'
  <1>1. CASE UNCHANGED vars
    <2>1. load' = load /\ log' = log /\ store' = store /\ todo' = todo /\ writes' = writes
      BY <1>1 DEF vars
    <2> QED  BY <2>1, Zenon DEF ShapeInv, LogShape, StoreShape, TodoShape, TodoRecord
  <1>2. ASSUME Abandon PROVE ShapeInv'
    <2>1. load' = load /\ log' = log /\ store' = store /\ writes' = writes /\ todo' = <<>>
      BY <1>2, Zenon DEF Abandon
    <2>2. TodoShape'
      BY <2>1 DEF TodoShape
    <2> QED  BY <2>1, <2>2, Zenon DEF ShapeInv, LogShape, StoreShape
  <1>3. CASE RegistryNext
    <2>1. ReplayIsGood
      BY Inductions, Zenon DEF ShapeInv
    <2> QED
      BY <1>2, <1>3, <2>1, StepCases, OperationShape, WriteNextShape, CompactShape,
         RebuildShape, Zenon
  <1> QED  BY <1>1, <1>3, Zenon

(* What a step does to the store. *)
LEMMA StoreSteps ==
    ASSUME ShapeInv, RegistryNext
    PROVE  \/ \E r : RecordShape(r) /\ store' = apply_record(store, r)
           \/ store' = store
           \/ Agree(store, store')
  <1>1. \A r, rest : SoundOperation(r, rest) =>
           RecordShape(r) /\ store' = apply_record(store, r)
    BY Zenon DEF SoundOperation, Operation, Write
  <1>2. WriteNext => RecordShape(Head(todo)) /\ store' = apply_record(store, Head(todo))
    BY TodoSound, Zenon DEF WriteNext, Write, ShapeInv
  <1>3. (Abandon \/ Compact) => store' = store
    BY Zenon DEF Abandon, Compact
  <1>4. (Restart \/ ResetToLogStart) => Agree(store, store')
    BY Inductions, RebuildGood, Zenon DEF ShapeInv
  <1> QED  BY <1>1, <1>2, <1>3, <1>4, StepCases, Zenon

(* For every load: next versions never go back.  The inductive invariant   *)
(* is ShapeInv, of which it takes that high-water records ascend and cover *)
(* every tombstone, written or to be written.                              *)
THEOREM NextVersions ==
    RestSpec => NextVersionNeverDrops
  <1>1. RestInit => ShapeInv
    BY ShapeInit
  <1>2. ShapeInv /\ [RestNext]_restVars => ShapeInv'
    BY RestSteps, ShapeNext, Zenon
  <1>3. ShapeInv /\ [RestNext]_restVars =>
          [\A s \in Subjects : store'.nextVersions[s] >= store.nextVersions[s]]_vars
    <2> SUFFICES ASSUME ShapeInv, RegistryNext, NEW s \in Subjects
                 PROVE  store'.nextVersions[s] >= store.nextVersions[s]
      BY RestSteps, Zenon
    <2>1. StoreType(store) /\ store.nextVersions[s] \in Int
      BY StoreAssumption DEF ShapeInv, StoreShape, StoreType, Numbers
    <2>2. (store' = store \/ Agree(store, store')) =>
             store'.nextVersions[s] = store.nextVersions[s]
      BY Zenon DEF Agree
    <2>3. store.nextVersions[s] >= store.nextVersions[s]
      BY <2>1
    <2> QED  BY <2>1, <2>2, <2>3, StoreSteps, RecordKeeps, Zenon
  <1> QED  BY <1>1, <1>2, <1>3, PTL DEF RestSpec, NextVersionNeverDrops

(* For every load: the versions of a read-only subject stay as they are.   *)
(* What an operation has left to write is the subject's own mode last, so  *)
(* the subject does not become read-only before its tombstones are written *)
(* or given up.                                                            *)
THEOREM ReadOnly ==
    RestSpec => ReadOnlyUntouched
  <1>1. RestInit => ShapeInv
    BY ShapeInit
  <1>2. ShapeInv /\ [RestNext]_restVars => ShapeInv'
    BY RestSteps, ShapeNext, Zenon
  <1>3. ShapeInv /\ [RestNext]_restVars =>
          [\A s \in Subjects : effective_mode(store, s) = "READONLY" =>
              store'.subjects[s] = store.subjects[s]]_vars
    <2> SUFFICES ASSUME ShapeInv, RegistryNext, NEW s \in Subjects,
                        effective_mode(store, s) = "READONLY"
                 PROVE  store'.subjects[s] = store.subjects[s]
      BY RestSteps, Zenon
    <2>1. StoreType(store)
      BY Zenon DEF ShapeInv, StoreShape
    <2>2. (store' = store \/ Agree(store, store')) => store'.subjects[s] = store.subjects[s]
      BY Zenon DEF Agree
    <2> QED  BY <2>1, <2>2, StoreSteps, RecordKeeps, Zenon
  <1> QED  BY <1>1, <1>2, <1>3, PTL DEF RestSpec, ReadOnlyUntouched

-------------------------------------------------------------------------------
(* Ids, references and checks. *)

(* At the start. *)
LEMMA BindInit ==
    ASSUME RestInit
    PROVE  BindInv /\ PairInv
  <1>1. log = <<>> /\ store = with_defaults /\ todo = <<>>
    BY Zenon DEF RestInit, Init
  <1>2. Len(log) = 0 /\ Len(todo) = 0 /\ \A i : i \notin 1..0
    BY <1>1
  <1>3. /\ BindsAll(store, log, 0) /\ IdsBelow(store) /\ CanonicalSound(store)
        /\ CanonicalFinds(store, log, 0)
    BY <1>1, DefaultsFaithful, Zenon
  <1>4. /\ store.subjects = [s \in Subjects |-> EmptyMap]
        /\ store.compat = [s \in Keys |-> NoValue]
    BY <1>1 DEF with_defaults, Keys
  <1>5. \A s \in Subjects : LiveVersions(store, s) = {}
    BY <1>4 DEF LiveVersions, Versions, EmptyMap
  <1>6. \A k \in Keys : store.compat[k] = NoValue
    BY <1>4
  <1>7. LiveReferencesExist /\ LivePairsChecked
    BY <1>5, Zenon DEF LiveReferencesExist, LivePairsChecked
  <1> QED  BY <1>2, <1>3, <1>6, <1>7, Zenon DEF BindInv, PairInv

(* A step that leaves the store alone. *)
LEMMA BindSame ==
    ASSUME BindInv, PairInv, store' = store, load' = load, log' = log,
           todo' = todo \/ todo' = <<>>
    PROVE  BindInv' /\ PairInv'
  <1>1. PairInv'
    BY Zenon DEF PairInv, LivePairsChecked, check_pair
  <1>2. LiveReferencesExist'
    BY Zenon DEF BindInv, LiveReferencesExist
  <1>3. CASE todo' = todo
    BY <1>1, <1>2, <1>3, Zenon DEF BindInv
  <1>4. CASE todo' = <<>>
    <2>1. \A i : i \notin 1..Len(todo')
      BY <1>4
    <2> QED  BY <1>1, <1>2, <2>1, Zenon DEF BindInv
  <1> QED  BY <1>3, <1>4, Zenon

(* Through a step, when there is an id left. *)
LEMMA BindNext ==
    ASSUME ShapeInv, BindInv, PairInv, IdsLeft, RegistryNext \/ UNCHANGED vars
    PROVE  BindInv' /\ PairInv'
  <1>1. LogShape /\ StoreShape /\ TodoShape /\ ReplayIsGood
    BY Inductions, Zenon DEF ShapeInv
  <1>2. ASSUME UNCHANGED vars PROVE BindInv' /\ PairInv'
    <2>1. store' = store /\ load' = load /\ log' = log /\ todo' = todo
      BY <1>2 DEF vars
    <2> QED  BY <2>1, BindSame, Zenon
  <1>3. ASSUME NEW r, NEW rest, SoundOperation(r, rest) PROVE BindInv' /\ PairInv'
    <2>1. /\ r \in Records /\ RecordChecked(r) /\ ~Rebinds(store, r)
          /\ store' = apply_record(store, r) /\ load' = load
      BY <1>3, Zenon DEF SoundOperation, Operation, Write, RecordShape, RecordBinds
    <2> QED  BY <1>1, <1>3, <2>1, OperationBinds, PairsAfter, Zenon
  <1>4. ASSUME WriteNext PROVE BindInv' /\ PairInv'
    <2>1. PICK r : r = Head(todo)
      BY Zenon
    <2>2. store' = apply_record(store, r) /\ load' = load /\ todo # <<>>
      BY <1>4, <2>1, Zenon DEF WriteNext, Write
    <2>3. 1 \in 1..Len(todo) /\ r = todo[1]
      BY <1>1, <2>1, <2>2, TodoSound, ZenonT(30)
    <2>4. TodoRecord(r)
      BY <1>1, <2>3, Zenon DEF TodoShape
    <2>5. r \in Records /\ RecordChecked(r) /\ ~Rebinds(store, r)
      BY <2>4, TodoChecked, Zenon DEF TodoRecord
    <2> QED  BY <1>1, <1>4, <2>2, <2>5, WriteNextBinds, PairsAfter, Zenon
  <1>5. ASSUME Abandon PROVE BindInv' /\ PairInv'
    BY <1>5, BindSame, Zenon DEF Abandon
  <1>6. ASSUME Compact PROVE BindInv' /\ PairInv'
    <2>1. PairInv'
      BY <1>6, Zenon DEF Compact, PairInv, LivePairsChecked, check_pair
    <2> QED  BY <1>6, <2>1, CompactBinds, Zenon
  <1>7. ASSUME Restart \/ ResetToLogStart PROVE BindInv' /\ PairInv'
    <2>1. load' = load
      BY <1>7, Zenon DEF Restart, ResetToLogStart
    <2> QED  BY <1>1, <1>7, <2>1, RebuildBinds, PairsShown, Zenon
  <1> QED  BY <1>2, <1>3, <1>4, <1>5, <1>6, <1>7, StepCases, Zenon

(* The invariants hold for as long as there are ids left.  next_id adds    *)
(* one to max_id in i32: when it wraps, it gives an id that may be bound.  *)
LEMMA BindAlways ==
    RestSpec /\ []IdsLeft => [](ShapeInv /\ BindInv /\ PairInv)
  <1>1. RestInit => ShapeInv /\ BindInv /\ PairInv
    BY ShapeInit, BindInit, Zenon
  <1>2. (ShapeInv /\ BindInv /\ PairInv) /\ IdsLeft /\ [RestNext]_restVars
        => (ShapeInv /\ BindInv /\ PairInv)'
    BY RestSteps, ShapeNext, BindNext, Zenon
  <1> QED  BY <1>1, <1>2, PTL DEF RestSpec

(* For every load, while there are ids left: a store replayed from the log *)
(* shows what the live one shows, however the log was compacted and        *)
(* wherever an operation stopped.                                          *)
THEOREM Equivalence ==
    RestSpec /\ []IdsLeft => []ReplayEquivalence
  <1>1. ShapeInv /\ BindInv => ReplayEquivalence
    <2> SUFFICES ASSUME ShapeInv, BindInv PROVE ReplayEquivalence
      OBVIOUS
    <2> DEFINE st == Replay(log)
    <2>1. StoreShape /\ PrefixGood(st, log, Len(log))
      BY Inductions, Zenon DEF ShapeInv, ReplayIsGood
    <2> HIDE DEF st
    <2>2. Shows(store, st)
      BY <2>1, GoodShows, Zenon
    <2>3. /\ store.subjects = st.subjects /\ store.nextVersions = st.nextVersions
          /\ store.compat = st.compat /\ store.mode = st.mode
      BY <2>2, Zenon DEF Shows, Agree
    <2>4. \A s \in Subjects : Versions(store, s) = Versions(st, s)
      BY <2>3, Zenon DEF Versions
    <2>5. ASSUME NEW s \in Subjects
          PROVE  [v \in Versions(store, s) |-> SchemaOf(store, s, v)]
                   = [v \in Versions(st, s) |-> SchemaOf(st, s, v)]
      BY <2>2, <2>4 DEF Shows
    <2>6. [s \in Subjects |-> [v \in Versions(store, s) |-> SchemaOf(store, s, v)]]
            = [s \in Subjects |-> [v \in Versions(st, s) |-> SchemaOf(st, s, v)]]
      BY <2>5, Zenon
    <2>7. View(st) = View(store)
      BY <2>3, <2>6, Zenon DEF View
    <2> QED  BY <2>7, Zenon DEF ReplayEquivalence, st
  <1> QED  BY <1>1, BindAlways, PTL

(* For every load, while there are ids left: an id names a single schema. *)
THEOREM IdNamesOneSchema ==
    RestSpec /\ []IdsLeft => []IdBindsOneSchema
  <1>1. ShapeInv /\ BindInv => IdBindsOneSchema
    <2> SUFFICES ASSUME ShapeInv, BindInv PROVE IdBindsOneSchema
      OBVIOUS
    <2>1. DOMAIN log = 1..Len(log)
      BY DEF ShapeInv, LogShape
    <2> QED  BY <2>1, Zenon DEF IdBindsOneSchema, BindInv, BindsAll, HasSchema
  <1> QED  BY <1>1, BindAlways, PTL

(* For every load, while there are ids left: a live version refers only to *)
(* versions the store has.                                                 *)
THEOREM References ==
    RestSpec /\ []IdsLeft => []LiveReferencesExist
  <1>1. BindInv => LiveReferencesExist
    BY Zenon DEF BindInv
  <1> QED  BY <1>1, BindAlways, PTL

(* For every load that sets no level and imports no id, under a transitive *)
(* default level and while there are ids left: of two live versions one    *)
(* was checked against the other.                                          *)
THEOREM PairsChecked ==
    RestSpec /\ []IdsLeft => []LivePairsChecked
  <1>1. PairInv => LivePairsChecked
    BY Zenon DEF PairInv
  <1> QED  BY <1>1, BindAlways, PTL


-------------------------------------------------------------------------------
(* The reads. *)

(* An answer that is an error is not a 200. *)
LEMMA Answers ==
    /\ \A e \in {"SubjectNotFound", "VersionNotFound", "SchemaNotFound",
                 "SubjectModeNotConfigured", "ReferenceNotFound"} : Err(e).status # 200
    /\ \A b : Ok(b).status = 200 /\ Ok(b).code = 0 /\ Ok(b).body = b
  <1>1. /\ http_status("SubjectNotFound") = 404 /\ http_status("VersionNotFound") = 404
        /\ http_status("SchemaNotFound") = 404
        /\ http_status("SubjectModeNotConfigured") = 404
        /\ http_status("ReferenceNotFound") = 422
    BY DEF http_status
  <1>2. \A e : Err(e).status = http_status(e)
    BY DEF Err
  <1>3. \A e \in {"SubjectNotFound", "VersionNotFound", "SchemaNotFound",
                  "SubjectModeNotConfigured", "ReferenceNotFound"} : Err(e).status # 200
    BY <1>1, <1>2
  <1>4. \A b : Ok(b).status = 200 /\ Ok(b).code = 0 /\ Ok(b).body = b
    BY DEF Ok
  <1> QED  BY <1>3, <1>4

(* The answer with a version. *)
GotIs(got, s, v) ==
    /\ got = Ok([version |-> v, id |-> store.subjects[s][v].id,
                 schema |-> SchemaOf(store, s, v)])
    /\ got.status = 200 /\ got.body.version = v
    /\ got.body.id = store.subjects[s][v].id /\ got.body.schema = SchemaOf(store, s, v)

(* Its parts. *)
LEMMA OkVersion ==
    ASSUME NEW s, NEW v,
           NEW got, got = Ok([version |-> v, id |-> store.subjects[s][v].id,
                              schema |-> SchemaOf(store, s, v)])
    PROVE  GotIs(got, s, v)
  <1>1. PICK i, x : i = store.subjects[s][v].id /\ x = SchemaOf(store, s, v)
    BY Zenon
  <1>2. PICK b : b = [version |-> v, id |-> i, schema |-> x]
    BY Zenon
  <1>3. b.version = v /\ b.id = i /\ b.schema = x
    BY <1>2
  <1>4. got.status = 200 /\ got.body = b
    BY <1>1, <1>2, Zenon DEF Ok
  <1> QED  BY <1>1, <1>3, <1>4, Zenon DEF GotIs

(* And the one with a verdict. *)
LEMMA OkBoolean ==
    ASSUME NEW level, NEW new, NEW old, NEW got, got = Ok(check_pair(level, new, old))
    PROVE  got.body <=> check_pair(level, new, old)
  <1>1. got.body = check_pair(level, new, old)
    BY Zenon DEF Ok
  <1> QED  BY <1>1, Zenon

(* A version that is shown is got, and `latest` is the largest one. *)
LEMMA GotVersion ==
    ASSUME StoreShape, NEW s \in Subjects, NEW d \in BOOLEAN
    PROVE  /\ versions(s, d) \subseteq Versions(store, s) /\ versions(s, d) \subseteq Numbers
           /\ \A v \in versions(s, d) : GotIs(get_version(s, v, d), s, v)
           /\ versions(s, d) # {} =>
                 /\ Max(versions(s, d)) \in versions(s, d)
                 /\ get_version(s, Latest, d) = get_version(s, Max(versions(s, d)), d)
  <1>1. versions(s, d) \subseteq Versions(store, s)
    BY Zenon DEF versions, LiveVersions
  <1>2. versions(s, d) \subseteq Numbers
    BY <1>1, StoreFacts, Zenon
  <1>3. ASSUME NEW v \in versions(s, d)
        PROVE  version(s, v, d) = {v} /\ Max(version(s, v, d)) = v /\ version(s, v, d) # {}
    <2>1. v # Latest
      BY <1>2, <1>3, RestAssumption, Zenon DEF Numbers
    <2>2. version(s, v, d) = {v}
      BY <1>3, <2>1, ZenonT(30) DEF version
    <2>3. Max({v}) \in {v}
      BY <1>2, <1>3, MaxFacts, Zenon
    <2> QED  BY <2>2, <2>3, Zenon
  <1>4. ASSUME versions(s, d) # {}
        PROVE  /\ Max(versions(s, d)) \in versions(s, d)
               /\ version(s, Latest, d) = version(s, Max(versions(s, d)), d)
    <2>1. Max(versions(s, d)) \in versions(s, d)
      BY <1>2, <1>4, MaxFacts, Zenon
    <2>2. version(s, Latest, d) = {Max(versions(s, d))}
      BY <2>1 DEF version
    <2> QED  BY <1>3, <2>1, <2>2, Zenon
  <1>5. ASSUME NEW v \in versions(s, d)
        PROVE  GotIs(get_version(s, v, d), s, v)
    <2>1. get_version(s, v, d) = Ok([version |-> v, id |-> store.subjects[s][v].id,
                                     schema |-> SchemaOf(store, s, v)])
      BY <1>3, <1>5, Zenon DEF get_version
    <2> QED  BY <2>1, OkVersion, Zenon
  <1>6. ASSUME versions(s, d) # {}
        PROVE  get_version(s, Latest, d) = get_version(s, Max(versions(s, d)), d)
    BY <1>4, <1>6, Zenon DEF get_version
  <1> QED  BY <1>1, <1>2, <1>4, <1>5, <1>6, Zenon

(* The answer carries b. *)
Carries(got, b) == got.status = 200 /\ got.body = b

(* The level the configuration endpoints show is the one in force. *)
LEMMA ShownSettings ==
    ASSUME NEW s \in Subjects
    PROVE  ShownLevel(s) = effective_level(store, s) /\ ShownMode(s) = effective_mode(store, s)
  <1>1. s # NoSubject
    BY StoreAssumption
  <1>2. /\ get_config(NoSubject) = Ok(global_compat(store))
        /\ get_mode(NoSubject) = Ok(global_mode(store))
    BY Zenon DEF get_config, get_mode
  <1>3. /\ store.compat[s] = NoValue => get_config(s) = Err("SubjectNotFound")
        /\ store.compat[s] # NoValue => get_config(s) = Ok(store.compat[s])
        /\ store.mode[s] = NoValue => get_mode(s) = Err("SubjectModeNotConfigured")
        /\ store.mode[s] # NoValue => get_mode(s) = Ok(store.mode[s])
    BY <1>1, Zenon DEF get_config, get_mode
  <1>4. Err("SubjectNotFound").status # 200 /\ Err("SubjectModeNotConfigured").status # 200
    BY Answers, Zenon
  <1>5. \A b : Carries(Ok(b), b)
    BY Answers DEF Carries
  <1>6. ShownLevel(s) = effective_level(store, s)
    <2>1. CASE store.compat[s] = NoValue
      <3>1. get_config(s).status # 200
        BY <1>3, <1>4, <2>1, Zenon
      <3>2. Carries(get_config(NoSubject), global_compat(store))
        BY <1>2, <1>5, Zenon
      <3> QED  BY <2>1, <3>1, <3>2, Zenon DEF ShownLevel, effective_level, Carries
    <2>2. CASE store.compat[s] # NoValue
      <3>1. PICK b : b = store.compat[s]
        BY Zenon
      <3>2. get_config(s) = Ok(b)
        BY <1>3, <2>2, <3>1, Zenon
      <3>3. Carries(get_config(s), b)
        BY <1>5, <3>2, Zenon
      <3> QED  BY <2>2, <3>1, <3>3, Zenon DEF ShownLevel, effective_level, Carries
    <2> QED  BY <2>1, <2>2, Zenon
  <1>7. ShownMode(s) = effective_mode(store, s)
    <2>1. CASE store.mode[s] = NoValue
      <3>1. get_mode(s).status # 200
        BY <1>3, <1>4, <2>1, Zenon
      <3>2. Carries(get_mode(NoSubject), global_mode(store))
        BY <1>2, <1>5, Zenon
      <3> QED  BY <2>1, <3>1, <3>2, Zenon DEF ShownMode, effective_mode, Carries
    <2>2. CASE store.mode[s] # NoValue
      <3>1. PICK b : b = store.mode[s]
        BY Zenon
      <3>2. get_mode(s) = Ok(b)
        BY <1>3, <2>2, <3>1, Zenon
      <3>3. Carries(get_mode(s), b)
        BY <1>5, <3>2, Zenon
      <3> QED  BY <2>2, <3>1, <3>3, Zenon DEF ShownMode, effective_mode, Carries
    <2> QED  BY <2>1, <2>2, Zenon
  <1> QED  BY <1>6, <1>7, Zenon

(* For every load: POST /compatibility foretells a registration.  The      *)
(* shape of the store is all it takes: the versions are numbers, of which  *)
(* a non-empty set has a largest one.                                      *)
THEOREM Foretold ==
    RestSpec => []CheckForetellsRegister
  <1>1. RestInit => ShapeInv
    BY ShapeInit
  <1>2. ShapeInv /\ [RestNext]_restVars => ShapeInv'
    BY RestSteps, ShapeNext, Zenon
  <1>3. ShapeInv => CheckForetellsRegister
    <2> SUFFICES ASSUME ShapeInv, NEW s \in Subjects, NEW schema \in Schemas,
                        versions(s, FALSE) # {}, resolve_closure(store, Refs[schema])
                 PROVE  check_registration(store, s, schema) <=>
                          \A v \in (IF is_transitive(ShownLevel(s))
                                    THEN versions(s, FALSE) ELSE {Latest}) :
                              check(s, v, schema).body
      BY Zenon DEF CheckForetellsRegister
    <2> DEFINE level == effective_level(store, s)
               live  == LiveVersions(store, s)
               m     == Max(live)
    <2>1. StoreShape /\ versions(s, FALSE) = live /\ ShownLevel(s) = level
      BY ShownSettings, Zenon DEF ShapeInv, versions
    <2>2. ASSUME NEW v, get_version(s, v, FALSE).status = 200
          PROVE  check(s, v, schema).body
                   <=> check_pair(level, schema, get_version(s, v, FALSE).body.schema)
      <3>1. check(s, v, schema) =
               Ok(check_pair(level, schema, get_version(s, v, FALSE).body.schema))
        BY <2>2, Zenon DEF check
      <3> QED  BY <3>1, OkBoolean, Zenon
    <2>3. ASSUME NEW v \in live
          PROVE  check(s, v, schema).body <=> check_pair(level, schema, SchemaOf(store, s, v))
      <3>0. GotIs(get_version(s, v, FALSE), s, v)
        BY <2>1, <2>3, GotVersion, Zenon
      <3>1. /\ get_version(s, v, FALSE).status = 200
            /\ get_version(s, v, FALSE).body.schema = SchemaOf(store, s, v)
        BY <3>0, Zenon DEF GotIs
      <3>2. check(s, v, schema).body
              <=> check_pair(level, schema, get_version(s, v, FALSE).body.schema)
        BY <2>2, <3>1, Zenon
      <3> QED  BY <3>1, <3>2, Zenon
    <2>4. /\ m \in live
          /\ check(s, Latest, schema).body <=> check_pair(level, schema, SchemaOf(store, s, m))
      <3>1. m \in live /\ get_version(s, Latest, FALSE) = get_version(s, m, FALSE)
        BY <2>1, GotVersion, Zenon
      <3>4. GotIs(get_version(s, Latest, FALSE), s, m)
        BY <2>1, <3>1, GotVersion, Zenon
      <3>2. /\ get_version(s, Latest, FALSE).status = 200
            /\ get_version(s, Latest, FALSE).body.schema = SchemaOf(store, s, m)
        BY <3>4, Zenon DEF GotIs
      <3>3. check(s, Latest, schema).body
              <=> check_pair(level, schema, get_version(s, Latest, FALSE).body.schema)
        BY <2>2, <3>2, Zenon
      <3> QED  BY <3>1, <3>2, <3>3, Zenon
    <2>5. {v \in live : \A w \in live : w <= v} = {m}
      <3>1. live \subseteq Numbers
        BY <2>1, GotVersion, Zenon
      <3>2. \A w \in live : w <= m
        BY <2>1, <3>1, MaxFacts, ZenonT(30) DEF Numbers
      <3>3. \A v, w \in Numbers : v <= w /\ w <= v => v = w
        BY StoreAssumption DEF Numbers
      <3> QED  BY <2>4, <3>1, <3>2, <3>3, Zenon
    <2>6. CASE is_transitive(level)
      BY <2>1, <2>3, <2>6, Zenon DEF check_registration
    <2>7. CASE ~is_transitive(level)
      <3>1. check_registration(store, s, schema) <=>
               check_pair(level, schema, SchemaOf(store, s, m))
        BY <2>5, <2>7, Zenon DEF check_registration
      <3> QED  BY <2>1, <2>3, <2>4, <2>7, <3>1, Zenon
    <2> QED  BY <2>6, <2>7, Zenon
  <1> QED  BY <1>1, <1>2, <1>3, PTL DEF RestSpec


(* An id leads to the schema and back to the version. *)
LEMMA ReadById ==
    ASSUME StoreShape, NEW s \in Subjects, NEW d \in BOOLEAN, NEW v \in versions(s, d),
           NEW id, id = store.subjects[s][v].id
    PROVE  /\ <<s, v>> \in schema_id_subject_versions(id, d)
           /\ schema_by_id(id, d) = {SchemaOf(store, s, v)}
           /\ get_by_id(id, d) = Ok(SchemaOf(store, s, v))
           /\ <<s, v>> \in get_by_id_versions(id, d).body
           /\ s \in get_by_id_subjects(id, d).body
  <1>1. id \in DOMAIN store.byId /\ store.byId[id] = SchemaOf(store, s, v)
    BY GotVersion, StoreFacts, Zenon DEF SchemaOf
  <1> DEFINE pairs == schema_id_subject_versions(id, d)
  <1>2. <<s, v>> \in pairs
    <2>1. <<s, v>> \in UNION {{<<t, w>> : w \in versions(t, d)} : t \in Subjects}
      <3>1. <<s, v>> \in {<<s, w>> : w \in versions(s, d)}
        BY Zenon
      <3>2. {<<s, w>> : w \in versions(s, d)}
               \in {{<<t, w>> : w \in versions(t, d)} : t \in Subjects}
        BY Zenon
      <3> QED  BY <3>1, <3>2, Zenon
    <2>2. <<s, v>>[1] = s /\ <<s, v>>[2] = v
      OBVIOUS
    <2> QED  BY <2>1, <2>2, Zenon DEF schema_id_subject_versions
  <1> HIDE DEF pairs
  <1>3. schema_by_id(id, d) = {SchemaOf(store, s, v)}
    BY <1>1, <1>2, Zenon DEF schema_by_id, pairs
  <1>4. get_by_id(id, d) = Ok(SchemaOf(store, s, v))
    <2>1. PICK x : x = SchemaOf(store, s, v)
      BY Zenon
    <2>2. (CHOOSE y \in {x} : TRUE) = x
      BY Zenon
    <2>3. {x} # {}
      BY Zenon
    <2> QED  BY <1>3, <2>1, <2>2, <2>3, Zenon DEF get_by_id
  <1>5. get_by_id_versions(id, d) = Ok(pairs)
    BY <1>2, Zenon DEF get_by_id_versions, pairs
  <1>6. get_by_id_subjects(id, d) = Ok({p[1] : p \in pairs})
    BY <1>2, Zenon DEF get_by_id_subjects, pairs
  <1>7. s \in {p[1] : p \in pairs}
    <2>1. s = <<s, v>>[1]
      OBVIOUS
    <2> QED  BY <1>2, <2>1, Zenon
  <1>8. \A b : Ok(b).body = b
    BY Answers
  <1>9. <<s, v>> \in get_by_id_versions(id, d).body /\ s \in get_by_id_subjects(id, d).body
    BY <1>2, <1>5, <1>6, <1>7, <1>8, Zenon
  <1> QED  BY <1>2, <1>3, <1>4, <1>9, Zenon DEF pairs

(* An id is unknown to all the endpoints, or to none. *)
LEMMA KnownId ==
    ASSUME NEW id \in DOMAIN store.byId, NEW d
    PROVE  get_by_id(id, d).code = get_by_id_versions(id, d).code
  <1>1. CASE schema_id_subject_versions(id, d) = {}
    <2>1. schema_by_id(id, d) = {}
      BY <1>1, Zenon DEF schema_by_id
    <2> QED  BY <1>1, <2>1, Zenon DEF get_by_id, get_by_id_versions
  <1>2. CASE schema_id_subject_versions(id, d) # {}
    <2>1. schema_by_id(id, d) # {}
      BY <1>2, Zenon DEF schema_by_id
    <2>2. \A b : Ok(b).code = 0
      BY Answers
    <2> QED  BY <1>2, <2>1, <2>2, Zenon DEF get_by_id, get_by_id_versions
  <1> QED  BY <1>1, <1>2, Zenon

(* The entries of a listing. *)
ListEntry(s, v) ==
    [subject |-> s, version |-> v, id |-> store.subjects[s][v].id,
     schema |-> SchemaOf(store, s, v)]

(* A listing has an entry for each version. *)
LEMMA ListFacts ==
    ASSUME NEW d
    PROVE  /\ \A r \in list_schemas(d) :
                 \E s \in Subjects : \E v \in versions(s, d) : r = ListEntry(s, v)
           /\ \A s \in Subjects : \A v \in versions(s, d) : ListEntry(s, v) \in list_schemas(d)
           /\ \A s, v : /\ ListEntry(s, v).subject = s /\ ListEntry(s, v).version = v
                        /\ ListEntry(s, v).schema = SchemaOf(store, s, v)
  <1>1. \A s, v, i, x : LET r == [subject |-> s, version |-> v, id |-> i, schema |-> x]
                        IN  r.subject = s /\ r.version = v /\ r.schema = x
    OBVIOUS
  <1>2. list_schemas(d) = UNION {{ListEntry(s, v) : v \in versions(s, d)} : s \in Subjects}
    BY Zenon DEF list_schemas, ListEntry
  <1>3. \A s, v : /\ ListEntry(s, v).subject = s /\ ListEntry(s, v).version = v
                 /\ ListEntry(s, v).schema = SchemaOf(store, s, v)
    BY <1>1, Zenon DEF ListEntry
  <1>4. ASSUME NEW r \in list_schemas(d)
        PROVE  \E s \in Subjects : \E v \in versions(s, d) : r = ListEntry(s, v)
    <2>1. PICK E \in {{ListEntry(s, v) : v \in versions(s, d)} : s \in Subjects} : r \in E
      BY <1>2, <1>4, Zenon
    <2>2. PICK s \in Subjects : E = {ListEntry(s, v) : v \in versions(s, d)}
      BY <2>1, Zenon
    <2>3. \E v \in versions(s, d) : r = ListEntry(s, v)
      BY <2>1, <2>2, Zenon
    <2> QED  BY <2>3, Zenon
  <1>5. ASSUME NEW s \in Subjects, NEW v \in versions(s, d)
        PROVE  ListEntry(s, v) \in list_schemas(d)
    <2>1. ListEntry(s, v) \in {ListEntry(s, w) : w \in versions(s, d)}
      BY <1>5, Zenon
    <2>2. {ListEntry(s, w) : w \in versions(s, d)}
             \in {{ListEntry(t, w) : w \in versions(t, d)} : t \in Subjects}
      BY Zenon
    <2> QED  BY <1>2, <2>1, <2>2, Zenon
  <1> QED  BY <1>3, <1>4, <1>5, Zenon

(* A version that no entry of the live listing refers to may be deleted. *)
LEMMA ReadReferences ==
    ASSUME StoreShape, NEW s \in Subjects, NEW v \in Versions(store, s)
    PROVE  referencedby(s, v).body = {} <=> ~referenced_by(store, s, v)
  <1> DEFINE found == {q \in list_schemas(FALSE) : <<s, v>> \in Refs[q.schema]}
  <1>1. v \in versions(s, TRUE) /\ \A t : versions(t, FALSE) = LiveVersions(store, t)
    BY Zenon DEF versions
  <1>2. GotIs(get_version(s, v, TRUE), s, v)
    BY <1>1, GotVersion, Zenon
  <1>3. get_version(s, v, TRUE).status = 200 /\ get_version(s, v, TRUE).body.version = v
    BY <1>2, Zenon DEF GotIs
  <1>4. referencedby(s, v) = Ok({r.id : r \in found})
    BY <1>3, Zenon DEF referencedby
  <1>5. found # {} <=> referenced_by(store, s, v)
    <2>1. ASSUME NEW q \in found PROVE referenced_by(store, s, v)
      <3>1. q \in list_schemas(FALSE) /\ <<s, v>> \in Refs[q.schema]
        BY <2>1, Zenon
      <3>5. \E t \in Subjects : \E w \in versions(t, FALSE) : q = ListEntry(t, w)
        BY <3>1, ListFacts, Zenon
      <3>4. PICK t \in Subjects : \E w \in LiveVersions(store, t) : q = ListEntry(t, w)
        BY <1>1, <3>5, Zenon
      <3>2. PICK w \in LiveVersions(store, t) : q = ListEntry(t, w)
        BY <3>4, Zenon
      <3>3. <<s, v>> \in Refs[SchemaOf(store, t, w)]
        BY <3>1, <3>2, ListFacts, Zenon
      <3> QED  BY <3>3, Zenon DEF referenced_by
    <2>2. ASSUME referenced_by(store, s, v) PROVE found # {}
      <3>4. PICK t \in Subjects : \E w \in LiveVersions(store, t) :
               <<s, v>> \in Refs[SchemaOf(store, t, w)]
        BY <2>2, Zenon DEF referenced_by
      <3>1. PICK w \in LiveVersions(store, t) : <<s, v>> \in Refs[SchemaOf(store, t, w)]
        BY <3>4, Zenon
      <3>2. ListEntry(t, w) \in list_schemas(FALSE)
        BY <1>1, ListFacts, Zenon
      <3>3. <<s, v>> \in Refs[ListEntry(t, w).schema]
        BY <3>1, ListFacts, Zenon
      <3> QED  BY <3>2, <3>3, Zenon
    <2> HIDE DEF found
    <2> QED  BY <2>1, <2>2, Zenon
  <1> HIDE DEF found
  <1>6. referencedby(s, v).body = {r.id : r \in found}
    BY <1>4, Answers
  <1>7. {r.id : r \in found} = {} <=> found = {}
    BY Zenon
  <1> QED  BY <1>5, <1>6, <1>7, Zenon


(* A lookup by schema names a version that has the schema: the canonical   *)
(* index leads to an id of this very schema.                               *)
LEMMA ReadLookup ==
    ASSUME StoreShape, CanonicalSound(store), NEW s \in Subjects, NEW d \in BOOLEAN,
           NEW schema \in Schemas, lookup(s, schema, d).status = 200
    PROVE  /\ get_version(s, lookup(s, schema, d).body.version, d) = lookup(s, schema, d)
           /\ get_version_schema(s, lookup(s, schema, d).body.version, d) = Ok(schema)
  <1> DEFINE found == {v \in find_under_subject(store, s, schema, d) :
                         resolve_closure(store, Refs[schema])}
             m  == Min(found)
             id == store.subjects[s][m].id
  <1>1. found \subseteq versions(s, d) /\ versions(s, d) \subseteq Numbers
    <2>1. found \subseteq versions(s, d)
      BY Zenon DEF find_under_subject, versions
    <2> QED  BY <2>1, GotVersion, Zenon
  <1>2. /\ Err("SubjectNotFound").status # 200 /\ Err("SchemaNotFound").status # 200
        /\ \A b : Ok(b).body = b
    BY Answers
  <1>3. /\ versions(s, d) = {} => lookup(s, schema, d) = Err("SubjectNotFound")
        /\ (versions(s, d) # {} /\ found = {}) => lookup(s, schema, d) = Err("SchemaNotFound")
        /\ (versions(s, d) # {} /\ found # {}) =>
              lookup(s, schema, d) =
                IF schema_by_id(id, d) = {} THEN Err("SchemaNotFound")
                ELSE Ok([version |-> m, id |-> id,
                         schema |-> CHOOSE x \in schema_by_id(id, d) : TRUE])
    BY Zenon DEF lookup
  <1>4. found # {}
    BY <1>2, <1>3, Zenon
  <1>5. m \in found
    <2> HIDE DEF found
    <2> QED  BY <1>1, <1>4, MinFacts, Zenon
  <1>6. m \in versions(s, d) /\ schema \in DOMAIN store.byCanonical
        /\ id = store.byCanonical[schema]
    BY <1>1, <1>5, Zenon DEF find_under_subject
  <1> HIDE DEF found, m
  <1>7. SchemaOf(store, s, m) = schema
    <2>1. store.byId[id] = schema
      BY <1>6 DEF CanonicalSound
    <2> QED  BY <2>1, Zenon DEF SchemaOf
  <1>8. schema_by_id(id, d) = {SchemaOf(store, s, m)} /\ versions(s, d) # {}
    <2>1. PICK i : i = store.subjects[s][m].id
      OBVIOUS
    <2>2. schema_by_id(i, d) = {SchemaOf(store, s, m)}
      BY <1>6, <2>1, ReadById, Zenon
    <2> QED  BY <1>6, <2>1, <2>2, Zenon
  <1>9. lookup(s, schema, d) = Ok([version |-> m, id |-> id, schema |-> SchemaOf(store, s, m)])
    <2>1. PICK x : x = SchemaOf(store, s, m)
      BY Zenon
    <2>2. (CHOOSE y \in {x} : TRUE) = x /\ {x} # {}
      BY Zenon
    <2> QED  BY <1>3, <1>4, <1>8, <2>1, <2>2, Zenon
  <1>10. GotIs(lookup(s, schema, d), s, m) /\ GotIs(get_version(s, m, d), s, m)
    BY <1>6, <1>9, OkVersion, GotVersion, Zenon
  <1>11. /\ lookup(s, schema, d).body.version = m
         /\ get_version(s, m, d) = lookup(s, schema, d)
         /\ get_version(s, m, d).status = 200 /\ get_version(s, m, d).body.schema = schema
    BY <1>7, <1>10, Zenon DEF GotIs
  <1>12. get_version_schema(s, m, d) = Ok(schema)
    BY <1>11, Zenon DEF get_version_schema
  <1> QED  BY <1>11, <1>12, Zenon

(* No id was imported and the schema of the version refers to nothing. *)
Findable(s, v, schema) ==
    load.ids = {} /\ schema = SchemaOf(store, s, v) /\ Refs[schema] = {}
Finds(s, schema, d) == ~d => lookup(s, schema, d).status = 200

(* Then a lookup of the schema of a live version finds one. *)
LEMMA LookupFinds ==
    ASSUME StoreShape, BindInv, NEW d \in BOOLEAN, NEW s \in Subjects,
           NEW v \in versions(s, d), NEW schema, Findable(s, v, schema)
    PROVE  Finds(s, schema, d)
  <1> SUFFICES ASSUME ~d PROVE lookup(s, schema, d).status = 200
    BY Zenon DEF Finds
  <1> DEFINE found == {w \in find_under_subject(store, s, schema, d) :
                         resolve_closure(store, Refs[schema])}
             m  == Min(found)
  <1>10. PICK id : id = store.subjects[s][m].id
    BY Zenon
  <1>1. v \in LiveVersions(store, s) /\ v \in Versions(store, s)
    BY Zenon DEF versions, LiveVersions
  <1>2. schema \in DOMAIN store.byCanonical /\ store.subjects[s][v].id = store.byCanonical[schema]
    <2>1. PICK i \in 1..Len(log) : EntryOf(store, log, Len(log), i, s, v)
      BY <1>1, EntryRecord, Zenon DEF StoreShape, Faithful
    <2>2. /\ HasSchema(log[i]) /\ log[i].value.id = store.subjects[s][v].id
          /\ log[i].value.schema = schema
      BY <2>1, Zenon DEF EntryOf, BindInv, BindsAll, SchemaOf, Findable
    <2>3. CanonicalFinds(store, log, Len(log))
      BY Zenon DEF BindInv, Findable
    <2> QED  BY <2>2, <2>3, Zenon DEF CanonicalFinds, Findable
  <1>3. resolve_closure(store, Refs[schema])
    BY Zenon DEF resolve_closure, Findable
  <1>4. v \in found
    BY <1>1, <1>2, <1>3, Zenon DEF find_under_subject
  <1>5. found \subseteq versions(s, d) /\ versions(s, d) \subseteq Numbers
    <2>1. found \subseteq versions(s, d)
      BY Zenon DEF find_under_subject, versions
    <2> QED  BY <2>1, GotVersion, Zenon
  <1>6. m \in versions(s, d)
    <2> HIDE DEF found
    <2>1. m \in found
      BY <1>4, <1>5, MinFacts, Zenon
    <2> QED  BY <1>5, <2>1, Zenon
  <1>7. schema_by_id(id, d) # {} /\ versions(s, d) # {} /\ found # {}
    <2> HIDE DEF found, m
    <2>1. schema_by_id(id, d) = {SchemaOf(store, s, m)}
      BY <1>6, <1>10, ReadById, Zenon
    <2> QED  BY <1>4, <1>6, <2>1, Zenon
  <1>8. lookup(s, schema, d) = Ok([version |-> m, id |-> id,
                                       schema |-> CHOOSE x \in schema_by_id(id, d) : TRUE])
    BY <1>7, <1>10, Zenon DEF lookup
  <1> HIDE DEF m
  <1>9. lookup(s, schema, d).status = 200
    <2>1. PICK b : b = [version |-> m, id |-> id,
                        schema |-> CHOOSE x \in schema_by_id(id, d) : TRUE]
      BY Zenon
    <2>2. Ok(b).status = 200
      BY Answers
    <2> QED  BY <1>8, <2>1, <2>2, Zenon
  <1> QED  BY <1>9, Zenon


(* For every load, while there are ids left: the endpoints agree.  It      *)
(* takes that ids name one schema, that the canonical index leads to an id *)
(* of the schema, and that the schemas without references are in it.       *)
THEOREM Agreement ==
    RestSpec /\ []IdsLeft => []ReadsAgree
  <1>1. ShapeInv /\ BindInv => ReadsAgree
    <2> SUFFICES ASSUME ShapeInv, BindInv, NEW d \in BOOLEAN, NEW s \in Subjects
                 PROVE  /\ \A id \in DOMAIN store.byId :
                              get_by_id(id, d).code = get_by_id_versions(id, d).code
                        /\ ensure_writable(s) <=> ShownMode(s) # "READONLY"
                        /\ s \in list(d) <=> list_versions(s, d).status = 200
                        /\ \A v \in versions(s, d) : VersionAgrees(s, v, d)
                        /\ \A schema \in Schemas : LookupAgrees(s, schema, d)
      BY Zenon DEF ReadsAgree
    <2>1. StoreShape /\ CanonicalSound(store)
      BY Zenon DEF ShapeInv, BindInv
    <2>2. \A id \in DOMAIN store.byId :
             get_by_id(id, d).code = get_by_id_versions(id, d).code
      BY KnownId, Zenon
    <2>3. ensure_writable(s) <=> ShownMode(s) # "READONLY"
      BY ShownSettings, Zenon DEF ensure_writable
    <2>4. s \in list(d) <=> list_versions(s, d).status = 200
      <3>1. s \in list(d) <=> versions(s, d) # {}
        BY Zenon DEF list
      <3>2. Err("SubjectNotFound").status # 200 /\ Ok(versions(s, d)).status = 200
        BY Answers
      <3> QED  BY <3>1, <3>2, Zenon DEF list_versions
    <2>5. ASSUME NEW v \in versions(s, d) PROVE VersionAgrees(s, v, d)
      <3>1. PICK id, schema : id = store.subjects[s][v].id /\ schema = SchemaOf(store, s, v)
        BY Zenon
      <3>2. GotIs(get_version(s, v, d), s, v) /\ v \in Versions(store, s)
        BY <2>1, <2>5, GotVersion, Zenon
      <3>3. get_version(s, v, d).body.id = id /\ get_version(s, v, d).body.schema = schema
        BY <3>1, <3>2, Zenon DEF GotIs
      <3>4. /\ get_by_id(id, d) = Ok(schema)
            /\ <<s, v>> \in get_by_id_versions(id, d).body
            /\ s \in get_by_id_subjects(id, d).body
        <4>1. /\ get_by_id(id, d) = Ok(SchemaOf(store, s, v))
              /\ <<s, v>> \in get_by_id_versions(id, d).body
              /\ s \in get_by_id_subjects(id, d).body
          BY <2>1, <2>5, <3>1, ReadById, Zenon
        <4> QED  BY <3>1, <4>1, Zenon
      <3>5. ~d => get_by_id_schema(id) = Ok(schema)
        BY <3>4, Zenon DEF get_by_id_schema
      <3>6. \E r \in list_schemas(d) : r.subject = s /\ r.version = v /\ r.schema = schema
        BY <2>5, <3>1, ListFacts, Zenon
      <3>7. referencedby(s, v).body = {} <=> ~referenced_by(store, s, v)
        BY <2>1, <3>2, ReadReferences, Zenon
      <3>8. (~d /\ load.ids = {} /\ Refs[schema] = {}) => lookup(s, schema, d).status = 200
        <4>1. Findable(s, v, schema) => Finds(s, schema, d)
          BY <2>1, <2>5, LookupFinds, Zenon
        <4> QED  BY <3>1, <4>1, Zenon DEF Findable, Finds
      <3> QED  BY <3>3, <3>4, <3>5, <3>6, <3>7, <3>8, Zenon DEF VersionAgrees
    <2>6. ASSUME NEW schema \in Schemas PROVE LookupAgrees(s, schema, d)
      BY <2>1, <2>6, ReadLookup, Zenon DEF LookupAgrees
    <2> QED  BY <2>2, <2>3, <2>4, <2>5, <2>6, Zenon
  <1> QED  BY <1>1, BindAlways, PTL

===============================================================================
