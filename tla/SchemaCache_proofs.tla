-------------------------- MODULE SchemaCache_proofs --------------------------
(***************************************************************************)
(* Theorems about the client's schema cache, for any subjects, schemas,    *)
(* other clients and bounds: the id in a frame names the schema the record *)
(* was encoded with, the cache maps ids to the schemas they name, and a    *)
(* client of the primary gives no id up.                                   *)
(*                                                                         *)
(* What is to be shown first is that ids are names: a schema keeps its id  *)
(* when others are registered, and no other schema has it.                 *)
(***************************************************************************)
EXTENDS SchemaCache, FiniteSetTheorems, SequenceTheorems, WellFoundedInduction, TLAPS

(* What is ever registered. *)
Pairs == {<<s, Local[s]>> : s \in Subjects} \cup {<<p[1], p[2]>> : p \in Foreign}

(* `id` is that of a registered schema. *)
IsIdOf(id, schema) == schema \in SchemasOf(reg) /\ IdOf(reg, schema) = id

Statuses == {Asked, Found, Transport, 429} \cup {http_status(e) : e \in {"SchemaNotFound", "Backend"}}

RegistryInv ==
    /\ reg \in Seq(Pairs)
    /\ applied \in 0..Len(reg)
    /\ node = "primary" => applied = Len(reg)

(* What the process holds about ids is what the registry binds to them:    *)
(* in the frames, in the cache, between two calls of pre-warm, and for the *)
(* fetches under way.                                                      *)
FramesInv   == /\ topic \in Seq([id : Nat, schema : {p[2] : p \in Pairs}])
               /\ \A i \in DOMAIN topic : IsIdOf(topic[i].id, topic[i].schema)
WritersInv  == \A id \in DOMAIN id_writer_schema : IsIdOf(id, id_writer_schema[id])
SubjectsInv == \A s \in DOMAIN subject_id : IsIdOf(subject_id[s], Local[s])
PrewarmInv  == /\ mode \in Modes /\ todo \in Seq(Subjects)
               /\ got # NoId => todo # << >> /\ IsIdOf(got, Local[Head(todo)])
FlightInv   == \A id \in DOMAIN flight : \E schema \in SchemasOf(reg) : IsIdOf(id, schema)

(* The primary never answers a fetch with 404. *)
FetchInv ==
    /\ flight \in [DOMAIN flight -> Statuses]
    /\ node = "primary" => /\ unavailable = {}
                           /\ \A id \in DOMAIN flight : flight[id] # http_status("SchemaNotFound")

CacheInv ==
    /\ RegistryInv /\ FramesInv /\ WritersInv /\ SubjectsInv /\ PrewarmInv /\ FlightInv /\ FetchInv
    /\ next \in Nat \ {0}

-------------------------------------------------------------------------------
(* Ids. *)

(* The order by which numbers are well-founded. *)
LEMMA NatOrder == \A x, y \in Nat : x < y => <<x, y>> \in OpToRel(<, Nat)
  BY DEF OpToRel

(* A registered schema has a first pair. *)
LEMMA FirstFacts ==
    ASSUME NEW T, NEW q \in Seq(T), NEW a \in SchemasOf(q)
    PROVE  /\ First(q, a) \in 1..Len(q)
           /\ q[First(q, a)][2] = a
           /\ \A j \in 1..(First(q, a) - 1) : q[j][2] # a
  <1> DEFINE At == {i \in 1..Len(q) : q[i][2] = a}
  <1>1. At \subseteq Nat /\ At # {} /\ DOMAIN q = 1..Len(q)
    BY DEF SchemasOf
  <1>2. PICK m \in At : \A y \in At : <<y, m>> \notin OpToRel(<, Nat)
    <2> HIDE DEF At
    <2> QED  BY <1>1, NatLessThanWellFounded, WFMin, Zenon
  <1>3. \A y \in At : ~(y < m)
    <2> HIDE DEF At
    <2> QED  BY <1>1, <1>2, NatOrder, Zenon
  <1>4. m \in DOMAIN q /\ q[m][2] = a /\ \A j \in 1..(m - 1) : q[j][2] # a
    BY <1>1, <1>3
  <1> QED  BY <1>1, <1>4, Zenon DEF First

(* The first pair is the only one before which the schema is not found.    *)
LEMMA FirstUnique ==
    ASSUME NEW T, NEW q \in Seq(T), NEW a, NEW m \in 1..Len(q), q[m][2] = a,
           \A j \in 1..(m - 1) : q[j][2] # a
    PROVE  First(q, a) = m
  <1>1. a \in SchemasOf(q)
    BY DEF SchemasOf
  <1>2. /\ First(q, a) \in 1..Len(q) /\ q[First(q, a)][2] = a
        /\ \A j \in 1..(First(q, a) - 1) : q[j][2] # a
    BY <1>1, FirstFacts, Zenon
  <1> QED  BY <1>2

(* Sequences that agree up to n have the same schemas there. *)
LEMMA SameSchemas ==
    ASSUME NEW q, NEW r, NEW D, \A i \in D : q[i] = r[i]
    PROVE  {q[i][2] : i \in D} = {r[i][2] : i \in D}
  OBVIOUS

(* The schemas of the first n pairs. *)
LEMMA Prefix ==
    ASSUME NEW T, NEW q \in Seq(T), NEW n \in 0..Len(q)
    PROVE  /\ SchemasOf(SubSeq(q, 1, n)) = {q[i][2] : i \in 1..n}
           /\ IsFiniteSet(SchemasOf(SubSeq(q, 1, n)))
  <1> DEFINE s == SubSeq(q, 1, n)
             f == [i \in 1..n |-> q[i][2]]
  <1>1. DOMAIN s = 1..n /\ \A i \in 1..n : s[i] = q[i]
    OBVIOUS
  <1>2. SchemasOf(s) = {q[i][2] : i \in 1..n}
    <2> HIDE DEF s
    <2>1. {s[i][2] : i \in 1..n} = {q[i][2] : i \in 1..n}
      BY <1>1, SameSchemas
    <2> QED  BY <1>1, <2>1, Zenon DEF SchemasOf
  <1>3. f \in Surjection(1..n, {q[i][2] : i \in 1..n})
    BY DEF Surjection
  <1>4. IsFiniteSet(1..n)
    BY FS_Interval
  <1>5. IsFiniteSet({q[i][2] : i \in 1..n})
    <2> HIDE DEF f
    <2>1. PICK R, D : R = {q[i][2] : i \in 1..n} /\ D = 1..n
      BY Zenon
    <2>2. f \in Surjection(D, R) /\ IsFiniteSet(D)
      BY <1>3, <1>4, <2>1, Zenon
    <2> QED  BY <2>1, <2>2, FS_Surjection, Zenon
  <1> QED  BY <1>2, <1>5, Zenon

(* Two schemas have two ids: the later one counts more schemas. *)
LEMMA IdsDiffer ==
    ASSUME NEW T, NEW q \in Seq(T), NEW a \in SchemasOf(q), NEW b \in SchemasOf(q),
           First(q, a) <= First(q, b), IdOf(q, a) = IdOf(q, b)
    PROVE  a = b
  <1>1. PICK m, n : m = First(q, a) /\ n = First(q, b)
    OBVIOUS
  <1>2. /\ m \in 1..Len(q) /\ q[m][2] = a
        /\ n \in 1..Len(q) /\ q[n][2] = b /\ \A j \in 1..(n - 1) : q[j][2] # b
    BY <1>1, FirstFacts, Zenon
  <1>3. m \in 0..Len(q) /\ n \in 0..Len(q) /\ m <= n
    BY <1>1, <1>2
  <1>4. PICK A, B : A = SchemasOf(SubSeq(q, 1, m)) /\ B = SchemasOf(SubSeq(q, 1, n))
    OBVIOUS
  <1>5. /\ A = {q[i][2] : i \in 1..m} /\ B = {q[i][2] : i \in 1..n}
        /\ IsFiniteSet(A) /\ IsFiniteSet(B)
    BY <1>3, <1>4, Prefix, Zenon
  <1>6. 1..m \subseteq 1..n /\ n \in 1..n
    BY <1>2, <1>3
  <1>7. A \subseteq B /\ b \in B
    BY <1>2, <1>5, <1>6, Zenon
  <1>8. Cardinality(A) = Cardinality(B)
    BY <1>1, <1>4, Zenon DEF IdOf
  <1>9. A = B
    BY <1>5, <1>7, <1>8, FS_Subset, Zenon
  <1>10. PICK i \in 1..m : q[i][2] = b
    BY <1>5, <1>7, <1>9, Zenon
  <1>11. i = n /\ m = n
    BY <1>2, <1>3, <1>10
  <1> QED  BY <1>2, <1>11, Zenon

(* An id is a positive number. *)
LEMMA IdPositive ==
    ASSUME NEW T, NEW q \in Seq(T), NEW a \in SchemasOf(q)
    PROVE  IdOf(q, a) \in Nat /\ IdOf(q, a) # 0
  <1>1. PICK m : m = First(q, a)
    OBVIOUS
  <1>2. m \in 1..Len(q) /\ q[m][2] = a
    BY <1>1, FirstFacts, Zenon
  <1>3. m \in 0..Len(q) /\ m \in 1..m
    BY <1>2
  <1>4. PICK A : A = SchemasOf(SubSeq(q, 1, m))
    OBVIOUS
  <1>5. A = {q[i][2] : i \in 1..m} /\ IsFiniteSet(A)
    BY <1>3, <1>4, Prefix, Zenon
  <1>6. A # {}
    BY <1>3, <1>5, Zenon
  <1>7. Cardinality(A) \in Nat /\ Cardinality(A) # 0
    BY <1>5, <1>6, FS_CardinalityType, FS_EmptySet, Zenon
  <1> QED  BY <1>1, <1>4, <1>7, Zenon DEF IdOf

(* A schema keeps its id when another pair is registered. *)
LEMMA IdKept ==
    ASSUME NEW T, NEW q \in Seq(T), NEW p \in T, NEW a \in SchemasOf(q)
    PROVE  a \in SchemasOf(Append(q, p)) /\ IdOf(Append(q, p), a) = IdOf(q, a)
  <1>1. PICK m, r : m = First(q, a) /\ r = Append(q, p)
    BY Zenon
  <1>2. m \in 1..Len(q) /\ q[m][2] = a /\ \A j \in 1..(m - 1) : q[j][2] # a
    BY <1>1, FirstFacts, Zenon
  <1>3. r \in Seq(T) /\ Len(r) = Len(q) + 1 /\ \A i \in 1..Len(q) : r[i] = q[i]
    BY <1>1, AppendProperties
  <1>4. /\ m \in 1..Len(r) /\ r[m][2] = a /\ \A j \in 1..(m - 1) : r[j][2] # a
        /\ m \in 0..Len(q) /\ m \in 0..Len(r) /\ 1..m \subseteq 1..Len(q)
    BY <1>2, <1>3
  <1>5. First(r, a) = m
    <2>1. r \in Seq(T) /\ m \in 1..Len(r) /\ r[m][2] = a /\ \A j \in 1..(m - 1) : r[j][2] # a
      BY <1>3, <1>4, Zenon
    <2> QED  BY <2>1, FirstUnique, Zenon
  <1>6. SchemasOf(SubSeq(q, 1, m)) = {q[i][2] : i \in 1..m}
    BY <1>4, Prefix, Zenon
  <1>7. SchemasOf(SubSeq(r, 1, m)) = {r[i][2] : i \in 1..m}
    <2>1. r \in Seq(T) /\ m \in 0..Len(r)
      BY <1>3, <1>4, Zenon
    <2> QED  BY <2>1, Prefix, Zenon
  <1>8. {r[i][2] : i \in 1..m} = {q[i][2] : i \in 1..m}
    <2>1. \A i \in 1..m : r[i] = q[i]
      BY <1>3, <1>4, Zenon
    <2> QED  BY <2>1, SameSchemas
  <1>9. SchemasOf(SubSeq(q, 1, m)) = SchemasOf(SubSeq(r, 1, m))
    BY <1>6, <1>7, <1>8, Zenon
  <1>10. IdOf(q, a) = IdOf(r, a)
    BY <1>1, <1>5, <1>9, Zenon DEF IdOf
  <1>11. DOMAIN r = 1..Len(r)
    BY <1>3
  <1> QED  BY <1>1, <1>4, <1>10, <1>11, Zenon DEF SchemasOf

(* An id names one schema, which SchemaOf finds. *)
LEMMA IdNames ==
    ASSUME RegistryInv, NEW id, NEW a, IsIdOf(id, a)
    PROVE  SchemaOf(id) = a /\ Registered(id) /\ id \in Nat /\ id # NoId /\ a \in {p[2] : p \in Pairs}
  <1>1. reg \in Seq(Pairs) /\ a \in SchemasOf(reg) /\ IdOf(reg, a) = id
    BY Zenon DEF RegistryInv, IsIdOf
  <1>2. PICK b : b = SchemaOf(id)
    BY Zenon
  <1>3. b \in SchemasOf(reg) /\ IdOf(reg, b) = IdOf(reg, a)
    BY <1>1, <1>2, Zenon DEF SchemaOf
  <1>4. First(reg, a) \in Int /\ First(reg, b) \in Int
    <2>1. First(reg, a) \in 1..Len(reg) /\ First(reg, b) \in 1..Len(reg)
      BY <1>1, <1>3, FirstFacts, Zenon
    <2> QED  BY <2>1
  <1>5. First(reg, a) <= First(reg, b) \/ First(reg, b) <= First(reg, a)
    BY <1>4
  <1>6. a = b
    BY <1>1, <1>3, <1>5, IdsDiffer, Zenon
  <1>7. id \in Nat /\ id # NoId
    BY <1>1, IdPositive, Zenon DEF NoId
  <1>8. Registered(id)
    BY <1>1, Zenon DEF Registered
  <1>9. a \in {p[2] : p \in Pairs}
    BY <1>1 DEF SchemasOf
  <1> QED  BY <1>2, <1>6, <1>7, <1>8, <1>9, Zenon

(* Ids go on naming what they name. *)
Grows == \A id, a : IsIdOf(id, a) => a \in SchemasOf(reg') /\ IdOf(reg', a) = id

(* They do when nothing is registered. *)
LEMMA GrowsSame ==
    ASSUME reg' = reg
    PROVE  Grows
  BY Zenon DEF Grows, IsIdOf

(* Registers: the pair is there when the primary answers, and the schema   *)
(* has an id.                                                              *)
LEMMA RegistersStep ==
    ASSUME RegistryInv, NEW s, NEW a, <<s, a>> \in Pairs, Registers(s, a)
    PROVE  RegistryInv' /\ Grows /\ a \in SchemasOf(reg')
  <1>1. PICK p : p = <<s, a>> /\ p \in Pairs
    BY Zenon
  <1>2. p[2] = a
    BY <1>1
  <1>3. reg \in Seq(Pairs) /\ (node = "primary" => applied = Len(reg)) /\ applied \in 0..Len(reg)
    BY Zenon DEF RegistryInv
  <1>4. CASE \E i \in DOMAIN reg : reg[i] = p
    <2>1. reg' = reg
      BY <1>1, <1>4, Zenon DEF Registers
    <2>2. RegistryInv'
      BY <1>3, <2>1 DEF Registers, RegistryInv
    <2>3. a \in SchemasOf(reg')
      BY <1>2, <1>4, <2>1, Zenon DEF SchemasOf
    <2> QED  BY <2>1, <2>2, <2>3, GrowsSame, Zenon
  <1>5. CASE ~(\E i \in DOMAIN reg : reg[i] = p)
    <2>1. reg' = Append(reg, p) /\ node' = node
      BY <1>1, <1>5, Zenon DEF Registers
    <2>2. applied' = IF node = "primary" THEN Len(reg') ELSE applied
      BY Zenon DEF Registers
    <2>3. /\ reg' \in Seq(Pairs) /\ Len(reg') = Len(reg) + 1
          /\ DOMAIN reg' = 1..Len(reg') /\ reg'[Len(reg')] = p
      BY <1>1, <1>3, <2>1, AppendProperties
    <2>4. RegistryInv'
      BY <1>3, <2>1, <2>2, <2>3 DEF RegistryInv
    <2>5. a \in SchemasOf(reg')
      <3>1. Len(reg') \in DOMAIN reg'
        BY <1>3, <2>3
      <3> QED  BY <1>2, <2>3, <3>1, Zenon DEF SchemasOf
    <2>6. Grows
      <3> SUFFICES ASSUME NEW id, NEW b, IsIdOf(id, b)
                   PROVE  b \in SchemasOf(reg') /\ IdOf(reg', b) = id
        BY Zenon DEF Grows
      <3>1. b \in SchemasOf(reg) /\ IdOf(reg, b) = id
        BY Zenon DEF IsIdOf
      <3>2. b \in SchemasOf(reg') /\ IdOf(reg', b) = IdOf(reg, b)
        <4>1. reg \in Seq(Pairs) /\ p \in Pairs
          BY <1>1, <1>3, Zenon
        <4>2. b \in SchemasOf(Append(reg, p)) /\ IdOf(Append(reg, p), b) = IdOf(reg, b)
          BY <3>1, <4>1, IdKept
        <4> QED  BY <2>1, <4>2, Zenon
      <3> QED  BY <3>1, <3>2, Zenon
    <2> QED  BY <2>4, <2>5, <2>6, Zenon
  <1> QED  BY <1>4, <1>5, Zenon

(* What is left alone keeps its invariant while the registry grows. *)
LEMMA Kept ==
    ASSUME CacheInv, Grows
    PROVE  /\ UNCHANGED topic => FramesInv'
           /\ UNCHANGED id_writer_schema => WritersInv'
           /\ UNCHANGED subject_id => SubjectsInv'
           /\ UNCHANGED <<mode, todo, got>> => PrewarmInv'
           /\ DOMAIN flight' \subseteq DOMAIN flight => FlightInv'
           /\ UNCHANGED <<flight, node, unavailable>> => FetchInv'
  <1>1. UNCHANGED topic => FramesInv'
    BY Zenon DEF CacheInv, Grows, FramesInv, Pairs, IsIdOf
  <1>2. UNCHANGED id_writer_schema => WritersInv'
    BY Zenon DEF CacheInv, Grows, WritersInv, IsIdOf
  <1>3. UNCHANGED subject_id => SubjectsInv'
    BY Zenon DEF CacheInv, Grows, SubjectsInv, IsIdOf
  <1>4. UNCHANGED <<mode, todo, got>> => PrewarmInv'
    BY Zenon DEF CacheInv, Grows, PrewarmInv, IsIdOf
  <1>5. DOMAIN flight' \subseteq DOMAIN flight => FlightInv'
    BY Zenon DEF CacheInv, Grows, FlightInv, IsIdOf
  <1>6. UNCHANGED <<flight, node, unavailable>> => FetchInv'
    BY Zenon DEF CacheInv, FetchInv
  <1> QED  BY <1>1, <1>2, <1>3, <1>4, <1>5, <1>6, Zenon

-------------------------------------------------------------------------------
(* The steps. *)

(* g is f with one more binding.                                           *)
Extended(g, f, k, v) ==
    /\ g = [x \in DOMAIN g |-> g[x]]
    /\ DOMAIN g = DOMAIN f \cup {k}
    /\ \A x \in DOMAIN g : (x = k /\ g[x] = v) \/ (x \in DOMAIN f /\ g[x] = f[x])

(* g is f with some bindings left out.                                     *)
Reduced(g, f) ==
    /\ g = [x \in DOMAIN g |-> g[x]]
    /\ DOMAIN g \subseteq DOMAIN f
    /\ \A x \in DOMAIN g : g[x] = f[x]

(* Put binds one key, Remove removes one; the others stay. *)
LEMMA MapFacts ==
    ASSUME NEW f, NEW k, NEW v
    PROVE  Extended(Put(f, k, v), f, k, v) /\ Reduced(Remove(f, k), f)
  BY DEF Put, Remove, Extended, Reduced

(* The statuses an answer has. *)
LEMMA StatusFacts ==
    /\ http_status("SchemaNotFound") = 404 /\ http_status("Backend") = 500
    /\ Statuses = {Asked, Found, Transport, 429, 404, 500}
  <1>1. http_status("SchemaNotFound") = 404 /\ http_status("Backend") = 500
    BY DEF http_status
  <1> QED  BY <1>1 DEF Statuses

(* What the node knows of is registered. *)
LEMMA KnownFacts ==
    ASSUME RegistryInv
    PROVE  /\ \A i \in DOMAIN Known : i \in DOMAIN reg /\ Known[i] = reg[i]
           /\ node = "primary" => SchemasOf(Known) = SchemasOf(reg)
  <1>1. reg \in Seq(Pairs) /\ applied \in 0..Len(reg) /\ (node = "primary" => applied = Len(reg))
    BY Zenon DEF RegistryInv
  <1>2. DOMAIN reg = 1..Len(reg)
    BY <1>1
  <1>3. DOMAIN Known = 1..applied /\ \A i \in 1..applied : Known[i] = reg[i]
    BY <1>1 DEF Known
  <1>4. 1..applied \subseteq 1..Len(reg)
    BY <1>1
  <1>5. ASSUME node = "primary" PROVE SchemasOf(Known) = SchemasOf(reg)
    <2>1. SchemasOf(Known) = {reg[i][2] : i \in 1..applied}
      BY <1>1, Prefix, Zenon DEF Known
    <2> QED  BY <1>1, <1>2, <1>5, <2>1, Zenon DEF SchemasOf
  <1> QED  BY <1>2, <1>3, <1>4, <1>5, Zenon

(* Apply: the node is behind, and not the primary. *)
LEMMA ApplyStep ==
    ASSUME CacheInv, Apply
    PROVE  CacheInv'
  <1>1. RegistryInv'
    BY DEF CacheInv, RegistryInv, Apply
  <1>2. /\ reg' = reg
        /\ UNCHANGED <<topic, id_writer_schema, subject_id, mode, todo, got, flight, node, unavailable, next>>
    BY Zenon DEF Apply, inner, warming
  <1>3. Grows
    BY <1>2, GrowsSame, Zenon
  <1> QED  BY <1>1, <1>2, <1>3, Kept, Zenon DEF CacheInv

(* A frame with the id of its schema. *)
LEMMA FrameStep ==
    ASSUME CacheInv, RegistryInv', Grows, NEW id, NEW a, IsIdOf(id, a)',
           topic' = Append(topic, [id |-> id, schema |-> a])
    PROVE  FramesInv'
  <1> DEFINE Frame == [id : Nat, schema : {p[2] : p \in Pairs}]
  <1>1. id \in Nat /\ a \in {p[2] : p \in Pairs}
    <2>1. reg' \in Seq(Pairs) /\ a \in SchemasOf(reg') /\ IdOf(reg', a) = id
      BY Zenon DEF RegistryInv, IsIdOf
    <2>2. id \in Nat
      BY <2>1, IdPositive, Zenon
    <2>3. a \in {p[2] : p \in Pairs}
      BY <2>1 DEF SchemasOf
    <2> QED  BY <2>2, <2>3, Zenon
  <1>2. PICK f : f = [id |-> id, schema |-> a]
    BY Zenon
  <1>3. f \in Frame /\ f.id = id /\ f.schema = a
    BY <1>1, <1>2
  <1>4. topic \in Seq(Frame) /\ \A i \in DOMAIN topic : IsIdOf(topic[i].id, topic[i].schema)
    BY Zenon DEF CacheInv, FramesInv
  <1> HIDE DEF Frame
  <1>5. /\ topic' \in Seq(Frame)
        /\ \A i \in DOMAIN topic' : (i \in DOMAIN topic /\ topic'[i] = topic[i]) \/ topic'[i] = f
    BY <1>2, <1>3, <1>4, AppendProperties
  <1>6. a \in SchemasOf(reg') /\ IdOf(reg', a) = id
    BY Zenon DEF IsIdOf
  <1>7. \A i \in DOMAIN topic' : topic'[i].schema \in SchemasOf(reg') /\ IdOf(reg', topic'[i].schema) = topic'[i].id
    BY <1>3, <1>4, <1>5, <1>6, Zenon DEF Grows
  <1> QED  BY <1>5, <1>7, Zenon DEF FramesInv, Frame, IsIdOf

(* ForeignRecord. *)
LEMMA ForeignRecordStep ==
    ASSUME CacheInv, NEW q \in Foreign, ForeignRecord(q[1], q[2])
    PROVE  CacheInv'
  <1>1. <<q[1], q[2]>> \in Pairs
    BY Zenon DEF Pairs
  <1>2. RegistryInv' /\ Grows /\ q[2] \in SchemasOf(reg')
    BY <1>1, RegistersStep, Zenon DEF CacheInv, ForeignRecord
  <1>3. PICK id : id = IdOf(reg', q[2])
    BY Zenon
  <1>4. IsIdOf(id, q[2])'
    BY <1>2, <1>3, Zenon DEF IsIdOf
  <1>5. topic' = Append(topic, [id |-> id, schema |-> q[2]])
    BY <1>3, Zenon DEF ForeignRecord
  <1>6. FramesInv'
    BY <1>2, <1>4, <1>5, FrameStep, Zenon
  <1>7. UNCHANGED <<id_writer_schema, subject_id, mode, todo, got, flight, node, unavailable, next>>
    BY Zenon DEF ForeignRecord, Registers, inner, warming
  <1> QED  BY <1>2, <1>6, <1>7, Kept, Zenon DEF CacheInv

(* Serialize. *)
LEMMA SerializeStep ==
    ASSUME CacheInv, NEW s, Serialize(s)
    PROVE  CacheInv'
  <1>1. /\ UNCHANGED <<reg, node, applied>> /\ s \in DOMAIN subject_id
        /\ UNCHANGED <<id_writer_schema, subject_id, mode, todo, got, flight, unavailable, next>>
        /\ topic' = Append(topic, [id |-> subject_id[s], schema |-> Local[s]])
    BY Zenon DEF Serialize, inner, warming, registry
  <1>2. RegistryInv' /\ Grows
    BY <1>1, GrowsSame, Zenon DEF CacheInv, RegistryInv
  <1>3. IsIdOf(subject_id[s], Local[s])
    BY <1>1, Zenon DEF CacheInv, SubjectsInv
  <1>4. PICK id, a : id = subject_id[s] /\ a = Local[s]
    BY Zenon
  <1>5. IsIdOf(id, a)'
    BY <1>2, <1>3, <1>4, Zenon DEF Grows, IsIdOf
  <1>6. FramesInv'
    BY <1>1, <1>2, <1>4, <1>5, FrameStep, Zenon
  <1> QED  BY <1>1, <1>2, <1>6, Kept, Zenon DEF CacheInv

(* A step that changes neither the registry nor what the process holds     *)
(* about ids.                                                              *)
LEMMA QuietStep ==
    ASSUME CacheInv, UNCHANGED <<reg, node, applied>>
    PROVE  RegistryInv' /\ Grows
  BY GrowsSame, Zenon DEF CacheInv, RegistryInv

(* Each mode resolves the id of the local schema. *)
LEMMA ResolveFacts ==
    ASSUME CacheInv, NEW s \in Subjects, AutoRegister(s) \/ LookupOnly(s) \/ UseLatest(s)
    PROVE  /\ RegistryInv' /\ Grows /\ node' = node
           /\ Local[s] \in SchemasOf(reg') /\ got' = IdOf(reg', Local[s])
  <1>1. RegistryInv /\ <<s, Local[s]>> \in Pairs
    BY Zenon DEF CacheInv, Pairs
  <1>2. \A i \in DOMAIN reg : reg[i] = <<s, Local[s]>> => Local[s] \in SchemasOf(reg)
    <2>1. <<s, Local[s]>>[2] = Local[s]
      OBVIOUS
    <2> QED  BY <2>1, Zenon DEF SchemasOf
  <1>3. CASE AutoRegister(s)
    BY <1>1, <1>3, RegistersStep, Zenon DEF AutoRegister, Registers
  <1>4. CASE LookupOnly(s)
    <2>1. UNCHANGED <<reg, node, applied>> /\ Local[s] \in SchemasOf(reg) /\ got' = IdOf(reg, Local[s])
      BY <1>2, <1>4, Zenon DEF LookupOnly, registry
    <2> QED  BY <2>1, QuietStep, Zenon
  <1>5. CASE UseLatest(s)
    <2>1. UNCHANGED <<reg, node, applied>> /\ got' = IdOf(reg, Local[s])
      BY <1>5, Zenon DEF UseLatest, registry
    <2>2. PICK i \in DOMAIN Known : Known[i] = <<s, Local[s]>>
      BY <1>5, Zenon DEF UseLatest, LatestIs
    <2>3. Local[s] \in SchemasOf(reg)
      BY <1>1, <1>2, <2>2, KnownFacts, Zenon
    <2> QED  BY <2>1, <2>3, QuietStep, Zenon
  <1> QED  BY <1>3, <1>4, <1>5, Zenon

(* PrewarmStart and PrewarmError: no id is in hand. *)
LEMMA PrewarmEnds ==
    ASSUME CacheInv, PrewarmStart \/ PrewarmError
    PROVE  CacheInv'
  <1>1. UNCHANGED <<reg, node, applied, topic, id_writer_schema, subject_id, mode, flight, unavailable, next>>
    BY Zenon DEF PrewarmStart, PrewarmError, registry, inner
  <1>2. RegistryInv' /\ Grows
    BY <1>1, QuietStep, Zenon
  <1>3. mode \in Modes /\ (got # NoId => todo # << >>)
    BY Zenon DEF CacheInv, PrewarmInv
  <1>4. got' = NoId /\ (todo' = Interned \/ todo' = << >>)
    BY <1>3, Zenon DEF PrewarmStart, PrewarmError
  <1>5. << >> \in Seq(Subjects) /\ Interned \in Seq(Subjects)
    <2>1. << >> \in Seq(Subjects)
      OBVIOUS
    <2> QED  BY <2>1, CacheAssumption, Zenon
  <1>6. PrewarmInv'
    BY <1>1, <1>3, <1>4, <1>5, Zenon DEF PrewarmInv
  <1> QED  BY <1>1, <1>2, <1>6, Kept, Zenon DEF CacheInv

(* PrewarmResolve. *)
LEMMA PrewarmResolveStep ==
    ASSUME CacheInv, PrewarmResolve
    PROVE  CacheInv'
  <1>1. mode \in Modes /\ todo \in Seq(Subjects) /\ todo # << >>
    BY Zenon DEF CacheInv, PrewarmInv, PrewarmResolve
  <1>2. PICK s : s = Head(todo)
    BY Zenon
  <1>3. s \in Subjects
    BY <1>1, <1>2, HeadTailProperties, Zenon
  <1>4. AutoRegister(s) \/ LookupOnly(s) \/ UseLatest(s)
    <2>1. CASE mode = "AutoRegister"
      BY <1>2, <2>1 DEF PrewarmResolve
    <2>2. CASE mode = "LookupOnly"
      BY <1>2, <2>2 DEF PrewarmResolve
    <2>3. CASE mode = "UseLatest"
      BY <1>2, <2>3 DEF PrewarmResolve
    <2> QED  BY <1>1, <2>1, <2>2, <2>3, Zenon DEF Modes
  <1>5. /\ RegistryInv' /\ Grows /\ node' = node
        /\ Local[s] \in SchemasOf(reg') /\ got' = IdOf(reg', Local[s])
    BY <1>3, <1>4, ResolveFacts, Zenon
  <1>6. UNCHANGED <<topic, id_writer_schema, subject_id, mode, todo, flight, unavailable, next>>
    BY Zenon DEF PrewarmResolve, inner
  <1>7. IsIdOf(got, Local[Head(todo)])'
    BY <1>2, <1>5, <1>6, Zenon DEF IsIdOf
  <1>8. PrewarmInv'
    BY <1>1, <1>6, <1>7, Zenon DEF PrewarmInv
  <1> QED  BY <1>5, <1>6, <1>8, Kept, Zenon DEF CacheInv

(* PrewarmInstall: the id in hand becomes that of its subject. *)
LEMMA PrewarmInstallStep ==
    ASSUME CacheInv, PrewarmInstall
    PROVE  CacheInv'
  <1>1. /\ UNCHANGED <<reg, node, applied, topic, mode, flight, unavailable, next>>
        /\ todo' = Tail(todo) /\ got' = NoId
    BY Zenon DEF PrewarmInstall, registry
  <1>2. RegistryInv' /\ Grows
    BY <1>1, QuietStep, Zenon
  <1>3. PICK s, a : s = Head(todo) /\ a = Local[s]
    BY Zenon
  <1>4. todo \in Seq(Subjects) /\ todo # << >> /\ mode \in Modes /\ IsIdOf(got, a)
    BY <1>3, Zenon DEF CacheInv, PrewarmInv, PrewarmInstall
  <1>5. a \in SchemasOf(reg') /\ IdOf(reg', a) = got
    BY <1>2, <1>4, Zenon DEF Grows
  <1>6. PrewarmInv'
    <2>1. Tail(todo) \in Seq(Subjects)
      BY <1>4, HeadTailProperties, Zenon
    <2> QED  BY <1>1, <1>4, <2>1, Zenon DEF PrewarmInv
  <1>7. SubjectsInv'
    <2>1. subject_id' = Put(subject_id, s, got)
      BY <1>3, Zenon DEF PrewarmInstall
    <2>2. Extended(subject_id', subject_id, s, got)
      BY <2>1, MapFacts, Zenon
    <2> QED  BY <1>2, <1>3, <1>5, <2>2, Zenon DEF CacheInv, SubjectsInv, Grows, IsIdOf, Extended
  <1>8. WritersInv'
    <2>1. id_writer_schema' = Put(id_writer_schema, got, a)
      BY <1>3, Zenon DEF PrewarmInstall
    <2>2. Extended(id_writer_schema', id_writer_schema, got, a)
      BY <2>1, MapFacts, Zenon
    <2> QED  BY <1>2, <1>5, <2>2, Zenon DEF CacheInv, WritersInv, Grows, IsIdOf, Extended
  <1> QED  BY <1>1, <1>2, <1>6, <1>7, <1>8, Kept, Zenon DEF CacheInv

(* Deserialize and RetryElapsed. *)
LEMMA QuietSteps ==
    ASSUME CacheInv, Deserialize \/ \E id \in waiting : RetryElapsed(id)
    PROVE  CacheInv'
  <1>1. /\ UNCHANGED <<reg, node, applied, topic, id_writer_schema, subject_id, mode, todo, got, flight, unavailable>>
        /\ next' = next \/ next' = next + 1
    BY Zenon DEF Deserialize, RetryElapsed, registry, inner, warming
  <1>2. RegistryInv' /\ Grows
    BY <1>1, QuietStep, Zenon
  <1>3. next' \in Nat \ {0}
    BY <1>1 DEF CacheInv
  <1> QED  BY <1>1, <1>2, <1>3, Kept, Zenon DEF CacheInv

(* StartFetch: the id comes from a frame. *)
LEMMA StartFetchStep ==
    ASSUME CacheInv, StartFetch
    PROVE  CacheInv'
  <1>1. UNCHANGED <<reg, node, applied, topic, id_writer_schema, subject_id, mode, todo, got, unavailable, next>>
    BY Zenon DEF StartFetch, registry, warming
  <1>2. RegistryInv' /\ Grows
    BY <1>1, QuietStep, Zenon
  <1>3. PICK id : id = topic[next].id
    BY Zenon
  <1>4. flight' = Put(flight, id, Asked)
    BY <1>3, Zenon DEF StartFetch
  <1>5. next \in DOMAIN topic
    BY DEF CacheInv, FramesInv, StartFetch
  <1>6. IsIdOf(id, topic[next].schema)
    BY <1>3, <1>5, Zenon DEF CacheInv, FramesInv
  <1>7. Extended(flight', flight, id, Asked)
    BY <1>4, MapFacts, Zenon
  <1>8. FlightInv'
    BY <1>2, <1>6, <1>7, Zenon DEF CacheInv, FlightInv, Grows, IsIdOf, Extended
  <1>9. FetchInv'
    <2>1. Asked \in Statuses /\ Asked # http_status("SchemaNotFound")
      BY StatusFacts DEF Asked
    <2>2. \A x \in DOMAIN flight : flight[x] \in Statuses
      BY Zenon DEF CacheInv, FetchInv
    <2>3. flight' \in [DOMAIN flight' -> Statuses]
      BY <1>7, <2>1, <2>2, Zenon DEF Extended
    <2> QED  BY <1>1, <1>7, <2>1, <2>3, Zenon DEF CacheInv, FetchInv, Extended
  <1> QED  BY <1>1, <1>2, <1>8, <1>9, Kept, Zenon DEF CacheInv

(* FetchAnswered and FetchFails: a status, and no 404 from the primary.    *)
LEMMA FetchAnswers ==
    ASSUME CacheInv, NEW id \in DOMAIN flight, FetchAnswered(id) \/ FetchFails(id)
    PROVE  CacheInv'
  <1>1. UNCHANGED <<reg, node, applied, topic, id_writer_schema, subject_id, mode, todo, got, unavailable, next>>
    BY Zenon DEF FetchAnswered, FetchFails, registry, inner, warming
  <1>2. RegistryInv' /\ Grows
    BY <1>1, QuietStep, Zenon
  <1>3. PICK status \in Statuses : /\ flight' = [flight EXCEPT ![id] = status]
                                   /\ node = "primary" => status # http_status("SchemaNotFound")
    <2>1. CASE FetchAnswered(id)
      <3>1. PICK a : IsIdOf(id, a)
        BY Zenon DEF CacheInv, FlightInv
      <3>2. SchemaOf(id) = a /\ a \in SchemasOf(reg)
        BY <3>1, IdNames, Zenon DEF CacheInv, IsIdOf
      <3>3. node = "primary" => SchemaOf(id) \in SchemasOf(Known)
        BY <3>2, KnownFacts, Zenon DEF CacheInv
      <3>4. Found # http_status("SchemaNotFound")
        BY StatusFacts DEF Found
      <3>5. PICK status : status = IF SchemaOf(id) \in SchemasOf(Known) THEN Found
                                   ELSE http_status("SchemaNotFound")
        BY Zenon
      <3>6. Found \in Statuses /\ http_status("SchemaNotFound") \in Statuses
        BY StatusFacts
      <3>7. flight' = [flight EXCEPT ![id] = status]
        BY <2>1, <3>5, Zenon DEF FetchAnswered
      <3> QED  BY <3>3, <3>4, <3>5, <3>6, <3>7, Zenon
    <2>2. CASE FetchFails(id)
      <3>1. PICK status \in {Transport, 429, http_status("Backend")} : flight' = [flight EXCEPT ![id] = status]
        BY <2>2, Zenon DEF FetchFails
      <3>2. status \in Statuses /\ status # http_status("SchemaNotFound")
        <4>1. status \in {Transport, 429, http_status("Backend")}
          BY <3>1, Zenon
        <4> QED  BY <4>1, StatusFacts DEF Transport
      <3> QED  BY <3>1, <3>2, Zenon
    <2> QED  BY <2>1, <2>2, Zenon
  <1>4. DOMAIN flight' = DOMAIN flight
    BY <1>3, Zenon
  <1>5. FetchInv'
    <2>1. \A x \in DOMAIN flight : flight'[x] = IF x = id THEN status ELSE flight[x]
      BY <1>3, Zenon
    <2>2. flight' = [x \in DOMAIN flight' |-> flight'[x]]
      BY <1>3, Zenon
    <2>3. \A x \in DOMAIN flight : flight[x] \in Statuses
      BY Zenon DEF CacheInv, FetchInv
    <2>4. \A x \in DOMAIN flight' : flight'[x] \in Statuses
      BY <1>3, <1>4, <2>1, <2>3, Zenon
    <2>5. flight' \in [DOMAIN flight' -> Statuses]
      BY <2>2, <2>4, Zenon
    <2>6. node = "primary" => \A x \in DOMAIN flight' : flight'[x] # http_status("SchemaNotFound")
      BY <1>3, <1>4, <2>1, Zenon DEF CacheInv, FetchInv
    <2> QED  BY <1>1, <2>5, <2>6, Zenon DEF CacheInv, FetchInv
  <1>6. DOMAIN flight' \subseteq DOMAIN flight
    BY <1>4, Zenon
  <1> QED  BY <1>1, <1>2, <1>5, <1>6, Kept, Zenon DEF CacheInv

(* FetchComplete: what was found is cached under its id; what is given up  *)
(* was answered 404.                                                       *)
LEMMA FetchCompleteStep ==
    ASSUME CacheInv, NEW id \in DOMAIN flight, FetchComplete(id)
    PROVE  CacheInv'
  <1>1. /\ UNCHANGED <<reg, node, applied, topic, subject_id, mode, todo, got, next>>
        /\ flight' = Remove(flight, id)
    BY Zenon DEF FetchComplete, registry, warming
  <1>2. RegistryInv' /\ Grows
    BY <1>1, QuietStep, Zenon
  <1>3. PICK a : IsIdOf(id, a) /\ SchemaOf(id) = a
    <2>1. PICK a : IsIdOf(id, a)
      BY Zenon DEF CacheInv, FlightInv
    <2> QED  BY <2>1, IdNames, Zenon DEF CacheInv
  <1>4. WritersInv'
    <2>1. CASE id_writer_schema' = Put(id_writer_schema, id, a)
      <3>1. Extended(id_writer_schema', id_writer_schema, id, a)
        BY <2>1, MapFacts, Zenon
      <3>2. a \in SchemasOf(reg') /\ IdOf(reg', a) = id
        BY <1>2, <1>3, Zenon DEF Grows
      <3> QED  BY <1>2, <3>1, <3>2, Zenon DEF CacheInv, WritersInv, Grows, IsIdOf, Extended
    <2>2. CASE UNCHANGED id_writer_schema
      BY <1>2, <2>2, Kept, Zenon
    <2> QED  BY <1>3, <2>1, <2>2, Zenon DEF FetchComplete
  <1>5. Reduced(flight', flight)
    BY <1>1, MapFacts, Zenon
  <1>6. node = "primary" => unavailable' = {}
    <2> SUFFICES ASSUME node = "primary" PROVE unavailable' = {}
      OBVIOUS
    <2>1. unavailable = {} /\ flight[id] \in Statuses /\ flight[id] # http_status("SchemaNotFound")
      BY Zenon DEF CacheInv, FetchInv
    <2>2. flight[id] \in {Asked, Found, Transport, 429, 500}
      BY <2>1, StatusFacts
    <2>3. flight[id] # Asked
      BY Zenon DEF FetchComplete
    <2>4. flight[id] = Found \/ is_transient_registry_failure(flight[id])
      BY <2>2, <2>3 DEF is_transient_registry_failure
    <2>5. unavailable' = unavailable \ {id} \/ unavailable' = unavailable
      BY <2>4, Zenon DEF FetchComplete
    <2> QED  BY <2>1, <2>5, Zenon
  <1>7. FetchInv'
    <2>1. \A x \in DOMAIN flight : flight[x] \in Statuses
      BY Zenon DEF CacheInv, FetchInv
    <2>2. flight' \in [DOMAIN flight' -> Statuses]
      BY <1>5, <2>1, Zenon DEF Reduced
    <2>3. node = "primary" => \A x \in DOMAIN flight' : flight'[x] # http_status("SchemaNotFound")
      BY <1>5, Zenon DEF CacheInv, FetchInv, Reduced
    <2> QED  BY <1>1, <1>6, <2>2, <2>3, Zenon DEF FetchInv
  <1> QED  BY <1>1, <1>2, <1>4, <1>5, <1>7, Kept, Zenon DEF CacheInv, Reduced

-------------------------------------------------------------------------------
(* The theorems. *)

(* Nothing is registered or cached at first. *)
LEMMA CacheInit == Init => CacheInv
  <1> SUFFICES ASSUME Init PROVE CacheInv
    OBVIOUS
  <1>1. RegistryInv
    BY DEF Init, RegistryInv
  <1>2. FramesInv
    BY DEF Init, FramesInv
  <1>3. WritersInv /\ SubjectsInv /\ FlightInv
    BY DEF Init, WritersInv, SubjectsInv, FlightInv, Nothing
  <1>4. PrewarmInv
    BY DEF Init, PrewarmInv
  <1>5. FetchInv
    BY DEF Init, FetchInv, Nothing
  <1>6. next \in Nat \ {0}
    BY DEF Init
  <1> QED  BY <1>1, <1>2, <1>3, <1>4, <1>5, <1>6, Zenon DEF CacheInv

(* Every step of the process, of the registry and of the other clients     *)
(* preserves the invariant.                                                *)
LEMMA CacheNext == CacheInv /\ [Next]_vars => CacheInv'
  <1> SUFFICES ASSUME CacheInv, [Next]_vars PROVE CacheInv'
    OBVIOUS
  <1>1. CASE UNCHANGED vars
    <2>1. /\ UNCHANGED <<reg, node, applied>>
          /\ UNCHANGED <<topic, id_writer_schema, subject_id, mode, todo, got, flight, unavailable, next>>
      BY <1>1, Zenon DEF vars, registry, inner, warming
    <2> QED  BY <2>1, QuietStep, Kept, Zenon DEF CacheInv
  <1>2. CASE \E q \in Foreign : ForeignRecord(q[1], q[2])
    BY <1>2, ForeignRecordStep, Zenon
  <1>3. CASE \E s \in Subjects : Serialize(s)
    BY <1>3, SerializeStep, Zenon
  <1>4. CASE \E id \in DOMAIN flight : FetchAnswered(id) \/ FetchFails(id) \/ FetchComplete(id)
    BY <1>4, FetchAnswers, FetchCompleteStep, Zenon
  <1>5. CASE Deserialize \/ \E id \in waiting : RetryElapsed(id)
    BY <1>5, QuietSteps, Zenon
  <1> QED
    BY <1>1, <1>2, <1>3, <1>4, <1>5, ApplyStep, PrewarmEnds, PrewarmResolveStep,
       PrewarmInstallStep, StartFetchStep, Zenon DEF Next

(* The id in every frame is that of the schema the record was encoded      *)
(* with, and the cache holds the schemas the registry binds to its ids, in *)
(* every mode and however pre-warm, background fetches and other clients'  *)
(* registrations interleave.                                               *)
THEOREM FramesNamed == Spec => []FramesNameTheirSchema
  <1>1. CacheInv => FramesNameTheirSchema
    <2> SUFFICES ASSUME CacheInv PROVE FramesNameTheirSchema
      OBVIOUS
    <2>1. \A id, a : IsIdOf(id, a) => Registered(id) /\ SchemaOf(id) = a
      BY IdNames, Zenon DEF CacheInv
    <2> QED  BY <2>1, Zenon DEF CacheInv, FramesInv, WritersInv, FramesNameTheirSchema
  <1> QED  BY <1>1, CacheInit, CacheNext, PTL DEF Spec

(* A client whose node is the primary never gives up an id.                *)
THEOREM NothingGivenUp == Spec => []NoIdGivenUp
  <1>1. CacheInv => NoIdGivenUp
    BY Zenon DEF CacheInv, FetchInv, NoIdGivenUp
  <1> QED  BY <1>1, CacheInit, CacheNext, PTL DEF Spec

===============================================================================
