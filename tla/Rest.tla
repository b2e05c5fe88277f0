--------------------------------- MODULE Rest ---------------------------------
(***************************************************************************)
(* The REST handlers of the registry (rest/*.rs) that are more than a call *)
(* of one KafkaStore operation: the reads, each answered from one snapshot *)
(* of the store, and POST /schemas/import, which registers the files of a  *)
(* Protobuf descriptor set one after another and lets the write gate go    *)
(* between them, so that other requests come between two files and an      *)
(* error leaves the files before it registered.                            *)
(***************************************************************************)
EXTENDS Registry, SrErrors

CONSTANTS
    NameOrder,      \* the file names in the order of the code's BTreeMap
    NoName,         \* a file whose name is missing
    Compile,        \* Compile[<<content, versions>>]: a file's schema, given
                    \* the versions its dependencies are referred to at
    Latest          \* the path segment `latest`

ASSUME RestAssumption == Latest \notin 1..MaxInt

VARIABLE
    import          \* the latest POST /schemas/import

restVars == <<load, log, store, todo, writes, import>>

-------------------------------------------------------------------------------
(* The reads.  `d` is the query parameter `deleted`. *)

Ok(body) == [status |-> 200, code |-> 0, body |-> body]
Err(e) == [status |-> http_status(e), code |-> error_code[e], body |-> NoValue]

(* StoreState::versions and StoreState::version. *)
versions(s, d) == IF d THEN Versions(store, s) ELSE LiveVersions(store, s)
version(s, v, d) ==
    {w \in versions(s, d) : w = IF v = Latest THEN Max(versions(s, d)) ELSE v}

list(d) == {s \in Subjects : versions(s, d) # {}}

list_versions(s, d) ==
    IF versions(s, d) = {} THEN Err("SubjectNotFound") ELSE Ok(versions(s, d))

get_version(s, v, d) ==
    CASE versions(s, d) = {} -> Err("SubjectNotFound")
      [] versions(s, d) # {} /\ version(s, v, d) = {} -> Err("VersionNotFound")
      [] OTHER -> LET w == Max(version(s, v, d))
                  IN  Ok([version |-> w, id |-> store.subjects[s][w].id,
                          schema |-> SchemaOf(store, s, w)])

(* GET .../schema: the text alone. *)
get_version_schema(s, v, d) ==
    LET found == get_version(s, v, d)
    IN  IF found.status = 200 THEN Ok(found.body.schema) ELSE found

(* StoreState::schema_id_subject_versions. *)
schema_id_subject_versions(id, d) ==
    {p \in UNION {{<<s, v>> : v \in versions(s, d)} : s \in Subjects} :
        store.subjects[p[1]][p[2]].id = id}

(* Seeded defect: soft-deleted versions count in every answer. *)
schema_by_id_any(id, d) ==
    IF id \in DOMAIN store.byId /\ schema_id_subject_versions(id, TRUE) # {}
    THEN {store.byId[id]} ELSE {}

(* StoreState::schema_by_id, none or one schema. *)
schema_by_id(id, d) ==
    IF id \in DOMAIN store.byId /\ schema_id_subject_versions(id, d) # {}
    THEN {store.byId[id]} ELSE {}

get_by_id(id, d) ==
    IF schema_by_id(id, d) = {} THEN Err("SchemaNotFound")
    ELSE Ok(CHOOSE x \in schema_by_id(id, d) : TRUE)

get_by_id_schema(id) == get_by_id(id, FALSE)

get_by_id_versions(id, d) ==
    LET pairs == schema_id_subject_versions(id, d)
    IN  IF pairs = {} THEN Err("SchemaNotFound") ELSE Ok(pairs)

get_by_id_subjects(id, d) ==
    LET pairs == schema_id_subject_versions(id, d)
    IN  IF pairs = {} THEN Err("SchemaNotFound") ELSE Ok({p[1] : p \in pairs})

(* StoreState::all_schemas. *)
list_schemas(d) ==
    UNION {{[subject |-> s, version |-> v, id |-> store.subjects[s][v].id,
             schema |-> SchemaOf(store, s, v)] : v \in versions(s, d)} :
           s \in Subjects}

(* POST /subjects/{subject}: the version of a schema. *)
lookup(s, schema, d) ==
    LET found == {v \in find_under_subject(store, s, schema, d) :
                    resolve_closure(store, Refs[schema])}
    IN  CASE versions(s, d) = {} -> Err("SubjectNotFound")
          [] versions(s, d) # {} /\ found = {} -> Err("SchemaNotFound")
          [] OTHER -> LET v  == Min(found)
                          id == store.subjects[s][v].id
                      IN  IF schema_by_id(id, d) = {} THEN Err("SchemaNotFound")
                          ELSE Ok([version |-> v, id |-> id,
                                   schema |-> CHOOSE x \in schema_by_id(id, d) : TRUE])

(* The ids of the live versions that refer to a version, itself perhaps    *)
(* soft-deleted.                                                           *)
referencedby(s, v) ==
    LET found == get_version(s, v, TRUE)
    IN  IF found.status # 200 THEN found
        ELSE Ok({r.id : r \in {q \in list_schemas(FALSE) :
                                 <<s, found.body.version>> \in Refs[q.schema]}})

(* POST /compatibility: the verdict on a schema against one version. *)
check(s, v, schema) ==
    CASE ~resolve_closure(store, Refs[schema]) -> Err("ReferenceNotFound")
      [] resolve_closure(store, Refs[schema]) /\ versions(s, FALSE) = {} ->
            Err("SubjectNotFound")
      [] OTHER -> LET found == get_version(s, v, FALSE)
                  IN  IF found.status # 200 THEN found
                      ELSE Ok(check_pair(effective_level(store, s), schema,
                                         found.body.schema))

get_config(s) ==
    CASE s = NoSubject -> Ok(global_compat(store))
      [] s # NoSubject /\ store.compat[s] = NoValue -> Err("SubjectNotFound")
      [] OTHER -> Ok(store.compat[s])

get_mode(s) ==
    CASE s = NoSubject -> Ok(global_mode(store))
      [] s # NoSubject /\ store.mode[s] = NoValue -> Err("SubjectModeNotConfigured")
      [] OTHER -> Ok(store.mode[s])

-------------------------------------------------------------------------------
(* POST /schemas/import.  A set is a sequence of files, each with a name,  *)
(* the names it depends on in order, and its own content.                  *)

File(set, name) == CHOOSE f \in Range(set) : f.name = name
Named(set) == {f.name : f \in Range(set)}

(* The arguments of a walk: the names to visit, the names on the path to   *)
(* them, and the order so far.                                             *)
Walks(set) == Seq(Named(set)) \X (SUBSET Named(set)) \X Seq(Named(set))
DepsIn(set, name) == SelectSeq(File(set, name).deps, LAMBDA x : x \in Named(set))

(* Seeded defect: a file goes before the files it depends on. *)
visit_first(names, set) ==
    LET walk[w \in Walks(set)] ==
            CASE w[1] = <<>> -> [error |-> FALSE, order |-> w[3]]
              [] w[1] # <<>> /\ Head(w[1]) \in Range(w[3]) ->
                   walk[<<Tail(w[1]), w[2], w[3]>>]
              [] w[1] # <<>> /\ Head(w[1]) \in w[2] \ Range(w[3]) ->
                   [error |-> TRUE, order |-> w[3]]
              [] OTHER ->
                   LET below == walk[<<DepsIn(set, Head(w[1])), w[2] \cup {Head(w[1])},
                                       Append(w[3], Head(w[1]))>>]
                   IN  IF below.error THEN below
                       ELSE walk[<<Tail(w[1]), w[2], below.order>>]
    IN  walk[<<names, {}, <<>>>>]

(* The depth-first walk from each of the names in turn: what is visited is *)
(* in the order, what is being visited is on the path.                     *)
visit(names, set) ==
    LET walk[w \in Walks(set)] ==
            CASE w[1] = <<>> -> [error |-> FALSE, order |-> w[3]]
              [] w[1] # <<>> /\ Head(w[1]) \in Range(w[3]) ->
                   walk[<<Tail(w[1]), w[2], w[3]>>]
              [] w[1] # <<>> /\ Head(w[1]) \in w[2] \ Range(w[3]) ->
                   [error |-> TRUE, order |-> w[3]]
              [] OTHER ->
                   LET below == walk[<<DepsIn(set, Head(w[1])), w[2] \cup {Head(w[1])},
                                       w[3]>>]
                   IN  IF below.error THEN below
                       ELSE walk[<<Tail(w[1]), w[2], Append(below.order, Head(w[1]))>>]
    IN  walk[<<names, {}, <<>>>>]

(* DescriptorSetImport::new: the order the files are registered in. *)
import_order(set) ==
    IF NoName \in Named(set) \/ Cardinality(Named(set)) # Len(set)
    THEN [error |-> TRUE, order |-> <<>>]
    ELSE visit(SelectSeq(NameOrder, LAMBDA n : n \in Named(set)), set)

(* Seeded defect: always the latest version, also of a file of this set. *)
references_for_latest(file, registered) ==
    [i \in DOMAIN file.deps |->
        IF version(file.deps[i], Latest, FALSE) # {}
        THEN Max(version(file.deps[i], Latest, FALSE)) ELSE 0]

(* The versions a file's dependencies are referred to at: the one this     *)
(* import registered, else the latest live one; 0 for ReferenceNotFound.   *)
references_for(file, registered) ==
    [i \in DOMAIN file.deps |->
        IF file.deps[i] \in DOMAIN registered THEN registered[file.deps[i]]
        ELSE IF version(file.deps[i], Latest, FALSE) # {}
        THEN Max(version(file.deps[i], Latest, FALSE)) ELSE 0]

NoImport ==
    [status |-> "idle", count |-> 0, set |-> <<>>, left |-> <<>>, registered |-> EmptyMap,
     refs |-> <<>>]

RestInit == Init /\ import = NoImport

Running == import.status \in {"refs", "register"}
Ended(e) == [import EXCEPT !.status = e, !.refs = <<>>]

ImportStart(set) ==
    LET parsed == import_order(set)
    IN  /\ ~Running
        /\ import.count < load.uploads
        /\ import' = [NoImport EXCEPT !.count = import.count + 1,
                        !.status = IF parsed.error THEN "InvalidSchema"
                                   ELSE IF parsed.order = <<>> THEN "ok" ELSE "refs",
                        !.set = set, !.left = parsed.order]
        /\ UNCHANGED vars

(* The references of the next file, read without the write gate. *)
ImportReferences ==
    LET refs == references_for(File(import.set, Head(import.left)), import.registered)
    IN  /\ import.status = "refs"
        /\ import' = IF 0 \in Range(refs) THEN Ended("ReferenceNotFound")
                     ELSE [import EXCEPT !.status = "register", !.refs = refs]
        /\ UNCHANGED vars

(* The file got version v; the next one follows. *)
Imported(v) ==
    [import EXCEPT !.status = IF Len(import.left) = 1 THEN "ok" ELSE "refs",
                   !.left = Tail(@),
                   !.registered = Put(@, Head(import.left), v),
                   !.refs = <<>>]

(* KafkaStore::register of the file, with its refusals; its name is the    *)
(* subject.                                                                *)
ImportRegister ==
    \E s \in Subjects, schema \in Schemas :
        LET live  == find_under_subject(store, s, schema, FALSE)
            error == CASE effective_mode(store, s) = "READONLY" -> "OperationNotPermitted"
                       [] ~resolve_closure(store, Refs[schema]) -> "ReferenceNotFound"
                       [] effective_mode(store, s) = "IMPORT" -> "InvalidSchema"
                       [] live = {} /\ ~check_registration(store, s, schema) -> "Incompatible"
                       [] OTHER -> ""
        IN  /\ import.status = "register"
            /\ s = Head(import.left)
            /\ schema = Compile[<<File(import.set, s).content, import.refs>>]
            /\ todo = <<>>
            /\ \/ /\ error # ""
                  /\ import' = Ended(error)
                  /\ UNCHANGED vars
               \/ /\ error = "" /\ live # {}
                  /\ import' = Imported(Min(live))
                  /\ UNCHANGED vars
               \/ /\ Register(s, schema)
                  /\ import' = Imported(register(store, s, schema).version)

(* The deadline, a writer error or the client going away ends the import   *)
(* between two files; what it registered stays.                            *)
ImportAbandon ==
    /\ Running
    /\ import' = Ended("OperationTimedOut")
    /\ UNCHANGED vars

RestNext ==
    \/ Step /\ UNCHANGED import
    \/ Restart /\ import' = IF Running THEN Ended("OperationTimedOut") ELSE import
    \/ \E set \in load.sets : ImportStart(set)
    \/ ImportReferences
    \/ ImportRegister
    \/ ImportAbandon

RestSpec == RestInit /\ [][RestNext]_restVars

-------------------------------------------------------------------------------
(* Properties. *)

(* What a client takes from the configuration endpoints for a subject: its *)
(* own level and mode, or else those of the registry.                      *)
ShownLevel(s) ==
    IF get_config(s).status = 200 THEN get_config(s).body ELSE get_config(NoSubject).body
ShownMode(s) ==
    IF get_mode(s).status = 200 THEN get_mode(s).body ELSE get_mode(NoSubject).body

(* A version that a listing shows can be got, its id leads to the same     *)
(* schema and back to the version, it may be deleted exactly when nothing  *)
(* live is shown to refer to it, and a lookup finds its schema where no id *)
(* was imported and nothing is referred to.                                *)
VersionAgrees(s, v, d) ==
    LET got == get_version(s, v, d).body
    IN  /\ get_by_id(got.id, d) = Ok(got.schema)
        /\ ~d => get_by_id_schema(got.id) = Ok(got.schema)
        /\ <<s, v>> \in get_by_id_versions(got.id, d).body
        /\ s \in get_by_id_subjects(got.id, d).body
        /\ \E r \in list_schemas(d) :
              r.subject = s /\ r.version = v /\ r.schema = got.schema
        /\ referencedby(s, v).body = {} <=> ~referenced_by(store, s, v)
        /\ ~d /\ load.ids = {} /\ Refs[got.schema] = {} =>
              lookup(s, got.schema, d).status = 200

(* A lookup by schema names a version that has this schema. *)
LookupAgrees(s, schema, d) ==
    LET hit == lookup(s, schema, d)
    IN  hit.status = 200 =>
          /\ get_version(s, hit.body.version, d) = hit
          /\ get_version_schema(s, hit.body.version, d) = Ok(schema)

(* Whatever was deleted, restored, imported or replayed, the endpoints     *)
(* agree on versions and lookups, an id no listed version has is not       *)
(* found, and the mode shown is the one that writes obey.                  *)
ReadsAgree ==
    \A d \in BOOLEAN, s \in Subjects :
        /\ \A id \in DOMAIN store.byId :
              get_by_id(id, d).code = get_by_id_versions(id, d).code
        /\ ensure_writable(s) <=> ShownMode(s) # "READONLY"
        /\ s \in list(d) <=> list_versions(s, d).status = 200
        /\ \A v \in versions(s, d) : VersionAgrees(s, v, d)
        /\ \A schema \in Schemas : LookupAgrees(s, schema, d)

(* POST /compatibility foretells a registration: a schema not yet live is  *)
(* accepted exactly when the check says yes for the latest version, or,    *)
(* under a transitive level, for every live version.                       *)
CheckForetellsRegister ==
    \A s \in Subjects : \A schema \in Schemas :
        LET live == IF is_transitive(ShownLevel(s)) THEN versions(s, FALSE) ELSE {Latest}
        IN  (/\ versions(s, FALSE) # {}
             /\ resolve_closure(store, Refs[schema]))
            => (check_registration(store, s, schema)
                <=> \A v \in live : check(s, v, schema).body)

(* The order of an import: none exactly when a file has no name or the     *)
(* name of another, or the files depend on each other in a circle; else    *)
(* every file once, after the files of the set it depends on.              *)
ImportOrder ==
    LET set     == import.set
        order   == import_order(set)
        needs   == [p \in Named(set) \X Named(set) |->
                       \E f \in Range(set) : f.name = p[1] /\ p[2] \in Range(f.deps)]
        circle  == \E S \in SUBSET Named(set) \ {{}} :
                       \A n \in S : \E m \in S : needs[<<n, m>>]
        clash   == NoName \in Named(set) \/ Cardinality(Named(set)) # Len(set)
    IN  /\ order.error <=> (clash \/ circle)
        /\ ~order.error =>
              /\ Range(order.order) = Named(set)
              /\ Len(order.order) = Len(set)
              /\ \A i, j \in DOMAIN order.order :
                    needs[<<order.order[i], order.order[j]>>] => j < i

(* The files of one import refer to each other: a file it registered, for  *)
(* as long as that version exists, refers to the versions this import gave *)
(* to the files of the set it depends on, though other clients register    *)
(* and delete versions of those subjects meanwhile.                        *)
ImportRefersToItself ==
    \A s \in DOMAIN import.registered :
        import.registered[s] \in Versions(store, s) =>
            \A t \in Range(File(import.set, s).deps) \cap Named(import.set) :
                <<t, import.registered[t]>>
                    \in Refs[SchemaOf(store, s, import.registered[s])]

===============================================================================
