-------------------------------- MODULE Access --------------------------------
(***************************************************************************)
(* The decisions of the REST front that need no state: the security        *)
(* configuration (cli.rs), who a request is from (auth/), what it needs    *)
(* (authz.rs) and whether it is forwarded (rest/forward.rs).               *)
(*                                                                         *)
(* Data abstraction: an option of the command line is a Boolean "given", a *)
(* path is the sequence of its decoded segments, a credential is the name  *)
(* it claims and the secret behind it.  Files are readable.  The parts of  *)
(* the command line that only configure the broker client are checked for  *)
(* being accepted, and otherwise left out.                                 *)
(***************************************************************************)
EXTENDS Naturals, Sequences, FiniteSets, Functions

NoName == ""
Anonymous == "ANONYMOUS"

-------------------------------------------------------------------------------
(* cli.rs *)

build_bearer(i) == i.bearer \in {"off", "unsecured"} \/ (i.bearer = "jwks" /\ i.jwks_endpoint_uri)

build_tls(i) ==
    \/ i.tls_cert /\ i.tls_key /\ i.tls_client_auth \in {"disabled", "optional", "required"}
    \/ ~i.tls_cert /\ ~i.tls_key

build_sasl(i) ==
    \/ /\ i.kafka_sasl_mechanism = "GSSAPI"
       /\ i.kafka_sasl_keytab_path /\ i.kafka_sasl_client_principal /\ i.kafka_sasl_kdc_url
    \/ /\ i.kafka_sasl_mechanism \in {"PLAIN", "SCRAM-SHA-256", "SCRAM-SHA-512"}
       /\ i.kafka_sasl_username
       /\ i.kafka_sasl_password # i.kafka_sasl_password_file

build_client_security(i) ==
    \/ i.kafka_security_protocol \in {"PLAINTEXT", "SSL"}
    \/ i.kafka_security_protocol \in {"SASL_PLAINTEXT", "SASL_SSL"} /\ build_sasl(i)

(* Seeded defect: a secured node may go without a forward secret. *)
accepts_any_secret(i) ==
    build_bearer(i) /\ build_tls(i) /\ build_client_security(i)

(* The inputs that build_security does not refuse. *)
accepts(i) ==
    /\ i.require_auth \/ i.authz => i.forward_secret
    /\ build_bearer(i) /\ build_tls(i) /\ build_client_security(i)

(* BasicAuthStore::load: lines of the file, and over them the inline users *)
(* that have a name.                                                       *)
load(file, users) ==
    LET named == Restrict(users, DOMAIN users \ {NoName})
        lines == Restrict(file, DOMAIN file \ {NoName})
    IN  [u \in DOMAIN named \cup DOMAIN lines |-> IF u \in DOMAIN named THEN named[u] ELSE lines[u]]

build_security(i) ==
    [require_auth   |-> i.require_auth,
     has_basic      |-> i.has_basic_file \/ i.basic_users # [x \in {} |-> x],
     basic          |-> load(i.basic_file, i.basic_users),
     required_roles |-> i.auth_roles,
     bearer         |-> i.bearer,
     tls            |-> i.tls_cert,
     client_auth    |-> i.tls_client_auth,
     authz          |-> i.authz,
     super_users    |-> i.super_users,
     forward_secret |-> i.forward_secret]

-------------------------------------------------------------------------------
(* auth/ *)

(* BasicAuthStore::authenticate: the credential, plain or a bcrypt hash,   *)
(* fits, and so does a role, if roles are required.                        *)
authenticate(c, user, pass) ==
    /\ user \in DOMAIN c.basic
    /\ c.basic[user].credential = pass
    /\ \/ c.required_roles = {}
       \/ c.basic[user].roles \cap c.required_roles # {}
       \/ "*" \in c.required_roles /\ c.basic[user].roles # {}

(* mTLS, Bearer, Basic, anonymous, in this order; NoName is Unauthorized.  *)
(* A scheme that is neither Bearer nor Basic counts as no credential.      *)
resolve(c, cred, keys) ==
    CASE cred.mtls # NoName -> cred.mtls
      [] cred.mtls = NoName /\ cred.scheme = "Bearer" ->
            IF c.bearer = "unsecured" \/ (c.bearer = "jwks" /\ cred.secret \in keys)
            THEN cred.name ELSE NoName
      [] cred.mtls = NoName /\ cred.scheme = "Basic" ->
            IF c.has_basic /\ authenticate(c, cred.name, cred.secret) THEN cred.name ELSE NoName
      [] OTHER -> IF c.require_auth THEN NoName ELSE Anonymous

-------------------------------------------------------------------------------
(* authz.rs *)

(* Seeded defect: the bulk import carries no requirement. *)
import_target_missing(method) == {}

import_target(method) ==
    IF method = "POST" THEN {[type |-> "Cluster", name |-> "kafka-cluster", op |-> "Write"]} ELSE {}

(* What a request is authorized against: one target, or none. *)
authz_target(method, seg) ==
    LET topic(ops)   == IF method \in DOMAIN ops
                        THEN {[type |-> "Topic", name |-> seg[2], op |-> ops[method]]} ELSE {}
        cluster(ops) == IF method \in DOMAIN ops
                        THEN {[type |-> "Cluster", name |-> "kafka-cluster", op |-> ops[method]]} ELSE {}
        n == Len(seg)
    IN  CASE seg \in {<<"subjects">>, <<"schemas", "types">>} -> cluster([GET |-> "Describe"])
          [] n = 2 /\ seg[1] = "subjects" -> topic([POST |-> "Read", DELETE |-> "Delete"])
          [] n = 3 /\ seg[1] = "subjects" /\ seg[3] = "versions" ->
                topic([GET |-> "Read", POST |-> "Write"])
          [] n = 4 /\ seg[1] = "subjects" /\ seg[3] = "versions" ->
                topic([GET |-> "Read", DELETE |-> "Delete"])
          [] n = 5 /\ seg[1] = "subjects" /\ seg[3] = "versions" /\ seg[5] \in {"schema", "referencedby"} ->
                topic([GET |-> "Read"])
          [] seg \in {<<"config">>, <<"mode">>} -> cluster([PUT |-> "Alter", GET |-> "Describe"])
          [] n = 2 /\ seg[1] \in {"config", "mode"} ->
                topic([PUT |-> "Alter", DELETE |-> "Alter", GET |-> "Describe"])
          [] n = 5 /\ seg[1] = "compatibility" /\ seg[2] = "subjects" /\ seg[4] = "versions" ->
                IF method = "POST" THEN {[type |-> "Topic", name |-> seg[3], op |-> "Read"]} ELSE {}
          [] seg = <<"schemas", "import">> -> import_target(method)
          [] \/ seg = <<"schemas">>
             \/ n = 3 /\ seg[1] = "schemas" /\ seg[2] = "ids"
             \/ n = 4 /\ seg[1] = "schemas" /\ seg[2] = "ids" /\ seg[4] \in {"versions", "schema", "subjects"} ->
                cluster([GET |-> "Read"])
          [] OTHER -> {}

(* A MATCH pattern is a filter value, never a stored ACL. *)
acl_entry_from_admin(entries) == {e \in entries : e.pattern # "Match"}

(* SimpleAclAuthorizer: some entry allows and none denies.  Names are      *)
(* compared whole: literal patterns only, from any host.                   *)
Matches(e, principal, t) ==
    /\ e.principal = principal /\ e.type = t.type /\ e.name = t.name
    /\ e.op \in {"All", t.op}

authorize(c, cache, principal, t) ==
    \/ ~c.authz \/ principal \in c.super_users
    \/ /\ \E e \in cache : e.permission = "Allow" /\ Matches(e, principal, t)
       /\ \A e \in cache : e.permission = "Deny" => ~Matches(e, principal, t)

-------------------------------------------------------------------------------
(* rest/ *)

(* The methods that the router has a handler for. *)
router(seg) ==
    LET n == Len(seg)
    IN  CASE seg \in {<< >>, <<"schemas", "types">>, <<"schemas">>, <<"subjects">>} -> {"GET"}
          [] seg = <<"schemas", "import">> -> {"POST"}
          [] \/ n = 3 /\ seg[1] = "schemas" /\ seg[2] = "ids"
             \/ n = 4 /\ seg[1] = "schemas" /\ seg[2] = "ids" /\ seg[4] \in {"versions", "schema", "subjects"} ->
                {"GET"}
          [] n = 2 /\ seg[1] = "subjects" -> {"POST", "DELETE"}
          [] n = 3 /\ seg[1] = "subjects" /\ seg[3] = "versions" -> {"GET", "POST"}
          [] n = 4 /\ seg[1] = "subjects" /\ seg[3] = "versions" -> {"GET", "DELETE"}
          [] n = 5 /\ seg[1] = "subjects" /\ seg[3] = "versions" /\ seg[5] \in {"schema", "referencedby"} ->
                {"GET"}
          [] seg \in {<<"config">>, <<"mode">>} -> {"GET", "PUT"}
          [] n = 2 /\ seg[1] \in {"config", "mode"} -> {"GET", "PUT", "DELETE"}
          [] n = 5 /\ seg[1] = "compatibility" /\ seg[2] = "subjects" /\ seg[4] = "versions" -> {"POST"}
          [] OTHER -> {}

mutating(method) == method \in {"POST", "PUT", "DELETE", "PATCH"}

decide(method, already_forwarded, is_primary, has_url) ==
    IF ~mutating(method) \/ is_primary THEN "PassThrough"
    ELSE IF already_forwarded THEN "Retriable"
    ELSE IF has_url THEN "Forward" ELSE "Unavailable"

===============================================================================
