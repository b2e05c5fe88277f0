------------------------------ MODULE MCGateway ------------------------------
EXTENDS Gateway, TLC
CONSTANTS n1, n2

MCRank == n1 :> 1 @@ n2 :> 2

Nobody == [x \in {} |-> x]
Open ==
    [require_auth |-> FALSE, forward_secret |-> FALSE, has_basic_file |-> FALSE,
     basic_file |-> Nobody, basic_users |-> Nobody, auth_roles |-> {}, bearer |-> "off",
     jwks_endpoint_uri |-> FALSE, tls_cert |-> FALSE, tls_key |-> FALSE,
     tls_client_auth |-> "disabled", authz |-> FALSE, super_users |-> {},
     kafka_security_protocol |-> "PLAINTEXT", kafka_sasl_mechanism |-> "PLAIN",
     kafka_sasl_keytab_path |-> FALSE, kafka_sasl_client_principal |-> FALSE,
     kafka_sasl_kdc_url |-> FALSE, kafka_sasl_username |-> FALSE,
     kafka_sasl_password |-> FALSE, kafka_sasl_password_file |-> FALSE]

User(pass, roles) == [credential |-> pass, roles |-> roles]
Basic ==
    [Open EXCEPT !.require_auth = TRUE, !.forward_secret = TRUE, !.authz = TRUE,
                 !.has_basic_file = TRUE, !.super_users = {"root"}, !.auth_roles = {"dev"},
                 !.basic_file = "ann" :> User("old", {"dev"}) @@ "bob" :> User("bobs", {}),
                 !.basic_users = "ann" :> User("anns", {"dev"})]
Tls ==
    [Open EXCEPT !.require_auth = TRUE, !.forward_secret = TRUE,
                 !.bearer = "jwks", !.jwks_endpoint_uri = TRUE, !.tls_cert = TRUE, !.tls_key = TRUE,
                 !.tls_client_auth = "optional", !.super_users = {"root"},
                 !.kafka_security_protocol = "SASL_SSL", !.kafka_sasl_username = TRUE,
                 !.kafka_sasl_password_file = TRUE]
MCInputs == {Open, Basic, Tls, [Basic EXCEPT !.forward_secret = FALSE],
             [Tls EXCEPT !.tls_key = FALSE], [Tls EXCEPT !.kafka_sasl_password = TRUE]}

None  == [mtls |-> NoName, scheme |-> "none", name |-> NoName, secret |-> NoName]
Ann   == [mtls |-> NoName, scheme |-> "Basic", name |-> "ann", secret |-> "anns"]
Token == [mtls |-> NoName, scheme |-> "Bearer", name |-> "ann", secret |-> "k1"]
Root  == [mtls |-> "root", scheme |-> "none", name |-> NoName, secret |-> NoName]
Post(seg, cred) == [method |-> "POST", seg |-> seg, cred |-> cred]
MCMenu ==
    {Post(<<"subjects", "s", "versions">>, Ann), Post(<<"schemas", "import">>, Ann),
     Post(<<"subjects", "s", "versions">>, Token), Post(<<"subjects", "s", "versions">>, None),
     [method |-> "GET", seg |-> <<"subjects">>, cred |-> Root]}

Entry(name, op, perm) ==
    [type |-> "Topic", name |-> name, pattern |-> "Literal", principal |-> "ann", op |-> op,
     permission |-> perm]
MCAcls == {{Entry("s", "Write", "Allow")},
           {Entry("s", "All", "Allow"), Entry("s", "Write", "Deny")}}
===============================================================================
