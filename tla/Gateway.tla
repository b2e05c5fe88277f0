------------------------------- MODULE Gateway -------------------------------
(***************************************************************************)
(* The REST front of the registry nodes: how a node starts, serves and     *)
(* stops (main, serve.rs), and how a request passes the authentication,    *)
(* authorization and forwarding layers of the node it arrives at, possibly *)
(* of the primary as well, to its handler (router_with_security).          *)
(*                                                                         *)
(* What a node believes about the primary is external here: any view that  *)
(* Election allows (Election!ForwardDescends).  The broker's ACLs and the  *)
(* JWKS endpoint's keys are external too.  Clients do not send the headers *)
(* with which nodes mark forwarded requests.  A connection to a node that  *)
(* is gone fails; one that breaks while a forwarded request is worked on   *)
(* is modelled as breaking when the answer is sent.                        *)
(***************************************************************************)
EXTENDS Access

CONSTANTS
    Nodes, NoNode,
    Rank,           \* the order of the urls, nodes that are not eligible last
    Inputs,         \* command lines, the same for all nodes
    Menu,           \* requests: [method, seg, cred]
    Ids,            \* the requests that are made
    Acls, Keys,     \* what the broker and the JWKS endpoint may hold
    MaxChanges,     \* bound: starts, and changes of a view or of the broker's ACLs
    MaxFaults       \* bound: crashes, failures and shutdowns

Calls ==
    [method : STRING, seg : Seq(STRING),
     cred : [mtls : STRING, scheme : STRING, name : STRING, secret : STRING]]

ASSUME GatewayAssumption ==
    /\ NoNode \notin Nodes /\ Rank \in [Nodes -> Nat]
    /\ \E i \in Inputs : accepts(i)
    /\ Menu # {} /\ Menu \subseteq Calls
    /\ MaxChanges \in Nat /\ MaxFaults \in Nat

VARIABLES
    config,         \* SecurityConfig
    stage,          \* stage[n]: how far main of n is
    view,           \* view[n]: the node n names as primary, NoNode if none
    acls,           \* the broker's ACLs
    cache, keys,    \* cache[n], keys[n]: AclCache and JwksHandle
    requests,       \* requests[i]: where request i is
    granted,        \* history: ACL entries the broker has had
    cut,            \* history: nodes that crashed, or stopped without draining
    changes, faults

nodeVars == <<stage, view, cache, keys>>
vars == <<config, nodeVars, acls, requests, granted, cut, changes, faults>>

Fault == faults < MaxFaults /\ faults' = faults + 1
Joined == {n \in Nodes : stage[n] \in {"joined", "serving", "draining"}}
Working(n) == stage[n] \in {"serving", "draining"}

NotSent == [at |-> "none", req |-> CHOOSE q \in Menu : TRUE, hops |-> << >>, who |-> NoName,
            trusted |-> FALSE, answer |-> "none", handled |-> 0, lost |-> FALSE]

Init ==
    /\ config \in {build_security(i) : i \in {j \in Inputs : accepts(j)}}
    /\ stage = [n \in Nodes |-> "serving"]
    /\ view = [n \in Nodes |-> NoNode]
    /\ acls \in (IF config.authz THEN Acls ELSE {{}}) /\ granted = acls
    /\ cache = [n \in Nodes |-> {}] /\ keys = [n \in Nodes |-> {}]
    /\ requests = [i \in Ids |-> NotSent]
    /\ cut = {}
    /\ changes = 0 /\ faults = 0

-------------------------------------------------------------------------------
(* The node. *)

(* main: KafkaStore::start replays the topic, then the node joins the      *)
(* election, and only then loads credentials, connects for the ACLs, and   *)
(* binds its listener.                                                     *)
Advance(n) ==
    /\ \/ /\ stage[n] = "off" /\ stage' = [stage EXCEPT ![n] = "replayed"]
          /\ changes < MaxChanges /\ changes' = changes + 1
       \/ /\ stage[n] = "replayed" /\ stage' = [stage EXCEPT ![n] = "joined"]
          /\ UNCHANGED changes
       \/ /\ stage[n] = "joined" /\ stage' = [stage EXCEPT ![n] = "serving"]
          /\ UNCHANGED changes
    /\ UNCHANGED <<config, view, cache, keys, acls, requests, granted, cut, faults>>

(* ctrl-c. *)
Shutdown(n) ==
    /\ stage[n] = "serving" /\ Fault
    /\ stage' = [stage EXCEPT ![n] = "draining"]
    /\ UNCHANGED <<config, view, cache, keys, acls, requests, granted, cut, changes>>

(* hops are the nodes that a request has come to; an answer goes back.     *)
Here(r) == r.hops[Len(r.hops)]
Back(r) == [r EXCEPT !.hops = SubSeq(@, 1, Len(@) - 1)]

InFlight(n) == {i \in Ids : requests[i].at \notin {"none", "done"} /\ n \in Range(requests[i].hops)}

Answered(r, a) ==
    IF Len(r.hops) > 1 THEN [r EXCEPT !.at = "relay", !.answer = a]
    ELSE [r EXCEPT !.at = "done", !.answer = IF r.lost THEN "lost" ELSE a]

(* Seeded defect: an error of the forward is not answered. *)
forward_error_dropped(r) == [r EXCEPT !.at = "proxy"]

(* proxy: the request could not be sent, or its answer not be received. *)
forward_error(r) == Answered(r, "ForwardFailed")

(* What becomes of request r when n is gone: its client loses the          *)
(* connection, or the node that forwarded it gets an error.                *)
Broken(r, n) ==
    IF Here(r) = n
    THEN IF Len(r.hops) = 1 THEN [r EXCEPT !.at = "done", !.answer = "lost"]
         ELSE forward_error(Back(r))
    ELSE [r EXCEPT !.lost = TRUE]

Gone(n) ==
    /\ stage' = [stage EXCEPT ![n] = "off"]
    /\ view' = [view EXCEPT ![n] = NoNode]
    /\ cache' = [cache EXCEPT ![n] = {}] /\ keys' = [keys EXCEPT ![n] = {}]
    /\ requests' = [i \in Ids |-> IF i \in InFlight(n) THEN Broken(requests[i], n) ELSE requests[i]]
    /\ UNCHANGED <<config, acls, granted, changes>>

(* Seeded defect: serve_http does not wait for its connections. *)
drained_at_once(n) == TRUE

(* serve_http returns when its connections are done; serve_tls leaves      *)
(* them to tasks that end with the process.                                *)
drained(n) == config.tls \/ InFlight(n) = {}

Exit(n) ==
    /\ stage[n] = "draining" /\ drained(n)
    /\ Gone(n)
    /\ cut' = IF config.tls THEN cut \cup {n} ELSE cut
    /\ UNCHANGED faults

(* A crash, or a step of main that fails. *)
Crash(n) == stage[n] # "off" /\ Fault /\ Gone(n) /\ cut' = cut \cup {n}

(* The watched PrimaryState changes. *)
Believe(n, m) ==
    /\ n \in Joined /\ m # view[n] /\ changes < MaxChanges
    /\ m \in {n, NoNode} \/ (m \in Nodes /\ Rank[m] < Rank[n])
    /\ view' = [view EXCEPT ![n] = m] /\ changes' = changes + 1
    /\ UNCHANGED <<config, stage, cache, keys, acls, requests, granted, cut, faults>>

SetAcls(entries) ==
    /\ config.authz /\ entries # acls /\ changes < MaxChanges /\ changes' = changes + 1
    /\ acls' = entries /\ granted' = granted \cup entries
    /\ UNCHANGED <<config, nodeVars, requests, cut, faults>>

(* Seeded defect: the entries are added to the snapshot. *)
refreshed_merged(n) == cache[n] \cup acl_entry_from_admin(acls)

(* One round of run_acl_refresh that succeeds; one that fails keeps the    *)
(* prior snapshot and changes nothing.                                     *)
refreshed(n) == acl_entry_from_admin(acls)

run_acl_refresh(n) ==
    /\ config.authz /\ stage[n] \in {"joined", "serving"}
    /\ cache' = [cache EXCEPT ![n] = refreshed(n)]
    /\ UNCHANGED <<config, stage, view, keys, acls, requests, granted, cut, changes, faults>>

run_jwks_refresher(n) ==
    /\ config.bearer = "jwks" /\ stage[n] \in {"replayed", "joined", "serving"}
    /\ keys' = [keys EXCEPT ![n] = Keys]
    /\ UNCHANGED <<config, stage, view, cache, acls, requests, granted, cut, changes, faults>>

-------------------------------------------------------------------------------
(* The request. *)

Moved(i, r) ==
    /\ requests' = [requests EXCEPT ![i] = r]
    /\ UNCHANGED <<config, nodeVars, acls, granted, cut, changes>>

(* Accepted by the listener of n; a draining node accepts no more. *)
Receive(i, q, n) ==
    /\ requests[i].at = "none" /\ stage[n] = "serving"
    /\ q.cred.mtls = NoName \/ (config.tls /\ config.client_auth # "disabled")
    /\ Moved(i, [NotSent EXCEPT !.at = "auth", !.req = q, !.hops = <<n>>])
    /\ UNCHANGED faults

NoCredential == [mtls |-> NoName, scheme |-> "none", name |-> NoName, secret |-> NoName]

(* A forwarded request carries the secret, and no credential of its own.   *)
auth_layer(i) ==
    LET r         == requests[i]
        forwarded == Len(r.hops) > 1
        who       == resolve(config, IF forwarded THEN NoCredential ELSE r.req.cred, keys[Here(r)])
    IN  /\ r.at = "auth"
        /\ Moved(i, IF forwarded /\ config.forward_secret
                    THEN [r EXCEPT !.at = "authz", !.who = Anonymous, !.trusted = TRUE]
                    ELSE IF who = NoName THEN Answered(r, "Unauthorized")
                    ELSE [r EXCEPT !.at = "authz", !.who = who, !.trusted = FALSE])
        /\ UNCHANGED faults

authz_layer(i) ==
    LET r      == requests[i]
        target == authz_target(r.req.method, r.req.seg)
    IN  /\ r.at = "authz"
        /\ Moved(i, IF \/ ~config.authz \/ r.trusted
                       \/ \A t \in target : authorize(config, cache[Here(r)], r.who, t)
                    THEN [r EXCEPT !.at = "forward"] ELSE Answered(r, "Forbidden"))
        /\ UNCHANGED faults

forward_layer(i) ==
    LET r == requests[i]
        n == Here(r)
        d == decide(r.req.method, Len(r.hops) > 1, view[n] = n, view[n] # NoNode)
    IN  /\ r.at = "forward"
        /\ CASE d = "PassThrough" -> Moved(i, [r EXCEPT !.at = "handle"]) /\ UNCHANGED faults
             [] d \in {"Retriable", "Unavailable"} ->
                   Moved(i, Answered(r, "UnknownLeader")) /\ UNCHANGED faults
             [] d = "Forward" ->
                   \/ /\ stage[view[n]] = "serving"
                      /\ Moved(i, [r EXCEPT !.at = "auth", !.hops = Append(@, view[n])])
                      /\ UNCHANGED faults
                   \/ /\ stage[view[n]] # "serving"
                      /\ Moved(i, forward_error(r))
                      /\ UNCHANGED faults
                   \/ Fault /\ \E s \in {Answered(r, "InvalidRequest"), forward_error(r)} : Moved(i, s)

(* The handler, whose effect on the store is the subject of Registry and   *)
(* PrimaryWrites.                                                          *)
Handle(i) ==
    LET r == requests[i]
    IN  /\ r.at = "handle"
        /\ Moved(i, IF r.req.method \in router(r.req.seg)
                    THEN Answered([r EXCEPT !.handled = @ + 1], "Handled")
                    ELSE Answered(r, "NoRoute"))
        /\ UNCHANGED faults

(* Seeded defect: a forward whose answer is lost is sent again. *)
answer_lost_retry(r) == {[r EXCEPT !.at = "forward"]}

(* The connection breaks before the primary's status, or in its body.      *)
answer_lost(r) == {forward_error(r), Answered(r, "Empty")}

(* proxy, on the answer of the primary. *)
Relay(i) ==
    LET r == requests[i]
    IN  /\ r.at = "relay"
        /\ \/ Moved(i, Answered(Back(r), r.answer)) /\ UNCHANGED faults
           \/ Fault /\ \E s \in answer_lost(Back(r)) : Moved(i, s)

Serve(i) ==
    /\ requests[i].at \notin {"none", "done"}
    /\ auth_layer(i) \/ authz_layer(i) \/ forward_layer(i) \/ Handle(i) \/ Relay(i)

Next ==
    \/ \E n \in Nodes :
          \/ Advance(n) \/ Shutdown(n) \/ Exit(n) \/ Crash(n)
          \/ run_acl_refresh(n) \/ run_jwks_refresher(n)
          \/ \E m \in Nodes \cup {NoNode} : Believe(n, m)
    \/ \E entries \in Acls : SetAcls(entries)
    \/ \E i \in Ids : Serve(i) \/ \E q \in Menu, n \in Nodes : Receive(i, q, n)

Spec == Init /\ [][Next]_vars

(* Tasks run, and a refresh succeeds again and again.  Nothing is assured  *)
(* of clients, views and ACLs, nor of a start or a shutdown under way.     *)
Fairness ==
    /\ \A i \in Ids : WF_vars(Serve(i))
    /\ \A n \in Nodes : WF_vars(run_acl_refresh(n)) /\ WF_vars(run_jwks_refresher(n))

LiveSpec == Spec /\ Fairness

-------------------------------------------------------------------------------
(* Properties. *)

(* A request is handled at most once, and one that was refused (401, 403,  *)
(* no leader) was handled nowhere: a client may repeat it.  This is not so *)
(* of ForwardFailed, of an empty answer and of a lost connection.          *)
HandledOnce ==
    \A i \in Ids : /\ requests[i].handled <= 1
                   /\ requests[i].answer \in {"Unauthorized", "Forbidden", "UnknownLeader"} =>
                          requests[i].handled = 0

(* A request that a node admitted and forwarded is not turned away by the  *)
(* primary for want of a credential or a permission: only the node the     *)
(* client is connected to answers 401 or 403, in every configuration that  *)
(* build_security accepts (proxy leaves the credential out).               *)
IngressDecides ==
    \A i \in Ids : requests[i].at = "relay" => requests[i].answer \notin {"Unauthorized", "Forbidden"}

(* The requests that change the registry, and of what. *)
Changed(q) ==
    LET cluster == [type |-> "Cluster", name |-> "kafka-cluster"]
        subject == [type |-> "Topic", name |-> q.seg[2]]
    IN  CASE q.method = "POST" /\ q.seg = <<"schemas", "import">> -> {cluster}
          [] q.method \in {"PUT", "DELETE"} /\ q.method \in router(q.seg) ->
                {IF Len(q.seg) = 1 THEN cluster ELSE subject}
          [] q.method = "POST" /\ Len(q.seg) = 3 /\ q.method \in router(q.seg) -> {subject}
          [] OTHER -> {}

(* Whom a credential names, if it holds. *)
Principal(cred) ==
    IF cred.mtls # NoName THEN cred.mtls
    ELSE IF cred.scheme \in {"Bearer", "Basic"} THEN cred.name ELSE Anonymous

(* An ACL entry among those given lets q's principal make q's change.      *)
Permitted(c, entries, q) ==
    \A what \in Changed(q) :
        \/ Principal(q.cred) \in c.super_users
        \/ \E e \in entries : /\ e.permission = "Allow" /\ e.principal = Principal(q.cred)
                              /\ e.type = what.type /\ e.name = what.name
                              /\ e.op \in {"All", "Write", "Delete", "Alter"}

(* With authorization on, a change is only made for a principal that the   *)
(* broker's ACLs have at some time let change that subject or the cluster, *)
(* whichever nodes the request passed and however old their snapshots are. *)
GrantedWhenHandled ==
    \A i \in Ids : config.authz /\ requests[i].handled > 0 =>
                       Permitted(config, granted, requests[i].req)

(* A node that is stopped over plain HTTP finishes the requests it has     *)
(* taken: a client loses its connection only to a crash, or to a node that *)
(* serves TLS (serve_http drains, serve_tls does not).                     *)
DrainLosesNothing ==
    \A i \in Ids : requests[i].answer = "lost" \/ requests[i].lost => cut # {}

(* Every request that a node has taken is answered, or its connection is   *)
(* lost; in particular none is forwarded round and round, and a primary    *)
(* that has joined the election but does not listen yet keeps none         *)
(* waiting.                                                                *)
RequestsAnswered == \A i \in Ids : (requests[i].at # "none") ~> (requests[i].at = "done")

(* A node that keeps serving comes to decide by the broker's present ACLs, *)
(* revoked ones gone, and to know the keys of the JWKS endpoint.           *)
SnapshotsFollow ==
    \A n \in Nodes : <>[](stage[n] = "serving") =>
        /\ <>[](config.authz => cache[n] = acl_entry_from_admin(acls))
        /\ <>[](config.bearer = "jwks" => keys[n] = Keys)

===============================================================================
