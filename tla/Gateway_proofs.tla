---------------------------- MODULE Gateway_proofs ----------------------------
(***************************************************************************)
(* Theorems about the REST front, for any nodes, command lines, requests   *)
(* and ACLs: what a request has passed decides what it may still become,   *)
(* whichever nodes crash, stop or change their mind about the primary.     *)
(***************************************************************************)
EXTENDS Gateway, TLAPS

-------------------------------------------------------------------------------
(* The inductive invariant. *)

Before == {"none", "auth", "authz", "forward", "handle"}
Refusals == {"Unauthorized", "Forbidden", "UnknownLeader"}
Answers ==
    Refusals \cup {"none", "ForwardFailed", "InvalidRequest", "Handled", "NoRoute", "Empty", "lost"}

Names == STRING \cup {NoName, Anonymous}

Requests ==
    [at : Before \cup {"relay", "done"}, req : Calls, hops : Seq(Nodes), who : Names,
     trusted : BOOLEAN, answer : Answers, handled : 0..1, lost : BOOLEAN]

(* Nothing is answered before the handler, and a refusal is no handling.   *)
Progress(r) ==
    /\ r.at # "none" => Len(r.hops) > 0
    /\ r.at = "relay" => Len(r.hops) > 1
    /\ r.at \in Before => r.handled = 0 /\ r.answer = "none"
    /\ r.answer \in Refusals => r.handled = 0

(* A node that a request was forwarded to does not turn it away. *)
Ingress(c, r) ==
    /\ r.at = "relay" => r.answer \notin {"Unauthorized", "Forbidden"}
    /\ r.at = "authz" /\ Len(r.hops) > 1 => r.trusted \/ ~c.authz

(* A request beyond the authorization of the node it came to is permitted, *)
(* and so is one that was forwarded; g are the entries the broker has had. *)
Passed(c, g, r) ==
    /\ r.at = "authz" /\ Len(r.hops) = 1 => ~r.trusted /\ r.who = Principal(r.req.cred)
    /\ c.authz /\ (r.at \in {"forward", "handle"} \/ Len(r.hops) > 1 \/ r.handled > 0) =>
          Permitted(c, g, r.req)

(* x are the nodes that crashed, or stopped without draining. *)
Kept(x, r) == r.answer = "lost" \/ r.lost => x # {}

RequestInv(c, g, x, r) ==
    r \in Requests /\ Progress(r) /\ Ingress(c, r) /\ Passed(c, g, r) /\ Kept(x, r)

(* What build_security accepts has a secret for forwarding where it is     *)
(* needed; no node has an ACL entry that the broker never had.             *)
NodeInv ==
    /\ config.authz \/ config.require_auth => config.forward_secret
    /\ acls \subseteq granted /\ \A n \in Nodes : cache[n] \subseteq granted
    /\ DOMAIN cache = Nodes /\ DOMAIN requests = Ids
    /\ view \in [Nodes -> Nodes \cup {NoNode}]

GateInv == NodeInv /\ \A i \in Ids : RequestInv(config, granted, cut, requests[i])

-------------------------------------------------------------------------------
(* Access. *)

(* resolve names the principal of the credential, or nobody. *)
LEMMA ResolveFacts ==
    ASSUME NEW c, NEW cred, NEW ks
    PROVE  /\ resolve(c, cred, ks) \in {NoName, Principal(cred)}
           /\ ~c.require_auth => resolve(c, NoCredential, ks) = Anonymous
  <1>1. resolve(c, cred, ks) \in {NoName, Principal(cred)}
    BY DEF resolve, Principal
  <1>2. ASSUME ~c.require_auth PROVE resolve(c, NoCredential, ks) = Anonymous
    BY <1>2 DEF resolve, NoCredential, NoName
  <1> QED  BY <1>1, <1>2

(* A principal is a name. *)
LEMMA PrincipalNames ==
    Anonymous \in Names /\ NoName \in Names /\ \A q \in Calls : Principal(q.cred) \in Names
  <1>1. \A q \in Calls : q.cred.mtls \in STRING /\ q.cred.name \in STRING
    BY DEF Calls
  <1> QED  BY <1>1, Zenon DEF Principal, Names

(* Where the router has a handler that changes something. *)
LEMMA RouterFacts ==
    ASSUME NEW seg \in Seq(STRING)
    PROVE  /\ "PUT" \in router(seg) => \/ seg \in {<<"config">>, <<"mode">>}
                                       \/ Len(seg) = 2 /\ seg[1] \in {"config", "mode"}
           /\ "DELETE" \in router(seg) =>
                 \/ Len(seg) = 2 /\ seg[1] \in {"config", "mode", "subjects"}
                 \/ Len(seg) = 4 /\ seg[1] = "subjects" /\ seg[3] = "versions"
           /\ "POST" \in router(seg) /\ Len(seg) = 3 => seg[1] = "subjects" /\ seg[3] = "versions"
  <1>1. "PUT" \in router(seg) => \/ seg \in {<<"config">>, <<"mode">>}
                                 \/ Len(seg) = 2 /\ seg[1] \in {"config", "mode"}
    BY DEF router
  <1>2. "DELETE" \in router(seg) =>
           \/ Len(seg) = 2 /\ seg[1] \in {"config", "mode", "subjects"}
           \/ Len(seg) = 4 /\ seg[1] = "subjects" /\ seg[3] = "versions"
    BY DEF router
  <1>3. ASSUME "POST" \in router(seg), Len(seg) = 3
        PROVE  seg[1] = "subjects" /\ seg[3] = "versions"
    <2>1. \A x : Len(x) # 3 => seg # x
      BY <1>3, Zenon
    <2>2. /\ Len(<< >>) # 3 /\ Len(<<"schemas">>) # 3 /\ Len(<<"subjects">>) # 3
          /\ Len(<<"schemas", "types">>) # 3 /\ Len(<<"schemas", "import">>) # 3
          /\ Len(<<"config">>) # 3 /\ Len(<<"mode">>) # 3
      OBVIOUS
    <2>3. /\ seg \notin {<< >>, <<"schemas", "types">>, <<"schemas">>, <<"subjects">>}
          /\ seg # <<"schemas", "import">> /\ seg \notin {<<"config">>, <<"mode">>}
      BY <2>1, <2>2, Zenon
    <2>4. Len(seg) # 2 /\ Len(seg) # 4 /\ Len(seg) # 5
      BY <1>3
    <2> QED  BY <1>3, <2>3, <2>4, ZenonT(30) DEF router
  <1> QED  BY <1>1, <1>2, <1>3

(* What these requests are authorized against. *)
Target(type, name, op) == {[type |-> type, name |-> name, op |-> op]}

(* authz_target of an import, of the registry-wide and per-subject         *)
(* settings, and of the registrations and deletions of a subject.          *)
LEMMA TargetFacts ==
    ASSUME NEW seg \in Seq(STRING)
    PROVE  /\ authz_target("POST", <<"schemas", "import">>) =
                 Target("Cluster", "kafka-cluster", "Write")
           /\ seg \in {<<"config">>, <<"mode">>} =>
                 authz_target("PUT", seg) = Target("Cluster", "kafka-cluster", "Alter")
           /\ Len(seg) = 2 /\ seg[1] \in {"config", "mode"} =>
                 \A m \in {"PUT", "DELETE"} : authz_target(m, seg) = Target("Topic", seg[2], "Alter")
           /\ Len(seg) = 2 /\ seg[1] = "subjects" =>
                 authz_target("DELETE", seg) = Target("Topic", seg[2], "Delete")
           /\ Len(seg) = 4 /\ seg[1] = "subjects" /\ seg[3] = "versions" =>
                 authz_target("DELETE", seg) = Target("Topic", seg[2], "Delete")
           /\ Len(seg) = 3 /\ seg[1] = "subjects" /\ seg[3] = "versions" =>
                 authz_target("POST", seg) = Target("Topic", seg[2], "Write")
  <1>1. authz_target("POST", <<"schemas", "import">>) = Target("Cluster", "kafka-cluster", "Write")
    BY DEF authz_target, import_target, Target
  <1>2. ASSUME seg \in {<<"config">>, <<"mode">>}
        PROVE  authz_target("PUT", seg) = Target("Cluster", "kafka-cluster", "Alter")
    BY <1>2 DEF authz_target, Target
  <1>3. ASSUME Len(seg) = 2, seg[1] \in {"config", "mode"}, NEW m \in {"PUT", "DELETE"}
        PROVE  authz_target(m, seg) = Target("Topic", seg[2], "Alter")
    BY <1>3 DEF authz_target, Target
  <1>4. ASSUME Len(seg) = 2, seg[1] = "subjects"
        PROVE  authz_target("DELETE", seg) = Target("Topic", seg[2], "Delete")
    BY <1>4 DEF authz_target, Target
  <1>5. ASSUME Len(seg) = 4, seg[1] = "subjects", seg[3] = "versions"
        PROVE  authz_target("DELETE", seg) = Target("Topic", seg[2], "Delete")
    BY <1>5 DEF authz_target, Target
  <1>6. ASSUME Len(seg) = 3, seg[1] = "subjects", seg[3] = "versions"
        PROVE  authz_target("POST", seg) = Target("Topic", seg[2], "Write")
    BY <1>6 DEF authz_target, Target
  <1> QED  BY <1>1, <1>2, <1>3, <1>4, <1>5, <1>6, Zenon

(* Every change has a target, whose operation is one of those that change. *)
LEMMA ChangeHasTarget ==
    ASSUME NEW q \in Calls, NEW what \in Changed(q)
    PROVE  \E op \in {"Write", "Delete", "Alter"} :
              authz_target(q.method, q.seg) = Target(what.type, what.name, op)
  <1> DEFINE cluster == [type |-> "Cluster", name |-> "kafka-cluster"]
             subject == [type |-> "Topic", name |-> q.seg[2]]
  <1>1. /\ q.seg \in Seq(STRING)
        /\ cluster.type = "Cluster" /\ cluster.name = "kafka-cluster"
        /\ subject.type = "Topic" /\ subject.name = q.seg[2]
    BY DEF Calls
  <1>2. \/ q.method = "POST" /\ q.seg = <<"schemas", "import">> /\ what = cluster
        \/ /\ q.method \in {"PUT", "DELETE"} /\ q.method \in router(q.seg)
           /\ what = IF Len(q.seg) = 1 THEN cluster ELSE subject
        \/ q.method = "POST" /\ Len(q.seg) = 3 /\ q.method \in router(q.seg) /\ what = subject
    BY DEF Changed
  <1>3. CASE q.method = "POST" /\ q.seg = <<"schemas", "import">> /\ what = cluster
    BY <1>1, <1>3, TargetFacts, Zenon
  <1>4. CASE /\ q.method \in {"PUT", "DELETE"} /\ q.method \in router(q.seg)
             /\ what = IF Len(q.seg) = 1 THEN cluster ELSE subject
    <2>1. CASE q.method = "PUT" /\ q.seg \in {<<"config">>, <<"mode">>}
      <3>1. Len(<<"config">>) = 1 /\ Len(<<"mode">>) = 1
        OBVIOUS
      <3>2. what = cluster
        BY <1>4, <2>1, <3>1, Zenon
      <3> QED  BY <1>1, <2>1, <3>2, TargetFacts, Zenon
    <2>2. CASE \/ Len(q.seg) = 2 /\ q.seg[1] \in {"config", "mode"}
               \/ q.method = "DELETE" /\ Len(q.seg) = 2 /\ q.seg[1] = "subjects"
               \/ q.method = "DELETE" /\ Len(q.seg) = 4 /\ q.seg[1] = "subjects" /\ q.seg[3] = "versions"
      <3>1. Len(q.seg) # 1
        BY <2>2
      <3>2. what = subject
        BY <1>4, <3>1, Zenon
      <3> QED  BY <1>1, <1>4, <2>2, <3>2, TargetFacts, Zenon
    <2> QED  BY <1>1, <1>4, <2>1, <2>2, RouterFacts, Zenon
  <1>5. CASE q.method = "POST" /\ Len(q.seg) = 3 /\ q.method \in router(q.seg) /\ what = subject
    BY <1>1, <1>5, RouterFacts, TargetFacts, Zenon
  <1> QED  BY <1>2, <1>3, <1>4, <1>5, Zenon

(* A request whose targets are authorized, from entries the broker had, is *)
(* permitted.                                                              *)
LEMMA Admits ==
    ASSUME NEW c, NEW g, NEW q \in Calls, NEW entries \in SUBSET g, c.authz,
           \A t \in authz_target(q.method, q.seg) :
              authorize(c, entries, Principal(q.cred), t)
    PROVE  Permitted(c, g, q)
  <1> SUFFICES ASSUME NEW what \in Changed(q), Principal(q.cred) \notin c.super_users
               PROVE  \E e \in g :
                         /\ e.permission = "Allow" /\ e.principal = Principal(q.cred)
                         /\ e.type = what.type /\ e.name = what.name
                         /\ e.op \in {"All", "Write", "Delete", "Alter"}
    BY Zenon DEF Permitted
  <1>0. PICK op \in {"Write", "Delete", "Alter"} :
           authz_target(q.method, q.seg) = Target(what.type, what.name, op)
    BY ChangeHasTarget, Zenon
  <1>1. PICK t \in authz_target(q.method, q.seg) :
           /\ t.type = what.type /\ t.name = what.name
           /\ t.op \in {"Write", "Delete", "Alter"}
    BY <1>0 DEF Target
  <1>2. PICK e \in entries : e.permission = "Allow" /\ Matches(e, Principal(q.cred), t)
    BY <1>1, Zenon DEF authorize
  <1>3. e.op \in {"All", "Write", "Delete", "Alter"}
    BY <1>1, <1>2 DEF Matches
  <1> QED  BY <1>1, <1>2, <1>3, Zenon DEF Matches

-------------------------------------------------------------------------------
(* One request. *)

(* Where a request is, and where its answer goes back to. *)
LEMMA HopFacts ==
    ASSUME NEW r \in Requests, Len(r.hops) > 0
    PROVE  /\ Here(r) \in Nodes /\ Back(r) \in Requests
           /\ Len(r.hops) \in Nat /\ Len(Back(r).hops) = Len(r.hops) - 1
           /\ Len(r.hops) # 1 <=> Len(r.hops) > 1
           /\ Back(r).req = r.req /\ Back(r).handled = r.handled /\ Back(r).lost = r.lost
           /\ Back(r).answer = r.answer
  <1> DEFINE front == SubSeq(r.hops, 1, Len(r.hops) - 1)
  <1>1. r.hops \in Seq(Nodes)
    BY DEF Requests
  <1>2. front \in Seq(Nodes) /\ Len(front) = Len(r.hops) - 1
    <2>1. \A hops \in Seq(Nodes) : \A n \in 0..Len(hops) :
             SubSeq(hops, 1, n) \in Seq(Nodes) /\ Len(SubSeq(hops, 1, n)) = n
      OBVIOUS
    <2>2. Len(r.hops) - 1 \in 0..Len(r.hops)
      BY <1>1
    <2> QED  BY <1>1, <2>1, <2>2, Zenon
  <1>3. Here(r) \in Nodes /\ Len(r.hops) \in Nat
    BY <1>1 DEF Here
  <1>4. Back(r) = [r EXCEPT !.hops = front]
    BY Zenon DEF Back
  <1> HIDE DEF front
  <1>5. /\ Back(r) \in Requests /\ Back(r).hops = front
        /\ Back(r).req = r.req /\ Back(r).handled = r.handled /\ Back(r).lost = r.lost
        /\ Back(r).answer = r.answer
    BY <1>2, <1>4 DEF Requests
  <1>6. \A k \in Nat : k > 0 => (k # 1 <=> k > 1)
    OBVIOUS
  <1> QED  BY <1>2, <1>3, <1>5, <1>6, Zenon

(* An answer, at the node a request has come to. *)
LEMMA AnsweredInv ==
    ASSUME NEW c, NEW g, NEW x, NEW r \in Requests, NEW a \in Answers, Len(r.hops) > 0,
           a \in Refusals => r.handled = 0,
           Len(r.hops) > 1 => a \notin {"Unauthorized", "Forbidden"},
           (c.authz /\ (Len(r.hops) > 1 \/ r.handled > 0)) => Permitted(c, g, r.req),
           Kept(x, r), a = "lost" => x # {}
    PROVE  RequestInv(c, g, x, Answered(r, a))
  <1> DEFINE s == Answered(r, a)
  <1>1. /\ s \in Requests /\ s.at \in {"relay", "done"} /\ s.answer \in {a, "lost"}
        /\ s.hops = r.hops /\ s.req = r.req /\ s.handled = r.handled /\ s.lost = r.lost
        /\ s.at = "relay" <=> Len(r.hops) > 1
        /\ s.at = "relay" => s.answer = a
        /\ s.answer = "lost" => a = "lost" \/ r.lost
    <2>1. \A y : y \in {"relay", "done"} => [r EXCEPT !.at = y, !.answer = a] \in Requests
      BY Zenon DEF Requests
    <2>2. [r EXCEPT !.at = "done", !.answer = "lost"] \in Requests
      BY Zenon DEF Requests, Answers
    <2> QED  BY <2>1, <2>2, Zenon DEF Answered, Requests
  <1> HIDE DEF s
  <1>2. Progress(s)
    BY <1>1, ZenonT(30) DEF Progress, Before, Refusals
  <1>3. Ingress(c, s)
    BY <1>1, Zenon DEF Ingress
  <1>4. Passed(c, g, s)
    BY <1>1, Zenon DEF Passed
  <1>5. Kept(x, s)
    BY <1>1, Zenon DEF Kept
  <1> QED  BY <1>1, <1>2, <1>3, <1>4, <1>5, Zenon DEF RequestInv, s

(* A node that has forwarded a request answers it in one of these ways. *)
LEMMA ForwardAnswers ==
    \A a \in {"ForwardFailed", "InvalidRequest", "Empty"} :
        a \in Answers \ Refusals /\ a \notin {"Unauthorized", "Forbidden", "lost"}
  BY DEF Answers, Refusals

(* The node that forwarded a request answers it: its error, or the answer  *)
(* that came back.                                                         *)
LEMMA BackInv ==
    ASSUME NEW c, NEW g, NEW x, NEW r, RequestInv(c, g, x, r), Len(r.hops) > 1,
           NEW a \in Answers, a \in Refusals => r.handled = 0,
           a \notin {"Unauthorized", "Forbidden"}, a = "lost" => x # {}
    PROVE  RequestInv(c, g, x, Answered(Back(r), a))
  <1>1. r \in Requests /\ r.hops \in Seq(Nodes)
    BY DEF RequestInv, Requests
  <1>2. Len(r.hops) > 0 /\ Len(r.hops) - 1 > 0
    BY <1>1
  <1>3. /\ Back(r) \in Requests /\ Len(Back(r).hops) > 0
        /\ Back(r).req = r.req /\ Back(r).handled = r.handled /\ Back(r).lost = r.lost
        /\ Back(r).answer = r.answer
    BY <1>1, <1>2, HopFacts, Zenon
  <1>4. c.authz => Permitted(c, g, r.req)
    BY Zenon DEF RequestInv, Passed
  <1>5. Kept(x, Back(r))
    BY <1>3, Zenon DEF RequestInv, Kept
  <1> QED  BY <1>3, <1>4, <1>5, AnsweredInv, Zenon

(* A node is gone: the client, or the node that forwarded, notices.        *)
LEMMA BrokenInv ==
    ASSUME NEW c, NEW g, NEW x, NEW r, RequestInv(c, g, x, r), r.at \notin {"none", "done"},
           NEW n, x # {}
    PROVE  RequestInv(c, g, x, Broken(r, n))
  <1>1. r \in Requests /\ Len(r.hops) > 0 /\ r.hops \in Seq(Nodes)
    BY DEF RequestInv, Progress, Requests
  <1>2. CASE Here(r) = n /\ Len(r.hops) = 1
    <2> DEFINE s == [r EXCEPT !.at = "done", !.answer = "lost"]
    <2>1. Broken(r, n) = s
      BY <1>2, Zenon DEF Broken
    <2>2. /\ s \in Requests /\ s.at = "done" /\ s.answer = "lost" /\ s.hops = r.hops
          /\ s.handled = r.handled /\ s.req = r.req
      BY <1>1, Zenon DEF Requests, Answers
    <2> HIDE DEF s
    <2>3. Progress(s) /\ Ingress(c, s) /\ Kept(x, s)
      BY <1>1, <2>2 DEF Progress, Ingress, Kept, Before, Refusals
    <2>4. Passed(c, g, s)
      BY <2>2, Zenon DEF Passed, RequestInv
    <2> QED  BY <2>1, <2>2, <2>3, <2>4, Zenon DEF RequestInv
  <1>3. CASE Here(r) = n /\ Len(r.hops) # 1
    <2>1. Broken(r, n) = Answered(Back(r), "ForwardFailed")
      BY <1>3, Zenon DEF Broken, forward_error
    <2>2. Len(r.hops) > 1
      BY <1>1, <1>3, HopFacts, Zenon
    <2> QED  BY <2>1, <2>2, BackInv, ForwardAnswers, Zenon
  <1>4. CASE Here(r) # n
    <2> DEFINE s == [r EXCEPT !.lost = TRUE]
    <2>1. Broken(r, n) = s
      BY <1>4, Zenon DEF Broken
    <2>2. /\ s \in Requests /\ s.at = r.at /\ s.answer = r.answer /\ s.hops = r.hops
          /\ s.handled = r.handled /\ s.req = r.req /\ s.trusted = r.trusted /\ s.who = r.who
      BY <1>1, Zenon DEF Requests
    <2>3. Kept(x, s)
      BY Zenon DEF Kept
    <2> HIDE DEF s
    <2> QED  BY <2>1, <2>2, <2>3, Zenon DEF RequestInv, Progress, Ingress, Passed
  <1> QED  BY <1>2, <1>3, <1>4, Zenon

(* More entries and more crashes do not hurt a request.                    *)
LEMMA Persists ==
    ASSUME NEW c, NEW g, NEW x, NEW h, NEW y, NEW r, RequestInv(c, g, x, r),
           g \subseteq h, x \subseteq y
    PROVE  RequestInv(c, h, y, r)
  <1>1. \A q : Permitted(c, g, q) => Permitted(c, h, q)
    BY Zenon DEF Permitted
  <1>2. Passed(c, h, r)
    BY <1>1, Zenon DEF RequestInv, Passed
  <1>3. Kept(y, r)
    BY Zenon DEF RequestInv, Kept
  <1> QED  BY <1>2, <1>3, Zenon DEF RequestInv


-------------------------------------------------------------------------------
(* The steps. *)

(* A request that nobody has made yet, and one that has just been made. *)
LEMMA NewRequest ==
    ASSUME NEW c, NEW g, NEW x
    PROVE  /\ RequestInv(c, g, x, NotSent)
           /\ \A q \in Menu, n \in Nodes :
                 RequestInv(c, g, x, [NotSent EXCEPT !.at = "auth", !.req = q, !.hops = <<n>>])
  <1>1. (CHOOSE q \in Menu : TRUE) \in Calls /\ Menu \subseteq Calls
    BY GatewayAssumption, Zenon
  <1>2. /\ NotSent \in Requests /\ NotSent.at = "none" /\ Len(NotSent.hops) = 0
        /\ NotSent.answer = "none" /\ NotSent.handled = 0 /\ NotSent.lost = FALSE
    <2>1. << >> \in Seq(Nodes) /\ Len(<< >>) = 0 /\ 0 \in 0..1
      OBVIOUS
    <2>2. "none" \in Before /\ "none" \in Answers
      BY DEF Before, Answers
    <2>3. /\ NotSent.at = "none" /\ NotSent.hops = << >>
          /\ NotSent.answer = "none" /\ NotSent.handled = 0 /\ NotSent.lost = FALSE
      BY Zenon DEF NotSent
    <2>4. NotSent \in Requests
      BY <1>1, <2>1, <2>2, PrincipalNames, Zenon DEF NotSent, Requests
    <2> QED  BY <2>1, <2>3, <2>4, Zenon
  <1>3. RequestInv(c, g, x, NotSent)
    BY <1>2 DEF RequestInv, Progress, Ingress, Passed, Kept, Refusals
  <1>4. ASSUME NEW q \in Menu, NEW n \in Nodes
        PROVE  RequestInv(c, g, x, [NotSent EXCEPT !.at = "auth", !.req = q, !.hops = <<n>>])
    <2> DEFINE s == [NotSent EXCEPT !.at = "auth", !.req = q, !.hops = <<n>>]
    <2>1. <<n>> \in Seq(Nodes) /\ Len(<<n>>) = 1
      OBVIOUS
    <2>2. /\ s \in Requests /\ s.at = "auth" /\ s.hops = <<n>>
          /\ s.answer = "none" /\ s.handled = 0 /\ s.lost = FALSE
      BY <1>1, <1>2, <2>1, Zenon DEF Requests, Before
    <2> HIDE DEF s
    <2>3. Len(s.hops) = 1
      BY <2>1, <2>2, Zenon
    <2> QED  BY <2>2, <2>3 DEF RequestInv, Progress, Ingress, Passed, Kept, Refusals, s
  <1> QED  BY <1>3, <1>4, Zenon

(* A step of one request. *)
LEMMA MovedInv ==
    ASSUME GateInv, NEW i \in Ids, NEW s, RequestInv(config, granted, cut, s), Moved(i, s)
    PROVE  GateInv'
  <1>1. NodeInv'
    BY Zenon DEF GateInv, NodeInv, Moved, nodeVars
  <1>2. \A j \in Ids : requests'[j] = s \/ requests'[j] = requests[j]
    BY Zenon DEF GateInv, NodeInv, Moved
  <1>3. config' = config /\ granted' = granted /\ cut' = cut
    BY Zenon DEF Moved
  <1> QED  BY <1>1, <1>2, <1>3, Zenon DEF GateInv

(* A step that leaves the requests alone. *)
LEMMA QuietInv ==
    ASSUME GateInv, NodeInv', config' = config, requests' = requests,
           granted \subseteq granted', cut \subseteq cut'
    PROVE  GateInv'
  BY Persists, Zenon DEF GateInv

(* main, and the tasks of a node. *)
LEMMA AdvanceStep ==
    ASSUME GateInv, NEW n \in Nodes, Advance(n) \/ Shutdown(n)
    PROVE  GateInv'
  BY Zenon DEF GateInv, NodeInv, Advance, Shutdown

(* A node that is gone has nothing of what it knew. *)
LEMMA GoneStep ==
    ASSUME GateInv, NEW n \in Nodes, Gone(n), cut \subseteq cut',
           cut' # {} \/ InFlight(n) = {}
    PROVE  GateInv'
  <1>1. NodeInv'
    <2>1. view' \in [Nodes -> Nodes \cup {NoNode}]
      BY DEF GateInv, NodeInv, Gone
    <2>2. \A m \in Nodes : cache'[m] \subseteq granted
      BY DEF GateInv, NodeInv, Gone
    <2>3. DOMAIN cache' = Nodes /\ DOMAIN requests' = Ids
      BY Zenon DEF GateInv, NodeInv, Gone
    <2> QED  BY <2>1, <2>2, <2>3, Zenon DEF GateInv, NodeInv, Gone
  <1>2. ASSUME NEW i \in Ids PROVE RequestInv(config, granted, cut', requests'[i])
    <2>1. RequestInv(config, granted, cut', requests[i])
      BY Persists, Zenon DEF GateInv
    <2>2. CASE i \in InFlight(n)
      <3>1. requests'[i] = Broken(requests[i], n)
        BY <2>2, Zenon DEF Gone
      <3>2. requests[i].at \notin {"none", "done"} /\ cut' # {}
        BY <2>2, Zenon DEF InFlight
      <3> QED  BY <2>1, <3>1, <3>2, BrokenInv, Zenon
    <2>3. CASE i \notin InFlight(n)
      BY <2>1, <2>3, Zenon DEF Gone
    <2> QED  BY <2>2, <2>3, Zenon
  <1>3. config' = config /\ granted' = granted
    BY Zenon DEF Gone
  <1> QED  BY <1>1, <1>2, <1>3, Zenon DEF GateInv

(* Over plain HTTP a node leaves when no request needs it. *)
LEMMA LeaveStep ==
    ASSUME GateInv, NEW n \in Nodes, Exit(n) \/ Crash(n)
    PROVE  GateInv'
  <1>1. Gone(n) /\ cut \subseteq cut' /\ (cut' # {} \/ InFlight(n) = {})
    BY Zenon DEF Exit, Crash, drained
  <1> QED  BY <1>1, GoneStep, Zenon

(* A node learns of another primary, or of none: no request moves. *)
LEMMA BelieveStep ==
    ASSUME GateInv, NEW n \in Nodes, NEW m \in Nodes \cup {NoNode}, Believe(n, m)
    PROVE  GateInv'
  <1>1. view' \in [Nodes -> Nodes \cup {NoNode}]
    BY DEF GateInv, NodeInv, Believe
  <1>2. NodeInv'
    BY <1>1, Zenon DEF GateInv, NodeInv, Believe
  <1> QED  BY <1>2, QuietInv, Zenon DEF Believe

(* The broker's ACLs change; granted keeps what they were.                 *)
LEMMA SetAclsStep ==
    ASSUME GateInv, NEW entries \in Acls, SetAcls(entries)
    PROVE  GateInv'
  <1>1. NodeInv'
    BY Zenon DEF GateInv, NodeInv, SetAcls, nodeVars
  <1> QED  BY <1>1, QuietInv, Zenon DEF SetAcls

(* The refreshed snapshot is what the broker has now. *)
LEMMA RefreshStep ==
    ASSUME GateInv, NEW n \in Nodes, run_acl_refresh(n) \/ run_jwks_refresher(n)
    PROVE  GateInv'
  <1>1. refreshed(n) \subseteq granted
    BY Zenon DEF refreshed, acl_entry_from_admin, GateInv, NodeInv
  <1>2. DOMAIN cache' = Nodes /\ \A m \in Nodes : cache'[m] \in {cache[m], refreshed(n)}
    BY Zenon DEF GateInv, NodeInv, run_acl_refresh, run_jwks_refresher
  <1>3. NodeInv'
    BY <1>1, <1>2, Zenon DEF GateInv, NodeInv, run_acl_refresh, run_jwks_refresher
  <1> QED  BY <1>3, QuietInv, Zenon DEF run_acl_refresh, run_jwks_refresher


(* A forwarded request is trusted, for its node has the secret, or else    *)
(* nothing is authorized and it is anonymous.                              *)
LEMMA AuthStep ==
    ASSUME GateInv, NEW i \in Ids, auth_layer(i)
    PROVE  GateInv'
  <1> DEFINE r         == requests[i]
             forwarded == Len(r.hops) > 1
             cred      == IF forwarded THEN NoCredential ELSE r.req.cred
             who       == resolve(config, cred, keys[Here(r)])
             trusted   == [r EXCEPT !.at = "authz", !.who = Anonymous, !.trusted = TRUE]
             named     == [r EXCEPT !.at = "authz", !.who = who, !.trusted = FALSE]
  <1>1. /\ r.at = "auth"
        /\ Moved(i, IF forwarded /\ config.forward_secret THEN trusted
                    ELSE IF who = NoName THEN Answered(r, "Unauthorized") ELSE named)
    BY Zenon DEF auth_layer
  <1>2. /\ RequestInv(config, granted, cut, r) /\ r \in Requests
        /\ config.authz \/ config.require_auth => config.forward_secret
    BY Zenon DEF GateInv, NodeInv, RequestInv
  <1>3. /\ Len(r.hops) > 0 /\ r.handled = 0 /\ r.answer = "none"
        /\ forwarded /\ config.authz => Permitted(config, granted, r.req)
    BY <1>1, <1>2, Zenon DEF RequestInv, Progress, Passed, Before
  <1>4. Anonymous \in Names /\ who \in Names
    <2>1. NoName \in Names /\ Anonymous \in Names /\ Principal(r.req.cred) \in Names
      BY <1>2, PrincipalNames, Zenon DEF Requests
    <2>2. Principal(NoCredential) = Anonymous
      BY Zenon DEF Principal, NoCredential
    <2>3. who \in {NoName, Principal(cred)}
      BY ResolveFacts, Zenon
    <2> QED  BY <2>1, <2>2, <2>3, Zenon
  <1>5. CASE forwarded /\ config.forward_secret
    <2>1. /\ trusted \in Requests /\ trusted.at = "authz" /\ trusted.hops = r.hops
          /\ trusted.trusted = TRUE /\ trusted.handled = r.handled /\ trusted.req = r.req
          /\ trusted.answer = r.answer /\ trusted.lost = r.lost
      BY <1>2, <1>4, Zenon DEF Requests, Before
    <2>3. Len(r.hops) # 1
      BY <1>2, <1>3, <1>5, HopFacts, Zenon
    <2>2. RequestInv(config, granted, cut, trusted)
      BY <1>2, <1>3, <1>5, <2>1, <2>3, ZenonT(30)
         DEF RequestInv, Progress, Ingress, Passed, Kept, Before, Refusals
    <2> QED  BY <1>1, <1>5, <2>2, MovedInv, Zenon
  <1>6. CASE ~(forwarded /\ config.forward_secret) /\ who = NoName
    <2>1. ~forwarded
      <3>1. NoName # Anonymous
        BY DEF NoName, Anonymous
      <3> QED  BY <1>2, <1>6, <3>1, ResolveFacts, Zenon
    <2>2. "Unauthorized" \in Answers /\ "Unauthorized" # "lost"
      BY DEF Answers, Refusals
    <2>3. Kept(cut, r)
      BY <1>2, Zenon DEF RequestInv
    <2>4. ~(r.handled > 0)
      BY <1>3
    <2>5. RequestInv(config, granted, cut, Answered(r, "Unauthorized"))
      BY <1>2, <1>3, <2>1, <2>2, <2>3, <2>4, AnsweredInv, Zenon
    <2> QED  BY <1>1, <1>6, <2>5, MovedInv, Zenon
  <1>7. CASE ~(forwarded /\ config.forward_secret) /\ who # NoName
    <2>1. /\ named \in Requests /\ named.at = "authz" /\ named.hops = r.hops /\ named.who = who
          /\ named.trusted = FALSE /\ named.handled = r.handled /\ named.req = r.req
          /\ named.answer = r.answer /\ named.lost = r.lost
      BY <1>2, <1>4, Zenon DEF Requests, Before
    <2>2. ~forwarded => who = Principal(r.req.cred)
      BY <1>7, ResolveFacts, Zenon
    <2>3. Len(r.hops) = 1 => ~forwarded
      BY <1>2, <1>3, HopFacts, Zenon
    <2>4. RequestInv(config, granted, cut, named)
      BY <1>2, <1>3, <1>7, <2>1, <2>2, <2>3, ZenonT(30)
         DEF RequestInv, Progress, Ingress, Passed, Kept, Before, Refusals
    <2> QED  BY <1>1, <1>7, <2>4, MovedInv, Zenon
  <1> QED  BY <1>5, <1>6, <1>7, Zenon

(* The node a request came to authorizes it by its snapshot. *)
LEMMA AuthzStep ==
    ASSUME GateInv, NEW i \in Ids, authz_layer(i)
    PROVE  GateInv'
  <1> DEFINE r  == requests[i]
             ok == \/ ~config.authz \/ r.trusted
                   \/ \A t \in authz_target(r.req.method, r.req.seg) :
                         authorize(config, cache[Here(r)], r.who, t)
             s  == [r EXCEPT !.at = "forward"]
  <1>1. /\ r.at = "authz"
        /\ Moved(i, IF ok THEN s ELSE Answered(r, "Forbidden"))
    BY Zenon DEF authz_layer
  <1>2. /\ RequestInv(config, granted, cut, r) /\ r \in Requests
        /\ \A n \in Nodes : cache[n] \subseteq granted
    BY Zenon DEF GateInv, NodeInv, RequestInv
  <1>3. /\ Len(r.hops) > 0 /\ r.handled = 0 /\ r.answer = "none"
        /\ Len(r.hops) > 1 => r.trusted \/ ~config.authz
        /\ Len(r.hops) > 1 /\ config.authz => Permitted(config, granted, r.req)
        /\ Len(r.hops) = 1 => ~r.trusted /\ r.who = Principal(r.req.cred)
    BY <1>1, <1>2, Zenon DEF RequestInv, Progress, Ingress, Passed, Before
  <1>4. Here(r) \in Nodes /\ (Len(r.hops) # 1 => Len(r.hops) > 1)
    BY <1>2, <1>3, HopFacts, Zenon
  <1>5. CASE ok
    <2>1. config.authz => Permitted(config, granted, r.req)
      <3>1. CASE Len(r.hops) = 1 /\ config.authz
        <4>1. r.req \in Calls
          BY <1>2, Zenon DEF Requests
        <4>2. \A t \in authz_target(r.req.method, r.req.seg) :
                 authorize(config, cache[Here(r)], Principal(r.req.cred), t)
          BY <1>3, <1>5, <3>1, Zenon
        <4> QED  BY <1>2, <1>4, <3>1, <4>1, <4>2, Admits, Zenon
      <3> QED  BY <1>3, <1>4, <3>1, Zenon
    <2>2. /\ s \in Requests /\ s.at = "forward" /\ s.hops = r.hops
          /\ s.handled = r.handled /\ s.req = r.req
          /\ s.answer = r.answer /\ s.lost = r.lost
      BY <1>2, Zenon DEF Requests, Before
    <2>3. RequestInv(config, granted, cut, s)
      BY <1>2, <1>3, <2>1, <2>2, ZenonT(30)
         DEF RequestInv, Progress, Ingress, Passed, Kept, Before, Refusals
    <2> QED  BY <1>1, <1>5, <2>3, MovedInv, Zenon
  <1>6. CASE ~ok
    <2>1. ~(Len(r.hops) > 1)
      BY <1>3, <1>6, Zenon
    <2>2. "Forbidden" \in Answers /\ "Forbidden" # "lost"
      BY DEF Answers, Refusals
    <2>3. Kept(cut, r)
      BY <1>2, Zenon DEF RequestInv
    <2>4. ~(r.handled > 0)
      BY <1>3
    <2>5. RequestInv(config, granted, cut, Answered(r, "Forbidden"))
      BY <1>2, <1>3, <2>1, <2>2, <2>3, <2>4, AnsweredInv, Zenon
    <2> QED  BY <1>1, <1>6, <2>5, MovedInv, Zenon
  <1> QED  BY <1>5, <1>6, Zenon


(* A request leaves for the primary once authorized, or is answered here.  *)
LEMMA ForwardStep ==
    ASSUME GateInv, NEW i \in Ids, forward_layer(i)
    PROVE  GateInv'
  <1> DEFINE r == requests[i]
             n == Here(r)
             d == decide(r.req.method, Len(r.hops) > 1, view[n] = n, view[n] # NoNode)
             passed == [r EXCEPT !.at = "handle"]
             sent   == [r EXCEPT !.at = "auth", !.hops = Append(@, view[n])]
  <1>1. r.at = "forward" /\ RequestInv(config, granted, cut, r) /\ r \in Requests
    BY Zenon DEF forward_layer, GateInv, RequestInv
  <1>2. /\ Len(r.hops) > 0 /\ r.handled = 0 /\ r.answer = "none" /\ Kept(cut, r)
        /\ config.authz => Permitted(config, granted, r.req)
    BY <1>1, Zenon DEF RequestInv, Progress, Passed, Before
  <1>3. \/ Moved(i, passed)
        \/ Moved(i, Answered(r, "UnknownLeader"))
        \/ Moved(i, Answered(r, "ForwardFailed"))
        \/ Moved(i, Answered(r, "InvalidRequest"))
        \/ d = "Forward" /\ Moved(i, sent)
    BY Zenon DEF forward_layer, forward_error, decide
  <1>4. CASE Moved(i, passed)
    <2>1. /\ passed \in Requests /\ passed.at = "handle" /\ passed.hops = r.hops
          /\ passed.handled = r.handled /\ passed.req = r.req
          /\ passed.answer = r.answer /\ passed.lost = r.lost
      BY <1>1, Zenon DEF Requests, Before
    <2>2. RequestInv(config, granted, cut, passed)
      BY <1>1, <1>2, <2>1, ZenonT(30)
         DEF RequestInv, Progress, Ingress, Passed, Kept, Before, Refusals
    <2> QED  BY <1>4, <2>2, MovedInv, Zenon
  <1>5. ASSUME NEW a \in {"UnknownLeader", "ForwardFailed", "InvalidRequest"}
        PROVE  RequestInv(config, granted, cut, Answered(r, a))
    <2>1. a \in Answers /\ a \notin {"Unauthorized", "Forbidden", "lost"}
      BY Zenon DEF Answers, Refusals
    <2> QED  BY <1>1, <1>2, <2>1, AnsweredInv, Zenon
  <1>6. CASE d = "Forward" /\ Moved(i, sent)
    <2>1. view[n] \in Nodes
      <3>1. n \in Nodes
        BY <1>1, <1>2, HopFacts, Zenon
      <3>2. view[n] # NoNode
        BY <1>6, Zenon DEF decide
      <3> QED  BY <3>1, <3>2, Zenon DEF GateInv, NodeInv
    <2>2. Append(r.hops, view[n]) \in Seq(Nodes) /\ Len(Append(r.hops, view[n])) > 0
      <3>1. r.hops \in Seq(Nodes)
        BY <1>1, Zenon DEF Requests
      <3>2. \A hops \in Seq(Nodes), m \in Nodes :
               Append(hops, m) \in Seq(Nodes) /\ Len(Append(hops, m)) > 0
        OBVIOUS
      <3> QED  BY <2>1, <3>1, <3>2, Zenon
    <2>3. /\ sent \in Requests /\ sent.at = "auth" /\ sent.hops = Append(r.hops, view[n])
          /\ sent.handled = r.handled /\ sent.req = r.req
          /\ sent.answer = r.answer /\ sent.lost = r.lost
      BY <1>1, <2>2, Zenon DEF Requests, Before
    <2>4. RequestInv(config, granted, cut, sent)
      BY <1>1, <1>2, <2>2, <2>3, ZenonT(30)
         DEF RequestInv, Progress, Ingress, Passed, Kept, Before, Refusals
    <2> QED  BY <1>6, <2>4, MovedInv, Zenon
  <1> QED  BY <1>3, <1>4, <1>5, <1>6, MovedInv, Zenon

(* The handler runs once, for a request that was not answered yet. *)
LEMMA HandleStep ==
    ASSUME GateInv, NEW i \in Ids, Handle(i)
    PROVE  GateInv'
  <1> DEFINE r == requests[i]
             s == [r EXCEPT !.handled = @ + 1]
  <1>1. r.at = "handle" /\ RequestInv(config, granted, cut, r) /\ r \in Requests
    BY Zenon DEF Handle, GateInv, RequestInv
  <1>2. /\ Len(r.hops) > 0 /\ r.handled = 0 /\ Kept(cut, r)
        /\ config.authz => Permitted(config, granted, r.req)
    BY <1>1, Zenon DEF RequestInv, Progress, Passed, Before
  <1>3. Moved(i, Answered(s, "Handled")) \/ Moved(i, Answered(r, "NoRoute"))
    BY Zenon DEF Handle
  <1>4. /\ s \in Requests /\ s.hops = r.hops /\ s.req = r.req
        /\ s.answer = r.answer /\ s.lost = r.lost
    <2>1. r.handled + 1 \in 0..1
      BY <1>2
    <2> QED  BY <1>1, <2>1, Zenon DEF Requests
  <1>5. \A a \in {"Handled", "NoRoute"} :
           a \in Answers \ Refusals /\ a \notin {"Unauthorized", "Forbidden", "lost"}
    BY Zenon DEF Answers, Refusals
  <1>6. Kept(cut, s)
    BY <1>2, <1>4, Zenon DEF Kept
  <1> HIDE DEF s
  <1>7. RequestInv(config, granted, cut, Answered(s, "Handled"))
    BY <1>2, <1>4, <1>5, <1>6, AnsweredInv, Zenon
  <1>8. RequestInv(config, granted, cut, Answered(r, "NoRoute"))
    BY <1>1, <1>2, <1>5, AnsweredInv, Zenon
  <1> QED  BY <1>3, <1>7, <1>8, MovedInv, Zenon

(* The answer of the primary goes back, or is lost on the way.             *)
LEMMA RelayStep ==
    ASSUME GateInv, NEW i \in Ids, Relay(i)
    PROVE  GateInv'
  <1> DEFINE r == requests[i]
  <1>1. r.at = "relay" /\ RequestInv(config, granted, cut, r) /\ r \in Requests
    BY Zenon DEF Relay, GateInv, RequestInv
  <1>2. /\ r.answer \in Answers /\ (r.answer \in Refusals => r.handled = 0)
        /\ r.answer \notin {"Unauthorized", "Forbidden"}
        /\ r.answer = "lost" => cut # {}
    BY <1>1, Zenon DEF RequestInv, Requests, Progress, Ingress, Kept
  <1>3. \E a \in {r.answer, "ForwardFailed", "Empty"} : Moved(i, Answered(Back(r), a))
    BY Zenon DEF Relay, answer_lost, forward_error
  <1>4. Len(r.hops) > 1
    BY <1>1, Zenon DEF RequestInv, Progress
  <1>5. \A a \in {r.answer, "ForwardFailed", "Empty"} :
           RequestInv(config, granted, cut, Answered(Back(r), a))
    BY <1>1, <1>2, <1>4, BackInv, ForwardAnswers, Zenon
  <1> QED  BY <1>3, <1>5, MovedInv, Zenon


-------------------------------------------------------------------------------
(* The theorems. *)

(* Only an accepted command line makes a configuration. *)
LEMMA GateInit ==
    Init => GateInv
  <1> SUFFICES ASSUME Init PROVE GateInv
    OBVIOUS
  <1>1. PICK j \in Inputs : accepts(j) /\ config = build_security(j)
    BY Zenon DEF Init
  <1>2. config.authz \/ config.require_auth => config.forward_secret
    BY <1>1, Zenon DEF accepts, build_security
  <1>3. NodeInv
    BY <1>2 DEF Init, NodeInv
  <1>4. \A i \in Ids : requests[i] = NotSent
    BY Zenon DEF Init
  <1> QED  BY <1>3, <1>4, NewRequest, Zenon DEF GateInv

(* Every step of the nodes and of the clients preserves the invariant. *)
LEMMA GateNext ==
    GateInv /\ [Next]_vars => GateInv'
  <1> SUFFICES ASSUME GateInv, [Next]_vars PROVE GateInv'
    OBVIOUS
  <1>1. ASSUME NEW n \in Nodes,
               \/ Advance(n) \/ Shutdown(n) \/ Exit(n) \/ Crash(n)
               \/ run_acl_refresh(n) \/ run_jwks_refresher(n)
               \/ \E m \in Nodes \cup {NoNode} : Believe(n, m)
        PROVE  GateInv'
    BY <1>1, AdvanceStep, LeaveStep, RefreshStep, BelieveStep, Zenon
  <1>2. ASSUME NEW entries \in Acls, SetAcls(entries) PROVE GateInv'
    BY <1>2, SetAclsStep, Zenon
  <1>3. ASSUME NEW i \in Ids, Serve(i) PROVE GateInv'
    BY <1>3, AuthStep, AuthzStep, ForwardStep, HandleStep, RelayStep, Zenon DEF Serve
  <1>4. ASSUME NEW i \in Ids, NEW q \in Menu, NEW n \in Nodes, Receive(i, q, n) PROVE GateInv'
    BY <1>4, NewRequest, MovedInv, Zenon DEF Receive
  <1>5. CASE UNCHANGED vars
    BY <1>5, Zenon DEF vars, nodeVars, GateInv, NodeInv
  <1> QED  BY <1>1, <1>2, <1>3, <1>4, <1>5, Zenon DEF Next

(* What GateInv says of a request holds of every request of every run.     *)
LEMMA GateAlways ==
    Spec => []GateInv
  BY GateInit, GateNext, PTL DEF Spec

(* Whatever fails and whoever is primary, a request is handled at most     *)
(* once, and one that was refused was handled nowhere.                     *)
THEOREM RequestsHandledOnce == Spec => []HandledOnce
  <1>1. GateInv => HandledOnce
    <2> SUFFICES ASSUME GateInv, NEW i \in Ids
                 PROVE  /\ requests[i].handled <= 1
                        /\ requests[i].answer \in {"Unauthorized", "Forbidden", "UnknownLeader"} =>
                              requests[i].handled = 0
      BY Zenon DEF HandledOnce
    <2>1. requests[i] \in Requests /\ Progress(requests[i])
      BY Zenon DEF GateInv, RequestInv
    <2>2. requests[i].handled \in 0..1
      BY <2>1, Zenon DEF Requests
    <2>3. requests[i].handled <= 1
      BY <2>2
    <2> QED  BY <2>1, <2>3, Zenon DEF Progress, Refusals
  <1> QED  BY <1>1, GateAlways, PTL

(* In every configuration that build_security accepts, the primary does    *)
(* not refuse what another node let pass.                                  *)
THEOREM NodeOfTheClientDecides == Spec => []IngressDecides
  <1>1. GateInv => IngressDecides
    BY Zenon DEF GateInv, RequestInv, Ingress, IngressDecides
  <1> QED  BY <1>1, GateAlways, PTL

(* However old the snapshots of the nodes are, and whether or not it was   *)
(* forwarded, a change that was made had been permitted by the broker.     *)
THEOREM ChangesWerePermitted == Spec => []GrantedWhenHandled
  <1>1. GateInv => GrantedWhenHandled
    BY Zenon DEF GateInv, RequestInv, Passed, GrantedWhenHandled
  <1> QED  BY <1>1, GateAlways, PTL

(* A client loses its connection to nothing but a crash or a node that     *)
(* serves TLS.                                                             *)
THEOREM StoppingLosesNothing == Spec => []DrainLosesNothing
  <1>1. GateInv => DrainLosesNothing
    BY Zenon DEF GateInv, RequestInv, Kept, DrainLosesNothing
  <1> QED  BY <1>1, GateAlways, PTL

===============================================================================
