------------------------------ MODULE MCJsonWalk ------------------------------
EXTENDS JsonWalk

Doc(s) == [root |-> s, refs |-> [x \in {} |-> x]]
Self == [ref |-> <<"#">>]
List(t) == Doc([properties |-> [value |-> [type |-> {t}], next |-> Self]])
Tree(t) == Doc([anyOf |-> <<[type |-> {t}], [items |-> [one |-> Self]]>>])

(* A list whose values change, and a tree whose leaves do. *)
MCPairs == {<<List("integer"), List("number")>>, <<Tree("integer"), Tree("number")>>}

===============================================================================
