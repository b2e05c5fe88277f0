------------------------------- MODULE MCSerde -------------------------------
EXTENDS Serde, TLC
CONSTANTS s1, s2, t1, t2, t3

MCInterned == <<s1, s2>>
MCLocal == s1 :> t1 @@ s2 :> t2
MCForeign == {<<s1, t3>>, <<s1, t1>>, <<s2, t2>>}

Leaf(n) == [name |-> n, nested |-> << >>]
MCFiles ==
    {<<Leaf("A")>>,
     <<Leaf("A"), Leaf("B")>>,
     <<[name |-> "A", nested |-> <<Leaf("B"), Leaf("A")>>], Leaf("B")>>,
     <<Leaf("C"), [name |-> "A", nested |-> <<Leaf("C"), [name |-> "B", nested |-> <<Leaf("A"), Leaf("C")>>]>>]>>}

Names == {"x", "y", "z"}
MCRefGraphs == [Names -> {<< >>, <<"x">>, <<"y">>, <<"z">>, <<"y", "z">>, <<"z", "y">>, <<"x", "z">>, <<"y", "x">>}]

===============================================================================
