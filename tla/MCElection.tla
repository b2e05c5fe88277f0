----------------------------- MODULE MCElection -----------------------------
EXTENDS Election
CONSTANTS n1, n2
MCRank == [n \in Nodes |-> IF n = n1 THEN 1 ELSE 2]
=============================================================================
