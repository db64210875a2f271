---------------------------- MODULE MCOrcheRows -----------------------------
(* OrcheRows for TLC: one VM with one or two addresses, and a machine that   *)
(* is not in Nova.                                                           *)
EXTENDS OrcheRows, TLC

CONSTANTS x, a, b

MCLists == {<<>>, <<[id |-> x, ip |-> a]>>,
            <<[id |-> x, ip |-> a], [id |-> x, ip |-> b]>>}

Symmetric == Permutations(Host)
=============================================================================
