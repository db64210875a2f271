------------------------------ MODULE IdQueue -------------------------------
(***************************************************************************)
(* What a supply of identifiers promises: an id that is out is not given   *)
(* out again before it has been returned, and then only after all the ids  *)
(* that were waiting before it.                                            *)
(***************************************************************************)
EXTENDS Integers, Sequences

CONSTANT Size

VARIABLE free      \* the ids that may be given out, the next one first

Id == 1 .. Size

Out == Id \ {free[k] : k \in DOMAIN free}

Init == free = [k \in Id |-> k]

Take == free # <<>> /\ free' = Tail(free)

Return == \E id \in Out : free' = Append(free, id)

Next == Take \/ Return

Spec == Init /\ [][Next]_free
=============================================================================
