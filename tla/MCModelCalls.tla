---------------------------- MODULE MCModelCalls ------------------------------
(***************************************************************************)
(* ModelCalls for TLC: calls of one worst case are interchangeable.        *)
(***************************************************************************)
EXTENDS ModelCallsInvariant, TLC

MCUnlimited == -1
MCWorst == [c \in Call |-> 2]
MCLimit == [s \in Scopes |-> IF s = "total" THEN 3 ELSE 2]

Symmetry == Permutations(Call)
=============================================================================
