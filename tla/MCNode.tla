------------------------------- MODULE MCNode -------------------------------
(* Model-checking instance of BlockchainNode: two public keys, witness    *)
(* lists of at most two entries, bodies with no status field or with       *)
(* status approved.                                                      *)
EXTENDS BlockchainNode, TLC

CONSTANTS a, b

MCPubKeys == {a, b}
MCKeyName == [k \in MCPubKeys |-> <<k>>]
MCRegisterStatuses == {NoStatus, approved}
MCWitnessLists == BoundedSeq(MCPubKeys, 2)
MCSymmetry == Permutations(MCPubKeys)
=============================================================================
