---------------------------- MODULE MCWillLedger ----------------------------
(* Model-checking instance of WillLedger: two public keys, each testator  *)
(* and witness, and every witness list of at most two entries, repeated   *)
(* entries and a testator witnessing its own will included.                *)
EXTENDS WillLedger, TLC

CONSTANTS a, b

MCPubKeys == {a, b}
MCKeyName == [k \in MCPubKeys |-> <<k>>]
MCWitnessLists == BoundedSeq(MCPubKeys, 2)
MCSymmetry == Permutations(MCPubKeys)
=============================================================================
