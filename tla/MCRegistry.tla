----------------------------- MODULE MCRegistry -----------------------------
(* Model-checking instance of Registry: four public keys, bodies with no    *)
(* status field or with status approved set by the caller.               *)
EXTENDS Registry, TLC

CONSTANTS a, b, c, d

MCPubKeys == {a, b, c, d}
MCKeyName == [k \in MCPubKeys |-> <<k>>]
MCRegisterStatuses == {NoStatus, approved}
MCPlainStatuses == {NoStatus}
MCSymmetry == Permutations(MCPubKeys)

\* Two users, the second registering with public_key "KEY_NEED_REVIEW".
MCCollidingKeys == {a, b}
MCCollidingName == (a :> <<a>> @@ b :> <<KEY_NEED_REVIEW>>)
=============================================================================
