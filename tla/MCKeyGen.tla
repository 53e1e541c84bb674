------------------------------ MODULE MCKeyGen ------------------------------
(* Model-checking instance of KeyGen: three key pairs, a clock of two      *)
(* seconds at half-second resolution, three answered requests.            *)
EXTENDS KeyGen

CONSTANTS p1, p2, p3

MCKeyPairs == {p1, p2, p3}
=============================================================================
