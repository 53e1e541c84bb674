---------------------------- MODULE AbstractWill ----------------------------
(***************************************************************************)
(* The will state machine of spec 4.2: a will names its witnesses, keeps  *)
(* the set of those who signed, and is valid exactly when it has no       *)
(* witnesses or all of them signed.  Signing is idempotent; CreateWill    *)
(* replaces the testator's will.                                          *)
(***************************************************************************)
EXTENDS Sequences, SequencesExt

CONSTANTS PubKeys, NotFound, WitnessLists

VARIABLE
    wills   \* wills[t]: [witnesses, signed, valid], or NotFound

Init == wills = [t \in PubKeys |-> NotFound]

CreateWill(t, wl) ==
    wills' = [wills EXCEPT ![t] =
                 [witnesses |-> wl, signed |-> {}, valid |-> wl = <<>>]]

Sign(t, w) ==
    LET will == wills[t]
        signed == will.signed \cup {w}
    IN  /\ will # NotFound
        /\ w \in ToSet(will.witnesses)
        /\ wills' = [wills EXCEPT ![t] =
                        [will EXCEPT !.signed = signed,
                                     !.valid  = signed = ToSet(will.witnesses)]]

Next ==
    \/ \E t \in PubKeys, wl \in WitnessLists : CreateWill(t, wl)
    \/ \E t, w \in PubKeys : Sign(t, w)

Spec == Init /\ [][Next]_wills
=============================================================================
