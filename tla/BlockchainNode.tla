--------------------------- MODULE BlockchainNode ---------------------------
(***************************************************************************)
(* The REST API of intkey_cli.py started with 'start': the registry and   *)
(* the will ledger handlers over one ledger.  They share the namespace     *)
(* (show_will_list reads testators' user records) and the commit queue,    *)
(* so writes of one component delay the visibility of the other's.       *)
(***************************************************************************)
EXTENDS Registry, WillLedger

vars == <<store, pending, registered, signedOk, created>>

Init == WillInit /\ registered = {}

\* One request to any route of start_rest_api (lines 493-500) that writes,
\* or a commit by the validator.
Next ==
    \/ RegistryHandlers /\ UNCHANGED ghostVars
    \/ WillNext /\ UNCHANGED registered

Spec == Init /\ [][Next]_vars

\* Once everything is committed, a registered testator's will is in the
\* /will/list answer of every witness it names: create_will's index
\* writes, the registry's record and show_will_list's lookups agree.
WitnessSeesWill ==
    Settled =>
        \A t \in PubKeys :
            store[WillKey(t)] # NotFound /\ store[UserKey(t)] # NotFound =>
                \A i \in DOMAIN store[WillKey(t)].witnesses :
                    Contains(ShowWillList(store, store[WillKey(t)].witnesses[i].pk), t)
=============================================================================
