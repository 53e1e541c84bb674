----------------------------- MODULE WillLedger -----------------------------
(***************************************************************************)
(* Wills and witness signatures: the handlers create_will, witness_sign    *)
(* and show_will_list of intkey_cli.py.  A will is the record stored at    *)
(* WILL_ + testator: its status field and its witness entries, each a     *)
(* public key and whether its status field is 'signed'.  Each witness's    *)
(* index, at WILL_LIST_ + witness, lists the testators naming it.          *)
(***************************************************************************)
EXTENDS LedgerStore, FiniteSets

CONSTANTS
    WitnessLists    \* the 'witnesses' lists a /will/create body may carry

VARIABLES
    signedOk,  \* pairs <<t, w>> for which /will/witness_sign answered 200
               \* since t's will was last created (a history variable)
    created    \* created[t]: the witness list of the last /will/create
               \* for t that answered 200, or NotFound (a history variable)

willVars == <<store, pending, signedOk, created>>
ghostVars == <<signedOk, created>>

WillStatuses == {"valid", NoStatus}
Entry == [pk : PubKeys, signed : BOOLEAN]
WillRecords == [status : WillStatuses, witnesses : Seq(Entry)]

-----------------------------------------------------------------------------
(* Mutants: plausible slips in the code below, used to show that each      *)
(* property checked of this module can detect a bug in what it maps.       *)

IndexWritesFirstOnly(t, wl, reads, ws) ==
    IF wl = <<>> THEN ws
    ELSE LET cur == View(ws)[ListKey(Head(wl))]
             idx == IF ~Head(reads) \/ cur = NotFound THEN <<>> ELSE cur
         IN  IF Contains(idx, t) THEN ws
             ELSE Append(ws, Write(ListKey(Head(wl)), Append(idx, t)))

RECURSIVE IndexWritesAlwaysAppend(_, _, _, _)
IndexWritesAlwaysAppend(t, wl, reads, ws) ==
    IF wl = <<>> THEN ws
    ELSE LET cur == View(ws)[ListKey(Head(wl))]
             idx == IF ~Head(reads) \/ cur = NotFound THEN <<>> ELSE cur
         IN  IndexWritesAlwaysAppend(t, Tail(wl), Tail(reads),
                 Append(ws, Write(ListKey(Head(wl)), Append(idx, t))))

SignCountNoSelf(entries, w) ==
    Cardinality({i \in DOMAIN entries : entries[i].signed})

MarkFirstSigned(entries, w) ==
    LET first == SelectInSeq(entries, LAMBDA e : e.pk = w)
    IN  [entries EXCEPT ![first].signed = TRUE]

WillBodyRawWitnesses(wl) ==
    IF wl = <<>>
    THEN [status |-> "valid", witnesses |-> <<>>]
    ELSE [status |-> NoStatus, witnesses |-> wl]

ShowWillListWitnessRecord(s, w) ==
    LET idx == IF s[ListKey(w)] = NotFound THEN <<>> ELSE s[ListKey(w)]
    IN  SelectSeq(idx, LAMBDA t : s[WillKey(t)] # NotFound
                                  /\ s[UserKey(w)] # NotFound)

-----------------------------------------------------------------------------

\* The will body of lines 703-705 and 721: with no witnesses its status is
\* set to valid; otherwise the body is stored as received, witness entries
\* without a status and the will without one either.
WillBody(wl) ==
    IF wl = <<>>
    THEN [status |-> "valid", witnesses |-> <<>>]
    ELSE [status |-> NoStatus,
          witnesses |-> [i \in DOMAIN wl |-> [pk |-> wl[i], signed |-> FALSE]]]

\* The loop of lines 706-719 over the witnesses wl, after the handler has
\* issued ws.  reads[i] is FALSE when get_value of the i-th index raised;
\* the except branch treats every error as a missing index.  The index is
\* written back only when the testator was not in it.
RECURSIVE IndexWrites(_, _, _, _)
IndexWrites(t, wl, reads, ws) ==
    IF wl = <<>> THEN ws
    ELSE LET cur == View(ws)[ListKey(Head(wl))]
             idx == IF ~Head(reads) \/ cur = NotFound THEN <<>> ELSE cur
             ws2 == IF Contains(idx, t) THEN ws
                    ELSE Append(ws, Write(ListKey(Head(wl)), Append(idx, t)))
         IN  IndexWrites(t, Tail(wl), Tail(reads), ws2)

\* create_will, lines 698-721: the index writes, then the will.
CreateWillWrites(t, wl, reads) ==
    IndexWrites(t, wl, reads, <<>>) \o <<Write(WillKey(t), WillBody(wl))>>

CreateWill(t, wl) ==
    \E reads \in [DOMAIN wl -> ReadOutcomes] :
        LET ws == CreateWillWrites(t, wl, reads)
        IN  \E n \in WriteCuts(ws) :
                /\ Submit(SubSeq(ws, 1, n))
                /\ signedOk' = IF n = Len(ws)
                               THEN {p \in signedOk : p[1] # t}
                               ELSE signedOk
                /\ created' = IF n = Len(ws) THEN [created EXCEPT ![t] = wl]
                              ELSE created

\* Lines 837-845: sign_count adds one for every entry already signed and
\* one for every entry naming the witness, before marking it.
SignCount(entries, w) ==
    Cardinality({i \in DOMAIN entries : entries[i].signed})
      + Cardinality({i \in DOMAIN entries : entries[i].pk = w})

\* Lines 842-843: every entry naming the witness is marked signed.
MarkSigned(entries, w) ==
    [i \in DOMAIN entries |->
        IF entries[i].pk = w THEN [entries[i] EXCEPT !.signed = TRUE]
        ELSE entries[i]]

\* Mutant: a status not reached is reset rather than kept.
SignedWillResetStatus(will, w) ==
    [status    |-> IF SignCount(will.witnesses, w) = Len(will.witnesses)
                   THEN "valid" ELSE NoStatus,
     witnesses |-> MarkSigned(will.witnesses, w)]

\* Lines 870-872 and the mutation of lines 838-845 on the will read.
SignedWill(will, w) ==
    [status    |-> IF SignCount(will.witnesses, w) = Len(will.witnesses)
                   THEN "valid" ELSE will.status,
     witnesses |-> MarkSigned(will.witnesses, w)]

\* Mutant: the will saved under the witness's key.
SignWritesWitnessKey(t, w, will) == <<Write(WillKey(w), SignedWill(will, w))>>

\* Line 874: the signed will is saved under the testator's will key.
SignWrites(t, w, will) == <<Write(WillKey(t), SignedWill(will, w))>>

\* witness_sign, lines 832-874: get_value raises if there is no will; a
\* witness not in the will gets a 400 and nothing is written.
WitnessSign(t, w) ==
    LET will == store[WillKey(t)]
    IN  /\ will # NotFound
        /\ \E i \in DOMAIN will.witnesses : will.witnesses[i].pk = w
        /\ LET ws == SignWrites(t, w, will)
           IN  \E n \in AbortCuts(ws) :
                   /\ Submit(SubSeq(ws, 1, n))
                   /\ signedOk' = IF n = 1 THEN signedOk \cup {<<t, w>>}
                                  ELSE signedOk
                   /\ UNCHANGED created

\* show_will, lines 742-758, on the committed store s: the will, or
\* NotFound when get_value raises.
ShowWill(s, t) == s[WillKey(t)]

\* show_will_list, lines 785-799, on the committed store s: the testators
\* of the wills listed for witness w whose will and testator record both
\* resolve; an entry whose lookup raises is skipped.
ShowWillList(s, w) ==
    LET idx == IF s[ListKey(w)] = NotFound THEN <<>> ELSE s[ListKey(w)]
    IN  SelectSeq(idx, LAMBDA t : ShowWill(s, t) # NotFound
                                  /\ s[UserKey(t)] # NotFound)

-----------------------------------------------------------------------------

WillInit ==
    /\ StoreInit
    /\ signedOk = {}
    /\ created = [t \in PubKeys |-> NotFound]

\* One request to /will/create or /will/witness_sign (lines 497, 500), or
\* a commit; the GET routes /will and /will/list change nothing.
WillNext ==
    \/ \E t \in PubKeys, wl \in WitnessLists : CreateWill(t, wl)
    \/ \E t, w \in PubKeys : WitnessSign(t, w)
    \/ Commit /\ UNCHANGED ghostVars

WillSpec == WillInit /\ [][WillNext]_willVars

-----------------------------------------------------------------------------
(* Properties                                                              *)

AllSigned(will) == \A i \in DOMAIN will.witnesses : will.witnesses[i].signed

WillTypeOK ==
    /\ StoreTypeOK
    /\ \A k \in PubKeys :
          /\ store[WillKey(k)] \in {NotFound} \cup WillRecords
          /\ store[ListKey(k)] \in {NotFound} \cup Seq(PubKeys)
    /\ signedOk \subseteq PubKeys \X PubKeys
    /\ \A t \in PubKeys : created[t] \in {NotFound} \cup WitnessLists

\* A will every one of whose witness entries is signed is valid: whatever
\* order witness_sign calls come in, repeated or not, the one that
\* completes the signatures also sets the status.
AllSignedValid ==
    \A t \in PubKeys :
        store[WillKey(t)] # NotFound /\ AllSigned(store[WillKey(t)]) =>
            store[WillKey(t)].status = "valid"

\* Once everything is committed, the index of every witness named in a
\* stored will lists its testator, so show_will_list can find the will.
WitnessIndexComplete ==
    Settled =>
        \A t \in PubKeys :
            store[WillKey(t)] # NotFound =>
                \A i \in DOMAIN store[WillKey(t)].witnesses :
                    LET idx == store[ListKey(store[WillKey(t)].witnesses[i].pk)]
                    IN  idx # NotFound /\ Contains(idx, t)

\* A witness index is never pruned (the removal in witness_sign is
\* commented out), yet it lists each testator at most once: however often
\* wills are created and re-created, in any order of commits, it holds no
\* more entries than there are testators.
WitnessIndexIsSet ==
    \A w \in PubKeys :
        store[ListKey(w)] # NotFound => IsInjective(store[ListKey(w)])

\* Once everything is committed, a signature that witness_sign reported
\* as saved is in the will, unless the will was created anew since.
SignRecorded ==
    Settled =>
        \A p \in signedOk :
            /\ store[WillKey(p[1])] # NotFound
            /\ \A i \in DOMAIN store[WillKey(p[1])].witnesses :
                   store[WillKey(p[1])].witnesses[i].pk = p[2] =>
                       store[WillKey(p[1])].witnesses[i].signed

\* The witness keys of a will, in order.
WitnessKeys(will) == [i \in DOMAIN will.witnesses |-> will.witnesses[i].pk]

\* Once everything is committed, the stored will of a testator names the
\* witnesses of the last /will/create for it that answered 200: a
\* witness_sign racing a re-creation never writes the old will back.
LastCreateWins ==
    Settled =>
        \A t \in PubKeys :
            created[t] # NotFound =>
                /\ ShowWill(store, t) # NotFound
                /\ WitnessKeys(ShowWill(store, t)) = created[t]

IsValid(s, t) == s[WillKey(t)] # NotFound /\ s[WillKey(t)].status = "valid"

\* A valid will stays valid: no witness_sign, repeated or by a witness
\* whose entries are already signed, takes the status back; only a new
\* /will/create for the testator replaces it.
ValidWillStays ==
    [][\A t \in PubKeys :
          IsValid(store, t) /\ ~IsValid(store', t) =>
              \E wl \in WitnessLists : store'[WillKey(t)] = WillBody(wl)]_store

\* The will of spec 4.2, seen through show_will: its witnesses, who signed
\* and whether its status is valid.
AbsWill == INSTANCE AbstractWill
               WITH wills <- [t \in PubKeys |->
                        IF ShowWill(store, t) = NotFound THEN NotFound
                        ELSE [witnesses |-> WitnessKeys(ShowWill(store, t)),
                              signed |-> {store[WillKey(t)].witnesses[i].pk :
                                            i \in {j \in DOMAIN store[WillKey(t)].witnesses :
                                                      store[WillKey(t)].witnesses[j].signed}},
                              valid |-> IsValid(store, t)]]

\* create_will and witness_sign implement the will state machine of spec
\* 4.2: a will is valid exactly when all its witnesses signed, signing is
\* idempotent, and a new will replaces the old.
WillRefines == AbsWill!Spec
=============================================================================
