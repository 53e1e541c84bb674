------------------------------ MODULE Registry ------------------------------
(***************************************************************************)
(* Public-key registration and approval: the handlers register_pubkey,    *)
(* approve_public_key and list_need_approve of intkey_cli.py.  A user     *)
(* record is abstracted to its status field; the review queue is the list  *)
(* stored at KEY_NEED_REVIEW.                                              *)
(***************************************************************************)
EXTENDS LedgerStore, Functions

CONSTANTS
    RegisterStatuses,  \* the 'status' fields a /register body may carry
    need_review,       \* the status strings 'need_review' and 'approved'
    approved

VARIABLE
    registered   \* keys whose /register answered {processing: true}
                 \* (a history variable)

regVars == <<store, pending, registered>>

ASSUME NoStatus \in RegisterStatuses

UserStatuses == {need_review, approved} \cup (RegisterStatuses \ {NoStatus})

\* A stored value that is a list, as opposed to a user record (a dict);
\* the two meet at one key only when a public key's string collides.
IsList(v) == v \in Seq(PubKeys)

-----------------------------------------------------------------------------
(* Mutants: plausible slips in the code below, used to show that each      *)
(* property checked of this module can detect a bug in what it maps.       *)

AppendAlways(list, k) == Append(list, k)

DequeueHead(list, k) == IF list = <<>> THEN list ELSE Tail(list)

-----------------------------------------------------------------------------

\* Lines 563-564: append the key unless already present.
AppendIfAbsent(list, k) == IF Contains(list, k) THEN list ELSE Append(list, k)

\* Lines 665-666: list.remove drops the first occurrence only.
Dequeue(list, k) == RemoveFirst(list, k)

\* Mutant: the first-time bootstrap returns after resetting the queue.
RegisterWritesBootstrapOnly(k, st, readOk) ==
    LET found == readOk /\ store[ReviewKey] # NotFound
        list  == IF found THEN store[ReviewKey] ELSE <<>>
        rec   == IF st = NoStatus THEN need_review ELSE st
    IN  IF found THEN << Write(ReviewKey, AppendIfAbsent(list, k)),
                         Write(UserKey(k), rec) >>
        ELSE <<Write(ReviewKey, <<>>)>>

\* register_pubkey, lines 545-570.  readOk is FALSE when get_value of
\* KEY_NEED_REVIEW raised; the except branch treats every such error as a
\* missing list and resets it before writing the list and the record.
\* When the key holds a user record instead, list_pending.append raises
\* AttributeError at line 564 before any write: no step (see Register).
RegisterWrites(k, st, readOk) ==
    LET found == readOk /\ store[ReviewKey] # NotFound
        list  == IF found THEN store[ReviewKey] ELSE <<>>
        reset == IF found THEN <<>> ELSE <<Write(ReviewKey, <<>>)>>
        rec   == IF st = NoStatus THEN need_review ELSE st
    IN  reset \o << Write(ReviewKey, AppendIfAbsent(list, k)),
                    Write(UserKey(k), rec) >>

Register(k, st) ==
    \E readOk \in ReadOutcomes :
        /\ readOk /\ store[ReviewKey] # NotFound => IsList(store[ReviewKey])
        /\ LET ws == RegisterWrites(k, st, readOk)
           IN  \E n \in WriteCuts(ws) :
                   /\ Submit(SubSeq(ws, 1, n))
                   /\ registered' = IF n = Len(ws) THEN registered \cup {k}
                                    ELSE registered

ApproveWritesSwapped(k) ==
    LET list == View(<<Write(UserKey(k), approved)>>)[ReviewKey]
    IN  <<Write(ReviewKey, approved)>> \o
          (IF list = NotFound THEN <<>>
           ELSE <<Write(ReviewKey, IF IsList(list) THEN Dequeue(list, k) ELSE list)>>)

\* approve_public_key, lines 659-668: save the record as approved, then
\* read the queue (after that write) and write it back without the key.
\* get_value raises when the queue was never written, after the record is
\* saved; a user record found there has no such key and goes back as is.
ApproveWrites(k) ==
    LET list == View(<<Write(UserKey(k), approved)>>)[ReviewKey]
    IN  <<Write(UserKey(k), approved)>> \o
          (IF list = NotFound THEN <<>>
           ELSE <<Write(ReviewKey, IF IsList(list) THEN Dequeue(list, k) ELSE list)>>)

\* The whole handler: get_value of the record raises unless it exists, and
\* setting its status raises TypeError when the key holds the queue.
Approve(k) ==
    /\ store[UserKey(k)] # NotFound
    /\ ~IsList(store[UserKey(k)])
    /\ LET ws == ApproveWrites(k)
       IN  \E n \in AbortCuts(ws) : Submit(SubSeq(ws, 1, n))
    /\ UNCHANGED registered

\* show_user, lines 590-606, on the committed store s: the record, or
\* NotFound when get_value raises.
ShowUser(s, k) == s[UserKey(k)]

\* list_need_approve, lines 620-633, on the committed store s: the record
\* of every queued key; ok is FALSE when a get_value raised (HTTP 500),
\* as it does for the field names of a user record found at the key.
ListNeedApprove(s) ==
    LET list == s[ReviewKey]
    IN  IF ~IsList(list) \/ \E i \in DOMAIN list : s[UserKey(list[i])] = NotFound
        THEN [ok |-> FALSE, users |-> <<>>]
        ELSE [ok |-> TRUE, users |-> [i \in DOMAIN list |-> ShowUser(s, list[i])]]

-----------------------------------------------------------------------------

RegistryInit == StoreInit /\ registered = {}

\* One request to /register or /admin/approve (lines 493, 496); the GET
\* routes /user and /admin/list change nothing.
RegistryHandlers ==
    \/ \E k \in PubKeys, st \in RegisterStatuses : Register(k, st)
    \/ \E k \in PubKeys : Approve(k)

RegistryNext == RegistryHandlers \/ (Commit /\ UNCHANGED registered)

RegistrySpec == RegistryInit /\ [][RegistryNext]_regVars

\* The validator keeps committing what was submitted: it runs apart from
\* the REST process and no handler can hold it back.
RegistryFairSpec == RegistrySpec /\ WF_regVars(Commit /\ UNCHANGED registered)

-----------------------------------------------------------------------------
(* Properties                                                              *)

\* The review queue as a set of keys; an unwritten queue is empty.
QueueSet(s) == IF IsList(s[ReviewKey]) THEN ToSet(s[ReviewKey]) ELSE {}

\* The registry of spec 4.1, seen through show_user and the queue.
AbsRegistry == INSTANCE AbstractRegistry
                   WITH users <- [k \in PubKeys |-> ShowUser(store, k)],
                        queue <- QueueSet(store)

\* register_pubkey and approve_public_key, with any of their client.set
\* calls failing, implement the spec's registry: the list-valued queue
\* behaves as a set, approval removes the key entirely, and every step is
\* a register, an approve, or the first write of one of them.
RegistryRefines == AbsRegistry!Spec

RegistryTypeOK ==
    /\ StoreTypeOK
    /\ registered \subseteq PubKeys
    /\ store[ReviewKey] \in {NotFound} \cup Seq(PubKeys)
    /\ \A k \in PubKeys : store[UserKey(k)] \in {NotFound} \cup UserStatuses

\* Registering a key that is already queued, by any interleaving of
\* register_pubkey and approve_public_key, never queues it twice.
NoDuplicatePending ==
    IsList(store[ReviewKey]) => IsInjective(store[ReviewKey])

\* Once the ledger has committed everything submitted, every user whose
\* record says need_review is in the review queue: register_pubkey and
\* approve_public_key never leave a reviewable key invisible to the admin.
PendingListed ==
    Settled =>
        \A k \in PubKeys :
            store[UserKey(k)] = need_review =>
                /\ IsList(store[ReviewKey])
                /\ Contains(store[ReviewKey], k)

\* Once everything is committed and the queue exists, list_need_approve
\* answers instead of failing on a queued key without a record.
ListPendingServes ==
    Settled /\ store[ReviewKey] # NotFound =>
        ListNeedApprove(store).ok

\* Once everything is committed, every queued key that has a record is
\* still awaiting review: list_need_approve never offers the admin a user
\* that approve_public_key already approved.
QueuedNeedReview ==
    Settled =>
        \A k \in QueueSet(store) :
            ShowUser(store, k) # NotFound => ShowUser(store, k) = need_review

\* A /register that answered {processing: true} is eventually visible to
\* show_user, without --wait too: both writes were submitted, the record
\* last, and no later handler writes NotFound over it.
RegistrationVisible ==
    \A u \in PubKeys : u \in registered ~> ShowUser(store, u) # NotFound
=============================================================================
