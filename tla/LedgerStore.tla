---------------------------- MODULE LedgerStore ----------------------------
(***************************************************************************)
(* The replicated ledger as the REST handlers of intkey_cli.py see it      *)
(* through IntkeyClient: a flat key/value namespace read with get_value    *)
(* (client.show) and written with client.set(key, value, wait).            *)
(*                                                                         *)
(* A write is a batch submitted to the validator.  Without --wait          *)
(* (global_args.wait = None) client.set returns as soon as the batch is    *)
(* accepted; the value becomes visible to reads only when the batch is     *)
(* committed, in submission order.  With --wait the call blocks until the  *)
(* batch is committed, so the handler's later reads see it.  SYNC selects  *)
(* the mode.  Every handler issues its store calls without an await in     *)
(* between, so under the single-threaded event loop one handler step is    *)
(* atomic; the only concurrency left is the commit of pending batches.     *)
(***************************************************************************)
EXTENDS Naturals, Sequences, SequencesExt

CONSTANTS
    PubKeys,       \* public keys used as testators, witnesses and users
    KeyName,       \* KeyName[k]: the string of public key k, as tokens
    NotFound,      \* what get_value raises on for a key never written
    NoStatus,      \* a stored record without a 'status' field
    SYNC,          \* TRUE: started with --wait, set returns after commit
    WRITE_ERRORS,  \* TRUE: client.set may raise IntkeyClientException
    READ_ERRORS,   \* TRUE: get_value may raise for a key that exists
    MaxPending,    \* bound on submitted but uncommitted batches
    WILL_, LIST_, KEY_NEED_REVIEW   \* the tokens of the key prefixes

ASSUME SYNC \in BOOLEAN /\ WRITE_ERRORS \in BOOLEAN /\ READ_ERRORS \in BOOLEAN
ASSUME MaxPending \in Nat
ASSUME \A k, l \in PubKeys : KeyName[k] = KeyName[l] => k = l

VARIABLES
    store,    \* store[key]: the committed value, or NotFound
    pending   \* batches submitted and not yet committed, oldest first

storeVars == <<store, pending>>

(***************************************************************************)
(* The flat namespace (lines 55-58): a user record lives at its public     *)
(* key, a will at WILL_ + testator, a witness's index at WILL_LIST_ +      *)
(* witness, the review queue at KEY_NEED_REVIEW.  A key string is a        *)
(* sequence of tokens and + is \o: the prefixes split into the tokens      *)
(* WILL_, LIST_ and KEY_NEED_REVIEW, and KeyName[k] is the tokens of       *)
(* public key k, an opaque hex key being a token of its own.  Distinct     *)
(* keys may thus encode to the same string, as they do in the code.        *)
(***************************************************************************)
ReviewKey   == <<KEY_NEED_REVIEW>>
UserKey(k)  == KeyName[k]
WillKey(t)  == <<WILL_>> \o KeyName[t]
ListKey(w)  == <<WILL_, LIST_>> \o KeyName[w]

StoreKeys ==
    {ReviewKey} \cup {UserKey(k) : k \in PubKeys}
      \cup {WillKey(k) : k \in PubKeys} \cup {ListKey(k) : k \in PubKeys}

\* One client.set(key, value, wait) call.
Write(k, v) == [key |-> k, val |-> v]

ApplyWrites(s, ws) ==
    FoldLeft(LAMBDA acc, w : [acc EXCEPT ![w.key] = w.val], s, ws)

\* What get_value returns inside a handler that has already issued the
\* writes ws: with --wait its own writes are committed, without it only
\* what was committed before the handler ran.
View(ws) == IF SYNC THEN ApplyWrites(store, ws) ELSE store

\* The outcomes of a get_value that may fail for a reason other than a
\* missing key (FALSE: it raised IntkeyClientException).
ReadOutcomes == IF READ_ERRORS THEN BOOLEAN ELSE {TRUE}

\* How many of the handler's writes ws are issued before it stops: all of
\* them, or, when a client.set raises, the ones before the failing call.
WriteCuts(ws) == IF WRITE_ERRORS THEN 0..Len(ws) ELSE {Len(ws)}

\* As WriteCuts, for handlers whose every get_value may raise and so
\* abort the handler before the writes that follow it.
AbortCuts(ws) ==
    IF WRITE_ERRORS \/ READ_ERRORS THEN 0..Len(ws) ELSE {Len(ws)}

\* Issue the writes ws, in order, as successive client.set calls.
Submit(ws) ==
    IF SYNC
    THEN /\ store' = ApplyWrites(store, ws)
         /\ UNCHANGED pending
    ELSE /\ Len(pending) + Len(ws) <= MaxPending
         /\ pending' = pending \o ws
         /\ UNCHANGED store

\* The validator commits the oldest pending batch.
Commit ==
    /\ pending # <<>>
    /\ store' = ApplyWrites(store, <<Head(pending)>>)
    /\ pending' = Tail(pending)

StoreInit ==
    /\ store = [k \in StoreKeys |-> NotFound]
    /\ pending = <<>>

\* Every submitted batch is committed: reads see all writes made so far.
Settled == pending = <<>>

StoreTypeOK ==
    /\ DOMAIN store = StoreKeys
    /\ Len(pending) <= MaxPending
    /\ \A i \in DOMAIN pending : pending[i].key \in StoreKeys
=============================================================================
