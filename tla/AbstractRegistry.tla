-------------------------- MODULE AbstractRegistry --------------------------
(***************************************************************************)
(* The registry of spec 4.1 as a state machine: each public key has a     *)
(* record status or none, and the review queue is a set.  Register and    *)
(* Approve each make two separate writes (spec 4.1, 7), so each may stop  *)
(* after its first one.                                                    *)
(***************************************************************************)
CONSTANTS PubKeys, NotFound, NoStatus, RegisterStatuses, need_review, approved

VARIABLES
    users,   \* users[k]: the status of k's record, or NotFound
    queue    \* the set of keys awaiting review

vars == <<users, queue>>

Init ==
    /\ users = [k \in PubKeys |-> NotFound]
    /\ queue = {}

\* The queue write of a registration, without the record write.
Enqueue(k) ==
    /\ queue' = queue \cup {k}
    /\ UNCHANGED users

\* A registration: k is queued and its record gets the caller's status or
\* need_review.
Register(k, st) ==
    /\ queue' = queue \cup {k}
    /\ users' = [users EXCEPT ![k] = IF st = NoStatus THEN need_review ELSE st]

\* The record write of an approval, without the queue write.
MarkApproved(k) ==
    /\ users[k] # NotFound
    /\ users' = [users EXCEPT ![k] = approved]
    /\ UNCHANGED queue

\* An approval of a registered key: approved and no longer queued.
Approve(k) ==
    /\ users[k] # NotFound
    /\ users' = [users EXCEPT ![k] = approved]
    /\ queue' = queue \ {k}

Next ==
    \E k \in PubKeys :
        \/ Enqueue(k)
        \/ \E st \in RegisterStatuses : Register(k, st)
        \/ MarkApproved(k)
        \/ Approve(k)

Spec == Init /\ [][Next]_vars
=============================================================================
