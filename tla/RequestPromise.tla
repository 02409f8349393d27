--------------------------- MODULE RequestPromise ---------------------------
(***************************************************************************)
(* What the overlay promises to the callers of sendMessage, without saying *)
(* how it is done: a promise waits from its registration on, is settled at *)
(* most once, never changes afterwards, and at any time at most one        *)
(* promise waits for the answer to a given message id.                     *)
(***************************************************************************)
EXTENDS Naturals

CONSTANTS Promises,     \* the promises handed to callers
          MessageIds,   \* the ids under which they are registered
          IdOf          \* the id of each promise

VARIABLE status         \* the state of each promise

Statuses == {"new", "waiting", "resolved", "rejected", "abandoned"}

Waiting == {p \in Promises : status[p] = "waiting"}

Init == status = [p \in Promises |-> "new"]

\* A new promise waits; the one it replaces, if there is one, is rejected.
Register(p) ==
  /\ status[p] = "new"
  /\ status' = [q \in Promises |->
                  IF q = p THEN "waiting"
                  ELSE IF q \in Waiting /\ IdOf[q] = IdOf[p] THEN "rejected"
                  ELSE status[q]]

\* A call may be refused before anything waits.
Refuse(p) ==
  /\ status[p] = "new"
  /\ status' = [status EXCEPT ![p] = "rejected"]

Resolve(p) ==
  /\ p \in Waiting
  /\ status' = [status EXCEPT ![p] = "resolved"]

\* An error settles one promise, a timeout sweep or a shutdown several.
RejectSome ==
  \E S \in SUBSET Waiting :
     status' = [p \in Promises |-> IF p \in S THEN "rejected" ELSE status[p]]

\* The explicitly dangerous operation: every waiting caller is forgotten.
AbandonAll ==
  status' = [p \in Promises |-> IF p \in Waiting THEN "abandoned" ELSE status[p]]

Next ==
  \/ \E p \in Promises : Register(p) \/ Refuse(p) \/ Resolve(p)
  \/ RejectSome
  \/ AbandonAll

Spec == Init /\ [][Next]_status

-----------------------------------------------------------------------------
\* One caller at most waits for the answer to a message id.
OneWaiterPerId ==
  \A p, q \in Waiting : IdOf[p] = IdOf[q] => p = q
=============================================================================
