-------------------------- MODULE PendingRequests ---------------------------
(***************************************************************************)
(* PendingRequestsManager (src/overlay/pending-requests.ts): the table of  *)
(* requests an origin waits for, keyed by message id, with one setTimeout  *)
(* per entry and a periodic sweep.  Every method is synchronous, so it is  *)
(* one action.  A promise stands for one call of register: its resolve and *)
(* reject functions are what the manager may call.                         *)
(*                                                                         *)
(* Not modelled: the flag entry.resolved.  Each method sets it in the step *)
(* that also removes (or overwrites) the entry, so no lookup ever sees it. *)
(***************************************************************************)
EXTENDS Naturals, FiniteSets

CONSTANTS Promises,     \* calls of register
          MessageIds,
          IdOf,         \* the message id each call registers under
          Timeouts,     \* the timeouts callers ask for
          MaxTime,      \* bound on the clock
          NoPromise

ASSUME PendingAssumption ==
  /\ IdOf \in [Promises -> MessageIds]
  /\ NoPromise \notin Promises
  /\ Timeouts \subseteq Nat
  /\ MaxTime \in Nat

VARIABLES now,          \* Date.now()
          pending,      \* the Map: message id -> promise of its entry
          timers,       \* promises whose setTimeout is armed
          checkTimer,   \* the setInterval of the periodic sweep is armed
          deadline,     \* timestamp + timeout of each registered promise
          outcome,      \* what each promise was settled with
          early         \* promises timed out before their deadline (history)

vars == <<now, pending, timers, checkTimer, deadline, outcome, early>>

Errors == {"DUPLICATE", "TIMEOUT", "UNREACHABLE", "failed"}
Outcomes == {"new", "waiting", "resolved", "dropped"} \cup Errors

Live == {p \in Promises : pending[IdOf[p]] = p}

\* The promise functions of P are called with v. Nothing here hides a
\* second call on the same promise: it would show as a changed outcome.
Settle(P, v) == outcome' = [p \in Promises |-> IF p \in P THEN v ELSE outcome[p]]

Delete(ids) == pending' = [m \in MessageIds |-> IF m \in ids THEN NoPromise ELSE pending[m]]

Init ==
  /\ now = 0
  /\ pending = [m \in MessageIds |-> NoPromise]
  /\ timers = {}
  /\ checkTimer = TRUE
  /\ deadline = [p \in Promises |-> 0]
  /\ outcome = [p \in Promises |-> "new"]
  /\ early = {}

-----------------------------------------------------------------------------
\* The operations.

\* Mutants of Register: a deadline of the wrong sign; the replaced request
\* lends its timer to the new one; the replaced caller is not told.
RegisterNegativeDeadline(p, t) ==
  /\ outcome[p] = "new"
  /\ timers' = (timers \ {pending[IdOf[p]]}) \cup {p}
  /\ pending' = [pending EXCEPT ![IdOf[p]] = p]
  /\ deadline' = [deadline EXCEPT ![p] = now - t]
  /\ outcome' = [outcome EXCEPT ![p] = "waiting"]
  /\ UNCHANGED <<now, checkTimer, early>>

RegisterReusesTimer(p, t) ==
  LET id == IdOf[p]
      old == {q \in Promises : pending[id] = q}
  IN /\ outcome[p] = "new"
     /\ now + t <= MaxTime
     /\ timers' = IF old = {} THEN timers \cup {p} ELSE timers
     /\ pending' = [pending EXCEPT ![id] = p]
     /\ deadline' = [deadline EXCEPT ![p] = now + t]
     /\ outcome' = [q \in Promises |-> IF q = p THEN "waiting"
                                       ELSE IF q \in old THEN "DUPLICATE"
                                       ELSE outcome[q]]
     /\ UNCHANGED <<now, checkTimer, early>>

RegisterDropsOld(p, t) ==
  LET id == IdOf[p]
      old == {q \in Promises : pending[id] = q}
  IN /\ outcome[p] = "new"
     /\ now + t <= MaxTime
     /\ timers' = (timers \ old) \cup {p}
     /\ pending' = [pending EXCEPT ![id] = p]
     /\ deadline' = [deadline EXCEPT ![p] = now + t]
     /\ outcome' = [outcome EXCEPT ![p] = "waiting"]
     /\ UNCHANGED <<now, checkTimer, early>>

\* register: an entry under the same id is replaced, its timer cleared and
\* its promise rejected with DUPLICATE.
Register(p, t) ==
  LET id == IdOf[p]
      old == {q \in Promises : pending[id] = q}
  IN /\ outcome[p] = "new"
     /\ now + t <= MaxTime
     /\ timers' = (timers \ old) \cup {p}
     /\ pending' = [pending EXCEPT ![id] = p]
     /\ deadline' = [deadline EXCEPT ![p] = now + t]
     /\ outcome' = [q \in Promises |-> IF q = p THEN "waiting"
                                       ELSE IF q \in old THEN "DUPLICATE"
                                       ELSE outcome[q]]
     /\ UNCHANGED <<now, checkTimer, early>>

\* Mutant of SettleEntry: clearTimeout is forgotten.
SettleEntryKeepsTimer(id, v) ==
  /\ pending[id] # NoPromise
  /\ Settle({pending[id]}, v)
  /\ Delete({id})
  /\ UNCHANGED <<now, timers, checkTimer, deadline, early>>

\* resolve and reject: false and no effect without an entry.
SettleEntry(id, v) ==
  /\ pending[id] # NoPromise
  /\ Settle({pending[id]}, v)
  /\ timers' = timers \ {pending[id]}
  /\ Delete({id})
  /\ UNCHANGED <<now, checkTimer, deadline, early>>

Resolve(id) == SettleEntry(id, "resolved")
Reject(id) == SettleEntry(id, "failed")

\* Mutant of HandleTimeouts: the entry stays in the table.
HandleTimeoutsKeepsEntry(ids) ==
  LET ended == {pending[m] : m \in ids} \ {NoPromise}
  IN /\ Settle(ended, "TIMEOUT")
     /\ early' = early \cup {p \in ended : now < deadline[p]}
     /\ UNCHANGED pending

\* handleTimeout finds its entry by message id and does not clear the timer,
\* which is spent when the timer itself calls it.
HandleTimeouts(ids) ==
  LET ended == {pending[m] : m \in ids} \ {NoPromise}
  IN /\ Settle(ended, "TIMEOUT")
     /\ Delete(ids)
     /\ early' = early \cup {p \in ended : now < deadline[p]}

\* The setTimeout of p fires, at its due time or later.
TimerFires(p) ==
  /\ p \in timers
  /\ now >= deadline[p]
  /\ timers' = timers \ {p}
  /\ HandleTimeouts({IdOf[p]})
  /\ UNCHANGED <<now, checkTimer, deadline>>

\* Mutant of Overdue: one tick too generous.
OverdueByOne(m) == pending[m] # NoPromise /\ now + 1 >= deadline[pending[m]]

\* An overdue entry, as the sweep reckons it.
Overdue(m) == pending[m] # NoPromise /\ now >= deadline[pending[m]]

\* checkTimeouts: all overdue entries time out; their timers stay armed.
CheckTimeouts ==
  LET overdue == {m \in MessageIds : Overdue(m)}
  IN /\ checkTimer
     /\ overdue # {}
     /\ HandleTimeouts(overdue)
     /\ UNCHANGED <<now, timers, checkTimer, deadline>>

\* clear forgets every entry and settles none.
Clear ==
  /\ timers' = timers \ Live
  /\ Settle(Live, "dropped")
  /\ Delete(MessageIds)
  /\ UNCHANGED <<now, checkTimer, deadline, early>>

\* Mutant of Destroy: the table is emptied without rejecting anyone.
DestroySilently ==
  /\ checkTimer' = FALSE
  /\ timers' = timers \ Live
  /\ Delete(MessageIds)
  /\ UNCHANGED <<now, deadline, outcome, early>>

\* destroy rejects every entry and stops the sweep, which nothing restarts.
Destroy ==
  /\ checkTimer' = FALSE
  /\ timers' = timers \ Live
  /\ Settle(Live, "UNREACHABLE")
  /\ Delete(MessageIds)
  /\ UNCHANGED <<now, deadline, early>>

Tick ==
  /\ now < MaxTime
  /\ now' = now + 1
  /\ UNCHANGED <<pending, timers, checkTimer, deadline, outcome, early>>

Next ==
  \/ \E p \in Promises, t \in Timeouts : Register(p, t)
  \/ \E m \in MessageIds : Resolve(m) \/ Reject(m)
  \/ \E p \in Promises : TimerFires(p)
  \/ CheckTimeouts
  \/ Clear
  \/ Destroy
  \/ Tick

\* Time passes and an armed timer fires; the sweep, the answers and the
\* callers owe nothing.
Fairness ==
  /\ WF_vars(Tick)
  /\ \A p \in Promises : WF_vars(TimerFires(p))

Spec == Init /\ [][Next]_vars /\ Fairness

-----------------------------------------------------------------------------
\* Properties.

TypeOK ==
  /\ now \in Nat
  /\ pending \in [MessageIds -> Promises \cup {NoPromise}]
  /\ timers \subseteq Promises
  /\ checkTimer \in BOOLEAN
  /\ deadline \in [Promises -> Nat]
  /\ outcome \in [Promises -> Outcomes]
  /\ early \subseteq Promises

\* The table holds exactly the promises whose callers still wait: none is
\* forgotten and none that was answered can be found again.
WaitingIffLive ==
  \A p \in Promises : outcome[p] = "waiting" <=> pending[IdOf[p]] = p

\* Every entry has its own timer armed, also after a replacement under the
\* same id and after destroy: nothing waits without something to end it.
LiveHasTimer ==
  \A m \in MessageIds : pending[m] # NoPromise => pending[m] \in timers

\* A timer that outlives its entry belongs to a promise the sweep timed out.
StrayTimersAreTimedOut ==
  \A p \in timers : pending[IdOf[p]] = p \/ outcome[p] = "TIMEOUT"

\* A request whose id nobody reuses is never timed out before its timeout. (A
\* reused id may be: the sweep leaves the timer of the old request armed.)
FreshIdNeverEarly ==
  \A p \in early : \E q \in Promises \ {p} : IdOf[q] = IdOf[p]

\* The manager implements the promise contract.
Contract == INSTANCE RequestPromise WITH status <-
  [p \in Promises |-> CASE outcome[p] \in Errors -> "rejected"
                        [] outcome[p] = "dropped" -> "abandoned"
                        [] OTHER -> outcome[p]]

\* Each promise is settled once, by its own entry, and never again.
ImplementsContract == Contract!Spec

\* Every caller gets an answer, if only a TIMEOUT (clear aside).
EveryRequestSettles ==
  \A p \in Promises : outcome[p] = "waiting" ~> outcome[p] # "waiting"
=============================================================================
