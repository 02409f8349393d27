----------------------- MODULE PendingRequestsProofs ------------------------
(***************************************************************************)
(* Safety of PendingRequests for every set of promises and ids, every      *)
(* assignment of ids to promises and every clock bound.                    *)
(***************************************************************************)
EXTENDS PendingRequests, TLAPS

\* The inductive invariant: the table and the callers agree, every entry has
\* its timer, and only a request whose id is shared was ever hurried.
IInv ==
  /\ TypeOK
  /\ \A m \in MessageIds : pending[m] # NoPromise => IdOf[pending[m]] = m
  /\ WaitingIffLive
  /\ LiveHasTimer
  /\ StrayTimersAreTimedOut
  /\ FreshIdNeverEarly

LEMMA InitIInv == Init => IInv
  BY PendingAssumption
  DEF Init, IInv, TypeOK, WaitingIffLive, LiveHasTimer, StrayTimersAreTimedOut,
      FreshIdNeverEarly, Outcomes, Errors

\* Register keeps the table and the callers in agreement.
LEMMA RegisterIInv ==
  ASSUME IInv, NEW p \in Promises, NEW t \in Timeouts, Register(p, t)
  PROVE  IInv'
<1> DEFINE old == {q \in Promises : pending[IdOf[p]] = q}
<1>0. p \notin old
  BY PendingAssumption DEF IInv, WaitingIffLive, Register
<1>1. TypeOK'
  <2>1. now + t \in Nat
    BY PendingAssumption DEF IInv, TypeOK
  <2>2. outcome' \in [Promises -> Outcomes]
    BY DEF IInv, TypeOK, Register, Outcomes, Errors
  <2>3. QED
    BY <2>1, <2>2, PendingAssumption DEF IInv, TypeOK, Register
<1>2. (\A m \in MessageIds : pending[m] # NoPromise => IdOf[pending[m]] = m)'
  BY PendingAssumption DEF IInv, TypeOK, Register
<1>3. WaitingIffLive'
  <2> SUFFICES ASSUME NEW q \in Promises
               PROVE  outcome'[q] = "waiting" <=> pending'[IdOf[q]] = q
    BY DEF WaitingIffLive
  <2>1. IdOf[p] \in MessageIds /\ IdOf[q] \in MessageIds
    BY PendingAssumption
  <2>2. CASE q = p
    BY <2>1, <2>2 DEF IInv, TypeOK, Register
  <2>3. CASE q # p /\ IdOf[q] = IdOf[p]
    BY <2>1, <2>3 DEF IInv, TypeOK, WaitingIffLive, Register
  <2>4. CASE IdOf[q] # IdOf[p]
    <3>1. q \notin old
      BY <2>1, <2>4, PendingAssumption DEF IInv
    <3>2. outcome'[q] = outcome[q] /\ pending'[IdOf[q]] = pending[IdOf[q]]
      BY <2>1, <2>4, <3>1 DEF IInv, TypeOK, Register
    <3>3. QED
      BY <3>2 DEF IInv, WaitingIffLive
  <2>5. QED
    BY <2>2, <2>3, <2>4
<1>4. LiveHasTimer'
  <2> SUFFICES ASSUME NEW m \in MessageIds, pending'[m] # NoPromise
               PROVE  pending'[m] \in timers'
    BY DEF LiveHasTimer
  <2>1. CASE m = IdOf[p]
    BY <2>1, PendingAssumption DEF IInv, TypeOK, Register
  <2>2. CASE m # IdOf[p]
    <3>1. pending'[m] = pending[m] /\ pending[m] \in timers /\ pending[m] \in Promises
      BY <2>2 DEF IInv, TypeOK, LiveHasTimer, Register
    <3>2. pending[m] \notin old
      BY <2>2, <3>1, PendingAssumption DEF IInv
    <3>3. QED
      BY <3>1, <3>2 DEF Register
  <2>3. QED
    BY <2>1, <2>2
<1>5. StrayTimersAreTimedOut'
  <2> SUFFICES ASSUME NEW q \in timers'
               PROVE  pending'[IdOf[q]] = q \/ outcome'[q] = "TIMEOUT"
    BY DEF StrayTimersAreTimedOut
  <2>1. CASE q = p
    BY <2>1, PendingAssumption DEF IInv, TypeOK, Register
  <2>2. CASE q # p
    <3>1. q \in timers /\ q \notin old /\ q \in Promises
      BY <2>2 DEF IInv, TypeOK, Register
    <3>2. outcome'[q] = outcome[q]
      BY <2>2, <3>1 DEF Register
    <3>3. CASE pending[IdOf[q]] = q
      <4>1. IdOf[q] # IdOf[p]
        BY <3>1, <3>3
      <4>2. QED
        BY <3>1, <3>3, <4>1, PendingAssumption DEF IInv, TypeOK, Register
    <3>4. QED
      BY <3>1, <3>2, <3>3 DEF IInv, StrayTimersAreTimedOut
  <2>3. QED
    BY <2>1, <2>2
<1>6. FreshIdNeverEarly'
  BY DEF IInv, FreshIdNeverEarly, Register
<1>7. QED
  BY <1>1, <1>2, <1>3, <1>4, <1>5, <1>6 DEF IInv

\* An answer or an error for one id.
LEMMA SettleEntryIInv ==
  ASSUME IInv, NEW id \in MessageIds, NEW v \in {"resolved", "failed"},
         SettleEntry(id, v)
  PROVE  IInv'
<1> DEFINE q == pending[id]
<1>0. q \in Promises /\ IdOf[q] = id /\ outcome[q] = "waiting"
  BY DEF IInv, TypeOK, SettleEntry, WaitingIffLive
<1>1. TypeOK'
  BY DEF IInv, TypeOK, SettleEntry, Settle, Delete, Outcomes, Errors
<1>2. (\A m \in MessageIds : pending[m] # NoPromise => IdOf[pending[m]] = m)'
  BY DEF IInv, SettleEntry, Delete
<1>3. WaitingIffLive'
  BY <1>0, PendingAssumption
  DEF IInv, TypeOK, WaitingIffLive, SettleEntry, Settle, Delete
<1>4. LiveHasTimer'
  BY <1>0 DEF IInv, LiveHasTimer, SettleEntry, Delete
<1>5. StrayTimersAreTimedOut'
  BY <1>0, PendingAssumption
  DEF IInv, TypeOK, StrayTimersAreTimedOut, SettleEntry, Settle, Delete
<1>6. FreshIdNeverEarly'
  BY DEF IInv, FreshIdNeverEarly, SettleEntry
<1>7. QED
  BY <1>1, <1>2, <1>3, <1>4, <1>5, <1>6 DEF IInv

\* What timing out a set of ids preserves, whatever happens to the timers.
LEMMA HandleTimeoutsTable ==
  ASSUME IInv, NEW ids \in SUBSET MessageIds, HandleTimeouts(ids)
  PROVE  /\ pending' \in [MessageIds -> Promises \cup {NoPromise}]
         /\ outcome' \in [Promises -> Outcomes]
         /\ \A m \in MessageIds : pending'[m] # NoPromise =>
                                    m \notin ids /\ pending'[m] = pending[m]
         /\ WaitingIffLive'
         /\ \A p \in Promises :
              pending[IdOf[p]] = p => pending'[IdOf[p]] = p \/ outcome'[p] = "TIMEOUT"
         /\ \A p \in Promises : outcome[p] = "TIMEOUT" => outcome'[p] = "TIMEOUT"
<1> DEFINE ended == {pending[m] : m \in ids} \ {NoPromise}
<1>1. \A p \in Promises : p \in ended <=> IdOf[p] \in ids /\ pending[IdOf[p]] = p
  BY PendingAssumption DEF IInv
<1>2. /\ outcome' = [p \in Promises |-> IF p \in ended THEN "TIMEOUT" ELSE outcome[p]]
      /\ pending' = [m \in MessageIds |-> IF m \in ids THEN NoPromise ELSE pending[m]]
  BY DEF HandleTimeouts, Settle, Delete
<1>3. pending' \in [MessageIds -> Promises \cup {NoPromise}]
  BY <1>2 DEF IInv, TypeOK
<1>4. outcome' \in [Promises -> Outcomes]
  BY <1>2 DEF IInv, TypeOK, Outcomes, Errors
<1>5. WaitingIffLive'
  BY <1>1, <1>2, PendingAssumption DEF IInv, WaitingIffLive
<1>6. \A p \in Promises :
        pending[IdOf[p]] = p => pending'[IdOf[p]] = p \/ outcome'[p] = "TIMEOUT"
  BY <1>1, <1>2, PendingAssumption
<1>7. QED
  BY <1>2, <1>3, <1>4, <1>5, <1>6

LEMMA TimerFiresIInv ==
  ASSUME IInv, NEW p \in Promises, TimerFires(p)
  PROVE  IInv'
<1> DEFINE ids == {IdOf[p]}
<1>0. ids \in SUBSET MessageIds /\ HandleTimeouts(ids)
  BY PendingAssumption DEF TimerFires
<1>1. /\ pending' \in [MessageIds -> Promises \cup {NoPromise}]
      /\ outcome' \in [Promises -> Outcomes]
      /\ \A m \in MessageIds : pending'[m] # NoPromise =>
                                 m \notin ids /\ pending'[m] = pending[m]
      /\ WaitingIffLive'
      /\ \A q \in Promises :
           pending[IdOf[q]] = q => pending'[IdOf[q]] = q \/ outcome'[q] = "TIMEOUT"
      /\ \A q \in Promises : outcome[q] = "TIMEOUT" => outcome'[q] = "TIMEOUT"
  BY <1>0, HandleTimeoutsTable
\* The timer of p hurries only an entry that is not p's own.
<1>2. ASSUME NEW q \in early'
      PROVE  q \in Promises /\ \E r \in Promises \ {q} : IdOf[r] = IdOf[q]
  <2>1. CASE q \in early
    BY <2>1 DEF IInv, TypeOK, FreshIdNeverEarly
  <2>2. CASE q \notin early
    <3>1. q = pending[IdOf[p]] /\ q # NoPromise /\ now < deadline[q]
      BY <2>2 DEF TimerFires, HandleTimeouts
    <3>2. q \in Promises /\ IdOf[q] = IdOf[p]
      BY <3>1, PendingAssumption DEF IInv, TypeOK
    <3>3. q # p
      BY <3>1, PendingAssumption DEF IInv, TypeOK, TimerFires
    <3>4. QED
      BY <3>2, <3>3
  <2>3. QED
    BY <2>1, <2>2
<1>3. TypeOK' /\ FreshIdNeverEarly'
  BY <1>1, <1>2 DEF IInv, TypeOK, FreshIdNeverEarly, TimerFires
<1>4. (\A m \in MessageIds : pending[m] # NoPromise => IdOf[pending[m]] = m)'
  BY <1>1 DEF IInv
<1>5. LiveHasTimer'
  <2> SUFFICES ASSUME NEW m \in MessageIds, pending'[m] # NoPromise
               PROVE  pending'[m] \in timers'
    BY DEF LiveHasTimer
  <2>1. m # IdOf[p] /\ pending'[m] = pending[m] /\ IdOf[pending[m]] = m
    BY <1>1 DEF IInv
  <2>2. QED
    BY <2>1 DEF IInv, LiveHasTimer, TimerFires
<1>6. StrayTimersAreTimedOut'
  BY <1>1 DEF IInv, TypeOK, StrayTimersAreTimedOut, TimerFires
<1>7. QED
  BY <1>1, <1>3, <1>4, <1>5, <1>6 DEF IInv

LEMMA CheckTimeoutsIInv ==
  ASSUME IInv, CheckTimeouts
  PROVE  IInv'
<1> DEFINE ids == {m \in MessageIds : Overdue(m)}
<1>0. ids \in SUBSET MessageIds /\ HandleTimeouts(ids)
  BY DEF CheckTimeouts
<1>1. /\ pending' \in [MessageIds -> Promises \cup {NoPromise}]
      /\ outcome' \in [Promises -> Outcomes]
      /\ \A m \in MessageIds : pending'[m] # NoPromise =>
                                 m \notin ids /\ pending'[m] = pending[m]
      /\ WaitingIffLive'
      /\ \A q \in Promises :
           pending[IdOf[q]] = q => pending'[IdOf[q]] = q \/ outcome'[q] = "TIMEOUT"
      /\ \A q \in Promises : outcome[q] = "TIMEOUT" => outcome'[q] = "TIMEOUT"
  BY <1>0, HandleTimeoutsTable
<1>2. early' = early
  <2>1. \A m \in ids : ~ (now < deadline[pending[m]])
    BY DEF IInv, TypeOK, Overdue
  <2>2. QED
    BY <1>0, <2>1 DEF HandleTimeouts
<1>3. TypeOK' /\ FreshIdNeverEarly'
  BY <1>1, <1>2 DEF IInv, TypeOK, FreshIdNeverEarly, CheckTimeouts
<1>4. (\A m \in MessageIds : pending[m] # NoPromise => IdOf[pending[m]] = m)'
  BY <1>1 DEF IInv
<1>5. LiveHasTimer'
  BY <1>1 DEF IInv, LiveHasTimer, CheckTimeouts
<1>6. StrayTimersAreTimedOut'
  BY <1>1 DEF IInv, TypeOK, StrayTimersAreTimedOut, CheckTimeouts
<1>7. QED
  BY <1>1, <1>3, <1>4, <1>5, <1>6 DEF IInv

\* Emptying the table, as clear and destroy do.
LEMMA EmptyTableIInv ==
  ASSUME IInv, NEW v \in {"dropped", "UNREACHABLE"},
         timers' = timers \ Live, Settle(Live, v), Delete(MessageIds),
         checkTimer' \in BOOLEAN, UNCHANGED <<now, deadline, early>>
  PROVE  IInv'
<1>1. TypeOK'
  BY DEF IInv, TypeOK, Settle, Delete, Outcomes, Errors
<1>2. \A m \in MessageIds : pending'[m] = NoPromise
  BY DEF Delete
<1>3. WaitingIffLive'
  BY <1>2, PendingAssumption DEF IInv, WaitingIffLive, Settle, Live
<1>4. LiveHasTimer' /\ (\A m \in MessageIds : pending[m] # NoPromise => IdOf[pending[m]] = m)'
  BY <1>2 DEF LiveHasTimer
<1>5. StrayTimersAreTimedOut'
  BY DEF IInv, TypeOK, StrayTimersAreTimedOut, Settle, Live
<1>6. FreshIdNeverEarly'
  BY DEF IInv, FreshIdNeverEarly
<1>7. QED
  BY <1>1, <1>3, <1>4, <1>5, <1>6 DEF IInv

LEMMA NextIInv == IInv /\ [Next]_vars => IInv'
<1> SUFFICES ASSUME IInv, [Next]_vars
             PROVE  IInv'
  OBVIOUS
<1>1. ASSUME NEW p \in Promises, NEW t \in Timeouts, Register(p, t)
      PROVE  IInv'
  BY <1>1, RegisterIInv
<1>2. ASSUME NEW m \in MessageIds, Resolve(m) \/ Reject(m)
      PROVE  IInv'
  BY <1>2, SettleEntryIInv DEF Resolve, Reject
<1>3. ASSUME NEW p \in Promises, TimerFires(p)
      PROVE  IInv'
  BY <1>3, TimerFiresIInv
<1>4. CASE CheckTimeouts
  BY <1>4, CheckTimeoutsIInv
<1>5. CASE Clear
  <2>1. checkTimer' \in BOOLEAN
    BY <1>5 DEF Clear, IInv, TypeOK
  <2>2. QED
    BY <1>5, <2>1, EmptyTableIInv DEF Clear
<1>6. CASE Destroy
  BY <1>6, EmptyTableIInv DEF Destroy
<1>7. CASE Tick
  BY <1>7 DEF Tick, IInv, TypeOK, WaitingIffLive, LiveHasTimer,
              StrayTimersAreTimedOut, FreshIdNeverEarly
<1>8. CASE UNCHANGED vars
  BY <1>8 DEF vars, IInv, TypeOK, WaitingIffLive, LiveHasTimer,
              StrayTimersAreTimedOut, FreshIdNeverEarly
<1>9. QED
  BY <1>1, <1>2, <1>3, <1>4, <1>5, <1>6, <1>7, <1>8 DEF Next

LEMMA SpecIInv == Spec => []IInv
  BY InitIInv, NextIInv, PTL DEF Spec

\* Types are preserved by every operation of the manager.
THEOREM TypeCorrect == Spec => []TypeOK
  BY SpecIInv, PTL DEF IInv

\* The table holds exactly the promises whose callers wait.
THEOREM TableMatchesCallers == Spec => []WaitingIffLive
  BY SpecIInv, PTL DEF IInv

\* Every entry has its own timer armed, so nothing can wait for ever.
THEOREM EveryEntryTimed == Spec => []LiveHasTimer
  BY SpecIInv, PTL DEF IInv

\* A timer that outlives its entry belongs to a promise the sweep timed out.
THEOREM StrayTimers == Spec => []StrayTimersAreTimedOut
  BY SpecIInv, PTL DEF IInv

\* With fresh ids, as sendMessage draws them, no request times out early.
THEOREM NeverEarlyWithFreshIds == Spec => []FreshIdNeverEarly
  BY SpecIInv, PTL DEF IInv

-----------------------------------------------------------------------------
(***************************************************************************)
(* The manager implements RequestPromise: a step settles only promises     *)
(* that still wait, so no caller is ever answered twice.                   *)
(***************************************************************************)

\* The status a promise shows its caller.
Status == [p \in Promises |-> CASE outcome[p] \in Errors -> "rejected"
                                [] outcome[p] = "dropped" -> "abandoned"
                                [] OTHER -> outcome[p]]

LEMMA StatusOf ==
  ASSUME NEW p \in Promises
  PROVE  /\ outcome[p] = "waiting" => Status[p] = "waiting"
         /\ Status[p] = "waiting" => outcome[p] = "waiting"
         /\ outcome[p] = "new" => Status[p] = "new"
         /\ outcome[p] = "resolved" => Status[p] = "resolved"
         /\ outcome[p] = "dropped" => Status[p] = "abandoned"
         /\ outcome[p] \in Errors => Status[p] = "rejected"
  BY DEF Status, Errors

\* A step that settles a set of waiting promises with errors is a RejectSome.
LEMMA RejectsAreContract ==
  ASSUME IInv, NEW S \in SUBSET Promises, NEW e \in Errors,
         \A p \in S : outcome[p] = "waiting", Settle(S, e)
  PROVE  Contract!RejectSome
<1>1. S \in SUBSET Contract!Waiting
  BY StatusOf DEF Contract!Waiting, Status
<1>2. Status' = [p \in Promises |-> IF p \in S THEN "rejected" ELSE Status[p]]
  BY DEF Status, Settle, Errors
<1>3. QED
  BY <1>1, <1>2 DEF Contract!RejectSome, Status

LEMMA StepImplements ==
  ASSUME IInv, [Next]_vars
  PROVE  [Contract!Next]_Status
<1>0. \A p \in Live : p \in Promises /\ outcome[p] = "waiting"
  BY DEF Live, IInv, WaitingIffLive
<1>1. ASSUME NEW p \in Promises, NEW t \in Timeouts, Register(p, t)
      PROVE  Contract!Register(p)
  <2> DEFINE old == {q \in Promises : pending[IdOf[p]] = q}
  <2>1. Status[p] = "new"
    BY <1>1, StatusOf DEF Register
  <2>2. \A q \in Promises : q \in old <=> outcome[q] = "waiting" /\ IdOf[q] = IdOf[p]
    BY PendingAssumption DEF IInv, TypeOK, WaitingIffLive
  <2>3. ASSUME NEW q \in Promises
        PROVE  Status'[q] = IF q = p THEN "waiting"
                            ELSE IF q \in Contract!Waiting /\ IdOf[q] = IdOf[p] THEN "rejected"
                            ELSE Status[q]
    <3>1. q \in Contract!Waiting <=> outcome[q] = "waiting"
      BY StatusOf DEF Contract!Waiting, Status
    <3>2. outcome'[q] = IF q = p THEN "waiting" ELSE IF q \in old THEN "DUPLICATE" ELSE outcome[q]
      BY <1>1 DEF Register
    <3>3. CASE q = p
      BY <3>2, <3>3 DEF Status, Errors
    <3>4. CASE q # p /\ q \in old
      BY <3>1, <3>2, <3>4, <2>2 DEF Status, Errors
    <3>5. CASE q # p /\ q \notin old
      BY <3>1, <3>2, <3>5, <2>2 DEF Status
    <3>6. QED
      BY <3>3, <3>4, <3>5
  <2>4. Status' = [q \in Promises |->
                     IF q = p THEN "waiting"
                     ELSE IF q \in Contract!Waiting /\ IdOf[q] = IdOf[p] THEN "rejected"
                     ELSE Status[q]]
    BY <2>3 DEF Status
  <2>5. QED
    BY <2>1, <2>4 DEF Contract!Register, Status
<1>2. ASSUME NEW m \in MessageIds, Resolve(m)
      PROVE  \E p \in Promises : Contract!Resolve(p)
  <2>1. PICK p \in Promises : p = pending[m]
    BY <1>2 DEF Resolve, SettleEntry, IInv, TypeOK
  <2>2. outcome[p] = "waiting"
    BY <1>2, <2>1 DEF Resolve, SettleEntry, IInv, WaitingIffLive
  <2>3. p \in Contract!Waiting
    BY <2>2, StatusOf DEF Contract!Waiting, Status
  <2>4. Status' = [Status EXCEPT ![p] = "resolved"]
    BY <1>2, <2>1 DEF Resolve, SettleEntry, Settle, Status, Errors
  <2>5. QED
    BY <2>3, <2>4 DEF Contract!Resolve, Status
<1>3. ASSUME NEW m \in MessageIds, Reject(m)
      PROVE  Contract!RejectSome
  <2>1. pending[m] \in Promises /\ outcome[pending[m]] = "waiting"
    BY <1>3 DEF Reject, SettleEntry, IInv, TypeOK, WaitingIffLive
  <2>2. Settle({pending[m]}, "failed")
    BY <1>3 DEF Reject, SettleEntry
  <2>3. QED
    BY <2>1, <2>2, RejectsAreContract DEF Errors
<1>4. ASSUME NEW ids \in SUBSET MessageIds, HandleTimeouts(ids)
      PROVE  Contract!RejectSome
  <2> DEFINE ended == {pending[m] : m \in ids} \ {NoPromise}
  <2>1. ended \in SUBSET Promises /\ \A p \in ended : outcome[p] = "waiting"
    BY PendingAssumption DEF IInv, TypeOK, WaitingIffLive
  <2>2. Settle(ended, "TIMEOUT")
    BY <1>4 DEF HandleTimeouts
  <2>3. QED
    BY <2>1, <2>2, RejectsAreContract DEF Errors
<1>5. ASSUME NEW p \in Promises, TimerFires(p)
      PROVE  Contract!RejectSome
  <2>1. {IdOf[p]} \in SUBSET MessageIds /\ HandleTimeouts({IdOf[p]})
    BY <1>5, PendingAssumption DEF TimerFires
  <2>2. QED
    BY <2>1, <1>4
<1>6. CASE CheckTimeouts
  <2>1. HandleTimeouts({m \in MessageIds : Overdue(m)})
    BY <1>6 DEF CheckTimeouts
  <2>2. QED
    BY <2>1, <1>4 DEF Contract!Next
<1>7. CASE Clear
  <2>1. \A p \in Promises : p \in Contract!Waiting <=> p \in Live
    BY StatusOf DEF Contract!Waiting, Status, Live, IInv, WaitingIffLive
  <2>2. Status' = [p \in Promises |-> IF p \in Contract!Waiting THEN "abandoned" ELSE Status[p]]
    BY <1>7, <2>1 DEF Clear, Settle, Status, Errors
  <2>3. QED
    BY <2>2 DEF Contract!AbandonAll, Contract!Next, Status
<1>8. CASE Destroy
  <2>1. Live \in SUBSET Promises /\ Settle(Live, "UNREACHABLE")
    BY <1>8 DEF Destroy, Live
  <2>2. QED
    BY <2>1, <1>0, RejectsAreContract DEF Errors, Contract!Next
<1>9. CASE Tick \/ UNCHANGED vars
  BY <1>9 DEF Tick, vars, Status
<1>10. QED
  BY <1>1, <1>2, <1>3, <1>5, <1>6, <1>7, <1>8, <1>9 DEF Next, Contract!Next

\* The manager implements the promise contract: every promise settles at
\* most once, and only while it is the one registered under its id.
THEOREM ManagerImplementsContract == Spec => ImplementsContract
<1>1. Init => Contract!Init
  BY DEF Init, Contract!Init, Errors
<1>2. IInv /\ [Next]_vars => [Contract!Next]_Status
  BY StepImplements
<1>3. QED
  BY <1>1, <1>2, SpecIInv, PTL DEF Spec, ImplementsContract, Contract!Spec, Status
=============================================================================
