---------------------- MODULE ConnectionUpgraderProofs ----------------------
(***************************************************************************)
(* Safety of ConnectionUpgrader for any peers, connections and attempts.   *)
(***************************************************************************)
EXTENDS ConnectionUpgrader, TLAPS

\* An entry is never newer than the count of its peer's entries, so that the
\* next entry differs from all that attempts still hold.
GenerationsOK ==
  /\ \A p \in Nodes : entries[p] # None => entries[p].gen <= gens[p]
  /\ \A u \in upgrades : u.gen <= gens[u.peer]

IInv ==
  /\ UpgraderTypeOK
  /\ GenerationsOK
  /\ OneUpgradePerEntry
  /\ BusyIffUpgrading
  /\ TrackedAreConnected

LEMMA InitIInv == UpgraderInit => IInv
<1> SUFFICES ASSUME UpgraderInit PROVE IInv
  OBVIOUS
<1>1. 0 \in 0..MaxConns /\ 0 \in 0..MaxStops
  BY UpgraderAssumption
<1>2. entries \in [Nodes -> UpgradeEntry \cup {None}] /\ gens \in [Nodes -> Nat]
  BY DEF UpgraderInit
<1>3. UpgraderTypeOK
  BY <1>1, <1>2 DEF UpgraderInit, UpgraderTypeOK
<1>4. upgrades = {} /\ \A p \in Nodes : entries[p] = None
  BY DEF UpgraderInit
<1>5. GenerationsOK /\ OneUpgradePerEntry /\ BusyIffUpgrading /\ TrackedAreConnected
  BY <1>4 DEF GenerationsOK, OneUpgradePerEntry, BusyIffUpgrading, TrackedAreConnected
<1>6. QED
  BY <1>3, <1>5 DEF IInv

-----------------------------------------------------------------------------
(* The table changes while attempts go on.                                 *)

\* What Track does to each entry.
LEMMA TrackEntries ==
  ASSUME UpgraderTypeOK, NEW P, Track(P)
  PROVE  /\ gens' \in [Nodes -> Nat]
         /\ entries' \in [Nodes -> UpgradeEntry \cup {None}]
         /\ \A p \in Nodes :
              \/ entries'[p] = entries[p] /\ gens'[p] = gens[p]
              \/ /\ p \in P /\ gens'[p] = gens[p] + 1
                 /\ entries'[p].gen = gens[p] + 1 /\ ~ entries'[p].busy
<1>1. \A p \in Nodes : [gen |-> gens[p] + 1, tries |-> 0, busy |-> FALSE] \in UpgradeEntry
  <2>1. 0 \in 0..MaxUpgradeAttempts
    BY UpgraderAssumption
  <2>2. QED
    BY <2>1 DEF UpgraderTypeOK, UpgradeEntry
<1>2. gens' \in [Nodes -> Nat]
  BY DEF Track, UpgraderTypeOK
<1>3. entries' \in [Nodes -> UpgradeEntry \cup {None}]
  BY <1>1 DEF Track, UpgraderTypeOK
<1>4. QED
  BY <1>2, <1>3 DEF Track, UpgraderTypeOK

\* Tracking connected peers keeps the table consistent.
LEMMA TrackIInv ==
  ASSUME IInv, NEW P, Track(P), UNCHANGED upgrades,
         \A c \in links : c \in links',
         \A p \in P \cap Nodes : \E c \in links' : c.peer = p
  PROVE  /\ GenerationsOK' /\ OneUpgradePerEntry' /\ BusyIffUpgrading' /\ TrackedAreConnected'
<1>1. /\ \A p \in Nodes :
           \/ entries'[p] = entries[p] /\ gens'[p] = gens[p]
           \/ /\ p \in P /\ gens'[p] = gens[p] + 1
              /\ entries'[p].gen = gens[p] + 1 /\ ~ entries'[p].busy
      /\ \A p \in Nodes : gens[p] \in Nat
      /\ \A u \in upgrades : u.peer \in Nodes /\ u.gen \in Nat /\ u.gen <= gens[u.peer]
  BY TrackEntries DEF IInv, UpgraderTypeOK, GenerationsOK, Upgrade
<1>2. GenerationsOK'
  BY <1>1 DEF IInv, GenerationsOK, UpgraderTypeOK, UpgradeEntry
<1>3. OneUpgradePerEntry'
  BY DEF IInv, OneUpgradePerEntry
<1>4. BusyIffUpgrading'
  <2> SUFFICES ASSUME NEW p \in Nodes, entries'[p] # None
               PROVE  entries'[p].busy <=>
                        \E u \in upgrades : u.peer = p /\ u.gen = entries'[p].gen
    BY DEF BusyIffUpgrading
  <2>1. CASE entries'[p] = entries[p]
    BY <2>1 DEF IInv, BusyIffUpgrading
  <2>2. CASE entries'[p].gen = gens[p] + 1 /\ ~ entries'[p].busy
    BY <1>1, <2>2
  <2>3. QED
    BY <1>1, <2>1, <2>2
<1>5. TrackedAreConnected'
  <2> SUFFICES ASSUME NEW p \in Nodes, entries'[p] # None
               PROVE  \E c \in links' : c.peer = p
    BY DEF TrackedAreConnected, ConnsOf
  <2>1. CASE entries'[p] = entries[p]
    BY <2>1 DEF IInv, TrackedAreConnected, ConnsOf
  <2>2. CASE p \in P
    BY <2>2
  <2>3. QED
    BY <1>1, <2>1, <2>2
<1>6. QED
  BY <1>2, <1>3, <1>4, <1>5

LEMMA AddConnectionIInv ==
  ASSUME IInv, NEW p \in Nodes, NEW relayed \in BOOLEAN, AddConnection(p, relayed)
  PROVE  /\ links' \subseteq Link /\ opened' \in 0..MaxConns
         /\ gens' \in [Nodes -> Nat] /\ entries' \in [Nodes -> UpgradeEntry \cup {None}]
         /\ \A q \in Nodes :
              \/ entries'[q] = entries[q] /\ gens'[q] = gens[q]
              \/ /\ gens'[q] = gens[q] + 1
                 /\ entries'[q].gen = gens[q] + 1 /\ ~ entries'[q].busy
         /\ TrackedAreConnected'
         /\ UNCHANGED upgrades =>
              GenerationsOK' /\ OneUpgradePerEntry' /\ BusyIffUpgrading'
<1> DEFINE c == [id |-> opened + 1, peer |-> p, relayed |-> relayed]
           P == IF relayed /\ ConnsOf(p) = {} THEN {p} ELSE {}
<1>1. Track(P) /\ links' = links \cup {c} /\ opened' = opened + 1 /\ opened < MaxConns
  BY DEF AddConnection
<1>2. opened + 1 \in 1..MaxConns /\ opened' \in 0..MaxConns
  BY <1>1, UpgraderAssumption DEF IInv, UpgraderTypeOK
<1>3. c \in Link /\ c.peer = p
  BY <1>2 DEF Link
<1>4. links' \subseteq Link
  BY <1>1, <1>3 DEF IInv, UpgraderTypeOK
<1>5. \A q \in P \cap Nodes : \E d \in links' : d.peer = q
  BY <1>1, <1>3
<1>6. /\ gens' \in [Nodes -> Nat] /\ entries' \in [Nodes -> UpgradeEntry \cup {None}]
      /\ \A q \in Nodes :
              \/ entries'[q] = entries[q] /\ gens'[q] = gens[q]
              \/ /\ q \in P /\ gens'[q] = gens[q] + 1
                 /\ entries'[q].gen = gens[q] + 1 /\ ~ entries'[q].busy
  <2> HIDE DEF P
  <2>1. QED
    BY <1>1, TrackEntries DEF IInv
<1>7. TrackedAreConnected'
  <2> SUFFICES ASSUME NEW q \in Nodes, entries'[q] # None
               PROVE  \E d \in links' : d.peer = q
    BY DEF TrackedAreConnected, ConnsOf
  <2>1. CASE entries'[q] = entries[q]
    BY <1>1, <2>1 DEF IInv, TrackedAreConnected, ConnsOf
  <2>2. CASE q \in P
    BY <1>5, <2>2
  <2>3. QED
    BY <1>6, <2>1, <2>2
<1>8. ASSUME UNCHANGED upgrades
      PROVE  GenerationsOK' /\ OneUpgradePerEntry' /\ BusyIffUpgrading'
  <2>1. \A d \in links : d \in links'
    BY <1>1
  <2> HIDE DEF P
  <2>2. QED
    BY <1>1, <1>5, <1>8, <2>1, TrackIInv
<1>9. QED
  BY <1>2, <1>4, <1>6, <1>7, <1>8

\* An untracked peer needs nothing.
LEMMA UntrackIInv ==
  ASSUME IInv, NEW P, Untrack(P), UNCHANGED <<gens, upgrades>>,
         \A p \in Nodes \ P : (\E c \in links : c.peer = p) => (\E c \in links' : c.peer = p)
  PROVE  /\ entries' \in [Nodes -> UpgradeEntry \cup {None}]
         /\ GenerationsOK' /\ OneUpgradePerEntry' /\ BusyIffUpgrading' /\ TrackedAreConnected'
<1>1. \A p \in Nodes : entries'[p] = None \/ (p \notin P /\ entries'[p] = entries[p])
  BY DEF Untrack
<1>2. entries' \in [Nodes -> UpgradeEntry \cup {None}]
  BY DEF Untrack, IInv, UpgraderTypeOK
<1>3. GenerationsOK' /\ OneUpgradePerEntry'
  BY <1>1 DEF IInv, GenerationsOK, OneUpgradePerEntry
<1>4. BusyIffUpgrading'
  BY <1>1 DEF IInv, BusyIffUpgrading
<1>5. TrackedAreConnected'
  BY <1>1 DEF IInv, TrackedAreConnected, ConnsOf
<1>6. QED
  BY <1>2, <1>3, <1>4, <1>5

LEMMA RemoveConnectionIInv ==
  ASSUME IInv, NEW c \in links, RemoveConnection(c)
  PROVE  /\ links' \subseteq Link /\ UNCHANGED <<opened, gens>>
         /\ entries' \in [Nodes -> UpgradeEntry \cup {None}]
         /\ \A p \in Nodes : entries'[p] = None \/ entries'[p] = entries[p]
         /\ TrackedAreConnected'
         /\ UNCHANGED upgrades => GenerationsOK' /\ OneUpgradePerEntry' /\ BusyIffUpgrading'
<1> DEFINE P == IF ConnsOf(c.peer) = {c} THEN {c.peer} ELSE {}
<1>1. Untrack(P) /\ links' = links \ {c} /\ UNCHANGED <<opened, gens>>
  BY DEF RemoveConnection
<1>2. \A p \in Nodes \ P :
        (\E d \in links : d.peer = p) => (\E d \in links' : d.peer = p)
  BY <1>1 DEF ConnsOf
<1>3. \A p \in Nodes : entries'[p] = None \/ (p \notin P /\ entries'[p] = entries[p])
  BY <1>1 DEF Untrack
<1>4. entries' \in [Nodes -> UpgradeEntry \cup {None}]
  BY <1>1 DEF Untrack, IInv, UpgraderTypeOK
<1>5. TrackedAreConnected'
  BY <1>2, <1>3 DEF IInv, TrackedAreConnected, ConnsOf
<1>6. ASSUME UNCHANGED upgrades
      PROVE  GenerationsOK' /\ OneUpgradePerEntry' /\ BusyIffUpgrading'
  <2> HIDE DEF P
  <2>1. QED
    BY <1>1, <1>2, <1>6, UntrackIInv
<1>7. QED
  BY <1>1, <1>3, <1>4, <1>5, <1>6 DEF IInv, UpgraderTypeOK

-----------------------------------------------------------------------------
(* Attempts.                                                               *)

\* An attempt goes on while entries come and go.
LEMMA MoveIInv ==
  ASSUME IInv, NEW u \in upgrades,
         NEW step \in {"addresses", "dialing", "dialed", "closing"},
         NEW toClose \in SUBSET Link,
         UpgradeMoves(u, step, toClose),
         gens' \in [Nodes -> Nat], entries' \in [Nodes -> UpgradeEntry \cup {None}],
         \A p \in Nodes :
           \/ entries'[p] \in {entries[p], None} /\ gens'[p] = gens[p]
           \/ /\ gens'[p] = gens[p] + 1
              /\ entries'[p].gen = gens[p] + 1 /\ ~ entries'[p].busy
  PROVE  upgrades' \subseteq Upgrade /\ GenerationsOK' /\ OneUpgradePerEntry' /\ BusyIffUpgrading'
<1> DEFINE moved == [u EXCEPT !.step = step, !.toClose = toClose]
<1>1. /\ moved \in Upgrade
      /\ moved.peer = u.peer /\ moved.gen = u.gen
      /\ upgrades' = (upgrades \ {u}) \cup {moved}
      /\ upgrades \subseteq Upgrade
  BY DEF IInv, UpgraderTypeOK, Upgrade, UpgradeMoves
<1> HIDE DEF moved
<1>2. \A p \in Nodes, g \in Nat :
        (\E v \in upgrades' : v.peer = p /\ v.gen = g)
          <=> (\E v \in upgrades : v.peer = p /\ v.gen = g)
  BY <1>1
<1>3. \A v \in upgrades' : v.peer \in Nodes /\ v.gen \in Nat /\ v.gen <= gens[v.peer]
  BY <1>1 DEF IInv, GenerationsOK, Upgrade
<1>4. \A p \in Nodes : gens[p] \in Nat /\ gens'[p] \in Nat /\ gens[p] <= gens'[p]
  BY DEF IInv, UpgraderTypeOK
<1>5. GenerationsOK'
  <2>1. \A v \in upgrades' : v.gen <= gens'[v.peer]
    BY <1>3, <1>4
  <2>2. ASSUME NEW p \in Nodes, entries'[p] # None
        PROVE  entries'[p].gen <= gens'[p]
    BY <1>4, <2>2 DEF IInv, GenerationsOK
  <2>3. QED
    BY <2>1, <2>2 DEF GenerationsOK
<1>6. OneUpgradePerEntry'
  BY <1>1 DEF IInv, OneUpgradePerEntry
<1>7. BusyIffUpgrading'
  <2> SUFFICES ASSUME NEW p \in Nodes, entries'[p] # None
               PROVE  entries'[p].busy <=>
                        \E v \in upgrades' : v.peer = p /\ v.gen = entries'[p].gen
    BY DEF BusyIffUpgrading
  <2>1. CASE entries'[p] = entries[p]
    <3>1. entries[p].gen \in Nat
      BY <2>1 DEF IInv, UpgraderTypeOK, UpgradeEntry
    <3>2. QED
      BY <1>2, <2>1, <3>1 DEF IInv, BusyIffUpgrading
  <2>2. CASE entries'[p].gen = gens[p] + 1 /\ ~ entries'[p].busy
    BY <1>3, <1>4, <2>2
  <2>3. QED
    BY <2>1, <2>2
<1>8. QED
  BY <1>1, <1>5, <1>6, <1>7

\* An attempt begins on an entry that none is at work on.
LEMMA AttemptUpgradeIInv ==
  ASSUME IInv, NEW p \in Nodes, AttemptUpgrade(p)
  PROVE  IInv'
<1> DEFINE e == entries[p]
           u == [peer |-> p, gen |-> e.gen, n |-> e.tries + 1,
                 step |-> "addresses", toClose |-> {}]
           f == [e EXCEPT !.busy = TRUE, !.tries = @ + 1]
<1>1. e \in UpgradeEntry /\ ~ e.busy /\ e.tries < MaxUpgradeAttempts /\ e # None
  BY DEF AttemptUpgrade, IInv, UpgraderTypeOK
<1>2. e.tries + 1 \in 1..MaxUpgradeAttempts /\ e.tries + 1 \in 0..MaxUpgradeAttempts
  BY <1>1, UpgraderAssumption DEF UpgradeEntry
<1>3. u \in Upgrade /\ u.peer = p /\ u.gen = e.gen
  BY <1>1, <1>2 DEF Upgrade, UpgradeEntry
<1>4. f \in UpgradeEntry /\ f.busy /\ f.gen = e.gen
  BY <1>1, <1>2 DEF UpgradeEntry
<1>5. entries' = [entries EXCEPT ![p] = f]
  BY <1>1 DEF AttemptUpgrade, BeginUpgrade, UpgradeEntry, IInv, UpgraderTypeOK
<1>6. upgrades' = upgrades \cup {u} /\ UNCHANGED <<node, timerOn, initialized, links, opened, gens, stops>>
  BY DEF AttemptUpgrade, BeginUpgrade
<1>7. \A v \in upgrades : ~ (v.peer = p /\ v.gen = e.gen)
  BY <1>1 DEF IInv, BusyIffUpgrading
<1>8. \A q \in Nodes : entries'[q] = IF q = p THEN f ELSE entries[q]
  BY <1>5 DEF IInv, UpgraderTypeOK
<1> HIDE DEF e, u, f
<1>9. UpgraderTypeOK'
  BY <1>3, <1>4, <1>5, <1>6 DEF IInv, UpgraderTypeOK
<1>10. GenerationsOK'
  BY <1>1, <1>3, <1>4, <1>6, <1>8 DEF IInv, GenerationsOK, e
<1>11. OneUpgradePerEntry'
  BY <1>3, <1>6, <1>7 DEF IInv, OneUpgradePerEntry
<1>12. BusyIffUpgrading'
  <2> SUFFICES ASSUME NEW q \in Nodes, entries'[q] # None
               PROVE  entries'[q].busy <=>
                        \E v \in upgrades' : v.peer = q /\ v.gen = entries'[q].gen
    BY DEF BusyIffUpgrading
  <2>1. CASE q = p
    BY <1>3, <1>4, <1>6, <1>8, <2>1
  <2>2. CASE q # p
    BY <1>3, <1>6, <1>8, <2>2 DEF IInv, BusyIffUpgrading
  <2>3. QED
    BY <2>1, <2>2
<1>13. TrackedAreConnected'
  BY <1>1, <1>6, <1>8 DEF IInv, TrackedAreConnected, ConnsOf, e
<1>14. QED
  BY <1>9, <1>10, <1>11, <1>12, <1>13 DEF IInv

\* An attempt that ends in failure leaves its entry free for the next one.
LEMMA UpgradeFailsIInv ==
  ASSUME IInv, NEW u \in upgrades, UpgradeFails(u)
  PROVE  IInv'
<1> DEFINE mine == entries[u.peer] # None /\ entries[u.peer].gen = u.gen
<1>1. /\ upgrades' = upgrades \ {u}
      /\ UNCHANGED <<node, timerOn, initialized, links, opened, gens, stops>>
      /\ u.peer \in Nodes
  BY DEF UpgradeFails, IInv, UpgraderTypeOK, Upgrade
<1>2. \A p \in Nodes : entries[p] # None => entries[p] \in UpgradeEntry
  BY DEF IInv, UpgraderTypeOK
<1>3. /\ entries' \in [Nodes -> UpgradeEntry \cup {None}]
      /\ \A p \in Nodes :
           \/ entries'[p] = entries[p] /\ ~ (p = u.peer /\ mine)
           \/ /\ p = u.peer /\ mine
              /\ entries'[p].gen = u.gen /\ ~ entries'[p].busy
  <2>1. CASE mine
    <3>1. [entries[u.peer] EXCEPT !.busy = FALSE] \in UpgradeEntry
      BY <1>1, <1>2, <2>1 DEF UpgradeEntry
    <3>2. entries' = [entries EXCEPT ![u.peer].busy = FALSE]
      BY <2>1 DEF UpgradeFails
    <3>3. QED
      BY <1>1, <1>2, <2>1, <3>1, <3>2 DEF IInv, UpgraderTypeOK, UpgradeEntry
  <2>2. CASE ~ mine
    BY <2>2 DEF UpgradeFails, IInv, UpgraderTypeOK
  <2>3. QED
    BY <2>1, <2>2
<1>4. UpgraderTypeOK'
  BY <1>1, <1>3 DEF IInv, UpgraderTypeOK
<1>5. GenerationsOK' /\ OneUpgradePerEntry'
  BY <1>1, <1>3 DEF IInv, GenerationsOK, OneUpgradePerEntry
<1>6. BusyIffUpgrading'
  <2> SUFFICES ASSUME NEW p \in Nodes, entries'[p] # None
               PROVE  entries'[p].busy <=>
                        \E v \in upgrades' : v.peer = p /\ v.gen = entries'[p].gen
    BY DEF BusyIffUpgrading
  <2>1. CASE p = u.peer /\ mine
    <3>1. entries'[p].gen = u.gen /\ ~ entries'[p].busy
      BY <1>3, <2>1
    <3>2. \A v \in upgrades' : ~ (v.peer = p /\ v.gen = u.gen)
      BY <1>1, <2>1 DEF IInv, OneUpgradePerEntry
    <3>3. QED
      BY <3>1, <3>2
  <2>2. CASE ~ (p = u.peer /\ mine)
    BY <1>1, <1>3, <2>2 DEF IInv, BusyIffUpgrading
  <2>3. QED
    BY <2>1, <2>2
<1>7. TrackedAreConnected'
  BY <1>1, <1>3 DEF IInv, TrackedAreConnected, ConnsOf
<1>8. QED
  BY <1>4, <1>5, <1>6, <1>7 DEF IInv

\* An attempt that succeeds removes the entry of its peer, even a newer one.
LEMMA UpgradeSucceedsIInv ==
  ASSUME IInv, NEW u \in upgrades, UpgradeSucceeds(u)
  PROVE  IInv'
<1>1. /\ upgrades' = upgrades \ {u}
      /\ UNCHANGED <<node, timerOn, initialized, links, opened, gens, stops>>
      /\ entries' = [p \in Nodes |-> IF p \in {u.peer} THEN None ELSE entries[p]]
  BY DEF UpgradeSucceeds, Untrack
<1>2. \A p \in Nodes : \/ entries'[p] = None
                       \/ p # u.peer /\ entries'[p] = entries[p]
  BY <1>1
<1>3. UpgraderTypeOK'
  BY <1>1 DEF IInv, UpgraderTypeOK
<1>4. GenerationsOK' /\ OneUpgradePerEntry' /\ TrackedAreConnected'
  BY <1>1, <1>2 DEF IInv, GenerationsOK, OneUpgradePerEntry, TrackedAreConnected, ConnsOf
<1>5. BusyIffUpgrading'
  BY <1>1, <1>2 DEF IInv, BusyIffUpgrading
<1>6. QED
  BY <1>3, <1>4, <1>5 DEF IInv

LEMMA UpgradeStepIInv ==
  ASSUME IInv, NEW u \in upgrades, UpgradeStep(u)
  PROVE  IInv'
<1>1. /\ UpgraderTypeOK /\ u \in Upgrade /\ u.peer \in Nodes
      /\ u.toClose \subseteq Link /\ RelayedOf(u.peer) \subseteq Link
      /\ gens \in [Nodes -> Nat] /\ entries \in [Nodes -> UpgradeEntry \cup {None}]
  BY DEF IInv, UpgraderTypeOK, Upgrade, RelayedOf, ConnsOf
<1>2. ASSUME UNCHANGED <<node, timerOn, initialized, links, opened, entries, gens, stops>>,
             NEW step \in {"addresses", "dialing", "dialed", "closing"},
             NEW toClose \in SUBSET Link,
             UpgradeMoves(u, step, toClose)
      PROVE  IInv'
  <2>1. upgrades' \subseteq Upgrade /\ GenerationsOK' /\ OneUpgradePerEntry' /\ BusyIffUpgrading'
    BY <1>1, <1>2, MoveIInv
  <2>2. UpgraderTypeOK' /\ TrackedAreConnected'
    BY <1>2, <2>1 DEF IInv, UpgraderTypeOK, TrackedAreConnected, ConnsOf
  <2>3. QED
    BY <2>1, <2>2 DEF IInv
<1>3. CASE UpgradeFails(u)
  BY <1>3, UpgradeFailsIInv
<1>4. CASE FindAddresses(u)
  BY <1>2, <1>4 DEF FindAddresses
<1>5. CASE UpgradeDialSucceeds(u)
  <2>1. UpgradeMoves(u, "dialed", {}) /\ UNCHANGED <<node, timerOn, initialized, stops>>
    BY <1>5 DEF UpgradeDialSucceeds
  <2>2. CASE AddConnection(u.peer, FALSE)
    <3>1. /\ links' \subseteq Link /\ opened' \in 0..MaxConns
          /\ gens' \in [Nodes -> Nat] /\ entries' \in [Nodes -> UpgradeEntry \cup {None}]
          /\ \A q \in Nodes :
               \/ entries'[q] = entries[q] /\ gens'[q] = gens[q]
               \/ /\ gens'[q] = gens[q] + 1
                  /\ entries'[q].gen = gens[q] + 1 /\ ~ entries'[q].busy
          /\ TrackedAreConnected'
      BY <1>1, <2>2, AddConnectionIInv
    <3>2. upgrades' \subseteq Upgrade /\ GenerationsOK' /\ OneUpgradePerEntry' /\ BusyIffUpgrading'
      BY <2>1, <3>1, MoveIInv
    <3>3. UpgraderTypeOK'
      BY <1>1, <2>1, <3>1, <3>2 DEF UpgraderTypeOK
    <3>4. QED
      BY <3>1, <3>2, <3>3 DEF IInv
  <2>3. CASE UNCHANGED <<links, opened, entries, gens>>
    BY <1>2, <2>1, <2>3
  <2>4. QED
    BY <1>5, <2>2, <2>3 DEF UpgradeDialSucceeds
<1>6. CASE ListRelayed(u)
  BY <1>1, <1>2, <1>6 DEF ListRelayed
<1>7. ASSUME NEW c \in u.toClose, NEW fails \in BOOLEAN, CloseRelayed(u, c, fails)
      PROVE  IInv'
  <2>1. /\ UpgradeMoves(u, "closing", u.toClose \ {c}) /\ UNCHANGED <<node, timerOn, initialized, stops>>
        /\ u.toClose \ {c} \in SUBSET Link
    BY <1>1, <1>7 DEF CloseRelayed
  <2>2. CASE c \in links /\ RemoveConnection(c)
    <3>1. /\ links' \subseteq Link /\ UNCHANGED <<opened, gens>>
          /\ entries' \in [Nodes -> UpgradeEntry \cup {None}]
          /\ \A p \in Nodes : entries'[p] = None \/ entries'[p] = entries[p]
          /\ TrackedAreConnected'
      BY <2>2, RemoveConnectionIInv
    <3>2. upgrades' \subseteq Upgrade /\ GenerationsOK' /\ OneUpgradePerEntry' /\ BusyIffUpgrading'
      BY <1>1, <2>1, <3>1, MoveIInv
    <3>3. UpgraderTypeOK'
      BY <1>1, <2>1, <3>1, <3>2 DEF UpgraderTypeOK
    <3>4. QED
      BY <3>1, <3>2, <3>3 DEF IInv
  <2>3. CASE UNCHANGED <<links, opened, entries, gens>>
    BY <1>2, <2>1, <2>3
  <2>4. QED
    BY <1>7, <2>2, <2>3 DEF CloseRelayed
<1>8. CASE UpgradeSucceeds(u)
  BY <1>8, UpgradeSucceedsIInv
<1>9. QED
  BY <1>3, <1>4, <1>5, <1>6, <1>7, <1>8 DEF UpgradeStep

-----------------------------------------------------------------------------
(* The node and its connections.                                           *)

LEMMA NodeStepIInv ==
  ASSUME IInv, NodeStep
  PROVE  IInv'
<1>1. CASE StartNode \/ StartNodeFails \/ NodeStopped
  BY <1>1 DEF StartNode, StartNodeFails, NodeStopped, IInv, UpgraderTypeOK, GenerationsOK, OneUpgradePerEntry,
              BusyIffUpgrading, TrackedAreConnected, ConnsOf
<1>2. CASE InitializeConnectionUpgrader
  <2> DEFINE P == {c.peer : c \in {d \in links : d.relayed}}
  <2>1. /\ Track(P) /\ UNCHANGED <<links, opened, upgrades, stops>>
        /\ node' = "on" /\ timerOn' = TRUE /\ initialized' = TRUE
    BY <1>2 DEF InitializeConnectionUpgrader
  <2>2. \A p \in P \cap Nodes : \E c \in links' : c.peer = p
    BY <2>1
  <2> HIDE DEF P
  <2>3. gens' \in [Nodes -> Nat] /\ entries' \in [Nodes -> UpgradeEntry \cup {None}]
    BY <2>1, TrackEntries DEF IInv
  <2>4. GenerationsOK' /\ OneUpgradePerEntry' /\ BusyIffUpgrading' /\ TrackedAreConnected'
    BY <2>1, <2>2, TrackIInv
  <2>5. UpgraderTypeOK'
    BY <2>1, <2>3 DEF IInv, UpgraderTypeOK
  <2>6. QED
    BY <2>4, <2>5 DEF IInv
<1>3. CASE StopNode
  <2>1. /\ Untrack(Nodes) /\ UNCHANGED <<initialized, links, opened, gens, upgrades>>
        /\ node' = "stopping" /\ timerOn' = FALSE
        /\ stops < MaxStops /\ stops' = stops + 1
    BY <1>3 DEF StopNode
  <2>2. /\ entries' \in [Nodes -> UpgradeEntry \cup {None}]
        /\ GenerationsOK' /\ OneUpgradePerEntry' /\ BusyIffUpgrading' /\ TrackedAreConnected'
    BY <2>1, UntrackIInv
  <2>3. stops' \in 0..MaxStops
    BY <2>1, UpgraderAssumption DEF IInv, UpgraderTypeOK
  <2>4. UpgraderTypeOK'
    BY <2>1, <2>2, <2>3 DEF IInv, UpgraderTypeOK
  <2>5. QED
    BY <2>2, <2>4 DEF IInv
<1>4. QED
  BY <1>1, <1>2, <1>3 DEF NodeStep

LEMMA NextIInv == IInv /\ [UpgraderNext]_upgraderVars => IInv'
<1> SUFFICES ASSUME IInv, [UpgraderNext]_upgraderVars
             PROVE  IInv'
  OBVIOUS
<1>1. CASE NodeStep
  BY <1>1, NodeStepIInv
<1>2. ASSUME NEW p \in Nodes, NEW relayed \in BOOLEAN, OpenConnection(p, relayed)
      PROVE  IInv'
  <2>1. AddConnection(p, relayed) /\ UNCHANGED <<node, timerOn, initialized, upgrades, stops>>
    BY <1>2 DEF OpenConnection
  <2>2. /\ links' \subseteq Link /\ opened' \in 0..MaxConns
        /\ gens' \in [Nodes -> Nat] /\ entries' \in [Nodes -> UpgradeEntry \cup {None}]
        /\ TrackedAreConnected' /\ GenerationsOK' /\ OneUpgradePerEntry' /\ BusyIffUpgrading'
    BY <2>1, AddConnectionIInv
  <2>3. QED
    BY <2>1, <2>2 DEF IInv, UpgraderTypeOK
<1>3. ASSUME NEW c \in links, CloseConnection(c)
      PROVE  IInv'
  <2>1. RemoveConnection(c) /\ UNCHANGED <<node, timerOn, initialized, upgrades, stops>>
    BY <1>3 DEF CloseConnection
  <2>2. /\ links' \subseteq Link /\ UNCHANGED <<opened, gens>>
        /\ entries' \in [Nodes -> UpgradeEntry \cup {None}]
        /\ TrackedAreConnected' /\ GenerationsOK' /\ OneUpgradePerEntry' /\ BusyIffUpgrading'
    BY <2>1, RemoveConnectionIInv
  <2>3. QED
    BY <2>1, <2>2 DEF IInv, UpgraderTypeOK
<1>4. CASE \E p \in Nodes : AttemptUpgrade(p)
  BY <1>4, AttemptUpgradeIInv
<1>5. CASE \E u \in upgrades : UpgradeStep(u)
  BY <1>5, UpgradeStepIInv
<1>6. CASE UNCHANGED upgraderVars
  BY <1>6 DEF upgraderVars, IInv, UpgraderTypeOK, GenerationsOK, OneUpgradePerEntry, BusyIffUpgrading,
              TrackedAreConnected, ConnsOf
<1>7. QED
  BY <1>1, <1>2, <1>3, <1>4, <1>5, <1>6 DEF UpgraderNext

LEMMA SpecIInv == UpgraderSpec => []IInv
  BY InitIInv, NextIInv, PTL DEF UpgraderSpec

\* Types, and with them the limit of attempts on an entry.
THEOREM TypeCorrect == UpgraderSpec => []UpgraderTypeOK
  BY SpecIInv, PTL DEF IInv

\* attemptUpgrade never works twice at once on one entry.
THEOREM OneAttemptAtATime == UpgraderSpec => []OneUpgradePerEntry
  BY SpecIInv, PTL DEF IInv

\* upgradeInProgress says the truth about the entry it belongs to.
THEOREM BusyIsTrue == UpgraderSpec => []BusyIffUpgrading
  BY SpecIInv, PTL DEF IInv

\* relayedConnections holds connected peers only.
THEOREM TrackedPeersAreConnected == UpgraderSpec => []TrackedAreConnected
  BY SpecIInv, PTL DEF IInv
=============================================================================
