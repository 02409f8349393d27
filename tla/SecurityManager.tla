--------------------------- MODULE SecurityManager ---------------------------
(***************************************************************************)
(* The rate limits of a browser node and the peers it drops (RateLimiter   *)
(* and SecurityManager of src/browser/security.ts).  For every peer and    *)
(* kind of request there is an entry with the times of admitted requests   *)
(* and a block that expires; a manual block puts one entry object in all   *)
(* three tables, and what one kind writes to it the others see.            *)
(*                                                                         *)
(* A request is kept as its age, which grows with the clock up to MaxAge,  *)
(* and a number that tells it from others of this age; those beyond every  *)
(* comparison need not be told apart.  What is left of a block is -1 once  *)
(* its expiry has passed.  Whether a message is valid is any outcome here. *)
(***************************************************************************)
EXTENDS Integers, Sequences, FiniteSets

CONSTANTS Peers,
          Kinds,             \* of requests: connection, message, relay
          KindOrder,         \* the order in which isBlocked asks the tables
          MaxRequests,       \* admitted per window, by kind
          Window,            \* by kind
          MaxAge,            \* the age that stands for all above it
          Penalty,           \* the block after a violation
          BlockDurations     \* of manual blocks

ASSUME SecurityAssumption ==
  /\ KindOrder \in Seq(Kinds)
  /\ MaxRequests \in [Kinds -> Nat]
  /\ Window \in [Kinds -> Nat]
  /\ MaxAge \in Nat /\ \A k \in Kinds : 2 * Window[k] < MaxAge
  /\ Penalty \in Nat
  /\ BlockDurations \subseteq Nat

VARIABLES sweeping,          \* the cleanup timer is armed
          tracked,           \* the kinds each peer has an entry for
          shared,            \* those that hold the object of a manual block
          limits,            \* the entries
          dropped,           \* droppedConnections
          admitted,          \* the requests let in of late (history)
          manualLeft,        \* what is left of a manual block (history)
          everBlocked        \* peers blocked by hand since a reset (history)

entryVars == <<tracked, shared, limits>>
historyVars == <<admitted, manualLeft, everBlocked>>
securityVars == <<sweeping, entryVars, dropped, historyVars>>

Durations == BlockDurations \cup {Penalty}
Left == {-1} \cup UNION {0..d : d \in Durations}
Request == [age : 0..MaxAge, n : Nat]
Entry == [requests : SUBSET Request, blocked : BOOLEAN, left : Left]

NewEntry == [requests |-> {}, blocked |-> FALSE, left |-> -1]
NoEntries == [k \in Kinds |-> NewEntry]
NoRequests == [k \in Kinds |-> {}]

SecurityInit ==
  /\ sweeping = FALSE
  /\ tracked = [p \in Peers |-> {}]
  /\ shared = [p \in Peers |-> {}]
  /\ limits = [p \in Peers |-> NoEntries]
  /\ dropped = {}
  /\ admitted = [p \in Peers |-> NoRequests]
  /\ manualLeft = [p \in Peers |-> -1]
  /\ everBlocked = {}

-----------------------------------------------------------------------------
(* The limits.                                                             *)

Younger(requests, w) == {r \in requests : r.age < w}

InForce(e) == e.blocked /\ e.left >= 0

\* The entries of p once the object in the table of kind k is e.
Written(p, k, e) ==
  [j \in Kinds |-> IF j = k \/ {j, k} \subseteq shared[p] THEN e ELSE limits[p][j]]

Recent(p, k) == Younger(limits[p][k].requests, Window[k])

\* A request of this moment that is none of those.
Another(requests) ==
  [age |-> 0, n |-> CHOOSE n \in 0..Cardinality(requests) : [age |-> 0, n |-> n] \notin requests]

\* Mutant of Allow: the limit is passed by one.
AllowOneMore(p, k) ==
  LET request == Another(Recent(p, k) \cup admitted[p][k])
  IN /\ ~ InForce(limits[p][k])
     /\ Cardinality(Recent(p, k)) <= MaxRequests[k]
     /\ tracked' = [tracked EXCEPT ![p] = @ \cup {k}]
     /\ limits' = [limits EXCEPT ![p] =
          Written(p, k, [requests |-> Recent(p, k) \cup {request}, blocked |-> FALSE, left |-> -1])]
     /\ admitted' = [admitted EXCEPT ![p][k] = @ \cup {request}]
     /\ UNCHANGED <<sweeping, shared, dropped, manualLeft, everBlocked>>

\* checkLimit admits the request; a block that has expired is lifted.
Allow(p, k) ==
  LET request == Another(Recent(p, k) \cup admitted[p][k])
  IN /\ ~ InForce(limits[p][k])
     /\ Cardinality(Recent(p, k)) < MaxRequests[k]
     /\ tracked' = [tracked EXCEPT ![p] = @ \cup {k}]
     /\ limits' = [limits EXCEPT ![p] =
          Written(p, k, [requests |-> Recent(p, k) \cup {request}, blocked |-> FALSE, left |-> -1])]
     /\ admitted' = [admitted EXCEPT ![p][k] = @ \cup {request}]
     /\ UNCHANGED <<sweeping, shared, dropped, manualLeft, everBlocked>>

\* checkLimit refuses: a block is in force, or one begins. The connection of
\* the peer is dropped.
Refuse(p, k) ==
  /\ IF InForce(limits[p][k]) THEN UNCHANGED limits
     ELSE /\ Cardinality(Recent(p, k)) >= MaxRequests[k]
          /\ limits' = [limits EXCEPT
               ![p] = Written(p, k, [requests |-> Recent(p, k), blocked |-> TRUE, left |-> Penalty])]
  /\ tracked' = [tracked EXCEPT ![p] = @ \cup {k}]
  /\ dropped' = dropped \cup {p}
  /\ UNCHANGED <<sweeping, shared, historyVars>>

\* processRawMessage or processMessage finds an admitted message invalid.
DropInvalid(p) ==
  /\ dropped' = dropped \cup {p}
  /\ UNCHANGED <<sweeping, entryVars, historyVars>>

\* The first table that knows the peer answers, and lifts an expired block.
IsBlocked(p) ==
  \E k \in tracked[p] :
    LET Position(j) == CHOOSE i \in DOMAIN KindOrder : KindOrder[i] = j
        e == limits[p][k]
    IN /\ \A j \in tracked[p] : Position(k) <= Position(j)
       /\ e.blocked /\ ~ InForce(e)
       /\ limits' = [limits EXCEPT ![p] = Written(p, k, [e EXCEPT !.blocked = FALSE])]
       /\ UNCHANGED <<sweeping, tracked, shared, dropped, historyVars>>

BlockPeer(p, duration) ==
  /\ tracked' = [tracked EXCEPT ![p] = Kinds]
  /\ shared' = [shared EXCEPT ![p] = Kinds]
  /\ limits' = [limits EXCEPT
       ![p] = [k \in Kinds |-> [requests |-> {}, blocked |-> TRUE, left |-> duration]]]
  /\ manualLeft' = [manualLeft EXCEPT ![p] = duration]
  /\ everBlocked' = everBlocked \cup {p}
  /\ UNCHANGED <<sweeping, dropped, admitted>>

UnblockPeer(p) ==
  /\ tracked' = [tracked EXCEPT ![p] = {}]
  /\ shared' = [shared EXCEPT ![p] = {}]
  /\ limits' = [limits EXCEPT ![p] = NoEntries]
  /\ admitted' = [admitted EXCEPT ![p] = NoRequests]
  /\ manualLeft' = [manualLeft EXCEPT ![p] = -1]
  /\ everBlocked' = everBlocked \ {p}
  /\ UNCHANGED <<sweeping, dropped>>

-----------------------------------------------------------------------------
(* Time, start and stop.                                                   *)

Aged(r) == IF r.age < MaxAge THEN [r EXCEPT !.age = @ + 1] ELSE r
Older(requests) == {Aged(r) : r \in requests}
LessLeft(left) == IF left >= 0 THEN left - 1 ELSE -1

TimePasses ==
  /\ limits' = [p \in Peers |-> [k \in Kinds |->
       [limits[p][k] EXCEPT !.requests = Older(@), !.left = LessLeft(@)]]]
  /\ admitted' = [p \in Peers |-> [k \in Kinds |->
       Younger(Older(admitted[p][k]), Window[k])]]
  /\ manualLeft' = [p \in Peers |-> LessLeft(manualLeft[p])]
  /\ UNCHANGED <<sweeping, tracked, shared, dropped, everBlocked>>

StartCleanup ==
  /\ ~ sweeping
  /\ sweeping' = TRUE
  /\ UNCHANGED <<entryVars, dropped, historyVars>>

StopSecurity ==
  /\ sweeping' = FALSE
  /\ tracked' = [p \in Peers |-> {}]
  /\ shared' = [p \in Peers |-> {}]
  /\ limits' = [p \in Peers |-> NoEntries]
  /\ dropped' = {}
  /\ admitted' = [p \in Peers |-> NoRequests]
  /\ manualLeft' = [p \in Peers |-> -1]
  /\ everBlocked' = {}

\* Mutant of Idle: blocked entries are cleaned up like the others.
IdleBlockedToo(p, k) == \A r \in limits[p][k].requests : r.age > 2 * Window[k]

\* Mutant of Idle: entries are cleaned up within the window.
IdleTooEarly(p, k) == ~ limits[p][k].blocked

\* An entry that cleanup removes.
Idle(p, k) ==
  /\ ~ limits[p][k].blocked
  /\ \A r \in limits[p][k].requests : r.age > 2 * Window[k]

Cleanup ==
  /\ sweeping
  /\ tracked' = [p \in Peers |-> {k \in tracked[p] : ~ Idle(p, k)}]
  /\ shared' = [p \in Peers |-> {k \in shared[p] : ~ Idle(p, k)}]
  /\ limits' = [p \in Peers |-> [k \in Kinds |->
       IF k \in tracked[p] /\ ~ Idle(p, k) THEN limits[p][k] ELSE NewEntry]]
  /\ UNCHANGED <<sweeping, dropped, historyVars>>

SecurityNext ==
  \/ \E p \in Peers, k \in Kinds : Allow(p, k) \/ Refuse(p, k)
  \/ \E p \in Peers : DropInvalid(p) \/ IsBlocked(p) \/ UnblockPeer(p)
  \/ \E p \in Peers, d \in BlockDurations : BlockPeer(p, d)
  \/ TimePasses
  \/ StartCleanup
  \/ StopSecurity
  \/ Cleanup

SecuritySpec == SecurityInit /\ [][SecurityNext]_securityVars

-----------------------------------------------------------------------------
(* Properties.                                                             *)

SecurityTypeOK ==
  /\ sweeping \in BOOLEAN
  /\ tracked \in [Peers -> SUBSET Kinds]
  /\ shared \in [Peers -> SUBSET Kinds]
  /\ \A p \in Peers : shared[p] \subseteq tracked[p]
  /\ limits \in [Peers -> [Kinds -> Entry]]
  /\ \A p \in Peers \ everBlocked, k \in Kinds :
       Cardinality(limits[p][k].requests) <= MaxRequests[k]
  /\ dropped \subseteq Peers /\ everBlocked \subseteq Peers
  /\ manualLeft \in [Peers -> Left]

\* A manual block shuts out every kind of request until it expires or is
\* lifted: neither the cleanup, nor a violation of one kind, nor a question
\* about the peer opens a gap, although the tables share one entry.
ManualBlockHolds ==
  \A p \in Peers : manualLeft[p] >= 0 =>
    \A k \in Kinds : k \in tracked[p] /\ InForce(limits[p][k])

\* No more than the limit is admitted in any window, whatever the cleanup has
\* removed, for a peer that was not blocked by hand since its entries began.
\* (A manual block forgets the times of the requests before it, and the shared
\* entry is filtered by the shortest window.)
WindowLimit ==
  \A p \in Peers \ everBlocked, k \in Kinds :
    Cardinality(Younger(admitted[p][k], Window[k])) <= MaxRequests[k]
=============================================================================
