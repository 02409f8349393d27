------------------------- MODULE ConnectionUpgrader -------------------------
(***************************************************************************)
(* ConnectionUpgrader (src/browser/connection-upgrader.ts) and the part of *)
(* BrowserNode that drives it: the table of relayed connections, and the   *)
(* attempts to replace each by a direct one.  An attempt gives up control  *)
(* while it reads the peer store, dials and closes; meanwhile connections  *)
(* open and close, peers leave and come back with a new entry, further     *)
(* sweeps begin, and the node stops and starts.                            *)
(*                                                                         *)
(* An attempt holds the entry it began with; gen tells the entries of a    *)
(* peer apart.  libp2p announces only the first connection of a peer and   *)
(* the loss of its last one.  Abstracted: addresses (an attempt finds some *)
(* or none), and the order in which a sweep visits the entries.            *)
(***************************************************************************)
EXTENDS Naturals, FiniteSets

CONSTANTS Nodes,        \* the peers of this node
          MaxUpgradeAttempts,
          MaxConns,     \* bound on the connections opened
          MaxStops,     \* bound on the stops of the node
          None

ASSUME UpgraderAssumption ==
  /\ MaxUpgradeAttempts \in Nat
  /\ MaxConns \in Nat
  /\ MaxStops \in Nat

VARIABLES node,         \* where start and stop of BrowserNode stand
          timerOn,      \* the upgrade timer is armed
          initialized,  \* the upgrader has been given libp2p to dial with
          links,        \* open connections
          opened,       \* number of connections opened
          entries,      \* relayedConnections: the entry of each peer
          gens,         \* number of entries made for each peer
          upgrades,     \* calls of attemptUpgrade in progress
          stops

upgraderVars == <<node, timerOn, initialized, links, opened, entries, gens, upgrades, stops>>

Link == [id : 1..MaxConns, peer : Nodes, relayed : BOOLEAN]
UpgradeEntry == [gen : Nat, tries : 0..MaxUpgradeAttempts, busy : BOOLEAN]
Upgrade == [peer : Nodes, gen : Nat, n : 1..MaxUpgradeAttempts,
            step : {"addresses", "dialing", "dialed", "closing"},
            toClose : SUBSET Link]

ConnsOf(p) == {c \in links : c.peer = p}
RelayedOf(p) == {c \in ConnsOf(p) : c.relayed}

UpgraderInit ==
  /\ node = "off"
  /\ timerOn = FALSE /\ initialized = FALSE
  /\ links = {} /\ opened = 0
  /\ entries = [p \in Nodes |-> None]
  /\ gens = [p \in Nodes |-> 0]
  /\ upgrades = {}
  /\ stops = 0

-----------------------------------------------------------------------------
(* The table.                                                              *)

\* trackRelayedConnection: a known peer keeps its entry.
Track(P) ==
  LET new == {p \in P : entries[p] = None}
  IN /\ gens' = [p \in Nodes |-> IF p \in new THEN gens[p] + 1 ELSE gens[p]]
     /\ entries' = [p \in Nodes |->
          IF p \in new THEN [gen |-> gens[p] + 1, tries |-> 0, busy |-> FALSE]
          ELSE entries[p]]

\* untrackConnection.
Untrack(P) == entries' = [p \in Nodes |-> IF p \in P THEN None ELSE entries[p]]

-----------------------------------------------------------------------------
(* libp2p: connections and the events on them.                             *)

\* The first connection of a peer is announced by peer:connect, upon which
\* trackNewConnection tracks the peer if the connection is relayed.
AddConnection(p, relayed) ==
  /\ opened < MaxConns
  /\ opened' = opened + 1
  /\ links' = links \cup {[id |-> opened + 1, peer |-> p, relayed |-> relayed]}
  /\ Track(IF relayed /\ ConnsOf(p) = {} THEN {p} ELSE {})

OpenConnection(p, relayed) ==
  /\ node # "off"
  /\ AddConnection(p, relayed)
  /\ UNCHANGED <<node, timerOn, initialized, upgrades, stops>>

\* Mutant of RemoveConnection: peer:disconnect is not listened to.
RemoveConnectionSilently(c) ==
  /\ links' = links \ {c}
  /\ UNCHANGED <<entries, opened, gens>>

\* The last connection of a peer is gone: peer:disconnect untracks the peer.
RemoveConnection(c) ==
  /\ links' = links \ {c}
  /\ Untrack(IF ConnsOf(c.peer) = {c} THEN {c.peer} ELSE {})
  /\ UNCHANGED <<opened, gens>>

CloseConnection(c) ==
  /\ RemoveConnection(c)
  /\ UNCHANGED <<node, timerOn, initialized, upgrades, stops>>

-----------------------------------------------------------------------------
(* BrowserNode: start and stop, one call at a time.                        *)

\* libp2p is created, its events listened to.
StartNode ==
  /\ node = "off"
  /\ node' = "starting"
  /\ UNCHANGED <<timerOn, initialized, links, opened, entries, gens, upgrades, stops>>

\* A later step of start throws; libp2p stays.
StartNodeFails ==
  /\ node = "starting"
  /\ node' = "failed"
  /\ UNCHANGED <<timerOn, initialized, links, opened, entries, gens, upgrades, stops>>

\* initializeConnectionUpgrader: the timer, and the connections there are.
InitializeConnectionUpgrader ==
  /\ node = "starting"
  /\ node' = "on"
  /\ timerOn' = TRUE
  /\ initialized' = TRUE
  /\ Track({c.peer : c \in {d \in links : d.relayed}})
  /\ UNCHANGED <<links, opened, upgrades, stops>>

\* stop and clear of the upgrader; attempts and connections live on.
StopNode ==
  /\ node \in {"on", "failed"}
  /\ stops < MaxStops
  /\ stops' = stops + 1
  /\ node' = "stopping"
  /\ timerOn' = FALSE
  /\ Untrack(Nodes)
  /\ UNCHANGED <<initialized, links, opened, gens, upgrades>>

\* All connections are closed, libp2p has stopped.
NodeStopped ==
  /\ node = "stopping"
  /\ links = {}
  /\ node' = "off"
  /\ UNCHANGED <<timerOn, initialized, links, opened, entries, gens, upgrades, stops>>

-----------------------------------------------------------------------------
(* attemptUpgrades and attemptUpgrade.                                     *)

BeginUpgrade(p) ==
  /\ entries' = [entries EXCEPT ![p].busy = TRUE, ![p].tries = @ + 1]
  /\ upgrades' = upgrades \cup {[peer |-> p, gen |-> entries[p].gen,
                                 n |-> entries[p].tries + 1,
                                 step |-> "addresses", toClose |-> {}]}
  /\ UNCHANGED <<node, timerOn, initialized, links, opened, gens, stops>>

\* Mutants of AttemptUpgrade: an attempt in progress is not looked at; the
\* limit is off by one; there is no second attempt.
AttemptUpgradeAlways(p) ==
  /\ initialized
  /\ entries[p] # None
  /\ entries[p].tries < MaxUpgradeAttempts
  /\ BeginUpgrade(p)

AttemptUpgradeOnceMore(p) ==
  /\ initialized
  /\ entries[p] # None
  /\ ~ entries[p].busy
  /\ entries[p].tries <= MaxUpgradeAttempts
  /\ BeginUpgrade(p)

AttemptUpgradeOnce(p) ==
  /\ initialized
  /\ entries[p] # None
  /\ ~ entries[p].busy
  /\ entries[p].tries < 1
  /\ BeginUpgrade(p)

\* A sweep of the timer comes to the entry of p, also one that outlives the
\* timer, or the application asks for an attempt (getConnectionUpgrader).
AttemptUpgrade(p) ==
  /\ initialized
  /\ entries[p] # None
  /\ ~ entries[p].busy
  /\ entries[p].tries < MaxUpgradeAttempts
  /\ BeginUpgrade(p)

\* Mutant of UpgradeFails: upgradeInProgress is not reset.
UpgradeFailsStaysBusy(u) ==
  /\ u.step \in {"addresses", "dialing"}
  /\ upgrades' = upgrades \ {u}
  /\ UNCHANGED <<entries, node, timerOn, initialized, links, opened, gens, stops>>

\* There is no address to dial, or every dial fails or ends in another
\* relayed connection. The entry the attempt began with may be gone.
UpgradeFails(u) ==
  /\ u.step \in {"addresses", "dialing"}
  /\ upgrades' = upgrades \ {u}
  /\ entries' = IF entries[u.peer] # None /\ entries[u.peer].gen = u.gen
                THEN [entries EXCEPT ![u.peer].busy = FALSE]
                ELSE entries
  /\ UNCHANGED <<node, timerOn, initialized, links, opened, gens, stops>>

UpgradeMoves(u, step, toClose) ==
  upgrades' = (upgrades \ {u}) \cup {[u EXCEPT !.step = step, !.toClose = toClose]}

\* getDirectMultiaddrs found some.
FindAddresses(u) ==
  /\ u.step = "addresses"
  /\ UpgradeMoves(u, "dialing", {})
  /\ UNCHANGED <<node, timerOn, initialized, links, opened, entries, gens, stops>>

\* A dial returns a direct connection, a new one or one there already is.
UpgradeDialSucceeds(u) ==
  /\ u.step = "dialing"
  /\ node # "off"
  /\ UpgradeMoves(u, "dialed", {})
  /\ IF ConnsOf(u.peer) = RelayedOf(u.peer)
     THEN AddConnection(u.peer, FALSE)
     ELSE UNCHANGED <<links, opened, entries, gens>>
  /\ UNCHANGED <<node, timerOn, initialized, stops>>

\* closeRelayedConnection takes the list of the connections there are; with
\* libp2p gone it throws, and the next address is tried.
ListRelayed(u) ==
  /\ u.step = "dialed"
  /\ IF node = "off" THEN UpgradeMoves(u, "dialing", {})
     ELSE UpgradeMoves(u, "closing", RelayedOf(u.peer))
  /\ UNCHANGED <<node, timerOn, initialized, links, opened, entries, gens, stops>>

\* It closes them one by one; an error is ignored.
CloseRelayed(u, c, fails) ==
  /\ u.step = "closing"
  /\ c \in u.toClose
  /\ UpgradeMoves(u, "closing", u.toClose \ {c})
  /\ IF fails \/ c \notin links THEN UNCHANGED <<links, opened, entries, gens>>
     ELSE RemoveConnection(c)
  /\ UNCHANGED <<node, timerOn, initialized, stops>>

\* The entry is removed, whichever the peer has by now.
UpgradeSucceeds(u) ==
  /\ u.step = "closing"
  /\ u.toClose = {}
  /\ upgrades' = upgrades \ {u}
  /\ Untrack({u.peer})
  /\ UNCHANGED <<node, timerOn, initialized, links, opened, gens, stops>>

-----------------------------------------------------------------------------
UpgradeStep(u) ==
  \/ UpgradeFails(u)
  \/ FindAddresses(u)
  \/ UpgradeDialSucceeds(u)
  \/ ListRelayed(u)
  \/ \E c \in u.toClose, fails \in BOOLEAN : CloseRelayed(u, c, fails)
  \/ UpgradeSucceeds(u)

NodeStep ==
  \/ StartNode
  \/ StartNodeFails
  \/ InitializeConnectionUpgrader
  \/ StopNode
  \/ NodeStopped

UpgraderNext ==
  \/ NodeStep
  \/ \E p \in Nodes, relayed \in BOOLEAN : OpenConnection(p, relayed)
  \/ \E c \in links : CloseConnection(c)
  \/ \E p \in Nodes : AttemptUpgrade(p)
  \/ \E u \in upgrades : UpgradeStep(u)

\* The timer goes on to sweep, and the awaits of an attempt come to an end
\* (dials time out).  No peer is owed a connection.
UpgraderFairness ==
  \A p \in Nodes :
    /\ WF_upgraderVars(timerOn /\ AttemptUpgrade(p))
    /\ WF_upgraderVars(\E u \in upgrades : u.peer = p /\ UpgradeStep(u))

UpgraderSpec == UpgraderInit /\ [][UpgraderNext]_upgraderVars /\ UpgraderFairness

-----------------------------------------------------------------------------
(* Properties.                                                             *)

UpgraderTypeOK ==
  /\ node \in {"off", "starting", "failed", "on", "stopping"}
  /\ timerOn \in BOOLEAN /\ initialized \in BOOLEAN
  /\ links \subseteq Link
  /\ opened \in 0..MaxConns
  /\ entries \in [Nodes -> UpgradeEntry \cup {None}]
  /\ gens \in [Nodes -> Nat]
  /\ upgrades \subseteq Upgrade
  /\ stops \in 0..MaxStops

\* However many sweeps run at once, an entry has one attempt at a time.
OneUpgradePerEntry ==
  \A u, v \in upgrades : u.peer = v.peer /\ u.gen = v.gen => u = v

\* An entry is marked as being upgraded exactly while an attempt is at work
\* on it, so that it is neither left out for ever nor dialled twice; the
\* attempts on earlier entries of the peer do not touch it.
BusyIffUpgrading ==
  \A p \in Nodes : entries[p] # None =>
    (entries[p].busy <=> \E u \in upgrades : u.peer = p /\ u.gen = entries[p].gen)

\* A peer that is gone is not dialled again: its entry went with its last
\* connection.
TrackedAreConnected ==
  \A p \in Nodes : entries[p] # None => ConnsOf(p) # {}

\* While the upgrader runs, each entry is upgraded, lost, or tried as often
\* as the limit allows.
EveryEntryIsTried ==
  \A p \in Nodes :
    timerOn /\ entries[p] # None ~>
      \/ ~ timerOn
      \/ entries[p] = None
      \/ entries[p].tries = MaxUpgradeAttempts

\* "For any browser node with an active relayed connection, the node SHALL
\* periodically attempt to upgrade to a direct connection": a peer that only
\* a relay connects is in the table.
RelayedAreTracked ==
  \A p \in Nodes :
    timerOn /\ ConnsOf(p) # {} /\ ConnsOf(p) = RelayedOf(p)
      => entries[p] # None \/ \E u \in upgrades : u.peer = p
=============================================================================
