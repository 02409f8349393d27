------------------------------ MODULE ServerNode ------------------------------
(***************************************************************************)
(* The life cycle of a server: DHTNode.start and stop (src/dht/node.ts),   *)
(* OverlayNetwork.start and stop (src/overlay/overlay.ts), and the two     *)
(* commands that run them, cli/node.ts and cli/ws-bridge.ts.               *)
(*                                                                         *)
(* In a library the methods are called by any of the callers, in any       *)
(* order; in a command by main and by the two signal handlers.  Nothing    *)
(* locks the objects: each step after an await sees what other calls left. *)
(* A libp2p node is the number of its creation; createLibp2p also starts   *)
(* it, so that the later start does nothing.  Keys are published and found *)
(* as KeyManager describes; here publication is an await that ends.        *)
(***************************************************************************)
EXTENDS Naturals, FiniteSets

CONSTANTS Callers,           \* users of the library
          Commands,          \* of "library", "node", "bridge": what is run
          MaxServers,        \* bound on the libp2p nodes created
          MaxServerCalls,    \* bound on the calls of the callers
          OverlayAttempts    \* 3 in cli/node.ts

ASSUME ServerAssumption ==
  /\ MaxServers \in Nat /\ MaxServerCalls \in Nat
  /\ OverlayAttempts \in Nat \ {0}
  /\ Commands \subseteq {"library", "node", "bridge"}

VARIABLES node,              \* DHTNode.node, 0 if null
          dhtStarted,        \* DHTNode.started
          live,              \* libp2p nodes that hold sockets
          servers,           \* libp2p nodes created
          overlayStarted,    \* OverlayNetwork.started
          publishers,        \* key publish intervals that are alive
          keyPublishTimer,   \* the field holds one of them
          keyExchangeOn,     \* libp2p nodes with the key exchange protocol
          overlayOn,         \* libp2p nodes with the overlay protocol
          cleaning,          \* dedup cache and pending requests have timers
          serverCalls,       \* per caller: its step and the node it stops
          serverCalled,
          concurrent,        \* a call began while another was in progress
          pulled             \* the DHT was stopped under a started overlay

VARIABLES command,           \* what is run
          main,              \* where main of the command is
          attempt,           \* overlay starts tried
          hasPeers,          \* bootstrapPeers is not empty
          handler,           \* onMessage was called
          exitCode           \* 2 while the process runs

dhtVars == <<node, dhtStarted, live, servers>>
overlayVars == <<overlayStarted, publishers, keyPublishTimer, keyExchangeOn,
                 overlayOn, cleaning>>
historyVars == <<concurrent, pulled>>
commandVars == <<command, main, attempt, hasPeers, handler, exitCode>>
serverVars == <<dhtVars, overlayVars, serverCalls, serverCalled, historyVars,
                commandVars>>

Signals == {"SIGTERM", "SIGINT"}
Users == Callers \cup Signals \cup {"main"}

DhtSteps == {"dht_creating", "dht_starting", "dht_stopping"}
OverlaySteps == {"keys", "publishing", "registering"}
Returned == {"idle", "done", "failed"}
Phases == {"library", "fetching", "starting", "overlay", "waiting", "bootstrapping",
           "discovering", "serving"}

NoServerCall == [at |-> "idle", stops |-> 0]

ServerInit ==
  /\ node = 0 /\ dhtStarted = FALSE /\ live = {} /\ servers = 0
  /\ overlayStarted = FALSE /\ publishers = 0 /\ keyPublishTimer = FALSE
  /\ keyExchangeOn = {} /\ overlayOn = {} /\ cleaning = TRUE
  /\ serverCalls = [u \in Users |-> NoServerCall] /\ serverCalled = 0
  /\ concurrent = FALSE /\ pulled = FALSE
  /\ command \in Commands
  /\ main = IF command = "library" THEN "library" ELSE "fetching"
  /\ attempt = 0 /\ hasPeers = FALSE /\ handler = FALSE /\ exitCode = 2

Busy == {u \in Users : serverCalls[u].at \notin Returned}
At(u, step) == serverCalls[u].at = step
Goes(u, step) == serverCalls' = [serverCalls EXCEPT ![u] = [at |-> step, stops |-> 0]]
Enters(u, step, n) ==
  /\ serverCalls' = [serverCalls EXCEPT ![u] = [at |-> step, stops |-> n]]
  /\ concurrent' = (concurrent \/ Busy \ {u} # {})

-----------------------------------------------------------------------------
(* DHTNode                                                                 *)

(* DHTNode.start; of a started node it returns at once.                    *)
StartDht(u) ==
  /\ IF dhtStarted THEN Goes(u, "done") /\ UNCHANGED concurrent
     ELSE Enters(u, "dht_creating", 0)
  /\ UNCHANGED <<dhtVars, overlayVars, pulled>>

(* createLibp2pNode resolves; the listeners are set, the start is awaited.  *)
DhtCreated(u) ==
  /\ At(u, "dht_creating")
  /\ servers < MaxServers /\ servers' = servers + 1
  /\ node' = servers'
  /\ live' = live \cup {servers'}
  /\ Goes(u, "dht_starting")
  /\ UNCHANGED <<dhtStarted, overlayVars, historyVars>>

DhtStartEnds(u) ==
  /\ At(u, "dht_starting")
  /\ dhtStarted' = TRUE
  /\ Goes(u, "done")
  /\ UNCHANGED <<node, live, servers, overlayVars, historyVars>>

(* createLibp2pNode rejects, and start nulls whatever node there is.       *)
DhtStartFails(u) ==
  /\ At(u, "dht_creating")
  /\ node' = 0 /\ dhtStarted' = FALSE
  /\ Goes(u, "failed")
  /\ UNCHANGED <<live, servers, overlayVars, historyVars>>

(* DHTNode.stop up to the await of libp2p's stop.                          *)
StopDht(u) ==
  /\ IF dhtStarted /\ node # 0
     THEN /\ Enters(u, "dht_stopping", node)
          /\ pulled' = (pulled \/ overlayStarted)
     ELSE Goes(u, "done") /\ UNCHANGED <<concurrent, pulled>>
  /\ UNCHANGED <<dhtVars, overlayVars>>

(* Its finally block, also when libp2p's stop rejects.                     *)
DhtStopEnds(u) ==
  /\ At(u, "dht_stopping")
  /\ live' = live \ {serverCalls[u].stops}
  /\ node' = 0 /\ dhtStarted' = FALSE
  /\ Goes(u, "done")
  /\ UNCHANGED <<servers, overlayVars, historyVars>>

(* ensureStarted does not throw.                                           *)
DhtUsable == dhtStarted /\ node # 0

-----------------------------------------------------------------------------
(* OverlayNetwork                                                          *)

(* OverlayNetwork.start up to the await of the keys.                       *)
StartOverlay(u) ==
  /\ IF overlayStarted THEN Goes(u, "done") /\ UNCHANGED concurrent
     ELSE Enters(u, "keys", 0)
  /\ UNCHANGED <<dhtVars, overlayVars, pulled>>

(* setDHT asks the node for its peer id; the key is published.             *)
KeysReady(u) ==
  /\ At(u, "keys") /\ DhtUsable
  /\ Goes(u, "publishing")
  /\ UNCHANGED <<dhtVars, overlayVars, historyVars>>

(* The keys could not be made or stored, or the node is not started.       *)
KeysFail(u) ==
  /\ At(u, "keys")
  /\ Goes(u, "failed")
  /\ UNCHANGED <<dhtVars, overlayVars, historyVars>>

(* Published, or not: the interval is set before the key exchange protocol *)
(* is registered.  A node that is gone ends the start; a handle of libp2p  *)
(* that rejects is only logged, and the start goes on without the handler. *)
Published(u) ==
  /\ At(u, "publishing")
  /\ publishers' = publishers + 1 /\ keyPublishTimer' = TRUE
  /\ IF DhtUsable
     THEN /\ keyExchangeOn' \in {keyExchangeOn, keyExchangeOn \cup {node}}
          /\ Goes(u, "registering")
     ELSE UNCHANGED keyExchangeOn /\ Goes(u, "failed")
  /\ UNCHANGED <<dhtVars, overlayStarted, overlayOn, cleaning, historyVars>>

(* registerProtocolHandler.                                                *)
OverlayRegistered(u) ==
  /\ At(u, "registering")
  /\ IF DhtUsable
     THEN /\ overlayOn' = overlayOn \cup {node} /\ overlayStarted' = TRUE
          /\ Goes(u, "done")
     ELSE UNCHANGED <<overlayOn, overlayStarted>> /\ Goes(u, "failed")
  /\ UNCHANGED <<dhtVars, publishers, keyPublishTimer, keyExchangeOn, cleaning,
                 historyVars>>

\* Mutant of ClearPublisher: the field is cleared, the interval is not.
ForgetPublisher ==
  keyPublishTimer' = FALSE /\ UNCHANGED publishers

\* Mutant of ClearPublisher: the interval is cleared, the field is not.
KeepPublisherField ==
  /\ publishers' = IF keyPublishTimer THEN publishers - 1 ELSE publishers
  /\ UNCHANGED keyPublishTimer

ClearPublisher ==
  /\ publishers' = IF keyPublishTimer THEN publishers - 1 ELSE publishers
  /\ keyPublishTimer' = FALSE

\* Mutant of StopOverlay: a stopped overlay still says it is started.
StopOverlaySaysStarted(u) ==
  /\ IF ~overlayStarted THEN Goes(u, "done") /\ UNCHANGED overlayVars
     ELSE /\ ClearPublisher
          /\ overlayOn' = overlayOn \ {node}
          /\ keyExchangeOn' = keyExchangeOn \ {node}
          /\ cleaning' = FALSE /\ UNCHANGED overlayStarted
          /\ Goes(u, "done")
  /\ concurrent' = (concurrent \/ (overlayStarted /\ Busy \ {u} # {}))
  /\ UNCHANGED <<dhtVars, pulled>>

(* OverlayNetwork.stop has no await.  When the node was stopped first, it  *)
(* throws after the interval was cleared and leaves the rest as it was.    *)
StopOverlay(u) ==
  /\ IF ~overlayStarted THEN Goes(u, "done") /\ UNCHANGED overlayVars
     ELSE /\ ClearPublisher
          /\ IF DhtUsable
             THEN /\ overlayOn' = overlayOn \ {node}
                  /\ keyExchangeOn' = keyExchangeOn \ {node}
                  /\ cleaning' = FALSE /\ overlayStarted' = FALSE
                  /\ Goes(u, "done")
             ELSE /\ UNCHANGED <<overlayOn, keyExchangeOn, cleaning, overlayStarted>>
                  /\ Goes(u, "failed")
  /\ concurrent' = (concurrent \/ (overlayStarted /\ Busy \ {u} # {}))
  /\ UNCHANGED <<dhtVars, pulled>>

CallProceeds(u) ==
  \/ DhtCreated(u) \/ DhtStartEnds(u) \/ DhtStartFails(u) \/ DhtStopEnds(u)
  \/ KeysReady(u) \/ KeysFail(u) \/ Published(u) \/ OverlayRegistered(u)

-----------------------------------------------------------------------------
(* As a library: any caller calls any method when its last call returned.  *)

LibraryCall(c) ==
  /\ command = "library"
  /\ serverCalls[c].at \in Returned
  /\ serverCalled < MaxServerCalls /\ serverCalled' = serverCalled + 1
  /\ StartDht(c) \/ StopDht(c) \/ StartOverlay(c) \/ StopOverlay(c)
  /\ UNCHANGED commandVars

Proceed(u) ==
  /\ exitCode = 2
  /\ CallProceeds(u)
  /\ UNCHANGED <<serverCalled, commandVars>>

-----------------------------------------------------------------------------
(* As a command: main, one phase after another.                            *)

MainIs(phase, results) ==
  main = phase /\ exitCode = 2 /\ serverCalls["main"].at \in results
MainTurns(phase) == main' = phase /\ UNCHANGED <<command, exitCode, serverCalled>>
CallsNothing == UNCHANGED <<dhtVars, overlayVars, serverCalls, historyVars>>

(* fetchBootstrapPeerId answers, or gives up after thirty attempts.        *)
PeersFetched ==
  /\ MainIs("fetching", {"idle"})
  /\ hasPeers' \in BOOLEAN
  /\ StartDht("main")
  /\ MainTurns("starting")
  /\ UNCHANGED <<attempt, handler>>

(* The node bootstraps after the overlay has started, the bridge before.   *)
FirstOverlayStart ==
  /\ \/ command = "node" /\ MainIs("starting", {"done"})
     \/ command = "bridge" /\ ~hasPeers /\ MainIs("starting", {"done"})
     \/ command = "bridge" /\ MainIs("bootstrapping", {"done"})
  /\ StartOverlay("main")
  /\ attempt' = 1
  /\ MainTurns("overlay")
  /\ UNCHANGED <<hasPeers, handler>>

\* Mutant of Tried: the loop does not count.
TriedUncounted == UNCHANGED attempt

Tried == attempt' = attempt + 1

OverlayRetried ==
  /\ MainIs("waiting", {"failed"})
  /\ StartOverlay("main")
  /\ Tried
  /\ MainTurns("overlay")
  /\ UNCHANGED <<hasPeers, handler>>

(* Two seconds before the next attempt.                                    *)
OverlayStartFailed ==
  /\ command = "node" /\ attempt < OverlayAttempts
  /\ MainIs("overlay", {"failed"})
  /\ CallsNothing
  /\ MainTurns("waiting")
  /\ UNCHANGED <<attempt, hasPeers, handler>>

OverlaySettled ==
  \/ MainIs("overlay", {"done"})
  \/ command = "node" /\ attempt = OverlayAttempts /\ MainIs("overlay", {"failed"})

(* bootstrap; the node gives it thirty seconds, and goes on as the bridge  *)
(* does when no dial succeeds.                                             *)
Bootstrap ==
  /\ hasPeers
  /\ \/ command = "node" /\ OverlaySettled
     \/ command = "bridge" /\ MainIs("starting", {"done"})
  /\ CallsNothing
  /\ MainTurns("bootstrapping")
  /\ UNCHANGED <<attempt, hasPeers, handler>>

(* The node waits for the DHT to settle and discovers peers.               *)
Discover ==
  /\ command = "node" /\ MainIs("bootstrapping", {"done", "failed"})
  /\ CallsNothing
  /\ MainTurns("discovering")
  /\ UNCHANGED <<attempt, hasPeers, handler>>

(* onMessage: from now on requests are answered.                           *)
Serve ==
  /\ \/ command = "bridge" /\ MainIs("overlay", {"done"})
     \/ command = "node" /\ ~hasPeers /\ OverlaySettled
     \/ command = "node" /\ MainIs("bootstrapping", {"done", "failed"})
     \/ command = "node" /\ MainIs("discovering", {"done", "failed"})
  /\ handler' = TRUE
  /\ CallsNothing
  /\ MainTurns("serving")
  /\ UNCHANGED <<attempt, hasPeers>>

Exits(code) ==
  /\ exitCode' = code
  /\ UNCHANGED <<command, main, attempt, hasPeers, handler, serverCalled>>

(* main rejects: the node did not start, or the bridge has no overlay.     *)
MainFails ==
  /\ \/ MainIs("starting", {"failed"})
     \/ command = "bridge" /\ MainIs("overlay", {"failed"})
  /\ CallsNothing /\ Exits(1)

(* A signal: the overlay is stopped, then the node; an overlay that throws *)
(* would end the process as an unhandled rejection does, but no order of   *)
(* the signals and main makes it throw.                                    *)
Signal(s) ==
  /\ command # "library" /\ exitCode = 2
  /\ At(s, "idle")
  /\ StopOverlay(s)
  /\ UNCHANGED <<serverCalled, commandVars>>

ShutdownNode(s) ==
  /\ exitCode = 2 /\ At(s, "done") /\ DhtUsable
  /\ StopDht(s)
  /\ UNCHANGED <<serverCalled, commandVars>>

ShutdownEnds(s) ==
  /\ exitCode = 2
  /\ \/ DhtStopEnds(s) /\ Exits(0)
     \/ At(s, "done") /\ ~DhtUsable /\ CallsNothing /\ Exits(0)
     \/ At(s, "failed") /\ CallsNothing /\ Exits(1)

MainNext ==
  \/ PeersFetched \/ FirstOverlayStart \/ OverlayRetried \/ OverlayStartFailed
  \/ Bootstrap \/ Discover \/ Serve \/ MainFails

ServerNext ==
  \/ \E c \in Callers : LibraryCall(c)
  \/ \E u \in Callers \cup {"main"} : Proceed(u)
  \/ MainNext
  \/ \E s \in Signals : Signal(s) \/ ShutdownNode(s) \/ ShutdownEnds(s)

ServerSpec == ServerInit /\ [][ServerNext]_serverVars

-----------------------------------------------------------------------------
(* The fields have their types, and the steps of a call come from calls.   *)
ServerTypeOK ==
  /\ node \in 0..servers /\ live \subseteq 1..servers /\ servers \in 0..MaxServers
  /\ dhtStarted \in BOOLEAN
  /\ overlayStarted \in BOOLEAN /\ cleaning \in BOOLEAN
  /\ publishers \in Nat /\ keyPublishTimer \in BOOLEAN
  /\ keyPublishTimer => publishers > 0
  /\ keyExchangeOn \subseteq 1..servers /\ overlayOn \subseteq 1..servers
  /\ serverCalls \in [Users -> [at : Returned \cup DhtSteps \cup OverlaySteps,
                                stops : 0..MaxServers]]
  /\ serverCalled \in Nat
  /\ concurrent \in BOOLEAN /\ pulled \in BOOLEAN
  /\ command \in Commands /\ main \in Phases
  /\ attempt \in 0..OverlayAttempts
  /\ hasPeers \in BOOLEAN /\ handler \in BOOLEAN /\ exitCode \in 0..2

(* No libp2p node and no interval is lost: unless calls ran at the same    *)
(* time, every node that runs is the DHTNode's, and the one interval that  *)
(* publishes the key is the one that stop clears.                          *)
NothingIsLost ==
  ~concurrent =>
    /\ live \subseteq {node}
    /\ publishers = IF keyPublishTimer THEN 1 ELSE 0

(* An overlay that says it is started serves, whatever starts failed half- *)
(* way before: unless calls ran at the same time or the DHT was stopped    *)
(* under it, the overlay protocol is registered at the node in use, which  *)
(* runs, and the key is published again and again.                         *)
StartedOverlayServes ==
  overlayStarted /\ ~concurrent /\ ~pulled =>
    /\ DhtUsable /\ node \in live
    /\ node \in overlayOn
    /\ keyPublishTimer

(* The comment "Already started, idempotent" (dht/node.ts:127) has every   *)
(* start of DHTNode after the first change nothing.  Of two that overlap,  *)
(* both pass the check before either sets started, and both create a node. *)
OneNodeRuns == Cardinality(live) <= 1

(* A command comes to serve or ends, whatever fails on the way.            *)
CommandSettles ==
  command # "library" ~> (main = "serving" \/ exitCode # 2)
=============================================================================
