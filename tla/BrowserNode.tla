----------------------------- MODULE BrowserNode -----------------------------
(***************************************************************************)
(* The life cycle of a browser node (src/browser/browser-node.ts): start   *)
(* and stop with the awaits between their steps, and the activity monitor  *)
(* (src/browser/activity-monitor.ts), whose callbacks close the node's     *)
(* connections when the tab is left and reconnect when it is entered.      *)
(*                                                                         *)
(* A libp2p node is the number of the createLibp2p that made it; 0 is      *)
(* null.  Nothing locks the node: every step after an await reads the      *)
(* fields again, and other calls may have changed them meanwhile.          *)
(***************************************************************************)
EXTENDS Naturals, FiniteSets

CONSTANTS Callers,           \* applications that call start and stop
          MaxNodes,          \* bound on the libp2p nodes created
          MaxCalls,          \* bound on the calls of start and stop
          MaxEvents          \* bound on the events of the tab and the network

ASSUME BrowserNodeAssumption ==
  MaxNodes \in Nat /\ MaxCalls \in Nat /\ MaxEvents \in Nat

VARIABLES enableOverlay,     \* the configuration
          libp2p,            \* this.libp2p
          running,           \* libp2p nodes that hold sockets
          made,              \* libp2p nodes created
          status,            \* state.status
          overlay,           \* this.overlayNetwork is set
          upgrading,         \* the connection upgrader has its timer
          timers,            \* prune and discovery intervals that are alive
          armed,             \* the fields of the intervals are set
          calls,             \* per caller, its start or stop in progress
          called,            \* calls made
          overlapped         \* a call began while another was in progress

VARIABLES visible, online,   \* the tab and the network
          isRunning,         \* the activity monitor listens
          wasActive, wasOnline,
          graceTimer,        \* "none", "set", or "stale": the tab was shown
                             \* again since it was set
          callbacks,         \* times the four callbacks were registered
          closing,           \* handleInactive calls awaiting their closes
          reconnecting,      \* handleActive calls awaiting the bootstrap
          events

nodeVars == <<libp2p, running, made, overlay, upgrading, timers, armed>>
callVars == <<calls, called, overlapped>>
tabVars == <<visible, online, wasActive, wasOnline, events>>
handlerVars == <<closing, reconnecting>>
monitorVars == <<isRunning, graceTimer, callbacks>>
browserVars == <<enableOverlay, nodeVars, status, callVars, tabVars, handlerVars,
                 monitorVars>>

StartSteps == {"identity", "creating", "starting", "bootstrapping", "discovering",
               "overlay"}
StopSteps == {"stop_overlay", "stop_closing", "stop_libp2p"}

Active == {c \in Callers : calls[c] # "idle"}
Moves(c, pc) == calls' = [calls EXCEPT ![c] = pc]

BrowserInit ==
  /\ enableOverlay \in BOOLEAN
  /\ libp2p = 0 /\ running = {} /\ made = 0
  /\ status = "disconnected"
  /\ overlay = FALSE /\ upgrading = FALSE /\ timers = 0 /\ armed = FALSE
  /\ calls = [c \in Callers |-> "idle"] /\ called = 0 /\ overlapped = FALSE
  /\ visible \in BOOLEAN /\ online \in BOOLEAN
  /\ isRunning = FALSE /\ wasActive = TRUE /\ wasOnline = TRUE
  /\ graceTimer = "none" /\ callbacks = 0
  /\ closing = 0 /\ reconnecting = 0 /\ events = 0

-----------------------------------------------------------------------------
(* start                                                                   *)

(* A call takes effect; one that returns at once changes nothing.          *)
Calls(c, pc) ==
  /\ calls[c] = "idle"
  /\ called < MaxCalls /\ called' = called + 1
  /\ overlapped' = (overlapped \/ Active # {})
  /\ Moves(c, pc)

Start(c) ==
  /\ libp2p = 0
  /\ Calls(c, "identity")
  /\ status' = "connecting"
  /\ UNCHANGED <<enableOverlay, nodeVars, tabVars, handlerVars, monitorVars>>

(* getPeerId and getPrivateKey gave a key.                                 *)
IdentityReady(c) ==
  /\ calls[c] = "identity"
  /\ Moves(c, "creating")
  /\ UNCHANGED <<enableOverlay, nodeVars, status, called, overlapped, tabVars,
                 handlerVars, monitorVars>>

CreateLibp2p(c) ==
  /\ calls[c] = "creating"
  /\ made < MaxNodes /\ made' = made + 1
  /\ libp2p' = made + 1
  /\ running' = running \cup {made + 1}
  /\ Moves(c, "starting")
  /\ UNCHANGED <<enableOverlay, status, overlay, upgrading, timers, armed, called,
                 overlapped, tabVars, handlerVars, monitorVars>>

(* libp2p.start resolved; its addresses are read from this.libp2p.         *)
Libp2pStarted(c) ==
  /\ calls[c] = "starting" /\ libp2p # 0
  /\ status' = "connected"
  /\ Moves(c, "bootstrapping")
  /\ UNCHANGED <<enableOverlay, nodeVars, called, overlapped, tabVars, handlerVars,
                 monitorVars>>

(* bootstrap returned: one dial succeeded, or there is no bootstrap URL, or *)
(* the node was stopped before it began.                                   *)
Bootstrapped(c) ==
  /\ calls[c] = "bootstrapping"
  /\ Moves(c, "discovering")
  /\ UNCHANGED <<enableOverlay, nodeVars, status, called, overlapped, tabVars,
                 handlerVars, monitorVars>>

(* discoverPeers returned, which it does whatever happens; the overlay is  *)
(* created on this.libp2p and its start awaited.                           *)
InitializeOverlay(c) ==
  /\ calls[c] = "discovering" /\ enableOverlay /\ libp2p # 0
  /\ overlay' = TRUE
  /\ Moves(c, "overlay")
  /\ UNCHANGED <<enableOverlay, libp2p, running, made, status, upgrading, timers, armed,
                 called, overlapped, tabVars, handlerVars, monitorVars>>

(* setupActivityMonitoring: the callbacks are registered at every start    *)
(* and never removed; start of the monitor does nothing when it runs.      *)
SetupActivityMonitoring ==
  /\ callbacks' = callbacks + 1
  /\ isRunning' = TRUE
  /\ IF isRunning THEN UNCHANGED <<wasActive, wasOnline>>
     ELSE wasActive' = visible /\ wasOnline' = online
  /\ UNCHANGED <<visible, online, events, graceTimer>>

(* The last step of start has no await: the monitor, the intervals and the *)
(* upgrader, of which only the last asks whether there is still a node.    *)
FinishStart(c) ==
  /\ calls[c] = "overlay" \/ (calls[c] = "discovering" /\ ~enableOverlay)
  /\ Moves(c, "idle")
  /\ overlay' \in IF calls[c] = "overlay" THEN {overlay, FALSE} ELSE {overlay}
  /\ SetupActivityMonitoring
  /\ timers' = timers + 1 /\ armed' = TRUE
  /\ upgrading' = (upgrading \/ libp2p # 0)
  /\ UNCHANGED <<enableOverlay, libp2p, running, made, status, called, overlapped,
                 handlerVars>>

(* Every step of start may throw but discovering, which throws only when   *)
(* an overlay is wanted and the node is gone.  What was created stays.     *)
StartMayThrow(c) ==
  \/ calls[c] \in {"identity", "creating", "starting", "bootstrapping"}
  \/ calls[c] = "discovering" /\ enableOverlay /\ libp2p = 0

\* Mutant of StartFails: the node is dropped as well, but not stopped.
StartFailsDropsNode(c) ==
  /\ StartMayThrow(c)
  /\ status' = "disconnected" /\ libp2p' = 0
  /\ Moves(c, "idle")
  /\ UNCHANGED <<enableOverlay, running, made, overlay, upgrading, timers, armed, called,
                 overlapped, tabVars, handlerVars, monitorVars>>

StartFails(c) ==
  /\ StartMayThrow(c)
  /\ status' = "disconnected"
  /\ Moves(c, "idle")
  /\ UNCHANGED <<enableOverlay, nodeVars, called, overlapped, tabVars, handlerVars,
                 monitorVars>>

-----------------------------------------------------------------------------
(* stop                                                                    *)

\* Mutant of StopMonitor: the grace period goes on.
StopListeningOnly ==
  /\ isRunning' = FALSE
  /\ UNCHANGED <<graceTimer, callbacks>>

(* ActivityMonitor.stop.                                                   *)
StopMonitor ==
  /\ isRunning' = FALSE
  /\ graceTimer' = IF isRunning THEN "none" ELSE graceTimer
  /\ UNCHANGED callbacks

\* Mutant of StopTimers: the fields are cleared, the intervals are not.
ForgetTimers ==
  /\ armed' = FALSE
  /\ upgrading' = FALSE
  /\ StopMonitor
  /\ UNCHANGED timers

(* The discovery and pruning intervals, the upgrader and the monitor.      *)
StopTimers ==
  /\ timers' = IF armed THEN timers - 1 ELSE timers
  /\ armed' = FALSE
  /\ upgrading' = FALSE
  /\ StopMonitor

(* Up to the first await: the stop of the overlay, or the closes.          *)
Stop(c) ==
  /\ libp2p # 0
  /\ Calls(c, IF overlay THEN "stop_overlay" ELSE "stop_closing")
  /\ StopTimers
  /\ UNCHANGED <<enableOverlay, libp2p, running, made, status, overlay, tabVars,
                 handlerVars>>

OverlayStopped(c) ==
  /\ calls[c] = "stop_overlay" /\ libp2p # 0
  /\ overlay' = FALSE
  /\ Moves(c, "stop_closing")
  /\ UNCHANGED <<enableOverlay, libp2p, running, made, upgrading, timers, armed, status,
                 called, overlapped, tabVars, handlerVars, monitorVars>>

(* The connections are closed: whatever this.libp2p is now is stopped.     *)
StopLibp2p(c) ==
  /\ calls[c] = "stop_closing" /\ libp2p # 0
  /\ running' = running \ {libp2p}
  /\ Moves(c, "stop_libp2p")
  /\ UNCHANGED <<enableOverlay, libp2p, made, overlay, upgrading, timers, armed, status,
                 called, overlapped, tabVars, handlerVars, monitorVars>>

FinishStop(c) ==
  /\ calls[c] = "stop_libp2p"
  /\ libp2p' = 0
  /\ status' = "disconnected"
  /\ Moves(c, "idle")
  /\ UNCHANGED <<enableOverlay, running, made, overlay, upgrading, timers, armed, called,
                 overlapped, tabVars, handlerVars, monitorVars>>

(* Another stop has set this.libp2p to null: reading it throws.            *)
StopFails(c) ==
  /\ calls[c] \in {"stop_overlay", "stop_closing"} /\ libp2p = 0
  /\ overlay' = (overlay /\ calls[c] # "stop_overlay")
  /\ Moves(c, "idle")
  /\ UNCHANGED <<enableOverlay, libp2p, running, made, upgrading, timers, armed, status,
                 called, overlapped, tabVars, handlerVars, monitorVars>>

-----------------------------------------------------------------------------
(* The activity monitor and what its callbacks do                          *)

(* Each registration of a callback calls its handler: every handleInactive *)
(* passes its guard, because status changes only when the closes are done. *)
CallHandleInactive ==
  /\ closing' = IF libp2p # 0 /\ status # "inactive" THEN closing + callbacks
                ELSE closing
  /\ UNCHANGED <<reconnecting, status>>

(* The first handleActive leaves "inactive", so the others do nothing.     *)
CallHandleActive ==
  /\ IF callbacks > 0 /\ libp2p # 0 /\ status = "inactive"
     THEN status' = "connecting" /\ reconnecting' = reconnecting + 1
     ELSE UNCHANGED <<status, reconnecting>>
  /\ UNCHANGED closing

Event == events < MaxEvents /\ events' = events + 1

(* handleVisibilityChange when the tab is hidden.                          *)
TabHidden ==
  /\ visible /\ Event
  /\ visible' = FALSE
  /\ wasActive' = IF isRunning THEN FALSE ELSE wasActive
  /\ graceTimer' = IF isRunning /\ wasActive /\ graceTimer = "none" THEN "set"
                   ELSE graceTimer
  /\ UNCHANGED <<enableOverlay, nodeVars, status, callVars, online, wasOnline,
                 handlerVars, isRunning, callbacks>>

(* handleVisibilityChange when it is shown: the grace period is cancelled. *)
TabShown ==
  /\ ~visible /\ Event
  /\ visible' = TRUE
  /\ wasActive' = IF isRunning THEN TRUE ELSE wasActive
  /\ graceTimer' = CASE graceTimer = "none" -> "none"
                     [] isRunning /\ ~wasActive -> "none"
                     [] OTHER -> "stale"
  /\ IF isRunning /\ ~wasActive THEN CallHandleActive
     ELSE UNCHANGED <<handlerVars, status>>
  /\ UNCHANGED <<enableOverlay, nodeVars, callVars, online, wasOnline, isRunning,
                 callbacks>>

GraceTimerFires ==
  /\ graceTimer # "none"
  /\ graceTimer' = "none"
  /\ IF ~visible THEN CallHandleInactive ELSE UNCHANGED <<handlerVars, status>>
  /\ UNCHANGED <<enableOverlay, nodeVars, callVars, tabVars, isRunning, callbacks>>

WentOffline ==
  /\ online /\ Event
  /\ online' = FALSE
  /\ wasOnline' = IF isRunning THEN FALSE ELSE wasOnline
  /\ IF isRunning /\ wasOnline THEN CallHandleInactive
     ELSE UNCHANGED <<handlerVars, status>>
  /\ UNCHANGED <<enableOverlay, nodeVars, callVars, visible, wasActive, monitorVars>>

WentOnline ==
  /\ ~online /\ Event
  /\ online' = TRUE
  /\ wasOnline' = IF isRunning THEN TRUE ELSE wasOnline
  /\ IF isRunning /\ ~wasOnline THEN CallHandleActive
     ELSE UNCHANGED <<handlerVars, status>>
  /\ UNCHANGED <<enableOverlay, nodeVars, callVars, visible, wasActive, monitorVars>>

(* The rest of handleInactive, after its closes.                           *)
InactiveClosed ==
  /\ closing > 0 /\ closing' = closing - 1
  /\ status' = "inactive"
  /\ UNCHANGED <<enableOverlay, nodeVars, callVars, tabVars, reconnecting, monitorVars>>

(* The rest of handleActive, after bootstrap returned or threw.            *)
ReconnectEnds(newStatus) ==
  /\ reconnecting > 0 /\ reconnecting' = reconnecting - 1
  /\ status' = newStatus
  /\ UNCHANGED <<enableOverlay, nodeVars, callVars, tabVars, closing, monitorVars>>

Reconnected == ReconnectEnds("connected")

\* Mutant of ReconnectFails: no catch; the status stays what handleActive made it.
ReconnectFailsUncaught ==
  /\ reconnecting > 0 /\ reconnecting' = reconnecting - 1
  /\ UNCHANGED <<enableOverlay, nodeVars, status, callVars, tabVars, closing,
                 monitorVars>>

ReconnectFails == ReconnectEnds("disconnected")

-----------------------------------------------------------------------------
StartNext(c) ==
  \/ Start(c) \/ IdentityReady(c) \/ CreateLibp2p(c) \/ Libp2pStarted(c)
  \/ Bootstrapped(c) \/ InitializeOverlay(c) \/ FinishStart(c) \/ StartFails(c)

StopNext(c) ==
  \/ Stop(c) \/ OverlayStopped(c) \/ StopLibp2p(c) \/ FinishStop(c) \/ StopFails(c)

ActivityNext ==
  \/ TabHidden \/ TabShown \/ GraceTimerFires \/ WentOffline \/ WentOnline
  \/ InactiveClosed \/ Reconnected \/ ReconnectFails

BrowserNext == (\E c \in Callers : StartNext(c) \/ StopNext(c)) \/ ActivityNext

(* Every await of the code ends: dials time out, the wait for a relay      *)
(* address is bounded by fifteen seconds, closes and stops resolve.  The   *)
(* bound on nodes may end a creation only by its failure.                  *)
CallProceeds(c) ==
  \/ IdentityReady(c) \/ CreateLibp2p(c) \/ Libp2pStarted(c) \/ Bootstrapped(c)
  \/ InitializeOverlay(c) \/ FinishStart(c) \/ StartFails(c)
  \/ OverlayStopped(c) \/ StopLibp2p(c) \/ FinishStop(c) \/ StopFails(c)

BrowserFairness ==
  /\ \A c \in Callers : WF_browserVars(CallProceeds(c))
  /\ WF_browserVars(InactiveClosed)
  /\ WF_browserVars(Reconnected \/ ReconnectFails)

BrowserSpec == BrowserInit /\ [][BrowserNext]_browserVars
FairBrowserSpec == BrowserSpec /\ BrowserFairness

-----------------------------------------------------------------------------
(* The fields have their types; `this` never holds a node that was not     *)
(* created, and an interval is held only while one is alive.               *)
BrowserTypeOK ==
  /\ enableOverlay \in BOOLEAN
  /\ libp2p \in 0..made /\ running \subseteq 1..made /\ made \in 0..MaxNodes
  /\ status \in {"disconnected", "connecting", "connected", "inactive"}
  /\ overlay \in BOOLEAN /\ upgrading \in BOOLEAN
  /\ timers \in Nat /\ armed \in BOOLEAN /\ (armed => timers > 0)
  /\ calls \in [Callers -> {"idle"} \cup StartSteps \cup StopSteps]
  /\ called \in 0..MaxCalls /\ overlapped \in BOOLEAN
  /\ visible \in BOOLEAN /\ online \in BOOLEAN
  /\ isRunning \in BOOLEAN /\ wasActive \in BOOLEAN /\ wasOnline \in BOOLEAN
  /\ graceTimer \in {"none", "set", "stale"}
  /\ callbacks \in Nat /\ closing \in Nat /\ reconnecting \in Nat
  /\ events \in 0..MaxEvents

(* Nothing is left behind: unless calls of start and stop overlapped, every *)
(* libp2p node that runs is this.libp2p, so that stop can reach it, also   *)
(* after starts that failed half-way; and while there is none, no interval *)
(* ticks, nothing upgrades connections, and the monitor neither listens nor*)
(* has a grace period that will end.                                       *)
NothingIsLeftBehind ==
  ~overlapped =>
    /\ running \subseteq {libp2p}
    /\ libp2p = 0 => timers = 0 /\ ~upgrading /\ ~isRunning /\ graceTimer = "none"

(* A grace period that ends was never interrupted: the tab has been hidden *)
(* since the timer was set, across stops, starts and repeated             *)
(* registrations of the callbacks.                                         *)
GraceIsUninterrupted == graceTimer # "stale"

(* The node does not hang in "connecting": a start or a reconnection, also *)
(* when other handlers and calls run meanwhile, ends in another status.    *)
ConnectingEnds == status = "connecting" ~> status # "connecting"

(* What the requirements and the guide say of a tab that is entered and a  *)
(* network that returns: while the tab is active and online and no handler *)
(* is at work, the node is not left inactive.  In the code handleActive    *)
(* does nothing while the closes of handleInactive are awaited, and nothing*)
(* calls it again.                                                         *)
ActiveTabReconnects ==
  visible /\ online /\ isRunning /\ closing = 0 /\ reconnecting = 0 =>
    status # "inactive"
=============================================================================
