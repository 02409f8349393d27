---------------------------- MODULE BrowserProofs ----------------------------
(***************************************************************************)
(* Proofs about the parts of a browser node that MCBrowser brings          *)
(* together: its life cycle, the choice of relays, the rate limiter, the   *)
(* identity, the connections, and the addresses it advertises.             *)
(***************************************************************************)
EXTENDS MCBrowser, InductionLemmas, FiniteSetTheorems, TLAPS

-----------------------------------------------------------------------------
(* The life cycle: the types, that starts and stops that do not overlap    *)
(* leave nothing behind, and that a grace period which ends was not        *)
(* interrupted.                                                            *)
(*                                                                         *)
(* The first property follows from the step of the one call at work        *)
(* (SoloFacts), the second holds whatever overlaps: a grace timer is set   *)
(* only while the monitor runs and knows that the tab is hidden.           *)

Steps == {"idle"} \cup StartSteps \cup StopSteps

\* The types of what start and stop change, and of what the tab changes.
LifeTypes ==
  /\ enableOverlay \in BOOLEAN
  /\ libp2p \in 0..made /\ running \subseteq 1..made /\ made \in 0..MaxNodes
  /\ overlay \in BOOLEAN /\ upgrading \in BOOLEAN
  /\ timers \in Nat /\ armed \in BOOLEAN /\ (armed => timers > 0)
  /\ calls \in [Callers -> Steps]
  /\ called \in 0..MaxCalls /\ overlapped \in BOOLEAN

Statuses == {"disconnected", "connecting", "connected", "inactive"}

MonitorTypes ==
  /\ status \in Statuses
  /\ visible \in BOOLEAN /\ online \in BOOLEAN
  /\ isRunning \in BOOLEAN /\ wasActive \in BOOLEAN /\ wasOnline \in BOOLEAN
  /\ graceTimer \in {"none", "set", "stale"}
  /\ callbacks \in Nat /\ closing \in Nat /\ reconnecting \in Nat
  /\ events \in 0..MaxEvents

\* The grace timer is set while the monitor runs and knows of the hidden tab.
GraceFacts == graceTimer # "none" => graceTimer = "set" /\ isRunning /\ ~wasActive

\* At most one call is at work, and its step says what there is: no node before
\* it is created, nothing armed before start ends or after stop began.
SoloFacts ==
  ~overlapped =>
    /\ \A c \in Callers, d \in Callers : calls[c] # "idle" /\ calls[d] # "idle" => c = d
    /\ running \subseteq {libp2p}
    /\ timers = IF armed THEN 1 ELSE 0
    /\ libp2p = 0 => ~armed /\ ~upgrading /\ ~isRunning
    /\ \A c \in Callers :
         /\ calls[c] \in StartSteps => ~armed
         /\ calls[c] \in StartSteps => (libp2p = 0 <=> calls[c] \in {"identity", "creating"})
         /\ calls[c] \in StopSteps => libp2p # 0 /\ ~armed /\ ~upgrading /\ ~isRunning
         /\ calls[c] = "stop_libp2p" => running = {}

BrowserIInv == LifeTypes /\ MonitorTypes /\ GraceFacts /\ SoloFacts

-----------------------------------------------------------------------------
LEMMA BrowserInitHolds == BrowserInit => BrowserIInv
<1> SUFFICES ASSUME BrowserInit PROVE BrowserIInv
  OBVIOUS
<1>1. calls \in [Callers -> Steps] /\ \A c \in Callers : calls[c] = "idle"
  BY DEF BrowserInit, Steps
<1>2. /\ enableOverlay \in BOOLEAN /\ libp2p = 0 /\ running = {} /\ made = 0
      /\ overlay \in BOOLEAN /\ upgrading \in BOOLEAN /\ ~upgrading
      /\ timers = 0 /\ armed \in BOOLEAN /\ ~armed
      /\ called = 0 /\ overlapped \in BOOLEAN
  BY DEF BrowserInit
<1>3. /\ status \in Statuses /\ visible \in BOOLEAN /\ online \in BOOLEAN
      /\ isRunning \in BOOLEAN /\ ~isRunning
      /\ wasActive \in BOOLEAN /\ wasOnline \in BOOLEAN
      /\ graceTimer = "none" /\ callbacks = 0 /\ closing = 0 /\ reconnecting = 0
      /\ events = 0
  BY DEF BrowserInit, Statuses
<1>4. LifeTypes
  BY <1>1, <1>2, BrowserNodeAssumption DEF LifeTypes
<1>5. MonitorTypes /\ GraceFacts
  BY <1>3, BrowserNodeAssumption DEF MonitorTypes, GraceFacts
<1>6. SoloFacts
  BY <1>1, <1>2, <1>3 DEF SoloFacts, StartSteps, StopSteps
<1> QED
  BY <1>4, <1>5, <1>6 DEF BrowserIInv

-----------------------------------------------------------------------------
(* The tab and the network.                                                *)

LEMMA ActivityLeavesLife ==
  ASSUME ActivityNext
  PROVE  UNCHANGED <<enableOverlay, nodeVars, callVars, isRunning, callbacks>>
<1>1. CASE TabHidden \/ TabShown \/ GraceTimerFires
  BY <1>1 DEF TabHidden, TabShown, GraceTimerFires, monitorVars
<1>2. CASE WentOffline \/ WentOnline
  BY <1>2 DEF WentOffline, WentOnline, monitorVars
<1>3. CASE InactiveClosed \/ Reconnected \/ ReconnectFails
  BY <1>3 DEF InactiveClosed, Reconnected, ReconnectFails, ReconnectEnds, monitorVars
<1> QED
  BY <1>1, <1>2, <1>3 DEF ActivityNext

\* What the callbacks do keeps the types of what they change.
LEMMA HandlerTypes ==
  ASSUME MonitorTypes,
         CallHandleInactive \/ CallHandleActive \/ UNCHANGED <<handlerVars, status>>
  PROVE  status' \in Statuses /\ closing' \in Nat /\ reconnecting' \in Nat
<1>1. CASE CallHandleInactive
  BY <1>1 DEF CallHandleInactive, MonitorTypes
<1>2. CASE CallHandleActive
  BY <1>2 DEF CallHandleActive, MonitorTypes, Statuses
<1>3. CASE UNCHANGED <<handlerVars, status>>
  BY <1>3 DEF handlerVars, MonitorTypes
<1> QED
  BY <1>1, <1>2, <1>3

LEMMA ActivityMonitorHolds ==
  ASSUME MonitorTypes, GraceFacts, ActivityNext
  PROVE  MonitorTypes' /\ GraceFacts'
<1>0. isRunning' = isRunning /\ callbacks' = callbacks
  BY ActivityLeavesLife
<1>1. CASE TabHidden
  <2>1. status' \in Statuses /\ closing' \in Nat /\ reconnecting' \in Nat
    BY <1>1, HandlerTypes DEF TabHidden
  <2>2. wasActive' \in BOOLEAN /\ visible' \in BOOLEAN /\ online' \in BOOLEAN
        /\ wasOnline' \in BOOLEAN
    BY <1>1 DEF TabHidden, MonitorTypes
  <2>3. graceTimer' \in {"none", "set", "stale"} /\ GraceFacts'
    BY <1>0, <1>1 DEF TabHidden, MonitorTypes, GraceFacts
  <2>4. events' \in 0..MaxEvents
    BY <1>1, BrowserNodeAssumption DEF TabHidden, Event, MonitorTypes
  <2> QED
    BY <1>0, <2>1, <2>2, <2>3, <2>4 DEF MonitorTypes
<1>2. CASE TabShown
  <2>1. status' \in Statuses /\ closing' \in Nat /\ reconnecting' \in Nat
    BY <1>2, HandlerTypes DEF TabShown
  <2>2. wasActive' \in BOOLEAN /\ visible' \in BOOLEAN /\ online' \in BOOLEAN
        /\ wasOnline' \in BOOLEAN
    BY <1>2 DEF TabShown, MonitorTypes
  <2>3. graceTimer' = "none"
    BY <1>2 DEF TabShown, GraceFacts
  <2>4. events' \in 0..MaxEvents
    BY <1>2, BrowserNodeAssumption DEF TabShown, Event, MonitorTypes
  <2> QED
    BY <1>0, <2>1, <2>2, <2>3, <2>4 DEF MonitorTypes, GraceFacts
<1>3. CASE GraceTimerFires
  <2>1. status' \in Statuses /\ closing' \in Nat /\ reconnecting' \in Nat
    BY <1>3, HandlerTypes DEF GraceTimerFires
  <2> QED
    BY <1>0, <1>3, <2>1 DEF GraceTimerFires, MonitorTypes, GraceFacts, tabVars
<1>4. CASE WentOffline \/ WentOnline
  <2>1. status' \in Statuses /\ closing' \in Nat /\ reconnecting' \in Nat
    BY <1>4, HandlerTypes DEF WentOffline, WentOnline
  <2>2. online' \in BOOLEAN /\ wasOnline' \in BOOLEAN
    BY <1>4 DEF WentOffline, WentOnline, MonitorTypes
  <2>3. events' \in 0..MaxEvents
    <3>1. events < MaxEvents /\ events' = events + 1
      BY <1>4 DEF WentOffline, WentOnline, Event
    <3> QED
      BY <3>1, BrowserNodeAssumption DEF MonitorTypes
  <2>4. UNCHANGED <<visible, wasActive, monitorVars>>
    BY <1>4 DEF WentOffline, WentOnline
  <2> QED
    BY <1>0, <2>1, <2>2, <2>3, <2>4 DEF MonitorTypes, GraceFacts, monitorVars
<1>5. CASE InactiveClosed \/ Reconnected \/ ReconnectFails
  <2>1. UNCHANGED <<tabVars, monitorVars>>
    BY <1>5 DEF InactiveClosed, Reconnected, ReconnectFails, ReconnectEnds
  <2>2. status' \in Statuses /\ closing' \in Nat /\ reconnecting' \in Nat
    BY <1>5
    DEF InactiveClosed, Reconnected, ReconnectFails, ReconnectEnds, MonitorTypes, Statuses
  <2> QED
    BY <2>1, <2>2 DEF MonitorTypes, GraceFacts, tabVars, monitorVars
<1> QED
  BY <1>1, <1>2, <1>3, <1>4, <1>5 DEF ActivityNext

LEMMA ActivityHolds ==
  ASSUME BrowserIInv, ActivityNext
  PROVE  BrowserIInv'
<1>1. UNCHANGED <<enableOverlay, nodeVars, callVars, isRunning>>
  BY ActivityLeavesLife
<1>2. LifeTypes'
  BY <1>1 DEF BrowserIInv, LifeTypes, nodeVars, callVars
<1>3. SoloFacts'
  BY <1>1 DEF BrowserIInv, SoloFacts, nodeVars, callVars
<1> QED
  BY <1>2, <1>3, ActivityMonitorHolds DEF BrowserIInv

-----------------------------------------------------------------------------
(* The step of one call of start or stop.                                  *)

Moved(c, pc) ==
  /\ calls' \in [Callers -> Steps]
  /\ calls'[c] = pc
  /\ \A d \in Callers \ {c} : calls'[d] = calls[d]

\* The others are idle.
OnlyOne(c) == \A d \in Callers \ {c} : calls[d] = "idle"
AtMostOne ==
  \A c \in Callers, d \in Callers : calls[c] # "idle" /\ calls[d] # "idle" => c = d

LEMMA MovesTo ==
  ASSUME LifeTypes, NEW c \in Callers, NEW pc \in Steps, Moves(c, pc)
  PROVE  Moved(c, pc)
  BY DEF Moves, LifeTypes, Moved

\* A call that goes on was the only one.
LEMMA StaysSolo ==
  ASSUME SoloFacts, NEW c \in Callers, NEW pc, calls[c] # "idle", Moved(c, pc),
         overlapped' = overlapped, ~overlapped'
  PROVE  ~overlapped /\ OnlyOne(c) /\ AtMostOne'
  BY DEF SoloFacts, Moved, OnlyOne, AtMostOne

\* A call that begins is the only one, or calls overlap.
LEMMA BeginsSolo ==
  ASSUME SoloFacts, LifeTypes, NEW c \in Callers, NEW pc \in Steps, Calls(c, pc)
  PROVE  /\ Moved(c, pc) /\ calls[c] = "idle"
         /\ called' \in 0..MaxCalls /\ overlapped' \in BOOLEAN
         /\ ~overlapped' => ~overlapped /\ OnlyOne(c) /\ AtMostOne'
<1>1. Moved(c, pc) /\ calls[c] = "idle"
  BY MovesTo DEF Calls
<1>2. called' \in 0..MaxCalls
  BY BrowserNodeAssumption DEF Calls, LifeTypes
<1>3. overlapped' \in BOOLEAN /\ (~overlapped' => ~overlapped /\ Active = {})
  BY DEF Calls
<1>4. Active = {} => OnlyOne(c)
  BY DEF Active, OnlyOne
<1>5. OnlyOne(c) => AtMostOne'
  BY <1>1 DEF Moved, OnlyOne, AtMostOne
<1> QED
  BY <1>1, <1>2, <1>3, <1>4, <1>5

LEMMA MonitorKept ==
  ASSUME MonitorTypes, GraceFacts, UNCHANGED <<tabVars, handlerVars, monitorVars>>,
         status' \in Statuses
  PROVE  MonitorTypes' /\ GraceFacts' /\ isRunning' = isRunning
  BY DEF MonitorTypes, GraceFacts, tabVars, handlerVars, monitorVars

-----------------------------------------------------------------------------
(* Starts.                                                                 *)

LEMMA StartHolds ==
  ASSUME BrowserIInv, NEW c \in Callers, Start(c)
  PROVE  BrowserIInv'
<1> USE DEF BrowserIInv
<1>1. /\ Moved(c, "identity") /\ calls[c] = "idle"
      /\ called' \in 0..MaxCalls /\ overlapped' \in BOOLEAN
      /\ ~overlapped' => ~overlapped /\ OnlyOne(c) /\ AtMostOne'
  BY BeginsSolo DEF Start, Steps, StartSteps
<1>2. MonitorTypes' /\ GraceFacts' /\ isRunning' = isRunning
  BY MonitorKept DEF Start, Statuses
<1>3. LifeTypes'
  BY <1>1 DEF Start, LifeTypes, Moved, nodeVars
<1>4. SoloFacts'
  BY <1>1, <1>2
  DEF Start, SoloFacts, Moved, OnlyOne, AtMostOne, StartSteps, StopSteps, nodeVars
<1> QED
  BY <1>2, <1>3, <1>4

\* Steps that change the status, or that the overlay is created, at most.
LEMMA LightSteps ==
  ASSUME BrowserIInv, NEW c \in Callers,
         \/ IdentityReady(c) \/ Libp2pStarted(c) \/ Bootstrapped(c)
         \/ InitializeOverlay(c) \/ StartFails(c) \/ OverlayStopped(c) \/ StopFails(c)
  PROVE  BrowserIInv'
<1> USE DEF BrowserIInv
<1>1. /\ UNCHANGED <<enableOverlay, libp2p, running, made, upgrading, timers, armed,
                     called, overlapped, tabVars, handlerVars, monitorVars>>
      /\ overlay' \in BOOLEAN /\ status' \in Statuses
  <2>1. CASE IdentityReady(c) \/ Libp2pStarted(c) \/ Bootstrapped(c)
    BY <2>1
    DEF IdentityReady, Libp2pStarted, Bootstrapped, nodeVars, LifeTypes, MonitorTypes, Statuses
  <2>2. CASE InitializeOverlay(c) \/ StartFails(c)
    BY <2>2
    DEF InitializeOverlay, StartFails, nodeVars, LifeTypes, MonitorTypes, Statuses
  <2>3. CASE OverlayStopped(c)
    BY <2>3 DEF OverlayStopped, MonitorTypes
  <2>4. CASE StopFails(c)
    BY <2>4 DEF StopFails, MonitorTypes
  <2> QED
    BY <2>1, <2>2, <2>3, <2>4
<1>2. PICK pc \in Steps :
        /\ Moves(c, pc)
        /\ calls[c] \in StartSteps \cup StopSteps
        /\ \/ pc = "idle"
           \/ pc \in StartSteps \ {"identity"} /\ calls[c] \in StartSteps
              /\ (pc = "creating" <=> calls[c] = "identity")
              /\ calls[c] # "creating"
           \/ pc = "stop_closing" /\ calls[c] \in StopSteps
  <2>1. CASE IdentityReady(c)
    BY <2>1 DEF IdentityReady, Steps, StartSteps
  <2>2. CASE Libp2pStarted(c)
    BY <2>2 DEF Libp2pStarted, Steps, StartSteps
  <2>3. CASE Bootstrapped(c)
    BY <2>3 DEF Bootstrapped, Steps, StartSteps
  <2>4. CASE InitializeOverlay(c)
    BY <2>4 DEF InitializeOverlay, Steps, StartSteps
  <2>5. CASE StartFails(c)
    BY <2>5 DEF StartFails, StartMayThrow, Steps, StartSteps
  <2>6. CASE OverlayStopped(c)
    BY <2>6 DEF OverlayStopped, Steps, StopSteps
  <2>7. CASE StopFails(c)
    BY <2>7 DEF StopFails, Steps, StopSteps
  <2> QED
    BY <2>1, <2>2, <2>3, <2>4, <2>5, <2>6, <2>7
<1>3. Moved(c, pc) /\ calls[c] # "idle"
  BY <1>2, MovesTo DEF StartSteps, StopSteps
<1>4. MonitorTypes' /\ GraceFacts' /\ isRunning' = isRunning
  BY <1>1, MonitorKept
<1>5. LifeTypes'
  BY <1>1, <1>3 DEF LifeTypes, Moved
<1>6. ASSUME ~overlapped'
      PROVE  ~overlapped /\ OnlyOne(c) /\ AtMostOne'
  BY <1>1, <1>3, <1>6, StaysSolo
<1>7. SoloFacts'
  BY <1>1, <1>2, <1>3, <1>4, <1>6
  DEF SoloFacts, Moved, OnlyOne, AtMostOne, StartSteps, StopSteps
<1> QED
  BY <1>4, <1>5, <1>7

LEMMA CreateHolds ==
  ASSUME BrowserIInv, NEW c \in Callers, CreateLibp2p(c)
  PROVE  BrowserIInv'
<1> USE DEF BrowserIInv
<1>1. Moved(c, "starting") /\ calls[c] = "creating"
  BY MovesTo DEF CreateLibp2p, Steps, StartSteps
<1>2. MonitorTypes' /\ GraceFacts' /\ isRunning' = isRunning
  BY MonitorKept DEF CreateLibp2p, MonitorTypes
<1>3. /\ made' \in 0..MaxNodes /\ libp2p' \in 0..made' /\ libp2p' # 0
      /\ running' \subseteq 1..made' /\ running' = running \cup {libp2p'}
  BY BrowserNodeAssumption DEF CreateLibp2p, LifeTypes
<1>4. UNCHANGED <<enableOverlay, overlay, upgrading, timers, armed, called, overlapped>>
  BY DEF CreateLibp2p
<1>5. LifeTypes'
  BY <1>1, <1>3, <1>4 DEF LifeTypes, Moved
<1>6. ASSUME ~overlapped'
      PROVE  ~overlapped /\ OnlyOne(c) /\ AtMostOne'
  BY <1>1, <1>4, <1>6, StaysSolo
<1>7. ASSUME ~overlapped'
      PROVE  running = {} /\ ~armed /\ ~upgrading /\ ~isRunning
  BY <1>1, <1>6, <1>7 DEF SoloFacts, LifeTypes, StartSteps
<1>8. SoloFacts'
  BY <1>1, <1>2, <1>3, <1>4, <1>6, <1>7
  DEF SoloFacts, Moved, OnlyOne, AtMostOne, StartSteps, StopSteps
<1> QED
  BY <1>2, <1>5, <1>8

LEMMA FinishStartHolds ==
  ASSUME BrowserIInv, NEW c \in Callers, FinishStart(c)
  PROVE  BrowserIInv'
<1> USE DEF BrowserIInv
<1>1. Moved(c, "idle") /\ calls[c] \in {"overlay", "discovering"}
  BY MovesTo DEF FinishStart, Steps
<1>2. /\ status' = status /\ UNCHANGED <<visible, online, events, graceTimer, handlerVars>>
      /\ callbacks' = callbacks + 1 /\ isRunning' /\ isRunning' \in BOOLEAN
      /\ wasActive' \in BOOLEAN /\ wasOnline' \in BOOLEAN
      /\ isRunning => wasActive' = wasActive
  BY DEF FinishStart, SetupActivityMonitoring, MonitorTypes
<1>3. MonitorTypes' /\ GraceFacts'
  BY <1>2 DEF MonitorTypes, GraceFacts, handlerVars
<1>4. /\ UNCHANGED <<enableOverlay, libp2p, running, made, called, overlapped>>
      /\ timers' = timers + 1 /\ armed' /\ armed' \in BOOLEAN
      /\ overlay' \in BOOLEAN /\ upgrading' \in BOOLEAN
  BY DEF FinishStart, LifeTypes
<1>5. LifeTypes'
  BY <1>1, <1>4 DEF LifeTypes, Moved
<1>6. ASSUME ~overlapped'
      PROVE  ~overlapped /\ OnlyOne(c) /\ AtMostOne'
  BY <1>1, <1>4, <1>6, StaysSolo
<1>7. ASSUME ~overlapped'
      PROVE  libp2p # 0 /\ timers = 0
  BY <1>1, <1>6, <1>7 DEF SoloFacts, StartSteps
<1>8. SoloFacts'
  BY <1>1, <1>4, <1>6, <1>7
  DEF SoloFacts, Moved, OnlyOne, AtMostOne, StartSteps, StopSteps
<1> QED
  BY <1>3, <1>5, <1>8

-----------------------------------------------------------------------------
(* Stops.                                                                  *)

LEMMA StopHolds ==
  ASSUME BrowserIInv, NEW c \in Callers, Stop(c)
  PROVE  BrowserIInv'
<1> USE DEF BrowserIInv
<1>1. PICK pc \in {"stop_overlay", "stop_closing"} : Calls(c, pc)
  BY DEF Stop
<1>2. /\ Moved(c, pc) /\ calls[c] = "idle"
      /\ called' \in 0..MaxCalls /\ overlapped' \in BOOLEAN
      /\ ~overlapped' => ~overlapped /\ OnlyOne(c) /\ AtMostOne'
  BY <1>1, BeginsSolo DEF Steps, StopSteps
<1>3. /\ UNCHANGED <<enableOverlay, libp2p, running, made, status, overlay, tabVars,
                     handlerVars, callbacks>>
      /\ timers' = IF armed THEN timers - 1 ELSE timers
      /\ ~armed' /\ armed' \in BOOLEAN /\ ~upgrading' /\ upgrading' \in BOOLEAN
      /\ ~isRunning' /\ isRunning' \in BOOLEAN
      /\ graceTimer' = IF isRunning THEN "none" ELSE graceTimer
      /\ libp2p # 0
  BY DEF Stop, StopTimers, StopMonitor
<1>4. MonitorTypes' /\ GraceFacts'
  BY <1>3 DEF MonitorTypes, GraceFacts, tabVars, handlerVars
<1>5. timers' \in Nat
  BY <1>3 DEF LifeTypes
<1>6. LifeTypes'
  BY <1>2, <1>3, <1>5 DEF LifeTypes, Moved
<1>7. ~overlapped' => timers' = 0
  BY <1>2, <1>3 DEF SoloFacts
<1>8. SoloFacts'
  BY <1>2, <1>3, <1>7
  DEF SoloFacts, Moved, OnlyOne, AtMostOne, StartSteps, StopSteps
<1> QED
  BY <1>4, <1>6, <1>8

LEMMA StopLibp2pHolds ==
  ASSUME BrowserIInv, NEW c \in Callers, StopLibp2p(c)
  PROVE  BrowserIInv'
<1> USE DEF BrowserIInv
<1>1. Moved(c, "stop_libp2p") /\ calls[c] = "stop_closing"
  BY MovesTo DEF StopLibp2p, Steps, StopSteps
<1>2. MonitorTypes' /\ GraceFacts' /\ isRunning' = isRunning
  BY MonitorKept DEF StopLibp2p, MonitorTypes
<1>3. LifeTypes'
  BY <1>1 DEF StopLibp2p, LifeTypes, Moved
<1>4. ASSUME ~overlapped'
      PROVE  ~overlapped /\ OnlyOne(c) /\ AtMostOne'
  BY <1>1, <1>4, StaysSolo DEF StopLibp2p
<1>5. SoloFacts'
  BY <1>1, <1>2, <1>4
  DEF StopLibp2p, SoloFacts, Moved, OnlyOne, AtMostOne, StartSteps, StopSteps
<1> QED
  BY <1>2, <1>3, <1>5

LEMMA FinishStopHolds ==
  ASSUME BrowserIInv, NEW c \in Callers, FinishStop(c)
  PROVE  BrowserIInv'
<1> USE DEF BrowserIInv
<1>1. Moved(c, "idle") /\ calls[c] = "stop_libp2p"
  BY MovesTo DEF FinishStop, Steps
<1>2. MonitorTypes' /\ GraceFacts' /\ isRunning' = isRunning
  BY MonitorKept DEF FinishStop, Statuses
<1>3. LifeTypes'
  BY <1>1, BrowserNodeAssumption DEF FinishStop, LifeTypes, Moved
<1>4. ASSUME ~overlapped'
      PROVE  ~overlapped /\ OnlyOne(c) /\ AtMostOne'
  BY <1>1, <1>4, StaysSolo DEF FinishStop
<1>5. SoloFacts'
  BY <1>1, <1>2, <1>4
  DEF FinishStop, SoloFacts, Moved, OnlyOne, AtMostOne, StartSteps, StopSteps
<1> QED
  BY <1>2, <1>3, <1>5

-----------------------------------------------------------------------------
LEMMA BrowserStepHolds == BrowserIInv /\ [BrowserNext]_browserVars => BrowserIInv'
<1> SUFFICES ASSUME BrowserIInv, [BrowserNext]_browserVars
             PROVE  BrowserIInv'
  OBVIOUS
<1>1. CASE UNCHANGED browserVars
  BY <1>1
  DEF browserVars, nodeVars, callVars, tabVars, handlerVars, monitorVars, BrowserIInv,
      LifeTypes, MonitorTypes, GraceFacts, SoloFacts
<1>2. ASSUME NEW c \in Callers, StartNext(c) \/ StopNext(c)
      PROVE  BrowserIInv'
  BY <1>2, StartHolds, LightSteps, CreateHolds, FinishStartHolds, StopHolds,
     StopLibp2pHolds, FinishStopHolds
  DEF StartNext, StopNext
<1>3. CASE ActivityNext
  BY <1>3, ActivityHolds
<1> QED
  BY <1>1, <1>2, <1>3 DEF BrowserNext

LEMMA BrowserSpecIInv == BrowserSpec => []BrowserIInv
  BY BrowserInitHolds, BrowserStepHolds, PTL DEF BrowserSpec

LEMMA TypesOfBrowser == BrowserIInv => BrowserTypeOK
  BY DEF BrowserIInv, LifeTypes, MonitorTypes, BrowserTypeOK, Steps, Statuses

LEMMA SoloLeavesNothing == BrowserIInv => NothingIsLeftBehind
  BY DEF BrowserIInv, SoloFacts, GraceFacts, NothingIsLeftBehind

LEMMA GraceIsSet == BrowserIInv => GraceIsUninterrupted
  BY DEF BrowserIInv, GraceFacts, GraceIsUninterrupted

-----------------------------------------------------------------------------
\* The fields of a browser node and its monitor keep their types, for any
\* applications and any bounds.
THEOREM BrowserTypeCorrect == BrowserSpec => []BrowserTypeOK
  BY BrowserSpecIInv, TypesOfBrowser, PTL

\* As long as calls of start and stop do not overlap, also when starts fail
\* half-way, stop can reach every node that runs, and a node that was stopped
\* leaves no interval, upgrader, listener or grace period.
THEOREM SoloCallsLeaveNothing == BrowserSpec => []NothingIsLeftBehind
  BY BrowserSpecIInv, SoloLeavesNothing, PTL

\* Whatever overlaps, a grace period that ends was not interrupted.
THEOREM GraceHolds == BrowserSpec => []GraceIsUninterrupted
  BY BrowserSpecIInv, GraceIsSet, PTL

-----------------------------------------------------------------------------
(* Relays: the types, and that a relay whose last word was a refusal is    *)
(* not offered again.                                                      *)
(*                                                                         *)
(* RefusedAreNotOffered alone is not inductive: the marks may be cleared   *)
(* in bulk.  What holds it up is the load that was noted with the refusal, *)
(* and that only a fetch whose entry is still in the table may replace it. *)

\* A relay of the table that refused is noted with a load at the threshold.
RefusedAreFull ==
  \A r \in refusedLast \cap relayNodes : utilization[r] >= Threshold

\* A fetch that may write works on an entry that is in the table.
CurrentAreKnown ==
  \A f \in Fetches : statusFetches[f].current => statusFetches[f].relay \subseteq relayNodes

RelayIInv == RelayTypeOK /\ RefusedAreFull /\ CurrentAreKnown

LEMMA RelayInitHolds == RelayInit => RelayIInv
<1>1. 0 \in Load
  BY RelayAssumption DEF Load
<1>2. NoRequest \in RelayRequest
  BY DEF NoRequest, RelayRequest
<1>3. NoFetch \in StatusFetch /\ NoFetch.relay = {}
  BY DEF NoFetch, StatusFetch
<1> QED
  BY <1>1, <1>2, <1>3
  DEF RelayInit, RelayIInv, RelayTypeOK, RefusedAreFull, CurrentAreKnown

-----------------------------------------------------------------------------
(* The parts of a step.                                                    *)

\* Detaching leaves fetches what they are, and none of r may write.
LEMMA Detached ==
  ASSUME RelayTypeOK, NEW r \in Relays, Detach(r)
  PROVE  /\ statusFetches' \in [Fetches -> StatusFetch]
         /\ \A f \in Fetches : statusFetches'[f].relay = statusFetches[f].relay
         /\ \A f \in Fetches : statusFetches'[f].current =>
              statusFetches[f].current /\ r \notin statusFetches[f].relay
  BY DEF Detach, RelayTypeOK, StatusFetch

\* A refusal keeps the types of the table, and what it refuses is full.
LEMMA RefusedKeeps ==
  ASSUME RelayIInv, NEW rs \in SUBSET Relays, Refused(rs)
  PROVE  /\ relayNodes' = relayNodes /\ freshRelays' \subseteq relayNodes
         /\ failedRelays' \subseteq Relays /\ refusedLast' \subseteq Relays
         /\ utilization' \in [Relays -> Load]
         /\ RefusedAreFull'
<1>1. Full \in Load /\ Full >= Threshold /\ Threshold \in Nat
  BY RelayAssumption DEF Load
<1>2. ASSUME NEW r \in refusedLast' \cap relayNodes'
      PROVE  utilization'[r] >= Threshold
  BY <1>1, <1>2 DEF Refused, RelayIInv, RelayTypeOK, RefusedAreFull
<1> QED
  BY <1>1, <1>2 DEF Refused, RelayIInv, RelayTypeOK, RefusedAreFull

\* A turn of the failover loop moves one call and nothing else.
LEMMA TryNextKeeps ==
  ASSUME RelayTypeOK, NEW c \in Requests, NEW tried \in SUBSET Relays,
         NEW failed, NEW load, TryNext(c, tried, failed, load)
  PROVE  relayRequests' \in [Requests -> RelayRequest]
  BY DEF TryNext, RelayTypeOK, RelayRequest, LeastLoaded, Available

-----------------------------------------------------------------------------
(* One step per action.                                                    *)

LEMMA TableSteps ==
  ASSUME RelayIInv, NEW r \in Relays, NEW load \in Load,
         \/ AddRelay(r, load) \/ RemoveRelay(r) \/ StatusExpires(r)
         \/ ReportSuccess(r) \/ ReportRefusal(r)
  PROVE  RelayIInv'
<1> USE DEF RelayIInv
<1> Threshold \in Nat
  BY RelayAssumption
<1>1. CASE AddRelay(r, load)
  <2>1. RelayTypeOK'
    BY <1>1, Detached DEF AddRelay, RelayTypeOK
  <2>2. RefusedAreFull'
    BY <1>1 DEF AddRelay, RelayTypeOK, RefusedAreFull
  <2>3. CurrentAreKnown'
    BY <1>1, Detached DEF AddRelay, CurrentAreKnown
  <2> QED BY <2>1, <2>2, <2>3
<1>2. CASE RemoveRelay(r)
  <2>1. RelayTypeOK'
    BY <1>2, Detached, RelayAssumption DEF RemoveRelay, RelayTypeOK, Load
  <2>2. RefusedAreFull'
    BY <1>2 DEF RemoveRelay, RelayTypeOK, RefusedAreFull
  <2>3. CurrentAreKnown'
    BY <1>2, Detached DEF RemoveRelay, CurrentAreKnown
  <2> QED BY <2>1, <2>2, <2>3
<1>3. CASE ReportRefusal(r)
  <2>1. {r} \in SUBSET Relays
    OBVIOUS
  <2>2. Refused({r})
    BY <1>3 DEF ReportRefusal
  <2> QED
    BY <1>3, <2>1, <2>2, RefusedKeeps DEF ReportRefusal, RelayTypeOK, CurrentAreKnown
<1>4. CASE StatusExpires(r) \/ ReportSuccess(r)
  BY <1>4
  DEF StatusExpires, ReportSuccess, RelayTypeOK, RefusedAreFull, CurrentAreKnown
<1> QED
  BY <1>1, <1>2, <1>3, <1>4

LEMMA WholeTableSteps ==
  ASSUME RelayIInv, SelectRelay \/ ClearFailedRelays \/ Clear
  PROVE  RelayIInv'
<1> USE DEF RelayIInv
<1>1. CASE Clear
  <2>1. statusFetches' \in [Fetches -> StatusFetch]
    BY <1>1 DEF Clear, RelayTypeOK, StatusFetch
  <2>2. \A f \in Fetches : ~ statusFetches'[f].current
    BY <1>1 DEF Clear, RelayTypeOK, StatusFetch
  <2>3. 0 \in Load
    BY RelayAssumption DEF Load
  <2> QED
    BY <1>1, <2>1, <2>2, <2>3 DEF Clear, RelayTypeOK, RefusedAreFull, CurrentAreKnown
<1>2. CASE SelectRelay \/ ClearFailedRelays
  BY <1>2
  DEF SelectRelay, ClearFailedRelays, tableVars, RelayTypeOK, RefusedAreFull,
      CurrentAreKnown
<1> QED
  BY <1>1, <1>2

LEMMA RequestSteps ==
  ASSUME RelayIInv, NEW c \in Requests, RequestStep(c)
  PROVE  RelayIInv'
<1> USE DEF RelayIInv
<1>1. relayRequests[c].asked \in SUBSET Relays /\ relayRequests[c].tried \in SUBSET Relays
  BY DEF RelayTypeOK, RelayRequest
<1>2. CASE RequestRelay(c)
  <2>1. relayRequests' \in [Requests -> RelayRequest]
    BY <1>2, TryNextKeeps DEF RequestRelay
  <2> QED
    BY <1>2, <2>1 DEF RequestRelay, tableVars, RelayTypeOK, RefusedAreFull, CurrentAreKnown
<1>3. CASE RelayRefuses(c)
  <2>1. Refused(relayRequests[c].asked)
    BY <1>3 DEF RelayRefuses
  <2>2. relayRequests' \in [Requests -> RelayRequest]
    BY <1>1, <1>3, TryNextKeeps DEF RelayRefuses
  <2> QED
    BY <1>1, <1>3, <2>1, <2>2, RefusedKeeps DEF RelayRefuses, RelayTypeOK, CurrentAreKnown
<1>4. CASE RelayAccepts(c) \/ RelayFails(c) \/ ReturnResult(c)
  <2>1. relayRequests' \in [Requests -> RelayRequest]
    BY <1>4 DEF RelayAccepts, RelayFails, ReturnResult, NoRequest, RelayTypeOK, RelayRequest
  <2> QED
    BY <1>4, <2>1
    DEF RelayAccepts, RelayFails, ReturnResult, tableVars, RelayTypeOK, RefusedAreFull,
        CurrentAreKnown
<1> QED
  BY <1>2, <1>3, <1>4 DEF RequestStep

\* A late answer writes to the table only through an entry that is still in it.
LEMMA FetchSteps ==
  ASSUME RelayIInv, NEW f \in Fetches, FetchStep(f)
  PROVE  RelayIInv'
<1> USE DEF RelayIInv
<1> Threshold \in Nat
  BY RelayAssumption
<1>1. ASSUME NEW r \in Relays, UpdateRelayStatus(f, r)
      PROVE  RelayIInv'
  <2>1. statusFetches' \in [Fetches -> StatusFetch]
    BY <1>1 DEF UpdateRelayStatus, RelayTypeOK, StatusFetch
  <2>2. CurrentAreKnown'
    BY <1>1 DEF UpdateRelayStatus, tableVars, RelayTypeOK, CurrentAreKnown
  <2> QED
    BY <1>1, <2>1, <2>2 DEF UpdateRelayStatus, tableVars, RelayTypeOK, RefusedAreFull
<1>2. ASSUME NEW load \in Load, NEW isFresh \in BOOLEAN, StatusArrives(f, load, isFresh)
      PROVE  RelayIInv'
  <2> DEFINE r == statusFetches[f].relay
             written == IF statusFetches[f].current THEN r ELSE {}
  <2>1. r \subseteq Relays /\ written \subseteq relayNodes
    BY DEF RelayTypeOK, StatusFetch, CurrentAreKnown
  <2>2. statusFetches' \in [Fetches -> StatusFetch]
    BY <1>2 DEF StatusArrives, RelayTypeOK, StatusFetch, NoFetch
  <2>3. RelayTypeOK'
    BY <1>2, <2>1, <2>2 DEF StatusArrives, RelayTypeOK
  <2>4. RefusedAreFull'
    BY <1>2, <2>1 DEF StatusArrives, RelayTypeOK, RefusedAreFull
  <2>5. CurrentAreKnown'
    BY <1>2 DEF StatusArrives, RelayTypeOK, CurrentAreKnown, NoFetch
  <2> QED BY <2>3, <2>4, <2>5
<1>3. CASE StatusFails(f)
  <2>1. statusFetches' \in [Fetches -> StatusFetch]
    BY <1>3 DEF StatusFails, RelayTypeOK, StatusFetch, NoFetch
  <2>2. CurrentAreKnown'
    BY <1>3 DEF StatusFails, tableVars, RelayTypeOK, CurrentAreKnown, NoFetch
  <2> QED
    BY <1>3, <2>1, <2>2 DEF StatusFails, tableVars, RelayTypeOK, RefusedAreFull
<1> QED
  BY <1>1, <1>2, <1>3 DEF FetchStep

LEMMA RelayStepHolds == RelayIInv /\ [RelayNext]_relayVars => RelayIInv'
<1> SUFFICES ASSUME RelayIInv, [RelayNext]_relayVars
             PROVE  RelayIInv'
  OBVIOUS
<1>1. CASE UNCHANGED relayVars
  BY <1>1
  DEF relayVars, tableVars, RelayIInv, RelayTypeOK, RefusedAreFull, CurrentAreKnown
<1>2. CASE RelayNext
  <2>1. 0 \in Load
    BY RelayAssumption DEF Load
  <2> QED
    BY <1>2, <2>1, TableSteps, WholeTableSteps, RequestSteps, FetchSteps DEF RelayNext
<1> QED
  BY <1>1, <1>2

LEMMA RelaySpecIInv == RelaySpec => []RelayIInv
  BY RelayInitHolds, RelayStepHolds, PTL DEF RelaySpec

-----------------------------------------------------------------------------
\* The table, the marks and the calls of the selector keep their types.
THEOREM RelayTypeCorrect == RelaySpec => []RelayTypeOK
  BY RelaySpecIInv, PTL DEF RelayIInv

\* For any relays, loads and threshold, a relay whose last word was a refusal is
\* not among those a selection considers.
THEOREM RefusedStayOut == RelaySpec => []RefusedAreNotOffered
<1>1. RelayIInv => RefusedAreNotOffered
  BY RelayAssumption
  DEF RelayIInv, RelayTypeOK, RefusedAreFull, RefusedAreNotOffered, Available, Load
<1> QED
  BY <1>1, RelaySpecIInv, PTL

-----------------------------------------------------------------------------
(* Limits and manual blocks.                                               *)
(*                                                                         *)
(* While a manual block lasts, every table has the peer's entry, blocked   *)
(* for exactly the time that is left; so no request is admitted, no        *)
(* violation begins a block of its own, no question lifts it and no        *)
(* cleanup removes it.  As long as a peer was not blocked by hand, its     *)
(* entries are its own, and what was admitted within the window is in      *)
(* them: what a check, the clock or the cleanup drops is older.            *)

Batch == FiniteSubsetsOf(Request)
SizedEntry == [requests : Batch, blocked : BOOLEAN, left : Left]

\* What holds of one peer: its tables, what they share, its entries, what it
\* was admitted, what is left of a manual block, and whether there was one.
PeerFacts(inTables, sharing, perKind, letIn, left, byHand) ==
  /\ inTables \subseteq Kinds /\ sharing \subseteq inTables
  /\ perKind \in [Kinds -> SizedEntry] /\ letIn \in [Kinds -> Batch] /\ left \in Left
  /\ left >= 0 =>
       \A k \in Kinds : k \in inTables /\ perKind[k].blocked /\ perKind[k].left = left
  /\ ~ byHand =>
       /\ sharing = {}
       /\ \A k \in Kinds :
            /\ Cardinality(perKind[k].requests) <= MaxRequests[k]
            /\ Younger(letIn[k], Window[k]) \subseteq perKind[k].requests
            /\ k \notin inTables => perKind[k].requests = {}

SecurityIInv ==
  /\ sweeping \in BOOLEAN /\ dropped \subseteq Peers /\ everBlocked \subseteq Peers
  /\ tracked \in [Peers -> SUBSET Kinds] /\ shared \in [Peers -> SUBSET Kinds]
  /\ limits \in [Peers -> [Kinds -> SizedEntry]]
  /\ admitted \in [Peers -> [Kinds -> Batch]]
  /\ manualLeft \in [Peers -> Left]
  /\ \A p \in Peers : PeerFacts(tracked[p], shared[p], limits[p], admitted[p], manualLeft[p],
                                p \in everBlocked)

\* What is left of a block is a whole number, and so it is one moment later.
LEMMA LeftTypes ==
  /\ -1 \in Left /\ Penalty \in Left /\ BlockDurations \subseteq Left
  /\ \A l \in Left : l \in Int /\ LessLeft(l) \in Left
                     /\ (LessLeft(l) >= 0 => l >= 0 /\ LessLeft(l) = l - 1)
<1>1. Durations \subseteq Nat
  BY SecurityAssumption DEF Durations
<1>2. \A d \in Durations : d \in 0..d /\ 0..d \subseteq Left
  BY <1>1 DEF Left
<1>3. ASSUME NEW l \in Left
      PROVE  l \in Int /\ LessLeft(l) \in Left /\ (LessLeft(l) >= 0 => l >= 0 /\ LessLeft(l) = l - 1)
  <2>1. CASE l = -1
    BY <2>1 DEF LessLeft, Left
  <2>2. ASSUME NEW d \in Durations, l \in 0..d
        PROVE  l \in Int /\ LessLeft(l) \in Left /\ (LessLeft(l) >= 0 => l >= 0 /\ LessLeft(l) = l - 1)
    <3>1. d \in Nat /\ 0..d \subseteq Left /\ -1 \in Left
      BY <1>1, <1>2 DEF Left
    <3>2. LessLeft(l) = l - 1 /\ l - 1 \in {-1} \cup 0..d
      BY <2>2, <3>1 DEF LessLeft
    <3> QED
      BY <2>2, <3>1, <3>2
  <2> QED
    BY <2>1, <2>2 DEF Left
<1> QED
  BY <1>2, <1>3 DEF Left, Durations

LEMMA Batches ==
  /\ {} \in Batch
  /\ \A b \in Batch : \A c \in SUBSET b : c \in Batch /\ Cardinality(c) <= Cardinality(b)
  /\ \A b \in Batch : b \subseteq Request /\ IsFiniteSet(b) /\ Cardinality(b) \in Nat
  /\ \A b \in Batch, r \in Request :
       b \cup {r} \in Batch /\ Cardinality(b \cup {r}) <= Cardinality(b) + 1
<1>1. {} \in Batch
  BY FS_EmptySet DEF Batch, FiniteSubsetsOf
<1>2. ASSUME NEW b \in Batch
      PROVE  b \subseteq Request /\ IsFiniteSet(b) /\ Cardinality(b) \in Nat
  BY FS_CardinalityType DEF Batch, FiniteSubsetsOf
<1>3. ASSUME NEW b \in Batch, NEW c \in SUBSET b
      PROVE  c \in Batch /\ Cardinality(c) <= Cardinality(b)
  BY <1>2, FS_Subset DEF Batch, FiniteSubsetsOf
<1>4. ASSUME NEW b \in Batch, NEW r \in Request
      PROVE  b \cup {r} \in Batch /\ Cardinality(b \cup {r}) <= Cardinality(b) + 1
  <2>1. IsFiniteSet(b \cup {r})
        /\ Cardinality(b \cup {r}) = IF r \in b THEN Cardinality(b) ELSE Cardinality(b) + 1
    BY <1>2, FS_AddElement
  <2> QED
    BY <1>2, <2>1 DEF Batch, FiniteSubsetsOf
<1> QED
  BY <1>1, <1>2, <1>3, <1>4

\* A request that is let in is none of those there are: the number exists.
LEMMA AnotherIsNew ==
  ASSUME NEW b \in Batch
  PROVE  Another(b) \in Request /\ Another(b).age = 0 /\ Another(b) \notin b
<1> DEFINE c == Cardinality(b)
           f == [n \in 0..c |-> [age |-> 0, n |-> n]]
<1>1. IsFiniteSet(b) /\ c \in Nat
  BY Batches
<1>2. \E n \in 0..c : [age |-> 0, n |-> n] \notin b
  <2> SUFFICES ASSUME \A n \in 0..c : [age |-> 0, n |-> n] \in b PROVE FALSE
    OBVIOUS
  <2>1. f \in [0..c -> b] /\ \A m, n \in 0..c : f[m] = f[n] => m = n
    <3>1. \A n \in 0..c : f[n] = [age |-> 0, n |-> n] /\ f[n].n = n
      OBVIOUS
    <3> QED
      BY <3>1
  <2> HIDE DEF f, c
  <2>2. f \in Injection(0..c, b)
    BY <2>1 DEF Injection, IsInjective
  <2>3. Cardinality(0..c) <= c
    BY <1>1, <2>2, FS_Injection DEF c
  <2>4. Cardinality(0..c) = c + 1
    BY <1>1, FS_Interval
  <2> QED
    BY <1>1, <2>3, <2>4
<1>3. PICK n \in 0..c : Another(b) = [age |-> 0, n |-> n] /\ [age |-> 0, n |-> n] \notin b
  BY <1>2 DEF Another
<1>4. 0 \in 0..MaxAge /\ n \in Nat
  BY <1>1, SecurityAssumption
<1>5. [age |-> 0, n |-> n] \in Request
  BY <1>4 DEF Request
<1> QED
  BY <1>3, <1>5

LEMMA EntryTypes ==
  /\ NewEntry \in SizedEntry /\ NewEntry.requests = {} /\ NewEntry.left = -1
  /\ \A b \in Batch, l \in Left, blocked \in BOOLEAN :
       [requests |-> b, blocked |-> blocked, left |-> l] \in SizedEntry
  /\ \A e \in SizedEntry : /\ e.requests \in Batch /\ e.blocked \in BOOLEAN /\ e.left \in Left
                           /\ [e EXCEPT !.blocked = FALSE] \in SizedEntry
                           /\ [e EXCEPT !.blocked = FALSE].requests = e.requests
                           /\ [e EXCEPT !.blocked = FALSE].left = e.left
<1>1. {} \in Batch /\ -1 \in Left
  BY Batches, LeftTypes
<1> QED
  BY <1>1 DEF NewEntry, SizedEntry

\* A peer of which nothing is kept.
LEMMA NothingKept == PeerFacts({}, {}, NoEntries, NoRequests, -1, FALSE)
<1>1. NoEntries \in [Kinds -> SizedEntry] /\ NoRequests \in [Kinds -> Batch] /\ -1 \in Left
  BY EntryTypes, Batches, LeftTypes DEF NoEntries, NoRequests
<1>2. \A k \in Kinds : NoEntries[k].requests = {} /\ NoRequests[k] = {}
  BY EntryTypes DEF NoEntries, NoRequests
<1>3. Cardinality({}) = 0 /\ \A k \in Kinds : 0 <= MaxRequests[k]
  BY FS_EmptySet, SecurityAssumption
<1>4. \A k \in Kinds : /\ Cardinality(NoEntries[k].requests) <= MaxRequests[k]
                       /\ Younger(NoRequests[k], Window[k]) = {}
  BY <1>2, <1>3 DEF Younger
<1>5. ~ (-1 >= 0)
  OBVIOUS
<1> QED
  BY <1>1, <1>2, <1>4, <1>5 DEF PeerFacts

LEMMA SecurityInitHolds == SecurityInit => SecurityIInv
<1> SUFFICES ASSUME SecurityInit PROVE SecurityIInv
  OBVIOUS
<1>1. NoEntries \in [Kinds -> SizedEntry] /\ NoRequests \in [Kinds -> Batch] /\ -1 \in Left
  BY EntryTypes, Batches, LeftTypes DEF NoEntries, NoRequests
<1>2. /\ tracked \in [Peers -> SUBSET Kinds] /\ shared \in [Peers -> SUBSET Kinds]
      /\ limits \in [Peers -> [Kinds -> SizedEntry]]
      /\ admitted \in [Peers -> [Kinds -> Batch]]
      /\ manualLeft \in [Peers -> Left]
  BY <1>1 DEF SecurityInit
<1>3. \A p \in Peers : /\ tracked[p] = {} /\ shared[p] = {} /\ limits[p] = NoEntries
                       /\ admitted[p] = NoRequests /\ manualLeft[p] = -1
  BY DEF SecurityInit
<1>4. everBlocked = {} /\ sweeping = FALSE /\ dropped = {}
  BY DEF SecurityInit
<1>5. ASSUME NEW p \in Peers
      PROVE  PeerFacts(tracked[p], shared[p], limits[p], admitted[p], manualLeft[p],
                       p \in everBlocked)
  BY <1>3, <1>4, NothingKept DEF PeerFacts
<1> QED
  BY <1>2, <1>4, <1>5 DEF SecurityIInv

\* A step that touches the tables of one peer only.
LEMMA OnePeer ==
  ASSUME SecurityIInv, NEW p \in Peers,
         sweeping' \in BOOLEAN, dropped' \subseteq Peers, everBlocked' \subseteq Peers,
         \A q \in Peers \ {p} : (q \in everBlocked') = (q \in everBlocked),
         tracked' = [tracked EXCEPT ![p] = tracked'[p]],
         shared' = [shared EXCEPT ![p] = shared'[p]],
         limits' = [limits EXCEPT ![p] = limits'[p]],
         admitted' = [admitted EXCEPT ![p] = admitted'[p]],
         manualLeft' = [manualLeft EXCEPT ![p] = manualLeft'[p]],
         PeerFacts(tracked'[p], shared'[p], limits'[p], admitted'[p], manualLeft'[p],
                   p \in everBlocked')
  PROVE  SecurityIInv'
<1>1. /\ tracked'[p] \in SUBSET Kinds /\ shared'[p] \in SUBSET Kinds
      /\ limits'[p] \in [Kinds -> SizedEntry] /\ admitted'[p] \in [Kinds -> Batch]
      /\ manualLeft'[p] \in Left
  BY DEF PeerFacts
<1>2. /\ tracked' \in [Peers -> SUBSET Kinds] /\ shared' \in [Peers -> SUBSET Kinds]
      /\ limits' \in [Peers -> [Kinds -> SizedEntry]]
      /\ admitted' \in [Peers -> [Kinds -> Batch]]
      /\ manualLeft' \in [Peers -> Left]
  BY <1>1 DEF SecurityIInv
<1>3. ASSUME NEW q \in Peers
      PROVE  PeerFacts(tracked'[q], shared'[q], limits'[q], admitted'[q], manualLeft'[q],
                       q \in everBlocked')
  <2>1. CASE q = p
    BY <2>1
  <2>2. CASE q # p
    <3>1. /\ tracked'[q] = tracked[q] /\ shared'[q] = shared[q] /\ limits'[q] = limits[q]
          /\ admitted'[q] = admitted[q] /\ manualLeft'[q] = manualLeft[q]
          /\ (q \in everBlocked') = (q \in everBlocked)
      BY <2>2 DEF SecurityIInv
    <3>2. PeerFacts(tracked[q], shared[q], limits[q], admitted[q], manualLeft[q], q \in everBlocked)
      BY DEF SecurityIInv
    <3> QED
      BY <3>1, <3>2
  <2> QED
    BY <2>1, <2>2
<1> QED
  BY <1>2, <1>3 DEF SecurityIInv

\* What does not change for the peer may be written as an update.
LEMMA SameForPeer ==
  ASSUME SecurityIInv, NEW p \in Peers
  PROVE  /\ tracked = [tracked EXCEPT ![p] = tracked[p]]
         /\ shared = [shared EXCEPT ![p] = shared[p]]
         /\ limits = [limits EXCEPT ![p] = limits[p]]
         /\ admitted = [admitted EXCEPT ![p] = admitted[p]]
         /\ manualLeft = [manualLeft EXCEPT ![p] = manualLeft[p]]
         /\ PeerFacts(tracked[p], shared[p], limits[p], admitted[p], manualLeft[p],
                      p \in everBlocked)
  BY DEF SecurityIInv

\* One entry, and what shares its object, is rewritten while no manual block is
\* in force; what the new entry counts is what the window asks for.
LEMMA WrittenHolds ==
  ASSUME SecurityIInv, NEW p \in Peers, NEW k \in Kinds, NEW e \in SizedEntry,
         NEW A \in [Kinds -> Batch],
         manualLeft[p] < 0,
         \A j \in Kinds \ {k} : A[j] = admitted[p][j],
         p \notin everBlocked =>
           /\ Cardinality(e.requests) <= MaxRequests[k]
           /\ Younger(A[k], Window[k]) \subseteq e.requests,
         sweeping' \in BOOLEAN, dropped' \subseteq Peers,
         tracked' = [tracked EXCEPT ![p] = tracked[p] \cup {k}],
         limits' = [limits EXCEPT ![p] = Written(p, k, e)],
         admitted' = [admitted EXCEPT ![p] = A],
         UNCHANGED <<shared, manualLeft, everBlocked>>
  PROVE  SecurityIInv'
<1>1. PeerFacts(tracked[p], shared[p], limits[p], admitted[p], manualLeft[p], p \in everBlocked)
  BY SameForPeer
<1>2. /\ Written(p, k, e) \in [Kinds -> SizedEntry]
      /\ Written(p, k, e)[k] = e
      /\ shared[p] = {} => \A j \in Kinds \ {k} : Written(p, k, e)[j] = limits[p][j]
  BY <1>1 DEF Written, PeerFacts
<1>3. manualLeft[p] \in Left /\ ~ (manualLeft[p] >= 0)
  <2>1. manualLeft[p] \in Left
    BY <1>1 DEF PeerFacts
  <2>2. manualLeft[p] \in Int
    BY <2>1, LeftTypes
  <2> QED
    BY <2>1, <2>2
<1>4. ASSUME p \notin everBlocked, NEW j \in Kinds
      PROVE  /\ Cardinality(Written(p, k, e)[j].requests) <= MaxRequests[j]
             /\ Younger(A[j], Window[j]) \subseteq Written(p, k, e)[j].requests
             /\ j \notin tracked[p] \cup {k} => Written(p, k, e)[j].requests = {}
  <2>1. CASE j = k
    BY <1>2, <1>4, <2>1
  <2>2. CASE j # k
    BY <1>1, <1>2, <1>4, <2>2 DEF PeerFacts
  <2> QED
    BY <2>1, <2>2
<1>5. PeerFacts(tracked[p] \cup {k}, shared[p], Written(p, k, e), A, manualLeft[p],
                p \in everBlocked)
  BY <1>1, <1>2, <1>3, <1>4 DEF PeerFacts
<1>6. /\ tracked'[p] = tracked[p] \cup {k} /\ shared'[p] = shared[p]
      /\ limits'[p] = Written(p, k, e) /\ admitted'[p] = A /\ manualLeft'[p] = manualLeft[p]
  BY DEF SecurityIInv
<1>7. PeerFacts(tracked'[p], shared'[p], limits'[p], admitted'[p], manualLeft'[p],
                p \in everBlocked')
  BY <1>5, <1>6 DEF PeerFacts
<1>8. /\ shared' = [shared EXCEPT ![p] = shared'[p]]
      /\ manualLeft' = [manualLeft EXCEPT ![p] = manualLeft'[p]]
      /\ everBlocked' = everBlocked /\ everBlocked' \subseteq Peers
  BY SameForPeer DEF SecurityIInv
<1> QED
  BY <1>6, <1>7, <1>8, OnePeer

\* A check, or a question, that finds no block in force finds no manual one.
LEMMA NotHeldBack ==
  ASSUME SecurityIInv, NEW p \in Peers, NEW k \in Kinds, ~ InForce(limits[p][k])
  PROVE  manualLeft[p] < 0
<1>1. PeerFacts(tracked[p], shared[p], limits[p], admitted[p], manualLeft[p], p \in everBlocked)
  BY SameForPeer
<1>2. /\ manualLeft[p] \in Left
      /\ manualLeft[p] >= 0 => limits[p][k].blocked /\ limits[p][k].left = manualLeft[p]
  BY <1>1 DEF PeerFacts
<1>3. manualLeft[p] \in Int
  BY <1>2, LeftTypes
<1> QED
  BY <1>2, <1>3 DEF InForce

\* What a check still counts.
LEMMA RecentCounts ==
  ASSUME SecurityIInv, NEW p \in Peers, NEW k \in Kinds
  PROVE  /\ limits[p][k] \in SizedEntry /\ admitted[p] \in [Kinds -> Batch]
         /\ Recent(p, k) \in Batch /\ Cardinality(Recent(p, k)) \in Nat
         /\ Cardinality(Recent(p, k)) <= Cardinality(limits[p][k].requests)
         /\ p \notin everBlocked =>
              /\ Cardinality(limits[p][k].requests) <= MaxRequests[k]
              /\ Cardinality(Recent(p, k)) <= MaxRequests[k]
              /\ Younger(admitted[p][k], Window[k]) \subseteq Recent(p, k)
<1>1. PeerFacts(tracked[p], shared[p], limits[p], admitted[p], manualLeft[p], p \in everBlocked)
  BY SameForPeer
<1>2. /\ limits[p][k] \in SizedEntry /\ admitted[p] \in [Kinds -> Batch]
      /\ limits[p][k].requests \in Batch
  BY <1>1, EntryTypes DEF PeerFacts
<1>3. Recent(p, k) \subseteq limits[p][k].requests
  BY DEF Recent, Younger
<1>4. /\ Recent(p, k) \in Batch
      /\ Cardinality(Recent(p, k)) <= Cardinality(limits[p][k].requests)
  BY <1>2, <1>3, Batches
<1>5. /\ Cardinality(Recent(p, k)) \in Nat /\ Cardinality(limits[p][k].requests) \in Nat
      /\ MaxRequests[k] \in Nat
  BY <1>2, <1>4, Batches, SecurityAssumption
<1>6. p \notin everBlocked =>
        /\ Cardinality(limits[p][k].requests) <= MaxRequests[k]
        /\ Younger(admitted[p][k], Window[k]) \subseteq Recent(p, k)
  BY <1>1 DEF PeerFacts, Younger, Recent
<1> QED
  BY <1>2, <1>4, <1>5, <1>6

LEMMA AllowHolds ==
  ASSUME SecurityIInv, NEW p \in Peers, NEW k \in Kinds, Allow(p, k)
  PROVE  SecurityIInv'
<1> DEFINE b == Recent(p, k)
           r == Another(b \cup admitted[p][k])
           e == [requests |-> b \cup {r}, blocked |-> FALSE, left |-> -1]
           A == [admitted[p] EXCEPT ![k] = @ \cup {r}]
<1>1. b \in Batch /\ admitted[p] \in [Kinds -> Batch] /\ admitted[p][k] \in Batch
      /\ (p \notin everBlocked => Younger(admitted[p][k], Window[k]) \subseteq b)
  BY RecentCounts
<1>2. Cardinality(b) < MaxRequests[k] /\ Cardinality(b) \in Nat /\ MaxRequests[k] \in Nat
  BY <1>1, Batches, SecurityAssumption DEF Allow
<1>3. r \in Request
  <2>1. b \cup admitted[p][k] \in Batch
    <3>1. IsFiniteSet(b \cup admitted[p][k])
      BY <1>1, Batches, FS_Union
    <3> QED
      BY <1>1, <3>1, Batches DEF Batch, FiniteSubsetsOf
  <2> QED
    BY <2>1, AnotherIsNew
<1>4. b \cup {r} \in Batch /\ Cardinality(b \cup {r}) <= MaxRequests[k]
  <2>1. b \cup {r} \in Batch /\ Cardinality(b \cup {r}) <= Cardinality(b) + 1
    BY <1>1, <1>3, Batches
  <2>2. Cardinality(b \cup {r}) \in Nat
    BY <2>1, Batches
  <2> QED
    BY <1>2, <2>1, <2>2
<1>5. e \in SizedEntry /\ e.requests = b \cup {r}
  BY <1>4, EntryTypes, LeftTypes
<1>6. A \in [Kinds -> Batch] /\ A[k] = admitted[p][k] \cup {r}
      /\ \A j \in Kinds \ {k} : A[j] = admitted[p][j]
  <2>1. admitted[p][k] \cup {r} \in Batch
    BY <1>1, <1>3, Batches
  <2> QED
    BY <1>1, <2>1
<1>7. p \notin everBlocked => Younger(A[k], Window[k]) \subseteq e.requests
  BY <1>1, <1>5, <1>6 DEF Younger
<1>8. /\ tracked' = [tracked EXCEPT ![p] = tracked[p] \cup {k}]
      /\ limits' = [limits EXCEPT ![p] = Written(p, k, e)]
      /\ admitted' = [admitted EXCEPT ![p] = A]
      /\ UNCHANGED <<sweeping, shared, dropped, manualLeft, everBlocked>>
      /\ ~ InForce(limits[p][k])
  BY DEF Allow, SecurityIInv
<1> HIDE DEF b, r, e, A
<1>9. manualLeft[p] < 0 /\ sweeping' \in BOOLEAN /\ dropped' \subseteq Peers
  BY <1>8, NotHeldBack DEF SecurityIInv
<1> QED
  BY <1>4, <1>5, <1>6, <1>7, <1>8, <1>9, WrittenHolds

LEMMA RefuseHolds ==
  ASSUME SecurityIInv, NEW p \in Peers, NEW k \in Kinds, Refuse(p, k)
  PROVE  SecurityIInv'
<1>1. /\ tracked' = [tracked EXCEPT ![p] = tracked[p] \cup {k}]
      /\ UNCHANGED <<sweeping, shared, admitted, manualLeft, everBlocked>>
      /\ sweeping' \in BOOLEAN /\ dropped' \subseteq Peers
  BY DEF Refuse, SecurityIInv, historyVars
<1>2. CASE InForce(limits[p][k])
  <2>1. limits' = limits
    BY <1>2 DEF Refuse
  <2>2. PeerFacts(tracked[p], shared[p], limits[p], admitted[p], manualLeft[p], p \in everBlocked)
    BY SameForPeer
  <2>3. PeerFacts(tracked[p] \cup {k}, shared[p], limits[p], admitted[p], manualLeft[p],
                  p \in everBlocked)
    BY <2>2 DEF PeerFacts
  <2>4. tracked'[p] = tracked[p] \cup {k}
    BY <1>1 DEF SecurityIInv
  <2>5. PeerFacts(tracked'[p], shared'[p], limits'[p], admitted'[p], manualLeft'[p],
                  p \in everBlocked')
    BY <1>1, <2>1, <2>3, <2>4 DEF PeerFacts
  <2>6. /\ shared' = [shared EXCEPT ![p] = shared'[p]]
        /\ limits' = [limits EXCEPT ![p] = limits'[p]]
        /\ admitted' = [admitted EXCEPT ![p] = admitted'[p]]
        /\ manualLeft' = [manualLeft EXCEPT ![p] = manualLeft'[p]]
        /\ everBlocked' \subseteq Peers
    BY <1>1, <2>1, SameForPeer DEF SecurityIInv
  <2> QED
    BY <1>1, <2>4, <2>5, <2>6, OnePeer
<1>3. CASE ~ InForce(limits[p][k])
  <2> DEFINE e == [requests |-> Recent(p, k), blocked |-> TRUE, left |-> Penalty]
  <2>1. Recent(p, k) \in Batch /\ admitted[p] \in [Kinds -> Batch]
    BY RecentCounts
  <2>2. e \in SizedEntry /\ e.requests = Recent(p, k)
    BY <2>1, EntryTypes, LeftTypes
  <2>3. limits' = [limits EXCEPT ![p] = Written(p, k, e)]
    BY <1>3 DEF Refuse
  <2> HIDE DEF e
  <2>4. manualLeft[p] < 0 /\ admitted' = [admitted EXCEPT ![p] = admitted[p]]
    BY <1>1, <1>3, NotHeldBack, SameForPeer
  <2>5. p \notin everBlocked =>
          /\ Cardinality(e.requests) <= MaxRequests[k]
          /\ Younger(admitted[p][k], Window[k]) \subseteq e.requests
    BY <2>2, RecentCounts
  <2> QED
    BY <1>1, <2>1, <2>2, <2>3, <2>4, <2>5, WrittenHolds
<1> QED
  BY <1>2, <1>3

LEMMA IsBlockedHolds ==
  ASSUME SecurityIInv, NEW p \in Peers, IsBlocked(p)
  PROVE  SecurityIInv'
<1>1. PICK k \in tracked[p] :
        /\ ~ InForce(limits[p][k])
        /\ limits' = [limits EXCEPT
             ![p] = Written(p, k, [limits[p][k] EXCEPT !.blocked = FALSE])]
        /\ UNCHANGED <<sweeping, tracked, shared, dropped, admitted, manualLeft, everBlocked>>
  BY DEF IsBlocked, historyVars
<1>2. k \in Kinds /\ tracked[p] \cup {k} = tracked[p]
  BY DEF SecurityIInv
<1> DEFINE e == [limits[p][k] EXCEPT !.blocked = FALSE]
<1>3. e \in SizedEntry /\ e.requests = limits[p][k].requests /\ admitted[p] \in [Kinds -> Batch]
  BY <1>2, RecentCounts, EntryTypes
<1>4. limits' = [limits EXCEPT ![p] = Written(p, k, e)]
  BY <1>1
<1> HIDE DEF e
<1>5. p \notin everBlocked =>
        /\ Cardinality(e.requests) <= MaxRequests[k]
        /\ Younger(admitted[p][k], Window[k]) \subseteq e.requests
  BY <1>2, <1>3, RecentCounts DEF Recent, Younger
<1>6. /\ tracked' = [tracked EXCEPT ![p] = tracked[p] \cup {k}]
      /\ admitted' = [admitted EXCEPT ![p] = admitted[p]]
      /\ manualLeft[p] < 0 /\ sweeping' \in BOOLEAN /\ dropped' \subseteq Peers
  BY <1>1, <1>2, SameForPeer, NotHeldBack DEF SecurityIInv
<1> QED
  BY <1>1, <1>2, <1>3, <1>4, <1>5, <1>6, WrittenHolds

\* A peer whose tables, block and history are written afresh.
LEMMA AfreshHolds ==
  ASSUME SecurityIInv, NEW p \in Peers,
         tracked' = [tracked EXCEPT ![p] = tracked'[p]],
         shared' = [shared EXCEPT ![p] = shared'[p]],
         limits' = [limits EXCEPT ![p] = limits'[p]],
         admitted' = [admitted EXCEPT ![p] = admitted'[p]],
         manualLeft' = [manualLeft EXCEPT ![p] = manualLeft'[p]],
         everBlocked' = everBlocked \cup {p} \/ everBlocked' = everBlocked \ {p},
         UNCHANGED <<sweeping, dropped>>,
         PeerFacts(tracked'[p], shared'[p], limits'[p], admitted'[p], manualLeft'[p],
                   p \in everBlocked')
  PROVE  SecurityIInv'
<1>1. sweeping' \in BOOLEAN /\ dropped' \subseteq Peers /\ everBlocked' \subseteq Peers
  BY DEF SecurityIInv
<1>2. \A q \in Peers \ {p} : (q \in everBlocked') = (q \in everBlocked)
  OBVIOUS
<1> QED
  BY <1>1, <1>2, OnePeer

LEMMA BlockHolds ==
  ASSUME SecurityIInv, NEW p \in Peers, NEW d \in BlockDurations, BlockPeer(p, d)
  PROVE  SecurityIInv'
<1> DEFINE E == [k \in Kinds |-> [requests |-> {}, blocked |-> TRUE, left |-> d]]
<1>1. d \in Left /\ {} \in Batch
  BY LeftTypes, Batches
<1>2. E \in [Kinds -> SizedEntry] /\ \A k \in Kinds : E[k].blocked /\ E[k].left = d
  BY <1>1, EntryTypes
<1>3. /\ tracked'[p] = Kinds /\ shared'[p] = Kinds /\ limits'[p] = E
      /\ admitted' = admitted /\ manualLeft'[p] = d /\ p \in everBlocked'
  BY DEF BlockPeer, SecurityIInv
<1>4. admitted[p] \in [Kinds -> Batch]
  BY DEF SecurityIInv
<1> HIDE DEF E
<1>5. PeerFacts(tracked'[p], shared'[p], limits'[p], admitted'[p], manualLeft'[p],
                p \in everBlocked')
  BY <1>1, <1>2, <1>3, <1>4 DEF PeerFacts
<1>6. /\ tracked' = [tracked EXCEPT ![p] = tracked'[p]]
      /\ shared' = [shared EXCEPT ![p] = shared'[p]]
      /\ limits' = [limits EXCEPT ![p] = limits'[p]]
      /\ manualLeft' = [manualLeft EXCEPT ![p] = manualLeft'[p]]
      /\ everBlocked' = everBlocked \cup {p} /\ UNCHANGED <<sweeping, dropped>>
  BY <1>3 DEF BlockPeer, E
<1>7. admitted' = [admitted EXCEPT ![p] = admitted'[p]]
  BY <1>3, SameForPeer
<1> QED
  BY <1>5, <1>6, <1>7, AfreshHolds

LEMMA UnblockHolds ==
  ASSUME SecurityIInv, NEW p \in Peers, UnblockPeer(p)
  PROVE  SecurityIInv'
<1>1. /\ tracked'[p] = {} /\ shared'[p] = {} /\ limits'[p] = NoEntries
      /\ admitted'[p] = NoRequests /\ manualLeft'[p] = -1 /\ p \notin everBlocked'
  BY DEF UnblockPeer, SecurityIInv
<1>2. PeerFacts(tracked'[p], shared'[p], limits'[p], admitted'[p], manualLeft'[p],
                p \in everBlocked')
  BY <1>1, NothingKept DEF PeerFacts
<1>3. /\ tracked' = [tracked EXCEPT ![p] = tracked'[p]]
      /\ shared' = [shared EXCEPT ![p] = shared'[p]]
      /\ limits' = [limits EXCEPT ![p] = limits'[p]]
      /\ admitted' = [admitted EXCEPT ![p] = admitted'[p]]
      /\ manualLeft' = [manualLeft EXCEPT ![p] = manualLeft'[p]]
      /\ everBlocked' = everBlocked \ {p} /\ UNCHANGED <<sweeping, dropped>>
  BY <1>1 DEF UnblockPeer
<1> QED
  BY <1>2, <1>3, AfreshHolds

\* A request grows older and stays one; the clock adds none, and what is then
\* within a window was so before.
LEMMA OlderBatches ==
  /\ \A r \in Request : Aged(r) \in Request
  /\ \A b \in Batch : Older(b) \in Batch /\ Cardinality(Older(b)) <= Cardinality(b)
  /\ \A k \in Kinds, r \in Request : Aged(r).age < Window[k] => r.age < Window[k]
<1>1. MaxAge \in Nat /\ \A k \in Kinds : Window[k] \in Nat /\ 2 * Window[k] < MaxAge
  BY SecurityAssumption
<1>2. ASSUME NEW r \in Request
      PROVE  Aged(r) \in Request /\ \A k \in Kinds : Aged(r).age < Window[k] => r.age < Window[k]
  <2>1. r.age \in 0..MaxAge /\ r.n \in Nat /\ r = [age |-> r.age, n |-> r.n]
    BY DEF Request
  <2>2. CASE r.age < MaxAge
    <3>1. Aged(r) = [age |-> r.age + 1, n |-> r.n]
      BY <2>1, <2>2 DEF Aged
    <3>2. r.age + 1 \in 0..MaxAge
      BY <1>1, <2>1, <2>2
    <3>3. Aged(r).age = r.age + 1
      BY <3>1
    <3>4. Aged(r) \in Request
      BY <2>1, <3>1, <3>2 DEF Request
    <3>5. \A k \in Kinds : r.age + 1 < Window[k] => r.age < Window[k]
      BY <1>1, <2>1
    <3> QED
      BY <3>3, <3>4, <3>5
  <2>3. CASE ~ (r.age < MaxAge)
    BY <2>3 DEF Aged
  <2> QED
    BY <2>2, <2>3
<1>3. ASSUME NEW b \in Batch
      PROVE  Older(b) \in Batch /\ Cardinality(Older(b)) <= Cardinality(b)
  <2> DEFINE f == [r \in b |-> Aged(r)]
  <2>1. b \subseteq Request /\ IsFiniteSet(b)
    BY Batches
  <2>2. f \in Surjection(b, Older(b))
    BY DEF Surjection, Older
  <2>3. IsFiniteSet(Older(b)) /\ Cardinality(Older(b)) <= Cardinality(b)
    BY <2>1, <2>2, FS_Surjection
  <2>4. Older(b) \subseteq Request
    BY <1>2, <2>1 DEF Older
  <2> QED
    BY <2>3, <2>4 DEF Batch, FiniteSubsetsOf
<1> QED
  BY <1>2, <1>3

\* Time for one peer.
LEMMA TimeForPeer ==
  ASSUME SecurityIInv, TimePasses, NEW p \in Peers
  PROVE  PeerFacts(tracked'[p], shared'[p], limits'[p], admitted'[p], manualLeft'[p],
                   p \in everBlocked')
<1>1. PeerFacts(tracked[p], shared[p], limits[p], admitted[p], manualLeft[p], p \in everBlocked)
  BY SameForPeer
<1>2. /\ tracked' = tracked /\ shared' = shared /\ everBlocked' = everBlocked
      /\ manualLeft'[p] = LessLeft(manualLeft[p])
      /\ limits'[p] = [k \in Kinds |-> [limits[p][k] EXCEPT !.requests = Older(@), !.left = LessLeft(@)]]
      /\ admitted'[p] = [k \in Kinds |-> Younger(Older(admitted[p][k]), Window[k])]
  BY DEF TimePasses
<1>3. ASSUME NEW k \in Kinds
      PROVE  /\ limits[p][k] \in SizedEntry /\ admitted[p][k] \in Batch
             /\ limits'[p][k] \in SizedEntry
             /\ limits'[p][k].requests = Older(limits[p][k].requests)
             /\ limits'[p][k].blocked = limits[p][k].blocked
             /\ limits'[p][k].left = LessLeft(limits[p][k].left)
             /\ admitted'[p][k] \in Batch
             /\ Cardinality(limits'[p][k].requests) <= Cardinality(limits[p][k].requests)
             /\ Cardinality(limits[p][k].requests) \in Nat
             /\ Cardinality(limits'[p][k].requests) \in Nat
  <2>1. /\ limits[p][k] \in SizedEntry /\ admitted[p][k] \in Batch
        /\ limits[p][k].requests \in Batch /\ limits[p][k].left \in Left
    BY <1>1, EntryTypes DEF PeerFacts
  <2>2. /\ Older(limits[p][k].requests) \in Batch /\ Older(admitted[p][k]) \in Batch
        /\ Cardinality(Older(limits[p][k].requests)) <= Cardinality(limits[p][k].requests)
        /\ LessLeft(limits[p][k].left) \in Left
    BY <2>1, OlderBatches, LeftTypes
  <2>3. /\ limits'[p][k].requests = Older(limits[p][k].requests)
        /\ limits'[p][k].blocked = limits[p][k].blocked
        /\ limits'[p][k].left = LessLeft(limits[p][k].left)
        /\ limits'[p][k] \in SizedEntry
    <3>1. limits'[p][k] = [limits[p][k] EXCEPT !.requests = Older(@), !.left = LessLeft(@)]
      BY <1>2
    <3>2. limits'[p][k] = [requests |-> Older(limits[p][k].requests),
                           blocked |-> limits[p][k].blocked,
                           left |-> LessLeft(limits[p][k].left)]
      BY <2>1, <3>1 DEF SizedEntry
    <3> QED
      BY <2>1, <2>2, <3>2 DEF SizedEntry
  <2>4. admitted'[p][k] \in Batch
    <3>1. admitted'[p][k] \subseteq Older(admitted[p][k])
      BY <1>2 DEF Younger
    <3> QED
      BY <2>2, <3>1, Batches
  <2> QED
    BY <2>1, <2>2, <2>3, <2>4, Batches
<1>4. limits'[p] \in [Kinds -> SizedEntry] /\ admitted'[p] \in [Kinds -> Batch]
      /\ manualLeft'[p] \in Left /\ manualLeft[p] \in Left
  <2>1. manualLeft[p] \in Left
    BY <1>1 DEF PeerFacts
  <2>2. manualLeft'[p] \in Left
    BY <1>2, <2>1, LeftTypes
  <2>3. limits'[p] = [k \in Kinds |-> limits'[p][k]]
        /\ admitted'[p] = [k \in Kinds |-> admitted'[p][k]]
    BY <1>2
  <2> QED
    BY <1>3, <2>1, <2>2, <2>3
<1>5. ASSUME manualLeft'[p] >= 0, NEW k \in Kinds
      PROVE  k \in tracked'[p] /\ limits'[p][k].blocked /\ limits'[p][k].left = manualLeft'[p]
  <2>1. manualLeft'[p] = LessLeft(manualLeft[p]) /\ tracked' = tracked
    BY <1>2
  <2>2. manualLeft[p] >= 0
    BY <1>4, <1>5, <2>1, LeftTypes
  <2>3. k \in tracked[p] /\ limits[p][k].blocked /\ limits[p][k].left = manualLeft[p]
    BY <1>1, <2>2 DEF PeerFacts
  <2>4. limits'[p][k].blocked = limits[p][k].blocked
        /\ limits'[p][k].left = LessLeft(limits[p][k].left)
    BY <1>3
  <2> QED
    BY <2>1, <2>3, <2>4
<1>6. ASSUME p \notin everBlocked, NEW k \in Kinds
      PROVE  /\ Cardinality(limits'[p][k].requests) <= MaxRequests[k]
             /\ Younger(admitted'[p][k], Window[k]) \subseteq limits'[p][k].requests
             /\ k \notin tracked'[p] => limits'[p][k].requests = {}
  <2>1. /\ Cardinality(limits[p][k].requests) <= MaxRequests[k]
        /\ Younger(admitted[p][k], Window[k]) \subseteq limits[p][k].requests
        /\ k \notin tracked[p] => limits[p][k].requests = {}
    BY <1>1, <1>6 DEF PeerFacts
  <2>2. MaxRequests[k] \in Nat
    BY SecurityAssumption
  <2>3. ASSUME NEW q \in Younger(admitted'[p][k], Window[k])
        PROVE  q \in limits'[p][k].requests
    <3>1. q \in Older(admitted[p][k]) /\ q.age < Window[k]
      BY <1>2, <2>3 DEF Younger
    <3>2. PICK r \in admitted[p][k] : q = Aged(r)
      BY <3>1 DEF Older
    <3>3. r \in Request
      BY <1>3, Batches
    <3>4. r \in limits[p][k].requests
      BY <2>1, <3>1, <3>2, <3>3, OlderBatches DEF Younger
    <3> QED
      BY <1>3, <3>2, <3>4 DEF Older
  <2>4. Cardinality(limits'[p][k].requests) <= MaxRequests[k]
    BY <1>3, <2>1, <2>2
  <2>5. k \notin tracked'[p] => limits'[p][k].requests = {}
    BY <1>2, <1>3, <2>1 DEF Older
  <2> QED
    BY <2>3, <2>4, <2>5
<1>7. tracked'[p] \subseteq Kinds /\ shared'[p] \subseteq tracked'[p]
      /\ (p \notin everBlocked => shared'[p] = {})
  BY <1>1, <1>2 DEF PeerFacts
<1>8. p \in everBlocked' <=> p \in everBlocked
  BY <1>2
<1> QED
  BY <1>4, <1>5, <1>6, <1>7, <1>8 DEF PeerFacts

LEMMA TimeHolds == ASSUME SecurityIInv, TimePasses PROVE SecurityIInv'
<1>1. \A p \in Peers : PeerFacts(tracked'[p], shared'[p], limits'[p], admitted'[p],
                                manualLeft'[p], p \in everBlocked')
  BY TimeForPeer
<1>2. /\ limits' = [p \in Peers |-> limits'[p]] /\ admitted' = [p \in Peers |-> admitted'[p]]
      /\ manualLeft' = [p \in Peers |-> manualLeft'[p]]
      /\ UNCHANGED <<sweeping, tracked, shared, dropped, everBlocked>>
  BY DEF TimePasses
<1>3. \A p \in Peers : /\ limits'[p] \in [Kinds -> SizedEntry]
                       /\ admitted'[p] \in [Kinds -> Batch] /\ manualLeft'[p] \in Left
  BY <1>1 DEF PeerFacts
<1>4. limits' \in [Peers -> [Kinds -> SizedEntry]] /\ admitted' \in [Peers -> [Kinds -> Batch]]
      /\ manualLeft' \in [Peers -> Left]
  BY <1>2, <1>3
<1> QED
  BY <1>1, <1>2, <1>4 DEF SecurityIInv

\* Cleanup for one peer: what it drops is beyond the window.
LEMMA CleanupForPeer ==
  ASSUME SecurityIInv, Cleanup, NEW p \in Peers
  PROVE  PeerFacts(tracked'[p], shared'[p], limits'[p], admitted'[p], manualLeft'[p],
                   p \in everBlocked')
<1>1. PeerFacts(tracked[p], shared[p], limits[p], admitted[p], manualLeft[p], p \in everBlocked)
  BY SameForPeer
<1>2. /\ tracked'[p] = {k \in tracked[p] : ~ Idle(p, k)}
      /\ shared'[p] = {k \in shared[p] : ~ Idle(p, k)}
      /\ limits'[p] = [k \in Kinds |->
           IF k \in tracked[p] /\ ~ Idle(p, k) THEN limits[p][k] ELSE NewEntry]
      /\ admitted' = admitted /\ manualLeft' = manualLeft /\ everBlocked' = everBlocked
  BY DEF Cleanup, historyVars
<1>3. NewEntry \in SizedEntry /\ NewEntry.requests = {} /\ Cardinality({}) = 0
  BY EntryTypes, FS_EmptySet
<1>4. limits'[p] \in [Kinds -> SizedEntry]
  BY <1>1, <1>2, <1>3 DEF PeerFacts
<1>5. ASSUME manualLeft[p] >= 0, NEW k \in Kinds
      PROVE  k \in tracked'[p] /\ limits'[p][k].blocked /\ limits'[p][k].left = manualLeft[p]
  <2>1. k \in tracked[p] /\ limits[p][k].blocked /\ limits[p][k].left = manualLeft[p]
    BY <1>1, <1>5 DEF PeerFacts
  <2>2. ~ Idle(p, k)
    BY <2>1 DEF Idle
  <2> QED
    BY <1>2, <2>1, <2>2
<1>6. ASSUME p \notin everBlocked, NEW k \in Kinds
      PROVE  /\ Cardinality(limits'[p][k].requests) <= MaxRequests[k]
             /\ Younger(admitted[p][k], Window[k]) \subseteq limits'[p][k].requests
             /\ k \notin tracked'[p] => limits'[p][k].requests = {}
  <2>1. /\ Cardinality(limits[p][k].requests) <= MaxRequests[k]
        /\ Younger(admitted[p][k], Window[k]) \subseteq limits[p][k].requests
        /\ k \notin tracked[p] => limits[p][k].requests = {}
        /\ limits[p][k] \in SizedEntry
    BY <1>1, <1>6 DEF PeerFacts
  <2>2. CASE k \in tracked[p] /\ ~ Idle(p, k)
    BY <1>2, <2>1, <2>2
  <2>3. CASE ~ (k \in tracked[p] /\ ~ Idle(p, k))
    <3>1. limits'[p][k].requests = {} /\ 0 <= MaxRequests[k]
      BY <1>2, <1>3, <2>3, SecurityAssumption
    <3>2. Younger(admitted[p][k], Window[k]) = {}
      <4>1. CASE k \notin tracked[p]
        BY <2>1, <4>1
      <4>2. ASSUME Idle(p, k), NEW r \in Younger(admitted[p][k], Window[k])
            PROVE  FALSE
        <5>1. r \in limits[p][k].requests /\ r.age < Window[k]
          BY <2>1, <4>2 DEF Younger
        <5>2. r.age > 2 * Window[k]
          BY <4>2, <5>1 DEF Idle
        <5>3. limits[p][k].requests \in Batch
          BY <2>1, EntryTypes
        <5>4. r.age \in Nat /\ Window[k] \in Nat
          BY <5>1, <5>3, Batches, SecurityAssumption DEF Request
        <5> QED
          BY <5>1, <5>2, <5>4
      <4> QED
        BY <2>3, <4>1, <4>2
    <3> QED
      BY <1>3, <3>1, <3>2
  <2> QED
    BY <2>2, <2>3
<1>7. tracked'[p] \subseteq Kinds /\ shared'[p] \subseteq tracked'[p]
      /\ admitted[p] \in [Kinds -> Batch] /\ manualLeft[p] \in Left
      /\ (p \notin everBlocked => shared'[p] = {})
  BY <1>1, <1>2 DEF PeerFacts
<1>8. p \in everBlocked' <=> p \in everBlocked
  BY <1>2
<1> QED
  BY <1>2, <1>4, <1>5, <1>6, <1>7, <1>8 DEF PeerFacts

LEMMA CleanupHolds == ASSUME SecurityIInv, Cleanup PROVE SecurityIInv'
<1>1. \A p \in Peers : PeerFacts(tracked'[p], shared'[p], limits'[p], admitted'[p],
                                manualLeft'[p], p \in everBlocked')
  BY CleanupForPeer
<1>2. /\ tracked' = [p \in Peers |-> tracked'[p]] /\ shared' = [p \in Peers |-> shared'[p]]
      /\ limits' = [p \in Peers |-> limits'[p]]
      /\ UNCHANGED <<sweeping, dropped, admitted, manualLeft, everBlocked>>
  BY DEF Cleanup, historyVars
<1>3. \A p \in Peers : /\ tracked'[p] \in SUBSET Kinds /\ shared'[p] \in SUBSET Kinds
                       /\ limits'[p] \in [Kinds -> SizedEntry]
  BY <1>1 DEF PeerFacts
<1>4. /\ tracked' \in [Peers -> SUBSET Kinds] /\ shared' \in [Peers -> SUBSET Kinds]
      /\ limits' \in [Peers -> [Kinds -> SizedEntry]]
  BY <1>2, <1>3
<1> QED
  BY <1>1, <1>2, <1>4 DEF SecurityIInv

LEMMA StopSecurityHolds == ASSUME SecurityIInv, StopSecurity PROVE SecurityIInv'
<1>1. NoEntries \in [Kinds -> SizedEntry] /\ NoRequests \in [Kinds -> Batch] /\ -1 \in Left
  BY NothingKept DEF PeerFacts
<1>2. \A p \in Peers : PeerFacts(tracked'[p], shared'[p], limits'[p], admitted'[p],
                                manualLeft'[p], p \in everBlocked')
  BY NothingKept DEF StopSecurity, PeerFacts
<1> QED
  BY <1>1, <1>2 DEF SecurityIInv, StopSecurity

LEMMA SecurityStepHolds ==
  SecurityIInv /\ [SecurityNext]_securityVars => SecurityIInv'
<1> SUFFICES ASSUME SecurityIInv, [SecurityNext]_securityVars PROVE SecurityIInv'
  OBVIOUS
<1>1. ASSUME NEW p \in Peers, NEW k \in Kinds, Allow(p, k) \/ Refuse(p, k)
      PROVE  SecurityIInv'
  BY <1>1, AllowHolds, RefuseHolds
<1>2. ASSUME NEW p \in Peers, IsBlocked(p) \/ UnblockPeer(p)
      PROVE  SecurityIInv'
  BY <1>2, IsBlockedHolds, UnblockHolds
<1>3. ASSUME NEW p \in Peers, NEW d \in BlockDurations, BlockPeer(p, d)
      PROVE  SecurityIInv'
  BY <1>3, BlockHolds
<1>4. ASSUME NEW p \in Peers, DropInvalid(p)
      PROVE  SecurityIInv'
  BY <1>4 DEF DropInvalid, entryVars, historyVars, SecurityIInv
<1>5. CASE TimePasses
  BY <1>5, TimeHolds
<1>6. CASE StartCleanup
  BY <1>6 DEF StartCleanup, entryVars, historyVars, SecurityIInv
<1>7. CASE StopSecurity
  BY <1>7, StopSecurityHolds
<1>8. CASE Cleanup
  BY <1>8, CleanupHolds
<1>9. CASE UNCHANGED securityVars
  BY <1>9 DEF securityVars, entryVars, historyVars, SecurityIInv
<1> QED
  BY <1>1, <1>2, <1>3, <1>4, <1>5, <1>6, <1>7, <1>8, <1>9 DEF SecurityNext

LEMMA SecurityInvariant == SecuritySpec => []SecurityIInv
<1>1. SecurityInit => SecurityIInv
  BY SecurityInitHolds
<1>2. SecurityIInv /\ [SecurityNext]_securityVars => SecurityIInv'
  BY SecurityStepHolds
<1> QED
  BY <1>1, <1>2, PTL DEF SecuritySpec

\* The promise of ManualBlockHolds, whatever the durations, the windows, the
\* limits and the order in which the tables are asked.
LEMMA HeldBack == SecurityIInv => ManualBlockHolds
<1> SUFFICES ASSUME SecurityIInv, NEW p \in Peers, manualLeft[p] >= 0, NEW k \in Kinds
             PROVE  k \in tracked[p] /\ InForce(limits[p][k])
  BY DEF ManualBlockHolds
<1> QED
  BY SameForPeer DEF PeerFacts, InForce

\* What was let in within the window is in the entry, which holds no more than
\* the limit.
LEMMA WithinWindow == SecurityIInv => WindowLimit
<1> SUFFICES ASSUME SecurityIInv, NEW p \in Peers \ everBlocked, NEW k \in Kinds
             PROVE  Cardinality(Younger(admitted[p][k], Window[k])) <= MaxRequests[k]
  BY DEF WindowLimit
<1> DEFINE b == limits[p][k].requests
           c == Younger(admitted[p][k], Window[k])
<1>1. b \in Batch /\ c \subseteq b /\ Cardinality(b) <= MaxRequests[k]
  <2>1. PeerFacts(tracked[p], shared[p], limits[p], admitted[p], manualLeft[p], FALSE)
    BY SameForPeer DEF PeerFacts
  <2>2. limits[p][k] \in SizedEntry /\ c \subseteq b /\ Cardinality(b) <= MaxRequests[k]
    BY <2>1 DEF PeerFacts
  <2> QED
    BY <2>2, EntryTypes
<1> HIDE DEF b, c
<1>2. c \in Batch /\ Cardinality(c) <= Cardinality(b)
  BY <1>1, Batches
<1>3. Cardinality(b) \in Nat /\ Cardinality(c) \in Nat /\ MaxRequests[k] \in Nat
  BY <1>1, <1>2, Batches, SecurityAssumption
<1>4. Cardinality(c) <= MaxRequests[k]
  BY <1>1, <1>2, <1>3
<1> QED
  BY <1>4 DEF c

LEMMA SecurityTyped == SecurityIInv => SecurityTypeOK
<1> SUFFICES ASSUME SecurityIInv PROVE SecurityTypeOK
  OBVIOUS
<1>1. \A p \in Peers : shared[p] \subseteq tracked[p]
  BY SameForPeer DEF PeerFacts
<1>2. \A p \in Peers \ everBlocked, k \in Kinds :
        Cardinality(limits[p][k].requests) <= MaxRequests[k]
  BY SameForPeer DEF PeerFacts
<1>3. SizedEntry \subseteq Entry
  BY DEF SizedEntry, Entry, Batch, FiniteSubsetsOf
<1>4. limits \in [Peers -> [Kinds -> Entry]]
  BY <1>3 DEF SecurityIInv
<1> QED
  BY <1>1, <1>2, <1>4 DEF SecurityIInv, SecurityTypeOK

\* A manual block shuts out every kind of request until it expires or is
\* lifted: ManualBlockHolds, for all peers, limits and durations.
THEOREM BlocksHold == SecuritySpec => []ManualBlockHolds
<1>1. SecurityIInv => ManualBlockHolds
  BY HeldBack
<1> QED
  BY <1>1, SecurityInvariant, PTL

\* In no window is more admitted than the limit: WindowLimit, for all limits
\* and windows, and however the clock, the checks and the cleanup interleave.
THEOREM WindowsHold == SecuritySpec => []WindowLimit
<1>1. SecurityIInv => WindowLimit
  BY WithinWindow
<1> QED
  BY <1>1, SecurityInvariant, PTL

-----------------------------------------------------------------------------
(* The identity.                                                           *)
(*                                                                         *)
(* Undisturbed, one call at most is in progress; while it looks for an     *)
(* identity none is cached, and while it saves one nobody has been given   *)
(* it yet.                                                                 *)

Progress == {"loading", "generating", "saving"}

\* What the calls hold; the types of the rest do not matter here.
CallTypes == idCalls \in [IdCalls -> [pc : Progress \cup {"idle", "done", "failed"}, id : Nat]]

Kept == persistent /\ available => storedId = cachedId

OneIdentity ==
  ~ disturbed =>
    /\ \A c, d \in IdCalls : idCalls[c].pc \in Progress /\ idCalls[d].pc \in Progress => c = d
    /\ \A c \in IdCalls :
         /\ idCalls[c].pc \in {"loading", "generating"} => cachedId = 0
         /\ idCalls[c].pc = "saving" => cachedId # 0 /\ idCalls[c].id = cachedId
         /\ idCalls[c].pc = "done" => cachedId # 0 /\ idCalls[c].id = cachedId /\ Kept
    /\ cachedId # 0 => Kept \/ \E c \in IdCalls : idCalls[c].pc = "saving"

\* A deletion in progress has disturbed.
IdentityIInv ==
  /\ CallTypes /\ OneIdentity
  /\ cachedId \in Nat /\ storedId \in Nat /\ generated \in Nat
  /\ disturbed \in BOOLEAN /\ (clearing => disturbed)

LEMMA IdentityInitHolds == IdentityInit => IdentityIInv
<1> SUFFICES ASSUME IdentityInit PROVE IdentityIInv
  OBVIOUS
<1>1. CallTypes /\ \A c \in IdCalls : idCalls[c].pc = "idle"
  BY DEF IdentityInit, NoCall, CallTypes
<1>2. cachedId = 0 /\ storedId = 0 /\ generated = 0 /\ disturbed \in BOOLEAN /\ ~ clearing
  BY DEF IdentityInit
<1> QED
  BY <1>1, <1>2 DEF IdentityIInv, OneIdentity, Progress

\* The call that moves is the only one that does.
LEMMA CallMoved ==
  ASSUME CallTypes, NEW c \in IdCalls, NEW id \in Nat,
         NEW pc \in Progress \cup {"idle", "done", "failed"}, MoveCall(c, pc, id)
  PROVE  /\ CallTypes' /\ idCalls'[c].pc = pc /\ idCalls'[c].id = id
         /\ \A d \in IdCalls \ {c} : idCalls'[d] = idCalls[d]
<1>1. [pc |-> pc, id |-> id] \in [pc : Progress \cup {"idle", "done", "failed"}, id : Nat]
  OBVIOUS
<1>2. CallTypes' /\ idCalls'[c] = [pc |-> pc, id |-> id]
  BY <1>1 DEF MoveCall, CallTypes
<1> QED
  BY <1>2 DEF MoveCall, CallTypes

LEMMA CallBegins ==
  ASSUME IdentityIInv, NEW c \in IdCalls, GetPeerId(c)
  PROVE  IdentityIInv'
<1>1. PICK pc \in Progress \cup {"done"}, id \in Nat :
        /\ MoveCall(c, pc, id)
        /\ \/ pc = "done" /\ cachedId # 0 /\ id = cachedId
           \/ pc \in {"loading", "generating"} /\ cachedId = 0
  BY DEF GetPeerId, Progress, IdentityIInv
<1>2. /\ CallTypes' /\ idCalls'[c].pc = pc /\ idCalls'[c].id = id
      /\ \A d \in IdCalls \ {c} : idCalls'[d] = idCalls[d]
  BY <1>1, CallMoved DEF IdentityIInv, Progress
<1>3. /\ disturbed' \in BOOLEAN
      /\ ~ disturbed' => ~ disturbed /\ \A d \in IdCalls : idCalls[d].pc \notin Progress
      /\ UNCHANGED <<persistent, available, cachedId, storedId, clearing, generated>>
      /\ clearing' => disturbed'
  BY DEF GetPeerId, InProgress, Progress, IdentityIInv
<1>4. OneIdentity'
  BY <1>1, <1>2, <1>3 DEF IdentityIInv, OneIdentity, Kept, Progress
<1> QED
  BY <1>2, <1>3, <1>4 DEF IdentityIInv

LEMMA CallLoads ==
  ASSUME IdentityIInv, NEW c \in IdCalls,
         IdentityLoaded(c) \/ NothingStored(c) \/ LoadFails(c)
  PROVE  IdentityIInv'
<1>1. PICK pc \in {"done", "generating"}, id \in Nat :
        /\ MoveCall(c, pc, id)
        /\ pc = "done" => id = storedId /\ storedId # 0 /\ cachedId' = storedId
        /\ pc = "generating" => cachedId' = cachedId
  BY DEF IdentityLoaded, NothingStored, LoadFails, IdentityIInv
<1>2. /\ CallTypes' /\ idCalls'[c].pc = pc /\ idCalls'[c].id = id
      /\ \A d \in IdCalls \ {c} : idCalls'[d] = idCalls[d]
  BY <1>1, CallMoved DEF IdentityIInv, Progress
<1>3. /\ idCalls[c].pc = "loading"
      /\ disturbed' \in BOOLEAN /\ (disturbed => disturbed')
      /\ UNCHANGED <<persistent, available, storedId, clearing, generated>>
  BY DEF IdentityLoaded, NothingStored, LoadFails, IdentityIInv
<1>4. OneIdentity'
  BY <1>1, <1>2, <1>3 DEF IdentityIInv, OneIdentity, Kept, Progress
<1> QED
  BY <1>1, <1>2, <1>3, <1>4 DEF IdentityIInv

LEMMA CallGenerates ==
  ASSUME IdentityIInv, NEW c \in IdCalls, GenerateNewPeerId(c)
  PROVE  IdentityIInv'
<1>1. PICK pc \in {"saving", "done"} :
        /\ MoveCall(c, pc, generated + 1)
        /\ pc = "done" => ~ (persistent /\ available)
  BY DEF GenerateNewPeerId
<1>2. generated \in Nat /\ generated + 1 \in Nat /\ generated + 1 # 0
  BY DEF IdentityIInv
<1>3. /\ CallTypes' /\ idCalls'[c].pc = pc /\ idCalls'[c].id = generated + 1
      /\ \A d \in IdCalls \ {c} : idCalls'[d] = idCalls[d]
  BY <1>1, <1>2, CallMoved DEF IdentityIInv, Progress
<1>4. /\ idCalls[c].pc = "generating" /\ cachedId' = generated + 1
      /\ generated' = generated + 1
      /\ UNCHANGED <<persistent, available, storedId, clearing, disturbed>>
  BY DEF GenerateNewPeerId
<1>5. OneIdentity'
  BY <1>1, <1>2, <1>3, <1>4 DEF IdentityIInv, OneIdentity, Kept, Progress
<1> QED
  BY <1>2, <1>3, <1>4, <1>5 DEF IdentityIInv

LEMMA CallSaves ==
  ASSUME IdentityIInv, NEW c \in IdCalls, SaveToStorage(c) \/ SaveFails(c)
  PROVE  IdentityIInv'
<1>1. idCalls[c].pc = "saving" /\ idCalls[c].id \in Nat
  BY DEF SaveToStorage, SaveFails, IdentityIInv, CallTypes
<1>2. PICK pc \in {"done", "failed"}, id \in Nat :
        /\ MoveCall(c, pc, id)
        /\ pc = "done" => /\ id = idCalls[c].id
                          /\ storedId' = IF cachedId # 0 THEN cachedId ELSE storedId
        /\ pc = "failed" => storedId' = storedId /\ disturbed'
  BY <1>1 DEF SaveToStorage, SaveFails
<1>3. /\ CallTypes' /\ idCalls'[c].pc = pc /\ idCalls'[c].id = id
      /\ \A d \in IdCalls \ {c} : idCalls'[d] = idCalls[d]
  BY <1>2, CallMoved DEF IdentityIInv, Progress
<1>4. /\ disturbed' \in BOOLEAN /\ (disturbed => disturbed')
      /\ UNCHANGED <<persistent, available, cachedId, clearing, generated>>
  BY DEF SaveToStorage, SaveFails, IdentityIInv
<1>5. OneIdentity'
  BY <1>1, <1>2, <1>3, <1>4 DEF IdentityIInv, OneIdentity, Kept, Progress
<1> QED
  BY <1>2, <1>3, <1>4, <1>5 DEF IdentityIInv

LEMMA CallReturns ==
  ASSUME IdentityIInv, NEW c \in IdCalls, ReturnId(c)
  PROVE  IdentityIInv'
<1>1. /\ CallTypes' /\ idCalls'[c].pc = "idle"
      /\ \A d \in IdCalls \ {c} : idCalls'[d] = idCalls[d]
  BY CallMoved DEF ReturnId, IdentityIInv
<1>2. /\ idCalls[c].pc \in {"done", "failed"}
      /\ UNCHANGED <<persistent, available, cachedId, storedId, clearing, generated, disturbed>>
  BY DEF ReturnId
<1>3. OneIdentity'
  BY <1>1, <1>2 DEF IdentityIInv, OneIdentity, Kept, Progress
<1> QED
  BY <1>1, <1>2, <1>3 DEF IdentityIInv

LEMMA IdentityStepHolds == IdentityIInv /\ [IdentityNext]_identityVars => IdentityIInv'
<1> SUFFICES ASSUME IdentityIInv, [IdentityNext]_identityVars
             PROVE  IdentityIInv'
  OBVIOUS
<1>1. CASE UNCHANGED identityVars
  BY <1>1 DEF identityVars, IdentityIInv, CallTypes, OneIdentity, Kept
<1>2. ASSUME NEW c \in IdCalls,
             \/ GetPeerId(c) \/ IdentityLoaded(c) \/ NothingStored(c) \/ LoadFails(c)
             \/ GenerateNewPeerId(c) \/ SaveToStorage(c) \/ SaveFails(c) \/ ReturnId(c)
      PROVE  IdentityIInv'
  BY <1>2, CallBegins, CallLoads, CallGenerates, CallSaves, CallReturns
<1>3. CASE ClearStoredPeerId
  <2>1. /\ disturbed' /\ disturbed' \in BOOLEAN /\ cachedId' = 0
        /\ UNCHANGED <<storedId, idCalls, generated>>
    BY <1>3 DEF ClearStoredPeerId
  <2> QED
    BY <2>1 DEF IdentityIInv, CallTypes, OneIdentity
<1>4. ASSUME NEW id \in {0, storedId}, ClearEnds(id) PROVE IdentityIInv'
  BY <1>4 DEF ClearEnds, IdentityIInv, CallTypes, OneIdentity
<1>5. CASE Reload
  <2>1. CallTypes' /\ \A c \in IdCalls : idCalls'[c].pc = "idle"
    BY <1>5 DEF Reload, NoCall, CallTypes
  <2>2. /\ cachedId' = 0 /\ disturbed' \in BOOLEAN /\ ~ clearing'
        /\ UNCHANGED <<storedId, generated>>
    BY <1>5 DEF Reload
  <2> QED
    BY <2>1, <2>2 DEF IdentityIInv, OneIdentity, Progress
<1> QED
  BY <1>1, <1>2, <1>3, <1>4, <1>5 DEF IdentityNext

LEMMA KeptHolds == IdentityIInv => ReturnedIdIsKept
  BY DEF IdentityIInv, OneIdentity, Kept, ReturnedIdIsKept

\* Across any number of reloads, an identity that getPeerId returned is the
\* cached one and, where it can be stored, the stored one, unless the storage
\* failed or was cleared, or calls overlapped, since the page was loaded.
THEOREM IdentitiesAreKept == IdentitySpec => []ReturnedIdIsKept
<1>1. IdentityInit => IdentityIInv
  BY IdentityInitHolds
<1> QED
  BY <1>1, IdentityStepHolds, KeptHolds, PTL DEF IdentitySpec

\* A caller is handed an identity that exists, and no more exist than are made.
LEMMA IdentityTyped ==
  /\ IdentityInit => IdentityTypeOK
  /\ IdentityTypeOK /\ [IdentityNext]_identityVars => IdentityTypeOK'
<1>1. IdentityInit => IdentityTypeOK
  <2>1. 0 \in 0..MaxIds /\ 0 \in 0..MaxReloads /\ 0 \in 0..0
    BY IdentityAssumption
  <2>2. NoCall \in IdCall
    BY <2>1 DEF NoCall, IdCall
  <2> QED
    BY <2>1, <2>2 DEF IdentityInit, IdentityTypeOK
<1>2. ASSUME IdentityTypeOK, [IdentityNext]_identityVars PROVE IdentityTypeOK'
  <2>1. /\ MaxIds \in Nat /\ MaxReloads \in Nat /\ generated \in 0..MaxIds
        /\ cachedId \in 0..MaxIds /\ storedId \in 0..MaxIds
        /\ 0 \in 0..MaxIds /\ 0 \in 0..generated
    BY <1>2, IdentityAssumption DEF IdentityTypeOK
  <2>2. ASSUME NEW c \in IdCalls,
               GetPeerId(c) \/ IdentityLoaded(c) \/ NothingStored(c) \/ LoadFails(c)
               \/ SaveToStorage(c) \/ SaveFails(c) \/ ReturnId(c)
        PROVE  IdentityTypeOK'
    <3>1. PICK id \in 0..MaxIds, pc \in Progress \cup {"idle", "done", "failed"} :
            MoveCall(c, pc, id)
      <4>1. idCalls[c].id \in 0..MaxIds
        BY <1>2 DEF IdentityTypeOK, IdCall
      <4> QED
        BY <2>1, <2>2, <4>1
        DEF GetPeerId, IdentityLoaded, NothingStored, LoadFails, SaveToStorage, SaveFails,
            ReturnId, Progress
    <3>2. [pc |-> pc, id |-> id] \in IdCall
      BY <3>1 DEF IdCall, Progress
    <3>3. idCalls' \in [IdCalls -> IdCall]
      BY <1>2, <3>1, <3>2 DEF MoveCall, IdentityTypeOK
    <3>4. /\ cachedId' \in {cachedId, storedId} /\ storedId' \in {cachedId, storedId}
          /\ disturbed' \in BOOLEAN
          /\ UNCHANGED <<persistent, available, clearing, generated, reloads>>
      BY <1>2, <2>2
      DEF GetPeerId, IdentityLoaded, NothingStored, LoadFails, SaveToStorage, SaveFails,
          ReturnId, InProgress, IdentityTypeOK
    <3> QED
      BY <1>2, <3>3, <3>4 DEF IdentityTypeOK
  <2>3. ASSUME NEW c \in IdCalls, GenerateNewPeerId(c) PROVE IdentityTypeOK'
    <3>1. generated + 1 \in 0..MaxIds /\ generated' = generated + 1 /\ cachedId' = generated + 1
      BY <2>1, <2>3 DEF GenerateNewPeerId
    <3>2. PICK pc \in {"saving", "done"} : MoveCall(c, pc, generated + 1)
      BY <2>3 DEF GenerateNewPeerId
    <3>3. [pc |-> pc, id |-> generated + 1] \in IdCall
      BY <3>1, <3>2 DEF IdCall
    <3>4. idCalls' \in [IdCalls -> IdCall]
      BY <1>2, <3>2, <3>3 DEF MoveCall, IdentityTypeOK
    <3>5. UNCHANGED <<persistent, available, storedId, clearing, reloads, disturbed>>
      BY <2>3 DEF GenerateNewPeerId
    <3>6. cachedId' \in 0..generated' /\ storedId' \in 0..generated'
      BY <1>2, <2>1, <3>1, <3>5 DEF IdentityTypeOK
    <3> QED
      BY <1>2, <3>1, <3>4, <3>5, <3>6 DEF IdentityTypeOK
  <2>4. CASE ClearStoredPeerId
    BY <1>2, <2>1, <2>4 DEF ClearStoredPeerId, IdentityTypeOK
  <2>5. ASSUME NEW id \in {0, storedId}, ClearEnds(id) PROVE IdentityTypeOK'
    <3>1. /\ storedId' \in 0..generated /\ clearing' = FALSE
          /\ UNCHANGED <<persistent, available, cachedId, idCalls, generated, reloads, disturbed>>
      BY <1>2, <2>1, <2>5 DEF ClearEnds, IdentityTypeOK
    <3> QED
      BY <1>2, <3>1 DEF IdentityTypeOK
  <2>6. CASE Reload
    <3>1. idCalls' \in [IdCalls -> IdCall]
      BY <2>1, <2>6 DEF Reload, NoCall, IdCall
    <3>2. reloads' \in 0..MaxReloads
      BY <1>2, <2>1, <2>6 DEF Reload, IdentityTypeOK
    <3>3. /\ cachedId' = 0 /\ clearing' = FALSE /\ disturbed' = FALSE
          /\ UNCHANGED <<persistent, available, storedId, generated>>
      BY <2>6 DEF Reload
    <3> QED
      BY <1>2, <2>1, <3>1, <3>2, <3>3 DEF IdentityTypeOK
  <2>7. CASE UNCHANGED identityVars
    BY <1>2, <2>7 DEF identityVars, IdentityTypeOK
  <2> QED
    BY <1>2, <2>2, <2>3, <2>4, <2>5, <2>6, <2>7 DEF IdentityNext
<1> QED
  BY <1>1, <1>2

-----------------------------------------------------------------------------
(* The connections and their discovery: the types.                         *)

LEMMA PeersCounted ==
  ASSUME NEW cs \in Seq(Connection)
  PROVE  PeersOf(cs) \subseteq RemotePeers /\ CountPeers(cs) \in 0..Cardinality(RemotePeers)
<1>1. ASSUME NEW p \in PeersOf(cs) PROVE p \in RemotePeers
  <2>1. PICK i \in DOMAIN cs : p = cs[i].peer
    BY DEF PeersOf, ToSet
  <2>2. cs[i] \in Connection
    BY <2>1
  <2> QED
    BY <2>1, <2>2 DEF Connection
<1>2. /\ Cardinality(PeersOf(cs)) \in Nat /\ Cardinality(RemotePeers) \in Nat
      /\ Cardinality(PeersOf(cs)) <= Cardinality(RemotePeers)
  BY <1>1, ConnectionAssumption, FS_Subset, FS_CardinalityType
<1> QED
  BY <1>1, <1>2 DEF CountPeers

\* Connections that come and go are announced with a true count.
LEMMA Announced ==
  ASSUME ConnTypeOK, NEW cs \in Seq(Connection), Len(cs) <= MaxOpen, Announce(cs)
  PROVE  /\ conns' \in Seq(Connection) /\ Len(conns') <= MaxOpen
         /\ connectedPeers' \in 0..Cardinality(RemotePeers)
  BY PeersCounted DEF Announce, ConnTypeOK

LEMMA ConnAdded ==
  ASSUME ConnTypeOK, NEW p \in RemotePeers, AddConn(p)
  PROVE  /\ conns' \in Seq(Connection) /\ Len(conns') <= MaxOpen
         /\ connectedPeers' \in 0..Cardinality(RemotePeers)
<1> DEFINE c == [peer |-> p, status |-> "open"]
<1>1. c \in Connection
  BY DEF Connection
<1>2. conns \in Seq(Connection) /\ Len(conns) < MaxOpen /\ MaxOpen \in Nat
  BY ConnectionAssumption DEF AddConn, ConnTypeOK
<1>3. Announce(Append(conns, c))
  BY DEF AddConn
<1> HIDE DEF c
<1>4. Append(conns, c) \in Seq(Connection) /\ Len(Append(conns, c)) <= MaxOpen
  BY <1>1, <1>2
<1> QED
  BY <1>3, <1>4, Announced

LEMMA ConnTaken ==
  ASSUME ConnTypeOK, NEW i \in DOMAIN conns, ConnCloses(i)
  PROVE  ConnTypeOK'
<1>1. conns \in Seq(Connection) /\ Len(conns) \in Nat /\ Len(conns) <= MaxOpen /\ MaxOpen \in Nat
      /\ i \in 1..Len(conns)
  BY ConnectionAssumption DEF ConnTypeOK
<1>2. RemoveAt(conns, i) \in Seq(Connection) /\ Len(RemoveAt(conns, i)) <= MaxOpen
  <2>1. SubSeq(conns, 1, i - 1) \in Seq(Connection) /\ Len(SubSeq(conns, 1, i - 1)) = i - 1
    BY <1>1
  <2>2. SubSeq(conns, i + 1, Len(conns)) \in Seq(Connection)
        /\ Len(SubSeq(conns, i + 1, Len(conns))) = Len(conns) - i
    BY <1>1
  <2>3. RemoveAt(conns, i) = SubSeq(conns, 1, i - 1) \o SubSeq(conns, i + 1, Len(conns))
    BY DEF RemoveAt
  <2> QED
    BY <1>1, <2>1, <2>2, <2>3
<1> QED
  BY <1>2, Announced DEF ConnCloses, ConnTypeOK

\* Marking connections changes no peer and no number.
LEMMA ConnMarked ==
  ASSUME ConnTypeOK, Prune \/ PutAway
  PROVE  ConnTypeOK'
<1>1. conns \in Seq(Connection) /\ DOMAIN conns = 1..Len(conns) /\ Len(conns) \in Nat
      /\ Len(conns) <= MaxOpen
  BY DEF ConnTypeOK
<1>2. ASSUME NEW i \in 1..Len(conns)
      PROVE  /\ conns[i] \in Connection /\ [conns[i] EXCEPT !.status = "closing"] \in Connection
             /\ [conns[i] EXCEPT !.status = "put away"] \in Connection
  <2>1. conns[i] \in Connection
    BY <1>1
  <2> QED
    BY <2>1 DEF Connection
<1>3. conns' \in [1..Len(conns) -> Connection]
  BY <1>1, <1>2 DEF Prune, PutAway
<1>4. conns' \in Seq(Connection) /\ Len(conns') <= MaxOpen
  BY <1>1, <1>3
<1>5. connectedPeers' = connectedPeers /\ closingAll' \in BOOLEAN /\ discoveries' = discoveries
  BY DEF Prune, PutAway, ConnTypeOK
<1> QED
  BY <1>4, <1>5 DEF ConnTypeOK

LEMMA NoDiscoveryTyped == NoDiscovery \in Discovery
<1>1. 0 \in 0..DhtLookups
  BY ConnectionAssumption
<1> QED
  BY <1>1 DEF NoDiscovery, Discovery, Phases

LEMMA DiscoveryTyped ==
  ASSUME ConnTypeOK, NEW d \in Discoveries, DiscoveryStep(d)
  PROVE  ConnTypeOK'
<1>1. discoveries[d] \in Discovery /\ NoDiscovery \in Discovery /\ DhtLookups \in Nat
  BY NoDiscoveryTyped, ConnectionAssumption DEF ConnTypeOK
<1>2. PeersOf(conns) \subseteq RemotePeers
  BY PeersCounted DEF ConnTypeOK
<1>3. ASSUME NEW v \in Discovery, Quiet(d, v) PROVE ConnTypeOK'
  BY <1>3 DEF Quiet, SetDiscovery, ConnTypeOK
<1>4. ASSUME DiscoverPeers(d) PROVE ConnTypeOK'
  <2>1. DhtLookups \in 0..DhtLookups
    BY <1>1
  <2>2. [NoDiscovery EXCEPT !.phase = "lookup", !.left = DhtLookups, !.seen = PeersOf(conns)]
          \in Discovery
    BY <1>1, <1>2, <2>1 DEF Discovery, Phases
  <2> QED
    BY <1>3, <1>4, <2>2 DEF DiscoverPeers
<1>5. ASSUME Lookup(d) PROVE ConnTypeOK'
  <2>1. discoveries[d].left - 1 \in 0..DhtLookups
    BY <1>1, <1>5 DEF Lookup, Discovery
  <2>2. \A found \in SUBSET RemotePeers :
          [discoveries[d] EXCEPT !.left = @ - 1, !.todo = found] \in Discovery
    BY <1>1, <2>1 DEF Discovery
  <2> QED
    BY <1>3, <1>5, <2>2 DEF Lookup
<1>6. ASSUME NEW b \in BOOLEAN, NextPhase(d, b) PROVE ConnTypeOK'
  <2>1. \A next \in Phases : \A found \in SUBSET RemotePeers :
          [discoveries[d] EXCEPT !.phase = next, !.todo = found] \in Discovery
    BY <1>1 DEF Discovery
  <2>2. PICK v \in Discovery : Quiet(d, v)
    BY <1>1, <1>6, <2>1 DEF NextPhase, Phases
  <2> QED
    BY <1>3, <2>2
<1>7. ASSUME NEW p \in RemotePeers, SkipPeer(d, p) \/ StopAtLimit(d, p) \/ DialPeer(d, p)
      PROVE  ConnTypeOK'
  <2>1. /\ [discoveries[d] EXCEPT !.todo = @ \ {p}] \in Discovery
        /\ [discoveries[d] EXCEPT !.todo = {}] \in Discovery
        /\ [discoveries[d] EXCEPT !.todo = @ \ {p}, !.dialing = {p}] \in Discovery
    BY <1>1 DEF Discovery
  <2> QED
    BY <1>3, <1>7, <2>1 DEF SkipPeer, StopAtLimit, DialPeer
<1>8. ASSUME NEW p \in RemotePeers, DialSucceeds(d, p) PROVE ConnTypeOK'
  <2>1. [discoveries[d] EXCEPT !.dialing = {}, !.seen = @ \cup {p}] \in Discovery
    BY <1>1 DEF Discovery
  <2>2. discoveries' \in [Discoveries -> Discovery] /\ closingAll' = closingAll
    BY <1>8, <2>1 DEF DialSucceeds, SetDiscovery, ConnTypeOK
  <2>3. \/ UNCHANGED <<conns, connectedPeers>>
        \/ AddConn(p)
    BY <1>8 DEF DialSucceeds
  <2> QED
    BY <2>2, <2>3, ConnAdded DEF ConnTypeOK
<1>9. ASSUME NEW p \in RemotePeers, DialFails(d, p) PROVE ConnTypeOK'
  <2>1. [discoveries[d] EXCEPT !.dialing = {}] \in Discovery
    BY <1>1 DEF Discovery
  <2> QED
    BY <1>3, <1>9, <2>1 DEF DialFails
<1>10. ASSUME DiscoveryFails(d) PROVE ConnTypeOK'
  BY <1>1, <1>3, <1>10 DEF DiscoveryFails
<1> QED
  BY <1>4, <1>5, <1>6, <1>7, <1>8, <1>9, <1>10
  DEF DiscoveryStep, PhaseEnds, PeerHandled, DialEnds

LEMMA ConnTyped ==
  /\ ConnInit => ConnTypeOK
  /\ ConnTypeOK /\ [ConnNext]_connVars => ConnTypeOK'
<1>1. ASSUME ConnInit PROVE ConnTypeOK
  <2>1. Cardinality(RemotePeers) \in Nat /\ MaxOpen \in Nat /\ DhtLookups \in Nat
    BY ConnectionAssumption, FS_CardinalityType
  <2>2. <<>> \in Seq(Connection) /\ Len(<<>>) <= MaxOpen /\ 0 \in 0..Cardinality(RemotePeers)
    BY <2>1
  <2> QED
    BY <1>1, <2>2, NoDiscoveryTyped DEF ConnInit, ConnTypeOK
<1>2. ASSUME ConnTypeOK, [ConnNext]_connVars PROVE ConnTypeOK'
  <2>1. ASSUME NEW p \in RemotePeers, PeerConnects(p) PROVE ConnTypeOK'
    BY <1>2, <2>1, ConnAdded DEF PeerConnects, ConnTypeOK
  <2>2. ASSUME NEW i \in DOMAIN conns, ConnCloses(i) PROVE ConnTypeOK'
    BY <1>2, <2>2, ConnTaken
  <2>3. CASE AllPutAway
    <3>1. 0 \in 0..Cardinality(RemotePeers)
      BY ConnectionAssumption, FS_CardinalityType
    <3> QED
      BY <1>2, <2>3, <3>1 DEF AllPutAway, ConnTypeOK
  <2>4. CASE UNCHANGED connVars
    BY <1>2, <2>4 DEF connVars, ConnTypeOK
  <2> QED
    BY <1>2, <2>1, <2>2, <2>3, <2>4, ConnMarked, DiscoveryTyped DEF ConnNext
<1> QED
  BY <1>1, <1>2

\* However connections, prunings, dials and the putting away of the tab
\* interleave, the count in the node's state never passes the peers there are,
\* and a discovery makes no more lookups than it should: ConnTypeOK.
THEOREM ConnectionTypesHold == ConnSpec => []ConnTypeOK
<1>1. ConnInit => ConnTypeOK
  BY ConnTyped
<1>2. ConnTypeOK /\ [ConnNext]_connVars => ConnTypeOK'
  BY ConnTyped
<1> QED
  BY <1>1, <1>2, PTL DEF ConnSpec

\* An announcement makes the count true; a change that is not announced keeps the
\* peers.
LEMMA AnnouncedCount ==
  ASSUME NEW cs, CountIsTrueOrReset, Announce(cs)
  PROVE  CountIsTrueOrReset'
<1>1. CASE PeersOf(cs) # PeersOf(conns)
  BY <1>1 DEF Announce, CountPeers, PeersOf, CountIsTrueOrReset
<1>2. CASE PeersOf(cs) = PeersOf(conns)
  BY <1>2 DEF Announce, PeersOf, CountIsTrueOrReset
<1> QED
  BY <1>1, <1>2

LEMMA SamePeersCount ==
  ASSUME CountIsTrueOrReset, PeersOf(conns') = PeersOf(conns), connectedPeers' = connectedPeers
  PROVE  CountIsTrueOrReset'
  BY DEF CountIsTrueOrReset, PeersOf

\* A connection that is marked is still its peer's.
LEMMA MarkedCount ==
  ASSUME ConnTypeOK, CountIsTrueOrReset, Prune \/ PutAway
  PROVE  CountIsTrueOrReset'
<1>1. conns \in Seq(Connection) /\ DOMAIN conns' = DOMAIN conns
      /\ connectedPeers' = connectedPeers
  BY DEF ConnTypeOK, Prune, PutAway
<1>2. ASSUME NEW i \in DOMAIN conns PROVE conns'[i].peer = conns[i].peer
  <2>1. conns[i] \in Connection
    BY <1>1
  <2>2. \A s : [conns[i] EXCEPT !.status = s].peer = conns[i].peer
    BY <2>1 DEF Connection
  <2>3. \/ conns'[i] = conns[i]
        \/ \E s : conns'[i] = [conns[i] EXCEPT !.status = s]
    BY DEF Prune, PutAway
  <2> QED
    BY <2>2, <2>3
<1>3. PeersOf(conns') = PeersOf(conns)
  <2>1. \A cs : PeersOf(cs) = {cs[i].peer : i \in DOMAIN cs}
    BY DEF PeersOf, ToSet
  <2> QED
    BY <1>1, <1>2, <2>1
<1> QED
  BY <1>1, <1>3, SamePeersCount

LEMMA CountStep ==
  ASSUME ConnTypeOK, CountIsTrueOrReset, [ConnNext]_connVars
  PROVE  CountIsTrueOrReset'
<1>1. ASSUME NEW d \in Discoveries, DiscoveryStep(d)
      PROVE  UNCHANGED <<conns, connectedPeers>> \/ \E cs : Announce(cs)
  BY <1>1
  DEF DiscoveryStep, PhaseEnds, PeerHandled, DialEnds, DiscoverPeers, Lookup, NextPhase,
      SkipPeer, StopAtLimit, DialPeer, DialSucceeds, DialFails, DiscoveryFails, Quiet, AddConn
<1>2. CASE \E cs : Announce(cs)
  BY <1>2, AnnouncedCount
<1>3. CASE UNCHANGED <<conns, connectedPeers>>
  BY <1>3, SamePeersCount
<1>4. CASE AllPutAway
  BY <1>4 DEF AllPutAway, CountIsTrueOrReset
<1>5. CASE Prune \/ PutAway
  BY <1>5, MarkedCount
<1> QED
  BY <1>1, <1>2, <1>3, <1>4, <1>5 DEF ConnNext, PeerConnects, AddConn, ConnCloses, connVars

\* The count in the node's state is the number of connected peers, or the 0 that
\* handleInactive wrote and the next announcement corrects, in any order of
\* connections, prunings and dials: CountIsTrueOrReset.
THEOREM CountsHold == ConnSpec => []CountIsTrueOrReset
<1>1. ConnInit => ConnTypeOK /\ CountIsTrueOrReset
  BY ConnTyped DEF ConnInit, CountIsTrueOrReset
<1>2. /\ ConnTypeOK /\ CountIsTrueOrReset /\ [ConnNext]_connVars
      => (ConnTypeOK /\ CountIsTrueOrReset)'
  BY ConnTyped, CountStep
<1> QED
  BY <1>1, <1>2, PTL DEF ConnSpec

-----------------------------------------------------------------------------
(* The advertised addresses.                                               *)
(*                                                                         *)
(* The list is written by recursion over the addresses that are added or   *)
(* removed; what each change keeps, by induction they all keep.  The last  *)
(* address that is added is there in the end, and all are of its relay.    *)

\* No element of the list comes again.
NoneTwice(s) == \A i, j \in DOMAIN s : s[i] = s[j] => i = j

LEMMA AppendElements ==
  ASSUME NEW A, NEW s \in Seq(A), NEW a \in A
  PROVE  /\ Append(s, a) \in Seq(A) /\ ToSet(Append(s, a)) = ToSet(s) \cup {a}
         /\ NoneTwice(s) /\ a \notin ToSet(s) => NoneTwice(Append(s, a))
<1>1. /\ Append(s, a) \in Seq(A) /\ Len(s) \in Nat /\ DOMAIN s = 1..Len(s)
      /\ DOMAIN Append(s, a) = 1..(Len(s) + 1)
      /\ Append(s, a)[Len(s) + 1] = a /\ \A i \in 1..Len(s) : Append(s, a)[i] = s[i]
  OBVIOUS
<1>2. 1..(Len(s) + 1) = 1..Len(s) \cup {Len(s) + 1}
  BY <1>1
<1> QED
  BY <1>1, <1>2 DEF ToSet, NoneTwice

LEMMA OnlyKeeps ==
  ASSUME NEW A, NEW s \in Seq(A), NEW good
  PROVE  /\ Only(s, good) \in Seq(A)
         /\ ToSet(Only(s, good)) = ToSet(s) \cap good
         /\ NoneTwice(s) => NoneTwice(Only(s, good))
<1> DEFINE N == Len(s)
           kept[n \in 0..N] ==
             IF n = 0 THEN <<>>
             ELSE IF s[n] \in good THEN Append(kept[n - 1], s[n]) ELSE kept[n - 1]
           step == [n \in Nat |-> [t \in Seq(A) |->
                      IF n + 1 \in 1..N /\ s[n + 1] \in good THEN Append(t, s[n + 1]) ELSE t]]
<1>1. N \in Nat /\ DOMAIN s = 1..N /\ \A n \in 1..N : s[n] \in A
  OBVIOUS
<1>2. \E f : f = [n \in 0..N |-> IF n = 0 THEN <<>>
             ELSE IF s[n] \in good THEN Append(f[n - 1], s[n]) ELSE f[n - 1]]
  <2>1. step \in [Nat -> [Seq(A) -> Seq(A)]]
    BY <1>1
  <2>2. <<>> \in Seq(A)
    OBVIOUS
  <2> HIDE DEF step, N, kept
  <2>3. PICK f \in [0..N -> Seq(A)] :
          f[0] = <<>> /\ \A i \in 1..N : f[i] = step[i - 1][f[i - 1]]
    <3>1. HasIterates(Seq(A), step, <<>>, N)
      BY <1>1, <2>1, <2>2, Iterates
    <3> QED
      BY <3>1 DEF HasIterates
  <2>4. ASSUME NEW n \in 0..N, n # 0
        PROVE  step[n - 1][f[n - 1]]
                 = IF s[n] \in good THEN Append(f[n - 1], s[n]) ELSE f[n - 1]
    <3>1. n - 1 \in Nat /\ n - 1 \in 0..N /\ (n - 1) + 1 = n /\ n \in 1..N
      BY <1>1, <2>4
    <3>2. f[n - 1] \in Seq(A)
      BY <3>1
    <3> QED
      BY <3>1, <3>2 DEF step
  <2>5. f = [n \in 0..N |-> IF n = 0 THEN <<>>
             ELSE IF s[n] \in good THEN Append(f[n - 1], s[n]) ELSE f[n - 1]]
    <3>1. ASSUME NEW n \in 0..N
          PROVE  f[n] = IF n = 0 THEN <<>>
                        ELSE IF s[n] \in good THEN Append(f[n - 1], s[n]) ELSE f[n - 1]
      <4>1. CASE n = 0
        BY <2>3, <4>1
      <4>2. CASE n # 0
        <5>1. n \in 1..N
          BY <1>1, <4>2
        <5> QED
          BY <2>3, <2>4, <4>2, <5>1
      <4> QED
        BY <4>1, <4>2
    <3> QED
      BY <3>1
  <2> QED
    BY <2>5
<1>3. kept = [n \in 0..N |-> IF n = 0 THEN <<>>
             ELSE IF s[n] \in good THEN Append(kept[n - 1], s[n]) ELSE kept[n - 1]]
  BY <1>2
<1>4. Only(s, good) = kept[N]
  BY DEF Only
<1> HIDE DEF kept, step, N
<1>5. kept[0] = <<>>
      /\ \A n \in 1..N : kept[n] = IF s[n] \in good THEN Append(kept[n - 1], s[n]) ELSE kept[n - 1]
  <2>1. 0 \in 0..N /\ \A n \in 1..N : n \in 0..N /\ n # 0
    BY <1>1
  <2> QED
    BY <1>3, <2>1
<1> DEFINE Good(n) == /\ kept[n] \in Seq(A)
                      /\ ToSet(kept[n]) = {s[i] : i \in 1..n} \cap good
                      /\ NoneTwice(s) => NoneTwice(kept[n])
           T == {n \in Nat : n <= N => Good(n)}
<1>6. Good(0)
  <2>1. kept[0] \in Seq(A) /\ DOMAIN kept[0] = {}
    BY <1>5
  <2> QED
    BY <2>1 DEF ToSet, NoneTwice
<1>7. ASSUME NEW n \in Nat, n + 1 <= N, Good(n) PROVE Good(n + 1)
  <2>1. n + 1 \in 1..N /\ (n + 1) - 1 = n /\ s[n + 1] \in A
    BY <1>1, <1>7
  <2>2. {s[i] : i \in 1..(n + 1)} = {s[i] : i \in 1..n} \cup {s[n + 1]}
    OBVIOUS
  <2>3. CASE s[n + 1] \notin good
    <3>1. kept[n + 1] = kept[n]
      BY <1>5, <2>1, <2>3
    <3> QED
      BY <1>7, <2>2, <2>3, <3>1
  <2>4. CASE s[n + 1] \in good
    <3>1. kept[n + 1] = Append(kept[n], s[n + 1])
      BY <1>5, <2>1, <2>4
    <3>2. kept[n + 1] \in Seq(A) /\ ToSet(kept[n + 1]) = ToSet(kept[n]) \cup {s[n + 1]}
      BY <1>7, <2>1, <3>1, AppendElements
    <3>3. ASSUME NoneTwice(s) PROVE NoneTwice(kept[n + 1])
      <4>1. s[n + 1] \notin ToSet(kept[n])
        <5>1. \A i \in 1..n : s[i] # s[n + 1]
          BY <1>1, <2>1, <3>3 DEF NoneTwice
        <5> QED
          BY <1>7, <5>1
      <4>2. kept[n] \in Seq(A) /\ NoneTwice(kept[n])
        BY <1>7, <3>3
      <4>3. NoneTwice(Append(kept[n], s[n + 1]))
        BY <2>1, <4>1, <4>2, AppendElements
      <4> QED
        BY <3>1, <4>3
    <3> QED
      BY <1>7, <2>2, <2>4, <3>2, <3>3
  <2> QED
    BY <2>3, <2>4
<1> HIDE DEF Good
<1>8. Good(N)
  <2>1. 0 \in T
    BY <1>6
  <2>2. \A n \in Nat : n \in T => n + 1 \in T
    <3>1. \A n \in Nat : n + 1 <= N => n <= N
      BY <1>1
    <3> QED
      BY <1>7, <3>1
  <2>3. Nat \subseteq T
    <3> HIDE DEF T
    <3> QED
      BY <2>1, <2>2, Induction
  <2> QED
    BY <1>1, <2>3
<1>9. ToSet(s) = {s[i] : i \in 1..N}
  BY <1>1 DEF ToSet
<1> QED
  BY <1>4, <1>8, <1>9 DEF Good

\* The lists there are: without repetition, and of one relay.
Lists ==
  {s \in Seq(Address) : NoneTwice(s) /\ \A a, b \in ToSet(s) : a.relay = b.relay}

LEMMA OnlyLists ==
  ASSUME NEW s \in Lists, NEW good
  PROVE  Only(s, good) \in Lists /\ ToSet(Only(s, good)) = ToSet(s) \cap good
<1>1. /\ s \in Seq(Address) /\ NoneTwice(s) /\ \A a, b \in ToSet(s) : a.relay = b.relay
  BY DEF Lists
<1>2. /\ Only(s, good) \in Seq(Address) /\ ToSet(Only(s, good)) = ToSet(s) \cap good
      /\ NoneTwice(Only(s, good))
  BY <1>1, OnlyKeeps
<1> QED
  BY <1>1, <1>2 DEF Lists

LEMMA AddedOne ==
  ASSUME NEW s \in Lists, NEW addr \in Address
  PROVE  AddRelayAddress(s, addr) \in Lists /\ addr \in ToSet(AddRelayAddress(s, addr))
<1>1. CASE addr \in ToSet(s)
  BY <1>1 DEF AddRelayAddress
<1>2. CASE addr \notin ToSet(s)
  <2> DEFINE t == Only(s, OfRelay(addr.relay))
  <2>1. t \in Lists /\ ToSet(t) = ToSet(s) \cap OfRelay(addr.relay)
    BY OnlyLists
  <2>2. AddRelayAddress(s, addr) = Append(t, addr)
    BY <1>2 DEF AddRelayAddress
  <2> HIDE DEF t
  <2>3. t \in Seq(Address) /\ NoneTwice(t) /\ addr \notin ToSet(t)
    BY <1>2, <2>1 DEF Lists
  <2>4. /\ Append(t, addr) \in Seq(Address) /\ NoneTwice(Append(t, addr))
        /\ ToSet(Append(t, addr)) = ToSet(t) \cup {addr}
    BY <2>3, AppendElements
  <2>5. \A a \in ToSet(Append(t, addr)) : a.relay = addr.relay
    BY <2>1, <2>4 DEF OfRelay
  <2> QED
    BY <2>2, <2>4, <2>5 DEF Lists
<1> QED
  BY <1>1, <1>2

LEMMA RemovedOne ==
  ASSUME NEW s \in Lists, NEW addr \in Address
  PROVE  RemoveRelayAddress(s, addr) \in Lists
  BY OnlyLists DEF RemoveRelayAddress

LEMMA AddedAll ==
  ASSUME NEW s \in Lists, NEW listed \in Seq(Address)
  PROVE  /\ AddAll(s, listed) \in Lists
         /\ Len(listed) = 0 => AddAll(s, listed) = s
         /\ Len(listed) > 0 => listed[Len(listed)] \in ToSet(AddAll(s, listed))
<1> DEFINE N == Len(listed)
           after[n \in 0..N] == IF n = 0 THEN s ELSE AddRelayAddress(after[n - 1], listed[n])
           step == [n \in Nat |-> [t \in Lists |->
                      IF n + 1 \in 1..N THEN AddRelayAddress(t, listed[n + 1]) ELSE t]]
<1>1. N \in Nat /\ \A n \in 1..N : listed[n] \in Address
  OBVIOUS
<1>2. \E f : f = [n \in 0..N |-> IF n = 0 THEN s ELSE AddRelayAddress(f[n - 1], listed[n])]
  <2>1. step \in [Nat -> [Lists -> Lists]]
    BY <1>1, AddedOne
  <2> HIDE DEF step
  <2>2. PICK f \in [0..N -> Lists] : f[0] = s /\ \A i \in 1..N : f[i] = step[i - 1][f[i - 1]]
    <3>1. HasIterates(Lists, step, s, N)
      BY <1>1, <2>1, Iterates
    <3> QED
      BY <3>1 DEF HasIterates
  <2>3. ASSUME NEW n \in 1..N PROVE f[n] = AddRelayAddress(f[n - 1], listed[n])
    <3>1. n - 1 \in Nat /\ n - 1 \in 0..N /\ (n - 1) + 1 = n
      BY <1>1
    <3>2. f[n - 1] \in Lists
      BY <3>1
    <3> QED
      BY <2>2, <3>1, <3>2 DEF step
  <2>4. ASSUME NEW n \in 0..N
        PROVE  f[n] = IF n = 0 THEN s ELSE AddRelayAddress(f[n - 1], listed[n])
    <3>1. n = 0 \/ n \in 1..N
      BY <1>1
    <3> QED
      BY <2>2, <2>3, <3>1
  <2>5. f = [n \in 0..N |-> IF n = 0 THEN s ELSE AddRelayAddress(f[n - 1], listed[n])]
    BY <2>4
  <2> QED
    BY <2>5
<1>3. after = [n \in 0..N |-> IF n = 0 THEN s ELSE AddRelayAddress(after[n - 1], listed[n])]
  BY <1>2
<1>4. AddAll(s, listed) = after[N]
  BY DEF AddAll
<1> HIDE DEF after, step, N
<1>5. after[0] = s /\ \A n \in 1..N : after[n] = AddRelayAddress(after[n - 1], listed[n])
  <2>1. 0 \in 0..N /\ \A n \in 1..N : n \in 0..N /\ n # 0
    BY <1>1
  <2> QED
    BY <1>3, <2>1
<1> DEFINE Good(n) == after[n] \in Lists /\ (n > 0 => listed[n] \in ToSet(after[n]))
           T == {n \in Nat : n <= N => Good(n)}
<1>6. Good(0)
  BY <1>5
<1>7. ASSUME NEW n \in Nat, n + 1 <= N, Good(n) PROVE Good(n + 1)
  <2>1. n + 1 \in 1..N /\ (n + 1) - 1 = n /\ listed[n + 1] \in Address
    BY <1>1, <1>7
  <2>2. after[n + 1] = AddRelayAddress(after[n], listed[n + 1])
    BY <1>5, <2>1
  <2> QED
    BY <1>7, <2>1, <2>2, AddedOne
<1> HIDE DEF Good
<1>8. Good(N)
  <2>1. 0 \in T
    BY <1>6
  <2>2. \A n \in Nat : n \in T => n + 1 \in T
    <3>1. \A n \in Nat : n + 1 <= N => n <= N
      BY <1>1
    <3> QED
      BY <1>7, <3>1
  <2>3. Nat \subseteq T
    <3> HIDE DEF T
    <3> QED
      BY <2>1, <2>2, Induction
  <2> QED
    BY <1>1, <2>3
<1> QED
  BY <1>1, <1>4, <1>5, <1>8 DEF Good, N

LEMMA RemovedAll ==
  ASSUME NEW s \in Lists, NEW listed \in Seq(Address)
  PROVE  RemoveAll(s, listed) \in Lists
<1> DEFINE N == Len(listed)
           after[n \in 0..N] == IF n = 0 THEN s ELSE RemoveRelayAddress(after[n - 1], listed[n])
           step == [n \in Nat |-> [t \in Lists |->
                      IF n + 1 \in 1..N THEN RemoveRelayAddress(t, listed[n + 1]) ELSE t]]
<1>1. N \in Nat /\ \A n \in 1..N : listed[n] \in Address
  OBVIOUS
<1>2. \E f : f = [n \in 0..N |-> IF n = 0 THEN s ELSE RemoveRelayAddress(f[n - 1], listed[n])]
  <2>1. step \in [Nat -> [Lists -> Lists]]
    BY <1>1, RemovedOne
  <2> HIDE DEF step
  <2>2. PICK f \in [0..N -> Lists] : f[0] = s /\ \A i \in 1..N : f[i] = step[i - 1][f[i - 1]]
    <3>1. HasIterates(Lists, step, s, N)
      BY <1>1, <2>1, Iterates
    <3> QED
      BY <3>1 DEF HasIterates
  <2>3. ASSUME NEW n \in 1..N PROVE f[n] = RemoveRelayAddress(f[n - 1], listed[n])
    <3>1. n - 1 \in Nat /\ n - 1 \in 0..N /\ (n - 1) + 1 = n
      BY <1>1
    <3>2. f[n - 1] \in Lists
      BY <3>1
    <3> QED
      BY <2>2, <3>1, <3>2 DEF step
  <2>4. ASSUME NEW n \in 0..N
        PROVE  f[n] = IF n = 0 THEN s ELSE RemoveRelayAddress(f[n - 1], listed[n])
    <3>1. n = 0 \/ n \in 1..N
      BY <1>1
    <3> QED
      BY <2>2, <2>3, <3>1
  <2>5. f = [n \in 0..N |-> IF n = 0 THEN s ELSE RemoveRelayAddress(f[n - 1], listed[n])]
    BY <2>4
  <2> QED
    BY <2>5
<1>3. after = [n \in 0..N |-> IF n = 0 THEN s ELSE RemoveRelayAddress(after[n - 1], listed[n])]
  BY <1>2
<1>4. RemoveAll(s, listed) = after[N]
  BY DEF RemoveAll
<1> HIDE DEF after, step, N
<1>5. after[0] = s /\ \A n \in 1..N : after[n] = RemoveRelayAddress(after[n - 1], listed[n])
  <2>1. 0 \in 0..N /\ \A n \in 1..N : n \in 0..N /\ n # 0
    BY <1>1
  <2> QED
    BY <1>3, <2>1
<1> DEFINE Good(n) == after[n] \in Lists
           T == {n \in Nat : n <= N => Good(n)}
<1>6. Good(0)
  BY <1>5
<1>7. ASSUME NEW n \in Nat, n + 1 <= N, Good(n) PROVE Good(n + 1)
  <2>1. n + 1 \in 1..N /\ (n + 1) - 1 = n /\ listed[n + 1] \in Address
    BY <1>1, <1>7
  <2>2. after[n + 1] = RemoveRelayAddress(after[n], listed[n + 1])
    BY <1>5, <2>1
  <2> QED
    BY <1>7, <2>1, <2>2, RemovedOne
<1> HIDE DEF Good
<1>8. Good(N)
  <2>1. 0 \in T
    BY <1>6
  <2>2. \A n \in Nat : n \in T => n + 1 \in T
    <3>1. \A n \in Nat : n + 1 <= N => n <= N
      BY <1>1
    <3> QED
      BY <1>7, <3>1
  <2>3. Nat \subseteq T
    <3> HIDE DEF T
    <3> QED
      BY <2>1, <2>2, Induction
  <2> QED
    BY <1>1, <2>3
<1> QED
  BY <1>1, <1>4, <1>5, <1>8 DEF Good, N

\* Undisturbed there is one reservation at most, and while there is one the
\* list has addresses of its relay and no others.
AddressIInv ==
  /\ storedRelayAddresses \in Lists
  /\ reservations \subseteq ReservingRelays
  /\ ~ twoAtOnce => /\ \A r, q \in reservations : r = q
                    /\ reservations # {} => AdvertisedRelays = reservations

LEMMA AddressesFinite == IsFiniteSet(Address)
<1> DEFINE D == (ReservingRelays \X Paths) \X BOOLEAN
           f == [q \in D |-> [relay |-> q[1][1], path |-> q[1][2], webrtc |-> q[2]]]
<1>1. IsFiniteSet(BOOLEAN)
  <2>1. BOOLEAN = {TRUE} \cup {FALSE}
    OBVIOUS
  <2>2. IsFiniteSet({TRUE}) /\ IsFiniteSet({FALSE})
    BY FS_Singleton
  <2> QED
    BY <2>1, <2>2, FS_Union
<1>2. IsFiniteSet(D)
  BY <1>1, AddressAssumption, FS_Product
<1>3. f \in [D -> Address]
  BY DEF Address
<1>4. \A a \in Address : \E q \in D : f[q] = a
  <2> TAKE a \in Address
  <2>1. /\ a.relay \in ReservingRelays /\ a.path \in Paths /\ a.webrtc \in BOOLEAN
        /\ a = [relay |-> a.relay, path |-> a.path, webrtc |-> a.webrtc]
    BY DEF Address
  <2>2. <<<<a.relay, a.path>>, a.webrtc>> \in D /\ f[<<<<a.relay, a.path>>, a.webrtc>>] = a
    BY <2>1
  <2> QED
    BY <2>2
<1> HIDE DEF D, f
<1>5. f \in Surjection(D, Address)
  BY <1>3, <1>4 DEF Surjection
<1> QED
  BY <1>2, <1>5, FS_Surjection

LEMMA OrderedAddresses ==
  ASSUME NEW S \in SUBSET Address, NEW s \in SetToSeqs(S)
  PROVE  s \in Seq(Address) /\ ToSet(s) \subseteq S /\ Len(s) = Cardinality(S)
<1>1. Cardinality(S) \in Nat
  BY AddressesFinite, FS_Subset, FS_CardinalityType
<1>2. s \in [1..Cardinality(S) -> S]
  BY DEF SetToSeqs
<1>3. s \in [1..Cardinality(S) -> Address]
  BY <1>2
<1> QED
  BY <1>1, <1>2, <1>3 DEF ToSet

LEMMA ListedInTurn ==
  ASSUME NEW S, NEW w \in Seq(S), NEW c \in Seq(S)
  PROVE  /\ w \o c \in Seq(S) /\ Len(w \o c) = Len(w) + Len(c)
         /\ Len(c) > 0 => (w \o c)[Len(w \o c)] = c[Len(c)]
  OBVIOUS

\* A listing ends with a circuit address of a present relay, if there is one:
\* whatever the WebRTC listener names comes before.
LEMMA Listed ==
  ASSUME storedRelayAddresses \in Lists, NEW rs \in SUBSET ReservingRelays,
         NEW listed \in Listings(rs, storedRelayAddresses)
  PROVE  /\ listed \in Seq(Address)
         /\ rs # {} => Len(listed) > 0 /\ listed[Len(listed)].relay \in rs
<1>1. PICK W \in WebRTCListener(rs, storedRelayAddresses) :
        \E w \in SetToSeqs(W), c \in SetToSeqs(Circuit(rs)) : listed = w \o c
  BY DEF Listings
<1>2. PICK w \in SetToSeqs(W), c \in SetToSeqs(Circuit(rs)) : listed = w \o c
  BY <1>1
<1>3. W \subseteq Address
  <2>1. \A A \in SUBSET Address : WebRTC(A) \subseteq Address
    BY DEF WebRTC, Address
  <2>2. Circuit(rs) \subseteq Address /\ Circuit(rs \ HttpRelays) \subseteq Address
        /\ ToSet(storedRelayAddresses) \subseteq Address
    BY DEF Circuit, Lists, ToSet
  <2>3. /\ WebRTC(Circuit(rs)) \subseteq Address /\ WebRTC(Circuit(rs \ HttpRelays)) \subseteq Address
        /\ WebRTC(ToSet(storedRelayAddresses)) \subseteq Address
    BY <2>1, <2>2
  <2>4. \/ W = WebRTC(Circuit(rs \ HttpRelays)) \/ W = WebRTC(ToSet(storedRelayAddresses))
        \/ W \subseteq WebRTC(Circuit(rs))
    BY <1>1 DEF WebRTCListener
  <2> QED
    BY <2>3, <2>4
<1>4. Circuit(rs) \subseteq Address /\ \A a \in Circuit(rs) : a.relay \in rs
  BY DEF Circuit
<1>5. w \in Seq(Address) /\ Len(w) \in Nat
  BY <1>2, <1>3, OrderedAddresses
<1>6. c \in Seq(Address) /\ Len(c) \in Nat /\ ToSet(c) \subseteq Circuit(rs)
      /\ Len(c) = Cardinality(Circuit(rs))
  BY <1>2, <1>4, OrderedAddresses
<1>7. ASSUME rs # {} PROVE Len(c) > 0
  <2>1. PICK r \in rs, p \in Paths : TRUE
    BY <1>7, AddressAssumption
  <2>2. [relay |-> r, path |-> p, webrtc |-> FALSE] \in Circuit(rs)
    BY <2>1 DEF Circuit, Address
  <2>3. IsFiniteSet(Circuit(rs)) /\ Circuit(rs) # {}
    BY <1>4, <2>2, AddressesFinite, FS_Subset
  <2> QED
    BY <1>6, <2>3, FS_EmptySet
<1>8. /\ listed \in Seq(Address) /\ Len(listed) = Len(w) + Len(c)
      /\ Len(c) > 0 => listed[Len(listed)] = c[Len(c)]
  BY <1>2, <1>5, <1>6, ListedInTurn
<1>9. Len(c) > 0 => c[Len(c)] \in Circuit(rs)
  BY <1>6 DEF ToSet
<1> QED
  BY <1>4, <1>5, <1>6, <1>7, <1>8, <1>9

\* What is listed is added.
LEMMA AddListedHolds ==
  ASSUME storedRelayAddresses \in Lists, NEW rs \in SUBSET ReservingRelays, AddListed(rs)
  PROVE  /\ storedRelayAddresses' \in Lists
         /\ \A r \in rs : rs = {r} => AdvertisedRelays' = rs
<1>1. PICK listed \in Listings(rs, storedRelayAddresses) :
        storedRelayAddresses' = AddAll(storedRelayAddresses, listed)
  BY DEF AddListed
<1>2. listed \in Seq(Address) /\ Len(listed) \in Nat
      /\ (rs # {} => Len(listed) > 0 /\ listed[Len(listed)].relay \in rs)
  BY Listed
<1>3. storedRelayAddresses' \in Lists
  BY <1>1, <1>2, AddedAll
<1>4. ASSUME NEW r \in rs, rs = {r} PROVE AdvertisedRelays' = rs
  <2> DEFINE a == listed[Len(listed)]
  <2>1. Len(listed) > 0 /\ a.relay = r
    BY <1>2, <1>4
  <2>2. a \in ToSet(storedRelayAddresses')
    BY <1>1, <1>2, <2>1, AddedAll
  <2> HIDE DEF a
  <2>3. \A b \in ToSet(storedRelayAddresses') : b.relay = r
    BY <1>3, <2>1, <2>2 DEF Lists
  <2> QED
    BY <1>4, <2>1, <2>2, <2>3 DEF AdvertisedRelays
<1> QED
  BY <1>3, <1>4

LEMMA AddressStepHolds ==
  /\ AddressInit => AddressIInv
  /\ AddressIInv /\ [AddressNext]_addressVars => AddressIInv'
<1>1. <<>> \in Lists /\ ToSet(<<>>) = {}
  BY DEF Lists, NoneTwice, ToSet
<1>2. ASSUME AddressInit PROVE AddressIInv
  BY <1>1, <1>2 DEF AddressInit, AddressIInv
<1>3. ASSUME AddressIInv, NEW r \in ReservingRelays, ReservationCreated(r) PROVE AddressIInv'
  <2>1. /\ reservations' = reservations \cup {r} /\ reservations' \in SUBSET ReservingRelays
        /\ AddListed(reservations') /\ (~ twoAtOnce' => reservations' = {r})
    BY <1>3 DEF ReservationCreated, AddressIInv
  <2>2. /\ storedRelayAddresses' \in Lists
        /\ reservations' = {r} => AdvertisedRelays' = reservations'
    BY <1>3, <2>1, AddListedHolds DEF AddressIInv
  <2> QED
    BY <2>1, <2>2 DEF AddressIInv
<1>4. ASSUME AddressIInv, NEW r \in ReservingRelays, ReservationRemoved(r) PROVE AddressIInv'
  <2>1. /\ reservations' = reservations \ {r} /\ r \in reservations /\ twoAtOnce' = twoAtOnce
        /\ storedRelayAddresses' =
             RemoveAll(storedRelayAddresses, Only(storedRelayAddresses, OfRelay(r)))
    BY <1>4 DEF ReservationRemoved
  <2>2. Only(storedRelayAddresses, OfRelay(r)) \in Seq(Address)
    BY <1>4, OnlyLists DEF AddressIInv, Lists
  <2>3. storedRelayAddresses' \in Lists
    BY <1>4, <2>1, <2>2, RemovedAll DEF AddressIInv
  <2>4. ~ twoAtOnce' => reservations' = {}
    BY <1>4, <2>1 DEF AddressIInv
  <2> QED
    BY <1>4, <2>1, <2>3, <2>4 DEF AddressIInv
<1>5. ASSUME AddressIInv, BootstrapAdds PROVE AddressIInv'
  <2>1. UNCHANGED <<reservations, twoAtOnce>> /\ AddListed(reservations)
    BY <1>5 DEF BootstrapAdds
  <2>2. storedRelayAddresses' \in Lists
        /\ \A r \in reservations : reservations = {r} => AdvertisedRelays' = reservations
    BY <1>5, <2>1, AddListedHolds DEF AddressIInv
  <2>3. ~ twoAtOnce /\ reservations # {} => \E r \in reservations : reservations = {r}
    BY <1>5 DEF AddressIInv
  <2> QED
    BY <1>5, <2>1, <2>2, <2>3 DEF AddressIInv
<1>6. ASSUME AddressIInv, NodeStops PROVE AddressIInv'
  BY <1>1, <1>6 DEF NodeStops, AddressIInv
<1>7. ASSUME AddressIInv, NodeStarts \/ UNCHANGED addressVars PROVE AddressIInv'
  BY <1>7 DEF NodeStarts, addressVars, AddressIInv, AdvertisedRelays
<1> QED
  BY <1>2, <1>3, <1>4, <1>5, <1>6, <1>7 DEF AddressNext

LEMMA AdvertisedWell == AddressIInv => AdvertisedAddresses
<1> SUFFICES ASSUME AddressIInv PROVE AdvertisedAddresses
  OBVIOUS
<1> DEFINE s == storedRelayAddresses
<1>1. s \in Seq(Address) /\ NoneTwice(s) /\ \A a, b \in ToSet(s) : a.relay = b.relay
  BY DEF AddressIInv, Lists
<1>2. Cardinality(ToSet(s)) = Len(s)
  <2>1. s \in [1..Len(s) -> ToSet(s)] /\ DOMAIN s = 1..Len(s) /\ Len(s) \in Nat
    BY <1>1 DEF ToSet
  <2>2. s \in Bijection(1..Len(s), ToSet(s))
    BY <1>1, <2>1 DEF NoneTwice, ToSet, Bijection, Injection, IsInjective, Surjection
  <2> QED
    BY <2>1, <2>2, FS_CountingElements DEF ExistsBijection
<1> QED
  BY <1>1, <1>2 DEF AdvertisedAddresses, AddressIInv

\* For any relays, whether their addresses hold an http-path or not, any
\* addresses of theirs, any order within what a listener lists, and any order
\* of events: what is generated from the list and added to it again included.
THEOREM AddressesAdvertised == AddressSpec => []AdvertisedAddresses
<1>1. AddressInit => AddressIInv
  BY AddressStepHolds
<1>2. AddressIInv /\ [AddressNext]_addressVars => AddressIInv'
  BY AddressStepHolds
<1> QED
  BY <1>1, <1>2, AdvertisedWell, PTL DEF AddressSpec

-----------------------------------------------------------------------------
(* The parts together.  A step is one of a part and leaves the others'     *)
(* variables alone, so that what holds of each part holds of them all.     *)

PartsIInv == BrowserIInv /\ ConnTypeOK /\ RelayIInv /\ SecurityIInv /\ IdentityTypeOK

LEMMA PartsInitHolds == BrowserPartsInit => PartsIInv
  BY BrowserInitHolds, ConnTyped, RelayInitHolds, SecurityInitHolds, IdentityTyped
  DEF BrowserPartsInit, PartsIInv

LEMMA PartsStepHolds == PartsIInv /\ [BrowserPartsNext]_browserPartsVars => PartsIInv'
<1> SUFFICES ASSUME PartsIInv, [BrowserPartsNext]_browserPartsVars PROVE PartsIInv'
  OBVIOUS
<1>1. /\ [BrowserNext]_browserVars /\ [ConnNext]_connVars /\ [RelayNext]_relayVars
      /\ [SecurityNext]_securityVars /\ [IdentityNext]_identityVars
  BY DEF BrowserPartsNext, browserPartsVars, NodePart, ConnectionsPart, RelaysPart,
         LimitsPart, IdentityPart, AddressesPart, UpgraderPart
<1> QED
  BY <1>1, BrowserStepHolds, ConnTyped, RelayStepHolds, SecurityStepHolds, IdentityTyped
  DEF PartsIInv

\* The types of every part of a browser node, in all of its behaviours; among
\* them that no entry of the limiter holds more requests than its limit.
THEOREM BrowserTypesHold == BrowserPartsSpec => []BrowserTypesOK
<1>1. BrowserPartsInit => PartsIInv
  BY PartsInitHolds
<1>2. PartsIInv /\ [BrowserPartsNext]_browserPartsVars => PartsIInv'
  BY PartsStepHolds
<1>3. PartsIInv => BrowserTypesOK
  BY TypesOfBrowser, SecurityTyped DEF PartsIInv, RelayIInv, BrowserTypesOK
<1> QED
  BY <1>1, <1>2, <1>3, PTL DEF BrowserPartsSpec
=============================================================================
