----------------------------- MODULE ServerProofs -----------------------------
(***************************************************************************)
(* Proofs about the parts of a server that MCServer brings together: the   *)
(* life cycle, the bridge, and the distance of ids.                        *)
(***************************************************************************)
EXTENDS MCServer, InductionLemmas, TLAPS

-----------------------------------------------------------------------------
(* The life cycle: the types, that no libp2p node and no interval is lost, *)
(* and that a started overlay serves.                                      *)
(*                                                                         *)
(* Both properties speak of runs in which calls did not overlap.  There at *)
(* most one call is at work (Alone), and what the fields hold follows from *)
(* its step: DhtFacts for the libp2p node, OverlayFacts for the interval   *)
(* and the protocols.                                                      *)

Steps == Returned \cup DhtSteps \cup OverlaySteps
ServerCall == [at : Steps, stops : 0..MaxServers]

\* The types of what the methods change, and of what only the commands do.
MethodTypes ==
  /\ node \in 0..servers /\ live \subseteq 1..servers /\ servers \in 0..MaxServers
  /\ dhtStarted \in BOOLEAN
  /\ overlayStarted \in BOOLEAN /\ cleaning \in BOOLEAN
  /\ publishers \in Nat /\ keyPublishTimer \in BOOLEAN
  /\ keyPublishTimer => publishers > 0
  /\ keyExchangeOn \subseteq 1..servers /\ overlayOn \subseteq 1..servers
  /\ serverCalls \in [Users -> ServerCall]
  /\ concurrent \in BOOLEAN /\ pulled \in BOOLEAN

CommandTypes ==
  /\ serverCalled \in Nat
  /\ command \in Commands /\ main \in Phases
  /\ attempt \in 0..OverlayAttempts
  /\ main = "waiting" => attempt < OverlayAttempts
  /\ hasPeers \in BOOLEAN /\ handler \in BOOLEAN /\ exitCode \in 0..2

\* At most one call is at work.
Alone ==
  ~concurrent => \A u \in Users, w \in Users :
    serverCalls[u].at \notin Returned /\ serverCalls[w].at \notin Returned => u = w

\* The node that runs is the one of the field, as long as it is started or being
\* started; a stop stops that one.
DhtFacts ==
  ~concurrent =>
    /\ live \subseteq {node}
    /\ dhtStarted => node \in live
    /\ live # {} => dhtStarted \/ \E u \in Users : serverCalls[u].at = "dht_starting"
    /\ \A u \in Users :
         /\ serverCalls[u].at = "dht_creating" => ~dhtStarted
         /\ serverCalls[u].at = "dht_starting" => ~dhtStarted /\ node \in live
         /\ serverCalls[u].at = "dht_stopping" =>
              /\ serverCalls[u].stops = node /\ dhtStarted
              /\ ~overlayStarted \/ pulled

\* The interval is set by the start that is at work, or by the one that ended.
OverlayFacts ==
  ~concurrent =>
    /\ publishers = IF keyPublishTimer THEN 1 ELSE 0
    /\ keyPublishTimer =>
         overlayStarted \/ \E u \in Users : serverCalls[u].at = "registering"
    /\ \A u \in Users :
         /\ serverCalls[u].at \in OverlaySteps => ~overlayStarted
         /\ serverCalls[u].at \in {"publishing", "registering"} => DhtUsable
         /\ serverCalls[u].at = "registering" => keyPublishTimer
    /\ overlayStarted /\ ~pulled =>
         DhtUsable /\ node \in overlayOn /\ keyPublishTimer

MethodInv == MethodTypes /\ Alone /\ DhtFacts /\ OverlayFacts
ServerIInv == MethodInv /\ CommandTypes

-----------------------------------------------------------------------------
LEMMA ServerInitHolds == ServerInit => ServerIInv
<1> SUFFICES ASSUME ServerInit PROVE ServerIInv
  OBVIOUS
<1>1. NoServerCall \in ServerCall /\ NoServerCall.at = "idle"
  BY ServerAssumption DEF NoServerCall, ServerCall, Steps, Returned
<1>2. serverCalls \in [Users -> ServerCall] /\ \A u \in Users : serverCalls[u].at = "idle"
  BY <1>1 DEF ServerInit
<1>3. MethodTypes
  <2>1. /\ node = 0 /\ servers = 0 /\ live = {} /\ dhtStarted \in BOOLEAN
        /\ publishers = 0 /\ ~keyPublishTimer /\ keyPublishTimer \in BOOLEAN
        /\ keyExchangeOn = {} /\ overlayOn = {}
        /\ overlayStarted \in BOOLEAN /\ cleaning \in BOOLEAN
        /\ concurrent \in BOOLEAN /\ pulled \in BOOLEAN
    BY DEF ServerInit
  <2> QED
    BY <1>2, <2>1, ServerAssumption DEF MethodTypes
<1>4. Alone /\ DhtFacts /\ OverlayFacts
  BY <1>2 DEF ServerInit, Alone, DhtFacts, OverlayFacts, Returned, OverlaySteps
<1>5. CommandTypes
  <2>1. /\ serverCalled = 0 /\ command \in Commands /\ main \in {"library", "fetching"}
        /\ attempt = 0 /\ exitCode = 2 /\ hasPeers \in BOOLEAN /\ handler \in BOOLEAN
    BY DEF ServerInit
  <2> QED
    BY <2>1, ServerAssumption DEF CommandTypes, Phases
<1> QED
  BY <1>3, <1>4, <1>5 DEF ServerIInv, MethodInv

-----------------------------------------------------------------------------
(* The step of one call.                                                   *)

\* The call of u goes on to a step; the others stay where they are.
Moved(u, step, n) ==
  /\ serverCalls' \in [Users -> ServerCall]
  /\ serverCalls'[u].at = step /\ serverCalls'[u].stops = n
  /\ \A w \in Users \ {u} : serverCalls'[w] = serverCalls[w]

\* Only u may be at work.
OnlyOne(u) == \A w \in Users \ {u} : serverCalls[w].at \in Returned

LEMMA MovedTo ==
  ASSUME MethodTypes, NEW u \in Users, NEW step \in Steps, NEW n \in 0..MaxServers,
         serverCalls' = [serverCalls EXCEPT ![u] = [at |-> step, stops |-> n]]
  PROVE  Moved(u, step, n)
<1>1. [at |-> step, stops |-> n] \in ServerCall
  BY DEF ServerCall
<1>2. serverCalls' \in [Users -> ServerCall]
  BY <1>1 DEF MethodTypes
<1>3. serverCalls'[u] = [at |-> step, stops |-> n]
  BY DEF MethodTypes
<1> QED
  BY <1>2, <1>3 DEF MethodTypes, Moved

LEMMA GoesMoves ==
  ASSUME MethodTypes, NEW u \in Users, NEW step \in Steps, Goes(u, step)
  PROVE  Moved(u, step, 0)
<1>1. 0 \in 0..MaxServers
  BY ServerAssumption
<1> QED
  BY <1>1, MovedTo DEF Goes

\* A call that returns at once changes nothing else.
LEMMA ReturnsAtOnce ==
  ASSUME MethodInv, NEW u \in Users, serverCalls[u].at \in Returned,
         Goes(u, "done"), UNCHANGED <<dhtVars, overlayVars, historyVars>>
  PROVE  MethodInv'
<1>1. Moved(u, "done", 0)
  BY GoesMoves DEF MethodInv, Steps, Returned
<1> USE DEF MethodInv, dhtVars, overlayVars, historyVars
<1>2. MethodTypes'
  BY <1>1 DEF Moved, MethodTypes
<1>3. \A w \in Users : /\ serverCalls'[w].at \notin Returned => serverCalls[w].at \notin Returned
                       /\ \A step \in DhtSteps \cup OverlaySteps :
                            serverCalls'[w].at = step <=> serverCalls[w].at = step
                       /\ serverCalls[w].at \notin Returned => serverCalls'[w] = serverCalls[w]
  BY <1>1 DEF Moved, Returned, DhtSteps, OverlaySteps
<1>4. Alone'
  BY <1>3 DEF Alone
<1>5. DhtFacts'
  BY <1>3 DEF DhtFacts, DhtSteps, Returned
<1>6. OverlayFacts'
  BY <1>3 DEF OverlayFacts, DhtUsable, OverlaySteps
<1> QED
  BY <1>2, <1>4, <1>5, <1>6

\* A call that goes on was at work, so that it was alone.
LEMMA StaysAlone ==
  ASSUME MethodInv, NEW u \in Users, serverCalls[u].at \notin Returned,
         NEW step, NEW n, Moved(u, step, n), concurrent' = concurrent
  PROVE  Alone' /\ (~concurrent' => ~concurrent /\ OnlyOne(u))
  BY DEF MethodInv, Alone, Moved, OnlyOne

\* A call that begins is alone, or calls run at the same time.
LEMMA BeginsAlone ==
  ASSUME MethodInv, NEW u \in Users, NEW step, NEW n, Moved(u, step, n),
         concurrent' = (concurrent \/ Busy \ {u} # {})
  PROVE  Alone' /\ (~concurrent' => ~concurrent /\ OnlyOne(u))
<1>1. ~concurrent' => ~concurrent /\ OnlyOne(u)
  BY DEF Busy, OnlyOne
<1> QED
  BY <1>1 DEF Alone, OnlyOne, Moved

-----------------------------------------------------------------------------
(* The methods, one step for each.                                         *)

LEMMA StartDhtHolds ==
  ASSUME MethodInv, NEW u \in Users, serverCalls[u].at \in Returned, StartDht(u)
  PROVE  MethodInv'
<1>1. CASE dhtStarted
  BY <1>1, ReturnsAtOnce DEF StartDht, historyVars
<1>2. CASE ~dhtStarted
  <2>1. Moved(u, "dht_creating", 0)
    BY <1>2, MovedTo, ServerAssumption DEF StartDht, Enters, MethodInv, Steps, DhtSteps
  <2>2. Alone' /\ (~concurrent' => ~concurrent /\ OnlyOne(u))
    BY <1>2, <2>1, BeginsAlone DEF StartDht, Enters
  <2>3. MethodTypes'
    BY <1>2, <2>1 DEF StartDht, Enters, MethodInv, MethodTypes, Moved, dhtVars, overlayVars
  <2>4. DhtFacts'
    BY <1>2, <2>1, <2>2
    DEF StartDht, MethodInv, DhtFacts, Moved, OnlyOne, Returned, dhtVars, overlayVars
  <2>5. OverlayFacts'
    BY <1>2, <2>1, <2>2
    DEF StartDht, MethodInv, OverlayFacts, OverlaySteps, DhtUsable, Moved, OnlyOne,
        Returned, dhtVars, overlayVars
  <2> QED
    BY <2>2, <2>3, <2>4, <2>5 DEF MethodInv
<1> QED
  BY <1>1, <1>2

LEMMA DhtCreatedHolds ==
  ASSUME MethodInv, NEW u \in Users, DhtCreated(u)
  PROVE  MethodInv'
<1>1. Moved(u, "dht_starting", 0)
  BY GoesMoves DEF DhtCreated, MethodInv, Steps, DhtSteps
<1>2. Alone' /\ (~concurrent' => ~concurrent /\ OnlyOne(u))
  BY <1>1, StaysAlone DEF DhtCreated, At, Returned, historyVars
<1>3. MethodTypes'
  BY <1>1, ServerAssumption
  DEF DhtCreated, MethodInv, MethodTypes, Moved, overlayVars, historyVars
<1>4. ASSUME ~concurrent'
      PROVE  ~dhtStarted /\ live = {}
  BY <1>2, <1>4 DEF DhtCreated, At, MethodInv, DhtFacts, OnlyOne, Returned
<1>5. DhtFacts'
  BY <1>1, <1>2, <1>4
  DEF DhtCreated, At, DhtFacts, Moved, OnlyOne, Returned, overlayVars, historyVars
<1>6. OverlayFacts'
  BY <1>1, <1>2, <1>4
  DEF DhtCreated, At, MethodInv, OverlayFacts, OverlaySteps, DhtUsable, Moved, OnlyOne,
      Returned, overlayVars, historyVars
<1> QED
  BY <1>2, <1>3, <1>5, <1>6 DEF MethodInv

LEMMA DhtStartEndsHolds ==
  ASSUME MethodInv, NEW u \in Users, DhtStartEnds(u)
  PROVE  MethodInv'
<1>1. Moved(u, "done", 0)
  BY GoesMoves DEF DhtStartEnds, MethodInv, Steps, Returned
<1>2. Alone' /\ (~concurrent' => ~concurrent /\ OnlyOne(u))
  BY <1>1, StaysAlone DEF DhtStartEnds, At, Returned, historyVars
<1>3. MethodTypes'
  BY <1>1 DEF DhtStartEnds, MethodInv, MethodTypes, Moved, overlayVars, historyVars
<1>4. DhtFacts'
  BY <1>1, <1>2
  DEF DhtStartEnds, At, MethodInv, DhtFacts, Moved, OnlyOne, Returned, overlayVars,
      historyVars
<1>5. OverlayFacts'
  BY <1>1, <1>2
  DEF DhtStartEnds, At, MethodInv, DhtFacts, OverlayFacts, OverlaySteps, DhtUsable, Moved,
      OnlyOne, Returned, overlayVars, historyVars
<1> QED
  BY <1>2, <1>3, <1>4, <1>5 DEF MethodInv

LEMMA DhtStartFailsHolds ==
  ASSUME MethodInv, NEW u \in Users, DhtStartFails(u)
  PROVE  MethodInv'
<1>1. Moved(u, "failed", 0)
  BY GoesMoves DEF DhtStartFails, MethodInv, Steps, Returned
<1>2. Alone' /\ (~concurrent' => ~concurrent /\ OnlyOne(u))
  BY <1>1, StaysAlone DEF DhtStartFails, At, Returned, historyVars
<1>3. MethodTypes'
  <2>1. /\ node' \in 0..servers' /\ live' \subseteq 1..servers' /\ servers' = servers
        /\ dhtStarted' \in BOOLEAN
    <3>1. node' = 0 /\ live' \subseteq live /\ servers' = servers
      BY DEF DhtStartFails
    <3>2. dhtStarted' \in BOOLEAN
      BY DEF DhtStartFails
    <3> QED
      BY <3>1, <3>2, ServerAssumption DEF MethodInv, MethodTypes
  <2> QED
    BY <1>1, <2>1 DEF DhtStartFails, MethodInv, MethodTypes, Moved, overlayVars, historyVars
<1>4. ASSUME ~concurrent'
      PROVE  ~dhtStarted /\ live = {}
  BY <1>2, <1>4 DEF DhtStartFails, At, MethodInv, DhtFacts, OnlyOne, Returned
<1>5. DhtFacts'
  BY <1>1, <1>2, <1>4
  DEF DhtStartFails, At, DhtFacts, Moved, OnlyOne, Returned, overlayVars, historyVars
<1>6. OverlayFacts'
  BY <1>1, <1>2, <1>4
  DEF DhtStartFails, At, MethodInv, OverlayFacts, OverlaySteps, DhtUsable, Moved, OnlyOne,
      Returned, overlayVars, historyVars
<1> QED
  BY <1>2, <1>3, <1>5, <1>6 DEF MethodInv

LEMMA StopDhtHolds ==
  ASSUME MethodInv, NEW u \in Users, serverCalls[u].at \in Returned, StopDht(u)
  PROVE  MethodInv'
<1>1. CASE ~DhtUsable
  BY <1>1, ReturnsAtOnce DEF StopDht, DhtUsable, historyVars
<1>2. CASE DhtUsable
  <2>1. Moved(u, "dht_stopping", node)
    <3>1. node \in 0..MaxServers
      BY ServerAssumption DEF MethodInv, MethodTypes
    <3> QED
      BY <1>2, <3>1, MovedTo DEF StopDht, DhtUsable, Enters, MethodInv, Steps, DhtSteps
  <2>2. Alone' /\ (~concurrent' => ~concurrent /\ OnlyOne(u))
    BY <1>2, <2>1, BeginsAlone DEF StopDht, DhtUsable, Enters
  <2>3. MethodTypes'
    BY <1>2, <2>1
    DEF StopDht, DhtUsable, Enters, MethodInv, MethodTypes, Moved, dhtVars, overlayVars
  <2>4. DhtFacts'
    BY <1>2, <2>1, <2>2
    DEF StopDht, DhtUsable, MethodInv, DhtFacts, Moved, OnlyOne, Returned, dhtVars,
        overlayVars
  <2>5. OverlayFacts'
    BY <1>2, <2>1, <2>2
    DEF StopDht, MethodInv, OverlayFacts, OverlaySteps, DhtUsable, Moved, OnlyOne,
        Returned, dhtVars, overlayVars
  <2> QED
    BY <2>2, <2>3, <2>4, <2>5 DEF MethodInv
<1> QED
  BY <1>1, <1>2

LEMMA DhtStopEndsHolds ==
  ASSUME MethodInv, NEW u \in Users, DhtStopEnds(u)
  PROVE  MethodInv'
<1>1. Moved(u, "done", 0)
  BY GoesMoves DEF DhtStopEnds, MethodInv, Steps, Returned
<1>2. Alone' /\ (~concurrent' => ~concurrent /\ OnlyOne(u))
  BY <1>1, StaysAlone DEF DhtStopEnds, At, Returned, historyVars
<1>3. MethodTypes'
  <2>1. /\ node' \in 0..servers' /\ live' \subseteq 1..servers' /\ servers' = servers
        /\ dhtStarted' \in BOOLEAN
    <3>1. node' = 0 /\ live' \subseteq live /\ servers' = servers
      BY DEF DhtStopEnds
    <3>2. dhtStarted' \in BOOLEAN
      BY DEF DhtStopEnds
    <3> QED
      BY <3>1, <3>2, ServerAssumption DEF MethodInv, MethodTypes
  <2> QED
    BY <1>1, <2>1 DEF DhtStopEnds, MethodInv, MethodTypes, Moved, overlayVars, historyVars
<1>4. ASSUME ~concurrent'
      PROVE  live' = {} /\ (~overlayStarted \/ pulled)
  BY <1>2, <1>4 DEF DhtStopEnds, At, MethodInv, DhtFacts
<1>5. DhtFacts'
  BY <1>1, <1>2, <1>4
  DEF DhtStopEnds, At, DhtFacts, Moved, OnlyOne, Returned, overlayVars, historyVars
<1>6. OverlayFacts'
  BY <1>1, <1>2, <1>4
  DEF DhtStopEnds, At, MethodInv, OverlayFacts, OverlaySteps, DhtUsable, Moved, OnlyOne,
      Returned, overlayVars, historyVars
<1> QED
  BY <1>2, <1>3, <1>5, <1>6 DEF MethodInv

LEMMA StartOverlayHolds ==
  ASSUME MethodInv, NEW u \in Users, serverCalls[u].at \in Returned, StartOverlay(u)
  PROVE  MethodInv'
<1>1. CASE overlayStarted
  BY <1>1, ReturnsAtOnce DEF StartOverlay, historyVars
<1>2. CASE ~overlayStarted
  <2>1. Moved(u, "keys", 0)
    BY <1>2, MovedTo, ServerAssumption
    DEF StartOverlay, Enters, MethodInv, Steps, OverlaySteps
  <2>2. Alone' /\ (~concurrent' => ~concurrent /\ OnlyOne(u))
    BY <1>2, <2>1, BeginsAlone DEF StartOverlay, Enters
  <2>3. MethodTypes'
    BY <1>2, <2>1
    DEF StartOverlay, Enters, MethodInv, MethodTypes, Moved, dhtVars, overlayVars
  <2>4. DhtFacts'
    BY <1>2, <2>1, <2>2
    DEF StartOverlay, MethodInv, DhtFacts, Moved, OnlyOne, Returned, dhtVars, overlayVars
  <2>5. OverlayFacts'
    BY <1>2, <2>1, <2>2
    DEF StartOverlay, MethodInv, OverlayFacts, OverlaySteps, DhtUsable, Moved, OnlyOne,
        Returned, dhtVars, overlayVars
  <2> QED
    BY <2>2, <2>3, <2>4, <2>5 DEF MethodInv
<1> QED
  BY <1>1, <1>2

\* The keys are ready, or are not: only the call moves.
LEMMA KeysHold ==
  ASSUME MethodInv, NEW u \in Users, KeysReady(u) \/ KeysFail(u)
  PROVE  MethodInv'
<1>1. PICK step \in {"publishing", "failed"} :
        /\ Goes(u, step) /\ (step = "publishing" => DhtUsable)
        /\ UNCHANGED <<dhtVars, overlayVars, historyVars>>
  BY DEF KeysReady, KeysFail
<1>2. serverCalls[u].at = "keys"
  BY DEF KeysReady, KeysFail, At
<1>3. Moved(u, step, 0)
  BY <1>1, GoesMoves DEF MethodInv, Steps, Returned, OverlaySteps
<1>4. Alone' /\ (~concurrent' => ~concurrent /\ OnlyOne(u))
  BY <1>1, <1>2, <1>3, StaysAlone DEF Returned, historyVars
<1>5. MethodTypes'
  BY <1>1, <1>3 DEF MethodInv, MethodTypes, Moved, dhtVars, overlayVars, historyVars
<1>6. DhtFacts'
  BY <1>1, <1>2, <1>3, <1>4
  DEF MethodInv, DhtFacts, Moved, OnlyOne, Returned, dhtVars, overlayVars, historyVars
<1>7. OverlayFacts'
  BY <1>1, <1>2, <1>3, <1>4
  DEF MethodInv, OverlayFacts, OverlaySteps, DhtUsable, Moved, OnlyOne, Returned, dhtVars,
      overlayVars, historyVars
<1> QED
  BY <1>4, <1>5, <1>6, <1>7 DEF MethodInv

LEMMA PublishedHolds ==
  ASSUME MethodInv, NEW u \in Users, Published(u)
  PROVE  MethodInv'
<1>1. PICK step \in {"registering", "failed"} :
        /\ Goes(u, step) /\ (step = "failed" => ~DhtUsable)
        /\ step = "registering" =>
             keyExchangeOn' \in {keyExchangeOn, keyExchangeOn \cup {node}}
        /\ step = "failed" => keyExchangeOn' = keyExchangeOn
        /\ step = "registering" => DhtUsable
  BY DEF Published
<1>2. /\ serverCalls[u].at = "publishing"
      /\ publishers' = publishers + 1 /\ keyPublishTimer'
      /\ keyPublishTimer' \in BOOLEAN
      /\ UNCHANGED <<dhtVars, overlayStarted, overlayOn, cleaning, historyVars>>
  BY DEF Published, At
<1>3. Moved(u, step, 0)
  BY <1>1, GoesMoves DEF MethodInv, Steps, Returned, OverlaySteps
<1>4. Alone' /\ (~concurrent' => ~concurrent /\ OnlyOne(u))
  BY <1>2, <1>3, StaysAlone DEF Returned, historyVars
<1>5. MethodTypes'
  <2>1. keyExchangeOn' \subseteq 1..servers'
    <3>1. DhtUsable => node \in 1..servers
      BY ServerAssumption DEF MethodInv, MethodTypes, DhtUsable
    <3> QED
      BY <1>1, <1>2, <3>1 DEF MethodInv, MethodTypes, dhtVars
  <2> QED
    BY <1>2, <1>3, <2>1 DEF MethodInv, MethodTypes, Moved, dhtVars, historyVars
<1>6. DhtFacts'
  BY <1>1, <1>2, <1>3, <1>4
  DEF MethodInv, DhtFacts, Moved, OnlyOne, Returned, dhtVars, historyVars
<1>7. ASSUME ~concurrent'
      PROVE  /\ step = "registering" /\ DhtUsable /\ ~overlayStarted
             /\ ~keyPublishTimer /\ publishers = 0
  BY <1>1, <1>2, <1>4, <1>7 DEF MethodInv, OverlayFacts, OverlaySteps, OnlyOne, Returned
<1>8. OverlayFacts'
  BY <1>1, <1>2, <1>3, <1>4, <1>7
  DEF OverlayFacts, OverlaySteps, DhtUsable, Moved, OnlyOne, Returned, dhtVars
<1> QED
  BY <1>4, <1>5, <1>6, <1>8 DEF MethodInv

LEMMA OverlayRegisteredHolds ==
  ASSUME MethodInv, NEW u \in Users, OverlayRegistered(u)
  PROVE  MethodInv'
<1>1. PICK step \in {"done", "failed"} :
        /\ Goes(u, step)
        /\ step = "done" => DhtUsable /\ overlayOn' = overlayOn \cup {node} /\ overlayStarted'
        /\ step = "failed" =>
             ~DhtUsable /\ overlayOn' = overlayOn /\ overlayStarted' = overlayStarted
  BY DEF OverlayRegistered
<1>2. /\ serverCalls[u].at = "registering"
      /\ overlayStarted' \in BOOLEAN
      /\ UNCHANGED <<dhtVars, publishers, keyPublishTimer, keyExchangeOn, cleaning,
                     historyVars>>
  BY DEF OverlayRegistered, At, MethodInv, MethodTypes
<1>3. Moved(u, step, 0)
  BY <1>1, GoesMoves DEF MethodInv, Steps, Returned
<1>4. Alone' /\ (~concurrent' => ~concurrent /\ OnlyOne(u))
  BY <1>2, <1>3, StaysAlone DEF Returned, historyVars
<1>5. MethodTypes'
  <2>1. overlayOn' \subseteq 1..servers'
    <3>1. DhtUsable => node \in 1..servers
      BY ServerAssumption DEF MethodInv, MethodTypes, DhtUsable
    <3> QED
      BY <1>1, <1>2, <3>1 DEF MethodInv, MethodTypes, dhtVars
  <2> QED
    BY <1>2, <1>3, <2>1 DEF MethodInv, MethodTypes, Moved, dhtVars, historyVars
<1>6. DhtFacts'
  BY <1>1, <1>2, <1>3, <1>4
  DEF MethodInv, DhtFacts, Moved, OnlyOne, Returned, dhtVars, historyVars
<1>7. ASSUME ~concurrent'
      PROVE  step = "done" /\ DhtUsable /\ keyPublishTimer /\ publishers = 1
  BY <1>1, <1>2, <1>4, <1>7 DEF MethodInv, OverlayFacts
<1>8. OverlayFacts'
  BY <1>1, <1>2, <1>3, <1>4, <1>7
  DEF OverlayFacts, OverlaySteps, DhtUsable, Moved, OnlyOne, Returned, dhtVars
<1> QED
  BY <1>4, <1>5, <1>6, <1>8 DEF MethodInv

LEMMA StopOverlayHolds ==
  ASSUME MethodInv, NEW u \in Users, serverCalls[u].at \in Returned, StopOverlay(u)
  PROVE  MethodInv'
<1>1. CASE ~overlayStarted
  <2>1. concurrent' = concurrent
    BY <1>1 DEF StopOverlay, MethodInv, MethodTypes
  <2> QED
    BY <1>1, <2>1, ReturnsAtOnce DEF StopOverlay, historyVars
<1>2. CASE overlayStarted
  <2>1. PICK step \in {"done", "failed"} :
          /\ Goes(u, step)
          /\ step = "done" =>
               /\ overlayOn' = overlayOn \ {node} /\ keyExchangeOn' = keyExchangeOn \ {node}
               /\ ~overlayStarted' /\ overlayStarted' \in BOOLEAN /\ cleaning' \in BOOLEAN
          /\ step = "failed" =>
               /\ ~DhtUsable
               /\ UNCHANGED <<overlayOn, keyExchangeOn, cleaning, overlayStarted>>
    BY <1>2 DEF StopOverlay
  <2>2. /\ publishers' = IF keyPublishTimer THEN publishers - 1 ELSE publishers
        /\ ~keyPublishTimer' /\ keyPublishTimer' \in BOOLEAN
        /\ concurrent' = (concurrent \/ Busy \ {u} # {})
        /\ UNCHANGED <<node, dhtStarted, live, servers, pulled>>
    BY <1>2 DEF StopOverlay, ClearPublisher, dhtVars
  <2>3. Moved(u, step, 0)
    BY <2>1, GoesMoves DEF MethodInv, Steps, Returned
  <2>4. Alone' /\ (~concurrent' => ~concurrent /\ OnlyOne(u))
    BY <2>2, <2>3, BeginsAlone
  <2>5. MethodTypes'
    <3>1. publishers' \in Nat
      BY <2>2 DEF MethodInv, MethodTypes
    <3>2. /\ overlayOn' \subseteq 1..servers' /\ keyExchangeOn' \subseteq 1..servers'
          /\ overlayStarted' \in BOOLEAN /\ cleaning' \in BOOLEAN
      BY <2>1, <2>2 DEF MethodInv, MethodTypes
    <3>3. concurrent' \in BOOLEAN
      BY <2>2
    <3> QED
      BY <2>2, <2>3, <3>1, <3>2, <3>3 DEF MethodInv, MethodTypes, Moved
  <2>6. DhtFacts'
    <3>1. ~concurrent' => \A w \in Users : serverCalls[w].at \in Returned
                                         /\ serverCalls'[w].at \in Returned
      BY <2>1, <2>3, <2>4 DEF OnlyOne, Moved, Returned
    <3> QED
      BY <2>2, <2>4, <3>1 DEF MethodInv, DhtFacts, Returned
  <2>7. OverlayFacts'
    <3>1. ~concurrent' => \A w \in Users : serverCalls'[w].at \in Returned
      BY <2>1, <2>3, <2>4 DEF OnlyOne, Moved, Returned
    <3>2. ~concurrent' => publishers' = 0
      BY <2>2, <2>4 DEF MethodInv, MethodTypes, OverlayFacts
    <3>3. overlayStarted' /\ ~pulled' => concurrent'
      BY <1>2, <2>1, <2>2, <2>4 DEF MethodInv, OverlayFacts
    <3> QED
      BY <2>2, <3>1, <3>2, <3>3 DEF OverlayFacts, Returned, OverlaySteps
  <2> QED
    BY <2>4, <2>5, <2>6, <2>7 DEF MethodInv
<1> QED
  BY <1>1, <1>2

LEMMA CallProceedsHolds ==
  ASSUME MethodInv, NEW u \in Users, CallProceeds(u)
  PROVE  MethodInv'
  BY DhtCreatedHolds, DhtStartEndsHolds, DhtStartFailsHolds, DhtStopEndsHolds, KeysHold,
     PublishedHolds, OverlayRegisteredHolds
  DEF CallProceeds

-----------------------------------------------------------------------------
(* Who calls them.                                                         *)

\* What only the command's main and handlers do: no call moves.
LEMMA NothingCalled ==
  ASSUME MethodInv, CallsNothing
  PROVE  MethodInv'
  BY DEF CallsNothing, MethodInv, MethodTypes, Alone, DhtFacts, OverlayFacts, DhtUsable,
         dhtVars, overlayVars, historyVars

LEMMA LibraryHolds ==
  ASSUME ServerIInv, NEW c \in Callers, LibraryCall(c)
  PROVE  ServerIInv'
<1>1. c \in Users
  BY DEF Users
<1>2. MethodInv'
  BY <1>1, StartDhtHolds, StopDhtHolds, StartOverlayHolds, StopOverlayHolds
  DEF LibraryCall, ServerIInv
<1>3. CommandTypes'
  BY DEF LibraryCall, ServerIInv, CommandTypes, commandVars
<1> QED
  BY <1>2, <1>3 DEF ServerIInv

LEMMA ProceedHolds ==
  ASSUME ServerIInv, NEW u \in Users, Proceed(u)
  PROVE  ServerIInv'
<1>1. MethodInv'
  BY CallProceedsHolds DEF Proceed, ServerIInv
<1>2. CommandTypes'
  BY DEF Proceed, ServerIInv, CommandTypes, commandVars
<1> QED
  BY <1>1, <1>2 DEF ServerIInv

LEMMA MainHolds ==
  ASSUME ServerIInv, MainNext
  PROVE  ServerIInv'
<1> USE DEF ServerIInv
<1>1. "main" \in Users
  BY DEF Users
<1>2. MethodInv'
  <2>1. CASE PeersFetched
    BY <1>1, <2>1, StartDhtHolds DEF PeersFetched, MainIs, Returned
  <2>2. CASE FirstOverlayStart
    BY <1>1, <2>2, StartOverlayHolds DEF FirstOverlayStart, MainIs, Returned
  <2>3. CASE OverlayRetried
    BY <1>1, <2>3, StartOverlayHolds DEF OverlayRetried, MainIs, Returned
  <2>4. CASE OverlayStartFailed \/ Bootstrap \/ Discover \/ Serve \/ MainFails
    BY <2>4, NothingCalled DEF OverlayStartFailed, Bootstrap, Discover, Serve, MainFails
  <2> QED
    BY <2>1, <2>2, <2>3, <2>4 DEF MainNext
<1>3. CommandTypes'
  <2>1. CASE PeersFetched
    BY <2>1 DEF PeersFetched, MainTurns, CommandTypes, Phases
  <2>2. CASE FirstOverlayStart
    BY <2>2, ServerAssumption DEF FirstOverlayStart, MainTurns, CommandTypes, Phases
  <2>3. CASE OverlayRetried
    BY <2>3, ServerAssumption
    DEF OverlayRetried, Tried, MainIs, MainTurns, CommandTypes, Phases
  <2>4. CASE OverlayStartFailed
    BY <2>4 DEF OverlayStartFailed, MainTurns, CommandTypes, Phases
  <2>5. CASE Bootstrap \/ Discover
    BY <2>5 DEF Bootstrap, Discover, MainTurns, CommandTypes, Phases
  <2>6. CASE Serve
    BY <2>6 DEF Serve, MainTurns, CommandTypes, Phases
  <2>7. CASE MainFails
    BY <2>7 DEF MainFails, Exits, CommandTypes
  <2> QED
    BY <2>1, <2>2, <2>3, <2>4, <2>5, <2>6, <2>7 DEF MainNext
<1> QED
  BY <1>2, <1>3

LEMMA SignalHolds ==
  ASSUME ServerIInv, NEW s \in Signals,
         Signal(s) \/ ShutdownNode(s) \/ ShutdownEnds(s)
  PROVE  ServerIInv'
<1> USE DEF ServerIInv
<1>1. s \in Users
  BY DEF Users
<1>2. CASE Signal(s)
  <2>1. MethodInv'
    BY <1>1, <1>2, StopOverlayHolds DEF Signal, At, Returned
  <2> QED
    BY <1>2, <2>1 DEF Signal, CommandTypes, commandVars
<1>3. CASE ShutdownNode(s)
  <2>1. MethodInv'
    BY <1>1, <1>3, StopDhtHolds DEF ShutdownNode, At, Returned
  <2> QED
    BY <1>3, <2>1 DEF ShutdownNode, CommandTypes, commandVars
<1>4. CASE ShutdownEnds(s)
  <2>1. MethodInv'
    BY <1>1, <1>4, DhtStopEndsHolds, NothingCalled DEF ShutdownEnds
  <2>2. CommandTypes'
    BY <1>4 DEF ShutdownEnds, Exits, CommandTypes
  <2> QED
    BY <2>1, <2>2
<1> QED
  BY <1>2, <1>3, <1>4

LEMMA ServerStepHolds == ServerIInv /\ [ServerNext]_serverVars => ServerIInv'
<1> SUFFICES ASSUME ServerIInv, [ServerNext]_serverVars
             PROVE  ServerIInv'
  OBVIOUS
<1>1. CASE UNCHANGED serverVars
  <2>1. MethodInv'
    BY <1>1, NothingCalled DEF serverVars, CallsNothing, ServerIInv
  <2> QED
    BY <1>1, <2>1 DEF serverVars, commandVars, ServerIInv, CommandTypes
<1>2. CASE \E c \in Callers : LibraryCall(c)
  BY <1>2, LibraryHolds
<1>3. CASE \E u \in Callers \cup {"main"} : Proceed(u)
  BY <1>3, ProceedHolds DEF Users
<1>4. CASE MainNext
  BY <1>4, MainHolds
<1>5. CASE \E s \in Signals : Signal(s) \/ ShutdownNode(s) \/ ShutdownEnds(s)
  BY <1>5, SignalHolds
<1> QED
  BY <1>1, <1>2, <1>3, <1>4, <1>5 DEF ServerNext

LEMMA ServerSpecIInv == ServerSpec => []ServerIInv
  BY ServerInitHolds, ServerStepHolds, PTL DEF ServerSpec

LEMMA TypesOfServer == ServerIInv => ServerTypeOK
  BY DEF ServerIInv, MethodInv, MethodTypes, CommandTypes, ServerTypeOK, ServerCall, Steps

LEMMA AloneNothingIsLost == ServerIInv => NothingIsLost
  BY DEF ServerIInv, MethodInv, DhtFacts, OverlayFacts, NothingIsLost

LEMMA AloneOverlayServes == ServerIInv => StartedOverlayServes
  BY DEF ServerIInv, MethodInv, DhtFacts, OverlayFacts, DhtUsable, StartedOverlayServes

-----------------------------------------------------------------------------
\* The fields of the node, the overlay and the commands keep their types, for
\* any callers and any number of nodes and attempts.
THEOREM ServerTypeCorrect == ServerSpec => []ServerTypeOK
  BY ServerSpecIInv, TypesOfServer, PTL

\* As long as calls of start and stop do not overlap, no libp2p node runs that
\* stop could not reach, and no interval that it would not clear.
THEOREM SoloCallsLoseNothing == ServerSpec => []NothingIsLost
  BY ServerSpecIInv, AloneNothingIsLost, PTL

\* An overlay that says it is started has its protocol registered at the node in
\* use and publishes its key, whatever starts failed half-way before.
THEOREM SoloOverlayServes == ServerSpec => []StartedOverlayServes
  BY ServerSpecIInv, AloneOverlayServes, PTL

-----------------------------------------------------------------------------
(* The bridge: the types, and that a get after an acknowledged put finds a *)
(* value.                                                                  *)
(*                                                                         *)
(* The property speaks of answers; what holds it up is the local store: a  *)
(* key that is being put, or was acknowledged, has a value there, so that  *)
(* a get which had to ask the DHT began before any acknowledgement.        *)

\* A value of the key is stored locally while it is put, and from then on.
PutsAreStored ==
  /\ \A j \in Jobs : jobs[j].type = "put" => kvStore[jobs[j].key] # NoValue
  /\ \A k \in acknowledged : kvStore[k] # NoValue

\* A get that asks the DHT began before its key was acknowledged.
AskedBeforeAck ==
  \A j \in Jobs : jobs[j].type = "get" => ~ jobs[j].ackedBefore

BridgeIInv == BridgeTypeOK /\ PutsAreStored /\ AskedBeforeAck /\ AcknowledgedIsFound

LEMMA BridgeInitHolds == BridgeInit => BridgeIInv
<1> SUFFICES ASSUME BridgeInit PROVE BridgeIInv
  OBVIOUS
<1>1. NoJob \in Job /\ NoJob.type = "none"
  BY DEF NoJob, Job
<1>2. NoAnswer \in Answer /\ NoAnswer.type = "none"
  BY DEF NoAnswer, Answer
<1>3. BridgeTypeOK
  BY <1>1, <1>2, BridgeAssumption DEF BridgeInit, BridgeTypeOK, Stored
<1>4. PutsAreStored /\ AskedBeforeAck /\ AcknowledgedIsFound
  BY <1>1, <1>2 DEF BridgeInit, PutsAreStored, AskedBeforeAck, AcknowledgedIsFound
<1> QED
  BY <1>3, <1>4 DEF BridgeIInv

-----------------------------------------------------------------------------
(* What jobs and answers are made of.                                      *)

LEMMA JobFields ==
  ASSUME BridgeTypeOK, NEW j \in Jobs
  PROVE  /\ jobs[j].type \in {"put", "get"} =>
              jobs[j].client \in Clients /\ jobs[j].key \in BridgeKeys
         /\ jobs[j].type = "put" => jobs[j].value \in BridgeValues
         /\ jobs[j].type = "get" => jobs[j].value \in BridgeValues \cup {NoValue}
<1>1. jobs[j] \in Job
  BY DEF BridgeTypeOK
<1> QED
  BY <1>1 DEF Job, NoJob

\* A job that begins or ends is the only one that changes.
LEMMA OneJob ==
  ASSUME BridgeTypeOK, NEW j \in Jobs, NEW job \in Job,
         jobs' = [jobs EXCEPT ![j] = job]
  PROVE  /\ jobs' \in [Jobs -> Job]
         /\ jobs'[j] = job
         /\ \A i \in Jobs \ {j} : jobs'[i] = jobs[i]
  BY DEF BridgeTypeOK

\* So is the answer that is sent.
LEMMA OneAnswer ==
  ASSUME BridgeTypeOK, AcknowledgedIsFound, NEW j \in Jobs, NEW c, NEW answer \in Answer,
         answer.type = "get_response" /\ answer.ackedBefore => answer.value # NoValue,
         Answers(j, c, answer)
  PROVE  answers' \in [Jobs -> Answer] /\ AcknowledgedIsFound'
<1>1. NoAnswer \in Answer /\ NoAnswer.type = "none"
  BY DEF NoAnswer, Answer
<1>2. answers' \in [Jobs -> Answer]
  BY <1>1 DEF Answers, BridgeTypeOK
<1>3. ASSUME NEW i \in Jobs, answers'[i].type = "get_response", answers'[i].ackedBefore
      PROVE  answers'[i].value # NoValue
  <2>1. answers'[i] \in {answers[i], answer, NoAnswer}
    BY DEF Answers, BridgeTypeOK
  <2> QED
    BY <1>1, <1>3, <2>1 DEF AcknowledgedIsFound
<1> QED
  BY <1>2, <1>3 DEF AcknowledgedIsFound

\* The store only gains values.
LEMMA StoreGains ==
  ASSUME BridgeTypeOK, PutsAreStored, NEW k \in BridgeKeys, NEW v \in BridgeValues,
         kvStore' = [kvStore EXCEPT ![k] = v]
  PROVE  /\ kvStore' \in Stored
         /\ kvStore'[k] # NoValue
         /\ \A l \in BridgeKeys : kvStore[l] # NoValue => kvStore'[l] # NoValue
  BY BridgeAssumption DEF BridgeTypeOK, Stored

-----------------------------------------------------------------------------
(* One step per kind of action.                                            *)

LEMMA ClientSteps ==
  ASSUME BridgeIInv,
         \/ \E c \in Clients : ClientConnects(c) \/ ClientCloses(c)
         \/ \E k \in BridgeKeys, v \in BridgeValues \cup {NoValue} : DhtChanges(k, v)
  PROVE  BridgeIInv'
  BY DEF ClientConnects, ClientCloses, DhtChanges, BridgeIInv, BridgeTypeOK, Stored,
         PutsAreStored, AskedBeforeAck, AcknowledgedIsFound

LEMMA BeginSteps ==
  ASSUME BridgeIInv, NEW j \in Jobs, NEW c \in Clients,
         \/ \E k \in BridgeKeys :
              (\E v \in BridgeValues : PutBegins(j, c, k, v)) \/ GetBegins(j, c, k)
         \/ \E type \in {"closest_peers", "overlay_echo"} : AskBegins(j, c, type)
  PROVE  BridgeIInv'
<1> USE DEF BridgeIInv
<1>0. handled' \in 0..MaxJobs
  BY BridgeAssumption DEF PutBegins, GetBegins, AskBegins, Begins, BridgeTypeOK
<1>1. ASSUME NEW k \in BridgeKeys, NEW v \in BridgeValues, PutBegins(j, c, k, v)
      PROVE  BridgeIInv'
  <2>1. Put(c, k, v) \in Job /\ Put(c, k, v).type = "put" /\ Put(c, k, v).key = k
    BY DEF Put, Job
  <2>2. /\ jobs' \in [Jobs -> Job] /\ jobs'[j] = Put(c, k, v)
        /\ \A i \in Jobs \ {j} : jobs'[i] = jobs[i]
    BY <1>1, <2>1, OneJob DEF PutBegins, Begins
  <2>3. /\ kvStore' \in Stored /\ kvStore'[k] # NoValue
        /\ \A l \in BridgeKeys : kvStore[l] # NoValue => kvStore'[l] # NoValue
    BY <1>1, StoreGains DEF PutBegins
  <2>4. PutsAreStored'
    BY <1>1, <2>1, <2>2, <2>3, JobFields DEF PutBegins, PutsAreStored, BridgeTypeOK
  <2>5. AskedBeforeAck' /\ AcknowledgedIsFound' /\ BridgeTypeOK'
    BY <1>0, <1>1, <2>1, <2>2, <2>3
    DEF PutBegins, AskedBeforeAck, AcknowledgedIsFound, BridgeTypeOK
  <2> QED
    BY <2>4, <2>5
<1>2. ASSUME NEW k \in BridgeKeys, GetBegins(j, c, k)
      PROVE  BridgeIInv'
  <2>1. k \notin acknowledged /\ dhtStore[k] \in BridgeValues \cup {NoValue}
    BY <1>2 DEF GetBegins, PutsAreStored, BridgeTypeOK, Stored
  <2> DEFINE get == Get(c, k, dhtStore[k])
  <2>2. get \in Job /\ get.type = "get" /\ ~ get.ackedBefore
    <3>1. (k \in acknowledged) = FALSE
      BY <2>1
    <3>2. get = [type |-> "get", client |-> c, key |-> k, value |-> dhtStore[k],
                 ackedBefore |-> FALSE]
      BY ONLY <3>1, Zenon DEF Get
    <3> QED
      BY <2>1, <3>2 DEF Job
  <2>3. /\ jobs' \in [Jobs -> Job] /\ jobs'[j] = get
        /\ \A i \in Jobs \ {j} : jobs'[i] = jobs[i]
    BY <1>2, <2>2, OneJob DEF GetBegins, Begins
  <2> QED
    BY <1>0, <1>2, <2>2, <2>3
    DEF GetBegins, PutsAreStored, AskedBeforeAck, AcknowledgedIsFound, BridgeTypeOK
<1>3. ASSUME NEW type \in {"closest_peers", "overlay_echo"}, AskBegins(j, c, type)
      PROVE  BridgeIInv'
  <2>1. Ask(c, type) \in Job /\ Ask(c, type).type \notin {"put", "get"}
    BY DEF Ask, Job
  <2>2. /\ jobs' \in [Jobs -> Job] /\ jobs'[j] = Ask(c, type)
        /\ \A i \in Jobs \ {j} : jobs'[i] = jobs[i]
    BY <1>3, <2>1, OneJob DEF AskBegins, Begins
  <2> QED
    BY <1>0, <1>3, <2>1, <2>2
    DEF AskBegins, PutsAreStored, AskedBeforeAck, AcknowledgedIsFound, BridgeTypeOK
<1> QED
  BY <1>1, <1>2, <1>3

LEMMA GetLocalStep ==
  ASSUME BridgeIInv, NEW j \in Jobs, NEW c \in Clients, NEW k \in BridgeKeys,
         GetLocal(j, c, k)
  PROVE  BridgeIInv'
<1> DEFINE answer == ValueAnswer(k, kvStore[k], k \in acknowledged)
<1>1. /\ answer \in Answer
      /\ answer.type = "get_response" /\ answer.ackedBefore => answer.value # NoValue
  BY DEF GetLocal, ValueAnswer, Answer, BridgeIInv, BridgeTypeOK, Stored
<1>2. answers' \in [Jobs -> Answer] /\ AcknowledgedIsFound'
  BY <1>1, OneAnswer DEF GetLocal, BridgeIInv
<1>3. handled' \in 0..MaxJobs
  BY BridgeAssumption DEF GetLocal, BridgeIInv, BridgeTypeOK
<1> QED
  BY <1>2, <1>3
  DEF GetLocal, BridgeIInv, BridgeTypeOK, PutsAreStored, AskedBeforeAck

LEMMA EndSteps ==
  ASSUME BridgeIInv, NEW j \in Jobs,
         \/ PutAccepted(j) \/ PutRefused(j) \/ GetMissing(j) \/ AskAnswered(j)
         \/ \E v \in BridgeValues : GetFound(j, v)
  PROVE  BridgeIInv'
<1> USE DEF BridgeIInv
<1>1. NoJob \in Job /\ NoJob.type = "none"
  BY DEF NoJob, Job
<1>2. /\ jobs' \in [Jobs -> Job] /\ jobs'[j] = NoJob
      /\ \A i \in Jobs \ {j} : jobs'[i] = jobs[i]
  BY <1>1, OneJob
  DEF PutAccepted, PutRefused, GetMissing, AskAnswered, GetFound, JobEnds
<1>3. AskedBeforeAck'
  BY <1>1, <1>2 DEF AskedBeforeAck
<1>4. CASE PutAccepted(j)
  <2> DEFINE k == jobs[j].key
  <2>1. k \in BridgeKeys /\ jobs[j].value \in BridgeValues /\ kvStore[k] # NoValue
    BY <1>4, JobFields DEF PutAccepted, PutsAreStored
  <2>2. AckOf(j) \in Answer /\ AckOf(j).type = "put_ack"
    BY <2>1 DEF AckOf, Answer
  <2>3. answers' \in [Jobs -> Answer] /\ AcknowledgedIsFound'
    BY <1>4, <2>2, OneAnswer DEF PutAccepted
  <2>4. PutsAreStored'
    BY <1>1, <1>2, <1>4, <2>1 DEF PutAccepted, PutsAreStored
  <2>5. BridgeTypeOK'
    BY <1>2, <1>4, <2>1, <2>3 DEF PutAccepted, BridgeTypeOK, Stored
  <2> QED
    BY <1>3, <2>3, <2>4, <2>5
<1>5. CASE PutRefused(j)
  <2>1. ErrorAnswer \in Answer /\ ErrorAnswer.type = "error"
    BY DEF ErrorAnswer, Answer
  <2>2. answers' \in [Jobs -> Answer] /\ AcknowledgedIsFound'
    BY <1>5, <2>1, OneAnswer DEF PutRefused
  <2> QED
    BY <1>1, <1>2, <1>3, <1>5, <2>2 DEF PutRefused, PutsAreStored, BridgeTypeOK
<1>6. CASE GetMissing(j)
  <2> DEFINE answer == ValueAnswer(jobs[j].key, NoValue, jobs[j].ackedBefore)
  <2>1. jobs[j].key \in BridgeKeys /\ jobs[j].ackedBefore = FALSE
    <3>1. jobs[j] \in Job /\ jobs[j].type = "get"
      BY <1>6 DEF GetMissing, BridgeTypeOK
    <3>2. jobs[j].ackedBefore \in BOOLEAN
      BY <3>1 DEF Job, NoJob
    <3> QED
      BY <3>1, <3>2, JobFields DEF AskedBeforeAck
  <2>2. /\ answer \in Answer
        /\ answer.type = "get_response" /\ answer.ackedBefore => answer.value # NoValue
    BY <2>1 DEF ValueAnswer, Answer
  <2>3. answers' \in [Jobs -> Answer] /\ AcknowledgedIsFound'
    BY <1>6, <2>2, OneAnswer DEF GetMissing
  <2> QED
    BY <1>1, <1>2, <1>3, <1>6, <2>3 DEF GetMissing, CacheMiss, PutsAreStored, BridgeTypeOK
<1>7. CASE AskAnswered(j)
  <2>1. PICK type \in {"closest_peers_response", "overlay_echo_response", "error"} :
          Answers(j, jobs[j].client, [type |-> type])
    BY <1>7 DEF AskAnswered
  <2>2. [type |-> type] \in Answer /\ [type |-> type].type # "get_response"
    BY DEF Answer
  <2>3. answers' \in [Jobs -> Answer] /\ AcknowledgedIsFound'
    BY <2>1, <2>2, OneAnswer
  <2> QED
    BY <1>1, <1>2, <1>3, <1>7, <2>3 DEF AskAnswered, PutsAreStored, BridgeTypeOK
<1>8. ASSUME NEW v \in BridgeValues, GetFound(j, v)
      PROVE  BridgeIInv'
  <2> DEFINE answer == ValueAnswer(jobs[j].key, v, jobs[j].ackedBefore)
  <2>1. jobs[j].key \in BridgeKeys /\ jobs[j].ackedBefore \in BOOLEAN
    <3>1. jobs[j] \in Job /\ jobs[j].type = "get"
      BY <1>8 DEF GetFound, BridgeTypeOK
    <3> QED
      BY <3>1, JobFields DEF Job, NoJob
  <2>2. answer \in Answer /\ answer.value # NoValue
    BY <2>1, BridgeAssumption DEF ValueAnswer, Answer
  <2>3. answers' \in [Jobs -> Answer] /\ AcknowledgedIsFound'
    BY <1>8, <2>2, OneAnswer DEF GetFound
  <2>4. /\ kvStore' \in Stored
        /\ \A l \in BridgeKeys : kvStore[l] # NoValue => kvStore'[l] # NoValue
    BY <1>8, <2>1, StoreGains DEF GetFound
  <2>5. PutsAreStored'
    BY <1>1, <1>2, <1>8, <2>4, JobFields DEF GetFound, PutsAreStored, BridgeTypeOK
  <2> QED
    BY <1>2, <1>3, <1>8, <2>3, <2>4, <2>5 DEF GetFound, BridgeTypeOK
<1> QED
  BY <1>4, <1>5, <1>6, <1>7, <1>8

LEMMA BridgeStepHolds == BridgeIInv /\ [BridgeNext]_bridgeVars => BridgeIInv'
<1> SUFFICES ASSUME BridgeIInv, [BridgeNext]_bridgeVars
             PROVE  BridgeIInv'
  OBVIOUS
<1>1. CASE UNCHANGED bridgeVars
  BY <1>1
  DEF bridgeVars, BridgeIInv, BridgeTypeOK, PutsAreStored, AskedBeforeAck,
      AcknowledgedIsFound
<1>2. CASE \E c \in Clients : ClientConnects(c) \/ ClientCloses(c)
  BY <1>2, ClientSteps
<1>3. CASE \E k \in BridgeKeys, v \in BridgeValues \cup {NoValue} : DhtChanges(k, v)
  BY <1>3, ClientSteps
<1>4. ASSUME NEW j \in Jobs, NEW c \in Clients, NEW k \in BridgeKeys,
             (\E v \in BridgeValues : PutBegins(j, c, k, v)) \/ GetBegins(j, c, k)
      PROVE  BridgeIInv'
  BY <1>4, BeginSteps
<1>5. ASSUME NEW j \in Jobs, NEW c \in Clients,
             NEW type \in {"closest_peers", "overlay_echo"}, AskBegins(j, c, type)
      PROVE  BridgeIInv'
  BY <1>5, BeginSteps
<1>6. ASSUME NEW j \in Jobs, NEW c \in Clients, NEW k \in BridgeKeys, GetLocal(j, c, k)
      PROVE  BridgeIInv'
  BY <1>6, GetLocalStep
<1>7. ASSUME NEW j \in Jobs,
             \/ PutAccepted(j) \/ PutRefused(j) \/ GetMissing(j) \/ AskAnswered(j)
             \/ \E v \in BridgeValues : GetFound(j, v)
      PROVE  BridgeIInv'
  BY <1>7, EndSteps
<1> QED
  BY <1>1, <1>2, <1>3, <1>4, <1>5, <1>6, <1>7 DEF BridgeNext

LEMMA BridgeSpecIInv == BridgeSpec => []BridgeIInv
  BY BridgeInitHolds, BridgeStepHolds, PTL DEF BridgeSpec

-----------------------------------------------------------------------------
\* The bridge's maps, messages and answers keep their types.
THEOREM BridgeTypeCorrect == BridgeSpec => []BridgeTypeOK
  BY BridgeSpecIInv, PTL DEF BridgeIInv

\* For any clients, keys and values: a get that began after an acknowledged put
\* of its key is answered with a value.
THEOREM AcknowledgedPutsAreFound == BridgeSpec => []AcknowledgedIsFound
  BY BridgeSpecIInv, PTL DEF BridgeIInv

-----------------------------------------------------------------------------
(* The distance: what compareDistance and getBucketIndex say of two ids.   *)
(*                                                                         *)
(* Both look for the first place at which something differs: the bytes of  *)
(* the distances, and in the deciding byte its bits.  A bucket is the place*)
(* of the first 1 of a distance.  Of two peers and the local node, a bit of*)
(* one of the three distances is the sum of those of the others; so if the *)
(* first 1s of two are at the same place the third is 0 up to there, and   *)
(* otherwise it has the earlier one.                                       *)

\* The place that decides is the first.
LEMMA FirstPlace ==
  ASSUME NEW S, S \subseteq Nat, S # {}
  PROVE  /\ Decisive(S) \in S
         /\ \A i \in S : Decisive(S) <= i
<1>1. \E x \in S : \A y \in S : x <= y
  BY LeastNumber
<1> QED
  BY <1>1 DEF Decisive, Min

LEMMA ByteFacts ==
  /\ ZeroByte \in Byte
  /\ \A x, y \in Byte : XorByte(x, y) \in Byte /\ (XorByte(x, y) = ZeroByte <=> x = y)
  /\ \A id \in PeerIds : /\ id \in Seq(Byte) /\ Len(id) \in 1..IdBytes
                         /\ \A i \in Nat \ {0} : ByteAt(id, i) \in Byte
<1>1. ZeroByte \in Byte
  BY DEF ZeroByte, Byte
<1>2. ASSUME NEW x \in Byte, NEW y \in Byte
      PROVE  XorByte(x, y) \in Byte /\ (XorByte(x, y) = ZeroByte <=> x = y)
  <2>1. \A b \in 1..ByteBits : x[b] \in {0, 1} /\ y[b] \in {0, 1}
    BY DEF Byte
  <2>2. \A b \in 1..ByteBits :
          (x[b] + y[b]) % 2 \in {0, 1} /\ ((x[b] + y[b]) % 2 = 0 <=> x[b] = y[b])
    BY <2>1
  <2>3. XorByte(x, y) = ZeroByte <=> \A b \in 1..ByteBits : (x[b] + y[b]) % 2 = 0
    BY DEF XorByte, ZeroByte
  <2>4. x = y <=> \A b \in 1..ByteBits : x[b] = y[b]
    <3>1. x = [b \in 1..ByteBits |-> x[b]] /\ y = [b \in 1..ByteBits |-> y[b]]
      BY DEF Byte
    <3> QED
      BY <3>1
  <2>5. XorByte(x, y) \in Byte
    BY <2>2 DEF XorByte, Byte
  <2> QED
    BY <2>2, <2>3, <2>4, <2>5
<1>3. ASSUME NEW id \in PeerIds
      PROVE  /\ id \in Seq(Byte) /\ Len(id) \in 1..IdBytes
             /\ \A i \in Nat \ {0} : ByteAt(id, i) \in Byte
  <2>1. PICK n \in 1..IdBytes : id \in [1..n -> Byte]
    BY DEF PeerIds
  <2>2. n \in Nat
    BY <2>1
  <2>3. id \in Seq(Byte) /\ Len(id) = n
    BY <2>1, <2>2
  <2>4. ASSUME NEW i \in Nat \ {0} PROVE ByteAt(id, i) \in Byte
    BY <1>1, <2>1, <2>2, <2>3 DEF ByteAt
  <2> QED
    BY <2>1, <2>3, <2>4
<1> QED
  BY <1>1, <1>2, <1>3

Distances == {d \in Seq(Byte) : Len(d) \in 1..IdBytes}
SetBytes(d) == {i \in Nat \ {0} : ByteAt(d, i) # ZeroByte}
SetBits(x) == {b \in 1..ByteBits : x[b] = 1}

LEMMA DistanceBytes ==
  ASSUME NEW a \in PeerIds, NEW b \in PeerIds
  PROVE  /\ xorDistance(a, b) \in Distances
         /\ Len(xorDistance(a, b)) = Longer(a, b)
         /\ \A i \in Nat \ {0} :
              ByteAt(xorDistance(a, b), i) = XorByte(ByteAt(a, i), ByteAt(b, i))
<1> DEFINE n == Longer(a, b)
           d == xorDistance(a, b)
<1>1. /\ Len(a) \in Nat /\ Len(b) \in Nat /\ n \in 1..IdBytes /\ n \in Nat
      /\ Len(a) <= n /\ Len(b) <= n
  BY ByteFacts DEF Longer
<1>2. \A i \in Nat \ {0} : XorByte(ByteAt(a, i), ByteAt(b, i)) \in Byte
  BY ByteFacts
<1>3. d = [i \in 1..n |-> XorByte(ByteAt(a, i), ByteAt(b, i))]
  BY DEF xorDistance
<1> HIDE DEF n, d
<1>4. d \in Seq(Byte) /\ Len(d) = n
  <2>1. d \in [1..n -> Byte]
    BY <1>1, <1>2, <1>3
  <2> QED
    BY <1>1, <2>1
<1>5. ASSUME NEW i \in Nat \ {0} PROVE ByteAt(d, i) = XorByte(ByteAt(a, i), ByteAt(b, i))
  <2>1. CASE i <= n
    <3>1. d[i] = XorByte(ByteAt(a, i), ByteAt(b, i))
      BY <1>1, <1>3, <2>1
    <3> QED
      BY <1>4, <2>1, <3>1 DEF ByteAt
  <2>2. CASE ~ (i <= n)
    <3>1. ByteAt(a, i) = ZeroByte /\ ByteAt(b, i) = ZeroByte /\ ByteAt(d, i) = ZeroByte
      BY <1>1, <1>4, <2>2 DEF ByteAt
    <3> QED
      BY <3>1, ByteFacts
  <2> QED
    BY <2>1, <2>2
<1> QED
  BY <1>1, <1>4, <1>5 DEF Distances, n, d

\* The bytes of a distance that are not 0 are within it, and so are their bits.
LEMMA SetPlaces ==
  ASSUME NEW d \in Distances
  PROVE  /\ SetBytes(d) \subseteq 1..Len(d) /\ SetBytes(d) \subseteq 1..IdBytes
         /\ \A i \in Nat \ {0} : ByteAt(d, i) \in Byte
         /\ SetBytes(d) # {} =>
              /\ Decisive(SetBytes(d)) \in SetBytes(d)
              /\ \A i \in SetBytes(d) : Decisive(SetBytes(d)) <= i
<1>1. Len(d) \in Nat /\ Len(d) \in 1..IdBytes /\ IdBytes \in Nat
  BY DistanceAssumption DEF Distances
<1>2. SetBytes(d) \subseteq 1..Len(d)
  BY <1>1 DEF SetBytes, ByteAt
<1>3. SetBytes(d) \subseteq 1..IdBytes /\ SetBytes(d) \subseteq Nat
  BY <1>1, <1>2
<1>4. ASSUME NEW i \in Nat \ {0} PROVE ByteAt(d, i) \in Byte
  <2>1. CASE i <= Len(d)
    <3>1. i \in 1..Len(d) /\ d \in Seq(Byte)
      BY <1>1, <2>1 DEF Distances
    <3>2. d[i] \in Byte
      BY <3>1
    <3> QED
      BY <2>1, <3>2 DEF ByteAt
  <2>2. CASE ~ (i <= Len(d))
    BY <2>2, ByteFacts DEF ByteAt
  <2> QED
    BY <2>1, <2>2
<1> QED
  BY <1>2, <1>3, <1>4, FirstPlace

LEMMA FirstBit ==
  ASSUME NEW x \in Byte
  PROVE  /\ x = ZeroByte <=> SetBits(x) = {}
         /\ SetBits(x) # {} => /\ Decisive(SetBits(x)) \in 1..ByteBits
                               /\ x[Decisive(SetBits(x))] = 1
                               /\ \A b \in SetBits(x) : Decisive(SetBits(x)) <= b
<1>1. SetBits(x) \subseteq Nat /\ SetBits(x) \subseteq 1..ByteBits
  BY DEF SetBits
<1>2. x = [b \in 1..ByteBits |-> x[b]] /\ \A b \in 1..ByteBits : x[b] \in {0, 1}
  BY DEF Byte
<1>3. x = ZeroByte <=> \A b \in 1..ByteBits : x[b] = 0
  BY <1>2 DEF ZeroByte
<1>4. x = ZeroByte <=> SetBits(x) = {}
  BY <1>2, <1>3 DEF SetBits
<1>5. SetBits(x) # {} => /\ Decisive(SetBits(x)) \in SetBits(x)
                         /\ \A b \in SetBits(x) : Decisive(SetBits(x)) <= b
  BY <1>1, FirstPlace
<1> QED
  BY <1>4, <1>5 DEF SetBits

\* The places are numbered in their order.
LEMMA PlaceOrder ==
  ASSUME NEW i \in 1..IdBytes, NEW z \in 1..ByteBits
  PROVE  /\ (i - 1) * ByteBits + (z - 1) \in 0..(ByteBits * IdBytes - 1)
         /\ \A j \in 1..IdBytes, y \in 1..ByteBits :
              i < j \/ (i = j /\ z < y) =>
                (i - 1) * ByteBits + (z - 1) < (j - 1) * ByteBits + (y - 1)
<1>1. ByteBits \in Nat /\ IdBytes \in Nat /\ i \in Nat /\ z \in Nat
  BY DistanceAssumption
<1>2. ASSUME NEW m \in Nat, NEW n \in Nat, m + 1 <= n
      PROVE  m * ByteBits + ByteBits <= n * ByteBits
  <2>1. PICK e \in Nat : n = m + 1 + e
    <3>1. n - m - 1 \in Nat /\ n = m + 1 + (n - m - 1)
      BY <1>2
    <3> QED
      BY <3>1
  <2>2. n * ByteBits = m * ByteBits + ByteBits + e * ByteBits
    BY <1>1, <2>1
  <2>3. e * ByteBits \in Nat /\ m * ByteBits \in Nat
    BY <1>1
  <2> QED
    BY <1>1, <2>2, <2>3
<1>3. (i - 1) * ByteBits + (z - 1) \in 0..(ByteBits * IdBytes - 1)
  <2>1. i - 1 \in Nat /\ i - 1 + 1 <= IdBytes
    BY <1>1
  <2>2. (i - 1) * ByteBits + ByteBits <= IdBytes * ByteBits
    BY <1>1, <1>2, <2>1
  <2>3. IdBytes * ByteBits = ByteBits * IdBytes /\ (i - 1) * ByteBits \in Nat
        /\ ByteBits * IdBytes \in Nat
    BY <1>1, <2>1
  <2>4. z - 1 >= 0 /\ z - 1 <= ByteBits - 1
    BY <1>1
  <2> QED
    BY <1>1, <2>2, <2>3, <2>4
<1>4. ASSUME NEW j \in 1..IdBytes, NEW y \in 1..ByteBits, i < j \/ (i = j /\ z < y)
      PROVE  (i - 1) * ByteBits + (z - 1) < (j - 1) * ByteBits + (y - 1)
  <2>1. CASE i < j
    <3>1. i - 1 \in Nat /\ j - 1 \in Nat /\ i - 1 + 1 <= j - 1
      BY <1>1, <2>1
    <3>2. (i - 1) * ByteBits + ByteBits <= (j - 1) * ByteBits
      BY <1>2, <3>1
    <3>3. (i - 1) * ByteBits \in Nat /\ (j - 1) * ByteBits \in Nat
      BY <1>1, <3>1
    <3>4. z - 1 < ByteBits /\ y - 1 >= 0 /\ y \in Nat
      BY <1>1
    <3> QED
      BY <1>1, <3>2, <3>3, <3>4
  <2>2. CASE i = j /\ z < y
    <3>1. (i - 1) * ByteBits \in Nat
      BY <1>1
    <3> QED
      BY <1>1, <2>2, <3>1
  <2> QED
    BY <1>4, <2>1, <2>2
<1> QED
  BY <1>3, <1>4

\* The place of the first bit of a distance: its byte and its position there.
FirstByte(d) == Decisive(SetBytes(d))
FirstBitOf(d) == Decisive(SetBits(ByteAt(d, FirstByte(d))))

LEMMA FirstPlaces ==
  ASSUME NEW d \in Distances, SetBytes(d) # {}
  PROVE  /\ FirstByte(d) \in 1..IdBytes /\ FirstBitOf(d) \in 1..ByteBits
         /\ ByteAt(d, FirstByte(d)) \in Byte
         /\ ByteAt(d, FirstByte(d))[FirstBitOf(d)] = 1
         /\ \A b \in SetBits(ByteAt(d, FirstByte(d))) : FirstBitOf(d) <= b
         /\ ByteAt(d, FirstByte(d)) # ZeroByte
         /\ \A i \in Nat \ {0} : ByteAt(d, i) # ZeroByte => FirstByte(d) <= i
<1>1. /\ FirstByte(d) \in SetBytes(d) /\ SetBytes(d) \subseteq 1..IdBytes
      /\ \A i \in SetBytes(d) : FirstByte(d) <= i
  BY SetPlaces DEF FirstByte
<1>2. FirstByte(d) \in Nat \ {0} /\ ByteAt(d, FirstByte(d)) # ZeroByte
  BY <1>1 DEF SetBytes
<1>3. ByteAt(d, FirstByte(d)) \in Byte
  BY <1>2, SetPlaces
<1>4. SetBits(ByteAt(d, FirstByte(d))) # {}
  BY <1>2, <1>3, FirstBit
<1> QED
  BY <1>1, <1>2, <1>3, <1>4, FirstBit DEF FirstBitOf, SetBytes

LEMMA IndexOf ==
  ASSUME NEW a \in PeerIds, NEW b \in PeerIds,
         NEW d, d = xorDistance(a, b)
  PROVE  getBucketIndex(a, b) =
           IF SetBytes(d) = {} THEN -1
           ELSE ByteBits * IdBytes - 1 - ((FirstByte(d) - 1) * ByteBits + (FirstBitOf(d) - 1))
<1>1. d \in Distances /\ DOMAIN d = 1..Len(d) /\ Len(d) \in Nat
  BY DistanceBytes DEF Distances
<1>2. SetBytes(d) = {i \in DOMAIN d : d[i] # ZeroByte}
  BY <1>1, SetPlaces DEF SetBytes, ByteAt
<1>3. ASSUME SetBytes(d) # {}
      PROVE  LeadingZeros(d[Decisive(SetBytes(d))]) = FirstBitOf(d) - 1
  <2>1. Decisive(SetBytes(d)) \in 1..Len(d)
    BY <1>1, <1>3, SetPlaces
  <2>2. ByteAt(d, Decisive(SetBytes(d))) = d[Decisive(SetBytes(d))]
    BY <1>1, <2>1 DEF ByteAt
  <2> QED
    BY <2>2 DEF FirstBitOf, FirstByte, LeadingZeros, SetBits
<1> QED
  BY <1>2, <1>3 DEF getBucketIndex, FirstByte

\* The first bit in which two distances differ is bit c of byte i.
FirstDifference(d, e, i, c) ==
  /\ \A k \in Nat \ {0} : k < i => ByteAt(d, k) = ByteAt(e, k)
  /\ \A b \in 1..ByteBits : b < c => ByteAt(d, i)[b] = ByteAt(e, i)[b]
  /\ ByteAt(d, i)[c] # ByteAt(e, i)[c]

\* compareDistance finds it, if there is one.
LEMMA ComparedBit ==
  ASSUME NEW d \in Distances, NEW e \in Distances, compareDistance(d, e) # 0
  PROVE  \E i \in Nat \ {0}, c \in 1..ByteBits :
           /\ FirstDifference(d, e, i, c)
           /\ compareDistance(d, e) = IF ByteAt(d, i)[c] = 0 THEN -1 ELSE 1
<1> DEFINE differing == {i \in 1..Longer(d, e) : ByteAt(d, i) # ByteAt(e, i)}
           i == Decisive(differing)
           x == ByteAt(d, i)
           y == ByteAt(e, i)
           bits == {b \in 1..ByteBits : x[b] # y[b]}
           c == Decisive(bits)
<1>1. Len(d) \in Nat /\ Len(e) \in Nat /\ Longer(d, e) \in Nat
      /\ Len(d) <= Longer(d, e) /\ Len(e) <= Longer(d, e)
  BY DEF Distances, Longer
<1>2. differing # {} /\ compareDistance(d, e) = IF Less(x, y) THEN -1 ELSE 1
  BY DEF compareDistance
<1>3. i \in differing /\ \A k \in differing : i <= k
  <2>1. differing \subseteq Nat
    OBVIOUS
  <2> HIDE DEF differing
  <2> QED
    BY <1>2, <2>1, FirstPlace
<1>4. i \in Nat \ {0} /\ x # y /\ x \in Byte /\ y \in Byte
  BY <1>1, <1>3, SetPlaces
<1>5. \A k \in Nat \ {0} : k < i => ByteAt(d, k) = ByteAt(e, k)
  <2> SUFFICES ASSUME NEW k \in Nat \ {0}, k < i, ByteAt(d, k) # ByteAt(e, k) PROVE FALSE
    OBVIOUS
  <2>1. k \in 1..Longer(d, e)
    BY <1>1, <1>3
  <2>2. i <= k
    BY <1>3, <2>1
  <2> QED
    BY <1>4, <2>2
<1>6. bits # {}
  <2>1. x = [b \in 1..ByteBits |-> x[b]] /\ y = [b \in 1..ByteBits |-> y[b]]
    BY <1>4 DEF Byte
  <2> QED
    BY <1>4, <2>1
<1>7. Less(x, y) <=> x[c] = 0
  BY <1>6 DEF Less
<1> HIDE DEF i
<1>8. c \in bits /\ \A b \in bits : c <= b
  <2>1. bits \subseteq Nat
    OBVIOUS
  <2> HIDE DEF bits
  <2> QED
    BY <1>6, <2>1, FirstPlace
<1> HIDE DEF c
<1>9. c \in 1..ByteBits /\ x[c] # y[c] /\ \A b \in 1..ByteBits : b < c => x[b] = y[b]
  BY <1>8
<1>10. FirstDifference(d, e, i, c)
  BY <1>5, <1>9 DEF FirstDifference
<1> QED
  BY <1>2, <1>4, <1>7, <1>9, <1>10

\* There is one if any bytes differ, and it decides.
LEMMA ComparedAs ==
  ASSUME NEW d \in Distances, NEW e \in Distances, NEW i \in Nat \ {0}, NEW c \in 1..ByteBits,
         FirstDifference(d, e, i, c)
  PROVE  compareDistance(d, e) = IF ByteAt(d, i)[c] = 0 THEN -1 ELSE 1
<1>1. ByteAt(d, i) # ByteAt(e, i)
  BY DEF FirstDifference
<1>2. i \in 1..Longer(d, e)
  <2>1. /\ Len(d) \in Nat /\ Len(e) \in Nat /\ Longer(d, e) \in Nat
        /\ Len(d) <= Longer(d, e) /\ Len(e) <= Longer(d, e)
    BY DEF Distances, Longer
  <2>2. ~ (i > Len(d) /\ i > Len(e))
    BY <1>1, <2>1 DEF ByteAt
  <2> QED
    BY <2>1, <2>2
<1>3. compareDistance(d, e) # 0
  BY <1>1, <1>2 DEF compareDistance
<1>4. PICK j \in Nat \ {0}, b \in 1..ByteBits :
        /\ FirstDifference(d, e, j, b)
        /\ compareDistance(d, e) = IF ByteAt(d, j)[b] = 0 THEN -1 ELSE 1
  BY <1>3, ComparedBit
<1>5. ByteAt(d, j) # ByteAt(e, j)
  BY <1>4 DEF FirstDifference
<1>6. j = i
  BY <1>1, <1>4, <1>5 DEF FirstDifference
<1>7. b = c
  BY <1>4, <1>6 DEF FirstDifference
<1> QED
  BY <1>4, <1>6, <1>7

\* Bit z of byte i is the first 1 of a distance.
FirstOne(d, i, z) ==
  /\ \A k \in Nat \ {0} : k < i => \A b \in 1..ByteBits : ByteAt(d, k)[b] = 0
  /\ \A b \in 1..ByteBits : b < z => ByteAt(d, i)[b] = 0
  /\ ByteAt(d, i)[z] = 1

LEMMA FirstOneOf ==
  ASSUME NEW d \in Distances, SetBytes(d) # {}
  PROVE  FirstOne(d, FirstByte(d), FirstBitOf(d))
<1> DEFINE i == FirstByte(d)
           z == FirstBitOf(d)
<1>1. /\ i \in Nat \ {0} /\ z \in Nat /\ ByteAt(d, i) \in Byte /\ ByteAt(d, i)[z] = 1
      /\ \A b \in SetBits(ByteAt(d, i)) : z <= b
      /\ \A k \in Nat \ {0} : ByteAt(d, k) # ZeroByte => i <= k
  BY FirstPlaces
<1> HIDE DEF i, z
<1>2. \A k \in Nat \ {0} : k < i => ByteAt(d, k) = ZeroByte
  BY <1>1
<1>3. ASSUME NEW b \in 1..ByteBits, b < z PROVE ByteAt(d, i)[b] = 0
  <2>1. ByteAt(d, i)[b] \in {0, 1} /\ b \notin SetBits(ByteAt(d, i))
    BY <1>1, <1>3 DEF Byte
  <2> QED
    BY <2>1 DEF SetBits
<1>4. \A b \in 1..ByteBits : ZeroByte[b] = 0
  BY DEF ZeroByte
<1> QED
  BY <1>1, <1>2, <1>3, <1>4 DEF FirstOne, i, z

\* The bits of the third distance of a triangle.
ThirdSide(d, e, f) ==
  \A k \in Nat \ {0}, b \in 1..ByteBits : ByteAt(f, k)[b] = 0 <=> ByteAt(d, k)[b] = ByteAt(e, k)[b]

LEMMA Triangle ==
  ASSUME NEW localId \in PeerIds, NEW p \in PeerIds, NEW q \in PeerIds
  PROVE  ThirdSide(xorDistance(localId, p), xorDistance(localId, q), xorDistance(p, q))
<1> SUFFICES ASSUME NEW k \in Nat \ {0}, NEW b \in 1..ByteBits
             PROVE  ByteAt(xorDistance(p, q), k)[b] = 0 <=>
                      ByteAt(xorDistance(localId, p), k)[b] = ByteAt(xorDistance(localId, q), k)[b]
  BY DEF ThirdSide
<1> DEFINE x == ByteAt(localId, k)[b]
           y == ByteAt(p, k)[b]
           z == ByteAt(q, k)[b]
<1>1. x \in {0, 1} /\ y \in {0, 1} /\ z \in {0, 1}
  <2>1. ByteAt(localId, k) \in Byte /\ ByteAt(p, k) \in Byte /\ ByteAt(q, k) \in Byte
    BY ByteFacts
  <2> QED
    BY <2>1 DEF Byte
<1>2. /\ ByteAt(xorDistance(p, q), k)[b] = (y + z) % 2
      /\ ByteAt(xorDistance(localId, p), k)[b] = (x + y) % 2
      /\ ByteAt(xorDistance(localId, q), k)[b] = (x + z) % 2
  <2>1. /\ ByteAt(xorDistance(p, q), k) = XorByte(ByteAt(p, k), ByteAt(q, k))
        /\ ByteAt(xorDistance(localId, p), k) = XorByte(ByteAt(localId, k), ByteAt(p, k))
        /\ ByteAt(xorDistance(localId, q), k) = XorByte(ByteAt(localId, k), ByteAt(q, k))
    BY DistanceBytes
  <2> QED
    BY <2>1 DEF XorByte
<1> HIDE DEF x, y, z
<1>3. (y + z) % 2 = 0 <=> (x + y) % 2 = (x + z) % 2
  BY <1>1
<1> QED
  BY <1>2, <1>3

LEMMA EqualBytes ==
  ASSUME NEW d \in Distances, NEW e \in Distances, NEW k \in Nat \ {0},
         \A b \in 1..ByteBits : ByteAt(d, k)[b] = ByteAt(e, k)[b]
  PROVE  ByteAt(d, k) = ByteAt(e, k)
<1>1. ByteAt(d, k) \in Byte /\ ByteAt(e, k) \in Byte
  BY SetPlaces
<1>2. /\ ByteAt(d, k) = [b \in 1..ByteBits |-> ByteAt(d, k)[b]]
      /\ ByteAt(e, k) = [b \in 1..ByteBits |-> ByteAt(e, k)[b]]
  BY <1>1 DEF Byte
<1> QED
  BY <1>2

\* Two peers whose distances have their first 1 at the same place are nearer to
\* each other, as there they do not differ.
LEMMA SamePlace ==
  ASSUME NEW d \in Distances, NEW e \in Distances, NEW f \in Distances, ThirdSide(d, e, f),
         NEW i \in Nat \ {0}, NEW z \in 1..ByteBits, FirstOne(d, i, z), FirstOne(e, i, z)
  PROVE  compareDistance(f, d) = -1
<1>1. \A k \in Nat \ {0} : k < i => ByteAt(f, k) = ByteAt(d, k)
  BY EqualBytes DEF FirstOne, ThirdSide
<1>2. \A b \in 1..ByteBits : b < z => ByteAt(f, i)[b] = ByteAt(d, i)[b]
  BY DEF FirstOne, ThirdSide
<1>3. ByteAt(f, i)[z] = 0 /\ ByteAt(d, i)[z] = 1
  BY DEF FirstOne, ThirdSide
<1>4. FirstDifference(f, d, i, z)
  BY <1>1, <1>2, <1>3 DEF FirstDifference
<1> QED
  BY <1>3, <1>4, ComparedAs

\* Otherwise they are farther from each other than the nearer one is.
LEMMA EarlierPlace ==
  ASSUME NEW d \in Distances, NEW e \in Distances, NEW f \in Distances, ThirdSide(d, e, f),
         NEW i \in Nat \ {0}, NEW z \in 1..ByteBits, FirstOne(d, i, z),
         NEW j \in Nat \ {0}, NEW y \in 1..ByteBits, FirstOne(e, j, y),
         i < j \/ (i = j /\ z < y)
  PROVE  compareDistance(f, e) = 1
<1>1. \A k \in Nat \ {0} : k < i => k < j
  OBVIOUS
<1>2. \A k \in Nat \ {0} : k < i => ByteAt(f, k) = ByteAt(e, k)
  BY <1>1, EqualBytes DEF FirstOne, ThirdSide
<1>3. \A b \in 1..ByteBits : b <= z => ByteAt(e, i)[b] = 0
  BY DEF FirstOne
<1>4. ASSUME NEW b \in 1..ByteBits, b < z PROVE ByteAt(f, i)[b] = ByteAt(e, i)[b]
  <2>1. b <= z /\ ByteAt(d, i)[b] = 0
    BY <1>4 DEF FirstOne
  <2>2. ByteAt(e, i)[b] = 0
    BY <1>3, <2>1
  <2> QED
    BY <2>1, <2>2 DEF ThirdSide
<1>5. ByteAt(f, i)[z] # 0 /\ ByteAt(e, i)[z] = 0
  <2>1. ByteAt(e, i)[z] = 0 /\ ByteAt(d, i)[z] = 1
    BY <1>3 DEF FirstOne
  <2> QED
    BY <2>1 DEF ThirdSide
<1>6. FirstDifference(f, e, i, z)
  BY <1>2, <1>4, <1>5 DEF FirstDifference
<1> QED
  BY <1>5, <1>6, ComparedAs

\* What Measure writes, whatever the ids.
LEMMA BucketsOf ==
  ASSUME NEW localId \in PeerIds, NEW p \in PeerIds, NEW q \in PeerIds
  PROVE  /\ getBucketIndex(localId, p) # -1 /\ getBucketIndex(localId, q) # -1 =>
              (getBucketIndex(localId, p) = getBucketIndex(localId, q) <=>
                 /\ compareDistance(xorDistance(p, q), xorDistance(localId, p)) = -1
                 /\ compareDistance(xorDistance(p, q), xorDistance(localId, q)) = -1)
         /\ getBucketIndex(localId, p) = -1 <=>
              \A i \in 1..IdBytes : ByteAt(localId, i) = ByteAt(p, i)
         /\ getBucketIndex(localId, p) \in -1..(ByteBits * IdBytes - 1)
<1> DEFINE d == xorDistance(localId, p)
           e == xorDistance(localId, q)
           f == xorDistance(p, q)
           N == ByteBits * IdBytes
           pos(g) == (FirstByte(g) - 1) * ByteBits + (FirstBitOf(g) - 1)
<1>1. /\ d \in Distances /\ e \in Distances /\ f \in Distances
      /\ ThirdSide(d, e, f) /\ ThirdSide(e, d, f)
  <2>1. d \in Distances /\ e \in Distances /\ f \in Distances /\ ThirdSide(d, e, f)
    BY DistanceBytes, Triangle
  <2>2. ThirdSide(e, d, f)
    BY <2>1 DEF ThirdSide
  <2> QED
    BY <2>1, <2>2
<1>2. /\ getBucketIndex(localId, p) = IF SetBytes(d) = {} THEN -1 ELSE N - 1 - pos(d)
      /\ getBucketIndex(localId, q) = IF SetBytes(e) = {} THEN -1 ELSE N - 1 - pos(e)
  BY IndexOf
<1>3. N \in Nat
  BY DistanceAssumption
<1>4. /\ SetBytes(d) # {} => pos(d) \in 0..(N - 1)
      /\ SetBytes(e) # {} => pos(e) \in 0..(N - 1)
  BY <1>1, FirstPlaces, PlaceOrder
<1>5. ASSUME SetBytes(d) # {}, SetBytes(e) # {}
      PROVE  pos(d) = pos(e) <=> compareDistance(f, d) = -1 /\ compareDistance(f, e) = -1
  <2> DEFINE i == FirstByte(d)
             z == FirstBitOf(d)
             j == FirstByte(e)
             y == FirstBitOf(e)
  <2>1. /\ i \in 1..IdBytes /\ z \in 1..ByteBits /\ FirstOne(d, i, z)
        /\ j \in 1..IdBytes /\ y \in 1..ByteBits /\ FirstOne(e, j, y)
    BY <1>1, <1>5, FirstPlaces, FirstOneOf
  <2>2. i \in Nat \ {0} /\ j \in Nat \ {0} /\ z \in Nat /\ y \in Nat
    BY <2>1, DistanceAssumption
  <2> HIDE DEF i, z, j, y, d, e, f
  <2>3. CASE i = j /\ z = y
    <3>1. compareDistance(f, d) = -1 /\ compareDistance(f, e) = -1
      BY <1>1, <2>1, <2>2, <2>3, SamePlace
    <3> QED
      BY <2>3, <3>1 DEF i, z, j, y
  <2>4. CASE i < j \/ (i = j /\ z < y)
    <3>1. compareDistance(f, e) = 1
      BY <1>1, <2>1, <2>2, <2>4, EarlierPlace
    <3>2. pos(d) < pos(e) /\ pos(d) \in 0..(N - 1)
      BY <1>4, <1>5, <2>1, <2>4, PlaceOrder DEF i, z, j, y
    <3>3. pos(d) # pos(e)
      BY <1>3, <1>4, <1>5, <3>2
    <3> QED
      BY <3>1, <3>3
  <2>5. CASE j < i \/ (j = i /\ y < z)
    <3>1. compareDistance(f, d) = 1
      BY <1>1, <2>1, <2>2, <2>5, EarlierPlace
    <3>2. pos(e) < pos(d) /\ pos(d) \in 0..(N - 1)
      BY <1>4, <1>5, <2>1, <2>5, PlaceOrder DEF i, z, j, y
    <3>3. pos(d) # pos(e)
      BY <1>3, <1>4, <1>5, <3>2
    <3> QED
      BY <3>1, <3>3
  <2> QED
    BY <2>2, <2>3, <2>4, <2>5
<1>6. SetBytes(d) = {} <=> \A i \in 1..IdBytes : ByteAt(localId, i) = ByteAt(p, i)
  <2>1. SetBytes(d) = {} <=> \A i \in 1..IdBytes : ByteAt(d, i) = ZeroByte
    <3>1. SetBytes(d) \subseteq 1..IdBytes
      BY <1>1, SetPlaces
    <3>2. \A i \in 1..IdBytes : i \in SetBytes(d) <=> ByteAt(d, i) # ZeroByte
      BY DEF SetBytes
    <3> QED
      BY <3>1, <3>2
  <2>2. ASSUME NEW i \in 1..IdBytes
        PROVE  ByteAt(d, i) = ZeroByte <=> ByteAt(localId, i) = ByteAt(p, i)
    <3>1. i \in Nat \ {0}
      OBVIOUS
    <3>2. ByteAt(localId, i) \in Byte /\ ByteAt(p, i) \in Byte
      BY <3>1, ByteFacts
    <3>3. ByteAt(d, i) = XorByte(ByteAt(localId, i), ByteAt(p, i))
      BY <3>1, DistanceBytes
    <3> QED
      BY <3>2, <3>3, ByteFacts
  <2> QED
    BY <2>1, <2>2
<1> HIDE DEF pos, N
<1>7. getBucketIndex(localId, p) = -1 <=> SetBytes(d) = {}
  BY <1>2, <1>3, <1>4
<1>8. getBucketIndex(localId, p) \in -1..(N - 1)
  BY <1>2, <1>3, <1>4
<1>9. SetBytes(d) # {} /\ SetBytes(e) # {} =>
        (getBucketIndex(localId, p) = getBucketIndex(localId, q) <=> pos(d) = pos(e))
  BY <1>2, <1>3, <1>4
<1>10. getBucketIndex(localId, q) = -1 <=> SetBytes(e) = {}
  BY <1>2, <1>3, <1>4
<1> QED
  BY <1>5, <1>6, <1>7, <1>8, <1>9, <1>10 DEF N

LEMMA DistanceStepHolds ==
  /\ DistanceInit => SharedBucketsAreNear
  /\ SharedBucketsAreNear /\ [DistanceNext]_distanceVars => SharedBucketsAreNear'
<1>1. ASSUME Measure PROVE SharedBucketsAreNear'
  <2>1. PICK localId \in PeerIds, p \in PeerIds, q \in PeerIds :
          /\ measured' = <<localId, p, q>>
          /\ nearer' = compareDistance(xorDistance(localId, p), xorDistance(localId, q))
          /\ buckets' = <<getBucketIndex(localId, p), getBucketIndex(localId, q)>>
    BY <1>1 DEF Measure
  <2>2. /\ measured'[1] = localId /\ measured'[2] = p /\ measured'[3] = q
        /\ buckets'[1] = getBucketIndex(localId, p) /\ buckets'[2] = getBucketIndex(localId, q)
    BY <2>1
  <2> QED
    BY <2>1, <2>2, BucketsOf DEF SharedBucketsAreNear
<1>2. ASSUME MeasureNext PROVE SharedBucketsAreNear'
  BY <1>2 DEF MeasureNext, SharedBucketsAreNear
<1>3. ASSUME SharedBucketsAreNear, UNCHANGED distanceVars PROVE SharedBucketsAreNear'
  BY <1>3 DEF distanceVars, SharedBucketsAreNear
<1> QED
  BY <1>1, <1>2, <1>3 DEF DistanceInit, DistanceNext, SharedBucketsAreNear

\* For bytes and ids of any length: peers share a bucket exactly if they are
\* nearer to each other than to the local node, and only one whose bytes are
\* those of the local id is in none.
THEOREM BucketsAreNear == DistanceSpec => []SharedBucketsAreNear
  BY DistanceStepHolds, PTL DEF DistanceSpec

\* What any bytes that differ have.
LEMMA DifferenceExists ==
  ASSUME NEW d \in Distances, NEW e \in Distances,
         \E i \in Nat \ {0} : ByteAt(d, i) # ByteAt(e, i)
  PROVE  compareDistance(d, e) # 0
<1>1. PICK i \in Nat \ {0} : ByteAt(d, i) # ByteAt(e, i)
  OBVIOUS
<1>2. /\ Len(d) \in Nat /\ Len(e) \in Nat /\ Longer(d, e) \in Nat
      /\ Len(d) <= Longer(d, e) /\ Len(e) <= Longer(d, e)
  BY DEF Distances, Longer
<1>3. ~ (i > Len(d) /\ i > Len(e))
  BY <1>1, <1>2 DEF ByteAt
<1>4. i \in 1..Longer(d, e)
  BY <1>2, <1>3
<1> QED
  BY <1>1, <1>4 DEF compareDistance

\* As a sort by distance needs it, compareDistance is an order on the distances
\* of any length: antisymmetric, 0 only for the same bytes, and transitive.
THEOREM ComparisonOrders ==
  \A d, e, f \in Distances :
    /\ compareDistance(e, d) = -compareDistance(d, e)
    /\ compareDistance(d, e) = 0 <=> \A i \in Nat \ {0} : ByteAt(d, i) = ByteAt(e, i)
    /\ compareDistance(d, e) = -1 /\ compareDistance(e, f) = -1 => compareDistance(d, f) = -1
<1>1. ASSUME NEW d \in Distances, NEW e \in Distances
      PROVE  compareDistance(d, e) = 0 <=> \A i \in Nat \ {0} : ByteAt(d, i) = ByteAt(e, i)
  <2>1. ASSUME \A i \in Nat \ {0} : ByteAt(d, i) = ByteAt(e, i) PROVE compareDistance(d, e) = 0
    BY <2>1, ComparedBit DEF FirstDifference
  <2> QED
    BY <2>1, DifferenceExists
<1>2. ASSUME NEW d \in Distances, NEW e \in Distances, NEW i \in Nat \ {0}
      PROVE  \A c \in 1..ByteBits : /\ ByteAt(d, i)[c] \in {0, 1} /\ ByteAt(e, i)[c] \in {0, 1}
                                    /\ FirstDifference(d, e, i, c) <=> FirstDifference(e, d, i, c)
  <2>1. ByteAt(d, i) \in Byte /\ ByteAt(e, i) \in Byte
    BY SetPlaces
  <2>2. \A c \in 1..ByteBits : ByteAt(d, i)[c] \in {0, 1} /\ ByteAt(e, i)[c] \in {0, 1}
    BY <2>1 DEF Byte
  <2> QED
    BY <2>2 DEF FirstDifference
<1>3. ASSUME NEW d \in Distances, NEW e \in Distances
      PROVE  compareDistance(e, d) = -compareDistance(d, e)
  <2>1. CASE compareDistance(d, e) = 0
    BY <1>1, <2>1
  <2>2. CASE compareDistance(d, e) # 0
    <3>1. PICK i \in Nat \ {0}, c \in 1..ByteBits : FirstDifference(d, e, i, c)
      BY <2>2, ComparedBit
    <3>2. FirstDifference(e, d, i, c) /\ ByteAt(d, i)[c] # ByteAt(e, i)[c]
          /\ ByteAt(d, i)[c] \in {0, 1} /\ ByteAt(e, i)[c] \in {0, 1}
      BY <1>2, <3>1 DEF FirstDifference
    <3>3. /\ compareDistance(d, e) = IF ByteAt(d, i)[c] = 0 THEN -1 ELSE 1
          /\ compareDistance(e, d) = IF ByteAt(e, i)[c] = 0 THEN -1 ELSE 1
      BY <3>1, <3>2, ComparedAs
    <3> QED
      BY <3>2, <3>3
  <2> QED
    BY <2>1, <2>2
<1>4. ASSUME NEW d \in Distances, NEW e \in Distances, NEW f \in Distances,
             compareDistance(d, e) = -1, compareDistance(e, f) = -1
      PROVE  compareDistance(d, f) = -1
  <2>1. PICK i \in Nat \ {0}, b \in 1..ByteBits :
          FirstDifference(d, e, i, b) /\ ByteAt(d, i)[b] = 0
    BY <1>4, ComparedBit
  <2>2. PICK j \in Nat \ {0}, c \in 1..ByteBits :
          FirstDifference(e, f, j, c) /\ ByteAt(e, j)[c] = 0
    BY <1>4, ComparedBit
  <2>3. ByteAt(e, i)[b] = 1 /\ ByteAt(f, j)[c] = 1
    BY <1>2, <2>1, <2>2 DEF FirstDifference
  <2>4. CASE i < j \/ (i = j /\ b < c)
    <3>1. ByteAt(f, i)[b] = 1
      BY <2>2, <2>3, <2>4 DEF FirstDifference
    <3>2. FirstDifference(d, f, i, b)
      BY <2>1, <2>2, <2>4, <3>1 DEF FirstDifference
    <3> QED
      BY <2>1, <3>2, ComparedAs
  <2>5. CASE j < i \/ (i = j /\ c <= b)
    <3>1. ByteAt(d, j)[c] = 0
      BY <2>1, <2>2, <2>3, <2>5 DEF FirstDifference
    <3>2. FirstDifference(d, f, j, c)
      BY <2>1, <2>2, <2>3, <2>5, <3>1 DEF FirstDifference
    <3> QED
      BY <3>1, <3>2, ComparedAs
  <2> QED
    BY <2>4, <2>5
<1> QED
  BY <1>1, <1>3, <1>4

-----------------------------------------------------------------------------
(* The parts together.  A step is one of a part and leaves the others'     *)
(* variables alone.                                                        *)

\* The types of every part of a server, in all of its behaviours.
THEOREM ServerTypesHold == ServerPartsSpec => []ServerTypesOK
<1> DEFINE IInv == ServerIInv /\ BridgeIInv
<1>1. ServerPartsInit => IInv
  BY ServerInitHolds, BridgeInitHolds DEF ServerPartsInit
<1>2. IInv /\ [ServerPartsNext]_serverPartsVars => IInv'
  <2> SUFFICES ASSUME IInv, [ServerPartsNext]_serverPartsVars PROVE IInv'
    OBVIOUS
  <2>1. [ServerNext]_serverVars /\ [BridgeNext]_bridgeVars
    BY DEF ServerPartsNext, serverPartsVars, LifeCyclePart, RequestsPart, BridgePart,
           WirePart, DistancePart
  <2> QED
    BY <2>1, ServerStepHolds, BridgeStepHolds
<1>3. IInv => ServerTypesOK
  BY TypesOfServer DEF BridgeIInv, ServerTypesOK
<1> QED
  BY <1>1, <1>2, <1>3, PTL DEF ServerPartsSpec
=============================================================================
