--------------------------- MODULE OverlayNetwork ---------------------------
(***************************************************************************)
(* Request/response messaging between the nodes of the overlay             *)
(* (src/overlay/overlay.ts, router.ts, dedup-cache.ts).  An origin sends   *)
(* copies of a request towards its target; relays suppress duplicates and  *)
(* forward; the target runs its handler and answers on the stream the      *)
(* request came on; relays pass a response on; the origin settles the      *)
(* promise of sendMessage.                                                 *)
(*                                                                         *)
(* A request copy lives on a stream.  Its sender waits for one reply on    *)
(* the same stream (at most 5 s, then it stops listening); its receiver    *)
(* runs a handler that gives up control at each await, so the handlers of  *)
(* several copies interleave.  Streams fail to open, break, and are        *)
(* answered in any order.                                                  *)
(*                                                                         *)
(* Abstracted: payloads and cryptography (a decryption may fail at either  *)
(* end), the DHT (the next hops are any peers of the node), error codes    *)
(* (the comments name them), time (a timeout may fire whenever its timer   *)
(* is armed; entries of the deduplication cache expire on the nodes of     *)
(* ExpiringNodes, once each).  A message that is lost is one that nobody   *)
(* ever receives.                                                          *)
(***************************************************************************)
EXTENDS Naturals, Sequences, FiniteSets

CONSTANTS Nodes,
          Requests,           \* message ids, one per call of sendMessage
          Origin, Target,     \* of each request
          Peers,              \* whom the DHT of a node may name as next hops
          Redundancy,         \* defaultRedundancy: next hops used at most
          TTL,                \* the ttl a request starts with
          ExpiringNodes,      \* nodes whose dedup entries may expire
          MaxResponsePath     \* bound on the path of a relayed response

ASSUME OverlayAssumption ==
  /\ Origin \in [Requests -> Nodes]
  /\ Target \in [Requests -> Nodes]
  /\ Peers \in [Nodes -> SUBSET Nodes]
  /\ Redundancy \in Nat
  /\ TTL \in Nat
  /\ MaxResponsePath \in Nat

VARIABLES phase,      \* where sendMessage and its routeRequest stand
          outcome,    \* of the promise sendMessage returned
          streams,    \* request copies, in flight or being handled
          relayed,    \* responses on their way between nodes
          seen,       \* the deduplication cache of each node
          expired,    \* dedup entries that have expired (history)
          handler,    \* whether each target has a message handler registered
          served,     \* runs of message handlers (history)
          forwarded   \* forwards by relays (history)

vars == <<phase, outcome, streams, relayed, seen, expired, handler, served, forwarded>>
history == <<served, forwarded>>

Phases == {"idle", "lookup", "routing", "sending", "done"}

\* Only a target ever looks at its handler.
Targets == {Target[m] : m \in Requests}

\* What a receiver may leave on the stream; "none" is the end of the stream.
\* (DUPLICATE asks nothing of its reader and is the same to it). RESULT and
\* ERROR are RESPONSE messages with their success flag.
Replies == {"none", "UNREACHABLE", "RESULT", "ERROR"}

Outcomes == {"new", "waiting", "resolved", "rejected"}

\* A request copy with its stream. open: the sender still listens.
Stream == [src : Nodes, dst : Nodes, id : Requests, ttl : Nat, path : Seq(Nodes),
           state : {"sent", "routing", "serving"} \cup Replies, open : BOOLEAN]

Response == [src : Nodes, dst : Nodes, id : Requests, path : Seq(Nodes), ok : BOOLEAN]

Init ==
  /\ phase = [m \in Requests |-> "idle"]
  /\ outcome = [m \in Requests |-> "new"]
  /\ streams = {}
  /\ relayed = {}
  /\ seen = [n \in Nodes |-> {}]
  /\ expired = {}
  /\ handler \in [Targets -> BOOLEAN]
  /\ served = {}
  /\ forwarded = {}

-----------------------------------------------------------------------------
(* The origin: sendMessage and routeRequest.                               *)

\* Mutant of Settle: an answer overwrites an earlier one.
SettleAlways(m, v) == outcome' = [outcome EXCEPT ![m] = v]

\* pendingRequests.resolve or reject: only the first settlement counts.
Settle(m, v) == outcome' = IF outcome[m] = "waiting" THEN [outcome EXCEPT ![m] = v] ELSE outcome

\* dedupCache.record.
Record(n, m) == seen' = [seen EXCEPT ![n] = @ \cup {m}]

\* Peers a node managed to dial, out of the closest ones the DHT named.
HopSets(n) == {H \in SUBSET (Peers[n] \ {n}) : Cardinality(H) <= Redundancy}

Copies(n, m, ttl, path, hops) ==
  [src : {n}, dst : hops, id : {m}, ttl : {ttl}, path : {path}, state : {"sent"}, open : {TRUE}]

SendMessage(m) ==
  /\ phase[m] = "idle"
  /\ phase' = [phase EXCEPT ![m] = "lookup"]
  /\ UNCHANGED <<outcome, streams, relayed, seen, expired, handler, history>>

\* The payload is too large: the call throws at once (MESSAGE_TOO_LARGE).
RefuseOversized(m) ==
  /\ phase[m] = "idle"
  /\ phase' = [phase EXCEPT ![m] = "done"]
  /\ outcome' = [outcome EXCEPT ![m] = "rejected"]
  /\ UNCHANGED <<streams, relayed, seen, expired, handler, history>>

\* lookupPublicKey rejects before a pending request is registered
\* (KEY_NOT_FOUND).
KeyLookupFails(m) ==
  /\ phase[m] = "lookup"
  /\ phase' = [phase EXCEPT ![m] = "done"]
  /\ outcome' = [outcome EXCEPT ![m] = "rejected"]
  /\ UNCHANGED <<streams, relayed, seen, expired, handler, history>>

\* The key is there and the payload encrypted: the request is registered and
\* its routing begins.
Register(m) ==
  /\ phase[m] = "lookup"
  /\ phase' = [phase EXCEPT ![m] = "routing"]
  /\ outcome' = [outcome EXCEPT ![m] = "waiting"]
  /\ UNCHANGED <<streams, relayed, seen, expired, handler, history>>

\* Routing ends without a copy on its way: the target is the node itself
\* (INVALID_MESSAGE), the ttl is 0 (TTL_EXPIRED), the DHT names nobody
\* (NO_ROUTE) or nobody can be dialled (UNREACHABLE).
RoutingFails(m) ==
  /\ phase[m] = "routing"
  /\ phase' = [phase EXCEPT ![m] = "done"]
  /\ Settle(m, "rejected")
  /\ UNCHANGED <<streams, relayed, seen, expired, handler, history>>

\* The request itself is sent: its ttl is whole and its path empty.
SendCopies(m, hops) ==
  /\ phase[m] = "routing"
  /\ Target[m] # Origin[m] /\ TTL > 0
  /\ hops # {}
  /\ phase' = [phase EXCEPT ![m] = "sending"]
  /\ streams' = streams \cup Copies(Origin[m], m, TTL, <<>>, hops)
  /\ UNCHANGED <<outcome, relayed, seen, expired, handler, history>>

\* Promise.allSettled returns once no first copy is listened to any more;
\* only then does the origin record its own message.
FirstCopiesSettled(m) == ~ \E s \in streams : s.id = m /\ s.path = <<>> /\ s.open

SendsSettled(m) ==
  /\ phase[m] = "sending"
  /\ FirstCopiesSettled(m)
  /\ phase' = [phase EXCEPT ![m] = "done"]
  /\ Record(Origin[m], m)
  /\ UNCHANGED <<outcome, streams, relayed, expired, handler, history>>

\* Every send threw, be it while it wrote, read or closed its stream
\* (UNREACHABLE): nothing is recorded, though copies may be on their way.
SendsFail(m) ==
  /\ phase[m] = "sending"
  /\ FirstCopiesSettled(m)
  /\ phase' = [phase EXCEPT ![m] = "done"]
  /\ Settle(m, "rejected")
  /\ UNCHANGED <<streams, relayed, seen, expired, handler, history>>

\* The timer of the pending request fires (TIMEOUT).
RequestTimeout(m) ==
  /\ outcome[m] = "waiting"
  /\ Settle(m, "rejected")
  /\ UNCHANGED <<phase, streams, relayed, seen, expired, handler, history>>

-----------------------------------------------------------------------------
(* The receiver of a request copy: handleRequest and what it calls.        *)

\* The handler of s moves on; a reply nobody listens to ends the stream.
Advance(s, state) ==
  IF ~ s.open /\ state \in Replies THEN streams \ {s}
  ELSE (streams \ {s}) \cup {[s EXCEPT !.state = state]}

Replied(s, state) ==
  /\ streams' = Advance(s, state)
  /\ UNCHANGED <<phase, outcome, relayed, seen, expired, handler, history>>

\* handleRequest up to its first await: a duplicate is answered DUPLICATE, a
\* target without a handler NO_HANDLER, an exhausted ttl TTL_EXPIRED.
ReceiveDuplicate(s) ==
  /\ s.state = "sent"
  /\ s.id \in seen[s.dst]
  /\ Replied(s, "none")

ReceiveAtTarget(s) ==
  /\ s.state = "sent"
  /\ s.id \notin seen[s.dst]
  /\ s.dst = Target[s.id]
  /\ Replied(s, IF handler[s.dst] THEN "serving" ELSE "UNREACHABLE")

\* Mutant of ReceiveAtRelay: the check of the ttl is forgotten.
ReceiveAtRelayAnyTtl(s) ==
  /\ s.state = "sent"
  /\ s.id \notin seen[s.dst]
  /\ s.dst # Target[s.id]
  /\ Replied(s, "routing")

ReceiveAtRelay(s) ==
  /\ s.state = "sent"
  /\ s.id \notin seen[s.dst]
  /\ s.dst # Target[s.id]
  /\ Replied(s, IF s.ttl = 0 THEN "UNREACHABLE" ELSE "routing")

\* forwardRequest after the DHT answered.
NoRoute(s) ==
  /\ s.state = "routing"
  /\ Replied(s, "UNREACHABLE")

\* Mutant of Forward: the ttl is not decremented.
ForwardSameTtl(s, hops) ==
  /\ s.state = "routing"
  /\ Record(s.dst, s.id)
  /\ streams' = Advance(s, "none")
                  \cup Copies(s.dst, s.id, s.ttl, Append(s.path, s.dst), hops)
  /\ forwarded' = forwarded \cup {[node |-> s.dst, id |-> s.id, path |-> s.path]}
  /\ UNCHANGED <<phase, outcome, relayed, expired, handler, served>>

Forward(s, hops) ==
  /\ s.state = "routing"
  /\ Record(s.dst, s.id)
  /\ streams' = Advance(s, "none")
                  \cup Copies(s.dst, s.id, s.ttl - 1, Append(s.path, s.dst), hops)
  /\ forwarded' = forwarded \cup {[node |-> s.dst, id |-> s.id, path |-> s.path]}
  /\ UNCHANGED <<phase, outcome, relayed, expired, handler, served>>

\* processLocalRequest after the decryption.
DecryptionFails(s) ==
  /\ s.state = "serving"
  /\ Replied(s, "UNREACHABLE")

\* The handler returns or throws.
Serve(s, ok) ==
  /\ s.state = "serving"
  /\ handler[s.dst]
  /\ served' = served \cup {[id |-> s.id, path |-> s.path, ok |-> ok]}
  /\ streams' = Advance(s, IF ok THEN "RESULT" ELSE "ERROR")
  /\ UNCHANGED <<phase, outcome, relayed, seen, expired, handler, forwarded>>

\* Mutant of ServeWithoutHandler: the missing handler passes for a success.
ServeNothing(s) ==
  /\ s.state = "serving"
  /\ ~ handler[s.dst]
  /\ Replied(s, "RESULT")

\* offMessage was called during the decryption: the call throws a TypeError.
ServeWithoutHandler(s) ==
  /\ s.state = "serving"
  /\ ~ handler[s.dst]
  /\ Replied(s, "ERROR")

-----------------------------------------------------------------------------
(* Responses: the origin settles, a relay passes on.                       *)

\* routeResponse: the last peer of the path other than the node itself, or a
\* peer the DHT names when there is none.
ResponseHops(n, path) ==
  LET others == {i \in DOMAIN path : path[i] # n}
  IN IF others = {} THEN Peers[n] \ {n}
     ELSE {path[i] : i \in {j \in others : \A k \in others : k <= j}}

\* Mutant of Verdicts: the success flag is not looked at.
VerdictsIgnoreFlag(ok) == {"rejected", "resolved"}

\* How the origin may settle when a response arrives: its attestation or its
\* decryption may fail, and the handler may have (HANDLER_ERROR).
Verdicts(ok) == {"rejected", IF ok THEN "resolved" ELSE "rejected"}

HandleResponse(n, m, path, ok, rest) ==
  \/ /\ n = Origin[m]
     /\ \E v \in Verdicts(ok) : Settle(m, v)
     /\ relayed' = rest
  \/ /\ n # Origin[m]
     /\ Len(path) < MaxResponsePath
     /\ \E hop \in ResponseHops(n, path) :
          relayed' = rest \cup
            {[src |-> n, dst |-> hop, id |-> m, path |-> Append(path, n), ok |-> ok]}
     /\ UNCHANGED outcome

\* The sender of a copy reads an UNREACHABLE; only the origin has a pending
\* request to reject, a relay drops it.
ReadUnreachable(s) ==
  /\ s.open /\ s.state = "UNREACHABLE"
  /\ streams' = streams \ {s}
  /\ IF s.src = Origin[s.id] THEN Settle(s.id, "rejected") ELSE UNCHANGED outcome
  /\ UNCHANGED <<phase, relayed, seen, expired, handler, history>>

\* A DUPLICATE or the end of the stream: handleDuplicate does nothing.
ReadNothing(s) ==
  /\ s.open /\ s.state = "none"
  /\ streams' = streams \ {s}
  /\ UNCHANGED <<phase, outcome, relayed, seen, expired, handler, history>>

\* The target answered on this stream.
ReadResponse(s) ==
  /\ s.open /\ s.state \in {"RESULT", "ERROR"}
  /\ streams' = streams \ {s}
  /\ HandleResponse(s.src, s.id, Append(s.path, s.dst), s.state = "RESULT", relayed)
  /\ UNCHANGED <<phase, seen, expired, handler, history>>

\* A relayed response arrives on a stream of its own.
ReceiveResponse(r) ==
  /\ HandleResponse(r.dst, r.id, r.path, r.ok, relayed \ {r})
  /\ UNCHANGED <<phase, streams, seen, expired, handler, history>>

-----------------------------------------------------------------------------
(* The environment.                                                        *)

\* Mutant of StopListening: the 5 s begin only when the receiver has read.
StopListeningOnceRead(s) ==
  /\ s.open /\ s.state # "sent"
  /\ streams' = IF s.state \in Replies THEN streams \ {s}
                ELSE (streams \ {s}) \cup {[s EXCEPT !.open = FALSE]}
  /\ UNCHANGED <<phase, outcome, relayed, seen, expired, handler, history>>

\* The sender stops listening after 5 s, or its connection breaks.
StopListening(s) ==
  /\ s.open
  /\ streams' = IF s.state \in Replies THEN streams \ {s}
                ELSE (streams \ {s}) \cup {[s EXCEPT !.open = FALSE]}
  /\ UNCHANGED <<phase, outcome, relayed, seen, expired, handler, history>>

DedupExpires(n, m) ==
  /\ n \in ExpiringNodes
  /\ m \in seen[n] /\ <<n, m>> \notin expired
  /\ seen' = [seen EXCEPT ![n] = @ \ {m}]
  /\ expired' = expired \cup {<<n, m>>}
  /\ UNCHANGED <<phase, outcome, streams, relayed, handler, history>>

OnMessage(n) ==
  /\ ~ handler[n]
  /\ handler' = [handler EXCEPT ![n] = TRUE]
  /\ UNCHANGED <<phase, outcome, streams, relayed, seen, expired, history>>

OffMessage(n) ==
  /\ handler[n]
  /\ handler' = [handler EXCEPT ![n] = FALSE]
  /\ UNCHANGED <<phase, outcome, streams, relayed, seen, expired, history>>

-----------------------------------------------------------------------------
OriginStep(m) ==
  \/ SendMessage(m)
  \/ RefuseOversized(m)
  \/ KeyLookupFails(m)
  \/ Register(m)
  \/ RoutingFails(m)
  \/ \E hops \in HopSets(Origin[m]) : SendCopies(m, hops)
  \/ SendsSettled(m)
  \/ SendsFail(m)
  \/ RequestTimeout(m)

ReceiverStep(s) ==
  \/ ReceiveDuplicate(s)
  \/ ReceiveAtTarget(s)
  \/ ReceiveAtRelay(s)
  \/ NoRoute(s)
  \/ \E hops \in HopSets(s.dst) : Forward(s, hops)
  \/ DecryptionFails(s)
  \/ \E ok \in BOOLEAN : Serve(s, ok)
  \/ ServeWithoutHandler(s)

SenderStep(s) ==
  \/ ReadUnreachable(s)
  \/ ReadNothing(s)
  \/ ReadResponse(s)

EnvironmentStep ==
  \/ \E s \in streams : StopListening(s)
  \/ \E n \in Nodes, m \in Requests : DedupExpires(n, m)
  \/ \E n \in Targets : OnMessage(n) \/ OffMessage(n)

Next ==
  \/ \E m \in Requests : OriginStep(m)
  \/ \E s \in streams : ReceiverStep(s) \/ SenderStep(s)
  \/ \E r \in relayed : ReceiveResponse(r)
  \/ EnvironmentStep

\* Timers fire, and DHT lookups and dials come to an end (each has a timeout
\* of its own).  Nothing else is owed: copies may be lost, a handler may
\* never return, no relay need forward.
Fairness ==
  /\ \A m \in Requests :
       /\ WF_vars(KeyLookupFails(m) \/ Register(m))
       /\ WF_vars(RoutingFails(m) \/ \E hops \in HopSets(Origin[m]) : SendCopies(m, hops))
       /\ WF_vars(SendsSettled(m) \/ SendsFail(m))
       /\ WF_vars(RequestTimeout(m))
       /\ WF_vars(\E s \in streams : s.id = m /\ s.path = <<>> /\ StopListening(s))

Spec == Init /\ [][Next]_vars /\ Fairness

-----------------------------------------------------------------------------
(* Properties.                                                             *)

TypeOK ==
  /\ phase \in [Requests -> Phases]
  /\ outcome \in [Requests -> Outcomes]
  /\ streams \subseteq Stream
  /\ relayed \subseteq Response
  /\ seen \in [Nodes -> SUBSET Requests]
  /\ expired \subseteq Nodes \X Requests
  /\ handler \in [Targets -> BOOLEAN]
  /\ served \subseteq [id : Requests, path : Seq(Nodes), ok : BOOLEAN]
  /\ forwarded \subseteq [node : Nodes, id : Requests, path : Seq(Nodes)]

\* Each copy's ttl and the length of its path add up to the ttl the origin
\* chose, and the path ends with the relay that sent it: no loop of relays
\* can keep a copy alive, nor make a path longer than its one-byte count.
HopBudget ==
  \A s \in streams :
     /\ s.ttl + Len(s.path) = TTL
     /\ s.src = IF s.path = <<>> THEN Origin[s.id] ELSE s.path[Len(s.path)]

\* A successful response anywhere stems from a run of the handler on a copy
\* that came by the path the response starts with.
ResponsesStemFromHandler ==
  /\ \A s \in streams : s.state = "RESULT" =>
        [id |-> s.id, path |-> s.path, ok |-> TRUE] \in served
  /\ \A r \in relayed : r.ok =>
        \E e \in served : /\ e.id = r.id /\ e.ok
                         /\ Len(e.path) < Len(r.path)
                         /\ \A i \in DOMAIN e.path : e.path[i] = r.path[i]

\* sendMessage resolves only after the target's handler returned a result
\* for this very message.
ResolvedMeansHandled ==
  \A m \in Requests : outcome[m] = "resolved" => \E e \in served : e.id = m /\ e.ok

\* A relay that forwarded a message holds it in its deduplication cache until
\* the entry expires, whatever else it was doing when it forwarded.
ForwardsAreRecorded ==
  \A f \in forwarded : f.id \in seen[f.node] \/ <<f.node, f.id>> \in expired

\* The promise of sendMessage, as its caller sees it.
Promised(m) == IF phase[m] = "lookup" THEN "waiting" ELSE outcome[m]

Contract == INSTANCE RequestPromise WITH
  Promises <- Requests, MessageIds <- Requests, IdOf <- [m \in Requests |-> m],
  status <- [m \in Requests |-> Promised(m)]

\* The promise of sendMessage settles at most once, for ever, whatever copies,
\* errors, late responses and timeouts come in, and in whatever order.
SettlesOnce == Contract!Spec

\* Every call of sendMessage comes to an end: its routing finishes, the origin
\* stops listening, and the caller has a result or an error, whatever is lost.
EverySendEnds ==
  \A m \in Requests :
     phase[m] = "lookup" ~> phase[m] = "done" /\ outcome[m] \in {"resolved", "rejected"}

\* "WHEN a node receives a message with a message ID it has already seen, THE
\* Relay_Node SHALL NOT forward the message again".
ForwardedOnce ==
  \A f, g \in forwarded :
     f.node = g.node /\ f.id = g.id => f = g \/ <<f.node, f.id>> \in expired

\* The peers before node n on the way to the target, the origin first.
Upstream(r, n) ==
  LET target == CHOOSE i \in DOMAIN r.path :
                   r.path[i] = Target[r.id] /\ \A j \in 1..(i - 1) : r.path[j] # Target[r.id]
  IN {Origin[r.id]} \cup
     {r.path[i] : i \in {j \in 1..(target - 1) : \A k \in 1..j : r.path[k] # n}}

\* A response is passed on to "the previous hop on the way to the target".
ResponseGoesUpstream == \A r \in relayed : r.dst \in Upstream(r, r.src)
=============================================================================
