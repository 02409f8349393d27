------------------------ MODULE OverlayNetworkProofs ------------------------
(***************************************************************************)
(* Safety of OverlayNetwork for every network, every number of requests,   *)
(* every redundancy and ttl.                                               *)
(***************************************************************************)
EXTENDS OverlayNetwork, SequenceTheorems, TLAPS

\* What holds of a copy, given the runs of handlers so far: besides its type,
\* its budget of hops, and a ttl left when it is about to be forwarded.
StreamOK(s, runs) ==
  /\ s \in Stream
  /\ s.state = "routing" => s.ttl > 0
  /\ s.ttl + Len(s.path) = TTL
  /\ s.src = IF s.path = <<>> THEN Origin[s.id] ELSE s.path[Len(s.path)]
  /\ s.state = "RESULT" => [id |-> s.id, path |-> s.path, ok |-> TRUE] \in runs

\* Some successful run was on a copy of m that came by a part of path.
Backed(m, path, runs) ==
  \E e \in runs : /\ e.id = m /\ e.ok
                  /\ Len(e.path) < Len(path)
                  /\ \A i \in DOMAIN e.path : e.path[i] = path[i]

ResponseOK(r, runs) ==
  /\ r \in Response
  /\ r.ok => Backed(r.id, r.path, runs)

FrameOK ==
  /\ phase \in [Requests -> Phases]
  /\ outcome \in [Requests -> Outcomes]
  /\ seen \in [Nodes -> SUBSET Requests]
  /\ expired \subseteq Nodes \X Requests
  /\ handler \in [Targets -> BOOLEAN]
  /\ served \subseteq [id : Requests, path : Seq(Nodes), ok : BOOLEAN]
  /\ forwarded \subseteq [node : Nodes, id : Requests, path : Seq(Nodes)]

IdleIsNew == \A m \in Requests : phase[m] = "idle" => outcome[m] = "new"

IInv ==
  /\ FrameOK
  /\ \A s \in streams : StreamOK(s, served)
  /\ \A r \in relayed : ResponseOK(r, served)
  /\ ResolvedMeansHandled
  /\ ForwardsAreRecorded
  /\ IdleIsNew

LEMMA InitIInv == Init => IInv
  BY DEF Init, IInv, FrameOK, Phases, Outcomes, ResolvedMeansHandled,
         ForwardsAreRecorded, IdleIsNew

-----------------------------------------------------------------------------
(* Lemmas about the helpers.                                               *)

\* Moving a copy to another state keeps it well formed.
LEMMA AdvanceOK ==
  ASSUME NEW runs, \A x \in streams : StreamOK(x, served), served \subseteq runs,
         NEW s \in streams,
         NEW state \in {"sent", "routing", "serving"} \cup Replies,
         state = "routing" => s.ttl > 0,
         state = "RESULT" => [id |-> s.id, path |-> s.path, ok |-> TRUE] \in runs
  PROVE  \A x \in Advance(s, state) : StreamOK(x, runs)
<1>1. \A x \in streams : StreamOK(x, runs)
  BY DEF StreamOK
<1> DEFINE moved == [s EXCEPT !.state = state]
<1>2. moved \in Stream /\ moved.state = state /\ moved.ttl = s.ttl /\ moved.path = s.path
      /\ moved.src = s.src /\ moved.id = s.id
  BY DEF StreamOK, Stream
<1>3. StreamOK(moved, runs)
  BY <1>1, <1>2 DEF StreamOK
<1>4. QED
  BY <1>1, <1>3 DEF Advance

\* New copies are well formed.
LEMMA CopiesOK ==
  ASSUME NEW runs, NEW n \in Nodes, NEW m \in Requests, NEW ttl \in Nat,
         NEW path \in Seq(Nodes), NEW hops \in SUBSET Nodes,
         ttl + Len(path) = TTL,
         n = IF path = <<>> THEN Origin[m] ELSE path[Len(path)]
  PROVE  \A x \in Copies(n, m, ttl, path, hops) : StreamOK(x, runs)
<1> SUFFICES ASSUME NEW x \in Copies(n, m, ttl, path, hops)
             PROVE  StreamOK(x, runs)
  OBVIOUS
<1>1. /\ x \in Stream
      /\ x.src = n /\ x.id = m /\ x.ttl = ttl /\ x.path = path /\ x.state = "sent"
  BY DEF Copies, Stream
<1>2. QED
  BY <1>1 DEF StreamOK

\* A relay that forwards takes one hop off the ttl and adds itself to the path.
LEMMA ForwardBudget ==
  ASSUME NEW s \in Stream, s.ttl > 0, s.ttl + Len(s.path) = TTL
  PROVE  /\ s.ttl - 1 \in Nat
         /\ Append(s.path, s.dst) \in Seq(Nodes)
         /\ (s.ttl - 1) + Len(Append(s.path, s.dst)) = TTL
         /\ Append(s.path, s.dst) # <<>>
         /\ Append(s.path, s.dst)[Len(Append(s.path, s.dst))] = s.dst
<1>1. s.ttl \in Nat /\ s.path \in Seq(Nodes) /\ s.dst \in Nodes
  BY DEF Stream
<1>2. /\ Append(s.path, s.dst) \in Seq(Nodes)
      /\ Len(Append(s.path, s.dst)) = Len(s.path) + 1
      /\ Append(s.path, s.dst)[Len(s.path) + 1] = s.dst
  BY <1>1, AppendProperties
<1>3. Len(s.path) \in Nat /\ TTL \in Nat
  BY <1>1, OverlayAssumption
<1>4. QED
  BY <1>1, <1>2, <1>3

LEMMA HopSetsInNodes ==
  ASSUME NEW n \in Nodes, NEW hops \in HopSets(n)
  PROVE  hops \in SUBSET Nodes
  BY OverlayAssumption DEF HopSets

LEMMA ResponseHopsInNodes ==
  ASSUME NEW n \in Nodes, NEW path \in Seq(Nodes)
  PROVE  ResponseHops(n, path) \subseteq Nodes
  BY OverlayAssumption DEF ResponseHops

-----------------------------------------------------------------------------
(* Settling: an answer goes to a promise that waits, or nowhere.           *)

\* What any step may do to the outcome of m once it is registered.
SettleStep(m, v) ==
  \/ outcome' = outcome
  \/ outcome[m] = "waiting" /\ outcome' = [outcome EXCEPT ![m] = v]

\* A settlement spoils nothing the invariant says of outcomes, provided a
\* resolution is backed by a successful run of the handler.
LEMMA SettleStepOK ==
  ASSUME IInv, NEW m \in Requests, NEW v \in {"resolved", "rejected"}, SettleStep(m, v),
         served \subseteq served',
         v = "resolved" => \E e \in served' : e.id = m /\ e.ok
  PROVE  /\ outcome' \in [Requests -> Outcomes]
         /\ ResolvedMeansHandled'
         /\ \A i \in Requests : outcome[i] = "new" => outcome'[i] = "new"
<1>0. outcome \in [Requests -> Outcomes]
  BY DEF IInv, FrameOK
<1>1. outcome' \in [Requests -> Outcomes]
  BY <1>0 DEF SettleStep, Outcomes
<1>2. ASSUME NEW i \in Requests, outcome'[i] = "resolved"
      PROVE  \E e \in served' : e.id = i /\ e.ok
  <2>1. CASE outcome[i] = "resolved"
    BY <2>1 DEF IInv, ResolvedMeansHandled
  <2>2. CASE outcome[i] # "resolved"
    BY <1>0, <1>2, <2>2 DEF SettleStep
  <2>3. QED
    BY <2>1, <2>2
<1>3. \A i \in Requests : outcome[i] = "new" => outcome'[i] = "new"
  BY <1>0 DEF SettleStep
<1>4. QED
  BY <1>1, <1>2, <1>3 DEF ResolvedMeansHandled

\* HandleResponse settles with a backed result or passes the response on.
LEMMA HandleResponseOK ==
  ASSUME IInv, NEW n \in Nodes, NEW m \in Requests, NEW path \in Seq(Nodes),
         NEW ok \in BOOLEAN, NEW rest \in SUBSET relayed,
         ok => Backed(m, path, served), HandleResponse(n, m, path, ok, rest)
  PROVE  /\ \A r \in relayed' : ResponseOK(r, served)
         /\ \E v \in {"resolved", "rejected"} :
               /\ SettleStep(m, v)
               /\ v = "resolved" => \E e \in served : e.id = m /\ e.ok
<1>1. CASE /\ n = Origin[m]
           /\ \E v \in Verdicts(ok) : Settle(m, v)
           /\ relayed' = rest
  <2>1. PICK v \in Verdicts(ok) : Settle(m, v)
    BY <1>1
  <2>2. v \in {"resolved", "rejected"} /\ (v = "resolved" => ok)
    BY DEF Verdicts
  <2>3. SettleStep(m, v)
    BY <2>1 DEF Settle, SettleStep
  <2>4. QED
    BY <1>1, <2>2, <2>3 DEF IInv, Backed
<1>2. CASE /\ \E hop \in ResponseHops(n, path) :
                relayed' = rest \cup
                  {[src |-> n, dst |-> hop, id |-> m, path |-> Append(path, n), ok |-> ok]}
           /\ UNCHANGED outcome
  <2>1. PICK hop \in ResponseHops(n, path) :
                relayed' = rest \cup
                  {[src |-> n, dst |-> hop, id |-> m, path |-> Append(path, n), ok |-> ok]}
    BY <1>2
  <2> DEFINE new == [src |-> n, dst |-> hop, id |-> m, path |-> Append(path, n), ok |-> ok]
  <2>2. hop \in Nodes
    BY ResponseHopsInNodes
  <2>3. /\ Append(path, n) \in Seq(Nodes)
        /\ Len(Append(path, n)) = Len(path) + 1
        /\ \A i \in 1 .. Len(path) : Append(path, n)[i] = path[i]
    BY AppendProperties
  <2>4. new \in Response
    BY <2>2, <2>3 DEF Response
  <2>5. ok => Backed(m, Append(path, n), served)
    <3> SUFFICES ASSUME ok
                 PROVE  Backed(m, Append(path, n), served)
      OBVIOUS
    <3>1. PICK e \in served : /\ e.id = m /\ e.ok
                              /\ Len(e.path) < Len(path)
                              /\ \A i \in DOMAIN e.path : e.path[i] = path[i]
      BY DEF Backed
    <3>2. e.path \in Seq(Nodes)
      BY DEF IInv, FrameOK
    <3>3. Len(e.path) < Len(Append(path, n))
      BY <3>1, <3>2, <2>3, LenProperties
    <3>4. \A i \in DOMAIN e.path : e.path[i] = Append(path, n)[i]
      BY <3>1, <3>2, <2>3, LenProperties
    <3>5. QED
      BY <3>1, <3>3, <3>4 DEF Backed
  <2>6. ResponseOK(new, served)
    BY <2>4, <2>5 DEF ResponseOK
  <2>7. QED
    BY <1>2, <2>1, <2>6 DEF IInv, SettleStep
<1>3. QED
  BY <1>1, <1>2 DEF HandleResponse

-----------------------------------------------------------------------------
(* Each group of steps preserves the invariant.                            *)

LEMMA OriginStepIInv ==
  ASSUME IInv, NEW m \in Requests, OriginStep(m)
  PROVE  IInv'
<1> USE DEF Phases
<1>1. CASE SendMessage(m)
  BY <1>1 DEF SendMessage, history, IInv, FrameOK, ResolvedMeansHandled,
              ForwardsAreRecorded, IdleIsNew
<1>2. CASE RefuseOversized(m) \/ KeyLookupFails(m)
  BY <1>2 DEF RefuseOversized, KeyLookupFails, history, IInv, FrameOK, Outcomes,
              ResolvedMeansHandled, ForwardsAreRecorded, IdleIsNew
<1>3. CASE Register(m)
  BY <1>3 DEF Register, history, IInv, FrameOK, Outcomes, ResolvedMeansHandled,
              ForwardsAreRecorded, IdleIsNew
<1>4. CASE RoutingFails(m) \/ SendsFail(m) \/ RequestTimeout(m)
  <2>1. SettleStep(m, "rejected") /\ served' = served
    BY <1>4 DEF RoutingFails, SendsFail, RequestTimeout, Settle, SettleStep, history
  <2>2. /\ outcome' \in [Requests -> Outcomes]
        /\ ResolvedMeansHandled'
        /\ \A i \in Requests : outcome[i] = "new" => outcome'[i] = "new"
    BY <2>1, SettleStepOK
  <2>3. phase' \in [Requests -> Phases] /\ \A i \in Requests : phase'[i] = "idle" => phase[i] = "idle"
    BY <1>4 DEF RoutingFails, SendsFail, RequestTimeout, IInv, FrameOK
  <2>4. QED
    BY <1>4, <2>2, <2>3 DEF RoutingFails, SendsFail, RequestTimeout, history, IInv, FrameOK,
                            ForwardsAreRecorded, IdleIsNew
<1>5. ASSUME NEW hops \in HopSets(Origin[m]), SendCopies(m, hops)
      PROVE  IInv'
  <2>1. Origin[m] \in Nodes /\ TTL \in Nat /\ hops \in SUBSET Nodes
    BY OverlayAssumption, HopSetsInNodes
  <2>2. <<>> \in Seq(Nodes) /\ TTL + Len(<<>>) = TTL
    BY <2>1, EmptySeq
  <2>3. \A x \in Copies(Origin[m], m, TTL, <<>>, hops) : StreamOK(x, served)
    BY <2>1, <2>2, CopiesOK
  <2>4. \A x \in streams' : StreamOK(x, served')
    BY <1>5, <2>3 DEF SendCopies, history, IInv
  <2>5. QED
    BY <1>5, <2>4 DEF SendCopies, history, IInv, FrameOK, ResolvedMeansHandled,
                      ForwardsAreRecorded, IdleIsNew
<1>6. CASE SendsSettled(m)
  BY <1>6, OverlayAssumption
  DEF SendsSettled, Record, history, IInv, FrameOK, ResolvedMeansHandled,
      ForwardsAreRecorded, IdleIsNew
<1>7. QED
  BY <1>1, <1>2, <1>3, <1>4, <1>5, <1>6 DEF OriginStep

\* A receiver that only replies or moves on changes nothing but its stream.
LEMMA RepliedIInv ==
  ASSUME IInv, NEW s \in streams,
         NEW state \in {"routing", "serving", "none", "UNREACHABLE", "ERROR"},
         state = "routing" => s.ttl > 0, Replied(s, state)
  PROVE  IInv'
<1>1. \A x \in streams' : StreamOK(x, served)
  BY AdvanceOK DEF Replied, IInv, Replies
<1>2. QED
  BY <1>1 DEF Replied, history, IInv, FrameOK, ResolvedMeansHandled,
              ForwardsAreRecorded, IdleIsNew

LEMMA ForwardIInv ==
  ASSUME IInv, NEW s \in streams, NEW hops \in HopSets(s.dst), Forward(s, hops)
  PROVE  IInv'
<1>1. /\ s \in Stream /\ s.dst \in Nodes /\ s.id \in Requests /\ s.path \in Seq(Nodes)
      /\ s.ttl > 0 /\ s.ttl + Len(s.path) = TTL
  BY DEF IInv, StreamOK, Stream, Forward
<1>2. hops \in SUBSET Nodes
  BY <1>1, HopSetsInNodes
<1>3. \A x \in Copies(s.dst, s.id, s.ttl - 1, Append(s.path, s.dst), hops) : StreamOK(x, served)
  BY <1>1, <1>2, ForwardBudget, CopiesOK
<1>4. \A x \in Advance(s, "none") : StreamOK(x, served)
  BY AdvanceOK DEF IInv, Replies
<1>5. \A x \in streams' : StreamOK(x, served')
  BY <1>3, <1>4 DEF Forward
<1>6. seen' \in [Nodes -> SUBSET Requests] /\ s.id \in seen'[s.dst]
      /\ \A n \in Nodes : seen[n] \subseteq seen'[n]
  BY <1>1 DEF Forward, Record, IInv, FrameOK
<1>7. forwarded' \subseteq [node : Nodes, id : Requests, path : Seq(Nodes)]
  BY <1>1 DEF Forward, IInv, FrameOK
<1>8. ForwardsAreRecorded'
  <2> SUFFICES ASSUME NEW f \in forwarded'
               PROVE  f.id \in seen'[f.node] \/ <<f.node, f.id>> \in expired
    BY DEF Forward, ForwardsAreRecorded
  <2>1. CASE f \in forwarded
    <3>1. f.node \in Nodes
      BY <2>1 DEF IInv, FrameOK
    <3>2. f.id \in seen[f.node] \/ <<f.node, f.id>> \in expired
      BY <2>1 DEF IInv, ForwardsAreRecorded
    <3>3. QED
      BY <3>1, <3>2, <1>6
  <2>2. CASE f = [node |-> s.dst, id |-> s.id, path |-> s.path]
    BY <2>2, <1>6
  <2>3. QED
    BY <2>1, <2>2 DEF Forward
<1>9. QED
  BY <1>5, <1>6, <1>7, <1>8 DEF Forward, IInv, FrameOK, ResolvedMeansHandled, IdleIsNew

LEMMA ServeIInv ==
  ASSUME IInv, NEW s \in streams, NEW ok \in BOOLEAN, Serve(s, ok)
  PROVE  IInv'
<1> DEFINE run == [id |-> s.id, path |-> s.path, ok |-> ok]
           state == IF ok THEN "RESULT" ELSE "ERROR"
<1>1. served' = served \cup {run} /\ served \subseteq served'
  BY DEF Serve
<1>2. s.id \in Requests /\ s.path \in Seq(Nodes)
  BY DEF IInv, StreamOK, Stream
<1>3. served' \subseteq [id : Requests, path : Seq(Nodes), ok : BOOLEAN]
  BY <1>1, <1>2 DEF IInv, FrameOK
<1>4. \A x \in streams' : StreamOK(x, served')
  <2>1. state \in {"sent", "routing", "serving"} \cup Replies /\ state # "routing"
    BY DEF Replies
  <2>2. state = "RESULT" => [id |-> s.id, path |-> s.path, ok |-> TRUE] \in served'
    BY <1>1
  <2>3. \A x \in Advance(s, state) : StreamOK(x, served')
    BY <1>1, <2>1, <2>2, AdvanceOK DEF IInv
  <2>4. QED
    BY <2>3 DEF Serve
<1>5. \A r \in relayed' : ResponseOK(r, served')
  BY <1>1 DEF Serve, IInv, ResponseOK, Backed
<1>6. ResolvedMeansHandled'
  BY <1>1 DEF Serve, IInv, ResolvedMeansHandled
<1>7. QED
  BY <1>3, <1>4, <1>5, <1>6 DEF Serve, IInv, FrameOK, ForwardsAreRecorded, IdleIsNew

LEMMA ReceiverStepIInv ==
  ASSUME IInv, NEW s \in streams, ReceiverStep(s)
  PROVE  IInv'
<1>1. CASE ReceiveDuplicate(s)
  BY <1>1, RepliedIInv DEF ReceiveDuplicate
<1>2. CASE ReceiveAtTarget(s)
  BY <1>2, RepliedIInv DEF ReceiveAtTarget
<1>3. CASE ReceiveAtRelay(s)
  <2>1. s.ttl \in Nat
    BY DEF IInv, StreamOK, Stream
  <2>2. QED
    BY <1>3, <2>1, RepliedIInv DEF ReceiveAtRelay
<1>4. CASE NoRoute(s) \/ DecryptionFails(s)
  BY <1>4, RepliedIInv DEF NoRoute, DecryptionFails
<1>5. CASE ServeWithoutHandler(s)
  BY <1>5, RepliedIInv DEF ServeWithoutHandler
<1>6. QED
  BY <1>1, <1>2, <1>3, <1>4, <1>5, ForwardIInv, ServeIInv DEF ReceiverStep

LEMMA SenderStepIInv ==
  ASSUME IInv, NEW s \in streams, SenderStep(s)
  PROVE  IInv'
<1>1. /\ s \in Stream /\ s.src \in Nodes /\ s.dst \in Nodes /\ s.id \in Requests
      /\ s.path \in Seq(Nodes)
  BY DEF IInv, StreamOK, Stream
<1>2. CASE ReadUnreachable(s)
  <2>1. SettleStep(s.id, "rejected") /\ served' = served
    BY <1>2 DEF ReadUnreachable, Settle, SettleStep, history
  <2>2. /\ outcome' \in [Requests -> Outcomes]
        /\ ResolvedMeansHandled'
        /\ \A i \in Requests : outcome[i] = "new" => outcome'[i] = "new"
    BY <1>1, <2>1, SettleStepOK
  <2>3. QED
    BY <1>2, <2>2 DEF ReadUnreachable, history, IInv, FrameOK, ForwardsAreRecorded, IdleIsNew
<1>3. CASE ReadNothing(s)
  BY <1>3 DEF ReadNothing, history, IInv, FrameOK, ResolvedMeansHandled,
              ForwardsAreRecorded, IdleIsNew
<1>4. CASE ReadResponse(s)
  <2> DEFINE path == Append(s.path, s.dst)
             ok == s.state = "RESULT"
  <2>1. /\ path \in Seq(Nodes)
        /\ Len(path) = Len(s.path) + 1
        /\ \A i \in 1 .. Len(s.path) : path[i] = s.path[i]
    BY <1>1, AppendProperties
  <2>2. ok => Backed(s.id, path, served)
    <3> SUFFICES ASSUME ok
                 PROVE  Backed(s.id, path, served)
      OBVIOUS
    <3>1. [id |-> s.id, path |-> s.path, ok |-> TRUE] \in served
      BY DEF IInv, StreamOK
    <3>2. Len(s.path) < Len(path) /\ \A i \in DOMAIN s.path : s.path[i] = path[i]
      BY <1>1, <2>1, LenProperties
    <3>3. QED
      BY <3>1, <3>2 DEF Backed
  <2>3. HandleResponse(s.src, s.id, path, ok, relayed)
    BY <1>4 DEF ReadResponse
  <2>4. /\ \A r \in relayed' : ResponseOK(r, served)
        /\ \E v \in {"resolved", "rejected"} :
              /\ SettleStep(s.id, v)
              /\ v = "resolved" => \E e \in served : e.id = s.id /\ e.ok
    <3>1. ok \in BOOLEAN /\ relayed \in SUBSET relayed
      OBVIOUS
    <3> HIDE DEF path, ok
    <3>2. QED
      BY <1>1, <2>1, <2>2, <2>3, <3>1, HandleResponseOK
  <2>5. served' = served /\ phase' = phase /\ streams' = streams \ {s}
    BY <1>4 DEF ReadResponse, history
  <2>6. /\ outcome' \in [Requests -> Outcomes]
        /\ ResolvedMeansHandled'
        /\ \A i \in Requests : outcome[i] = "new" => outcome'[i] = "new"
    BY <1>1, <2>4, <2>5, SettleStepOK
  <2>7. QED
    BY <1>4, <2>4, <2>5, <2>6 DEF ReadResponse, history, IInv, FrameOK,
                                  ForwardsAreRecorded, IdleIsNew
<1>5. QED
  BY <1>2, <1>3, <1>4 DEF SenderStep

LEMMA ReceiveResponseIInv ==
  ASSUME IInv, NEW r \in relayed, ReceiveResponse(r)
  PROVE  IInv'
<1>1. /\ r.dst \in Nodes /\ r.id \in Requests /\ r.path \in Seq(Nodes) /\ r.ok \in BOOLEAN
      /\ r.ok => Backed(r.id, r.path, served)
  BY DEF IInv, ResponseOK, Response
<1>2. /\ HandleResponse(r.dst, r.id, r.path, r.ok, relayed \ {r})
      /\ served' = served /\ phase' = phase
  BY DEF ReceiveResponse, history
<1>3. /\ \A x \in relayed' : ResponseOK(x, served)
      /\ \E v \in {"resolved", "rejected"} :
            /\ SettleStep(r.id, v)
            /\ v = "resolved" => \E e \in served : e.id = r.id /\ e.ok
  BY <1>1, <1>2, HandleResponseOK
<1>4. /\ outcome' \in [Requests -> Outcomes]
      /\ ResolvedMeansHandled'
      /\ \A i \in Requests : outcome[i] = "new" => outcome'[i] = "new"
  BY <1>1, <1>2, <1>3, SettleStepOK
<1>5. QED
  BY <1>2, <1>3, <1>4 DEF ReceiveResponse, history, IInv, FrameOK,
                          ForwardsAreRecorded, IdleIsNew

LEMMA EnvironmentStepIInv ==
  ASSUME IInv, EnvironmentStep
  PROVE  IInv'
<1>1. ASSUME NEW s \in streams, StopListening(s)
      PROVE  IInv'
  <2> DEFINE closed == [s EXCEPT !.open = FALSE]
  <2>1. StreamOK(s, served)
    BY DEF IInv
  <2>2. /\ closed \in Stream /\ closed.state = s.state /\ closed.ttl = s.ttl
        /\ closed.path = s.path /\ closed.src = s.src /\ closed.id = s.id
    BY <2>1 DEF StreamOK, Stream
  <2>3. StreamOK(closed, served)
    BY <2>1, <2>2 DEF StreamOK
  <2>4. \A x \in streams' : x \in streams \/ x = closed
    BY <1>1 DEF StopListening
  <2>5. QED
    BY <1>1, <2>3, <2>4 DEF StopListening, history, IInv, FrameOK, ResolvedMeansHandled,
                            ForwardsAreRecorded, IdleIsNew
<1>2. ASSUME NEW n \in Nodes, NEW m \in Requests, DedupExpires(n, m)
      PROVE  IInv'
  <2>1. seen' \in [Nodes -> SUBSET Requests] /\ expired' \subseteq Nodes \X Requests
    BY <1>2 DEF DedupExpires, IInv, FrameOK
  <2>2. ForwardsAreRecorded'
    <3> SUFFICES ASSUME NEW f \in forwarded
                 PROVE  f.id \in seen'[f.node] \/ <<f.node, f.id>> \in expired'
      BY <1>2 DEF DedupExpires, history, ForwardsAreRecorded
    <3>1. f.node \in Nodes /\ (f.id \in seen[f.node] \/ <<f.node, f.id>> \in expired)
      BY DEF IInv, FrameOK, ForwardsAreRecorded
    <3>2. CASE f.node = n /\ f.id = m
      BY <1>2, <3>2 DEF DedupExpires
    <3>3. CASE ~ (f.node = n /\ f.id = m)
      BY <1>2, <3>1, <3>3 DEF DedupExpires, IInv, FrameOK
    <3>4. QED
      BY <3>2, <3>3
  <2>3. QED
    BY <1>2, <2>1, <2>2 DEF DedupExpires, history, IInv, FrameOK, ResolvedMeansHandled, IdleIsNew
<1>3. ASSUME NEW n \in Targets, OnMessage(n) \/ OffMessage(n)
      PROVE  IInv'
  BY <1>3 DEF OnMessage, OffMessage, history, IInv, FrameOK, ResolvedMeansHandled,
              ForwardsAreRecorded, IdleIsNew
<1>4. QED
  BY <1>1, <1>2, <1>3 DEF EnvironmentStep

LEMMA NextIInv == IInv /\ [Next]_vars => IInv'
<1> SUFFICES ASSUME IInv, [Next]_vars
             PROVE  IInv'
  OBVIOUS
<1>1. CASE UNCHANGED vars
  BY <1>1 DEF vars, IInv, FrameOK, ResolvedMeansHandled, ForwardsAreRecorded, IdleIsNew
<1>2. QED
  BY <1>1, OriginStepIInv, ReceiverStepIInv, SenderStepIInv, ReceiveResponseIInv,
     EnvironmentStepIInv DEF Next

LEMMA SpecIInv == Spec => []IInv
  BY InitIInv, NextIInv, PTL DEF Spec

-----------------------------------------------------------------------------
(* What follows for every run of the network.                              *)

\* Every message, cache and history has its type.
THEOREM TypeCorrect == Spec => []TypeOK
<1>1. IInv => TypeOK
  BY DEF IInv, FrameOK, TypeOK, StreamOK, ResponseOK
<1>2. QED
  BY <1>1, SpecIInv, PTL

\* A copy's ttl and path always add up to the ttl of the origin: no network,
\* however looped, carries a copy further than TTL hops.
THEOREM HopsAreBudgeted == Spec => []HopBudget
<1>1. IInv => HopBudget
  BY DEF IInv, StreamOK, HopBudget
<1>2. QED
  BY <1>1, SpecIInv, PTL

\* A successful response, wherever it is, stems from a run of the handler.
THEOREM ResponsesAreBacked == Spec => []ResponsesStemFromHandler
<1>1. IInv => ResponsesStemFromHandler
  BY DEF IInv, StreamOK, ResponseOK, Backed, ResponsesStemFromHandler
<1>2. QED
  BY <1>1, SpecIInv, PTL

\* sendMessage resolves only if the target's handler returned a result.
THEOREM ResolvedRequestsWereHandled == Spec => []ResolvedMeansHandled
  BY SpecIInv, PTL DEF IInv

\* A relay remembers what it forwarded until the entry expires.
THEOREM RelaysRemember == Spec => []ForwardsAreRecorded
  BY SpecIInv, PTL DEF IInv

-----------------------------------------------------------------------------
(***************************************************************************)
(* The promise of sendMessage implements RequestPromise.                   *)
(***************************************************************************)

Status == [m \in Requests |-> Promised(m)]

\* A settlement resolves or rejects one waiting promise, or changes nothing.
LEMMA SettleStepImplements ==
  ASSUME IInv, NEW m \in Requests, NEW v \in {"resolved", "rejected"}, SettleStep(m, v),
         \A i \in Requests : phase'[i] = "lookup" <=> phase[i] = "lookup"
  PROVE  [Contract!Next]_Status
<1>0. outcome \in [Requests -> Outcomes]
  BY DEF IInv, FrameOK
<1>1. CASE outcome' = outcome
  BY <1>1 DEF Status, Promised
<1>2. CASE outcome[m] = "waiting" /\ outcome' = [outcome EXCEPT ![m] = v]
  <2>1. CASE phase[m] = "lookup"
    BY <1>0, <1>2, <2>1 DEF Status, Promised
  <2>2. CASE phase[m] # "lookup"
    <3>1. m \in Contract!Waiting
      BY <1>2, <2>2 DEF Contract!Waiting, Promised
    <3>2. Status' = [Status EXCEPT ![m] = v]
      BY <1>0, <1>2, <2>2 DEF Status, Promised
    <3>3. Status' = [i \in Requests |-> IF i \in {m} THEN v ELSE Status[i]]
      BY <3>2 DEF Status
    <3>4. CASE v = "resolved"
      BY <3>1, <3>2, <3>4 DEF Contract!Resolve, Contract!Next, Status
    <3>5. CASE v = "rejected"
      <4>1. {m} \in SUBSET Contract!Waiting
        BY <3>1
      <4>2. QED
        BY <3>3, <3>5, <4>1 DEF Contract!RejectSome, Contract!Next, Status
    <3>6. QED
      BY <3>4, <3>5
  <2>3. QED
    BY <2>1, <2>2
<1>3. QED
  BY <1>1, <1>2 DEF SettleStep

LEMMA OriginStepImplements ==
  ASSUME IInv, NEW m \in Requests, OriginStep(m)
  PROVE  [Contract!Next]_Status
<1>0. outcome \in [Requests -> Outcomes] /\ phase \in [Requests -> Phases]
  BY DEF IInv, FrameOK
<1>1. CASE SendMessage(m)
  <2>1. outcome[m] = "new"
    BY <1>1 DEF SendMessage, IInv, IdleIsNew
  <2>2. \A q \in Requests : q \in Contract!Waiting /\ q = m => FALSE
    BY <1>1, <2>1 DEF SendMessage, Contract!Waiting, Promised
  <2>3. \A q \in Requests : Promised(q)' = IF q = m THEN "waiting" ELSE Promised(q)
    BY <1>0, <1>1 DEF SendMessage, Promised
  <2>4. Promised(m) = "new"
    BY <1>1, <2>1 DEF SendMessage, Promised
  <2>5. Contract!Register(m)
    BY <2>2, <2>3, <2>4 DEF Contract!Register
  <2>6. QED
    BY <2>5 DEF Contract!Next
<1>2. CASE RefuseOversized(m)
  <2>1. Promised(m) = "new"
    BY <1>2 DEF RefuseOversized, IInv, IdleIsNew, Promised
  <2>2. Status' = [Status EXCEPT ![m] = "rejected"]
    BY <1>0, <1>2 DEF RefuseOversized, Status, Promised
  <2>3. QED
    BY <2>1, <2>2 DEF Contract!Refuse, Contract!Next, Status
<1>3. CASE KeyLookupFails(m)
  <2>1. {m} \in SUBSET Contract!Waiting
    BY <1>3 DEF KeyLookupFails, Contract!Waiting, Promised
  <2>2. Status' = [i \in Requests |-> IF i \in {m} THEN "rejected" ELSE Status[i]]
    BY <1>0, <1>3 DEF KeyLookupFails, Status, Promised
  <2>3. QED
    BY <2>1, <2>2 DEF Contract!RejectSome, Contract!Next, Status
<1>4. CASE Register(m)
  <2>1. Status' = Status
    BY <1>0, <1>4 DEF Register, Status, Promised
  <2>2. QED
    BY <2>1
<1>5. CASE RoutingFails(m) \/ SendsFail(m) \/ RequestTimeout(m)
  <2>1. SettleStep(m, "rejected")
    BY <1>5 DEF RoutingFails, SendsFail, RequestTimeout, Settle, SettleStep
  <2>2. \A i \in Requests : phase'[i] = "lookup" <=> phase[i] = "lookup"
    BY <1>0, <1>5 DEF RoutingFails, SendsFail, RequestTimeout
  <2>3. QED
    BY <2>1, <2>2, SettleStepImplements
<1>6. CASE SendsSettled(m) \/ \E hops \in HopSets(Origin[m]) : SendCopies(m, hops)
  BY <1>0, <1>6 DEF SendsSettled, SendCopies, Status, Promised
<1>7. QED
  BY <1>1, <1>2, <1>3, <1>4, <1>5, <1>6 DEF OriginStep

LEMMA AnswerImplements ==
  ASSUME IInv,
         \/ \E s \in streams : SenderStep(s)
         \/ \E r \in relayed : ReceiveResponse(r)
  PROVE  [Contract!Next]_Status
<1>1. ASSUME NEW m \in Requests, NEW n, NEW path, NEW ok, NEW rest,
             HandleResponse(n, m, path, ok, rest)
      PROVE  \E v \in {"resolved", "rejected"} : SettleStep(m, v)
  <2>1. CASE \E v \in Verdicts(ok) : Settle(m, v)
    BY <2>1 DEF Verdicts, Settle, SettleStep
  <2>2. CASE UNCHANGED outcome
    BY <2>2 DEF SettleStep
  <2>3. QED
    BY <1>1, <2>1, <2>2 DEF HandleResponse
<1>2. ASSUME NEW s \in streams, SenderStep(s)
      PROVE  /\ phase' = phase
             /\ \E m \in Requests, v \in {"resolved", "rejected"} : SettleStep(m, v)
  <2>1. s.id \in Requests
    BY DEF IInv, StreamOK, Stream
  <2>2. CASE ReadUnreachable(s)
    BY <2>1, <2>2 DEF ReadUnreachable, Settle, SettleStep
  <2>3. CASE ReadNothing(s)
    BY <2>1, <2>3 DEF ReadNothing, SettleStep
  <2>4. CASE ReadResponse(s)
    BY <2>1, <2>4, <1>1 DEF ReadResponse
  <2>5. QED
    BY <1>2, <2>2, <2>3, <2>4 DEF SenderStep
<1>3. ASSUME NEW r \in relayed, ReceiveResponse(r)
      PROVE  /\ phase' = phase
             /\ \E m \in Requests, v \in {"resolved", "rejected"} : SettleStep(m, v)
  <2>1. r.id \in Requests
    BY DEF IInv, ResponseOK, Response
  <2>2. QED
    BY <2>1, <1>1, <1>3 DEF ReceiveResponse
<1>4. /\ phase' = phase
      /\ \E m \in Requests, v \in {"resolved", "rejected"} : SettleStep(m, v)
  BY <1>2, <1>3
<1>5. QED
  BY <1>4, SettleStepImplements

LEMMA StepImplements ==
  ASSUME IInv, [Next]_vars
  PROVE  [Contract!Next]_Status
<1>1. ASSUME NEW s \in streams, ReceiverStep(s)
      PROVE  UNCHANGED <<phase, outcome>>
  BY <1>1 DEF ReceiverStep, ReceiveDuplicate, ReceiveAtTarget, ReceiveAtRelay, NoRoute,
              Forward, DecryptionFails, Serve, ServeWithoutHandler, Replied
<1>2. CASE EnvironmentStep
  BY <1>2 DEF EnvironmentStep, StopListening, DedupExpires, OnMessage, OffMessage,
              Status, Promised
<1>3. CASE UNCHANGED vars
  BY <1>3 DEF vars, Status, Promised
<1>4. CASE \E s \in streams : ReceiverStep(s)
  BY <1>1, <1>4 DEF Status, Promised
<1>5. QED
  BY <1>2, <1>3, <1>4, OriginStepImplements, AnswerImplements DEF Next

\* Whatever answers, errors and timeouts arrive, and in whatever order, the
\* promise of sendMessage is settled once at most and then never changes.
THEOREM PromisesSettleOnce == Spec => SettlesOnce
<1>1. Init => Contract!Init
  BY DEF Init, Contract!Init, Promised
<1>2. IInv /\ [Next]_vars => [Contract!Next]_Status
  BY StepImplements
<1>3. QED
  BY <1>1, <1>2, SpecIInv, PTL DEF Spec, SettlesOnce, Contract!Spec, Status
=============================================================================
