------------------------- MODULE BrowserConnections -------------------------
(***************************************************************************)
(* The connections of a browser node (src/browser/browser-node.ts): their  *)
(* count in the node's state, the pruning of the oldest, the closing of    *)
(* all when the tab is put away, and peer discovery, which dials peers     *)
(* over DHT lookups, relays and the peer store.                            *)
(*                                                                         *)
(* Connections are kept in the order they were opened; one that is being   *)
(* closed stays in the list until it has closed, as in libp2p.  A lookup   *)
(* or a scan of the peer store yields some peers, in some order, each of   *)
(* which may have an address to dial or not.                               *)
(***************************************************************************)
EXTENDS Naturals, Sequences, FiniteSets, SequencesExt

CONSTANTS RemotePeers,
          MaxConnections,    \* the configured limit
          Discoveries,       \* concurrent calls of discoverPeers
          DhtLookups,        \* lookups of one discovery
          MaxOpen            \* bound on the connections modelled

ASSUME ConnectionAssumption ==
  /\ MaxConnections \in Nat
  /\ DhtLookups \in Nat
  /\ MaxOpen \in Nat
  /\ IsFiniteSet(RemotePeers)

VARIABLES conns,             \* getConnections, oldest first
          connectedPeers,    \* the count in the node's state
          closingAll,        \* handleInactive waits for its connections
          discoveries        \* the calls of discoverPeers

connVars == <<conns, connectedPeers, closingAll, discoveries>>

Connection == [peer : RemotePeers, status : {"open", "closing", "put away"}]
Phases == {"idle", "lookup", "relay", "via peers", "peer store"}
Discovery == [phase : Phases, left : 0..DhtLookups, todo : SUBSET RemotePeers,
              seen : SUBSET RemotePeers, dialing : SUBSET RemotePeers]
NoDiscovery == [phase |-> "idle", left |-> 0, todo |-> {}, seen |-> {}, dialing |-> {}]

PeersOf(cs) == {c.peer : c \in ToSet(cs)}

ConnInit ==
  /\ conns = <<>>
  /\ connectedPeers = 0
  /\ closingAll = FALSE
  /\ discoveries = [d \in Discoveries |-> NoDiscovery]

-----------------------------------------------------------------------------
(* Connections.                                                            *)

\* updateConnectionCounts counts peers, not connections.
CountPeers(cs) == Cardinality(PeersOf(cs))

\* Mutant of Announce: only peer:connect updates the count.
AnnounceArrivals(changed) ==
  /\ conns' = changed
  /\ IF PeersOf(changed) \subseteq PeersOf(conns)
     THEN UNCHANGED connectedPeers
     ELSE connectedPeers' = CountPeers(changed)

\* libp2p announces the first connection of a peer, and the loss of the last.
Announce(changed) ==
  /\ conns' = changed
  /\ IF PeersOf(changed) # PeersOf(conns)
     THEN connectedPeers' = CountPeers(changed)
     ELSE UNCHANGED connectedPeers

AddConn(p) ==
  /\ Len(conns) < MaxOpen
  /\ Announce(Append(conns, [peer |-> p, status |-> "open"]))

\* The peer dials, or another part of the node does.
PeerConnects(p) ==
  /\ AddConn(p)
  /\ UNCHANGED <<closingAll, discoveries>>

\* The peer closes, or a close of ours is done.
ConnCloses(i) ==
  /\ Announce(RemoveAt(conns, i))
  /\ UNCHANGED <<closingAll, discoveries>>

\* At 90 % of the limit the oldest are closed, down to 80 %; those that are
\* closing already count, and may be chosen again.
Prune ==
  LET target == (MaxConnections * 8) \div 10
  IN /\ Len(conns) * 10 >= MaxConnections * 9
     /\ conns' = [i \in DOMAIN conns |->
          IF i + target <= Len(conns) /\ conns[i].status = "open"
          THEN [conns[i] EXCEPT !.status = "closing"] ELSE conns[i]]
     /\ UNCHANGED <<connectedPeers, closingAll, discoveries>>

\* handleInactive closes what there is at this moment; one call at a time.
PutAway ==
  /\ ~ closingAll
  /\ closingAll' = TRUE
  /\ conns' = [i \in DOMAIN conns |-> [conns[i] EXCEPT !.status = "put away"]]
  /\ UNCHANGED <<connectedPeers, discoveries>>

\* All of these have closed: the count is 0, whatever has come meanwhile.
AllPutAway ==
  /\ closingAll
  /\ \A c \in ToSet(conns) : c.status # "put away"
  /\ closingAll' = FALSE
  /\ connectedPeers' = 0
  /\ UNCHANGED <<conns, discoveries>>

-----------------------------------------------------------------------------
(* Discovery.                                                              *)

SetDiscovery(d, value) ==
  /\ discoveries' = [discoveries EXCEPT ![d] = value]
  /\ UNCHANGED closingAll

Quiet(d, value) ==
  /\ SetDiscovery(d, value)
  /\ UNCHANGED <<conns, connectedPeers>>

Ready(d) == discoveries[d].todo = {} /\ discoveries[d].dialing = {}

\* Skipped at 90 % of the limit. The peers connected now are not dialed.
DiscoverPeers(d) ==
  /\ discoveries[d].phase = "idle"
  /\ Len(conns) * 10 < MaxConnections * 9
  /\ Quiet(d, [NoDiscovery EXCEPT !.phase = "lookup", !.left = DhtLookups,
                                  !.seen = PeersOf(conns)])

\* dhtLookupAndDial: the next lookup, for the own key or a random one.
Lookup(d) ==
  /\ discoveries[d].phase = "lookup"
  /\ Ready(d)
  /\ discoveries[d].left > 0
  /\ \E found \in SUBSET RemotePeers :
       Quiet(d, [discoveries[d] EXCEPT !.left = @ - 1, !.todo = found])

\* The phases after the lookups run only if the node has a relay address; the
\* peer store yields some peers.
NextPhase(d, hasRelayAddress) ==
  LET phase == discoveries[d].phase
      next == CASE phase = "lookup" /\ hasRelayAddress -> "relay"
                [] phase = "relay" -> "via peers"
                [] phase = "via peers" /\ hasRelayAddress -> "peer store"
                [] OTHER -> "idle"
  IN /\ phase # "idle"
     /\ phase = "lookup" => discoveries[d].left = 0
     /\ Ready(d)
     /\ \E found \in SUBSET RemotePeers :
          Quiet(d, IF next = "idle" THEN NoDiscovery
                   ELSE [discoveries[d] EXCEPT !.phase = next, !.todo = found])

\* Where a phase stops at the limit: the lookups and the peer store count
\* connections, the query of connected peers counts peers, and the relays are
\* tried without a limit.
AtLimit(d) ==
  CASE discoveries[d].phase = "relay" -> FALSE
    [] discoveries[d].phase = "via peers" -> CountPeers(conns) >= MaxConnections
    [] OTHER -> Len(conns) >= MaxConnections

\* Peers connected to, or without an address that can be dialed, are skipped.
SkipPeer(d, p) ==
  /\ p \in discoveries[d].todo
  /\ discoveries[d].dialing = {}
  /\ Quiet(d, [discoveries[d] EXCEPT !.todo = @ \ {p}])

StopAtLimit(d, p) ==
  /\ p \in discoveries[d].todo \ discoveries[d].seen
  /\ discoveries[d].dialing = {}
  /\ AtLimit(d)
  /\ Quiet(d, [discoveries[d] EXCEPT !.todo = {}])

DialPeer(d, p) ==
  /\ p \in discoveries[d].todo \ discoveries[d].seen
  /\ discoveries[d].dialing = {}
  /\ ~ AtLimit(d)
  /\ Quiet(d, [discoveries[d] EXCEPT !.todo = @ \ {p}, !.dialing = {p}])

\* One of the addresses of the peer answers; a peer that has connected in the
\* meantime keeps the connection it has.
DialSucceeds(d, p) ==
  /\ p \in discoveries[d].dialing
  /\ IF p \in PeersOf(conns) THEN UNCHANGED <<conns, connectedPeers>> ELSE AddConn(p)
  /\ SetDiscovery(d, [discoveries[d] EXCEPT !.dialing = {}, !.seen = @ \cup {p}])

DialFails(d, p) ==
  /\ p \in discoveries[d].dialing
  /\ Quiet(d, [discoveries[d] EXCEPT !.dialing = {}])

\* The lookup or the scan throws: discoverPeers catches it.
DiscoveryFails(d) ==
  /\ discoveries[d].phase # "idle"
  /\ discoveries[d].dialing = {}
  /\ Quiet(d, NoDiscovery)

-----------------------------------------------------------------------------
DialEnds(d) == \E p \in RemotePeers : DialSucceeds(d, p) \/ DialFails(d, p)

PeerHandled(d) ==
  \E p \in RemotePeers : SkipPeer(d, p) \/ StopAtLimit(d, p) \/ DialPeer(d, p)

PhaseEnds(d) == Lookup(d) \/ \E b \in BOOLEAN : NextPhase(d, b)

DiscoveryStep(d) ==
  \/ DiscoverPeers(d)
  \/ PhaseEnds(d)
  \/ PeerHandled(d)
  \/ DialEnds(d)
  \/ DiscoveryFails(d)

ConnNext ==
  \/ \E p \in RemotePeers : PeerConnects(p)
  \/ \E i \in DOMAIN conns : ConnCloses(i)
  \/ Prune
  \/ PutAway
  \/ AllPutAway
  \/ \E d \in Discoveries : DiscoveryStep(d)

ConnSpec == ConnInit /\ [][ConnNext]_connVars

-----------------------------------------------------------------------------
(* Properties.                                                             *)

ConnTypeOK ==
  /\ conns \in Seq(Connection) /\ Len(conns) <= MaxOpen
  /\ connectedPeers \in 0..Cardinality(RemotePeers)
  /\ closingAll \in BOOLEAN
  /\ discoveries \in [Discoveries -> Discovery]

\* The count in the node's state is the number of the peers that are connected,
\* although only first and last connections of a peer are announced and pruning,
\* discovery and the peers open and close others in between; or it is the 0 that
\* handleInactive wrote, which holds until the next announcement.
CountIsTrueOrReset ==
  connectedPeers \in {0, Cardinality(PeersOf(conns))}
=============================================================================
