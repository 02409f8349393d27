# TLA+ development for yz.p2pnetwork

This directory holds TLA+ models of the peer-to-peer network in `src/`, TLC
configurations that check them on small instances, and TLAPS proofs that hold
for every value of the constants. Paths below are relative to the repository's
`src/src/`.

    tlc  -workers 2 -config <X>.cfg <Module>     # one run of PROJECT.json
    tlapm <Module>Proofs.tla                     # the proofs of one component

`PROJECT.json` lists components, runs, the source lines each definition stands
for, one mutant per property (a plausible bug that the property catches), the
hazards of the code and the theorems.

## 1. The system

A Node.js or browser process owns a libp2p node. `DHTNode` (server) or
`BrowserNode` (browser) starts it, joins the Kademlia DHT and keeps it
connected. On top of it `OverlayNetwork` sends encrypted requests over several
relays at once and routes the responses back; it looks public keys up with
`KeyManager`, remembers requests in `PendingRequestsManager` and message ids in
`DeduplicationCache`. Everything runs on one event loop per process: code
between two awaits is atomic, and everything else interleaves, across calls,
timers, libp2p events and processes.

### Inventory

| Component | State | Operations | What is hard | Correct means |
|---|---|---|---|---|
| Pending requests (`overlay/pending-requests.ts`) | a map id -> entry (promise, deadline, timer), a sweep timer | `register`, `resolve`, `reject`, the timer of an entry, `checkTimeouts`, `clear`, `destroy` | an id is registered twice; the sweep, the timer and an answer race; use after `destroy` | the table holds exactly the callers that wait; each promise settles once; none waits for ever |
| Overlay messaging (`overlay/overlay.ts`, `router.ts`, `dedup-cache.ts`) | calls of `sendMessage` and their routing, dedup cache, message handler, streams | `sendMessage`, `routeRequest`, `sendToNode`, `handleRequest`, `processLocalRequest`, `forwardRequest`, `handleResponse`, `handleUnreachable`, `onMessage`, `offMessage` | redundant copies, loops of relays, check-then-await, lost streams, late answers, forgetful caches | a promise resolves only if the target's handler ran; hops are bounded; every send ends |
| Overlay life cycle (`overlay/overlay.ts` `start`, `stop`) | `started`, publish timer, sweep timers, protocol handlers | `start`, `stop` | two starts at once, stop during start | a stopped node has no timers and no handlers |
| Key management (`overlay/key-manager.ts`) | key pair, storage, publish timer, cache of others' keys | `initialize`, `publishPublicKey`, `lookupPublicKey`, `requestKeyDirectly`, `registerKeyExchangeHandler`, `rotateKeys` | crashes between save and use; publications and lookups that carry old keys; concurrent rotations | a key others know can be had again; DHT and caches converge to the key in use |
| Wire protocol (`overlay/wire-protocol.ts`) | none | encode and decode of each message | counts of one byte, 64-bit integers assembled from 32-bit halves | decode inverts encode in the ranges the code produces |
| Cryptography, attestation (`overlay/crypto.ts`, `attestation.ts`) | none | calls into libraries | failure | folded into the callers |
| DHT node (`dht/node.ts`, `routing.ts`) | libp2p node, `started`, `bootstrapped` | `start`, `stop`, `bootstrap`, `findClosestPeers`, `put`, `get` | two starts, partial bootstrap, stop during either | one libp2p node at most, and a flag that tells the truth |
| Key distance (`dht/distance.ts`) | none | `xorDistance`, `compareDistance`, `getBucketIndex`, `sortByDistance` | lengths and boundaries | a metric; buckets ordered by distance |
| Browser node (`browser/browser-node.ts`) | libp2p node, status, timers, overlay | `start`, `stop`, bootstrap, peer discovery, pruning, `handleActive`, `handleInactive` | a failing start, activity changes while connections open or close | status and libp2p agree; limits hold |
| Connection upgrader (`browser/connection-upgrader.ts`) | table of relayed peers, attempts in progress, timer | `trackRelayedConnection`, `untrackConnection`, `attemptUpgrades`, `attemptUpgrade`, `start`, `stop`, `clear` | entries that vanish and reappear under an attempt; sweeps that overlap | one attempt per entry; no entry is stuck, left out, or outlives its peer |
| Relay selector (`browser/relay-selector.ts`) | relays with utilization, failed set, degraded flag | `addRelay`, `selectRelay`, `requestRelayWithFailover`, `handleRelayResult`, `updateRelayStatus`, `clearFailedRelays` | a status that was read before a failure and applied after it | no full or failed relay is chosen; the flag follows what is available |
| Activity monitor (`browser/activity-monitor.ts`) | active flag, inactivity timer | DOM events | order of events and timers | the flag follows the last event |
| Rate limiter, validation (`browser/security.ts`) | windows and blocks per peer and kind | `checkLimit`, `blockPeer`, `isBlocked`, `cleanup` | expiry at boundaries, several kinds per peer | nobody exceeds a limit in a window; blocks hold and end |
| Identity and storage (`browser/peer-id-manager.ts`, `storage.ts`) | identity in IndexedDB | load, generate, save | two loads at once | one identity |
| WebSocket bridge (`cli/ws-bridge.ts`) | clients, local store | put, get, messages of clients | put and get race over an await | what was acknowledged is found |
| Server command (`cli/node.ts`) | phase of `main`, attempts, exit code | `main`, its retries, `shutdown` on two signals | a start that fails is tried again, a signal arrives in the middle | a command comes to serve or ends |
| Browser transports (`browser/webrtc-transport.ts`) | relay addresses | add, remove, list | reservations that end before the next begins | the relay that is held is the one advertised |
| Configuration (`config/*`, `dht/config.ts`, `dht/factory.ts`, `multiaddr-protocols.ts`) | none | construction of third-party objects | - | not modelled |

### How they interact

* `OverlayNetwork.sendMessage` -> `KeyManager.lookupPublicKey` (await) ->
  `PendingRequestsManager.register` -> `routeRequest` -> several `sendToNode`.
  A reply on a stream, a message from a relay, a timer or `stop` settle the
  promise through `PendingRequestsManager`.
* The relays and the target run `handleRequest` on their own event loops; all
  they share with the origin is the stream.
* `OverlayNetwork.start` drives `KeyManager` (initialize, first publication,
  the publication timer, the key exchange handler); `stop` clears the timer and
  destroys the pending requests.
* `BrowserNode` feeds libp2p's connection events to `ConnectionUpgrader` and
  starts, stops and clears it; the upgrader calls back into libp2p to dial and
  to close.
* `BrowserNode.start` and `stop` are called by the application at any time, and
  call the overlay, the upgrader and the activity monitor; the monitor calls
  back into `handleActive` and `handleInactive`, which close and dial. libp2p's
  reservation events change the relay addresses of the transport.
* `cli/node.ts` and `cli/ws-bridge.ts` start `DHTNode` and `OverlayNetwork`, in
  different orders, and stop them upon SIGTERM or SIGINT, also while `main` is
  still starting them. Each message of a client of the bridge is handled by a
  call of its own, which awaits the DHT or the overlay while others run.
* The DHT, libp2p's connections and the runtime's timers are external; they are
  modelled by what the code relies on, and marked external in the map.

## 2. Modules

| Module | Models | Kind |
|---|---|---|
| `RequestPromise` | what a caller of `sendMessage` may rely on | abstract specification |
| `PendingRequests` | `PendingRequestsManager` | component, implements `RequestPromise` |
| `OverlayNetwork` | requests, relays and responses across nodes | composed protocol, implements `RequestPromise` |
| `KeyManager` | the keys of one node and another node's lookups | component with its environment |
| `ConnectionUpgrader` | the upgrader with the part of `BrowserNode` that drives it | component with its environment |
| `BrowserNode` | `BrowserNode.start` and `stop`, `ActivityMonitor` and its callbacks | composed component |
| `BrowserConnections` | connection counts, pruning, closing on inactivity, peer discovery | component with its environment |
| `RelaySelector` | `RelaySelector` with failover and status fetches | component with its environment |
| `SecurityManager` | `RateLimiter` and `SecurityManager` | component |
| `PeerIdManager` | `PeerIdManager` and IndexedDB | component with its environment |
| `RelayAddresses` | the relay address list and the events that change it | component with its environment |
| `ServerNode` | `DHTNode` and `OverlayNetwork` `start` and `stop`, `main` and `shutdown` of both commands | composed component |
| `WsBridge` | clients of the bridge and their messages | component with its environment |
| `WireProtocol` | encoding and decoding of the four messages | algorithm |
| `Distance` | XOR distance, comparison, bucket index | algorithm |
| `MCBrowser`, `MCServer` | one instance for the parts of a browser, of a server | model checking |
| `MCKeyManager`, `MCOverlayNetwork` | constants of the runs | model checking |
| `PendingRequestsProofs`, `OverlayNetworkProofs`, `KeyManagerProofs`, `ConnectionUpgraderProofs`, `WireProofs` | one component each | proofs |
| `BrowserProofs` | the other parts of a browser, one section each, and `MCBrowser` | proofs |
| `ServerProofs` | the other parts of a server, one section each, and `MCServer` | proofs |
| `InductionLemmas` | the least number of a set, induction over a set, recursion over an interval | lemmas |

### RequestPromise

One variable, the status of each promise. A promise is registered (rejecting
one that waits under the same id), refused, resolved, rejected (several at
once, as a sweep or a shutdown does) or abandoned (`clear`). Its specification
says that nothing but a waiting promise is ever settled, so that each settles at
most once and never changes afterwards.

### PendingRequests

`pending` is the map, `timers` the armed `setTimeout`s, `checkTimer` the
`setInterval` of the sweep, `deadline` the time stored in an entry, `outcome`
what the caller has seen; `early` is history. Actions are the methods:
`Register` (with the rejection of the entry it replaces), `Resolve`, `Reject`,
`TimerFires`, `CheckTimeouts`, `Clear`, `Destroy`. Three facts of the code
that the model keeps because they matter: the sweep removes entries but does
not clear their timers; a timer that fires looks its id up again; `register`
works after `destroy`. The first two together mean that a *reused* id may time
out early, which `FreshIdNeverEarly` delimits: a request whose id nobody shares
never does.

### OverlayNetwork

A request copy is a record on a stream: sender, receiver, id, ttl, path, the
place its receiver's handler has reached (`sent`, `routing` while it awaits the
DHT, `serving` while it decrypts and runs the handler, or the reply), and
whether the sender still listens. `phase` is where `sendMessage` and its
`routeRequest` stand, `outcome` the promise, `relayed` responses that travel as
messages of their own, `seen` the dedup caches; `served`, `forwarded` and
`expired` are history. Each action is a piece of code between two awaits:

| Code | Actions |
|---|---|
| `sendMessage` | `SendMessage`, `RefuseOversized`, `KeyLookupFails`, `Register` |
| `routeRequest` | `RoutingFails`, `SendCopies`, `SendsSettled`, `SendsFail` |
| `handleRequest` | `ReceiveDuplicate`, `ReceiveAtTarget`, `ReceiveAtRelay` |
| `forwardRequest` | `NoRoute`, `Forward` |
| `processLocalRequest` | `DecryptionFails`, `Serve`, `ServeWithoutHandler` |
| `sendToNode`, `handleResponse`, `handleUnreachable` | `ReadResponse`, `ReadUnreachable`, `ReadNothing`, `StopListening`, `ReceiveResponse` |
| timers, application | `RequestTimeout`, `DedupExpires`, `OnMessage`, `OffMessage` |

A lost message is one nobody receives, so loss needs no action. Copies are
never reordered on a stream because a stream carries one request and one reply;
copies on different streams are received in any order.

### KeyManager

One owner and one seeker. A key is the number of the `generateKeyPair` that
made it. `life` is where `OverlayNetwork.start` stands; `stored` and `durable`
are the `KeyStorage` (the in-memory one is lost in a crash, a durable one is
not); `rotations` are calls of `rotateKeys` in progress, between save and
switch; `puts` publications that captured a key and are on their way; `dht` the
replicas; `lookups` the calls of `lookupPublicKey` with their place (cache, DHT,
direct request with retries, holding a key not yet cached). `Crash` may happen
between any two steps. Encryption of the overlay is on, as by default.
Nothing in the repository calls `rotateKeys`, a public method: the model lets
the application call it while the node runs.

### ConnectionUpgrader

`entries` is `relayedConnections`. An attempt of the code holds a reference to
the entry it began with, which may meanwhile have been removed and replaced:
`gen` numbers the entries of a peer so that the model can tell which one an
attempt holds. `upgrades` are the attempts in progress with their place (reading
the peer store, dialling, about to close relayed connections, closing the list
it took). `links` are libp2p's connections; libp2p announces the first
connection of a peer (`peer:connect`) and the loss of its last one
(`peer:disconnect`), not those in between. `node` is `BrowserNode.start` and
`stop` as far as they touch the upgrader, with a start that throws after libp2p
was created. Attempts come from the timer's sweeps and from the application,
which has the upgrader through `getConnectionUpgrader`; the order in which a
sweep visits entries is left open, which allows all orders.

### BrowserNode

A libp2p node is the number of its `createLibp2p`. `calls` says at which await
each `start` or `stop` stands; every step after an await reads `libp2p` again,
as the code does, so that a call sees what others did meanwhile. `running` is
the set of nodes that hold sockets, whether a field still names them or not;
`timers` counts the intervals that are alive, `armed` whether the fields hold
one. Three facts of the code matter. `start` sets nothing that would stop a
second `start` before `libp2p` is created. A start that throws sets the status
and leaves what it created. The four callbacks of the monitor are registered at
every start and never removed, so that one event runs `handleInactive` several
times. `closing` and `reconnecting` count the handlers that stand at their
awaits; the status is written after them. `graceTimer` is `stale` when the tab
was shown since it was set; no variable of the code says so. `overlapped` is
history.

### BrowserConnections

`conns` is libp2p's list, oldest first, in which a connection stays while it is
being closed. libp2p announces first and last connections of a peer only, and
`connectedPeers` is updated only then, or set to 0 by `handleInactive`, which is
how it comes to be wrong until the next announcement (`CountIsTrueOrReset`). A
discovery goes through its phases (lookups, relays, connected peers, peer
store), each of which yields any set of peers, and dials them one by one; the
four phases stop at the limit by three different counts, which `AtLimit` keeps.

### RelaySelector

Loads are levels up to `Full`; `Threshold` is `maxUtilizationThreshold`. A
status fetch writes to the object it read from the table before its await:
`current` says whether that object is still the one in the table, for a relay
may be removed or added again meanwhile. It clears the failure mark by name all
the same. `refusedLast` is history.

### SecurityManager

The three tables of the rate limiter. A request is its age, capped at `MaxAge`,
which no comparison of the code reaches, and a number that tells it from others
of that age; a list of times is the set of them, as the code only filters and
counts it. `left` is what is left of a block. `blockPeer` puts
one object into all three tables, and what a check of one kind writes to it the
other two see: `shared` says which kinds of a peer still hold it, `Written` which
entries a write reaches. `cleanup` removes entries of each table separately.
`admitted` and `manualLeft` are history, kept beside the tables and so not
subject to what `cleanup` forgets.

### PeerIdManager

An identity is the number of the `generateKeyPair` that made it. Calls of
`getPeerId` load, generate and save across awaits; `Reload` of the page ends all
calls and keeps only the storage. `saveToStorage` writes what is cached when it
runs, not what its call generated. `disturbed` is history: storage failed or was
cleared, or calls overlapped.

### RelayAddresses

`storedRelayAddresses` is the list of `webrtc-transport.ts`, which keeps its
last address when the reservation goes. The reservations are libp2p's.
`getMultiaddrs` asks the listeners in the order of the transports in the
configuration (`browser-node.ts:384-399`; the log `BrowserA.txt` at the repository's
root lists in this order), and each lists its addresses in any order (`Listings`). The WebRTC
listener is wrapped (`webrtc-transport.ts:403-432`, `WebRTCListener`): when
libp2p's own listener has no address, as with relays behind an http-path
(`HttpRelays`), it generates them from the stored list, so that the address kept
of a former relay is listed again and goes back into `addRelayAddress`, upon a new
reservation as well as in `bootstrap`. The circuit listener, asked afterwards,
lists what is reserved; in the other order, the mutant `ListingsCircuitFirst`, the
former relay would win. `Only`, `AddAll` and `RemoveAll` are the filters and loops
of the code, as functions that recur over the positions of a list.

### ServerNode

`node`, `dhtStarted` are `DHTNode`'s fields, `overlayStarted`, `publishers`
(intervals that are alive), `keyPublishTimer` (whether the field names one),
`overlayOn` and `keyExchangeOn` (the libp2p nodes at which the protocols are
registered) `OverlayNetwork`'s. A user's call stands at one of the awaits of
`DhtSteps` or `OverlaySteps`. `command` is chosen at the start: as a library any
of the callers calls any method at any time; as `node` or `bridge`, `main` runs its
phases and each of the two signals runs `shutdown` once, at any moment.
`concurrent` and `pulled` (the DHT was stopped under a started overlay) are
history. libp2p may refuse the key exchange protocol: `registerKeyExchangeHandler`
only logs that, and the start goes on without it, so no property counts on it.

### WsBridge

A job is a message in progress. `kvStore` is the bridge's own map, `dhtStore`
the DHT, which other nodes change and any operation on which may fail. A put
is stored locally first; a get that finds nothing there asks the DHT, and stores
the answer over what a put may have stored meanwhile.

### WireProtocol and Distance

A message is its type, the flag of the header, and its fields in the order in
which they are written (`KindsOf`). `Encode` writes them; the stream may be cut
anywhere; `Decode` reads them, and refuses as soon as a check of the code fails
(`TooShort`). Bytes are below `Base` instead of 256 and fixed parts have `Width`
bytes, so that paths longer than a count, and times with a high word that is
read as negative, are among the messages tried. Numbers are written byte by byte
by shifts that lose what does not fit (`Digits`); the words of a time and the
length of a ciphertext are read with signed shifts (`SignedOf`), so that a decoder
that has lost its place may go back, even before the first byte (`Place`,
`BytesFrom`). An attestation that
the header announces is read only if anything is left (`Skipped`): a response
that ends right before it passes for one without, which `DecodedOrRefused` names.
`CanCarry` says which messages the format is for: counts and lengths that fit
into their bytes. `Distance` keeps the functions
as they are, for ids of up to `IdBytes` bytes. There a byte is its `ByteBits`
bits, most significant first: `^` compares bits, `<` is decided by the first bit
that differs, and `clz32` counts the bits before the first 1.

### MCBrowser and MCServer

The parts of a browser, or of a server, that share no state are checked in one
run: `part` is chosen at the start, only that part takes steps, the others keep
their initial values. The states of the run are the sum of those of the parts,
not their product, and every property of a part is checked in all its states.

## 3. Runs

| Run | Instance | Shows |
|---|---|---|
| `overlay_network` | origin, two relays that know each other, target; redundancy 2, ttl 2; one relay forgets | ttl and path add up (`HopBudget`), responses come from handlers (`ResponsesStemFromHandler`, `ResolvedMeansHandled`), promises settle once (`SettlesOnce`), calls end (`EverySendEnds`) |
| `forwarded_once` | two relays that may both get a copy | **violated**: a relay forwards a message twice |
| `response_goes_upstream` | as `overlay_network` | **violated**: a response a relay reads goes back to the target |
| `key_manager` | 2 keys, one crash, one replica, one lookup with 2 direct attempts | what leaves the node was stored (`ReleasedKeysWereStored`), storage and key pair agree outside of rotations (`StoredIsCurrent`), DHT and caches converge if the owner stays up (`EventuallyAgree`), lookups end (`LookupsEnd`) |
| `former_key_decrypts` | 2 keys, 1 replica | **violated**: a request encrypted with the present key is undecipherable after the next rotation |
| `relayed_are_tracked` | one peer, three connections | **violated**: a relayed connection opened beside a direct one is never upgraded |
| `browser` | the parts of a browser, see the bounds | calls that do not overlap, also failing ones, leave no node, interval or grace period behind (`NothingIsLeftBehind`); a grace period that ends was not interrupted (`GraceIsUninterrupted`); no relay is asked whose last word was a refusal (`RefusedAreNotOffered`); blocks by hand hold (`ManualBlockHolds`), and so do the limits of a peer never blocked by hand (`WindowLimit`); a returned identity is the one kept (`ReturnedIdIsKept`); the relay held is advertised (`AdvertisedAddresses`); the count of peers is true or the 0 that `handleInactive` wrote (`CountIsTrueOrReset`); the node does not hang in "connecting" (`ConnectingEnds`); the upgrader makes one attempt per entry (`OneUpgradePerEntry`), its mark is true (`BusyIffUpgrading`), no entry outlives its peer (`TrackedAreConnected`), entries are tried up to the limit (`EveryEntryIsTried`) |
| `active_tab_reconnects` | as `browser` | **violated**: an active tab stays disconnected |
| `server` | the parts of a server, see the bounds | calls one after another lose no libp2p node and no interval (`NothingIsLost`); an overlay that says it is started serves (`StartedOverlayServes`); what was acknowledged is found (`AcknowledgedIsFound`); a message is decoded as it was or refused (`DecodedOrRefused`); two peers share a bucket exactly if they are nearer to each other than to the node (`SharedBucketsAreNear`); a command comes to serve or ends (`CommandSettles`); the table of requests matches the callers (`WaitingIffLive`), every entry has its timer (`LiveHasTimer`), a stray timer is a timed out one's (`StrayTimersAreTimedOut`), only shared ids are hurried (`FreshIdNeverEarly`), each promise settles once (`ImplementsContract`) and does settle (`EveryRequestSettles`) |
| `one_node_runs` | two callers of `DHTNode.start` | **violated**: two libp2p nodes run |
| `closer_peers_have_higher_buckets`, `different_ids_have_buckets` | ids of one or two bytes of two bits | **violated**: the nearer peer has the lower index; an id that goes on with zeros has no bucket |

### What the violations say

* **forwarded_once.** `forwardRequest` asks the dedup cache, awaits the DHT and
  records afterwards (`overlay.ts:827`). A second copy that arrives during the
  await passes. Requirement 3.1 of the overlay specification says a relay shall
  not forward an id it has seen. The damage is bounded: `HopBudget` still holds.
* **response_goes_upstream.** `routeResponse` takes the last peer of the path,
  which is the target itself, because the target appends itself
  (`router.ts:257`). The request is then answered only by a copy that came
  straight from the origin, or times out.
* **former_key_decrypts.** `rotateKeys` keeps no old key.
* **relayed_are_tracked.** `peer:connect` is emitted for a peer's first
  connection only (`browser-node.ts:1590`).
* **active_tab_reconnects.** `handleActive` returns unless the status is
  "inactive" (`browser-node.ts:1922`), and `handleInactive` writes that status
  only after it has awaited the closes. A tab that is shown in between is
  ignored, and the node goes inactive with the tab in view. The requirements
  of the browser nodes say it reconnects.

* **one_node_runs.** `DHTNode.start` checks `started` before several awaits and sets
  it after them; its comment calls it idempotent (`dht/node.ts:127`). Of two starts
  that overlap each creates its node; the field names the later one, and the other
  runs on after `stop`. `OverlayNetwork.start` has the same pattern with its publish
  interval (`overlay.ts:174`).
* **closer_peers_have_higher_buckets.** The comments of `getBucketIndex`
  (`dht/distance.ts:56-57`, `74`) give bucket 0 to the largest distance; the code
  gives it to the smallest. Nothing is out of order but the numbering:
  `SharedBucketsAreNear` says that the buckets are those of Kademlia.
* **different_ids_have_buckets.** A missing byte counts as 0, so `[1]` and
  `[1, 0]` are at distance 0 and the index is -1, where
  `distance.property.test.ts:80` expects one from 0 to 255 of ids that are not
  identical.

Some properties hold only for calls that do not overlap (`overlapped`,
`concurrent`, `disturbed`). That is the limit of the code, not of the models:
`start`, `stop` and `rotateKeys` have no lock, and with two calls at once
`NothingIsLeftBehind`, `NothingIsLost` and `StoredIsCurrent` fail. `one_node_runs`
shows it where a comment promises more. A stop during a start, two rotations at
once, and a `get` of the bridge that stores an older value over a `put` are hazards
for which no promise is broken; `PROJECT.json` lists them as such. So does it list
the paths that `CanCarry` exempts, longer than the byte that counts them
(`wire-protocol.ts:310`): no request has one, as `HopBudget` keeps its path within
the ttl it began with, a byte itself.

### Bounds and why they suffice

* `server`, its requests: timeouts of 1 and 2, the clock to 3. Two promises that
  share an id exercise replacement and the stray timer; the third, under an id of
  its own, the sweep of several entries. The clock must outlast the longer timeout by one tick for a stale timer to
  meet a new entry.
* `OverlayNetwork`: copies reach the target by ways of one, two and three
  nodes, return to the origin, and meet each other at a relay; this takes a cycle between
  the relays, redundancy 2 and ttl 2. One message, as messages share nothing
  but caches and tables indexed by id. `MaxResponsePath` cuts the bouncing
  response off (see the violation) after it has bounced once. `ExpiringNodes`
  has one relay, whose cache forgets a message once.
* `KeyManager`: an old key and a new one, and a replica that a late publication
  gives the old one again. A crash may fall between any two steps of a start or of
  the rotation. Two rotations at once would take a third key; `StoredIsCurrent`
  exempts them, and the theorems hold for any number of keys and replicas. The
  lookups of the seeker share only the cache. One lookup that holds an old key while
  the replica and the cache change puts a stale key into the cache, with a fresh timestamp; two lookups that do so one after
  the other differ from it only in whose stale key stays for a cache lifetime,
  and are too many states for the convergence property.
* `browser`, its upgrader: attempts, entries and connections of one peer do not
  read those of another, so one peer that leaves and comes back suffices; four
  connections allow a relayed one, its loss, its return and a dialled one, with two
  attempts and one stop.

* `browser`, by parts. Life cycle: two callers with four calls and two libp2p
  nodes, so that a start overlaps a start or a stop, and a third and fourth call
  meet what these left; two events of the tab or the network. Connections: two
  peers, a limit of 3, so that pruning (at 90 %) and discovery (below it) meet,
  one discovery with one lookup; discoveries read nothing of each other but the
  connections, which the environment changes as well. Relays: two relays, a
  request and a fetch, which is what it takes for an answer to come too late.
  Limits: one peer (tables are per peer) with three kinds, limits 1, 2, 1 and
  windows 1, 1, 2, so that the sweep of a short window meets a long one, blocks of 1 and
  2, ages to 5, one more than twice the longest window, which is the age `cleanup`
  asks for. Identity: two calls, two identities, one reload. Addresses: two relays with two
  addresses each, one relay behind an http-path, so that what is listed comes from
  libp2p's own listener or from the stored list.
* `server`, by parts. Life cycle: two callers with seven calls, three libp2p nodes;
  both commands with three attempts and two signals. Bridge: one key, two
  values, one client and two jobs, five messages; keys share nothing. Format:
  bytes below 8, fixed parts of one byte, every message cut at every byte; the
  paths have none, two and eight relays, eight being one too many for a count.
  Distance: all triples of ids of one or two bytes of two bits, so that the
  first differing bit is in either byte or in none.
* The violations take the smallest instance that has the case: two callers, three
  calls (the node must be started before the overlay), two libp2p nodes.

`CHECK_DEADLOCK FALSE` in the configurations: the systems really may stop, once
every request is settled and the bounds are used up.

### Fairness

* The runtime: an armed timer fires, time passes (`PendingRequests`,
  `RequestTimeout`, `PublishTimer`, `CacheExpires`, the upgrader's sweep).
* Awaits that have a timeout of their own in the code or in libp2p come to an
  end: DHT queries, dials, stream reads, closes, publications.
* `EventuallyAgree` assumes one thing of the network: a replica that is sent
  publications for ever takes one now and then (strong fairness of
  `PutReaches`). Without it no design converges. Of a lookup it assumes that what
  it awaits ends, not how (`AwaitEnds`): every direct attempt may fail with a
  negotiation error, and `LookupsEnd` holds because retries are counted.
* `BrowserFairness`: each await of `start` and `stop` ends, in success or in the
  failure the code catches; so do closes and reconnections. Dials have
  timeouts, the wait for a relay address has fifteen seconds.
* `ServerFairness`: calls of libp2p and waits end, and `main` and `shutdown`
  go on from one call to the next. That a user calls, or a signal comes, is not
  assumed.
* Nothing is owed by relays, handlers, peers or the application: copies may be
  lost, a handler may never return, no connection need come.

## 4. Proofs

Each `*Proofs` module gives an inductive invariant `IInv` and proves
`Init => IInv`, `IInv /\ [Next]_vars => IInv'` with one lemma per action, and
the theorems from it.

| Theorem (module) | States, for every value of the constants |
|---|---|
| `TypeCorrect` (four modules), `BrowserTypeCorrect`, `RelayTypeCorrect`, `ConnectionTypesHold`, `ServerTypeCorrect`, `BridgeTypeCorrect` | the type invariant of each specification |
| `BrowserTypesHold` (`BrowserProofs`), `ServerTypesHold` (`ServerProofs`) | the type invariants of all parts of a browser, of a server, as the runs check them together |
| `TableMatchesCallers`, `EveryEntryTimed`, `StrayTimers`, `NeverEarlyWithFreshIds` (`PendingRequestsProofs`) | the invariants of the requests in `server` |
| `ManagerImplementsContract` (`PendingRequestsProofs`) | `PendingRequests` implements `RequestPromise` |
| `HopsAreBudgeted`, `ResponsesAreBacked`, `ResolvedRequestsWereHandled`, `RelaysRemember` (`OverlayNetworkProofs`) | the invariants of `overlay_network`, in every network, with every redundancy and ttl |
| `PromisesSettleOnce` (`OverlayNetworkProofs`) | `OverlayNetwork` implements `RequestPromise` |
| `ReleasedKeysAreSafe`, `StorageIsCurrent` (`KeyManagerProofs`) | the invariants of `key_manager` |
| `OneAttemptAtATime`, `BusyIsTrue`, `TrackedPeersAreConnected` (`ConnectionUpgraderProofs`) | the invariants of the upgrader in `browser` |
| `SoloCallsLeaveNothing`, `GraceHolds` (`BrowserProofs`) | `NothingIsLeftBehind`, `GraceIsUninterrupted`, for any number of callers, calls and events |
| `RefusedStayOut`, `IdentitiesAreKept` (`BrowserProofs`) | `RefusedAreNotOffered`, `ReturnedIdIsKept`, for any relays, calls and reloads |
| `BlocksHold`, `WindowsHold` (`BrowserProofs`) | `ManualBlockHolds`, `WindowLimit`, for any peers, kinds, limits, windows and durations |
| `AddressesAdvertised` (`BrowserProofs`) | `AdvertisedAddresses`, for any relays, behind an http-path or not, and addresses of theirs, the generated ones included |
| `CountsHold` (`BrowserProofs`) | `CountIsTrueOrReset`, for any peers, limits and discoveries |
| `SoloCallsLoseNothing`, `SoloOverlayServes` (`ServerProofs`) | `NothingIsLost`, `StartedOverlayServes`, for any users, commands and retries |
| `AcknowledgedPutsAreFound` (`ServerProofs`) | `AcknowledgedIsFound`, for any clients, keys and values |
| `BucketsAreNear` (`ServerProofs`) | `SharedBucketsAreNear`, for ids and bytes of any length, 32 and 8 among them |
| `ComparisonOrders` (`ServerProofs`) | `compareDistance` is a strict order on all distances |
| `MessagesSurvive` (`WireProofs`) | `DecodedOrRefused`, for any base and width and for all values that the format can carry, cut at any byte |

Two have no run of their own. `RelaysRemember` says that what a relay forwarded
is in its dedup cache or has expired there. `ComparisonOrders` says of
`compareDistance` what sorting by it relies on: it is 0 only for distances with
equal bytes, changes its sign when its arguments are swapped, and is transitive.

Why the invariants need strengthening:

* `PendingRequests`: an entry is stored under the id of its promise; otherwise
  a timer could remove another promise's entry.
* `OverlayNetwork`: besides the budget itself, a copy that awaits the DHT has
  some ttl left (checked before the await, used after it); each response
  carries the path of a run that backs it; an idle call has a new promise (for
  the refinement).
* `KeyManager`: `Recoverable` says where each key that could still leave the
  node is stored; `InStep` says that storage is ahead of the key pair only
  between the save and the switch of one rotation.
* `ConnectionUpgrader`: no attempt holds an entry younger than the newest one of
  its peer (`GenerationsOK`), so a new entry is nobody's; `BusyIffUpgrading`
  and `OneUpgradePerEntry` need each other.

* `BrowserNode`: without overlap at most one call is at work, and its step says
  which fields are set (`SoloFacts`): no node before it is created, nothing
  armed before `start` ends or after `stop` began. The grace timer is set only
  while the monitor runs and knows that the tab is hidden (`GraceFacts`), which
  needs no such assumption.
* `RelaySelector`: marks may be cleared in bulk, so what keeps a refusing relay
  out is the load noted with the refusal (`RefusedAreFull`), and only a fetch
  whose entry is still in the table may replace it (`CurrentAreKnown`).
* `SecurityManager`: every table holds an entry of the blocked peer whose block
  has exactly as long to go as the block by hand, so that no write to the shared
  object shortens it. For the windows (`PeerFacts`): as long as a peer was not
  blocked by hand it shares no entry, and what it was admitted within the window
  is in its table, because checks, the clock and `cleanup` drop older requests
  only; the limit that `checkLimit` counts in the table then bounds the history.
* `PeerIdManager`: one call at most is in progress, none is given an identity
  while it is still looking, and what is cached is stored unless a call is about
  to save it.
* `ServerNode`: one call at most is at work (`Alone`); the running node is the
  field's while it is started or being started (`DhtFacts`); the interval was
  set by the start that is at work or by the one that ended (`OverlayFacts`).
* `WsBridge`: a key that is being put or was acknowledged has a value in the
  bridge's own map (`PutsAreStored`), so that a get which had to ask the DHT
  began before any acknowledgement (`AskedBeforeAck`).
* `RelayAddresses`: the list is one of addresses of one relay that all differ
  (`Lists`), and while one reservation at a time is held its addresses are of that
  relay. What is listed first may be of the former relay; what is listed last is a
  circuit address of the one reserved, and the last address added decides whose the
  list is (`ListedInTurn`). `AddAll` and `RemoveAll` go through a list of any length; what one
  addition or removal keeps, all of them keep, by `Induction`.
* `WireProtocol`: the invariant only says that what arrived is the decoding of a
  part of what was encoded (`WireInv`); the work is in the lemmas about the two
  sides. What a reader makes of data that starts like an encoding is a function
  of how far the data goes (`Outcome`): the value and the place after it, or
  refusal. This is shown of numbers (`DigitsAreRead`), parts, lists of parts, fields, and
  in `MessageIsRead` of the loop over the fields, where one case is different: the
  cut right before the attestation (`Dropped`).
* `Distance`: the first byte in which two distances differ, and the first bit in
  it, decide both the comparison and the bucket; the proof follows these two
  places through the XOR of the three ids (`Triangle`), and orders them by the
  position of the bit in the whole id (`PlaceOrder`).

The installed provers cannot instantiate a theorem whose parameter is an
operator, as the library's theorems of induction have. `InductionLemmas` states
what the proofs need of sets instead (`LeastNumber`, `Induction`), from the
well-founded order of the naturals, and that a function which recurs over an
interval exists (`Iterates`) and is the only one (`SameSteps`): a set can be given by
its definition where the lemma is cited. The models write recursion over lists as such functions
where a theorem speaks of them.

Assumptions are the named `ASSUME`s of the modules (types of constants); the
runs evaluate them. The bounds (`MaxTime`, `MaxKeys`, `MaxConns`, ...) are
constants too, and the theorems hold for all of them.

Model-checked only:

* the liveness properties (`EveryRequestSettles`, `EverySendEnds`,
  `EventuallyAgree`, `LookupsEnd`, `EveryEntryIsTried`, `ConnectingEnds`,
  `CommandSettles`), which need fairness that TLAPS does not treat;
* the violations, which are counterexamples.

## 5. Left out, and why

* Payloads, encryption and signatures: a decryption or verification may fail,
  and nothing else about them is told apart.
* Addresses, latency, sizes: `MESSAGE_TOO_LARGE` is a possible refusal.
* libp2p, the DHT's lookups, WebRTC and IndexedDB: external.
* `MessageValidator`: it has no state; its verdict is any (`DropInvalid`).
* `DHTNode`'s lookups, `put` and `get`, the DHT adapter of the browser, and
  discovery by the server command once it serves: the work is done in libp2p;
  callers see any peers or values.
* `getMetrics`, state callbacks, metrics pages: they only read.
* Opening the database in `storage.ts`; `loadFromStorage` and the others are
  transactions of IndexedDB, which are atomic.
* Configuration parsing, transports other than their relay addresses, HTML
  pages, scripts: no state of the program's own.
* In `OverlayNetwork`, nodes do not start or stop (`ServerNode` does that), and
  attestation is one of the reasons to reject a response.
* In `Distance`, ids longer than the key space, whose indices are below -1:
  nothing in the repository passes them.
* In `WireProtocol`, the text a byte sequence stands for.

## 6. Plan

What remains, in order of weight:

1. `OverlayNode`: `OverlayNetwork`'s origin composed with `PendingRequests` and
   `KeyManager`'s lookup instead of their abstractions, with `stop` in the middle of
   a request.
2. An abstract service (off, starting, on, stopping) that `BrowserNode` and
   `ServerNode` implement as long as calls do not overlap, and what exactly
   overlapping calls may leave behind: how many nodes and intervals.
