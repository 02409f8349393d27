--------------------------- MODULE RelayAddresses ---------------------------
(***************************************************************************)
(* The relay addresses a browser advertises for WebRTC: the list of        *)
(* src/browser/webrtc-transport.ts and the events of the reservation store *)
(* that BrowserNode turns into changes of it.  An address is the relay it  *)
(* goes through, one of the relay's own addresses and its form, circuit or *)
(* WebRTC (".../p2p-circuit/webrtc/p2p/..."); both contain "/p2p-circuit". *)
(*                                                                         *)
(* The reservation store is libp2p's: reservations come and go.  What      *)
(* getMultiaddrs lists is what the listeners list, in the order of the     *)
(* transports in the node's configuration: first the WebRTC listener, then *)
(* the circuit listener.  The first is wrapped in webrtc-transport.ts and  *)
(* generates its addresses from the list of stored ones when libp2p's own  *)
(* listener has none; so what is stored comes back to addRelayAddress.     *)
(***************************************************************************)
EXTENDS Naturals, Sequences, FiniteSets, SequencesExt

CONSTANTS ReservingRelays,   \* relays that may grant a reservation
          HttpRelays,        \* those reached through an http-path
          Paths              \* addresses of each

ASSUME AddressAssumption ==
  /\ IsFiniteSet(ReservingRelays) /\ IsFiniteSet(Paths) /\ Paths # {}
  /\ HttpRelays \subseteq ReservingRelays

VARIABLES reservations,          \* the relays with a reservation
          storedRelayAddresses,  \* the list of the transport
          nodeStopped,
          twoAtOnce              \* a reservation was made beside another (history)

addressVars == <<reservations, storedRelayAddresses, nodeStopped, twoAtOnce>>

Address == [relay : ReservingRelays, path : Paths, webrtc : BOOLEAN]

AddressInit ==
  /\ reservations = {}
  /\ storedRelayAddresses = <<>>
  /\ nodeStopped = FALSE
  /\ twoAtOnce = FALSE

\* Mutant of AddRelayAddress: addresses of other relays accumulate.
AddRelayAddressOnly(stored, addr) ==
  IF addr \in ToSet(stored) THEN stored ELSE Append(stored, addr)

\* The list without all that is not in the set (filter of the code; SelectSeq
\* is out of the proofs' reach, as its test is an operator).
Only(stored, good) ==
  LET kept[n \in 0..Len(stored)] ==
        IF n = 0 THEN <<>>
        ELSE IF stored[n] \in good THEN Append(kept[n - 1], stored[n]) ELSE kept[n - 1]
  IN kept[Len(stored)]

OfRelay(r) == {a \in Address : a.relay = r}

\* A new address replaces those of other relays.
AddRelayAddress(stored, addr) ==
  IF addr \in ToSet(stored) THEN stored ELSE Append(Only(stored, OfRelay(addr.relay)), addr)

\* The last address stays.
RemoveRelayAddress(stored, addr) ==
  IF Len(stored) <= 1 THEN stored ELSE Only(stored, Address \ {addr})

\* One address after another.
AddAll(stored, listed) ==
  LET after[n \in 0..Len(listed)] ==
        IF n = 0 THEN stored ELSE AddRelayAddress(after[n - 1], listed[n])
  IN after[Len(listed)]

RemoveAll(stored, listed) ==
  LET after[n \in 0..Len(listed)] ==
        IF n = 0 THEN stored ELSE RemoveRelayAddress(after[n - 1], listed[n])
  IN after[Len(listed)]

Circuit(relays) == {a \in Address : a.relay \in relays /\ ~ a.webrtc}

WebRTC(addrs) == {[a EXCEPT !.webrtc = TRUE] : a \in addrs}

\* What the wrapped WebRTC listener may return: the addresses of libp2p's own
\* listener, which knows no http-path; without any, those generated from the
\* stored addresses; without these, from what the address getter finds.
WebRTCListener(relays, stored) ==
  LET base == WebRTC(Circuit(relays \ HttpRelays))
  IN CASE base # {}                    -> {base}
       [] base = {} /\ stored # <<>>  -> {WebRTC(ToSet(stored))}
       [] base = {} /\ stored = <<>>  -> SUBSET WebRTC(Circuit(relays))

\* Mutant of Listings: the circuit listener is asked before the WebRTC one.
ListingsCircuitFirst(relays, stored) ==
  UNION {{c \o w : c \in SetToSeqs(Circuit(relays)), w \in SetToSeqs(W)} :
           W \in WebRTCListener(relays, stored)}

\* What getMultiaddrs may list: one listener after the other, each in any order.
Listings(relays, stored) ==
  UNION {{w \o c : w \in SetToSeqs(W), c \in SetToSeqs(Circuit(relays))} :
           W \in WebRTCListener(relays, stored)}

\* The listing is complete before the first of its addresses is added.
AddListed(relays) ==
  \E listed \in Listings(relays, storedRelayAddresses) :
    storedRelayAddresses' = AddAll(storedRelayAddresses, listed)

-----------------------------------------------------------------------------
\* relay:created-reservation: every listed address is added, the generated
\* ones included.
ReservationCreated(r) ==
  /\ ~ nodeStopped
  /\ r \notin reservations
  /\ reservations' = reservations \cup {r}
  /\ AddListed(reservations')
  /\ twoAtOnce' = (reservations # {})
  /\ UNCHANGED nodeStopped

\* relay:removed: the stored addresses of the relay go, one after another.
ReservationRemoved(r) ==
  /\ r \in reservations
  /\ reservations' = reservations \ {r}
  /\ storedRelayAddresses' =
       RemoveAll(storedRelayAddresses, Only(storedRelayAddresses, OfRelay(r)))
  /\ UNCHANGED <<nodeStopped, twoAtOnce>>

\* bootstrap has waited for an address, and adds what there is: without a
\* reservation what is generated from the list itself.
BootstrapAdds ==
  /\ ~ nodeStopped
  /\ AddListed(reservations)
  /\ UNCHANGED <<reservations, nodeStopped, twoAtOnce>>

\* stop clears the list when libp2p, and with it the reservations, is gone.
NodeStops ==
  /\ ~ nodeStopped
  /\ nodeStopped' = TRUE
  /\ reservations' = {}
  /\ storedRelayAddresses' = <<>>
  /\ twoAtOnce' = FALSE

NodeStarts ==
  /\ nodeStopped
  /\ nodeStopped' = FALSE
  /\ UNCHANGED <<reservations, storedRelayAddresses, twoAtOnce>>

AddressNext ==
  \/ \E r \in ReservingRelays : ReservationCreated(r) \/ ReservationRemoved(r)
  \/ BootstrapAdds
  \/ NodeStops
  \/ NodeStarts

AddressSpec == AddressInit /\ [][AddressNext]_addressVars

\* The relays of the addresses getWebRTCAddresses generates from the list.
AdvertisedRelays == {a.relay : a \in ToSet(storedRelayAddresses)}

-----------------------------------------------------------------------------
(* Properties.                                                             *)

\* The list never mixes relays and names no address twice.  And while the node
\* holds a reservation that it did not make beside another one, what is
\* generated for WebRTC is of the relay it holds it with: the address kept of
\* the former relay gives way, though the listing that follows the new
\* reservation may itself name the former relay.
AdvertisedAddresses ==
  /\ \A a, b \in ToSet(storedRelayAddresses) : a.relay = b.relay
  /\ Cardinality(ToSet(storedRelayAddresses)) = Len(storedRelayAddresses)
  /\ ~ twoAtOnce /\ reservations # {} => AdvertisedRelays = reservations
=============================================================================
