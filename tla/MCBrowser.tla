------------------------------ MODULE MCBrowser ------------------------------
(***************************************************************************)
(* One instance for the parts of a browser node that share no state: `part`*)
(* is chosen at the start, only this part takes steps, and the others keep *)
(* their initial values.  So the states of the run are the sum of those of *)
(* the parts, and every property of a part is checked in all of its states.*)
(***************************************************************************)
EXTENDS BrowserNode, BrowserConnections, RelaySelector, SecurityManager,
        PeerIdManager, RelayAddresses, ConnectionUpgrader

VARIABLE part

browserPartsVars == <<part, browserVars, connVars, relayVars, securityVars, identityVars,
                      addressVars, upgraderVars>>

MCKindOrder == <<"connection", "message", "relay">>
MCMaxRequests == [k \in Kinds |-> IF k = "message" THEN 2 ELSE 1]
MCWindow == [k \in Kinds |-> IF k = "relay" THEN 2 ELSE 1]

BrowserPartsInit ==
  /\ part \in {"node", "connections", "relays", "limits", "identity", "addresses",
               "upgrader"}
  /\ BrowserInit /\ ConnInit /\ RelayInit /\ SecurityInit /\ IdentityInit /\ AddressInit
  /\ UpgraderInit
  /\ part # "node" => enableOverlay /\ visible /\ online
  /\ part # "identity" => persistent /\ available

NodePart ==
  /\ part = "node" /\ BrowserNext
  /\ UNCHANGED <<part, connVars, relayVars, securityVars, identityVars, addressVars,
                 upgraderVars>>

ConnectionsPart ==
  /\ part = "connections" /\ ConnNext
  /\ UNCHANGED <<part, browserVars, relayVars, securityVars, identityVars, addressVars,
                 upgraderVars>>

RelaysPart ==
  /\ part = "relays" /\ RelayNext
  /\ UNCHANGED <<part, browserVars, connVars, securityVars, identityVars, addressVars,
                 upgraderVars>>

LimitsPart ==
  /\ part = "limits" /\ SecurityNext
  /\ UNCHANGED <<part, browserVars, connVars, relayVars, identityVars, addressVars,
                 upgraderVars>>

IdentityPart ==
  /\ part = "identity" /\ IdentityNext
  /\ UNCHANGED <<part, browserVars, connVars, relayVars, securityVars, addressVars,
                 upgraderVars>>

AddressesPart ==
  /\ part = "addresses" /\ AddressNext
  /\ UNCHANGED <<part, browserVars, connVars, relayVars, securityVars, identityVars,
                 upgraderVars>>

UpgraderPart ==
  /\ part = "upgrader" /\ UpgraderNext
  /\ UNCHANGED <<part, browserVars, connVars, relayVars, securityVars, identityVars,
                 addressVars>>

BrowserPartsNext ==
  \/ NodePart \/ ConnectionsPart \/ RelaysPart \/ LimitsPart \/ IdentityPart
  \/ AddressesPart \/ UpgraderPart

\* No step that is owed is possible in a part that keeps its initial values.
BrowserPartsSpec ==
  /\ BrowserPartsInit /\ [][BrowserPartsNext]_browserPartsVars
  /\ BrowserFairness /\ UpgraderFairness

\* The types of the fields, as the modules state them: among them that a
\* window never holds more requests than the limit, and that a discovery makes
\* no more lookups than it should.
BrowserTypesOK ==
  /\ BrowserTypeOK /\ ConnTypeOK /\ RelayTypeOK /\ SecurityTypeOK /\ IdentityTypeOK
=============================================================================
