------------------------------- MODULE MCServer -------------------------------
(***************************************************************************)
(* One instance for the parts of a server that share no state: the life    *)
(* cycle of the node and its commands, the requests its overlay waits for, *)
(* the messages of the bridge's clients, the binary format and the         *)
(* distance of ids.  As in MCBrowser, `part` is chosen at the start and    *)
(* only this part takes steps.                                             *)
(***************************************************************************)
EXTENDS ServerNode, PendingRequests, WsBridge, WireProtocol, Distance

VARIABLE part

serverPartsVars == <<part, serverVars, vars, bridgeVars, wireVars, distanceVars>>

\* Three calls of register, two of them under the same message id.
MCIdOf == [p \in Promises |-> IF p = "p3" THEN "m2" ELSE "m1"]

\* The last id is malformed, one path is too long for its count, and the high
\* words of the times are 1, 3 and, negative when read, 4.
MCIds == {<<2>>, <<2, 2>>}
MCTexts == {<<>>, <<1, 3>>}
MCWirePaths == {<<>>, <<<<3>>, <<5, 1>>>>, [i \in 1..8 |-> <<0>>]}
MCTimes == {9, 31, 33}
MCPayloads == {<<<<7>>, ciphertext, <<6>>>> : ciphertext \in {<<>>, <<1, 2, 3>>}}
MCAttestations ==
  {<<<<4>>, <<1, 1>>, 12, signature, 2, tee>> :
     signature \in {<<>>, <<5>>}, tee \in {<<>>, <<6, 6>>}}

ServerPartsInit ==
  /\ part \in {"life cycle", "requests", "bridge", "wire", "distance"}
  /\ ServerInit /\ Init /\ BridgeInit /\ WireInit /\ DistanceInit
  /\ part # "life cycle" => command = "library"
  /\ part # "bridge" => \A k \in BridgeKeys : dhtStore[k] = NoValue

LifeCyclePart ==
  /\ part = "life cycle" /\ ServerNext
  /\ UNCHANGED <<part, vars, bridgeVars, wireVars, distanceVars>>

RequestsPart ==
  /\ part = "requests" /\ Next
  /\ UNCHANGED <<part, serverVars, bridgeVars, wireVars, distanceVars>>

BridgePart ==
  /\ part = "bridge" /\ BridgeNext
  /\ UNCHANGED <<part, serverVars, vars, wireVars, distanceVars>>

WirePart ==
  /\ part = "wire" /\ WireNext
  /\ UNCHANGED <<part, serverVars, vars, bridgeVars, distanceVars>>

DistancePart ==
  /\ part = "distance" /\ DistanceNext
  /\ UNCHANGED <<part, serverVars, vars, bridgeVars, wireVars>>

ServerPartsNext ==
  LifeCyclePart \/ RequestsPart \/ BridgePart \/ WirePart \/ DistancePart

\* Calls of libp2p and waits end, and main goes on from one to the next.
ServerFairness ==
  /\ \A u \in Callers \cup {"main"} : WF_serverVars(part = "life cycle" /\ Proceed(u))
  /\ WF_serverVars(part = "life cycle" /\ MainNext)
  /\ \A s \in Signals :
       WF_serverVars(part = "life cycle" /\ (ShutdownNode(s) \/ ShutdownEnds(s)))

\* As Fairness: time passes and an armed timer fires.
RequestsFairness ==
  /\ WF_vars(part = "requests" /\ Tick)
  /\ \A p \in Promises : WF_vars(part = "requests" /\ TimerFires(p))

ServerPartsSpec ==
  /\ ServerPartsInit /\ [][ServerPartsNext]_serverPartsVars
  /\ ServerFairness /\ RequestsFairness

\* The types of the fields, as the modules state them: among them that an
\* interval the overlay's field holds is alive.
ServerTypesOK == ServerTypeOK /\ BridgeTypeOK
=============================================================================
