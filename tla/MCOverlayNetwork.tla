-------------------------- MODULE MCOverlayNetwork --------------------------
(***************************************************************************)
(* One request from o to t across two relays that know each other.  o may  *)
(* reach t directly as well, so that copies come by ways of length 1 to 3, *)
(* and a copy may come back to o.                                          *)
(***************************************************************************)
EXTENDS OverlayNetwork

CONSTANTS o, r1, r2, t, m

MCNodes == {o, r1, r2, t}
MCOrigin == [i \in {m} |-> o]
MCTarget == [i \in {m} |-> t]
MCPeers == [n \in MCNodes |-> CASE n = o -> {r1, t}
                                [] n = r1 -> {r2, t}
                                [] n = r2 -> {r1, o}
                                [] n = t -> {r1}]

\* Both relays may get a copy from o, and r2 another one from r1.
MCRacingPeers == [n \in MCNodes |-> CASE n = o -> {r1, r2}
                                      [] n = r1 -> {r2}
                                      [] n = r2 -> {t}
                                      [] n = t -> {r1}]
=============================================================================
