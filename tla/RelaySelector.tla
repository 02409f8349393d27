---------------------------- MODULE RelaySelector ----------------------------
(***************************************************************************)
(* The choice of a relay by a browser (src/browser/relay-selector.ts): the *)
(* table of known relays with their load, the marks of relays that refused *)
(* a reservation, the degraded mode, failover from one relay to the next,  *)
(* and status answers that arrive after the table has changed.             *)
(*                                                                         *)
(* The load of a relay is a level in 0..Full, Full being 1.0; the time     *)
(* since its last update is only fresh or not.  An entry that is replaced  *)
(* or removed while its status is being fetched leaves the fetch with an   *)
(* object that is no longer in the table.  Addresses and the events        *)
(* emitted to observers are left out.                                      *)
(***************************************************************************)
EXTENDS Naturals, FiniteSets

CONSTANTS Relays,            \* peer ids of relays
          Requests,          \* concurrent calls of requestRelayWithFailover
          Fetches,           \* concurrent status fetches
          Full,              \* the highest load
          Threshold,         \* maxUtilizationThreshold
          MaxRetryAttempts

ASSUME RelayAssumption ==
  /\ Full \in Nat
  /\ Threshold \in 1..Full
  /\ MaxRetryAttempts \in Nat \ {0}

VARIABLES relayNodes,        \* the relays in the table
          utilization,       \* the load noted for each
          freshRelays,       \* relays updated less than statusCacheTTL ago
          failedRelays,      \* relays marked as failed
          inDegradedMode,
          relayRequests,     \* the calls of requestRelayWithFailover
          statusFetches,     \* the calls of updateRelayStatus
          refusedLast        \* the last news of the relay was a refusal (history)

tableVars == <<relayNodes, utilization, freshRelays, failedRelays>>
relayVars == <<tableVars, inDegradedMode, relayRequests, statusFetches, refusedLast>>

Load == 0..Full
RelayRequest == [pc : {"idle", "asking", "connected", "failed", "exhausted"},
                 asked : SUBSET Relays, tried : SUBSET Relays]
StatusFetch == [pc : {"idle", "fetching"}, relay : SUBSET Relays, current : BOOLEAN]

NoRequest == [pc |-> "idle", asked |-> {}, tried |-> {}]
NoFetch == [pc |-> "idle", relay |-> {}, current |-> FALSE]

RelayInit ==
  /\ relayNodes = {}
  /\ utilization = [r \in Relays |-> 0]
  /\ freshRelays = {}
  /\ failedRelays = {}
  /\ inDegradedMode = FALSE
  /\ relayRequests = [c \in Requests |-> NoRequest]
  /\ statusFetches = [f \in Fetches |-> NoFetch]
  /\ refusedLast = {}

\* The relays a selection considers, and the least loaded of some.
Available(known, failed, load) ==
  {r \in known \ failed : load[r] < Threshold}

LeastLoaded(rs, load) == {r \in rs : \A s \in rs : load[r] <= load[s]}

-----------------------------------------------------------------------------
(* The table.                                                              *)

\* Fetches for r no longer write to the entry of r.
Detach(r) ==
  statusFetches' = [f \in Fetches |->
    IF r \in statusFetches[f].relay THEN [statusFetches[f] EXCEPT !.current = FALSE]
    ELSE statusFetches[f]]

\* A relay from the configuration comes with load 0; either way addRelay
\* notes the present time.
AddRelay(r, load) ==
  /\ relayNodes' = relayNodes \cup {r}
  /\ utilization' = [utilization EXCEPT ![r] = load]
  /\ freshRelays' = freshRelays \cup {r}
  /\ failedRelays' = failedRelays \ {r}
  /\ refusedLast' = refusedLast \ {r}
  /\ Detach(r)
  /\ UNCHANGED <<inDegradedMode, relayRequests>>

RemoveRelay(r) ==
  /\ r \in relayNodes
  /\ relayNodes' = relayNodes \ {r}
  /\ utilization' = [utilization EXCEPT ![r] = 0]
  /\ freshRelays' = freshRelays \ {r}
  /\ failedRelays' = failedRelays \ {r}
  /\ refusedLast' = refusedLast \ {r}
  /\ Detach(r)
  /\ UNCHANGED <<inDegradedMode, relayRequests>>

SelectRelay ==
  /\ inDegradedMode' = (Available(relayNodes, failedRelays, utilization) = {})
  /\ UNCHANGED <<tableVars, relayRequests, statusFetches, refusedLast>>

ClearFailedRelays ==
  /\ failedRelays' = {}
  /\ inDegradedMode' = (inDegradedMode /\ relayNodes = {})
  /\ UNCHANGED <<relayNodes, utilization, freshRelays>>
  /\ UNCHANGED <<relayRequests, statusFetches, refusedLast>>

\* Mutant of Refused: the relays are marked, their load is left as noted.
RefusedMarkOnly(rs) ==
  /\ failedRelays' = failedRelays \cup rs
  /\ refusedLast' = refusedLast \cup rs
  /\ UNCHANGED <<relayNodes, utilization, freshRelays>>

\* RESOURCE_LIMIT_EXCEEDED: the relay is marked, and noted as full if it is
\* still known.
Refused(rs) ==
  /\ failedRelays' = failedRelays \cup rs
  /\ utilization' = [r \in Relays |-> IF r \in relayNodes \cap rs THEN Full ELSE utilization[r]]
  /\ freshRelays' = freshRelays \cup (relayNodes \cap rs)
  /\ refusedLast' = refusedLast \cup rs
  /\ UNCHANGED relayNodes

\* handleRelayResult, as the application may call it. After a success the noted
\* load stays as it is.
ReportSuccess(r) ==
  /\ failedRelays' = failedRelays \ {r}
  /\ refusedLast' = refusedLast \ {r}
  /\ UNCHANGED <<relayNodes, utilization, freshRelays>>
  /\ UNCHANGED <<inDegradedMode, relayRequests, statusFetches>>

ReportRefusal(r) ==
  /\ Refused({r})
  /\ UNCHANGED <<inDegradedMode, relayRequests, statusFetches>>

Clear ==
  /\ relayNodes' = {} /\ freshRelays' = {} /\ failedRelays' = {} /\ refusedLast' = {}
  /\ utilization' = [r \in Relays |-> 0]
  /\ inDegradedMode' = FALSE
  /\ statusFetches' = [f \in Fetches |-> [statusFetches[f] EXCEPT !.current = FALSE]]
  /\ UNCHANGED relayRequests

StatusExpires(r) ==
  /\ r \in freshRelays
  /\ freshRelays' = freshRelays \ {r}
  /\ UNCHANGED <<relayNodes, utilization, failedRelays>>
  /\ UNCHANGED <<inDegradedMode, relayRequests, statusFetches, refusedLast>>

-----------------------------------------------------------------------------
(* Failover.                                                               *)

\* The next turn of the loop of requestRelayWithFailover, over the table as
\* the last answer has left it.
TryNext(c, tried, failed, load) ==
  LET candidates == Available(relayNodes, failed, load) \ tried
  IN IF Cardinality(tried) < MaxRetryAttempts /\ candidates # {}
     THEN \E r \in LeastLoaded(candidates, load) :
            relayRequests' = [relayRequests EXCEPT
              ![c] = [pc |-> "asking", asked |-> {r}, tried |-> tried \cup {r}]]
     ELSE relayRequests' = [relayRequests EXCEPT
              ![c] = [pc |-> "exhausted", asked |-> {}, tried |-> tried]]

RequestRelay(c) ==
  /\ relayRequests[c].pc = "idle"
  /\ TryNext(c, {}, failedRelays, utilization)
  /\ UNCHANGED <<tableVars, inDegradedMode, statusFetches, refusedLast>>

RelayAccepts(c) ==
  /\ relayRequests[c].pc = "asking"
  /\ relayRequests' = [relayRequests EXCEPT ![c].pc = "connected", ![c].asked = {}]
  /\ UNCHANGED <<tableVars, inDegradedMode, statusFetches, refusedLast>>

\* The loop goes on. Without an alternative the refusal is returned, which
\* counts as exhausted here.
RelayRefuses(c) ==
  /\ relayRequests[c].pc = "asking"
  /\ Refused(relayRequests[c].asked)
  /\ TryNext(c, relayRequests[c].tried, failedRelays', utilization')
  /\ UNCHANGED <<inDegradedMode, statusFetches>>

\* Any other error is returned at once.
RelayFails(c) ==
  /\ relayRequests[c].pc = "asking"
  /\ relayRequests' = [relayRequests EXCEPT ![c].pc = "failed", ![c].asked = {}]
  /\ UNCHANGED <<tableVars, inDegradedMode, statusFetches, refusedLast>>

ReturnResult(c) ==
  /\ relayRequests[c].pc \in {"connected", "failed", "exhausted"}
  /\ relayRequests' = [relayRequests EXCEPT ![c] = NoRequest]
  /\ UNCHANGED <<tableVars, inDegradedMode, statusFetches, refusedLast>>

-----------------------------------------------------------------------------
(* Status answers.                                                         *)

UpdateRelayStatus(f, r) ==
  /\ statusFetches[f].pc = "idle"
  /\ r \in relayNodes \ freshRelays
  /\ statusFetches' = [statusFetches EXCEPT
       ![f] = [pc |-> "fetching", relay |-> {r}, current |-> TRUE]]
  /\ UNCHANGED <<tableVars, inDegradedMode, relayRequests, refusedLast>>

\* The load is written to the object the call has read; its time is that of
\* the call, and may be too old already. The mark is cleared by name.
StatusArrives(f, load, isFresh) ==
  LET r == statusFetches[f].relay
      written == IF statusFetches[f].current THEN r ELSE {}
  IN /\ statusFetches[f].pc = "fetching"
     /\ utilization' = [s \in Relays |-> IF s \in written THEN load ELSE utilization[s]]
     /\ freshRelays' = IF isFresh THEN freshRelays \cup written ELSE freshRelays \ written
     /\ failedRelays' = IF load < Threshold THEN failedRelays \ r ELSE failedRelays
     /\ statusFetches' = [statusFetches EXCEPT ![f] = NoFetch]
     /\ refusedLast' = refusedLast \ written
     /\ UNCHANGED <<relayNodes, inDegradedMode, relayRequests>>

StatusFails(f) ==
  /\ statusFetches[f].pc = "fetching"
  /\ statusFetches' = [statusFetches EXCEPT ![f] = NoFetch]
  /\ UNCHANGED <<tableVars, inDegradedMode, relayRequests, refusedLast>>

-----------------------------------------------------------------------------
RequestStep(c) ==
  \/ RequestRelay(c)
  \/ RelayAccepts(c)
  \/ RelayRefuses(c)
  \/ RelayFails(c)
  \/ ReturnResult(c)

FetchStep(f) ==
  \/ \E r \in Relays : UpdateRelayStatus(f, r)
  \/ \E load \in Load, isFresh \in BOOLEAN : StatusArrives(f, load, isFresh)
  \/ StatusFails(f)

RelayNext ==
  \/ \E r \in Relays : RemoveRelay(r) \/ StatusExpires(r)
  \/ \E r \in Relays : ReportSuccess(r) \/ ReportRefusal(r)
  \/ \E r \in Relays, load \in Load : AddRelay(r, load)
  \/ SelectRelay
  \/ ClearFailedRelays
  \/ Clear
  \/ \E c \in Requests : RequestStep(c)
  \/ \E f \in Fetches : FetchStep(f)

RelaySpec == RelayInit /\ [][RelayNext]_relayVars

-----------------------------------------------------------------------------
(* Properties.                                                             *)

RelayTypeOK ==
  /\ relayNodes \subseteq Relays /\ freshRelays \subseteq relayNodes
  /\ failedRelays \subseteq Relays /\ refusedLast \subseteq Relays
  /\ utilization \in [Relays -> Load]
  /\ inDegradedMode \in BOOLEAN
  /\ relayRequests \in [Requests -> RelayRequest]
  /\ statusFetches \in [Fetches -> StatusFetch]

\* A relay whose last word was a refusal is not offered to the next request,
\* although marks are cleared in bulk, or by the late status of an entry that
\* has been replaced: its load was noted as full, and stays so until there is
\* news of it. (A status counts as news when it arrives, also one that was
\* asked for before the refusal: the code cannot tell.)
RefusedAreNotOffered ==
  refusedLast \cap Available(relayNodes, failedRelays, utilization) = {}
=============================================================================
