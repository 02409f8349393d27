------------------------------- MODULE WsBridge -------------------------------
(***************************************************************************)
(* The bridge for thin browser clients (src/cli/ws-bridge.ts): connections *)
(* of WebSocket clients, and their messages put, get, closest_peers and    *)
(* overlay_echo, each of which is handled by a call of its own that awaits *)
(* the DHT or the overlay while others run.  peers, overlay_info and hello *)
(* only read.                                                              *)
(*                                                                         *)
(* A message is handled by a job.  The DHT outside is a value per key,     *)
(* which other nodes may change and any operation on which may fail.       *)
(***************************************************************************)
EXTENDS FiniteSets, Naturals

CONSTANTS Clients, Jobs, BridgeKeys, BridgeValues,
          NoValue,           \* no value is stored, or null is answered
          MaxJobs            \* bound on the messages handled

ASSUME BridgeAssumption == NoValue \notin BridgeValues /\ MaxJobs \in Nat

VARIABLES clients,           \* the map of connected clients
          kvStore,           \* values stored locally
          dhtStore,          \* values the DHT holds
          jobs,              \* the messages in progress
          handled,           \* messages handled
          answers,           \* the last answer sent per job
          acknowledged       \* keys of which a put was acknowledged (history)

bridgeVars == <<clients, kvStore, dhtStore, jobs, handled, answers, acknowledged>>

Stored == [BridgeKeys -> BridgeValues \cup {NoValue}]

NoJob == [type |-> "none"]
Put(c, k, v) == [type |-> "put", client |-> c, key |-> k, value |-> v]
\* ackedBefore: a put of the key was acknowledged before this get (history).
Get(c, k, v) == [type |-> "get", client |-> c, key |-> k, value |-> v,
                 ackedBefore |-> k \in acknowledged]
Ask(c, type) == [type |-> type, client |-> c]

Job ==
  {NoJob}
  \cup [type : {"put"}, client : Clients, key : BridgeKeys, value : BridgeValues]
  \cup [type : {"get"}, client : Clients, key : BridgeKeys,
        value : BridgeValues \cup {NoValue}, ackedBefore : BOOLEAN]
  \cup [type : {"closest_peers", "overlay_echo"}, client : Clients]

NoAnswer == [type |-> "none"]
AckOf(j) == [type |-> "put_ack", key |-> jobs[j].key]
ErrorAnswer == [type |-> "error"]
ValueAnswer(k, v, acked) == [type |-> "get_response", key |-> k, value |-> v,
                             ackedBefore |-> acked]

Answer ==
  {NoAnswer}
  \cup [type : {"put_ack"}, key : BridgeKeys]
  \cup [type : {"get_response"}, key : BridgeKeys, value : BridgeValues \cup {NoValue},
        ackedBefore : BOOLEAN]
  \cup [type : {"closest_peers_response", "overlay_echo_response", "error"}]

BridgeInit ==
  /\ clients = {}
  /\ kvStore = [k \in BridgeKeys |-> NoValue]
  /\ dhtStore \in Stored
  /\ jobs = [j \in Jobs |-> NoJob]
  /\ handled = 0
  /\ answers = [j \in Jobs |-> NoAnswer]
  /\ acknowledged = {}

\* ws.send: nothing arrives at a client that has gone.
Answers(j, c, answer) ==
  answers' = [answers EXCEPT ![j] = IF c \in clients THEN answer ELSE NoAnswer]

Begins(j, job) ==
  /\ jobs[j] = NoJob
  /\ handled < MaxJobs /\ handled' = handled + 1
  /\ jobs' = [jobs EXCEPT ![j] = job]
JobEnds(j) == jobs' = [jobs EXCEPT ![j] = NoJob]

-----------------------------------------------------------------------------
ClientConnects(c) ==
  /\ c \notin clients
  /\ clients' = clients \cup {c}
  /\ UNCHANGED <<kvStore, dhtStore, jobs, handled, answers, acknowledged>>

\* Its jobs go on.
ClientCloses(c) ==
  /\ c \in clients
  /\ clients' = clients \ {c}
  /\ UNCHANGED <<kvStore, dhtStore, jobs, handled, answers, acknowledged>>

\* A put is stored locally, whatever the DHT says later.
PutBegins(j, c, k, v) ==
  /\ c \in clients
  /\ Begins(j, Put(c, k, v))
  /\ kvStore' = [kvStore EXCEPT ![k] = v]
  /\ UNCHANGED <<clients, dhtStore, answers, acknowledged>>

\* The DHT accepted it: the client gets its put_ack, the others are told.
PutAccepted(j) ==
  /\ jobs[j].type = "put"
  /\ dhtStore' = [dhtStore EXCEPT ![jobs[j].key] = jobs[j].value]
  /\ Answers(j, jobs[j].client, AckOf(j))
  /\ acknowledged' = acknowledged \cup {jobs[j].key}
  /\ JobEnds(j)
  /\ UNCHANGED <<clients, kvStore, handled>>

PutRefused(j) ==
  /\ jobs[j].type = "put"
  /\ Answers(j, jobs[j].client, ErrorAnswer)
  /\ JobEnds(j)
  /\ UNCHANGED <<clients, kvStore, dhtStore, handled, acknowledged>>

\* A get of a value that is stored locally is answered at once.
GetLocal(j, c, k) ==
  /\ c \in clients /\ jobs[j] = NoJob
  /\ handled < MaxJobs /\ handled' = handled + 1
  /\ kvStore[k] # NoValue
  /\ Answers(j, c, ValueAnswer(k, kvStore[k], k \in acknowledged))
  /\ UNCHANGED <<clients, kvStore, dhtStore, jobs, acknowledged>>

\* Any other asks the DHT, which answers what it holds now, or later.
GetBegins(j, c, k) ==
  /\ c \in clients
  /\ kvStore[k] = NoValue
  /\ Begins(j, Get(c, k, dhtStore[k]))
  /\ UNCHANGED <<clients, kvStore, dhtStore, answers, acknowledged>>

\* What it answered is stored locally, over what a put may have stored.
GetFound(j, v) ==
  /\ jobs[j].type = "get"
  /\ v \in {jobs[j].value, dhtStore[jobs[j].key]} \ {NoValue}
  /\ kvStore' = [kvStore EXCEPT ![jobs[j].key] = v]
  /\ Answers(j, jobs[j].client, ValueAnswer(jobs[j].key, v, jobs[j].ackedBefore))
  /\ JobEnds(j)
  /\ UNCHANGED <<clients, dhtStore, handled, acknowledged>>

\* Mutant of CacheMiss: the value is stored after the inner try block.
CacheNothing(k) == kvStore' = [kvStore EXCEPT ![k] = NoValue]

CacheMiss(k) == UNCHANGED kvStore

\* The DHT has no value, or fails.
GetMissing(j) ==
  /\ jobs[j].type = "get"
  /\ CacheMiss(jobs[j].key)
  /\ Answers(j, jobs[j].client,
             ValueAnswer(jobs[j].key, NoValue, jobs[j].ackedBefore))
  /\ JobEnds(j)
  /\ UNCHANGED <<clients, dhtStore, handled, acknowledged>>

\* closest_peers and overlay_echo await peers and the overlay.
AskBegins(j, c, type) ==
  /\ c \in clients
  /\ Begins(j, Ask(c, type))
  /\ UNCHANGED <<clients, kvStore, dhtStore, answers, acknowledged>>

AskAnswered(j) ==
  /\ jobs[j].type \in {"closest_peers", "overlay_echo"}
  /\ \E type \in {"closest_peers_response", "overlay_echo_response", "error"} :
        Answers(j, jobs[j].client, [type |-> type])
  /\ JobEnds(j)
  /\ UNCHANGED <<clients, kvStore, dhtStore, handled, acknowledged>>

\* Another node stores a value, or the DHT loses one.
DhtChanges(k, v) ==
  /\ dhtStore[k] # v
  /\ dhtStore' = [dhtStore EXCEPT ![k] = v]
  /\ UNCHANGED <<clients, kvStore, jobs, handled, answers, acknowledged>>

BridgeNext ==
  \/ \E c \in Clients : ClientConnects(c) \/ ClientCloses(c)
  \/ \E j \in Jobs :
       \/ \E c \in Clients, k \in BridgeKeys :
            \/ \E v \in BridgeValues : PutBegins(j, c, k, v)
            \/ GetLocal(j, c, k) \/ GetBegins(j, c, k)
       \/ \E c \in Clients, type \in {"closest_peers", "overlay_echo"} :
            AskBegins(j, c, type)
       \/ PutAccepted(j) \/ PutRefused(j) \/ GetMissing(j) \/ AskAnswered(j)
       \/ \E v \in BridgeValues : GetFound(j, v)
  \/ \E k \in BridgeKeys, v \in BridgeValues \cup {NoValue} : DhtChanges(k, v)

BridgeSpec == BridgeInit /\ [][BridgeNext]_bridgeVars

-----------------------------------------------------------------------------
(* The maps, the messages in progress and the answers have their types.    *)
BridgeTypeOK ==
  /\ clients \subseteq Clients
  /\ kvStore \in Stored /\ dhtStore \in Stored
  /\ jobs \in [Jobs -> Job]
  /\ handled \in 0..MaxJobs
  /\ answers \in [Jobs -> Answer]
  /\ acknowledged \subseteq BridgeKeys

(* A get that began after a put of its key was acknowledged is answered    *)
(* with a value, also when gets of the key that began before the put end   *)
(* after it, and when the DHT has lost the key or fails.                   *)
AcknowledgedIsFound ==
  \A j \in Jobs :
    answers[j].type = "get_response" /\ answers[j].ackedBefore =>
      answers[j].value # NoValue
=============================================================================
