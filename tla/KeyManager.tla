----------------------------- MODULE KeyManager -----------------------------
(***************************************************************************)
(* The hybrid key pair of a node, its way to other nodes, and the loss of  *)
(* either (src/overlay/key-manager.ts, with the start and stop of          *)
(* src/overlay/overlay.ts that drive it).  One node, the owner, loads or   *)
(* generates its key pair, saves it, publishes it to the DHT now and then, *)
(* answers direct requests, rotates it, stops, starts and crashes.         *)
(* Another node, the seeker, looks the owner's key up, through its cache,  *)
(* the DHT and direct requests, in several calls at once.                  *)
(*                                                                         *)
(* A key is the number of the generateKeyPair that made it; 0 is no key.   *)
(* A key leaves the owner when a publication or an answer captures it and  *)
(* arrives later.  Addresses, signatures and the format of records are     *)
(* left out: a record that does not parse is a lookup that fails.          *)
(***************************************************************************)
EXTENDS Naturals, FiniteSets

CONSTANTS Lookups,      \* concurrent calls of lookupPublicKey at the seeker
          Replicas,     \* DHT servers that hold the owner's record
          MaxRetries,   \* attempts of requestKeyDirectly
          MaxKeys,      \* bound on the key pairs generated
          MaxCrashes    \* bound on the crashes of the owner

ASSUME KeyAssumption ==
  /\ MaxRetries \in Nat \ {0}
  /\ MaxKeys \in Nat
  /\ MaxCrashes \in Nat

VARIABLES life,         \* where OverlayNetwork.start stands
          keyPair,      \* this.keyPair
          initKey,      \* the key initialize is saving
          stored,       \* the key in the KeyStorage
          durable,      \* whether the KeyStorage survives a crash
          generated,    \* number of key pairs generated
          rotations,    \* calls of rotateKeys in progress
          timer,        \* the interval that publishes is armed
          handler,      \* the key exchange protocol is registered
          puts,         \* publications on their way
          dht,          \* the record at each replica
          lookups,      \* the calls at the seeker
          cache,        \* the seeker's cached key of the owner
          crashes,
          saved,        \* keys the storage ever held (history)
          released,     \* keys that left the owner (history)
          overlapped    \* two calls wrote keys at once since start (history)

ownerVars == <<life, keyPair, initKey, stored, durable, generated, rotations>>
netVars == <<timer, handler, puts, dht>>
seekerVars == <<lookups, cache>>
history == <<saved, released, overlapped>>
vars == <<ownerVars, netVars, seekerVars, crashes, history>>

Keys == 1..MaxKeys
Rotation == [key : Keys, step : {"saving", "saved"}]
Publication == [key : Keys, by : {"start", "timer", "rotate"}]
Lookup == [pc : {"idle", "dht", "direct", "holding", "found", "failed"},
           key : 0..MaxKeys, tries : 0..(MaxRetries - 1)]

Idle == [pc |-> "idle", key |-> 0, tries |-> 0]

Init ==
  /\ life = "stopped"
  /\ keyPair = 0 /\ initKey = 0 /\ stored = 0
  /\ durable \in BOOLEAN
  /\ generated = 0
  /\ rotations = {} /\ puts = {}
  /\ timer = FALSE /\ handler = FALSE
  /\ dht = [r \in Replicas |-> 0]
  /\ lookups = [l \in Lookups |-> Idle]
  /\ cache = 0
  /\ crashes = 0
  /\ saved = {} /\ released = {}
  /\ overlapped = FALSE

-----------------------------------------------------------------------------
(* The owner: storage and rotation.                                        *)

Save(k) ==
  /\ stored' = k
  /\ saved' = saved \cup {k}

\* start calls initialize; a rotation of an earlier life may still be going.
Start ==
  /\ life = "stopped"
  /\ life' = "loading"
  /\ overlapped' = (rotations # {})
  /\ UNCHANGED <<keyPair, initKey, stored, durable, generated, rotations>>
  /\ UNCHANGED <<netVars, seekerVars, crashes, saved, released>>

\* publishPublicKey captures the key pair of the moment.
Publish(k, by) ==
  /\ puts' = puts \cup {[key |-> k, by |-> by]}
  /\ released' = released \cup {k}

\* initialize found keys in the storage: start goes on to publish them.
LoadKeys ==
  /\ life = "loading"
  /\ stored # 0
  /\ keyPair' = stored
  /\ life' = "publishing"
  /\ Publish(stored, "start")
  /\ UNCHANGED <<initKey, stored, durable, generated, rotations>>
  /\ UNCHANGED <<timer, handler, dht, seekerVars, crashes, saved, overlapped>>

\* initialize uses what it has before it is saved.
Adopt(k) ==
  /\ life = "loading"
  /\ keyPair' = k
  /\ initKey' = k
  /\ life' = "saving"
  /\ UNCHANGED <<stored, durable, rotations, netVars, seekerVars, crashes, history>>

GenerateKeys ==
  /\ stored = 0
  /\ generated < MaxKeys
  /\ generated' = generated + 1
  /\ Adopt(generated + 1)

\* start was given a key pair that its caller had kept.
UseExistingKeys(k) ==
  /\ k <= generated
  /\ UNCHANGED generated
  /\ Adopt(k)

\* The storage took the key pair of initialize. What start publishes is the
\* key pair of the moment.
KeysSaved ==
  /\ life = "saving"
  /\ Save(initKey)
  /\ initKey' = 0
  /\ life' = "publishing"
  /\ Publish(keyPair, "start")
  /\ UNCHANGED <<keyPair, durable, generated, rotations>>
  /\ UNCHANGED <<timer, handler, dht, seekerVars, crashes, overlapped>>

\* The storage throws, and with it start.
StartFails ==
  /\ life \in {"loading", "saving"}
  /\ life' = "stopped"
  /\ initKey' = 0
  /\ UNCHANGED <<keyPair, stored, durable, generated, rotations>>
  /\ UNCHANGED <<netVars, seekerVars, crashes, history>>

\* The first publication has come to an end, well or not.
ArmTimer ==
  /\ life = "publishing"
  /\ \A p \in puts : p.by # "start"
  /\ timer' = TRUE
  /\ life' = "registering"
  /\ UNCHANGED <<keyPair, initKey, stored, durable, generated, rotations>>
  /\ UNCHANGED <<handler, puts, dht, seekerVars, crashes, history>>

RegisterKeyExchangeHandler ==
  /\ life = "registering"
  /\ handler' = TRUE
  /\ life' = "running"
  /\ UNCHANGED <<keyPair, initKey, stored, durable, generated, rotations>>
  /\ UNCHANGED <<timer, puts, dht, seekerVars, crashes, history>>

\* stop; publications and rotations go on.
Stop ==
  /\ life = "running"
  /\ timer' = FALSE
  /\ handler' = FALSE
  /\ life' = "stopped"
  /\ UNCHANGED <<keyPair, initKey, stored, durable, generated, rotations>>
  /\ UNCHANGED <<puts, dht, seekerVars, crashes, history>>

\* The process dies; the default storage dies with it.
Crash ==
  /\ crashes < MaxCrashes
  /\ crashes' = crashes + 1
  /\ life' = "stopped"
  /\ keyPair' = 0 /\ initKey' = 0
  /\ stored' = IF durable THEN stored ELSE 0
  /\ rotations' = {} /\ puts' = {}
  /\ timer' = FALSE /\ handler' = FALSE
  /\ UNCHANGED <<durable, generated, dht, seekerVars, history>>

RotateKeys ==
  /\ life = "running"
  /\ generated < MaxKeys
  /\ generated' = generated + 1
  /\ rotations' = rotations \cup {[key |-> generated + 1, step |-> "saving"]}
  /\ overlapped' = (overlapped \/ rotations # {})
  /\ UNCHANGED <<life, keyPair, initKey, stored, durable>>
  /\ UNCHANGED <<netVars, seekerVars, crashes, saved, released>>

\* Mutant of RotationSaved: the new keys are not written.
RotationNotSaved(r) ==
  /\ r.step = "saving"
  /\ rotations' = (rotations \ {r}) \cup {[r EXCEPT !.step = "saved"]}
  /\ UNCHANGED <<stored, life, keyPair, initKey, durable, generated>>
  /\ UNCHANGED <<netVars, seekerVars, crashes, history>>

RotationSaved(r) ==
  /\ r.step = "saving"
  /\ rotations' = (rotations \ {r}) \cup {[r EXCEPT !.step = "saved"]}
  /\ Save(r.key)
  /\ UNCHANGED <<life, keyPair, initKey, durable, generated>>
  /\ UNCHANGED <<netVars, seekerVars, crashes, released, overlapped>>

\* The storage throws: rotateKeys rejects and nothing has changed.
RotationFails(r) ==
  /\ r.step = "saving"
  /\ rotations' = rotations \ {r}
  /\ UNCHANGED <<life, keyPair, initKey, stored, durable, generated>>
  /\ UNCHANGED <<netVars, seekerVars, crashes, history>>

\* Mutant of SwitchKeys: the keys are used before the storage has them.
SwitchBeforeSaved(r) ==
  /\ keyPair' = r.key
  /\ Publish(r.key, "rotate")
  /\ rotations' = rotations \ {r}
  /\ UNCHANGED <<life, initKey, stored, durable, generated>>
  /\ UNCHANGED <<timer, handler, dht, seekerVars, crashes, saved, overlapped>>

\* rotateKeys goes on after the save: the old key pair is replaced, the new
\* one published.
SwitchKeys(r) ==
  /\ r.step = "saved"
  /\ keyPair' = r.key
  /\ Publish(r.key, "rotate")
  /\ rotations' = rotations \ {r}
  /\ UNCHANGED <<life, initKey, stored, durable, generated>>
  /\ UNCHANGED <<timer, handler, dht, seekerVars, crashes, saved, overlapped>>

-----------------------------------------------------------------------------
(* Publications.                                                           *)

\* Mutant of PublishTimer: a timeout instead of an interval.
PublishTimerOnce ==
  /\ timer
  /\ timer' = FALSE
  /\ Publish(keyPair, "timer")
  /\ UNCHANGED <<ownerVars, handler, dht, seekerVars, crashes, saved, overlapped>>

PublishTimer ==
  /\ timer
  /\ Publish(keyPair, "timer")
  /\ UNCHANGED <<ownerVars, timer, handler, dht, seekerVars, crashes, saved, overlapped>>

\* A replica takes what dht.put sent it, whatever it held before. Two
\* publications of one kind and key count as one, so one may come twice.
PutReaches(p, r) ==
  /\ dht' = [dht EXCEPT ![r] = p.key]
  /\ UNCHANGED <<ownerVars, timer, handler, puts, seekerVars, crashes, history>>

\* dht.put returns or throws, some replicas perhaps not reached; the error
\* is swallowed.
PutEnds(p) ==
  /\ puts' = puts \ {p}
  /\ UNCHANGED <<ownerVars, timer, handler, dht, seekerVars, crashes, history>>

-----------------------------------------------------------------------------
(* The seeker.                                                             *)

Move(l, state) ==
  /\ lookups' = [lookups EXCEPT ![l] = state]
  /\ UNCHANGED <<ownerVars, netVars, crashes, saved, overlapped>>

\* lookupPublicKey: the cache first.
LookupPublicKey(l) ==
  /\ lookups[l].pc = "idle"
  /\ Move(l, IF cache # 0 THEN [Idle EXCEPT !.pc = "found", !.key = cache]
             ELSE [Idle EXCEPT !.pc = "dht"])
  /\ UNCHANGED <<cache, released>>

\* dht.get returns the first value that any replica sends.
DhtAnswers(l, r) ==
  /\ lookups[l].pc = "dht"
  /\ dht[r] # 0
  /\ Move(l, [Idle EXCEPT !.pc = "holding", !.key = dht[r]])
  /\ UNCHANGED <<cache, released>>

\* No value, or a record that is of no use: a direct request follows.
DhtFails(l) ==
  /\ lookups[l].pc = "dht"
  /\ Move(l, [Idle EXCEPT !.pc = "direct"])
  /\ UNCHANGED <<cache, released>>

\* The owner's protocol handler answers with the key pair of the moment.
OwnerAnswers(l) ==
  /\ lookups[l].pc = "direct"
  /\ handler
  /\ Move(l, [Idle EXCEPT !.pc = "holding", !.key = keyPair])
  /\ released' = released \cup {keyPair}
  /\ UNCHANGED cache

\* Mutant of NegotiationFails: one attempt too many.
NegotiationFailsOnceMore(l) ==
  /\ lookups[l].pc = "direct"
  /\ ~ handler
  /\ Move(l, IF lookups[l].tries < MaxRetries THEN [lookups[l] EXCEPT !.tries = @ + 1]
             ELSE [Idle EXCEPT !.pc = "failed"])
  /\ UNCHANGED <<cache, released>>

\* Mutant of NegotiationFails: a retry starts to count again.
NegotiationFailsAnew(l) ==
  /\ lookups[l].pc = "direct"
  /\ ~ handler
  /\ Move(l, [lookups[l] EXCEPT !.tries = (@ + 1) % MaxRetries])
  /\ UNCHANGED <<cache, released>>

\* The owner does not speak the protocol (yet): retried with backoff.
NegotiationFails(l) ==
  /\ lookups[l].pc = "direct"
  /\ ~ handler
  /\ Move(l, IF lookups[l].tries < MaxRetries - 1 THEN [lookups[l] EXCEPT !.tries = @ + 1]
             ELSE [Idle EXCEPT !.pc = "failed"])
  /\ UNCHANGED <<cache, released>>

\* Any other error, no answer for 10 s among them, ends the request.
DirectFails(l) ==
  /\ lookups[l].pc = "direct"
  /\ Move(l, [Idle EXCEPT !.pc = "failed"])
  /\ UNCHANGED <<cache, released>>

\* The answer has arrived, the addresses are merged into the peer store: the
\* key is cached over whatever another call has cached since.
CacheKey(l) ==
  /\ lookups[l].pc = "holding"
  /\ Move(l, [lookups[l] EXCEPT !.pc = "found"])
  /\ cache' = lookups[l].key
  /\ UNCHANGED released

\* The caller is done with the key (or the error); a new call may follow.
Return(l) ==
  /\ lookups[l].pc \in {"found", "failed"}
  /\ Move(l, Idle)
  /\ UNCHANGED <<cache, released>>

\* The entry outlives its ttl: the next get deletes it.
CacheExpires ==
  /\ cache # 0
  /\ cache' = 0
  /\ UNCHANGED <<ownerVars, netVars, lookups, crashes, history>>

-----------------------------------------------------------------------------
OwnerStep ==
  \/ Start
  \/ LoadKeys
  \/ GenerateKeys
  \/ \E k \in Keys : UseExistingKeys(k)
  \/ KeysSaved
  \/ StartFails
  \/ ArmTimer
  \/ RegisterKeyExchangeHandler
  \/ Stop
  \/ Crash
  \/ RotateKeys
  \/ \E r \in rotations : RotationSaved(r) \/ RotationFails(r) \/ SwitchKeys(r)

PublicationStep ==
  \/ PublishTimer
  \/ \E p \in puts : PutEnds(p) \/ \E r \in Replicas : PutReaches(p, r)

\* What a lookup awaits ends, in one way or another.
AwaitEnds(l) ==
  \/ \E r \in Replicas : DhtAnswers(l, r)
  \/ DhtFails(l)
  \/ OwnerAnswers(l)
  \/ NegotiationFails(l)
  \/ DirectFails(l)
  \/ CacheKey(l)
  \/ Return(l)

LookupStep(l) == LookupPublicKey(l) \/ AwaitEnds(l)

Next ==
  \/ OwnerStep
  \/ PublicationStep
  \/ \E l \in Lookups : LookupStep(l)
  \/ CacheExpires

\* Timers fire, and cache entries grow old.  Queries, dials and reads of a
\* lookup end or time out, but nothing says how: an attempt may fail every
\* time.  A publication ends some day, and a replica that is sent publications
\* for ever takes one of them now and then.
Fairness ==
  /\ WF_vars(PublishTimer)
  /\ WF_vars(CacheExpires)
  /\ \A k \in Keys, by \in {"start", "timer", "rotate"} :
       WF_vars(\E p \in puts : p.key = k /\ p.by = by /\ PutEnds(p))
  /\ \A r \in Replicas : SF_vars(\E p \in puts : PutReaches(p, r))
  /\ \A l \in Lookups : WF_vars(AwaitEnds(l))

Spec == Init /\ [][Next]_vars /\ Fairness

-----------------------------------------------------------------------------
(* Properties.                                                             *)

TypeOK ==
  /\ life \in {"stopped", "loading", "saving", "publishing", "registering", "running"}
  /\ keyPair \in 0..MaxKeys /\ initKey \in 0..MaxKeys /\ stored \in 0..MaxKeys
  /\ generated \in 0..MaxKeys /\ cache \in 0..MaxKeys
  /\ durable \in BOOLEAN /\ timer \in BOOLEAN /\ handler \in BOOLEAN
  /\ overlapped \in BOOLEAN
  /\ rotations \subseteq Rotation
  /\ puts \subseteq Publication
  /\ dht \in [Replicas -> 0..MaxKeys]
  /\ lookups \in [Lookups -> Lookup]
  /\ crashes \in 0..MaxCrashes
  /\ saved \subseteq Keys /\ released \subseteq Keys

\* A key that left the owner had been in its storage before: a crash between
\* two steps of a start or a rotation never leaves others with a key that
\* the node cannot have again.
ReleasedKeysWereStored == released \subseteq saved

\* Outside of rotations a started node holds the key its storage holds, so
\* that a restart brings the same key back, unless two calls wrote at once.
StoredIsCurrent ==
  life \in {"publishing", "registering", "running"} /\ rotations = {} /\ ~ overlapped
    => stored = keyPair

\* Everything others know of the owner is its present key.
KeysAgree ==
  /\ \A r \in Replicas : dht[r] = keyPair
  /\ cache \in {0, keyPair}

\* Whatever publications of old keys were on their way, and however calls
\* raced for the cache: if the owner stays up, the DHT and the caches end up
\* with its key.
EventuallyAgree == <>[](life = "running") => <>[]KeysAgree

\* A lookup ends, though no replica has a value and the peer, however often it
\* is asked, never speaks the protocol.
LookupsEnd ==
  \A l \in Lookups : lookups[l].pc = "dht" ~> lookups[l].pc \in {"found", "failed"}

\* The keys a request may be encrypted with for the owner to decrypt it.
DecryptionKeys == {keyPair}

\* "support key rotation by publishing new keys and maintaining old keys for
\* a transition period": a request that was encrypted with the present key
\* can still be decrypted after the next rotation.
FormerKeyDecrypts ==
  [][\A l \in Lookups :
       life = "running" /\ lookups[l].pc = "found" /\ lookups[l].key = keyPair
         => life' # "running" \/ lookups[l].key \in DecryptionKeys']_vars
=============================================================================
