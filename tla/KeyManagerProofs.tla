-------------------------- MODULE KeyManagerProofs --------------------------
(***************************************************************************)
(* Safety of KeyManager for any number of keys, lookups, replicas and      *)
(* crashes.                                                                *)
(***************************************************************************)
EXTENDS KeyManager, TLAPS

Started == {"publishing", "registering", "running"}

\* What can be published is in the storage, or has been.
Recoverable ==
  /\ ReleasedKeysWereStored
  /\ stored # 0 => stored \in saved
  /\ life \in Started => keyPair \in saved
  /\ life = "saving" => initKey \in Keys /\ (keyPair = initKey \/ keyPair \in saved)
  /\ \A r \in rotations : r.step = "saved" => r.key \in saved
  /\ timer \/ handler => life \in {"registering", "running"}

\* While no two calls write at once, the storage is ahead of the key pair
\* only between the save of a rotation and its switch.
InStep ==
  ~ overlapped =>
    /\ \A r, s \in rotations : r = s
    /\ life \in {"loading", "saving"} => rotations = {}
    /\ life = "saving" => keyPair = initKey
    /\ life \in Started =>
         IF \E r \in rotations : r.step = "saved"
         THEN \A r \in rotations : r.key = stored
         ELSE keyPair = stored

IInv == TypeOK /\ Recoverable /\ InStep

\* What a lookup starts from, and what it becomes, is well formed.
LEMMA LookupStates ==
  /\ Idle \in Lookup
  /\ \A x \in Lookup, pc \in {"idle", "dht", "direct", "holding", "found", "failed"} :
       [x EXCEPT !.pc = pc] \in Lookup
  /\ \A x \in Lookup, pc \in {"idle", "dht", "direct", "holding", "found", "failed"},
        k \in 0..MaxKeys :
       [x EXCEPT !.pc = pc, !.key = k] \in Lookup
<1>1. 0 \in 0..MaxKeys /\ 0 \in 0..(MaxRetries - 1)
  BY KeyAssumption
<1>2. Idle \in Lookup
  BY <1>1 DEF Idle, Lookup
<1>3. QED
  BY <1>2 DEF Lookup

LEMMA InitIInv == Init => IInv
<1> SUFFICES ASSUME Init
             PROVE  IInv
  OBVIOUS
<1>1. TypeOK
  <2>1. lookups \in [Lookups -> Lookup]
    BY LookupStates DEF Init
  <2>2. 0 \in 0..MaxKeys /\ 0 \in 0..MaxCrashes
    BY KeyAssumption
  <2>3. QED
    BY <2>1, <2>2 DEF Init, TypeOK
<1>2. QED
  BY <1>1 DEF Init, IInv, Recoverable, InStep, ReleasedKeysWereStored, Started

-----------------------------------------------------------------------------
(* The owner.                                                              *)

LEMMA StartStepIInv ==
  ASSUME IInv,
         Start \/ LoadKeys \/ GenerateKeys \/ (\E k \in Keys : UseExistingKeys(k))
           \/ KeysSaved \/ StartFails
  PROVE  IInv'
<1> USE KeyAssumption DEF IInv, TypeOK, Recoverable, InStep, ReleasedKeysWereStored,
        Started, netVars, seekerVars, history, Keys
<1>1. CASE Start
  BY <1>1 DEF Start
<1>2. CASE LoadKeys
  BY <1>2 DEF LoadKeys, Publish, Publication
<1>3. CASE GenerateKeys
  BY <1>3 DEF GenerateKeys, Adopt
<1>4. CASE \E k \in Keys : UseExistingKeys(k)
  BY <1>4 DEF UseExistingKeys, Adopt
<1>5. CASE KeysSaved
  BY <1>5 DEF KeysSaved, Save, Publish, Publication
<1>6. CASE StartFails
  BY <1>6 DEF StartFails
<1>7. QED
  BY <1>1, <1>2, <1>3, <1>4, <1>5, <1>6

LEMMA LifeStepIInv ==
  ASSUME IInv, ArmTimer \/ RegisterKeyExchangeHandler \/ Stop \/ Crash
  PROVE  IInv'
<1> USE KeyAssumption DEF IInv, TypeOK, Recoverable, InStep, ReleasedKeysWereStored,
        Started, netVars, seekerVars, history, Keys
<1>1. CASE ArmTimer
  BY <1>1 DEF ArmTimer
<1>2. CASE RegisterKeyExchangeHandler
  BY <1>2 DEF RegisterKeyExchangeHandler
<1>3. CASE Stop
  BY <1>3 DEF Stop
<1>4. CASE Crash
  <2>1. TypeOK'
    <3>1. crashes' \in 0..MaxCrashes
      BY <1>4 DEF Crash
    <3>2. 0 \in 0..MaxKeys /\ stored' \in 0..MaxKeys
      BY <1>4 DEF Crash
    <3>3. QED
      BY <1>4, <3>1, <3>2 DEF Crash
  <2>2. Recoverable'
    BY <1>4 DEF Crash
  <2>3. InStep'
    BY <1>4 DEF Crash
  <2>4. QED
    BY <2>1, <2>2, <2>3
<1>5. QED
  BY <1>1, <1>2, <1>3, <1>4

LEMMA RotationIInv ==
  ASSUME IInv,
         \/ RotateKeys
         \/ \E r \in rotations : RotationSaved(r) \/ RotationFails(r) \/ SwitchKeys(r)
  PROVE  IInv'
<1> USE KeyAssumption DEF IInv, TypeOK, Recoverable, InStep, ReleasedKeysWereStored,
        Started, netVars, seekerVars, history, Keys, Rotation
<1>1. CASE RotateKeys
  <2>1. TypeOK'
    BY <1>1 DEF RotateKeys
  <2>2. Recoverable'
    BY <1>1 DEF RotateKeys
  <2>3. InStep'
    <3>1. CASE overlapped'
      BY <3>1
    <3>2. CASE ~ overlapped'
      <4>1. ~ overlapped /\ rotations = {} /\ keyPair = stored
        BY <1>1, <3>2 DEF RotateKeys
      <4>2. rotations' = {[key |-> generated + 1, step |-> "saving"]}
        BY <1>1, <4>1 DEF RotateKeys
      <4>3. life' = "running" /\ keyPair' = stored'
        BY <1>1, <4>1 DEF RotateKeys
      <4>4. QED
        BY <4>2, <4>3
    <3>3. QED
      BY <3>1, <3>2
  <2>4. QED
    BY <2>1, <2>2, <2>3
<1>2. ASSUME NEW r \in rotations, RotationSaved(r)
      PROVE  IInv'
  <2>1. TypeOK'
    BY <1>2 DEF RotationSaved, Save
  <2>2. Recoverable'
    BY <1>2 DEF RotationSaved, Save
  <2>3. InStep'
    <3>1. CASE overlapped
      BY <1>2, <3>1 DEF RotationSaved
    <3>2. CASE ~ overlapped
      <4>1. rotations = {r}
        BY <3>2
      <4>2. r.step = "saving" /\ r \in Rotation
        BY <1>2 DEF RotationSaved
      <4>3. rotations' = {[r EXCEPT !.step = "saved"]}
        BY <1>2, <4>1 DEF RotationSaved
      <4>4. [r EXCEPT !.step = "saved"].key = r.key /\ [r EXCEPT !.step = "saved"].step = "saved"
        BY <4>2
      <4>5. stored' = r.key /\ life' = life /\ overlapped' = overlapped
        BY <1>2 DEF RotationSaved, Save
      <4>6. life \notin {"loading", "saving"}
        BY <3>2, <4>1
      <4>7. QED
        BY <4>3, <4>4, <4>5, <4>6
    <3>3. QED
      BY <3>1, <3>2
  <2>4. QED
    BY <2>1, <2>2, <2>3
<1>3. ASSUME NEW r \in rotations, RotationFails(r)
      PROVE  IInv'
  BY <1>3 DEF RotationFails
<1>4. ASSUME NEW r \in rotations, SwitchKeys(r)
      PROVE  IInv'
  <2>1. TypeOK'
    <3>1. r.key \in Keys
      OBVIOUS
    <3>2. [key |-> r.key, by |-> "rotate"] \in Publication
      BY <3>1 DEF Publication
    <3>3. keyPair' \in 0..MaxKeys /\ released' \subseteq Keys
      <4>1. r.key \in 0..MaxKeys
        BY <3>1
      <4>2. keyPair' = r.key /\ released' = released \cup {r.key} /\ released \subseteq Keys
        BY <1>4 DEF SwitchKeys, Publish
      <4>3. QED
        BY <3>1, <4>1, <4>2
    <3>4. puts' \subseteq Publication /\ rotations' \subseteq Rotation
      BY <1>4, <3>2 DEF SwitchKeys, Publish
    <3>5. UNCHANGED <<life, initKey, stored, generated, cache, durable, timer, handler,
                      overlapped, dht, lookups, crashes, saved>>
      BY <1>4 DEF SwitchKeys
    <3>6. QED
      BY <3>3, <3>4, <3>5
  <2>2. Recoverable'
    <3>1. r.key \in saved
      BY <1>4 DEF SwitchKeys
    <3>2. /\ keyPair' = r.key /\ released' = released \cup {r.key}
          /\ rotations' = rotations \ {r}
          /\ UNCHANGED <<life, initKey, stored, timer, handler, saved>>
      BY <1>4 DEF SwitchKeys, Publish
    <3>3. QED
      BY <3>1, <3>2
  <2>3. InStep'
    BY <1>4 DEF SwitchKeys, Publish, Publication
  <2>4. QED
    BY <2>1, <2>2, <2>3
<1>5. QED
  BY <1>1, <1>2, <1>3, <1>4

-----------------------------------------------------------------------------
(* Publications and lookups.                                               *)

LEMMA PublicationIInv ==
  ASSUME IInv, PublicationStep
  PROVE  IInv'
<1> USE KeyAssumption DEF IInv, TypeOK, Recoverable, InStep, ReleasedKeysWereStored,
        Started, ownerVars, seekerVars, history, Keys, Publication
<1>1. CASE PublishTimer
  <2>1. TypeOK'
    BY <1>1 DEF PublishTimer, Publish
  <2>2. Recoverable'
    BY <1>1 DEF PublishTimer, Publish
  <2>3. InStep'
    BY <1>1 DEF PublishTimer, Publish
  <2>4. QED
    BY <2>1, <2>2, <2>3
<1>2. ASSUME NEW p \in puts, PutEnds(p)
      PROVE  IInv'
  BY <1>2 DEF PutEnds
<1>3. ASSUME NEW p \in puts, NEW r \in Replicas, PutReaches(p, r)
      PROVE  IInv'
  BY <1>3 DEF PutReaches
<1>4. QED
  BY <1>1, <1>2, <1>3 DEF PublicationStep

\* A lookup only changes its own state, the cache and what has left the owner.
LEMMA MoveIInv ==
  ASSUME IInv, NEW l \in Lookups, NEW state \in Lookup, Move(l, state),
         cache' \in 0..MaxKeys, released' \subseteq saved
  PROVE  IInv'
  BY DEF IInv, TypeOK, Recoverable, InStep, ReleasedKeysWereStored, Started,
         ownerVars, netVars, Move, Keys

LEMMA LookupIInv ==
  ASSUME IInv, NEW l \in Lookups, LookupStep(l)
  PROVE  IInv'
<1>1. /\ lookups[l] \in Lookup
      /\ cache \in 0..MaxKeys /\ released \subseteq saved
      /\ \A r \in Replicas : dht[r] \in 0..MaxKeys
      /\ handler => keyPair \in saved /\ keyPair \in 0..MaxKeys
  BY DEF IInv, TypeOK, Recoverable, ReleasedKeysWereStored, Started
<1>2. \A pc \in {"idle", "dht", "direct", "holding", "found", "failed"}, k \in 0..MaxKeys :
        [Idle EXCEPT !.pc = pc] \in Lookup /\ [Idle EXCEPT !.pc = pc, !.key = k] \in Lookup
  BY LookupStates
<1>3. Idle \in Lookup
  BY LookupStates
<1>4. CASE LookupPublicKey(l)
  BY <1>1, <1>2, <1>4, MoveIInv DEF LookupPublicKey
<1>5. CASE \E r \in Replicas : DhtAnswers(l, r)
  BY <1>1, <1>2, <1>5, MoveIInv DEF DhtAnswers
<1>6. CASE DhtFails(l)
  BY <1>1, <1>2, <1>6, MoveIInv DEF DhtFails
<1>7. CASE OwnerAnswers(l)
  BY <1>1, <1>2, <1>7, MoveIInv DEF OwnerAnswers
<1>8. CASE NegotiationFails(l)
  <2>1. CASE lookups[l].tries < MaxRetries - 1
    <3>1. [lookups[l] EXCEPT !.tries = @ + 1] \in Lookup
      BY <1>1, <2>1, KeyAssumption DEF Lookup
    <3>2. QED
      BY <1>1, <1>8, <2>1, <3>1, MoveIInv DEF NegotiationFails
  <2>2. CASE ~ (lookups[l].tries < MaxRetries - 1)
    BY <1>1, <1>2, <1>8, <2>2, MoveIInv DEF NegotiationFails
  <2>3. QED
    BY <2>1, <2>2
<1>9. CASE DirectFails(l)
  BY <1>1, <1>2, <1>9, MoveIInv DEF DirectFails
<1>10. CASE CacheKey(l)
  <2>1. [lookups[l] EXCEPT !.pc = "found"] \in Lookup /\ lookups[l].key \in 0..MaxKeys
    BY <1>1 DEF Lookup
  <2>2. QED
    BY <1>1, <1>10, <2>1, MoveIInv DEF CacheKey
<1>11. CASE Return(l)
  BY <1>1, <1>3, <1>11, MoveIInv DEF Return
<1>12. QED
  BY <1>4, <1>5, <1>6, <1>7, <1>8, <1>9, <1>10, <1>11 DEF LookupStep, AwaitEnds

-----------------------------------------------------------------------------
LEMMA NextIInv == IInv /\ [Next]_vars => IInv'
<1> SUFFICES ASSUME IInv, [Next]_vars
             PROVE  IInv'
  OBVIOUS
<1>1. CASE OwnerStep
  BY <1>1, StartStepIInv, LifeStepIInv, RotationIInv DEF OwnerStep
<1>2. CASE PublicationStep
  BY <1>2, PublicationIInv
<1>3. CASE \E l \in Lookups : LookupStep(l)
  BY <1>3, LookupIInv
<1>4. CASE CacheExpires
  BY <1>4, KeyAssumption
  DEF CacheExpires, IInv, TypeOK, Recoverable, InStep, ReleasedKeysWereStored, Started,
      ownerVars, netVars, history, Keys
<1>5. CASE UNCHANGED vars
  BY <1>5 DEF IInv, TypeOK, Recoverable, InStep, ReleasedKeysWereStored, Started,
      vars, ownerVars, netVars, seekerVars, history, Keys
<1>6. QED
  BY <1>1, <1>2, <1>3, <1>4, <1>5 DEF Next

LEMMA SpecIInv == Spec => []IInv
  BY InitIInv, NextIInv, PTL DEF Spec

\* All the state keeps its types, whoever starts, stops, rotates, crashes or
\* asks (key-manager.ts, overlay.ts).
THEOREM TypeCorrect == Spec => []TypeOK
  BY SpecIInv, PTL DEF IInv

\* No key leaves the owner (publishPublicKey, the key exchange handler) that
\* its storage never held.
THEOREM ReleasedKeysAreSafe == Spec => []ReleasedKeysWereStored
  BY SpecIInv, PTL DEF IInv, Recoverable

\* Outside of rotations, the key pair in use is the one in the storage, unless
\* rotateKeys or initialize ran twice at once.
THEOREM StorageIsCurrent == Spec => []StoredIsCurrent
<1>1. IInv => StoredIsCurrent
  BY DEF IInv, InStep, StoredIsCurrent, Started
<1>2. QED
  BY <1>1, SpecIInv, PTL
=============================================================================
