---------------------------- MODULE PeerIdManager ----------------------------
(***************************************************************************)
(* The identity of a browser node (src/browser/peer-id-manager.ts): the    *)
(* calls of getPeerId, which load an identity from IndexedDB or generate   *)
(* and save one, clearStoredPeerId, and the reload of the page, which      *)
(* keeps the storage only.                                                 *)
(*                                                                         *)
(* An identity is the number of the generateKeyPair that made it and       *)
(* stands for the peer id and its private key; 0 is none.  IndexedDB runs  *)
(* the transactions of the store in the order they were created, so one    *)
(* takes effect in the step that creates it.                               *)
(***************************************************************************)
EXTENDS Naturals, FiniteSets

CONSTANTS IdCalls,           \* concurrent calls of getPeerId
          MaxIds,            \* bound on the identities generated
          MaxReloads         \* bound on the reloads of the page

ASSUME IdentityAssumption == MaxIds \in Nat /\ MaxReloads \in Nat

VARIABLES persistent,        \* the configured mode
          available,         \* the page may use IndexedDB
          cachedId,          \* cachedPeerId and cachedPrivateKey
          storedId,          \* what IndexedDB holds
          idCalls,           \* the calls in progress
          clearing,          \* a clearStoredPeerId in progress
          generated,         \* identities generated
          reloads,
          disturbed          \* since the page was loaded, storage failed, was
                             \* cleared, or two calls overlapped (history)

identityVars == <<persistent, available, cachedId, storedId, idCalls, clearing,
                  generated, reloads, disturbed>>

IdCall == [pc : {"idle", "loading", "generating", "saving", "done", "failed"},
           id : 0..MaxIds]
NoCall == [pc |-> "idle", id |-> 0]

IdentityInit ==
  /\ persistent \in BOOLEAN
  /\ available \in BOOLEAN
  /\ cachedId = 0 /\ storedId = 0
  /\ idCalls = [c \in IdCalls |-> NoCall]
  /\ clearing = FALSE
  /\ generated = 0 /\ reloads = 0
  /\ disturbed = FALSE

InProgress == {c \in IdCalls : idCalls[c].pc \in {"loading", "generating", "saving"}}

MoveCall(c, pc, id) == idCalls' = [idCalls EXCEPT ![c] = [pc |-> pc, id |-> id]]

-----------------------------------------------------------------------------
GetPeerId(c) ==
  /\ idCalls[c].pc = "idle"
  /\ IF cachedId # 0 THEN MoveCall(c, "done", cachedId)
     ELSE MoveCall(c, IF persistent THEN "loading" ELSE "generating", 0)
  /\ disturbed' = (disturbed \/ InProgress # {})
  /\ UNCHANGED <<persistent, available, cachedId, storedId, clearing, generated, reloads>>

IdentityLoaded(c) ==
  /\ idCalls[c].pc = "loading"
  /\ available /\ storedId # 0
  /\ cachedId' = storedId
  /\ MoveCall(c, "done", storedId)
  /\ UNCHANGED <<persistent, available, storedId, clearing, generated, reloads, disturbed>>

NothingStored(c) ==
  /\ idCalls[c].pc = "loading"
  /\ ~ available \/ storedId = 0
  /\ MoveCall(c, "generating", 0)
  /\ UNCHANGED <<persistent, available, cachedId, storedId, clearing, generated, reloads, disturbed>>

\* A storage that cannot be read counts as an empty one.
LoadFails(c) ==
  /\ idCalls[c].pc = "loading"
  /\ available
  /\ MoveCall(c, "generating", 0)
  /\ disturbed' = TRUE
  /\ UNCHANGED <<persistent, available, cachedId, storedId, clearing, generated, reloads>>

\* Mutant of GenerateNewPeerId: a persistent identity is not saved.
GenerateWithoutSave(c) ==
  /\ idCalls[c].pc = "generating"
  /\ generated < MaxIds
  /\ generated' = generated + 1
  /\ cachedId' = generated + 1
  /\ MoveCall(c, "done", generated + 1)
  /\ UNCHANGED <<persistent, available, storedId, clearing, reloads, disturbed>>

\* Without IndexedDB there is nothing to save to.
GenerateNewPeerId(c) ==
  /\ idCalls[c].pc = "generating"
  /\ generated < MaxIds
  /\ generated' = generated + 1
  /\ cachedId' = generated + 1
  /\ MoveCall(c, IF persistent /\ available THEN "saving" ELSE "done", generated + 1)
  /\ UNCHANGED <<persistent, available, storedId, clearing, reloads, disturbed>>

\* saveToStorage writes what is cached by now, if anything is.
SaveToStorage(c) ==
  /\ idCalls[c].pc = "saving"
  /\ storedId' = IF cachedId # 0 THEN cachedId ELSE storedId
  /\ MoveCall(c, "done", idCalls[c].id)
  /\ UNCHANGED <<persistent, available, cachedId, clearing, generated, reloads, disturbed>>

\* getPeerId rejects, but the identity stays cached for the next call.
SaveFails(c) ==
  /\ idCalls[c].pc = "saving"
  /\ MoveCall(c, "failed", 0)
  /\ disturbed' = TRUE
  /\ UNCHANGED <<persistent, available, cachedId, storedId, clearing, generated, reloads>>

ReturnId(c) ==
  /\ idCalls[c].pc \in {"done", "failed"}
  /\ MoveCall(c, "idle", 0)
  /\ UNCHANGED <<persistent, available, cachedId, storedId, clearing, generated, reloads, disturbed>>

ClearStoredPeerId ==
  /\ ~ clearing
  /\ cachedId' = 0
  /\ clearing' = available
  /\ disturbed' = TRUE
  /\ UNCHANGED <<persistent, available, storedId, idCalls, generated, reloads>>

\* The delete, or an error of the storage.
ClearEnds(id) ==
  /\ clearing
  /\ clearing' = FALSE
  /\ storedId' = id
  /\ UNCHANGED <<persistent, available, cachedId, idCalls, generated, reloads, disturbed>>

Reload ==
  /\ reloads < MaxReloads
  /\ reloads' = reloads + 1
  /\ cachedId' = 0
  /\ idCalls' = [c \in IdCalls |-> NoCall]
  /\ clearing' = FALSE /\ disturbed' = FALSE
  /\ UNCHANGED <<persistent, available, storedId, generated>>

IdentityNext ==
  \/ \E c \in IdCalls :
       \/ GetPeerId(c)
       \/ IdentityLoaded(c)
       \/ NothingStored(c)
       \/ LoadFails(c)
       \/ GenerateNewPeerId(c)
       \/ SaveToStorage(c)
       \/ SaveFails(c)
       \/ ReturnId(c)
  \/ ClearStoredPeerId
  \/ \E id \in {0, storedId} : ClearEnds(id)
  \/ Reload

IdentitySpec == IdentityInit /\ [][IdentityNext]_identityVars

-----------------------------------------------------------------------------
(* Properties.                                                             *)

IdentityTypeOK ==
  /\ persistent \in BOOLEAN /\ available \in BOOLEAN
  /\ clearing \in BOOLEAN /\ disturbed \in BOOLEAN
  /\ cachedId \in 0..generated /\ storedId \in 0..generated
  /\ generated \in 0..MaxIds /\ reloads \in 0..MaxReloads
  /\ idCalls \in [IdCalls -> IdCall]

\* Unless something went wrong with the storage since the page was loaded, or
\* calls overlapped, an identity that getPeerId returned is the one whose
\* private key the caller reads next, and the one that a reload brings back.
ReturnedIdIsKept ==
  ~ disturbed =>
    \A c \in IdCalls : idCalls[c].pc = "done" =>
      /\ idCalls[c].id = cachedId
      /\ persistent /\ available => idCalls[c].id = storedId
=============================================================================
