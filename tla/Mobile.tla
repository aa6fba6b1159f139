-------------------------------- MODULE Mobile --------------------------------
(* src/mobile: items that a device recorded offline and uploads, the devices   *)
(* registered for push, the challenges of biometric logins and the versions of *)
(* the app. A push goes through a circuit breaker that fires a placeholder, so *)
(* that no token is ever found invalid.                                        *)
EXTENDS Integers, Sequences, FiniteSets, FiniteSetsExt, SequencesExt

CONSTANTS Tasks, Entities, Sums, Users, Releases, MaxItems, MaxCalls, None

VARIABLES
  items,       \* offline_sync_queue, in the order of insertion: [entity, sum, status, syncedAt]
  upload,      \* per task: the call under way: [op, ...], or None
  syncs,       \* items synced so far
  device,      \* the row of one fcmToken: its user, or None
  challenge,   \* of one device: the number of the challenge, or None
  issued, used,\* challenges issued; how often each was accepted
  releases,    \* app_versions: sequence of [release, isActive]
  requested,   \* calls so far
  split,       \* history: entities of which two items were under way at once
  registered,  \* history: the user of the last registration or None after a removal
  jostled      \* history: two calls about the device were under way at once
vars == <<items, upload, syncs, device, challenge, issued, used, releases, requested, split, registered, jostled>>

Init ==
  /\ items = <<>> /\ upload = [t \in Tasks |-> None] /\ syncs = 0 /\ device = None /\ challenge = None /\ issued = 0
  /\ used = [n \in 1 .. MaxCalls |-> 0] /\ releases = <<>> /\ requested = 0
  /\ split = {} /\ registered = None /\ jostled = FALSE

Calls(t, call) ==
  upload[t] = None /\ requested < MaxCalls /\ requested' = requested + 1 /\ upload' = [upload EXCEPT ![t] = call]
Returns(t) == upload' = [upload EXCEPT ![t] = None]
syncVars == <<items, syncs, split>>
deviceVars == <<device, registered, jostled>>
otherVars == <<challenge, issued, used, releases>>

-----------------------------------------------------------------------------
(* enqueueBatch: every item is compared with the last synced one of its       *)
(* entity, and then all are saved.                                            *)
Synced(e) == {n \in DOMAIN items : items[n].entity = e /\ items[n].status = "synced"}
LastSynced(e) == CHOOSE n \in Synced(e) : \A m \in Synced(e) : items[m].syncedAt <= items[n].syncedAt
DetectConflict(e, sum) == Synced(e) # {} /\ items[LastSynced(e)].sum # sum
UnderWay(e) ==
  \/ \E n \in DOMAIN items : items[n].entity = e /\ items[n].status = "pending"
  \/ \E t \in Tasks : upload[t] # None /\ upload[t].op = "enqueue" /\ upload[t].entity = e /\ upload[t].sums # {}
EnqueueBatch(t, e, sums) ==
  LET ok == {s \in sums : ~DetectConflict(e, s)} IN
  /\ Calls(t, [op |-> "enqueue", entity |-> e, sums |-> ok])
  /\ split' = IF Cardinality(ok) > 1 \/ (ok # {} /\ UnderWay(e)) THEN split \cup {e} ELSE split
  /\ UNCHANGED <<items, syncs, deviceVars, otherVars>>
SavesBatch(t) ==
  LET c == upload[t] IN
  /\ c # None /\ c.op = "enqueue" /\ Len(items) + Cardinality(c.sums) <= MaxItems /\ Returns(t)
  /\ \E order \in SetToSeqs(c.sums) :
       items' = items \o [n \in DOMAIN order |-> [entity |-> c.entity, sum |-> order[n], status |-> "pending", syncedAt |-> 0]]
  /\ UNCHANGED <<syncs, split, deviceVars, otherVars, requested>>
(* processPending: the pending items are read, and marked one after another. *)
ProcessPending(t) ==
  /\ Calls(t, [op |-> "process", left |-> SelectSeq([n \in DOMAIN items |-> n], LAMBDA n : items[n].status = "pending")])
  /\ UNCHANGED <<syncVars, deviceVars, otherVars>>
ProcessesItem(t) ==
  LET c == upload[t] IN
  /\ c # None /\ c.op = "process"
  /\ IF c.left = <<>> THEN Returns(t) /\ UNCHANGED <<items, syncs>>
     ELSE /\ items' = [items EXCEPT ![Head(c.left)].status = "synced", ![Head(c.left)].syncedAt = syncs + 1]
          /\ syncs' = syncs + 1 /\ upload' = [upload EXCEPT ![t].left = Tail(c.left)]
  /\ UNCHANGED <<split, deviceVars, otherVars, requested>>

-----------------------------------------------------------------------------
(* registerDevice and removeDevice: a read and a later write. *)
Handling == {t \in Tasks : upload[t] # None /\ upload[t].op \in {"register", "remove"}}
AboutDevice(t, call) ==
  /\ Calls(t, call) /\ jostled' = (jostled \/ Handling # {}) /\ UNCHANGED <<syncVars, device, registered, otherVars>>
RegisterDevice(t, u) == AboutDevice(t, [op |-> "register", user |-> u, found |-> device # None])
RemoveDevice(t, u) == device = u /\ AboutDevice(t, [op |-> "remove", user |-> u])
(* A second insert fails on the unique index. A row removed since it was read *)
(* is inserted again.                                                         *)
SavesDevice(t) ==
  LET c == upload[t] IN
  /\ c # None /\ c.op = "register" /\ Returns(t)
  /\ IF c.found \/ device = None THEN device' = c.user /\ registered' = c.user ELSE UNCHANGED <<device, registered>>
  /\ UNCHANGED <<syncVars, jostled, otherVars, requested>>
RemovesDevice(t) ==
  /\ upload[t] # None /\ upload[t].op = "remove" /\ Returns(t) /\ device' = None /\ registered' = None
  /\ UNCHANGED <<syncVars, jostled, otherVars, requested>>

(* Challenges are kept in the process's memory and live a minute. *)
Serves == requested < MaxCalls /\ requested' = requested + 1 /\ UNCHANGED <<upload, syncVars, deviceVars>>
IssueChallenge == Serves /\ issued' = issued + 1 /\ challenge' = issued' /\ UNCHANGED <<used, releases>>
ChallengeExpires ==
  challenge # None /\ challenge' = None /\ UNCHANGED <<items, upload, syncs, deviceVars, issued, used, releases, requested, split>>
Consumed(n) == challenge' = None
VerifyBiometric(n, wellFormed) ==
  /\ Serves /\ challenge = n /\ Consumed(n) /\ used' = IF wellFormed THEN [used EXCEPT ![n] = @ + 1] ELSE used
  /\ UNCHANGED <<issued, releases>>
CreateVersion(r) == Serves /\ releases' = Append(releases, [release |-> r, isActive |-> TRUE]) /\ UNCHANGED <<challenge, issued, used>>
DeactivateVersion(n) ==
  Serves /\ n \in DOMAIN releases /\ releases' = [releases EXCEPT ![n].isActive = FALSE] /\ UNCHANGED <<challenge, issued, used>>

SemverCompare(a, b) ==
  LET differ == {i \in 1 .. 3 : a[i] # b[i]}
  IN  IF differ = {} THEN 0 ELSE IF a[Min(differ)] > b[Min(differ)] THEN 1 ELSE -1
CheckVersion(client) ==
  LET active == {n \in DOMAIN releases : releases[n].isActive}
      latest == releases[Max(active)].release
  IN  IF active = {} THEN [upToDate |-> TRUE, forceUpdate |-> FALSE]
      ELSE [upToDate |-> SemverCompare(client, latest.version) >= 0,
            forceUpdate |-> SemverCompare(client, latest.minimum) < 0 \/ latest.force]

Next ==
  \/ \E t \in Tasks :
       \/ \E e \in Entities, sums \in SUBSET Sums \ {{}} : EnqueueBatch(t, e, sums)
       \/ SavesBatch(t) \/ ProcessPending(t) \/ ProcessesItem(t) \/ SavesDevice(t) \/ RemovesDevice(t)
       \/ \E u \in Users : RegisterDevice(t, u) \/ RemoveDevice(t, u)
  \/ IssueChallenge \/ ChallengeExpires \/ \E n \in 1 .. issued, ok \in BOOLEAN : VerifyBiometric(n, ok)
  \/ \E r \in Releases : CreateVersion(r)
  \/ \E n \in 1 .. MaxCalls : DeactivateVersion(n)

-----------------------------------------------------------------------------
TypeOK ==
  /\ \A n \in DOMAIN items : items[n].status \in {"pending", "synced"} /\ items[n].sum \in Sums
  /\ device \in Users \cup {None} /\ challenge \in 1 .. MaxCalls \cup {None}

(* All synced items of an entity carry one checksum, unless two of them were  *)
(* under way at once: nothing is compared again when an item is processed     *)
(* (enqueueBatch 26-44, processPending 60-81). The device belongs to the user *)
(* who registered it last unless two calls about it met (registerDevice       *)
(* 25-48), and a challenge is accepted once (verifyBiometric 92-111).         *)
UploadsAgree ==
  /\ \A e \in Entities \ split : \A m, n \in Synced(e) : items[m].sum = items[n].sum
  /\ ~jostled => device = registered
  /\ \A n \in DOMAIN used : used[n] <= 1

(* Of two clients the older is never up to date while the newer is not, and   *)
(* is never let go while the newer must update; and whoever is up to date     *)
(* must update only if the release says so of everybody or asks for more than *)
(* itself (check 25-62).                                                      *)
VersionsConsistent ==
  \A r, s \in Releases : LET a == CheckVersion(r.version) b == CheckVersion(s.version) IN
    /\ SemverCompare(r.version, s.version) <= 0 => (a.upToDate => b.upToDate) /\ (b.forceUpdate => a.forceUpdate)
    /\ a.upToDate /\ a.forceUpdate => \E n \in DOMAIN releases : releases[n].isActive
         /\ (releases[n].release.force \/ SemverCompare(releases[n].release.minimum, releases[n].release.version) > 0)
=============================================================================
