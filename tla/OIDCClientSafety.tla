--------------------------- MODULE OIDCClientSafety ---------------------------
(***************************************************************************)
(* What the operator may touch, for every value of the constants: proofs   *)
(* of ForeignSecretsUntouched, OnlyOwnRegistrationsDeleted and             *)
(* AtMostOneRegistration.                                                  *)
(***************************************************************************)
EXTENDS OIDCClientTypes

\* The old Secret that the worker is about to delete under its pin belongs
\* to the CR: nobody but the worker gives a Secret another owner without
\* removing it first, and removing it ends the pin.
PinInv ==
    /\ w.pc \in {"vetRename", "readOld", "deleteOld"} => w.oc.secret \in SecretName
    /\ w.pc = "deleteOld" /\ w.pinned => Owned(Stored(secrets[w.oc.secret]), w.cur)

\* tsidp's ids name one registration each.
IdsUnique == \A c, d \in clients : c.id = d.id => c = d

\* A fingerprint is only ever that of the CR the registration was made for.
FingerprintsOwn == \A c \in clients : c.fp \in {None, c.by}

\* A version of the object has the id in its status.
Carries(h, id) == \E i \in DOMAIN h : h[i].id = id

\* An id that a status holds, stored or cached, is of the CR's own making.
StatusesOwn ==
    \A u \in CR : \A c \in clients : Carries(cr[u], c.id) => c.by = u

\* So is an id the worker has in hand.
HandOwn ==
    w.pc # "idle" => \A c \in clients :
        /\ c.id = w.oc.id => c.by = w.cur
        /\ c.id \in w.doomed => c.by = w.cur
        /\ w.pc = "writeSecret" /\ c.id = w.creds => c.by = w.cur

\* And one that a request under way is about.
LateOwn ==
    \A r \in late : r.op # "register" =>
        \A c \in clients : c.id = r.id => c.by = r.fp

OwnInv == IdsUnique /\ FingerprintsOwn /\ StatusesOwn /\ HandOwn /\ LateOwn

\* Without late requests and edits behind its back the operator looks before
\* it registers, and what it saw stays true.
OneInv ==
    /\ late = {}
    /\ \A c \in clients : c.fp = c.by
    /\ w.pc = "register" => Fingerprinted(clients, w.cur) = {}
    /\ AtMostOneRegistration

-----------------------------------------------------------------------------
(* Versions.                                                               *)

\* What an object was, is and will be to the caches.
Versions(h) == {h[i] : i \in DOMAIN h}

\* What a read, a write, a delivery and a restart make of the versions of an
\* object.
LEMMA VersionsOps ==
    ASSUME NEW V, NEW h \in Histories(V)
    PROVE  /\ Stored(h) \in Versions(h) /\ Cached(h) \in Versions(h)
           /\ Versions(h) \subseteq V
           /\ \A v \in V : Versions(Push(h, v)) = Versions(h) \cup {v}
           /\ CanDeliver(h) => Versions(DeliverNext(h)) \subseteq Versions(h)
           /\ Versions(Relist(h)) \subseteq Versions(h)
           /\ Synced(h) => Cached(h) = Stored(h) /\ Versions(h) = {Stored(h)}
<1>1. h \in Seq(V) /\ Len(h) \in Nat /\ Len(h) > 0 /\ DOMAIN h = 1..Len(h)
  BY DEF Histories
<1>2. Stored(h) \in Versions(h) /\ Cached(h) \in Versions(h)
  BY <1>1 DEF Stored, Cached, Versions
<1>3. Versions(h) \subseteq V
  BY <1>1 DEF Versions
<1>4. ASSUME NEW v \in V
      PROVE  Versions(Push(h, v)) = Versions(h) \cup {v}
  <2>1. /\ DOMAIN Append(h, v) = 1..(Len(h) + 1)
        /\ Append(h, v)[Len(h) + 1] = v
        /\ \A i \in 1..Len(h) : Append(h, v)[i] = h[i]
    BY <1>1
  <2>2. 1..(Len(h) + 1) = 1..Len(h) \cup {Len(h) + 1}
    BY <1>1
  <2> QED
    BY <1>1, <2>1, <2>2 DEF Push, Versions
<1>5. ASSUME CanDeliver(h)
      PROVE  Versions(DeliverNext(h)) \subseteq Versions(h)
  <2>1. Len(h) > 1
    BY <1>5 DEF CanDeliver
  <2>2. ASSUME NEW i \in DOMAIN Tail(h)
        PROVE  i + 1 \in DOMAIN h /\ Tail(h)[i] = h[i + 1]
    BY <1>1, <2>1
  <2> QED
    BY <2>2 DEF DeliverNext, Versions
<1>6. Versions(Relist(h)) \subseteq Versions(h)
  BY <1>2 DEF Relist, Versions
<1>7. ASSUME Synced(h)
      PROVE  Cached(h) = Stored(h) /\ Versions(h) = {Stored(h)}
  <2>1. Len(h) = 1 /\ DOMAIN h = {1}
    BY <1>1, <1>7 DEF Synced
  <2> QED
    BY <1>1, <2>1 DEF Cached, Stored, Versions
<1> QED
  BY <1>2, <1>3, <1>4, <1>5, <1>6, <1>7

\* A write to a CR adds a version, and leaves the other CRs.
LEMMA PutVersions ==
    ASSUME TypeInv, NEW u \in CR, NEW o \in Object, Put(u, o)
    PROVE  /\ Stored(cr'[u]) = o /\ Versions(cr'[u]) = Versions(cr[u]) \cup {o}
           /\ \A t \in CR \ {u} : cr'[t] = cr[t]
<1>1. cr \in [CR -> Histories(Object)] /\ cr[u] \in Histories(Object)
  BY DEF TypeInv, KubeType
<1>2. cr'[u] = Push(cr[u], o) /\ \A t \in CR \ {u} : cr'[t] = cr[t]
  BY <1>1 DEF Put
<1> QED
  BY <1>1, <1>2, HistoryOps, VersionsOps

\* The same for a write to a Secret.
LEMMA PutSecretVersions ==
    ASSUME TypeInv, NEW n \in SecretName, NEW s \in Secret, PutSecret(n, s)
    PROVE  /\ Stored(secrets'[n]) = s
           /\ Versions(secrets'[n]) = Versions(secrets[n]) \cup {s}
           /\ \A m \in SecretName \ {n} : secrets'[m] = secrets[m]
<1>1. secrets \in [SecretName -> Histories(Secret)] /\ secrets[n] \in Histories(Secret)
  BY DEF TypeInv, KubeType
<1>2. /\ secrets'[n] = Push(secrets[n], s)
      /\ \A m \in SecretName \ {n} : secrets'[m] = secrets[m]
  BY <1>1 DEF PutSecret
<1> QED
  BY <1>1, <1>2, HistoryOps, VersionsOps

\* Every version is an object, the stored and the cached one among them.
LEMMA VersionsType ==
    ASSUME TypeInv
    PROVE  /\ \A u \in CR : /\ Versions(cr[u]) \subseteq Object
                            /\ Stored(cr[u]) \in Versions(cr[u])
                            /\ Cached(cr[u]) \in Versions(cr[u])
           /\ \A n \in SecretName : /\ Versions(secrets[n]) \subseteq Secret
                                    /\ Stored(secrets[n]) \in Versions(secrets[n])
                                    /\ Cached(secrets[n]) \in Versions(secrets[n])
<1>1. /\ \A u \in CR : cr[u] \in Histories(Object)
      /\ \A n \in SecretName : secrets[n] \in Histories(Secret)
  BY DEF TypeInv, KubeType
<1> QED
  BY <1>1, VersionsOps

\* No Secret has the credentials of the registration that comes next.
LEMMA NewCredsFresh ==
    ASSUME FreeIds # {}
    PROVE  \A n \in SecretName : \A s \in Versions(secrets[n]) : s.creds # NewId
<1>1. NewId \in FreeIds
  BY DEF NewId
<1>2. \A n \in SecretName : \A i \in DOMAIN secrets[n] : secrets[n][i].creds \notin FreeIds
  <2>1. ASSUME NEW n \in SecretName, NEW i \in DOMAIN secrets[n]
        PROVE  secrets[n][i].creds
                 \in UNION {{secrets[m][k].creds : k \in DOMAIN secrets[m]} : m \in SecretName}
    BY <2>1
  <2> QED
    BY <2>1 DEF FreeIds
<1>3. \A n \in SecretName : \A i \in DOMAIN secrets[n] : secrets[n][i].creds # NewId
  BY <1>1, <1>2
<1> QED
  BY <1>3 DEF Versions

-----------------------------------------------------------------------------
(* Secrets.                                                                *)

\* A write to one object leaves the others, and is what is stored then.
LEMMA PutSecretStores ==
    ASSUME TypeInv, NEW n \in SecretName, NEW s \in Secret, PutSecret(n, s)
    PROVE  /\ Stored(secrets'[n]) = s
           /\ \A m \in SecretName : m # n => secrets'[m] = secrets[m]
<1>1. secrets \in [SecretName -> Histories(Secret)]
  BY DEF TypeInv, KubeType
<1>2. secrets' = [secrets EXCEPT ![n] = Push(@, s)]
  BY DEF PutSecret
<1>3. secrets'[n] = Push(secrets[n], s)
  BY <1>1, <1>2
<1>4. secrets[n] \in Histories(Secret)
  BY <1>1
<1>5. Stored(Push(secrets[n], s)) = s
  BY <1>4, HistoryOps
<1>6. \A m \in SecretName : m # n => secrets'[m] = secrets[m]
  BY <1>1, <1>2
<1> QED
  BY <1>3, <1>5, <1>6

\* The worker's steps that write no Secret.
SecretsKept ==
    \/ \E u \in CR : StartReconcile(u)
    \/ AddFinalizer \/ UpdateStatus \/ Discover \/ VetRename \/ ReadOldSecret
    \/ VetTarget \/ ListClients \/ BurnOrphan \/ Register \/ GetClient
    \/ ReadSecret \/ BurnClient \/ EditClient \/ VerifyEdit \/ Deregister
    \/ ListForCleanup \/ SweepOne \/ RemoveFinalizer

\* Each of them leaves every Secret as it was.
LEMMA SecretsKeptBy == SecretsKept => UNCHANGED secrets
BY DEF SecretsKept, StartReconcile, AddFinalizer, UpdateStatus, Discover,
   VetRename, ReadOldSecret, VetTarget, ListClients, BurnOrphan, Register,
   GetClient, ReadSecret, BurnClient, EditClient, VerifyEdit, Deregister,
   ListForCleanup, SweepOne, RemoveFinalizer, Failed

\* CreateOrUpdate writes over nothing, or over what the CR owns.
LEMMA UpsertOwn ==
    ASSUME TypeInv, WriteSecret \/ SyncSecret, NEW n \in SecretName,
           Stored(secrets[n]).exists, Stored(secrets[n]).owner # w.cur
    PROVE  Stored(secrets[n])' = Stored(secrets[n])
<1> USE DEF TypeInv
<1> DEFINE t == w.oc.spec.secret
           seen == Visible(Cached(secrets[t]))
           accepted == IF seen.exists
                       THEN Owned(seen, w.cur) /\ Synced(secrets[t])
                       ELSE ~Stored(secrets[t]).exists
<1>1. w.pc # "idle" /\ w.oc.spec.secret \in SecretName /\ w.creds \in Nat
  BY Fields, ObjectOps DEF WriteSecret, SyncSecret
<1>2. \/ UNCHANGED secrets
      \/ accepted /\ \E s \in Secret : PutSecret(t, s)
  BY <1>1, WantType DEF WriteSecret, SyncSecret, Upsert
<1>3. CASE accepted /\ \E s \in Secret : PutSecret(t, s)
  <2>1. n # t
    <3>1. CASE seen.exists
      <4>1. seen = Cached(secrets[t]) /\ Len(secrets[t]) = 1
        BY <1>3, <3>1 DEF Visible, NoSecret, Synced
      <4>2. secrets[t] \in Seq(Secret)
        BY <1>1 DEF KubeType, Histories
      <4>3. Stored(secrets[t]) = seen
        BY <4>1, <4>2 DEF Cached, Stored
      <4> QED
        BY <1>3, <3>1, <4>3 DEF Owned
    <3>2. CASE ~seen.exists
      BY <1>3, <3>2
    <3> QED
      BY <3>1, <3>2
  <2> QED
    BY <1>1, <1>3, <2>1, PutSecretStores
<1> QED
  BY <1>2, <1>3

\* The pin covers the deletion of the old Secret.
LEMMA DeleteOldOwn ==
    ASSUME TypeInv, PinInv, DeleteOldSecret, NEW n \in SecretName,
           Stored(secrets[n]).exists, Stored(secrets[n]).owner # w.cur
    PROVE  Stored(secrets[n])' = Stored(secrets[n])
<1>1. \/ UNCHANGED secrets
      \/ Stored(secrets[w.oc.secret]).exists /\ w.pinned /\ PutSecret(w.oc.secret, NoSecret)
  BY DEF DeleteOldSecret
<1>2. w.oc.secret \in SecretName /\ w.pc = "deleteOld"
  BY DEF PinInv, DeleteOldSecret
<1>3. CASE w.pinned /\ PutSecret(w.oc.secret, NoSecret)
  <2>1. n # w.oc.secret
    BY <1>2, <1>3 DEF PinInv, Owned
  <2> QED
    BY <1>2, <1>3, <2>1, NoSecretType, PutSecretStores
<1> QED
  BY <1>1, <1>3

\* The worker pins the old Secret only after a read that found it owned.
LEMMA WorkerKeepsPin ==
    ASSUME TypeInv, PinInv, WorkerStep
    PROVE  PinInv'
<1>1. ASSUME NEW u \in CR, StartReconcile(u)
      PROVE  w'.pc \notin {"vetRename", "readOld", "deleteOld"}
  BY <1>1 DEF StartReconcile, Begin, BeginDelete, Job
<1>2. CASE AddFinalizer \/ UpdateStatus \/ RemoveFinalizer
  BY <1>2 DEF PinInv, AddFinalizer, UpdateStatus, RemoveFinalizer, Retry, Idle,
              Begin, Job
<1>3. CASE Discover
  <2>1. RenamePending(w.oc) => w.oc.secret \in SecretName
    <3>1. w.oc \in Object
      BY <1>3, Fields DEF TypeInv, Discover
    <3> QED
      BY <3>1 DEF RenamePending, Object
  <2> QED
    BY <1>3, <2>1 DEF Discover, Failed, Fail, Go, AfterRename, At, Job, PinInv
<1>4. CASE VetRename
  BY <1>4 DEF VetRename, Failed, Fail, Go, At, Job, PinInv
<1>5. CASE ReadOldSecret
  <2>1. CASE /\ Owned(APIRead(w.oc.secret), w.cur) /\ UNCHANGED secrets
             /\ w' = [At("deleteOld", w.oc) EXCEPT !.pinned = TRUE]
    <3>1. w'.oc = w.oc /\ w'.cur = w.cur
      BY <2>1 DEF At, Job
    <3> QED
      BY <1>5, <2>1, <3>1 DEF PinInv, ReadOldSecret, APIRead
  <2>2. CASE w'.pc \notin {"vetRename", "readOld", "deleteOld"}
    BY <2>2 DEF PinInv
  <2>3. CASE Failed("kube", "SecretCleanupFailed")
    BY <2>2, <2>3 DEF Failed, Fail, Go, At, Job
  <2>4. CASE w' = AfterRename([w.oc EXCEPT !.secret = None])
    BY <2>2, <2>4 DEF AfterRename, At, Job
  <2> QED
    BY <1>5, <2>1, <2>3, <2>4 DEF ReadOldSecret
<1>6. CASE DeleteOldSecret
  BY <1>6 DEF DeleteOldSecret, Fail, Go, AfterRename, At, Job, PinInv
<1>7. CASE VetTarget \/ ListClients \/ GetClient \/ ReadSecret \/ VerifyEdit
  BY <1>7 DEF VetTarget, ListClients, GetClient, ReadSecret, VerifyEdit,
     Failed, Fail, Go, At, Job, OnDrift, PinInv
<1>8. CASE BurnOrphan \/ BurnClient \/ Deregister \/ SweepOne \/ ListForCleanup
  BY <1>8 DEF BurnOrphan, BurnClient, Deregister, SweepOne, ListForCleanup,
     DeleteClient, SweepOn, Fail, Go, Retry, Idle, At, Job, PinInv
<1>9. CASE Register \/ EditClient \/ WriteSecret \/ SyncSecret
  BY <1>9 DEF Register, EditClient, WriteSecret, SyncSecret, Upsert, Fail, Go,
     At, Job, PinInv
<1> QED
  BY <1>1, <1>2, <1>3, <1>4, <1>5, <1>6, <1>7, <1>8, <1>9 DEF WorkerStep, PinInv

\* Whoever takes the pinned Secret away, or replaces it, ends the pin.
LEMMA TamperKeepsPin ==
    ASSUME TypeInv, PinInv, SecretStep \/ \E n \in SecretName : CollectGarbage(n)
    PROVE  PinInv'
<1>1. PICK n \in SecretName, s \in Secret :
        /\ Tamper(n, s)
        /\ s.exists => ~Stored(secrets[n]).exists \/ s.owner = Stored(secrets[n]).owner
  <2>1. PICK n \in SecretName :
          DeleteSecret(n) \/ Squat(n) \/ Scrub(n) \/ Unlabel(n) \/ CollectGarbage(n)
    BY DEF SecretStep
  <2>2. Stored(secrets[n]) \in Secret
    BY HistoryOps DEF TypeInv, KubeType
  <2>3. CASE DeleteSecret(n) \/ CollectGarbage(n)
    BY <2>3, NoSecretType DEF DeleteSecret, CollectGarbage, NoSecret
  <2>4. CASE Squat(n)
    BY <2>4, NoSecretType DEF Squat, Secret
  <2>5. CASE Scrub(n) \/ Unlabel(n)
    <3> DEFINE old == Stored(secrets[n])
    <3>1. [old EXCEPT !.creds = 0] \in Secret /\ [old EXCEPT !.creds = 0].owner = old.owner
      BY <2>2 DEF Secret
    <3>2. /\ [old EXCEPT !.managed = FALSE] \in Secret
          /\ [old EXCEPT !.managed = FALSE].owner = old.owner
      BY <2>2 DEF Secret
    <3> QED
      BY <2>5, <3>1, <3>2 DEF Scrub, Unlabel
  <2> QED
    BY <2>1, <2>3, <2>4, <2>5
<1>2. w'.pc = w.pc /\ w'.cur = w.cur /\ w'.oc = w.oc
      /\ w'.pinned = (w.pinned /\ (s.exists \/ w.oc.secret # n))
  BY <1>1 DEF Tamper, TypeInv, WorkerType, Worker
<1>3. /\ Stored(secrets'[n]) = s
      /\ \A m \in SecretName : m # n => secrets'[m] = secrets[m]
  BY <1>1, PutSecretStores DEF Tamper
<1> QED
  BY <1>1, <1>2, <1>3 DEF PinInv, Owned

\* Every step of anybody keeps the pin true.
LEMMA PinNext == TypeInv /\ PinInv /\ [Next]_vars => PinInv'
<1> SUFFICES ASSUME TypeInv, PinInv, [Next]_vars PROVE PinInv'
  OBVIOUS
<1>1. CASE UserStep
  <2>1. UNCHANGED secrets /\ w'.pc = w.pc /\ w'.cur = w.cur /\ w'.oc = w.oc
        /\ w'.pinned = w.pinned
    BY <1>1 DEF UserStep, CreateCR, EditSpec, DeleteCR, ForceRemove, Change,
       Outdate, TypeInv, WorkerType, Worker
  <2> QED
    BY <2>1 DEF PinInv
<1>2. CASE WatchStep
  <2>1. w' = w /\ \A n \in SecretName : Stored(secrets'[n]) = Stored(secrets[n])
    BY <1>2, HistoryOps DEF WatchStep, DeliverCR, DeliverSecret, TypeInv, KubeType
  <2> QED
    BY <2>1 DEF PinInv
<1>3. CASE Restart
  BY <1>3 DEF Restart, Idle, Job, PinInv
<1>4. CASE TsidpStep \/ UNCHANGED vars \/ Quiescent
  BY <1>4 DEF TsidpStep, LateAnswer, LoseState, AdminEdit, Quiescent, vars, PinInv
<1> QED
  BY <1>1, <1>2, <1>3, <1>4, WorkerKeepsPin, TamperKeepsPin DEF Next

\* Whatever the cache shows, and whatever others do to the Secrets between
\* the operator's reads and its writes: it creates, updates and deletes only
\* Secrets that are free or controlled by the CR of the reconcile.
THEOREM ForeignSecrets == Spec => ForeignSecretsUntouched
<1> DEFINE Untouched == WorkerMoves => \A n \in SecretName :
                           Sec(n).exists /\ Sec(n).owner # w.cur => Sec(n)' = Sec(n)
<1>1. Init => PinInv
  BY DEF Init, Idle, Job, PinInv
<1>2. TypeInv /\ PinInv /\ [Next]_vars => [Untouched]_vars
  <2> SUFFICES ASSUME TypeInv, PinInv, [Next]_vars, WorkerMoves,
                      NEW n \in SecretName, Sec(n).exists, Sec(n).owner # w.cur
               PROVE  Sec(n)' = Sec(n)
    OBVIOUS
  <2>1. CASE WorkerStep
    BY <2>1, SecretsKeptBy, UpsertOwn, DeleteOldOwn DEF WorkerStep, SecretsKept, Sec
  <2>2. CASE Restart
    BY <2>2, HistoryOps DEF Restart, TypeInv, KubeType, Sec
  <2>3. w'.pc # w.pc \/ w'.doomed # w.doomed
    BY DEF WorkerMoves
  <2>4. CASE UserStep \/ SecretStep \/ \E m \in SecretName : CollectGarbage(m)
    BY <2>3, <2>4 DEF UserStep, CreateCR, EditSpec, DeleteCR, ForceRemove, Change,
       Outdate, SecretStep, DeleteSecret, Squat, Scrub, Unlabel, CollectGarbage,
       Tamper, TypeInv, WorkerType, Worker
  <2>5. CASE WatchStep \/ TsidpStep \/ UNCHANGED vars \/ Quiescent
    BY <2>3, <2>5 DEF WatchStep, DeliverCR, DeliverSecret, TsidpStep, LateAnswer,
       LoseState, AdminEdit, Quiescent, vars
  <2> QED
    BY <2>1, <2>2, <2>4, <2>5 DEF Next
<1> QED
  BY <1>1, <1>2, TypeInit, TypeNext, PinNext, PTL DEF Spec, ForeignSecretsUntouched

-----------------------------------------------------------------------------
(* Registrations.                                                          *)

\* No version of an object gets an id but by a write that has it.
LEMMA CarriesOps ==
    ASSUME NEW V, NEW h \in Histories(V), NEW id
    PROVE  /\ \A v \in V : Carries(Push(h, v), id) => v.id = id \/ Carries(h, id)
           /\ CanDeliver(h) /\ Carries(DeliverNext(h), id) => Carries(h, id)
           /\ Carries(Relist(h), id) => Carries(h, id)
           /\ Cached(h).id = id => Carries(h, id)
           /\ Stored(h).id = id => Carries(h, id)
<1>1. h \in Seq(V) /\ Len(h) \in Nat /\ Len(h) > 0
  BY DEF Histories
<1>2. 1 \in DOMAIN h /\ Len(h) \in DOMAIN h
  BY <1>1
<1>3. /\ Cached(h).id = id => Carries(h, id)
      /\ Stored(h).id = id => Carries(h, id)
  BY <1>1, <1>2 DEF Cached, Stored, Carries
<1>4. ASSUME NEW v \in V, Carries(Push(h, v), id)
      PROVE  v.id = id \/ Carries(h, id)
  <2>1. PICK i \in DOMAIN Append(h, v) : Append(h, v)[i].id = id
    BY <1>4 DEF Carries, Push
  <2>2. Append(h, v)[i] = v \/ (i \in DOMAIN h /\ Append(h, v)[i] = h[i])
    BY <1>1
  <2> QED
    BY <2>1, <2>2 DEF Carries
<1>5. ASSUME CanDeliver(h), Carries(DeliverNext(h), id)
      PROVE  Carries(h, id)
  <2>1. PICK i \in DOMAIN Tail(h) : Tail(h)[i].id = id
    BY <1>5 DEF Carries, DeliverNext
  <2>2. Len(h) > 1
    BY <1>5 DEF CanDeliver
  <2>3. i + 1 \in DOMAIN h /\ Tail(h)[i] = h[i + 1]
    BY <1>1, <2>1, <2>2
  <2> QED
    BY <2>1, <2>3 DEF Carries
<1>6. Carries(Relist(h), id) => Stored(h).id = id
  BY DEF Carries, Relist
<1> QED
  BY <1>3, <1>4, <1>5, <1>6

\* tsidp never gives out an id that a status or the worker still knows.
LEMMA NewIdFresh ==
    ASSUME FreeIds # {}
    PROVE  /\ NewId # 0 /\ NewId # w.oc.id /\ NewId # w.creds /\ NewId \notin w.doomed
           /\ \A c \in clients : c.id # NewId
           /\ \A r \in late : r.id # NewId
           /\ \A u \in CR : ~Carries(cr[u], NewId)
<1>1. NewId \in FreeIds
  BY DEF NewId
<1>2. /\ NewId \notin {c.id : c \in clients} /\ NewId \notin {r.id : r \in late}
      /\ NewId \notin {w.oc.id, w.creds}
      /\ NewId \notin w.doomed
      /\ NewId \notin UNION {{cr[u][i].id : i \in DOMAIN cr[u]} : u \in CR}
  BY <1>1 DEF FreeIds
<1>3. \A u \in CR : \A i \in DOMAIN cr[u] : cr[u][i].id # NewId
  BY <1>2
<1>4. (\A c \in clients : c.id # NewId) /\ (\A r \in late : r.id # NewId)
  BY <1>2
<1>5. \A u \in CR : ~Carries(cr[u], NewId)
  BY <1>3 DEF Carries
<1> QED
  BY <1>2, <1>4, <1>5, NewIdType

\* How the changes of an object change its id.
LEMMA ObjectIds ==
    ASSUME NEW o \in Object
    PROVE  /\ \A r : NotReady(o, r).id = o.id
           /\ MarkReady(o).id = o.id /\ Unregistered(o).id = 0
           /\ [o EXCEPT !.secret = None].id = o.id
           /\ [o EXCEPT !.fin = TRUE].id = o.id
           /\ [o EXCEPT !.fin = FALSE, !.phase = "gone"].id = o.id
           /\ [o EXCEPT !.obs = o.gen].id = o.id
           /\ \A id : /\ [o EXCEPT !.id = id].id = id
                      /\ MarkReady([o EXCEPT !.id = id]).id = id
BY DEF NotReady, MarkReady, Unregistered, Object

\* The worker has no id in hand that it had not before.
HandKept ==
    \/ w'.pc = "idle"
    \/ /\ w'.pc # "writeSecret" /\ w'.cur = w.cur
       /\ w'.oc.id \in {w.oc.id, 0} /\ w'.doomed \subseteq w.doomed

\* It gives up on a request about an id in its hand.
LateKept ==
    \/ UNCHANGED late
    \/ \E op \in {"register", "delete", "edit"} :
         \E id \in {0, w.oc.id} \cup w.doomed : GiveUp(op, id)

\* Such a request is about a registration of its own.
LEMMA LateOwnKept ==
    ASSUME TypeInv, OwnInv, w.pc # "idle", LateKept,
           \A d \in clients' : \E c \in clients : d.id = c.id /\ d.by = c.by
    PROVE  LateOwn'
<1>1. ASSUME NEW r \in late', r.op # "register", NEW c \in clients, c.id = r.id
      PROVE  c.by = r.fp
  <2>1. CASE r \in late
    BY <1>1, <2>1 DEF OwnInv, LateOwn
  <2>2. CASE r \notin late
    <3>1. PICK op \in {"register", "delete", "edit"}, id \in {0, w.oc.id} \cup w.doomed :
             r = [op |-> op, id |-> id, fp |-> w.cur, cfg |-> w.oc.spec.cfg]
      BY <1>1, <2>2 DEF LateKept, GiveUp
    <3>2. c.id # 0
      BY <1>1 DEF TypeInv, RegistryType, Registration
    <3> QED
      BY <1>1, <3>1, <3>2 DEF OwnInv, HandOwn
  <2> QED
    BY <2>1, <2>2
<1> QED
  BY <1>1 DEF LateOwn

\* Then nothing that is not its own becomes its own.
LEMMA OwnKept ==
    ASSUME TypeInv, OwnInv, w.pc # "idle", HandKept, clients' \subseteq clients,
           LateOwn', UNCHANGED cr \/ \E o \in Object : Put(w.cur, o) /\ o.id = w.oc.id
    PROVE  OwnInv'
<1>1. \A c \in clients : c.id # 0
  BY DEF TypeInv, RegistryType, Registration
<1>2. HandOwn'
  BY <1>1 DEF OwnInv, HandOwn, HandKept
<1>3. ASSUME NEW u \in CR, NEW c \in clients', Carries(cr'[u], c.id)
      PROVE  c.by = u
  <2>1. CASE Carries(cr[u], c.id)
    BY <2>1 DEF OwnInv, StatusesOwn
  <2>2. ASSUME NEW o \in Object, Put(w.cur, o), o.id = w.oc.id
        PROVE  c.by = u
    <3>1. w.cur \in CR /\ cr \in [CR -> Histories(Object)]
      BY Fields DEF TypeInv, KubeType
    <3>2. cr'[u] = IF u = w.cur THEN Push(cr[u], o) ELSE cr[u]
      BY <2>2, <3>1 DEF Put
    <3>3. cr[u] \in Histories(Object)
      BY <3>1
    <3>4. CASE u = w.cur /\ o.id = c.id
      BY <2>2, <3>4 DEF OwnInv, HandOwn
    <3> QED
      BY <1>3, <2>1, <3>2, <3>3, <3>4, CarriesOps
  <2> QED
    BY <1>3, <2>1, <2>2
<1>4. StatusesOwn'
  BY <1>3 DEF StatusesOwn
<1> QED
  BY <1>2, <1>4 DEF OwnInv, IdsUnique, FingerprintsOwn

\* Every step of the worker but those that take an id into hand.
LEMMA StepsKeepHand ==
    ASSUME TypeInv, w.pc # "idle",
           \/ AddFinalizer \/ UpdateStatus \/ Discover \/ VetRename \/ ReadOldSecret
           \/ DeleteOldSecret \/ VetTarget \/ BurnOrphan \/ GetClient \/ ReadSecret
           \/ BurnClient \/ VerifyEdit \/ SyncSecret \/ Deregister \/ SweepOne
           \/ EditClient \/ RemoveFinalizer
    PROVE  HandKept
<1>1. w.oc \in Object
  BY Fields DEF TypeInv
<1>2. CASE AddFinalizer \/ UpdateStatus \/ RemoveFinalizer
  <2>1. w' = Idle \/ w' = Begin(w.cur, [w.oc EXCEPT !.fin = TRUE], TRUE)
    BY <1>2 DEF AddFinalizer, UpdateStatus, RemoveFinalizer, Retry
  <2>2. [w.oc EXCEPT !.fin = TRUE] \in Object
    BY <1>1, ObjectOps
  <2> QED
    BY <1>1, <2>1, <2>2, ObjectIds DEF Begin, Job, Idle, HandKept
<1>3. CASE Discover \/ VetRename \/ ReadOldSecret \/ DeleteOldSecret
  <2>1. \/ w' \in {At("vetRename", w.oc), At("readOld", w.oc), AfterRename(w.oc),
                   AfterRename([w.oc EXCEPT !.secret = None]),
                   [At("deleteOld", w.oc) EXCEPT !.pinned = TRUE]}
        \/ \E r : w' = At("status", NotReady(w.oc, r))
    BY <1>3 DEF Discover, VetRename, ReadOldSecret, DeleteOldSecret, Failed, Fail, Go
  <2>2. CASE w' \in {At("vetRename", w.oc), At("readOld", w.oc)}
    BY <2>2 DEF At, Job, HandKept
  <2>3. CASE w' \in {AfterRename(w.oc), AfterRename([w.oc EXCEPT !.secret = None])}
    <3>1. [w.oc EXCEPT !.secret = None].id = w.oc.id
      BY <1>1, ObjectIds
    <3>2. PICK o : o.id = w.oc.id /\ w' = AfterRename(o)
      BY <2>3, <3>1
    <3>3. PICK pc \in {"vetTarget", "getClient"} : w' = At(pc, o)
      BY <3>2 DEF AfterRename
    <3> QED
      BY <3>2, <3>3 DEF At, Job, HandKept
  <2>4. CASE \E r : w' = At("status", NotReady(w.oc, r))
    <3>1. \A r : NotReady(w.oc, r).id = w.oc.id
      BY <1>1, ObjectIds
    <3> QED
      BY <2>4, <3>1 DEF At, Job, HandKept
  <2>5. CASE w' = [At("deleteOld", w.oc) EXCEPT !.pinned = TRUE]
    BY <2>5 DEF At, Job, HandKept
  <2> QED
    BY <2>1, <2>2, <2>3, <2>4, <2>5
<1>4. CASE VetTarget \/ GetClient \/ ReadSecret \/ VerifyEdit
  <2>1. \/ \E id : w' = [At("listClients", w.oc) EXCEPT !.creds = id]
        \/ \E b : w' = [At("readSecret", w.oc) EXCEPT !.drifted = b]
        \/ \E pc \in Steps \ {"writeSecret"} : w' = At(pc, w.oc)
        \/ w' = At("status", Unregistered(w.oc))
        \/ \E r : w' = At("status", NotReady(w.oc, r))
    BY <1>4 DEF VetTarget, GetClient, ReadSecret, VerifyEdit, OnDrift, Failed,
       Fail, Go, Steps
  <2>2. Unregistered(w.oc).id = 0 /\ \A r : NotReady(w.oc, r).id = w.oc.id
    BY <1>1, ObjectIds
  <2>3. CASE \E id : w' = [At("listClients", w.oc) EXCEPT !.creds = id]
    BY <2>3 DEF At, Job, HandKept
  <2>4. CASE \E b : w' = [At("readSecret", w.oc) EXCEPT !.drifted = b]
    BY <2>4 DEF At, Job, HandKept
  <2> QED
    BY <2>1, <2>2, <2>3, <2>4 DEF At, Job, HandKept
<1>5. CASE BurnOrphan \/ BurnClient \/ Deregister \/ SweepOne
  <2>1. \/ w' = Idle
        \/ \E pc \in Steps \ {"writeSecret"} : w' = At(pc, w.oc)
        \/ w' = At("status", Unregistered(w.oc))
        \/ \E id : w' = [At("sweep", w.oc) EXCEPT !.doomed = w.doomed \ {id}]
        \/ \E r : w' = At("status", NotReady(w.oc, r))
    BY <1>5 DEF BurnOrphan, BurnClient, Deregister, SweepOne, SweepOn,
       DeleteClient, Retry, Fail, Go, Steps
  <2> QED
    BY <1>1, <2>1, ObjectIds DEF At, Job, Idle, HandKept
<1>6. CASE EditClient \/ SyncSecret
  <2>1. \/ w' \in {At("verifyEdit", w.oc), At("status", MarkReady(w.oc))}
        \/ \E r : w' = At("status", NotReady(w.oc, r))
    BY <1>6 DEF EditClient, SyncSecret, Upsert, Fail, Go
  <2> QED
    BY <1>1, <2>1, ObjectIds DEF At, Job, HandKept
<1> QED
  BY <1>2, <1>3, <1>4, <1>5, <1>6

\* Starting: the id in the cached status.
LEMMA StartOwn ==
    ASSUME TypeInv, OwnInv, NEW u \in CR, StartReconcile(u)
    PROVE  OwnInv'
<1> DEFINE o == Cached(cr[u])
<1>1. UNCHANGED <<cr, clients, late>>
  BY DEF StartReconcile, registry
<1>2. o \in Object /\ \A c \in clients : c.id = o.id => c.by = u
  <2>1. cr[u] \in Histories(Object)
    BY DEF TypeInv, KubeType
  <2> QED
    BY <2>1, HistoryOps, CarriesOps DEF OwnInv, StatusesOwn
<1>3. \/ w' = w /\ w.pc = "idle"
      \/ /\ w'.pc # "writeSecret" /\ w'.cur = u /\ w'.oc.id = o.id /\ w'.doomed = {}
  BY <1>2, ObjectIds DEF StartReconcile, Begin, BeginDelete, Job
<1>4. HandOwn'
  BY <1>1, <1>2, <1>3 DEF HandOwn
<1> QED
  BY <1>1, <1>4 DEF OwnInv, IdsUnique, FingerprintsOwn, StatusesOwn, LateOwn

\* Listing: ids that carry the CR's fingerprint.
LEMMA ListOwn ==
    ASSUME TypeInv, OwnInv, ListClients \/ ListForCleanup
    PROVE  OwnInv'
<1>1. UNCHANGED <<cr, clients, late>>
  BY DEF ListClients, ListForCleanup, Failed, registry
<1>2. w.oc \in Object /\ w.cur \in CR /\ w.pc \notin {"idle", "writeSecret"}
  BY Fields DEF TypeInv, ListClients, ListForCleanup
<1>3. \A c \in Fingerprinted(clients, w.cur) : c \in clients /\ c.by = w.cur
  BY <1>2, NoneAssumption DEF Fingerprinted, OwnInv, FingerprintsOwn
<1>4. HandOwn'
  <2>1. CASE HandKept
    BY <1>1, <1>2, <2>1, OwnKept DEF OwnInv, LateOwn
  <2>2. CASE ListClients
    <3>1. ASSUME NEW c \in Fingerprinted(clients, w.cur),
                 w' = IF c.id = w.creds
                      THEN At("getClient", [w.oc EXCEPT !.id = c.id])
                      ELSE [At("burnOrphan", w.oc) EXCEPT !.doomed = {c.id}]
          PROVE  HandOwn'
      <4>1. \A d \in clients : d.id = c.id => d.by = w.cur
        BY <1>3 DEF OwnInv, IdsUnique
      <4>2. [w.oc EXCEPT !.id = c.id].id = c.id
        BY <1>2, ObjectIds
      <4>3. /\ w'.pc \in {"getClient", "burnOrphan"} /\ w'.cur = w.cur
            /\ w'.oc.id \in {c.id, w.oc.id} /\ w'.doomed \subseteq {c.id}
        BY <3>1, <4>2 DEF At, Job
      <4> QED
        BY <1>1, <1>2, <4>1, <4>3 DEF OwnInv, HandOwn
    <3>2. CASE Go("register", w.oc) \/ Failed("tsidp", "RegistrationFailed")
      BY <1>2, <2>1, <3>2, ObjectIds DEF Go, Failed, Fail, At, Job, HandKept
    <3> QED
      BY <2>2, <3>1, <3>2 DEF ListClients
  <2>3. CASE ListForCleanup
    <3> DEFINE ids == {c.id : c \in Fingerprinted(clients, w.cur)}
    <3>1. \A d \in clients : d.id \in ids => d.by = w.cur
      BY <1>3 DEF OwnInv, IdsUnique
    <3>2. \/ w' = Idle \/ w' = At("removeFinalizer", w.oc)
          \/ w' = [At("sweep", w.oc) EXCEPT !.doomed = ids]
      BY <2>3 DEF ListForCleanup, SweepOn, Go, Retry
    <3> QED
      BY <1>1, <1>2, <3>1, <3>2 DEF At, Job, Idle, OwnInv, HandOwn
  <2> QED
    BY <2>2, <2>3
<1> QED
  BY <1>1, <1>4 DEF OwnInv, IdsUnique, FingerprintsOwn, StatusesOwn, LateOwn

\* Register: an id that nothing knew, for the CR of the reconcile.
LEMMA RegisterOwn ==
    ASSUME TypeInv, OwnInv, Register
    PROVE  OwnInv'
<1> DEFINE new == [id |-> NewId, fp |-> w.cur, by |-> w.cur, cfg |-> w.oc.spec.cfg]
<1>1. w.oc \in Object /\ w.cur \in CR /\ w.pc = "register"
  BY Fields DEF TypeInv, Register
<1>2. UNCHANGED cr /\ clients' \in {clients, clients \cup {new}}
  BY DEF Register, Registered, GiveUp
<1>3. /\ NewId # w.oc.id /\ NewId \notin w.doomed
      /\ \A c \in clients : c.id # NewId
      /\ \A r \in late : r.id # NewId
      /\ \A u \in CR : ~Carries(cr[u], NewId)
  BY NewIdFresh DEF Register
<1>4. IdsUnique' /\ FingerprintsOwn' /\ StatusesOwn'
  BY <1>2, <1>3 DEF OwnInv, IdsUnique, FingerprintsOwn, StatusesOwn
<1>5. \/ w' = [At("writeSecret", w.oc) EXCEPT !.creds = NewId]
      \/ w' = At("status", NotReady(w.oc, "RegistrationFailed"))
  BY DEF Register, Fail, Go
<1>6. w'.cur = w.cur /\ w'.oc.id = w.oc.id /\ w'.doomed = {}
      /\ (w'.pc = "writeSecret" => w'.creds = NewId)
  <2>1. NotReady(w.oc, "RegistrationFailed").id = w.oc.id
    BY <1>1, ObjectIds
  <2> QED
    BY <1>5, <2>1 DEF At, Job
<1>7. HandOwn'
  BY <1>1, <1>2, <1>3, <1>6 DEF OwnInv, HandOwn
<1>8. \A r \in late' : r \in late \/ r.op = "register"
  BY DEF Register, GiveUp
<1>9. LateOwn'
  BY <1>2, <1>3, <1>8 DEF OwnInv, LateOwn
<1> QED
  BY <1>4, <1>7, <1>9 DEF OwnInv

\* WriteSecret: the id of the credentials in hand becomes the object's.
LEMMA WriteSecretOwn ==
    ASSUME TypeInv, OwnInv, WriteSecret
    PROVE  OwnInv'
<1>1. w.oc \in Object /\ w.pc = "writeSecret" /\ UNCHANGED <<cr, clients, late>>
  BY Fields DEF TypeInv, WriteSecret, registry
<1>2. \/ w' = At("status", MarkReady([w.oc EXCEPT !.id = w.creds]))
      \/ w' = At("status", NotReady(w.oc, "RegistrationFailed"))
  BY DEF WriteSecret, Upsert, Fail, Go
<1>3. /\ MarkReady([w.oc EXCEPT !.id = w.creds]).id = w.creds
      /\ NotReady(w.oc, "RegistrationFailed").id = w.oc.id
  BY <1>1, ObjectIds
<1>4. w'.pc = "status" /\ w'.cur = w.cur /\ w'.oc.id \in {w.creds, w.oc.id} /\ w'.doomed = {}
  BY <1>2, <1>3 DEF At, Job
<1>5. HandOwn'
  BY <1>1, <1>4 DEF OwnInv, HandOwn
<1> QED
  BY <1>1, <1>5 DEF OwnInv, IdsUnique, FingerprintsOwn, StatusesOwn, LateOwn

\* A registration that is renamed keeps its id and the CR it was made for.
LEMMA RenamedOwn ==
    ASSUME TypeInv, OwnInv, NEW id, NEW fp, NEW cfg,
           \A c \in clients : c.id = id => fp \in {None, c.by},
           clients' = Renamed(clients, id, fp, cfg)
    PROVE  /\ IdsUnique' /\ FingerprintsOwn'
           /\ \A d \in clients' : \E c \in clients : d.id = c.id /\ d.by = c.by
<1> DEFINE R(c) == IF c.id = id THEN [c EXCEPT !.fp = fp, !.cfg = cfg] ELSE c
<1>1. clients' = {R(c) : c \in clients}
  BY DEF Renamed
<1>2. \A c \in clients : /\ R(c).id = c.id /\ R(c).by = c.by
                         /\ R(c).fp = IF c.id = id THEN fp ELSE c.fp
  BY DEF TypeInv, RegistryType, Registration
<1>3. \A c, d \in clients : R(c).id = R(d).id => R(c) = R(d)
  BY <1>2 DEF OwnInv, IdsUnique
<1>4. \A c \in clients : R(c).fp \in {None, R(c).by}
  BY <1>2 DEF OwnInv, FingerprintsOwn
<1> HIDE DEF R
<1>5. IdsUnique'
  BY <1>1, <1>3 DEF IdsUnique
<1>6. FingerprintsOwn'
  BY <1>1, <1>4 DEF FingerprintsOwn
<1> QED
  BY <1>1, <1>2, <1>5, <1>6

\* EditClient: the registration whose id the CR has.
LEMMA EditOwn ==
    ASSUME TypeInv, OwnInv, EditClient
    PROVE  OwnInv'
<1>1. w.pc # "idle" /\ w.cur \in CR /\ UNCHANGED cr
  BY Fields DEF TypeInv, EditClient
<1>2. HandKept
  BY <1>1, StepsKeepHand
<1>3. \/ UNCHANGED clients
      \/ clients' = Renamed(clients, w.oc.id, w.cur, w.oc.spec.cfg)
  BY DEF EditClient, Edited, GiveUp, registry
<1>4. LateKept
  BY DEF EditClient, LateKept, registry
<1>5. CASE UNCHANGED clients
  BY <1>1, <1>2, <1>5, <1>4, LateOwnKept, OwnKept
<1>6. CASE clients' = Renamed(clients, w.oc.id, w.cur, w.oc.spec.cfg)
  <2>1. \A c \in clients : c.id = w.oc.id => w.cur \in {None, c.by}
    BY <1>1 DEF OwnInv, HandOwn
  <2>2. /\ IdsUnique' /\ FingerprintsOwn'
        /\ \A d \in clients' : \E c \in clients : d.id = c.id /\ d.by = c.by
    BY <1>6, <2>1, RenamedOwn
  <2>3. StatusesOwn'
    BY <1>1, <2>2 DEF OwnInv, StatusesOwn
  <2>4. \A c \in clients : c.id # 0
    BY DEF TypeInv, RegistryType, Registration
  <2>5. HandOwn'
    BY <1>1, <1>2, <2>2, <2>4 DEF OwnInv, HandOwn, HandKept
  <2>6. LateOwn'
    BY <1>1, <1>4, <2>2, LateOwnKept
  <2> QED
    BY <2>2, <2>3, <2>5, <2>6 DEF OwnInv
<1> QED
  BY <1>3, <1>5, <1>6

\* The worker deletes and records only what is its CR's own.
LEMMA WorkerKeepsOwn ==
    ASSUME TypeInv, OwnInv, WorkerStep
    PROVE  OwnInv'
<1>1. CASE AddFinalizer \/ UpdateStatus \/ RemoveFinalizer
  <2>1. w.pc # "idle" /\ w.oc \in Object /\ UNCHANGED <<clients, late>>
    BY <1>1, Fields DEF TypeInv, AddFinalizer, UpdateStatus, RemoveFinalizer, registry
  <2>2. \A o \in {[w.oc EXCEPT !.fin = TRUE], [w.oc EXCEPT !.obs = w.oc.gen],
                  [w.oc EXCEPT !.fin = FALSE, !.phase = "gone"]} :
           o \in Object /\ o.id = w.oc.id
    BY <2>1, ObjectOps, ObjectIds
  <2>3. UNCHANGED cr \/ \E o \in Object : Put(w.cur, o) /\ o.id = w.oc.id
    BY <1>1, <2>2 DEF AddFinalizer, UpdateStatus, RemoveFinalizer
  <2>4. LateOwn'
    BY <2>1 DEF OwnInv, LateOwn
  <2> QED
    BY <1>1, <2>1, <2>3, <2>4, StepsKeepHand, OwnKept
<1>2. CASE \/ Discover \/ VetRename \/ ReadOldSecret \/ DeleteOldSecret \/ VetTarget
           \/ BurnOrphan \/ GetClient \/ ReadSecret \/ BurnClient \/ VerifyEdit
           \/ SyncSecret \/ Deregister \/ SweepOne
  <2>1. w.pc # "idle" /\ UNCHANGED cr /\ clients' \subseteq clients
    BY <1>2 DEF Discover, VetRename, ReadOldSecret, DeleteOldSecret, VetTarget,
       BurnOrphan, GetClient, ReadSecret, BurnClient, VerifyEdit, SyncSecret,
       Deregister, SweepOne, DeleteClient, Without, GiveUp, Failed, registry
  <2>2. LateKept
    BY <1>2 DEF Discover, VetRename, ReadOldSecret, DeleteOldSecret, VetTarget,
       BurnOrphan, GetClient, ReadSecret, BurnClient, VerifyEdit, SyncSecret,
       Deregister, SweepOne, DeleteClient, Failed, LateKept, registry
  <2>3. LateOwn'
    BY <2>1, <2>2, LateOwnKept
  <2> QED
    BY <1>2, <2>1, <2>3, StepsKeepHand, OwnKept
<1> QED
  BY <1>1, <1>2, StartOwn, ListOwn, RegisterOwn, WriteSecretOwn, EditOwn DEF WorkerStep

\* What others do to CRs gives no object an id, and what they do to the
\* registry gives no registration another owner.
LEMMA OthersKeepOwn ==
    ASSUME TypeInv, OwnInv,
           \/ UserStep \/ WatchStep \/ SecretStep \/ TsidpStep \/ Restart
           \/ \E n \in SecretName : CollectGarbage(n)
    PROVE  OwnInv'
<1>1. \A u \in CR : cr[u] \in Histories(Object)
  BY DEF TypeInv, KubeType
<1>2. \A c \in clients : c.id # 0
  BY DEF TypeInv, RegistryType, Registration
<1>3. CASE UserStep
  <2>1. PICK u \in CR : CreateCR(u) \/ EditSpec(u) \/ DeleteCR(u) \/ ForceRemove(u)
    BY <1>3 DEF UserStep
  <2>2. PICK v \in Object : Change(u, v) /\ v.id \in {0, Stored(cr[u]).id}
    <3> DEFINE o == Stored(cr[u])
    <3>1. o \in Object
      BY <1>1, HistoryOps
    <3>2. CASE CreateCR(u)
      <4>1. PICK s \in Specs :
               Change(u, [Blank EXCEPT !.phase = "live", !.spec = s, !.gen = 1])
        BY <3>2 DEF CreateCR
      <4>2. [Blank EXCEPT !.phase = "live", !.spec = s, !.gen = 1] \in Object
        BY BlankType DEF Object
      <4>3. [Blank EXCEPT !.phase = "live", !.spec = s, !.gen = 1].id = 0
        BY DEF Blank
      <4> QED
        BY <4>1, <4>2, <4>3
    <3>3. CASE EditSpec(u)
      <4>1. PICK s \in Specs : Change(u, [o EXCEPT !.spec = s, !.gen = @ + 1])
        BY <3>3 DEF EditSpec
      <4>2. o.gen + 1 \in Nat
        BY <3>1 DEF Object
      <4>3. /\ [o EXCEPT !.spec = s, !.gen = @ + 1] \in Object
            /\ [o EXCEPT !.spec = s, !.gen = @ + 1].id = o.id
        BY <3>1, <4>2 DEF Object
      <4> QED
        BY <4>1, <4>3
    <3>4. CASE DeleteCR(u) \/ ForceRemove(u)
      <4>1. \A p \in {"deleting", "gone"} : /\ [o EXCEPT !.phase = p] \in Object
                                            /\ [o EXCEPT !.phase = p].id = o.id
        BY <3>1 DEF Object
      <4>2. [o EXCEPT !.force = TRUE] \in Object /\ [o EXCEPT !.force = TRUE].id = o.id
        BY <3>1 DEF Object
      <4> QED
        BY <3>4, <4>1, <4>2 DEF DeleteCR, ForceRemove
    <3> QED
      BY <2>1, <3>2, <3>3, <3>4
  <2>3. UNCHANGED <<clients, late>>
    BY <2>1 DEF CreateCR, EditSpec, DeleteCR, ForceRemove, registry
  <2>4. /\ w'.pc = w.pc /\ w'.cur = w.cur /\ w'.oc = w.oc
        /\ w'.doomed = w.doomed /\ w'.creds = w.creds
    BY <2>2 DEF Change, Outdate, TypeInv, WorkerType, Worker
  <2>5. ASSUME NEW t \in CR, NEW c \in clients, Carries(cr'[t], c.id)
        PROVE  c.by = t
    <3>1. cr'[t] = IF t = u THEN Push(cr[u], v) ELSE cr[t]
      BY <2>2 DEF Change, Put, TypeInv, KubeType
    <3>2. Carries(cr[t], c.id)
      <4>1. CASE t = u
        <5>1. v.id = c.id \/ Carries(cr[u], c.id)
          BY <1>1, <2>2, <2>5, <3>1, <4>1, CarriesOps
        <5>2. v.id = c.id => Carries(cr[u], c.id)
          BY <1>1, <1>2, <2>2, CarriesOps
        <5> QED
          BY <4>1, <5>1, <5>2
      <4> QED
        BY <2>5, <3>1, <4>1
    <3> QED
      BY <3>2 DEF OwnInv, StatusesOwn
  <2>6. StatusesOwn'
    BY <2>3, <2>5 DEF StatusesOwn
  <2> QED
    BY <2>3, <2>4, <2>6 DEF OwnInv, IdsUnique, FingerprintsOwn, HandOwn, LateOwn
<1>4. CASE WatchStep
  <2>1. UNCHANGED <<clients, late, w>>
    BY <1>4 DEF WatchStep, DeliverCR, DeliverSecret, registry
  <2>2. \A u \in CR : \A id : Carries(cr'[u], id) => Carries(cr[u], id)
    <3>1. CASE UNCHANGED cr
      BY <3>1
    <3>2. ASSUME NEW u \in CR, DeliverCR(u)
          PROVE  \A t \in CR : cr'[t] = cr[t] \/ (CanDeliver(cr[t]) /\ cr'[t] = DeliverNext(cr[t]))
      BY <3>2 DEF DeliverCR, TypeInv, KubeType
    <3>3. \/ UNCHANGED cr
          \/ \A t \in CR : cr'[t] = cr[t] \/ (CanDeliver(cr[t]) /\ cr'[t] = DeliverNext(cr[t]))
      BY <1>4, <3>2 DEF WatchStep, DeliverSecret
    <3> QED
      BY <1>1, <3>1, <3>3, CarriesOps
  <2> QED
    BY <2>1, <2>2 DEF OwnInv, IdsUnique, FingerprintsOwn, StatusesOwn, HandOwn, LateOwn
<1>5. CASE SecretStep \/ \E n \in SecretName : CollectGarbage(n)
  <2>1. /\ UNCHANGED <<cr, clients, late>> /\ w'.pc = w.pc /\ w'.cur = w.cur /\ w'.oc = w.oc
        /\ w'.doomed = w.doomed /\ w'.creds = w.creds
    BY <1>5 DEF SecretStep, DeleteSecret, Squat, Scrub, Unlabel, CollectGarbage,
       Tamper, registry, TypeInv, WorkerType, Worker
  <2> QED
    BY <2>1 DEF OwnInv, IdsUnique, FingerprintsOwn, StatusesOwn, HandOwn, LateOwn
<1>6. CASE Restart
  <2>1. UNCHANGED <<clients, late>> /\ w'.pc = "idle" /\ \A u \in CR : cr'[u] = Relist(cr[u])
    BY <1>6 DEF Restart, Idle, Job, registry
  <2>2. \A u \in CR : \A id : Carries(cr'[u], id) => Carries(cr[u], id)
    BY <1>1, <2>1, CarriesOps
  <2> QED
    BY <2>1, <2>2 DEF OwnInv, IdsUnique, FingerprintsOwn, StatusesOwn, HandOwn, LateOwn
<1>7. CASE TsidpStep
  <2>1. CASE LoseState
    BY <2>1 DEF LoseState, OwnInv, IdsUnique, FingerprintsOwn, StatusesOwn, HandOwn, LateOwn
  <2>2. ASSUME NEW r \in late, LateAnswer(r)
        PROVE  OwnInv'
    <3>1. late' = late \ {r} /\ UNCHANGED <<cr, w>>
      BY <2>2 DEF LateAnswer
    <3>2. CASE r.op = "register"
      <4>1. /\ NewId # w.oc.id /\ NewId # w.creds /\ NewId \notin w.doomed
            /\ \A c \in clients : c.id # NewId
            /\ \A q \in late : q.id # NewId
            /\ \A u \in CR : ~Carries(cr[u], NewId)
        BY <2>2, <3>2, NewIdFresh DEF LateAnswer
      <4>2. clients' = clients \cup {[id |-> NewId, fp |-> r.fp, by |-> r.fp, cfg |-> r.cfg]}
        BY <2>2, <3>2 DEF LateAnswer, Registered
      <4> QED
        BY <3>1, <4>1, <4>2
        DEF OwnInv, IdsUnique, FingerprintsOwn, StatusesOwn, HandOwn, LateOwn
    <3>3. CASE clients' \subseteq clients
      BY <3>1, <3>3
      DEF OwnInv, IdsUnique, FingerprintsOwn, StatusesOwn, HandOwn, LateOwn
    <3>4. CASE r.op = "edit" /\ clients' = Renamed(clients, r.id, r.fp, r.cfg)
      <4>1. \A c \in clients : c.id = r.id => r.fp \in {None, c.by}
        BY <3>4 DEF OwnInv, LateOwn
      <4>2. /\ IdsUnique' /\ FingerprintsOwn'
            /\ \A d \in clients' : \E e \in clients : d.id = e.id /\ d.by = e.by
        BY <3>4, <4>1, RenamedOwn
      <4> QED
        BY <3>1, <4>2 DEF OwnInv, StatusesOwn, HandOwn, LateOwn
    <3> QED
      BY <2>2, <3>2, <3>3, <3>4 DEF LateAnswer, Without, Edited
  <2>3. CASE AdminEdit
    <3>1. PICK c \in clients : \E fp \in {c.fp, None} : \E cfg :
             clients' = Renamed(clients, c.id, fp, cfg)
      BY <2>3 DEF AdminEdit
    <3>2. \A fp \in {c.fp, None} : \A d \in clients : d.id = c.id => fp \in {None, d.by}
      BY DEF OwnInv, IdsUnique, FingerprintsOwn
    <3>3. /\ IdsUnique' /\ FingerprintsOwn'
          /\ \A d \in clients' : \E e \in clients : d.id = e.id /\ d.by = e.by
      BY <3>1, <3>2, RenamedOwn
    <3>4. UNCHANGED <<cr, w, late>>
      BY <2>3 DEF AdminEdit
    <3> QED
      BY <3>3, <3>4 DEF OwnInv, StatusesOwn, HandOwn, LateOwn
  <2> QED
    BY <1>7, <2>1, <2>2, <2>3 DEF TsidpStep
<1> QED
  BY <1>3, <1>4, <1>5, <1>6, <1>7

\* Every step of anybody keeps ids and fingerprints with their CR.
LEMMA OwnNext == TypeInv /\ OwnInv /\ [Next]_vars => OwnInv'
<1>1. OwnInv /\ (UNCHANGED vars \/ Quiescent) => OwnInv'
  BY DEF vars, Quiescent, OwnInv, IdsUnique, FingerprintsOwn, StatusesOwn, HandOwn, LateOwn
<1> QED
  BY <1>1, WorkerKeepsOwn, OthersKeepOwn DEF Next

\* The application registered at the start belongs to no CR.
LEMMA OwnInit == Init => OwnInv
<1> SUFFICES ASSUME Init PROVE OwnInv
  OBVIOUS
<1>1. \A u \in CR : \A id : Carries(cr[u], id) => id = 0
  <2>1. \A u \in CR : cr[u] = <<Blank>>
    BY DEF Init
  <2>2. \A i \in DOMAIN <<Blank>> : <<Blank>>[i] = Blank
    OBVIOUS
  <2>3. Blank.id = 0
    BY DEF Blank
  <2> QED
    BY <2>1, <2>2, <2>3 DEF Carries
<1>2. \A c \in clients : c.id # 0
  BY DEF Init
<1> QED
  BY <1>1, <1>2 DEF Init, Idle, Job, OwnInv, IdsUnique, FingerprintsOwn, StatusesOwn, HandOwn, LateOwn

\* The steps of the worker that change nothing in tsidp.
LEMMA QuietSteps ==
    ASSUME \/ \E u \in CR : StartReconcile(u)
           \/ AddFinalizer \/ UpdateStatus \/ RemoveFinalizer
           \/ Discover \/ VetRename \/ ReadOldSecret \/ DeleteOldSecret
           \/ VetTarget \/ ListClients \/ WriteSecret \/ GetClient \/ ReadSecret
           \/ VerifyEdit \/ SyncSecret \/ ListForCleanup
    PROVE  UNCHANGED registry
BY DEF StartReconcile, AddFinalizer, UpdateStatus, RemoveFinalizer,
   Discover, VetRename, ReadOldSecret, DeleteOldSecret, VetTarget, ListClients,
   WriteSecret, GetClient, ReadSecret, VerifyEdit, SyncSecret, ListForCleanup,
   Failed

\* Whatever is lost, late, stale or edited in between: a registration that
\* the operator removes or replaces was made for the CR of the reconcile.
THEOREM OwnRegistrations == Spec => OnlyOwnRegistrationsDeleted
<1> DEFINE Own ==
             /\ WorkerMoves => \A c \in clients : c.by # w.cur => c \in clients'
             /\ \A r \in late : r \notin late' =>
                  \A c \in clients : c.by # r.fp => c \in clients'
<1>1. ASSUME TypeInv, OwnInv, [Next]_vars, WorkerMoves,
             NEW c \in clients, c.by # w.cur
      PROVE  c \in clients'
  <2>1. CASE BurnOrphan \/ BurnClient \/ Deregister \/ SweepOne
    <3>1. c.id # w.oc.id /\ c.id \notin w.doomed
      BY <1>1, <2>1 DEF OwnInv, HandOwn, BurnOrphan, BurnClient, Deregister, SweepOne
    <3> QED
      BY <2>1, <3>1 DEF BurnOrphan, BurnClient, Deregister, SweepOne, DeleteClient,
         GiveUp, Without
  <2>2. CASE EditClient
    <3>1. c.id # w.oc.id
      BY <1>1, <2>2 DEF OwnInv, HandOwn, EditClient
    <3> QED
      BY <2>2, <3>1 DEF EditClient, GiveUp, Edited, Renamed, registry
  <2>3. CASE Register
    BY <2>3 DEF Register, GiveUp, Registered
  <2>4. CASE UNCHANGED registry
    BY <2>4 DEF registry
  <2>5. CASE WorkerStep
    BY <2>1, <2>2, <2>3, <2>4, <2>5, QuietSteps DEF WorkerStep
  <2>6. w'.pc # w.pc \/ w'.doomed # w.doomed
    BY <1>1 DEF WorkerMoves
  <2>7. CASE UserStep \/ WatchStep \/ SecretStep \/ Restart
             \/ \E m \in SecretName : CollectGarbage(m)
    BY <2>7 DEF UserStep, CreateCR, EditSpec, DeleteCR, ForceRemove, WatchStep,
       DeliverCR, DeliverSecret, SecretStep, DeleteSecret, Squat, Scrub, Unlabel,
       CollectGarbage, Tamper, Restart, registry
  <2>8. CASE TsidpStep \/ UNCHANGED vars \/ Quiescent
    BY <2>6, <2>8 DEF TsidpStep, LateAnswer, LoseState, AdminEdit, Quiescent, vars
  <2> QED
    BY <1>1, <2>5, <2>7, <2>8 DEF Next
<1>2. ASSUME TypeInv, OwnInv, [Next]_vars, NEW r \in late, r \notin late',
             NEW c \in clients, c.by # r.fp
      PROVE  c \in clients'
  <2>1. late \subseteq late' \/ \E q \in late : LateAnswer(q)
    <3>1. CASE BurnOrphan \/ BurnClient \/ Deregister \/ SweepOne \/ Register \/ EditClient
      BY <3>1 DEF BurnOrphan, BurnClient, Deregister, SweepOne, Register, EditClient,
         DeleteClient, GiveUp, registry
    <3>2. CASE WorkerStep /\ UNCHANGED registry
      BY <3>2 DEF registry
    <3>3. CASE UserStep \/ WatchStep \/ SecretStep \/ Restart
               \/ \E m \in SecretName : CollectGarbage(m)
      BY <3>3 DEF UserStep, CreateCR, EditSpec, DeleteCR, ForceRemove, WatchStep,
         DeliverCR, DeliverSecret, SecretStep, DeleteSecret, Squat, Scrub, Unlabel,
         CollectGarbage, Tamper, Restart, registry
    <3>4. CASE TsidpStep \/ UNCHANGED vars \/ Quiescent
      BY <3>4 DEF TsidpStep, LoseState, AdminEdit, Quiescent, vars
    <3> QED
      BY <1>2, <3>1, <3>2, <3>3, <3>4, QuietSteps DEF Next, WorkerStep
  <2>2. LateAnswer(r)
    BY <1>2, <2>1 DEF LateAnswer
  <2>3. r.op # "register" => c.id # r.id
    BY <1>2 DEF OwnInv, LateOwn
  <2> QED
    BY <1>2, <2>2, <2>3 DEF LateAnswer, Registered, Without, Edited, Renamed
<1>3. TypeInv /\ OwnInv /\ [Next]_vars => [Own]_vars
  BY <1>1, <1>2
<1> QED
  BY <1>3, TypeInit, TypeNext, OwnInit, OwnNext, PTL DEF Spec, OnlyOwnRegistrationsDeleted

-----------------------------------------------------------------------------
(* One registration.                                                       *)

\* A registration is made only where the listing showed none, and nothing
\* makes one between the listing and the request.
LEMMA OneNext ==
    ASSUME "late" \notin Faults, "adminEdit" \notin Faults,
           TypeInv, OwnInv, OneInv, [Next]_vars
    PROVE  OneInv'
<1>0. \A op, id : ~GiveUp(op, id)
  BY DEF GiveUp, Fault
<1>1. CASE clients' \subseteq clients /\ UNCHANGED late /\ w'.pc # "register"
  BY <1>1 DEF OneInv, AtMostOneRegistration
<1>2. CASE clients' \subseteq clients /\ UNCHANGED late /\ w'.pc = w.pc /\ w'.cur = w.cur
  BY <1>2 DEF OneInv, AtMostOneRegistration, Fingerprinted
<1>3. CASE \/ \E u \in CR : StartReconcile(u)
           \/ AddFinalizer \/ UpdateStatus \/ RemoveFinalizer
           \/ Discover \/ VetRename \/ ReadOldSecret \/ DeleteOldSecret \/ VetTarget
           \/ BurnOrphan \/ GetClient \/ ReadSecret \/ BurnClient \/ VerifyEdit
           \/ WriteSecret \/ SyncSecret \/ Deregister \/ SweepOne \/ ListForCleanup
  <2>1. clients' \subseteq clients /\ UNCHANGED late
    BY <1>3, <1>0 DEF StartReconcile, AddFinalizer, UpdateStatus, RemoveFinalizer,
       Discover, VetRename, ReadOldSecret, DeleteOldSecret, VetTarget, BurnOrphan,
       GetClient, ReadSecret, BurnClient, VerifyEdit, WriteSecret, SyncSecret,
       Deregister, SweepOne, ListForCleanup, DeleteClient, Without, Failed, registry
  <2>2. CASE \E u \in CR : StartReconcile(u)
    BY <1>1, <2>1, <2>2 DEF StartReconcile, Begin, BeginDelete, Job
  <2>3. CASE AddFinalizer \/ UpdateStatus \/ RemoveFinalizer
    BY <1>1, <2>1, <2>3 DEF AddFinalizer, UpdateStatus, RemoveFinalizer, Retry,
       Idle, Begin, Job
  <2>4. CASE Discover \/ VetRename \/ ReadOldSecret \/ DeleteOldSecret \/ VetTarget
    BY <1>1, <2>1, <2>4 DEF Discover, VetRename, ReadOldSecret, DeleteOldSecret,
       VetTarget, Failed, Fail, Go, AfterRename, At, Job
  <2>5. CASE \/ BurnOrphan \/ GetClient \/ ReadSecret \/ BurnClient \/ VerifyEdit
             \/ WriteSecret \/ SyncSecret
    BY <1>1, <2>1, <2>5 DEF BurnOrphan, GetClient, ReadSecret, BurnClient,
       VerifyEdit, WriteSecret, SyncSecret, DeleteClient, Upsert, OnDrift, Failed,
       Fail, Go, At, Job
  <2>6. CASE Deregister \/ SweepOne \/ ListForCleanup
    BY <1>1, <2>1, <2>6 DEF Deregister, SweepOne, ListForCleanup, SweepOn,
       DeleteClient, Retry, Idle, Go, At, Job
  <2> QED
    BY <1>3, <2>2, <2>3, <2>4, <2>5, <2>6
<1>4. CASE ListClients
  <2>1. UNCHANGED <<clients, late>>
    BY <1>4 DEF ListClients, Failed, registry
  <2>2. \/ w'.pc # "register"
        \/ Fingerprinted(clients, w.cur) = {} /\ w'.cur = w.cur
    BY <1>4 DEF ListClients, Failed, Fail, Go, At, Job
  <2> QED
    BY <2>1, <2>2 DEF OneInv, AtMostOneRegistration, Fingerprinted
<1>5. CASE Register
  <2>1. clients' \in {clients, clients \cup {[id |-> NewId, fp |-> w.cur, by |-> w.cur,
                                              cfg |-> w.oc.spec.cfg]}}
        /\ UNCHANGED late
    BY <1>0, <1>5 DEF Register, Registered
  <2>2. w'.pc # "register"
    BY <1>5 DEF Register, Fail, Go, At, Job
  <2>3. \A c \in clients : c.fp # w.cur
    BY <1>5 DEF Register, OneInv, Fingerprinted
  <2> QED
    BY <2>1, <2>2, <2>3 DEF OneInv, AtMostOneRegistration
<1>6. CASE EditClient
  <2>1. \A c \in clients : c.id = w.oc.id => c.fp = w.cur
    BY <1>6 DEF OneInv, OwnInv, HandOwn, EditClient
  <2>2. \A d \in Renamed(clients, w.oc.id, w.cur, w.oc.spec.cfg) :
          \E c \in clients : d.fp = c.fp /\ d.by = c.by /\ d.id = c.id
    BY <2>1 DEF Renamed, TypeInv, RegistryType, Registration
  <2>3. \A d \in clients' :
          \E c \in clients : d.fp = c.fp /\ d.by = c.by /\ d.id = c.id
    BY <1>0, <1>6, <2>2 DEF EditClient, Edited, registry
  <2>4. IdsUnique'
    <3>1. OwnInv'
      BY <1>6, EditOwn
    <3> QED
      BY <3>1 DEF OwnInv
  <2>5. AtMostOneRegistration'
    BY <2>3, <2>4 DEF OneInv, AtMostOneRegistration, IdsUnique
  <2>6. UNCHANGED late /\ w'.pc # "register"
    BY <1>0, <1>6 DEF EditClient, Fail, Go, At, Job, registry
  <2> QED
    BY <2>3, <2>5, <2>6 DEF OneInv
<1>7. CASE UserStep \/ SecretStep \/ \E n \in SecretName : CollectGarbage(n)
  BY <1>2, <1>7 DEF UserStep, CreateCR, EditSpec, DeleteCR, ForceRemove, Change,
     Outdate, SecretStep, DeleteSecret, Squat, Scrub, Unlabel, CollectGarbage,
     Tamper, registry, TypeInv, WorkerType, Worker
<1>8. CASE WatchStep \/ UNCHANGED vars \/ Quiescent
  BY <1>2, <1>8 DEF WatchStep, DeliverCR, DeliverSecret, vars, Quiescent, registry
<1>9. CASE Restart
  BY <1>1, <1>9 DEF Restart, Idle, Job, registry
<1>10. CASE TsidpStep
  <2>1. ~AdminEdit /\ ~\E r \in late : LateAnswer(r)
    BY DEF AdminEdit, Fault, OneInv
  <2>2. LoseState
    BY <1>10, <2>1 DEF TsidpStep
  <2> QED
    BY <1>2, <2>2 DEF LoseState
<1> QED
  BY <1>3, <1>4, <1>5, <1>6, <1>7, <1>8, <1>9, <1>10 DEF Next, WorkerStep

\* Nothing is registered twice before anything runs.
LEMMA OneInit == Init => OneInv
BY DEF Init, Idle, Job, OneInv, AtMostOneRegistration

\* When no request that the operator gave up on takes effect later, and
\* nobody edits registrations in tsidp, no CR ever has two: not after a lost
\* response, a crash between the registration and the Secret, a conflict on
\* the status or a read of a stale one.
THEOREM OneRegistration ==
    ASSUME "late" \notin Faults, "adminEdit" \notin Faults
    PROVE  Spec => []AtMostOneRegistration
<1>1. OneInv => AtMostOneRegistration
  BY DEF OneInv
<1>2. TypeInv /\ OwnInv /\ OneInv /\ [Next]_vars => OneInv'
  BY OneNext
<1> QED
  BY <1>1, <1>2, OneInit, TypeInit, TypeNext, OwnInit, OwnNext, PTL DEF Spec
=============================================================================
