--------------------------- MODULE OIDCClientLedger ---------------------------
(***************************************************************************)
(* The system implements CredentialLedger, for every value of the          *)
(* constants: every step of anybody is one that the ledger allows, or      *)
(* leaves it as it is.                                                     *)
(***************************************************************************)
EXTENDS OIDCClientDeletion

\* Nobody forces a CR out, and one without the finalizer has no id.
CRsUnforced ==
    \A u \in CR : /\ ~Obj(u).force
                  /\ ~Obj(u).fin /\ Obj(u).phase # "gone" => Obj(u).id = 0

\* No Secret, no credentials: in the store and in the caches.
NoStrayCreds ==
    \A n \in SecretName : \A s \in Versions(secrets[n]) : s.exists \/ s.creds = 0

\* What a pass j has in hand: o is its CR as it is stored, R the registry.
InStep(j, o, R) ==
    /\ ~j.oc.force
    /\ j.fresh => j.oc.spec = o.spec
    /\ \/ j.oc.id = o.id \/ o.id = 0
       \/ j.pc = "status" /\ j.oc.id = 0 /\ ~Live(R, o.id)
    /\ j.pc = "burnOrphan" =>
         \A id \in j.doomed : \A c \in R : c.fp = j.cur => c.id = id

\* No Secret has the credentials of id, nor is one about to in a cache.
Unpublished(id) ==
    /\ id # 0
    /\ \A n \in SecretName : \A s \in Versions(secrets[n]) : s.creds # id

\* What the worker has in hand between two steps.
HandInv ==
    /\ w.pc = "idle" => w.cur = None
    /\ w.pc # "idle" => InStep(w, Obj(w.cur), clients)
    /\ w.pc = "writeSecret" => Unpublished(w.creds)

LedgerInv == CRsUnforced /\ NoStrayCreds /\ HandInv
-----------------------------------------------------------------------------
(* The steps of the ledger, one CR at a time.                              *)

\* What the ledger has for the CR v is as it was.
SameEntry(v) ==
    /\ LiveIds'[v] = LiveIds[v] /\ PublishedIds'[v] = PublishedIds[v]
    /\ RecordedId'[v] = RecordedId[v] /\ InHandId'[v] = InHandId[v]
    /\ KnownId'[v] = KnownId[v]
    /\ Orphaning'[v] = Orphaning[v] /\ Left'[v] = Left[v]

\* What it has for every other CR than u is.
OnlyEntry(u) == \A v \in CR \ {u} : SameEntry(v)

\* The ledger's variables have a value for every CR.
LEMMA Entries ==
    /\ LiveIds = [v \in CR |-> LiveIds[v]] /\ LiveIds' = [v \in CR |-> LiveIds'[v]]
    /\ PublishedIds = [v \in CR |-> PublishedIds[v]]
    /\ PublishedIds' = [v \in CR |-> PublishedIds'[v]]
    /\ RecordedId = [v \in CR |-> RecordedId[v]]
    /\ RecordedId' = [v \in CR |-> RecordedId'[v]]
    /\ InHandId = [v \in CR |-> InHandId[v]] /\ InHandId' = [v \in CR |-> InHandId'[v]]
    /\ KnownId = [v \in CR |-> KnownId[v]] /\ KnownId' = [v \in CR |-> KnownId'[v]]
    /\ Orphaning = [v \in CR |-> Orphaning[v]]
    /\ Orphaning' = [v \in CR |-> Orphaning'[v]]
    /\ Left = [v \in CR |-> Left[v]] /\ Left' = [v \in CR |-> Left'[v]]
BY DEF LiveIds, PublishedIds, RecordedId, InHandId, KnownId, Orphaning, Left

\* A variable of which nothing changes but for u, and what it becomes for u.
LEMMA OneEntry ==
    ASSUME NEW f, NEW g, NEW u \in CR, NEW x,
           f = [v \in CR |-> f[v]], g = [v \in CR |-> g[v]],
           \A v \in CR \ {u} : g[v] = f[v], g[u] = x
    PROVE  /\ g = [f EXCEPT ![u] = x]
           /\ x = f[u] => g = f
<1>1. \A v \in CR : g[v] = [f EXCEPT ![u] = x][v]
  OBVIOUS
<1>2. [f EXCEPT ![u] = x] = [v \in CR |-> [f EXCEPT ![u] = x][v]]
  OBVIOUS
<1>3. g = [f EXCEPT ![u] = x]
  BY <1>1, <1>2
<1>4. ASSUME x = f[u] PROVE g = f
  <2>1. \A v \in CR : g[v] = f[v]
    BY <1>4
  <2> QED
    BY <2>1
<1> QED
  BY <1>3, <1>4

\* Nothing changes for any CR.
LEMMA Stutters ==
    ASSUME \A v \in CR : SameEntry(v)
    PROVE  UNCHANGED Ledger!vars
<1>1. /\ \A v \in CR : LiveIds'[v] = LiveIds[v]
      /\ \A v \in CR : PublishedIds'[v] = PublishedIds[v]
      /\ \A v \in CR : RecordedId'[v] = RecordedId[v]
      /\ \A v \in CR : InHandId'[v] = InHandId[v]
      /\ \A v \in CR : KnownId'[v] = KnownId[v]
      /\ \A v \in CR : Orphaning'[v] = Orphaning[v]
      /\ \A v \in CR : Left'[v] = Left[v]
  BY DEF SameEntry
<1>2. LiveIds' = LiveIds /\ PublishedIds' = PublishedIds
  BY <1>1, Entries
<1>3. RecordedId' = RecordedId /\ InHandId' = InHandId /\ KnownId' = KnownId
  BY <1>1, Entries
<1>4. Orphaning' = Orphaning /\ Left' = Left
  BY <1>1, Entries
<1> QED
  BY <1>2, <1>3, <1>4 DEF Ledger!vars

\* When only the entry of u changes, each variable is what it becomes for u.
LEMMA Becomes ==
    ASSUME NEW u \in CR, OnlyEntry(u)
    PROVE  /\ LiveIds' = [LiveIds EXCEPT ![u] = LiveIds'[u]]
           /\ PublishedIds' = [PublishedIds EXCEPT ![u] = PublishedIds'[u]]
           /\ RecordedId' = [RecordedId EXCEPT ![u] = RecordedId'[u]]
           /\ InHandId' = [InHandId EXCEPT ![u] = InHandId'[u]]
           /\ KnownId' = [KnownId EXCEPT ![u] = KnownId'[u]]
           /\ Orphaning' = [Orphaning EXCEPT ![u] = Orphaning'[u]]
           /\ Left' = [Left EXCEPT ![u] = Left'[u]]
           /\ LiveIds'[u] = LiveIds[u] => UNCHANGED LiveIds
           /\ PublishedIds'[u] = PublishedIds[u] => UNCHANGED PublishedIds
           /\ RecordedId'[u] = RecordedId[u] => UNCHANGED RecordedId
           /\ InHandId'[u] = InHandId[u] => UNCHANGED InHandId
           /\ KnownId'[u] = KnownId[u] => UNCHANGED KnownId
           /\ Orphaning'[u] = Orphaning[u] => UNCHANGED Orphaning
           /\ Left'[u] = Left[u] => UNCHANGED Left
<1>1. \A v \in CR \ {u} :
        /\ LiveIds'[v] = LiveIds[v] /\ PublishedIds'[v] = PublishedIds[v]
        /\ RecordedId'[v] = RecordedId[v] /\ InHandId'[v] = InHandId[v]
        /\ KnownId'[v] = KnownId[v]
        /\ Orphaning'[v] = Orphaning[v] /\ Left'[v] = Left[v]
  BY DEF OnlyEntry, SameEntry
<1>2. /\ LiveIds' = [LiveIds EXCEPT ![u] = LiveIds'[u]]
      /\ LiveIds'[u] = LiveIds[u] => UNCHANGED LiveIds
  BY <1>1, Entries, OneEntry
<1>3. /\ PublishedIds' = [PublishedIds EXCEPT ![u] = PublishedIds'[u]]
      /\ PublishedIds'[u] = PublishedIds[u] => UNCHANGED PublishedIds
  BY <1>1, Entries, OneEntry
<1>4. /\ RecordedId' = [RecordedId EXCEPT ![u] = RecordedId'[u]]
      /\ RecordedId'[u] = RecordedId[u] => UNCHANGED RecordedId
  BY <1>1, Entries, OneEntry
<1>5. /\ InHandId' = [InHandId EXCEPT ![u] = InHandId'[u]]
      /\ InHandId'[u] = InHandId[u] => UNCHANGED InHandId
  BY <1>1, Entries, OneEntry
<1>6. /\ KnownId' = [KnownId EXCEPT ![u] = KnownId'[u]]
      /\ KnownId'[u] = KnownId[u] => UNCHANGED KnownId
  BY <1>1, Entries, OneEntry
<1>7. /\ Orphaning' = [Orphaning EXCEPT ![u] = Orphaning'[u]]
      /\ Orphaning'[u] = Orphaning[u] => UNCHANGED Orphaning
  BY <1>1, Entries, OneEntry
<1>8. /\ Left' = [Left EXCEPT ![u] = Left'[u]]
      /\ Left'[u] = Left[u] => UNCHANGED Left
  BY <1>1, Entries, OneEntry
<1> QED
  BY <1>2, <1>3, <1>4, <1>5, <1>6, <1>7, <1>8

\* The registry, the Secrets, what a status says, what the worker holds, what
\* users decided: the parts of an entry that a step leaves alone.
SameLive(u) == LiveIds'[u] = LiveIds[u]
SamePublished(u) == PublishedIds'[u] = PublishedIds[u]
SameCR(u) == /\ RecordedId'[u] = RecordedId[u]
             /\ Orphaning'[u] = Orphaning[u] /\ Left'[u] = Left[u]
SameHand(u) == InHandId'[u] = InHandId[u] /\ KnownId'[u] = KnownId[u]

\* Then the step is none to the ledger.
LEMMA StutterStep ==
    ASSUME NEW u \in CR, OnlyEntry(u), SameLive(u), SamePublished(u), SameCR(u),
           SameHand(u)
    PROVE  UNCHANGED Ledger!vars
BY Becomes DEF SameLive, SamePublished, SameCR, SameHand, Ledger!vars

\* Register, with its answer or without.
LEMMA IssueStep ==
    ASSUME NEW u \in CR, OnlyEntry(u), SamePublished(u), SameCR(u),
           NEW id \in 1..MaxId, LiveIds[u] = {}, ~Left[u], Ledger!Unused(id),
           LiveIds'[u] = {id}, InHandId'[u] \in {InHandId[u], id},
           KnownId'[u] = KnownId[u]
    PROVE  Ledger!Next
<1>1. Ledger!Issue(u, id)
  BY Becomes DEF SamePublished, SameCR, Ledger!Issue
<1> QED
  BY <1>1 DEF Ledger!Next

\* A Secret is written with the credentials in hand.
LEMMA PublishStep ==
    ASSUME NEW u \in CR, OnlyEntry(u), SameLive(u), SameCR(u),
           InHandId[u] # 0, InHandId'[u] = 0, KnownId'[u] \in {KnownId[u], InHandId[u]},
           NEW kept \in SUBSET PublishedIds[u],
           PublishedIds'[u] = kept \cup {InHandId[u]}
    PROVE  Ledger!Next
<1>1. Ledger!Publish(u)
  BY Becomes DEF SameLive, SameCR, Ledger!Publish
<1> QED
  BY <1>1 DEF Ledger!Next

\* A pass begins, or vets its Secret.
LEMMA LookStep ==
    ASSUME NEW u \in CR, OnlyEntry(u), SameLive(u), SamePublished(u), SameCR(u),
           InHandId'[u] = InHandId[u],
           KnownId'[u] \in PublishedIds[u] \cup {RecordedId[u]}
    PROVE  Ledger!Next
<1>1. Ledger!Look(u)
  BY Becomes DEF SameLive, SamePublished, SameCR, Ledger!Look
<1> QED
  BY <1>1 DEF Ledger!Next

\* A pass ends, or gives up what it had in hand.
LEMMA DropStep ==
    ASSUME NEW u \in CR, OnlyEntry(u), SameLive(u), SamePublished(u), SameCR(u),
           InHandId'[u] = 0, KnownId'[u] = 0
    PROVE  Ledger!Next
<1>1. Ledger!Drop(u)
  BY Becomes DEF SameLive, SamePublished, SameCR, Ledger!Drop
<1> QED
  BY <1>1 DEF Ledger!Next

\* A Secret is deleted or scrubbed.
LEMMA WithdrawStep ==
    ASSUME NEW u \in CR, OnlyEntry(u), SameLive(u), SameCR(u), SameHand(u),
           PublishedIds'[u] \subseteq PublishedIds[u]
    PROVE  Ledger!Next
<1>1. Ledger!Withdraw(u)
  BY Becomes DEF SameLive, SameCR, SameHand, Ledger!Withdraw
<1> QED
  BY <1>1 DEF Ledger!Next

\* A status gets an id.
LEMMA RecordStep ==
    ASSUME NEW u \in CR, OnlyEntry(u), SameLive(u), SamePublished(u),
           RecordedId[u] = 0, KnownId[u] # 0, ~Left[u],
           RecordedId'[u] = KnownId[u], KnownId'[u] = 0, InHandId'[u] = InHandId[u],
           Orphaning'[u] = Orphaning[u], Left'[u] = Left[u]
    PROVE  Ledger!Next
<1>1. Ledger!Record(u)
  BY Becomes DEF SameLive, SamePublished, Ledger!Record
<1> QED
  BY <1>1 DEF Ledger!Next

\* A registration is deleted, the only one.
LEMMA RevokeStep ==
    ASSUME NEW u \in CR, OnlyEntry(u), SamePublished(u), SameCR(u),
           LiveIds'[u] = {}, KnownId'[u] \in {KnownId[u], 0}, InHandId'[u] = InHandId[u]
    PROVE  Ledger!Next
<1>1. Ledger!Revoke(u)
  BY Becomes DEF SamePublished, SameCR, Ledger!Revoke
<1> QED
  BY <1>1 DEF Ledger!Next

\* A status loses its id.
LEMMA ForgetStep ==
    ASSUME NEW u \in CR, OnlyEntry(u), SameLive(u), SamePublished(u), SameHand(u),
           RecordedId[u] \notin LiveIds[u], RecordedId'[u] = 0,
           Orphaning'[u] = Orphaning[u], Left'[u] = Left[u]
    PROVE  Ledger!Next
<1>1. Ledger!Forget(u)
  BY Becomes DEF SameLive, SamePublished, SameHand, Ledger!Forget
<1> QED
  BY <1>1 DEF Ledger!Next

\* A user writes a spec, perhaps with the other deletion policy.
LEMMA PolicyStep ==
    ASSUME NEW u \in CR, OnlyEntry(u), SameLive(u), SamePublished(u), SameHand(u),
           ~Left[u], RecordedId'[u] = RecordedId[u], Left'[u] = Left[u]
    PROVE  Ledger!Next \/ UNCHANGED Ledger!vars
<1>1. Orphaning[u] \in BOOLEAN /\ Orphaning'[u] \in BOOLEAN
  BY DEF Orphaning
<1>2. CASE Orphaning'[u] = Orphaning[u]
  BY <1>2, StutterStep DEF SameCR
<1>3. CASE Orphaning'[u] = ~Orphaning[u]
  <2>1. Ledger!ChangePolicy(u)
    BY <1>3, Becomes DEF SameLive, SamePublished, SameHand, Ledger!ChangePolicy
  <2> QED
    BY <2>1 DEF Ledger!Next
<1> QED
  BY <1>1, <1>2, <1>3

\* A CR goes, with its registration or without.
LEMMA LeaveStep ==
    ASSUME NEW u \in CR, OnlyEntry(u), SameLive(u), SamePublished(u),
           InHandId'[u] = InHandId[u], Orphaning'[u] = Orphaning[u],
           ~Left[u], Orphaning[u] \/ LiveIds[u] = {},
           Left'[u] = TRUE, RecordedId'[u] = 0, KnownId'[u] = 0
    PROVE  Ledger!Next
<1>1. Ledger!Leave(u)
  BY Becomes DEF SameLive, SamePublished, Ledger!Leave
<1> QED
  BY <1>1 DEF Ledger!Next

-----------------------------------------------------------------------------
(* What the steps of others do.                                            *)

\* A user writes one CR: not its id, nor its finalizer; without the finalizer
\* it may go.
LEMMA UserWrites ==
    ASSUME "force" \notin Faults, TypeInv, LeakInv, UserStep
    PROVE  \E u \in CR : \E v \in Object :
             /\ Change(u, v) /\ UNCHANGED <<secrets, clients>>
             /\ v.id = Obj(u).id /\ v.fin = Obj(u).fin
             /\ ~Obj(u).force => ~v.force
             /\ Obj(u).phase # "gone"
             /\ v.phase = "gone" => ~v.fin /\ v.spec = Obj(u).spec
<1>1. PICK u \in CR : CreateCR(u) \/ EditSpec(u) \/ DeleteCR(u)
  BY DEF UserStep, ForceRemove, Fault
<1> DEFINE o == Obj(u)
<1>2. o \in Object /\ Kept(u, o, clients)
  BY HistoryOps DEF TypeInv, KubeType, LeakInv, Obj
<1>3. UNCHANGED <<secrets, clients>>
  BY <1>1 DEF CreateCR, EditSpec, DeleteCR, registry
<1>4. CASE CreateCR(u)
  <2>1. PICK s \in Specs :
          /\ o.phase = "none"
          /\ Change(u, [Blank EXCEPT !.phase = "live", !.spec = s, !.gen = 1])
    BY <1>4 DEF CreateCR, Obj
  <2> DEFINE v == [Blank EXCEPT !.phase = "live", !.spec = s, !.gen = 1]
  <2>2. v \in Object /\ v.id = 0 /\ v.phase = "live" /\ ~v.fin /\ ~v.force
    BY BlankType DEF Blank, Object
  <2>3. o.id = 0 /\ ~o.fin
    BY <1>2, <2>1 DEF Kept
  <2>4. v.fin = o.fin
    BY <1>2, <2>2, <2>3 DEF Object
  <2> HIDE DEF v
  <2> QED
    BY <1>3, <2>1, <2>2, <2>3, <2>4 DEF v
<1>5. CASE EditSpec(u)
  <2>1. PICK s \in Specs : /\ o.phase \in {"live", "deleting"}
                           /\ Change(u, [o EXCEPT !.spec = s, !.gen = @ + 1])
    BY <1>5 DEF EditSpec, Obj
  <2> DEFINE v == [o EXCEPT !.spec = s, !.gen = @ + 1]
  <2>2. /\ v \in Object /\ v.id = o.id /\ v.phase = o.phase /\ v.fin = o.fin
        /\ v.force = o.force
    <3>1. o.gen + 1 \in Nat
      BY <1>2 DEF Object
    <3> QED
      BY <1>2, <3>1 DEF Object
  <2> QED
    BY <1>3, <2>1, <2>2
<1>6. CASE DeleteCR(u)
  <2> DEFINE p == IF o.fin THEN "deleting" ELSE "gone"
             v == [o EXCEPT !.phase = p]
  <2>1. o.phase = "live" /\ Change(u, v)
    BY <1>6 DEF DeleteCR, Obj
  <2>2. /\ v \in Object /\ v.id = o.id /\ v.phase = p /\ v.fin = o.fin
        /\ v.spec = o.spec /\ v.force = o.force
    BY <1>2 DEF Object
  <2> HIDE DEF v
  <2> QED
    BY <1>3, <2>1, <2>2
<1> QED
  BY <1>1, <1>4, <1>5, <1>6

\* Others write one Secret: no credentials but those it has, and those with
\* their owner.
LEMMA TamperWrites ==
    ASSUME TypeInv, SecretStep \/ \E n \in SecretName : CollectGarbage(n)
    PROVE  \E n \in SecretName : \E s \in Secret :
             /\ PutSecret(n, s) /\ UNCHANGED <<cr, clients>>
             /\ s.creds # 0 => /\ s.creds = Sec(n).creds /\ s.exists = Sec(n).exists
                               /\ s.owner = Sec(n).owner
<1>1. PICK n \in SecretName :
        DeleteSecret(n) \/ Squat(n) \/ Scrub(n) \/ Unlabel(n) \/ CollectGarbage(n)
  BY DEF SecretStep
<1> DEFINE old == Stored(secrets[n])
<1>2. old \in Secret /\ Sec(n) = old
  BY HistoryOps DEF TypeInv, KubeType, Sec
<1>3. UNCHANGED <<cr, clients>>
  BY <1>1 DEF DeleteSecret, Squat, Scrub, Unlabel, CollectGarbage, Tamper, registry
<1>4. CASE DeleteSecret(n) \/ CollectGarbage(n)
  <2>1. PutSecret(n, NoSecret)
    BY <1>4 DEF DeleteSecret, CollectGarbage, Tamper
  <2> QED
    BY <1>3, <2>1, NoSecretType DEF NoSecret
<1>5. CASE Squat(n)
  <2>1. \A b \in BOOLEAN :
          LET s == [NoSecret EXCEPT !.exists = TRUE, !.managed = b]
          IN s \in Secret /\ s.creds = 0
    BY NoSecretType DEF NoSecret, Secret
  <2> QED
    BY <1>3, <1>5, <2>1 DEF Squat, Tamper
<1>6. CASE Scrub(n)
  <2> DEFINE s == [old EXCEPT !.creds = 0]
  <2>1. s \in Secret /\ s.creds = 0 /\ PutSecret(n, s)
    BY <1>2, <1>6 DEF Scrub, Tamper, Secret
  <2> QED
    BY <1>3, <2>1
<1>7. CASE Unlabel(n)
  <2> DEFINE s == [old EXCEPT !.managed = FALSE]
  <2>1. s \in Secret /\ s.owner = old.owner /\ s.creds = old.creds
        /\ s.exists = old.exists
    BY <1>2 DEF Secret
  <2>2. PutSecret(n, s)
    BY <1>7 DEF Unlabel, Tamper
  <2> QED
    BY <1>2, <1>3, <2>1, <2>2
<1> QED
  BY <1>1, <1>4, <1>5, <1>6, <1>7

\* The watch delivers: what is stored stays, and no version is new.
LEMMA WatchWrites ==
    ASSUME TypeInv, WatchStep
    PROVE  /\ \A u \in CR : Obj(u)' = Obj(u)
           /\ \A n \in SecretName : /\ Sec(n)' = Sec(n)
                                    /\ Versions(secrets'[n]) \subseteq Versions(secrets[n])
           /\ UNCHANGED <<clients, w>>
<1>1. /\ cr \in [CR -> Histories(Object)] /\ secrets \in [SecretName -> Histories(Secret)]
  BY DEF TypeInv, KubeType
<1>2. UNCHANGED <<clients, w>>
  BY DEF WatchStep, DeliverCR, DeliverSecret, registry
<1>3. ASSUME NEW u \in CR, DeliverCR(u)
      PROVE  (\A t \in CR : Obj(t)' = Obj(t)) /\ UNCHANGED secrets
  <2>1. CanDeliver(cr[u]) /\ cr[u] \in Histories(Object)
    BY <1>1, <1>3 DEF DeliverCR
  <2>2. Stored(DeliverNext(cr[u])) = Stored(cr[u])
    BY <2>1, HistoryOps
  <2>3. cr' = [cr EXCEPT ![u] = DeliverNext(@)]
    BY <1>3 DEF DeliverCR
  <2>4. \A t \in CR : Stored(cr'[t]) = Stored(cr[t])
    BY <1>1, <2>2, <2>3
  <2> QED
    BY <1>3, <2>4 DEF Obj, DeliverCR
<1>4. ASSUME NEW n \in SecretName, DeliverSecret(n)
      PROVE  /\ \A m \in SecretName :
                   /\ Sec(m)' = Sec(m)
                   /\ Versions(secrets'[m]) \subseteq Versions(secrets[m])
             /\ UNCHANGED cr
  <2>1. CanDeliver(secrets[n]) /\ secrets[n] \in Histories(Secret)
    BY <1>1, <1>4 DEF DeliverSecret
  <2>2. /\ Stored(DeliverNext(secrets[n])) = Stored(secrets[n])
        /\ Versions(DeliverNext(secrets[n])) \subseteq Versions(secrets[n])
    BY <2>1, HistoryOps, VersionsOps
  <2>3. secrets' = [secrets EXCEPT ![n] = DeliverNext(@)]
    BY <1>4 DEF DeliverSecret
  <2>4. \A m \in SecretName : /\ Stored(secrets'[m]) = Stored(secrets[m])
                              /\ Versions(secrets'[m]) \subseteq Versions(secrets[m])
    BY <1>1, <2>2, <2>3
  <2> QED
    BY <1>4, <2>4 DEF Sec, DeliverSecret
<1>5. UNCHANGED cr => \A u \in CR : Obj(u)' = Obj(u)
  BY DEF Obj
<1>6. UNCHANGED secrets =>
        \A n \in SecretName : /\ Sec(n)' = Sec(n)
                              /\ Versions(secrets'[n]) \subseteq Versions(secrets[n])
  BY DEF Sec
<1> QED
  BY <1>2, <1>3, <1>4, <1>5, <1>6 DEF WatchStep
-----------------------------------------------------------------------------
(* LedgerInv is inductive.                                                 *)

\* What none of the worker's changes to its copy of the CR changes.
SameRest(p, o) == p.spec = o.spec /\ p.force = o.force

\* The spec, and the annotation that forces a CR out.
LEMMA KeepsRest ==
    ASSUME NEW o \in Object
    PROVE  /\ \A r : SameRest(NotReady(o, r), o)
           /\ SameRest(MarkReady(o), o) /\ SameRest(Unregistered(o), o)
           /\ \A id : /\ SameRest([o EXCEPT !.id = id], o)
                      /\ SameRest(MarkReady([o EXCEPT !.id = id]), o)
           /\ SameRest([o EXCEPT !.secret = None], o)
           /\ SameRest([o EXCEPT !.obs = o.gen], o)
           /\ SameRest([o EXCEPT !.fin = TRUE], o)
           /\ SameRest([o EXCEPT !.fin = FALSE, !.phase = "gone"], o)
BY DEF SameRest, Object, NotReady, MarkReady, Unregistered

\* The pass goes on, with its copy of the CR.
GoesOnWith(j) == j.cur = w.cur /\ j.fresh = w.fresh /\ SameRest(j.oc, w.oc)

\* It goes on to a step where nothing new is in hand.
LEMMA Follows ==
    ASSUME NEW o, NEW R, InStep(w, o, clients), w.pc # "status",
           NEW j, GoesOnWith(j), j.oc.id = w.oc.id,
           j.pc \notin {"burnOrphan", "writeSecret"}
    PROVE  InStep(j, o, R)
BY DEF InStep, GoesOnWith, SameRest

\* A write of one CR.
LEMMA WritesUnforced ==
    ASSUME TypeInv, CRsUnforced, NEW u \in CR, NEW o \in Object, Put(u, o),
           ~o.force, ~o.fin /\ o.phase # "gone" => o.id = 0
    PROVE  CRsUnforced'
<1>1. Obj(u)' = o /\ \A v \in CR \ {u} : Obj(v)' = Obj(v)
  BY PutStores
<1> QED
  BY <1>1 DEF CRsUnforced

\* A write of one Secret.
LEMMA WritesNoStray ==
    ASSUME TypeInv, NoStrayCreds, NEW n \in SecretName, NEW s \in Secret,
           PutSecret(n, s), s.exists \/ s.creds = 0
    PROVE  NoStrayCreds'
<1>1. /\ Versions(secrets'[n]) = Versions(secrets[n]) \cup {s}
      /\ \A m \in SecretName \ {n} : secrets'[m] = secrets[m]
  BY PutSecretVersions
<1>2. ASSUME NEW m \in SecretName, NEW t \in Versions(secrets'[m])
      PROVE  t.exists \/ t.creds = 0
  BY <1>1, <1>2 DEF NoStrayCreds
<1> QED
  BY <1>2 DEF NoStrayCreds

\* Caches that catch up.
LEMMA FewerNoStray ==
    ASSUME NoStrayCreds,
           \A n \in SecretName : Versions(secrets'[n]) \subseteq Versions(secrets[n])
    PROVE  NoStrayCreds'
BY DEF NoStrayCreds

\* The worker's writes of Secrets.
LEMMA WorkerNoStray ==
    ASSUME TypeInv, PinInv, NoStrayCreds, WorkerStep
    PROVE  NoStrayCreds'
<1>1. CASE UNCHANGED secrets
  BY <1>1, FewerNoStray
<1>2. CASE WriteSecret \/ SyncSecret
  <2> DEFINE n == w.oc.spec.secret
             seen == Visible(Cached(secrets[n]))
             want(k) == [exists |-> TRUE, owner |-> w.cur,
                         creds |-> IF k = 0 THEN seen.creds ELSE k,
                         cfg |-> w.oc.spec.cfg, managed |-> TRUE]
  <2>1. w.pc # "idle" /\ w.creds \in Nat /\ n \in SecretName
    BY <1>2, Fields, ObjectOps DEF TypeInv, WriteSecret, SyncSecret
  <2>2. \A k \in {0, w.creds} : want(k) \in Secret /\ want(k).exists
    BY <2>1, WantType DEF TypeInv
  <2>3. \/ UNCHANGED secrets
        \/ \E k \in {0, w.creds} : PutSecret(n, want(k))
    BY <1>2 DEF WriteSecret, SyncSecret, Upsert
  <2> HIDE DEF n, want
  <2> QED
    BY <1>1, <2>1, <2>2, <2>3, WritesNoStray
<1>3. CASE DeleteOldSecret
  <2>1. w.oc.secret \in SecretName
    BY <1>3 DEF PinInv, DeleteOldSecret
  <2>2. UNCHANGED secrets \/ PutSecret(w.oc.secret, NoSecret)
    BY <1>3 DEF DeleteOldSecret
  <2>3. NoSecret.creds = 0
    BY DEF NoSecret
  <2> QED
    BY <1>1, <2>1, <2>2, <2>3, NoSecretType, WritesNoStray
<1>4. SecretsKept => UNCHANGED secrets
  BY SecretsKeptBy
<1> QED
  BY <1>1, <1>2, <1>3, <1>4 DEF WorkerStep, SecretsKept
\* The worker's writes of CRs: what it read has no such annotation.
LEMMA WorkerUnforced ==
    ASSUME TypeInv, LeakInv, LedgerInv, WorkerStep
    PROVE  CRsUnforced'
<1>1. CASE UNCHANGED cr
  BY <1>1 DEF LedgerInv, CRsUnforced, Obj
<1>2. CASE AddFinalizer \/ UpdateStatus \/ RemoveFinalizer
  <2> DEFINE u == w.cur
             a == [w.oc EXCEPT !.fin = TRUE]
             b == [w.oc EXCEPT !.obs = w.oc.gen]
             c == [w.oc EXCEPT !.fin = FALSE, !.phase = "gone"]
  <2>1. w.pc # "idle" /\ u \in CR /\ w.oc \in Object
    BY <1>2, Fields DEF TypeInv, AddFinalizer, UpdateStatus, RemoveFinalizer
  <2>2. ~w.oc.force /\ CRsUnforced
    BY <2>1 DEF LedgerInv, HandInv, InStep
  <2>3. CASE AddFinalizer
    <3>1. a \in Object /\ a.fin /\ ~a.force
      BY <2>1, <2>2, ObjectOps, KeepsLife, KeepsRest DEF SameRest
    <3>2. UNCHANGED cr \/ Put(u, a)
      BY <2>3 DEF AddFinalizer
    <3> QED
      BY <1>1, <2>1, <2>2, <3>1, <3>2, WritesUnforced
  <2>4. CASE UpdateStatus
    <3>1. w.oc.fin
      BY <2>1, <2>4 DEF UpdateStatus, LeakInv, Pass
    <3>2. b \in Object /\ b.fin /\ ~b.force
      <4>1. b \in Object /\ b.fin = w.oc.fin
        BY <2>1, ObjectOps, KeepsLife
      <4>2. SameRest(b, w.oc)
        BY <2>1, KeepsRest
      <4> QED
        BY <2>2, <3>1, <4>1, <4>2 DEF SameRest
    <3>3. UNCHANGED cr \/ Put(u, b)
      BY <2>4 DEF UpdateStatus
    <3> QED
      BY <1>1, <2>1, <2>2, <3>2, <3>3, WritesUnforced
  <2>5. CASE RemoveFinalizer
    <3>1. c \in Object /\ ~c.force
      BY <2>1, <2>2, ObjectOps, KeepsRest DEF SameRest
    <3>2. c.phase = "gone"
      BY <2>1 DEF Object
    <3>3. UNCHANGED cr \/ Put(u, c)
      BY <2>5 DEF RemoveFinalizer
    <3> QED
      BY <1>1, <2>1, <2>2, <3>1, <3>2, <3>3, WritesUnforced
  <2> QED
    BY <1>2, <2>3, <2>4, <2>5
<1>3. CASE \E u \in CR : StartReconcile(u)
  BY <1>1, <1>3 DEF StartReconcile
<1>4. CASE \/ Discover \/ VetRename \/ ReadOldSecret \/ DeleteOldSecret
           \/ VetTarget \/ ListClients \/ BurnOrphan \/ Register \/ WriteSecret
  BY <1>1, <1>4 DEF Discover, VetRename, ReadOldSecret, DeleteOldSecret, VetTarget,
     ListClients, BurnOrphan, Register, WriteSecret, Failed
<1>5. CASE \/ GetClient \/ ReadSecret \/ BurnClient \/ EditClient \/ VerifyEdit
           \/ SyncSecret \/ Deregister \/ ListForCleanup \/ SweepOne
  BY <1>1, <1>5 DEF GetClient, ReadSecret, BurnClient, EditClient, VerifyEdit,
     SyncSecret, Deregister, ListForCleanup, SweepOne, Failed
<1> QED
  BY <1>2, <1>3, <1>4, <1>5 DEF WorkerStep

\* A pass gives up, or comes to its end.
LEMMA ToIdle == ASSUME w' = Idle PROVE HandInv'
BY DEF HandInv, Idle, Job

\* It goes on, in a step that writes no CR.
LEMMA GoesOnInStep ==
    ASSUME UNCHANGED cr, w'.cur = w.cur, InStep(w', Obj(w.cur), clients'),
           w'.pc \notin {"idle", "writeSecret"}
    PROVE  HandInv'
BY DEF HandInv, Obj

\* Most steps add nothing to what is in hand.
LEMMA QuietHand ==
    ASSUME TypeInv, LedgerInv,
           \/ Discover \/ VetRename \/ ReadOldSecret \/ DeleteOldSecret \/ VetTarget
           \/ BurnOrphan \/ ReadSecret \/ EditClient \/ VerifyEdit \/ SyncSecret
           \/ Deregister \/ ListForCleanup \/ SweepOne
    PROVE  HandInv'
<1>1. /\ w.pc \notin {"idle", "status"} /\ w.cur \in CR /\ w.oc \in Object
      /\ UNCHANGED cr
  <2>1. w.pc \notin {"idle", "status"} /\ UNCHANGED cr
    BY DEF Discover, VetRename, ReadOldSecret, DeleteOldSecret, VetTarget, BurnOrphan,
       ReadSecret, EditClient, VerifyEdit, SyncSecret, Deregister, ListForCleanup,
       SweepOne, Failed
  <2> QED
    BY <2>1, Fields DEF TypeInv
<1>2. InStep(w, Obj(w.cur), clients)
  BY <1>1 DEF LedgerInv, HandInv
<1> DEFINE Quiet(j) == /\ GoesOnWith(j) /\ j.oc.id = w.oc.id
                       /\ j.pc \notin {"idle", "burnOrphan", "writeSecret"}
<1>3. Quiet(w') => HandInv'
  BY <1>1, <1>2, Follows, GoesOnInStep DEF GoesOnWith
<1>4. ASSUME NEW pc, pc \notin {"idle", "burnOrphan", "writeSecret"}
      PROVE  /\ Quiet(At(pc, w.oc)) /\ Quiet(At(pc, MarkReady(w.oc)))
             /\ \A r : Quiet(At(pc, NotReady(w.oc, r)))
             /\ Quiet(At(pc, [w.oc EXCEPT !.secret = None]))
             /\ \A id : Quiet([At(pc, w.oc) EXCEPT !.creds = id])
             /\ \A b : Quiet([At(pc, w.oc) EXCEPT !.pinned = b])
             /\ \A b : Quiet([At(pc, w.oc) EXCEPT !.drifted = b])
             /\ \A S : Quiet([At(pc, w.oc) EXCEPT !.doomed = S])
  <2>1. ASSUME NEW o, SameRest(o, w.oc), o.id = w.oc.id
        PROVE  /\ Quiet(At(pc, o))
               /\ \A id : Quiet([At(pc, o) EXCEPT !.creds = id])
               /\ \A b : Quiet([At(pc, o) EXCEPT !.pinned = b])
               /\ \A b : Quiet([At(pc, o) EXCEPT !.drifted = b])
               /\ \A S : Quiet([At(pc, o) EXCEPT !.doomed = S])
    BY <1>4, <2>1 DEF GoesOnWith, At, Job
  <2>2. SameRest(w.oc, w.oc)
    BY DEF SameRest
  <2>3. LET p == MarkReady(w.oc) IN SameRest(p, w.oc) /\ p.id = w.oc.id
    BY <1>1, KeepsRest, KeepsLife
  <2>4. LET p == [w.oc EXCEPT !.secret = None] IN SameRest(p, w.oc) /\ p.id = w.oc.id
    BY <1>1, KeepsRest, KeepsLife
  <2>5. \A r : LET p == NotReady(w.oc, r) IN SameRest(p, w.oc) /\ p.id = w.oc.id
    BY <1>1, KeepsRest, KeepsLife
  <2> HIDE DEF Quiet
  <2> QED
    BY <2>1, <2>2, <2>3, <2>4, <2>5
<1> HIDE DEF Quiet
<1>5. /\ Quiet(AfterRename(w.oc))
      /\ Quiet(AfterRename([w.oc EXCEPT !.secret = None]))
  <2>1. \A pc \in {"vetTarget", "getClient"} :
          Quiet(At(pc, w.oc)) /\ Quiet(At(pc, [w.oc EXCEPT !.secret = None]))
    BY <1>4
  <2> QED
    BY <2>1 DEF AfterRename
<1>6. CASE Discover \/ VetRename \/ ReadOldSecret \/ DeleteOldSecret
  <2>1. \/ w' \in {At("vetRename", w.oc), At("readOld", w.oc), AfterRename(w.oc),
                    AfterRename([w.oc EXCEPT !.secret = None]),
                    [At("deleteOld", w.oc) EXCEPT !.pinned = TRUE]}
        \/ \E r : w' = At("status", NotReady(w.oc, r))
    BY <1>6 DEF Discover, VetRename, ReadOldSecret, DeleteOldSecret, Failed, Fail, Go
  <2> QED
    BY <1>3, <1>4, <1>5, <2>1
<1>7. CASE VetTarget \/ BurnOrphan \/ VerifyEdit \/ SyncSecret \/ EditClient
  <2>1. \/ \E id : w' = [At("listClients", w.oc) EXCEPT !.creds = id]
        \/ w' \in {At("status", w.oc), At("syncSecret", w.oc), At("verifyEdit", w.oc),
                    At("status", MarkReady(w.oc))}
        \/ \E r : w' = At("status", NotReady(w.oc, r))
    BY <1>7 DEF VetTarget, BurnOrphan, VerifyEdit, SyncSecret, EditClient, Upsert,
       DeleteClient, Failed, Fail, Go
  <2> QED
    BY <1>3, <1>4, <2>1
<1>8. CASE ReadSecret
  <2>1. \/ w' \in {At("burnClient", w.oc), At("editClient", w.oc), At("syncSecret", w.oc)}
        \/ \E r : w' = At("status", NotReady(w.oc, r))
    BY <1>8 DEF ReadSecret, OnDrift, Failed, Fail, Go
  <2> QED
    BY <1>3, <1>4, <2>1
<1>9. CASE Deregister \/ ListForCleanup \/ SweepOne
  <2>1. \/ w' = At("removeFinalizer", w.oc) \/ w' = Idle
        \/ \E S : w' = [At("sweep", w.oc) EXCEPT !.doomed = S]
    BY <1>9 DEF Deregister, ListForCleanup, SweepOne, SweepOn, DeleteClient, Retry, Go
  <2> QED
    BY <1>3, <1>4, <2>1, ToIdle
<1> QED
  BY <1>6, <1>7, <1>8, <1>9
\* A pass starts from what is stored.
LEMMA StartHand ==
    ASSUME PromptWatch, TypeInv, LedgerInv, NEW u \in CR, StartReconcile(u)
    PROVE  HandInv'
<1> DEFINE o == Cached(cr[u])
<1>1. o = Obj(u) /\ o \in Object
  <2>1. cr[u] \in Histories(Object) /\ Len(cr[u]) = 1
    BY DEF StartReconcile, Synced, TypeInv, KubeType
  <2> QED
    BY <2>1, HistoryOps DEF Cached, Stored, Obj, Histories
<1>2. UNCHANGED <<cr, clients, secrets>>
  BY DEF StartReconcile, registry
<1>3. ~o.force
  BY <1>1 DEF LedgerInv, CRsUnforced
<1>4. CASE w' = w
  BY <1>2, <1>4 DEF LedgerInv, HandInv, Obj, Unpublished
<1>5. ASSUME w'.cur = u, SameRest(w'.oc, o), w'.oc.id = o.id,
             w'.pc \notin {"idle", "burnOrphan", "writeSecret"}
      PROVE  HandInv'
  <2>1. InStep(w', o, clients')
    BY <1>3, <1>5 DEF InStep, SameRest
  <2> QED
    BY <1>1, <1>2, <1>5, <2>1 DEF HandInv, Obj
<1>6. CASE w' = Begin(u, o, Synced(cr[u]))
  <2>1. LET p == NotReady(o, "SpecInvalid") IN SameRest(p, o) /\ p.id = o.id
    BY <1>1, KeepsLife, KeepsRest
  <2>2. SameRest(o, o)
    BY DEF SameRest
  <2>3. /\ w'.cur = u /\ w'.pc \in {"status", "discovery"}
        /\ w'.oc \in {o, NotReady(o, "SpecInvalid")}
    BY <1>6 DEF Begin, Job
  <2> QED
    BY <1>5, <2>1, <2>2, <2>3
<1>7. CASE w' = Job(u, o, Synced(cr[u]), "addFinalizer")
           \/ w' = BeginDelete(u, o, Synced(cr[u]))
  <2>1. /\ w'.cur = u /\ w'.oc = o
        /\ w'.pc \in {"addFinalizer", "removeFinalizer", "deregister", "listForCleanup"}
    BY <1>7 DEF BeginDelete, Job
  <2> QED
    BY <1>5, <2>1 DEF SameRest
<1> QED
  BY <1>4, <1>6, <1>7 DEF StartReconcile

\* The steps that write the CR: the pass begins, or ends.
LEMMA WriteHand ==
    ASSUME TypeInv, LeakInv, LedgerInv, AddFinalizer \/ UpdateStatus \/ RemoveFinalizer
    PROVE  HandInv'
<1> DEFINE o == [w.oc EXCEPT !.fin = TRUE]
<1>1. CASE w' = Idle
  BY <1>1, ToIdle
<1>2. \/ w' = Idle
      \/ AddFinalizer /\ w' = Begin(w.cur, o, TRUE) /\ Put(w.cur, o)
  BY DEF AddFinalizer, UpdateStatus, RemoveFinalizer, Retry
<1>3. CASE AddFinalizer /\ w' = Begin(w.cur, o, TRUE) /\ Put(w.cur, o)
  <2>1. w.pc # "idle" /\ w.cur \in CR /\ w.oc \in Object
    BY <1>3, Fields DEF TypeInv, AddFinalizer
  <2>2. o \in Object /\ SameRest(o, w.oc)
    BY <2>1, ObjectOps, KeepsRest
  <2>3. ~o.force
    BY <2>1, <2>2 DEF LedgerInv, HandInv, InStep, SameRest
  <2>4. LET p == NotReady(o, "SpecInvalid") IN SameRest(p, o) /\ p.id = o.id
    BY <2>2, KeepsLife, KeepsRest
  <2>5. /\ w'.cur = w.cur /\ w'.pc \in {"status", "discovery"}
        /\ w'.oc \in {o, NotReady(o, "SpecInvalid")}
    BY <1>3 DEF Begin, Job
  <2>6. SameRest(w'.oc, o) /\ w'.oc.id = o.id
    BY <2>4, <2>5 DEF SameRest
  <2>7. InStep(w', o, clients')
    BY <2>3, <2>5, <2>6 DEF InStep, SameRest
  <2>8. PICK u \in CR : u = w.cur
    BY <2>1
  <2>9. Obj(u)' = o
    BY <1>3, <2>2, <2>8, PutStores
  <2> QED
    BY <2>5, <2>7, <2>8, <2>9 DEF HandInv
<1> QED
  BY <1>1, <1>2, <1>3

\* A failure keeps what was in hand, but the credentials.
LEMMA FailHand ==
    ASSUME TypeInv, LedgerInv, w.pc \notin {"idle", "status"}, UNCHANGED cr,
           \E r : w' = At("status", NotReady(w.oc, r))
    PROVE  HandInv'
<1>1. w.cur \in CR /\ w.oc \in Object /\ InStep(w, Obj(w.cur), clients)
  BY Fields DEF TypeInv, LedgerInv, HandInv
<1>2. PICK r : w' = At("status", NotReady(w.oc, r))
  OBVIOUS
<1>3. SameRest(NotReady(w.oc, r), w.oc) /\ NotReady(w.oc, r).id = w.oc.id
  BY <1>1, KeepsLife, KeepsRest
<1>4. GoesOnWith(w') /\ w'.oc.id = w.oc.id /\ w'.pc = "status"
  BY <1>2, <1>3 DEF At, Job, GoesOnWith
<1>5. InStep(w', Obj(w.cur), clients')
  BY <1>1, <1>4, Follows
<1> QED
  BY <1>4, <1>5, GoesOnInStep DEF GoesOnWith

\* What an orphan is.
LEMMA ListHand ==
    ASSUME TypeInv, OneInv, LeakInv, LedgerInv, ListClients
    PROVE  HandInv'
<1>1. /\ w.pc = "listClients" /\ w.cur \in CR /\ w.oc \in Object
      /\ UNCHANGED <<cr, clients>>
  BY Fields DEF TypeInv, ListClients, Failed, registry
<1>2. InStep(w, Obj(w.cur), clients) /\ Obj(w.cur).id = 0 /\ w.oc.id = 0
  BY <1>1 DEF LedgerInv, HandInv, LeakInv, Pass, ByStatus, Unrecorded
<1>3. CASE Go("register", w.oc)
  <2>1. w'.pc = "register" /\ w'.oc = w.oc /\ w'.cur = w.cur /\ w'.fresh = w.fresh
    BY <1>3 DEF Go, At, Job
  <2>2. InStep(w', Obj(w.cur), clients')
    BY <1>1, <1>2, <2>1, Follows DEF GoesOnWith, SameRest
  <2> QED
    BY <1>1, <2>1, <2>2, GoesOnInStep
<1>4. CASE \E r : w' = At("status", NotReady(w.oc, r))
  BY <1>1, <1>4, FailHand
<1>5. ASSUME NEW c \in Fingerprinted(clients, w.cur),
             w' = At("getClient", [w.oc EXCEPT !.id = c.id])
      PROVE  HandInv'
  <2>1. /\ w'.pc = "getClient" /\ w'.cur = w.cur /\ w'.fresh = w.fresh
        /\ SameRest(w'.oc, w.oc)
    BY <1>1, <1>5, KeepsRest DEF At, Job
  <2>2. InStep(w', Obj(w.cur), clients')
    BY <1>1, <1>2, <2>1 DEF InStep, SameRest
  <2> QED
    BY <1>1, <2>1, <2>2, GoesOnInStep
<1>6. ASSUME NEW c \in Fingerprinted(clients, w.cur),
             w' = [At("burnOrphan", w.oc) EXCEPT !.doomed = {c.id}]
      PROVE  HandInv'
  <2>1. /\ w'.pc = "burnOrphan" /\ w'.cur = w.cur /\ w'.fresh = w.fresh
        /\ w'.oc = w.oc /\ w'.doomed = {c.id}
    BY <1>6 DEF At, Job
  <2>2. \A d \in clients : d.fp = w.cur => d.id = c.id
    <3>1. c \in clients /\ c.fp = w.cur /\ w.cur # None
      BY <1>1, NoneAssumption DEF Fingerprinted
    <3> QED
      BY <3>1 DEF OneInv, AtMostOneRegistration
  <2>3. InStep(w', Obj(w.cur), clients')
    BY <1>1, <1>2, <2>1, <2>2 DEF InStep
  <2> QED
    BY <1>1, <2>1, <2>3, GoesOnInStep
<1> QED
  BY <1>3, <1>4, <1>5, <1>6 DEF ListClients, Failed, Fail, Go

\* A new registration's credentials are nowhere but in hand.
LEMMA RegisterHand ==
    ASSUME TypeInv, LeakInv, LedgerInv, Register
    PROVE  HandInv'
<1>1. /\ w.pc = "register" /\ w.cur \in CR /\ w.oc \in Object
      /\ UNCHANGED <<cr, secrets>> /\ FreeIds # {}
  BY Fields DEF TypeInv, Register
<1>2. InStep(w, Obj(w.cur), clients)
  BY <1>1 DEF LedgerInv, HandInv
<1>3. CASE \E r : w' = At("status", NotReady(w.oc, r))
  BY <1>1, <1>3, FailHand
<1>4. CASE w' = [At("writeSecret", w.oc) EXCEPT !.creds = NewId]
  <2>1. /\ w'.pc = "writeSecret" /\ w'.cur = w.cur /\ w'.fresh = w.fresh
        /\ w'.oc = w.oc /\ w'.creds = NewId
    BY <1>4 DEF At, Job
  <2>2. InStep(w', Obj(w.cur), clients')
    BY <1>1, <1>2, <2>1 DEF InStep
  <2>3. Unpublished(NewId)
    BY <1>1, NewCredsFresh, NewIdFresh DEF Unpublished
  <2>4. Unpublished(w.creds)'
    BY <1>1, <2>1, <2>3 DEF Unpublished
  <2> QED
    BY <1>1, <2>1, <2>2, <2>4 DEF HandInv, Obj
<1> QED
  BY <1>3, <1>4 DEF Register, Fail, Go

\* The id goes from the Secret into the copy of a CR that has none.
LEMMA WriteSecretHand ==
    ASSUME TypeInv, LeakInv, LedgerInv, WriteSecret
    PROVE  HandInv'
<1>1. /\ w.pc = "writeSecret" /\ w.cur \in CR /\ w.oc \in Object /\ UNCHANGED cr
  BY Fields DEF TypeInv, WriteSecret
<1>2. InStep(w, Obj(w.cur), clients) /\ w.oc.id = 0
  BY <1>1 DEF LedgerInv, HandInv, LeakInv, Pass, Unrecorded
<1> DEFINE p == MarkReady([w.oc EXCEPT !.id = w.creds])
<1>3. CASE w' = At("status", p)
  <2>1. /\ w'.pc = "status" /\ w'.cur = w.cur /\ w'.fresh = w.fresh
        /\ SameRest(w'.oc, w.oc)
    BY <1>1, <1>3, KeepsRest DEF At, Job
  <2>2. InStep(w', Obj(w.cur), clients')
    BY <1>1, <1>2, <2>1 DEF InStep, SameRest
  <2> QED
    BY <1>1, <2>1, <2>2, GoesOnInStep
<1>4. CASE \E r : w' = At("status", NotReady(w.oc, r))
  BY <1>1, <1>4, FailHand
<1> QED
  BY <1>3, <1>4 DEF WriteSecret, Upsert, Fail, Go

\* The id goes from the copy only when its registration is gone.
LEMMA UnregisteredHand ==
    ASSUME TypeInv, LedgerInv, GetClient \/ BurnClient
    PROVE  HandInv'
<1>1. /\ w.pc \in {"getClient", "burnClient"} /\ w.cur \in CR /\ w.oc \in Object
      /\ UNCHANGED cr
  BY Fields DEF TypeInv, GetClient, BurnClient, Failed
<1>2. InStep(w, Obj(w.cur), clients)
  BY <1>1 DEF LedgerInv, HandInv
<1>3. CASE \E r : w' = At("status", NotReady(w.oc, r))
  BY <1>1, <1>3, FailHand
<1>4. CASE \E b : w' = [At("readSecret", w.oc) EXCEPT !.drifted = b]
  <2>1. /\ w'.pc = "readSecret" /\ w'.cur = w.cur /\ w'.fresh = w.fresh
        /\ w'.oc = w.oc
    BY <1>4 DEF At, Job
  <2>2. InStep(w', Obj(w.cur), clients')
    BY <1>1, <1>2, <2>1, Follows DEF GoesOnWith, SameRest
  <2> QED
    BY <1>1, <2>1, <2>2, GoesOnInStep
<1>5. CASE w' = At("status", Unregistered(w.oc)) /\ ~Live(clients', w.oc.id)
  <2>1. /\ w'.pc = "status" /\ w'.cur = w.cur /\ w'.fresh = w.fresh
        /\ SameRest(w'.oc, w.oc) /\ w'.oc.id = 0
    BY <1>1, <1>5, KeepsRest, KeepsLife DEF At, Job
  <2>2. InStep(w', Obj(w.cur), clients')
    BY <1>1, <1>2, <1>5, <2>1 DEF InStep, SameRest
  <2> QED
    BY <1>1, <2>1, <2>2, GoesOnInStep
<1>6. \/ \E r : w' = At("status", NotReady(w.oc, r))
      \/ \E b : w' = [At("readSecret", w.oc) EXCEPT !.drifted = b]
      \/ w' = At("status", Unregistered(w.oc)) /\ ~Live(clients', w.oc.id)
  <2>1. CASE GetClient
    BY <2>1 DEF GetClient, Failed, Fail, Go, registry
  <2>2. CASE BurnClient
    <3>1. ~Live(Without(clients, w.oc.id), w.oc.id)
      BY DEF Live, Without
    <3> QED
      BY <2>2, <3>1 DEF BurnClient, DeleteClient, Fail, Go
  <2> QED
    BY <2>1, <2>2
<1> QED
  BY <1>3, <1>4, <1>5, <1>6
\* The worker is not at work: its pass is where it was.
SameJob == /\ w'.pc = w.pc /\ w'.cur = w.cur /\ w'.oc = w.oc
           /\ w'.creds = w.creds /\ w'.doomed = w.doomed

\* What others do to a pass: at most they outdate its copy, or end its pin.
LEMMA OthersJob ==
    ASSUME TypeInv
    PROVE  /\ \A u, o : Change(u, o) =>
                SameJob /\ (w'.fresh => w.fresh /\ w.cur # u)
           /\ SecretStep \/ (\E n \in SecretName : CollectGarbage(n)) =>
                SameJob /\ w'.fresh = w.fresh
BY DEF Change, Outdate, SecretStep, DeleteSecret, Squat, Scrub, Unlabel, CollectGarbage,
   Tamper, SameJob, TypeInv, WorkerType, Worker

\* What a pass has in hand survives what others do.
LEMMA HandSurvives ==
    ASSUME TypeInv, HandInv, SameJob, clients' \subseteq clients,
           \A t \in CR : /\ Obj(t)'.id = Obj(t).id
                         /\ t = w.cur /\ w'.fresh => w.fresh /\ Obj(t)'.spec = Obj(t).spec,
           \A n \in SecretName : \A s \in Versions(secrets'[n]) :
               s.creds = 0 \/ \E v \in Versions(secrets[n]) : v.creds = s.creds
    PROVE  HandInv'
<1>1. w'.pc = "idle" => w'.cur = None
  BY DEF HandInv, SameJob
<1>2. ASSUME w.pc # "idle"
      PROVE  InStep(w', Obj(w.cur)', clients')
  <2>1. PICK u \in CR : u = w.cur
    BY <1>2, Fields DEF TypeInv
  <2>2. InStep(w, Obj(u), clients)
    BY <1>2, <2>1 DEF HandInv
  <2>3. Obj(u)'.id = Obj(u).id /\ (w'.fresh => w.fresh /\ Obj(u)'.spec = Obj(u).spec)
    BY <2>1
  <2>4. InStep(w', Obj(u)', clients')
    BY <2>2, <2>3 DEF InStep, SameJob, Live
  <2>5. w'.cur = u
    BY <2>1 DEF SameJob
  <2> QED
    BY <2>4, <2>5
<1>3. w.pc = "writeSecret" => Unpublished(w.creds)'
  <2>1. ASSUME w.pc = "writeSecret", NEW n \in SecretName, NEW s \in Versions(secrets'[n])
        PROVE  s.creds # w.creds
    BY <2>1 DEF HandInv, Unpublished
  <2> QED
    BY <2>1 DEF HandInv, Unpublished, SameJob
<1> QED
  BY <1>1, <1>2, <1>3 DEF HandInv, SameJob

\* A user's write.
LEMMA UserLedger ==
    ASSUME "force" \notin Faults, TypeInv, LeakInv, LedgerInv, UserStep
    PROVE  LedgerInv'
<1>1. PICK u \in CR, v \in Object :
        /\ Change(u, v) /\ UNCHANGED <<secrets, clients>>
        /\ v.id = Obj(u).id /\ v.fin = Obj(u).fin
        /\ ~Obj(u).force => ~v.force
        /\ Obj(u).phase # "gone"
  BY UserWrites
<1>2. Obj(u)' = v /\ \A t \in CR \ {u} : Obj(t)' = Obj(t)
  BY <1>1, PutStores DEF Change
<1>3. CRsUnforced'
  <2>1. ~v.force /\ (~v.fin /\ v.phase # "gone" => v.id = 0)
    BY <1>1 DEF LedgerInv, CRsUnforced
  <2> QED
    BY <1>1, <2>1, WritesUnforced DEF Change, LedgerInv
<1>4. NoStrayCreds'
  BY <1>1 DEF LedgerInv, NoStrayCreds
<1>5. HandInv'
  <2>1. SameJob /\ (w'.fresh => w.fresh /\ w.cur # u)
    BY <1>1, OthersJob
  <2>2. \A t \in CR : /\ Obj(t)'.id = Obj(t).id
                      /\ t = w.cur /\ w'.fresh => w.fresh /\ Obj(t)'.spec = Obj(t).spec
    BY <1>1, <1>2, <2>1
  <2> QED
    BY <1>1, <2>1, <2>2, HandSurvives DEF LedgerInv
<1> QED
  BY <1>3, <1>4, <1>5 DEF LedgerInv

\* A write to a Secret that is not the worker's.
LEMMA TamperLedger ==
    ASSUME TypeInv, LedgerInv, SecretStep \/ \E n \in SecretName : CollectGarbage(n)
    PROVE  LedgerInv'
<1>1. PICK n \in SecretName, s \in Secret :
        /\ PutSecret(n, s) /\ UNCHANGED <<cr, clients>>
        /\ s.creds # 0 => s.creds = Sec(n).creds /\ s.exists = Sec(n).exists
  BY TamperWrites
<1>2. Sec(n) \in Versions(secrets[n])
  BY VersionsType DEF Sec
<1>3. /\ Versions(secrets'[n]) = Versions(secrets[n]) \cup {s}
      /\ \A m \in SecretName \ {n} : secrets'[m] = secrets[m]
  BY <1>1, PutSecretVersions
<1>4. NoStrayCreds'
  <2>1. s.exists \/ s.creds = 0
    BY <1>1, <1>2 DEF LedgerInv, NoStrayCreds
  <2> QED
    BY <1>1, <2>1, WritesNoStray DEF LedgerInv
<1>5. HandInv'
  <2>1. SameJob /\ w'.fresh = w.fresh
    BY OthersJob
  <2>2. ASSUME NEW m \in SecretName, NEW r \in Versions(secrets'[m])
        PROVE  r.creds = 0 \/ \E v \in Versions(secrets[m]) : v.creds = r.creds
    BY <1>1, <1>2, <1>3, <2>2
  <2>3. \A t \in CR : Obj(t)' = Obj(t)
    BY <1>1 DEF Obj
  <2> QED
    BY <1>1, <2>1, <2>2, <2>3, HandSurvives DEF LedgerInv
<1> QED
  BY <1>1, <1>4, <1>5 DEF LedgerInv, CRsUnforced, Obj

\* The watch, and tsidp when it loses its state.
LEMMA DeliverLedger ==
    ASSUME TypeInv, LedgerInv, WatchStep \/ LoseState
    PROVE  LedgerInv'
<1>1. /\ \A t \in CR : Obj(t)' = Obj(t)
      /\ \A n \in SecretName : Versions(secrets'[n]) \subseteq Versions(secrets[n])
      /\ clients' \subseteq clients /\ UNCHANGED w
  <2>1. CASE WatchStep
    BY <2>1, WatchWrites
  <2>2. CASE LoseState
    BY <2>2 DEF LoseState, Obj
  <2> QED
    BY <2>1, <2>2
<1>2. CRsUnforced' /\ NoStrayCreds'
  BY <1>1, FewerNoStray DEF LedgerInv, CRsUnforced
<1>3. HandInv'
  <2>1. SameJob
    BY <1>1 DEF SameJob
  <2>2. \A n \in SecretName : \A s \in Versions(secrets'[n]) :
          s.creds = 0 \/ \E v \in Versions(secrets[n]) : v.creds = s.creds
    BY <1>1
  <2> QED
    BY <1>1, <2>1, <2>2, HandSurvives DEF LedgerInv
<1> QED
  BY <1>2, <1>3 DEF LedgerInv

\* A restart: what is stored stays, and so does one version of each.
LEMMA RestartStores ==
    ASSUME TypeInv, Restart
    PROVE  /\ \A t \in CR : Obj(t)' = Obj(t)
           /\ \A n \in SecretName : /\ Sec(n)' = Sec(n)
                                    /\ Versions(secrets'[n]) \subseteq Versions(secrets[n])
           /\ UNCHANGED clients /\ w' = Idle
<1>1. /\ cr \in [CR -> Histories(Object)] /\ secrets \in [SecretName -> Histories(Secret)]
  BY DEF TypeInv, KubeType
<1>2. /\ cr' = [u \in CR |-> Relist(cr[u])]
      /\ secrets' = [n \in SecretName |-> Relist(secrets[n])]
      /\ UNCHANGED clients /\ w' = Idle
  BY DEF Restart, registry
<1>3. ASSUME NEW t \in CR PROVE Obj(t)' = Obj(t)
  <2>1. Stored(Relist(cr[t])) = Stored(cr[t])
    BY <1>1, HistoryOps
  <2> QED
    BY <1>2, <2>1 DEF Obj
<1>4. ASSUME NEW n \in SecretName
      PROVE  /\ Sec(n)' = Sec(n)
             /\ Versions(secrets'[n]) \subseteq Versions(secrets[n])
  <2>1. secrets[n] \in Histories(Secret)
    BY <1>1
  <2>2. /\ Stored(Relist(secrets[n])) = Stored(secrets[n])
        /\ Versions(Relist(secrets[n])) \subseteq Versions(secrets[n])
    BY <2>1, HistoryOps, VersionsOps
  <2> QED
    BY <1>2, <2>2 DEF Sec
<1> QED
  BY <1>2, <1>3, <1>4

\* Every step of anybody.
LEMMA LedgerNext ==
    ASSUME "late" \notin Faults, "adminEdit" \notin Faults, "force" \notin Faults,
           PromptWatch, TypeInv, PinInv, OneInv, LeakInv, LedgerInv, [Next]_vars
    PROVE  LedgerInv'
<1>1. CASE WorkerStep
  <2>1. CRsUnforced' /\ NoStrayCreds'
    BY <1>1, WorkerUnforced, WorkerNoStray DEF LedgerInv
  <2>2. HandInv'
    BY <1>1, StartHand, WriteHand, QuietHand, ListHand, RegisterHand, WriteSecretHand,
       UnregisteredHand DEF WorkerStep
  <2> QED
    BY <2>1, <2>2 DEF LedgerInv
<1>2. CASE UserStep \/ SecretStep \/ WatchStep \/ \E n \in SecretName : CollectGarbage(n)
  BY <1>2, UserLedger, TamperLedger, DeliverLedger
<1>3. CASE TsidpStep
  <2>1. LoseState
    BY <1>3 DEF TsidpStep, AdminEdit, Fault, OneInv
  <2> QED
    BY <2>1, DeliverLedger
<1>4. CASE Restart
  <2>1. CRsUnforced' /\ NoStrayCreds'
    BY <1>4, RestartStores, FewerNoStray DEF LedgerInv, CRsUnforced
  <2>2. HandInv'
    BY <1>4, RestartStores, ToIdle
  <2> QED
    BY <2>1, <2>2 DEF LedgerInv
<1>5. CASE Quiescent \/ UNCHANGED vars
  BY <1>5 DEF Quiescent, vars, LedgerInv, CRsUnforced, NoStrayCreds, HandInv, Unpublished,
     Obj
<1> QED
  BY <1>1, <1>2, <1>3, <1>4, <1>5 DEF Next

\* Nothing is in hand to begin with.
LEMMA LedgerInit == Init => LedgerInv
<1> SUFFICES ASSUME Init PROVE LedgerInv
  OBVIOUS
<1>1. \A u \in CR : Obj(u) = Blank
  BY DEF Init, Obj, Stored
<1>2. ASSUME NEW n \in SecretName, NEW s \in Versions(secrets[n]) PROVE s.creds = 0
  BY <1>2 DEF Init, Versions, NoSecret
<1>3. ~Blank.force /\ Blank.id = 0
  BY DEF Blank
<1>4. HandInv
  BY DEF HandInv, Init, Idle, Job
<1> QED
  BY <1>1, <1>2, <1>3, <1>4 DEF LedgerInv, CRsUnforced, NoStrayCreds
-----------------------------------------------------------------------------
(* What the ledger sees of a step.                                         *)

\* A Secret gives the CR v the same id as before, or none as before.
SameGift(v, s, t) ==
    /\ Owned(s, v) /\ s.creds # 0 <=> Owned(t, v) /\ t.creds # 0
    /\ Owned(s, v) /\ s.creds # 0 => t.creds = s.creds

\* Nothing of an entry changes while what it is taken from does not.
LEMMA SameParts ==
    ASSUME NEW v \in CR
    PROVE  /\ Obj(v)' = Obj(v) => SameCR(v)
           /\ SameJob => SameHand(v)
           /\ UNCHANGED clients => SameLive(v)
           /\ (\A n \in SecretName : SameGift(v, Sec(n), Sec(n)')) => SamePublished(v)
           /\ SameLive(v) /\ SamePublished(v) /\ SameCR(v) /\ SameHand(v) => SameEntry(v)
<1>1. Obj(v)' = Obj(v) => SameCR(v)
  BY DEF SameCR, RecordedId, Orphaning, Left
<1>2. SameJob => SameHand(v)
  BY DEF SameJob, SameHand, InHandId, KnownId
<1>3. UNCHANGED clients => SameLive(v)
  BY DEF SameLive, LiveIds
<1>4. ASSUME \A n \in SecretName : SameGift(v, Sec(n), Sec(n)')
      PROVE  SamePublished(v)
  BY <1>4 DEF SameGift, SamePublished, PublishedIds
<1>5. SameLive(v) /\ SamePublished(v) /\ SameCR(v) /\ SameHand(v) => SameEntry(v)
  BY DEF SameLive, SamePublished, SameCR, SameHand, SameEntry
<1> QED
  BY <1>1, <1>2, <1>3, <1>4, <1>5

\* A Secret that is as it was gives what it gave.
LEMMA Gifts ==
    ASSUME NEW v, NEW s, NEW t
    PROVE  /\ s = t => SameGift(v, s, t)
           /\ ~Owned(s, v) /\ ~Owned(t, v) => SameGift(v, s, t)
BY DEF SameGift

\* The CR that the worker works on, and every other.
LEMMA HandOf ==
    ASSUME NEW v \in CR
    PROVE  /\ w.cur # v => KnownId[v] = 0 /\ InHandId[v] = 0
           /\ w'.cur # v => KnownId'[v] = 0 /\ InHandId'[v] = 0
           /\ w.cur = v =>
                /\ KnownId[v] = IF w.pc = "listClients" THEN w.creds ELSE w.oc.id
                /\ InHandId[v] = IF w.pc = "writeSecret" THEN w.creds ELSE 0
           /\ w'.cur = v =>
                /\ KnownId'[v] = IF w'.pc = "listClients" THEN w'.creds ELSE w'.oc.id
                /\ InHandId'[v] = IF w'.pc = "writeSecret" THEN w'.creds ELSE 0
BY DEF KnownId, InHandId

\* The other CRs keep their entries in a step of the worker.
LEMMA OthersKeepEntries ==
    ASSUME NEW u \in CR, w.cur = u, w'.cur \in {u, None},
           \A v \in CR \ {u} : /\ Obj(v)' = Obj(v)
                               /\ Fingerprinted(clients', v) = Fingerprinted(clients, v)
                               /\ \A n \in SecretName : SameGift(v, Sec(n), Sec(n)')
    PROVE  OnlyEntry(u)
<1>1. ASSUME NEW v \in CR, v # u
      PROVE  SameEntry(v)
  <2>1. SameHand(v)
    <3>1. w.cur # v /\ w'.cur # v
      BY <1>1, NoneAssumption
    <3> QED
      BY <3>1, HandOf DEF SameHand
  <2>2. SameLive(v)
    BY <1>1 DEF SameLive, LiveIds
  <2>3. SameCR(v) /\ SamePublished(v)
    BY <1>1, SameParts
  <2> QED
    BY <2>1, <2>2, <2>3, SameParts
<1> QED
  BY <1>1 DEF OnlyEntry

\* A step that at most gives up the id that the pass takes for the CR's, and
\* at most takes the CR's registrations away.
LEMMA Recedes ==
    ASSUME NEW u \in CR, OnlyEntry(u), SamePublished(u), SameCR(u),
           LiveIds'[u] \in {LiveIds[u], {}},
           InHandId[u] = 0, InHandId'[u] = 0, KnownId'[u] \in {KnownId[u], 0}
    PROVE  Ledger!Next \/ UNCHANGED Ledger!vars
<1>1. CASE LiveIds'[u] = LiveIds[u] /\ KnownId'[u] = KnownId[u]
  BY <1>1, StutterStep DEF SameLive, SameHand
<1>2. CASE LiveIds'[u] = LiveIds[u] /\ KnownId'[u] = 0
  BY <1>2, DropStep DEF SameLive
<1>3. CASE LiveIds'[u] = {}
  BY <1>3, RevokeStep
<1> QED
  BY <1>1, <1>2, <1>3
-----------------------------------------------------------------------------
(* Every step of the worker is one of the ledger, or none.                 *)

LedgerStep == Ledger!Next \/ UNCHANGED Ledger!vars

\* What the proofs below know of a state.
LedgerCtx == TypeInv /\ OwnInv /\ OneInv /\ PinInv /\ LeakInv /\ LedgerInv

\* A step that writes nothing, and holds no new id but a smaller hand.
LEMMA Reads ==
    ASSUME NEW u \in CR, w.cur = u, w'.cur \in {u, None},
           UNCHANGED <<cr, clients, secrets>>,
           InHandId[u] = 0, InHandId'[u] = 0, KnownId'[u] \in {KnownId[u], 0}
    PROVE  LedgerStep
<1>1. \A v \in CR : Obj(v)' = Obj(v)
  BY DEF Obj
<1>2. \A v \in CR, n \in SecretName : SameGift(v, Sec(n), Sec(n)')
  BY Gifts DEF Sec
<1>3. OnlyEntry(u)
  BY <1>1, <1>2, OthersKeepEntries
<1>4. SameCR(u) /\ SamePublished(u) /\ SameLive(u)
  BY <1>1, <1>2, SameParts
<1> QED
  BY <1>3, <1>4, Recedes DEF SameLive, LedgerStep

\* Reads that keep the id.
LEMMA ReadRefines ==
    ASSUME LedgerCtx,
           \/ Discover \/ VetRename \/ ReadOldSecret \/ ReadSecret \/ VerifyEdit
           \/ ListForCleanup
    PROVE  LedgerStep
<1>1. /\ w.pc \notin {"idle", "listClients", "writeSecret"}
      /\ UNCHANGED <<cr, clients, secrets>>
  BY DEF Discover, VetRename, ReadOldSecret, ReadSecret, VerifyEdit, ListForCleanup,
     Failed, registry
<1>2. PICK u \in CR : u = w.cur
  BY <1>1, Fields DEF LedgerCtx, TypeInv
<1>3. w.oc \in Object
  BY <1>1, Fields DEF LedgerCtx, TypeInv
<1> DEFINE Quiet(j) == /\ j.cur = u /\ j.oc.id = w.oc.id
                       /\ j.pc \notin {"listClients", "writeSecret"}
<1>4. ASSUME Quiet(w')
      PROVE  LedgerStep
  <2>1. KnownId'[u] = KnownId[u] /\ InHandId[u] = 0 /\ InHandId'[u] = 0
    BY <1>1, <1>2, <1>4, HandOf
  <2> QED
    BY <1>1, <1>2, <1>4, <2>1, Reads
<1>5. ASSUME w' = Idle
      PROVE  LedgerStep
  <2>1. w'.cur = None /\ None # u
    BY <1>5, NoneAssumption DEF Idle, Job
  <2>2. KnownId'[u] = 0 /\ InHandId[u] = 0 /\ InHandId'[u] = 0
    BY <1>1, <1>2, <2>1, HandOf
  <2> QED
    BY <1>1, <1>2, <2>1, <2>2, Reads
<1>6. ASSUME NEW pc, pc \notin {"listClients", "writeSecret"}
      PROVE  /\ Quiet(At(pc, w.oc))
             /\ \A r : Quiet(At(pc, NotReady(w.oc, r)))
             /\ Quiet(At(pc, [w.oc EXCEPT !.secret = None]))
             /\ \A b : Quiet([At(pc, w.oc) EXCEPT !.pinned = b])
             /\ \A S : Quiet([At(pc, w.oc) EXCEPT !.doomed = S])
  <2>1. ASSUME NEW o, o.id = w.oc.id
        PROVE  /\ Quiet(At(pc, o))
               /\ \A b : Quiet([At(pc, o) EXCEPT !.pinned = b])
               /\ \A S : Quiet([At(pc, o) EXCEPT !.doomed = S])
    BY <1>2, <1>6, <2>1 DEF At, Job
  <2>2. LET p == [w.oc EXCEPT !.secret = None] IN p.id = w.oc.id
    BY <1>3, KeepsLife
  <2>3. \A r : NotReady(w.oc, r).id = w.oc.id
    BY <1>3, KeepsLife
  <2> HIDE DEF Quiet
  <2> QED
    BY <2>1, <2>2, <2>3
<1> HIDE DEF Quiet
<1>7. /\ Quiet(AfterRename(w.oc))
      /\ Quiet(AfterRename([w.oc EXCEPT !.secret = None]))
  <2>1. \A pc \in {"vetTarget", "getClient"} :
          Quiet(At(pc, w.oc)) /\ Quiet(At(pc, [w.oc EXCEPT !.secret = None]))
    BY <1>6
  <2> QED
    BY <2>1 DEF AfterRename
<1>8. CASE Discover \/ VetRename \/ ReadOldSecret
  <2>1. \/ w' \in {At("vetRename", w.oc), At("readOld", w.oc), AfterRename(w.oc),
                    AfterRename([w.oc EXCEPT !.secret = None]),
                    [At("deleteOld", w.oc) EXCEPT !.pinned = TRUE]}
        \/ \E r : w' = At("status", NotReady(w.oc, r))
    BY <1>8 DEF Discover, VetRename, ReadOldSecret, Failed, Fail, Go
  <2> QED
    BY <1>4, <1>6, <1>7, <2>1
<1>9. CASE ReadSecret \/ VerifyEdit
  <2>1. \/ w' \in {At("burnClient", w.oc), At("editClient", w.oc), At("syncSecret", w.oc)}
        \/ \E r : w' = At("status", NotReady(w.oc, r))
    BY <1>9 DEF ReadSecret, VerifyEdit, OnDrift, Failed, Fail, Go
  <2> QED
    BY <1>4, <1>6, <2>1
<1>10. CASE ListForCleanup
  <2>1. \/ w' = At("removeFinalizer", w.oc) \/ w' = Idle
        \/ \E S : w' = [At("sweep", w.oc) EXCEPT !.doomed = S]
    BY <1>10 DEF ListForCleanup, SweepOn, Retry, Go
  <2> QED
    BY <1>4, <1>5, <1>6, <2>1
<1> QED
  BY <1>8, <1>9, <1>10

\* Reads that may give up the id in hand.
LEMMA LookupRefines ==
    ASSUME LedgerCtx, ListClients \/ GetClient
    PROVE  LedgerStep
<1>1. /\ w.pc \in {"listClients", "getClient"} /\ UNCHANGED <<cr, clients, secrets>>
      /\ ListClients <=> w.pc = "listClients"
  BY DEF ListClients, GetClient, Failed, registry
<1>2. PICK u \in CR : u = w.cur
  BY <1>1, Fields DEF LedgerCtx, TypeInv
<1>3. w.oc \in Object
  BY <1>1, Fields DEF LedgerCtx, TypeInv
<1>4. InHandId[u] = 0 /\ (KnownId[u] = IF ListClients THEN w.creds ELSE w.oc.id)
  BY <1>1, <1>2, HandOf
<1>5. ListClients => w.oc.id = 0
  BY <1>1 DEF LedgerCtx, LeakInv, Pass, Unrecorded
<1>6. ASSUME w'.cur = u, w'.pc \notin {"listClients", "writeSecret"},
             w'.oc.id \in {KnownId[u], 0}
      PROVE  LedgerStep
  <2>1. KnownId'[u] = w'.oc.id /\ InHandId'[u] = 0
    BY <1>6, HandOf
  <2> QED
    BY <1>1, <1>2, <1>4, <1>6, <2>1, Reads
<1>7. CASE \E r : w' = At("status", NotReady(w.oc, r))
  <2>1. PICK r : w' = At("status", NotReady(w.oc, r))
    BY <1>7
  <2>2. NotReady(w.oc, r).id = w.oc.id
    BY <1>3, KeepsLife
  <2>3. w'.cur = u /\ w'.pc = "status" /\ w'.oc.id = w.oc.id
    BY <1>2, <2>1, <2>2 DEF At, Job
  <2> QED
    BY <1>4, <1>5, <1>6, <2>3
<1>8. CASE \/ w' = At("register", w.oc)
           \/ \E id : w' = [At("burnOrphan", w.oc) EXCEPT !.doomed = {id}]
           \/ \E b : w' = [At("readSecret", w.oc) EXCEPT !.drifted = b]
  <2>1. /\ w'.cur = u /\ w'.pc \in {"register", "burnOrphan", "readSecret"}
        /\ w'.oc.id = w.oc.id
    BY <1>2, <1>8 DEF At, Job
  <2> QED
    BY <1>4, <1>5, <1>6, <2>1
<1>9. CASE w' = At("status", Unregistered(w.oc))
  <2>1. w'.cur = u /\ w'.pc = "status" /\ w'.oc.id = 0
    BY <1>2, <1>3, <1>9, KeepsLife DEF At, Job
  <2> QED
    BY <1>6, <2>1
<1>10. CASE ListClients /\ w' = At("getClient", [w.oc EXCEPT !.id = w.creds])
  <2>1. LET p == [w.oc EXCEPT !.id = w.creds] IN p.id = w.creds
    BY <1>3, KeepsLife
  <2>2. w'.cur = u /\ w'.pc = "getClient" /\ w'.oc.id = w.creds
    BY <1>2, <1>10, <2>1 DEF At, Job
  <2> QED
    BY <1>4, <1>6, <1>10, <2>2
<1>11. CASE ListClients
  <2>1. \/ w' = At("register", w.oc)
        \/ \E id : w' = [At("burnOrphan", w.oc) EXCEPT !.doomed = {id}]
        \/ w' = At("getClient", [w.oc EXCEPT !.id = w.creds])
        \/ \E r : w' = At("status", NotReady(w.oc, r))
    BY <1>11 DEF ListClients, Failed, Fail, Go
  <2> QED
    BY <1>7, <1>8, <1>10, <1>11, <2>1
<1>12. CASE GetClient
  <2>1. \/ w' = At("status", Unregistered(w.oc))
        \/ \E b : w' = [At("readSecret", w.oc) EXCEPT !.drifted = b]
        \/ \E r : w' = At("status", NotReady(w.oc, r))
    BY <1>12 DEF GetClient, Failed, Fail, Go
  <2> QED
    BY <1>7, <1>8, <1>9, <2>1
<1> QED
  BY <1>11, <1>12
\* The id that a pass finds, in the status or in the Secret it vetted.
LEMMA Finds ==
    ASSUME NEW u \in CR, w'.cur = u, w.cur \in {u, None},
           UNCHANGED <<cr, clients, secrets>>,
           InHandId[u] = 0, InHandId'[u] = 0,
           KnownId'[u] \in PublishedIds[u] \cup {RecordedId[u]}
    PROVE  LedgerStep
<1>1. \A v \in CR : SameCR(v) /\ SameLive(v) /\ SamePublished(v)
  <2>1. \A v \in CR : Obj(v)' = Obj(v)
    BY DEF Obj
  <2>2. \A v \in CR, n \in SecretName : SameGift(v, Sec(n), Sec(n)')
    BY Gifts DEF Sec
  <2> QED
    BY <2>1, <2>2, SameParts
<1>2. OnlyEntry(u)
  <2>1. ASSUME NEW v \in CR, v # u PROVE SameEntry(v)
    <3>1. w.cur # v /\ w'.cur # v
      BY <2>1, NoneAssumption
    <3>2. SameHand(v)
      BY <3>1, HandOf DEF SameHand
    <3> QED
      BY <1>1, <3>2, SameParts
  <2> QED
    BY <2>1 DEF OnlyEntry
<1> QED
  BY <1>1, <1>2, LookStep DEF LedgerStep

\* A pass begins with the id in the status.
LEMMA StartRefines ==
    ASSUME PromptWatch, LedgerCtx, NEW u \in CR, StartReconcile(u)
    PROVE  LedgerStep
<1> DEFINE o == Cached(cr[u])
<1>1. o = Obj(u) /\ o \in Object
  <2>1. cr[u] \in Histories(Object) /\ Len(cr[u]) = 1
    BY DEF StartReconcile, Synced, LedgerCtx, TypeInv, KubeType
  <2> QED
    BY <2>1, HistoryOps DEF Cached, Stored, Obj, Histories
<1>2. UNCHANGED <<cr, clients, secrets>> /\ w.pc = "idle"
  BY DEF StartReconcile, registry
<1>3. w.cur = None /\ None # u
  BY <1>2, NoneAssumption DEF LedgerCtx, LedgerInv, HandInv
<1>4. InHandId[u] = 0
  BY <1>3, HandOf
<1>5. CASE w' = w
  <2>1. SameJob
    BY <1>5 DEF SameJob
  <2>2. \A v \in CR : Obj(v)' = Obj(v)
    BY <1>2 DEF Obj
  <2>3. \A v \in CR, n \in SecretName : SameGift(v, Sec(n), Sec(n)')
    BY <1>2, Gifts DEF Sec
  <2>4. \A v \in CR : SameEntry(v)
    BY <1>2, <2>1, <2>2, <2>3, SameParts
  <2> QED
    BY <2>4, Stutters DEF LedgerStep
<1>6. ASSUME w'.cur = u, w'.oc.id = o.id, w'.pc \notin {"listClients", "writeSecret"},
             o.phase # "gone"
      PROVE  LedgerStep
  <2>1. KnownId'[u] = o.id /\ InHandId'[u] = 0
    BY <1>6, HandOf
  <2>2. RecordedId[u] = o.id
    BY <1>1, <1>6 DEF RecordedId
  <2> QED
    BY <1>2, <1>3, <1>4, <1>6, <2>1, <2>2, Finds
<1>7. CASE o.phase = "live" /\ w' = Begin(u, o, Synced(cr[u]))
  <2>1. NotReady(o, "SpecInvalid").id = o.id
    BY <1>1, KeepsLife
  <2>2. w'.cur = u /\ w'.oc.id = o.id /\ w'.pc \in {"status", "discovery"}
    BY <1>7, <2>1 DEF Begin, Job
  <2> QED
    BY <1>6, <1>7, <2>2
<1>8. CASE /\ o.phase \in {"live", "deleting"}
           /\ \/ w' = Job(u, o, Synced(cr[u]), "addFinalizer")
              \/ w' = BeginDelete(u, o, Synced(cr[u]))
  <2>1. /\ w'.cur = u /\ w'.oc = o
        /\ w'.pc \in {"addFinalizer", "removeFinalizer", "deregister", "listForCleanup"}
    BY <1>8 DEF BeginDelete, Job
  <2> QED
    BY <1>6, <1>8, <2>1
<1> QED
  BY <1>5, <1>7, <1>8 DEF StartReconcile

\* The credentials of the vetted Secret are the CR's own, or there are none.
LEMMA VetRefines ==
    ASSUME LedgerCtx, VetTarget
    PROVE  LedgerStep
<1>1. w.pc = "vetTarget" /\ UNCHANGED <<cr, clients, secrets>>
  BY DEF VetTarget, Failed, registry
<1>2. PICK u \in CR : u = w.cur
  BY <1>1, Fields DEF LedgerCtx, TypeInv
<1> DEFINE n == w.oc.spec.secret
           sec == Sec(n)
<1>3. w.oc \in Object /\ n \in SecretName
  BY <1>1, Fields, ObjectOps DEF LedgerCtx, TypeInv
<1>4. w.oc.id = 0 /\ Obj(u).id = 0 /\ InHandId[u] = 0 /\ KnownId[u] = 0
  <2>1. w.oc.id = 0 /\ Obj(u).id = 0
    BY <1>1, <1>2 DEF LedgerCtx, LeakInv, Pass, Unrecorded, ByStatus
  <2> QED
    BY <1>1, <1>2, <2>1, HandOf
<1>5. CASE \E r : w' = At("status", NotReady(w.oc, r))
  <2>1. PICK r : w' = At("status", NotReady(w.oc, r))
    BY <1>5
  <2>2. NotReady(w.oc, r).id = w.oc.id
    BY <1>3, KeepsLife
  <2>3. w'.cur = u /\ w'.pc = "status" /\ w'.oc.id = 0
    BY <1>2, <1>4, <2>1, <2>2 DEF At, Job
  <2>4. KnownId'[u] = 0 /\ InHandId'[u] = 0
    BY <2>3, HandOf
  <2> QED
    BY <1>1, <1>2, <1>4, <2>3, <2>4, Reads
<1>6. CASE Adoptable(sec, u) /\ w' = [At("listClients", w.oc) EXCEPT !.creds = sec.creds]
  <2>1. w'.cur = u /\ w'.pc = "listClients" /\ w'.creds = sec.creds
    BY <1>2, <1>6 DEF At, Job
  <2>2. KnownId'[u] = sec.creds /\ InHandId'[u] = 0
    BY <2>1, HandOf
  <2>3. RecordedId[u] = 0
    BY <1>4 DEF RecordedId
  <2>4. sec.exists \/ sec.creds = 0
    BY <1>3, VersionsType DEF LedgerCtx, LedgerInv, NoStrayCreds, Sec
  <2>5. sec.creds # 0 => sec.creds \in PublishedIds[u]
    BY <1>3, <1>6, <2>4 DEF PublishedIds, Adoptable, Owned
  <2> QED
    BY <1>1, <1>2, <1>4, <2>1, <2>2, <2>3, <2>5, Finds
<1> QED
  BY <1>2, <1>5, <1>6 DEF VetTarget, Failed, Fail, Go, APIRead, Sec
\* A deletion takes a registration of the CR's own, its only one, or none.
LEMMA TakesOwn ==
    ASSUME LedgerCtx, w.pc # "idle", NEW u \in CR, u = w.cur,
           NEW id \in {w.oc.id} \cup w.doomed,
           clients' \in {clients, Without(clients, id)}
    PROVE  /\ LiveIds'[u] \in {LiveIds[u], {}}
           /\ \A v \in CR \ {u} : Fingerprinted(clients', v) = Fingerprinted(clients, v)
<1>1. CASE clients' = clients
  BY <1>1 DEF LiveIds
<1>2. CASE clients' = Without(clients, id) /\ clients' # clients
  <2>1. PICK c \in clients : c.id = id
    BY <1>2 DEF Without
  <2>2. c.fp = u
    BY <2>1 DEF LedgerCtx, OwnInv, HandOwn, OneInv
  <2>3. \A d \in clients : d.fp = u => d = c
    BY <2>2, NoneAssumption DEF LedgerCtx, OneInv, AtMostOneRegistration
  <2>4. Fingerprinted(clients', u) = {}
    BY <1>2, <2>1, <2>3 DEF Fingerprinted, Without
  <2>5. \A d \in clients : d.id = id => d = c
    BY <2>1 DEF LedgerCtx, OwnInv, IdsUnique
  <2>6. \A v \in CR \ {u} : Fingerprinted(clients', v) = Fingerprinted(clients, v)
    BY <1>2, <2>2, <2>5 DEF Fingerprinted, Without
  <2>7. LiveIds'[u] = {}
    BY <2>4 DEF LiveIds
  <2> QED
    BY <2>6, <2>7
<1> QED
  BY <1>1, <1>2

\* DELETE, for whatever reason.
LEMMA DeletionRefines ==
    ASSUME "late" \notin Faults, LedgerCtx,
           BurnOrphan \/ BurnClient \/ Deregister \/ SweepOne
    PROVE  LedgerStep
<1>1. /\ w.pc \in {"burnOrphan", "burnClient", "deregister", "sweep"}
      /\ UNCHANGED <<cr, secrets>>
  BY DEF BurnOrphan, BurnClient, Deregister, SweepOne
<1>2. PICK u \in CR : u = w.cur
  BY <1>1, Fields DEF LedgerCtx, TypeInv
<1>3. w.oc \in Object
  BY <1>1, Fields DEF LedgerCtx, TypeInv
<1>4. InHandId[u] = 0 /\ KnownId[u] = w.oc.id
  BY <1>1, <1>2, HandOf
<1>5. \A op, id : ~GiveUp(op, id)
  BY DEF GiveUp, Fault
<1>6. PICK id \in {w.oc.id} \cup w.doomed : clients' \in {clients, Without(clients, id)}
  BY <1>5 DEF BurnOrphan, BurnClient, Deregister, SweepOne, DeleteClient
<1>7. /\ w'.cur \in {u, None}
      /\ w'.cur = u => /\ w'.pc \notin {"listClients", "writeSecret"}
                       /\ w'.oc.id \in {w.oc.id, 0}
  <2>1. \/ w' \in {Idle, At("status", w.oc), At("status", Unregistered(w.oc)),
                    At("removeFinalizer", w.oc)}
        \/ \E r : w' = At("status", NotReady(w.oc, r))
        \/ \E S : w' = [At("sweep", w.oc) EXCEPT !.doomed = S]
    BY DEF BurnOrphan, BurnClient, Deregister, SweepOne, SweepOn, DeleteClient, Retry,
       Fail, Go
  <2>2. Unregistered(w.oc).id = 0 /\ \A r : NotReady(w.oc, r).id = w.oc.id
    BY <1>3, KeepsLife
  <2>3. u # None
    BY NoneAssumption
  <2>4. CASE w' = Idle
    BY <2>3, <2>4 DEF Idle, Job
  <2>5. CASE w' \in {At("status", w.oc), At("status", Unregistered(w.oc)),
                     At("removeFinalizer", w.oc)}
    BY <1>2, <2>2, <2>5 DEF At, Job
  <2>6. ASSUME NEW r, w' = At("status", NotReady(w.oc, r))
        PROVE  /\ w'.cur = u /\ w'.pc \notin {"listClients", "writeSecret"}
               /\ w'.oc.id \in {w.oc.id, 0}
    BY <1>2, <2>2, <2>6 DEF At, Job
  <2>7. ASSUME NEW S, w' = [At("sweep", w.oc) EXCEPT !.doomed = S]
        PROVE  /\ w'.cur = u /\ w'.pc \notin {"listClients", "writeSecret"}
               /\ w'.oc.id \in {w.oc.id, 0}
    BY <1>2, <2>7 DEF At, Job
  <2> QED
    BY <2>1, <2>4, <2>5, <2>6, <2>7
<1>8. InHandId'[u] = 0 /\ KnownId'[u] \in {KnownId[u], 0}
  BY <1>4, <1>7, HandOf
<1>9. \A v \in CR : Obj(v)' = Obj(v)
  BY <1>1 DEF Obj
<1>10. \A v \in CR, n \in SecretName : SameGift(v, Sec(n), Sec(n)')
  BY <1>1, Gifts DEF Sec
<1>11. /\ LiveIds'[u] \in {LiveIds[u], {}}
       /\ \A v \in CR \ {u} : Fingerprinted(clients', v) = Fingerprinted(clients, v)
  BY <1>1, <1>2, <1>6, TakesOwn
<1>12. OnlyEntry(u)
  BY <1>2, <1>7, <1>9, <1>10, <1>11, OthersKeepEntries
<1>13. SameCR(u) /\ SamePublished(u)
  BY <1>9, <1>10, SameParts
<1> QED
  BY <1>4, <1>8, <1>11, <1>12, <1>13, Recedes DEF LedgerStep

\* An edit keeps every id, and whose it is.
LEMMA EditRefines ==
    ASSUME "late" \notin Faults, LedgerCtx, EditClient
    PROVE  LedgerStep
<1>1. w.pc = "editClient" /\ UNCHANGED <<cr, secrets>>
  BY DEF EditClient
<1>2. PICK u \in CR : u = w.cur
  BY <1>1, Fields DEF LedgerCtx, TypeInv
<1>3. w.oc \in Object
  BY <1>1, Fields DEF LedgerCtx, TypeInv
<1>4. \A op, id : ~GiveUp(op, id)
  BY DEF GiveUp, Fault
<1>5. clients' \in {clients, Renamed(clients, w.oc.id, u, w.oc.spec.cfg)}
  BY <1>2, <1>4 DEF EditClient, Edited, registry
<1>6. ASSUME NEW v \in CR
      PROVE  SameLive(v)
  <2> DEFINE f(c) == IF c.id = w.oc.id THEN [c EXCEPT !.fp = u, !.cfg = w.oc.spec.cfg]
                                       ELSE c
  <2>1. \A c \in clients : f(c).id = c.id /\ f(c).fp = c.fp
    <3>1. ASSUME NEW c \in clients, c.id = w.oc.id
          PROVE  c.fp = u
      BY <1>1, <1>2, <3>1 DEF LedgerCtx, OwnInv, HandOwn, OneInv
    <3>2. clients \subseteq Registration
      BY DEF LedgerCtx, TypeInv, RegistryType
    <3> QED
      BY <3>1, <3>2 DEF Registration
  <2>2. CASE clients' = clients
    BY <2>2, SameParts
  <2>3. CASE clients' = {f(c) : c \in clients}
    <3> HIDE DEF f
    <3> QED
      BY <2>1, <2>3 DEF SameLive, LiveIds, Fingerprinted
  <2> QED
    BY <1>5, <2>2, <2>3 DEF Renamed
<1>7. /\ w'.cur = u /\ w'.pc \in {"verifyEdit", "status"} /\ w'.oc.id = w.oc.id
  <2>1. NotReady(w.oc, "InPlaceUpdateFailed").id = w.oc.id
    BY <1>3, KeepsLife
  <2> QED
    BY <1>2, <2>1 DEF EditClient, Fail, Go, At, Job
<1>8. ASSUME NEW v \in CR
      PROVE  SameEntry(v)
  <2>1. SameHand(v)
    <3>1. CASE v = u
      BY <1>1, <1>2, <1>7, <3>1, HandOf DEF SameHand
    <3>2. CASE v # u
      BY <1>2, <1>7, <3>2, HandOf DEF SameHand
    <3> QED
      BY <3>1, <3>2
  <2>2. SameCR(v) /\ SamePublished(v)
    <3>1. Obj(v)' = Obj(v)
      BY <1>1 DEF Obj
    <3>2. \A n \in SecretName : SameGift(v, Sec(n), Sec(n)')
      BY <1>1, Gifts DEF Sec
    <3> QED
      BY <3>1, <3>2, SameParts
  <2> QED
    BY <1>6, <2>1, <2>2, SameParts
<1> QED
  BY <1>8, Stutters DEF LedgerStep
\* A registration is made where there is none, with an id that nothing has.
LEMMA RegisterRefines ==
    ASSUME "late" \notin Faults, LedgerCtx, Register
    PROVE  LedgerStep
<1>1. w.pc = "register" /\ UNCHANGED <<cr, secrets>> /\ FreeIds # {}
  BY DEF Register
<1>2. PICK u \in CR : u = w.cur
  BY <1>1, Fields DEF LedgerCtx, TypeInv
<1>3. w.oc \in Object
  BY <1>1, Fields DEF LedgerCtx, TypeInv
<1>4. \A op, id : ~GiveUp(op, id)
  BY DEF GiveUp, Fault
<1> DEFINE id == NewId
<1>5. id \in 1..MaxId
  BY <1>1 DEF NewId, FreeIds
<1>6. InHandId[u] = 0 /\ KnownId[u] = w.oc.id
  BY <1>1, <1>2, HandOf
<1>7. /\ w'.cur = u /\ w'.oc.id = w.oc.id
      /\ \/ w'.pc = "status"
         \/ w'.pc = "writeSecret" /\ w'.creds = id
  <2>1. \/ w' = [At("writeSecret", w.oc) EXCEPT !.creds = id]
        \/ w' = At("status", NotReady(w.oc, "RegistrationFailed"))
    BY DEF Register, Fail, Go
  <2>2. NotReady(w.oc, "RegistrationFailed").id = w.oc.id
    BY <1>3, KeepsLife
  <2> HIDE DEF id
  <2> QED
    BY <1>2, <2>1, <2>2 DEF At, Job
<1>8. InHandId'[u] \in {InHandId[u], id} /\ KnownId'[u] = KnownId[u]
  BY <1>6, <1>7, HandOf
<1>9. /\ SameCR(u) /\ SamePublished(u)
      /\ \A v \in CR : Obj(v)' = Obj(v)
      /\ \A v \in CR, n \in SecretName : SameGift(v, Sec(n), Sec(n)')
  <2>1. \A v \in CR : Obj(v)' = Obj(v)
    BY <1>1 DEF Obj
  <2>2. \A v \in CR, n \in SecretName : SameGift(v, Sec(n), Sec(n)')
    BY <1>1, Gifts DEF Sec
  <2> QED
    BY <2>1, <2>2, SameParts
<1>10. CASE clients' = clients
  <2>1. w'.pc = "status"
    <3>1. clients # Registered(clients, NewId, w.cur, w.oc.spec.cfg)
      <4> DEFINE new == [id |-> NewId, fp |-> w.cur, by |-> w.cur,
                         cfg |-> w.oc.spec.cfg]
      <4>1. new.id = NewId /\ new \in clients \cup {new}
        OBVIOUS
      <4>2. new \notin clients
        BY <1>1, <4>1, NewIdFresh
      <4> QED
        BY <4>1, <4>2 DEF Registered
    <3>2. w' = At("status", NotReady(w.oc, "RegistrationFailed"))
      BY <1>4, <1>10, <3>1 DEF Register, Fail, Go
    <3> QED
      BY <3>2 DEF At, Job
  <2>2. OnlyEntry(u)
    BY <1>2, <1>7, <1>9, <1>10, OthersKeepEntries
  <2>3. InHandId'[u] = 0
    BY <1>7, <2>1, HandOf
  <2>4. SameLive(u)
    BY <1>10, SameParts
  <2> QED
    BY <1>6, <1>8, <1>9, <2>2, <2>3, <2>4, StutterStep DEF SameHand, LedgerStep
<1>11. CASE clients' = Registered(clients, id, u, w.oc.spec.cfg)
  <2>1. \A v \in CR \ {u} : Fingerprinted(clients', v) = Fingerprinted(clients, v)
    BY <1>11 DEF Fingerprinted, Registered
  <2>2. Fingerprinted(clients, u) = {}
    BY <1>1, <1>2 DEF LedgerCtx, OneInv
  <2>3. LiveIds[u] = {} /\ LiveIds'[u] = {id}
    <3>1. Fingerprinted(clients', u) =
            {[id |-> id, fp |-> u, by |-> u, cfg |-> w.oc.spec.cfg]}
      BY <1>11, <2>2 DEF Fingerprinted, Registered
    <3>2. \A c : {d.id : d \in {c}} = {c.id}
      OBVIOUS
    <3>3. LiveIds'[u] = {d.id : d \in Fingerprinted(clients', u)}
      BY DEF LiveIds
    <3>4. LiveIds[u] = {}
      BY <2>2 DEF LiveIds
    <3> QED
      BY <3>1, <3>2, <3>3, <3>4
  <2>4. OnlyEntry(u)
    BY <1>2, <1>7, <1>9, <2>1, OthersKeepEntries
  <2>5. ~Left[u]
    BY <1>1, <1>2 DEF Left, LedgerCtx, LeakInv, Pass
  <2>6. Ledger!Unused(id)
    <3>1. ASSUME NEW v \in CR
          PROVE  id \notin LiveIds[v] \cup PublishedIds[v]
                           \cup {RecordedId[v], InHandId[v], KnownId[v]}
      <4>1. id \notin LiveIds[v]
        BY <1>1, NewIdFresh DEF LiveIds, Fingerprinted
      <4>2. id \notin PublishedIds[v]
        BY <1>1, NewCredsFresh, VersionsType DEF PublishedIds, Sec, LedgerCtx
      <4>3. id # RecordedId[v]
        <5>1. cr[v] \in Histories(Object)
          BY DEF LedgerCtx, TypeInv, KubeType
        <5>2. Obj(v).id # id
          BY <1>1, <5>1, NewIdFresh, CarriesOps DEF Obj
        <5> QED
          BY <1>1, <5>2, NewIdFresh DEF RecordedId
      <4>4. id # InHandId[v] /\ id # KnownId[v]
        BY <1>1, NewIdFresh DEF InHandId, KnownId
      <4> QED
        BY <4>1, <4>2, <4>3, <4>4
    <3> HIDE DEF id
    <3> QED
      BY <3>1 DEF Ledger!Unused
  <2> HIDE DEF id
  <2> QED
    BY <1>5, <1>8, <1>9, <2>3, <2>4, <2>5, <2>6, IssueStep DEF LedgerStep
<1> QED
  BY <1>2, <1>4, <1>10, <1>11 DEF Register
-----------------------------------------------------------------------------
(* The steps that write Secrets.                                           *)

\* The worker writes no Secret of another CR, and makes none.
LEMMA GivesOnlyItsOwn ==
    ASSUME LedgerCtx, WriteSecret \/ SyncSecret \/ DeleteOldSecret,
           NEW v \in CR, v # w.cur, NEW n \in SecretName
    PROVE  SameGift(v, Sec(n), Sec(n)')
<1>1. CASE Owned(Sec(n), v)
  <2>1. Sec(n).exists /\ Sec(n).owner # w.cur
    BY <1>1 DEF Owned
  <2>2. Sec(n)' = Sec(n)
    BY <2>1, UpsertOwn, DeleteOldOwn DEF LedgerCtx, Sec
  <2> QED
    BY <2>2, Gifts
<1>2. CASE ~Owned(Sec(n), v)
  <2>1. \/ Sec(n)' = Sec(n)
        \/ ~Sec(n)'.exists \/ Sec(n)'.owner = w.cur
    <3>1. CASE WriteSecret \/ SyncSecret
      <4> DEFINE m == w.oc.spec.secret
                 seen == Visible(Cached(secrets[m]))
                 want(k) == [exists |-> TRUE, owner |-> w.cur,
                             creds |-> IF k = 0 THEN seen.creds ELSE k,
                             cfg |-> w.oc.spec.cfg, managed |-> TRUE]
      <4>1. w.pc # "idle" /\ w.creds \in Nat /\ m \in SecretName
        BY <3>1, Fields, ObjectOps DEF LedgerCtx, TypeInv, WriteSecret, SyncSecret
      <4>2. \A k \in {0, w.creds} : want(k) \in Secret /\ want(k).owner = w.cur
        BY <4>1, WantType DEF LedgerCtx, TypeInv
      <4>3. \/ UNCHANGED secrets
            \/ \E k \in {0, w.creds} : PutSecret(m, want(k))
        BY <3>1 DEF WriteSecret, SyncSecret, Upsert
      <4> HIDE DEF m, want
      <4>4. \A k \in {0, w.creds} : PutSecret(m, want(k)) =>
              /\ Stored(secrets'[m]) = want(k)
              /\ \A x \in SecretName : x # m => secrets'[x] = secrets[x]
        BY <4>1, <4>2, PutSecretStores DEF LedgerCtx
      <4> QED
        BY <4>2, <4>3, <4>4 DEF Sec
    <3>2. CASE DeleteOldSecret
      <4>1. w.oc.secret \in SecretName
        BY <3>2 DEF LedgerCtx, PinInv, DeleteOldSecret
      <4>2. UNCHANGED secrets \/ PutSecret(w.oc.secret, NoSecret)
        BY <3>2 DEF DeleteOldSecret
      <4>3. PutSecret(w.oc.secret, NoSecret) =>
              /\ Stored(secrets'[w.oc.secret]) = NoSecret
              /\ \A x \in SecretName : x # w.oc.secret => secrets'[x] = secrets[x]
        BY <4>1, NoSecretType, PutSecretStores DEF LedgerCtx
      <4>4. ~NoSecret.exists
        BY DEF NoSecret
      <4> QED
        BY <4>2, <4>3, <4>4 DEF Sec
    <3> QED
      BY <3>1, <3>2
  <2>2. ~Owned(Sec(n)', v) \/ Sec(n)' = Sec(n)
    BY <2>1 DEF Owned
  <2> QED
    BY <1>2, <2>2, Gifts
<1> QED
  BY <1>1, <1>2

\* The old Secret goes.
LEMMA DeleteOldRefines ==
    ASSUME LedgerCtx, DeleteOldSecret
    PROVE  LedgerStep
<1>1. w.pc = "deleteOld" /\ UNCHANGED <<cr, clients>>
  BY DEF DeleteOldSecret, registry
<1>2. PICK u \in CR : u = w.cur
  BY <1>1, Fields DEF LedgerCtx, TypeInv
<1>3. w.oc \in Object /\ w.oc.secret \in SecretName
  BY <1>1, Fields DEF LedgerCtx, TypeInv, PinInv
<1>4. /\ w'.cur = u /\ w'.pc \in {"vetTarget", "getClient", "status"}
      /\ w'.oc.id = w.oc.id
  <2> DEFINE p == [w.oc EXCEPT !.secret = None]
             q == NotReady(w.oc, "SecretCleanupFailed")
  <2>1. p.id = w.oc.id /\ q.id = w.oc.id
    BY <1>3, KeepsLife
  <2>2. w' = At("status", q) \/ \E pc \in {"vetTarget", "getClient"} : w' = At(pc, p)
    BY DEF DeleteOldSecret, AfterRename, Fail, Go
  <2> HIDE DEF p, q
  <2> QED
    BY <1>2, <2>1, <2>2 DEF At, Job
<1>5. SameHand(u)
  BY <1>1, <1>2, <1>4, HandOf DEF SameHand
<1>6. \A v \in CR : Obj(v)' = Obj(v)
  BY <1>1 DEF Obj
<1>7. SameCR(u) /\ SameLive(u)
  BY <1>1, <1>6, SameParts
<1>8. OnlyEntry(u)
  <2>1. \A v \in CR \ {u} : Fingerprinted(clients', v) = Fingerprinted(clients, v)
    BY <1>1
  <2>2. \A v \in CR \ {u} : \A n \in SecretName : SameGift(v, Sec(n), Sec(n)')
    BY <1>2, GivesOnlyItsOwn
  <2> QED
    BY <1>2, <1>4, <1>6, <2>1, <2>2, OthersKeepEntries
<1>9. PublishedIds'[u] \subseteq PublishedIds[u]
  <2>1. \A n \in SecretName : Sec(n)' = Sec(n) \/ ~Sec(n)'.exists
    <3>1. UNCHANGED secrets \/ PutSecret(w.oc.secret, NoSecret)
      BY DEF DeleteOldSecret
    <3>2. PutSecret(w.oc.secret, NoSecret) =>
            /\ Stored(secrets'[w.oc.secret]) = NoSecret
            /\ \A x \in SecretName : x # w.oc.secret => secrets'[x] = secrets[x]
      BY <1>3, NoSecretType, PutSecretStores DEF LedgerCtx
    <3>3. ~NoSecret.exists
      BY DEF NoSecret
    <3> QED
      BY <3>1, <3>2, <3>3 DEF Sec
  <2> QED
    BY <2>1 DEF PublishedIds, Owned
<1> QED
  BY <1>5, <1>7, <1>8, <1>9, WithdrawStep DEF LedgerStep
\* What Upsert writes, when it writes.
Want(creds) ==
    [exists |-> TRUE, owner |-> w.cur,
     creds |-> IF creds = 0 THEN Visible(Cached(secrets[w.oc.spec.secret])).creds
                            ELSE creds,
     cfg |-> w.oc.spec.cfg, managed |-> TRUE]

\* It writes nothing, or what it wants, over nothing or over what the CR owns
\* and the cache shows as it is.
LEMMA UpsertWrites ==
    ASSUME NEW creds, NEW Ok, NEW Err, Upsert(creds, Ok, Err)
    PROVE  LET n == w.oc.spec.secret
               seen == Visible(Cached(secrets[n]))
           IN \/ UNCHANGED secrets /\ (seen = Want(creds) \/ Err)
              \/ /\ PutSecret(n, Want(creds))
                 /\ IF seen.exists THEN Owned(seen, w.cur) /\ Synced(secrets[n])
                                   ELSE ~Stored(secrets[n]).exists
BY DEF Upsert, Want

\* The Secret is refreshed, and keeps the credentials that it has.
LEMMA SyncRefines ==
    ASSUME LedgerCtx, SyncSecret
    PROVE  LedgerStep
<1>1. w.pc = "syncSecret" /\ UNCHANGED <<cr, clients>>
  BY DEF SyncSecret, registry
<1>2. PICK u \in CR : u = w.cur
  BY <1>1, Fields DEF LedgerCtx, TypeInv
<1> DEFINE n == w.oc.spec.secret
           seen == Visible(Cached(secrets[n]))
<1>3. w.oc \in Object /\ n \in SecretName
  BY <1>1, Fields, ObjectOps DEF LedgerCtx, TypeInv
<1>4. w'.cur = u /\ w'.pc = "status" /\ w'.oc.id = w.oc.id
  <2>1. \/ w' = At("status", MarkReady(w.oc))
        \/ w' = At("status", NotReady(w.oc, "SecretWriteFailed"))
    BY DEF SyncSecret, Upsert, Fail, Go
  <2>2. MarkReady(w.oc).id = w.oc.id /\ NotReady(w.oc, "SecretWriteFailed").id = w.oc.id
    BY <1>3, KeepsLife
  <2> QED
    BY <1>2, <2>1, <2>2 DEF At, Job
<1>5. SameHand(u)
  BY <1>1, <1>2, <1>4, HandOf DEF SameHand
<1>6. \A v \in CR : Obj(v)' = Obj(v)
  BY <1>1 DEF Obj
<1>7. SameCR(u) /\ SameLive(u)
  BY <1>1, <1>6, SameParts
<1>8. OnlyEntry(u)
  <2>1. \A v \in CR \ {u} : Fingerprinted(clients', v) = Fingerprinted(clients, v)
    BY <1>1
  <2>2. \A v \in CR \ {u} : \A m \in SecretName : SameGift(v, Sec(m), Sec(m)')
    BY <1>2, GivesOnlyItsOwn
  <2> QED
    BY <1>2, <1>4, <1>6, <2>1, <2>2, OthersKeepEntries
<1>9. SamePublished(u)
  <2>1. CASE UNCHANGED secrets
    <3>1. \A m \in SecretName : SameGift(u, Sec(m), Sec(m)')
      BY <2>1, Gifts DEF Sec
    <3> QED
      BY <3>1, SameParts
  <2>2. CASE /\ PutSecret(n, Want(0))
             /\ IF seen.exists THEN Owned(seen, w.cur) /\ Synced(secrets[n])
                               ELSE ~Stored(secrets[n]).exists
    <3>1. Want(0) \in Secret /\ Want(0).owner = u /\ Want(0).exists
          /\ Want(0).creds = seen.creds
      BY <1>1, <1>2, WantType DEF Want, LedgerCtx, TypeInv
    <3>2. /\ Stored(secrets'[n]) = Want(0)
          /\ \A m \in SecretName : m # n => secrets'[m] = secrets[m]
      BY <1>3, <2>2, <3>1, PutSecretStores DEF LedgerCtx
    <3>3. SameGift(u, Stored(secrets[n]), Want(0))
      <4>1. CASE seen.exists
        <5>1. seen = Cached(secrets[n])
          BY <4>1 DEF Visible, NoSecret
        <5>2. Cached(secrets[n]) = Stored(secrets[n])
          BY <1>3, <2>2, <4>1, VersionsOps DEF LedgerCtx, TypeInv, KubeType
        <5>3. Owned(Stored(secrets[n]), u)
          BY <1>2, <2>2, <4>1, <5>1, <5>2
        <5> QED
          BY <3>1, <5>1, <5>2, <5>3 DEF SameGift, Owned
      <4>2. CASE ~seen.exists
        <5>1. seen.creds = 0
          <6>1. Cached(secrets[n]).exists \/ Cached(secrets[n]).creds = 0
            BY <1>3, VersionsType DEF LedgerCtx, LedgerInv, NoStrayCreds
          <6> QED
            BY <4>2, <6>1 DEF Visible, NoSecret
        <5>2. ~Stored(secrets[n]).exists
          BY <2>2, <4>2
        <5> QED
          BY <3>1, <5>1, <5>2 DEF SameGift, Owned
      <4> QED
        BY <4>1, <4>2
    <3> HIDE DEF n
    <3>4. \A m \in SecretName : SameGift(u, Sec(m), Sec(m)')
      BY <3>2, <3>3, Gifts DEF Sec
    <3> QED
      BY <3>4, SameParts
  <2> QED
    BY <2>1, <2>2, UpsertWrites DEF SyncSecret
<1> QED
  BY <1>5, <1>7, <1>8, <1>9, StutterStep DEF LedgerStep

\* The credentials in hand come into the Secret, or are lost.
LEMMA WriteSecretRefines ==
    ASSUME LedgerCtx, WriteSecret
    PROVE  LedgerStep
<1>1. w.pc = "writeSecret" /\ UNCHANGED <<cr, clients>>
  BY DEF WriteSecret, registry
<1>2. PICK u \in CR : u = w.cur
  BY <1>1, Fields DEF LedgerCtx, TypeInv
<1> DEFINE n == w.oc.spec.secret
           seen == Visible(Cached(secrets[n]))
<1>3. w.oc \in Object /\ n \in SecretName /\ w.creds \in Nat
  BY <1>1, Fields, ObjectOps DEF LedgerCtx, TypeInv
<1>4. w.oc.id = 0 /\ Unpublished(w.creds)
  BY <1>1 DEF LedgerCtx, LeakInv, Pass, Unrecorded, LedgerInv, HandInv
<1>5. InHandId[u] = w.creds /\ w.creds # 0 /\ KnownId[u] = 0
  BY <1>1, <1>2, <1>4, HandOf DEF Unpublished
<1>6. w'.cur = u /\ w'.pc = "status" /\ w'.oc.id \in {w.creds, 0}
  <2> DEFINE p == [w.oc EXCEPT !.id = w.creds]
             q == MarkReady(p)
  <2>1. \/ w' = At("status", q)
        \/ w' = At("status", NotReady(w.oc, "RegistrationFailed"))
    BY DEF WriteSecret, Upsert, Fail, Go
  <2>2. q.id = w.creds /\ NotReady(w.oc, "RegistrationFailed").id = w.oc.id
    BY <1>3, KeepsLife
  <2> HIDE DEF q
  <2> QED
    BY <1>2, <1>4, <2>1, <2>2 DEF At, Job
<1>7. InHandId'[u] = 0 /\ KnownId'[u] \in {KnownId[u], InHandId[u]}
  BY <1>5, <1>6, HandOf
<1>8. \A v \in CR : Obj(v)' = Obj(v)
  BY <1>1 DEF Obj
<1>9. SameCR(u) /\ SameLive(u)
  BY <1>1, <1>8, SameParts
<1>10. OnlyEntry(u)
  <2>1. \A v \in CR \ {u} : Fingerprinted(clients', v) = Fingerprinted(clients, v)
    BY <1>1
  <2>2. \A v \in CR \ {u} : \A m \in SecretName : SameGift(v, Sec(m), Sec(m)')
    BY <1>2, GivesOnlyItsOwn
  <2> QED
    BY <1>2, <1>6, <1>8, <2>1, <2>2, OthersKeepEntries
<1>11. Want(w.creds).creds = w.creds
  BY <1>4 DEF Want, Unpublished
<1>12. seen # Want(w.creds)
  <2>1. seen.creds # w.creds
    <3>1. Cached(secrets[n]).creds # w.creds
      BY <1>3, <1>4, VersionsType DEF Unpublished, LedgerCtx
    <3> QED
      BY <1>5, <3>1 DEF Visible, NoSecret
  <2> QED
    BY <1>11, <2>1
<1>13. CASE UNCHANGED secrets /\ Fail("RegistrationFailed")
  <2>1. SamePublished(u)
    <3>1. \A m \in SecretName : SameGift(u, Sec(m), Sec(m)')
      BY <1>13, Gifts DEF Sec
    <3> QED
      BY <3>1, SameParts
  <2>2. KnownId'[u] = 0
    <3>1. NotReady(w.oc, "RegistrationFailed").id = 0
      BY <1>3, <1>4, KeepsLife
    <3>2. w'.oc.id = 0
      BY <1>13, <3>1 DEF Fail, Go, At, Job
    <3> QED
      BY <1>6, <3>2, HandOf
  <2> QED
    BY <1>7, <1>9, <1>10, <2>1, <2>2, DropStep DEF LedgerStep
<1>14. CASE PutSecret(n, Want(w.creds))
  <2>1. Want(w.creds) \in Secret /\ Want(w.creds).owner = u /\ Want(w.creds).exists
    BY <1>1, <1>2, <1>3, WantType DEF Want, LedgerCtx, TypeInv
  <2>2. /\ Stored(secrets'[n]) = Want(w.creds)
        /\ \A m \in SecretName : m # n => secrets'[m] = secrets[m]
    BY <1>3, <1>14, <2>1, PutSecretStores DEF LedgerCtx
  <2>3. PICK k \in SecretName : k = n
    BY <1>3
  <2> DEFINE kept == {Sec(m).creds : m \in {x \in SecretName \ {k} :
                                              Owned(Sec(x), u) /\ Sec(x).creds # 0}}
  <2>4. kept \in SUBSET PublishedIds[u]
    BY DEF PublishedIds
  <2>5. PublishedIds'[u] = kept \cup {InHandId[u]}
    <3>1. Owned(Sec(k)', u) /\ Sec(k)'.creds = w.creds
      BY <1>11, <2>1, <2>2, <2>3 DEF Owned, Sec
    <3>2. \A m \in SecretName \ {k} : Sec(m)' = Sec(m)
      BY <2>2, <2>3 DEF Sec
    <3>3. PublishedIds'[u] = {Sec(m)'.creds : m \in {x \in SecretName :
                                Owned(Sec(x)', u) /\ Sec(x)'.creds # 0}}
      BY DEF PublishedIds
    <3>4. ASSUME NEW id \in PublishedIds'[u]
          PROVE  id \in kept \cup {InHandId[u]}
      <4>1. PICK m \in SecretName : Owned(Sec(m)', u) /\ Sec(m)'.creds # 0
                                    /\ id = Sec(m)'.creds
        BY <3>3, <3>4
      <4>2. CASE m = k
        BY <1>5, <3>1, <4>1, <4>2
      <4>3. CASE m # k
        BY <3>2, <4>1, <4>3
      <4> QED
        BY <4>2, <4>3
    <3>5. ASSUME NEW id \in kept
          PROVE  id \in PublishedIds'[u]
      <4>1. PICK m \in SecretName \ {k} : Owned(Sec(m), u) /\ Sec(m).creds # 0
                                          /\ id = Sec(m).creds
        BY <3>5
      <4> QED
        BY <3>2, <3>3, <4>1
    <3>6. InHandId[u] \in PublishedIds'[u]
      BY <1>5, <3>1, <3>3
    <3> QED
      BY <3>4, <3>5, <3>6
  <2> HIDE DEF kept
  <2> QED
    BY <1>5, <1>7, <1>9, <1>10, <2>4, <2>5, PublishStep DEF LedgerStep
<1> QED
  BY <1>12, <1>13, <1>14, UpsertWrites DEF WriteSecret
-----------------------------------------------------------------------------
(* The steps that write the CR.                                            *)

\* They touch nobody else's entry, nor the CR's registrations and Secrets.
LEMMA WriteCR ==
    ASSUME LedgerCtx, AddFinalizer \/ UpdateStatus \/ RemoveFinalizer,
           NEW u \in CR, u = w.cur
    PROVE  /\ UNCHANGED <<clients, secrets>>
           /\ OnlyEntry(u) /\ SameLive(u) /\ SamePublished(u)
           /\ InHandId[u] = 0 /\ KnownId[u] = w.oc.id
           /\ w' = Idle => InHandId'[u] = 0 /\ KnownId'[u] = 0
<1>1. /\ w.pc \in {"addFinalizer", "status", "removeFinalizer"}
      /\ UNCHANGED <<clients, secrets>>
  BY DEF AddFinalizer, UpdateStatus, RemoveFinalizer, registry
<1>2. w.oc \in Object
  BY <1>1, Fields DEF LedgerCtx, TypeInv
<1>3. w' = Idle => w'.cur = None /\ None # u
  BY NoneAssumption DEF Idle, Job
<1>4. w'.cur \in {u, None}
  <2>1. w' = Idle \/ w' = Begin(w.cur, [w.oc EXCEPT !.fin = TRUE], TRUE)
    BY DEF AddFinalizer, UpdateStatus, RemoveFinalizer, Retry
  <2> QED
    BY <1>3, <2>1 DEF Begin, Job
<1>5. UNCHANGED cr \/ \E o \in Object : Put(u, o)
  BY <1>2, ObjectOps DEF AddFinalizer, UpdateStatus, RemoveFinalizer
<1>6. \A v \in CR \ {u} : Obj(v)' = Obj(v)
  <2>1. CASE UNCHANGED cr
    BY <2>1 DEF Obj
  <2>2. CASE \E o \in Object : Put(u, o)
    BY <2>2, PutStores DEF LedgerCtx
  <2> QED
    BY <1>5, <2>1, <2>2
<1>7. \A v \in CR, n \in SecretName : SameGift(v, Sec(n), Sec(n)')
  BY <1>1, Gifts DEF Sec
<1>8. OnlyEntry(u)
  <2>1. \A v \in CR \ {u} : Fingerprinted(clients', v) = Fingerprinted(clients, v)
    BY <1>1
  <2> QED
    BY <1>4, <1>6, <1>7, <2>1, OthersKeepEntries
<1>9. SameLive(u) /\ SamePublished(u)
  BY <1>1, <1>7, SameParts
<1>10. /\ InHandId[u] = 0 /\ KnownId[u] = w.oc.id
       /\ w' = Idle => InHandId'[u] = 0 /\ KnownId'[u] = 0
  BY <1>1, <1>3, HandOf
<1> QED
  BY <1>1, <1>8, <1>9, <1>10

\* The finalizer goes onto what is stored.
LEMMA AddFinalizerRefines ==
    ASSUME LedgerCtx, AddFinalizer
    PROVE  LedgerStep
<1>1. PICK u \in CR : u = w.cur
  BY Fields DEF LedgerCtx, TypeInv, AddFinalizer
<1>2. /\ OnlyEntry(u) /\ SameLive(u) /\ SamePublished(u)
      /\ InHandId[u] = 0 /\ KnownId[u] = w.oc.id
      /\ w' = Idle => InHandId'[u] = 0 /\ KnownId'[u] = 0
  BY <1>1, WriteCR
<1>3. w.pc = "addFinalizer" /\ w.oc \in Object
  BY Fields DEF LedgerCtx, TypeInv, AddFinalizer
<1> DEFINE o == [w.oc EXCEPT !.fin = TRUE]
<1>4. o \in Object /\ o.phase = w.oc.phase /\ o.id = w.oc.id /\ o.spec = w.oc.spec
  BY <1>3, ObjectOps, KeepsLife, KeepsRest DEF SameRest
<1>5. SameCR(u)
  <2>1. CASE UNCHANGED cr
    <3>1. Obj(u)' = Obj(u)
      BY <2>1 DEF Obj
    <3> QED
      BY <3>1, SameParts
  <2>2. CASE w.fresh /\ Put(u, o)
    <3>1. w.oc = Obj(u)
      BY <1>1, <1>3, <2>2 DEF LedgerCtx, LeakInv, Pass, AsRead
    <3>2. Obj(u)' = o
      BY <1>4, <2>2, PutStores DEF LedgerCtx
    <3> QED
      BY <1>4, <3>1, <3>2 DEF SameCR, RecordedId, Orphaning, Left
  <2> QED
    BY <1>1, <2>1, <2>2 DEF AddFinalizer
<1>6. InHandId'[u] = 0 /\ KnownId'[u] \in {KnownId[u], 0}
  <2>1. w' = Idle \/ w' = Begin(w.cur, o, TRUE)
    BY DEF AddFinalizer, Retry
  <2>2. CASE w' = Begin(w.cur, o, TRUE)
    <3>1. NotReady(o, "SpecInvalid").id = o.id
      BY <1>4, KeepsLife
    <3>2. w'.cur = u /\ w'.pc \in {"status", "discovery"} /\ w'.oc.id = o.id
      BY <1>1, <2>2, <3>1 DEF Begin, Job
    <3> QED
      BY <1>2, <1>4, <3>2, HandOf
  <2> QED
    BY <1>2, <2>1, <2>2
<1> QED
  BY <1>2, <1>5, <1>6, Recedes DEF SameLive, LedgerStep

\* The status gets the id in hand, or loses that of a registration that is
\* gone, or keeps what it says.
LEMMA UpdateStatusRefines ==
    ASSUME LedgerCtx, UpdateStatus
    PROVE  LedgerStep
<1>1. PICK u \in CR : u = w.cur
  BY Fields DEF LedgerCtx, TypeInv, UpdateStatus
<1>2. w' = Idle /\ w.pc = "status" /\ w.oc \in Object
  BY Fields DEF LedgerCtx, TypeInv, UpdateStatus, Retry
<1>3. /\ OnlyEntry(u) /\ SameLive(u) /\ SamePublished(u)
      /\ InHandId[u] = 0 /\ KnownId[u] = w.oc.id
      /\ InHandId'[u] = 0 /\ KnownId'[u] = 0
  BY <1>1, <1>2, WriteCR
<1> DEFINE o == [w.oc EXCEPT !.obs = w.oc.gen]
<1>4. o \in Object /\ o.phase = w.oc.phase /\ o.id = w.oc.id /\ o.spec = w.oc.spec
  <2>1. o \in Object /\ o.phase = w.oc.phase /\ o.id = w.oc.id
    BY <1>2, ObjectOps, KeepsLife
  <2>2. SameRest(o, w.oc)
    BY <1>2, KeepsRest
  <2> QED
    BY <2>1, <2>2 DEF SameRest
<1>5. CASE UNCHANGED cr
  <2>1. Obj(u)' = Obj(u)
    BY <1>5 DEF Obj
  <2>2. SameCR(u)
    BY <2>1, SameParts
  <2> QED
    BY <1>3, <2>2, DropStep DEF LedgerStep
<1>6. CASE w.fresh /\ Put(u, o)
  <2>1. Obj(u)' = o
    BY <1>4, <1>6, PutStores DEF LedgerCtx
  <2>2. InStep(w, Obj(u), clients)
    BY <1>1, <1>2 DEF LedgerCtx, LedgerInv, HandInv
  <2>3. /\ Obj(u).phase \in {"live", "deleting"} /\ w.oc.phase \in {"live", "deleting"}
        /\ w.oc.spec = Obj(u).spec
    BY <1>1, <1>2, <1>6, <2>2 DEF LedgerCtx, LeakInv, Pass, InStep
  <2>4. Orphaning'[u] = Orphaning[u] /\ Left'[u] = Left[u] /\ ~Left[u]
    BY <1>4, <2>1, <2>3 DEF Orphaning, Left
  <2>5. RecordedId[u] = Obj(u).id /\ RecordedId'[u] = w.oc.id
    BY <1>4, <2>1, <2>3 DEF RecordedId
  <2>6. CASE w.oc.id = Obj(u).id
    BY <1>3, <2>4, <2>5, <2>6, DropStep DEF SameCR, LedgerStep
  <2>7. CASE w.oc.id # 0 /\ Obj(u).id = 0
    BY <1>3, <2>4, <2>5, <2>7, RecordStep DEF LedgerStep
  <2>8. CASE w.oc.id = 0 /\ ~Live(clients, Obj(u).id)
    <3>1. RecordedId[u] \notin LiveIds[u]
      BY <2>5, <2>8 DEF Live, LiveIds, Fingerprinted
    <3>2. SameHand(u)
      BY <1>3, <2>8 DEF SameHand
    <3> QED
      BY <1>3, <2>4, <2>5, <2>8, <3>1, <3>2, ForgetStep DEF LedgerStep
  <2> QED
    BY <2>2, <2>6, <2>7, <2>8 DEF InStep
<1> QED
  BY <1>1, <1>5, <1>6 DEF UpdateStatus

\* The CR goes when nothing is left in tsidp that it does not leave there.
LEMMA RemoveFinalizerRefines ==
    ASSUME LedgerCtx, RemoveFinalizer
    PROVE  LedgerStep
<1>1. PICK u \in CR : u = w.cur
  BY Fields DEF LedgerCtx, TypeInv, RemoveFinalizer
<1>2. w' = Idle /\ w.pc = "removeFinalizer" /\ w.oc \in Object
  BY Fields DEF LedgerCtx, TypeInv, RemoveFinalizer, Retry
<1>3. /\ OnlyEntry(u) /\ SameLive(u) /\ SamePublished(u)
      /\ InHandId[u] = 0 /\ InHandId'[u] = 0 /\ KnownId'[u] = 0
  BY <1>1, <1>2, WriteCR
<1> DEFINE o == [w.oc EXCEPT !.fin = FALSE, !.phase = "gone"]
<1>4. o \in Object /\ o.phase = "gone" /\ o.spec = w.oc.spec
  <2>1. o \in Object /\ o.phase = "gone"
    BY <1>2 DEF Object
  <2>2. SameRest(o, w.oc)
    BY <1>2, KeepsRest
  <2> QED
    BY <2>1, <2>2 DEF SameRest
<1>5. CASE UNCHANGED cr
  <2>1. Obj(u)' = Obj(u)
    BY <1>5 DEF Obj
  <2>2. SameCR(u)
    BY <2>1, SameParts
  <2> QED
    BY <1>3, <2>2, DropStep DEF LedgerStep
<1>6. CASE w.fresh /\ Put(u, o)
  <2>1. Obj(u)' = o
    BY <1>4, <1>6, PutStores DEF LedgerCtx
  <2>2. w.oc = Obj(u) /\ w.oc.phase \in {"live", "deleting"}
    BY <1>1, <1>2, <1>6 DEF LedgerCtx, LeakInv, Pass, AsRead
  <2>3. ~Left[u] /\ Left'[u] = TRUE /\ RecordedId'[u] = 0 /\ Orphaning'[u] = Orphaning[u]
    BY <1>4, <2>1, <2>2 DEF Left, RecordedId, Orphaning
  <2>4. Orphaning[u] \/ LiveIds[u] = {}
    <3>1. CASE w.oc.spec.deletion = "Orphan"
      BY <2>2, <3>1 DEF Orphaning
    <3>2. CASE w.oc.spec.deletion # "Orphan"
      <4>1. w.oc.spec.deletion = "Deregister"
        BY <1>2, <3>2, SpecsAssumption DEF Object
      <4>2. ~w.oc.force
        BY <1>2 DEF LedgerCtx, LedgerInv, HandInv, InStep
      <4>3. Only(clients, u, {})
        BY <1>1, <1>2, <4>1, <4>2 DEF LedgerCtx, LeakInv, Pass
      <4>4. \A c \in clients : c.fp # u
        BY <4>3 DEF Only, LedgerCtx, OneInv
      <4> QED
        BY <4>4 DEF LiveIds, Fingerprinted
    <3> QED
      BY <3>1, <3>2
  <2> QED
    BY <1>3, <2>3, <2>4, LeaveStep DEF LedgerStep
<1> QED
  BY <1>1, <1>5, <1>6 DEF RemoveFinalizer
-----------------------------------------------------------------------------
(* So is every step of the others.                                         *)

\* A user's write: the policy, or the end of a CR that has no finalizer.
LEMMA UserRefines ==
    ASSUME "force" \notin Faults, LedgerCtx, UserStep
    PROVE  LedgerStep
<1>1. PICK u \in CR, v \in Object :
        /\ Change(u, v) /\ UNCHANGED <<secrets, clients>>
        /\ v.id = Obj(u).id /\ v.fin = Obj(u).fin
        /\ Obj(u).phase # "gone"
        /\ v.phase = "gone" => ~v.fin /\ v.spec = Obj(u).spec
  BY UserWrites DEF LedgerCtx
<1>2. Obj(u)' = v /\ \A t \in CR \ {u} : Obj(t)' = Obj(t)
  BY <1>1, PutStores DEF Change, LedgerCtx
<1>3. SameJob
  BY <1>1, OthersJob DEF LedgerCtx
<1>4. \A t \in CR : SameHand(t) /\ SameLive(t) /\ SamePublished(t)
  <2>1. \A t \in CR, n \in SecretName : SameGift(t, Sec(n), Sec(n)')
    BY <1>1, Gifts DEF Sec
  <2> QED
    BY <1>1, <1>3, <2>1, SameParts
<1>5. OnlyEntry(u)
  BY <1>2, <1>4, SameParts DEF OnlyEntry
<1>6. ~Left[u]
  BY <1>1 DEF Left
<1>7. CASE v.phase # "gone"
  <2>1. RecordedId'[u] = RecordedId[u] /\ Left'[u] = Left[u]
    BY <1>1, <1>2, <1>7 DEF RecordedId, Left
  <2> QED
    BY <1>4, <1>5, <1>6, <2>1, PolicyStep DEF LedgerStep
<1>8. CASE v.phase = "gone"
  <2>1. ~Obj(u).fin
    BY <1>1, <1>8
  <2>2. Obj(u).id = 0
    BY <1>1, <2>1 DEF LedgerCtx, LedgerInv, CRsUnforced
  <2>3. Left'[u] = TRUE /\ RecordedId'[u] = 0 /\ Orphaning'[u] = Orphaning[u]
    BY <1>1, <1>2, <1>8 DEF Left, RecordedId, Orphaning
  <2>4. LiveIds[u] = {}
    <3>1. Only(clients, u, {})
      BY <1>1, <2>1 DEF LedgerCtx, LeakInv, Kept
    <3>2. \A c \in clients : c.fp # u
      BY <3>1 DEF Only, LedgerCtx, OneInv
    <3> QED
      BY <3>2 DEF LiveIds, Fingerprinted
  <2>5. KnownId[u] = 0
    <3>1. CASE w.cur # u
      BY <3>1, HandOf
    <3>2. CASE w.cur = u
      <4>1. w.pc # "idle"
        BY <3>2, NoneAssumption DEF LedgerCtx, LedgerInv, HandInv
      <4>2. Pass(w, Obj(u), clients)
        BY <3>2, <4>1 DEF LedgerCtx, LeakInv
      <4>3. w.pc = "addFinalizer" /\ w.oc.id = 0
        BY <2>1, <2>2, <4>1, <4>2 DEF Pass, ByStatus
      <4> QED
        BY <3>2, <4>3, HandOf
    <3> QED
      BY <3>1, <3>2
  <2>6. InHandId'[u] = InHandId[u] /\ KnownId'[u] = 0
    BY <1>4, <2>5 DEF SameHand
  <2> QED
    BY <1>4, <1>5, <1>6, <2>3, <2>4, <2>6, LeaveStep DEF LedgerStep
<1> QED
  BY <1>7, <1>8

\* Others' writes of Secrets publish nothing.
LEMMA TamperRefines ==
    ASSUME LedgerCtx, SecretStep \/ \E n \in SecretName : CollectGarbage(n)
    PROVE  LedgerStep
<1>1. PICK n \in SecretName, s \in Secret :
        /\ PutSecret(n, s) /\ UNCHANGED <<cr, clients>>
        /\ s.creds # 0 => /\ s.creds = Sec(n).creds /\ s.exists = Sec(n).exists
                          /\ s.owner = Sec(n).owner
  BY TamperWrites DEF LedgerCtx
<1>2. Sec(n)' = s /\ \A m \in SecretName \ {n} : Sec(m)' = Sec(m)
  BY <1>1, PutSecretVersions DEF LedgerCtx, Sec
<1>3. SameJob
  BY OthersJob DEF LedgerCtx
<1>4. \A t \in CR : SameHand(t) /\ SameLive(t) /\ SameCR(t)
  <2>1. \A t \in CR : Obj(t)' = Obj(t)
    BY <1>1 DEF Obj
  <2> QED
    BY <1>1, <1>3, <2>1, SameParts
<1>5. ASSUME NEW v \in CR, ~Owned(Sec(n), v)
      PROVE  SameEntry(v)
  <2>1. ~(Owned(s, v) /\ s.creds # 0)
    BY <1>1, <1>5 DEF Owned
  <2>2. SameGift(v, Sec(n), Sec(n)')
    BY <1>2, <1>5, <2>1 DEF SameGift
  <2>3. \A m \in SecretName : SameGift(v, Sec(m), Sec(m)')
    BY <1>2, <2>2, Gifts
  <2> QED
    BY <1>4, <2>3, SameParts
<1>6. CASE \A v \in CR : ~Owned(Sec(n), v)
  BY <1>5, <1>6, Stutters DEF LedgerStep
<1>7. ASSUME NEW u \in CR, Owned(Sec(n), u)
      PROVE  LedgerStep
  <2>1. OnlyEntry(u)
    BY <1>5, <1>7 DEF OnlyEntry, Owned
  <2>2. PublishedIds'[u] \subseteq PublishedIds[u]
    <3>1. \A m \in SecretName : Owned(Sec(m)', u) /\ Sec(m)'.creds # 0 =>
            Owned(Sec(m), u) /\ Sec(m)'.creds = Sec(m).creds
      BY <1>1, <1>2, <1>7
    <3> QED
      BY <3>1 DEF PublishedIds
  <2> QED
    BY <1>4, <2>1, <2>2, WithdrawStep DEF LedgerStep
<1> QED
  BY <1>6, <1>7

\* The watch is nothing to the ledger.
LEMMA WatchRefines ==
    ASSUME LedgerCtx, WatchStep
    PROVE  LedgerStep
<1>1. /\ \A v \in CR : Obj(v)' = Obj(v)
      /\ \A n \in SecretName : Sec(n)' = Sec(n)
      /\ UNCHANGED <<clients, w>>
  BY WatchWrites DEF LedgerCtx
<1>2. SameJob
  BY <1>1 DEF SameJob
<1>3. \A v \in CR : SameEntry(v)
  BY <1>1, <1>2, Gifts, SameParts
<1> QED
  BY <1>3, Stutters DEF LedgerStep

\* tsidp loses everything at once.
LEMMA LossRefines ==
    ASSUME LedgerCtx, LoseState
    PROVE  LedgerStep
<1>1. clients' = {} /\ UNCHANGED <<cr, secrets, w>>
  BY DEF LoseState
<1>2. LiveIds' = [v \in CR |-> {}]
  BY <1>1 DEF LiveIds, Fingerprinted
<1>3. UNCHANGED <<PublishedIds, RecordedId, InHandId, KnownId, Orphaning, Left>>
  BY <1>1 DEF PublishedIds, RecordedId, InHandId, KnownId, Orphaning, Left, Obj, Sec
<1>4. Ledger!Lose
  BY <1>2, <1>3 DEF Ledger!Lose
<1> QED
  BY <1>4 DEF Ledger!Next, LedgerStep

\* A restart: the pass is over, whatever it had in hand.
LEMMA RestartRefines ==
    ASSUME LedgerCtx, Restart
    PROVE  LedgerStep
<1>1. /\ \A v \in CR : Obj(v)' = Obj(v)
      /\ \A n \in SecretName : Sec(n)' = Sec(n)
      /\ UNCHANGED clients /\ w' = Idle
  BY RestartStores DEF LedgerCtx
<1>2. \A v \in CR : SameLive(v) /\ SamePublished(v) /\ SameCR(v)
  BY <1>1, Gifts, SameParts
<1>3. \A v \in CR : w'.cur # v
  BY <1>1, NoneAssumption DEF Idle, Job
<1>4. ASSUME NEW v \in CR, w.cur # v
      PROVE  SameEntry(v)
  <2>1. SameHand(v)
    BY <1>3, <1>4, HandOf DEF SameHand
  <2> QED
    BY <1>2, <2>1, SameParts
<1>5. CASE w.cur \notin CR
  BY <1>4, <1>5, Stutters DEF LedgerStep
<1>6. CASE w.cur \in CR
  <2>1. PICK u \in CR : u = w.cur
    BY <1>6
  <2>2. OnlyEntry(u)
    BY <1>4, <2>1 DEF OnlyEntry
  <2>3. InHandId'[u] = 0 /\ KnownId'[u] = 0
    BY <1>3, HandOf
  <2> QED
    BY <1>2, <2>2, <2>3, DropStep DEF LedgerStep
<1> QED
  BY <1>5, <1>6

\* Every step of the system.
LEMMA StepRefines ==
    ASSUME "late" \notin Faults, "adminEdit" \notin Faults, "force" \notin Faults,
           PromptWatch, LedgerCtx, [Next]_vars
    PROVE  LedgerStep
<1>1. CASE WorkerStep
  BY <1>1, StartRefines, AddFinalizerRefines, UpdateStatusRefines, ReadRefines,
     DeleteOldRefines, VetRefines, LookupRefines, DeletionRefines, RegisterRefines,
     WriteSecretRefines, EditRefines, SyncRefines, RemoveFinalizerRefines DEF WorkerStep
<1>2. CASE UserStep \/ SecretStep \/ WatchStep \/ Restart
           \/ \E n \in SecretName : CollectGarbage(n)
  BY <1>2, UserRefines, TamperRefines, WatchRefines, RestartRefines
<1>3. CASE TsidpStep
  <2>1. LoseState
    BY <1>3 DEF TsidpStep, AdminEdit, Fault, LedgerCtx, OneInv
  <2> QED
    BY <2>1, LossRefines
<1>4. CASE Quiescent \/ UNCHANGED vars
  <2>1. UNCHANGED <<cr, secrets, clients, w>>
    BY <1>4 DEF Quiescent, vars
  <2>2. UNCHANGED Ledger!vars
    BY <2>1 DEF Ledger!vars, LiveIds, PublishedIds, RecordedId, InHandId, KnownId,
       Orphaning, Left, Obj, Sec
  <2> QED
    BY <2>2 DEF LedgerStep
<1> QED
  BY <1>1, <1>2, <1>3, <1>4 DEF Next

\* The ledger begins empty.
LEMMA InitRefines == Init => Ledger!Init
<1> SUFFICES ASSUME Init PROVE Ledger!Init
  OBVIOUS
<1>1. \A u \in CR : Obj(u) = Blank
  BY DEF Init, Obj, Stored
<1>2. \A n \in SecretName : Sec(n) = NoSecret
  BY DEF Init, Sec, Stored
<1>3. w.cur = None /\ \A c \in clients : c.fp = None
  BY DEF Init, Idle, Job
<1>4. LiveIds = [u \in CR |-> {}]
  BY <1>3, NoneAssumption DEF LiveIds, Fingerprinted
<1>5. PublishedIds = [u \in CR |-> {}]
  BY <1>2 DEF PublishedIds, Owned, NoSecret
<1>6. InHandId = [u \in CR |-> 0] /\ KnownId = [u \in CR |-> 0]
  BY <1>3, NoneAssumption DEF InHandId, KnownId
<1>7. RecordedId = [u \in CR |-> 0] /\ Left = [u \in CR |-> FALSE]
  <2>1. Blank.id = 0 /\ Blank.phase # "gone"
    BY DEF Blank
  <2>2. \A u \in CR : Obj(u).id = 0 /\ Obj(u).phase # "gone"
    BY <1>1, <2>1
  <2> QED
    BY <2>2 DEF RecordedId, Left
<1>8. Orphaning \in [CR -> BOOLEAN]
  BY DEF Orphaning
<1> QED
  BY <1>4, <1>5, <1>6, <1>7, <1>8 DEF Ledger!Init

\* The system does with credentials what the ledger promises: a registration
\* when there is none, its credentials into a Secret before its id into the
\* status, the registration gone before the id is, and before the CR is if it
\* asks for that.  Without calls that tsidp gets to when the worker gave up on
\* them, edits behind the operator's back and CRs forced out, and if a pass
\* sees the CR as it was last written.
THEOREM LedgerImplemented ==
    ASSUME "late" \notin Faults, "adminEdit" \notin Faults, "force" \notin Faults,
           PromptWatch
    PROVE  Spec => ImplementsLedger
<1>1. Init => TypeInv /\ OwnInv /\ OneInv /\ PinInv /\ LeakInv /\ LedgerInv
  BY TypeInit, OwnInit, OneInit, LeakInit, LedgerInit DEF Init, PinInv, Idle, Job
<1>2. TypeInv /\ OwnInv /\ OneInv /\ PinInv /\ LeakInv /\ LedgerInv /\ [Next]_vars =>
        TypeInv' /\ OwnInv' /\ OneInv' /\ PinInv' /\ LeakInv' /\ LedgerInv'
  BY TypeNext, OwnNext, OneNext, PinNext, LeakNext, LedgerNext
<1>3. TypeInv /\ OwnInv /\ OneInv /\ PinInv /\ LeakInv /\ LedgerInv /\ [Next]_vars =>
        [Ledger!Next]_(Ledger!vars)
  BY StepRefines DEF LedgerCtx, LedgerStep
<1> QED
  BY <1>1, <1>2, <1>3, InitRefines, PTL DEF Spec, ImplementsLedger, Ledger!Spec
=============================================================================
