--------------------------- MODULE OIDCClientTypes ---------------------------
(***************************************************************************)
(* Type correctness of the operator, for every value of the constants.     *)
(***************************************************************************)
EXTENDS OIDCClientProperties, TLAPS

\* A reconcile works on a CR.
Busy == w.pc # "idle" => w.cur \in CR

\* The parts of the inductive invariant, by who changes them.
KubeType == /\ cr \in [CR -> Histories(Object)]
            /\ secrets \in [SecretName -> Histories(Secret)]
RegistryType == /\ clients \in SUBSET Registration
                /\ late \in SUBSET Request
QueueType == due \in SUBSET CR /\ faults \in Nat
WorkerType == w \in Worker /\ Busy

TypeInv == KubeType /\ RegistryType /\ QueueType /\ WorkerType

-----------------------------------------------------------------------------
(* Histories.                                                              *)

\* What a read, a write, a delivery and a restart make of a history: it
\* stays one, and only a write changes the stored version.
LEMMA HistoryOps ==
    ASSUME NEW V, NEW h \in Histories(V)
    PROVE  /\ Cached(h) \in V /\ Stored(h) \in V
           /\ \A v \in V : Push(h, v) \in Histories(V) /\ Stored(Push(h, v)) = v
           /\ CanDeliver(h) => /\ DeliverNext(h) \in Histories(V)
                               /\ Stored(DeliverNext(h)) = Stored(h)
           /\ Relist(h) \in Histories(V) /\ Stored(Relist(h)) = Stored(h)
<1>1. h \in Seq(V) /\ Len(h) \in Nat /\ Len(h) > 0
  BY DEF Histories
<1>2. Cached(h) \in V /\ Stored(h) \in V
  BY <1>1 DEF Cached, Stored
<1>3. ASSUME NEW v \in V
      PROVE  Push(h, v) \in Histories(V) /\ Stored(Push(h, v)) = v
  BY <1>1 DEF Push, Histories, Stored
<1>4. ASSUME CanDeliver(h)
      PROVE  DeliverNext(h) \in Histories(V) /\ Stored(DeliverNext(h)) = Stored(h)
  <2>1. Len(h) > 1
    BY <1>4 DEF CanDeliver
  <2>2. Tail(h) \in Seq(V) /\ Len(Tail(h)) = Len(h) - 1
    BY <1>1, <2>1
  <2>3. Tail(h)[Len(h) - 1] = h[Len(h)]
    BY <1>1, <2>1
  <2> QED
    BY <1>1, <2>1, <2>2, <2>3 DEF DeliverNext, Histories, Stored
<1>5. Relist(h) \in Histories(V) /\ Stored(Relist(h)) = Stored(h)
  BY <1>2 DEF Relist, Histories, Stored
<1> QED
  BY <1>2, <1>3, <1>4, <1>5

\* A stored CR and a stored Secret after a write to one of them.
LEMMA PutType ==
    ASSUME NEW u, NEW o \in Object, cr \in [CR -> Histories(Object)], Put(u, o)
    PROVE  cr' \in [CR -> Histories(Object)]
BY HistoryOps DEF Put

\* The same for a write to a Secret.
LEMMA PutSecretType ==
    ASSUME NEW n, NEW s \in Secret, secrets \in [SecretName -> Histories(Secret)],
           PutSecret(n, s)
    PROVE  secrets' \in [SecretName -> Histories(Secret)]
BY HistoryOps DEF PutSecret

-----------------------------------------------------------------------------
(* Objects and jobs.                                                       *)

\* What users write names configs and Secrets that exist.
LEMMA SpecType ==
    ASSUME NEW s \in Specs
    PROVE  s.cfg \in Config /\ s.secret \in SecretName
BY SpecsAssumption

\* The CR that does not exist yet is an object.
LEMMA BlankType == Blank \in Object
<1>1. (CHOOSE s \in Specs : TRUE) \in Specs
  BY SpecsAssumption
<1> QED
  BY <1>1 DEF Blank, Object, Reasons

\* The Secret that does not exist is one too.
LEMMA NoSecretType == NoSecret \in Secret
BY DEF NoSecret, Secret

\* So is what the label-scoped informer shows of a Secret.
LEMMA VisibleType == ASSUME NEW s \in Secret PROVE Visible(s) \in Secret
BY NoSecretType DEF Visible

\* The changes that the reconciler makes to status and finalizer.
LEMMA ObjectOps ==
    ASSUME NEW o \in Object
    PROVE  /\ \A r \in Reasons : NotReady(o, r) \in Object
           /\ MarkReady(o) \in Object
           /\ Unregistered(o) \in Object
           /\ [o EXCEPT !.secret = None] \in Object
           /\ \A id \in Nat : [o EXCEPT !.id = id] \in Object
           /\ [o EXCEPT !.fin = TRUE] \in Object
           /\ [o EXCEPT !.fin = FALSE, !.phase = "gone"] \in Object
           /\ [o EXCEPT !.obs = o.gen] \in Object
           /\ o.spec.cfg \in Config /\ o.spec.secret \in SecretName
           /\ o.id \in Nat /\ o.gen \in Nat
<1>1. \A r \in Reasons : NotReady(o, r) \in Object
  BY DEF NotReady, Object
<1>2. o.spec.cfg \in Config /\ o.spec.secret \in SecretName
  BY SpecType DEF Object
<1>3. MarkReady(o) \in Object
  BY <1>2 DEF MarkReady, Object, Reasons
<1>4. Unregistered(o) \in Object
  BY DEF Unregistered, Object
<1> QED
  BY <1>1, <1>2, <1>3, <1>4 DEF Object

\* A job on a typed object is a worker state.
LEMMA JobType ==
    ASSUME NEW u \in CR \cup {None}, NEW o \in Object, NEW f \in BOOLEAN,
           NEW pc \in Steps
    PROVE  /\ Job(u, o, f, pc) \in Worker
           /\ Job(u, o, f, pc).pc = pc
           /\ Job(u, o, f, pc).cur = u
BY DEF Job, Worker

\* The worker between two reconciles.
LEMMA IdleType == Idle \in Worker /\ Idle.pc = "idle"
<1>1. "idle" \in Steps
  BY DEF Steps
<1> QED
  BY <1>1, JobType, BlankType DEF Idle

\* What a step leaves for the next one.
LEMMA AtType ==
    ASSUME w \in Worker, w.cur \in CR, NEW o \in Object, NEW pc \in Steps
    PROVE  /\ At(pc, o) \in Worker /\ At(pc, o).cur = w.cur
           /\ \A id \in Nat : /\ [At(pc, o) EXCEPT !.creds = id] \in Worker
                              /\ [At(pc, o) EXCEPT !.creds = id].cur = w.cur
           /\ \A b \in BOOLEAN : /\ [At(pc, o) EXCEPT !.drifted = b] \in Worker
                                 /\ [At(pc, o) EXCEPT !.drifted = b].cur = w.cur
                                 /\ [At(pc, o) EXCEPT !.pinned = b] \in Worker
                                 /\ [At(pc, o) EXCEPT !.pinned = b].cur = w.cur
           /\ \A S \in SUBSET Nat : /\ [At(pc, o) EXCEPT !.doomed = S] \in Worker
                                    /\ [At(pc, o) EXCEPT !.doomed = S].cur = w.cur
BY DEF At, Job, Worker

\* Calls from the worker's steps.
LEMMA RegistryOps ==
    ASSUME NEW R \in SUBSET Registration, NEW id, NEW u \in CR \cup {None},
           NEW cfg \in Config
    PROVE  /\ Without(R, id) \in SUBSET Registration
           /\ Edited(R, id, u, cfg) \in SUBSET Registration
           /\ Renamed(R, id, u, cfg) \in SUBSET Registration
           /\ id \in Nat \ {0} => Registered(R, id, u, cfg) \in SUBSET Registration
<1>1. Renamed(R, id, u, cfg) \in SUBSET Registration
  BY DEF Renamed, Registration
<1> QED
  BY <1>1 DEF Without, Edited, Registered, Registration

\* An id that tsidp draws is never the empty one.
LEMMA NewIdType == FreeIds # {} => NewId \in Nat \ {0}
<1>1. FreeIds # {} => NewId \in FreeIds
  BY DEF NewId
<1>2. FreeIds \subseteq 1..MaxId
  BY DEF FreeIds
<1>3. \A id \in 1..MaxId : id \in Nat \ {0}
  BY BoundsAssumption
<1> QED
  BY <1>1, <1>2, <1>3

\* What the worker has at hand in a step.
LEMMA Fields ==
    ASSUME WorkerType, w.pc # "idle"
    PROVE  /\ w.cur \in CR /\ w.oc \in Object /\ w.fresh \in BOOLEAN
           /\ w.creds \in Nat /\ w.doomed \in SUBSET Nat
BY DEF WorkerType, Busy, Worker

-----------------------------------------------------------------------------
(* How a step ends.                                                        *)

\* A step that goes on to another call of the same reconcile.
LEMMA GoType ==
    ASSUME WorkerType, w.pc # "idle", NEW o \in Object, NEW pc \in Steps, Go(pc, o)
    PROVE  WorkerType'
BY Fields, AtType DEF Go, WorkerType, Busy

\* A step that ends in a condition that says why.
LEMMA FailType ==
    ASSUME WorkerType, w.pc # "idle", NEW r \in Reasons, Fail(r)
    PROVE  WorkerType'
<1>1. NotReady(w.oc, r) \in Object /\ "status" \in Steps
  BY Fields, ObjectOps DEF Steps
<1> QED
  BY <1>1, GoType DEF Fail

\* A step that ends the reconcile and puts its key back.
LEMMA RetryType ==
    ASSUME WorkerType, QueueType, w.pc # "idle", Retry, faults' \in Nat
    PROVE  WorkerType' /\ QueueType'
BY Fields, IdleType DEF Retry, WorkerType, Busy, QueueType

\* Trouble is counted.
LEMMA FaultType ==
    ASSUME faults \in Nat, NEW kind, Fault(kind) \/ NoFault
    PROVE  faults' \in Nat
BY DEF Fault, NoFault

\* What CreateOrUpdate wants to write, from whatever the cache holds.
LEMMA WantType ==
    ASSUME KubeType, WorkerType, w.pc # "idle", NEW creds \in Nat
    PROVE  LET n == w.oc.spec.secret
               seen == Visible(Cached(secrets[n]))
           IN [exists |-> TRUE, owner |-> w.cur,
               creds |-> IF creds = 0 THEN seen.creds ELSE creds,
               cfg |-> w.oc.spec.cfg, managed |-> TRUE] \in Secret
<1> DEFINE seen == Visible(Cached(secrets[w.oc.spec.secret]))
<1>1. w.oc.spec.secret \in SecretName /\ w.cur \in CR /\ w.oc.spec.cfg \in Config
  BY Fields, ObjectOps
<1>2. seen \in Secret
  BY <1>1, HistoryOps, VisibleType DEF KubeType
<1> QED
  BY <1>1, <1>2 DEF Secret

-----------------------------------------------------------------------------
(* The steps of the worker.                                                *)

\* The jobs a reconcile starts with.
LEMMA BeginType ==
    ASSUME NEW u \in CR, NEW o \in Object, NEW f \in BOOLEAN
    PROVE  /\ Begin(u, o, f) \in Worker /\ Begin(u, o, f).cur = u
           /\ BeginDelete(u, o, f) \in Worker /\ BeginDelete(u, o, f).cur = u
<1>1. NotReady(o, "SpecInvalid") \in Object
  BY ObjectOps DEF Reasons
<1>2. \A pc \in Steps : /\ Job(u, o, f, pc) \in Worker
                         /\ Job(u, o, f, pc).cur = u
                         /\ Job(u, NotReady(o, "SpecInvalid"), f, pc) \in Worker
                         /\ Job(u, NotReady(o, "SpecInvalid"), f, pc).cur = u
  BY <1>1, JobType
<1>3. Begin(u, o, f) \in Worker /\ Begin(u, o, f).cur = u
  BY <1>2 DEF Begin, Steps
<1>4. BeginDelete(u, o, f) \in Worker /\ BeginDelete(u, o, f).cur = u
  BY <1>2 DEF BeginDelete, Steps
<1> QED
  BY <1>3, <1>4

\* StartReconcile, whatever the cache holds.
LEMMA StartReconcileType ==
    ASSUME TypeInv, NEW u \in CR, StartReconcile(u)
    PROVE  TypeInv'
<1> DEFINE o == Cached(cr[u])
           fresh == Synced(cr[u])
<1>1. o \in Object /\ fresh \in BOOLEAN
  BY HistoryOps DEF TypeInv, KubeType, Synced
<1>2. \A pc \in Steps : Job(u, o, fresh, pc) \in Worker /\ Job(u, o, fresh, pc).cur = u
  BY <1>1, JobType
<1>3. w' \in Worker /\ (w'.cur = u \/ w' = w)
  BY <1>1, <1>2, BeginType DEF StartReconcile, TypeInv, WorkerType, Steps
<1>4. WorkerType'
  BY <1>3 DEF WorkerType, Busy, TypeInv
<1> QED
  BY <1>4 DEF StartReconcile, TypeInv, KubeType, RegistryType, QueueType, registry

\* AddFinalizer, UpdateStatus, RemoveFinalizer: writes to the CR.
LEMMA WriteCRType ==
    ASSUME TypeInv, AddFinalizer \/ UpdateStatus \/ RemoveFinalizer
    PROVE  TypeInv'
<1> USE DEF TypeInv
<1>1. w.pc # "idle"
  BY DEF AddFinalizer, UpdateStatus, RemoveFinalizer
<1>2. w.cur \in CR /\ w.oc \in Object
  BY <1>1, Fields
<1>3. /\ [w.oc EXCEPT !.fin = TRUE] \in Object
      /\ [w.oc EXCEPT !.fin = FALSE, !.phase = "gone"] \in Object
      /\ [w.oc EXCEPT !.obs = w.oc.gen] \in Object
  BY <1>2, ObjectOps
<1>4. cr' \in [CR -> Histories(Object)]
  BY <1>3, PutType DEF AddFinalizer, UpdateStatus, RemoveFinalizer, KubeType
<1>5. faults' \in Nat
  BY FaultType DEF AddFinalizer, UpdateStatus, RemoveFinalizer, QueueType
<1>6. WorkerType' /\ QueueType'
  <2>1. CASE Retry
    BY <1>1, <1>5, <2>1, RetryType
  <2>2. CASE w' = Begin(w.cur, [w.oc EXCEPT !.fin = TRUE], TRUE) /\ UNCHANGED due
    <3>1. w' \in Worker /\ w'.cur = w.cur
      BY <1>2, <1>3, <2>2, BeginType
    <3> QED
      BY <1>2, <1>5, <2>2, <3>1 DEF WorkerType, Busy, QueueType
  <2>3. CASE w' = Idle /\ UNCHANGED due
    BY <1>5, <2>3, IdleType DEF WorkerType, Busy, QueueType
  <2> QED
    BY <2>1, <2>2, <2>3 DEF AddFinalizer, UpdateStatus, RemoveFinalizer
<1> QED
  BY <1>4, <1>6 DEF AddFinalizer, UpdateStatus, RemoveFinalizer, KubeType,
                    RegistryType, registry

\* Discover, VetRename, ReadOldSecret, VetTarget, ListClients, GetClient,
\* ReadSecret, VerifyEdit: reads, which only decide what comes next.
LEMMA ReadType ==
    ASSUME TypeInv,
           \/ Discover \/ VetRename \/ ReadOldSecret \/ VetTarget
           \/ ListClients \/ GetClient \/ ReadSecret \/ VerifyEdit
    PROVE  TypeInv'
<1> USE DEF TypeInv
<1>1. w.pc # "idle"
  BY DEF Discover, VetRename, ReadOldSecret, VetTarget, ListClients,
         GetClient, ReadSecret, VerifyEdit
<1>2. w.cur \in CR /\ w.oc \in Object /\ w \in Worker
  BY <1>1, Fields DEF WorkerType
<1>3. /\ w.oc.spec.secret \in SecretName
      /\ [w.oc EXCEPT !.secret = None] \in Object
      /\ Unregistered(w.oc) \in Object
      /\ \A r \in Reasons : NotReady(w.oc, r) \in Object
      /\ \A id \in Nat : [w.oc EXCEPT !.id = id] \in Object
  BY <1>2, ObjectOps
<1>4. \A pc \in Steps, o \in Object :
        At(pc, o) \in Worker /\ At(pc, o).cur = w.cur
  BY <1>2, AtType
<1>5. \A o \in Object : AfterRename(o) \in Worker /\ AfterRename(o).cur = w.cur
  BY <1>4 DEF AfterRename, Steps
<1>6. \A r \in Reasons : Fail(r) => w' \in Worker /\ w'.cur = w.cur
  BY <1>3, <1>4 DEF Fail, Go, Steps
<1>7. \A kind : \A r \in Reasons : Failed(kind, r) =>
         w' \in Worker /\ w'.cur = w.cur
  BY <1>6 DEF Failed
<1>8. w' \in Worker /\ w'.cur = w.cur
  <2>1. CASE Discover
    <3>1. At("vetRename", w.oc) \in Worker /\ At("vetRename", w.oc).cur = w.cur
      BY <1>2, <1>4 DEF Steps
    <3> QED
      BY <1>2, <1>5, <1>7, <2>1, <3>1 DEF Discover, Reasons
  <2>2. CASE VetRename
    <3>1. At("readOld", w.oc) \in Worker /\ At("readOld", w.oc).cur = w.cur
      BY <1>2, <1>4 DEF Steps
    <3> QED
      BY <1>6, <1>7, <2>2, <3>1 DEF VetRename, Reasons, Go
  <2>3. CASE ReadOldSecret
    <3>1. /\ [At("deleteOld", w.oc) EXCEPT !.pinned = TRUE] \in Worker
          /\ [At("deleteOld", w.oc) EXCEPT !.pinned = TRUE].cur = w.cur
      BY <1>2, AtType DEF Steps
    <3> QED
      BY <1>3, <1>5, <1>7, <2>3, <3>1 DEF ReadOldSecret, Reasons
  <2>4. CASE VetTarget
    <3> DEFINE sec == APIRead(w.oc.spec.secret)
    <3>1. sec \in Secret
      BY <1>3, HistoryOps DEF KubeType, APIRead
    <3>2. sec.creds \in Nat
      BY <3>1 DEF Secret
    <3>3. /\ [At("listClients", w.oc) EXCEPT !.creds = sec.creds] \in Worker
          /\ [At("listClients", w.oc) EXCEPT !.creds = sec.creds].cur = w.cur
      BY <1>2, <3>2, AtType DEF Steps
    <3> QED
      BY <1>6, <1>7, <2>4, <3>3 DEF VetTarget, Reasons
  <2>5. CASE ListClients
    <3>1. ASSUME NEW c \in Fingerprinted(clients, w.cur)
          PROVE  /\ c.id \in Nat /\ {c.id} \in SUBSET Nat
                 /\ [w.oc EXCEPT !.id = c.id] \in Object
      BY <1>3 DEF RegistryType, Registration, Fingerprinted
    <3>2. ASSUME NEW S \in SUBSET Nat
          PROVE  /\ [At("burnOrphan", w.oc) EXCEPT !.doomed = S] \in Worker
                 /\ [At("burnOrphan", w.oc) EXCEPT !.doomed = S].cur = w.cur
      BY <1>2, AtType DEF Steps
    <3>3. CASE Go("register", w.oc)
      BY <1>2, <1>4, <3>3 DEF Go, Steps
    <3>4. CASE Failed("tsidp", "RegistrationFailed")
      BY <1>7, <3>4 DEF Reasons
    <3>5. ASSUME NEW c \in Fingerprinted(clients, w.cur),
                 w' = IF c.id = w.creds
                      THEN At("getClient", [w.oc EXCEPT !.id = c.id])
                      ELSE [At("burnOrphan", w.oc) EXCEPT !.doomed = {c.id}]
          PROVE  w' \in Worker /\ w'.cur = w.cur
      BY <1>4, <3>1, <3>2, <3>5 DEF Steps
    <3> QED
      BY <2>5, <3>3, <3>4, <3>5 DEF ListClients
  <2>6. CASE GetClient
    <3>1. ASSUME NEW b \in BOOLEAN
          PROVE  /\ [At("readSecret", w.oc) EXCEPT !.drifted = b] \in Worker
                 /\ [At("readSecret", w.oc) EXCEPT !.drifted = b].cur = w.cur
      BY <1>2, AtType DEF Steps
    <3> QED
      BY <1>3, <1>4, <1>7, <2>6, <3>1 DEF GetClient, Reasons, Steps, Matches
  <2>7. CASE ReadSecret
    <3>1. OnDrift(w.oc) \in Worker /\ OnDrift(w.oc).cur = w.cur
      BY <1>2, <1>3, <1>4 DEF OnDrift, Steps, Reasons
    <3>2. /\ At("burnClient", w.oc) \in Worker /\ At("burnClient", w.oc).cur = w.cur
          /\ At("syncSecret", w.oc) \in Worker /\ At("syncSecret", w.oc).cur = w.cur
      BY <1>2, <1>4 DEF Steps
    <3> QED
      BY <1>7, <2>7, <3>1, <3>2 DEF ReadSecret, Reasons
  <2>8. CASE VerifyEdit
    <3>1. At("syncSecret", w.oc) \in Worker /\ At("syncSecret", w.oc).cur = w.cur
      BY <1>2, <1>4 DEF Steps
    <3> QED
      BY <1>6, <1>7, <2>8, <3>1 DEF VerifyEdit, Reasons, Go
  <2> QED
    BY <2>1, <2>2, <2>3, <2>4, <2>5, <2>6, <2>7, <2>8
<1>9. faults' \in Nat /\ UNCHANGED <<cr, secrets, registry, due>>
  BY FaultType DEF QueueType, Failed, Discover, VetRename, ReadOldSecret,
     VetTarget, ListClients, GetClient, ReadSecret, VerifyEdit
<1> QED
  BY <1>2, <1>8, <1>9 DEF KubeType, RegistryType, QueueType, WorkerType, Busy,
     registry

\* A request that is given up may still come, as it was sent.
LEMMA GiveUpType ==
    ASSUME TypeInv, w.pc # "idle", NEW op \in {"register", "delete", "edit"},
           NEW id \in Nat, GiveUp(op, id)
    PROVE  late' \in SUBSET Request
<1>1. w.cur \in CR /\ w.oc \in Object /\ w.oc.spec.cfg \in Config
  BY Fields, ObjectOps DEF TypeInv, WorkerType
<1>2. [op |-> op, id |-> id, fp |-> w.cur, cfg |-> w.oc.spec.cfg] \in Request
  BY <1>1 DEF Request
<1> QED
  BY <1>2 DEF GiveUp, TypeInv, RegistryType

\* BurnOrphan, BurnClient, Deregister, SweepOne: deletions in tsidp.
LEMMA DeletionType ==
    ASSUME TypeInv, BurnOrphan \/ BurnClient \/ Deregister \/ SweepOne
    PROVE  TypeInv'
<1> USE DEF TypeInv
<1>1. w.pc # "idle"
  BY DEF BurnOrphan, BurnClient, Deregister, SweepOne
<1>2. /\ w.cur \in CR /\ w.oc \in Object /\ w \in Worker
      /\ w.doomed \in SUBSET Nat /\ Unregistered(w.oc) \in Object
  BY <1>1, Fields, ObjectOps DEF WorkerType
<1>3. /\ Go("status", w.oc) => WorkerType'
      /\ Go("status", Unregistered(w.oc)) => WorkerType'
      /\ Go("removeFinalizer", w.oc) => WorkerType'
      /\ Fail("RegistrationFailed") => WorkerType'
      /\ Fail("TsidpUnreachable") => WorkerType'
  BY <1>1, <1>2, GoType, FailType DEF Steps, Reasons
<1>4. \A id : SweepOn(w.doomed \ {id}) => WorkerType'
  <2>1. ASSUME NEW id
        PROVE  /\ [At("sweep", w.oc) EXCEPT !.doomed = w.doomed \ {id}] \in Worker
               /\ [At("sweep", w.oc) EXCEPT !.doomed = w.doomed \ {id}].cur = w.cur
    <3>1. w.doomed \ {id} \in SUBSET Nat /\ "sweep" \in Steps
      BY <1>2 DEF Steps
    <3> QED
      BY <1>2, <3>1, AtType
  <2> QED
    BY <1>2, <1>3, <2>1 DEF SweepOn, WorkerType, Busy
<1>5. /\ UNCHANGED <<cr, secrets>> /\ faults' \in Nat
      /\ clients' \in SUBSET Registration
      /\ UNCHANGED late \/ \E id \in Nat : GiveUp("delete", id)
  <2>1. w.oc.id \in Nat
    BY <1>2 DEF Object
  <2> QED
    BY <1>2, <2>1, FaultType DEF BurnOrphan, BurnClient, Deregister, SweepOne,
       DeleteClient, GiveUp, QueueType, RegistryType, Without
<1>6. (WorkerType' /\ UNCHANGED due) \/ Retry
  BY <1>3, <1>4 DEF BurnOrphan, BurnClient, Deregister, SweepOne, DeleteClient
<1>7. WorkerType' /\ QueueType'
  BY <1>1, <1>5, <1>6, RetryType DEF QueueType
<1>8. late' \in SUBSET Request
  BY <1>1, <1>5, GiveUpType DEF RegistryType
<1> QED
  BY <1>5, <1>7, <1>8 DEF KubeType, RegistryType

\* Register and EditClient: the other calls that change tsidp.
LEMMA RegistrationType ==
    ASSUME TypeInv, Register \/ EditClient
    PROVE  TypeInv'
<1> USE DEF TypeInv
<1>1. w.pc # "idle"
  BY DEF Register, EditClient
<1>2. w.cur \in CR /\ w.oc \in Object /\ w \in Worker /\ w.oc.spec.cfg \in Config
  BY <1>1, Fields, ObjectOps DEF WorkerType
<1>3. /\ Go("verifyEdit", w.oc) => WorkerType'
      /\ Fail("RegistrationFailed") => WorkerType'
      /\ Fail("InPlaceUpdateFailed") => WorkerType'
  BY <1>1, <1>2, GoType, FailType DEF Steps, Reasons
<1>4. faults' \in Nat /\ UNCHANGED <<cr, secrets, due>>
  BY FaultType DEF Register, EditClient, GiveUp, QueueType
<1>5. CASE Register
  <2>1. NewId \in Nat \ {0}
    BY <1>5, NewIdType DEF Register
  <2>2. Registered(clients, NewId, w.cur, w.oc.spec.cfg) \in SUBSET Registration
    BY <1>2, <2>1, RegistryOps DEF RegistryType
  <2>3. clients' \in SUBSET Registration
    BY <1>5, <2>2 DEF Register, GiveUp, RegistryType
  <2>4. late' \in SUBSET Request
    BY <1>1, <1>5, GiveUpType DEF Register, RegistryType
  <2>5. w' = [At("writeSecret", w.oc) EXCEPT !.creds = NewId] => WorkerType'
    <3>1. /\ [At("writeSecret", w.oc) EXCEPT !.creds = NewId] \in Worker
          /\ [At("writeSecret", w.oc) EXCEPT !.creds = NewId].cur = w.cur
      BY <1>2, <2>1, AtType DEF Steps
    <3> QED
      BY <1>2, <3>1 DEF WorkerType, Busy
  <2>6. WorkerType'
    BY <1>3, <1>5, <2>5 DEF Register
  <2> QED
    BY <1>4, <2>3, <2>4, <2>6 DEF KubeType, RegistryType, QueueType
<1>6. CASE EditClient
  <2>1. Edited(clients, w.oc.id, w.cur, w.oc.spec.cfg) \in SUBSET Registration
    BY <1>2, RegistryOps DEF RegistryType
  <2>2. WorkerType' /\ clients' \in SUBSET Registration
    BY <1>3, <1>6, <2>1 DEF EditClient, GiveUp, RegistryType, registry
  <2>3. w.oc.id \in Nat
    BY <1>2 DEF Object
  <2>4. late' \in SUBSET Request
    BY <1>1, <1>6, <2>3, GiveUpType DEF EditClient, RegistryType, registry
  <2> QED
    BY <1>4, <2>2, <2>4 DEF KubeType, RegistryType, QueueType
<1> QED
  BY <1>5, <1>6

\* WriteSecret, SyncSecret, DeleteOldSecret: writes to Secrets.
LEMMA WriteSecretType ==
    ASSUME TypeInv, WriteSecret \/ SyncSecret \/ DeleteOldSecret
    PROVE  TypeInv'
<1> USE DEF TypeInv
<1>1. w.pc # "idle"
  BY DEF WriteSecret, SyncSecret, DeleteOldSecret
<1>2. w.cur \in CR /\ w.oc \in Object /\ w \in Worker /\ w.creds \in Nat
  BY <1>1, Fields DEF WorkerType
<1>3. /\ MarkReady(w.oc) \in Object
      /\ MarkReady([w.oc EXCEPT !.id = w.creds]) \in Object
      /\ [w.oc EXCEPT !.secret = None] \in Object
  BY <1>2, ObjectOps
<1>4. /\ Go("status", MarkReady(w.oc)) => WorkerType'
      /\ Go("status", MarkReady([w.oc EXCEPT !.id = w.creds])) => WorkerType'
      /\ \A r \in {"RegistrationFailed", "SecretWriteFailed", "SecretCleanupFailed"} :
            Fail(r) => WorkerType'
  BY <1>1, <1>3, GoType, FailType DEF Steps, Reasons
<1>5. w' = AfterRename([w.oc EXCEPT !.secret = None]) => WorkerType'
  BY <1>1, <1>3, GoType DEF AfterRename, Go, Steps
<1>6. WorkerType' /\ faults' \in Nat /\ UNCHANGED <<cr, registry, due>>
  BY <1>4, <1>5, FaultType DEF WriteSecret, SyncSecret, DeleteOldSecret, Upsert, QueueType
<1>7. secrets' \in [SecretName -> Histories(Secret)]
  <2>1. CASE WriteSecret
    BY <1>1, <1>2, <2>1, WantType, PutSecretType DEF WriteSecret, Upsert, KubeType
  <2>2. CASE SyncSecret
    BY <1>1, <1>2, <2>2, WantType, PutSecretType DEF SyncSecret, Upsert, KubeType
  <2>3. CASE DeleteOldSecret
    BY <2>3, NoSecretType, PutSecretType DEF DeleteOldSecret, KubeType
  <2> QED
    BY <2>1, <2>2, <2>3
<1> QED
  BY <1>6, <1>7 DEF KubeType, RegistryType, QueueType, registry

\* ListForCleanup: the listing that starts the sweep.
LEMMA ListForCleanupType ==
    ASSUME TypeInv, ListForCleanup
    PROVE  TypeInv'
<1> USE DEF TypeInv
<1> DEFINE ids == {c.id : c \in Fingerprinted(clients, w.cur)}
<1>1. w.pc # "idle"
  BY DEF ListForCleanup
<1>2. w.cur \in CR /\ w.oc \in Object /\ w \in Worker
  BY <1>1, Fields DEF WorkerType
<1>3. ids \in SUBSET Nat
  BY DEF RegistryType, Registration, Fingerprinted
<1>4. /\ [At("sweep", w.oc) EXCEPT !.doomed = ids] \in Worker
      /\ [At("sweep", w.oc) EXCEPT !.doomed = ids].cur = w.cur
  BY <1>2, <1>3, AtType DEF Steps
<1>5. Go("removeFinalizer", w.oc) => WorkerType'
  BY <1>1, <1>2, GoType DEF Steps
<1>6. SweepOn(ids) => WorkerType'
  BY <1>2, <1>4, <1>5 DEF SweepOn, WorkerType, Busy
<1>7. faults' \in Nat /\ UNCHANGED <<cr, secrets, registry>>
  BY FaultType DEF ListForCleanup, QueueType
<1>8. (WorkerType' /\ UNCHANGED due) \/ Retry
  BY <1>6 DEF ListForCleanup
<1>9. WorkerType' /\ QueueType'
  BY <1>1, <1>7, <1>8, RetryType DEF QueueType
<1> QED
  BY <1>7, <1>9 DEF KubeType, RegistryType, registry

-----------------------------------------------------------------------------
(* Everybody else.                                                         *)

\* Users of the CRs.
LEMMA UserType == ASSUME TypeInv, UserStep PROVE TypeInv'
<1> USE DEF TypeInv
<1>1. PICK u \in CR : CreateCR(u) \/ EditSpec(u) \/ DeleteCR(u) \/ ForceRemove(u)
  BY DEF UserStep
<1> DEFINE o == Stored(cr[u])
<1>2. o \in Object
  BY HistoryOps DEF KubeType
<1>3. PICK v \in Object : Change(u, v)
  <2>1. CASE CreateCR(u)
    <3>1. PICK s \in Specs :
             Change(u, [Blank EXCEPT !.phase = "live", !.spec = s, !.gen = 1])
      BY <2>1 DEF CreateCR
    <3>2. [Blank EXCEPT !.phase = "live", !.spec = s, !.gen = 1] \in Object
      BY BlankType DEF Object
    <3> QED
      BY <3>1, <3>2
  <2>2. CASE EditSpec(u)
    <3>1. PICK s \in Specs : Change(u, [o EXCEPT !.spec = s, !.gen = @ + 1])
      BY <2>2 DEF EditSpec
    <3>2. o.gen + 1 \in Nat
      BY <1>2 DEF Object
    <3>3. [o EXCEPT !.spec = s, !.gen = @ + 1] \in Object
      BY <1>2, <3>2 DEF Object
    <3> QED
      BY <3>1, <3>3
  <2>3. CASE DeleteCR(u)
    BY <1>2, <2>3 DEF DeleteCR, Object
  <2>4. CASE ForceRemove(u)
    BY <1>2, <2>4 DEF ForceRemove, Object
  <2> QED
    BY <1>1, <2>1, <2>2, <2>3, <2>4
<1>4. cr' \in [CR -> Histories(Object)]
  BY <1>3, PutType DEF Change, KubeType
<1>5. WorkerType'
  BY <1>3 DEF Change, Outdate, WorkerType, Busy, Worker
<1>6. UNCHANGED <<secrets, registry, due>> /\ faults' \in Nat
  BY <1>1, FaultType DEF CreateCR, EditSpec, DeleteCR, ForceRemove, QueueType
<1> QED
  BY <1>4, <1>5, <1>6 DEF KubeType, RegistryType, QueueType, registry

\* Others who touch the Secrets, and the garbage collector.
LEMMA SecretStepType ==
    ASSUME TypeInv, SecretStep \/ \E n \in SecretName : CollectGarbage(n)
    PROVE  TypeInv'
<1> USE DEF TypeInv
<1>1. PICK n \in SecretName :
        DeleteSecret(n) \/ Squat(n) \/ Scrub(n) \/ Unlabel(n) \/ CollectGarbage(n)
  BY DEF SecretStep
<1>2. Stored(secrets[n]) \in Secret
  BY HistoryOps DEF KubeType
<1>3. PICK s \in Secret : Tamper(n, s)
  BY <1>1, <1>2, NoSecretType
  DEF DeleteSecret, Squat, Scrub, Unlabel, CollectGarbage, Secret
<1>4. secrets' \in [SecretName -> Histories(Secret)]
  BY <1>3, PutSecretType DEF Tamper, KubeType
<1>5. WorkerType'
  BY <1>3 DEF Tamper, WorkerType, Busy, Worker
<1>6. UNCHANGED <<cr, registry, due>> /\ faults' \in Nat
  BY <1>1, <1>3, FaultType DEF Tamper, DeleteSecret, Squat, Scrub, Unlabel, CollectGarbage, QueueType
<1> QED
  BY <1>4, <1>5, <1>6 DEF KubeType, RegistryType, QueueType, registry

\* The watch, tsidp, a restart of the operator.
LEMMA DeliverType == ASSUME TypeInv, WatchStep PROVE TypeInv'
<1> USE DEF TypeInv
<1>1. CASE \E u \in CR : DeliverCR(u)
  <2>1. PICK u \in CR : DeliverCR(u)
    BY <1>1
  <2>2. cr' \in [CR -> Histories(Object)]
    BY <2>1, HistoryOps DEF DeliverCR, KubeType
  <2> QED
    BY <2>1, <2>2 DEF DeliverCR, KubeType, RegistryType, QueueType, WorkerType, Busy, registry
<1>2. CASE \E n \in SecretName : DeliverSecret(n)
  <2>1. PICK n \in SecretName : DeliverSecret(n)
    BY <1>2
  <2>2. secrets' \in [SecretName -> Histories(Secret)]
    BY <2>1, HistoryOps DEF DeliverSecret, KubeType
  <2>3. due' \in SUBSET CR
    BY <2>1 DEF DeliverSecret, QueueType
  <2> QED
    BY <2>1, <2>2, <2>3 DEF DeliverSecret, KubeType, RegistryType, QueueType, WorkerType, Busy, registry
<1> QED
  BY <1>1, <1>2 DEF WatchStep

\* Late requests, lost state and edits in tsidp's UI.
LEMMA TsidpStepType == ASSUME TypeInv, TsidpStep PROVE TypeInv'
<1> USE DEF TypeInv
<1>1. CASE \E r \in late : LateAnswer(r)
  <2>1. PICK r \in late : LateAnswer(r)
    BY <1>1
  <2>2. r.fp \in CR /\ r.cfg \in Config
    BY DEF RegistryType, Request
  <2>3. FreeIds # {} => Registered(clients, NewId, r.fp, r.cfg) \in SUBSET Registration
    BY <2>2, NewIdType, RegistryOps DEF RegistryType
  <2>4. Without(clients, r.id) \in SUBSET Registration
    BY DEF RegistryType, Without
  <2>5. Edited(clients, r.id, r.fp, r.cfg) \in SUBSET Registration
    BY <2>2, RegistryOps DEF RegistryType
  <2>6. clients' \in SUBSET Registration
    BY <2>1, <2>3, <2>4, <2>5 DEF LateAnswer
  <2> QED
    BY <2>1, <2>6 DEF LateAnswer, KubeType, RegistryType, QueueType, WorkerType, Busy
<1>2. CASE LoseState
  BY <1>2, FaultType DEF LoseState, KubeType, RegistryType, QueueType, WorkerType, Busy
<1>3. CASE AdminEdit
  <2>1. PICK c \in clients : \E fp \in {c.fp, None}, cfg \in Config \ (EditRejected \cup BadConfig) :
          Fault("adminEdit") /\ clients' = Renamed(clients, c.id, fp, cfg)
    BY <1>3 DEF AdminEdit
  <2>2. c.fp \in CR \cup {None}
    BY DEF RegistryType, Registration
  <2>3. clients' \in SUBSET Registration
    BY <2>1, <2>2, RegistryOps DEF RegistryType
  <2>4. UNCHANGED <<cr, secrets, late, due, w>> /\ faults' \in Nat
    BY <1>3, FaultType DEF AdminEdit, QueueType
  <2> QED
    BY <2>3, <2>4 DEF KubeType, RegistryType, QueueType, WorkerType, Busy
<1> QED
  BY <1>1, <1>2, <1>3 DEF TsidpStep

\* A crash and the start of a new process.
LEMMA RestartType == ASSUME TypeInv, Restart PROVE TypeInv'
<1> USE DEF TypeInv
<1>1. cr' \in [CR -> Histories(Object)]
  BY HistoryOps DEF Restart, KubeType
<1>2. secrets' \in [SecretName -> Histories(Secret)]
  BY HistoryOps DEF Restart, KubeType
<1>3. WorkerType'
  BY IdleType DEF Restart, WorkerType, Busy
<1>4. due' \in SUBSET CR /\ faults' \in Nat /\ UNCHANGED registry
  BY FaultType DEF Restart, QueueType
<1> QED
  BY <1>1, <1>2, <1>3, <1>4 DEF KubeType, RegistryType, QueueType, registry

-----------------------------------------------------------------------------

\* An empty cluster is typed.
LEMMA TypeInit == Init => TypeInv
<1> SUFFICES ASSUME Init PROVE TypeInv
  OBVIOUS
<1>1. Blank.spec.cfg \in Config
  BY BlankType, ObjectOps
<1>2. <<Blank>> \in Histories(Object) /\ <<NoSecret>> \in Histories(Secret)
  BY BlankType, NoSecretType DEF Histories
<1>3. RegistryType
  BY <1>1 DEF Init, RegistryType, Registration
<1> QED
  BY <1>1, <1>2, <1>3, IdleType DEF Init, TypeInv, KubeType, QueueType, WorkerType, Busy

\* Every step of anybody keeps the types.
LEMMA TypeNext == TypeInv /\ [Next]_vars => TypeInv'
<1> SUFFICES ASSUME TypeInv, [Next]_vars PROVE TypeInv'
  OBVIOUS
<1>1. CASE WorkerStep
  <2>1. CASE \E u \in CR : StartReconcile(u)
    BY <2>1, StartReconcileType
  <2>2. CASE AddFinalizer \/ UpdateStatus \/ RemoveFinalizer
    BY <2>2, WriteCRType
  <2>3. CASE \/ Discover \/ VetRename \/ ReadOldSecret \/ VetTarget
             \/ ListClients \/ GetClient \/ ReadSecret \/ VerifyEdit
    BY <2>3, ReadType
  <2>4. CASE BurnOrphan \/ BurnClient \/ Deregister \/ SweepOne
    BY <2>4, DeletionType
  <2>5. CASE Register \/ EditClient
    BY <2>5, RegistrationType
  <2>6. CASE WriteSecret \/ SyncSecret \/ DeleteOldSecret
    BY <2>6, WriteSecretType
  <2>7. CASE ListForCleanup
    BY <2>7, ListForCleanupType
  <2> QED
    BY <1>1, <2>1, <2>2, <2>3, <2>4, <2>5, <2>6, <2>7 DEF WorkerStep
<1>2. CASE UNCHANGED vars \/ Quiescent
  BY <1>2 DEF vars, Quiescent, TypeInv, KubeType, RegistryType, QueueType,
     WorkerType, Busy
<1> QED
  BY <1>1, <1>2, UserType, SecretStepType, DeliverType, TsidpStepType, RestartType
  DEF Next

\* The stored and cached objects, the registry, the queue and the worker keep
\* their types for any number of CRs, Secrets, faults and generations, and a
\* reconcile that has started has a CR to work on.
THEOREM TypeCorrect == Spec => []TypeOK
<1>1. TypeInv => TypeOK
  BY DEF TypeInv, TypeOK, KubeType, RegistryType, QueueType, WorkerType
<1> QED
  BY <1>1, TypeInit, TypeNext, PTL DEF Spec
=============================================================================
