------------------------ MODULE OIDCClientController ------------------------
(***************************************************************************)
(* The operator: internal/controller/oidcclient_controller.go, run as      *)
(* cmd/main.go sets it up, against the API server (through an informer     *)
(* cache that lags) and against tsidp (calls that fail before or after     *)
(* they took effect).                                                      *)
(*                                                                         *)
(* There is one worker and one process (no leader election, replicas 1).   *)
(* A reconcile is a sequence of steps, one per remote call: w.pc names the *)
(* call that comes next, and the decision that follows a call is part of   *)
(* its step.  Between two steps anything else may happen: users, other     *)
(* controllers, the watch, tsidp, a crash.                                 *)
(***************************************************************************)
EXTENDS Informer, Tsidp

CONSTANTS SecretName,   \* names of Secrets in the namespace
          BadConfig,    \* configs with a blank or control rune in a URI
          Specs,        \* the specs users write
          Faults,       \* kinds of trouble that may happen
          PromptWatch,  \* the cache holds the last write to a CR whenever one
                        \* of its reconciles starts
          MaxFaults,    \* bound: how often trouble happens
          MaxGen,       \* bound: generations of one CR
          MaxId         \* bound: client_ids in use at the same time

ASSUME BoundsAssumption == MaxFaults \in Nat /\ MaxGen \in Nat /\ MaxId \in Nat
ASSUME PromptWatchAssumption == PromptWatch \in BOOLEAN
ASSUME ConfigAssumption == BadConfig \subseteq Config
ASSUME SpecsAssumption ==
    /\ Specs # {}
    /\ Specs \subseteq [cfg : Config, secret : SecretName,
                        update : {"Recreate", "InPlace", "Block"},
                        deletion : {"Deregister", "Orphan"}]
ASSUME SecretNameAssumption == None \notin SecretName

VARIABLES cr,        \* OIDCClient objects: UID -> history of versions
          secrets,   \* Secrets: name -> history of versions
          clients,   \* tsidp: the registrations
          late,      \* requests to tsidp that the worker gave up on
          due,       \* the workqueue, timers and backoffs included
          w,         \* the worker
          faults     \* troubles so far

vars == <<cr, secrets, clients, late, due, w, faults>>
registry == <<clients, late>>

-----------------------------------------------------------------------------
(* Objects.                                                                *)

Reasons == {"", "Ready", "SpecInvalid", "TsidpUnreachable", "SecretConflict",
            "SecretReadFailed", "SecretCleanupFailed", "RegistrationFailed",
            "InPlaceUpdateFailed", "DriftBlocked", "SecretWriteFailed"}

\* id is status.clientId, secret status.secretName, obs
\* status.observedGeneration; reason and condGen are the Ready condition,
\* which is True exactly when its reason is "Ready".
Object == [phase : {"none", "live", "deleting", "gone"}, spec : Specs,
           gen : Nat, fin : BOOLEAN, force : BOOLEAN,
           id : Nat, secret : SecretName \cup {None}, obs : Nat,
           reason : Reasons, condGen : Nat]

Blank == [phase |-> "none", spec |-> CHOOSE s \in Specs : TRUE,
          gen |-> 0, fin |-> FALSE, force |-> FALSE,
          id |-> 0, secret |-> None, obs |-> 0, reason |-> "", condGen |-> 0]

\* owner is the controller reference, creds the registration whose client_id
\* and client_secret the data holds (0: none, or not both), cfg what the
\* non-credential keys were written from, managed the label the informer
\* selects on.
Secret == [exists : BOOLEAN, owner : CR \cup {None}, creds : Nat,
           cfg : Config \cup {None}, managed : BOOLEAN]

NoSecret == [exists |-> FALSE, owner |-> None, creds |-> 0, cfg |-> None,
             managed |-> FALSE]

\* The Secret informer lists and watches labelled Secrets only.
Visible(s) == IF s.managed THEN s ELSE NoSecret

\* A variant that reads the cache, as the manager's client would.
CachedRead(n) == Visible(Cached(secrets[n]))

\* Get through APIReader: what is stored now, whatever its labels.
APIRead(n) == Stored(secrets[n])

\* A variant that takes whatever has the name for its own.
OwnedByName(s, u) == s.exists

Owned(s, u) == s.exists /\ s.owner = u

\* A variant that vets nothing.
AdoptAnything(s, u) == TRUE

Adoptable(s, u) == s.exists => s.owner = u

SecretOK(s, id) == s.exists /\ s.creds = id

NotReady(o, reason) == [o EXCEPT !.reason = reason, !.condGen = o.gen]

\* A variant with a reason that the API does not know.
MarkRegistered(o) == [o EXCEPT !.secret = o.spec.secret, !.reason = "Registered",
                               !.condGen = o.gen]

MarkReady(o) == [o EXCEPT !.secret = o.spec.secret, !.reason = "Ready",
                          !.condGen = o.gen]

\* A variant that forgets to forget the id.
StillRegistered(o) == o

Unregistered(o) == [o EXCEPT !.id = 0]
RenamePending(o) == o.secret # None /\ o.secret # o.spec.secret

Put(u, o)      == CanWrite(cr[u]) /\ cr' = [cr EXCEPT ![u] = Push(@, o)]
PutSecret(n, s) ==
    CanWrite(secrets[n]) /\ secrets' = [secrets EXCEPT ![n] = Push(@, s)]

-----------------------------------------------------------------------------
(* The worker: the key it works on, the CR it read and has been changing   *)
(* in memory, whether that copy still has the stored resourceVersion, and  *)
(* what a call left for a later one: the credentials in hand, whether the  *)
(* registration read differs from the spec, whether the old Secret is      *)
(* still the object that was read, the registrations to delete.            *)

Steps == {"idle", "addFinalizer", "discovery", "vetRename", "readOld",
          "deleteOld", "vetTarget", "listClients", "burnOrphan", "register",
          "writeSecret", "getClient", "readSecret", "burnClient",
          "editClient", "verifyEdit", "syncSecret", "status", "deregister",
          "listForCleanup", "sweep", "removeFinalizer"}

Worker == [pc : Steps, cur : CR \cup {None}, oc : Object, fresh : BOOLEAN,
           creds : Nat, drifted : BOOLEAN, pinned : BOOLEAN,
           doomed : SUBSET Nat]

Job(u, o, fresh, pc) ==
    [pc |-> pc, cur |-> u, oc |-> o, fresh |-> fresh, creds |-> 0,
     drifted |-> FALSE, pinned |-> FALSE, doomed |-> {}]

Idle       == Job(None, Blank, FALSE, "idle")
At(pc, o)  == Job(w.cur, o, w.fresh, pc)
Go(pc, o)  == w' = At(pc, o)
Fail(reason) == Go("status", NotReady(w.oc, reason))
Retry      == w' = Idle /\ due' = due \cup {w.cur}

\* Another client's write to u makes the worker's copy of u outdated.
Outdate(u) == w' = [w EXCEPT !.fresh = @ /\ w.cur # u]

NoFault     == UNCHANGED faults
Fault(kind) == /\ kind \in Faults /\ faults < MaxFaults
               /\ faults' = faults + 1

\* A read that fails, a read or a wait that has no effect elsewhere.
Failed(kind, reason) ==
    Fault(kind) /\ Fail(reason) /\ UNCHANGED <<cr, secrets, registry, due>>

\* The worker gives a request up (30s client timeout), and tsidp may still get
\* to it.
GiveUp(op, id) ==
    /\ Fault("late")
    /\ late' = late \cup {[op |-> op, id |-> id, fp |-> w.cur, cfg |-> w.oc.spec.cfg]}
    /\ UNCHANGED clients

\* A variant in which the 404 of a registration already gone is an error.
DeleteLive(id, Ok, Err) ==
    \/ /\ clients' = Without(clients, id) /\ NoFault
       /\ IF Live(clients, id) THEN Ok ELSE Err
       /\ UNCHANGED late
    \/ /\ clients' \in {clients, Without(clients, id)} /\ Fault("tsidp") /\ Err
       /\ UNCHANGED late
    \/ GiveUp("delete", id) /\ Err

\* DELETE /clients/{id}; an error may arrive after the deletion.
DeleteClient(id, Ok, Err) ==
    \/ clients' = Without(clients, id) /\ NoFault /\ Ok /\ UNCHANGED late
    \/ /\ clients' \in {clients, Without(clients, id)} /\ Fault("tsidp") /\ Err
       /\ UNCHANGED late
    \/ GiveUp("delete", id) /\ Err

-----------------------------------------------------------------------------
(* Reconcile: the cached read, and the finalizer.                          *)

\* reconcileNormal, as far as its first remote call.
Begin(u, o, fresh) ==
    IF o.spec.cfg \in BadConfig
    THEN Job(u, NotReady(o, "SpecInvalid"), fresh, "status")
    ELSE Job(u, o, fresh, "discovery")

\* A variant that trusts the status: no id recorded, nothing to deregister.
BeginDeleteByStatus(u, o, fresh) ==
    Job(u, o, fresh,
        IF o.force \/ o.spec.deletion = "Orphan" \/ o.id = 0
        THEN "removeFinalizer" ELSE "deregister")

\* reconcileDelete, as far as its first remote call.
BeginDelete(u, o, fresh) ==
    Job(u, o, fresh,
        IF o.force \/ o.spec.deletion = "Orphan" THEN "removeFinalizer"
        ELSE IF o.id # 0 THEN "deregister" ELSE "listForCleanup")

StartReconcile(u) ==
    LET o == Cached(cr[u])
        fresh == Synced(cr[u])
    IN /\ w.pc = "idle" /\ u \in due /\ (PromptWatch => fresh)
       /\ due' = due \ {u}
       /\ w' = CASE o.phase = "live" /\ o.fin -> Begin(u, o, fresh)
                 [] o.phase = "live" /\ ~o.fin -> Job(u, o, fresh, "addFinalizer")
                 [] o.phase = "deleting" /\ o.fin -> BeginDelete(u, o, fresh)
                 [] OTHER -> w
       /\ UNCHANGED <<cr, secrets, registry, faults>>

AddFinalizer ==
    LET o == [w.oc EXCEPT !.fin = TRUE]
    IN /\ w.pc = "addFinalizer"
       /\ \/ /\ w.fresh /\ NoFault /\ Put(w.cur, o)
             /\ w' = Begin(w.cur, o, TRUE) /\ UNCHANGED due
          \/ ~w.fresh /\ NoFault /\ Retry /\ UNCHANGED cr
          \/ Fault("kube") /\ Retry /\ UNCHANGED cr
          \/ w.fresh /\ Fault("kube") /\ Retry /\ Put(w.cur, o)
       /\ UNCHANGED <<secrets, registry>>

\* The status update that ends every reconcile of a live CR: refused with a
\* conflict when the CR changed since it was read, no event when it says
\* nothing new.  The key is due again in every case (resync, 30s, 1s, or
\* backoff).
UpdateStatus ==
    LET o == [w.oc EXCEPT !.obs = w.oc.gen]
        Write == IF Stored(cr[w.cur]) = o THEN UNCHANGED cr ELSE Put(w.cur, o)
    IN /\ w.pc = "status"
       /\ \/ w.fresh /\ Write /\ NoFault
          \/ ~w.fresh /\ UNCHANGED cr /\ NoFault
          \/ w.fresh /\ Write /\ Fault("kube")
          \/ UNCHANGED cr /\ Fault("kube")
       /\ Retry
       /\ UNCHANGED <<secrets, registry>>

-----------------------------------------------------------------------------
(* reconcileNormal: discovery, and the renamed Secret.                     *)

AfterRename(o) == At(IF o.id = 0 THEN "vetTarget" ELSE "getClient", o)

Discover ==
    /\ w.pc = "discovery"
    /\ \/ /\ w' = IF RenamePending(w.oc) THEN At("vetRename", w.oc)
                                         ELSE AfterRename(w.oc)
          /\ NoFault /\ UNCHANGED <<cr, secrets, registry, due>>
       \/ Failed("tsidp", "TsidpUnreachable")

VetRename ==
    /\ w.pc = "vetRename"
    /\ \/ /\ IF Adoptable(APIRead(w.oc.spec.secret), w.cur)
             THEN Go("readOld", w.oc)
             ELSE Fail("SecretConflict")
          /\ NoFault /\ UNCHANGED <<cr, secrets, registry, due>>
       \/ Failed("kube", "SecretReadFailed")

ReadOldSecret ==
    /\ w.pc = "readOld"
    /\ \/ /\ w' = IF Owned(APIRead(w.oc.secret), w.cur)
                  THEN [At("deleteOld", w.oc) EXCEPT !.pinned = TRUE]
                  ELSE AfterRename([w.oc EXCEPT !.secret = None])
          /\ NoFault /\ UNCHANGED <<cr, secrets, registry, due>>
       \/ Failed("kube", "SecretCleanupFailed")

\* Deletes the object that was read, not one that took its name since.
DeleteOldSecret ==
    LET old == w.oc.secret
        stays == Stored(secrets[old]).exists
    IN /\ w.pc = "deleteOld"
       /\ \/ /\ ~stays \/ w.pinned
             /\ IF stays THEN PutSecret(old, NoSecret) ELSE UNCHANGED secrets
             /\ w' = AfterRename([w.oc EXCEPT !.secret = None]) /\ NoFault
          \/ stays /\ ~w.pinned /\ Fail("SecretCleanupFailed")
                   /\ UNCHANGED secrets /\ NoFault
          \/ Fault("kube") /\ Fail("SecretCleanupFailed") /\ UNCHANGED secrets
          \/ /\ stays /\ w.pinned /\ PutSecret(old, NoSecret)
             /\ Fault("kube") /\ Fail("SecretCleanupFailed")
       /\ UNCHANGED <<cr, registry, due>>

-----------------------------------------------------------------------------
(* registerOrAdopt.                                                        *)

VetTarget ==
    LET sec == APIRead(w.oc.spec.secret)
    IN /\ w.pc = "vetTarget"
       /\ \/ /\ IF Adoptable(sec, w.cur)
                THEN w' = [At("listClients", w.oc) EXCEPT !.creds = sec.creds]
                ELSE Fail("SecretConflict")
             /\ NoFault /\ UNCHANGED <<cr, secrets, registry, due>>
          \/ Failed("kube", "RegistrationFailed")

\* Only the first fingerprinted registration of the listing counts, and
\* the listing has no order.
ListClients ==
    LET mine == Fingerprinted(clients, w.cur)
    IN /\ w.pc = "listClients"
       /\ \/ /\ \/ mine = {} /\ Go("register", w.oc)
                \/ \E c \in mine :
                     w' = IF c.id = w.creds
                          THEN At("getClient", [w.oc EXCEPT !.id = c.id])
                          ELSE [At("burnOrphan", w.oc) EXCEPT !.doomed = {c.id}]
             /\ NoFault /\ UNCHANGED <<cr, secrets, registry, due>>
          \/ Failed("tsidp", "RegistrationFailed")

BurnOrphan ==
    /\ w.pc = "burnOrphan"
    /\ \E id \in w.doomed :
         DeleteClient(id, Go("status", w.oc), Fail("RegistrationFailed"))
    /\ UNCHANGED <<cr, secrets, due>>

\* tsidp draws ids at random and never twice.  One that nothing mentions any
\* more is as good as a new one, and keeps the ids few.
FreeIds == (1..MaxId) \
    ({c.id : c \in clients} \cup {r.id : r \in late} \cup {w.oc.id, w.creds} \cup w.doomed
     \cup (UNION {{cr[u][i].id : i \in DOMAIN cr[u]} : u \in CR})
     \cup (UNION {{secrets[n][i].creds : i \in DOMAIN secrets[n]} : n \in SecretName}))
NewId == CHOOSE id \in FreeIds : TRUE

Register ==
    LET cfg == w.oc.spec.cfg
        registered == Registered(clients, NewId, w.cur, cfg)
    IN /\ w.pc = "register" /\ FreeIds # {}
       /\ \/ /\ clients' = registered /\ NoFault /\ UNCHANGED late
             /\ w' = [At("writeSecret", w.oc) EXCEPT !.creds = NewId]
          \/ /\ clients' \in {clients, registered} /\ Fault("tsidp")
             /\ Fail("RegistrationFailed") /\ UNCHANGED late
          \/ GiveUp("register", 0) /\ Fail("RegistrationFailed")
       /\ UNCHANGED <<cr, secrets, due>>

\* CreateOrUpdate reads the cache: it creates when the cache shows nothing
\* (and fails if the API server has something), refuses what the CR does not
\* own, writes nothing when nothing changes, and otherwise updates the
\* version it read.  Without new credentials the data keeps those it has.
Upsert(creds, Ok, Err) ==
    LET n == w.oc.spec.secret
        seen == Visible(Cached(secrets[n]))
        want == [exists |-> TRUE, owner |-> w.cur,
                 creds |-> IF creds = 0 THEN seen.creds ELSE creds,
                 cfg |-> w.oc.spec.cfg, managed |-> TRUE]
        accepted == IF seen.exists
                    THEN Owned(seen, w.cur) /\ Synced(secrets[n])
                    ELSE ~Stored(secrets[n]).exists
    IN \/ seen = want /\ UNCHANGED secrets /\ NoFault /\ Ok
       \/ /\ seen # want
          /\ \/ accepted /\ PutSecret(n, want) /\ NoFault /\ Ok
             \/ ~accepted /\ UNCHANGED secrets /\ NoFault /\ Err
             \/ UNCHANGED secrets /\ Fault("kube") /\ Err
             \/ accepted /\ PutSecret(n, want) /\ Fault("kube") /\ Err

\* A variant that takes the id for its own before the Secret has it.
WriteSecretLast ==
    LET o == [w.oc EXCEPT !.id = w.creds]
    IN /\ w.pc = "writeSecret"
       /\ Upsert(w.creds, Go("status", MarkReady(o)),
                 Go("status", NotReady(o, "RegistrationFailed")))
       /\ UNCHANGED <<cr, registry, due>>

WriteSecret ==
    /\ w.pc = "writeSecret"
    /\ Upsert(w.creds,
              Go("status", MarkReady([w.oc EXCEPT !.id = w.creds])),
              Fail("RegistrationFailed"))
    /\ UNCHANGED <<cr, registry, due>>

-----------------------------------------------------------------------------
(* reconcileNormal: the recorded registration, its Secret, drift.          *)

GetClient ==
    LET o == w.oc
    IN /\ w.pc = "getClient"
       /\ \/ /\ w' = IF Live(clients, o.id)
                     THEN [At("readSecret", o) EXCEPT !.drifted =
                              ~Matches(clients, o.id, w.cur, o.spec.cfg)]
                     ELSE At("status", Unregistered(o))
             /\ NoFault /\ UNCHANGED <<cr, secrets, registry, due>>
          \/ Failed("tsidp", "TsidpUnreachable")

\* What a drifted registration leads to under the update policy.
OnDrift(o) ==
    CASE o.spec.update = "InPlace" -> At("editClient", o)
      [] o.spec.update = "Block"   -> At("status", NotReady(o, "DriftBlocked"))
      [] OTHER                     -> At("burnClient", o)

ReadSecret ==
    LET sec == APIRead(w.oc.spec.secret)
    IN /\ w.pc = "readSecret"
       /\ \/ /\ w' = IF ~SecretOK(sec, w.oc.id) THEN At("burnClient", w.oc)
                     ELSE IF w.drifted THEN OnDrift(w.oc)
                     ELSE At("syncSecret", w.oc)
             /\ NoFault /\ UNCHANGED <<cr, secrets, registry, due>>
          \/ Failed("kube", "SecretReadFailed")

\* SecretLost and RecreatingOnDrift: the condition is left as it was.
BurnClient ==
    /\ w.pc = "burnClient"
    /\ DeleteClient(w.oc.id, Go("status", Unregistered(w.oc)),
                    Fail("TsidpUnreachable"))
    /\ UNCHANGED <<cr, secrets, due>>

\* UpdateClient: the form, then the read that tells whether it took.
EditClient ==
    LET id == w.oc.id
        edited == Edited(clients, id, w.cur, w.oc.spec.cfg)
    IN /\ w.pc = "editClient"
       /\ \/ /\ Live(clients, id) /\ clients' = edited
             /\ Go("verifyEdit", w.oc) /\ NoFault /\ UNCHANGED late
          \/ /\ ~Live(clients, id) /\ UNCHANGED registry
             /\ Fail("InPlaceUpdateFailed") /\ NoFault
          \/ /\ clients' \in {clients, edited} /\ Fault("tsidp")
             /\ Fail("InPlaceUpdateFailed") /\ UNCHANGED late
          \/ GiveUp("edit", id) /\ Fail("InPlaceUpdateFailed")
       /\ UNCHANGED <<cr, secrets, due>>

VerifyEdit ==
    /\ w.pc = "verifyEdit"
    /\ \/ /\ IF Matches(clients, w.oc.id, w.cur, w.oc.spec.cfg)
             THEN Go("syncSecret", w.oc)
             ELSE Fail("InPlaceUpdateFailed")
          /\ NoFault /\ UNCHANGED <<cr, secrets, registry, due>>
       \/ Failed("tsidp", "InPlaceUpdateFailed")

SyncSecret ==
    /\ w.pc = "syncSecret"
    /\ Upsert(0, Go("status", MarkReady(w.oc)), Fail("SecretWriteFailed"))
    /\ UNCHANGED <<cr, registry, due>>

-----------------------------------------------------------------------------
(* reconcileDelete: no status is written on this path.                     *)

Deregister ==
    /\ w.pc = "deregister"
    /\ DeleteClient(w.oc.id, Go("removeFinalizer", w.oc) /\ UNCHANGED due, Retry)
    /\ UNCHANGED <<cr, secrets>>

\* The loop over the listing, from the registrations not yet deleted.
SweepOn(ids) == IF ids = {} THEN Go("removeFinalizer", w.oc)
                ELSE w' = [At("sweep", w.oc) EXCEPT !.doomed = ids]

ListForCleanup ==
    /\ w.pc = "listForCleanup"
    /\ \/ SweepOn({c.id : c \in Fingerprinted(clients, w.cur)})
          /\ NoFault /\ UNCHANGED due
       \/ Fault("tsidp") /\ Retry
    /\ UNCHANGED <<cr, secrets, registry>>

SweepOne ==
    /\ w.pc = "sweep"
    /\ \E id \in w.doomed :
         DeleteClient(id, SweepOn(w.doomed \ {id}) /\ UNCHANGED due, Retry)
    /\ UNCHANGED <<cr, secrets>>

\* The finalizer is the last one: with it the object goes.
RemoveFinalizer ==
    LET o == [w.oc EXCEPT !.fin = FALSE, !.phase = "gone"]
    IN /\ w.pc = "removeFinalizer"
       /\ \/ w.fresh /\ Put(w.cur, o) /\ NoFault /\ w' = Idle /\ UNCHANGED due
          \/ ~w.fresh /\ UNCHANGED cr /\ NoFault /\ Retry
          \/ UNCHANGED cr /\ Fault("kube") /\ Retry
          \/ w.fresh /\ Put(w.cur, o) /\ Fault("kube") /\ Retry
       /\ UNCHANGED <<secrets, registry>>

WorkerStep ==
    \/ \E u \in CR : StartReconcile(u)
    \/ AddFinalizer \/ UpdateStatus
    \/ Discover \/ VetRename \/ ReadOldSecret \/ DeleteOldSecret
    \/ VetTarget \/ ListClients \/ BurnOrphan \/ Register \/ WriteSecret
    \/ GetClient \/ ReadSecret \/ BurnClient
    \/ EditClient \/ VerifyEdit \/ SyncSecret
    \/ Deregister \/ ListForCleanup \/ SweepOne \/ RemoveFinalizer
=============================================================================
