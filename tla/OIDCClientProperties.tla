------------------------ MODULE OIDCClientProperties ------------------------
(***************************************************************************)
(* What the operator must guarantee, over what is stored in Kubernetes and *)
(* in tsidp (never over what a cache shows).                               *)
(***************************************************************************)
EXTENDS OIDCClientSystem

Obj(u) == Stored(cr[u])
Sec(n) == Stored(secrets[n])

\* The worker made this step (a sweep goes on in the step it is in).
WorkerMoves == w'.pc # w.pc \/ w'.doomed # w.doomed

\* Every variable has the type its declaration in the Go code or in the CRD
\* gives it: histories of CRs and Secrets, registrations, a queue of CRs.
TypeOK ==
    /\ cr \in [CR -> Histories(Object)]
    /\ secrets \in [SecretName -> Histories(Secret)]
    /\ clients \subseteq Registration
    /\ late \subseteq Request
    /\ due \subseteq CR
    /\ w \in Worker
    /\ faults \in Nat

-----------------------------------------------------------------------------
(* What is not the operator's.                                             *)

\* The operator never creates over, writes or deletes a Secret that is not
\* controlled by the CR it reconciles, whatever the cache believed when it
\* decided to (secretAdoptable, upsertSecret, the UID precondition on the
\* deletion of the old Secret).
ForeignSecretsUntouched ==
    [][WorkerMoves => \A n \in SecretName :
         Sec(n).exists /\ Sec(n).owner # w.cur => Sec(n)' = Sec(n)]_vars

\* The operator only removes or changes registrations that were made for the
\* CR it reconciles: neither another CR's nor another application's (the
\* fingerprint, and the ids kept in status and Secret).  The same holds of its
\* requests that tsidp gets to only after the worker gave up on them.
OnlyOwnRegistrationsDeleted ==
    [][/\ WorkerMoves => \A c \in clients : c.by # w.cur => c \in clients'
       /\ \A r \in late : r \notin late' =>
            \A c \in clients : c.by # r.fp => c \in clients']_vars

-----------------------------------------------------------------------------
(* Registrations.                                                          *)

\* Two registrations never carry the same fingerprint: a lost /register
\* response, a crash or a status conflict leads to the adoption or the
\* deletion of the registration, never to a second one (registerOrAdopt).
AtMostOneRegistration ==
    \A c, d \in clients : c.fp # None /\ c.fp = d.fp => c = d

\* When a CR that asks for deregistration is gone (not by force), tsidp has
\* no registration that was made for it (reconcileDelete).
NoLeak ==
    \A u \in CR :
        LET o == Obj(u)
        IN o.phase = "gone" /\ o.spec.deletion = "Deregister" /\ ~o.force
             => \A c \in clients : c.by # u

\* A registration is made only while the Secret that is to hold its
\* credentials is free or the CR's own: what the vetting saw is still so after
\* the listing, though other CRs want the same name and owners come and go
\* (registerOrAdopt: "a naming collision cannot leak registrations").
CollisionRegistersNothing ==
    [][WorkerMoves =>
         \A c \in clients' : ~Live(clients, c.id) /\ Sec(w.oc.spec.secret).exists =>
             Sec(w.oc.spec.secret).owner = w.cur]_vars

\* What the quoted comment says in full: a CR whose Secret name another owner
\* has, and that has no registration on record, has none in tsidp either,
\* between its reconciles.
CollisionLeaksNothing ==
    \A u \in CR \ {w.cur} :
        LET o == Obj(u)
            s == Sec(o.spec.secret)
            collides == o.phase = "live" /\ o.id = 0 /\ s.exists /\ s.owner # u
        IN collides => \A c \in clients : c.by # u

-----------------------------------------------------------------------------
(* Credentials.                                                            *)

\* The Ready condition is True and speaks of the current generation.
Ready(u) ==
    LET o == Obj(u)
    IN /\ o.phase = "live" /\ o.reason = "Ready"
       /\ o.obs = o.gen /\ o.condGen = o.gen

\* The recorded registration exists as the spec wants it, and the Secret the
\* spec names is the CR's own and holds its credentials.
Coherent(u) ==
    LET o == Obj(u)
        s == Sec(o.spec.secret)
    IN /\ \E c \in clients : c.id = o.id /\ c.fp = u /\ c.cfg = o.spec.cfg
       /\ s.exists /\ s.owner = u /\ s.creds = o.id

\* As long as nobody tampers with them, a Ready CR with a recorded id has a
\* registration and a Secret that agree with it and with the spec, through
\* crashes, lost responses and stale caches.
CredentialsCoherent == \A u \in CR : Ready(u) /\ Obj(u).id # 0 => Coherent(u)

\* The Secret the worker's CR names has the credentials of c.
InHand(c) ==
    LET s == Sec(w.oc.spec.secret)
    IN s.exists /\ s.owner = w.cur /\ s.creds = c.id

Drifted(c) == c.fp # w.cur \/ c.cfg # w.oc.spec.cfg

\* Credentials that applications can read from the Secret keep working: the
\* worker removes or changes their registration only because it drifted from
\* the spec and updatePolicy says so (Recreate; InPlace, which keeps the id),
\* or because the CR is being deleted with Deregister and not by force.
CredentialsRotateByPolicy ==
    [][WorkerMoves => \A c \in clients \ clients' :
         IF w.oc.phase = "deleting"
         THEN w.oc.spec.deletion = "Deregister" /\ ~w.oc.force
         ELSE \/ ~InHand(c)
              \/ Drifted(c) /\ w.oc.spec.update = "Recreate"
              \/ Drifted(c) /\ w.oc.spec.update = "InPlace"
                            /\ \E d \in clients' : d.id = c.id
      ]_vars

-----------------------------------------------------------------------------
(* The abstract specification.                                             *)

\* The ledger's variables, in terms of what is stored and what the worker has
\* in hand; everything else of the system is a stutter.
LiveIds == [u \in CR |-> {c.id : c \in Fingerprinted(clients, u)}]
PublishedIds ==
    [u \in CR |-> {Sec(n).creds : n \in {m \in SecretName :
                                           Owned(Sec(m), u) /\ Sec(m).creds # 0}}]
RecordedId == [u \in CR |-> IF Obj(u).phase = "gone" THEN 0 ELSE Obj(u).id]
InHandId == [u \in CR |-> IF w.pc = "writeSecret" /\ w.cur = u THEN w.creds ELSE 0]
KnownId ==
    [u \in CR |-> IF w.cur # u THEN 0
                  ELSE IF w.pc = "listClients" THEN w.creds ELSE w.oc.id]
Orphaning == [u \in CR |-> Obj(u).spec.deletion = "Orphan"]
Left == [u \in CR |-> Obj(u).phase = "gone"]

Ledger == INSTANCE CredentialLedger WITH
    Id <- 1..MaxId, live <- LiveIds, published <- PublishedIds,
    recorded <- RecordedId, inHand <- InHandId, known <- KnownId,
    orphaning <- Orphaning, left <- Left

\* Whatever is interrupted, lost or repeated, every step of the system is one
\* that the ledger allows: registration, Secret, status in this order on the
\* way in (controller.go:406), and the registration first on the way out.
ImplementsLedger == Ledger!Spec

-----------------------------------------------------------------------------
(* What the documentation says and some behaviour of the code refutes.     *)

\* Once a CR is Ready under a new spec.secretName, no Secret of its own is
\* left under another name.
NoStaleSecret ==
    \A u \in CR : Ready(u) /\ Obj(u).id # 0 =>
        \A n \in SecretName :
            Sec(n).exists /\ Sec(n).owner = u => n = Obj(u).spec.secret

-----------------------------------------------------------------------------
(* Liveness.                                                               *)

\* The worker runs, and takes every key that stays in the queue (the
\* workqueue is first in, first out; every key comes back after a resync, a
\* backoff or an event); watches deliver; the garbage collector collects.
Fairness ==
    /\ WF_vars(WorkerStep)
    /\ \A u \in CR : SF_vars(StartReconcile(u)) /\ WF_vars(DeliverCR(u))
    /\ \A n \in SecretName : WF_vars(DeliverSecret(n)) /\ WF_vars(CollectGarbage(n))

FairSpec == Spec /\ Fairness

\* The CR has what it asks for, or its status says what only a user can
\* resolve.
Settled(u) ==
    LET o == Obj(u)
        s == Sec(o.spec.secret)
    IN \/ o.phase \in {"none", "gone"}
       \/ /\ o.phase = "live" /\ o.obs = o.gen
          /\ \/ Ready(u) /\ Coherent(u) /\ s.cfg = o.spec.cfg
             \/ o.reason = "SpecInvalid" /\ o.spec.cfg \in BadConfig
             \/ o.reason = "SecretConflict" /\ s.exists /\ s.owner # u
             \/ o.reason = "DriftBlocked" /\ o.spec.update = "Block"
             \/ o.reason = "InPlaceUpdateFailed" /\ o.spec.cfg \in EditRejected

\* After the last edit and the last trouble every CR settles for good.
Converges == \A u \in CR : <>[]Settled(u)

\* A CR that is deleted goes, whatever became of its registration.
DeletionCompletes ==
    \A u \in CR : Obj(u).phase = "deleting" ~> Obj(u).phase = "gone"

\* "Keep non-credential Secret content ... converged": from some time on the
\* Secret that has the credentials of a registered CR is written from its
\* spec.
SecretContentConverges ==
    \A u \in CR :
        <>[](LET o == Obj(u)
                 s == Sec(o.spec.secret)
             IN o.phase = "live" /\ o.id # 0 /\ s.owner = u /\ s.creds = o.id
                  => s.cfg = o.spec.cfg)
=============================================================================
