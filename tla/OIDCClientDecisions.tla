-------------------------- MODULE OIDCClientDecisions --------------------------
(***************************************************************************)
(* What a pass decides in one call and carries out in a later one, for     *)
(* every value of the constants: proofs of CredentialsRotateByPolicy and   *)
(* CollisionRegistersNothing.  Between the two calls anybody may change    *)
(* what the decision was based on; the invariant says what of it remains.  *)
(***************************************************************************)
EXTENDS OIDCClientSafety

\* The steps of a pass over a live CR, and those of a cleanup that
\* deregisters.
Normal == {"addFinalizer", "discovery", "vetRename", "readOld", "deleteOld",
           "vetTarget", "listClients", "burnOrphan", "register", "writeSecret",
           "getClient", "readSecret", "burnClient", "editClient", "verifyEdit",
           "syncSecret", "status"}
Cleanup == {"deregister", "listForCleanup", "sweep"}

\* The registration c is not as the pass j wants it.
Differs(c, j) == c.fp # j.cur \/ c.cfg # j.oc.spec.cfg

\* What a pass j has decided still holds of the registrations R and of s, the
\* Secret that its spec names: a registration to be burned has not the
\* credentials in the Secret, or differs from the spec under Recreate.
Right(j, R, s) ==
    /\ j.pc \in Normal => j.oc.phase = "live"
    /\ j.pc \in Cleanup => /\ j.oc.phase = "deleting" /\ ~j.oc.force
                           /\ j.oc.spec.deletion = "Deregister"
    /\ j.pc = "listClients" => \A c \in R : c.id # j.creds => s.creds # c.id
    /\ j.pc = "burnOrphan" => \A c \in R : c.id \in j.doomed => s.creds # c.id
    /\ j.pc = "readSecret" /\ j.drifted =>
         \A c \in R : c.id = j.oc.id => Differs(c, j)
    /\ j.pc = "burnClient" => \A c \in R : c.id = j.oc.id =>
         \/ ~SecretOK(s, c.id)
         \/ Differs(c, j) /\ j.oc.spec.update = "Recreate"
    /\ j.pc = "editClient" => j.oc.spec.update = "InPlace"

DecisionInv == w.pc # "idle" => Right(w, clients, Sec(w.oc.spec.secret))

\* The name that was vetted is not somebody else's since.
VetInv ==
    w.pc \in {"listClients", "register"} =>
        Adoptable(Sec(w.oc.spec.secret), w.cur)

-----------------------------------------------------------------------------
(* What carries a decision from one step to a later one.                   *)

\* The steps that act on a decision made before them.
Bound == {"listClients", "burnOrphan", "readSecret", "burnClient", "editClient"}

\* What the reconciler changes in the object in hand is not the spec, nor
\* whether it is being deleted, by force or not.
LEMMA KeepsSpec ==
    ASSUME NEW o \in Object
    PROVE  /\ \A r : /\ NotReady(o, r).phase = o.phase /\ NotReady(o, r).spec = o.spec
                     /\ NotReady(o, r).force = o.force
           /\ MarkReady(o).phase = o.phase /\ Unregistered(o).phase = o.phase
           /\ \A id : MarkReady([o EXCEPT !.id = id]).phase = o.phase
           /\ \A id : [o EXCEPT !.id = id].phase = o.phase
           /\ [o EXCEPT !.secret = None].phase = o.phase
           /\ [o EXCEPT !.fin = TRUE].phase = o.phase
BY DEF NotReady, MarkReady, Unregistered, Object

\* A step that leads to no bound one has to know its phase only.
LEMMA Unbound ==
    ASSUME w'.pc \notin Bound, w'.pc \notin Cleanup,
           w'.pc \in Normal => w'.oc.phase = "live"
    PROVE  DecisionInv'
BY DEF DecisionInv, Right, Bound

\* A decision outlives fewer registrations, and a Secret that has no other
\* credentials than it had.
LEMMA RightKept ==
    ASSUME NEW j, NEW k, NEW R, NEW Q, NEW s, NEW t, Right(j, R, s), Q \subseteq R,
           k.pc = j.pc, k.cur = j.cur, k.oc = j.oc, k.creds = j.creds,
           k.drifted = j.drifted, k.doomed = j.doomed,
           \A c \in R : c.id # 0,
           t.creds # 0 => t.creds = s.creds /\ t.exists = s.exists
    PROVE  Right(k, Q, t)
<1>1. \A c \in Q : c \in R /\ c.id # 0 /\ (t.creds = c.id => s.creds = c.id)
  OBVIOUS
<1>2. \A c \in Q : SecretOK(t, c.id) => SecretOK(s, c.id)
  BY <1>1 DEF SecretOK
<1>3. \A c : Differs(c, j) => Differs(c, k)
  BY DEF Differs
<1> QED
  BY <1>1, <1>2, <1>3 DEF Right

\* What others do to a Secret gives it no credentials, and without squatters
\* no Secret gets an owner.
LEMMA Tampered ==
    ASSUME TypeInv, SecretStep \/ \E n \in SecretName : CollectGarbage(n),
           NEW m \in SecretName
    PROVE  /\ Sec(m)'.creds # 0 =>
                Sec(m)'.creds = Sec(m).creds /\ Sec(m)'.exists = Sec(m).exists
           /\ "squat" \notin Faults /\ Sec(m)'.exists =>
                Sec(m).exists /\ Sec(m)'.owner = Sec(m).owner
<1>1. PICK n \in SecretName :
        DeleteSecret(n) \/ Squat(n) \/ Scrub(n) \/ Unlabel(n) \/ CollectGarbage(n)
  BY DEF SecretStep
<1> DEFINE old == Stored(secrets[n])
<1>2. old \in Secret
  BY HistoryOps DEF TypeInv, KubeType
<1>3. PICK s \in Secret :
        /\ PutSecret(n, s)
        /\ s.creds # 0 => s.creds = old.creds /\ s.exists = old.exists
        /\ "squat" \notin Faults /\ s.exists => old.exists /\ s.owner = old.owner
  <2>1. CASE DeleteSecret(n) \/ CollectGarbage(n)
    BY <2>1, NoSecretType DEF DeleteSecret, CollectGarbage, Tamper, NoSecret
  <2>2. CASE Squat(n)
    <3>1. \A b \in BOOLEAN :
            LET s == [NoSecret EXCEPT !.exists = TRUE, !.managed = b]
            IN s \in Secret /\ s.creds = 0
      BY NoSecretType DEF NoSecret, Secret
    <3> QED
      BY <2>2, <3>1 DEF Squat, Tamper, Fault
  <2>3. CASE Scrub(n)
    <3> DEFINE s == [old EXCEPT !.creds = 0]
    <3>1. s \in Secret /\ s.owner = old.owner /\ s.creds = 0 /\ s.exists = old.exists
      BY <1>2 DEF Secret
    <3>2. PutSecret(n, s)
      BY <2>3 DEF Scrub, Tamper
    <3> QED
      BY <3>1, <3>2
  <2>4. CASE Unlabel(n)
    <3> DEFINE s == [old EXCEPT !.managed = FALSE]
    <3>1. s \in Secret /\ s.owner = old.owner /\ s.creds = old.creds
          /\ s.exists = old.exists
      BY <1>2 DEF Secret
    <3>2. PutSecret(n, s)
      BY <2>4 DEF Unlabel, Tamper
    <3> QED
      BY <3>1, <3>2
  <2> QED
    BY <1>1, <2>1, <2>2, <2>3, <2>4
<1>4. Stored(secrets'[n]) = s /\ \A l \in SecretName : l # n => secrets'[l] = secrets[l]
  BY <1>3, PutSecretStores
<1>5. CASE m = n
  BY <1>3, <1>4, <1>5 DEF Sec
<1>6. CASE m # n
  BY <1>4, <1>6 DEF Sec
<1> QED
  BY <1>5, <1>6

\* Those steps, and the watch, leave the pass at work what it is.
LEMMA PassGoesOn ==
    ASSUME TypeInv, UserStep \/ WatchStep \/ SecretStep \/ LoseState
                    \/ \E n \in SecretName : CollectGarbage(n)
    PROVE  /\ w'.pc = w.pc /\ w'.cur = w.cur /\ w'.oc = w.oc /\ w'.creds = w.creds
           /\ w'.drifted = w.drifted /\ w'.doomed = w.doomed
           /\ clients' \subseteq clients
BY DEF UserStep, CreateCR, EditSpec, DeleteCR, ForceRemove, Change, Outdate, WatchStep,
   DeliverCR, DeliverSecret, SecretStep, DeleteSecret, Squat, Scrub, Unlabel,
   CollectGarbage, Tamper, LoseState, registry, TypeInv, WorkerType, Worker

\* And they leave the Secrets what they are, or as Tampered says.
LEMMA SecretsGoOn ==
    ASSUME TypeInv, NEW m \in SecretName,
           UserStep \/ WatchStep \/ SecretStep \/ LoseState
           \/ \E n \in SecretName : CollectGarbage(n)
    PROVE  /\ Sec(m)'.creds # 0 =>
                Sec(m)'.creds = Sec(m).creds /\ Sec(m)'.exists = Sec(m).exists
           /\ "squat" \notin Faults /\ Sec(m)'.exists =>
                Sec(m).exists /\ Sec(m)'.owner = Sec(m).owner
<1>1. CASE SecretStep \/ \E n \in SecretName : CollectGarbage(n)
  BY <1>1, Tampered
<1>2. CASE UserStep \/ LoseState
  <2>1. UNCHANGED secrets
    BY <1>2 DEF UserStep, CreateCR, EditSpec, DeleteCR, ForceRemove, LoseState
  <2> QED
    BY <2>1 DEF Sec
<1>3. CASE WatchStep
  <2>1. Stored(secrets'[m]) = Stored(secrets[m])
    BY <1>3, HistoryOps DEF WatchStep, DeliverCR, DeliverSecret, TypeInv, KubeType
  <2> QED
    BY <2>1 DEF Sec
<1> QED
  BY <1>1, <1>2, <1>3

-----------------------------------------------------------------------------
(* The decisions.                                                          *)

\* A pass begins with a live CR, or with one to deregister or to let go.
LEMMA StartDecides ==
    ASSUME TypeInv, NEW u \in CR, StartReconcile(u)
    PROVE  DecisionInv'
<1> DEFINE o == Cached(cr[u])
<1>1. o \in Object
  BY HistoryOps DEF TypeInv, KubeType
<1>2. CASE w' = w
  BY <1>2 DEF StartReconcile, DecisionInv
<1>3. CASE o.phase = "live" /\ w' = Begin(u, o, Synced(cr[u]))
  <2>1. w'.pc \in {"status", "discovery"} /\ w'.oc.phase = "live"
    BY <1>1, <1>3, KeepsSpec DEF Begin, Job
  <2> QED
    BY <2>1, Unbound DEF Bound, Cleanup
<1>4. CASE o.phase = "live" /\ w' = Job(u, o, Synced(cr[u]), "addFinalizer")
  <2>1. w'.pc = "addFinalizer" /\ w'.oc.phase = "live"
    BY <1>4 DEF Job
  <2> QED
    BY <2>1, Unbound DEF Bound, Cleanup
<1>5. CASE o.phase = "deleting" /\ w' = BeginDelete(u, o, Synced(cr[u]))
  <2>1. /\ w'.oc = o /\ w'.pc \in {"removeFinalizer", "deregister", "listForCleanup"}
        /\ w'.pc \in Cleanup => ~o.force /\ o.spec.deletion # "Orphan"
    BY <1>5 DEF BeginDelete, Job, Cleanup
  <2>2. o.spec.deletion \in {"Deregister", "Orphan"}
    BY <1>1, SpecsAssumption DEF Object
  <2> QED
    BY <1>5, <2>1, <2>2 DEF DecisionInv, Right, Normal
<1> QED
  BY <1>2, <1>3, <1>4, <1>5 DEF StartReconcile

\* The steps of a live CR's pass that lead to no bound one, or end it.
LEMMA NormalDecides ==
    ASSUME TypeInv, DecisionInv,
           \/ AddFinalizer \/ UpdateStatus \/ Discover \/ VetRename \/ ReadOldSecret
           \/ DeleteOldSecret \/ BurnOrphan \/ Register \/ WriteSecret \/ BurnClient
           \/ EditClient \/ VerifyEdit \/ SyncSecret \/ RemoveFinalizer
    PROVE  DecisionInv'
<1>1. /\ w.pc # "idle" /\ w.oc \in Object
      /\ ~RemoveFinalizer => w.pc \in Normal
  BY Fields DEF TypeInv, AddFinalizer, UpdateStatus, Discover, VetRename, ReadOldSecret,
     DeleteOldSecret, BurnOrphan, Register, WriteSecret, BurnClient, EditClient,
     VerifyEdit, SyncSecret, RemoveFinalizer, Normal
<1>2. ~RemoveFinalizer => w.oc.phase = "live"
  BY <1>1 DEF DecisionInv, Right
<1>3. CASE w' = Idle
  BY <1>3, IdleType DEF DecisionInv
<1>4. CASE AddFinalizer \/ UpdateStatus \/ RemoveFinalizer
  <2>1. \/ w' = Idle
        \/ AddFinalizer /\ w' = Begin(w.cur, [w.oc EXCEPT !.fin = TRUE], TRUE)
    <3>1. UpdateStatus \/ RemoveFinalizer => w' = Idle
      BY DEF UpdateStatus, RemoveFinalizer, Retry
    <3>2. AddFinalizer => Retry \/ w' = Begin(w.cur, [w.oc EXCEPT !.fin = TRUE], TRUE)
      BY DEF AddFinalizer
    <3> QED
      BY <1>4, <3>1, <3>2 DEF Retry
  <2>2. CASE AddFinalizer /\ w' = Begin(w.cur, [w.oc EXCEPT !.fin = TRUE], TRUE)
    <3>1. ~RemoveFinalizer
      BY <2>2 DEF AddFinalizer, RemoveFinalizer
    <3>2. PICK o \in Object : o.phase = "live" /\ w' = Begin(w.cur, o, TRUE)
      BY <1>1, <1>2, <2>2, <3>1, KeepsSpec, ObjectOps
    <3>3. w'.pc \in {"status", "discovery"} /\ w'.oc.phase = "live"
      BY <3>2, KeepsSpec DEF Begin, Job
    <3> QED
      BY <3>3, Unbound DEF Bound, Cleanup
  <2> QED
    BY <1>3, <2>1, <2>2
<1>5. ASSUME NEW pc, pc \notin Bound, pc \notin Cleanup, NEW o, o.phase = "live",
             NEW j, j = At(pc, o) \/ j = [At(pc, o) EXCEPT !.pinned = TRUE]
                    \/ j = [At(pc, o) EXCEPT !.creds = NewId],
             w' = j
      PROVE  DecisionInv'
  <2>1. j.pc = pc /\ j.oc = o
    BY <1>5 DEF At, Job
  <2> QED
    BY <1>5, <2>1, Unbound
<1>6. CASE Discover \/ VetRename \/ ReadOldSecret \/ DeleteOldSecret
  <2>1. \/ w' \in {At("vetRename", w.oc), At("readOld", w.oc), AfterRename(w.oc),
                   AfterRename([w.oc EXCEPT !.secret = None]),
                   [At("deleteOld", w.oc) EXCEPT !.pinned = TRUE]}
        \/ \E r : w' = At("status", NotReady(w.oc, r))
    BY <1>6 DEF Discover, VetRename, ReadOldSecret, DeleteOldSecret, Failed, Fail, Go
  <2>2. ~RemoveFinalizer
    BY <1>6 DEF Discover, VetRename, ReadOldSecret, DeleteOldSecret, RemoveFinalizer
  <2>3. CASE w' \in {AfterRename(w.oc), AfterRename([w.oc EXCEPT !.secret = None])}
    <3>1. PICK o : o.phase = "live" /\ w' = AfterRename(o)
      BY <1>1, <1>2, <2>2, <2>3, KeepsSpec
    <3> QED
      BY <1>5, <3>1 DEF AfterRename, Bound, Cleanup
  <2> QED
    BY <1>1, <1>2, <1>5, <2>1, <2>2, <2>3, KeepsSpec DEF Bound, Cleanup
<1>7. CASE \/ BurnOrphan \/ Register \/ WriteSecret \/ BurnClient \/ EditClient
           \/ VerifyEdit \/ SyncSecret
  <2>1. \/ w' \in {At("status", w.oc), At("status", Unregistered(w.oc)),
                   At("status", MarkReady(w.oc)),
                   At("status", MarkReady([w.oc EXCEPT !.id = w.creds])),
                   At("verifyEdit", w.oc), At("syncSecret", w.oc),
                   [At("writeSecret", w.oc) EXCEPT !.creds = NewId]}
        \/ \E r : w' = At("status", NotReady(w.oc, r))
    BY <1>7 DEF BurnOrphan, Register, WriteSecret, BurnClient, EditClient, VerifyEdit,
       SyncSecret, Upsert, DeleteClient, Failed, Fail, Go
  <2>2. ~RemoveFinalizer
    BY <1>7 DEF BurnOrphan, Register, WriteSecret, BurnClient, EditClient, VerifyEdit,
       SyncSecret, RemoveFinalizer
  <2> QED
    BY <1>1, <1>2, <1>5, <2>1, <2>2, KeepsSpec DEF Bound, Cleanup
<1> QED
  BY <1>4, <1>6, <1>7

\* The credentials that the vetting saw in the Secret are those it keeps in
\* hand.
LEMMA VetTargetDecides ==
    ASSUME TypeInv, DecisionInv, VetTarget
    PROVE  DecisionInv'
<1>1. w.pc = "vetTarget" /\ w.oc \in Object /\ UNCHANGED secrets
  BY Fields DEF TypeInv, VetTarget, Failed
<1>2. w.oc.phase = "live"
  BY <1>1 DEF DecisionInv, Right, Normal
<1>3. CASE w' = [At("listClients", w.oc) EXCEPT !.creds = Sec(w.oc.spec.secret).creds]
  <2>1. /\ w'.pc = "listClients" /\ w'.oc = w.oc
        /\ w'.creds = Sec(w.oc.spec.secret).creds
    BY <1>3 DEF At, Job
  <2>2. Sec(w.oc.spec.secret)' = Sec(w.oc.spec.secret)
    BY <1>1, <2>1 DEF Sec
  <2> QED
    BY <1>2, <2>1, <2>2 DEF DecisionInv, Right, Cleanup
<1>4. CASE \E r : w' = At("status", NotReady(w.oc, r))
  <2>1. w'.pc = "status" /\ w'.oc.phase = "live"
    BY <1>1, <1>2, <1>4, KeepsSpec DEF At, Job
  <2> QED
    BY <2>1, Unbound DEF Bound, Cleanup
<1> QED
  BY <1>3, <1>4 DEF VetTarget, Failed, Fail, Go, APIRead, Sec

\* An orphan is one whose credentials are not in the Secret.
LEMMA ListClientsDecides ==
    ASSUME TypeInv, DecisionInv, ListClients
    PROVE  DecisionInv'
<1> DEFINE s == Sec(w.oc.spec.secret)
<1>1. w.pc = "listClients" /\ w.oc \in Object /\ UNCHANGED <<secrets, clients>>
  BY Fields DEF TypeInv, ListClients, Failed, registry
<1>2. w.oc.phase = "live" /\ \A c \in clients : c.id # w.creds => s.creds # c.id
  BY <1>1 DEF DecisionInv, Right, Normal
<1>3. ASSUME NEW c \in clients, c.id # w.creds,
             w' = [At("burnOrphan", w.oc) EXCEPT !.doomed = {c.id}]
      PROVE  DecisionInv'
  <2>1. w'.pc = "burnOrphan" /\ w'.oc = w.oc /\ w'.doomed = {c.id}
    BY <1>3 DEF At, Job
  <2>2. Sec(w.oc.spec.secret)' = s
    BY <1>1, <2>1 DEF Sec
  <2>3. \A d \in clients' : d.id \in w'.doomed => s.creds # d.id
    BY <1>1, <1>2, <1>3, <2>1
  <2> QED
    BY <1>2, <2>1, <2>2, <2>3 DEF DecisionInv, Right, Cleanup
<1>4. CASE \/ Go("register", w.oc) \/ Failed("tsidp", "RegistrationFailed")
           \/ \E id : w' = At("getClient", [w.oc EXCEPT !.id = id])
  <2>1. PICK pc \in {"register", "status", "getClient"} :
           \E o : o.phase = "live" /\ w' = At(pc, o)
    <3>1. \/ w' = At("register", w.oc) \/ \E r : w' = At("status", NotReady(w.oc, r))
          \/ \E id : w' = At("getClient", [w.oc EXCEPT !.id = id])
      BY <1>4 DEF Failed, Fail, Go
    <3> QED
      BY <1>1, <1>2, <3>1, KeepsSpec
  <2>2. w'.pc \in {"register", "status", "getClient"} /\ w'.oc.phase = "live"
    BY <2>1 DEF At, Job
  <2> QED
    BY <2>2, Unbound DEF Bound, Cleanup
<1> QED
  <2>1. \/ Go("register", w.oc) \/ Failed("tsidp", "RegistrationFailed")
        \/ \E c \in clients :
             w' = IF c.id = w.creds
                  THEN At("getClient", [w.oc EXCEPT !.id = c.id])
                  ELSE [At("burnOrphan", w.oc) EXCEPT !.doomed = {c.id}]
    BY DEF ListClients, Fingerprinted
  <2> QED
    BY <1>3, <1>4, <2>1

\* A drift is one of the registration as it is read.
LEMMA GetClientDecides ==
    ASSUME TypeInv, DecisionInv, GetClient
    PROVE  DecisionInv'
<1>1. w.pc = "getClient" /\ w.oc \in Object /\ UNCHANGED clients
  BY Fields DEF TypeInv, GetClient, Failed, registry
<1>2. w.oc.phase = "live"
  BY <1>1 DEF DecisionInv, Right, Normal
<1>3. CASE w' = [At("readSecret", w.oc) EXCEPT !.drifted =
                    ~Matches(clients, w.oc.id, w.cur, w.oc.spec.cfg)]
  <2>1. /\ w'.pc = "readSecret" /\ w'.oc = w.oc /\ w'.cur = w.cur
        /\ w'.drifted = ~Matches(clients, w.oc.id, w.cur, w.oc.spec.cfg)
    BY <1>3 DEF At, Job
  <2>2. w'.drifted => \A c \in clients' : c.id = w'.oc.id => Differs(c, w')
    BY <1>1, <2>1 DEF Matches, Differs
  <2> QED
    BY <1>2, <2>1, <2>2 DEF DecisionInv, Right, Cleanup
<1>4. CASE w' = At("status", Unregistered(w.oc)) \/ \E r : w' = At("status", NotReady(w.oc, r))
  <2>1. w'.pc = "status" /\ w'.oc.phase = "live"
    BY <1>1, <1>2, <1>4, KeepsSpec DEF At, Job
  <2> QED
    BY <2>1, Unbound DEF Bound, Cleanup
<1> QED
  BY <1>3, <1>4 DEF GetClient, Failed, Fail, Go

\* The registration goes for a Secret without its credentials, or for the
\* drift that was read under a policy that asks for it.
LEMMA ReadSecretDecides ==
    ASSUME TypeInv, DecisionInv, ReadSecret
    PROVE  DecisionInv'
<1> DEFINE s == Sec(w.oc.spec.secret)
<1>1. w.pc = "readSecret" /\ w.oc \in Object /\ UNCHANGED <<secrets, clients>>
  BY Fields DEF TypeInv, ReadSecret, Failed, registry
<1>2. /\ w.oc.phase = "live"
      /\ w.drifted => \A c \in clients : c.id = w.oc.id => Differs(c, w)
  BY <1>1 DEF DecisionInv, Right, Normal
<1>3. w.oc.spec.update \in {"Recreate", "InPlace", "Block"}
  BY <1>1, SpecsAssumption DEF Object
<1>4. CASE /\ w' = At("burnClient", w.oc)
           /\ ~SecretOK(s, w.oc.id) \/ (w.drifted /\ w.oc.spec.update = "Recreate")
  <2>1. w'.pc = "burnClient" /\ w'.oc = w.oc /\ w'.cur = w.cur
    BY <1>4 DEF At, Job
  <2>2. Sec(w.oc.spec.secret)' = s
    BY <1>1, <2>1 DEF Sec
  <2>3. \A c : Differs(c, w) => Differs(c, w')
    BY <2>1 DEF Differs
  <2>4. \A c \in clients' : c.id = w'.oc.id =>
          \/ ~SecretOK(s, c.id)
          \/ Differs(c, w') /\ w'.oc.spec.update = "Recreate"
    BY <1>1, <1>2, <1>4, <2>1, <2>3
  <2> QED
    BY <1>2, <2>1, <2>2, <2>4 DEF DecisionInv, Right, Cleanup
<1>5. CASE w' = At("editClient", w.oc) /\ w.oc.spec.update = "InPlace"
  <2>1. w'.pc = "editClient" /\ w'.oc = w.oc
    BY <1>5 DEF At, Job
  <2> QED
    BY <1>2, <1>5, <2>1 DEF DecisionInv, Right, Cleanup
<1>6. CASE w' = At("syncSecret", w.oc) \/ \E r : w' = At("status", NotReady(w.oc, r))
  <2>1. w'.pc \in {"syncSecret", "status"} /\ w'.oc.phase = "live"
    BY <1>1, <1>2, <1>6, KeepsSpec DEF At, Job
  <2> QED
    BY <2>1, Unbound DEF Bound, Cleanup
<1> QED
  BY <1>3, <1>4, <1>5, <1>6 DEF ReadSecret, OnDrift, Failed, Fail, Go, APIRead, Sec

\* A deletion goes on deregistering the CR it read.
LEMMA CleanupDecides ==
    ASSUME TypeInv, DecisionInv, Deregister \/ ListForCleanup \/ SweepOne
    PROVE  DecisionInv'
<1>1. w.pc \in {"deregister", "listForCleanup", "sweep"}
  BY DEF Deregister, ListForCleanup, SweepOne
<1>2. w.oc.phase = "deleting" /\ ~w.oc.force /\ w.oc.spec.deletion = "Deregister"
  BY <1>1 DEF DecisionInv, Right, Cleanup
<1>3. \/ w' = Idle \/ w' = At("removeFinalizer", w.oc)
      \/ \E ids : w' = [At("sweep", w.oc) EXCEPT !.doomed = ids]
  BY DEF Deregister, ListForCleanup, SweepOne, DeleteClient, SweepOn, Retry, Go
<1>4. CASE w' = Idle
  BY <1>4, IdleType DEF DecisionInv
<1>5. CASE w' = At("removeFinalizer", w.oc)
  <2>1. w'.pc = "removeFinalizer"
    BY <1>5 DEF At, Job
  <2> QED
    BY <2>1, Unbound DEF Bound, Cleanup, Normal
<1>6. CASE \E ids : w' = [At("sweep", w.oc) EXCEPT !.doomed = ids]
  <2>1. w'.pc = "sweep" /\ w'.oc = w.oc
    BY <1>6 DEF At, Job
  <2> QED
    BY <1>2, <2>1 DEF DecisionInv, Right, Normal
<1> QED
  BY <1>3, <1>4, <1>5, <1>6

\* Every step of anybody keeps what was decided right.
LEMMA DecisionNext ==
    ASSUME "adminEdit" \notin Faults, TypeInv, OneInv, DecisionInv, [Next]_vars
    PROVE  DecisionInv'
<1>1. CASE UserStep \/ WatchStep \/ SecretStep \/ LoseState
           \/ \E n \in SecretName : CollectGarbage(n)
  <2>1. /\ w'.pc = w.pc /\ w'.cur = w.cur /\ w'.oc = w.oc /\ w'.creds = w.creds
        /\ w'.drifted = w.drifted /\ w'.doomed = w.doomed
        /\ clients' \subseteq clients
    BY <1>1, PassGoesOn
  <2>2. SUFFICES ASSUME w.pc # "idle" PROVE DecisionInv'
    BY <2>1 DEF DecisionInv
  <2>3. PICK n \in SecretName : n = w.oc.spec.secret
    BY <2>2, Fields, ObjectOps DEF TypeInv
  <2>4. Sec(n)'.creds # 0 => Sec(n)'.creds = Sec(n).creds /\ Sec(n)'.exists = Sec(n).exists
    BY <1>1, SecretsGoOn
  <2>5. Right(w, clients, Sec(n))
    BY <2>2, <2>3 DEF DecisionInv
  <2>6. \A c \in clients : c.id # 0
    BY DEF TypeInv, RegistryType, Registration
  <2>7. Right(w', clients', Sec(n)')
    BY <2>1, <2>4, <2>5, <2>6, RightKept
  <2> QED
    BY <2>1, <2>3, <2>7 DEF DecisionInv
<1>2. CASE Restart
  BY <1>2, IdleType DEF Restart, DecisionInv
<1>3. CASE TsidpStep
  <2>1. LoseState
    BY <1>3 DEF TsidpStep, AdminEdit, Fault, OneInv
  <2> QED
    BY <1>1, <2>1
<1>4. CASE UNCHANGED vars \/ Quiescent
  BY <1>4 DEF vars, Quiescent, DecisionInv, Sec
<1> QED
  BY <1>1, <1>2, <1>3, <1>4, StartDecides, NormalDecides, VetTargetDecides,
     ListClientsDecides, GetClientDecides, ReadSecretDecides, CleanupDecides
     DEF Next, WorkerStep

\* Credentials that applications can read are withdrawn only where the spec of
\* the reconcile says so, though the Secret and the registration may change
\* between the reads that decide and the deletion: provided that nobody but the
\* operator edits registrations in tsidp, and no edit lands after the operator
\* gave up on it (either may undo the drift that a deletion is decided on).
THEOREM CredentialsRotate ==
    ASSUME "late" \notin Faults, "adminEdit" \notin Faults
    PROVE  Spec => CredentialsRotateByPolicy
<1> DEFINE Rotates ==
      WorkerMoves => \A c \in clients \ clients' :
         IF w.oc.phase = "deleting"
         THEN w.oc.spec.deletion = "Deregister" /\ ~w.oc.force
         ELSE \/ ~InHand(c)
              \/ Drifted(c) /\ w.oc.spec.update = "Recreate"
              \/ Drifted(c) /\ w.oc.spec.update = "InPlace"
                            /\ \E d \in clients' : d.id = c.id
<1>1. ASSUME TypeInv, DecisionInv, [Next]_vars, WorkerMoves, NEW c \in clients,
             c \notin clients'
      PROVE  IF w.oc.phase = "deleting"
             THEN w.oc.spec.deletion = "Deregister" /\ ~w.oc.force
             ELSE \/ ~InHand(c)
                  \/ Drifted(c) /\ w.oc.spec.update = "Recreate"
                  \/ Drifted(c) /\ w.oc.spec.update = "InPlace"
                                /\ \E d \in clients' : d.id = c.id
  <2> DEFINE s == Sec(w.oc.spec.secret)
  <2>1. \A op, id : ~GiveUp(op, id)
    BY DEF GiveUp, Fault
  <2>2. w.pc # "idle" => Right(w, clients, s)
    BY <1>1 DEF DecisionInv
  <2>3. Differs(c, w) = Drifted(c)
    BY DEF Differs, Drifted
  <2>4. CASE BurnOrphan
    <3>1. w.pc = "burnOrphan" /\ c.id \in w.doomed
      BY <1>1, <2>1, <2>4 DEF BurnOrphan, DeleteClient, Without
    <3>2. w.oc.phase = "live" /\ s.creds # c.id
      BY <2>2, <3>1 DEF Right, Normal
    <3> QED
      BY <3>2 DEF InHand
  <2>5. CASE BurnClient
    <3>1. w.pc = "burnClient" /\ c.id = w.oc.id
      BY <1>1, <2>1, <2>5 DEF BurnClient, DeleteClient, Without
    <3>2. /\ w.oc.phase = "live"
          /\ ~SecretOK(s, c.id) \/ (Differs(c, w) /\ w.oc.spec.update = "Recreate")
      BY <2>2, <3>1 DEF Right, Normal
    <3> QED
      BY <2>3, <3>2 DEF InHand, SecretOK
  <2>6. CASE EditClient
    <3>1. w.pc = "editClient" /\ clients' = Renamed(clients, w.oc.id, w.cur, w.oc.spec.cfg)
      BY <1>1, <2>1, <2>6 DEF EditClient, Edited, registry
    <3>2. c.id = w.oc.id
      BY <1>1, <3>1 DEF Renamed
    <3> DEFINE d == [c EXCEPT !.fp = w.cur, !.cfg = w.oc.spec.cfg]
    <3>3. d \in clients' /\ d # c
      BY <1>1, <3>1, <3>2 DEF Renamed
    <3>4. c \in Registration
      BY <1>1 DEF TypeInv, RegistryType
    <3>5. d.id = c.id /\ (c.fp = w.cur /\ c.cfg = w.oc.spec.cfg => d = c)
      BY <3>4 DEF Registration
    <3>6. w.oc.phase = "live" /\ w.oc.spec.update = "InPlace"
      BY <2>2, <3>1 DEF Right, Normal
    <3> QED
      BY <3>3, <3>5, <3>6 DEF Drifted
  <2>7. CASE Deregister \/ SweepOne
    <3>1. w.pc \in Cleanup /\ w.pc # "idle"
      BY <2>7 DEF Deregister, SweepOne, Cleanup
    <3> QED
      BY <2>2, <3>1 DEF Right
  <2>8. ~UNCHANGED registry /\ ~Register
    BY <1>1, <2>1 DEF registry, Register, Registered
  <2>9. CASE WorkerStep
    BY <2>4, <2>5, <2>6, <2>7, <2>8, <2>9, QuietSteps DEF WorkerStep
  <2>10. ~UserStep /\ ~WatchStep /\ ~SecretStep /\ ~Restart
         /\ ~\E m \in SecretName : CollectGarbage(m)
    BY <2>8 DEF UserStep, CreateCR, EditSpec, DeleteCR, ForceRemove, WatchStep, DeliverCR,
       DeliverSecret, SecretStep, DeleteSecret, Squat, Scrub, Unlabel, CollectGarbage,
       Tamper, Restart
  <2>11. ~TsidpStep /\ ~UNCHANGED vars /\ ~Quiescent
    BY <1>1 DEF WorkerMoves, TsidpStep, LateAnswer, LoseState, AdminEdit, Quiescent, vars
  <2> QED
    BY <1>1, <2>9, <2>10, <2>11 DEF Next
<1>2. TypeInv /\ DecisionInv /\ [Next]_vars => [Rotates]_vars
  BY <1>1
<1>3. TypeInv /\ OwnInv /\ OneInv /\ [Next]_vars => OneInv'
  BY OneNext
<1>4. TypeInv /\ OneInv /\ DecisionInv /\ [Next]_vars => DecisionInv'
  BY DecisionNext
<1>5. Init => DecisionInv
  BY IdleType DEF Init, DecisionInv
<1> QED
  BY <1>2, <1>3, <1>4, <1>5, TypeInit, TypeNext, OwnInit, OwnNext, OneInit, PTL
     DEF Spec, CredentialsRotateByPolicy

-----------------------------------------------------------------------------
(* Collisions.                                                             *)

\* What the vetting saw stays: no other CR's reconcile runs in between, and
\* nobody else makes Secrets.
LEMMA VetNext ==
    ASSUME "squat" \notin Faults, TypeInv, VetInv, [Next]_vars
    PROVE  VetInv'
<1>1. CASE UserStep \/ WatchStep \/ SecretStep \/ LoseState
           \/ \E n \in SecretName : CollectGarbage(n)
  <2>1. w'.pc = w.pc /\ w'.cur = w.cur /\ w'.oc = w.oc
    BY <1>1, PassGoesOn
  <2>2. SUFFICES ASSUME w.pc \in {"listClients", "register"} PROVE VetInv'
    BY <2>1 DEF VetInv
  <2>3. PICK n \in SecretName : n = w.oc.spec.secret
    BY <2>2, Fields, ObjectOps DEF TypeInv
  <2>4. Sec(n)'.exists => Sec(n).exists /\ Sec(n)'.owner = Sec(n).owner
    BY <1>1, SecretsGoOn
  <2> QED
    BY <2>1, <2>2, <2>3, <2>4 DEF VetInv, Adoptable
<1>2. CASE Restart
  BY <1>2, IdleType DEF Restart, VetInv
<1>3. CASE UNCHANGED vars \/ Quiescent
  BY <1>3 DEF vars, Quiescent, VetInv, Sec
<1>4. CASE (\E r \in late : LateAnswer(r)) \/ AdminEdit
  <2>1. UNCHANGED <<w, secrets>>
    BY <1>4 DEF LateAnswer, AdminEdit
  <2> QED
    BY <2>1 DEF VetInv, Sec
<1>5. CASE VetTarget
  <2>1. UNCHANGED secrets
    BY <1>5 DEF VetTarget, Failed
  <2>2. CASE /\ Adoptable(Sec(w.oc.spec.secret), w.cur)
             /\ \E id : w' = [At("listClients", w.oc) EXCEPT !.creds = id]
    <3>1. w'.oc = w.oc /\ w'.cur = w.cur
      BY <2>2 DEF At, Job
    <3> QED
      BY <2>1, <2>2, <3>1 DEF VetInv, Sec
  <2>3. CASE \E r : w' = At("status", NotReady(w.oc, r))
    BY <2>3 DEF At, Job, VetInv
  <2> QED
    BY <1>5, <2>2, <2>3 DEF VetTarget, Failed, Fail, Go, APIRead, Sec
<1>6. CASE ListClients
  <2>1. UNCHANGED secrets /\ w.pc = "listClients"
    BY <1>6 DEF ListClients, Failed
  <2>2. w'.pc \in {"listClients", "register"} => w'.oc = w.oc /\ w'.cur = w.cur
    BY <1>6 DEF ListClients, Failed, Fail, Go, At, Job
  <2> QED
    BY <2>1, <2>2 DEF VetInv, Sec
<1>7. CASE \/ \E u \in CR : StartReconcile(u)
           \/ AddFinalizer \/ UpdateStatus \/ RemoveFinalizer
  <2>1. w'.pc \notin {"listClients", "register"}
    BY <1>7 DEF StartReconcile, AddFinalizer, UpdateStatus, RemoveFinalizer, Retry, Idle,
       Begin, BeginDelete, Job
  <2> QED
    BY <2>1 DEF VetInv
<1>8. CASE Discover \/ VetRename \/ ReadOldSecret \/ DeleteOldSecret
  <2>1. w'.pc \notin {"listClients", "register"}
    BY <1>8 DEF Discover, VetRename, ReadOldSecret, DeleteOldSecret, Failed, Fail, Go,
       AfterRename, At, Job
  <2> QED
    BY <2>1 DEF VetInv
<1>9. CASE \/ BurnOrphan \/ Register \/ WriteSecret \/ GetClient \/ ReadSecret
           \/ BurnClient \/ EditClient \/ VerifyEdit \/ SyncSecret
           \/ Deregister \/ ListForCleanup \/ SweepOne
  <2>1. w'.pc \notin {"listClients", "register"}
    <3>1. CASE \/ BurnOrphan \/ Register \/ WriteSecret \/ GetClient \/ ReadSecret
               \/ BurnClient \/ EditClient \/ VerifyEdit \/ SyncSecret
      BY <3>1 DEF BurnOrphan, Register, WriteSecret, GetClient, ReadSecret, BurnClient,
         EditClient, VerifyEdit, SyncSecret, DeleteClient, Upsert, OnDrift, Failed, Fail,
         Go, At, Job
    <3>2. CASE Deregister \/ ListForCleanup \/ SweepOne
      BY <3>2 DEF Deregister, ListForCleanup, SweepOne, DeleteClient, SweepOn, Retry, Idle,
         Go, At, Job
    <3> QED
      BY <1>9, <3>1, <3>2
  <2> QED
    BY <2>1 DEF VetInv
<1> QED
  BY <1>1, <1>2, <1>3, <1>4, <1>5, <1>6, <1>7, <1>8, <1>9 DEF Next, WorkerStep, TsidpStep

\* As long as only CRs of the operator want the name, a registration is made
\* only by a CR that finds the name free or its own: when it asks tsidp, and
\* not only when it looked.
THEOREM CollisionsRegisterNothing ==
    ASSUME "squat" \notin Faults
    PROVE  Spec => CollisionRegistersNothing
<1> DEFINE OnlyVetted ==
      WorkerMoves =>
         \A c \in clients' : ~Live(clients, c.id) /\ Sec(w.oc.spec.secret).exists =>
             Sec(w.oc.spec.secret).owner = w.cur
<1>1. ASSUME TypeInv, VetInv, [Next]_vars, WorkerMoves, NEW c \in clients',
             ~Live(clients, c.id), Sec(w.oc.spec.secret).exists
      PROVE  Sec(w.oc.spec.secret).owner = w.cur
  <2>1. CASE Register
    BY <1>1, <2>1 DEF Register, VetInv, Adoptable
  <2>2. \A d \in clients : d.id # c.id
    BY <1>1 DEF Live
  <2>3. ~UNCHANGED registry
    BY <1>1, <2>2 DEF registry
  <2>4. ~BurnOrphan /\ ~BurnClient /\ ~Deregister /\ ~SweepOne
    BY <1>1, <2>2 DEF BurnOrphan, BurnClient, Deregister, SweepOne, DeleteClient, Without,
       GiveUp
  <2>5. ~EditClient
    <3>1. \A d \in Renamed(clients, w.oc.id, w.cur, w.oc.spec.cfg) : \E e \in clients : e.id = d.id
      BY <1>1 DEF Renamed, TypeInv, RegistryType, Registration
    <3> QED
      BY <1>1, <2>2, <3>1 DEF EditClient, Edited, GiveUp, registry
  <2>6. WorkerStep => Register
    BY <2>3, <2>4, <2>5, QuietSteps DEF WorkerStep
  <2>7. ~UserStep /\ ~WatchStep /\ ~SecretStep /\ ~Restart
        /\ ~\E m \in SecretName : CollectGarbage(m)
    BY <2>3 DEF UserStep, CreateCR, EditSpec, DeleteCR, ForceRemove, WatchStep, DeliverCR,
       DeliverSecret, SecretStep, DeleteSecret, Squat, Scrub, Unlabel, CollectGarbage,
       Tamper, Restart
  <2>8. ~TsidpStep /\ ~UNCHANGED vars /\ ~Quiescent
    BY <1>1 DEF WorkerMoves, TsidpStep, LateAnswer, LoseState, AdminEdit, Quiescent, vars
  <2> QED
    BY <1>1, <2>1, <2>6, <2>7, <2>8 DEF Next
<1>2. TypeInv /\ VetInv /\ [Next]_vars => [OnlyVetted]_vars
  BY <1>1
<1>3. TypeInv /\ VetInv /\ [Next]_vars => VetInv'
  BY VetNext
<1>4. Init => VetInv
  BY IdleType DEF Init, VetInv
<1> QED
  BY <1>2, <1>3, <1>4, TypeInit, TypeNext, PTL DEF Spec, CollisionRegistersNothing
=============================================================================
