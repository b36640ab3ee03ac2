-------------------------- MODULE OIDCClientCoherence --------------------------
(***************************************************************************)
(* What is Ready is coherent, for every value of the constants: the proof  *)
(* of CredentialsCoherent, from the assumption that nobody takes           *)
(* credentials or registrations away behind the operator's back.  Stale    *)
(* reads, conflicts, crashes, lost answers, edits and squatters remain.    *)
(***************************************************************************)
EXTENDS OIDCClientSafety

Undisturbed == Faults \cap {"delete", "scrub", "loss", "late", "adminEdit"} = {}

\* The status says Ready, of this generation, and has an id.
Claims(o) == /\ o.phase = "live" /\ o.reason = "Ready" /\ o.id # 0
             /\ o.obs = o.gen /\ o.condGen = o.gen

\* What it says is so, in R, tsidp's registry, and in the Secrets S.
Backed(R, u, o) == \E c \in R : c.id = o.id /\ c.fp = u /\ c.cfg = o.spec.cfg
Filled(S, u, o) == LET s == Stored(S[o.spec.secret])
                   IN s.exists /\ s.owner = u /\ s.creds = o.id

\* A pass that starts from v knows of o what it needs.
Same(v, o) == v.phase = o.phase /\ v.spec = o.spec /\ v.id \in {0, o.id}

-----------------------------------------------------------------------------
(* The inductive invariant.                                                *)

\* No status is ahead of its spec.
Bounded == \A u \in CR : \A v \in Versions(cr[u]) : v.obs <= v.gen

\* Credentials are in the Secrets of the CR they were issued for.
CredsOwn ==
    \A n \in SecretName : \A s \in Versions(secrets[n]) : s.creds # 0 =>
        s.exists /\ \A c \in clients : c.id = s.creds => c.by = s.owner

\* Whoever claims to be Ready is, and so thinks every pass that starts now.
ClaimsTrue ==
    \A u \in CR : Claims(Obj(u)) =>
        /\ Backed(clients, u, Obj(u)) /\ Filled(secrets, u, Obj(u))
        /\ \A v \in Versions(cr[u]) : Same(v, Obj(u))

\* The steps before the pass has an id other than the status has.
ByStatus == {"addFinalizer", "discovery", "vetRename", "readOld", "deleteOld",
             "vetTarget", "listClients", "burnOrphan", "register", "writeSecret"}
Unrecorded == {"vetTarget", "listClients", "burnOrphan", "register", "writeSecret"}
Renaming == {"vetRename", "readOld", "deleteOld"}

\* A pass j whose copy of the CR, with the versions h, is not outdated: its
\* status update will say what the pass has found in R and S.
Fresh(j, h, R, S) ==
    /\ \A v \in Versions(h) : /\ v.phase = j.oc.phase /\ v.spec = j.oc.spec
                              /\ v.id = Stored(h).id
    /\ j.pc = "addFinalizer" => j.oc = Stored(h)
    /\ j.oc.id \in {0, Stored(h).id} \/ Stored(h).id = 0
    /\ j.pc \in ByStatus => j.oc.id = Stored(h).id
    /\ j.pc = "readSecret" /\ ~j.drifted => Backed(R, j.cur, j.oc)
    /\ j.pc \in {"editClient", "verifyEdit", "syncSecret"} => Filled(S, j.cur, j.oc)
    /\ j.pc = "syncSecret" => Backed(R, j.cur, j.oc)
    /\ j.pc = "status" /\ j.oc.reason = "Ready" /\ j.oc.id # 0 =>
         Backed(R, j.cur, j.oc) /\ Filled(S, j.cur, j.oc)

\* A pass over a CR that is Ready, o, finds nothing to burn, edit or rename.
Calm == {"addFinalizer", "discovery", "vetRename", "readOld", "deleteOld",
         "vetTarget", "listClients", "getClient", "readSecret", "syncSecret",
         "status"}
Careful(j, o) ==
    /\ j.oc.spec = o.spec /\ j.oc.id \in {0, o.id} /\ j.pc \in Calm
    /\ j.pc = "listClients" => j.creds = o.id
    /\ j.pc = "readSecret" => ~j.drifted

Knows(j, h, R, S) ==
    /\ j.oc.obs <= j.oc.gen /\ j.oc.phase # "gone"
    /\ j.pc \in Renaming => j.oc.secret # j.oc.spec.secret
    /\ j.pc \in Unrecorded => j.oc.id = 0
    /\ j.pc = "readSecret" => Live(R, j.oc.id)
    /\ j.pc = "writeSecret" =>
         /\ \E c \in R : c.id = j.creds /\ c.fp = j.cur /\ c.cfg = j.oc.spec.cfg
         /\ \A n \in SecretName : \A s \in Versions(S[n]) : s.creds # j.creds
    /\ j.fresh => Fresh(j, h, R, S)
    /\ Claims(Stored(h)) => Careful(j, Stored(h))

CohInv ==
    /\ Bounded /\ CredsOwn /\ ClaimsTrue
    /\ w.pc # "idle" => Knows(w, cr[w.cur], clients, secrets)

-----------------------------------------------------------------------------
(* Objects and passes.                                                     *)

\* What the changes of the object in hand leave as it was.
LEMMA Edits ==
    ASSUME NEW o \in Object
    PROVE  /\ \A r : LET p == NotReady(o, r)
                     IN /\ p.phase = o.phase /\ p.spec = o.spec /\ p.gen = o.gen
                        /\ p.obs = o.obs /\ p.id = o.id /\ p.reason = r
           /\ LET p == MarkReady(o)
              IN /\ p.phase = o.phase /\ p.spec = o.spec /\ p.gen = o.gen
                 /\ p.obs = o.obs /\ p.id = o.id
           /\ LET p == Unregistered(o)
              IN /\ p.phase = o.phase /\ p.spec = o.spec /\ p.gen = o.gen
                 /\ p.obs = o.obs /\ p.id = 0
           /\ LET p == [o EXCEPT !.secret = None]
              IN /\ p.phase = o.phase /\ p.spec = o.spec /\ p.gen = o.gen
                 /\ p.obs = o.obs /\ p.id = o.id
           /\ LET p == [o EXCEPT !.obs = o.gen]
              IN /\ p.phase = o.phase /\ p.spec = o.spec /\ p.gen = o.gen
                 /\ p.obs = o.gen /\ p.id = o.id /\ p.reason = o.reason
                 /\ p.condGen = o.condGen
           /\ LET p == [o EXCEPT !.fin = TRUE]
              IN /\ p.phase = o.phase /\ p.spec = o.spec /\ p.gen = o.gen
                 /\ p.obs = o.obs /\ p.id = o.id /\ p.reason = o.reason
                 /\ p.condGen = o.condGen
           /\ \A id : LET p == [o EXCEPT !.id = id]
                      IN /\ p.phase = o.phase /\ p.spec = o.spec /\ p.gen = o.gen
                         /\ p.obs = o.obs /\ p.id = id
BY DEF NotReady, MarkReady, Unregistered, Object

-----------------------------------------------------------------------------
(* How steps preserve it.                                                  *)

\* The pass is over, or goes on knowing what it must, and nothing was written.
LEMMA GoesOn ==
    ASSUME CohInv, UNCHANGED <<cr, clients, secrets>>,
           \/ w'.pc = "idle"
           \/ w'.cur = w.cur /\ Knows(w', cr[w.cur], clients, secrets)
    PROVE  CohInv'
<1>1. Bounded' /\ CredsOwn' /\ ClaimsTrue'
  BY DEF CohInv, Bounded, CredsOwn, ClaimsTrue, Obj
<1>2. w'.pc # "idle" => Knows(w', cr'[w'.cur], clients', secrets')
  OBVIOUS
<1> QED
  BY <1>1, <1>2 DEF CohInv

\* Steps that go by nothing that the pass has found.
Free == {"status", "burnOrphan", "burnClient", "removeFinalizer", "sweep"}

\* A pass goes on to such a step: of a CR that claims to be Ready, to the
\* status only, which it makes Ready only if it is.
LEMMA FreePass ==
    ASSUME NEW h, NEW R, NEW S, NEW R2, NEW S2, NEW j, Knows(w, h, R, S),
           j.pc \in Free, j.cur = w.cur, j.fresh = w.fresh,
           j.oc.phase = w.oc.phase, j.oc.spec = w.oc.spec, j.oc.gen = w.oc.gen,
           j.oc.obs = w.oc.obs, j.oc.id \in {0, w.oc.id},
           j.pc = "burnOrphan" => j.oc.id = 0,
           Claims(Stored(h)) => j.pc = "status",
           j.fresh /\ j.pc = "status" /\ j.oc.reason = "Ready" /\ j.oc.id # 0 =>
               Backed(R2, j.cur, j.oc) /\ Filled(S2, j.cur, j.oc),
           j.fresh /\ j.pc = "burnOrphan" => j.oc.id = Stored(h).id
    PROVE  Knows(j, h, R2, S2)
<1>1. /\ j.pc \notin ByStatus \/ j.pc = "burnOrphan"
      /\ j.pc \notin Unrecorded \/ j.pc = "burnOrphan"
      /\ j.pc \notin Renaming
      /\ j.pc \notin {"addFinalizer", "readSecret", "writeSecret", "editClient",
                      "verifyEdit", "syncSecret", "listClients"}
  BY DEF Free, ByStatus, Unrecorded, Renaming
<1>2. ASSUME j.fresh
      PROVE  Fresh(j, h, R2, S2)
  <2>1. Fresh(w, h, R, S)
    BY <1>2 DEF Knows
  <2> QED
    BY <1>1, <1>2, <2>1 DEF Fresh
<1>3. ASSUME Claims(Stored(h))
      PROVE  Careful(j, Stored(h))
  <2>1. Careful(w, Stored(h))
    BY <1>3 DEF Knows
  <2> QED
    BY <1>3, <2>1 DEF Careful, Calm
<1> QED
  BY <1>1, <1>2, <1>3 DEF Knows

\* A pass that fails says so in its status.
LEMMA FailPass ==
    ASSUME TypeInv, w.pc # "idle", NEW h, NEW R, NEW S, NEW R2, NEW S2,
           Knows(w, h, R, S), NEW r \in Reasons \ {"Ready"}, Fail(r)
    PROVE  w'.cur = w.cur /\ Knows(w', h, R2, S2)
<1> DEFINE p == NotReady(w.oc, r)
<1>1. /\ p.phase = w.oc.phase /\ p.spec = w.oc.spec /\ p.gen = w.oc.gen
      /\ p.obs = w.oc.obs /\ p.id = w.oc.id /\ p.reason = r
  BY Fields, Edits DEF TypeInv
<1>2. w'.pc = "status" /\ w'.cur = w.cur /\ w'.fresh = w.fresh /\ w'.oc = p
  BY DEF Fail, Go, At, Job
<1> HIDE DEF p
<1>3. Knows(w', h, R2, S2)
  BY <1>1, <1>2, FreePass DEF Free
<1> QED
  BY <1>2, <1>3

\* The early steps: the id in hand is the one in the status.
Early == {"vetRename", "readOld", "deleteOld", "vetTarget", "getClient"}

\* A pass goes on to such a step.
LEMMA EarlyPass ==
    ASSUME NEW h, NEW R, NEW S, NEW R2, NEW S2, NEW j, Knows(w, h, R, S),
           w.pc \in ByStatus, j.pc \in Early, j.cur = w.cur, j.fresh = w.fresh,
           j.oc.phase = w.oc.phase, j.oc.spec = w.oc.spec, j.oc.gen = w.oc.gen,
           j.oc.obs = w.oc.obs, j.oc.id = w.oc.id,
           j.pc = "vetTarget" => j.oc.id = 0,
           j.pc \in Renaming => j.oc.secret # j.oc.spec.secret
    PROVE  Knows(j, h, R2, S2)
<1>1. /\ j.pc \notin Unrecorded \/ j.pc = "vetTarget"
      /\ j.pc \notin {"addFinalizer", "readSecret", "writeSecret", "editClient",
                      "verifyEdit", "syncSecret", "listClients", "status"}
  BY DEF Early, Unrecorded
<1>2. ASSUME j.fresh
      PROVE  Fresh(j, h, R2, S2)
  <2>1. Fresh(w, h, R, S)
    BY <1>2 DEF Knows
  <2> QED
    BY <1>1, <1>2, <2>1 DEF Fresh
<1>3. ASSUME Claims(Stored(h))
      PROVE  Careful(j, Stored(h))
  <2>1. Careful(w, Stored(h))
    BY <1>3 DEF Knows
  <2> QED
    BY <1>1, <2>1 DEF Careful, Calm, Early
<1> QED
  BY <1>1, <1>2, <1>3 DEF Knows

\* The renaming is done, or there was none.
LEMMA RenamePass ==
    ASSUME TypeInv, w.pc \in {"discovery", "readOld", "deleteOld"},
           NEW h, NEW R, NEW S, NEW R2, NEW S2, Knows(w, h, R, S),
           w' \in {AfterRename(w.oc), AfterRename([w.oc EXCEPT !.secret = None])}
    PROVE  w'.cur = w.cur /\ Knows(w', h, R2, S2)
<1>1. PICK p : /\ w' = AfterRename(p) /\ p.phase = w.oc.phase /\ p.spec = w.oc.spec
               /\ p.gen = w.oc.gen /\ p.obs = w.oc.obs /\ p.id = w.oc.id
  <2>1. w.oc \in Object
    BY Fields DEF TypeInv
  <2> QED
    BY <2>1, Edits
<1>2. /\ w'.cur = w.cur /\ w'.fresh = w.fresh /\ w'.oc = p
      /\ w'.pc \in {"vetTarget", "getClient"} /\ (w'.pc = "vetTarget" => p.id = 0)
  BY <1>1 DEF AfterRename, At, Job
<1>3. w.pc \in ByStatus /\ w'.pc \in Early /\ w'.pc \notin Renaming
  BY <1>2 DEF ByStatus, Early, Renaming
<1>4. Knows(w', h, R2, S2)
  BY <1>1, <1>2, <1>3, EarlyPass
<1> QED
  BY <1>2, <1>4

-----------------------------------------------------------------------------
(* The steps of the worker that write nothing.                             *)

\* What a pass knows of the CR it works on.
LEMMA AtWork ==
    ASSUME TypeInv, CohInv, w.pc # "idle"
    PROVE  /\ w.cur \in CR /\ w.oc \in Object /\ w.oc.spec.secret \in SecretName
           /\ Stored(cr[w.cur]) \in Object
           /\ Stored(cr[w.cur]) \in Versions(cr[w.cur])
           /\ Knows(w, cr[w.cur], clients, secrets)
           /\ Claims(Stored(cr[w.cur])) =>
                LET o == Stored(cr[w.cur])
                IN /\ Careful(w, o) /\ Backed(clients, w.cur, o)
                   /\ Filled(secrets, w.cur, o)
<1>1. w.cur \in CR /\ w.oc \in Object /\ w.oc.spec.secret \in SecretName
  BY Fields, ObjectOps DEF TypeInv
<1>2. Stored(cr[w.cur]) \in Versions(cr[w.cur]) /\ Stored(cr[w.cur]) \in Object
  BY <1>1, VersionsType
<1>3. Knows(w, cr[w.cur], clients, secrets)
  BY DEF CohInv
<1> QED
  BY <1>1, <1>2, <1>3 DEF CohInv, ClaimsTrue, Obj, Knows

\* A pass that starts, or goes on after it added the finalizer.
LEMMA BeginPass ==
    ASSUME NEW u, NEW o \in Object, NEW f, NEW h, NEW R, NEW S,
           o.phase # "gone", o.obs <= o.gen,
           f => /\ o.id = Stored(h).id
                /\ \A v \in Versions(h) : /\ v.phase = o.phase /\ v.spec = o.spec
                                          /\ v.id = Stored(h).id,
           Claims(Stored(h)) => Same(o, Stored(h))
    PROVE  Begin(u, o, f).cur = u /\ Knows(Begin(u, o, f), h, R, S)
<1> DEFINE j == Begin(u, o, f)
           p == NotReady(o, "SpecInvalid")
<1>1. /\ p.phase = o.phase /\ p.spec = o.spec /\ p.gen = o.gen
      /\ p.obs = o.obs /\ p.id = o.id /\ p.reason = "SpecInvalid"
  BY Edits
<1>2. /\ j.cur = u /\ j.fresh = f
      /\ \/ j.pc = "status" /\ j.oc = p
         \/ j.pc = "discovery" /\ j.oc = o
  BY DEF Begin, Job
<1>3. /\ j.oc.phase = o.phase /\ j.oc.spec = o.spec /\ j.oc.gen = o.gen
      /\ j.oc.obs = o.obs /\ j.oc.id = o.id /\ j.pc \in {"status", "discovery"}
      /\ j.pc = "status" => j.oc.reason # "Ready"
  BY <1>1, <1>2
<1>4. Knows(j, h, R, S)
  <2> HIDE DEF j, p
  <2> QED
    BY <1>2, <1>3 DEF Knows, Fresh, Careful, Calm, Same, ByStatus, Unrecorded, Renaming
<1> QED
  BY <1>2, <1>4

\* A pass starts from some version of the CR, and knows whether it is the last.
LEMMA StartKeeps ==
    ASSUME TypeInv, CohInv, NEW u \in CR, StartReconcile(u)
    PROVE  CohInv'
<1> DEFINE h == cr[u]
           o == Cached(h)
           f == Synced(h)
<1>1. /\ o \in Object /\ o \in Versions(h)
      /\ f => o = Stored(h) /\ Versions(h) = {Stored(h)}
  BY VersionsType, VersionsOps DEF TypeInv, KubeType
<1>2. o.obs <= o.gen /\ (Claims(Stored(h)) => Same(o, Stored(h)))
  BY <1>1 DEF CohInv, Bounded, ClaimsTrue, Obj
<1>3. UNCHANGED <<cr, clients, secrets>>
  BY DEF StartReconcile, registry
<1>4. CASE w' = w
  BY <1>3, <1>4 DEF CohInv, Bounded, CredsOwn, ClaimsTrue, Obj
<1>5. ASSUME w'.cur = u, Knows(w', h, clients, secrets)
      PROVE  CohInv'
  <2>1. Bounded' /\ CredsOwn' /\ ClaimsTrue'
    BY <1>3 DEF CohInv, Bounded, CredsOwn, ClaimsTrue, Obj
  <2> QED
    BY <1>3, <1>5, <2>1 DEF CohInv
<1>6. CASE o.phase = "live" /\ w' = Begin(u, o, f)
  <2>1. f => /\ o.id = Stored(h).id
             /\ \A v \in Versions(h) : /\ v.phase = o.phase /\ v.spec = o.spec
                                       /\ v.id = Stored(h).id
    BY <1>1
  <2> HIDE DEF h, o, f
  <2> QED
    BY <1>1, <1>2, <1>5, <1>6, <2>1, BeginPass
<1>7. ASSUME NEW pc, w' = Job(u, o, f, pc),
             \/ pc = "addFinalizer" /\ o.phase = "live"
             \/ /\ pc \in {"removeFinalizer", "deregister", "listForCleanup"}
                /\ o.phase = "deleting"
      PROVE  CohInv'
  <2>1. /\ w'.cur = u /\ w'.oc = o /\ w'.fresh = f /\ w'.pc = pc
    BY <1>7 DEF Job
  <2>2. f => Fresh(w', h, clients, secrets)
    BY <1>1, <1>7, <2>1 DEF Fresh, ByStatus
  <2>3. Claims(Stored(h)) => Careful(w', Stored(h))
    BY <1>2, <1>7, <2>1 DEF Careful, Calm, Same, Claims
  <2>4. Knows(w', h, clients, secrets)
    BY <1>2, <1>7, <2>1, <2>2, <2>3 DEF Knows, Unrecorded, Renaming
  <2> QED
    BY <1>5, <2>1, <2>4
<1> QED
  BY <1>4, <1>6, <1>7 DEF StartReconcile, BeginDelete

\* Discover, VetRename, ReadOldSecret: up to the vetting of the Secret name.
LEMMA RenameKeeps ==
    ASSUME TypeInv, CohInv, Discover \/ VetRename \/ ReadOldSecret
    PROVE  CohInv'
<1>1. /\ UNCHANGED <<cr, clients, secrets>> /\ w.pc # "idle"
      /\ w.pc \in ByStatus /\ w.pc \in {"discovery", "vetRename", "readOld"}
  BY DEF Discover, VetRename, ReadOldSecret, Failed, registry, ByStatus
<1>2. Knows(w, cr[w.cur], clients, secrets)
  BY <1>1, AtWork
<1>3. CASE \E r \in Reasons \ {"Ready"} : Fail(r)
  BY <1>1, <1>2, <1>3, FailPass, GoesOn
<1>4. CASE /\ w.pc # "vetRename"
           /\ w' \in {AfterRename(w.oc), AfterRename([w.oc EXCEPT !.secret = None])}
  BY <1>1, <1>2, <1>4, RenamePass, GoesOn
<1>5. ASSUME w'.pc \in Renaming, w'.cur = w.cur, w'.fresh = w.fresh, w'.oc = w.oc,
             w.oc.secret # w.oc.spec.secret
      PROVE  CohInv'
  <2>1. w'.pc \in Early /\ w'.pc # "vetTarget"
    BY <1>5 DEF Renaming, Early
  <2>2. Knows(w', cr[w.cur], clients, secrets)
    BY <1>1, <1>2, <1>5, <2>1, EarlyPass
  <2> QED
    BY <1>1, <1>5, <2>2, GoesOn
<1>6. CASE \/ Discover /\ RenamePending(w.oc) /\ w' = At("vetRename", w.oc)
           \/ VetRename /\ w' = At("readOld", w.oc)
           \/ ReadOldSecret /\ w' = [At("deleteOld", w.oc) EXCEPT !.pinned = TRUE]
  <2>1. /\ w'.pc \in Renaming /\ w'.cur = w.cur /\ w'.fresh = w.fresh /\ w'.oc = w.oc
    BY <1>6 DEF At, Job, Renaming
  <2>2. w.oc.secret # w.oc.spec.secret
    BY <1>2, <1>6 DEF RenamePending, Knows, Renaming, VetRename, ReadOldSecret
  <2> QED
    BY <1>5, <2>1, <2>2
<1>7. {"TsidpUnreachable", "SecretConflict", "SecretReadFailed", "SecretCleanupFailed"}
         \subseteq Reasons \ {"Ready"}
  BY DEF Reasons
<1> QED
  BY <1>1, <1>3, <1>4, <1>6, <1>7 DEF Discover, VetRename, ReadOldSecret, Failed, Go

\* VetTarget: what the Secret holds is what the status says, if it is Ready.
LEMMA VetTargetKeeps ==
    ASSUME TypeInv, CohInv, VetTarget
    PROVE  CohInv'
<1> DEFINE h == cr[w.cur]
           sec == Stored(secrets[w.oc.spec.secret])
<1>1. UNCHANGED <<cr, clients, secrets>> /\ w.pc = "vetTarget"
  BY DEF VetTarget, Failed, registry
<1>2. /\ Knows(w, h, clients, secrets)
      /\ Claims(Stored(h)) => /\ Careful(w, Stored(h))
                              /\ Filled(secrets, w.cur, Stored(h))
  BY <1>1, AtWork
<1>3. CASE \E r \in Reasons \ {"Ready"} : Fail(r)
  BY <1>1, <1>2, <1>3, FailPass, GoesOn
<1>4. CASE w' = [At("listClients", w.oc) EXCEPT !.creds = sec.creds]
  <2>1. /\ w'.pc = "listClients" /\ w'.cur = w.cur /\ w'.oc = w.oc
        /\ w'.fresh = w.fresh /\ w'.creds = sec.creds
    BY <1>4 DEF At, Job
  <2>2. ASSUME Claims(Stored(h))
        PROVE  Careful(w', Stored(h))
    <3>1. w.oc.spec = Stored(h).spec /\ sec.creds = Stored(h).id
      BY <1>2, <2>2 DEF Careful, Filled
    <3> QED
      BY <1>2, <2>1, <2>2, <3>1 DEF Careful, Calm
  <2>3. ASSUME w'.fresh
        PROVE  Fresh(w', h, clients, secrets)
    BY <1>1, <1>2, <2>1, <2>3 DEF Knows, Fresh, ByStatus
  <2>4. Knows(w', h, clients, secrets)
    BY <1>1, <1>2, <2>1, <2>2, <2>3 DEF Knows, Unrecorded, Renaming
  <2> QED
    BY <1>1, <2>1, <2>4, GoesOn
<1>5. {"SecretConflict", "RegistrationFailed"} \subseteq Reasons \ {"Ready"}
  BY DEF Reasons
<1> QED
  BY <1>3, <1>4, <1>5 DEF VetTarget, Failed, APIRead

\* ListClients: the one registration there is for a CR that is Ready is the
\* one whose credentials the Secret has.
LEMMA ListClientsKeeps ==
    ASSUME TypeInv, OneInv, CohInv, ListClients
    PROVE  CohInv'
<1> DEFINE h == cr[w.cur]
           mine == Fingerprinted(clients, w.cur)
<1>1. UNCHANGED <<cr, clients, secrets>> /\ w.pc = "listClients"
  BY DEF ListClients, Failed, registry
<1>2. /\ Knows(w, h, clients, secrets) /\ w.cur \in CR /\ w.oc \in Object
      /\ Claims(Stored(h)) => /\ Careful(w, Stored(h))
                              /\ Backed(clients, w.cur, Stored(h))
  BY <1>1, AtWork
<1>3. w.oc.id = 0
  BY <1>1, <1>2 DEF Knows, Unrecorded
<1>4. ASSUME Claims(Stored(h))
      PROVE  /\ mine # {} /\ \A c \in mine : c.id = w.creds
             /\ w.creds = Stored(h).id /\ w.oc.spec = Stored(h).spec
  <2>1. PICK c \in clients : c.id = Stored(h).id /\ c.fp = w.cur
    BY <1>2, <1>4 DEF Backed
  <2>2. w.cur # None
    BY <1>2, NoneAssumption
  <2>3. \A d \in mine : d = c
    BY <2>1, <2>2 DEF OneInv, AtMostOneRegistration, Fingerprinted
  <2>4. w.creds = Stored(h).id /\ w.oc.spec = Stored(h).spec
    BY <1>1, <1>2, <1>4 DEF Careful
  <2> QED
    BY <2>1, <2>3, <2>4 DEF Fingerprinted
<1>5. w.fresh => Stored(h).id = 0
  BY <1>1, <1>2, <1>3 DEF Knows, Fresh, ByStatus
<1>6. CASE Fail("RegistrationFailed")
  <2>1. "RegistrationFailed" \in Reasons \ {"Ready"}
    BY DEF Reasons
  <2> QED
    BY <1>1, <1>2, <1>6, <2>1, FailPass, GoesOn
<1>7. CASE mine = {} /\ Go("register", w.oc)
  <2>1. /\ w'.pc = "register" /\ w'.cur = w.cur /\ w'.oc = w.oc /\ w'.fresh = w.fresh
    BY <1>7 DEF Go, At, Job
  <2>2. Knows(w', h, clients, secrets)
    BY <1>1, <1>2, <1>3, <1>4, <1>7, <2>1
    DEF Knows, Fresh, ByStatus, Unrecorded, Renaming
  <2> QED
    BY <1>1, <2>1, <2>2, GoesOn
<1>8. ASSUME NEW c \in mine, c.id = w.creds,
             w' = At("getClient", [w.oc EXCEPT !.id = c.id])
      PROVE  CohInv'
  <2> DEFINE p == [w.oc EXCEPT !.id = c.id]
  <2>1. /\ p.phase = w.oc.phase /\ p.spec = w.oc.spec /\ p.gen = w.oc.gen
        /\ p.obs = w.oc.obs /\ p.id = c.id
    BY <1>2, Edits
  <2>2. /\ w'.pc = "getClient" /\ w'.cur = w.cur /\ w'.oc = p /\ w'.fresh = w.fresh
    BY <1>8 DEF At, Job
  <2> HIDE DEF p
  <2>3. Claims(Stored(h)) => Careful(w', Stored(h))
    BY <1>4, <1>8, <2>1, <2>2 DEF Careful, Calm
  <2>4. w'.fresh => Fresh(w', h, clients, secrets)
    BY <1>1, <1>2, <1>5, <2>1, <2>2 DEF Knows, Fresh, ByStatus
  <2>5. Knows(w', h, clients, secrets)
    BY <1>2, <2>1, <2>2, <2>3, <2>4 DEF Knows, Unrecorded, Renaming
  <2> QED
    BY <1>1, <2>2, <2>5, GoesOn
<1>9. ASSUME NEW c \in mine, c.id # w.creds,
             w' = [At("burnOrphan", w.oc) EXCEPT !.doomed = {c.id}]
      PROVE  CohInv'
  <2>1. /\ w'.pc = "burnOrphan" /\ w'.cur = w.cur /\ w'.oc = w.oc /\ w'.fresh = w.fresh
    BY <1>9 DEF At, Job
  <2>2. Knows(w', h, clients, secrets)
    BY <1>2, <1>3, <1>4, <1>5, <1>9, <2>1, FreePass DEF Free
  <2> QED
    BY <1>1, <2>1, <2>2, GoesOn
<1> QED
  BY <1>6, <1>7, <1>8, <1>9 DEF ListClients, Failed

\* GetClient: the registration that the status records has not drifted, if it
\* is Ready.
LEMMA GetClientKeeps ==
    ASSUME TypeInv, CohInv, GetClient
    PROVE  CohInv'
<1> DEFINE h == cr[w.cur]
           b == ~Matches(clients, w.oc.id, w.cur, w.oc.spec.cfg)
<1>1. UNCHANGED <<cr, clients, secrets>> /\ w.pc = "getClient"
  BY DEF GetClient, Failed, registry
<1>2. /\ Knows(w, h, clients, secrets) /\ w.cur \in CR /\ w.oc \in Object
      /\ Claims(Stored(h)) => /\ Careful(w, Stored(h))
                              /\ Backed(clients, w.cur, Stored(h))
  BY <1>1, AtWork
<1>3. CASE Fail("TsidpUnreachable")
  <2>1. "TsidpUnreachable" \in Reasons \ {"Ready"}
    BY DEF Reasons
  <2> QED
    BY <1>1, <1>2, <1>3, <2>1, FailPass, GoesOn
<1>4. CASE w' = At("status", Unregistered(w.oc))
  <2> DEFINE p == Unregistered(w.oc)
  <2>1. /\ p.phase = w.oc.phase /\ p.spec = w.oc.spec /\ p.gen = w.oc.gen
        /\ p.obs = w.oc.obs /\ p.id = 0
    BY <1>2, Edits
  <2>2. /\ w'.pc = "status" /\ w'.cur = w.cur /\ w'.oc = p /\ w'.fresh = w.fresh
    BY <1>4 DEF At, Job
  <2> HIDE DEF p
  <2>3. Knows(w', h, clients, secrets)
    BY <1>2, <2>1, <2>2, FreePass DEF Free
  <2> QED
    BY <1>1, <2>2, <2>3, GoesOn
<1>5. CASE /\ Live(clients, w.oc.id)
           /\ w' = [At("readSecret", w.oc) EXCEPT !.drifted = b]
  <2>1. /\ w'.pc = "readSecret" /\ w'.cur = w.cur /\ w'.oc = w.oc /\ w'.fresh = w.fresh
        /\ w'.drifted = b
    BY <1>5 DEF At, Job
  <2>2. ~b <=> Backed(clients, w.cur, w.oc)
    BY DEF Matches, Backed
  <2>3. ASSUME Claims(Stored(h))
        PROVE  Careful(w', Stored(h))
    <3>1. w.oc.id # 0
      BY <1>5 DEF Live, TypeInv, RegistryType, Registration
    <3>2. w.oc.id = Stored(h).id /\ w.oc.spec = Stored(h).spec
      BY <1>2, <2>3, <3>1 DEF Careful
    <3>3. ~b
      BY <1>2, <2>2, <2>3, <3>2 DEF Backed
    <3> HIDE DEF b
    <3> QED
      BY <2>1, <3>2, <3>3 DEF Careful, Calm
  <2>4. ASSUME w'.fresh
        PROVE  Fresh(w', h, clients, secrets)
    <3> HIDE DEF b
    <3> QED
      BY <1>1, <1>2, <2>1, <2>2, <2>4 DEF Knows, Fresh, ByStatus
  <2>5. Knows(w', h, clients, secrets)
    BY <1>2, <1>5, <2>1, <2>3, <2>4 DEF Knows, Unrecorded, Renaming
  <2> QED
    BY <1>1, <2>1, <2>5, GoesOn
<1> QED
  BY <1>3, <1>4, <1>5 DEF GetClient, Failed

\* A Secret with the credentials of a registration in hand is the CR's own.
LEMMA SecretInHand ==
    ASSUME TypeInv, OwnInv, CohInv, w.pc = "readSecret",
           SecretOK(Stored(secrets[w.oc.spec.secret]), w.oc.id)
    PROVE  Filled(secrets, w.cur, w.oc)
<1> DEFINE s == Stored(secrets[w.oc.spec.secret])
<1>1. w.oc.spec.secret \in SecretName /\ Knows(w, cr[w.cur], clients, secrets)
  BY AtWork
<1>2. PICK c \in clients : c.id = w.oc.id
  BY <1>1 DEF Knows, Live
<1>3. c.by = w.cur /\ c.id # 0
  BY <1>2 DEF OwnInv, HandOwn, TypeInv, RegistryType, Registration
<1>4. s \in Versions(secrets[w.oc.spec.secret]) /\ s.creds = c.id
  BY <1>1, <1>2, VersionsType DEF SecretOK
<1>5. s.owner = w.cur
  BY <1>1, <1>2, <1>3, <1>4 DEF CohInv, CredsOwn
<1> QED
  BY <1>5 DEF Filled, SecretOK

\* ReadSecret: what is Ready has its credentials, and goes on as it is.
LEMMA ReadSecretKeeps ==
    ASSUME TypeInv, OwnInv, CohInv, ReadSecret
    PROVE  CohInv'
<1> DEFINE h == cr[w.cur]
           sec == Stored(secrets[w.oc.spec.secret])
<1>1. UNCHANGED <<cr, clients, secrets>> /\ w.pc = "readSecret"
  BY DEF ReadSecret, Failed, registry
<1>2. /\ Knows(w, h, clients, secrets) /\ w.cur \in CR /\ w.oc \in Object
      /\ Claims(Stored(h)) => /\ Careful(w, Stored(h))
                              /\ Filled(secrets, w.cur, Stored(h))
  BY <1>1, AtWork
<1>3. CASE \E r \in Reasons \ {"Ready"} : Fail(r)
  BY <1>1, <1>2, <1>3, FailPass, GoesOn
<1>4. Claims(Stored(h)) => ~w.drifted /\ SecretOK(sec, w.oc.id)
  <2>1. w.oc.id # 0
    BY <1>1, <1>2 DEF Knows, Live, TypeInv, RegistryType, Registration
  <2> QED
    BY <1>1, <1>2, <2>1 DEF Careful, Filled, SecretOK
<1>5. CASE w' = At("burnClient", w.oc) /\ ~Claims(Stored(h))
  <2>1. /\ w'.pc = "burnClient" /\ w'.cur = w.cur /\ w'.oc = w.oc /\ w'.fresh = w.fresh
    BY <1>5 DEF At, Job
  <2>2. Knows(w', h, clients, secrets)
    BY <1>2, <1>5, <2>1, FreePass DEF Free
  <2> QED
    BY <1>1, <2>1, <2>2, GoesOn
<1>6. CASE /\ SecretOK(sec, w.oc.id)
           /\ \/ w' = At("editClient", w.oc) /\ w.drifted
              \/ w' = At("syncSecret", w.oc) /\ ~w.drifted
  <2>1. /\ w'.cur = w.cur /\ w'.oc = w.oc /\ w'.fresh = w.fresh
        /\ \/ w'.pc = "editClient" /\ w.drifted
           \/ w'.pc = "syncSecret" /\ ~w.drifted
    BY <1>6 DEF At, Job
  <2>2. Filled(secrets, w.cur, w.oc)
    BY <1>1, <1>6, SecretInHand
  <2>3. ASSUME w'.fresh
        PROVE  Fresh(w', h, clients, secrets)
    BY <1>1, <1>2, <2>1, <2>2, <2>3 DEF Knows, Fresh, ByStatus
  <2>4. Claims(Stored(h)) => Careful(w', Stored(h))
    BY <1>2, <1>4, <2>1 DEF Careful, Calm
  <2>5. Knows(w', h, clients, secrets)
    BY <1>2, <2>1, <2>3, <2>4 DEF Knows, Unrecorded, Renaming
  <2> QED
    BY <1>1, <2>1, <2>5, GoesOn
<1>7. {"DriftBlocked", "SecretReadFailed"} \subseteq Reasons \ {"Ready"}
  BY DEF Reasons
<1>8. w' = At("status", NotReady(w.oc, "DriftBlocked")) => Fail("DriftBlocked")
  BY DEF Fail, Go
<1> QED
  BY <1>3, <1>4, <1>5, <1>6, <1>7, <1>8 DEF ReadSecret, OnDrift, Failed, APIRead

\* VerifyEdit: the registration is now as the spec wants it.
LEMMA VerifyEditKeeps ==
    ASSUME TypeInv, CohInv, VerifyEdit
    PROVE  CohInv'
<1> DEFINE h == cr[w.cur]
<1>1. UNCHANGED <<cr, clients, secrets>> /\ w.pc = "verifyEdit"
  BY DEF VerifyEdit, Failed, registry
<1>2. Knows(w, h, clients, secrets)
  BY <1>1, AtWork
<1>3. CASE Fail("InPlaceUpdateFailed")
  <2>1. "InPlaceUpdateFailed" \in Reasons \ {"Ready"}
    BY DEF Reasons
  <2> QED
    BY <1>1, <1>2, <1>3, <2>1, FailPass, GoesOn
<1>4. CASE /\ Matches(clients, w.oc.id, w.cur, w.oc.spec.cfg)
           /\ Go("syncSecret", w.oc)
  <2>1. /\ w'.pc = "syncSecret" /\ w'.cur = w.cur /\ w'.oc = w.oc /\ w'.fresh = w.fresh
    BY <1>4 DEF Go, At, Job
  <2>2. Backed(clients, w.cur, w.oc)
    BY <1>4 DEF Matches, Backed
  <2>3. ~Claims(Stored(h))
    BY <1>1, <1>2 DEF Knows, Careful, Calm
  <2>4. w'.fresh => Fresh(w', h, clients, secrets)
    BY <1>1, <1>2, <2>1, <2>2 DEF Knows, Fresh, ByStatus
  <2>5. Knows(w', h, clients, secrets)
    BY <1>2, <2>1, <2>3, <2>4 DEF Knows, Unrecorded, Renaming
  <2> QED
    BY <1>1, <2>1, <2>5, GoesOn
<1> QED
  BY <1>3, <1>4 DEF VerifyEdit, Failed

-----------------------------------------------------------------------------
(* The steps of the worker that write to its CR.                           *)

\* A write to one CR, after which what it claims is so.
LEMMA PutKeeps ==
    ASSUME TypeInv, CohInv, UNCHANGED <<clients, secrets>>,
           NEW u \in CR, NEW o \in Object, Put(u, o), o.obs <= o.gen,
           Claims(o) => /\ Backed(clients, u, o) /\ Filled(secrets, u, o)
                        /\ \A v \in Versions(cr[u]) : Same(v, o)
    PROVE  Bounded' /\ CredsOwn' /\ ClaimsTrue'
<1>1. /\ Stored(cr'[u]) = o /\ Versions(cr'[u]) = Versions(cr[u]) \cup {o}
      /\ \A t \in CR \ {u} : cr'[t] = cr[t]
  BY PutVersions
<1>2. Bounded'
  BY <1>1 DEF CohInv, Bounded
<1>3. CredsOwn'
  BY DEF CohInv, CredsOwn
<1>4. ASSUME NEW t \in CR, Claims(Stored(cr'[t]))
      PROVE  /\ Backed(clients, t, Stored(cr'[t])) /\ Filled(secrets, t, Stored(cr'[t]))
             /\ \A v \in Versions(cr'[t]) : Same(v, Stored(cr'[t]))
  <2>1. CASE t = u
    <3>1. Same(o, o)
      BY DEF Same
    <3> QED
      BY <1>1, <1>4, <2>1, <3>1
  <2>2. CASE t # u
    BY <1>1, <1>4, <2>2 DEF CohInv, ClaimsTrue, Obj
  <2> QED
    BY <2>1, <2>2
<1>5. ClaimsTrue'
  BY <1>4 DEF ClaimsTrue, Obj
<1> QED
  BY <1>2, <1>3, <1>5

\* AddFinalizer: nothing but the finalizer.
LEMMA AddFinalizerKeeps ==
    ASSUME TypeInv, CohInv, AddFinalizer
    PROVE  CohInv'
<1> DEFINE o == [w.oc EXCEPT !.fin = TRUE]
           h == cr[w.cur]
<1>1. UNCHANGED <<clients, secrets>> /\ w.pc = "addFinalizer"
  BY DEF AddFinalizer, registry
<1>2. /\ Knows(w, h, clients, secrets) /\ w.cur \in CR /\ w.oc \in Object
      /\ Claims(Stored(h)) => /\ Backed(clients, w.cur, Stored(h))
                              /\ Filled(secrets, w.cur, Stored(h))
  BY <1>1, AtWork
<1>3. CASE UNCHANGED cr /\ Retry
  BY <1>1, <1>3, IdleType, GoesOn DEF Retry
<1>4. CASE w.fresh /\ Put(w.cur, o) /\ (Retry \/ w' = Begin(w.cur, o, TRUE))
  <2>1. /\ o.phase = w.oc.phase /\ o.spec = w.oc.spec /\ o.gen = w.oc.gen
        /\ o.obs = w.oc.obs /\ o.id = w.oc.id /\ o.reason = w.oc.reason
        /\ o.condGen = w.oc.condGen
    BY <1>2, Edits
  <2>2. o \in Object
    BY <1>2, ObjectOps
  <2>3. /\ w.oc = Stored(h) /\ w.oc.obs <= w.oc.gen
        /\ \A v \in Versions(h) : /\ v.phase = w.oc.phase /\ v.spec = w.oc.spec
                                  /\ v.id = w.oc.id
    BY <1>1, <1>2, <1>4 DEF Knows, Fresh
  <2> HIDE DEF o, h
  <2>4. Claims(o) => /\ Backed(clients, w.cur, o) /\ Filled(secrets, w.cur, o)
                     /\ \A v \in Versions(h) : Same(v, o)
    BY <1>2, <2>1, <2>3 DEF Claims, Backed, Filled, Same
  <2>5. Bounded' /\ CredsOwn' /\ ClaimsTrue'
    <3> USE DEF h
    <3> QED
      BY <1>1, <1>2, <1>4, <2>1, <2>2, <2>3, <2>4, PutKeeps
  <2>6. /\ Stored(cr'[w.cur]) = o /\ Versions(cr'[w.cur]) = Versions(h) \cup {o}
    BY <1>2, <1>4, <2>2, PutVersions DEF h
  <2>7. CASE Retry
    BY <2>5, <2>7, IdleType DEF CohInv, Retry
  <2>8. CASE w' = Begin(w.cur, o, TRUE)
    <3>1. Same(o, o) /\ o.phase # "gone"
      BY <1>2, <2>1 DEF Same, Knows
    <3>2. /\ Begin(w.cur, o, TRUE).cur = w.cur
          /\ Knows(Begin(w.cur, o, TRUE), cr'[w.cur], clients, secrets)
      BY <2>1, <2>2, <2>3, <2>6, <2>8, <3>1, BeginPass
    <3> QED
      BY <1>1, <2>5, <2>8, <3>2 DEF CohInv
  <2> QED
    BY <1>4, <2>7, <2>8
<1> QED
  BY <1>3, <1>4 DEF AddFinalizer

\* UpdateStatus, RemoveFinalizer: a status that is written over the one that
\* was read says what the pass has found.
LEMMA EndKeeps ==
    ASSUME TypeInv, CohInv, UpdateStatus \/ RemoveFinalizer
    PROVE  CohInv'
<1> DEFINE h == cr[w.cur]
<1>1. /\ UNCHANGED <<clients, secrets>> /\ w.pc \in {"status", "removeFinalizer"}
      /\ w'.pc = "idle"
  BY IdleType DEF UpdateStatus, RemoveFinalizer, Retry, registry
<1>2. /\ Knows(w, h, clients, secrets) /\ w.cur \in CR /\ w.oc \in Object
      /\ Stored(h) \in Object /\ Stored(h) \in Versions(h)
  BY <1>1, AtWork
<1>3. CASE UNCHANGED cr
  BY <1>1, <1>3, GoesOn
<1>4. ASSUME NEW o \in Object, Put(w.cur, o), o.obs <= o.gen,
             Claims(o) => /\ Backed(clients, w.cur, o) /\ Filled(secrets, w.cur, o)
                          /\ \A v \in Versions(h) : Same(v, o)
      PROVE  CohInv'
  <2>1. Bounded' /\ CredsOwn' /\ ClaimsTrue'
    BY <1>1, <1>2, <1>4, PutKeeps
  <2> QED
    BY <1>1, <2>1 DEF CohInv
<1>5. CASE UpdateStatus /\ w.fresh /\ Put(w.cur, [w.oc EXCEPT !.obs = w.oc.gen])
  <2> DEFINE o == [w.oc EXCEPT !.obs = w.oc.gen]
  <2>1. /\ o.phase = w.oc.phase /\ o.spec = w.oc.spec /\ o.gen = w.oc.gen
        /\ o.obs = w.oc.gen /\ o.id = w.oc.id /\ o.reason = w.oc.reason
        /\ o \in Object /\ w.oc.gen \in Nat
    BY <1>2, Edits, ObjectOps
  <2>2. Fresh(w, h, clients, secrets) /\ w.pc = "status"
    BY <1>2, <1>5 DEF Knows, UpdateStatus
  <2>3. Put(w.cur, o)
    BY <1>5
  <2> HIDE DEF o
  <2>4. ASSUME Claims(o)
        PROVE  /\ Backed(clients, w.cur, o) /\ Filled(secrets, w.cur, o)
               /\ \A v \in Versions(h) : Same(v, o)
    <3>1. /\ Backed(clients, w.cur, w.oc) /\ Filled(secrets, w.cur, w.oc)
      BY <2>1, <2>2, <2>4 DEF Fresh, Claims
    <3>2. \A v \in Versions(h) : Same(v, o)
      BY <2>1, <2>2, <2>4 DEF Fresh, Claims, Same
    <3> QED
      BY <2>1, <3>1, <3>2 DEF Backed, Filled
  <2> QED
    BY <1>4, <2>1, <2>3, <2>4
<1>6. CASE RemoveFinalizer /\ Put(w.cur, [w.oc EXCEPT !.fin = FALSE, !.phase = "gone"])
  <2> DEFINE o == [w.oc EXCEPT !.fin = FALSE, !.phase = "gone"]
  <2>1. o \in Object /\ o.phase = "gone" /\ o.obs = w.oc.obs /\ o.gen = w.oc.gen
    BY <1>2, ObjectOps DEF Object
  <2>2. Put(w.cur, o)
    BY <1>6
  <2> HIDE DEF o
  <2>3. ~Claims(o) /\ o.obs <= o.gen
    BY <1>2, <2>1 DEF Claims, Knows
  <2> QED
    BY <1>4, <2>1, <2>2, <2>3
<1> QED
  BY <1>3, <1>5, <1>6 DEF UpdateStatus, RemoveFinalizer

-----------------------------------------------------------------------------
(* The steps of the worker that change registrations.                      *)

\* Another registry, in which nobody's credentials changed hands and what is
\* Ready still has its registration.
LEMMA RegistryKeeps ==
    ASSUME TypeInv, CohInv, UNCHANGED <<cr, secrets>>,
           \A n \in SecretName : \A s \in Versions(secrets[n]) : s.creds # 0 =>
               \A c \in clients' : c.id = s.creds =>
                   \E d \in clients : d.id = c.id /\ d.by = c.by,
           \A u \in CR : Claims(Obj(u)) => Backed(clients', u, Obj(u)),
           \/ w'.pc = "idle"
           \/ w'.cur = w.cur /\ Knows(w', cr[w.cur], clients', secrets)
    PROVE  CohInv'
<1>1. Bounded'
  BY DEF CohInv, Bounded
<1>2. CredsOwn'
  BY DEF CohInv, CredsOwn
<1>3. ClaimsTrue'
  BY DEF CohInv, ClaimsTrue, Obj
<1>4. w'.pc # "idle" => Knows(w', cr'[w'.cur], clients', secrets')
  OBVIOUS
<1> QED
  BY <1>1, <1>2, <1>3, <1>4 DEF CohInv

\* BurnOrphan, BurnClient, Deregister, ListForCleanup, SweepOne: what the
\* worker deletes is its own, and its CR does not claim to be Ready.
LEMMA DeletionKeeps ==
    ASSUME "late" \notin Faults, TypeInv, OwnInv, OneInv, CohInv,
           BurnOrphan \/ BurnClient \/ Deregister \/ ListForCleanup \/ SweepOne
    PROVE  CohInv'
<1> DEFINE h == cr[w.cur]
<1>1. /\ UNCHANGED <<cr, secrets>> /\ clients' \subseteq clients
      /\ w.pc \in {"burnOrphan", "burnClient", "deregister", "listForCleanup", "sweep"}
  BY DEF BurnOrphan, BurnClient, Deregister, ListForCleanup, SweepOne, DeleteClient,
     Without, GiveUp, Fault, registry
<1>2. /\ Knows(w, h, clients, secrets) /\ w.cur \in CR /\ w.oc \in Object
  BY <1>1, AtWork
<1>3. ~Claims(Stored(h))
  BY <1>1, <1>2 DEF Knows, Careful, Calm
<1>4. \A c \in clients : c.by # w.cur => c \in clients'
  <2>1. ASSUME NEW c \in clients, c.by # w.cur
        PROVE  c.id # w.oc.id /\ c.id \notin w.doomed
    BY <1>1, <2>1 DEF OwnInv, HandOwn
  <2> QED
    BY <2>1 DEF BurnOrphan, BurnClient, Deregister, ListForCleanup, SweepOne,
       DeleteClient, Without, GiveUp, Fault, registry
<1>5. ASSUME NEW u \in CR, Claims(Obj(u))
      PROVE  Backed(clients', u, Obj(u))
  <2>1. u # w.cur
    BY <1>3, <1>5 DEF Obj
  <2>2. PICK c \in clients : c.id = Obj(u).id /\ c.fp = u /\ c.cfg = Obj(u).spec.cfg
    BY <1>5 DEF CohInv, ClaimsTrue, Backed
  <2>3. c \in clients'
    BY <1>4, <2>1, <2>2 DEF OneInv
  <2> QED
    BY <2>2, <2>3 DEF Backed
<1>6. \/ w'.pc = "idle"
      \/ w'.cur = w.cur /\ Knows(w', h, clients', secrets)
  <2>1. CASE \E r \in Reasons \ {"Ready"} : Fail(r)
    BY <1>1, <1>2, <2>1, FailPass
  <2>2. CASE Retry
    BY <2>2, IdleType DEF Retry
  <2>3. ASSUME w'.cur = w.cur, w'.fresh = w.fresh, w'.oc = w.oc,
               w'.pc \in {"removeFinalizer", "sweep"}
        PROVE  Knows(w', h, clients', secrets)
    BY <1>2, <1>3, <2>3, FreePass DEF Free
  <2>4. CASE Go("removeFinalizer", w.oc) \/ \E ids : SweepOn(ids)
    <3>1. /\ w'.cur = w.cur /\ w'.fresh = w.fresh /\ w'.oc = w.oc
          /\ w'.pc \in {"removeFinalizer", "sweep"}
      BY <2>4 DEF SweepOn, Go, At, Job
    <3> QED
      BY <2>3, <3>1
  <2>5. CASE /\ w'.pc = "status" /\ w'.cur = w.cur /\ w'.fresh = w.fresh
             /\ w'.oc.phase = w.oc.phase /\ w'.oc.spec = w.oc.spec
             /\ w'.oc.gen = w.oc.gen /\ w'.oc.obs = w.oc.obs /\ w'.oc.id = 0
    BY <1>2, <1>3, <2>5, FreePass DEF Free
  <2>6. CASE Go("status", w.oc) /\ w.pc = "burnOrphan"
    <3>1. w.oc.id = 0
      BY <1>2, <2>6 DEF Knows, Unrecorded
    <3> QED
      BY <2>5, <2>6, <3>1 DEF Go, At, Job
  <2>7. CASE Go("status", Unregistered(w.oc))
    <3>1. LET p == Unregistered(w.oc)
          IN /\ p.phase = w.oc.phase /\ p.spec = w.oc.spec /\ p.gen = w.oc.gen
             /\ p.obs = w.oc.obs /\ p.id = 0
      BY <1>2, Edits
    <3> QED
      BY <2>5, <2>7, <3>1 DEF Go, At, Job
  <2>8. {"RegistrationFailed", "TsidpUnreachable"} \subseteq Reasons \ {"Ready"}
    BY DEF Reasons
  <2> QED
    BY <2>1, <2>2, <2>4, <2>6, <2>7, <2>8
    DEF BurnOrphan, BurnClient, Deregister, ListForCleanup, SweepOne, DeleteClient
<1> QED
  BY <1>1, <1>5, <1>6, RegistryKeeps

\* Register: credentials nobody has seen, as the spec wants them.
LEMMA RegisterKeeps ==
    ASSUME "late" \notin Faults, TypeInv, CohInv, Register
    PROVE  CohInv'
<1> DEFINE h == cr[w.cur]
           new == [id |-> NewId, fp |-> w.cur, by |-> w.cur, cfg |-> w.oc.spec.cfg]
<1>1. /\ UNCHANGED <<cr, secrets>> /\ w.pc = "register" /\ FreeIds # {}
      /\ clients' = clients \/ clients' = clients \cup {new}
  BY DEF Register, GiveUp, Fault, Registered
<1>2. /\ Knows(w, h, clients, secrets)
  BY <1>1, AtWork
<1>3. ~Claims(Stored(h)) /\ w.oc.id = 0
  BY <1>1, <1>2 DEF Knows, Careful, Calm, Unrecorded
<1>4. \A n \in SecretName : \A s \in Versions(secrets[n]) : s.creds # NewId
  BY <1>1, NewCredsFresh
<1>5. \A n \in SecretName : \A s \in Versions(secrets[n]) : s.creds # 0 =>
        \A c \in clients' : c.id = s.creds => c \in clients
  BY <1>1, <1>4
<1>6. \A u \in CR : Claims(Obj(u)) => Backed(clients', u, Obj(u))
  BY <1>1 DEF CohInv, ClaimsTrue, Backed
<1>7. w'.cur = w.cur /\ Knows(w', h, clients', secrets)
  <2>1. CASE Fail("RegistrationFailed")
    <3>1. "RegistrationFailed" \in Reasons \ {"Ready"}
      BY DEF Reasons
    <3> QED
      BY <1>1, <1>2, <2>1, <3>1, FailPass
  <2>2. CASE /\ w' = [At("writeSecret", w.oc) EXCEPT !.creds = NewId]
             /\ clients' = clients \cup {new}
    <3>1. /\ w'.pc = "writeSecret" /\ w'.cur = w.cur /\ w'.oc = w.oc
          /\ w'.fresh = w.fresh /\ w'.creds = NewId
      BY <2>2 DEF At, Job
    <3>2. \E c \in clients' : c.id = w'.creds /\ c.fp = w'.cur /\ c.cfg = w'.oc.spec.cfg
      <4>1. new \in clients' /\ new.id = NewId /\ new.fp = w.cur /\ new.cfg = w.oc.spec.cfg
        BY <2>2
      <4> HIDE DEF new
      <4> QED
        BY <3>1, <4>1
    <3>3. w'.fresh => Fresh(w', h, clients', secrets)
      BY <1>1, <1>2, <3>1 DEF Knows, Fresh, ByStatus
    <3>4. Knows(w', h, clients', secrets)
      BY <1>2, <1>3, <1>4, <3>1, <3>2, <3>3 DEF Knows, Renaming
    <3> QED
      BY <3>1, <3>4
  <2> QED
    BY <2>1, <2>2 DEF Register, Registered
<1> QED
  BY <1>1, <1>5, <1>6, <1>7, RegistryKeeps

\* EditClient: the registration in hand, of a CR that does not claim to be
\* Ready.
LEMMA EditKeeps ==
    ASSUME "late" \notin Faults, TypeInv, OwnInv, OneInv, CohInv, EditClient
    PROVE  CohInv'
<1> DEFINE h == cr[w.cur]
           edited == Renamed(clients, w.oc.id, w.cur, w.oc.spec.cfg)
<1>1. /\ UNCHANGED <<cr, secrets>> /\ w.pc = "editClient"
      /\ clients' \in {clients, edited}
  BY DEF EditClient, GiveUp, Fault, Edited, registry
<1>2. /\ Knows(w, h, clients, secrets)
  BY <1>1, AtWork
<1>3. ~Claims(Stored(h))
  BY <1>1, <1>2 DEF Knows, Careful, Calm
<1>4. \A c \in clients' : \E d \in clients : d.id = c.id /\ d.by = c.by
  <2>1. \A c \in edited : \E d \in clients : d.id = c.id /\ d.by = c.by
    BY DEF Renamed, TypeInv, RegistryType, Registration
  <2> HIDE DEF edited
  <2> QED
    BY <1>1, <2>1
<1>5. ASSUME NEW u \in CR, Claims(Obj(u))
      PROVE  Backed(clients', u, Obj(u))
  <2>1. u # w.cur
    BY <1>3, <1>5 DEF Obj
  <2>2. PICK c \in clients : c.id = Obj(u).id /\ c.fp = u /\ c.cfg = Obj(u).spec.cfg
    BY <1>5 DEF CohInv, ClaimsTrue, Backed
  <2>3. c.id # w.oc.id
    BY <1>1, <2>1, <2>2 DEF OneInv, OwnInv, HandOwn
  <2>4. c \in edited
    BY <2>3 DEF Renamed
  <2> QED
    BY <1>1, <2>2, <2>4 DEF Backed
<1>6. w'.cur = w.cur /\ Knows(w', h, clients', secrets)
  <2>1. CASE Fail("InPlaceUpdateFailed")
    <3>1. "InPlaceUpdateFailed" \in Reasons \ {"Ready"}
      BY DEF Reasons
    <3> QED
      BY <1>1, <1>2, <2>1, <3>1, FailPass
  <2>2. CASE Go("verifyEdit", w.oc)
    <3>1. /\ w'.pc = "verifyEdit" /\ w'.cur = w.cur /\ w'.oc = w.oc /\ w'.fresh = w.fresh
      BY <2>2 DEF Go, At, Job
    <3>2. w'.fresh => Fresh(w', h, clients', secrets)
      BY <1>1, <1>2, <3>1 DEF Knows, Fresh, ByStatus
    <3>3. Knows(w', h, clients', secrets)
      BY <1>2, <1>3, <3>1, <3>2 DEF Knows, Unrecorded, Renaming
    <3> QED
      BY <3>1, <3>3
  <2> QED
    BY <2>1, <2>2 DEF EditClient
<1> QED
  BY <1>1, <1>4, <1>5, <1>6, RegistryKeeps

-----------------------------------------------------------------------------
(* Writes to Secrets.                                                      *)

\* Credentials and Secrets after a write to one Secret: what held them holds
\* them, and what was Ready still has them.
LEMMA SecretKeeps ==
    ASSUME TypeInv, CohInv, UNCHANGED <<cr, clients>>,
           NEW n \in SecretName, NEW s \in Secret, PutSecret(n, s),
           s.creds # 0 => s.exists /\ \A c \in clients : c.id = s.creds => c.by = s.owner,
           \A u \in CR : Claims(Obj(u)) => Filled(secrets', u, Obj(u)),
           \/ w'.pc = "idle"
           \/ w'.cur = w.cur /\ Knows(w', cr[w.cur], clients, secrets')
    PROVE  CohInv'
<1>1. /\ Versions(secrets'[n]) = Versions(secrets[n]) \cup {s}
      /\ \A m \in SecretName \ {n} : secrets'[m] = secrets[m]
  BY PutSecretVersions
<1>2. Bounded'
  BY DEF CohInv, Bounded
<1>3. CredsOwn'
  <2>1. ASSUME NEW m \in SecretName, NEW t \in Versions(secrets'[m]), t.creds # 0
        PROVE  t.exists /\ \A c \in clients : c.id = t.creds => c.by = t.owner
    <3>1. CASE t \in Versions(secrets[m])
      BY <2>1, <3>1 DEF CohInv, CredsOwn
    <3>2. CASE t = s
      BY <2>1, <3>2
    <3> QED
      BY <1>1, <2>1, <3>1, <3>2
  <2> QED
    BY <2>1 DEF CredsOwn
<1>4. ClaimsTrue'
  BY DEF CohInv, ClaimsTrue, Obj
<1>5. w'.pc # "idle" => Knows(w', cr'[w'.cur], clients', secrets')
  OBVIOUS
<1> QED
  BY <1>2, <1>3, <1>4, <1>5 DEF CohInv

\* DeleteOldSecret: the name is not the one that the spec has now.
LEMMA DeleteOldKeeps ==
    ASSUME TypeInv, PinInv, CohInv, DeleteOldSecret
    PROVE  CohInv'
<1> DEFINE h == cr[w.cur]
           old == w.oc.secret
<1>1. UNCHANGED <<cr, clients>> /\ w.pc = "deleteOld"
  BY DEF DeleteOldSecret, registry
<1>2. /\ Knows(w, h, clients, secrets) /\ w.cur \in CR
      /\ Claims(Stored(h)) => Careful(w, Stored(h))
  BY <1>1, AtWork
<1>3. \A S : w'.cur = w.cur /\ Knows(w', h, clients, S)
  <2>1. CASE Fail("SecretCleanupFailed")
    <3>1. "SecretCleanupFailed" \in Reasons \ {"Ready"}
      BY DEF Reasons
    <3> QED
      BY <1>1, <1>2, <2>1, <3>1, FailPass
  <2>2. CASE w' = AfterRename([w.oc EXCEPT !.secret = None])
    BY <1>1, <1>2, <2>2, RenamePass
  <2> QED
    BY <2>1, <2>2 DEF DeleteOldSecret
<1>4. CASE UNCHANGED secrets
  BY <1>1, <1>3, <1>4, GoesOn
<1>5. CASE PutSecret(old, NoSecret) /\ Stored(secrets[old]).exists /\ w.pinned
  <2>1. old \in SecretName /\ Stored(secrets[old]).owner = w.cur
    BY <1>1, <1>5 DEF PinInv, Owned
  <2>2. /\ Stored(secrets'[old]) = NoSecret
        /\ \A m \in SecretName \ {old} : secrets'[m] = secrets[m]
    BY <1>5, <2>1, NoSecretType, PutSecretVersions
  <2>3. ASSUME NEW u \in CR, Claims(Obj(u))
        PROVE  Filled(secrets', u, Obj(u))
    <3>1. Filled(secrets, u, Obj(u)) /\ Obj(u).spec.secret \in SecretName
      <4>1. Obj(u) \in Object
        BY VersionsType DEF Obj
      <4> QED
        BY <2>3, <4>1, ObjectOps DEF CohInv, ClaimsTrue
    <3>2. Obj(u).spec.secret # old
      <4>1. CASE u = w.cur
        BY <1>1, <1>2, <2>3, <4>1 DEF Obj, Careful, Knows, Renaming
      <4>2. CASE u # w.cur
        BY <2>1, <3>1, <4>2 DEF Filled
      <4> QED
        BY <4>1, <4>2
    <3> QED
      BY <2>2, <3>1, <3>2 DEF Filled
  <2>4. NoSecret.creds = 0
    BY DEF NoSecret
  <2> QED
    BY <1>1, <1>3, <1>5, <2>1, <2>3, <2>4, NoSecretType, SecretKeeps
<1> QED
  BY <1>4, <1>5 DEF DeleteOldSecret

\* CreateOrUpdate leaves a Secret that another CR goes by as it is.
LEMMA UpsertSpares ==
    ASSUME TypeInv, WriteSecret \/ SyncSecret, NEW u \in CR, NEW o \in Object,
           Filled(secrets, u, o), u # w.cur
    PROVE  Filled(secrets', u, o)
<1>1. o.spec.secret \in SecretName
  BY ObjectOps
<1>2. Stored(secrets[o.spec.secret])' = Stored(secrets[o.spec.secret])
  BY <1>1, UpsertOwn DEF Filled
<1> QED
  BY <1>2 DEF Filled

\* WriteSecret: the credentials in hand, which no Secret had before.
LEMMA WriteSecretKeeps ==
    ASSUME TypeInv, OwnInv, CohInv, WriteSecret
    PROVE  CohInv'
<1> DEFINE h == cr[w.cur]
           n == w.oc.spec.secret
           seen == Visible(Cached(secrets[n]))
           want == [exists |-> TRUE, owner |-> w.cur, creds |-> w.creds,
                    cfg |-> w.oc.spec.cfg, managed |-> TRUE]
           p == MarkReady([w.oc EXCEPT !.id = w.creds])
<1>1. UNCHANGED <<cr, clients>> /\ w.pc = "writeSecret"
  BY DEF WriteSecret, registry
<1>2. /\ Knows(w, h, clients, secrets) /\ w.cur \in CR /\ w.oc \in Object
      /\ n \in SecretName
  BY <1>1, AtWork
<1>3. PICK c \in clients : c.id = w.creds /\ c.fp = w.cur /\ c.cfg = w.oc.spec.cfg
  BY <1>1, <1>2 DEF Knows
<1>4. w.creds # 0 /\ w.creds \in Nat
  BY <1>3 DEF TypeInv, RegistryType, Registration
<1>5. seen # want
  <2>1. seen = Cached(secrets[n]) \/ seen = NoSecret
    BY DEF Visible
  <2>2. Cached(secrets[n]).creds # w.creds /\ NoSecret.creds # w.creds
    BY <1>1, <1>2, <1>4, VersionsType DEF Knows, NoSecret
  <2>3. want.creds = w.creds
    OBVIOUS
  <2> HIDE DEF seen, want
  <2> QED
    BY <2>1, <2>2, <2>3
<1>6. want \in Secret
  BY <1>1, <1>2, <1>4, WantType DEF TypeInv
<1>7. ~Claims(Stored(h)) /\ w.oc.id = 0
  BY <1>1, <1>2 DEF Knows, Careful, Calm, Unrecorded
<1>8. \/ UNCHANGED secrets /\ Fail("RegistrationFailed")
      \/ PutSecret(n, want) /\ (Go("status", p) \/ Fail("RegistrationFailed"))
  BY <1>4, <1>5 DEF WriteSecret, Upsert
<1>9. "RegistrationFailed" \in Reasons \ {"Ready"}
  BY DEF Reasons
<1>10. CASE UNCHANGED secrets /\ Fail("RegistrationFailed")
  BY <1>1, <1>2, <1>9, <1>10, FailPass, GoesOn
<1>11. CASE PutSecret(n, want) /\ (Go("status", p) \/ Fail("RegistrationFailed"))
  <2>1. \A d \in clients : d.id = want.creds => d.by = want.owner
    BY <1>1 DEF OwnInv, HandOwn
  <2>2. ASSUME NEW u \in CR, Claims(Obj(u))
        PROVE  Filled(secrets', u, Obj(u))
    <3>1. Filled(secrets, u, Obj(u)) /\ Obj(u) \in Object
      BY <2>2, VersionsType DEF CohInv, ClaimsTrue, Obj
    <3> QED
      BY <1>7, <2>2, <3>1, UpsertSpares DEF Obj
  <2>3. CASE Fail("RegistrationFailed")
    <3>1. w'.cur = w.cur /\ Knows(w', h, clients, secrets')
      BY <1>1, <1>2, <1>9, <2>3, FailPass
    <3> QED
      BY <1>1, <1>2, <1>6, <1>11, <2>1, <2>2, <3>1, SecretKeeps
  <2>4. CASE Go("status", p)
    <3>1. /\ p.phase = w.oc.phase /\ p.spec = w.oc.spec /\ p.gen = w.oc.gen
          /\ p.obs = w.oc.obs /\ p.id = w.creds
      <4> DEFINE q == [w.oc EXCEPT !.id = w.creds]
      <4>1. /\ q.phase = w.oc.phase /\ q.spec = w.oc.spec /\ q.gen = w.oc.gen
            /\ q.obs = w.oc.obs /\ q.id = w.creds /\ q \in Object
        BY <1>2, <1>4 DEF Object
      <4> HIDE DEF q
      <4>2. LET r == MarkReady(q)
            IN /\ r.phase = q.phase /\ r.spec = q.spec /\ r.gen = q.gen
               /\ r.obs = q.obs /\ r.id = q.id
        BY <4>1, Edits
      <4> QED
        BY <4>1, <4>2 DEF q
    <3>2. w'.pc = "status" /\ w'.cur = w.cur /\ w'.fresh = w.fresh /\ w'.oc = p
      BY <2>4 DEF Go, At, Job
    <3>3. Stored(secrets'[n]) = want /\ want.exists /\ want.owner = w.cur /\ want.creds = w.creds
      BY <1>2, <1>6, <1>11, PutSecretVersions
    <3> HIDE DEF p, want
    <3>4. Backed(clients, w'.cur, w'.oc) /\ Filled(secrets', w'.cur, w'.oc)
      BY <1>3, <3>1, <3>2, <3>3 DEF Backed, Filled
    <3>5. w'.fresh => Fresh(w', h, clients, secrets')
      BY <1>1, <1>2, <1>7, <3>1, <3>2, <3>4 DEF Knows, Fresh, ByStatus
    <3>6. Knows(w', h, clients, secrets')
      BY <1>2, <1>7, <3>1, <3>2, <3>5 DEF Knows, Unrecorded, Renaming
    <3> USE DEF want
    <3> QED
      BY <1>1, <1>2, <1>6, <1>11, <2>1, <2>2, <3>2, <3>6, SecretKeeps
  <2> QED
    BY <1>11, <2>3, <2>4
<1> QED
  BY <1>8, <1>10, <1>11

\* SyncSecret keeps the credentials of every Secret that has them.
LEMMA SyncFills ==
    ASSUME TypeInv, CohInv, SyncSecret, NEW u \in CR, NEW o \in Object,
           Filled(secrets, u, o)
    PROVE  Filled(secrets', u, o)
<1> DEFINE n == w.oc.spec.secret
           seen == Visible(Cached(secrets[n]))
           want == [exists |-> TRUE, owner |-> w.cur, creds |-> seen.creds,
                    cfg |-> w.oc.spec.cfg, managed |-> TRUE]
           accepted == IF seen.exists
                       THEN Owned(seen, w.cur) /\ Synced(secrets[n])
                       ELSE ~Stored(secrets[n]).exists
<1>1. w.pc # "idle" /\ n \in SecretName /\ o.spec.secret \in SecretName
  BY AtWork, ObjectOps DEF SyncSecret
<1>2. want \in Secret
  BY <1>1, WantType DEF TypeInv
<1>3. UNCHANGED secrets \/ (accepted /\ PutSecret(n, want))
  BY DEF SyncSecret, Upsert
<1>4. CASE u = w.cur /\ o.spec.secret = n /\ accepted /\ PutSecret(n, want)
  <2>1. seen.exists /\ Synced(secrets[n])
    BY <1>4 DEF Filled
  <2>2. seen = Stored(secrets[n])
    <3>1. seen = Cached(secrets[n])
      BY <2>1 DEF Visible, NoSecret
    <3>2. secrets[n] \in Histories(Secret)
      BY <1>1 DEF TypeInv, KubeType
    <3> QED
      BY <2>1, <3>1, <3>2, VersionsOps
  <2>3. Stored(secrets'[n]) = want
    BY <1>1, <1>2, <1>4, PutSecretVersions
  <2>4. want.exists /\ want.owner = u /\ want.creds = o.id
    BY <1>4, <2>2 DEF Filled
  <2> QED
    BY <1>4, <2>3, <2>4 DEF Filled
<1>5. CASE o.spec.secret # n /\ PutSecret(n, want)
  BY <1>1, <1>2, <1>5, PutSecretVersions DEF Filled
<1>6. CASE UNCHANGED secrets
  BY <1>6 DEF Filled
<1> QED
  BY <1>3, <1>4, <1>5, <1>6, UpsertSpares

\* SyncSecret: the data keeps the credentials it has.
LEMMA SyncSecretKeeps ==
    ASSUME TypeInv, CohInv, SyncSecret
    PROVE  CohInv'
<1> DEFINE h == cr[w.cur]
           n == w.oc.spec.secret
           seen == Visible(Cached(secrets[n]))
           want == [exists |-> TRUE, owner |-> w.cur, creds |-> seen.creds,
                    cfg |-> w.oc.spec.cfg, managed |-> TRUE]
           accepted == IF seen.exists
                       THEN Owned(seen, w.cur) /\ Synced(secrets[n])
                       ELSE ~Stored(secrets[n]).exists
           p == MarkReady(w.oc)
<1>1. UNCHANGED <<cr, clients>> /\ w.pc = "syncSecret"
  BY DEF SyncSecret, registry
<1>2. /\ Knows(w, h, clients, secrets) /\ w.cur \in CR /\ w.oc \in Object
      /\ n \in SecretName
  BY <1>1, AtWork
<1>3. want \in Secret
  BY <1>1, WantType DEF TypeInv
<1>4. /\ UNCHANGED secrets \/ (accepted /\ PutSecret(n, want))
      /\ Go("status", p) \/ Fail("SecretWriteFailed")
  BY DEF SyncSecret, Upsert
<1>5. w'.cur = w.cur /\ Knows(w', h, clients, secrets')
  <2>1. CASE Fail("SecretWriteFailed")
    <3>1. "SecretWriteFailed" \in Reasons \ {"Ready"}
      BY DEF Reasons
    <3> QED
      BY <1>1, <1>2, <2>1, <3>1, FailPass
  <2>2. CASE Go("status", p)
    <3>1. /\ p.phase = w.oc.phase /\ p.spec = w.oc.spec /\ p.gen = w.oc.gen
          /\ p.obs = w.oc.obs /\ p.id = w.oc.id
      BY <1>2, Edits
    <3>2. w'.pc = "status" /\ w'.cur = w.cur /\ w'.fresh = w.fresh /\ w'.oc = p
      BY <2>2 DEF Go, At, Job
    <3> HIDE DEF p
    <3>3. ASSUME w'.fresh
          PROVE  Backed(clients, w'.cur, w'.oc) /\ Filled(secrets', w'.cur, w'.oc)
      <4>1. Backed(clients, w.cur, w.oc) /\ Filled(secrets, w.cur, w.oc)
        BY <1>1, <1>2, <3>2, <3>3 DEF Knows, Fresh
      <4>2. Filled(secrets', w.cur, w.oc)
        BY <1>2, <4>1, SyncFills
      <4> QED
        BY <3>1, <3>2, <4>1, <4>2 DEF Backed, Filled
    <3>4. Knows(w', h, clients, secrets')
      BY <1>2, <3>1, <3>2, <3>3, FreePass DEF Free
    <3> QED
      BY <3>2, <3>4
  <2> QED
    BY <1>4, <2>1, <2>2
<1>6. CASE UNCHANGED secrets
  BY <1>1, <1>5, <1>6, GoesOn
<1>7. CASE accepted /\ PutSecret(n, want)
  <2>1. want.creds # 0 => \A c \in clients : c.id = want.creds => c.by = want.owner
    <3>1. ASSUME seen.creds # 0
          PROVE  \A c \in clients : c.id = seen.creds => c.by = w.cur
      <4>1. seen = Cached(secrets[n])
        BY <3>1 DEF Visible, NoSecret
      <4>2. seen \in Versions(secrets[n])
        BY <1>2, <4>1, VersionsType
      <4>3. seen.exists /\ \A c \in clients : c.id = seen.creds => c.by = seen.owner
        BY <1>2, <3>1, <4>2 DEF CohInv, CredsOwn
      <4> QED
        BY <1>7, <4>3 DEF Owned
    <3> QED
      BY <3>1
  <2>2. ASSUME NEW u \in CR, Claims(Obj(u))
        PROVE  Filled(secrets', u, Obj(u))
    <3>1. Filled(secrets, u, Obj(u)) /\ Obj(u) \in Object
      BY <2>2, VersionsType DEF CohInv, ClaimsTrue, Obj
    <3> QED
      BY <3>1, SyncFills
  <2> QED
    BY <1>1, <1>2, <1>3, <1>5, <1>7, <2>1, <2>2, SecretKeeps
<1> QED
  BY <1>4, <1>6, <1>7

-----------------------------------------------------------------------------
(* The steps of the others.                                                *)

\* A pass under way survives what makes its copy outdated, or leaves the CR
\* and what it found as they are.
LEMMA PassSurvives ==
    ASSUME TypeInv, NEW h, NEW S, NEW h2, NEW S2, NEW j, Knows(w, h, clients, S),
           j.pc = w.pc, j.cur = w.cur, j.oc = w.oc, j.creds = w.creds,
           j.drifted = w.drifted,
           j.fresh => w.fresh /\ Stored(h2) = Stored(h) /\ Versions(h2) \subseteq Versions(h),
           Claims(Stored(h2)) => /\ Claims(Stored(h)) /\ Stored(h2).spec = Stored(h).spec
                                 /\ Stored(h2).id = Stored(h).id,
           \A n \in SecretName : \A s \in Versions(S2[n]) : s.creds # 0 =>
               \E t \in Versions(S[n]) : t.creds = s.creds,
           j.fresh => \A o \in Object : o.phase = Stored(h).phase =>
               (Filled(S, w.cur, o) => Filled(S2, w.cur, o)),
           w.oc \in Object, Stored(h) \in Versions(h)
    PROVE  Knows(j, h2, clients, S2)
<1>1. ASSUME j.fresh
      PROVE  Fresh(j, h2, clients, S2)
  <2>1. Fresh(w, h, clients, S)
    BY <1>1 DEF Knows
  <2>2. w.oc.phase = Stored(h).phase
    BY <2>1 DEF Fresh
  <2>3. Filled(S, w.cur, w.oc) => Filled(S2, w.cur, w.oc)
    BY <1>1, <2>2
  <2> QED
    BY <1>1, <2>1, <2>3 DEF Fresh
<1>2. ASSUME Claims(Stored(h2))
      PROVE  Careful(j, Stored(h2))
  BY <1>2 DEF Knows, Careful
<1>3. j.pc = "writeSecret" =>
         /\ \E c \in clients : c.id = j.creds /\ c.fp = j.cur /\ c.cfg = j.oc.spec.cfg
         /\ \A n \in SecretName : \A s \in Versions(S2[n]) : s.creds # j.creds
  <2> SUFFICES ASSUME j.pc = "writeSecret"
               PROVE  /\ \E c \in clients : c.id = j.creds /\ c.fp = j.cur /\ c.cfg = j.oc.spec.cfg
                      /\ \A n \in SecretName : \A s \in Versions(S2[n]) : s.creds # j.creds
    OBVIOUS
  <2>1. PICK c \in clients : c.id = j.creds /\ c.fp = j.cur /\ c.cfg = j.oc.spec.cfg
    BY DEF Knows
  <2>2. j.creds # 0
    BY <2>1 DEF TypeInv, RegistryType, Registration
  <2>3. \A n \in SecretName : \A s \in Versions(S[n]) : s.creds # j.creds
    BY DEF Knows
  <2> QED
    BY <2>1, <2>2, <2>3
<1> QED
  BY <1>1, <1>2, <1>3 DEF Knows

\* Users: an edit ends the claim, and outdates the copy.
LEMMA UserKeeps ==
    ASSUME TypeInv, CohInv, UserStep
    PROVE  CohInv'
<1>1. PICK u \in CR : CreateCR(u) \/ EditSpec(u) \/ DeleteCR(u) \/ ForceRemove(u)
  BY DEF UserStep
<1> DEFINE o == Obj(u)
<1>2. o \in Object /\ o \in Versions(cr[u]) /\ o.obs <= o.gen
  BY VersionsType DEF CohInv, Bounded, Obj
<1>3. PICK v \in Object :
        /\ Change(u, v) /\ v.obs <= v.gen
        /\ Claims(v) => Claims(o) /\ v.spec = o.spec /\ v.id = o.id /\ v.phase = o.phase
  <2>1. CASE CreateCR(u)
    <3>1. PICK s \in Specs :
             Change(u, [Blank EXCEPT !.phase = "live", !.spec = s, !.gen = 1])
      BY <2>1 DEF CreateCR
    <3> DEFINE v == [Blank EXCEPT !.phase = "live", !.spec = s, !.gen = 1]
    <3>2. v \in Object /\ v.id = 0 /\ v.obs = 0 /\ v.gen = 1
      BY BlankType DEF Blank, Object
    <3> HIDE DEF v
    <3>3. ~Claims(v) /\ v.obs <= v.gen
      BY <3>2 DEF Claims
    <3> QED
      BY <3>1, <3>2, <3>3 DEF v
  <2>2. CASE EditSpec(u)
    <3>1. PICK s \in Specs : Change(u, [o EXCEPT !.spec = s, !.gen = @ + 1])
      BY <2>2 DEF EditSpec, Obj
    <3> DEFINE v == [o EXCEPT !.spec = s, !.gen = @ + 1]
    <3>2. v \in Object /\ v.obs = o.obs /\ v.gen = o.gen + 1 /\ o.gen \in Nat /\ o.obs \in Nat
      <4>1. o.gen + 1 \in Nat
        BY <1>2 DEF Object
      <4> QED
        BY <1>2, <4>1 DEF Object
    <3> HIDE DEF v
    <3>3. ~Claims(v) /\ v.obs <= v.gen
      BY <1>2, <3>2 DEF Claims
    <3> QED
      BY <3>1, <3>2, <3>3 DEF v
  <2>3. CASE DeleteCR(u)
    <3> DEFINE p == IF o.fin THEN "deleting" ELSE "gone"
               v == [o EXCEPT !.phase = p]
    <3>1. Change(u, v)
      BY <2>3 DEF DeleteCR, Obj
    <3>2. v \in Object /\ v.phase = p /\ v.obs = o.obs /\ v.gen = o.gen
      BY <1>2 DEF Object
    <3> HIDE DEF v
    <3>3. ~Claims(v) /\ v.obs <= v.gen
      BY <1>2, <3>2 DEF Claims
    <3> QED
      BY <3>1, <3>2, <3>3
  <2>4. CASE ForceRemove(u)
    <3> DEFINE v == [o EXCEPT !.force = TRUE]
    <3>1. Change(u, v)
      BY <2>4 DEF ForceRemove, Obj
    <3>2. /\ v \in Object /\ v.phase = o.phase /\ v.obs = o.obs /\ v.gen = o.gen
          /\ v.spec = o.spec /\ v.id = o.id /\ v.reason = o.reason /\ v.condGen = o.condGen
      BY <1>2 DEF Object
    <3> HIDE DEF v
    <3> QED
      BY <1>2, <3>1, <3>2 DEF Claims
  <2> QED
    BY <1>1, <2>1, <2>2, <2>3, <2>4
<1>4. UNCHANGED <<clients, secrets>> /\ Put(u, v)
  BY <1>1, <1>3 DEF CreateCR, EditSpec, DeleteCR, ForceRemove, Change, registry
<1>5. /\ w'.pc = w.pc /\ w'.cur = w.cur /\ w'.oc = w.oc /\ w'.creds = w.creds
      /\ w'.drifted = w.drifted /\ (w'.fresh => w.fresh /\ w.cur # u)
  BY <1>3 DEF Change, Outdate, TypeInv, WorkerType, Worker
<1>6. ASSUME Claims(v)
      PROVE  /\ Backed(clients, u, v) /\ Filled(secrets, u, v)
             /\ \A x \in Versions(cr[u]) : Same(x, v)
  BY <1>3, <1>6 DEF CohInv, ClaimsTrue, Backed, Filled, Same
<1>7. Bounded' /\ CredsOwn' /\ ClaimsTrue'
  BY <1>3, <1>4, <1>6, PutKeeps
<1>8. Stored(cr'[u]) = v /\ \A t \in CR \ {u} : cr'[t] = cr[t]
  BY <1>3, <1>4, PutVersions
<1>9. ASSUME w.pc # "idle"
      PROVE  Knows(w', cr'[w.cur], clients, secrets)
  <2>1. w.cur \in CR /\ w.oc \in Object /\ Stored(cr[w.cur]) \in Versions(cr[w.cur])
        /\ Knows(w, cr[w.cur], clients, secrets)
    BY <1>9, AtWork
  <2>2. w'.fresh => cr'[w.cur] = cr[w.cur]
    BY <1>5, <1>8, <2>1
  <2>3. Claims(Stored(cr'[w.cur])) =>
          /\ Claims(Stored(cr[w.cur])) /\ Stored(cr'[w.cur]).spec = Stored(cr[w.cur]).spec
          /\ Stored(cr'[w.cur]).id = Stored(cr[w.cur]).id
    BY <1>3, <1>8, <2>1 DEF Obj
  <2> QED
    BY <1>5, <2>1, <2>2, <2>3, PassSurvives
<1> QED
  BY <1>4, <1>5, <1>7, <1>9 DEF CohInv

\* Squatters take free names, nobody but the operator writes credentials, and
\* the garbage collector takes the Secrets of the CRs that are gone.
LEMMA TamperKeeps ==
    ASSUME "delete" \notin Faults, "scrub" \notin Faults, TypeInv, CohInv,
           SecretStep \/ \E n \in SecretName : CollectGarbage(n)
    PROVE  CohInv'
<1>1. PICK n \in SecretName : Squat(n) \/ Unlabel(n) \/ CollectGarbage(n)
  BY DEF SecretStep, DeleteSecret, Scrub, Fault
<1> DEFINE old == Stored(secrets[n])
<1>2. old \in Secret /\ old \in Versions(secrets[n])
  BY VersionsType
<1>3. PICK s \in Secret :
        /\ Tamper(n, s)
        /\ s.creds # 0 => s.exists /\ s.creds = old.creds /\ s.owner = old.owner
        /\ \A u \in CR : Owned(old, u) /\ Obj(u).phase # "gone" =>
              s.exists /\ s.owner = u /\ s.creds = old.creds
  <2>1. CASE Squat(n)
    <3>1. PICK m \in BOOLEAN : /\ ~old.exists
                               /\ Tamper(n, [NoSecret EXCEPT !.exists = TRUE, !.managed = m])
      BY <2>1 DEF Squat
    <3> DEFINE s == [NoSecret EXCEPT !.exists = TRUE, !.managed = m]
    <3>2. s \in Secret /\ s.creds = 0
      BY NoSecretType DEF NoSecret, Secret
    <3> QED
      BY <3>1, <3>2 DEF Owned
  <2>2. CASE Unlabel(n)
    <3> DEFINE s == [old EXCEPT !.managed = FALSE]
    <3>1. /\ s \in Secret /\ s.exists = old.exists /\ s.creds = old.creds
          /\ s.owner = old.owner
      BY <1>2 DEF Secret
    <3>2. Tamper(n, s)
      BY <2>2 DEF Unlabel
    <3>3. s.creds # 0 => s.exists
      BY <1>2, <3>1 DEF CohInv, CredsOwn
    <3> HIDE DEF s
    <3> QED
      BY <3>1, <3>2, <3>3 DEF Owned
  <2>3. CASE CollectGarbage(n)
    <3>1. PICK t \in CR : Owned(old, t) /\ Obj(t).phase = "gone"
      BY <2>3 DEF CollectGarbage, Obj
    <3>2. Tamper(n, NoSecret) /\ NoSecret.creds = 0
      BY <2>3 DEF CollectGarbage, NoSecret
    <3> QED
      BY <3>1, <3>2, NoSecretType DEF Owned
  <2> QED
    BY <1>1, <2>1, <2>2, <2>3
<1>4. PutSecret(n, s) /\ UNCHANGED <<cr, clients>>
  BY <1>3 DEF Tamper, registry
<1>5. /\ w'.pc = w.pc /\ w'.cur = w.cur /\ w'.oc = w.oc /\ w'.creds = w.creds
      /\ w'.drifted = w.drifted /\ w'.fresh = w.fresh
  BY <1>3 DEF Tamper, TypeInv, WorkerType, Worker
<1>6. /\ Stored(secrets'[n]) = s /\ Versions(secrets'[n]) = Versions(secrets[n]) \cup {s}
      /\ \A m \in SecretName \ {n} : secrets'[m] = secrets[m]
  BY <1>4, PutSecretVersions
<1>7. s.creds # 0 => s.exists /\ \A c \in clients : c.id = s.creds => c.by = s.owner
  BY <1>2, <1>3 DEF CohInv, CredsOwn
<1>8. ASSUME NEW u \in CR, Obj(u).phase # "gone", NEW o \in Object, Filled(secrets, u, o)
      PROVE  Filled(secrets', u, o)
  <2>1. o.spec.secret \in SecretName
    BY ObjectOps
  <2>2. CASE o.spec.secret = n
    BY <1>3, <1>6, <1>8, <2>2 DEF Filled, Owned
  <2>3. CASE o.spec.secret # n
    BY <1>6, <1>8, <2>1, <2>3 DEF Filled
  <2> QED
    BY <2>2, <2>3
<1>9. ASSUME NEW u \in CR, Claims(Obj(u))
      PROVE  Filled(secrets', u, Obj(u))
  BY <1>8, <1>9, VersionsType DEF CohInv, ClaimsTrue, Claims, Obj
<1>10. ASSUME w.pc # "idle"
       PROVE  Knows(w', cr[w.cur], clients, secrets')
  <2>1. w.cur \in CR /\ w.oc \in Object /\ Stored(cr[w.cur]) \in Versions(cr[w.cur])
        /\ Knows(w, cr[w.cur], clients, secrets)
    BY <1>10, AtWork
  <2>2. \A m \in SecretName : \A t \in Versions(secrets'[m]) : t.creds # 0 =>
           \E x \in Versions(secrets[m]) : x.creds = t.creds
    BY <1>2, <1>3, <1>6
  <2>3. ASSUME w'.fresh, NEW o \in Object, o.phase = Stored(cr[w.cur]).phase,
               Filled(secrets, w.cur, o)
        PROVE  Filled(secrets', w.cur, o)
    <3>1. Obj(w.cur).phase # "gone"
      BY <1>5, <2>1, <2>3 DEF Knows, Fresh, Obj
    <3> QED
      BY <1>8, <2>1, <2>3, <3>1
  <2> QED
    BY <1>5, <2>1, <2>2, <2>3, PassSurvives
<1>11. \/ w'.pc = "idle"
       \/ w'.cur = w.cur /\ Knows(w', cr[w.cur], clients, secrets')
  BY <1>5, <1>10
<1> QED
  BY <1>4, <1>7, <1>9, <1>11, SecretKeeps

\* The watch takes versions away that nobody needs any more.
LEMMA WatchKeeps ==
    ASSUME TypeInv, CohInv, WatchStep
    PROVE  CohInv'
<1>1. UNCHANGED <<clients, w>>
  BY DEF WatchStep, DeliverCR, DeliverSecret, registry
<1>2. \A u \in CR : /\ Stored(cr'[u]) = Stored(cr[u])
                    /\ Versions(cr'[u]) \subseteq Versions(cr[u])
  <2>1. ASSUME NEW u \in CR, DeliverCR(u), NEW t \in CR
        PROVE  /\ Stored(cr'[t]) = Stored(cr[t])
               /\ Versions(cr'[t]) \subseteq Versions(cr[t])
    <3>1. cr \in [CR -> Histories(Object)] /\ cr[u] \in Histories(Object) /\ CanDeliver(cr[u])
      BY <2>1 DEF TypeInv, KubeType, DeliverCR
    <3>2. /\ Stored(DeliverNext(cr[u])) = Stored(cr[u])
          /\ Versions(DeliverNext(cr[u])) \subseteq Versions(cr[u])
      BY <3>1, HistoryOps, VersionsOps
    <3>3. cr'[t] = IF t = u THEN DeliverNext(cr[u]) ELSE cr[t]
      BY <2>1, <3>1 DEF DeliverCR
    <3> QED
      BY <3>2, <3>3
  <2>2. UNCHANGED cr \/ \E u \in CR : DeliverCR(u)
    BY DEF WatchStep, DeliverSecret
  <2> QED
    BY <2>1, <2>2
<1>3. \A n \in SecretName : /\ Stored(secrets'[n]) = Stored(secrets[n])
                            /\ Versions(secrets'[n]) \subseteq Versions(secrets[n])
  <2>1. ASSUME NEW n \in SecretName, DeliverSecret(n), NEW m \in SecretName
        PROVE  /\ Stored(secrets'[m]) = Stored(secrets[m])
               /\ Versions(secrets'[m]) \subseteq Versions(secrets[m])
    <3>1. /\ secrets \in [SecretName -> Histories(Secret)]
          /\ secrets[n] \in Histories(Secret) /\ CanDeliver(secrets[n])
      BY <2>1 DEF TypeInv, KubeType, DeliverSecret
    <3>2. /\ Stored(DeliverNext(secrets[n])) = Stored(secrets[n])
          /\ Versions(DeliverNext(secrets[n])) \subseteq Versions(secrets[n])
      BY <3>1, HistoryOps, VersionsOps
    <3>3. secrets'[m] = IF m = n THEN DeliverNext(secrets[n]) ELSE secrets[m]
      BY <2>1, <3>1 DEF DeliverSecret
    <3> QED
      BY <3>2, <3>3
  <2>2. UNCHANGED secrets \/ \E n \in SecretName : DeliverSecret(n)
    BY DEF WatchStep, DeliverCR
  <2> QED
    BY <2>1, <2>2
<1>4. Bounded' /\ CredsOwn'
  BY <1>1, <1>2, <1>3 DEF CohInv, Bounded, CredsOwn
<1>5. \A u \in CR : \A o \in Object : Filled(secrets, u, o) => Filled(secrets', u, o)
  BY <1>3, ObjectOps DEF Filled
<1>6. ClaimsTrue'
  <2>1. \A u \in CR : Obj(u)' = Obj(u) /\ Obj(u) \in Object
    BY <1>2, VersionsType DEF Obj
  <2> QED
    BY <1>1, <1>2, <1>5, <2>1 DEF CohInv, ClaimsTrue
<1>7. ASSUME w.pc # "idle"
      PROVE  Knows(w', cr'[w.cur], clients, secrets')
  <2>1. w.cur \in CR /\ w.oc \in Object /\ Stored(cr[w.cur]) \in Versions(cr[w.cur])
        /\ Knows(w, cr[w.cur], clients, secrets)
    BY <1>7, AtWork
  <2>2. \A m \in SecretName : \A t \in Versions(secrets'[m]) : t.creds # 0 =>
           \E x \in Versions(secrets[m]) : x.creds = t.creds
    BY <1>3
  <2> QED
    BY <1>1, <1>2, <1>5, <2>1, <2>2, PassSurvives
<1> QED
  BY <1>1, <1>4, <1>6, <1>7 DEF CohInv

\* A restart forgets the pass, and all versions but what is stored.
LEMMA RestartKeeps ==
    ASSUME TypeInv, CohInv, Restart
    PROVE  CohInv'
<1>1. UNCHANGED clients /\ w'.pc = "idle"
  BY IdleType DEF Restart, registry
<1>2. \A u \in CR : /\ Stored(cr'[u]) = Stored(cr[u])
                    /\ Versions(cr'[u]) \subseteq Versions(cr[u])
  BY HistoryOps, VersionsOps DEF Restart, TypeInv, KubeType
<1>3. \A n \in SecretName : /\ Stored(secrets'[n]) = Stored(secrets[n])
                            /\ Versions(secrets'[n]) \subseteq Versions(secrets[n])
  BY HistoryOps, VersionsOps DEF Restart, TypeInv, KubeType
<1>4. Bounded' /\ CredsOwn'
  BY <1>1, <1>2, <1>3 DEF CohInv, Bounded, CredsOwn
<1>5. ClaimsTrue'
  <2>1. \A u \in CR : Obj(u)' = Obj(u) /\ Obj(u).spec.secret \in SecretName
    BY <1>2, VersionsType, ObjectOps DEF Obj
  <2> QED
    BY <1>1, <1>2, <1>3, <2>1 DEF CohInv, ClaimsTrue, Filled
<1> QED
  BY <1>1, <1>4, <1>5 DEF CohInv

\* Every step of anybody.
LEMMA CohNext ==
    ASSUME Undisturbed, TypeInv, OwnInv, OneInv, PinInv, CohInv, [Next]_vars
    PROVE  CohInv'
<1>1. /\ "delete" \notin Faults /\ "scrub" \notin Faults /\ "loss" \notin Faults
      /\ "late" \notin Faults /\ "adminEdit" \notin Faults
  BY DEF Undisturbed
<1>2. CASE WorkerStep
  BY <1>1, <1>2, StartKeeps, AddFinalizerKeeps, EndKeeps, RenameKeeps, DeleteOldKeeps,
     VetTargetKeeps, ListClientsKeeps, DeletionKeeps, RegisterKeeps, WriteSecretKeeps,
     GetClientKeeps, ReadSecretKeeps, EditKeeps, VerifyEditKeeps, SyncSecretKeeps
  DEF WorkerStep
<1>3. ~TsidpStep
  BY <1>1 DEF TsidpStep, LoseState, AdminEdit, Fault, OneInv
<1>4. CASE UNCHANGED vars \/ Quiescent
  BY <1>4 DEF vars, Quiescent, CohInv, Bounded, CredsOwn, ClaimsTrue, Obj
<1> QED
  BY <1>1, <1>2, <1>3, <1>4, UserKeeps, TamperKeeps, WatchKeeps, RestartKeeps DEF Next

\* Nobody claims anything before anything runs.
LEMMA CohInit == Init => CohInv
<1> SUFFICES ASSUME Init PROVE CohInv
  OBVIOUS
<1>1. \A u \in CR : Versions(cr[u]) = {Blank} /\ Obj(u) = Blank
  BY DEF Init, Versions, Obj, Stored
<1>2. \A n \in SecretName : Versions(secrets[n]) = {NoSecret}
  BY DEF Init, Versions
<1>3. Blank.obs = 0 /\ Blank.gen = 0 /\ Blank.phase = "none" /\ NoSecret.creds = 0
  BY DEF Blank, NoSecret
<1>4. Bounded /\ CredsOwn
  BY <1>1, <1>2, <1>3 DEF Bounded, CredsOwn
<1>5. ClaimsTrue
  BY <1>1, <1>3 DEF ClaimsTrue, Claims
<1>6. w.pc = "idle"
  BY IdleType DEF Init
<1> QED
  BY <1>4, <1>5, <1>6 DEF CohInv

\* As long as nobody deletes Secrets, scrubs credentials or edits
\* registrations behind the operator's back, tsidp keeps its state and no
\* request lands after the operator gave up on it: whatever crashed, failed,
\* was stale, edited, renamed or squatted on, a CR that is Ready with a
\* recorded id has that registration in tsidp, as the spec asks for it, and
\* its credentials in a Secret of its own under the name in the spec.
THEOREM ReadyIsCoherent ==
    ASSUME Undisturbed
    PROVE  Spec => []CredentialsCoherent
<1>1. CohInv => CredentialsCoherent
  BY DEF CohInv, ClaimsTrue, Claims, Backed, Filled, CredentialsCoherent, Ready, Coherent,
         Obj, Sec
<1>2. "late" \notin Faults /\ "adminEdit" \notin Faults
  BY DEF Undisturbed
<1>3. TypeInv /\ OwnInv /\ OneInv /\ [Next]_vars => OneInv'
  BY <1>2, OneNext
<1>4. Init => PinInv
  BY DEF Init, Idle, Job, PinInv
<1>5. TypeInv /\ OwnInv /\ OneInv /\ PinInv /\ CohInv /\ [Next]_vars => CohInv'
  BY CohNext
<1> QED
  BY <1>1, <1>3, <1>4, <1>5, TypeInit, TypeNext, OwnInit, OwnNext, OneInit, PinNext,
     CohInit, PTL DEF Spec
=============================================================================
