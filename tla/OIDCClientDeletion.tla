-------------------------- MODULE OIDCClientDeletion --------------------------
(***************************************************************************)
(* A deregistered CR leaves nothing behind, for every value of the         *)
(* constants: the proof of NoLeak, from the assumption that a reconcile    *)
(* starts from the stored CR (MCStaleCache shows the leak without it).     *)
(***************************************************************************)
EXTENDS OIDCClientSafety

\* Whatever is registered for u has one of these ids.
Only(R, u, ids) == \A c \in R : c.by = u => c.id \in ids

\* The steps of a pass that still go by the id in the status.
ByStatus == {"addFinalizer", "discovery", "vetRename", "readOld", "deleteOld",
             "vetTarget", "listClients", "register", "deregister",
             "listForCleanup", "sweep", "removeFinalizer"}

\* The steps that lead to a registration: no id is on record.
Unrecorded == {"vetTarget", "listClients", "burnOrphan", "register", "writeSecret"}

\* The steps of a pass whose object is as it was read.
AsRead == {"addFinalizer", "deregister", "listForCleanup", "sweep", "removeFinalizer"}

\* What a pass j knows of its CR, stored as o, and of the registrations R.
Pass(j, o, R) ==
    /\ j.pc \notin {"idle", "addFinalizer"} =>
         o.fin /\ o.phase \in {"live", "deleting"}
         /\ j.oc.fin /\ j.oc.phase \in {"live", "deleting"}
    /\ j.pc = "addFinalizer" => j.oc.phase = "live"
    /\ j.pc \in ByStatus => j.oc.id = o.id
    /\ j.pc # "idle" /\ j.oc.id # 0 => Only(R, j.cur, {j.oc.id})
    /\ j.pc \in Unrecorded => j.oc.id = 0
    /\ j.pc = "writeSecret" => Only(R, j.cur, {j.creds})
    /\ j.pc = "deregister" => j.oc.id # 0
    /\ j.pc = "sweep" => Only(R, j.cur, j.doomed)
    /\ j.pc \in AsRead /\ j.fresh => j.oc = o
    /\ j.pc = "removeFinalizer" /\ j.oc.spec.deletion = "Deregister" /\ ~j.oc.force =>
         Only(R, j.cur, {})

\* Nothing is registered for a CR before it has the finalizer, or after it
\* left; and nothing but what the status records, once it records something.
Kept(u, o, R) ==
    /\ ~o.fin /\ o.phase # "gone" => Only(R, u, {})
    /\ o.phase = "none" => o.id = 0 /\ ~o.fin
    /\ o.id # 0 => Only(R, u, {o.id})
    /\ o.phase = "gone" /\ o.spec.deletion = "Deregister" /\ ~o.force => Only(R, u, {})

LeakInv ==
    /\ \A u \in CR : Kept(u, Obj(u), clients)
    /\ w.pc # "idle" => Pass(w, Obj(w.cur), clients)

-----------------------------------------------------------------------------
(* How steps preserve it.                                                  *)

\* Fewer registrations, and none of them new.
LEMMA Shrinks ==
    ASSUME NEW R, NEW S, S \subseteq R
    PROVE  /\ \A u, ids : Only(R, u, ids) => Only(S, u, ids)
           /\ \A u, o : Kept(u, o, R) => Kept(u, o, S)
           /\ \A j, o : Pass(j, o, R) => Pass(j, o, S)
<1>1. \A u, ids : Only(R, u, ids) => Only(S, u, ids)
  BY DEF Only
<1>2. \A u, o : Kept(u, o, R) => Kept(u, o, S)
  BY <1>1 DEF Kept
<1>3. ASSUME NEW j, NEW o, Pass(j, o, R)
      PROVE  Pass(j, o, S)
  <2>1. /\ Only(R, j.cur, {j.oc.id}) => Only(S, j.cur, {j.oc.id})
        /\ Only(R, j.cur, {j.creds}) => Only(S, j.cur, {j.creds})
        /\ Only(R, j.cur, j.doomed) => Only(S, j.cur, j.doomed)
        /\ Only(R, j.cur, {}) => Only(S, j.cur, {})
    BY <1>1
  <2> QED
    BY <1>3, <2>1 DEF Pass
<1> QED
  BY <1>1, <1>2, <1>3

\* What a write to a CR makes of what is stored.
LEMMA PutStores ==
    ASSUME TypeInv, NEW u \in CR, NEW o \in Object, Put(u, o)
    PROVE  Obj(u)' = o /\ \A v \in CR \ {u} : Obj(v)' = Obj(v)
<1>1. cr \in [CR -> Histories(Object)] /\ cr[u] \in Histories(Object)
  BY DEF TypeInv, KubeType
<1>2. cr'[u] = Push(cr[u], o) /\ \A v \in CR \ {u} : cr'[v] = cr[v]
  BY <1>1 DEF Put
<1>3. Stored(Push(cr[u], o)) = o
  BY <1>1, HistoryOps
<1> QED
  BY <1>2, <1>3 DEF Obj

\* What the reconciler changes in the object in hand is not its finalizer and
\* not its phase, and its id only to drop it or to take one.
LEMMA KeepsLife ==
    ASSUME NEW o \in Object
    PROVE  /\ \A r : /\ NotReady(o, r).fin = o.fin /\ NotReady(o, r).phase = o.phase
                     /\ NotReady(o, r).id = o.id
           /\ MarkReady(o).fin = o.fin /\ MarkReady(o).phase = o.phase /\ MarkReady(o).id = o.id
           /\ Unregistered(o).fin = o.fin /\ Unregistered(o).phase = o.phase
           /\ Unregistered(o).id = 0
           /\ LET p == [o EXCEPT !.secret = None]
              IN p.fin = o.fin /\ p.phase = o.phase /\ p.id = o.id
           /\ LET p == [o EXCEPT !.obs = o.gen]
              IN p.fin = o.fin /\ p.phase = o.phase /\ p.id = o.id
           /\ LET p == [o EXCEPT !.fin = TRUE]
              IN p.fin /\ p.phase = o.phase /\ p.id = o.id
           /\ \A id : /\ [o EXCEPT !.id = id].fin = o.fin
                      /\ [o EXCEPT !.id = id].phase = o.phase
                      /\ [o EXCEPT !.id = id].id = id
                      /\ MarkReady([o EXCEPT !.id = id]).fin = o.fin
                      /\ MarkReady([o EXCEPT !.id = id]).phase = o.phase
                      /\ MarkReady([o EXCEPT !.id = id]).id = id
BY DEF NotReady, MarkReady, Unregistered, Object

\* The pass is over, or goes on knowing what it must, and nobody wrote a CR.
LEMMA GoesOn ==
    ASSUME TypeInv, LeakInv, UNCHANGED cr, clients' \subseteq clients,
           \/ w'.pc = "idle"
           \/ w'.cur = w.cur /\ Pass(w', Obj(w.cur), clients')
    PROVE  LeakInv'
<1>1. \A u : Obj(u)' = Obj(u)
  BY DEF Obj
<1>2. \A u \in CR : Kept(u, Obj(u)', clients')
  BY <1>1, Shrinks DEF LeakInv
<1> QED
  BY <1>1, <1>2 DEF LeakInv

\* Steps that need nothing but an object that is alive.
Plain == {"status", "getClient", "readSecret", "burnClient", "editClient",
          "verifyEdit", "syncSecret"}

\* A pass goes on to such a step, with the id it had or none.
LEMMA PlainPass ==
    ASSUME NEW o, Pass(w, o, clients), w.pc \notin {"idle", "addFinalizer"},
           NEW j, j.pc \in Plain, j.cur = w.cur, j.oc.fin = w.oc.fin,
           j.oc.phase = w.oc.phase, j.oc.id \in {w.oc.id, 0},
           NEW R, R \subseteq clients
    PROVE  Pass(j, o, R)
<1>1. j.oc.id # 0 => Only(R, j.cur, {j.oc.id})
  BY Shrinks DEF Pass
<1>2. /\ j.pc \notin {"idle", "addFinalizer", "writeSecret", "deregister", "sweep",
                      "removeFinalizer"}
      /\ j.pc \notin ByStatus /\ j.pc \notin Unrecorded /\ j.pc \notin AsRead
  BY DEF Plain, ByStatus, Unrecorded, AsRead
<1> QED
  BY <1>1, <1>2 DEF Pass

\* Steps before the first that changes the id in hand.
Early == {"vetRename", "readOld", "deleteOld", "vetTarget", "listClients", "register"}

\* A pass goes on to such a step, with the id in the status.
LEMMA EarlyPass ==
    ASSUME NEW o, Pass(w, o, clients), w.pc \in ByStatus \ {"addFinalizer"},
           NEW j, j.pc \in Early, j.cur = w.cur, j.oc.fin = w.oc.fin,
           j.oc.phase = w.oc.phase, j.oc.id = w.oc.id,
           j.pc \in Unrecorded => j.oc.id = 0,
           NEW R, R \subseteq clients
    PROVE  Pass(j, o, R)
<1>1. w.pc # "idle" /\ w.pc # "addFinalizer"
  BY DEF ByStatus
<1>2. j.oc.id # 0 => Only(R, j.cur, {j.oc.id})
  BY <1>1, Shrinks DEF Pass
<1>3. /\ j.pc \notin {"idle", "addFinalizer", "writeSecret", "deregister", "sweep",
                      "removeFinalizer"}
      /\ j.pc \notin AsRead
  BY DEF Early, AsRead
<1> QED
  BY <1>1, <1>2, <1>3 DEF Pass

-----------------------------------------------------------------------------
(* The steps of the worker.                                                *)

\* A pass starts from what is stored.
LEMMA StartKeeps ==
    ASSUME PromptWatch, TypeInv, LeakInv, NEW u \in CR, StartReconcile(u)
    PROVE  LeakInv'
<1> DEFINE o == Cached(cr[u])
<1>1. o = Obj(u) /\ o \in Object
  <2>1. cr[u] \in Histories(Object) /\ Len(cr[u]) = 1
    BY DEF StartReconcile, Synced, TypeInv, KubeType
  <2> QED
    BY <2>1, HistoryOps DEF Cached, Stored, Obj, Histories
<1>2. UNCHANGED <<cr, clients>>
  BY DEF StartReconcile, registry
<1>3. Kept(u, o, clients)
  BY <1>1 DEF LeakInv
<1>4. CASE w' = w
  BY <1>2, <1>4 DEF LeakInv, Obj
<1>5. ASSUME w'.cur = u, Pass(w', o, clients)
      PROVE  LeakInv'
  BY <1>1, <1>2, <1>5 DEF LeakInv, Obj
<1>6. ASSUME NEW j, j.cur = u, j.pc \in {"status", "discovery"},
             o.fin, o.phase = "live", j.oc.id = o.id, j.oc.fin = o.fin,
             j.oc.phase = o.phase
      PROVE  Pass(j, o, clients)
  BY <1>3, <1>6 DEF Pass, Kept, ByStatus, Unrecorded, AsRead
<1>7. CASE o.phase = "live" /\ o.fin /\ w' = Begin(u, o, Synced(cr[u]))
  <2>1. /\ w'.cur = u /\ w'.pc \in {"status", "discovery"} /\ w'.oc.id = o.id
        /\ w'.oc.fin = o.fin /\ w'.oc.phase = o.phase
    <3>1. LET p == NotReady(o, "SpecInvalid")
          IN p.fin = o.fin /\ p.phase = o.phase /\ p.id = o.id
      BY <1>1, KeepsLife
    <3> QED
      BY <1>7, <3>1 DEF Begin, Job
  <2> QED
    BY <1>5, <1>6, <1>7, <2>1
<1>8. CASE o.phase = "live" /\ w' = Job(u, o, Synced(cr[u]), "addFinalizer")
  <2>1. w'.cur = u /\ w'.pc = "addFinalizer" /\ w'.oc = o
    BY <1>8 DEF Job
  <2>2. Pass(w', o, clients)
    BY <1>3, <1>8, <2>1 DEF Pass, Kept, ByStatus, Unrecorded, AsRead
  <2> QED
    BY <1>5, <2>1, <2>2
<1>9. CASE o.phase = "deleting" /\ o.fin /\ w' = BeginDelete(u, o, Synced(cr[u]))
  <2>1. /\ w'.cur = u /\ w'.oc = o
        /\ w'.pc \in {"removeFinalizer", "deregister", "listForCleanup"}
        /\ w'.pc = "removeFinalizer" => o.force \/ o.spec.deletion = "Orphan"
        /\ w'.pc = "deregister" => o.id # 0
    BY <1>9 DEF BeginDelete, Job
  <2>2. Pass(w', o, clients)
    BY <1>3, <1>9, <2>1 DEF Pass, Kept, ByStatus, Unrecorded, AsRead
  <2> QED
    BY <1>5, <2>1, <2>2
<1> QED
  BY <1>4, <1>7, <1>8, <1>9 DEF StartReconcile

\* The finalizer goes onto what was read.
LEMMA AddFinalizerKeeps ==
    ASSUME TypeInv, LeakInv, AddFinalizer
    PROVE  LeakInv'
<1> DEFINE o == [w.oc EXCEPT !.fin = TRUE]
<1>1. w.cur \in CR /\ w.oc \in Object /\ w.pc = "addFinalizer" /\ UNCHANGED clients
  BY Fields DEF TypeInv, AddFinalizer, registry
<1>2. o \in Object /\ o.fin /\ o.phase = w.oc.phase /\ o.id = w.oc.id
  BY <1>1, ObjectOps, KeepsLife
<1>3. Kept(w.cur, Obj(w.cur), clients) /\ Pass(w, Obj(w.cur), clients)
  BY <1>1 DEF LeakInv
<1>4. o.phase = "live" /\ o.id = Obj(w.cur).id
  BY <1>1, <1>2, <1>3 DEF Pass, ByStatus
<1>5. CASE UNCHANGED cr /\ Retry
  BY <1>1, <1>5, GoesOn DEF Retry, Idle, Job
<1>6. CASE Put(w.cur, o)
  <2>1. PICK u \in CR : u = w.cur
    BY <1>1
  <2>2. Obj(u)' = o /\ \A v \in CR \ {u} : Obj(v)' = Obj(v)
    BY <1>2, <1>6, <2>1, PutStores
  <2>3. Kept(u, o, clients)
    BY <1>2, <1>3, <1>4, <2>1 DEF Kept
  <2>4. \A v \in CR : Kept(v, Obj(v)', clients')
    BY <1>1, <2>2, <2>3 DEF LeakInv
  <2>5. CASE w'.pc = "idle"
    BY <2>4, <2>5 DEF LeakInv
  <2>6. CASE w' = Begin(w.cur, o, TRUE)
    <3>1. /\ w'.cur = u /\ w'.pc \in {"status", "discovery"} /\ w'.oc.id = o.id
          /\ w'.oc.fin = o.fin /\ w'.oc.phase = o.phase
      <4>1. LET p == NotReady(o, "SpecInvalid")
            IN p.fin = o.fin /\ p.phase = o.phase /\ p.id = o.id
        BY <1>2, KeepsLife
      <4> QED
        BY <2>1, <2>6, <4>1 DEF Begin, Job
    <3>2. Pass(w', o, clients)
      BY <1>2, <1>4, <2>3, <3>1 DEF Pass, Kept, ByStatus, Unrecorded, AsRead
    <3> QED
      BY <1>1, <2>2, <2>4, <3>1, <3>2 DEF LeakInv
  <2>7. w' = Idle \/ w' = Begin(w.cur, [w.oc EXCEPT !.fin = TRUE], TRUE)
    <3>1. Retry \/ w' = Begin(w.cur, [w.oc EXCEPT !.fin = TRUE], TRUE)
      BY DEF AddFinalizer
    <3> QED
      BY <3>1 DEF Retry
  <2>8. w' = Idle => w'.pc = "idle"
    BY IdleType
  <2> QED
    BY <2>5, <2>6, <2>7, <2>8
<1> QED
  BY <1>5, <1>6 DEF AddFinalizer

\* The status records the id in hand, of the one registration there is.
LEMMA UpdateStatusKeeps ==
    ASSUME TypeInv, LeakInv, UpdateStatus
    PROVE  LeakInv'
<1> DEFINE o == [w.oc EXCEPT !.obs = w.oc.gen]
<1>1. w.cur \in CR /\ w.oc \in Object /\ w.pc = "status" /\ UNCHANGED clients
      /\ w'.pc = "idle"
  BY Fields DEF TypeInv, UpdateStatus, registry, Retry, Idle, Job
<1>2. o \in Object /\ o.fin = w.oc.fin /\ o.phase = w.oc.phase /\ o.id = w.oc.id
  BY <1>1, ObjectOps, KeepsLife
<1>3. Pass(w, Obj(w.cur), clients)
  BY <1>1 DEF LeakInv
<1>4. CASE UNCHANGED cr
  BY <1>1, <1>4, GoesOn
<1>5. CASE Put(w.cur, o)
  <2>1. PICK u \in CR : u = w.cur
    BY <1>1
  <2>2. Obj(u)' = o /\ \A v \in CR \ {u} : Obj(v)' = Obj(v)
    BY <1>2, <1>5, <2>1, PutStores
  <2>3. Kept(u, o, clients)
    BY <1>1, <1>2, <1>3, <2>1 DEF Kept, Pass
  <2> QED
    BY <1>1, <2>1, <2>2, <2>3 DEF LeakInv
<1> QED
  BY <1>4, <1>5 DEF UpdateStatus

\* The finalizer goes when nothing is left to deregister, or may be left.
LEMMA RemoveFinalizerKeeps ==
    ASSUME TypeInv, LeakInv, RemoveFinalizer
    PROVE  LeakInv'
<1> DEFINE o == [w.oc EXCEPT !.fin = FALSE, !.phase = "gone"]
<1>1. w.cur \in CR /\ w.oc \in Object /\ w.pc = "removeFinalizer" /\ UNCHANGED clients
      /\ w'.pc = "idle"
  BY Fields DEF TypeInv, RemoveFinalizer, registry, Retry, Idle, Job
<1>2. o \in Object /\ o.phase = "gone" /\ o.id = w.oc.id /\ o.spec = w.oc.spec
      /\ o.force = w.oc.force
  BY <1>1, ObjectOps DEF Object
<1>3. Pass(w, Obj(w.cur), clients)
  BY <1>1 DEF LeakInv
<1>4. CASE UNCHANGED cr
  BY <1>1, <1>4, GoesOn
<1>5. CASE Put(w.cur, o)
  <2>1. PICK u \in CR : u = w.cur
    BY <1>1
  <2>2. Obj(u)' = o /\ \A v \in CR \ {u} : Obj(v)' = Obj(v)
    BY <1>2, <1>5, <2>1, PutStores
  <2>3. Kept(u, o, clients)
    BY <1>1, <1>2, <1>3, <2>1 DEF Kept, Pass
  <2> QED
    BY <1>1, <2>1, <2>2, <2>3 DEF LeakInv
<1> QED
  BY <1>4, <1>5 DEF RemoveFinalizer

\* Reads and writes up to the vetting of the Secret name.
LEMMA RenameKeeps ==
    ASSUME TypeInv, LeakInv, Discover \/ VetRename \/ ReadOldSecret \/ DeleteOldSecret
    PROVE  LeakInv'
<1>1. /\ w.cur \in CR /\ w.oc \in Object /\ UNCHANGED <<cr, clients>>
      /\ w.pc \in {"discovery", "vetRename", "readOld", "deleteOld"}
  BY Fields DEF TypeInv, Discover, VetRename, ReadOldSecret, DeleteOldSecret, Failed,
     registry
<1>2. Pass(w, Obj(w.cur), clients) /\ w.pc \in ByStatus \ {"addFinalizer"}
  BY <1>1 DEF LeakInv, ByStatus
<1>3. \/ w' \in {At("vetRename", w.oc), At("readOld", w.oc), AfterRename(w.oc),
                  AfterRename([w.oc EXCEPT !.secret = None]),
                  [At("deleteOld", w.oc) EXCEPT !.pinned = TRUE]}
      \/ \E r : w' = At("status", NotReady(w.oc, r))
  BY DEF Discover, VetRename, ReadOldSecret, DeleteOldSecret, Failed, Fail, Go
<1>4. /\ w'.cur = w.cur /\ w'.oc.fin = w.oc.fin /\ w'.oc.phase = w.oc.phase
      /\ w'.oc.id = w.oc.id
      /\ w'.pc \in {"status", "getClient", "vetRename", "readOld", "deleteOld", "vetTarget"}
      /\ w'.pc = "vetTarget" => w'.oc.id = 0
  <2>1. CASE w' \in {At("vetRename", w.oc), At("readOld", w.oc)}
    BY <2>1 DEF At, Job
  <2>2. CASE w' \in {AfterRename(w.oc), AfterRename([w.oc EXCEPT !.secret = None])}
    <3>1. PICK o : /\ w' = AfterRename(o) /\ o.id = w.oc.id /\ o.fin = w.oc.fin
                   /\ o.phase = w.oc.phase
      BY <1>1, <2>2, KeepsLife
    <3> QED
      BY <3>1 DEF AfterRename, At, Job
  <2>3. CASE \E r : w' = At("status", NotReady(w.oc, r))
    BY <1>1, <2>3, KeepsLife DEF At, Job
  <2>4. CASE w' = [At("deleteOld", w.oc) EXCEPT !.pinned = TRUE]
    BY <2>4 DEF At, Job
  <2> QED
    BY <1>3, <2>1, <2>2, <2>3, <2>4
<1>5. Pass(w', Obj(w.cur), clients')
  <2>1. CASE w'.pc \in Plain
    BY <1>1, <1>2, <1>4, <2>1, PlainPass
  <2>2. CASE w'.pc \in Early
    BY <1>1, <1>2, <1>4, <2>2, EarlyPass DEF Unrecorded
  <2> QED
    BY <1>4, <2>1, <2>2 DEF Plain, Early
<1> QED
  BY <1>1, <1>4, <1>5, GoesOn

\* The vetting of the target leaves no doubt that no id is on record.
LEMMA VetTargetKeeps ==
    ASSUME TypeInv, LeakInv, VetTarget
    PROVE  LeakInv'
<1>1. /\ w.cur \in CR /\ w.oc \in Object /\ UNCHANGED <<cr, clients>>
      /\ w.pc = "vetTarget"
  BY Fields DEF TypeInv, VetTarget, Failed, registry
<1>2. Pass(w, Obj(w.cur), clients) /\ w.oc.id = 0
  BY <1>1 DEF LeakInv, Pass, Unrecorded
<1>3. \/ \E id : w' = [At("listClients", w.oc) EXCEPT !.creds = id]
      \/ \E r : w' = At("status", NotReady(w.oc, r))
  BY DEF VetTarget, Failed, Fail, Go
<1>4. CASE \E id : w' = [At("listClients", w.oc) EXCEPT !.creds = id]
  <2>1. w'.pc = "listClients" /\ w'.cur = w.cur /\ w'.oc = w.oc
    BY <1>4 DEF At, Job
  <2>2. w.pc \in ByStatus \ {"addFinalizer"} /\ w'.pc \in Early
    BY <1>1, <2>1 DEF ByStatus, Early
  <2> QED
    BY <1>1, <1>2, <2>1, <2>2, EarlyPass, GoesOn
<1>5. CASE \E r : w' = At("status", NotReady(w.oc, r))
  <2>1. /\ w'.pc = "status" /\ w'.cur = w.cur /\ w'.oc.fin = w.oc.fin
        /\ w'.oc.phase = w.oc.phase /\ w'.oc.id = w.oc.id
    BY <1>1, <1>5, KeepsLife DEF At, Job
  <2>2. w'.pc \in Plain
    BY <2>1 DEF Plain
  <2> QED
    BY <1>1, <1>2, <2>1, <2>2, PlainPass, GoesOn
<1> QED
  BY <1>3, <1>4, <1>5

\* A listing shows the one registration, or that there is none.
LEMMA ListClientsKeeps ==
    ASSUME TypeInv, OneInv, LeakInv, ListClients
    PROVE  LeakInv'
<1>1. /\ w.cur \in CR /\ w.oc \in Object /\ UNCHANGED <<cr, clients>>
      /\ w.pc = "listClients"
  BY Fields DEF TypeInv, ListClients, Failed, registry
<1>2. Pass(w, Obj(w.cur), clients) /\ w.oc.id = 0
  BY <1>1 DEF LeakInv, Pass, Unrecorded
<1>3. CASE Go("register", w.oc)
  <2>1. w'.pc = "register" /\ w'.cur = w.cur /\ w'.oc = w.oc
    BY <1>3 DEF Go, At, Job
  <2>2. w.pc \in ByStatus \ {"addFinalizer"} /\ w'.pc \in Early
    BY <1>1, <2>1 DEF ByStatus, Early
  <2> QED
    BY <1>1, <1>2, <2>1, <2>2, EarlyPass, GoesOn
<1>4. CASE \E r : w' = At("status", NotReady(w.oc, r))
  <2>1. /\ w'.pc = "status" /\ w'.cur = w.cur /\ w'.oc.fin = w.oc.fin
        /\ w'.oc.phase = w.oc.phase /\ w'.oc.id = w.oc.id
    BY <1>1, <1>4, KeepsLife DEF At, Job
  <2>2. w'.pc \in Plain
    BY <2>1 DEF Plain
  <2> QED
    BY <1>1, <1>2, <2>1, <2>2, PlainPass, GoesOn
<1>5. ASSUME NEW c \in Fingerprinted(clients, w.cur),
             w' = At("getClient", [w.oc EXCEPT !.id = c.id])
      PROVE  LeakInv'
  <2>1. /\ w'.pc = "getClient" /\ w'.cur = w.cur /\ w'.oc.fin = w.oc.fin
        /\ w'.oc.phase = w.oc.phase /\ w'.oc.id = c.id
    <3>1. LET p == [w.oc EXCEPT !.id = c.id]
          IN p.fin = w.oc.fin /\ p.phase = w.oc.phase /\ p.id = c.id
      BY <1>1, KeepsLife
    <3> QED
      BY <1>5, <3>1 DEF At, Job
  <2>2. Only(clients, w.cur, {c.id})
    <3>1. c \in clients /\ c.fp = w.cur /\ w.cur # None
      BY <1>1, <1>5, NoneAssumption DEF Fingerprinted
    <3>2. \A d \in clients : d.by = w.cur => d = c
      BY <3>1 DEF OneInv, AtMostOneRegistration
    <3> QED
      BY <3>2 DEF Only
  <2>3. Pass(w', Obj(w.cur), clients)
    BY <1>1, <1>2, <2>1, <2>2 DEF Pass, ByStatus, Unrecorded, AsRead
  <2> QED
    BY <1>1, <2>1, <2>3, GoesOn
<1>6. ASSUME NEW c \in clients,
             w' = [At("burnOrphan", w.oc) EXCEPT !.doomed = {c.id}]
      PROVE  LeakInv'
  <2>1. w'.pc = "burnOrphan" /\ w'.cur = w.cur /\ w'.oc = w.oc
    BY <1>6 DEF At, Job
  <2>2. Pass(w', Obj(w.cur), clients)
    BY <1>1, <1>2, <2>1 DEF Pass, ByStatus, Unrecorded, AsRead
  <2> QED
    BY <1>1, <2>1, <2>2, GoesOn
<1> QED
  BY <1>3, <1>4, <1>5, <1>6 DEF ListClients, Failed, Fail, Go, Fingerprinted

\* A registration, where there was none, by a pass that has its only id.
LEMMA RegisterKeeps ==
    ASSUME "late" \notin Faults, TypeInv, OneInv, LeakInv, Register
    PROVE  LeakInv'
<1> DEFINE new == [id |-> NewId, fp |-> w.cur, by |-> w.cur, cfg |-> w.oc.spec.cfg]
<1>1. /\ w.cur \in CR /\ w.oc \in Object /\ w.pc = "register" /\ UNCHANGED cr
      /\ clients' \in {clients, clients \cup {new}}
  BY Fields DEF TypeInv, Register, Registered, GiveUp
<1>2. Pass(w, Obj(w.cur), clients) /\ w.oc.id = 0 /\ Obj(w.cur).id = 0
      /\ Obj(w.cur).fin /\ Obj(w.cur).phase \in {"live", "deleting"}
  BY <1>1 DEF LeakInv, Pass, Unrecorded, ByStatus
<1>3. \A c \in clients : c.by # w.cur
  BY <1>1 DEF OneInv, Fingerprinted
<1>4. Only(clients', w.cur, {NewId})
  BY <1>1, <1>3 DEF Only
<1>5. ASSUME NEW u \in CR
      PROVE  Kept(u, Obj(u), clients')
  <2>1. CASE u = w.cur
    BY <1>2, <2>1 DEF Kept
  <2>2. CASE u # w.cur
    <3>1. \A ids : Only(clients, u, ids) => Only(clients', u, ids)
      BY <1>1, <2>2 DEF Only
    <3>2. Kept(u, Obj(u), clients)
      BY DEF LeakInv
    <3> QED
      BY <3>1, <3>2 DEF Kept
  <2> QED
    BY <2>1, <2>2
<1>6. \/ /\ w'.pc = "writeSecret" /\ w'.cur = w.cur /\ w'.oc = w.oc /\ w'.creds = NewId
      \/ /\ w'.pc = "status" /\ w'.cur = w.cur /\ w'.oc.fin = w.oc.fin
         /\ w'.oc.phase = w.oc.phase /\ w'.oc.id = 0
  <2>1. \/ w' = [At("writeSecret", w.oc) EXCEPT !.creds = NewId]
        \/ w' = At("status", NotReady(w.oc, "RegistrationFailed"))
    BY DEF Register, Fail, Go
  <2>2. LET p == NotReady(w.oc, "RegistrationFailed")
        IN p.fin = w.oc.fin /\ p.phase = w.oc.phase /\ p.id = w.oc.id
    BY <1>1, KeepsLife
  <2> QED
    BY <1>2, <2>1, <2>2 DEF At, Job
<1>7. Pass(w', Obj(w.cur), clients')
  BY <1>1, <1>2, <1>4, <1>6 DEF Pass, ByStatus, Unrecorded, AsRead
<1> QED
  BY <1>1, <1>5, <1>6, <1>7 DEF LeakInv, Obj

\* The credentials in hand are those of the only registration.
LEMMA WriteSecretKeeps ==
    ASSUME TypeInv, LeakInv, WriteSecret
    PROVE  LeakInv'
<1>1. /\ w.cur \in CR /\ w.oc \in Object /\ UNCHANGED <<cr, clients>>
      /\ w.pc = "writeSecret"
  BY Fields DEF TypeInv, WriteSecret, registry
<1>2. Pass(w, Obj(w.cur), clients) /\ Only(clients, w.cur, {w.creds}) /\ w.oc.id = 0
  BY <1>1 DEF LeakInv, Pass, Unrecorded
<1>3. \/ w' = At("status", MarkReady([w.oc EXCEPT !.id = w.creds]))
      \/ w' = At("status", NotReady(w.oc, "RegistrationFailed"))
  BY DEF WriteSecret, Upsert, Fail, Go
<1>4. /\ w'.pc = "status" /\ w'.cur = w.cur /\ w'.oc.fin = w.oc.fin
      /\ w'.oc.phase = w.oc.phase /\ w'.oc.id \in {w.creds, 0}
  <2>1. LET p == NotReady(w.oc, "RegistrationFailed")
        IN p.fin = w.oc.fin /\ p.phase = w.oc.phase /\ p.id = w.oc.id
    BY <1>1, KeepsLife
  <2>2. LET p == MarkReady([w.oc EXCEPT !.id = w.creds])
        IN p.fin = w.oc.fin /\ p.phase = w.oc.phase /\ p.id = w.creds
    BY <1>1, KeepsLife
  <2> QED
    BY <1>2, <1>3, <2>1, <2>2 DEF At, Job
<1>5. Pass(w', Obj(w.cur), clients)
  BY <1>1, <1>2, <1>4 DEF Pass, ByStatus, Unrecorded, AsRead
<1> QED
  BY <1>1, <1>4, <1>5, GoesOn

\* The steps after a registration was found: none of them makes one.
LEMMA PlainKeeps ==
    ASSUME TypeInv, LeakInv, clients' \subseteq clients,
           \/ BurnOrphan \/ GetClient \/ ReadSecret \/ BurnClient \/ VerifyEdit
           \/ SyncSecret
    PROVE  LeakInv'
<1>1. /\ w.cur \in CR /\ w.oc \in Object /\ UNCHANGED cr
      /\ w.pc \notin {"idle", "addFinalizer"}
  BY Fields DEF TypeInv, BurnOrphan, GetClient, ReadSecret, BurnClient, VerifyEdit,
     SyncSecret, Failed
<1>2. Pass(w, Obj(w.cur), clients)
  BY <1>1 DEF LeakInv
<1>3. \/ \E b : w' = [At("readSecret", w.oc) EXCEPT !.drifted = b]
      \/ \E pc \in Plain : w' = At(pc, w.oc)
      \/ w' = At("status", Unregistered(w.oc)) \/ w' = At("status", MarkReady(w.oc))
      \/ \E r : w' = At("status", NotReady(w.oc, r))
  BY DEF BurnOrphan, GetClient, ReadSecret, BurnClient, VerifyEdit, SyncSecret, Upsert,
     OnDrift, DeleteClient, Failed, Fail, Go, Plain
<1>4. /\ w'.cur = w.cur /\ w'.pc \in Plain /\ w'.oc.fin = w.oc.fin
      /\ w'.oc.phase = w.oc.phase /\ w'.oc.id \in {w.oc.id, 0}
  <2>1. CASE \E b : w' = [At("readSecret", w.oc) EXCEPT !.drifted = b]
    BY <2>1 DEF At, Job, Plain
  <2>2. CASE \E pc \in Plain : w' = At(pc, w.oc)
    BY <2>2 DEF At, Job
  <2>3. CASE \/ w' = At("status", Unregistered(w.oc)) \/ w' = At("status", MarkReady(w.oc))
             \/ \E r : w' = At("status", NotReady(w.oc, r))
    BY <1>1, <2>3, KeepsLife DEF At, Job, Plain
  <2> QED
    BY <1>3, <2>1, <2>2, <2>3
<1> QED
  BY <1>1, <1>2, <1>4, PlainPass, GoesOn

\* EditClient: ids and owners stay.
LEMMA EditKeeps ==
    ASSUME "late" \notin Faults, TypeInv, LeakInv, EditClient
    PROVE  LeakInv'
<1>1. /\ w.cur \in CR /\ w.oc \in Object /\ UNCHANGED cr /\ w.pc = "editClient"
  BY Fields DEF TypeInv, EditClient
<1>2. Pass(w, Obj(w.cur), clients)
  BY <1>1 DEF LeakInv
<1>3. \A d \in clients' : \E c \in clients : d.id = c.id /\ d.by = c.by
  <2>1. \A d \in Renamed(clients, w.oc.id, w.cur, w.oc.spec.cfg) :
          \E c \in clients : d.id = c.id /\ d.by = c.by
    BY DEF Renamed, TypeInv, RegistryType, Registration
  <2> QED
    BY <2>1 DEF EditClient, Edited, GiveUp, registry
<1>4. \A u, ids : Only(clients, u, ids) => Only(clients', u, ids)
  BY <1>3 DEF Only
<1>5. \A u \in CR : Kept(u, Obj(u), clients')
  <2>1. \A u \in CR : Kept(u, Obj(u), clients)
    BY DEF LeakInv
  <2> QED
    BY <1>4, <2>1 DEF Kept
<1>6. \/ w' = At("verifyEdit", w.oc)
      \/ w' = At("status", NotReady(w.oc, "InPlaceUpdateFailed"))
  BY DEF EditClient, Fail, Go
<1>7. /\ w'.cur = w.cur /\ w'.pc \in {"verifyEdit", "status"} /\ w'.oc.fin = w.oc.fin
      /\ w'.oc.phase = w.oc.phase /\ w'.oc.id = w.oc.id
  <2>1. LET p == NotReady(w.oc, "InPlaceUpdateFailed")
        IN p.fin = w.oc.fin /\ p.phase = w.oc.phase /\ p.id = w.oc.id
    BY <1>1, KeepsLife
  <2> QED
    BY <1>6, <2>1 DEF At, Job
<1>8. Pass(w', Obj(w.cur), clients)
  BY <1>1, <1>2, <1>7, PlainPass DEF Plain
<1>9. Pass(w', Obj(w.cur), clients')
  <2>1. w'.oc.id # 0 => Only(clients, w'.cur, {w'.oc.id})
    BY <1>7, <1>8 DEF Pass
  <2> QED
    BY <1>4, <1>7, <1>8, <2>1 DEF Pass
<1> QED
  BY <1>1, <1>5, <1>7, <1>9 DEF LeakInv, Obj

\* The finalizer takes the one registration there is, or all it lists.
LEMMA DeregisterKeeps ==
    ASSUME TypeInv, OneInv, LeakInv, clients' \subseteq clients,
           Deregister \/ ListForCleanup \/ SweepOne
    PROVE  LeakInv'
<1> DEFINE u == w.cur
<1>1. /\ u \in CR /\ w.oc \in Object /\ UNCHANGED cr
      /\ w.pc \in {"deregister", "listForCleanup", "sweep"}
  BY Fields DEF TypeInv, Deregister, ListForCleanup, SweepOne
<1>2. Pass(w, Obj(u), clients)
  BY <1>1 DEF LeakInv
<1>3. CASE Retry
  <2>1. w'.pc = "idle"
    BY <1>3, IdleType DEF Retry
  <2> QED
    BY <1>1, <2>1, GoesOn
<1>4. ASSUME w' = At("removeFinalizer", w.oc), Only(clients', u, {})
      PROVE  LeakInv'
  <2>1. w'.pc = "removeFinalizer" /\ w'.cur = u /\ w'.oc = w.oc /\ w'.fresh = w.fresh
    BY <1>4 DEF At, Job
  <2>2. w.oc.id # 0 => Only(clients', u, {w.oc.id})
    BY <1>1, <1>2, Shrinks DEF Pass
  <2>3. Pass(w', Obj(u), clients')
    BY <1>1, <1>2, <1>4, <2>1, <2>2 DEF Pass, ByStatus, Unrecorded, AsRead
  <2> QED
    BY <1>1, <2>1, <2>3, GoesOn
<1>5. ASSUME NEW ids, SweepOn(ids), Only(clients', u, ids)
      PROVE  LeakInv'
  <2>1. CASE ids = {}
    BY <1>4, <1>5, <2>1 DEF SweepOn, Go
  <2>2. CASE ids # {}
    <3>1. /\ w'.pc = "sweep" /\ w'.cur = u /\ w'.oc = w.oc /\ w'.fresh = w.fresh
          /\ w'.doomed = ids
      BY <1>5, <2>2 DEF SweepOn, At, Job
    <3>2. w.oc.id # 0 => Only(clients', u, {w.oc.id})
      BY <1>1, <1>2, Shrinks DEF Pass
    <3>3. Pass(w', Obj(u), clients')
      BY <1>1, <1>2, <1>5, <3>1, <3>2 DEF Pass, ByStatus, Unrecorded, AsRead
    <3> QED
      BY <1>1, <3>1, <3>3, GoesOn
  <2> QED
    BY <2>1, <2>2
<1>6. CASE Deregister
  <2>1. Retry \/ (Go("removeFinalizer", w.oc) /\ clients' = Without(clients, w.oc.id))
    BY <1>6 DEF Deregister, DeleteClient
  <2>2. Only(clients, u, {w.oc.id})
    BY <1>2, <1>6 DEF Deregister, Pass
  <2>3. clients' = Without(clients, w.oc.id) => Only(clients', u, {})
    BY <2>2 DEF Only, Without
  <2> QED
    BY <1>3, <1>4, <2>1, <2>3 DEF Go
<1>7. CASE ListForCleanup
  <2> DEFINE ids == {c.id : c \in Fingerprinted(clients, u)}
  <2>1. Retry \/ (SweepOn(ids) /\ UNCHANGED clients)
    BY <1>7 DEF ListForCleanup, registry
  <2>2. Only(clients, u, ids)
    BY DEF OneInv, Only, Fingerprinted
  <2> HIDE DEF ids
  <2> QED
    BY <1>3, <1>5, <2>1, <2>2
<1>8. CASE SweepOne
  <2>1. Only(clients, u, w.doomed)
    BY <1>2, <1>8 DEF SweepOne, Pass
  <2>2. CASE Retry
    BY <1>3, <2>2
  <2>3. ASSUME NEW id \in w.doomed, SweepOn(w.doomed \ {id}), clients' = Without(clients, id)
        PROVE  LeakInv'
    <3>1. Only(clients', u, w.doomed \ {id})
      BY <2>1, <2>3 DEF Only, Without
    <3> QED
      BY <1>5, <2>3, <3>1
  <2> QED
    BY <1>8, <2>2, <2>3 DEF SweepOne, DeleteClient
<1> QED
  BY <1>6, <1>7, <1>8

\* Every step of the worker.
LEMMA WorkerKeepsLeak ==
    ASSUME "late" \notin Faults, PromptWatch, TypeInv, OneInv, LeakInv, WorkerStep
    PROVE  LeakInv'
<1>1. CASE \/ BurnOrphan \/ GetClient \/ ReadSecret \/ BurnClient \/ VerifyEdit
           \/ SyncSecret \/ Deregister \/ ListForCleanup \/ SweepOne
  <2>1. clients' \subseteq clients
    BY <1>1 DEF BurnOrphan, GetClient, ReadSecret, BurnClient, VerifyEdit, SyncSecret,
       Deregister, ListForCleanup, SweepOne, DeleteClient, Without, GiveUp, Failed, registry
  <2> QED
    BY <1>1, <2>1, PlainKeeps, DeregisterKeeps
<1> QED
  BY <1>1, StartKeeps, AddFinalizerKeeps, UpdateStatusKeeps, RemoveFinalizerKeeps,
     RenameKeeps, VetTargetKeeps, ListClientsKeeps, RegisterKeeps, WriteSecretKeeps,
     EditKeeps DEF WorkerStep

-----------------------------------------------------------------------------
(* The steps of the others.                                                *)

\* A pass under way survives what leaves it its CR: the id, and the finalizer.
LEMMA PassSurvives ==
    ASSUME TypeInv, LeakInv, clients' \subseteq clients,
           w'.pc = w.pc, w'.cur = w.cur, w'.oc = w.oc, w'.doomed = w.doomed,
           w'.creds = w.creds,
           \A t \in CR :
               /\ Kept(t, Obj(t)', clients)
               /\ Obj(t)'.id = Obj(t).id
               /\ Obj(t).fin /\ Obj(t).phase \in {"live", "deleting"} =>
                    Obj(t)'.fin /\ Obj(t)'.phase \in {"live", "deleting"}
               /\ t = w.cur /\ w'.fresh => w.fresh /\ Obj(t)' = Obj(t)
    PROVE  LeakInv'
<1>1. \A t \in CR : Kept(t, Obj(t)', clients')
  BY Shrinks
<1>2. ASSUME w.pc # "idle"
      PROVE  Pass(w', Obj(w.cur)', clients')
  <2>1. PICK t \in CR : t = w.cur
    BY <1>2, Fields DEF TypeInv
  <2>2. Pass(w, Obj(t), clients)
    BY <1>2, <2>1 DEF LeakInv
  <2>3. Pass(w, Obj(t), clients')
    BY <2>2, Shrinks
  <2>4. Pass(w', Obj(t)', clients')
    BY <2>1, <2>3 DEF Pass
  <2>5. t = w'.cur
    BY <2>1
  <2> QED
    BY <2>4, <2>5
<1> QED
  BY <1>1, <1>2 DEF LeakInv

\* Users: a CR comes without an id, and goes at once only if nothing was ever
\* registered for it.
LEMMA UserKeepsLeak ==
    ASSUME TypeInv, LeakInv, UserStep
    PROVE  LeakInv'
<1>1. PICK u \in CR : CreateCR(u) \/ EditSpec(u) \/ DeleteCR(u) \/ ForceRemove(u)
  BY DEF UserStep
<1> DEFINE o == Obj(u)
<1>2. o \in Object /\ Kept(u, o, clients)
  BY HistoryOps DEF TypeInv, KubeType, LeakInv, Obj
<1>3. PICK v \in Object :
        /\ Change(u, v) /\ Kept(u, v, clients) /\ v.id = o.id
        /\ o.fin /\ o.phase \in {"live", "deleting"} =>
             v.fin /\ v.phase \in {"live", "deleting"}
  <2>1. CASE CreateCR(u)
    <3>1. PICK s \in Specs :
             /\ o.phase = "none"
             /\ Change(u, [Blank EXCEPT !.phase = "live", !.spec = s, !.gen = 1])
      BY <2>1 DEF CreateCR, Obj
    <3> DEFINE v == [Blank EXCEPT !.phase = "live", !.spec = s, !.gen = 1]
    <3>2. v \in Object /\ v.id = 0 /\ v.phase = "live" /\ ~v.fin
      BY BlankType DEF Blank, Object
    <3>3. Only(clients, u, {})
      BY <1>2, <3>1 DEF Kept
    <3> QED
      BY <1>2, <3>1, <3>2, <3>3 DEF Kept
  <2>2. CASE EditSpec(u)
    <3>1. PICK s \in Specs : /\ o.phase \in {"live", "deleting"}
                             /\ Change(u, [o EXCEPT !.spec = s, !.gen = @ + 1])
      BY <2>2 DEF EditSpec, Obj
    <3> DEFINE v == [o EXCEPT !.spec = s, !.gen = @ + 1]
    <3>2. v \in Object /\ v.id = o.id /\ v.phase = o.phase /\ v.fin = o.fin
      <4>1. o.gen + 1 \in Nat
        BY <1>2 DEF Object
      <4> QED
        BY <1>2, <4>1 DEF Object
    <3> QED
      BY <1>2, <3>1, <3>2 DEF Kept
  <2>3. CASE DeleteCR(u)
    <3> DEFINE p == IF o.fin THEN "deleting" ELSE "gone"
               v == [o EXCEPT !.phase = p]
    <3>1. o.phase = "live" /\ Change(u, v)
      BY <2>3 DEF DeleteCR, Obj
    <3>2. /\ v \in Object /\ v.id = o.id /\ v.phase = p /\ v.fin = o.fin
          /\ v.spec = o.spec /\ v.force = o.force
      BY <1>2 DEF Object
    <3>3. Kept(u, v, clients)
      BY <1>2, <3>1, <3>2 DEF Kept
    <3> HIDE DEF v
    <3> QED
      BY <3>1, <3>2, <3>3
  <2>4. CASE ForceRemove(u)
    <3> DEFINE v == [o EXCEPT !.force = TRUE]
    <3>1. o.phase \in {"live", "deleting"} /\ Change(u, v)
      BY <2>4 DEF ForceRemove, Obj
    <3>2. v \in Object /\ v.id = o.id /\ v.phase = o.phase /\ v.fin = o.fin
      BY <1>2 DEF Object
    <3> QED
      BY <1>2, <3>1, <3>2 DEF Kept
  <2> QED
    BY <1>1, <2>1, <2>2, <2>3, <2>4
<1>4. Obj(u)' = v /\ \A t \in CR \ {u} : Obj(t)' = Obj(t)
  BY <1>3, PutStores DEF Change
<1>5. UNCHANGED clients
  BY <1>1 DEF CreateCR, EditSpec, DeleteCR, ForceRemove, registry
<1>6. /\ w'.pc = w.pc /\ w'.cur = w.cur /\ w'.oc = w.oc /\ w'.doomed = w.doomed
      /\ w'.creds = w.creds /\ w'.fresh = (w.fresh /\ w.cur # u)
  BY <1>3 DEF Change, Outdate, TypeInv, WorkerType, Worker
<1>7. ASSUME NEW t \in CR
      PROVE  /\ Kept(t, Obj(t)', clients)
             /\ Obj(t)'.id = Obj(t).id
             /\ Obj(t).fin /\ Obj(t).phase \in {"live", "deleting"} =>
                  Obj(t)'.fin /\ Obj(t)'.phase \in {"live", "deleting"}
             /\ t = w.cur /\ w'.fresh => w.fresh /\ Obj(t)' = Obj(t)
  BY <1>3, <1>4, <1>6 DEF LeakInv
<1> QED
  BY <1>5, <1>6, <1>7, PassSurvives

\* Everybody else leaves what is stored of the CRs.
LEMMA OthersKeepLeak ==
    ASSUME "late" \notin Faults, "adminEdit" \notin Faults, TypeInv, OneInv, LeakInv,
           \/ SecretStep \/ WatchStep \/ TsidpStep
           \/ \E n \in SecretName : CollectGarbage(n)
    PROVE  LeakInv'
<1>1. clients' \subseteq clients
  <2>1. TsidpStep => LoseState
    BY DEF TsidpStep, AdminEdit, Fault, OneInv
  <2> QED
    BY <2>1 DEF SecretStep, DeleteSecret, Squat, Scrub, Unlabel, CollectGarbage, Tamper,
       WatchStep, DeliverCR, DeliverSecret, LoseState, registry
<1>2. /\ w'.pc = w.pc /\ w'.cur = w.cur /\ w'.oc = w.oc /\ w'.doomed = w.doomed
      /\ w'.creds = w.creds /\ w'.fresh = w.fresh
  <2>1. CASE SecretStep \/ \E n \in SecretName : CollectGarbage(n)
    BY <2>1 DEF SecretStep, DeleteSecret, Squat, Scrub, Unlabel, CollectGarbage, Tamper,
       TypeInv, WorkerType, Worker
  <2>2. CASE WatchStep \/ TsidpStep
    BY <2>2 DEF WatchStep, DeliverCR, DeliverSecret, TsidpStep, LateAnswer, LoseState,
       AdminEdit
  <2> QED
    BY <2>1, <2>2
<1>3. \A t \in CR : Obj(t)' = Obj(t)
  <2>1. CASE UNCHANGED cr
    BY <2>1 DEF Obj
  <2>2. ASSUME NEW u \in CR, DeliverCR(u)
        PROVE  \A t \in CR : Obj(t)' = Obj(t)
    <3>1. cr \in [CR -> Histories(Object)]
      BY DEF TypeInv, KubeType
    <3>2. Stored(DeliverNext(cr[u])) = Stored(cr[u])
      <4>1. CanDeliver(cr[u]) /\ cr[u] \in Histories(Object)
        BY <2>2, <3>1 DEF DeliverCR
      <4> QED
        BY <4>1, HistoryOps
    <3>3. cr' = [cr EXCEPT ![u] = DeliverNext(@)]
      BY <2>2 DEF DeliverCR
    <3>4. \A t \in CR : Stored(cr'[t]) = Stored(cr[t])
      BY <3>1, <3>2, <3>3
    <3> QED
      BY <3>4 DEF Obj
  <2>3. SecretStep \/ TsidpStep \/ (\E n \in SecretName : CollectGarbage(n)) => UNCHANGED cr
    BY DEF SecretStep, DeleteSecret, Squat, Scrub, Unlabel, CollectGarbage, Tamper,
       TsidpStep, LateAnswer, LoseState, AdminEdit
  <2>4. WatchStep => UNCHANGED cr \/ \E u \in CR : DeliverCR(u)
    BY DEF WatchStep, DeliverSecret
  <2> QED
    BY <2>1, <2>2, <2>3, <2>4
<1> QED
  BY <1>1, <1>2, <1>3, PassSurvives DEF LeakInv

\* Every step of anybody.
LEMMA LeakNext ==
    ASSUME "late" \notin Faults, "adminEdit" \notin Faults, PromptWatch,
           TypeInv, OneInv, LeakInv, [Next]_vars
    PROVE  LeakInv'
<1>1. CASE Restart
  <2>1. w'.pc = "idle" /\ UNCHANGED clients /\ \A t \in CR : cr'[t] = Relist(cr[t])
    BY <1>1, IdleType DEF Restart, registry
  <2>2. \A t \in CR : Obj(t)' = Obj(t)
    BY <2>1, HistoryOps DEF TypeInv, KubeType, Obj
  <2> QED
    BY <2>1, <2>2 DEF LeakInv
<1>2. CASE UNCHANGED vars \/ Quiescent
  BY <1>2 DEF vars, Quiescent, LeakInv, Obj
<1> QED
  BY <1>1, <1>2, WorkerKeepsLeak, UserKeepsLeak, OthersKeepLeak DEF Next

\* Nothing is registered for a CR that does not exist yet.
LEMMA LeakInit == Init => LeakInv
<1> SUFFICES ASSUME Init PROVE LeakInv
  OBVIOUS
<1>1. \A u \in CR : Obj(u) = Blank
  BY DEF Init, Obj, Stored
<1>2. Blank.id = 0 /\ ~Blank.fin /\ Blank.phase = "none"
  BY DEF Blank
<1>3. \A u \in CR : Only(clients, u, {})
  BY NoneAssumption DEF Init, Only
<1> QED
  BY <1>1, <1>2, <1>3, IdleType DEF Init, LeakInv, Kept

\* Provided that a reconcile starts from the stored CR, that no request lands
\* after the operator gave up on it and that nobody edits registrations in
\* tsidp: once a CR with the Deregister policy is gone, and was not forced
\* out, tsidp has no registration that was made for it, whatever crashed,
\* failed, was edited or lost on the way.
THEOREM NothingLeaks ==
    ASSUME "late" \notin Faults, "adminEdit" \notin Faults, PromptWatch
    PROVE  Spec => []NoLeak
<1>1. LeakInv => NoLeak
  BY DEF LeakInv, Kept, NoLeak, Only
<1>2. TypeInv /\ OwnInv /\ OneInv /\ [Next]_vars => OneInv'
  BY OneNext
<1>3. TypeInv /\ OneInv /\ LeakInv /\ [Next]_vars => LeakInv'
  BY LeakNext
<1> QED
  BY <1>1, <1>2, <1>3, TypeInit, TypeNext, OwnInit, OwnNext, OneInit, LeakInit, PTL DEF Spec
=============================================================================
