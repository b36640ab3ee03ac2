-------------------------- MODULE OIDCClientSystem --------------------------
(***************************************************************************)
(* The operator in its cluster: the worker of OIDCClientController,        *)
(* interleaved with the watch, the users of the CRs and of the Secrets,    *)
(* Kubernetes' garbage collector, tsidp's own changes of state and         *)
(* restarts of the operator.                                               *)
(***************************************************************************)
EXTENDS OIDCClientController

\* Nothing but a registration that some other application made in tsidp.
Init ==
    /\ cr = [u \in CR |-> <<Blank>>]
    /\ secrets = [n \in SecretName |-> <<NoSecret>>]
    /\ clients = {[id |-> 1, fp |-> None, by |-> None, cfg |-> Blank.spec.cfg]}
    /\ late = {}
    /\ due = {}
    /\ w = Idle
    /\ faults = 0

-----------------------------------------------------------------------------
(* Users of the CRs.  A change of the spec increments the generation.      *)

Change(u, o) == Put(u, o) /\ Outdate(u)

CreateCR(u) == \E s \in Specs :
    /\ Stored(cr[u]).phase = "none"
    /\ Change(u, [Blank EXCEPT !.phase = "live", !.spec = s, !.gen = 1])
    /\ UNCHANGED <<secrets, registry, due, faults>>

EditSpec(u) == \E s \in Specs :
    LET o == Stored(cr[u])
    IN /\ o.phase \in {"live", "deleting"} /\ o.spec # s /\ o.gen < MaxGen
       /\ Change(u, [o EXCEPT !.spec = s, !.gen = @ + 1])
       /\ UNCHANGED <<secrets, registry, due, faults>>

\* The object stays while it has the finalizer.
DeleteCR(u) ==
    LET o == Stored(cr[u])
    IN /\ o.phase = "live"
       /\ Change(u, [o EXCEPT !.phase = IF o.fin THEN "deleting" ELSE "gone"])
       /\ UNCHANGED <<secrets, registry, due, faults>>

\* The force-remove-finalizer annotation.
ForceRemove(u) ==
    LET o == Stored(cr[u])
    IN /\ o.phase \in {"live", "deleting"} /\ ~o.force
       /\ Fault("force")
       /\ Change(u, [o EXCEPT !.force = TRUE])
       /\ UNCHANGED <<secrets, registry, due>>

-----------------------------------------------------------------------------
(* Others who touch the Secrets.                                           *)

\* The worker's pin on the old Secret holds no longer than that object.
Tamper(n, s) ==
    /\ PutSecret(n, s)
    /\ w' = [w EXCEPT !.pinned = @ /\ (s.exists \/ w.oc.secret # n)]
    /\ UNCHANGED <<cr, registry, due>>

DeleteSecret(n) ==
    Stored(secrets[n]).exists /\ Fault("delete") /\ Tamper(n, NoSecret)

\* Someone else's Secret at that name, labelled or not.
Squat(n) == \E m \in BOOLEAN :
    /\ ~Stored(secrets[n]).exists /\ Fault("squat")
    /\ Tamper(n, [NoSecret EXCEPT !.exists = TRUE, !.managed = m])

\* Credentials removed from the data.
Scrub(n) ==
    /\ Stored(secrets[n]).creds # 0 /\ Fault("scrub")
    /\ Tamper(n, [Stored(secrets[n]) EXCEPT !.creds = 0])

\* The managed-by label removed.
Unlabel(n) ==
    /\ Stored(secrets[n]).managed /\ Fault("unlabel")
    /\ Tamper(n, [Stored(secrets[n]) EXCEPT !.managed = FALSE])

\* The garbage collector follows the owner references of removed CRs.
CollectGarbage(n) ==
    /\ \E u \in CR : /\ Owned(Stored(secrets[n]), u)
                     /\ Stored(cr[u]).phase = "gone"
    /\ Tamper(n, NoSecret) /\ UNCHANGED faults

-----------------------------------------------------------------------------
(* The watch: For(OIDCClient) and Owns(Secret).                            *)

DeliverCR(u) ==
    /\ CanDeliver(cr[u])
    /\ cr' = [cr EXCEPT ![u] = DeliverNext(@)]
    /\ due' = due \cup {u}
    /\ UNCHANGED <<secrets, registry, w, faults>>

\* An event enqueues the owners in the versions before and after it; the
\* label selector turns relabelling into deletion and creation, and hides
\* what happens to unlabelled Secrets.
DeliverSecret(n) ==
    LET before == Visible(Cached(secrets[n]))
        after  == Visible(Cached(DeliverNext(secrets[n])))
    IN /\ CanDeliver(secrets[n])
       /\ secrets' = [secrets EXCEPT ![n] = DeliverNext(@)]
       /\ due' = IF before = after THEN due
                 ELSE due \cup ({before.owner, after.owner} \cap CR)
       /\ UNCHANGED <<cr, registry, w, faults>>

-----------------------------------------------------------------------------
(* tsidp, and the process.                                                 *)

\* A request the worker gave up on takes effect.
LateAnswer(r) ==
    /\ \/ /\ r.op = "register" /\ FreeIds # {}
          /\ clients' = Registered(clients, NewId, r.fp, r.cfg)
       \/ r.op = "delete" /\ clients' = Without(clients, r.id)
       \/ r.op = "edit" /\ clients' = Edited(clients, r.id, r.fp, r.cfg)
    /\ late' = late \ {r}
    /\ UNCHANGED <<cr, secrets, due, w, faults>>

\* A restart of tsidp without its persistent volume.
LoseState ==
    /\ clients # {} /\ Fault("loss")
    /\ clients' = {}
    /\ UNCHANGED <<cr, secrets, late, due, w>>

\* tsidp's own UI: another name (with or without the fingerprint) and URIs.
AdminEdit ==
  \E c \in clients : \E fp \in {c.fp, None}, cfg \in Config \ (EditRejected \cup BadConfig) :
    /\ Fault("adminEdit")
    /\ clients' = Renamed(clients, c.id, fp, cfg) /\ clients' # clients
    /\ UNCHANGED <<cr, secrets, late, due, w>>

\* The operator dies and starts again: the caches list, every CR listed is
\* enqueued.
Restart ==
    /\ Fault("crash")
    /\ w' = Idle
    /\ cr' = [u \in CR |-> Relist(cr[u])]
    /\ secrets' = [n \in SecretName |-> Relist(secrets[n])]
    /\ due' = {u \in CR : Stored(cr[u]).phase \in {"live", "deleting"}}
    /\ UNCHANGED registry

-----------------------------------------------------------------------------
UserStep == \E u \in CR :
    CreateCR(u) \/ EditSpec(u) \/ DeleteCR(u) \/ ForceRemove(u)

SecretStep == \E n \in SecretName :
    DeleteSecret(n) \/ Squat(n) \/ Scrub(n) \/ Unlabel(n)

TsidpStep == (\E r \in late : LateAnswer(r)) \/ LoseState \/ AdminEdit

WatchStep == (\E u \in CR : DeliverCR(u)) \/ (\E n \in SecretName : DeliverSecret(n))

\* Nothing left to do: the worker waits for a key, the watch for a change.
Quiescent ==
    /\ w.pc = "idle" /\ due = {}
    /\ \A u \in CR : ~CanDeliver(cr[u])
    /\ \A n \in SecretName : ~CanDeliver(secrets[n])
    /\ UNCHANGED vars

Next ==
    \/ WorkerStep \/ WatchStep \/ UserStep \/ SecretStep \/ TsidpStep \/ Restart
    \/ \E n \in SecretName : CollectGarbage(n)
    \/ Quiescent

Spec == Init /\ [][Next]_vars
=============================================================================
