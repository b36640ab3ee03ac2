-------------------------- MODULE CredentialLedger --------------------------
(***************************************************************************)
(* What the operator promises about the credentials of its CRs, without    *)
(* saying how: no calls, no caches, no steps of a reconcile.  A CR has at  *)
(* most one registration at a time.  Its credentials come into the CR's    *)
(* Secrets while it exists, its id into the status only after them; the    *)
(* status drops the id only after the registration is gone, and a CR that  *)
(* leaves takes its registration along unless it asked to leave it.        *)
(* Each part changes in a step of its own, so that whatever a crash finds  *)
(* is one of these states.                                                 *)
(***************************************************************************)
EXTENDS Naturals

CONSTANTS CR,
          Id   \* client_ids, other than 0

VARIABLES live,       \* the registrations of a CR, by id
          published,  \* the ids whose credentials its Secrets hold
          recorded,   \* the id in its status, or 0
          inHand,     \* the id whose secret a pass of it was told, or 0
          known,      \* the id that a pass takes for the CR's, or 0
          orphaning,  \* its deletion policy is to leave the registration
          left        \* it is gone

vars == <<live, published, recorded, inHand, known, orphaning, left>>

Init ==
    /\ live = [u \in CR |-> {}]
    /\ published = [u \in CR |-> {}]
    /\ recorded = [u \in CR |-> 0]
    /\ inHand = [u \in CR |-> 0]
    /\ known = [u \in CR |-> 0]
    /\ orphaning \in [CR -> BOOLEAN]
    /\ left = [u \in CR |-> FALSE]

\* An id means nothing else while anything mentions it.
Unused(id) == \A v \in CR :
    id \notin live[v] \cup published[v] \cup {recorded[v], inHand[v], known[v]}

\* A registration, when the CR has none.  Its secret is told once, or lost.
Issue(u, id) ==
    /\ live[u] = {} /\ ~left[u] /\ Unused(id)
    /\ live' = [live EXCEPT ![u] = {id}]
    /\ inHand' \in {inHand, [inHand EXCEPT ![u] = id]}
    /\ UNCHANGED <<published, recorded, known, orphaning, left>>

\* The credentials in hand into a Secret, in place of those that it held.
Publish(u) ==
    /\ inHand[u] # 0
    /\ \E kept \in SUBSET published[u] :
         published' = [published EXCEPT ![u] = kept \cup {inHand[u]}]
    /\ inHand' = [inHand EXCEPT ![u] = 0]
    /\ known' \in {known, [known EXCEPT ![u] = inHand[u]]}
    /\ UNCHANGED <<live, recorded, orphaning, left>>

\* A pass finds the id in the status or in a Secret.
Look(u) ==
    /\ \E id \in published[u] \cup {recorded[u]} :
         known' = [known EXCEPT ![u] = id]
    /\ UNCHANGED <<live, published, recorded, inHand, orphaning, left>>

\* A pass ends, or gives up an id; a secret in hand is lost.
Drop(u) ==
    /\ inHand' = [inHand EXCEPT ![u] = 0]
    /\ known' = [known EXCEPT ![u] = 0]
    /\ UNCHANGED <<live, published, recorded, orphaning, left>>

\* A Secret goes, or loses the credentials.
Withdraw(u) ==
    /\ \E kept \in SUBSET published[u] :
         published' = [published EXCEPT ![u] = kept]
    /\ UNCHANGED <<live, recorded, inHand, known, orphaning, left>>

\* The id into the status: one that the pass has seen published.
Record(u) ==
    /\ recorded[u] = 0 /\ known[u] # 0 /\ ~left[u]
    /\ recorded' = [recorded EXCEPT ![u] = known[u]]
    /\ known' = [known EXCEPT ![u] = 0]
    /\ UNCHANGED <<live, published, inHand, orphaning, left>>

Revoke(u) ==
    /\ live' = [live EXCEPT ![u] = {}]
    /\ known' \in {known, [known EXCEPT ![u] = 0]}
    /\ UNCHANGED <<published, recorded, inHand, orphaning, left>>

\* tsidp loses its state: every registration is gone.
Lose ==
    /\ live' = [u \in CR |-> {}]
    /\ UNCHANGED <<published, recorded, inHand, known, orphaning, left>>

\* The id out of the status: of a registration that is no more.
Forget(u) ==
    /\ recorded[u] \notin live[u]
    /\ recorded' = [recorded EXCEPT ![u] = 0]
    /\ UNCHANGED <<live, published, inHand, known, orphaning, left>>

ChangePolicy(u) ==
    /\ ~left[u]
    /\ orphaning' = [orphaning EXCEPT ![u] = ~@]
    /\ UNCHANGED <<live, published, recorded, inHand, known, left>>

Leave(u) ==
    /\ ~left[u] /\ (orphaning[u] \/ live[u] = {})
    /\ left' = [left EXCEPT ![u] = TRUE]
    /\ recorded' = [recorded EXCEPT ![u] = 0]
    /\ known' = [known EXCEPT ![u] = 0]
    /\ UNCHANGED <<live, published, inHand, orphaning>>

Next ==
    \/ Lose
    \/ \E u \in CR :
         \/ \E id \in Id : Issue(u, id)
         \/ Publish(u) \/ Look(u) \/ Drop(u) \/ Withdraw(u) \/ Record(u)
         \/ Revoke(u) \/ Forget(u) \/ ChangePolicy(u) \/ Leave(u)

Spec == Init /\ [][Next]_vars
=============================================================================
