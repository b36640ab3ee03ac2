------------------------------ MODULE Informer ------------------------------
(***************************************************************************)
(* The API server's copy of one object and the informer cache's copy of    *)
(* it, as the operator sees them.  The object is its history: the version  *)
(* the cache holds, followed by the versions the watch has not delivered   *)
(* yet; the last one is what the API server stores.  Get through the       *)
(* manager's client reads the first version, Get through APIReader the     *)
(* last; a write carries the version it was computed from and is refused   *)
(* unless that is the last one.                                            *)
(***************************************************************************)
EXTENDS Naturals, Sequences

CONSTANT MaxLag     \* bound: undelivered versions of one object

ASSUME MaxLagAssumption == MaxLag \in Nat \ {0}

Cached(h) == Head(h)
Stored(h) == h[Len(h)]
Synced(h) == Len(h) = 1

CanWrite(h) == Len(h) <= MaxLag
Push(h, v)  == Append(h, v)

CanDeliver(h) == Len(h) > 1
DeliverNext(h) == Tail(h)

\* A new process lists before it watches: it starts from what is stored.
Relist(h) == <<Stored(h)>>

Histories(V) == {h \in Seq(V) : Len(h) > 0}
=============================================================================
