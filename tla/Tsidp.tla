-------------------------------- MODULE Tsidp --------------------------------
(***************************************************************************)
(* tsidp's client registry, as internal/tsidp/client.go calls it and       *)
(* internal/tsidp/tsidpfake reproduces it.  A registration is              *)
(*   id  - the client_id (0 is no registration: the empty string in Go);   *)
(*   fp  - the CR whose fingerprint its client_name carries, or None;      *)
(*   by  - the CR it was registered for, or None (history: no code reads   *)
(*         it);                                                            *)
(*   cfg - the rest of what tsidp's read API shows: the display name and   *)
(*         the redirect URIs.                                              *)
(* The client_secret is returned by /register only; whoever holds "the     *)
(* credentials of id" holds that secret.                                   *)
(***************************************************************************)
EXTENDS Naturals

CONSTANTS CR,            \* OIDCClient objects, by UID
          Config,        \* display names and redirect URIs a spec can ask for
          EditRejected,  \* those that /register takes and /edit refuses
          None

ASSUME NoneAssumption == None \notin CR \cup Config
ASSUME EditRejectedAssumption == EditRejected \subseteq Config

Registration == [id : Nat \ {0}, fp : CR \cup {None}, by : CR \cup {None},
                 cfg : Config]

\* A request, as far as its effect goes: the CR it is made for, the id it is
\* about (0 in a registration) and the config it brings.
Request == [op : {"register", "delete", "edit"}, id : Nat, fp : CR, cfg : Config]

Live(clients, id) == \E c \in clients : c.id = id

\* POST /register: a fresh id, the name carrying the fingerprint of u.
Registered(clients, id, u, cfg) ==
    clients \cup {[id |-> id, fp |-> u, by |-> u, cfg |-> cfg]}

\* DELETE /clients/{id}: 204 and 404 leave the same registry.
Without(clients, id) == {c \in clients : c.id # id}

\* Variants without the filter, and without the listing.
FingerprintedAll(clients, u) == clients
FingerprintedNone(clients, u) == {}

\* GET /clients/ filtered by strings.Contains(client_name, fingerprint).
Fingerprinted(clients, u) == {c \in clients : c.fp = u}

\* GET /clients/{id} compared with the name and URIs that u asks for.
Matches(clients, id, u, cfg) ==
    \E c \in clients : c.id = id /\ c.fp = u /\ c.cfg = cfg

\* The registry after name and URIs of id were replaced.
Renamed(clients, id, u, cfg) ==
    {IF c.id = id THEN [c EXCEPT !.fp = u, !.cfg = cfg] ELSE c : c \in clients}

\* POST /edit/{id}: a refused form is answered with HTTP 200 and no change.
Edited(clients, id, u, cfg) ==
    IF cfg \in EditRejected THEN clients ELSE Renamed(clients, id, u, cfg)
==============================================================================
