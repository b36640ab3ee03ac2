--------------------------- MODULE MCRedirectURIs ---------------------------
(* Instance of RedirectURIs: one text of each kind that a check tells apart. *)
EXTENDS RedirectURIs

CONSTANTS ok1, ok2,     \* accepted everywhere
          gap,          \* a colon, and white space inside
          file, FILE,   \* a refused scheme, in small letters, in capitals
          dotted,       \* and with U+0130 for the i
          bare          \* no colon

MCText == {Blank, ok1, ok2, gap, file, FILE, dotted, bare}
MCNoColon == {Blank, bare}
MCRefused == {file, FILE, dotted}
MCCapital == {FILE}
MCDotted == {dotted}
MCUnclean == {gap}

Str(pad, text) == [pad |-> pad, text |-> text]
List(a, b) == [u \in String |-> (IF u = a THEN 1 ELSE 0) + (IF u = b THEN 1 ELSE 0)]
One(a) == [u \in String |-> IF u = a THEN 1 ELSE 0]

MCURIs == {One(Str("none", ok1)), One(Str("before", ok1)), One(Str("none", gap)),
           One(Str("none", FILE)), One(Str("after", file)), One(Str("before", file)),
           One(Str("none", bare)), One(Str("before", Blank)),
           List(Str("none", ok1), Str("none", ok2)),
           List(Str("none", ok1), Str("none", dotted)),
           List(Str("none", ok2), Str("none", ok2))}

\* Every list under every policy, and a name with white space before it.
Policies == {"Recreate", "InPlace", "Block"}
MCSpecs ==
    [name : {Str("none", Blank)}, uris : MCURIs, policy : Policies]
    \cup [name : {Str("before", ok2)}, uris : {One(Str("none", ok1))}, policy : Policies]

\* An admin's form that tsidp normalizes, one with the operator's name in it,
\* and one that tsidp refuses.
MCForms ==
    {[name |-> [pad |-> "before", text |-> ok2, marked |-> FALSE],
      uris |-> One(Str("before", ok1))],
     [name |-> [pad |-> "none", text |-> ObjectName, marked |-> TRUE],
      uris |-> List(Str("none", ok2), Str("after", ok2))],
     [name |-> [pad |-> "none", text |-> ok2, marked |-> TRUE],
      uris |-> List(Str("none", gap), Str("before", Blank))],
     [name |-> [pad |-> "none", text |-> ok2, marked |-> TRUE],
      uris |-> One(Str("after", FILE))]}
=============================================================================
