------------------------- MODULE RedirectURIsProofs -------------------------
(***************************************************************************)
(* Theorems about names and redirect URIs, for any texts, specs and forms. *)
(***************************************************************************)
EXTENDS RedirectURIs, TLAPS

USE TextAssumption, SpecsAssumption, FormsAssumption, NoneAssumption,
    MaxEditsAssumption

-----------------------------------------------------------------------------
(* The normalization.                                                      *)

\* Trimming leaves a name, without padding, and a trimmed one as it is.
LEMMA TrimType ==
    /\ \A n \in Name : Trim(n) \in Name /\ Trim(n).pad = "none"
    /\ \A n \in Name : n.pad = "none" => Trim(n) = n
BY DEF Trim, Name, Pad

\* The same text with any padding is a string.
LEMMA PaddedType ==
    ASSUME NEW u \in String, NEW p \in Pad
    PROVE  [u EXCEPT !.pad = p] \in String /\ [u EXCEPT !.pad = p].pad = p
BY DEF String

\* How often the normalized list has a line.
LEMMA NormalizedValue ==
    ASSUME NEW uris \in URIs, NEW u \in String
    PROVE  Normalized(uris)[u] =
              IF u.pad # "none" \/ u.text = Blank THEN 0
              ELSE uris[u] + uris[[u EXCEPT !.pad = "before"]]
                           + uris[[u EXCEPT !.pad = "after"]]
BY DEF Normalized

\* A normalized list is a list.
LEMMA NormalizedType ==
    ASSUME NEW uris \in URIs
    PROVE  Normalized(uris) \in URIs
<1> SUFFICES ASSUME NEW u \in String PROVE Normalized(uris)[u] \in Nat
  BY DEF Normalized, URIs
<1>1. [u EXCEPT !.pad = "before"] \in String /\ [u EXCEPT !.pad = "after"] \in String
  BY DEF String, Pad
<1> QED BY <1>1, NormalizedValue DEF URIs

\* A list in which nothing is padded or blank is left as it is.
Plain(uris) == \A u \in Lines(uris) : u.pad = "none" /\ u.text # Blank

\* The normalization changes nothing in a plain list.
LEMMA NormalizedPlain ==
    ASSUME NEW uris \in URIs, Plain(uris)
    PROVE  Normalized(uris) = uris
<1> SUFFICES ASSUME NEW u \in String PROVE Normalized(uris)[u] = uris[u]
  BY NormalizedType DEF URIs
<1>1. ASSUME NEW v \in String, v.pad # "none" \/ v.text = Blank PROVE uris[v] = 0
  BY <1>1 DEF Plain, Lines, URIs
<1>2. CASE u.pad # "none" \/ u.text = Blank
  BY <1>1, <1>2, NormalizedValue
<1>3. CASE ~(u.pad # "none" \/ u.text = Blank)
  <2>1. uris[[u EXCEPT !.pad = "before"]] = 0
    BY <1>1, PaddedType DEF Pad
  <2>2. uris[[u EXCEPT !.pad = "after"]] = 0
    BY <1>1, PaddedType DEF Pad
  <2> QED BY <1>3, <2>1, <2>2, NormalizedValue DEF URIs
<1> QED BY <1>2, <1>3

\* What the normalization leaves is plain.
LEMMA NormalizedIsPlain ==
    ASSUME NEW uris \in URIs
    PROVE  Plain(Normalized(uris))
<1> SUFFICES ASSUME NEW u \in String, Normalized(uris)[u] > 0
             PROVE  u.pad = "none" /\ u.text # Blank
  BY DEF Plain, Lines
<1>1. u.pad # "none" \/ u.text = Blank => Normalized(uris)[u] = 0
  BY NormalizedValue
<1> QED BY <1>1

\* Normalizing twice is normalizing once: what /edit stored, it would store
\* again (fake.go:205).
THEOREM NormalizedIdempotent ==
    ASSUME NEW uris \in URIs
    PROVE  Normalized(Normalized(uris)) = Normalized(uris)
BY NormalizedIsPlain, NormalizedPlain, NormalizedType

\* What admission and the operator's check let through.
Clean(s) == Admitted(s.uris) /\ ~SpecInvalid(s.uris)

\* It is its own normalization and reaches tsidp unchanged: the reason why the
\* operator's check refuses white space of every kind (controller.go:209).
\* And /edit refuses it for the gap in the CRD's blocklist, no more and no
\* less (types.go:63): a scheme that only strings.ToLower recognizes.
THEOREM CleanRefused ==
    ASSUME NEW s \in Specs, Clean(s)
    PROVE  /\ Normalized(s.uris) = s.uris
           /\ FormRejected(s.uris) <=> Unmirrored(s.uris)
           /\ \A u \in Lines(s.uris) : editRejects(u) <=> u.text \in Dotted
<1>1. s.uris \in URIs /\ Lines(s.uris) # {}
  BY DEF Lines
<1>2. \A u \in Lines(s.uris) : /\ u.pad = "none"
                               /\ u.text \notin Refused \ Dotted
                               /\ u.text \notin NoColon
  BY DEF Clean, Admitted, SpecInvalid
<1>3. Plain(s.uris)
  BY <1>2 DEF Plain
<1>4. \A u \in Lines(s.uris) : editRejects(u) <=> u.text \in Dotted
  BY <1>2 DEF editRejects
<1> QED BY <1>1, <1>3, <1>4, NormalizedPlain DEF FormRejected, Unmirrored

\* The name sent to tsidp is trimmed already.
LEMMA RegisteredNameType ==
    ASSUME NEW s \in Specs
    PROVE  registeredName(s) \in Name /\ Trim(registeredName(s)) = registeredName(s)
<1>1. registeredName(s) \in Name /\ registeredName(s).pad = "none"
  BY DEF registeredName, Name, Pad, String
<1> QED BY <1>1, TrimType

\* /edit leaves a registration, or none.
LEMMA ServeEditType ==
    ASSUME NEW r \in {None} \cup [name : Name, uris : URIs],
           NEW n \in Name, NEW uris \in URIs
    PROVE  serveEdit(r, n, uris) \in {None} \cup [name : Name, uris : URIs]
BY TrimType, NormalizedType DEF serveEdit

\* What tsidp holds is as /edit would leave it, but for that gap.
Kept(r) ==
    r # None => /\ Plain(r.uris) /\ Lines(r.uris) # {}
                /\ \A u \in Lines(r.uris) : editRejects(u) => u.text \in Dotted

\* /edit stores only what it would store again.
LEMMA ServeEditKept ==
    ASSUME NEW r \in {None} \cup [name : Name, uris : URIs], Kept(r),
           NEW n \in Name, NEW uris \in URIs
    PROVE  Kept(serveEdit(r, n, uris))
BY NormalizedIsPlain DEF serveEdit, FormRejected, Kept

-----------------------------------------------------------------------------
(* The invariant.                                                          *)

Checked == {"post", "verify", "delete"}

\* A pass past the check holds a clean spec; unless somebody else was there,
\* it posts to a registration that exists, and reads back what it posted or
\* has a URI that /edit refuses.
PassInv ==
    /\ pass # Idle => Admitted(pass.spec.uris)
    /\ pass.at \in Checked => ~SpecInvalid(pass.spec.uris)
    /\ pass.at = "post" /\ ~moved => remote # None
    /\ pass.at = "verify" /\ ~moved =>
          /\ remote # None
          /\ \/ Unmirrored(pass.spec.uris)
             \/ Converged(remote, registeredName(pass.spec), pass.spec.uris)

IInv == /\ TypeOK /\ Admitted(spec.uris) /\ PassInv /\ Kept(remote)
        /\ ReadyIsStable /\ UpdateFailureIsExplained

\* Nothing is registered at first.
LEMMA InitIInv == Init => IInv
<1> SUFFICES ASSUME Init PROVE IInv
  OBVIOUS
<1>1. moved \in BOOLEAN
  BY DEF Init
<1>2. TypeOK
  BY <1>1 DEF Init, TypeOK, Idle, Reason
<1>3. PassInv
  BY DEF Init, PassInv, Idle, Checked
<1> QED BY <1>2, <1>3 DEF Init, IInv, Kept, ReadyIsStable, UpdateFailureIsExplained

\* What a pass has in hand.
LEMMA PassTypes ==
    ASSUME IInv
    PROVE  /\ pass.at \in {"look"} \cup Checked => pass # Idle /\ pass.spec \in Specs
           /\ pass.at \in Checked => Clean(pass.spec)
           /\ Idle.at = "idle"
BY DEF IInv, TypeOK, PassInv, Idle, Checked, Clean

\* A pass starts from a spec that was admitted.
LEMMA BeginIInv == IInv /\ Begin => IInv'
<1> SUFFICES ASSUME IInv, Begin PROVE IInv'
  OBVIOUS
<1>1. TypeOK'
  BY DEF IInv, TypeOK, Begin
<1>2. PassInv'
  BY DEF IInv, PassInv, Begin, Checked
<1> QED BY <1>1, <1>2 DEF IInv, Begin, Idle, Kept, ReadyIsStable,
                          UpdateFailureIsExplained, Rests

\* A pass that refuses its spec touches nothing.
LEMMA RefuseIInv == IInv /\ Refuse => IInv'
<1> SUFFICES ASSUME IInv, Refuse PROVE IInv'
  OBVIOUS
<1>1. TypeOK'
  BY PassTypes DEF IInv, TypeOK, Refuse, Ends, Reason
<1>2. PassInv'
  BY DEF PassInv, Refuse, Ends, Idle, Checked
<1> QED BY <1>1, <1>2 DEF IInv, Refuse, Ends, Kept, ReadyIsStable,
                          UpdateFailureIsExplained

\* What is registered is clean.
LEMMA RegisterIInv == IInv /\ Register => IInv'
<1> SUFFICES ASSUME IInv, Register PROVE IInv'
  OBVIOUS
<1> DEFINE s == pass.spec
<1>1. s \in Specs /\ Clean(s) /\ s.uris \in URIs
  BY PassTypes DEF Register, Looking, IInv, PassInv, Clean
<1>2. remote' = [name |-> registeredName(s), uris |-> s.uris]
  BY DEF Register
<1>3. remote' \in [name : Name, uris : URIs] /\ remote' # None
  BY <1>1, <1>2, RegisteredNameType
<1>4. moved' \in BOOLEAN
  BY DEF Register
<1>5. TypeOK'
  BY <1>1, <1>3, <1>4 DEF IInv, TypeOK, Register, Ends, Reason
<1>6. Kept(remote)'
  <2>1. Plain(s.uris) /\ \A u \in Lines(s.uris) : editRejects(u) => u.text \in Dotted
    BY <1>1, CleanRefused, NormalizedIsPlain
  <2>2. Lines(s.uris) # {}
    BY <1>1 DEF Lines
  <2> QED BY <1>2, <2>1, <2>2 DEF Kept
<1>7. ReadyIsStable' /\ UpdateFailureIsExplained'
  BY <1>2, <1>3 DEF Register, Ends, ReadyIsStable, Drift, UpdateFailureIsExplained
<1>8. PassInv'
  BY DEF PassInv, Register, Ends, Idle, Checked
<1> QED BY <1>5, <1>6, <1>7, <1>8 DEF IInv, Register

\* No drift is Ready; drift leads where the policy says.
LEMMA CompareIInv == IInv /\ Compare => IInv'
<1> SUFFICES ASSUME IInv, Compare PROVE IInv'
  OBVIOUS
<1>1. pass.spec \in Specs /\ Clean(pass.spec) /\ pass # Idle
  BY PassTypes DEF Compare, Looking, IInv, PassInv, Clean
<1>2. moved' \in BOOLEAN
  BY DEF Compare
<1>3. CASE ~Drift(pass.spec, remote) /\ Ends("Ready")
  <2>1. TypeOK'
    BY <1>1, <1>2, <1>3 DEF IInv, TypeOK, Compare, Ends, Reason
  <2>2. PassInv'
    BY <1>3 DEF PassInv, Ends, Idle, Checked
  <2> QED BY <1>3, <2>1, <2>2 DEF IInv, Compare, Looking, Ends, Kept, ReadyIsStable,
                                 UpdateFailureIsExplained, Drift, registeredName
<1>4. CASE Ends("DriftBlocked")
  <2>1. TypeOK'
    BY <1>1, <1>2, <1>4 DEF IInv, TypeOK, Compare, Ends, Reason
  <2>2. PassInv'
    BY <1>4 DEF PassInv, Ends, Idle, Checked
  <2> QED BY <1>4, <2>1, <2>2 DEF IInv, Compare, Ends, Kept, ReadyIsStable,
                                 UpdateFailureIsExplained
<1>5. CASE /\ pass' \in {[pass EXCEPT !.at = "post"], [pass EXCEPT !.at = "delete"]}
           /\ UNCHANGED done
  <2>1. pass' \in [at : {"post", "delete"}, spec : Specs] /\ pass'.spec = pass.spec
    BY <1>1, <1>5 DEF IInv, TypeOK
  <2>2. TypeOK'
    BY <1>2, <1>5, <2>1 DEF IInv, TypeOK, Compare
  <2>3. PassInv'
    BY <1>1, <2>1 DEF PassInv, Compare, Looking, Clean
  <2> QED BY <1>5, <2>1, <2>2, <2>3 DEF IInv, Compare, Kept, ReadyIsStable,
                                       UpdateFailureIsExplained, Rests
<1> QED BY <1>3, <1>4, <1>5 DEF Compare

\* A deletion ends the pass.
LEMMA DeleteIInv == IInv /\ Delete => IInv'
<1> SUFFICES ASSUME IInv, Delete PROVE IInv'
  OBVIOUS
<1>1. TypeOK'
  BY PassTypes DEF IInv, TypeOK, Delete, Ends, Reason, Checked
<1>2. PassInv'
  BY DEF PassInv, Delete, Ends, Idle, Checked
<1> QED BY <1>1, <1>2 DEF IInv, Delete, Ends, Kept, ReadyIsStable,
                          UpdateFailureIsExplained

\* The form, sent to a registration that is there unless somebody took it.
LEMMA PostIInv == IInv /\ Post => IInv'
<1> SUFFICES ASSUME IInv, Post PROVE IInv'
  OBVIOUS
<1> DEFINE s == pass.spec
           n == registeredName(s)
<1>1. s \in Specs /\ Clean(s) /\ s.uris \in URIs /\ n \in Name
  BY PassTypes, RegisteredNameType DEF Post, Checked
<1>2. remote' = serveEdit(remote, n, s.uris)
  BY DEF Post
<1>3. remote' \in {None} \cup [name : Name, uris : URIs] /\ Kept(remote)'
  <2>1. remote \in {None} \cup [name : Name, uris : URIs] /\ Kept(remote)
    BY DEF IInv, TypeOK
  <2>2. Kept(serveEdit(remote, n, s.uris))
    BY <1>1, <2>1, ServeEditKept
  <2> QED BY <1>1, <1>2, <2>1, <2>2, ServeEditType DEF Kept
<1>4. CASE remote = None
  <2>1. moved
    BY <1>4 DEF Post, IInv, PassInv
  <2>2. TypeOK'
    BY <1>1, <1>3, <1>4 DEF IInv, TypeOK, Post, Ends, Reason
  <2>3. PassInv'
    BY <1>4 DEF PassInv, Post, Ends, Idle, Checked
  <2> QED BY <1>3, <1>4, <2>1, <2>2, <2>3 DEF IInv, Post, Ends, ReadyIsStable,
                                             UpdateFailureIsExplained
<1>5. CASE remote # None
  <2>1. pass' = [pass EXCEPT !.at = "verify"] /\ UNCHANGED done
    BY <1>5 DEF Post
  <2>2. pass' \in [at : {"verify"}, spec : Specs] /\ pass'.spec = s
    BY <1>1, <2>1, PassTypes DEF IInv, TypeOK, Post, Checked
  <2>3. TypeOK'
    BY <1>3, <2>1, <2>2 DEF IInv, TypeOK, Post
  <2>4. remote' # None
        /\ (Unmirrored(s.uris) \/ Converged(remote', n, s.uris))
    <3>1. CASE FormRejected(Normalized(s.uris))
      <4>1. Unmirrored(s.uris)
        BY <1>1, <3>1, CleanRefused
      <4> QED BY <1>2, <1>5, <3>1, <4>1 DEF serveEdit
    <3>2. CASE ~FormRejected(Normalized(s.uris))
      <4>1. remote' = [name |-> Trim(n), uris |-> Normalized(s.uris)]
        BY <1>2, <1>5, <3>2 DEF serveEdit
      <4>2. remote' # None
        BY <1>1, <4>1, TrimType, NormalizedType
      <4> QED BY <4>1, <4>2 DEF Converged
    <3> QED BY <3>1, <3>2
  <2>5. PassInv'
    BY <1>1, <2>2, <2>4 DEF PassInv, Clean
  <2> QED BY <1>3, <2>1, <2>2, <2>3, <2>5 DEF IInv, Post, ReadyIsStable,
                                             UpdateFailureIsExplained, Rests
<1> QED BY <1>4, <1>5

\* The read-back agrees unless somebody was in between.
LEMMA VerifyIInv == IInv /\ Verify => IInv'
<1> SUFFICES ASSUME IInv, Verify PROVE IInv'
  OBVIOUS
<1> DEFINE s == pass.spec
<1>1. s \in Specs /\ Clean(s)
  BY PassTypes DEF Verify, Checked
<1>2. moved' \in BOOLEAN
  BY DEF Verify, IInv, TypeOK
<1>3. TypeOK'
  BY <1>1, <1>2 DEF IInv, TypeOK, Verify, Ends, Reason
<1>4. PassInv'
  BY DEF PassInv, Verify, Ends, Idle, Checked
<1>5. CASE Converged(remote, registeredName(s), s.uris) /\ Ends("Ready")
  <2>1. remote # None /\ ~Drift(s, remote)
    BY <1>1, <1>5, CleanRefused, RegisteredNameType DEF Converged, Drift
  <2>2. done'.spec = s /\ done'.reason = "Ready" /\ remote' = remote
    BY <1>5 DEF Ends, Verify
  <2>3. ReadyIsStable'
    BY <2>1, <2>2 DEF ReadyIsStable, Drift
  <2> QED BY <1>3, <1>4, <2>2, <2>3 DEF IInv, Verify, Kept, UpdateFailureIsExplained
<1>6. CASE /\ ~Converged(remote, registeredName(s), s.uris)
           /\ UNCHANGED moved /\ Ends("InPlaceUpdateFailed")
  <2>1. /\ done'.spec = s /\ done'.reason = "InPlaceUpdateFailed"
        /\ remote' = remote /\ moved' = moved
    BY <1>6 DEF Ends, Verify
  <2>2. ~moved => remote # None /\ Unmirrored(s.uris)
    BY <1>6 DEF IInv, PassInv, Verify
  <2>3. ~moved => Drift(s, remote)
    BY <1>1, <1>6, <2>2, CleanRefused, RegisteredNameType DEF Converged, Drift
  <2>4. UpdateFailureIsExplained'
    BY <2>1, <2>2, <2>3 DEF UpdateFailureIsExplained, Drift
  <2> QED BY <1>3, <1>4, <2>1, <2>4 DEF IInv, Verify, Kept, ReadyIsStable
<1> QED BY <1>5, <1>6 DEF Verify

\* An admin's form goes through /edit as well.
LEMMA AdminEditIInv == IInv /\ AdminEdit => IInv'
<1> SUFFICES ASSUME IInv, NEW f \in Forms, Edit, remote # None,
                    remote' = serveEdit(remote, f.name, f.uris),
                    moved' = TRUE, UNCHANGED <<spec, pass, done>>
             PROVE  IInv'
  BY DEF AdminEdit
<1>1. f.name \in Name /\ f.uris \in URIs
      /\ remote \in {None} \cup [name : Name, uris : URIs]
  BY DEF IInv, TypeOK
<1>2. moved' \in BOOLEAN
  OBVIOUS
<1>3. TypeOK'
  BY <1>1, <1>2, ServeEditType DEF IInv, TypeOK, Edit
<1>4. Kept(serveEdit(remote, f.name, f.uris))
  BY <1>1, ServeEditKept DEF IInv
<1> QED BY <1>3, <1>4 DEF IInv, PassInv, Kept, ReadyIsStable, UpdateFailureIsExplained

\* Every step of anybody keeps the invariant.
LEMMA NextIInv == IInv /\ [Next]_vars => IInv'
<1> SUFFICES ASSUME IInv, [Next]_vars PROVE IInv'
  OBVIOUS
<1>1. CASE Reconcile
  BY <1>1, BeginIInv, RefuseIInv, RegisterIInv, CompareIInv, DeleteIInv,
     PostIInv, VerifyIInv DEF Reconcile
<1>2. CASE EditSpec
  BY <1>2 DEF EditSpec, Edit, IInv, TypeOK, PassInv, Kept, ReadyIsStable, Rests,
              UpdateFailureIsExplained
<1>3. CASE AdminEdit
  BY <1>3, AdminEditIInv
<1>4. CASE LoseClient
  <2>1. moved' \in BOOLEAN
    BY <1>4 DEF LoseClient
  <2> QED BY <1>4, <2>1 DEF LoseClient, Edit, IInv, TypeOK, PassInv, Kept,
                            ReadyIsStable, UpdateFailureIsExplained
<1>5. CASE FailCall
  <2>1. moved' \in BOOLEAN
    BY <1>5 DEF FailCall
  <2>2. pass.spec \in Specs
    BY <1>5 DEF FailCall, IInv, TypeOK
  <2>3. TypeOK'
    BY <1>5, <2>1, <2>2 DEF FailCall, Edit, Ends, IInv, TypeOK, Reason
  <2>4. PassInv'
    BY <1>5 DEF FailCall, Ends, PassInv, Idle, Checked
  <2> QED BY <1>5, <2>3, <2>4 DEF FailCall, Ends, IInv, Kept, ReadyIsStable,
                                 UpdateFailureIsExplained
<1>6. CASE UNCHANGED vars
  BY <1>6 DEF vars, IInv, TypeOK, PassInv, Kept, ReadyIsStable, Rests,
              UpdateFailureIsExplained
<1> QED BY <1>1, <1>2, <1>3, <1>4, <1>5, <1>6 DEF Next

\* So it holds at all times.
LEMMA InductiveInv == Spec => []IInv
BY InitIInv, NextIInv, PTL DEF Spec

\* Spec, registration, pass and outcome keep their types, for any texts and
\* forms: no name or list that tsidp, the CRD or the operator makes of another
\* falls outside of what the next one is defined for.
THEOREM URIsTypeCorrect == Spec => []TypeOK
BY InductiveInv, PTL DEF IInv

\* A pass that reports Ready leaves nothing for the next one to correct.
THEOREM ReadyStable == Spec => []ReadyIsStable
BY InductiveInv, PTL DEF IInv

\* Of every registration, /edit would refuse only what came through the gap in
\* the CRD's blocklist, whatever texts, specs and forms there are.
THEOREM RefusalsUnmirrored == Spec => []RefusalsAreUnmirrored
<1>1. IInv => RefusalsAreUnmirrored
  BY NormalizedPlain DEF IInv, TypeOK, Kept, RefusalsAreUnmirrored
<1> QED BY <1>1, InductiveInv, PTL

\* An update in place fails through somebody or something else, or for a URI
\* in that gap, and then the client stays as it was.
THEOREM UpdateFailuresExplained == Spec => []UpdateFailureIsExplained
BY InductiveInv, PTL DEF IInv
=============================================================================
