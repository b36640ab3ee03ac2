---------------------------- MODULE RedirectURIs ----------------------------
(***************************************************************************)
(* The name and the redirect URIs of one client, on their way from the     *)
(* spec through /register or /edit into tsidp and back into a comparison.  *)
(* Admission (CRD), the operator, its tsidp client and tsidp each trim,    *)
(* check or compare them in their own way.                                 *)
(*                                                                         *)
(* A string is a text with white space before it, after it or not at all.  *)
(* The texts differ in what the checks look at: one may be empty, hold no  *)
(* colon, start with a scheme that tsidp refuses (in small letters, in     *)
(* capitals, or with an I that only one of two lowerings knows), or hold   *)
(* white space or control characters inside.  Redirect URIs are a          *)
(* multiset, a function to how often each occurs, since every comparison   *)
(* sorts its copies first.                                                 *)
(*                                                                         *)
(* The Secret, the status and adoption are OIDCClientController's subject: *)
(* a pass here knows by the registry alone whether it has a client.        *)
(***************************************************************************)
EXTENDS Naturals

CONSTANTS Text,
          Blank,      \* the empty text
          NoColon,
          Refused,    \* texts whose scheme, lowered by strings.ToLower, is
                      \* in the blocklist;
          Capital,    \* those of them that have it in ASCII capitals,
          Dotted,     \* and those that have U+0130 for an i: strings.ToLower
                      \* makes it an i, lowerAscii leaves it
          Unclean,    \* white space or control characters inside
          ObjectName, \* metadata.name
          Specs,      \* what users try to apply: [name, uris, policy]
          Forms,      \* what admins post to /edit: [name, uris]
          None,
          MaxEdits    \* bound: changes by others, and failed calls

Pad == {"none", "before", "after"}
String == [pad : Pad, text : Text]
Name == [pad : Pad, text : Text, marked : BOOLEAN]
URIs == [String -> Nat]

ASSUME TextAssumption ==
    /\ Blank \in NoColon /\ NoColon \subseteq Text
    /\ Capital \cup Dotted \subseteq Refused /\ Refused \subseteq Text
    /\ NoColon \cap Refused = {}
    /\ Unclean \subseteq Text
    /\ ObjectName \in Text \ {Blank}
ASSUME SpecsAssumption ==
    /\ Specs \subseteq [name : String, uris : URIs,
                        policy : {"Recreate", "InPlace", "Block"}]
    /\ \A s \in Specs : {u \in String : s.uris[u] > 0} # {}
ASSUME FormsAssumption == Forms \subseteq [name : Name, uris : URIs]
ASSUME NoneAssumption == None \notin Specs \cup [name : Name, uris : URIs]
ASSUME MaxEditsAssumption == MaxEdits \in Nat

VARIABLES spec,    \* what the API server holds
          remote,  \* the registration in tsidp, or None
          pass,    \* the reconcile under way: its step and its copy of the spec
          done,    \* how the last pass ended, and the spec that it had
          moved,   \* history: somebody else touched tsidp since the pass looked
          edits

vars == <<spec, remote, pass, done, moved, edits>>

-----------------------------------------------------------------------------
(* The normalizations and the checks.                                      *)

Trim(u) == [u EXCEPT !.pad = "none"]

\* TrimSpace each line and drop the blank ones.
Normalized(uris) ==
    [u \in String |->
        IF u.pad # "none" \/ u.text = Blank THEN 0
        ELSE uris[u] + uris[[u EXCEPT !.pad = "before"]]
                     + uris[[u EXCEPT !.pad = "after"]]]

Lines(uris) == {u \in String : uris[u] > 0}

\* A variant of the CRD's rule that compares without lowerAscii.
AdmittedAsWritten(uris) == \A u \in Lines(uris) :
    /\ u.pad # "before" => u.text \notin Refused \ (Capital \cup Dotted)
    /\ u.text \notin NoColon

\* The CRD's rules: no listed scheme at the start, after lowerAscii, and a
\* colon somewhere.
Admitted(uris) == \A u \in Lines(uris) :
    /\ u.pad # "before" => u.text \notin Refused \ Dotted
    /\ u.text \notin NoColon

\* A variant of the operator's check that looks inside the texts only.
InnerSpace(uris) == \E u \in Lines(uris) : u.text \in Unclean

\* White space or control characters anywhere in a URI.
SpecInvalid(uris) == \E u \in Lines(uris) : u.pad # "none" \/ u.text \in Unclean

\* A variant that takes the name as it is written.
Untrimmed(s) ==
    [pad |-> s.name.pad, marked |-> TRUE,
     text |-> IF s.name.text = Blank THEN ObjectName ELSE s.name.text]

\* A variant that leaves the fingerprint off.
Unmarked(s) ==
    [pad |-> "none",
     text |-> IF s.name.text = Blank THEN ObjectName ELSE s.name.text]

\* displayName, and the fingerprint after it.
registeredName(s) ==
    [pad |-> "none", marked |-> TRUE,
     text |-> IF s.name.text = Blank THEN ObjectName ELSE s.name.text]

Drift(s, r) == r.name # registeredName(s) \/ r.uris # s.uris

\* tsidp's /edit: the trimmed line, the form that it refuses, and what it
\* stores.
editRejects(u) == u.text \in Refused \cup NoColon
FormRejected(uris) == Lines(uris) = {} \/ \E u \in Lines(uris) : editRejects(u)

serveEdit(r, name, uris) ==
    IF r = None \/ FormRejected(Normalized(uris)) THEN r
    ELSE [name |-> Trim(name), uris |-> Normalized(uris)]

\* UpdateClient's comparison of the read-back.
Converged(r, name, uris) ==
    r # None /\ r.name = Trim(name) /\ r.uris = Normalized(uris)

-----------------------------------------------------------------------------
Idle == [at |-> "idle", spec |-> None]

Init ==
    /\ spec \in {s \in Specs : Admitted(s.uris)}
    /\ remote = None
    /\ pass = Idle
    /\ done = [reason |-> "none", spec |-> None]
    /\ moved = FALSE
    /\ edits = 0

Ends(reason) ==
    /\ pass' = Idle
    /\ done' = [reason |-> reason, spec |-> pass.spec]

\* The cached CR that a pass starts with.
Begin ==
    /\ pass = Idle
    /\ pass' = [at |-> "look", spec |-> spec]
    /\ UNCHANGED <<spec, remote, done, moved, edits>>

Refuse ==
    /\ pass.at = "look" /\ SpecInvalid(pass.spec.uris)
    /\ Ends("SpecInvalid")
    /\ UNCHANGED <<spec, remote, moved, edits>>

Looking == pass.at = "look" /\ ~SpecInvalid(pass.spec.uris)

\* /register stores what it is sent.
Register ==
    /\ Looking /\ remote = None
    /\ remote' = [name |-> registeredName(pass.spec), uris |-> pass.spec.uris]
    /\ moved' = FALSE
    /\ Ends("Ready")
    /\ UNCHANGED <<spec, edits>>

Compare ==
    /\ Looking /\ remote # None
    /\ moved' = FALSE
    /\ \/ /\ ~Drift(pass.spec, remote)
          /\ Ends("Ready")
       \/ /\ Drift(pass.spec, remote)
          /\ \/ /\ pass.spec.policy = "Block"
                /\ Ends("DriftBlocked")
             \/ /\ pass.spec.policy = "InPlace"
                /\ pass' = [pass EXCEPT !.at = "post"]
                /\ UNCHANGED done
             \/ /\ pass.spec.policy = "Recreate"
                /\ pass' = [pass EXCEPT !.at = "delete"]
                /\ UNCHANGED done
    /\ UNCHANGED <<spec, remote, edits>>

\* DeleteClient; the key is queued again, and the next pass registers.
Delete ==
    /\ pass.at = "delete"
    /\ remote' = None
    /\ Ends("Requeued")
    /\ UNCHANGED <<spec, moved, edits>>

\* UpdateClient: /edit, which answers 200 whether it took the form or not,
\* except for a client that is gone.
Post ==
    /\ pass.at = "post"
    /\ IF remote = None THEN Ends("InPlaceUpdateFailed")
       ELSE pass' = [pass EXCEPT !.at = "verify"] /\ UNCHANGED done
    /\ remote' = serveEdit(remote, registeredName(pass.spec), pass.spec.uris)
    /\ UNCHANGED <<spec, moved, edits>>

\* UpdateClient: read the client back and compare.
Verify ==
    /\ pass.at = "verify"
    /\ \/ /\ Converged(remote, registeredName(pass.spec), pass.spec.uris)
          /\ moved' = FALSE
          /\ Ends("Ready")
       \/ /\ ~Converged(remote, registeredName(pass.spec), pass.spec.uris)
          /\ UNCHANGED moved
          /\ Ends("InPlaceUpdateFailed")
    /\ UNCHANGED <<spec, remote, edits>>

-----------------------------------------------------------------------------
(* The others.                                                             *)

Edit == edits < MaxEdits /\ edits' = edits + 1

EditSpec == \E s \in Specs :
    /\ Edit /\ s # spec /\ Admitted(s.uris)
    /\ spec' = s
    /\ UNCHANGED <<remote, pass, done, moved>>

\* An admin uses the form of tsidp's UI.
AdminEdit == \E f \in Forms :
    /\ Edit /\ remote # None
    /\ remote' = serveEdit(remote, f.name, f.uris)
    /\ moved' = TRUE
    /\ UNCHANGED <<spec, pass, done>>

\* tsidp restarts without its volume, or an admin deletes the client.
LoseClient ==
    /\ Edit /\ remote # None
    /\ remote' = None
    /\ moved' = TRUE
    /\ UNCHANGED <<spec, pass, done>>

\* A call fails, or its answer is lost: what Post did stays done.
FailCall ==
    /\ Edit /\ pass # Idle
    /\ Ends(IF pass.at \in {"post", "verify"} THEN "InPlaceUpdateFailed"
            ELSE "TsidpUnreachable")
    /\ moved' = TRUE
    /\ UNCHANGED <<spec, remote>>

Reconcile == Begin \/ Refuse \/ Register \/ Compare \/ Delete \/ Post \/ Verify

Next == Reconcile \/ EditSpec \/ AdminEdit \/ LoseClient \/ FailCall

Spec == Init /\ [][Next]_vars

\* Every key is queued again, after errBackoff or the resync interval.
FairSpec == Spec /\ WF_vars(Reconcile)

-----------------------------------------------------------------------------
Reason == {"none", "Ready", "SpecInvalid", "DriftBlocked", "Requeued",
           "InPlaceUpdateFailed", "TsidpUnreachable"}

(* Type invariant: the values that Spec allows.                            *)
TypeOK ==
    /\ spec \in Specs
    /\ remote \in {None} \cup [name : Name, uris : URIs]
    /\ pass \in {Idle} \cup [at : {"look", "post", "verify", "delete"}, spec : Specs]
    /\ done \in [reason : Reason, spec : Specs \cup {None}]
    /\ moved \in BOOLEAN /\ edits \in 0..MaxEdits

\* What done says is of the last pass: the next one has not looked yet.
Rests == pass.at \in {"idle", "look"}

\* When a pass reports Ready, the next pass for the same spec finds no drift
\* unless somebody touched tsidp in between: no spec registers or updates for
\* ever because one side trims what the other compares (controller.go:217).
ReadyIsStable ==
    Rests /\ done.reason = "Ready" /\ ~moved => remote # None /\ ~Drift(done.spec, remote)

\* The CRD's copy of tsidp's blocklist has one gap, the I that only one of
\* the two lowerings knows.
Unmirrored(uris) == \E u \in Lines(uris) : u.text \in Dotted

\* Through that gap, and no other, comes what /edit would refuse later: every
\* other line of a registration passes its checks, so neither white space nor
\* capitals in front of a scheme, nor a form without lines, can wedge it
\* (types.go:63, controller.go:209).
RefusalsAreUnmirrored ==
    remote # None =>
        LET lines == Lines(Normalized(remote.uris))
        IN lines # {} /\ \A u \in lines : editRejects(u) => u.text \in Dotted

\* An update in place of an admitted spec fails only by a failed call, or
\* because somebody else was at the client in between, or for a URI in that
\* gap; and then the client is still there, as it was (controller.go:342).
UpdateFailureIsExplained ==
    Rests /\ done.reason = "InPlaceUpdateFailed" /\ ~moved =>
        /\ Unmirrored(done.spec.uris)
        /\ remote # None /\ Drift(done.spec, remote)

\* Once users, admins and faults are done, the passes end alike: in a
\* registration that agrees with the spec, or in the reason why there is none.
Settles ==
    <>[](/\ done.spec = spec
         /\ \/ done.reason = "Ready" /\ remote # None /\ ~Drift(spec, remote)
            \/ done.reason = "SpecInvalid" /\ SpecInvalid(spec.uris)
            \/ done.reason = "DriftBlocked" /\ spec.policy = "Block"
            \/ /\ done.reason = "InPlaceUpdateFailed"
               /\ spec.policy = "InPlace" /\ Unmirrored(spec.uris) /\ remote # None)

-----------------------------------------------------------------------------
(* What the documentation says and some behaviour of the code refutes.     *)

\* The CRD's blocklist "mirrors tsidp's own /edit validation exactly: anything
\* admitted here but rejected there would register fine and then permanently
\* wedge InPlace updates" (types.go:63): once failed calls and other hands are
\* done, no update in place fails for ever.
UpdatesDoNotWedge == []<>(done.reason # "InPlaceUpdateFailed")
=============================================================================
