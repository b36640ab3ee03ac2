--------------------------- MODULE SecretTemplate ---------------------------
(***************************************************************************)
(* The content of a credentials Secret: the labels and annotations that    *)
(* spec.secretTemplate asks for, the managed-by label, and the keys of the *)
(* data that describe the provider, written by CreateOrUpdate over a       *)
(* Secret whose metadata others write too.                                 *)
(*                                                                         *)
(* A map of the Kubernetes API is a function on all keys, with Absent for  *)
(* a key that the map does not have.  One annotation, RecordKey, holds the *)
(* keys that the last template named (templateKeysAnnotation, in JSON);    *)
(* any other value there does not parse, and counts as no keys.            *)
(***************************************************************************)
EXTENDS Naturals

CONSTANTS LabelKey, AnnotationKey, DataKey,
          ContentKey,    \* the keys that setSecretMetadata writes
          ManagedKey,    \* app.kubernetes.io/managed-by,
          ManagedValue,  \* and what ManagedSecretLabels says there
          RecordKey,     \* the annotation template-keys
          Value, Absent,
          Wants,         \* what specs ask for
          MaxEdits       \* bound: edits by users, of the spec and the Secret

Keys == [labels : SUBSET LabelKey, annotations : SUBSET AnnotationKey]
NoKeys == [labels |-> {}, annotations |-> {}]
Map(K) == [K -> Value \cup {Absent}]

ASSUME KeysAssumption ==
    /\ ManagedKey \in LabelKey /\ RecordKey \in AnnotationKey
    /\ ContentKey \subseteq DataKey
ASSUME ValuesAssumption == ManagedValue \in Value /\ Absent \notin Value \cup Keys
ASSUME WantsAssumption ==
    /\ Wants # {} /\ Absent \notin Wants
    /\ Wants \subseteq [labels : Map(LabelKey), annotations : Map(AnnotationKey),
                        content : Value]
ASSUME MaxEditsAssumption == MaxEdits \in Nat

VARIABLES want,   \* the spec: its template, and what describes the provider
          sec,    \* the stored Secret
          pass,   \* what the upsert under way has read, or Idle
          fresh,  \* it still has the stored resourceVersion
          edits,
          last,   \* history: the keys that the last stored template named
          ours    \* history: the keys whose present value the operator put

vars == <<want, sec, pass, fresh, edits, last, ours>>

-----------------------------------------------------------------------------
(* applySecretTemplate and the rest of what upsertSecret changes.          *)

Secret == [labels : Map(LabelKey),
           annotations : [AnnotationKey -> Value \cup {Absent} \cup Keys],
           data : Map(DataKey)]

Named(map) == {k \in DOMAIN map : map[k] # Absent}
NamedBy(t) == [labels |-> Named(t.labels), annotations |-> Named(t.annotations)]

Recorded(s) == IF s.annotations[RecordKey] \in Keys
               THEN s.annotations[RecordKey] ELSE NoKeys

\* A variant that never removes.
Accumulated(map, t, prev) ==
    [k \in DOMAIN map |-> IF t[k] # Absent THEN t[k] ELSE map[k]]

\* A variant that keeps nothing but the template.
Replaced(map, t, prev) == [k \in DOMAIN map |-> t[k]]

\* Keys of the previous template that this one has not are removed.
Overwritten(map, t, prev) ==
    [k \in DOMAIN map |-> IF t[k] # Absent THEN t[k]
                          ELSE IF k \in prev THEN Absent ELSE map[k]]

\* A variant that writes a record only for a template with labels.
RecordLabels(t) ==
    IF Named(t.labels) = {} THEN Absent ELSE NamedBy(t)

\* The record of the keys; none for an empty template.
Record(t) == IF NamedBy(t) = NoKeys THEN Absent ELSE NamedBy(t)

applySecretTemplate(s, t) ==
    LET prev == Recorded(s)
    IN [s EXCEPT !.labels = Overwritten(@, t.labels, prev.labels),
                 !.annotations = [Overwritten(@, t.annotations, prev.annotations)
                                  EXCEPT ![RecordKey] = Record(t)]]

Managed(s) == [s EXCEPT !.labels[ManagedKey] = ManagedValue]

\* A variant that starts the data afresh.
FreshData(s, content) == [s EXCEPT !.data = [k \in ContentKey |-> content]]

setSecretMetadata(s, content) ==
    [s EXCEPT !.data = [k \in DataKey |-> IF k \in ContentKey THEN content ELSE @[k]]]

\* A variant that does not refresh the data of a Secret it finds.
OnlyOnCreate(s, t) ==
    IF s.labels[ManagedKey] # Absent THEN Managed(applySecretTemplate(s, t))
    ELSE setSecretMetadata(Managed(applySecretTemplate(s, t)), t.content)

\* A variant that stamps the label before it applies the template.
StampedFirst(s, t) ==
    setSecretMetadata(applySecretTemplate(Managed(s), t), t.content)

\* The function that CreateOrUpdate calls on what it read.
Mutated(s, t) == setSecretMetadata(Managed(applySecretTemplate(s, t)), t.content)

-----------------------------------------------------------------------------
(* The operator, the users of the CR, and the others who write the Secret. *)

Idle == [want |-> Absent, read |-> Absent]
Busy == pass # Idle

\* No Secret at all: a stored one has the managed label.
NoSecret == [labels |-> [k \in LabelKey |-> Absent],
             annotations |-> [k \in AnnotationKey |-> Absent],
             data |-> [k \in DataKey |-> Absent]]
Exists == sec # NoSecret

Init ==
    /\ want \in Wants
    /\ sec = NoSecret
    /\ pass = Idle /\ fresh = FALSE
    /\ edits = 0
    /\ last = NoKeys /\ ours = NoKeys

Edit == edits < MaxEdits /\ edits' = edits + 1

EditTemplate == \E t \in Wants :
    /\ Edit /\ t # want
    /\ want' = t
    /\ UNCHANGED <<sec, pass, fresh, last, ours>>

\* Anybody sets or removes a key; the managed label and the record are left
\* to the operator.
EditLabel == \E k \in LabelKey \ {ManagedKey}, v \in Value \cup {Absent} :
    /\ Edit /\ Exists /\ sec.labels[k] # v
    /\ sec' = [sec EXCEPT !.labels[k] = v]
    /\ ours' = [ours EXCEPT !.labels = @ \ {k}]
    /\ fresh' = FALSE
    /\ UNCHANGED <<want, pass, last>>

EditAnnotation == \E k \in AnnotationKey \ {RecordKey}, v \in Value \cup {Absent} :
    /\ Edit /\ Exists /\ sec.annotations[k] # v
    /\ sec' = [sec EXCEPT !.annotations[k] = v]
    /\ ours' = [ours EXCEPT !.annotations = @ \ {k}]
    /\ fresh' = FALSE
    /\ UNCHANGED <<want, pass, last>>

EditData == \E k \in DataKey, v \in Value \cup {Absent} :
    /\ Edit /\ Exists /\ sec.data[k] # v
    /\ sec' = [sec EXCEPT !.data[k] = v]
    /\ fresh' = FALSE
    /\ UNCHANGED <<want, pass, last, ours>>

DeleteSecret ==
    /\ Edit /\ Exists
    /\ sec' = NoSecret
    /\ last' = NoKeys /\ ours' = NoKeys
    /\ fresh' = FALSE
    /\ UNCHANGED <<want, pass>>

\* A reconcile that reaches upsertSecret: its copies of the CR and of the
\* Secret.  A cached copy that is behind is one that is no longer fresh.
Read ==
    /\ ~Busy
    /\ pass' = [want |-> want, read |-> sec] /\ fresh' = TRUE
    /\ UNCHANGED <<want, sec, edits, last, ours>>

\* Create, or Update, which CreateOrUpdate leaves out when nothing changed.
\* What the operator put and did not remove is still the operator's.
Write ==
    LET t == NamedBy(pass.want)
    IN /\ Busy /\ fresh
       /\ sec' = Mutated(pass.read, pass.want)
       /\ last' = t
       /\ ours' = [labels |-> t.labels \cup
                       {k \in ours.labels : sec'.labels[k] # Absent},
                   annotations |-> t.annotations \cup
                       {k \in ours.annotations : sec'.annotations[k] # Absent}]
       /\ pass' = Idle /\ fresh' = FALSE
       /\ UNCHANGED <<want, edits>>

\* The update conflicts; the key is queued again.
Conflict ==
    /\ Busy /\ ~fresh
    /\ pass' = Idle
    /\ UNCHANGED <<want, sec, fresh, edits, last, ours>>

\* The operator stops in between.
Crash ==
    /\ Busy /\ Edit
    /\ pass' = Idle /\ fresh' = FALSE
    /\ UNCHANGED <<want, sec, last, ours>>

Next == \/ EditTemplate \/ EditLabel \/ EditAnnotation \/ EditData \/ DeleteSecret
        \/ Read \/ Write \/ Conflict \/ Crash

Spec == Init /\ [][Next]_vars

\* Every CR is reconciled again and again (resync, or an event).
FairSpec == Spec /\ WF_vars(Read \/ Write \/ Conflict)

-----------------------------------------------------------------------------
(* Type invariant: the values that Spec allows.                            *)
TypeOK ==
    /\ want \in Wants /\ sec \in Secret
    /\ pass \in {Idle} \cup [want : Wants, read : Secret]
    /\ fresh \in BOOLEAN /\ edits \in 0..MaxEdits
    /\ last \in Keys /\ ours \in Keys

Template == [labels |-> LabelKey \ {ManagedKey},
             annotations |-> AnnotationKey \ {RecordKey}]

\* Whatever the operator put on the Secret and nobody changed since is in the
\* record that it keeps there, so that a later pass, of another process, can
\* remove it (controller.go:508).
RecordCovers ==
    /\ ours.labels \cap Template.labels \subseteq Recorded(sec).labels
    /\ ours.annotations \cap Template.annotations \subseteq Recorded(sec).annotations

\* A write leaves nothing of an earlier template that its own does not name
\* ("template edits converge instead of accumulating", controller.go:507).
NothingLingers ==
    [][Write => LET t == NamedBy(pass.want)
                IN /\ ours'.labels \cap Template.labels \subseteq t.labels
                   /\ ours'.annotations \cap Template.annotations
                          \subseteq t.annotations]_vars

\* A write leaves alone what others keep on the Secret: every key that neither
\* its template nor the last stored one names, even when the template names a
\* key of the operator, or when the write before was lost.
ForeignKept ==
    [][Write => LET t == NamedBy(pass.want)
                IN /\ \A k \in Template.labels \ (last.labels \cup t.labels) :
                          sec'.labels[k] = sec.labels[k]
                   /\ \A k \in Template.annotations
                               \ (last.annotations \cup t.annotations) :
                          sec'.annotations[k] = sec.annotations[k]
                   /\ \A k \in DataKey \ ContentKey : sec'.data[k] = sec.data[k]]_vars

\* No template takes away the label that the Secret informer selects: a stored
\* Secret stays in the operator's cache (controller.go:490).
StaysVisible == Exists => sec.labels[ManagedKey] = ManagedValue

\* The passes come to an end that agrees with the spec: one more would write
\* nothing, so it causes no further event, and every key of the template and
\* of the provider's description has the value that the spec gives it.
ContentConverges ==
    <>[](/\ Exists /\ sec = Mutated(sec, want)
         /\ \A k \in Named(want.labels) \ {ManagedKey} : sec.labels[k] = want.labels[k]
         /\ \A k \in ContentKey : sec.data[k] = want.content)
=============================================================================
