------------------------ MODULE SecretTemplateProofs ------------------------
(***************************************************************************)
(* Theorems about the content of a credentials Secret, for any sets of     *)
(* keys and values, any templates and any number of edits.                 *)
(***************************************************************************)
EXTENDS SecretTemplate, TLAPS

USE KeysAssumption, ValuesAssumption, WantsAssumption, MaxEditsAssumption

-----------------------------------------------------------------------------
(* The operators.                                                          *)

\* The keys that a template names.
LEMMA NamedByType ==
    ASSUME NEW t \in Wants
    PROVE  NamedBy(t) \in Keys
BY DEF NamedBy, Named, Keys, Map

\* The keys that a Secret's record names.
LEMMA RecordedType ==
    ASSUME NEW s \in Secret
    PROVE  Recorded(s) \in Keys
BY DEF Recorded, NoKeys, Keys

\* The record of a template, or no record.
LEMMA RecordType ==
    ASSUME NEW t \in Wants
    PROVE  Record(t) \in Keys \cup {Absent}
BY NamedByType DEF Record

\* A template applied to a Secret leaves a Secret.
LEMMA ApplyType ==
    ASSUME NEW s \in Secret, NEW t \in Wants
    PROVE  applySecretTemplate(s, t) \in Secret
<1> DEFINE prev == Recorded(s)
           L == Overwritten(s.labels, t.labels, prev.labels)
           A == Overwritten(s.annotations, t.annotations, prev.annotations)
<1>1. L \in Map(LabelKey)
  BY DEF Overwritten, Map, Secret
<1>2. A \in [AnnotationKey -> Value \cup {Absent} \cup Keys]
  BY DEF Overwritten, Map, Secret
<1>3. [A EXCEPT ![RecordKey] = Record(t)] \in [AnnotationKey -> Value \cup {Absent} \cup Keys]
  BY <1>2, RecordType
<1> HIDE DEF L, A
<1>4. applySecretTemplate(s, t) =
        [s EXCEPT !.labels = L, !.annotations = [A EXCEPT ![RecordKey] = Record(t)]]
  BY DEF applySecretTemplate, L, A
<1> QED BY <1>1, <1>3, <1>4 DEF Secret

\* So does the whole mutation.
LEMMA MutatedType ==
    ASSUME NEW s \in Secret, NEW t \in Wants
    PROVE  Mutated(s, t) \in Secret
<1> DEFINE a == applySecretTemplate(s, t)
<1>1. a \in Secret
  BY ApplyType
<1> HIDE DEF a
<1>2. Managed(a) \in Secret
  BY <1>1 DEF Managed, Secret, Map
<1>3. t.content \in Value
  OBVIOUS
<1>4. setSecretMetadata(Managed(a), t.content) \in Secret
  BY <1>2, <1>3 DEF setSecretMetadata, Secret, Map
<1> QED BY <1>4 DEF Mutated, a

\* What a mutation leaves under each kind of key.
LEMMA MutatedLabels ==
    ASSUME NEW s \in Secret, NEW t \in Wants
    PROVE  /\ Mutated(s, t).labels[ManagedKey] = ManagedValue
           /\ \A k \in LabelKey \ {ManagedKey} :
                 Mutated(s, t).labels[k] =
                    IF t.labels[k] # Absent THEN t.labels[k]
                    ELSE IF k \in Recorded(s).labels THEN Absent ELSE s.labels[k]
<1>1. s.labels \in Map(LabelKey)
  BY DEF Secret
<1> QED BY <1>1 DEF Mutated, setSecretMetadata, Managed, applySecretTemplate,
                    Overwritten, Secret, Map

\* The same for annotations: the record is the template's own.
LEMMA MutatedAnnotations ==
    ASSUME NEW s \in Secret, NEW t \in Wants
    PROVE  /\ Mutated(s, t).annotations[RecordKey] = Record(t)
           /\ \A k \in AnnotationKey \ {RecordKey} :
                 Mutated(s, t).annotations[k] =
                    IF t.annotations[k] # Absent THEN t.annotations[k]
                    ELSE IF k \in Recorded(s).annotations THEN Absent
                    ELSE s.annotations[k]
BY DEF Mutated, setSecretMetadata, Managed, applySecretTemplate, Overwritten,
       Secret, Map

\* The operator's keys of the data are rewritten, the others are left.
LEMMA MutatedData ==
    ASSUME NEW s \in Secret, NEW t \in Wants, NEW k \in DataKey
    PROVE  Mutated(s, t).data[k] = IF k \in ContentKey THEN t.content ELSE s.data[k]
BY DEF Mutated, setSecretMetadata, Managed, applySecretTemplate, Secret

\* After a write the record names the keys of the template written.
LEMMA RecordedAfter ==
    ASSUME NEW s \in Secret, NEW t \in Wants
    PROVE  Recorded(Mutated(s, t)) = NamedBy(t)
BY MutatedAnnotations, NamedByType DEF Recorded, Record

\* Reconciling again writes nothing: what a mutation made is left as it is by
\* the same mutation, so the update event of a write is not followed by another
\* write (controller.go:478).
THEOREM MutatedIdempotent ==
    ASSUME NEW s \in Secret, NEW t \in Wants
    PROVE  Mutated(Mutated(s, t), t) = Mutated(s, t)
<1> DEFINE m == Mutated(s, t)
           n == Mutated(m, t)
<1>1. m \in Secret /\ n \in Secret
  BY MutatedType
<1>2. Recorded(m) = NamedBy(t)
  BY RecordedAfter
<1>3. \A k \in LabelKey : n.labels[k] = m.labels[k]
  <2>1. ASSUME NEW k \in LabelKey \ {ManagedKey}
        PROVE  n.labels[k] = m.labels[k]
    <3>1. t.labels[k] # Absent => m.labels[k] = t.labels[k]
      BY MutatedLabels
    <3>2. t.labels[k] = Absent => k \notin Recorded(m).labels
      BY <1>2 DEF NamedBy, Named
    <3> HIDE DEF m
    <3> QED BY <1>1, <3>1, <3>2, MutatedLabels
  <2>2. n.labels[ManagedKey] = m.labels[ManagedKey]
    BY <1>1, MutatedLabels
  <2> QED BY <2>1, <2>2
<1>4. \A k \in AnnotationKey : n.annotations[k] = m.annotations[k]
  <2>1. ASSUME NEW k \in AnnotationKey \ {RecordKey}
        PROVE  n.annotations[k] = m.annotations[k]
    <3>1. t.annotations[k] # Absent => m.annotations[k] = t.annotations[k]
      BY MutatedAnnotations
    <3>2. t.annotations[k] = Absent => k \notin Recorded(m).annotations
      BY <1>2 DEF NamedBy, Named
    <3> HIDE DEF m
    <3> QED BY <1>1, <3>1, <3>2, MutatedAnnotations
  <2>2. n.annotations[RecordKey] = m.annotations[RecordKey]
    BY <1>1, MutatedAnnotations
  <2> QED BY <2>1, <2>2
<1>5. \A k \in DataKey : n.data[k] = m.data[k]
  BY <1>1, MutatedData
<1> HIDE DEF m, n
<1>6. n.labels = m.labels /\ n.annotations = m.annotations /\ n.data = m.data
  BY <1>1, <1>3, <1>4, <1>5 DEF Secret, Map
<1>7. n = m
  BY <1>1, <1>6 DEF Secret
<1> QED BY <1>7 DEF m, n

-----------------------------------------------------------------------------
(* The invariant.  A pass that is fresh holds the stored Secret; the record *)
(* is that of the last stored template.                                     *)

ReadInv == fresh => Busy /\ pass.read = sec

RecordExact == Recorded(sec) = last

IInv == TypeOK /\ ReadInv /\ RecordExact /\ RecordCovers /\ StaysVisible

\* A Secret that does not exist has no record.
LEMMA NoSecretType == NoSecret \in Secret /\ Recorded(NoSecret) = NoKeys
BY DEF NoSecret, Secret, Map, Recorded, NoKeys, Keys

\* There is no Secret at first.
LEMMA InitIInv == Init => IInv
<1> SUFFICES ASSUME Init PROVE IInv
  OBVIOUS
<1> USE DEF Init
<1>0. fresh \in BOOLEAN
  OBVIOUS
<1>1. TypeOK
  BY <1>0, NoSecretType DEF TypeOK, Keys, NoKeys
<1>2. RecordExact /\ RecordCovers
  BY NoSecretType DEF RecordExact, RecordCovers, NoKeys
<1> QED BY <1>1, <1>2 DEF IInv, ReadInv, StaysVisible, Exists

\* What a write stores, from what it found.
LEMMA WriteEffect ==
    ASSUME IInv, Write
    PROVE  /\ pass.want \in Wants /\ sec \in Secret
           /\ sec' = Mutated(sec, pass.want)
           /\ Recorded(sec') = NamedBy(pass.want)
           /\ ours'.labels \cap Template.labels \subseteq NamedBy(pass.want).labels
           /\ ours'.annotations \cap Template.annotations
                 \subseteq NamedBy(pass.want).annotations
<1>1. pass.want \in Wants /\ sec \in Secret
  BY DEF IInv, TypeOK, Write, Busy
<1>2. sec' = Mutated(sec, pass.want)
  BY DEF IInv, ReadInv, Write
<1>3. Recorded(sec') = NamedBy(pass.want)
  BY <1>1, <1>2, RecordedAfter
<1>4. ASSUME NEW k \in ours'.labels \cap Template.labels
      PROVE  k \in NamedBy(pass.want).labels
  <2>1. k \in LabelKey \ {ManagedKey}
    BY DEF Template
  <2>2. CASE k \in ours.labels /\ sec'.labels[k] # Absent
    <3>1. k \in Recorded(sec).labels
      BY <1>4, <2>2 DEF IInv, RecordCovers
    <3>2. pass.want.labels[k] # Absent
      BY <1>1, <1>2, <2>1, <2>2, <3>1, MutatedLabels
    <3> QED BY <1>1, <2>1, <3>2 DEF NamedBy, Named, Map
  <2> QED BY <2>2, <1>4 DEF Write
<1>5. ASSUME NEW k \in ours'.annotations \cap Template.annotations
      PROVE  k \in NamedBy(pass.want).annotations
  <2>1. k \in AnnotationKey \ {RecordKey}
    BY DEF Template
  <2>2. CASE k \in ours.annotations /\ sec'.annotations[k] # Absent
    <3>1. k \in Recorded(sec).annotations
      BY <1>5, <2>2 DEF IInv, RecordCovers
    <3>2. pass.want.annotations[k] # Absent
      BY <1>1, <1>2, <2>1, <2>2, <3>1, MutatedAnnotations
    <3> QED BY <1>1, <2>1, <3>2 DEF NamedBy, Named, Map
  <2> QED BY <2>2, <1>5 DEF Write
<1> QED BY <1>1, <1>2, <1>3, <1>4, <1>5

\* A write, accepted or refused.
LEMMA WriteIInv == IInv /\ Write => IInv'
<1> SUFFICES ASSUME IInv, Write PROVE IInv'
  OBVIOUS
<1> DEFINE t == NamedBy(pass.want)
<1>1. sec' \in Secret
  BY WriteEffect, MutatedType
<1>2. t \in Keys
  BY WriteEffect, NamedByType
<1>3. ours' \in Keys
  BY <1>2 DEF Write, IInv, TypeOK, Keys
<1>4. TypeOK'
  BY <1>1, <1>2, <1>3 DEF Write, IInv, TypeOK
<1>5. ReadInv' /\ RecordExact'
  BY WriteEffect DEF Write, ReadInv, RecordExact
<1>6. RecordCovers'
  BY WriteEffect DEF RecordCovers, Template
<1>7. StaysVisible'
  BY WriteEffect, MutatedLabels DEF StaysVisible
<1> QED BY <1>4, <1>5, <1>6, <1>7 DEF IInv

\* Somebody sets or removes a label.
LEMMA EditLabelIInv == IInv /\ EditLabel => IInv'
<1> SUFFICES ASSUME IInv,
                    NEW k \in LabelKey \ {ManagedKey}, NEW v \in Value \cup {Absent},
                    Edit, Exists,
                    sec' = [sec EXCEPT !.labels[k] = v],
                    ours' = [ours EXCEPT !.labels = @ \ {k}],
                    fresh' = FALSE, UNCHANGED <<want, pass, last>>
             PROVE  IInv'
  BY DEF EditLabel
<1>1. sec \in Secret /\ sec' \in Secret
  BY DEF IInv, TypeOK, Secret, Map
<1>0. fresh' \in BOOLEAN
  OBVIOUS
<1>2. TypeOK'
  BY <1>0, <1>1 DEF IInv, TypeOK, Edit, Keys
<1>3. sec'.annotations = sec.annotations /\ sec'.labels[ManagedKey] = sec.labels[ManagedKey]
  BY <1>1 DEF Secret, Map
<1>4. Recorded(sec') = Recorded(sec)
  BY <1>3 DEF Recorded
<1>5. ours'.labels \subseteq ours.labels /\ ours'.annotations = ours.annotations
  BY DEF IInv, TypeOK, Keys
<1>6. RecordExact' /\ RecordCovers' /\ ReadInv'
  BY <1>4, <1>5 DEF IInv, RecordExact, RecordCovers, ReadInv, Template
<1>7. StaysVisible'
  BY <1>3 DEF IInv, StaysVisible
<1> QED BY <1>2, <1>6, <1>7 DEF IInv

\* Somebody sets or removes an annotation.
LEMMA EditAnnotationIInv == IInv /\ EditAnnotation => IInv'
<1> SUFFICES ASSUME IInv,
                    NEW k \in AnnotationKey \ {RecordKey}, NEW v \in Value \cup {Absent},
                    Edit, Exists,
                    sec' = [sec EXCEPT !.annotations[k] = v],
                    ours' = [ours EXCEPT !.annotations = @ \ {k}],
                    fresh' = FALSE, UNCHANGED <<want, pass, last>>
             PROVE  IInv'
  BY DEF EditAnnotation
<1>1. sec \in Secret /\ sec' \in Secret
  BY DEF IInv, TypeOK, Secret, Map
<1>0. fresh' \in BOOLEAN
  OBVIOUS
<1>2. TypeOK'
  BY <1>0, <1>1 DEF IInv, TypeOK, Edit, Keys
<1>3. sec'.annotations[RecordKey] = sec.annotations[RecordKey] /\ sec'.labels = sec.labels
  BY <1>1 DEF Secret, Map
<1>4. Recorded(sec') = Recorded(sec)
  BY <1>3 DEF Recorded
<1>5. ours'.annotations \subseteq ours.annotations /\ ours'.labels = ours.labels
  BY DEF IInv, TypeOK, Keys
<1>6. RecordExact' /\ RecordCovers' /\ ReadInv'
  BY <1>4, <1>5 DEF IInv, RecordExact, RecordCovers, ReadInv, Template
<1>7. StaysVisible'
  BY <1>3 DEF IInv, StaysVisible
<1> QED BY <1>2, <1>6, <1>7 DEF IInv

\* Somebody sets or removes a key of the data.
LEMMA EditDataIInv == IInv /\ EditData => IInv'
<1> SUFFICES ASSUME IInv,
                    NEW k \in DataKey, NEW v \in Value \cup {Absent},
                    Edit, Exists,
                    sec' = [sec EXCEPT !.data[k] = v],
                    fresh' = FALSE, UNCHANGED <<want, pass, last, ours>>
             PROVE  IInv'
  BY DEF EditData
<1>1. sec \in Secret /\ sec' \in Secret
  BY DEF IInv, TypeOK, Secret, Map
<1>0. fresh' \in BOOLEAN
  OBVIOUS
<1>2. TypeOK'
  BY <1>0, <1>1 DEF IInv, TypeOK, Edit
<1>3. sec'.annotations = sec.annotations /\ sec'.labels = sec.labels
  BY <1>1 DEF Secret
<1>4. Recorded(sec') = Recorded(sec)
  BY <1>3 DEF Recorded
<1> QED BY <1>2, <1>3, <1>4 DEF IInv, RecordExact, RecordCovers, ReadInv,
                                StaysVisible, Template

\* Somebody deletes the Secret.
LEMMA DeleteSecretIInv == IInv /\ DeleteSecret => IInv'
<1> SUFFICES ASSUME IInv, DeleteSecret PROVE IInv'
  OBVIOUS
<1>0. fresh' \in BOOLEAN
  BY DEF DeleteSecret
<1>1. TypeOK'
  BY <1>0, NoSecretType DEF DeleteSecret, IInv, TypeOK, Edit, Keys, NoKeys
<1>2. RecordExact' /\ RecordCovers'
  BY NoSecretType DEF DeleteSecret, RecordExact, RecordCovers, NoKeys
<1> QED BY <1>1, <1>2 DEF IInv, DeleteSecret, ReadInv, StaysVisible, Exists

\* Every step of anybody keeps the invariant.
LEMMA NextIInv == IInv /\ [Next]_vars => IInv'
<1> SUFFICES ASSUME IInv, [Next]_vars PROVE IInv'
  OBVIOUS
<1>1. CASE EditTemplate
  BY <1>1 DEF EditTemplate, Edit, IInv, TypeOK, ReadInv, Busy, RecordExact,
              RecordCovers, StaysVisible, Exists
<1>2. CASE EditLabel
  BY <1>2, EditLabelIInv
<1>3. CASE EditAnnotation
  BY <1>3, EditAnnotationIInv
<1>4. CASE EditData
  BY <1>4, EditDataIInv
<1>5. CASE DeleteSecret
  BY <1>5, DeleteSecretIInv
<1>6. CASE Read
  <2>1. pass' # Idle
    BY <1>6 DEF Read, Idle, IInv, TypeOK
  <2> QED BY <1>6, <2>1 DEF Read, IInv, TypeOK, ReadInv, Busy, RecordExact,
                           RecordCovers, StaysVisible, Exists
<1>7. CASE Write
  BY <1>7, WriteIInv
<1>8. CASE Conflict
  BY <1>8 DEF Conflict, IInv, TypeOK, ReadInv, RecordExact, RecordCovers,
              StaysVisible, Exists
<1>9. CASE Crash
  <2>1. fresh' \in BOOLEAN
    BY <1>9 DEF Crash
  <2> QED BY <1>9, <2>1 DEF Crash, Edit, IInv, TypeOK, ReadInv, RecordExact,
                           RecordCovers, StaysVisible, Exists
<1>10. CASE UNCHANGED vars
  BY <1>10 DEF vars, IInv, TypeOK, ReadInv, Busy, RecordExact, RecordCovers,
               StaysVisible, Exists
<1> QED BY <1>1, <1>2, <1>3, <1>4, <1>5, <1>6, <1>7, <1>8, <1>9, <1>10 DEF Next

\* So it holds at all times.
LEMMA InductiveInv == Spec => []IInv
BY InitIInv, NextIInv, PTL DEF Spec

\* The variables keep their types.
THEOREM TemplateTypeCorrect == Spec => []TypeOK
BY InductiveInv, PTL DEF IInv

\* The record on the Secret names everything that the operator put there and
\* nobody changed since, whatever passes were lost in between.
THEOREM TemplateRecordCovers == Spec => []RecordCovers
BY InductiveInv, PTL DEF IInv

\* A stored Secret always has the label that the informer selects.
THEOREM TemplateStaysVisible == Spec => []StaysVisible
BY InductiveInv, PTL DEF IInv

\* No write leaves a key of an earlier template that its own does not name.
THEOREM TemplateNothingLingers == Spec => NothingLingers
<1>1. IInv /\ [Next]_vars =>
        [Write => LET t == NamedBy(pass.want)
                  IN /\ ours'.labels \cap Template.labels \subseteq t.labels
                     /\ ours'.annotations \cap Template.annotations
                            \subseteq t.annotations]_vars
  BY WriteEffect
<1> QED BY <1>1, InductiveInv, PTL DEF Spec, NothingLingers

\* No write touches a key that neither the last stored template nor its own
\* names, nor data other than the provider's description.
THEOREM TemplateForeignKept == Spec => ForeignKept
<1> DEFINE Kept == LET t == NamedBy(pass.want)
                   IN /\ \A k \in Template.labels \ (last.labels \cup t.labels) :
                            sec'.labels[k] = sec.labels[k]
                      /\ \A k \in Template.annotations
                                  \ (last.annotations \cup t.annotations) :
                            sec'.annotations[k] = sec.annotations[k]
                      /\ \A k \in DataKey \ ContentKey : sec'.data[k] = sec.data[k]
<1>1. ASSUME IInv, Write PROVE Kept
  <2> DEFINE t == NamedBy(pass.want)
  <2>1. Recorded(sec) = last
    BY <1>1 DEF IInv, RecordExact
  <2>2. pass.want \in Wants /\ sec \in Secret /\ sec' = Mutated(sec, pass.want)
    BY <1>1, WriteEffect
  <2>3. ASSUME NEW k \in Template.labels \ (last.labels \cup t.labels)
        PROVE  sec'.labels[k] = sec.labels[k]
    BY <2>1, <2>2, MutatedLabels DEF Template, NamedBy, Named, Map
  <2>4. ASSUME NEW k \in Template.annotations \ (last.annotations \cup t.annotations)
        PROVE  sec'.annotations[k] = sec.annotations[k]
    BY <2>1, <2>2, MutatedAnnotations DEF Template, NamedBy, Named, Map
  <2>5. ASSUME NEW k \in DataKey \ ContentKey PROVE sec'.data[k] = sec.data[k]
    BY <2>2, MutatedData
  <2> QED BY <2>3, <2>4, <2>5
<1>2. IInv /\ [Next]_vars => [Write => Kept]_vars
  BY <1>1
<1> QED BY <1>2, InductiveInv, PTL DEF Spec, ForeignKept
=============================================================================
