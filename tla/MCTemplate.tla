----------------------------- MODULE MCTemplate -----------------------------
(* Instance of SecretTemplate: one label, one annotation and one data key    *)
(* besides the operator's own.                                               *)
EXTENDS SecretTemplate

CONSTANTS l1, a1, issuer, other, v1, v2

MCLabelKey == {ManagedKey, l1}
MCAnnotationKey == {RecordKey, a1}
MCDataKey == {issuer, other}
MCContentKey == {issuer}
MCValue == {ManagedValue, v1, v2}

Template1(lm, l, ar, a, c) ==
    [labels |-> [k \in LabelKey |-> IF k = l1 THEN l ELSE lm],
     annotations |-> [k \in AnnotationKey |-> IF k = a1 THEN a ELSE ar],
     content |-> c]

\* No template; a label; another value of it; an annotation; and one that
\* names what the operator writes itself.
MCWants == {Template1(Absent, Absent, Absent, Absent, v1),
            Template1(Absent, v1, Absent, Absent, v1),
            Template1(Absent, v2, Absent, v1, v2),
            Template1(Absent, Absent, Absent, v1, v1),
            Template1(v1, v1, v1, Absent, v1)}
=============================================================================
