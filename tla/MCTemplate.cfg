SPECIFICATION FairSpec

CONSTANTS
    ManagedKey = ManagedKey
    ManagedValue = ManagedValue
    RecordKey = RecordKey
    Absent = Absent
    l1 = l1
    a1 = a1
    issuer = issuer
    other = other
    v1 = v1
    v2 = v2
    LabelKey <- MCLabelKey
    AnnotationKey <- MCAnnotationKey
    DataKey <- MCDataKey
    ContentKey <- MCContentKey
    Value <- MCValue
    Wants <- MCWants
    MaxEdits = 4

INVARIANTS TypeOK RecordCovers StaysVisible
PROPERTIES NothingLingers ForeignKept ContentConverges
