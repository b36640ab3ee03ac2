SPECIFICATION FairSpec

CONSTANTS
    Blank = Blank
    ok1 = ok1
    ok2 = ok2
    gap = gap
    file = file
    FILE = FILE
    dotted = dotted
    bare = bare
    None = None
    ObjectName = ok1
    Text <- MCText
    NoColon <- MCNoColon
    Refused <- MCRefused
    Capital <- MCCapital
    Dotted <- MCDotted
    Unclean <- MCUnclean
    Specs <- MCSpecs
    Forms <- MCForms
    MaxEdits = 3

INVARIANTS TypeOK ReadyIsStable RefusalsAreUnmirrored UpdateFailureIsExplained
PROPERTIES Settles
