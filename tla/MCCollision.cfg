SPECIFICATION Spec
CONSTANTS
    u1 = u1
    u2 = u2
    sA = sA
    sB = sB
    cA = cA
    cB = cB
    cR = cR
    cBad = cBad
    None = None
    CR = {u1}
    SecretName = {sA, sB}
    Config = {cA, cB, cR, cBad}
    BadConfig = {cBad}
    EditRejected = {cR}
    Specs <- InPlaceSpecs
    Faults = {"squat"}
    MaxFaults = 1
    MaxGen = 1
    MaxId = 6
    MaxLag = 1
    PromptWatch = FALSE
INVARIANT
    CollisionLeaksNothing
