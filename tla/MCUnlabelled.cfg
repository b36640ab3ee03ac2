SPECIFICATION FairSpec
CONSTANTS
    u1 = u1
    u2 = u2
    sA = sA
    sB = sB
    cA = cA
    cB = cB
    cR = cR
    cBad = cBad
    None = None
    CR = {u1}
    SecretName = {sA, sB}
    Config = {cA, cB, cR, cBad}
    BadConfig = {cBad}
    EditRejected = {cR}
    Specs <- InPlaceSpecs
    Faults = {"unlabel"}
    MaxFaults = 1
    MaxGen = 2
    MaxId = 6
    MaxLag = 1
    PromptWatch = FALSE
PROPERTY
    SecretContentConverges
