SPECIFICATION FairSpec
CONSTANTS
    u1 = u1
    u2 = u2
    sA = sA
    sB = sB
    cA = cA
    cB = cB
    cR = cR
    cBad = cBad
    None = None
    CR = {u1}
    SecretName = {sA, sB}
    Config = {cA, cR}
    BadConfig = {}
    EditRejected = {cR}
    Specs <- HardSpecs
    Faults = {"crash", "tsidp", "delete", "adminEdit", "late"}
    MaxFaults = 1
    MaxGen = 2
    MaxId = 8
    MaxLag = 1
    PromptWatch = FALSE
PROPERTIES
    Converges
    DeletionCompletes
