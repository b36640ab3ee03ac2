--------------------------------- MODULE MC ---------------------------------
(***************************************************************************)
(* Small instances of the system for TLC.                                  *)
(***************************************************************************)
EXTENDS OIDCClientProperties

CONSTANTS u1, u2,           \* CRs
          sA, sB,           \* Secret names
          cA, cB, cR, cBad  \* configs: cR is refused by /edit, cBad by the operator

SpecOf(cfg, secret, update, deletion) ==
    [cfg |-> cfg, secret |-> secret, update |-> update, deletion |-> deletion]

\* One spec per update policy; between them every field changes.
MixedSpecs == {SpecOf(cA, sA, "Recreate", "Deregister"),
               SpecOf(cB, sA, "InPlace", "Deregister"),
               SpecOf(cA, sB, "Block", "Orphan"),
               SpecOf(cBad, sA, "Recreate", "Deregister")}

\* Other URIs or another Secret name, everything else at its default.
DefaultSpecs == {SpecOf(cA, sA, "Recreate", "Deregister"),
                 SpecOf(cB, sA, "Recreate", "Deregister"),
                 SpecOf(cA, sB, "Recreate", "Deregister")}

\* A config that /edit refuses under InPlace, drift under Block, a rename.
HardSpecs == {SpecOf(cA, sA, "Recreate", "Deregister"),
              SpecOf(cR, sA, "InPlace", "Deregister"),
              SpecOf(cA, sB, "Block", "Deregister")}

InPlaceSpecs == {SpecOf(cA, sA, "InPlace", "Deregister"),
                 SpecOf(cB, sA, "InPlace", "Deregister")}
=============================================================================
