SPECIFICATION FairSpec
CONSTANTS
    MaxRevision = 9
    MaxGap = 3
    Recipes = {r0, r1}
    DefaultRecipe = r0
    Overlap = FALSE
INVARIANTS
    VerifiedIsFactory
    EraseIsLatched
    
    CredentialsStayErased
PROPERTIES
    StoredIsKept
    AckedIsStored
    BootReachesRun
