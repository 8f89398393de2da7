SPECIFICATION Spec
CONSTANTS
    MaxRevision = 9
    MaxGap = 3
    Recipes = {r0, r1}
    DefaultRecipe = r0
    Overlap = FALSE
PROPERTY SettingsStayErased
