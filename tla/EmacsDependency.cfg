SPECIFICATION Spec
CONSTANTS
    Versions <- MCVersions
    XEmacs = {"xemacs214"}
    All <- MCAll
    Packages <- MCPackages
    Needs <- MCNeeds
    Recipes <- GnuRecipes
    Users <- MCUsers
    MaxRequests = 2
CHECK_DEADLOCK FALSE
INVARIANT DependencyMatches
