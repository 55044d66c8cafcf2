SPECIFICATION Spec
CONSTANTS
    Versions <- MCVersions
    XEmacs = {"xemacs214"}
    All <- MCAll
    Packages <- MCPackages
    Needs <- MCNeeds
    Recipes <- MCRecipes
    Users <- MCUsers
    MaxRequests = 2
INVARIANT TypeOK
INVARIANT OneVersion
INVARIANT LispWithinReach
INVARIANT BulkIndex
CHECK_DEADLOCK FALSE
