\* The permission page as in MCPermissionMatrix.cfg (two resources, two
\* roles, levels 0 and 50, three clock values), inside the admin frame
\* with every value localStorage may hold for the language: null, "en",
\* "vi" and some other string.
CONSTANTS
    Resources = {res1, res2}
    Levels = {0, 50}
    ToggleScopes <- MCToggleScopes
    MaxTime = 2
    MaxRoles = 2
    None = None
    NoSaved = NoSaved
    OtherSaved = OtherSaved
SPECIFICATION ConsoleSpec
SYMMETRY MCSymmetry
INVARIANT ConsoleTypeOK
INVARIANT UniqueRolePermission
INVARIANT ScopeViewMatchesReference
PROPERTY MatrixRefinement
