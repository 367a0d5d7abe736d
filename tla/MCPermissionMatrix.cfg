\* The page with two resources, two roles created in total, role levels 0
\* and 50, three clock values, and a millisecond clock that advances
\* between two ids.
CONSTANTS
    Resources = {res1, res2}
    Levels = {0, 50}
    ToggleScopes <- MCToggleScopes
    MaxTime = 2
    MaxRoles = 2
    None = None
SPECIFICATION Spec
SYMMETRY MCSymmetry
INVARIANT TypeOK
INVARIANT UniqueRolePermission
INVARIANT ScopeViewMatchesReference
PROPERTY MatrixRefinement
