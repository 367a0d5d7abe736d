\* Deleting the selected role when it is first in the list.
CONSTANTS
    Resources = {res1, res2}
    Levels = {0, 50}
    ToggleScopes <- MCToggleScopes
    MaxTime = 2
    MaxRoles = 2
    None = None
SPECIFICATION Spec
SYMMETRY MCSymmetry
INVARIANT NoDanglingPermission
