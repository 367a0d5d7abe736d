\* Edit, Cancel, then the add-role button.
CONSTANTS
    Resources = {res1, res2}
    Levels = {0, 50}
    ToggleScopes <- MCToggleScopes
    MaxTime = 2
    MaxRoles = 2
    None = None
SPECIFICATION Spec
SYMMETRY MCSymmetry
INVARIANT AddDialogCreates
