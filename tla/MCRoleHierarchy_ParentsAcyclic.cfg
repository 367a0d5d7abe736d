\* Re-parenting through the edit dialog.
CONSTANTS
    MaxRoles = 3
    NoneOption = NoneOption
    Undefined = Undefined
SPECIFICATION Spec
INVARIANT ParentsAcyclic
