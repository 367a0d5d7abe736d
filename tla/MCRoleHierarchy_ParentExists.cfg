\* Deleting a role that has children.
CONSTANTS
    MaxRoles = 3
    NoneOption = NoneOption
    Undefined = Undefined
SPECIFICATION Spec
INVARIANT ParentExists
