\* The resources page on its own: one key typed into the form, two
\* resources created, so that the second create can reuse the first key.
CONSTANTS
    Keys = {k1}
    Empty = Empty
    None = None
    MaxItems = 2
SPECIFICATION Spec
INVARIANT KeysUnique
