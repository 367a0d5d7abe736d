----------------------------- MODULE RbacMatrix -----------------------------
(***************************************************************************)
(* What the permission matrix promises (spec.md, "Permission Matrix"): a   *)
(* set of roles and, for every (role, resource) cell, a set of scopes. A   *)
(* toggle adds or removes one scope of one cell; deleting a role removes   *)
(* the role and every cell of it. Roles are created and edited without    *)
(* touching the cells.                                                     *)
(***************************************************************************)
EXTENDS FiniteSets

CONSTANTS Ids, Resources, Scopes

VARIABLES roleIds, cells

Cells == Ids \X Resources

Init == roleIds = {} /\ cells = [c \in Cells |-> {}]

CreateRole(id) == roleIds' = roleIds \cup {id} /\ UNCHANGED cells

Toggle(c, s) ==
    /\ cells' = [cells EXCEPT ![c] = (@ \ {s}) \cup ({s} \ @)]
    /\ UNCHANGED roleIds

DeleteRole(id) ==
    /\ roleIds' = roleIds \ {id}
    /\ cells' = [c \in Cells |-> IF c[1] = id THEN {} ELSE cells[c]]

Next ==
    \/ \E id \in Ids : CreateRole(id) \/ DeleteRole(id)
    \/ \E c \in Cells, s \in Scopes : Toggle(c, s)

Spec == Init /\ [][Next]_<<roleIds, cells>>

=============================================================================
