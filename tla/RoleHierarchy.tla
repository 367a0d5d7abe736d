--------------------------- MODULE RoleHierarchy ---------------------------
(***************************************************************************)
(* The page app/admin/(dashboard)/roles/page.tsx: the role list with its  *)
(* parent links and the create/edit dialog. Each handler is one action.   *)
(* Role ids are `role-${Date.now()}`; at the speed of a form submit the   *)
(* millisecond clock has always advanced, so the n-th role created gets   *)
(* id n. Names, levels and the search box tell no roles apart in these    *)
(* properties and are left out.                                            *)
(***************************************************************************)
EXTENDS Integers, Sequences, Graphs

CONSTANTS
    MaxRoles,     \* roles created in total
    NoneOption,   \* the Select's "none" value in formData.parentId
    Undefined     \* an undefined Role.parentId (a top-level role)

VARIABLES
    roles,        \* Role[]: <<[id, parentId]>>
    isOpen,
    editingRole,  \* id of the Role held by editingRole, or Undefined (null)
    formParent,   \* formData.parentId
    openedBy,     \* history: the button that opened the dialog
    created

form == <<isOpen, editingRole, formParent, openedBy>>
vars == <<roles, form, created>>

Ids == 1..MaxRoles

TypeOK ==
    /\ roles \in Seq([id : Ids, parentId : Ids \cup {Undefined}])
    /\ isOpen \in BOOLEAN
    /\ editingRole \in Ids \cup {Undefined}
    /\ formParent \in Ids \cup {NoneOption}
    /\ openedBy \in {"none", "create", "edit"}
    /\ created \in 0..MaxRoles

Init ==
    /\ roles = << >>
    /\ isOpen = FALSE /\ editingRole = Undefined /\ formParent = NoneOption
    /\ openedBy = "none" /\ created = 0

RoleIds == {roles[i].id : i \in DOMAIN roles}

(* The parent Select lists "none" and every role but the one being edited. *)
ParentChoicesAll == {NoneOption} \cup RoleIds

ParentChoices == {NoneOption} \cup (RoleIds \ {editingRole})

(* Submitting the Select's value as the parentId, "none" included. *)
ToParentIdRaw(v) == v

(* handleSubmit: formData.parentId === "none" ? undefined : formData.parentId *)
ToParentId(v) == IF v = NoneOption THEN Undefined ELSE v

(* handleEdit: role.parentId || "none" *)
ToFormParent(p) == IF p = Undefined THEN NoneOption ELSE p

-----------------------------------------------------------------------------
(* The "add role" DialogTrigger: onOpenChange(true) opens the dialog with *)
(* whatever formData and editingRole hold.                                 *)
OpenCreateDialog ==
    /\ ~isOpen
    /\ isOpen' = TRUE /\ openedBy' = "create"
    /\ UNCHANGED <<roles, editingRole, formParent, created>>

(* handleEdit(role): load the role into the form and open the dialog. *)
HandleEdit(i) ==
    /\ ~isOpen
    /\ editingRole' = roles[i].id /\ formParent' = ToFormParent(roles[i].parentId)
    /\ isOpen' = TRUE /\ openedBy' = "edit"
    /\ UNCHANGED <<roles, created>>

(* The parent Select's onValueChange. *)
ChooseParent(v) ==
    /\ isOpen
    /\ formParent' = v
    /\ UNCHANGED <<roles, isOpen, editingRole, openedBy, created>>

(* The Cancel button: setIsOpen(false), without resetForm. *)
CancelDialog ==
    /\ isOpen
    /\ isOpen' = FALSE /\ openedBy' = "none"
    /\ UNCHANGED <<roles, editingRole, formParent, created>>

(* Escape, the overlay or the close icon: onOpenChange(false), resetForm. *)
DismissDialog ==
    /\ isOpen
    /\ isOpen' = FALSE /\ openedBy' = "none"
    /\ editingRole' = Undefined /\ formParent' = NoneOption
    /\ UNCHANGED <<roles, created>>

(* handleSubmit: rewrite the edited role's parentId, or append a new role *)
(* with the form's parent; then close the dialog and resetForm.            *)
HandleSubmit ==
    /\ isOpen
    /\ IF editingRole # Undefined
       THEN /\ roles' = [j \in DOMAIN roles |->
                           IF roles[j].id = editingRole
                           THEN [roles[j] EXCEPT !.parentId = ToParentId(formParent)]
                           ELSE roles[j]]
            /\ UNCHANGED created
       ELSE /\ created < MaxRoles
            /\ created' = created + 1
            /\ roles' = Append(roles, [id |-> created + 1,
                                       parentId |-> ToParentId(formParent)])
    /\ isOpen' = FALSE /\ openedBy' = "none"
    /\ editingRole' = Undefined /\ formParent' = NoneOption

(* handleDelete(role.id), confirmed: filter the role out of the list. *)
HandleDelete(i) ==
    /\ ~isOpen
    /\ roles' = SelectSeq(roles, LAMBDA r : r.id # roles[i].id)
    /\ UNCHANGED <<form, created>>

Next ==
    \/ OpenCreateDialog \/ CancelDialog \/ DismissDialog \/ HandleSubmit
    \/ \E i \in DOMAIN roles : HandleEdit(i) \/ HandleDelete(i)
    \/ \E v \in ParentChoices : ChooseParent(v)

Spec == Init /\ [][Next]_vars

-----------------------------------------------------------------------------
(* The parent graph: an edge from each role to its parent, where the      *)
(* parent exists.                                                          *)
ParentGraph ==
    [node |-> RoleIds,
     edge |-> {<<roles[i].id, roles[i].parentId>> :
                  i \in {j \in DOMAIN roles : roles[j].parentId \in RoleIds}}]

(* No role is its own parent, whatever sequence of edits, cancels and     *)
(* deletes left in the form: the Select's "prevent self-parenting" filter. *)
NoSelfParent == \A i \in DOMAIN roles : roles[i].parentId # roles[i].id

(* Spec, Role: the parent graph is acyclic; a role is never its own       *)
(* ancestor through handleSubmit's edits.                                  *)
ParentsAcyclic == IsDag(ParentGraph)

(* Spec, Role: no role is silently orphaned; every parentId names an      *)
(* existing role after handleDelete and handleSubmit.                      *)
ParentExists == \A i \in DOMAIN roles : roles[i].parentId \in RoleIds \cup {Undefined}

=============================================================================
