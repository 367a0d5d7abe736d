-------------------------- MODULE PermissionMatrix --------------------------
(***************************************************************************)
(* The page app/admin/(dashboard)/settings/permissions/page.tsx: the role *)
(* list, the permission rows, the selected role, the role dialog and the  *)
(* Save button. Each handler runs to completion in one React event and    *)
(* the next event sees the re-rendered state, so each is one action. Ids  *)
(* are `role-${Date.now()}` and `perm-${Date.now()}`: an id is the value  *)
(* of the clock `now` when it was taken.                                   *)
(***************************************************************************)
EXTENDS Integers, Sequences, SequencesExt, ScopeBitmask

CONSTANTS
    Resources,     \* the page's resources (useState(fakeResources), no setter)
    Levels,        \* role levels typed into the dialog
    ToggleScopes,  \* the scope checkboxes clicked
    MaxTime,       \* Date.now() values considered: 0..MaxTime
    MaxRoles,      \* roles created in total
    None           \* null

ASSUME ToggleScopes \subseteq ScopeValues

VARIABLES
    roles,            \* Role[]: <<[id, level]>>, in list order
    permissions,      \* Permission[]: <<[id, roleId, resourceId, scopes]>>
    selectedRoleId,
    isSaving,
    isRoleDialogOpen,
    editingRole,      \* id of the Role held by editingRole, or None
    openedBy,         \* history: the button that opened the dialog
    now,              \* Date.now()
    lastStamp,        \* the last Date.now() value used for an id
    created           \* roles created so far

page == <<roles, permissions, selectedRoleId, isSaving>>
dialog == <<isRoleDialogOpen, editingRole, openedBy>>
clock == <<now, lastStamp, created>>
vars == <<page, dialog, clock>>

Stamps == 0..MaxTime
RoleRec == [id : Stamps, level : Levels]
PermRec == [id : Stamps, roleId : Stamps, resourceId : Resources, scopes : 0..15]

TypeOK ==
    /\ roles \in Seq(RoleRec) /\ Len(roles) <= MaxRoles
    /\ permissions \in Seq(PermRec)
    /\ selectedRoleId \in Stamps \cup {None}
    /\ isSaving \in BOOLEAN
    /\ isRoleDialogOpen \in BOOLEAN
    /\ editingRole \in Stamps \cup {None}
    /\ openedBy \in {"none", "create", "edit"}
    /\ now \in Stamps /\ lastStamp \in {-1} \cup Stamps
    /\ created \in 0..MaxRoles

(* useState(fakeRoles) etc.: all fixtures are empty, so roles[0]?.id is   *)
(* undefined and no role is selected.                                      *)
Init ==
    /\ roles = << >> /\ permissions = << >>
    /\ selectedRoleId = None /\ isSaving = FALSE
    /\ isRoleDialogOpen = FALSE /\ editingRole = None /\ openedBy = "none"
    /\ now = 0 /\ lastStamp = -1 /\ created = 0

RoleIds == {roles[i].id : i \in DOMAIN roles}

(* A fresh Date.now() for an id. Ids are taken by clicks and submits,    *)
(* never two within one millisecond, so the clock has advanced since the  *)
(* last id.                                                                *)
TakeStamp == now > lastStamp /\ lastStamp' = now

(* permissions.find(p => p.roleId === roleId && p.resourceId === resourceId) *)
FindPerm(ro, res) ==
    SelectInSeq(permissions, LAMBDA p : p.roleId = ro /\ p.resourceId = res)

(* The scopes hasScope and getPermissionCount read for a cell (0 if none). *)
CellScopes(ro, res) ==
    LET i == FindPerm(ro, res) IN IF i = 0 THEN 0 ELSE permissions[i].scopes

-----------------------------------------------------------------------------
(* Clicking a role in the list. The dialog is modal: no other control of  *)
(* the page can be clicked while it is open.                               *)
SelectRole(i) ==
    /\ ~isRoleDialogOpen
    /\ selectedRoleId' = roles[i].id
    /\ UNCHANGED <<roles, permissions, isSaving, dialog, clock>>

(* Appending instead of upserting: a new row on every click. *)
ToggleScopeAppend(res, scope) ==
    /\ ~isRoleDialogOpen /\ selectedRoleId # None
    /\ TakeStamp
    /\ permissions' = Append(permissions, [id |-> now, roleId |-> selectedRoleId,
                                            resourceId |-> res, scopes |-> scope])
    /\ UNCHANGED <<roles, selectedRoleId, isSaving, dialog, now, created>>

(* toggleScope(selectedRoleId, resource.id, scope.value) from a checkbox; *)
(* the matrix is rendered only while selectedRoleId is set. An existing   *)
(* row is rewritten by id, every row with that id getting newScopes.       *)
ToggleScope(res, scope) ==
    /\ ~isRoleDialogOpen /\ selectedRoleId # None
    /\ LET i == FindPerm(selectedRoleId, res) IN
       IF i # 0
       THEN LET e == permissions[i]
                newScopes == ToggleMask(e.scopes, scope)
            IN /\ permissions' = [j \in DOMAIN permissions |->
                                    IF permissions[j].id = e.id
                                    THEN [permissions[j] EXCEPT !.scopes = newScopes]
                                    ELSE permissions[j]]
               /\ UNCHANGED lastStamp
       ELSE /\ TakeStamp
            /\ permissions' = Append(permissions,
                                     [id |-> now, roleId |-> selectedRoleId,
                                      resourceId |-> res, scopes |-> scope])
    /\ UNCHANGED <<roles, selectedRoleId, isSaving, dialog, now, created>>

(* handleSave: the button is disabled while saving; the 800 ms timer then *)
(* clears isSaving. Nothing is sent to the backend.                        *)
HandleSave ==
    /\ ~isRoleDialogOpen /\ ~isSaving
    /\ isSaving' = TRUE
    /\ UNCHANGED <<roles, permissions, selectedRoleId, dialog, clock>>

SaveTimerFires ==
    /\ isSaving
    /\ isSaving' = FALSE
    /\ UNCHANGED <<roles, permissions, selectedRoleId, dialog, clock>>

(* The "add role" DialogTrigger: onOpenChange(true) only opens the dialog; *)
(* it does not reset editingRole.                                          *)
OpenCreateDialog ==
    /\ ~isRoleDialogOpen
    /\ isRoleDialogOpen' = TRUE /\ openedBy' = "create"
    /\ UNCHANGED <<page, editingRole, clock>>

(* handleEditRole(role) from a role's pencil button. *)
HandleEditRole(i) ==
    /\ ~isRoleDialogOpen
    /\ editingRole' = roles[i].id
    /\ isRoleDialogOpen' = TRUE /\ openedBy' = "edit"
    /\ UNCHANGED <<page, clock>>

(* The Cancel button: setIsRoleDialogOpen(false) without resetRoleForm. *)
CancelDialog ==
    /\ isRoleDialogOpen
    /\ isRoleDialogOpen' = FALSE /\ openedBy' = "none"
    /\ UNCHANGED <<page, editingRole, clock>>

(* Escape, the overlay or the close icon: onOpenChange(false) closes the  *)
(* dialog and calls resetRoleForm.                                         *)
DismissDialog ==
    /\ isRoleDialogOpen
    /\ isRoleDialogOpen' = FALSE /\ editingRole' = None /\ openedBy' = "none"
    /\ UNCHANGED <<page, clock>>

(* handleRoleSubmit: update the role held by editingRole, or append a new *)
(* role `role-${Date.now()}`; then close the dialog and resetRoleForm.     *)
HandleRoleSubmit(level) ==
    /\ isRoleDialogOpen
    /\ IF editingRole # None
       THEN /\ roles' = [j \in DOMAIN roles |->
                           IF roles[j].id = editingRole
                           THEN [roles[j] EXCEPT !.level = level] ELSE roles[j]]
            /\ UNCHANGED <<lastStamp, created>>
       ELSE /\ created < MaxRoles
            /\ TakeStamp
            /\ created' = created + 1
            /\ roles' = Append(roles, [id |-> now, level |-> level])
    /\ isRoleDialogOpen' = FALSE /\ editingRole' = None /\ openedBy' = "none"
    /\ UNCHANGED <<permissions, selectedRoleId, isSaving, now>>

(* Deleting without removing the role's permission rows. *)
HandleDeleteRoleNoCascade(i) ==
    /\ ~isRoleDialogOpen
    /\ LET id == roles[i].id IN
         /\ roles' = SelectSeq(roles, LAMBDA r : r.id # id)
         /\ selectedRoleId' = IF selectedRoleId = id THEN roles[1].id
                                                     ELSE selectedRoleId
    /\ UNCHANGED <<permissions, isSaving, dialog, clock>>

(* handleDeleteRole(role.id), confirmed: filter the role and its rows; if *)
(* it was selected, select roles[0] of the list as it was before the      *)
(* delete (the closure's roles), which is the deleted role when it was    *)
(* first in the list.                                                      *)
HandleDeleteRole(i) ==
    /\ ~isRoleDialogOpen
    /\ LET id == roles[i].id IN
         /\ roles' = SelectSeq(roles, LAMBDA r : r.id # id)
         /\ permissions' = SelectSeq(permissions, LAMBDA p : p.roleId # id)
         /\ selectedRoleId' = IF selectedRoleId = id THEN roles[1].id
                                                     ELSE selectedRoleId
    /\ UNCHANGED <<isSaving, dialog, clock>>

(* Time passes: Date.now() advances by one unit. *)
Tick ==
    /\ now < MaxTime
    /\ now' = now + 1
    /\ UNCHANGED <<page, dialog, lastStamp, created>>

Next ==
    \/ \E i \in DOMAIN roles : SelectRole(i) \/ HandleEditRole(i)
                                 \/ HandleDeleteRole(i)
    \/ \E res \in Resources, sc \in ToggleScopes : ToggleScope(res, sc)
    \/ HandleSave \/ SaveTimerFires
    \/ OpenCreateDialog \/ CancelDialog \/ DismissDialog
    \/ \E l \in Levels : HandleRoleSubmit(l)
    \/ Tick

Spec == Init /\ [][Next]_vars

-----------------------------------------------------------------------------
(* Spec, Permission: at most one row per (roleId, resourceId). toggleScope *)
(* must upsert through the find, across selections, deletes and re-adds. *)
UniqueRolePermission ==
    \A i, j \in DOMAIN permissions :
        i # j => <<permissions[i].roleId, permissions[i].resourceId>>
                 # <<permissions[j].roleId, permissions[j].resourceId>>

(* Spec, Role: deleting a role leaves no permission row referencing it,   *)
(* and no later toggle creates one: every row names an existing role.      *)
NoDanglingPermission ==
    \A i \in DOMAIN permissions : permissions[i].roleId \in RoleIds

(* The dialog opened by the "add role" button is a create form: its       *)
(* submit appends a role rather than rewriting the role last edited.       *)
AddDialogCreates ==
    (isRoleDialogOpen /\ openedBy = "create") => editingRole = None

(* The checkboxes' view of a cell: the scopes hasScope reports. *)
CheckedScopes(ro, res) == {s \in ScopeValues : HasScope(CellScopes(ro, res), s)}

Matrix == INSTANCE RbacMatrix
    WITH Ids <- Stamps, Scopes <- ToggleScopes, roleIds <- RoleIds,
         cells <- [c \in Stamps \X Resources |-> CheckedScopes(c[1], c[2])]

(* The page implements the abstract matrix: each event creates or deletes *)
(* a role together with all its cells, flips one scope of one cell, or    *)
(* leaves the matrix as it is.                                             *)
MatrixRefinement == Matrix!Spec

=============================================================================
