-------------------------- MODULE PermissionsPage --------------------------
(***************************************************************************)
(* app/admin/(dashboard)/permissions/page.tsx: the older permission page, *)
(* reached by URL only. Roles and resources are useState(fakeRoles) and    *)
(* useState(fakeResources) with no setter; both fixtures are empty in the  *)
(* repository, so the model takes them as constants. A role's tab shows a *)
(* checkbox per scope and resource and the row's mask as a binary badge.  *)
(* Row ids are `perm-${Date.now()}`: the n-th row created gets id n.       *)
(***************************************************************************)
EXTENDS Integers, Sequences, ScopeBitmask

CONSTANTS
    PermRoles,     \* fakeRoles, in list order
    Resources,     \* fakeResources
    ToggleScopes,  \* the scope checkboxes clicked
    NoRole         \* "" : roles[0]?.id || "" with no roles

VARIABLES
    pmRows,        \* permissions: <<[id, roleId, resourceId, scopes]>>
    activeRoleId,
    pmSaving,      \* isSaving
    pmCreated      \* rows created so far

pmVars == <<pmRows, activeRoleId, pmSaving, pmCreated>>

RoleIds == {PermRoles[i] : i \in DOMAIN PermRoles}

TypeOK ==
    /\ \A i \in DOMAIN pmRows :
         pmRows[i] \in [id : Nat, roleId : RoleIds, resourceId : Resources,
                        scopes : 0..15]
    /\ activeRoleId \in RoleIds \cup {NoRole} /\ pmSaving \in BOOLEAN

FirstRole == IF PermRoles = << >> THEN NoRole ELSE PermRoles[1]

Init ==
    /\ pmRows = << >> /\ activeRoleId = FirstRole
    /\ pmSaving = FALSE /\ pmCreated = 0

(* permissions.find(p => p.roleId === roleId && p.resourceId === ...):    *)
(* the index of the first such row, 0 if none.                             *)
FindRow(role, res) ==
    LET is == {i \in DOMAIN pmRows : pmRows[i].roleId = role
                                     /\ pmRows[i].resourceId = res}
    IN IF is = {} THEN 0 ELSE CHOOSE i \in is : \A j \in is : i <= j

(* hasScope of the checkbox. *)
Checked(role, res, scope) ==
    LET i == FindRow(role, res) IN i # 0 /\ HasScope(pmRows[i].scopes, scope)

(* currentScopes.toString(2): the binary digits, most significant first. *)
RECURSIVE ToBinary(_)
ToBinary(n) == IF n < 2 THEN <<n>> ELSE ToBinary(n \div 2) \o <<n % 2>>

(* .padEnd(4, '0'). *)
PadEnd(ds) == ds \o [i \in 1..(4 - Len(ds)) |-> 0]

(* .padStart(4, '0'). *)
PadStart(ds) == [i \in 1..(4 - Len(ds)) |-> 0] \o ds

(* The badge: (perm?.scopes || 0).toString(2).padStart(4, '0'). *)
Badge(role, res) ==
    LET i == FindRow(role, res)
    IN PadStart(ToBinary(IF i = 0 THEN 0 ELSE pmRows[i].scopes))

(* A tab of the role list. *)
SelectTab(role) ==
    /\ activeRoleId' = role
    /\ UNCHANGED <<pmRows, pmSaving, pmCreated>>

(* toggleScope without the find: always a new row. *)
ToggleScopeNoFind(res, scope) ==
    /\ activeRoleId # NoRole
    /\ pmCreated' = pmCreated + 1
    /\ pmRows' = Append(pmRows, [id |-> pmCreated + 1, roleId |-> activeRoleId,
                                 resourceId |-> res, scopes |-> scope])
    /\ UNCHANGED <<activeRoleId, pmSaving>>

(* toggleScope(role.id, resource.id, scope.value) from a checkbox of the  *)
(* active tab: flip the bit of the row found, rewriting every row with its *)
(* id, or append a new row with that one scope.                            *)
ToggleScope(res, scope) ==
    /\ activeRoleId # NoRole
    /\ LET i == FindRow(activeRoleId, res) IN
       IF i # 0
       THEN /\ pmRows' = [j \in DOMAIN pmRows |->
                   IF pmRows[j].id = pmRows[i].id
                   THEN [pmRows[j] EXCEPT !.scopes = ToggleMask(pmRows[i].scopes, scope)]
                   ELSE pmRows[j]]
            /\ UNCHANGED pmCreated
       ELSE /\ pmCreated' = pmCreated + 1
            /\ pmRows' = Append(pmRows, [id |-> pmCreated + 1, roleId |-> activeRoleId,
                                         resourceId |-> res, scopes |-> scope])
    /\ UNCHANGED <<activeRoleId, pmSaving>>

(* handleSave: the button is disabled while saving; nothing is sent. *)
HandleSave ==
    /\ ~pmSaving /\ pmSaving' = TRUE
    /\ UNCHANGED <<pmRows, activeRoleId, pmCreated>>

(* The 800 ms timer: setIsSaving(false) and a toast. *)
SaveTimerFires ==
    /\ pmSaving /\ pmSaving' = FALSE
    /\ UNCHANGED <<pmRows, activeRoleId, pmCreated>>

Next ==
    \/ \E r \in RoleIds : SelectTab(r)
    \/ \E res \in Resources, s \in ToggleScopes : ToggleScope(res, s)
    \/ HandleSave \/ SaveTimerFires

-----------------------------------------------------------------------------
(* Each tab's grid shows one row per resource: the page never holds two    *)
(* permission rows for the same role and resource, whatever the order of  *)
(* toggles across tabs (find-then-append in toggleScope).                  *)
OneRowPerCell ==
    \A i, j \in DOMAIN pmRows :
        i # j => <<pmRows[i].roleId, pmRows[i].resourceId>>
                 # <<pmRows[j].roleId, pmRows[j].resourceId>>

(* The badge agrees with the checkboxes of its row: reading it from the   *)
(* right, digit k is 1 exactly when the checkbox of scope 2^k is checked. *)
BadgeMatchesCheckboxes ==
    \A r \in RoleIds, res \in Resources, k \in 0..3 :
        LET b == Badge(r, res)
        IN (b[Len(b) - k] = 1) <=> Checked(r, res, SCOPES[k + 1])

====
