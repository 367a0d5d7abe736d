---------------------------- MODULE AdminConsole ----------------------------
(***************************************************************************)
(* The admin console: the login page app/admin/login/page.tsx, the guard  *)
(* of app/admin/(dashboard)/layout.tsx, and the pages under it whose state *)
(* changes: roles (RoleHierarchy), resources and attributes (two          *)
(* KeyedCrudPage instances). One route is mounted at a time; mounting a   *)
(* page runs its useState initialisers again, so its state is its Init.   *)
(* The session is who the tokens in localStorage belong to (HttpClient    *)
(* models how they are kept); getCurrentUser succeeds or fails on it.     *)
(***************************************************************************)
EXTENDS Naturals

CONSTANTS
    Users,        \* accounts that can sign in
    RoleOf,       \* UserDto.role of each account
    NoUser,       \* no tokens stored / nobody signed in
    MaxRoles, NoneOption, Undefined,   \* of RoleHierarchy
    Keys, Empty, MaxItems, None,       \* of the two KeyedCrudPage instances
    PlanAnswers,                       \* of AdminPlansPage
    PermRoles, Resources, ToggleScopes, NoRole   \* of PermissionsPage

VARIABLES
    stored,       \* whose tokens localStorage holds
    route,        \* the mounted route
    layout,       \* (dashboard)/layout.tsx: "loading" until checkAuth settles
    checked,      \* the layout's user: the account checkAuth accepted
    loginLoading, \* login page isLoading
    submitted,    \* the credentials of the login in flight: <<user, correct>>
    outcome,      \* history: the last login answer, <<user, result>>
    roles, isOpen, editingRole, formParent, openedBy, created,
    resItems, resOpen, resEditing, resKey, resCreated,
    attrItems, attrOpen, attrEditing, attrKey, attrCreated,
    apLoading, apPlans, apDtos, apCreateOpen,
    pmRows, activeRoleId, pmSaving, pmCreated

Roles == INSTANCE RoleHierarchy
Res   == INSTANCE KeyedCrudPage
           WITH items <- resItems, isOpen <- resOpen, editing <- resEditing,
                formKey <- resKey, created <- resCreated
Attr  == INSTANCE KeyedCrudPage
           WITH items <- attrItems, isOpen <- attrOpen, editing <- attrEditing,
                formKey <- attrKey, created <- attrCreated
Plans == INSTANCE AdminPlansPage
Perms == INSTANCE PermissionsPage

roleVars == <<roles, isOpen, editingRole, formParent, openedBy, created>>
resVars  == <<resItems, resOpen, resEditing, resKey, resCreated>>
attrVars == <<attrItems, attrOpen, attrEditing, attrKey, attrCreated>>
planVars == <<apLoading, apPlans, apDtos, apCreateOpen>>
permVars == <<pmRows, activeRoleId, pmSaving, pmCreated>>
pages    == <<roleVars, resVars, attrVars, planVars, permVars>>
login    == <<loginLoading, submitted, outcome>>
vars     == <<stored, route, layout, checked, login, pages>>

(* The console routes with modelled state, and "other" for the dashboard, *)
(* users, tenants, settings/permissions and profile pages. The sidebar     *)
(* links to "other", plans and attributes; roles, resources and            *)
(* permissions are reached by URL only.                                    *)
ConsolePages == {"roles", "resources", "attributes", "plans", "permissions",
                 "other"}
SidebarPages == {"attributes", "plans", "other"}

TypeOK ==
    /\ stored \in Users \cup {NoUser}
    /\ route \in ConsolePages \cup {"login"}
    /\ layout \in {"loading", "ready"}
    /\ checked \in Users \cup {NoUser}
    /\ loginLoading \in BOOLEAN
    /\ submitted \in (Users \X BOOLEAN) \cup {<<NoUser, FALSE>>}
    /\ outcome \in (Users \cup {NoUser}) \X {"none", "failed", "denied", "welcome"}
    /\ Roles!TypeOK /\ Res!TypeOK /\ Attr!TypeOK
    /\ apLoading \in BOOLEAN /\ apCreateOpen \in BOOLEAN /\ Perms!TypeOK

(* Every page freshly mounted, and mounting them again: the Init of       *)
(* RoleHierarchy and of KeyedCrudPage.                                     *)
Mounted == Roles!Init /\ Res!Init /\ Attr!Init /\ Plans!Init /\ Perms!Init

Remount ==
    /\ roles' = << >> /\ isOpen' = FALSE /\ editingRole' = Undefined
    /\ formParent' = NoneOption /\ openedBy' = "none" /\ created' = 0
    /\ resItems' = << >> /\ resOpen' = FALSE /\ resEditing' = None
    /\ resKey' = Empty /\ resCreated' = 0
    /\ attrItems' = << >> /\ attrOpen' = FALSE /\ attrEditing' = None
    /\ attrKey' = Empty /\ attrCreated' = 0
    /\ apLoading' = TRUE /\ apPlans' = << >> /\ apDtos' = << >>
    /\ apCreateOpen' = FALSE
    /\ pmRows' = << >> /\ activeRoleId' = Perms!FirstRole /\ pmSaving' = FALSE
    /\ pmCreated' = 0

Init ==
    /\ stored = NoUser
    /\ route = "login" /\ layout = "loading" /\ checked = NoUser
    /\ loginLoading = FALSE /\ submitted = <<NoUser, FALSE>>
    /\ outcome = <<NoUser, "none">>
    /\ Mounted

-----------------------------------------------------------------------------
(* app/admin/login/page.tsx.                                               *)

(* handleSubmit with both fields filled: setIsLoading(true) and           *)
(* authService.login. (Empty fields only raise a toast.) The button is    *)
(* disabled while isLoading; one login is in flight at a time.             *)
LoginSubmit(u, correct) ==
    /\ route = "login" /\ ~loginLoading /\ submitted[1] = NoUser
    /\ loginLoading' = TRUE /\ submitted' = <<u, correct>>
    /\ UNCHANGED <<stored, route, layout, checked, outcome, pages>>

(* result.data.role for a successful login: LoginResponseDto has the two  *)
(* tokens and no role, so the field is undefined.                          *)
LoginResponseRole(u) == Undefined

(* The login answer: authService.login stores the tokens of a successful  *)
(* login (setTokens) whether or not the page is still mounted; the page    *)
(* then denies any account whose response role is not "admin", or        *)
(* welcomes it and router.push("/admin") mounts the console.               *)
LoginAnswer ==
    /\ submitted[1] # NoUser
    /\ LET u == submitted[1]
           welcome == submitted[2] /\ LoginResponseRole(u) = "admin"
       IN /\ stored' = IF submitted[2] THEN u ELSE stored
          /\ outcome' = <<u, IF ~submitted[2] THEN "failed"
                             ELSE IF welcome THEN "welcome" ELSE "denied">>
          /\ IF welcome /\ route = "login"
             THEN /\ route' = "other" /\ layout' = "loading" /\ Remount
             ELSE UNCHANGED <<route, layout, pages>>
    /\ submitted' = <<NoUser, FALSE>> /\ loginLoading' = FALSE
    /\ UNCHANGED checked

-----------------------------------------------------------------------------
(* Routing and the layout guard.                                           *)

(* A full page load of /admin/login (typed URL, reload): the heap, and    *)
(* with it a login in flight, is lost.                                     *)
LoadLoginPage ==
    /\ route' = "login" /\ layout' = "loading" /\ checked' = NoUser
    /\ loginLoading' = FALSE /\ submitted' = <<NoUser, FALSE>>
    /\ Remount
    /\ UNCHANGED <<stored, outcome>>

(* A full page load of a console URL: the layout mounts in "loading" and  *)
(* its effect calls checkAuth.                                             *)
LoadConsolePage(p) ==
    /\ route' = p /\ layout' = "loading" /\ checked' = NoUser
    /\ loginLoading' = FALSE /\ submitted' = <<NoUser, FALSE>>
    /\ Remount
    /\ UNCHANGED <<stored, outcome>>

(* checkAuth settles: getCurrentUser fails without a session (or when the *)
(* session is refused), and the layout pushes /admin/login unless the      *)
(* user is an admin; otherwise it renders the console.                     *)
CheckAuth ==
    /\ route \in ConsolePages /\ layout = "loading"
    /\ \E ok \in BOOLEAN :
         IF ok /\ stored # NoUser /\ RoleOf[stored] = "admin"
         THEN /\ layout' = "ready" /\ checked' = stored
              /\ UNCHANGED <<route, loginLoading, pages>>
         ELSE /\ route' = "login" /\ loginLoading' = FALSE
              /\ UNCHANGED <<layout, checked, pages>>
    /\ UNCHANGED <<stored, submitted, outcome>>

(* A sidebar link: client-side navigation inside the layout, which stays  *)
(* mounted and does not check again; the target page mounts afresh.      *)
SidebarNavigate(p) ==
    /\ layout = "ready" /\ route \in ConsolePages /\ route # p
    /\ route' = p /\ Remount
    /\ UNCHANGED <<stored, layout, checked, login>>

(* The events of the mounted page. *)
RolesStep ==
    /\ layout = "ready" /\ route = "roles" /\ Roles!Next
    /\ UNCHANGED <<stored, route, layout, checked, login, resVars, attrVars,
                   planVars, permVars>>

ResourcesStep ==
    /\ layout = "ready" /\ route = "resources" /\ Res!Next
    /\ UNCHANGED <<stored, route, layout, checked, login, roleVars, attrVars,
                   planVars, permVars>>

AttributesStep ==
    /\ layout = "ready" /\ route = "attributes" /\ Attr!Next
    /\ UNCHANGED <<stored, route, layout, checked, login, roleVars, resVars,
                   planVars, permVars>>

PlansStep ==
    /\ layout = "ready" /\ route = "plans" /\ Plans!Next
    /\ UNCHANGED <<stored, route, layout, checked, login, roleVars, resVars,
                   attrVars, permVars>>

PermissionsStep ==
    /\ layout = "ready" /\ route = "permissions" /\ Perms!Next
    /\ UNCHANGED <<stored, route, layout, checked, login, roleVars, resVars,
                   attrVars, planVars>>

(* The session ends elsewhere (logout or a failed refresh in another tab) *)
(* or another account signs in there; localStorage is shared.              *)
SessionEnds ==
    /\ stored # NoUser /\ stored' = NoUser
    /\ UNCHANGED <<route, layout, checked, login, pages>>

SignInElsewhere(u) ==
    /\ stored' = u
    /\ UNCHANGED <<route, layout, checked, login, pages>>

Next ==
    \/ \E u \in Users, c \in BOOLEAN : LoginSubmit(u, c)
    \/ LoginAnswer
    \/ LoadLoginPage \/ \E p \in ConsolePages : LoadConsolePage(p)
    \/ CheckAuth
    \/ \E p \in SidebarPages : SidebarNavigate(p)
    \/ RolesStep \/ ResourcesStep \/ AttributesStep \/ PlansStep
    \/ PermissionsStep
    \/ SessionEnds \/ \E u \in Users : SignInElsewhere(u)

Spec == Init /\ [][Next]_vars

-----------------------------------------------------------------------------
(* The admin login page turns away non-admin accounts and lets admins in  *)
(* (handleSubmit's role check and router.push("/admin")): a correct login *)
(* is denied only to an account whose role is not "admin".                 *)
AdminLoginAdmitsAdmins ==
    outcome[2] = "denied" => RoleOf[outcome[1]] # "admin"

=============================================================================
