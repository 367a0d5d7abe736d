------------------------------ MODULE Website ------------------------------
(***************************************************************************)
(* The whole site in one browser tab: the user side (UserApp) and the     *)
(* admin console (AdminConsole). No link leads from one to the other, so  *)
(* going across is a full page load: the heap, every page and the          *)
(* LinkService start afresh, and only localStorage (`stored`, the session) *)
(* is carried over. While one side is shown the other holds the state it  *)
(* would have on its first load.                                           *)
(***************************************************************************)
EXTENDS Naturals, Sequences

CONSTANTS
    Users, RoleOf, NoUser, MaxRoles, NoneOption, Undefined,
    Keys, MaxItems, None, PlanAnswers, PermRoles, Resources, ToggleScopes, NoRole,
    Passwords, Urls, ValidUrls, Aliases, Generated, Empty, SlugFound,
    MaxLinks, MaxPending, MaxLinkCalls

VARIABLES
    app,          \* "user" or "admin": which side the tab has loaded
    stored,
    route, layout, checked, loginLoading, submitted, outcome,
    roles, isOpen, editingRole, formParent, openedBy, roleCreated,
    resItems, resOpen, resEditing, resKey, resCreated,
    attrItems, attrOpen, attrEditing, attrKey, attrCreated,
    apLoading, apPlans, apDtos, apCreateOpen,
    pmRows, activeRoleId, pmSaving, pmCreated,
    uroute, ulayout,
    tab, authLoading, loginSub, regPw, regBirthday, regGender, regSub,
    profPhase, pfLoading, newPw, confirmPw, psPhase, psPlans, dbPhase,
    wUrl, shortUrl, wLoading, isCopied, wCalls, copyTimers,
    sessionLinks, code, alias, active, created,
    phase, links, isCreateOpen, newUrl, newAlias, isCreating, pending

Admin == INSTANCE AdminConsole WITH created <- roleCreated
User  == INSTANCE UserApp
Lang  == INSTANCE I18n

adminOnly == <<route, layout, checked, loginLoading, submitted, outcome,
               roles, isOpen, editingRole, formParent, openedBy, roleCreated,
               resItems, resOpen, resEditing, resKey, resCreated,
               attrItems, attrOpen, attrEditing, attrKey, attrCreated,
               apLoading, apPlans, apDtos, apCreateOpen,
               pmRows, activeRoleId, pmSaving, pmCreated>>
userOnly  == <<uroute, ulayout, tab, authLoading, loginSub, regPw,
               regBirthday, regGender, regSub, profPhase, pfLoading, newPw,
               confirmPw, psPhase, psPlans, dbPhase, wUrl, shortUrl, wLoading, isCopied,
               wCalls, copyTimers, sessionLinks, code, alias, active, created, phase,
               links, isCreateOpen, newUrl, newAlias, isCreating, pending>>
vars == <<app, stored, adminOnly, userOnly>>

TypeOK == app \in {"user", "admin"} /\ Admin!TypeOK /\ User!TypeOK

Init == app \in {"user", "admin"} /\ Admin!Init /\ User!Init

(* The admin side as a first load of /admin/login would leave it. *)
AdminAtRest ==
    /\ route' = "login" /\ layout' = "loading" /\ checked' = NoUser
    /\ loginLoading' = FALSE /\ submitted' = <<NoUser, FALSE>>
    /\ outcome' = <<NoUser, "none">>
    /\ Admin!Remount

(* Typing a URL of the other side. *)
OpenAdmin(p) ==
    /\ app = "user" /\ app' = "admin"
    /\ IF p = "login" THEN Admin!LoadLoginPage ELSE Admin!LoadConsolePage(p)
    /\ User!LoadUserPage("auth")

OpenUser(p) ==
    /\ app = "admin" /\ app' = "user"
    /\ User!LoadUserPage(p) /\ AdminAtRest

AdminStep == app = "admin" /\ Admin!Next /\ UNCHANGED <<app, userOnly>>
UserStep  == app = "user" /\ User!Next /\ UNCHANGED <<app, adminOnly>>

Next ==
    \/ AdminStep \/ UserStep
    \/ \E p \in Admin!ConsolePages \cup {"login"} : OpenAdmin(p)
    \/ \E p \in User!DashRoutes \cup {"home", "auth"} : OpenUser(p)

(* The fairness of UserApp, for the steps of the user side. *)
OnUserSide(A) == app = "user" /\ A /\ UNCHANGED <<app, adminOnly>>

Fairness ==
    /\ WF_vars(OnUserSide(User!LoginAnswer))
    /\ WF_vars(OnUserSide(\E ok \in BOOLEAN : User!RegisterAnswer(ok)))
    /\ WF_vars(OnUserSide(User!SaveDone))
    /\ \A n \in 1..MaxLinkCalls : WF_vars(OnUserSide(User!Timer(n)))

Spec == Init /\ [][Next]_vars /\ Fairness

-----------------------------------------------------------------------------
(* The properties of the parts, checked on the whole site, where the      *)
(* session they read is changed by the other side and by other tabs.      *)

(* The roles page's parent Select never offers the role itself            *)
(* (RoleHierarchy).                                                        *)
RolesNoSelfParent == Admin!Roles!NoSelfParent

(* The workspace create buttons come back (WorkspacePage). *)
CreatingEnds == User!WS!CreatingEnds

(* The sign-in page's buttons come back (UserApp). *)
AuthButtonsComeBack == User!AuthButtonsComeBack

(* The landing page's Shorten spinner shows only while a call is in      *)
(* flight (ShortenerWidget).                                               *)
SpinnerOnlyWhileShortening == User!SW!SpinnerOnlyWhileShortening

(* The admin plans page shows what the server answered, mapped as the    *)
(* pricing card reads it (AdminPlansPage, PlanMapper).                      *)
PlansMatchAnswer == Admin!Plans!PlansMatchAnswer

(* Every feature on a pricing card (landing page) and on an admin plan    *)
(* card reads as a sentence in either language: PlanMapper's keys and     *)
(* params meet the translations and t()'s interpolation.                   *)
FeatureRendered(plans) ==
    \A i \in DOMAIN plans, lang \in Lang!Languages :
        \A j \in DOMAIN plans[i].features :
            LET f == plans[i].features[j]
            IN Lang!Rendered(Lang!t(lang, f.key, f.param))

FeaturesRender == FeatureRendered(psPlans) /\ FeatureRendered(apPlans)

(* The older permissions page keeps one row per role and resource, and   *)
(* its binary badge agrees with its checkboxes (PermissionsPage).          *)
OneRowPerCell == Admin!Perms!OneRowPerCell
BadgeMatchesCheckboxes == Admin!Perms!BadgeMatchesCheckboxes

(* The admin login page lets admins in and turns the others away          *)
(* (AdminConsole).                                                         *)
AdminLoginAdmitsAdmins == Admin!AdminLoginAdmitsAdmins

(* The workspace page shows what the LinkService holds once no call is in *)
(* flight (WorkspacePage).                                                 *)
PageShowsStore == User!WS!PageShowsStore

=============================================================================
