------------------------------ MODULE UserApp ------------------------------
(***************************************************************************)
(* The user side of the site: the sign-in page app/auth/page.tsx, the      *)
(* guard of app/(dashboard)/layout.tsx and the pages under it whose state  *)
(* changes: the workspace page (WorkspacePage) and the profile page with   *)
(* components/shared/profile-form.tsx; and the landing page's             *)
(* PricingSection and the dashboard page's loadData.                      *)
(* One route is mounted at a time. A full page load starts the heap (and   *)
(* the LinkService with it) afresh; a sidebar link is client-side          *)
(* navigation under the layout. `stored` is whose tokens localStorage      *)
(* holds, as in AdminConsole.                                              *)
(***************************************************************************)
EXTENDS Naturals, Sequences

CONSTANTS
    Users, NoUser,
    Passwords,    \* passwords typed into the profile form; Empty is ""
    PlanAnswers,  \* the PlanDto arrays the active-plans endpoint may answer
    Urls, ValidUrls, Aliases, Generated, Empty, SlugFound, MaxLinks,
    MaxPending,   \* quickCreate calls and copy timers of the widget at once
    MaxLinkCalls  \* LinkService calls of the workspace page in flight at once

VARIABLES
    stored,
    uroute,       \* "home", "auth", "dashboard", "workspace", "profile", "missing"
    ulayout,      \* (dashboard)/layout.tsx isLoading: "loading" / "ready"
    tab, authLoading,
    loginSub,     \* the login in flight: <<user, correct>>
    regPw,        \* registerPassword: "", shorter than 8, or long enough
    regBirthday, regGender,   \* the two fields are filled
    regSub,       \* a register call is in flight
    profPhase,    \* the profile page: "loading", "form", "error"
    pfLoading, newPw, confirmPw,
    psPhase,      \* PricingSection: "loading", "shown" or "error"
    psPlans,
    dbPhase,      \* dashboard/page.tsx: "user", "tenants" (a call in flight),
                  \* "shown" (the workspace grid) or "empty" (no user)
    wUrl, shortUrl, wLoading, isCopied, wCalls, copyTimers,
    sessionLinks, code, alias, active, created,
    phase, links, isCreateOpen, newUrl, newAlias, isCreating, pending

WS == INSTANCE WorkspacePage WITH MaxPending <- MaxLinkCalls
PM == INSTANCE PlanMapper
SW == INSTANCE ShortenerWidget

wsVars   == <<sessionLinks, code, alias, active, created, phase, links,
              isCreateOpen, newUrl, newAlias, isCreating, pending>>
authVars == <<tab, authLoading, loginSub, regPw, regBirthday, regGender, regSub>>
profVars == <<profPhase, pfLoading, newPw, confirmPw>>
priceVars == <<psPhase, psPlans>>
widgetVars == <<wUrl, shortUrl, wLoading, isCopied, wCalls, copyTimers>>
landingVars == <<priceVars, widgetVars>>
vars     == <<stored, uroute, ulayout, authVars, profVars, landingVars, dbPhase,
              wsVars>>

DashRoutes == {"dashboard", "workspace", "profile"}
NoLogin    == <<NoUser, FALSE>>

TypeOK ==
    /\ stored \in Users \cup {NoUser}
    /\ uroute \in DashRoutes \cup {"home", "auth", "missing"}
    /\ ulayout \in {"loading", "ready"}
    /\ tab \in {"login", "register"} /\ authLoading \in BOOLEAN
    /\ loginSub \in (Users \X BOOLEAN) \cup {NoLogin}
    /\ regPw \in {"", "short", "long"}
    /\ regBirthday \in BOOLEAN /\ regGender \in BOOLEAN /\ regSub \in BOOLEAN
    /\ profPhase \in {"loading", "form", "error"} /\ pfLoading \in BOOLEAN
    /\ newPw \in Passwords \cup {Empty} /\ confirmPw \in Passwords \cup {Empty}
    /\ psPhase \in {"loading", "shown", "error"}
    /\ dbPhase \in {"user", "tenants", "shown", "empty"}
    /\ SW!TypeOK /\ WS!TypeOK

(* The useState initialisers of the sign-in page and of the profile page. *)
AuthMounted ==
    /\ tab' = "login" /\ authLoading' = FALSE /\ loginSub' = NoLogin
    /\ regPw' = "" /\ regBirthday' = FALSE /\ regGender' = FALSE /\ regSub' = FALSE

ProfileMounted ==
    /\ profPhase' = "loading" /\ pfLoading' = FALSE
    /\ newPw' = Empty /\ confirmPw' = Empty

PricingMounted == psPhase' = "loading" /\ psPlans' = << >>

(* The dashboard page's isLoading; its loadData starts on mount. *)
DashboardMounted == dbPhase' = "user"

Init ==
    /\ stored = NoUser /\ uroute = "auth" /\ ulayout = "loading"
    /\ tab = "login" /\ authLoading = FALSE /\ loginSub = NoLogin
    /\ regPw = "" /\ regBirthday = FALSE /\ regGender = FALSE /\ regSub = FALSE
    /\ profPhase = "loading" /\ pfLoading = FALSE
    /\ newPw = Empty /\ confirmPw = Empty
    /\ psPhase = "loading" /\ psPlans = << >>
    /\ dbPhase = "user"
    /\ SW!Init /\ WS!Init

-----------------------------------------------------------------------------
(* Routing and the layout guard.                                           *)

(* A full page load of /, /auth or a dashboard URL: every page state and  *)
(* the LinkService start afresh; localStorage stays.                      *)
LoadUserPage(p) ==
    /\ uroute' = p /\ ulayout' = "loading"
    /\ AuthMounted /\ ProfileMounted /\ PricingMounted /\ SW!Mounted
    /\ DashboardMounted
    /\ WS!Reload
    /\ UNCHANGED stored

(* checkAuth settles: without a user it router.push("/login"), a route     *)
(* the app does not have (404); with one it renders the page.              *)
UserCheckAuth ==
    /\ uroute \in DashRoutes /\ ulayout = "loading"
    /\ \E ok \in BOOLEAN :
         IF ok /\ stored # NoUser
         THEN ulayout' = "ready" /\ UNCHANGED uroute
         ELSE uroute' = "missing" /\ UNCHANGED ulayout
    /\ UNCHANGED <<stored, authVars, profVars, landingVars, dbPhase, wsVars>>

(* A sidebar link (logo, workspace list, profile item): the layout stays  *)
(* mounted, the target page mounts afresh, the workspace page's calls      *)
(* resolve into an unmounted instance.                                     *)
Navigate(p) ==
    /\ ulayout = "ready" /\ uroute \in DashRoutes /\ uroute # p
    /\ uroute' = p /\ ProfileMounted /\ WS!Remount
    /\ UNCHANGED <<stored, ulayout, authVars, landingVars>>
    /\ DashboardMounted

-----------------------------------------------------------------------------
(* app/auth/page.tsx. isLoading is shared by both forms and disables both *)
(* submit buttons; the tab switch is never disabled.                       *)

SetTab(t) ==
    /\ uroute = "auth" /\ tab # t
    /\ tab' = t
    /\ UNCHANGED <<stored, uroute, ulayout, loginSub, authLoading,
                   regPw, regBirthday, regGender, regSub, profVars, landingVars, dbPhase, wsVars>>

(* handleLogin: setIsLoading(true) and authService.login. *)
LoginSubmit(u, correct) ==
    /\ uroute = "auth" /\ tab = "login" /\ ~authLoading
    /\ authLoading' = TRUE /\ loginSub' = <<u, correct>>
    /\ UNCHANGED <<stored, uroute, ulayout, tab, regPw, regBirthday,
                   regGender, regSub, profVars, landingVars, dbPhase, wsVars>>

(* The login answer: login stores the tokens (setTokens); the page then   *)
(* router.push("/dashboard"), a client-side navigation (the LinkService    *)
(* lives on), or toasts the error; finally setIsLoading(false).            *)
LoginAnswer ==
    /\ loginSub # NoLogin
    /\ IF loginSub[2]
       THEN /\ stored' = loginSub[1]
            /\ uroute' = "dashboard" /\ ulayout' = "loading"
            /\ AuthMounted /\ ProfileMounted /\ DashboardMounted /\ UNCHANGED landingVars
       ELSE /\ authLoading' = FALSE /\ loginSub' = NoLogin
            /\ UNCHANGED <<stored, uroute, ulayout, tab, regPw,
                           regBirthday, regGender, regSub, profVars, landingVars, dbPhase>>
    /\ UNCHANGED wsVars

(* The register inputs' onChange and the gender Select. *)
EditRegister(p, b, g) ==
    /\ uroute = "auth" /\ tab = "register"
    /\ regPw' = p /\ regBirthday' = b /\ regGender' = g
    /\ UNCHANGED <<stored, uroute, ulayout, tab, authLoading, loginSub,
                   regSub, profVars, landingVars, dbPhase, wsVars>>

(* handleRegister: a password under 8 characters, no birthday or no       *)
(* gender only raise a toast; otherwise setIsLoading(true) and register.   *)
RegisterSubmit ==
    /\ uroute = "auth" /\ tab = "register" /\ ~authLoading
    /\ regPw = "long" /\ regBirthday /\ regGender
    /\ authLoading' = TRUE /\ regSub' = TRUE
    /\ UNCHANGED <<stored, uroute, ulayout, tab, loginSub, regPw,
                   regBirthday, regGender, profVars, landingVars, dbPhase, wsVars>>

(* The register answer with setIsLoading(false) on the success path only. *)
RegisterAnswerNoFinally(ok) ==
    /\ regSub
    /\ regSub' = FALSE /\ authLoading' = ~ok
    /\ IF ok THEN /\ tab' = "login" /\ regPw' = ""
                  /\ regBirthday' = FALSE /\ regGender' = FALSE
             ELSE UNCHANGED <<tab, regPw, regBirthday, regGender>>
    /\ UNCHANGED <<stored, uroute, ulayout, loginSub, profVars, landingVars, dbPhase, wsVars>>

(* The register answer: on success switch to the login tab and clear the *)
(* register form; finally setIsLoading(false).                             *)
RegisterAnswer(ok) ==
    /\ regSub
    /\ regSub' = FALSE /\ authLoading' = FALSE
    /\ IF ok THEN /\ tab' = "login" /\ regPw' = ""
                  /\ regBirthday' = FALSE /\ regGender' = FALSE
             ELSE UNCHANGED <<tab, regPw, regBirthday, regGender>>
    /\ UNCHANGED <<stored, uroute, ulayout, loginSub, profVars, landingVars, dbPhase, wsVars>>

-----------------------------------------------------------------------------
(* settings/profile/page.tsx and ProfileForm (no onSave is passed).       *)

(* loadUser: getCurrentUser; the form, or the error box. *)
ProfileLoaded ==
    /\ uroute = "profile" /\ ulayout = "ready" /\ profPhase = "loading"
    /\ \E ok \in BOOLEAN :
         profPhase' = IF ok /\ stored # NoUser THEN "form" ELSE "error"
    /\ UNCHANGED <<stored, uroute, ulayout, authVars, pfLoading,
                   newPw, confirmPw, landingVars, dbPhase, wsVars>>

(* The new and confirm password inputs; they stay enabled while saving. *)
TypePassword(n, c) ==
    /\ uroute = "profile" /\ profPhase = "form"
    /\ newPw' = n /\ confirmPw' = c
    /\ UNCHANGED <<stored, uroute, ulayout, authVars, profPhase,
                   pfLoading, landingVars, dbPhase, wsVars>>

(* handleSave: mismatched passwords only raise a toast (the two           *)
(* setIsLoading calls of that path batch to nothing); otherwise wait 1 s.  *)
HandleSave ==
    /\ uroute = "profile" /\ profPhase = "form" /\ ~pfLoading
    /\ newPw = Empty \/ newPw = confirmPw
    /\ pfLoading' = TRUE
    /\ UNCHANGED <<stored, uroute, ulayout, authVars, profPhase,
                   newPw, confirmPw, landingVars, dbPhase, wsVars>>

(* The 1 s timer: reset the password fields, finally setIsLoading(false). *)
SaveDone ==
    /\ uroute = "profile" /\ pfLoading
    /\ pfLoading' = FALSE /\ newPw' = Empty /\ confirmPw' = Empty
    /\ UNCHANGED <<stored, uroute, ulayout, authVars, profPhase, landingVars, dbPhase,
                   wsVars>>

-----------------------------------------------------------------------------
(* app/(dashboard)/dashboard/page.tsx, loadData. getCurrentUser fails or  *)
(* no session is left: the spinner stops on the empty state. Otherwise   *)
(* getUserTenants follows; it always succeeds (the fixture tenants).       *)
DashboardUserLoaded ==
    /\ uroute = "dashboard" /\ ulayout = "ready" /\ dbPhase = "user"
    /\ \E ok \in BOOLEAN :
         dbPhase' = IF ok /\ stored # NoUser THEN "tenants" ELSE "empty"
    /\ UNCHANGED <<stored, uroute, ulayout, authVars, profVars, landingVars,
                   wsVars>>

DashboardTenantsLoaded ==
    /\ uroute = "dashboard" /\ dbPhase = "tenants"
    /\ dbPhase' = "shown"
    /\ UNCHANGED <<stored, uroute, ulayout, authVars, profVars, landingVars,
                   wsVars>>

-----------------------------------------------------------------------------
(* components/shared/pricing-section.tsx on the landing page: fetchPlans  *)
(* has no try/catch, so when getActivePlans throws (an empty answer) the   *)
(* promise rejects before setIsLoading(false) and the spinner stays.      *)
PricingFetch(dtos) ==
    /\ uroute = "home" /\ psPhase = "loading"
    /\ IF PM!Throws(dtos) THEN UNCHANGED priceVars
       ELSE psPhase' = "shown" /\ psPlans' = PM!ActivePlans(dtos)
    /\ UNCHANGED <<stored, uroute, ulayout, authVars, profVars, dbPhase, widgetVars,
                   wsVars>>

(* The request fails: setError and stop loading. *)
PricingFetchFails ==
    /\ uroute = "home" /\ psPhase = "loading"
    /\ psPhase' = "error"
    /\ UNCHANGED <<stored, uroute, ulayout, authVars, profVars, dbPhase, psPlans,
                   widgetVars, wsVars>>

(* The shortener widget's events, while the landing page is shown. *)
WidgetEvent ==
    /\ uroute = "home" /\ SW!Next
    /\ UNCHANGED <<stored, uroute, ulayout, authVars, profVars, dbPhase, priceVars, wsVars>>

-----------------------------------------------------------------------------
(* The workspace page's events, while it is mounted under a ready layout, *)
(* and the LinkService timers, which fire whatever route is shown.        *)
WorkspaceEvent ==
    /\ uroute = "workspace" /\ ulayout = "ready"
    /\ \/ \E f \in SlugFound : WS!LoadTenant(f)
       \/ WS!LoadLinks
       \/ \E o \in BOOLEAN : WS!SetCreateOpen(o)
       \/ \E u \in Urls \cup {Empty} : WS!TypeUrl(u)
       \/ \E a \in Aliases \cup {Empty} : WS!TypeAlias(a)
       \/ WS!HandleCreateLink
       \/ \E i \in DOMAIN links : WS!HandleToggleStatus(i) \/ WS!HandleDelete(i)
    /\ UNCHANGED <<stored, uroute, ulayout, authVars, profVars, landingVars, dbPhase>>

Timer(n) ==
    /\ n \in DOMAIN pending
    /\ WS!ResolveCreate(n) \/ WS!ResolveToggle(n) \/ WS!ResolveDelete(n)
    /\ UNCHANGED <<stored, uroute, ulayout, authVars, profVars, landingVars, dbPhase>>

(* localStorage is shared with other tabs: the session ends there, or     *)
(* another account signs in there.                                         *)
SessionEnds ==
    /\ stored # NoUser /\ stored' = NoUser
    /\ UNCHANGED <<uroute, ulayout, authVars, profVars, landingVars, dbPhase, wsVars>>

SignInElsewhere(u) ==
    /\ stored' = u
    /\ UNCHANGED <<uroute, ulayout, authVars, profVars, landingVars, dbPhase, wsVars>>

Next ==
    \/ \E p \in DashRoutes \cup {"home", "auth"} : LoadUserPage(p)
    \/ UserCheckAuth \/ \E p \in DashRoutes : Navigate(p)
    \/ \E t \in {"login", "register"} : SetTab(t)
    \/ \E u \in Users, c \in BOOLEAN : LoginSubmit(u, c)
    \/ LoginAnswer
    \/ \E p \in {"", "short", "long"}, b, g \in BOOLEAN : EditRegister(p, b, g)
    \/ RegisterSubmit \/ \E ok \in BOOLEAN : RegisterAnswer(ok)
    \/ ProfileLoaded \/ HandleSave \/ SaveDone
    \/ DashboardUserLoaded \/ DashboardTenantsLoaded
    \/ \E d \in PlanAnswers : PricingFetch(d)
    \/ PricingFetchFails \/ WidgetEvent
    \/ \E n, c \in Passwords \cup {Empty} : TypePassword(n, c)
    \/ WorkspaceEvent \/ \E n \in 1..MaxLinkCalls : Timer(n)
    \/ SessionEnds \/ \E u \in Users : SignInElsewhere(u)

(* Every request of the sign-in page is answered (fetch resolves or       *)
(* rejects), the profile form's setTimeout fires, and so do the           *)
(* LinkService timers.                                                     *)
Fairness ==
    /\ WF_vars(LoginAnswer) /\ WF_vars(\E ok \in BOOLEAN : RegisterAnswer(ok))
    /\ WF_vars(SaveDone)
    /\ \A n \in 1..MaxLinkCalls : WF_vars(Timer(n))

Spec == Init /\ [][Next]_vars /\ Fairness

-----------------------------------------------------------------------------
(* The sign-in page never stays disabled: once a login or a register is    *)
(* submitted, isLoading is eventually false again (the finally blocks of   *)
(* handleLogin and handleRegister, on success and on failure).             *)
AuthButtonsComeBack == authLoading ~> ~authLoading


=============================================================================
