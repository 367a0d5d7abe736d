# TLA+ models of the GoLink web front-end

The repository under `src/website` is a Next.js front-end for a URL shortener.
Its behaviour that can go wrong in ways tests rarely reach lives in a few places:

- the HTTP client, with its token refresh;
- the in-memory stores of the admin pages;
- the async handlers of the workspace page.

This directory holds TLA+ models of those parts, the TLC configurations that
check them, and `PROJECT.json`. That file lists the components, runs, mutants,
the map from definitions to source lines, the findings and the hazards.

## 1. Inventory

### Components, their state and operations

| Component | Source | State | Operations |
|---|---|---|---|
| Token storage | `lib/api/token.ts` | `localStorage`: `access_token`, `refresh_token`. Tenant id parsed from `window.location.pathname` | `setTokens`, `updateAccessToken`, `clearTokens`, getters, `getTenantIdFromUrl` |
| HTTP client | `lib/api/http.ts` | module heap: `isRefreshing`, `refreshPromise`. Per call: the pending fetch and the attempt | `request`, `requestPaginated` (same control), `ensureTokenRefresh`, `refreshAccessToken`, `buildHeaders` |
| Auth service | `lib/api/services/auth.service.ts` | none of its own | `login` (stores tokens), `register`, `logout` (clears tokens only; the server is not told), `getCurrentUser` |
| Link service | `lib/api/services/link.service.ts`, `lib/data/fake-data.ts` | `sessionLinks` array in memory | `createLink` (alias check, `link-${Date.now()}` id, constant generated short code), `updateLink`, `deleteLink`, `toggleLinkStatus`, `quickCreate`. Each first awaits `simulateDelay` |
| Workspace page | `app/(dashboard)/workspace/[slug]/page.tsx` | React state: `tenant`, `links`, `stats` | `loadData` (effect on slug), `handleCreateLink`, `handleToggleStatus`, `handleDeleteLink` |
| Permission matrix | `app/admin/(dashboard)/settings/permissions/page.tsx`, `.../permissions/page.tsx` | `roles`, `permissions` rows `(id, roleId, resourceId, scopeMask)`, `selectedRoleId`, `isSaving` | `toggleScope`, `handleSave`, `handleRoleSubmit`, `handleDeleteRole`, select role |
| Scope bitmask | same file, lines 31-61, 87-95 | none | `hasScope`, XOR toggle, `getPermissionCount` |
| Role hierarchy | `app/admin/(dashboard)/roles/page.tsx` | `roles` with `parentId` | `handleSubmit` (create or edit parent), `handleDelete` |
| Resources and attributes | `resources/page.tsx`, `settings/attributes/page.tsx` | keyed lists | create, update, delete |
| Auth guards and admin login | the two `layout.tsx` files, `admin/login/page.tsx`, `auth/page.tsx` | `isLoading`, user | `checkAuth` effect, admin login submit |
| Plan service and mapper, plans pages | `lib/api/services/plan.service.ts`, `lib/api/mappers/plan.mapper.ts`, `admin/(dashboard)/plans/page.tsx`, `components/shared/pricing-section.tsx` | the plans shown, `isLoading`, the create dialog | DTO mapping, the popular-plan pick, the fetch effects, the optimistic toggle |
| Tenant service, i18n, presentational components | the remaining files | fixed fake data, the language | lookups and markup |

### How they interact

The pages call the services. The services call `http.request`, or they answer
from fake data after `simulateDelay`. `request` reads the tokens from storage
through `buildHeaders`. When the server answers 401, `request` calls
`ensureTokenRefresh`. That call either joins the pending refresh or starts
`refreshAccessToken`, which writes storage.

`login` and `logout` write the same storage directly. The auth guards call
`getCurrentUser`, and so `request`.

### Hard behaviours

JavaScript runs one macrotask at a time. A step of the model is one macrotask
together with its microtasks:

- a fetch answer;
- a user event;
- a timer.

So the interleavings are between **awaits**:

- Two `request`s both get a 401 before the refresh returns. The shared
  `refreshPromise` must make them wait for one refresh.
- A 401 arrives after a `logout` and a new `login`, for a token of the old
  session (or for no token), and acts on the new session's storage.
- A page reload lands while a refresh or a request is in flight.
- A page reload drops the JS heap (`isRefreshing`, `refreshPromise`, pending
  calls) but keeps `localStorage`.
- The workspace page's handlers capture `links` at render time, await the
  service, and then write a list computed from the captured one.
- `simulateDelay` runs before `findIndex` in the link service, so the store a
  handler acts on is the one at the end of the delay.
- `Date.now()` ids would collide if two were taken within one millisecond;
  ids are taken by clicks, which never are.

### Correctness properties, per component

What each run checks; "violated" marks the ones TLC finds broken by the code.

- **HTTP client:**
  - at most one refresh fetch at a time (`SingleFlight`);
  - the retry never resends the rejected token
    (`RetryNeverResendsRejectedToken`);
  - the refresh lock is always released (`RefreshLockReleased`);
  - a session ends only when its refresh fails (violated: no route has a
    tenant id);
  - a 401 of a request sent before a sign-in does not end the new session
    (violated).
- **Permission matrix (settings/permissions):** at most one row per
  (role, resource); the view of each row's mask agrees with a reference;
  the page implements the abstract role/cell matrix; every row names an
  existing role (violated); the add dialog creates (violated).
- **Older permissions page:** one row per (role, resource); the binary
  badge agrees with the checkboxes.
- **Role hierarchy:** no role is offered as its own parent; the parent
  relation is acyclic (violated); every parent exists (violated).
- **Resources page:** keys are unique (violated).
- **Workspace page:** the create buttons come back; once the handlers are
  idle, the page's list equals the store (violated).
- **Sign-in, plans, widget:** the sign-in buttons come back; the plans page
  and pricing cards show the mapped answer with rendered features; the
  Shorten spinner shows only while a `quickCreate` is in flight; the admin
  login admits admins (violated).

## 2. Modules

| Module | Models | Used by |
|---|---|---|
| `HttpClient` | `lib/api/token.ts`, `lib/api/http.ts`, `login` and `logout` of the auth service, with the backend as an environment | `MCHttpClient` |
| `ScopeBitmask` | the scope constants, `hasScope`, the XOR toggle and `getPermissionCount` | `PermissionMatrix` |
| `RbacMatrix` | the abstract role/cell matrix the permission page promises | `PermissionMatrix` (refinement) |
| `PermissionMatrix` | `settings/permissions/page.tsx` | `MCPermissionMatrix`, `MCAdminSettings` |
| `AdminShell` | the admin frame: `LanguageProvider` (`lib/i18n/language-context.tsx`), the header's language menu, the sidebar's Settings group, mounted by the layout's `checkAuth` | `MCAdminSettings` |
| `RoleHierarchy` | `roles/page.tsx` | `AdminConsole`, its violation runs |
| `KeyedCrudPage` | `resources/page.tsx` and `settings/attributes/page.tsx` (the same control over a keyed list) | `AdminConsole`, twice; the `resource_key_reused` run on its own |
| `PlanMapper` | `PlanMapper.toDomain` and `PlanService.getActivePlans`, as operators | `AdminPlansPage`, `UserApp` |
| `I18n` | `t()` of `lib/i18n/language-context.tsx` and the translations of the plan features, as operators | `Website` |
| `ShortenerWidget` | `components/shared/url-shortener-widget.tsx` with `LinkService.quickCreate` | `UserApp` |
| `AdminPlansPage` | `admin/(dashboard)/plans/page.tsx` | `AdminConsole` |
| `PermissionsPage` | `admin/(dashboard)/permissions/page.tsx` (the older page, without role CRUD), with its binary badge | `AdminConsole` |
| `AdminConsole` | `admin/login/page.tsx`, the admin `(dashboard)/layout.tsx` guard and sidebar, and the five pages above | `Website` |
| `WorkspacePage` | `workspace/[slug]/page.tsx` with the `LinkService` singleton and its timers | `UserApp` |
| `UserApp` | `auth/page.tsx`, the user `(dashboard)/layout.tsx` guard and sidebar, the workspace and profile pages, the landing page's `PricingSection` and shortener widget | `Website` |
| `Website` | one browser tab holding either side, with `localStorage` shared with other tabs | `MCWebsite` |

The components interact through two things only: `localStorage` (the
session) and the singletons of one page load (the HTTP client's refresh lock,
the `LinkService` array). `Website` composes the two sides through the first;
a full page load between the sides drops the second.

## 3. What is modelled and checked

### `HttpClient.tla`

**Constants:**
- `Req`: concurrent callers of `request`.
- `MaxCalls`: total requests issued; it also bounds the refresh flights.
- `MaxLogins`: sessions.
- `TenantInUrl`: the values `getTenantIdFromUrl() !== null` can take on the
  pages considered.
- `NoToken`.
- `Undefined`: the string "undefined" that `localStorage.setItem` stores for
  an undefined value. No correct step writes it; `TypeOK` excludes it.

**Variables:**

| Variable | What it models |
|---|---|
| `accessToken`, `refreshToken` | `localStorage` |
| `isRefreshing`, `refreshPromise` | the module variables. `refreshPromise` is an index into `flights`, the history of refresh calls; 0 is `null` |
| `req[r]` | a caller's request (`kind`: an authenticated request, or `authService.login` with `requireAuth` false) and its position in `request`: idle, fetch sent, waiting on a refresh, done. Also the token it sent, the token of its first attempt, and the attempt number |
| `srvAccess`, `srvRefresh`, `srvGen`, `logins` | the backend: valid access tokens, valid refresh sessions, a generation counter for new access tokens |
| `urlTenant` | whether the current URL carries a tenant id |

**Actions:**

| Action | Code |
|---|---|
| `LoginSend` | `authService.login`: `http.post` with `requireAuth` false, so no `Authorization` header; the sign-in page's `isLoading` keeps one login in flight (`LoginInFlight`) |
| `LoginAnswer` | the backend opens a session and `login` calls `setTokens`, or refuses: a 401 to a request without `requireAuth` is an error, not a refresh |
| `Logout` | `clearTokens` |
| `Send` | `makeRequest` with `buildHeaders` reading storage |
| `Receive` | a non-401 answer, or a 401 on the retry, mapped to the result |
| `NetworkError` | the catch |
| `Receive401` | the first 401, then `ensureTokenRefresh` |
| `EnsureTokenRefresh` | joins `refreshPromise` while `isRefreshing`, or calls `RefreshAccessToken` |
| `RefreshAccessToken` | the early returns (no refresh token, no tenant id: clear and settle false), or the fetch |
| `RefreshRespond` | the refresh answer (ok, refused, or network error), together with `Settle` |
| `Settle` | the promise's settlement, its `.finally` (resetting the flags) and the resumption of every waiting caller (`Resumed`: retry with the stored token, or "Session expired"). These run in one microtask checkpoint, so they are one step |
| `Unload`, `Navigate` | page reload (the heap is lost, storage kept) and a route change |
| `ExpireAccess`, `RevokeRefresh` | the server expiring and revoking tokens |

`requestPaginated` (http.ts 202-259) repeats `request`'s control, so the same
actions model it. `register` is a request without `requireAuth` that writes
nothing, so it adds no state.

### Runs

| Run | Cfg | Result | What it shows |
|---|---|---|---|
| `refresh_safety` | `MCHttpClient.cfg` | pass, about 540 k states, 25 s | `SingleFlight` (spec §5: concurrent 401s join the pending refresh) and `RetryNeverResendsRejectedToken` (the retry rebuilds its headers from storage) hold with 2 callers, 2 requests, 2 logins, reloads, expiry and revocation, on pages with and without a tenant id; under fair network answers `RefreshLockReleased` holds: the lock is released on every exit, the synchronous early return included |
| `stale_401_logout` | `MCHttpClient_NewLoginSurvivesOld401.cfg` | violation of `NewLoginSurvivesOld401`, on the app's own pages (`TenantInUrl = {FALSE}`) | `getCurrentUser` is sent with no session (or with an older session's token); the user signs in, in this tab or another, since `localStorage` is shared; the old request's 401 reaches `refreshAccessToken`, which reads the new refresh token and, with no tenant id, clears it (http.ts:41-42). The new login ends though its own token was never rejected |
| `tenant_missing` | `MCHttpClient_ExpiredOnlyWhenRefreshRefused.cfg` | violation | with `TenantInUrl = {FALSE}` (no route is `/dashboard/{tenant_id}/...`), any expired access token ends the session with a valid refresh token |

### Bounds, symmetry, fairness

- **Bounds.** Two callers and two requests (`MaxCalls = 2`) are enough for
  every interleaving of two 401s: joined, stale, and crossing a logout or a
  login. Two logins let a request of session 1 be answered while session 2 is
  stored.
- **Pages with a tenant id.** `refresh_safety` also lets the path carry a
  tenant id (`TenantInUrl = BOOLEAN`), because only then does
  `refreshAccessToken` issue its fetch, and the single flight, the retry and
  the lock of the fetch path are what it checks. No route of the app has a
  `/dashboard/{tenant_id}` path (the `tenant_missing` finding), so in the
  app as it is these three properties are exercised only through the early
  return; they hold for the client as written once such a route exists. The
  two violation runs use the app's own pages only (`TenantInUrl = {FALSE}`),
  so their traces can happen in the app. What a refresh fetch that answers
  after a logout or a new login would write is therefore not asserted: no
  route of the app can start one.
- **Symmetry.** The callers are interchangeable, so `Req` is a symmetry set in
  the violation runs. `refresh_safety` checks a liveness property and so
  does without it.
- **Fairness.** Weak fairness is placed on the answers to fetches
  (`Receive`/`NetworkError`/`Receive401`/`LoginAnswer` per caller and `RefreshRespond` per
  flight). Browsers time fetches out, so a pending fetch eventually answers or
  fails.
  - The user's actions and the server's expiry carry no fairness.

Every property of a passing run has a mutant in `PROJECT.json`: a plausible bug
in a mapped definition that TLC finds.

### `ScopeBitmask.tla`

`ScopeBitmask` holds the page's scope constants and three operators:

- `HasScope`;
- `ToggleMask`, the new scopes of `toggleScope`;
- `GetPermissionCount`.

JavaScript's `~` is a 32-bit complement. Masks are non-negative, so
`mask & ~s` never keeps the sign bit, and `~s` is modelled exactly by its low 31
bits (`BitNot`). The community module's `Not` would be wrong here: it flips
only up to the argument's top bit.

They are checked inside `matrix_safety`: `ScopeViewMatchesReference` says
that every row's checkboxes and its "n/4" badge agree with a reference that
reads the bits by division.

### `PermissionMatrix.tla`, `RbacMatrix.tla` and `MCPermissionMatrix.tla`

`PermissionMatrix` models `settings/permissions/page.tsx`. Each React event
handler is one action, because the next event sees the re-rendered state.

**Variables:**

| Variable | What it models |
|---|---|
| `roles` | the role list, in order (the order matters for `roles[0]`) |
| `permissions` | the Permission rows, in order (the order matters for `find`) |
| `selectedRoleId`, `isSaving`, `isRoleDialogOpen`, `editingRole` | the page's `useState` values |
| `now` | `Date.now()`. It advances by `Tick` |
| `lastStamp` | the last clock value used for an id |
| `openedBy` | a history variable: the button that opened the dialog |

**Actions:**

| Action | Code |
|---|---|
| `SelectRole` | a click on a role in the list |
| `ToggleScope` | `toggleScope`, via find, then an update by id or an append |
| `HandleSave`, `SaveTimerFires` | `handleSave` and its 800 ms timer. Nothing is sent |
| `OpenCreateDialog` | the trigger: `onOpenChange(true)` |
| `HandleEditRole` | the pencil button |
| `CancelDialog` | the Cancel button: `setIsRoleDialogOpen(false)` only |
| `DismissDialog` | Escape, the overlay or the close icon: `onOpenChange(false)`, which also calls `resetRoleForm` |
| `HandleRoleSubmit` | `handleRoleSubmit` |
| `HandleDeleteRole` | `handleDeleteRole`, confirmed |

The dialog is modal, so other page controls are disabled while it is open.

**Resources.** The page's resources are `useState(fakeResources)` with no
setter. The fixture is empty in the repository, so the checkbox grid exists
only once the fixture (or a future API) supplies resources. The model takes
them as the constant `Resources` and checks the page's logic with two.

**Abstract spec.** `RbacMatrix` is the matrix the spec describes:

- a set of roles;
- for each (role, resource) cell, a set of scopes;
- a toggle flips one scope of one cell;
- deleting a role removes it and clears its cells.

`PermissionMatrix` instantiates it. The mapping sends each cell to the scopes
its checkboxes show (`CheckedScopes`), and it checks `MatrixRefinement ==
Matrix!Spec`.

**The clock.** Ids are taken by clicks and submits, never two within one
millisecond, so each id takes a fresh tick (`TakeStamp`). Two rows stamped in
the same tick would share an id, and `toggleScope` rewrites rows by id. Such a
collision needs a clamped `Date.now()` or scripted clicks. It would break
`MatrixRefinement`; it is recorded as a hazard and not run.

| Run | Result | What it shows |
|---|---|---|
| `matrix_safety` | pass (`MCAdminSettings.cfg`), about 64 k states, 2 min | `UniqueRolePermission`, `ScopeViewMatchesReference` and `MatrixRefinement` hold over 2 resources, 2 scopes, 2 role creations and 3 clock values, with the admin frame's events interleaved; every stored language value is restored by the frame's mount (see `AdminShell.tla`) |
| `matrix_dangling` | violation of `NoDanglingPermission` | create a role, select it, delete it. `roles[0]` from the closure re-selects the deleted id, and the next toggle makes a row for it |
| `matrix_add_after_cancel` | violation of `AddDialogCreates` | Edit, Cancel, then Add. The form still holds the edited role |

**Bounds.** Every bug above needs at most two roles and two resources.

- Refinement needs two cells to tell a change of one cell from a change of two.
- Two scope bits (READ and DELETE, the ends of the mask) suffice for set and
  clear.
- A third clock value lets a role and two rows be stamped apart.

The page alone (`MCPermissionMatrix.cfg`, without the admin frame) has
about 5 k states with `MaxTime = 2`; raising `MaxTime` to 3 gives about 50 k
states in 2.5 minutes and finds nothing new. Composed with the frame, whose
language and sidebar states multiply the page's about twelvefold, the run
keeps `MaxTime = 2`.

### `AdminShell.tla` and `MCAdminSettings.tla`

`AdminShell` is the frame every admin page sits in. `LanguageProvider`
(mounted once per full load by `components/providers.tsx`) keeps the
language in `useState("en")` and in `localStorage["golink-language"]`.

| Variable or action | Code |
|---|---|
| `language`, `saved` | the provider's state and its `localStorage` copy; `saved` starts as anything an earlier session left: null (`NoSaved`), `"en"`, `"vi"` or another string (`OtherSaved`) |
| `ProviderMountEffect` | the provider's `useEffect(..., [])`: restore `saved` if it is a language (`Restored`) |
| `ShellMount` | the layout's `checkAuth` accepts an admin: sidebar and header mount, `expandedItems = ["Settings"]` |
| `handleSetLanguage(l)` | the header's English / Tiếng Việt items: set the state and write `localStorage` |
| `toggleExpand` | the Settings button: toggle the label `t("admin.sidebar.settings")` of the current language |

The mount effect runs right after the first commit; `checkAuth` is a network
answer and comes later, so the frame mounts after the effect. Before that the
page is not rendered, so `MCAdminSettings` lets the permission page's actions
(`PermissionMatrix`) run only once `shellMounted` holds, interleaved with the
frame's actions. A full load would also reset the page, whose state the
abstract matrix does not allow to vanish, so the run has no reload.

No property is stated about the language itself: `handleSetLanguage` writes
the state and `localStorage` in one handler and the mount effect reads back
what it wrote, so "the language survives a reload" restates those two
assignments. Another tab's language menu writes the same key, but the
provider does not listen for `storage` events and nothing says it should, so
the model does not include it. The frame is composed with the page so that
the page's properties are checked with the frame's events interleaved.

The sidebar keys its open groups by the translated label but starts with the
English literal `"Settings"`. With Vietnamese restored the group starts
closed, and a language switch can close or open it by itself. TLC reaches
these states in this run. They are recorded as a hazard; nothing in the code
says what the group should do on a switch.

### `RoleHierarchy.tla`

`RoleHierarchy` models `roles/page.tsx`.

**Variables:**
- `roles` (id and parentId);
- the dialog state `isOpen`, `editingRole`, `formParent` (`formData.parentId`);
- the history variable `openedBy`;
- `created`.

**Conversions.** The form's `"none"` (`NoneOption`) and a role's undefined
parent (`Undefined`) are distinct values. The two conversions between them are
modelled:
- `ToParentId`: `=== "none" ? undefined : ...`;
- `ToFormParent`: `role.parentId || "none"`.

**Ids.** The n-th role created gets id n; see the clock above.

**Left out.** Names, levels and the search box. The code sets `lft` and `rgt` to
the constant 0, so the spec's nested-set invariant `lft < rgt` fails on every
role. That needs no model checker.

| Run | Result | What it shows |
|---|---|---|
| `role_cycle` | violation of `ParentsAcyclic` | create A, create B under A, edit A to have parent B. The spec's `CyclicParent` check is missing |
| `role_orphan` | violation of `ParentExists` | deleting a parent leaves its children pointing at no role |

Three roles allow a chain, a two-role cycle and a third role to re-parent.
`NoSelfParent` (the Select's filter keeps a role from being its own parent,
even when Cancel leaves the form filled and the add button reuses it) is
checked in the `website` run as `RolesNoSelfParent`, with the roles page
mounted inside the admin console.

### `KeyedCrudPage.tla`

The resources page and the attributes page are one control written twice: a
keyed list (`items`, ids `res-${Date.now()}` / `attr-${Date.now()}`, so the
n-th item created gets id n), a create/edit dialog (`isOpen`, `editing`,
`formKey`) and the handlers `OpenCreateDialog`, `HandleEdit`, `TypeKey`,
`CancelDialog` (the Cancel button: closes without `resetForm`),
`DismissDialog` (`onOpenChange(false)`: resets), `HandleSubmit` (the
required-key check, then create or update) and `HandleDelete`. The module is
instantiated twice in `AdminConsole`. `TypeOK` keeps every key non-empty,
which the submit guard ensures.

`KeysUnique` is spec §3's unique resource key (line 30: enforced at creation
and update). The run `resource_key_reused` (`KeyedCrudPage_KeysUnique.cfg`:
one key, two creates) checks the resources page on its own and finds it
violated: `handleSubmit` creates k1 twice, because it never looks at the
other items' keys.

### `PlanMapper.tla` and `AdminPlansPage.tla`

`PlanMapper` writes `toDomain`, `mapFeaturesToDomain` and `getActivePlans` as
operators on `PlanDto` records. Names, prices and dates are display data and
left out; a feature is its translation key and its count. `Throws` is the
empty answer: `plans[0]` is undefined there, and setting `isPopular` throws.

The reference (`ReferenceKeys`, `NearestDays`) is written from what a pricing
card should show rather than from the mapper's branches: a set of feature
keys, and the retention as the nearest whole day (`NearestDays` is a `CHOOSE`
over an interval, not a division).

`AdminPlansPage` is the admin page: the fetch (`FetchPlans`: `try`/`catch`/
`finally`, so a throwing answer leaves the list empty and stops loading),
`FetchFails`, the optimistic `HandleToggleActive` (nothing is sent) and the
create dialog (`SetCreateOpen`: its inputs are uncontrolled and "Create
Plan" only closes it). `apDtos` is a history variable: the answer shown.

`PlansMatchAnswer`: the page lists the answered plans in order, each with the
reference's features, and only the middle card marked popular.

### `PermissionsPage.tla`

The older permissions page, reached by URL only (the sidebar links the
settings page). Its role and resource fixtures are empty in the repository,
so they are constants (`PermRoles`, a sequence whose head is the first tab;
`Resources`), as in `PermissionMatrix`. `pmRows` are the Permission rows in
order, `(id, roleId, resourceId, scopes)`; `pmCreated` stands for
`Date.now()` in a new row's id. Actions: `SelectTab`, `ToggleScope` (the
first row found by role and resource is rewritten with the XOR toggle by id,
or a row is appended), `HandleSave` and `SaveTimerFires` (the 800 ms
timer). `Badge` is `scopes.toString(2).padStart(4, '0')`, with a recursive
`ToBinary`.

- `OneRowPerCell`: no two rows share a role and a resource, whatever the
  order of tab switches and toggles.
- `BadgeMatchesCheckboxes`: digit `k` from the right of the badge is 1
  exactly when the checkbox of scope `2^k` is ticked, for masks with and
  without padding and for cells with no row (`perm?.scopes || 0`).

The website run uses two roles, one resource and the scopes 1 and 8, so masks
0, 1, 8 and 9 occur.

### `AdminConsole.tla`, `WorkspacePage.tla`, `UserApp.tla`, `Website.tla`

**Admin side (`AdminConsole`).** `stored` is whose tokens `localStorage`
holds. The login page (`LoginSubmit`, `LoginAnswer`: the tokens are stored by
`authService.login` before the role check, whether or not the page is still
mounted), the layout guard (`CheckAuth`: `getCurrentUser` succeeds or fails,
and a non-admin is pushed to `/admin/login`), sidebar navigation (the layout
does not check again) and full page loads. Each page's events run only while
it is mounted under a ready layout; mounting runs its `useState` initialisers
(`Remount`). Other tabs end the session or sign another account in.

**Workspace (`WorkspacePage`).** The `LinkService` is a singleton whose array
outlives the page; each method resolves after `simulateDelay` (600, 300 or
400 ms). A timer callback runs the rest of the method and the page's
continuation as one task, and `CanResolve` lets timers fire in deadline
order. Link objects are shared by reference, so the page list is a sequence
of ids and `active` is the heap. Handlers capture `links` at the click.
Navigating away leaves the calls in flight; their answers land in an
unmounted page.

**User side (`UserApp`).** The sign-in page (one `isLoading` for both forms,
`finally` on both), the layout guard (on failure it pushes `/login`, a route
the app does not have: `"missing"`), the dashboard page's `loadData`
(`dbPhase`: `getCurrentUser`, then `getUserTenants`, or the empty state when
no user comes back), the profile page and form (`HandleSave`
checks the two passwords, the 1 s timer clears them), the workspace page, and
the landing page's `PricingSection` (`PricingFetch`: no `try`/`catch`, so an
empty answer leaves the spinner on) and its shortener widget
(`ShortenerWidget`: Enter calls `handleShorten` without the button's
`isLoading` guard, so two `quickCreate`s can be in flight; the 2 s copy
timers clear the Copied mark whichever copy they were for).

**The tab (`Website`).** Going from one side to the other is a full page
load (a typed URL): every page and the `LinkService` start afresh, and only
`stored` carries over. While one side is shown the other holds the state of
its first load. The one in-app link across, the `Navbar` of the admin login
page (to `/` and `/auth`), is client-side; it reaches the same states,
because the user side's heap is fresh either way and an admin login
answering after it only stores tokens, which `SignInElsewhere` already does.
Likewise the `Navbar` links between `/` and `/auth` are modelled as loads:
the widget's calls then answer into an unmounted component.

**Translations (`I18n`).** `t()` looks the key up, falls back to English
and then to the key, and fills each param with `String.prototype.replace`,
which replaces the first occurrence only. A text is abstracted to its tokens
(literal words, placeholders, filled values). `FeaturesRender` says that
every feature of every plan card, on the landing page and on the admin
plans page, reads in both languages as a translated sentence with its
placeholder filled: the mapper's keys and param names meet the translations.

| Run | Cfg | Result | What it shows |
|---|---|---|---|
| `website` | `MCWebsite.cfg` | pass, about 19 k states, 15 s | `RolesNoSelfParent`, `PlansMatchAnswer`, and under fair timers and answers `CreatingEnds` and `AuthButtonsComeBack` (the buttons come back); `FeaturesRender`; `SpinnerOnlyWhileShortening` (the widget's spinner shows only while a `quickCreate` is in flight); `OneRowPerCell` and `BadgeMatchesCheckboxes` (the older permissions page) |
| `admin_login_denied` | `MCWebsite_AdminLoginAdmitsAdmins.cfg` | violation | alice, an admin, signs in correctly and is denied: `LoginResponseDto` has no `role`. The tokens are already stored |
| `links_lost_update` | `MCWebsite_PageShowsStore.cfg` | violation | create a link, toggle another before the create answers: the toggle's answer writes the list captured at its click, and the new link vanishes from the page while the service keeps it |

**Bounds.** Two accounts (an admin and a member) tell the guards apart. Two
roles give `RolesNoSelfParent` a second role to choose. One key per keyed
page shows the submit guard. One URL and an alias equal to the generated
code make every alias collision reachable (the fake generator returns
`"abcdef"` every time). Two links and two `LinkService` calls in flight
(`MaxLinkCalls = 2`, in `links_lost_update`) give every ordering of two
overlapping handlers of the workspace page; the `website` run keeps one call
of the page in flight (`MaxLinkCalls = 1`), which cuts its state space
eightfold and keeps it, with its two liveness properties, well inside the
time limit, while the widget still has two `quickCreate`s and two copy
timers in flight (`MaxPending = 2`), the case `SpinnerOnlyWhileShortening`
is about. The four plan answers cover the empty
answer, one, two and three plans (popular index 1, 2, 2), a half-day ttl
(which a floor would show as 0 days), a one-hour ttl, unlimited links and
retention, a zero link count and ttl, and a plan without features.

**Fairness.** Weak fairness on each `LinkService` timer, on the sign-in
page's two answers and on the profile form's timer, and only on the user
side (`OnUserSide`): timers fire and fetches answer or fail, but the user
may always leave. No fairness is placed on the plans fetches: no property
needs it, and the landing page's fetch can stay pending forever by the code.

## 4. Not modelled

- Markup, copy and config, and the translations other than the plan
  features.
- The `LanguageProvider`'s state in the `website` run: there it only
  selects which text is shown, and `FeaturesRender` quantifies over both
  languages instead; composing it there multiplied the run five times. The
  provider itself is modelled in `AdminShell`. The navbar's switch on the
  user side is the same `handleSetLanguage`. Another tab's switch writes the
  same `localStorage` key and is not seen until the next load; it is left
  out, since nothing says it should be.
- A short code shared by two links: the fake generator always returns
  `"abcdef"`, so the website run reaches two links with that code (or one
  with it as an alias). The spec says nothing of short-code uniqueness, and
  `createLink`'s alias check would only restate itself, so no property asserts
  either way.
- The admin layout checks the role once, on mount. Another tab's sign-in as a
  member leaves console pages running, and TLC reaches these states. No
  property asserts either way: neither the spec nor a comment asks for a
  re-check, and the console pages work on in-memory fixtures.
- Moving from one workspace to another (`/workspace/a` to `/workspace/b`)
  mounts a new page instance, because the App Router keys the page by its
  dynamic segment; the old instance's pending `loadData` then sets state of
  an unmounted component, which React ignores. `Remount` models this.
- The workspace page's `copiedId` and its copy timers: they select an icon.
- `lib/types` and the API DTOs: they are types, used as the records above.
- The admin dashboard, users and tenants pages only display or compute from
  fixed fake data; the search boxes filter what is displayed.
- The user dashboard reaches its empty state when the session ends in another
  tab after the layout accepted it; nothing says it should redirect, so no
  property asserts either way.
- The tenant service returns fixed data; `SlugFound` is its only outcome
  that matters.
- `register` and `getCurrentUser` are not modelled separately: they are
  `request`s and add nothing to its control.
- The row id `perm-${Date.now()}` of `permissions/page.tsx`: two rows made
  within one millisecond would share it; the model's ids are a counter.
- `handleSave` sends nothing to the backend; the spec's batch save does not
  exist in the code.
- Two hazards are modelled but have no run of their own, because every run
  slot holds a deeper question: the landing page's pricing spinner on an
  empty answer (`PricingFetch` leaves it loading), and the profile form
  clearing passwords typed while a save is in flight (`SaveDone`).
