\* An admin and a member account; two roles and one item per admin page
\* visit; one URL, the generated code typed as a custom alias (it collides
\* with generated links and with itself), two links created one after the
\* other, one LinkService call in flight (two calls race in the
\* links_lost_update run), two quickCreates and two copy timers of the
\* widget; one profile password (it and "" can mismatch); four answers
\* of the active-plans endpoint (MCPlanAnswers); two roles, one resource and
\* the scopes 1 and 8 for the older permissions page.
CONSTANTS
    alice = alice
    bob = bob
    viewer = viewer
    editor = editor
    res1 = res1
    PermRoles <- MCPermRoles
    Resources = {res1}
    ToggleScopes <- MCToggleScopes
    NoRole = NoRole
    Users <- MCUsers
    PlanAnswers <- MCPlanAnswers
    RoleOf <- MCRoleOf
    NoUser = NoUser
    MaxRoles = 2
    NoneOption = NoneOption
    Undefined = Undefined
    Keys = {k1}
    MaxItems = 1
    None = None
    Passwords = {p1}
    Urls = {good}
    ValidUrls = {good}
    Aliases = {abcdef}
    Generated = abcdef
    Empty = Empty
    SlugFound = {TRUE, FALSE}
    MaxLinks = 2
    MaxPending = 2
    MaxLinkCalls = 1
SPECIFICATION Spec
INVARIANT TypeOK
INVARIANT RolesNoSelfParent
INVARIANT PlansMatchAnswer
INVARIANT FeaturesRender
INVARIANT SpinnerOnlyWhileShortening
INVARIANT OneRowPerCell
INVARIANT BadgeMatchesCheckboxes
PROPERTY CreatingEnds
PROPERTY AuthButtonsComeBack
