\* A stale 401 on the app's own pages (no /dashboard/{tenant_id} path): two
\* callers, two requests, two logins, so that a request sent for the first
\* session can be answered after the second login.
CONSTANTS
    Req = {r1, r2}
    NoToken = NoToken
    Undefined = Undefined
    MaxCalls = 2
    MaxLogins = 2
    TenantInUrl <- MCAppPages
SPECIFICATION Spec
SYMMETRY MCSymmetry
INVARIANT NewLoginSurvivesOld401
