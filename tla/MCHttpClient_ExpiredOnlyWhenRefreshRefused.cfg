CONSTANTS
    Req = {r1, r2}
    NoToken = NoToken
    Undefined = Undefined
    MaxCalls = 2
    MaxLogins = 2
    TenantInUrl <- MCAppPages
SPECIFICATION Spec
SYMMETRY MCSymmetry
INVARIANT ExpiredOnlyWhenRefreshRefused
