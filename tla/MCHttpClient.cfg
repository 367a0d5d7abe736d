\* Safety of the single-flight refresh and of the retry, and the release of the
\* refresh lock under fair network answers: two callers, one request each,
\* two logins, pages with and without a tenant id.
CONSTANTS
    Req = {r1, r2}
    NoToken = NoToken
    Undefined = Undefined
    MaxCalls = 2
    MaxLogins = 2
    TenantInUrl <- MCAnyPage
SPECIFICATION Spec
INVARIANT TypeOK
INVARIANT SingleFlight
INVARIANT RetryNeverResendsRejectedToken
PROPERTY RefreshLockReleased
