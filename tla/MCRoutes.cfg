CONSTANTS
    b1 = b1
    b2 = b2
    u1 = u1
    u2 = u2
    Browsers <- MCBrowsers
    Users <- MCUsers
    UserRoute = UserRoute
    NoSession = NoSession
    NoUser = NoUser
    MaxEpoch = 2
SPECIFICATION Spec
INVARIANT SessionsAreAuthenticated
