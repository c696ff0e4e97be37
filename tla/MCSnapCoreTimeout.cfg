CONSTANTS
    Names = {1, 2}
    Channels = {"stable", "beta"}
    Versions = {1, 2}
    None = None
    Wildcard = Wildcard
    Crash = Crash
    NotFound = NotFound
    Clients = {c1}
    StoreCat <- MCStoreCat
    ClientQueries = {1, 2}
SPECIFICATION Spec
PROPERTY CallsReturn
