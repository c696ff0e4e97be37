CONSTANTS
    Names = {1, 2}
    Channels = {"stable", "beta"}
    Versions = {10, 11}
    None = None
    Wildcard = Wildcard
    Crash = Crash
    NotFound = NotFound
    MaxInstalled = 2
    MaxStore = 3
SPECIFICATION Spec
INVARIANT GetAppAgreesWithList
