CONSTANTS
    w1 = w1
    w2 = w2
    Workers = {w1, w2}
    Globs <- MCGlobs
    CookieOf <- MCCookieOf
    Docs <- MCDocs
    HeaderNames <- MCHeaderNames
    Requests <- LoginRequests
    Responses <- MCResponses
    Chain <- MCChain
    DirOf <- MCDirOf
    Htaccess <- MCHtaccess
    Contents <- MCContents
    InitConf <- MCInitConf
    InitFiles <- MCInitFiles
    Rewrite <- MCRewrite
    Guarded <- LoginGuarded
    AdminAction <- MCAdminAction
    MainRoot = "/cache"
    VhostRoot <- MCVhostRoot
    MaxRequests = 2
    MaxEdits = 0
    MaxTime = 1
SPECIFICATION Spec
INVARIANT AuthenticatedNotStored
