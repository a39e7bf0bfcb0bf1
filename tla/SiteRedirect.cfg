CONSTANTS
    w1 = w1
    w2 = w2
    Workers = {w1, w2}
    Globs <- MCGlobs
    CookieOf <- MCCookieOf
    Docs <- MCDocs
    HeaderNames <- MCHeaderNames
    Requests <- MCRequests
    Responses <- MCResponses
    Chain <- MCChain
    DirOf <- MCDirOf
    Htaccess <- MCHtaccess
    Contents <- MCContents
    InitConf <- RedirectConf
    InitFiles <- MCInitFiles
    Rewrite <- MCRewrite
    Guarded <- MCGuarded
    AdminAction <- MCAdminAction
    MainRoot = "/cache"
    VhostRoot <- MCVhostRoot
    MaxRequests = 2
    MaxEdits = 0
    MaxTime = 1
SPECIFICATION Spec
INVARIANT RefusalIsFinal
