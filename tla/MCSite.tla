------------------------------- MODULE MCSite -------------------------------
(***************************************************************************)
(* Two sites on one cache root.  /blog and /shop/cart go through the front *)
(* controller /index.php; /shop has a directory of its own, and its cart   *)
(* is for clients Apache knows.                                            *)
(***************************************************************************)
EXTENDS Site, TLC

CONSTANTS w1, w2

Str(s)   == [t |-> "str", v |-> s]
Num(n)   == [t |-> "num", v |-> n]
Bool(b)  == [t |-> "bool", v |-> b]
Arr(s)   == [t |-> "array", v |-> s]
Strs(s)  == Arr([i \in DOMAIN s |-> Str(s[i])])
Obj(f)   == [t |-> "object", v |-> f]
Rules(s) == Obj("rules" :> Arr(s))

Exclude(glob) == Obj("match" :> Obj("path" :> Str(glob)) @@ "enabled" :> Bool(FALSE))

MCGlobs ==
    "/private*" :> {<<"/private">>} @@ "/shop/*" :> {<<"/shop/cart">>}
    @@ "session*" :> {"session"} @@ "text/html" :> {"text/html"}
    @@ "no" :> {<<"no">>}

MCCookieOf == "cookie:lang" :> "lang"

\* site: the shape of README.md's example; plain: caches what it can, by
\* language; shop: an exclusion alone; broken: a syntax error.
MCDocs ==
    "site" :> Rules(<<
        Exclude("/private*"),
        Str("not a rule"),
        Obj("match" :> Obj("query" :> Str("no")) @@ "enabled" :> Bool(FALSE)),
        Obj("match" :> Obj("methods" :> Strs(<<"get", "HEAD">>)) @@ "ttl" :> Num(2)
            @@ "content_types" :> Strs(<<"text/html">>)
            @@ "bypass_cookies" :> Strs(<<"session*">>)
            @@ "vary" :> Strs(<<"cookie:lang">>)) >>)
    @@ "plain" :> Rules(<<Obj("match" :> Obj("methods" :> Strs(<<"POST">>))),
                          Obj("ttl" :> Num(1) @@ "vary" :> Strs(<<"Accept-Language">>)
                              @@ "status_codes" :> Arr(<<Num(200), Num(404)>>)) >>)
    @@ "shop" :> Rules(<<Exclude("/shop/*")>>)
    @@ "broken" :> [t |-> "error"]

Page == <<"/page">>
Odd  == <<"/page", "x">>   \* an escaped '?' in the path
Cart == <<"/shop/cart">>
Front == <<"/index.php">>
Reset == <<"/admin/full-reset">>
Purge == <<"/admin/purge/page">>
Uris == {Page, Odd, Cart, Front, Reset, Purge, <<"/blog">>}

Plain(uri) ==
    [hops |-> <<[path |-> uri, uri |-> uri, args |-> <<>>]>>, main |-> FALSE, method |-> "GET",
     host |-> "a", cookies |-> <<>>, headers |-> <<>>, login |-> FALSE]
Cookie(name, value) == [name |-> name, value |-> value]
Credentials == "Authorization" :> "Basic"

\* Of the known clients some show an Authorization header and some do not;
\* one request for /private was passed through to /blog.
MCRequests ==
    {Plain(Page), Plain(Odd), Plain(<<"/blog">>),
     [Plain(<<"/blog">>) EXCEPT !.hops[1].path = <<"/private">>],
     [Plain(Page) EXCEPT !.hops[1].args = <<"x">>],
     [Plain(Cart) EXCEPT !.hops[1].args = <<"no">>, !.login = TRUE],
     [Plain(Page) EXCEPT !.cookies = <<Cookie("lang", NULL), Cookie("lang", "de")>>,
                         !.headers = "Accept-Language" :> "de"],
     [Plain(Page) EXCEPT !.cookies = <<Cookie("session", "s")>>],
     [Plain(Page) EXCEPT !.method = "HEAD"],
     [Plain(Page) EXCEPT !.method = "POST"],
     [Plain(Page) EXCEPT !.main = TRUE],
     [Plain(Page) EXCEPT !.host = "b"],
     [Plain(Page) EXCEPT !.headers = Credentials],
     Plain(Reset),
     [Plain(Reset) EXCEPT !.headers = Credentials, !.login = TRUE],
     [Plain(Purge) EXCEPT !.login = TRUE]}

MCHeaderNames == {"Content-Type", "X-Cacher", "Age", "Set-Cookie", "Content-Length", "Link"}
HeaderTable(f) == [n \in MCHeaderNames |-> IF n \in DOMAIN f THEN f[n] ELSE <<>>]

MCResponses ==
    {[status |-> 200, type |-> "text/html; charset=UTF-8",
      headers |-> HeaderTable("Link" :> <<"l1", "l2">> @@ "Set-Cookie" :> <<"id">>
                             @@ "Content-Length" :> <<"9">>)],
     [status |-> 404, type |-> NULL, headers |-> HeaderTable("Content-Type" :> <<"text/html">>)]}

MCChain ==
    [u \in Uris |-> IF u = Cart THEN <<"server", "root", "shop">> ELSE <<"server", "root">>]
MCDirOf == "server" :> NoText @@ "root" :> "/srv" @@ "shop" :> "/srv/shop"
MCRewrite == [u \in Uris |-> IF u \in {Page, Odd} THEN u ELSE Front]
MCGuarded == {Reset, Purge, Cart}
MCVhostRoot == "a" :> NoText @@ "b" :> NoText

MCAdminAction ==
    <<"/admin", Reset>> :> [op |-> "full-reset", targets |-> {}]
    @@ <<"/admin", Purge>> :> [op |-> "purge", targets |-> {<<"/page">>}]
    @@ <<"/blog", <<"/blog">>>> :> [op |-> "usage", targets |-> {}]

D(name, arg) == [name |-> name, arg |-> arg]
On == D("CacherEnable", 1)
Global == [dir |-> "/etc", name |-> "rules.json"]
Inline(text) == D("CacherRules", <<" ", "'", text, "'">>)

SiteRoot == <<On, D("CacherRulesFile", Global)>>

MCHtaccess ==
    "root" :> {<<On, Inline("plain"), D("CacherAdminPath", "/blog")>>,
               SiteRoot \o <<D("CacherAdminPath", "/admin"), D("CacherAdminRequireUser", 0),
                             D("CacherStatusHeader", 0)>>}
    @@ "shop" :> {<<>>}

MCContents == Global :> {"broken"}
MCInitFiles == Global :> "site"
Server == Section(NoText, <<D("CacherStatusHeader", 1)>>)
MCInitConf == "server" :> Server @@ "root" :> Section("/srv", SiteRoot)
    @@ "shop" :> Section("/srv/shop", <<Inline("shop")>>)

\* /shop excludes itself; the front controller is governed by the root's rules.
RedirectConf ==
    "server" :> Server @@ "root" :> Section("/srv", <<On, Inline("plain")>>)
    @@ "shop" :> Section("/srv/shop", <<Inline("shop")>>)

\* /page is protected, and asked for by a client with a session.
LoginGuarded == MCGuarded \cup {Page}
LoginRequests == {[Plain(Page) EXCEPT !.login = TRUE]}

Symmetry == Permutations({w1, w2})
=============================================================================
