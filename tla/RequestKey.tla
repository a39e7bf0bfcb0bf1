----------------------------- MODULE RequestKey -----------------------------
(***************************************************************************)
(* What the cache looks at in a request (cacher_util.c) and the key it     *)
(* makes of it (cacher_cache.c).  A request is                             *)
(*   hops     the targets it has had, the client's first and, after        *)
(*            internal redirects, r's own last                             *)
(*   main     r->main is set: a subrequest                                 *)
(*   method, host, cookies, headers                                        *)
(*   login    Apache can tell who the client is, if a page asks for that:  *)
(*            by an Authorization header, a certificate or a session       *)
(* with cookies the pieces of the Cookie header between semicolons.        *)
(*                                                                         *)
(* A target is what Apache leaves of a request line after decoding it:     *)
(*   path     parsed_uri.path, which rules are matched on                  *)
(*   uri      r->uri, which a pass-through rewrite or a directory index    *)
(*            may have changed since                                       *)
(*   args     r->args                                                      *)
(* each the sequence of the pieces between its question marks: a decoded   *)
(* uri has more than one if the client sent an escaped '?', and the empty  *)
(* sequence is a NULL pointer.  Targets have no line breaks, and the MD5   *)
(* of the key string is taken to be injective.                             *)
(***************************************************************************)
EXTENDS Rules

CONSTANT CookieOf   \* the cookie named by each "cookie:..." vary entry

NULL == "NULL"

\* Where the redirects have led so far.
Current(r) == r.hops[Len(r.hops)]

\* Mutant: the current request of the chain, not the outermost one.
InnermostRequest(r) == r.hops[Len(r.hops)]

\* The request the client made.
cacher_original_request(r) == r.hops[1]

header_only(r) == r.method = "HEAD"

\* The name=value pairs; a piece without '=' is skipped.
for_each_cookie(r) == SelectSeq(r.cookies, LAMBDA c : c.value # NULL)

cacher_request_bypasses(r, rule) ==
    \E i \in DOMAIN for_each_cookie(r) :
        cacher_rule_bypasses_cookie(rule, for_each_cookie(r)[i].name)

\* The first cookie of that exact name.
cacher_get_cookie(r, name) ==
    LET s == SelectSeq(for_each_cookie(r), LAMBDA c : c.name = name)
    IN  IF s = <<>> THEN NULL ELSE s[1].value

Header(r, name) == IF name \in DOMAIN r.headers THEN r.headers[name] ELSE NULL

\* What a vary entry looks at, absent and empty being the same.
VaryValue(r, entry) ==
    LET value == IF entry \in DOMAIN CookieOf THEN cacher_get_cookie(r, CookieOf[entry])
                                              ELSE Header(r, entry)
    IN  IF value = NULL THEN "" ELSE value

Authorization(r) == Header(r, "Authorization")

Query(r) == LET a == cacher_original_request(r).args IN IF a = <<>> THEN <<"">> ELSE a

\* The text of a target: uri, '?', args, which does not tell whether the first
\* '?' was the client's own or an escaped one of its path.
Url(t) == t.uri \o t.args

\* Mutant: the vary values are left out.
KeyWithoutVary(r, rule) ==
    [method |-> IF header_only(r) THEN "GET" ELSE r.method,
     host   |-> r.host,
     target |-> Url(cacher_original_request(r)),
     vary   |-> <<>>]

\* The lines of the key string.  HEAD shares GET's key.
build_cache_key_string(r, rule) ==
    [method |-> IF header_only(r) THEN "GET" ELSE r.method,
     host   |-> r.host,
     target |-> Url(cacher_original_request(r)),
     vary   |-> [i \in DOMAIN rule.vary |-> <<rule.vary[i], VaryValue(r, rule.vary[i])>>]]
=============================================================================
