-------------------------------- MODULE Site --------------------------------
(***************************************************************************)
(* A running server: requests go through cacher_handler (mod_cacher.c),    *)
(* the cache and the capture filter while .htaccess and rules files are    *)
(* edited.  It puts Rules, RequestKey, HeaderBlock and DirConfig together. *)
(*                                                                         *)
(* The handler runs once for every hop of a request: first for the target  *)
(* the client asked for and, if it declines and the site rewrites that     *)
(* target, again for the one the internal redirect leads to.  A lookup and *)
(* a publication are single steps here; how their system calls interleave  *)
(* is EntryStore's subject, and how a rules file is read RulesCache's.     *)
(***************************************************************************)
EXTENDS RequestKey, HeaderBlock, DirConfig

CONSTANTS
    Workers,      \* requests that can be in progress at once
    Requests,     \* what clients may ask for, each with one hop
    Responses,    \* what the content generator may answer
    Chain,        \* the levels whose settings apply to each uri, outermost first
    DirOf,        \* the directory of each level
    Htaccess,     \* the directive sequences an operator may write at each level
    Contents,     \* the texts an operator may put into each rules file
    InitConf, InitFiles,
    Rewrite,      \* where the site's rewriting sends each uri, itself for none
    Guarded,      \* uris a <Location> protects with Require valid-user
    AdminAction,  \* what <<admin path, uri under it>> asks for
    MainRoot, VhostRoot,                   \* CacherCacheRoot settings
    MaxRequests, MaxEdits, MaxTime         \* bounds of the instance

Targets == [path : Seq(STRING), uri : DOMAIN Chain, args : Seq(STRING)]

IsRequest(r) ==
    /\ DOMAIN r = {"hops", "main", "method", "host", "cookies", "headers", "login"}
    /\ r.hops \in Seq(Targets) /\ r.hops # <<>>

ASSUME SiteAssumption ==
    /\ Requests # {} /\ \A q \in Requests : IsRequest(q) /\ Len(q.hops) = 1
    /\ DOMAIN Chain \subseteq Seq(STRING) \ {<<>>}
    /\ Rewrite \in [DOMAIN Chain -> DOMAIN Chain]
    /\ DOMAIN InitConf \cup DOMAIN Htaccess \subseteq DOMAIN DirOf
    /\ \A uri \in DOMAIN Chain : /\ Chain[uri] \in Seq(DOMAIN DirOf) /\ Chain[uri] # <<>>
                                 /\ Chain[uri][1] \in DOMAIN InitConf \ DOMAIN Htaccess
    /\ MaxRequests \in Nat /\ MaxEdits \in Nat /\ MaxTime \in Nat

VARIABLES
    conf,    \* the settings at each level that has any
    files,   \* the text in each rules file
    store,   \* the published entries
    job,     \* the request in each worker
    now, arrived, edits

vars == <<conf, files, store, job, now, arrived, edits>>

-----------------------------------------------------------------------------
NoRule  == parse_rule(Absent)
NoEntry == [name |-> NoText]
Idle ==
    [pc |-> "idle", r |-> CHOOSE q \in Requests : TRUE,
     rs |-> NoRuleset, rule |-> NoRule,        \* what the handler found
     headers_out |-> NoHeaders, content_type |-> NULL, status |-> 0,
     filter |-> FALSE,                         \* CACHER_OUT is in the chain
     served |-> "nothing", entry |-> NoEntry,  \* what the client is sent
     denied |-> FALSE]                         \* history: a hop said no

Init ==
    /\ conf = InitConf /\ files = InitFiles
    /\ store = {}
    /\ job = [w \in Workers |-> Idle]
    /\ now = 0 /\ arrived = 0 /\ edits = 0

r_(w)     == job[w].r
Uri(w)    == Current(r_(w)).uri
Orig(w)   == cacher_original_request(r_(w))

\* The merged settings for a uri.
DirConf(uri) == Merged(Chain[uri], conf)

dconf(w) == DirConf(Uri(w))
Ruleset(w) == cacher_config_get_ruleset(dconf(w), files)
CacheRoot(w) == cacher_merge_server_config(MainRoot, VhostRoot[r_(w).host])

-----------------------------------------------------------------------------
(* cacher_handler: one action per way out of it, in the order of the code. *)

Arrive(w, q) ==
    /\ job[w].pc = "idle"
    /\ arrived < MaxRequests
    /\ arrived' = arrived + 1
    /\ job' = [job EXCEPT ![w] = [Idle EXCEPT !.pc = "handle", !.r = q]]
    /\ UNCHANGED <<conf, files, store, now, edits>>

Admitted(w) == Uri(w) \in Guarded => r_(w).login

\* r->user: only a <Location> with Require makes Apache find out.
user(w) == Uri(w) \in Guarded /\ r_(w).login

\* Apache's own authorisation comes before any handler.
Refuse(w) ==
    /\ job[w].pc = "handle"
    /\ ~Admitted(w)
    /\ job' = [job EXCEPT ![w].pc = "done", ![w].status = 401]
    /\ UNCHANGED <<conf, files, store, now, arrived, edits>>

UnderAdmin(w, uri) == <<dconf(w).admin_path, uri>> \in DOMAIN AdminAction

Handling(w)  == job[w].pc = "handle" /\ Admitted(w) /\ ~r_(w).main

\* Mutant: the uri the client asked for will do as well.
AdminURIByOrigin(w) == IF UnderAdmin(w, Uri(w)) THEN Uri(w) ELSE Orig(w).uri

\* The uri that decides what is administered.
AdminURI(w) == Uri(w)

AtAdmin(w)   == Handling(w) /\ UnderAdmin(w, AdminURI(w))
WasAdmin(w)  == Handling(w) /\ ~UnderAdmin(w, AdminURI(w)) /\ UnderAdmin(w, Orig(w).uri)
Ordinary(w)  == Handling(w) /\ ~AtAdmin(w) /\ ~WasAdmin(w)
Active(w)    == Ordinary(w) /\ dconf(w).enabled = 1 /\ Ruleset(w).usable

\* DECLINED without a word.
Decline(w) ==
    /\ job' = [job EXCEPT ![w].pc = "declined"]
    /\ UNCHANGED <<conf, files, store, now, arrived, edits>>

HandleSubrequest(w) == job[w].pc = "handle" /\ Admitted(w) /\ r_(w).main /\ Decline(w)

HandleInactive(w) == (WasAdmin(w) \/ (Ordinary(w) /\ ~Active(w))) /\ Decline(w)

AdminForbidden(w) ==
    /\ AtAdmin(w)
    /\ dconf(w).admin_require_user # 0 /\ ~user(w)
    /\ job' = [job EXCEPT ![w].pc = "done", ![w].status = 403]
    /\ UNCHANGED <<conf, files, store, now, arrived, edits>>

\* Mutant: the host is not compared.
SelectedAnyHost(w, action) ==
    {e \in store : /\ e.name.root = CacheRoot(w)
                   /\ \/ action.op = "full-reset"
                      \/ action.op = "purge" /\ e.url.target \in action.targets}

\* visit_entry: only entries of the requesting host are ever touched.
Selected(w, action) ==
    {e \in store : /\ e.name.root = CacheRoot(w) /\ e.url.host = r_(w).host
                   /\ \/ action.op = "full-reset"
                      \/ action.op = "purge" /\ e.url.target \in action.targets}

\* cacher_admin_handle.  Listing and the usage text change nothing; a purge
\* without targets is one that gives no pattern.
AdminHandle(w) ==
    /\ AtAdmin(w)
    /\ dconf(w).admin_require_user = 0 \/ user(w)
    /\ LET action == AdminAction[<<dconf(w).admin_path, AdminURI(w)>>] IN
        /\ store' = store \ Selected(w, action)
        /\ job' = [job EXCEPT
                     ![w].pc = "done", ![w].served = "admin",
                     ![w].status = IF CacheRoot(w) = NoText THEN 200
                                   ELSE IF action.op = "purge" /\ action.targets = {} THEN 400
                                   ELSE IF action.op = "purge" /\ Selected(w, action) = {} THEN 404
                                   ELSE 200]
    /\ UNCHANGED <<conf, files, now, arrived, edits>>

Matched(w) == Active(w) /\ Matching(Ruleset(w), Orig(w).path, Query(r_(w)), r_(w).method) # {}
Rule(w)    == cacher_ruleset_match(Ruleset(w), Orig(w).path, Query(r_(w)), r_(w).method)

set_status(w, table, x) ==
    IF dconf(w).status_header # 0 THEN SetHeader(table, "X-Cacher", x) ELSE table

\* DECLINED with an outcome in X-Cacher; no says that the cache is out of
\* bounds for this request.
DeclineAs(w, x, no) ==
    /\ job' = [job EXCEPT ![w].pc = "declined", ![w].rs = Ruleset(w),
                          ![w].headers_out = set_status(w, @, x),
                          ![w].denied = @ \/ no]
    /\ UNCHANGED <<conf, files, store, now, arrived, edits>>

HandleDynamic(w)  == Active(w) /\ ~Matched(w) /\ DeclineAs(w, "DYNAMIC", FALSE)
HandleExcluded(w) == Matched(w) /\ ~Rule(w).enabled /\ DeclineAs(w, "EXCLUDED", TRUE)

Bypassing(w) == cacher_request_bypasses(r_(w), Rule(w))

HandleBypass(w) ==
    Matched(w) /\ Rule(w).enabled /\ Bypassing(w) /\ DeclineAs(w, "BYPASS", TRUE)

\* The name of an entry: the root and the hash of the key.
cache_key_paths(w, rule) ==
    [root |-> CacheRoot(w), key |-> build_cache_key_string(r_(w), rule)]

\* The entry cacher_cache_lookup would open.
Fresh(w) == {e \in store : e.name = cache_key_paths(w, Rule(w)) /\ e.expires > now}

Looking(w) == Matched(w) /\ Rule(w).enabled /\ ~Bypassing(w)

HandleHit(w) ==
    /\ Looking(w)
    /\ \E e \in Fresh(w) :
         job' = [job EXCEPT
                   ![w].pc = "done", ![w].served = "cache", ![w].entry = e,
                   ![w].rs = Ruleset(w), ![w].rule = Rule(w), ![w].status = e.status,
                   ![w].content_type = ReplayContentType(@, e.block),
                   ![w].headers_out =
                       SetHeader(set_status(w, Replay(@, e.block), "HIT"), "Age", now - e.created)]
    /\ UNCHANGED <<conf, files, store, now, arrived, edits>>

\* Mutant: a rule without a ttl captures as well.
CapturableAnyTtl(w) == CacheRoot(w) # NoText /\ ~header_only(r_(w))

\* cacher_cache_insert_filter's early returns.
Capturable(w) ==
    CacheRoot(w) # NoText /\ Rule(w).ttl_seconds > 0 /\ ~header_only(r_(w))

HandleMiss(w) ==
    /\ Looking(w)
    /\ Fresh(w) = {}
    /\ job' = [job EXCEPT ![w].pc = "declined", ![w].rs = Ruleset(w), ![w].rule = Rule(w),
                          ![w].headers_out = set_status(w, @, "MISS"),
                          ![w].filter = Capturable(w)]
    /\ UNCHANGED <<conf, files, store, now, arrived, edits>>

-----------------------------------------------------------------------------
(* After the handler.                                                      *)

\* The request a rewritten one is turned into.
Redirected(r) ==
    LET uri == Rewrite[Current(r).uri]
    IN  [r EXCEPT !.hops = Append(@, [path |-> uri, uri |-> uri, args |-> Current(r).args])]

\* The rewrite's internal redirect: a new request_rec with fresh headers and
\* without the filter, which was added to the old one.
Redirect(w) ==
    /\ job[w].pc = "declined"
    /\ Rewrite[Uri(w)] # Uri(w)
    /\ job' = [job EXCEPT ![w].pc = "handle", ![w].filter = FALSE,
                          ![w].rs = NoRuleset, ![w].rule = NoRule,
                          ![w].headers_out = NoHeaders, ![w].r = Redirected(@)]
    /\ UNCHANGED <<conf, files, store, now, arrived, edits>>

\* Mutant: credentials are no reason not to store a response.
StoresAuthorised(w, a, type) ==
    /\ job[w].filter
    /\ cacher_rule_allows_status(job[w].rule, a.status)
    /\ cacher_rule_allows_content_type(job[w].rule, type)

\* The filter's first call.
Cacheable(w, a, type) ==
    /\ job[w].filter
    /\ cacher_rule_allows_status(job[w].rule, a.status)
    /\ cacher_rule_allows_content_type(job[w].rule, type)
    /\ ~r_(w).main /\ Authorization(r_(w)) = NULL

\* The generator answers.  Some set only the Content-Type header and leave
\* r->content_type alone; Apache's header filter copies the latter into
\* headers_out when the first brigade passes it, which is before the end of
\* the response only if that takes several.
Generate(w, a, flushed) ==
    LET table == AddHeaders(job[w].headers_out, a.headers)
        type  == IF a.type # NULL THEN a.type
                 ELSE IF table["Content-Type"] # <<>> THEN table["Content-Type"][1] ELSE NULL
    IN
    /\ job[w].pc = "declined"
    /\ Rewrite[Uri(w)] = Uri(w)
    /\ job' = [job EXCEPT
                 ![w].pc = IF Cacheable(w, a, type) THEN "capture" ELSE "done",
                 ![w].served = "origin", ![w].status = a.status, ![w].content_type = a.type,
                 ![w].headers_out = IF flushed /\ a.type # NULL
                                    THEN SetHeader(table, "Content-Type", a.type) ELSE table]
    /\ UNCHANGED <<conf, files, store, now, arrived, edits>>

\* What finalize_cache_entry writes; by, rule and sent are history.
NewEntry(w) ==
    [name |-> cache_key_paths(w, job[w].rule),
     url |-> [method |-> r_(w).method, host |-> r_(w).host, target |-> Url(Orig(w))],
     status |-> job[w].status, created |-> now, expires |-> now + job[w].rule.ttl_seconds,
     block |-> Dump(job[w].headers_out),
     by |-> r_(w), rule |-> job[w].rule, sent |-> job[w].headers_out]

Publish(w) ==
    /\ job[w].pc = "capture"
    /\ store' = {e \in store : e.name # NewEntry(w).name} \cup {NewEntry(w)}
    /\ job' = [job EXCEPT ![w].pc = "done"]
    /\ UNCHANGED <<conf, files, now, arrived, edits>>

\* An aborted client, a short body, a failed write or rename.
Abandon(w) ==
    /\ job[w].pc = "capture"
    /\ job' = [job EXCEPT ![w].pc = "done"]
    /\ UNCHANGED <<conf, files, store, now, arrived, edits>>

Finish(w) ==
    /\ job[w].pc = "done"
    /\ job' = [job EXCEPT ![w] = Idle]
    /\ UNCHANGED <<conf, files, store, now, arrived, edits>>

-----------------------------------------------------------------------------
(* The operator, and time.                                                 *)

\* Only a level with a directive of this module has settings of its own.
EditHtaccess(l, ds) ==
    /\ edits < MaxEdits
    /\ edits' = edits + 1
    /\ conf' = [k \in IF ds = <<>> THEN DOMAIN conf \ {l} ELSE DOMAIN conf \cup {l} |->
                   IF k = l THEN Section(DirOf[l], ds) ELSE conf[k]]
    /\ UNCHANGED <<files, store, job, now, arrived>>

EditFile(f, text) ==
    /\ edits < MaxEdits
    /\ edits' = edits + 1
    /\ files' = [files EXCEPT ![f] = text]
    /\ UNCHANGED <<conf, store, job, now, arrived>>

Tick ==
    /\ now < MaxTime
    /\ now' = now + 1
    /\ UNCHANGED <<conf, files, store, job, arrived, edits>>

Quiescent == (\A w \in Workers : job[w].pc = "idle") /\ UNCHANGED vars

Step(w) ==
    \/ Refuse(w) \/ HandleSubrequest(w) \/ HandleInactive(w) \/ AdminForbidden(w) \/ AdminHandle(w)
    \/ HandleDynamic(w) \/ HandleExcluded(w) \/ HandleBypass(w) \/ HandleHit(w) \/ HandleMiss(w)
    \/ Redirect(w) \/ Publish(w) \/ Abandon(w) \/ Finish(w)
    \/ \E a \in Responses, flushed \in BOOLEAN : Generate(w, a, flushed)

Next ==
    \/ \E w \in Workers : (\E q \in Requests : Arrive(w, q)) \/ Step(w)
    \/ \E l \in DOMAIN Htaccess : \E ds \in Htaccess[l] : EditHtaccess(l, ds)
    \/ \E f \in DOMAIN Contents : \E text \in Contents[f] : EditFile(f, text)
    \/ Tick
    \/ Quiescent

Spec == Init /\ [][Next]_vars

-----------------------------------------------------------------------------
(* Properties.                                                             *)

\* Every variable has its type, and a name stands for one entry.
TypeOK ==
    /\ DOMAIN conf \subseteq DOMAIN DirOf /\ DOMAIN files = DOMAIN InitFiles
    /\ \A e \in store : /\ e.name.root # NoText /\ e.expires > e.created
                        /\ DOMAIN e.block = HeaderNames
    /\ \A e, f \in store : e.name = f.name => e = f
    /\ \A w \in Workers :
         /\ job[w].pc \in {"idle", "handle", "declined", "capture", "done"}
         /\ job[w].served \in {"nothing", "cache", "origin", "admin"}
    /\ now \in Nat /\ arrived \in 0..MaxRequests /\ edits \in 0..MaxEdits

Hit(w)   == job[w].served = "cache"
Asked(r) == r.hops[1]

\* Nothing escaped hides where a target's query begins.
Plainly(t) == Len(t.uri) = 1

\* A request that looks the same to a rule, on the target the client sees.
Alike(by, r, rule) ==
    /\ by.host = r.host
    /\ Url(Asked(by)) = Url(Asked(r))
    /\ Plainly(Asked(by)) /\ Plainly(Asked(r)) =>
         Asked(by).uri = Asked(r).uri /\ Asked(by).args = Asked(r).args
    /\ \A i \in DOMAIN rule.vary : VaryValue(by, rule.vary[i]) = VaryValue(r, rule.vary[i])

\* A client gets from the cache only what was generated for a request like its
\* own: same site, the target the client sees (not the rewritten one), and the
\* same value of everything the rule in force varies on, whichever rule the
\* entry was stored under.  The target is the same as text, since the key joins
\* the decoded uri and the query unescaped; it is the same uri and the same query
\* where neither uri has a '?' of its own.
HitIsEquivalent ==
    \A w \in Workers : Hit(w) => Alike(job[w].entry.by, r_(w), job[w].rule)

\* What the filter's conditions come to for the request behind an entry.
Shareable(e) ==
    /\ Authorization(e.by) = NULL /\ ~e.by.main /\ e.by.method # "HEAD"
    /\ ~e.by.login => \A i \in 1..Len(e.by.hops) : e.by.hops[i].uri \notin Guarded
    /\ e.rule.enabled /\ ~cacher_request_bypasses(e.by, e.rule)
    /\ e.status \in Elements(e.rule.status_codes)

\* cacher_cache.h: captured if "not a subrequest, no Authorization header".  Whatever
\* is stored answered a request with a body and without credentials in a header,
\* that carried no bypass cookie of its rule, and has a status that rule allows;
\* of a client Apache does not know, no hop was protected either.  Whoever is
\* known to Apache without that header is AuthenticatedNotStored's subject.
StoredIsShareable == \A e \in store : Shareable(e)

\* Every exclusion that applies comes after a caching rule that applies.
AppliesTo(rule, r) ==
    Applies(rule, Asked(r).path, IF Asked(r).args = <<>> THEN <<"">> ELSE Asked(r).args, r.method)
NotExcluded(rules, r) ==
    \A i \in 1..Len(rules) :
        ~rules[i].enabled /\ AppliesTo(rules[i], r) =>
            \E k \in 1..i - 1 : rules[k].enabled /\ AppliesTo(rules[k], r)

\* docs/RULES.md: "the first match wins - exclusions included", whatever the
\* rewriting does: an exclusion that no earlier rule overrides keeps the target
\* the client asked for out of the cache, for serving and for capturing.  It is
\* the rules in force where the request has got to that count, not those of an
\* earlier hop, which RefusalIsFinal is about.
ExclusionShields ==
    \A w \in Workers : Hit(w) \/ job[w].filter => NotExcluded(job[w].rs.rules, r_(w))

\* A table and a type repeat what was sent.
Personal == {"Set-Cookie", "Connection", "Keep-Alive", "Transfer-Encoding", "Content-Length"}
Repeats(type, table, sent) ==
    /\ sent["Content-Type"] # <<>> => type = Last(sent["Content-Type"])
    /\ \A n \in HeaderNames \ {"Content-Type", "X-Cacher", "Age"} :
         table[n] = IF n \in Personal \/ sent[n] = <<>> THEN <<>> ELSE <<Last(sent[n])>>

\* A hit repeats the headers of the response it stands for, of a repeated name
\* the last one, and the type if the table had it when the entry was written,
\* but nothing meant for the original requester or connection alone.
HitHeaders ==
    \A w \in Workers :
        Hit(w) => Repeats(job[w].content_type, job[w].headers_out, job[w].entry.sent)

\* X-Cacher says HIT exactly of a hit, or nothing of it with CacherStatusHeader
\* Off, even when the entry was stored while the header was On and said MISS.
StatusTellsOutcome ==
    \A w \in Workers : job[w].pc # "idle" =>
        /\ job[w].headers_out["X-Cacher"] = <<"HIT">> => Hit(w)
        /\ Hit(w) => job[w].headers_out["X-Cacher"] \in {<<>>, <<"HIT">>}

\* README.md: an admin request that arrived by rewrite is refused because "a
\* rewritten admin request would also lose the Require rules protecting it".
\* With the admin paths protected by a <Location>, nobody Apache does not know
\* ever gets an administrative action done.
AdminBehindLocation ==
    \A w \in Workers : job[w].served = "admin" =>
        Uri(w) \in Guarded /\ r_(w).login

\* The setting of the innermost level that has one.
Nearest(uri, field, unset) ==
    LET set == {i \in 1..Len(Chain[uri]) : /\ Chain[uri][i] \in DOMAIN conf
                                           /\ conf[Chain[uri][i]][field] # unset}
    IN  IF set = {} THEN unset
        ELSE conf[Chain[uri][CHOOSE i \in set : \A j \in set : j <= i]][field]

\* A request is handled with each setting of the nearest level that has it, and
\* inline rules of any level count only if no level names a rules file.  The
\* directory a relative rules file is looked up in is a setting like the others:
\* the innermost one, which need not be where CacherRulesFile was set.
SettingsInherited ==
    \A w \in Workers : job[w].pc = "handle" =>
        LET uri == Uri(w)
            c   == DirConf(uri)
        IN
        /\ \A f \in {"enabled", "admin_require_user", "status_header"} :
             c[f] = Nearest(uri, f, UNSET)
        /\ \A f \in {"admin_path", "config_dir"} : c[f] = Nearest(uri, f, NoText)
        /\ c.rules_file = Nearest(uri, "rules_file", NoFile)
        /\ c.rules_file = NoFile => c.rules_json = Nearest(uri, "rules_json", NoText)

\* What a client sees of a request, and what it may count on of an entry.
VisitOf(r) ==
    [host |-> r.host, target |-> Url(Asked(r)), login |-> r.login,
     credentials |-> Authorization(r) # NULL]
Phase(j) ==
    CASE j.pc \in {"handle", "declined"} -> "open"
      [] j.pc = "done" -> j.served
      [] OTHER -> j.pc
ClientOf(j) == [visit |-> VisitOf(j.r), phase |-> Phase(j), status |-> j.status]
CachedAs(e) ==
    [host |-> e.by.host, target |-> Url(Asked(e.by)), status |-> e.status, until |-> e.expires]

AllVisits == {VisitOf(q) : q \in Requests}
Statuses  == {a.status : a \in Responses}
Purgeable == {{}} \cup {AdminAction[x].targets : x \in DOMAIN AdminAction}

Shared == INSTANCE SharedCache WITH
    Visits <- AllVisits, Nobody <- VisitOf(Idle.r), Codes <- Statuses, Scopes <- Purgeable,
    cached <- {CachedAs(e) : e \in store},
    client <- [w \in Workers |-> ClientOf(job[w])],
    clock  <- now

\* Rules, keys, settings, rewriting and their edits are invisible but for what
\* they select: the server as a whole is a cache that repeats to a client only
\* an unexpired response to the same address, as text, of the same site, never
\* stores what a request with credentials got, and loses entries only to a newer
\* response to the same address or to an administrator of their own site, who
\* gets all of them.
KeepsPromise == Shared!Spec

-----------------------------------------------------------------------------
(* What the documentation says and the code does not do.                   *)

\* docs/RULES.md: a request with a bypass cookie is "never served from the
\* cache and never stored into it"; README.md: an exclusion that matches means
\* "the request is not cached".  What one hop refused, no later hop does.
RefusalIsFinal ==
    \A w \in Workers : job[w].denied => ~Hit(w) /\ job[w].pc # "capture"

\* README.md: "an authenticated request must never be captured into the shared
\* cache".  No entry is the answer to a request that Apache authenticated, on
\* whichever hop.
AuthenticatedNotStored ==
    \A e \in store : \A i \in 1..Len(e.by.hops) : e.by.hops[i].uri \notin Guarded

-----------------------------------------------------------------------------
(* The inductive invariant behind the properties.  It says of each request *)
(* in progress and of each entry by itself what makes them safe together.  *)

\* Every hop behind this one was admitted, and so is this one once handled.
HopsAdmitted(j) ==
    \A i \in 1..Len(j.r.hops) :
        i < Len(j.r.hops) \/ j.pc \in {"declined", "capture"} =>
            (j.r.hops[i].uri \in Guarded => j.r.login)

\* What cacher_handler found out before it added the filter.
MayCapture(j) ==
    /\ j.rule.enabled /\ ~cacher_request_bypasses(j.r, j.rule) /\ j.r.method # "HEAD"
    /\ j.rule.ttl_seconds \in Int /\ j.rule.ttl_seconds > 0
    /\ cacher_merge_server_config(MainRoot, VhostRoot[j.r.host]) # NoText
    /\ NotExcluded(j.rs.rules, j.r)

\* A request in progress: what the handler did so far allows what it does next.
JobInv(j) ==
    /\ DOMAIN j = DOMAIN Idle /\ IsRequest(j.r)
    /\ j.pc \in {"idle", "handle", "declined", "capture", "done"}
    /\ j.served \in {"nothing", "cache", "origin", "admin"}
    /\ HopsAdmitted(j)
    /\ j.pc = "handle" => j.headers_out = NoHeaders /\ ~j.filter
    /\ j.pc \in {"handle", "declined"} => j.served = "nothing"
    /\ j.pc = "capture" =>
         /\ j.filter /\ Authorization(j.r) = NULL /\ ~j.r.main
         /\ cacher_rule_allows_status(j.rule, j.status)
         /\ j.served = "origin"
    /\ j.filter => MayCapture(j)
    /\ j.served = "cache" => /\ Alike(j.entry.by, j.r, j.rule) /\ NotExcluded(j.rs.rules, j.r)
                             /\ Repeats(j.content_type, j.headers_out, j.entry.sent)

\* An entry is under the key of the request and rule it was stored for.
EntryInv(e) ==
    /\ e.name.root # NoText /\ e.name.key = build_cache_key_string(e.by, e.rule)
    /\ e.name.root = cacher_merge_server_config(MainRoot, VhostRoot[e.by.host])
    /\ IsRequest(e.by) /\ e.url.host = e.by.host /\ e.url.target = Url(Asked(e.by))
    /\ e.expires > e.created
    /\ e.block = Dump(e.sent)
    /\ Shareable(e)

\* Every request and every entry is safe by itself, and the server level is
\* always configured.
SiteInv ==
    /\ TypeOK
    /\ \A uri \in DOMAIN Chain : Chain[uri][1] \in DOMAIN conf
    /\ DOMAIN job = Workers /\ \A w \in Workers : JobInv(job[w])
    /\ \A e \in store : EntryInv(e)

\* The X-Cacher values an answer may have, from the cache and otherwise.
Tells(j) ==
    /\ DOMAIN j.headers_out = HeaderNames
    /\ j.headers_out["X-Cacher"] \in
         IF j.served = "cache" THEN {<<>>, <<"HIT">>}
         ELSE {<<>>, <<"DYNAMIC">>, <<"EXCLUDED">>, <<"BYPASS">>, <<"MISS">>}

\* X-Cacher is always as set_status left it, also while a request is idle.
StatusInv == \A w \in Workers : Tells(job[w])

\* The site leaves X-Cacher to the module.
OriginSilent == \A a \in Responses : a.headers["X-Cacher"] = <<>>

\* Whoever lets the admin endpoint be used without a user protects its paths.
AdminProtected ==
    \A uri \in DOMAIN Chain :
        DirConf(uri).admin_require_user = 0 /\ <<DirConf(uri).admin_path, uri>> \in DOMAIN AdminAction
            => uri \in Guarded
=============================================================================
