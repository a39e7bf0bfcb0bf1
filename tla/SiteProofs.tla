----------------------------- MODULE SiteProofs -----------------------------
(***************************************************************************)
(* What a client may be sent and what may be stored, for any site: any     *)
(* rules, settings, rewriting and responses, any number of workers, and    *)
(* edits of the configuration between any two steps.                       *)
(***************************************************************************)
EXTENDS Site, Induction, SequenceTheorems

\* The fields of the record that stands for a request in a worker.
Fields == {"pc", "r", "rs", "rule", "headers_out", "content_type", "status",
           "filter", "served", "entry", "denied"}

\* An idle worker has all of them.
LEMMA IdleFields == DOMAIN Idle = Fields
  BY DEF Idle, Fields

-----------------------------------------------------------------------------
(* The operators the handler is made of.                                   *)

\* A text of one piece put before another.
LEMMA OnePiece ==
    ASSUME NEW p \in Seq(STRING), NEW q \in Seq(STRING), Len(p) = 1
    PROVE  /\ Len(p \o q) = 1 + Len(q) /\ (p \o q)[1] = p[1]
           /\ \A i \in 1..Len(q) : (p \o q)[i + 1] = q[i]
<1>0. /\ Len(p \o q) = Len(p) + Len(q)
      /\ \A i \in 1..Len(p) + Len(q) : (p \o q)[i] = IF i <= Len(p) THEN p[i] ELSE q[i - Len(p)]
  BY ConcatProperties, Zenon
<1>1. Len(p \o q) = 1 + Len(q)
  BY <1>0
<1>2. \A i \in 1..1 + Len(q) : (p \o q)[i] = IF i <= 1 THEN p[i] ELSE q[i - 1]
  BY <1>0
<1>3. ASSUME NEW i \in 1..Len(q) PROVE (p \o q)[i + 1] = q[i]
  <2>1. i + 1 \in 1..1 + Len(q) /\ ~(i + 1 <= 1) /\ (i + 1) - 1 = i
    OBVIOUS
  <2>. QED
    BY <1>2, <2>1
<1>. QED
  BY <1>1, <1>2, <1>3

\* Where the first piece of an address is all of its uri, the address tells
\* uri and query apart.
LEMMA PlainUrl ==
    ASSUME NEW t \in Targets, NEW u \in Targets, Plainly(t), Plainly(u), Url(t) = Url(u)
    PROVE  t.uri = u.uri /\ t.args = u.args
<1>1. /\ t.uri \in Seq(STRING) /\ t.args \in Seq(STRING) /\ Len(t.uri) = 1
      /\ u.uri \in Seq(STRING) /\ u.args \in Seq(STRING) /\ Len(u.uri) = 1
  BY SiteAssumption DEF Targets, Plainly
<1>. DEFINE a == t.uri \o t.args
            b == u.uri \o u.args
<1>2. a = b
  BY DEF Url
<1>3. /\ Len(a) = 1 + Len(t.args) /\ a[1] = t.uri[1]
      /\ \A i \in 1..Len(t.args) : a[i + 1] = t.args[i]
  BY <1>1, OnePiece
<1>4. /\ Len(b) = 1 + Len(u.args) /\ b[1] = u.uri[1]
      /\ \A i \in 1..Len(u.args) : b[i + 1] = u.args[i]
  BY <1>1, OnePiece
<1>. HIDE DEF a, b
<1>5. Len(t.args) = Len(u.args) /\ t.uri[1] = u.uri[1]
  BY <1>1, <1>2, <1>3, <1>4
<1>6. \A i \in 1..Len(t.args) : t.args[i] = u.args[i]
  BY <1>2, <1>3, <1>4, <1>5
<1>. QED
  BY <1>1, <1>5, <1>6

\* An entry found under a key was made for a request that is alike.
LEMMA SameKey ==
    ASSUME NEW by, NEW was, NEW r, NEW rule, IsRequest(by), IsRequest(r),
           build_cache_key_string(by, was) = build_cache_key_string(r, rule)
    PROVE  Alike(by, r, rule)
<1>. DEFINE a == [i \in DOMAIN was.vary |-> <<was.vary[i], VaryValue(by, was.vary[i])>>]
            b == [i \in DOMAIN rule.vary |-> <<rule.vary[i], VaryValue(r, rule.vary[i])>>]
<1>1. by.host = r.host /\ Url(by.hops[1]) = Url(r.hops[1]) /\ a = b
  BY DEF build_cache_key_string, cacher_original_request
<1>2. DOMAIN was.vary = DOMAIN rule.vary
  BY <1>1
<1>3. ASSUME NEW i \in DOMAIN rule.vary
      PROVE  VaryValue(by, rule.vary[i]) = VaryValue(r, rule.vary[i])
  <2>1. a[i] = b[i]
    BY <1>1
  <2>2. <<was.vary[i], VaryValue(by, was.vary[i])>> = <<rule.vary[i], VaryValue(r, rule.vary[i])>>
    BY <1>2, <2>1
  <2>. QED
    BY <2>2
<1>4. by.hops[1] \in Targets /\ r.hops[1] \in Targets
  BY DEF IsRequest
<1>5. Plainly(by.hops[1]) /\ Plainly(r.hops[1]) =>
        by.hops[1].uri = r.hops[1].uri /\ by.hops[1].args = r.hops[1].args
  BY <1>1, <1>4, PlainUrl
<1>. QED
  BY <1>1, <1>3, <1>5 DEF Alike, Asked

\* The rule a request is matched with is one of its ruleset, and if it caches
\* no exclusion came first.
LEMMA FirstRule ==
    ASSUME NEW rs, NEW r,
           Matching(rs, cacher_original_request(r).path, Query(r), r.method) # {}
    PROVE  LET rule == cacher_ruleset_match(rs, cacher_original_request(r).path, Query(r), r.method)
           IN  /\ \E i \in 1..Len(rs.rules) : rule = rs.rules[i]
               /\ rule.enabled => NotExcluded(rs.rules, r)
<1>. DEFINE m == Matching(rs, cacher_original_request(r).path, Query(r), r.method)
            first == CHOOSE i \in m : \A k \in m : i <= k
<1>1. m = {i \in 1..Len(rs.rules) : AppliesTo(rs.rules[i], r)}
  BY DEF Matching, AppliesTo, Asked, Query, cacher_original_request
<1>2. m \subseteq Nat /\ m # {}
  BY <1>1
<1>3. \E i \in m : \A k \in m : i <= k
  <2>. HIDE DEF m
  <2>. QED
    BY <1>2, Least
<1>4. first \in m /\ \A k \in m : first <= k
  <2>. HIDE DEF m
  <2>. QED
    BY <1>3
<1>5. cacher_ruleset_match(rs, cacher_original_request(r).path, Query(r), r.method) = rs.rules[first]
  BY DEF cacher_ruleset_match
<1>. HIDE DEF m, first
<1>6. ASSUME rs.rules[first].enabled PROVE NotExcluded(rs.rules, r)
  <2>. SUFFICES ASSUME NEW i \in 1..Len(rs.rules), ~rs.rules[i].enabled, AppliesTo(rs.rules[i], r)
                PROVE  \E k \in 1..i - 1 : rs.rules[k].enabled /\ AppliesTo(rs.rules[k], r)
    BY DEF NotExcluded
  <2>1. i \in m /\ first <= i /\ first # i /\ first \in 1..Len(rs.rules)
    BY <1>1, <1>4, <1>6
  <2>2. first \in 1..i - 1
    BY <2>1
  <2>. QED
    BY <1>1, <1>4, <1>6, <2>2
<1>. QED
  BY <1>1, <1>4, <1>5, <1>6

\* The ttl of every rule a request can be matched with is a number.
LEMMA TtlIsNumber ==
    ASSUME NEW c, NEW fs, NEW i \in 1..Len(cacher_config_get_ruleset(c, fs).rules)
    PROVE  cacher_config_get_ruleset(c, fs).rules[i].ttl_seconds \in Int
<1>1. \/ \E text \in DOMAIN Docs : cacher_config_get_ruleset(c, fs) = Parsed[text]
      \/ cacher_config_get_ruleset(c, fs) = NoRuleset
  BY Zenon DEF cacher_config_get_ruleset
<1>2. CASE cacher_config_get_ruleset(c, fs) = NoRuleset
  <2>1. Len(NoRuleset.rules) = 0
    BY DEF NoRuleset
  <2>2. 1..0 = {}
    OBVIOUS
  <2>. QED
    BY <1>2, <2>1, <2>2
<1>. QED
  BY <1>1, <1>2, DocsAssumption

\* A status the rule allows is one of its list.
LEMMA AllowedStatus ==
    ASSUME NEW rule, NEW status, cacher_rule_allows_status(rule, status)
    PROVE  status \in Elements(rule.status_codes)
  BY DEF cacher_rule_allows_status, Elements

\* What comes out of an entry is what went in, without the personal headers.
LEMMA ReplayedHeaders ==
    ASSUME NEW table, NEW sent, NEW type, NEW w, NEW age, table = NoHeaders
    PROVE  Repeats(ReplayContentType(type, Dump(sent)),
                   SetHeader(set_status(w, Replay(table, Dump(sent)), "HIT"), "Age", age), sent)
<1>. DEFINE block == Dump(sent)
            one == Replay(table, block)
            two == set_status(w, one, "HIT")
            three == SetHeader(two, "Age", age)
<1>1. \A n \in HeaderNames : block[n] = IF is_uncacheable_header(n) THEN <<>> ELSE sent[n]
  BY DEF Dump
<1>2. sent["Content-Type"] # <<>> => ReplayContentType(type, block) = Last(sent["Content-Type"])
  <2>1. "Content-Type" \in HeaderNames /\ ~is_uncacheable_header("Content-Type")
    BY HeaderNamesAssumption DEF is_uncacheable_header
  <2>2. block["Content-Type"] = sent["Content-Type"]
    BY <1>1, <2>1
  <2>. HIDE DEF block
  <2>. QED
    BY <2>2 DEF ReplayContentType
<1>. HIDE DEF block
<1>3. ASSUME NEW n \in HeaderNames, n \notin {"Content-Type", "X-Cacher", "Age"}
      PROVE  three[n] = IF n \in Personal \/ sent[n] = <<>> THEN <<>> ELSE <<Last(sent[n])>>
  <2>1. DOMAIN one = HeaderNames
    BY DEF Replay
  <2>2. is_uncacheable_header(n) <=> n \in Personal
    BY <1>3 DEF is_uncacheable_header, Personal
  <2>3. one[n] = IF is_uncacheable_header(n) \/ block[n] = <<>> THEN <<>> ELSE <<Last(block[n])>>
    BY <1>3 DEF Replay, NoHeaders
  <2>. HIDE DEF one
  <2>4. two[n] = one[n] /\ DOMAIN two = HeaderNames
    BY <1>3, <2>1 DEF set_status, SetHeader
  <2>. HIDE DEF two
  <2>5. three[n] = two[n]
    BY <1>3, <2>4 DEF SetHeader
  <2>6. one[n] = IF n \in Personal \/ sent[n] = <<>> THEN <<>> ELSE <<Last(sent[n])>>
    BY <1>1, <2>2, <2>3
  <2>. QED
    BY <2>4, <2>5, <2>6
<1>. HIDE DEF three
<1>4. Repeats(ReplayContentType(type, block), three, sent)
  BY <1>2, <1>3 DEF Repeats
<1>. QED
  BY <1>4 DEF block, one, two, three

-----------------------------------------------------------------------------
(* What the steps make of the record of a request.                         *)

\* The last hop of a request, and the one before any redirect.
LEMMA Hops ==
    ASSUME NEW r, IsRequest(r)
    PROVE  /\ Len(r.hops) \in Nat /\ Len(r.hops) > 0
           /\ Current(r) \in Targets /\ Current(r) = r.hops[Len(r.hops)]
  BY DEF IsRequest, Current

\* A worker without a request, and a request that has just arrived.
LEMMA NewJob ==
    /\ JobInv(Idle)
    /\ \A q \in Requests : JobInv([Idle EXCEPT !.pc = "handle", !.r = q])
<1>1. ASSUME NEW q \in Requests, NEW pc \in {"idle", "handle"}, NEW j,
             DOMAIN j = Fields, j.pc = pc, j.r = q, j.headers_out = NoHeaders,
             j.filter = FALSE, j.served = "nothing"
      PROVE  JobInv(j)
  <2>1. IsRequest(q) /\ Len(q.hops) = 1
    BY SiteAssumption
  <2>2. HopsAdmitted(j)
    <3>1. pc \notin {"declined", "capture"}
      OBVIOUS
    <3>2. \A i \in 1..1 : ~(i < 1)
      OBVIOUS
    <3>. QED
      BY <1>1, <2>1, <3>1, <3>2, Zenon DEF HopsAdmitted
  <2>. QED
    BY <1>1, <2>1, <2>2, IdleFields DEF JobInv
<1>2. (CHOOSE q \in Requests : TRUE) \in Requests
  BY SiteAssumption
<1>3. JobInv(Idle)
  <2>1. /\ Idle.pc = "idle" /\ Idle.r = CHOOSE q \in Requests : TRUE
        /\ Idle.headers_out = NoHeaders /\ Idle.filter = FALSE /\ Idle.served = "nothing"
    BY DEF Idle
  <2>. QED
    BY <1>1, <1>2, <2>1, IdleFields
<1>4. ASSUME NEW q \in Requests PROVE JobInv([Idle EXCEPT !.pc = "handle", !.r = q])
  <2>. DEFINE j == [Idle EXCEPT !.pc = "handle", !.r = q]
  <2>1. /\ DOMAIN j = Fields /\ j.pc = "handle" /\ j.r = q
        /\ j.headers_out = NoHeaders /\ j.filter = FALSE /\ j.served = "nothing"
    BY IdleFields DEF Idle, Fields
  <2>. HIDE DEF j
  <2>2. JobInv(j)
    BY <1>1, <2>1
  <2>. QED
    BY <2>2 DEF j
<1>. QED
  BY <1>3, <1>4

\* A request that is answered without the cache.
LEMMA AnswerKeeps ==
    ASSUME NEW j, JobInv(j), j.pc = "handle", NEW k, DOMAIN k = Fields,
           k.pc = "done", k.r = j.r, k.filter = j.filter, k.served \in {"nothing", "admin"}
    PROVE  JobInv(k)
<1>1. IsRequest(k.r) /\ ~k.filter
  BY DEF JobInv
<1>2. HopsAdmitted(k)
  BY DEF JobInv, HopsAdmitted
<1>. QED
  BY <1>1, <1>2, IdleFields DEF JobInv

\* A request that the handler passes on.
LEMMA DeclineKeeps ==
    ASSUME NEW j, JobInv(j), j.pc = "handle",
           Current(j.r).uri \in Guarded => j.r.login,
           NEW k, DOMAIN k = Fields, k.pc = "declined", k.r = j.r, k.served = j.served,
           k.filter => MayCapture(k)
    PROVE  JobInv(k)
<1>1. IsRequest(k.r) /\ k.served = "nothing"
  BY DEF JobInv
<1>2. HopsAdmitted(k)
  <2>. SUFFICES ASSUME NEW i \in 1..Len(j.r.hops), j.r.hops[i].uri \in Guarded
                PROVE  j.r.login
    BY DEF HopsAdmitted
  <2>1. i < Len(j.r.hops) \/ i = Len(j.r.hops)
    BY <1>1, Hops
  <2>2. HopsAdmitted(j)
    BY DEF JobInv
  <2>. QED
    BY <2>1, <2>2, Zenon DEF HopsAdmitted, Current
<1>. QED
  BY <1>1, <1>2, IdleFields DEF JobInv

\* A request that is answered from the cache.
LEMMA HitKeeps ==
    ASSUME NEW j, JobInv(j), j.pc = "handle", NEW k, DOMAIN k = Fields,
           k.pc = "done", k.r = j.r, k.filter = j.filter, k.served = "cache",
           Alike(k.entry.by, k.r, k.rule), NotExcluded(k.rs.rules, k.r),
           Repeats(k.content_type, k.headers_out, k.entry.sent)
    PROVE  JobInv(k)
<1>1. IsRequest(k.r) /\ ~k.filter
  BY DEF JobInv
<1>2. HopsAdmitted(k)
  BY DEF JobInv, HopsAdmitted
<1>. QED
  BY <1>1, <1>2, IdleFields DEF JobInv

\* A request that is redirected: the hop it leaves was admitted.
LEMMA RedirectKeeps ==
    ASSUME NEW j, JobInv(j), j.pc = "declined", NEW k, DOMAIN k = Fields,
           k.pc = "handle", k.served = j.served, k.headers_out = NoHeaders, k.filter = FALSE,
           DOMAIN k.r = DOMAIN j.r, k.r.login = j.r.login,
           k.r.hops = Append(j.r.hops, [path |-> Rewrite[Current(j.r).uri],
                                        uri |-> Rewrite[Current(j.r).uri], args |-> Current(j.r).args])
    PROVE  JobInv(k)
<1>. DEFINE t == [path |-> Rewrite[Current(j.r).uri], uri |-> Rewrite[Current(j.r).uri],
                  args |-> Current(j.r).args]
<1>1. IsRequest(j.r) /\ HopsAdmitted(j) /\ j.served = "nothing"
  BY DEF JobInv
<1>2. t \in Targets
  BY <1>1, Hops, SiteAssumption DEF Targets
<1>. HIDE DEF t
<1>3. j.r.hops \in Seq(Targets) /\ k.r.hops = Append(j.r.hops, t)
  BY <1>1 DEF IsRequest, t
<1>4. /\ k.r.hops \in Seq(Targets) /\ Len(k.r.hops) = Len(j.r.hops) + 1 /\ k.r.hops # <<>>
      /\ \A i \in 1..Len(j.r.hops) : k.r.hops[i] = j.r.hops[i]
  BY <1>2, <1>3
<1>5. IsRequest(k.r)
  BY <1>1, <1>4 DEF IsRequest
<1>6. HopsAdmitted(k)
  <2>. SUFFICES ASSUME NEW i \in 1..Len(k.r.hops), i < Len(k.r.hops), k.r.hops[i].uri \in Guarded
                PROVE  k.r.login
    BY DEF HopsAdmitted
  <2>1. i \in 1..Len(j.r.hops)
    BY <1>1, <1>4, Hops
  <2>2. j.r.hops[i].uri \in Guarded
    BY <1>4, <2>1
  <2>. QED
    BY <1>1, <2>1, <2>2, Zenon DEF HopsAdmitted
<1>. QED
  BY <1>1, <1>5, <1>6, IdleFields DEF JobInv

\* A response arrives; it is captured only for a filter, and with a status the
\* rule allows and no credentials.
LEMMA GenerateKeeps ==
    ASSUME NEW j, JobInv(j), j.pc = "declined", NEW k, DOMAIN k = Fields,
           k.pc \in {"capture", "done"}, k.r = j.r, k.rs = j.rs, k.rule = j.rule,
           k.filter = j.filter, k.served = "origin",
           k.pc = "capture" => j.filter /\ ~j.r.main /\ Authorization(j.r) = NULL
                               /\ cacher_rule_allows_status(j.rule, k.status)
    PROVE  JobInv(k)
<1>1. IsRequest(k.r) /\ (k.filter => MayCapture(k))
  BY DEF JobInv, MayCapture
<1>2. HopsAdmitted(k)
  BY DEF JobInv, HopsAdmitted
<1>. QED
  BY <1>1, <1>2, IdleFields DEF JobInv

\* A capture ends, one way or another.
LEMMA CaptureEnds ==
    ASSUME NEW j, JobInv(j), j.pc = "capture"
    PROVE  JobInv([j EXCEPT !.pc = "done"])
<1>. DEFINE k == [j EXCEPT !.pc = "done"]
<1>1. /\ DOMAIN k = Fields /\ k.pc = "done" /\ k.r = j.r /\ k.rs = j.rs /\ k.rule = j.rule
      /\ k.filter = j.filter /\ k.served = j.served /\ k.entry = j.entry
      /\ k.content_type = j.content_type /\ k.headers_out = j.headers_out
  BY IdleFields DEF JobInv, Fields
<1>. HIDE DEF k
<1>2. IsRequest(k.r) /\ (k.filter => MayCapture(k))
  BY <1>1 DEF JobInv, MayCapture
<1>3. HopsAdmitted(k)
  BY <1>1 DEF JobInv, HopsAdmitted
<1>4. JobInv(k)
  BY <1>1, <1>2, <1>3, IdleFields DEF JobInv
<1>. QED
  BY <1>4 DEF k

-----------------------------------------------------------------------------
(* One lemma for each action, or group of actions with one argument.       *)

\* A step of one worker leaves the records of the others alone.
LEMMA OneJob ==
    ASSUME SiteInv, NEW w \in Workers, NEW k, JobInv(k), job' = [job EXCEPT ![w] = k]
    PROVE  DOMAIN job' = Workers /\ \A u \in Workers : JobInv(job'[u])
<1>1. DOMAIN job = Workers /\ \A u \in Workers : JobInv(job[u])
  BY DEF SiteInv
<1>2. DOMAIN job' = Workers /\ \A u \in Workers : job'[u] = IF u = w THEN k ELSE job[u]
  BY <1>1
<1>. QED
  BY <1>1, <1>2, Zenon

\* Steps that change requests only.
LEMMA JobsOnly ==
    ASSUME SiteInv, UNCHANGED <<conf, files, store, now, edits>>,
           arrived' \in 0..MaxRequests,
           DOMAIN job' = Workers, \A u \in Workers : JobInv(job'[u])
    PROVE  SiteInv'
<1>1. \A u \in Workers : /\ job'[u].pc \in {"idle", "handle", "declined", "capture", "done"}
                         /\ job'[u].served \in {"nothing", "cache", "origin", "admin"}
  BY Zenon DEF JobInv
<1>2. conf' = conf /\ files' = files /\ store' = store /\ now' = now /\ edits' = edits
  OBVIOUS
<1>3. TypeOK /\ \A e \in store : EntryInv(e)
  BY DEF SiteInv
<1>4. TypeOK'
  BY <1>1, <1>2, <1>3, Zenon DEF TypeOK
<1>. QED
  BY <1>2, <1>3, <1>4, Zenon DEF SiteInv

\* Both together, for the steps of a worker that has a request.
LEMMA WorkerStep ==
    ASSUME SiteInv, NEW w \in Workers, NEW k, JobInv(k), job' = [job EXCEPT ![w] = k],
           UNCHANGED <<conf, files, store, now, arrived, edits>>
    PROVE  SiteInv'
<1>1. arrived' \in 0..MaxRequests
  BY DEF SiteInv, TypeOK
<1>2. UNCHANGED <<conf, files, store, now, edits>>
  OBVIOUS
<1>. QED
  BY <1>1, <1>2, OneJob, JobsOnly, Zenon

\* The record of a worker's request.
LEMMA RequestOf ==
    ASSUME SiteInv, NEW w \in Workers
    PROVE  JobInv(job[w]) /\ DOMAIN job[w] = Fields /\ DOMAIN job = Workers
  BY IdleFields, Zenon DEF SiteInv, JobInv

\* A new request takes over an idle worker.
LEMMA ArriveKeeps ==
    ASSUME SiteInv, NEW w \in Workers, NEW q \in Requests, Arrive(w, q)
    PROVE  SiteInv'
<1>1. job' = [job EXCEPT ![w] = [Idle EXCEPT !.pc = "handle", !.r = q]]
  BY DEF Arrive
<1>2. JobInv([Idle EXCEPT !.pc = "handle", !.r = q])
  BY NewJob
<1>3. arrived' \in 0..MaxRequests
  <2>1. arrived \in 0..MaxRequests /\ MaxRequests \in Nat
    BY SiteAssumption DEF SiteInv, TypeOK
  <2>2. arrived < MaxRequests /\ arrived' = arrived + 1
    BY DEF Arrive
  <2>. QED
    BY <2>1, <2>2
<1>4. UNCHANGED <<conf, files, store, now, edits>>
  BY DEF Arrive
<1>. HIDE DEF Arrive
<1>5. DOMAIN job' = Workers /\ \A u \in Workers : JobInv(job'[u])
  BY <1>1, <1>2, OneJob
<1>. QED
  BY <1>3, <1>4, <1>5, JobsOnly

\* A worker is free again.
LEMMA FinishKeeps ==
    ASSUME SiteInv, NEW w \in Workers, Finish(w)
    PROVE  SiteInv'
<1>1. job' = [job EXCEPT ![w] = Idle] /\ UNCHANGED <<conf, files, store, now, arrived, edits>>
  BY DEF Finish
<1>. QED
  BY <1>1, NewJob, WorkerStep

\* Apache refuses the request, or the admin endpoint does.
LEMMA RefuseKeeps ==
    ASSUME SiteInv, NEW w \in Workers, Refuse(w) \/ AdminForbidden(w)
    PROVE  SiteInv'
<1>1. job[w].pc = "handle" /\ UNCHANGED <<conf, files, store, now, arrived, edits>>
  BY DEF Refuse, AdminForbidden, AtAdmin, Handling
<1>2. PICK code : job' = [job EXCEPT ![w].pc = "done", ![w].status = code]
  BY DEF Refuse, AdminForbidden
<1>. DEFINE k == [job[w] EXCEPT !.pc = "done", !.status = code]
<1>3. job' = [job EXCEPT ![w] = k]
  BY <1>2
<1>4. /\ DOMAIN k = Fields /\ k.pc = "done" /\ k.r = job[w].r
      /\ k.filter = job[w].filter /\ k.served = job[w].served
  BY RequestOf DEF Fields
<1>. HIDE DEF k
<1>5. job[w].served = "nothing"
  BY <1>1, RequestOf DEF JobInv
<1>6. JobInv(k)
  BY <1>1, <1>4, <1>5, RequestOf, AnswerKeeps
<1>. QED
  BY <1>1, <1>3, <1>6, WorkerStep

\* The handler declines without a word.
LEMMA PlainDeclineKeeps ==
    ASSUME SiteInv, NEW w \in Workers, HandleSubrequest(w) \/ HandleInactive(w)
    PROVE  SiteInv'
<1>1. /\ job[w].pc = "handle" /\ Admitted(w) /\ job' = [job EXCEPT ![w].pc = "declined"]
      /\ UNCHANGED <<conf, files, store, now, arrived, edits>>
  BY DEF HandleSubrequest, HandleInactive, WasAdmin, Ordinary, Handling, Decline
<1>. DEFINE k == [job[w] EXCEPT !.pc = "declined"]
<1>2. job' = [job EXCEPT ![w] = k]
  BY <1>1
<1>3. /\ DOMAIN k = Fields /\ k.pc = "declined" /\ k.r = job[w].r
      /\ k.filter = job[w].filter /\ k.served = job[w].served
  BY RequestOf DEF Fields
<1>. HIDE DEF k
<1>4. Current(job[w].r).uri \in Guarded => job[w].r.login
  BY <1>1 DEF Admitted, Uri, r_
<1>5. ~k.filter
  BY <1>1, <1>3, RequestOf DEF JobInv
<1>6. JobInv(k)
  BY <1>1, <1>3, <1>4, <1>5, RequestOf, DeclineKeeps
<1>. QED
  BY <1>1, <1>2, <1>6, WorkerStep

\* The handler declines and says why.
LEMMA DeclineAsKeeps ==
    ASSUME SiteInv, NEW w \in Workers, HandleDynamic(w) \/ HandleExcluded(w) \/ HandleBypass(w)
    PROVE  SiteInv'
<1>1. Active(w) /\ \E x, no : DeclineAs(w, x, no)
  BY DEF HandleDynamic, HandleExcluded, HandleBypass, Matched
<1>2. job[w].pc = "handle" /\ Admitted(w)
  BY <1>1 DEF Active, Ordinary, Handling
<1>3. PICK x, no : DeclineAs(w, x, no)
  BY <1>1
<1>. DEFINE k == [job[w] EXCEPT !.pc = "declined", !.rs = Ruleset(w),
                                !.headers_out = set_status(w, @, x), !.denied = @ \/ no]
<1>4. job' = [job EXCEPT ![w] = k] /\ UNCHANGED <<conf, files, store, now, arrived, edits>>
  BY <1>3 DEF DeclineAs
<1>5. /\ DOMAIN k = Fields /\ k.pc = "declined" /\ k.r = job[w].r
      /\ k.filter = job[w].filter /\ k.served = job[w].served
  BY RequestOf DEF Fields
<1>. HIDE DEF k
<1>6. Current(job[w].r).uri \in Guarded => job[w].r.login
  BY <1>2 DEF Admitted, Uri, r_
<1>7. ~k.filter
  BY <1>2, <1>5, RequestOf DEF JobInv
<1>8. JobInv(k)
  BY <1>2, <1>5, <1>6, <1>7, RequestOf, DeclineKeeps
<1>. QED
  BY <1>4, <1>8, WorkerStep

\* What is known of the rule once the cache is consulted.
LEMMA LookingRule ==
    ASSUME SiteInv, NEW w \in Workers, Looking(w)
    PROVE  /\ job[w].pc = "handle" /\ Admitted(w)
           /\ NotExcluded(Ruleset(w).rules, job[w].r)
           /\ Rule(w).enabled /\ ~cacher_request_bypasses(job[w].r, Rule(w))
           /\ Rule(w).ttl_seconds \in Int
<1>1. Active(w) /\ Matched(w) /\ Rule(w).enabled /\ ~Bypassing(w)
  BY DEF Looking, Matched
<1>2. job[w].pc = "handle" /\ Admitted(w)
  BY <1>1 DEF Active, Ordinary, Handling
<1>3. /\ \E i \in 1..Len(Ruleset(w).rules) : Rule(w) = Ruleset(w).rules[i]
      /\ NotExcluded(Ruleset(w).rules, job[w].r)
  BY <1>1, FirstRule DEF Matched, Rule, Orig, r_
<1>4. Rule(w).ttl_seconds \in Int
  BY <1>3, TtlIsNumber DEF Ruleset
<1>. QED
  BY <1>1, <1>2, <1>3, <1>4 DEF Bypassing, r_

\* A miss: the filter is added only for what may be captured.
LEMMA MissKeeps ==
    ASSUME SiteInv, NEW w \in Workers, HandleMiss(w)
    PROVE  SiteInv'
<1>1. Looking(w)
  BY DEF HandleMiss
<1>. DEFINE k == [job[w] EXCEPT !.pc = "declined", !.rs = Ruleset(w), !.rule = Rule(w),
                                !.headers_out = set_status(w, @, "MISS"),
                                !.filter = Capturable(w)]
<1>2. job' = [job EXCEPT ![w] = k] /\ UNCHANGED <<conf, files, store, now, arrived, edits>>
  BY DEF HandleMiss
<1>3. /\ DOMAIN k = Fields /\ k.pc = "declined" /\ k.r = job[w].r /\ k.served = job[w].served
      /\ k.rs = Ruleset(w) /\ k.rule = Rule(w) /\ k.filter = Capturable(w)
  BY RequestOf DEF Fields
<1>. HIDE DEF k
<1>4. Current(job[w].r).uri \in Guarded => job[w].r.login
  BY <1>1, LookingRule DEF Admitted, Uri, r_
<1>5. k.filter => MayCapture(k)
  <2>. SUFFICES ASSUME Capturable(w) PROVE MayCapture(k)
    BY <1>3
  <2>1. CacheRoot(w) # NoText /\ Rule(w).ttl_seconds > 0 /\ job[w].r.method # "HEAD"
    BY DEF Capturable, header_only, r_
  <2>. QED
    BY <1>1, <1>3, <2>1, LookingRule DEF MayCapture, CacheRoot, r_
<1>6. JobInv(k)
  BY <1>1, <1>3, <1>4, <1>5, LookingRule, RequestOf, DeclineKeeps
<1>. QED
  BY <1>2, <1>6, WorkerStep

\* A hit: the key vouches for the request, the entry for what is replayed.
LEMMA HitPreserves ==
    ASSUME SiteInv, NEW w \in Workers, HandleHit(w)
    PROVE  SiteInv'
<1>1. Looking(w) /\ UNCHANGED <<conf, files, store, now, arrived, edits>>
  BY DEF HandleHit
<1>2. PICK e \in Fresh(w) :
        job' = [job EXCEPT
                  ![w].pc = "done", ![w].served = "cache", ![w].entry = e,
                  ![w].rs = Ruleset(w), ![w].rule = Rule(w), ![w].status = e.status,
                  ![w].content_type = ReplayContentType(job[w].content_type, e.block),
                  ![w].headers_out =
                      SetHeader(set_status(w, Replay(job[w].headers_out, e.block), "HIT"), "Age",
                                now - e.created)]
  BY Zenon DEF HandleHit
<1>3. EntryInv(e) /\ e.name = cache_key_paths(w, Rule(w))
  BY DEF Fresh, SiteInv
<1>. DEFINE h == SetHeader(set_status(w, Replay(job[w].headers_out, e.block), "HIT"), "Age",
                           now - e.created)
            k == [job[w] EXCEPT
                    !.pc = "done", !.served = "cache", !.entry = e,
                    !.rs = Ruleset(w), !.rule = Rule(w), !.status = e.status,
                    !.content_type = ReplayContentType(job[w].content_type, e.block),
                    !.headers_out = h]
<1>. HIDE DEF h
<1>4. job' = [job EXCEPT ![w] = k]
  BY <1>2 DEF h
<1>5. /\ DOMAIN k = Fields /\ k.pc = "done" /\ k.r = job[w].r /\ k.served = "cache"
      /\ k.rs = Ruleset(w) /\ k.rule = Rule(w) /\ k.entry = e
      /\ k.filter = job[w].filter /\ k.headers_out = h
      /\ k.content_type = ReplayContentType(job[w].content_type, e.block)
  BY RequestOf DEF Fields
<1>. HIDE DEF k
<1>6. Alike(e.by, job[w].r, Rule(w))
  <2>1. build_cache_key_string(e.by, e.rule) = build_cache_key_string(job[w].r, Rule(w))
    BY <1>3 DEF EntryInv, cache_key_paths, r_
  <2>2. IsRequest(e.by) /\ IsRequest(job[w].r)
    BY <1>3, RequestOf DEF EntryInv, JobInv
  <2>. QED
    BY <2>1, <2>2, SameKey
<1>7. Repeats(ReplayContentType(job[w].content_type, e.block), h, e.sent)
  <2>1. e.block = Dump(e.sent)
    BY <1>3 DEF EntryInv
  <2>2. job[w].headers_out = NoHeaders
    BY <1>1, LookingRule, RequestOf DEF JobInv
  <2>. QED
    BY <2>1, <2>2, ReplayedHeaders DEF h
<1>8. JobInv(k)
  BY <1>1, <1>5, <1>6, <1>7, LookingRule, RequestOf, HitKeeps
<1>. QED
  BY <1>1, <1>4, <1>8, WorkerStep

\* The internal redirect.
LEMMA RedirectPreserves ==
    ASSUME SiteInv, NEW w \in Workers, Redirect(w)
    PROVE  SiteInv'
<1>. DEFINE x == Redirected(job[w].r)
            k == [job[w] EXCEPT !.pc = "handle", !.filter = FALSE, !.rs = NoRuleset,
                                !.rule = NoRule, !.headers_out = NoHeaders, !.r = x]
<1>1. /\ job[w].pc = "declined"
      /\ UNCHANGED <<conf, files, store, now, arrived, edits>>
      /\ job' = [job EXCEPT ![w] = k]
  BY DEF Redirect
<1>2. DOMAIN job[w].r = {"hops", "main", "method", "host", "cookies", "headers", "login"}
  BY RequestOf DEF JobInv, IsRequest
<1>3. /\ DOMAIN k = Fields /\ k.pc = "handle" /\ k.served = job[w].served
      /\ k.headers_out = NoHeaders /\ k.filter = FALSE /\ k.r = x
  BY RequestOf DEF Fields
<1>4. /\ DOMAIN x = DOMAIN job[w].r /\ x.login = job[w].r.login
      /\ x.hops = Append(job[w].r.hops, [path |-> Rewrite[Current(job[w].r).uri],
                                         uri |-> Rewrite[Current(job[w].r).uri],
                                         args |-> Current(job[w].r).args])
  BY <1>2 DEF Redirected
<1>. HIDE DEF k, x
<1>5. JobInv(k)
  BY <1>1, <1>3, <1>4, RequestOf, RedirectKeeps
<1>. QED
  BY <1>1, <1>5, WorkerStep

\* The generator answers.
LEMMA GeneratePreserves ==
    ASSUME SiteInv, NEW w \in Workers, NEW a \in Responses, NEW flushed \in BOOLEAN,
           Generate(w, a, flushed)
    PROVE  SiteInv'
<1>1. PICK type, headers :
        job' = [job EXCEPT ![w].pc = IF Cacheable(w, a, type) THEN "capture" ELSE "done",
                           ![w].served = "origin", ![w].status = a.status,
                           ![w].content_type = a.type, ![w].headers_out = headers]
  BY DEF Generate
<1>2. job[w].pc = "declined" /\ UNCHANGED <<conf, files, store, now, arrived, edits>>
  BY DEF Generate
<1>. DEFINE k == [job[w] EXCEPT !.pc = IF Cacheable(w, a, type) THEN "capture" ELSE "done",
                                !.served = "origin", !.status = a.status,
                                !.content_type = a.type, !.headers_out = headers]
<1>3. job' = [job EXCEPT ![w] = k]
  BY <1>1
<1>4. /\ DOMAIN k = Fields /\ k.pc = IF Cacheable(w, a, type) THEN "capture" ELSE "done"
      /\ k.r = job[w].r /\ k.rs = job[w].rs /\ k.rule = job[w].rule
      /\ k.filter = job[w].filter /\ k.served = "origin" /\ k.status = a.status
  BY RequestOf DEF Fields
<1>. HIDE DEF k
<1>5. k.pc \in {"capture", "done"}
      /\ (k.pc = "capture" => /\ job[w].filter /\ ~job[w].r.main /\ Authorization(job[w].r) = NULL
                              /\ cacher_rule_allows_status(job[w].rule, k.status))
  BY <1>4 DEF Cacheable, r_
<1>6. JobInv(k)
  BY <1>2, <1>4, <1>5, RequestOf, GenerateKeeps
<1>. QED
  BY <1>2, <1>3, <1>6, WorkerStep

\* The capture comes to nothing.
LEMMA AbandonPreserves ==
    ASSUME SiteInv, NEW w \in Workers, Abandon(w)
    PROVE  SiteInv'
<1>1. /\ job[w].pc = "capture" /\ job' = [job EXCEPT ![w] = [job[w] EXCEPT !.pc = "done"]]
      /\ UNCHANGED <<conf, files, store, now, arrived, edits>>
  BY DEF Abandon
<1>. QED
  BY <1>1, RequestOf, CaptureEnds, WorkerStep

\* The capture is published: what the handler and the filter made sure of is
\* what the entry promises.
LEMMA PublishPreserves ==
    ASSUME SiteInv, NEW w \in Workers, Publish(w)
    PROVE  SiteInv'
<1>. DEFINE n == NewEntry(w)
<1>1. /\ job[w].pc = "capture" /\ job' = [job EXCEPT ![w] = [job[w] EXCEPT !.pc = "done"]]
      /\ store' = {e \in store : e.name # n.name} \cup {n}
      /\ conf' = conf /\ files' = files /\ now' = now /\ arrived' = arrived /\ edits' = edits
  BY DEF Publish
<1>2. DOMAIN job' = Workers /\ \A u \in Workers : JobInv(job'[u])
  BY <1>1, RequestOf, CaptureEnds, OneJob
<1>3. /\ JobInv(job[w]) /\ MayCapture(job[w]) /\ HopsAdmitted(job[w])
      /\ Authorization(job[w].r) = NULL /\ ~job[w].r.main
      /\ job[w].status \in Elements(job[w].rule.status_codes)
  BY <1>1, RequestOf, AllowedStatus DEF JobInv
<1>4. /\ n.name = [root |-> CacheRoot(w), key |-> build_cache_key_string(job[w].r, job[w].rule)]
      /\ n.by = job[w].r /\ n.rule = job[w].rule /\ n.status = job[w].status
      /\ n.created = now /\ n.expires = now + job[w].rule.ttl_seconds
      /\ n.sent = job[w].headers_out /\ n.block = Dump(n.sent)
      /\ n.url.host = n.by.host /\ n.url.target = Url(Asked(n.by))
  BY DEF NewEntry, cache_key_paths, r_, Orig, cacher_original_request, Asked
<1>. HIDE DEF n
<1>5. EntryInv(n)
  <2>1. /\ n.name.root # NoText /\ n.name.key = build_cache_key_string(n.by, n.rule)
        /\ n.name.root = cacher_merge_server_config(MainRoot, VhostRoot[n.by.host])
    BY <1>3, <1>4 DEF MayCapture, CacheRoot, r_
  <2>2. n.expires > n.created
    <3>1. now \in Nat /\ job[w].rule.ttl_seconds \in Int /\ job[w].rule.ttl_seconds > 0
      BY <1>3 DEF SiteInv, TypeOK, MayCapture
    <3>. QED
      BY <1>4, <3>1
  <2>3. Shareable(n)
    <3>1. ~n.by.login => \A i \in 1..Len(n.by.hops) : n.by.hops[i].uri \notin Guarded
      BY <1>1, <1>3, <1>4 DEF HopsAdmitted
    <3>. QED
      BY <1>3, <1>4, <3>1 DEF Shareable, MayCapture
  <2>4. IsRequest(n.by)
    BY <1>3, <1>4 DEF JobInv
  <2>. QED
    BY <1>4, <2>1, <2>2, <2>3, <2>4 DEF EntryInv
<1>6. \A e \in store' : EntryInv(e)
  BY <1>1, <1>5 DEF SiteInv
<1>7. DOMAIN n.block = HeaderNames
  BY <1>4 DEF Dump
<1>8. TypeOK
  BY DEF SiteInv
<1>9. \A e, f \in store' : e.name = f.name => e = f
  BY <1>1, <1>8, Zenon DEF TypeOK
<1>10. \A e \in store' : /\ e.name.root # NoText /\ e.expires > e.created
                         /\ DOMAIN e.block = HeaderNames
  BY <1>1, <1>5, <1>7, <1>8 DEF TypeOK, EntryInv
<1>11. \A u \in Workers : /\ job'[u].pc \in {"idle", "handle", "declined", "capture", "done"}
                          /\ job'[u].served \in {"nothing", "cache", "origin", "admin"}
  BY <1>2, Zenon DEF JobInv
<1>12. TypeOK'
  BY <1>1, <1>8, <1>9, <1>10, <1>11, Zenon DEF TypeOK
<1>. QED
  BY <1>1, <1>2, <1>6, <1>12, Zenon DEF SiteInv

\* An administrative action only takes entries away.
LEMMA AdminPreserves ==
    ASSUME SiteInv, NEW w \in Workers, AdminHandle(w)
    PROVE  SiteInv'
<1>1. /\ job[w].pc = "handle" /\ store' \subseteq store
      /\ conf' = conf /\ files' = files /\ now' = now /\ arrived' = arrived /\ edits' = edits
  BY DEF AdminHandle, AtAdmin, Handling
<1>2. PICK code : job' = [job EXCEPT ![w].pc = "done", ![w].served = "admin", ![w].status = code]
  BY DEF AdminHandle
<1>. DEFINE k == [job[w] EXCEPT !.pc = "done", !.served = "admin", !.status = code]
<1>3. job' = [job EXCEPT ![w] = k]
  BY <1>2
<1>4. /\ DOMAIN k = Fields /\ k.pc = "done" /\ k.r = job[w].r
      /\ k.filter = job[w].filter /\ k.served = "admin"
  BY RequestOf DEF Fields
<1>. HIDE DEF k
<1>5. JobInv(k)
  BY <1>1, <1>4, RequestOf, AnswerKeeps
<1>6. DOMAIN job' = Workers /\ \A u \in Workers : JobInv(job'[u])
  BY <1>3, <1>5, OneJob
<1>7. \A u \in Workers : /\ job'[u].pc \in {"idle", "handle", "declined", "capture", "done"}
                         /\ job'[u].served \in {"nothing", "cache", "origin", "admin"}
  BY <1>6, Zenon DEF JobInv
<1>8. TypeOK /\ \A e \in store : EntryInv(e)
  BY DEF SiteInv
<1>9. TypeOK'
  BY <1>1, <1>7, <1>8, Zenon DEF TypeOK
<1>. QED
  BY <1>1, <1>6, <1>8, <1>9, Zenon DEF SiteInv

\* Edits, the clock, and nothing at all: requests and entries stay as they are.
LEMMA OthersPreserve ==
    ASSUME SiteInv,
           \/ \E l \in DOMAIN Htaccess : \E ds \in Htaccess[l] : EditHtaccess(l, ds)
           \/ \E f \in DOMAIN Contents : \E text \in Contents[f] : EditFile(f, text)
           \/ Tick \/ UNCHANGED vars
    PROVE  SiteInv'
<1>1. job' = job /\ store' = store
  BY DEF EditHtaccess, EditFile, Tick, vars
<1>2. DOMAIN conf' \subseteq DOMAIN DirOf /\ DOMAIN files' = DOMAIN InitFiles
  <2>1. DOMAIN conf \subseteq DOMAIN DirOf /\ DOMAIN files = DOMAIN InitFiles
    BY DEF SiteInv, TypeOK
  <2>2. ASSUME NEW l \in DOMAIN Htaccess, NEW ds, EditHtaccess(l, ds)
        PROVE  DOMAIN conf' \subseteq DOMAIN DirOf /\ files' = files
    <3>1. DOMAIN conf' \subseteq DOMAIN conf \cup {l} /\ files' = files
      BY <2>2 DEF EditHtaccess
    <3>. QED
      BY <2>1, <3>1, SiteAssumption
  <2>3. ASSUME NEW f, NEW text, EditFile(f, text)
        PROVE  conf' = conf /\ DOMAIN files' = DOMAIN files
    BY <2>3 DEF EditFile
  <2>4. Tick \/ UNCHANGED vars => conf' = conf /\ files' = files
    BY DEF Tick, vars
  <2>. QED
    BY <2>1, <2>2, <2>3, <2>4
<1>3. now' \in Nat /\ arrived' \in 0..MaxRequests /\ edits' \in 0..MaxEdits
  <2>1. now \in Nat /\ arrived \in 0..MaxRequests /\ edits \in 0..MaxEdits /\ MaxEdits \in Nat
    BY SiteAssumption DEF SiteInv, TypeOK
  <2>2. ASSUME edits < MaxEdits, edits' = edits + 1, UNCHANGED <<now, arrived>>
        PROVE  now' \in Nat /\ arrived' \in 0..MaxRequests /\ edits' \in 0..MaxEdits
    BY <2>1, <2>2
  <2>3. CASE Tick \/ UNCHANGED vars
    BY <2>1, <2>3 DEF Tick, vars
  <2>. QED
    BY <2>2, <2>3 DEF EditHtaccess, EditFile
<1>4. TypeOK /\ DOMAIN job = Workers /\ (\A w \in Workers : JobInv(job[w])) /\ \A e \in store : EntryInv(e)
  BY DEF SiteInv
<1>5. TypeOK'
  BY <1>1, <1>2, <1>3, <1>4, Zenon DEF TypeOK
<1>6. \A uri \in DOMAIN Chain : Chain[uri][1] \in DOMAIN conf'
  <2>. SUFFICES ASSUME NEW uri \in DOMAIN Chain PROVE Chain[uri][1] \in DOMAIN conf'
    OBVIOUS
  <2>1. Chain[uri][1] \in DOMAIN conf /\ Chain[uri][1] \notin DOMAIN Htaccess
    BY SiteAssumption DEF SiteInv
  <2>2. ASSUME NEW l \in DOMAIN Htaccess, NEW ds, EditHtaccess(l, ds)
        PROVE  DOMAIN conf \ {l} \subseteq DOMAIN conf'
    BY <2>2 DEF EditHtaccess
  <2>3. (\E f, text : EditFile(f, text)) \/ Tick \/ UNCHANGED vars => conf' = conf
    BY DEF EditFile, Tick, vars
  <2>. QED
    BY <2>1, <2>2, <2>3
<1>. QED
  BY <1>1, <1>4, <1>5, <1>6, Zenon DEF SiteInv

\* The server starts with an empty cache and no requests.
LEMMA InitSite == Init => SiteInv
<1>. SUFFICES ASSUME Init PROVE SiteInv
  OBVIOUS
<1>1. DOMAIN job = Workers /\ \A w \in Workers : job[w] = Idle
  BY DEF Init
<1>2. \A w \in Workers : JobInv(job[w])
  BY <1>1, NewJob, Zenon
<1>3. store = {} /\ DOMAIN conf \subseteq DOMAIN DirOf /\ DOMAIN files = DOMAIN InitFiles
  BY SiteAssumption DEF Init
<1>4. now \in Nat /\ arrived \in 0..MaxRequests /\ edits \in 0..MaxEdits
  BY SiteAssumption DEF Init
<1>5. TypeOK
  BY <1>2, <1>3, <1>4, Zenon DEF TypeOK, JobInv
<1>6. \A uri \in DOMAIN Chain : Chain[uri][1] \in DOMAIN conf
  BY SiteAssumption DEF Init
<1>. QED
  BY <1>1, <1>2, <1>3, <1>5, <1>6, Zenon DEF SiteInv

-----------------------------------------------------------------------------
(* The theorems.                                                           *)

\* SiteInv holds whatever the clients ask, the site answers and the operator
\* edits, in any interleaving (cacher_handler, the capture filter, the admin
\* endpoint).
THEOREM SiteInvariant == Spec => []SiteInv
<1>1. SiteInv /\ [Next]_vars => SiteInv'
  <2>. SUFFICES ASSUME SiteInv, [Next]_vars PROVE SiteInv'
    OBVIOUS
  <2>1. ASSUME NEW w \in Workers, NEW q \in Requests, Arrive(w, q) PROVE SiteInv'
    BY <2>1, ArriveKeeps
  <2>2. ASSUME NEW w \in Workers, Step(w) PROVE SiteInv'
    <3>1. CASE Refuse(w) \/ AdminForbidden(w)
      BY <3>1, RefuseKeeps
    <3>2. CASE HandleSubrequest(w) \/ HandleInactive(w)
      BY <3>2, PlainDeclineKeeps
    <3>3. CASE AdminHandle(w)
      BY <3>3, AdminPreserves
    <3>4. CASE HandleDynamic(w) \/ HandleExcluded(w) \/ HandleBypass(w)
      BY <3>4, DeclineAsKeeps
    <3>5. CASE HandleHit(w)
      BY <3>5, HitPreserves
    <3>6. CASE HandleMiss(w)
      BY <3>6, MissKeeps
    <3>7. CASE Redirect(w)
      BY <3>7, RedirectPreserves
    <3>8. CASE Publish(w)
      BY <3>8, PublishPreserves
    <3>9. CASE Abandon(w)
      BY <3>9, AbandonPreserves
    <3>10. CASE Finish(w)
      BY <3>10, FinishKeeps
    <3>11. CASE \E a \in Responses, flushed \in BOOLEAN : Generate(w, a, flushed)
      BY <3>11, GeneratePreserves
    <3>. QED
      BY <2>2, <3>1, <3>2, <3>3, <3>4, <3>5, <3>6, <3>7, <3>8, <3>9, <3>10, <3>11, Zenon DEF Step
  <2>3. CASE \/ \E l \in DOMAIN Htaccess : \E ds \in Htaccess[l] : EditHtaccess(l, ds)
             \/ \E f \in DOMAIN Contents : \E text \in Contents[f] : EditFile(f, text)
             \/ Tick \/ UNCHANGED vars
    BY <2>3, OthersPreserve
  <2>. QED
    BY <2>1, <2>2, <2>3, Zenon DEF Next, Quiescent
<1>. QED
  BY <1>1, InitSite, PTL DEF Spec

\* The variables keep their types, and no two entries have one name.
THEOREM TypeCorrect == Spec => []TypeOK
<1>1. SiteInv => TypeOK
  BY DEF SiteInv
<1>. QED
  BY <1>1, SiteInvariant, PTL

\* Nobody is served what was generated for another site, another address (as
\* text; as uri and query where neither uri hides a '?') or a request that differs
\* in anything the rule in force varies on (cacher_cache_lookup).
THEOREM OnlyEquivalentHits == Spec => []HitIsEquivalent
<1>1. SiteInv => HitIsEquivalent
  BY DEF SiteInv, JobInv, HitIsEquivalent, Hit, r_
<1>. QED
  BY <1>1, SiteInvariant, PTL

\* No response to a request with an Authorization header, a subrequest or a
\* request with a bypass cookie is ever in the cache, nor one to a client Apache
\* does not know that came through a protected uri (cacher_output_filter).
THEOREM OnlyShareableStored == Spec => []StoredIsShareable
<1>1. SiteInv => StoredIsShareable
  BY DEF SiteInv, EntryInv, StoredIsShareable
<1>. QED
  BY <1>1, SiteInvariant, PTL

\* An exclusion that comes first keeps its targets out of the cache.
THEOREM ExclusionsHold == Spec => []ExclusionShields
<1>1. SiteInv => ExclusionShields
  BY DEF SiteInv, JobInv, MayCapture, ExclusionShields, Hit, r_
<1>. QED
  BY <1>1, SiteInvariant, PTL

\* A hit repeats the stored headers and nothing personal.
THEOREM HitsRepeatHeaders == Spec => []HitHeaders
<1>1. SiteInv => HitHeaders
  BY DEF SiteInv, JobInv, HitHeaders, Hit
<1>. QED
  BY <1>1, SiteInvariant, PTL

-----------------------------------------------------------------------------
(* X-Cacher and the admin endpoint.                                        *)

\* What a step can do to what a request is served and with which headers:
\* nothing, take it back, add X-Cacher, or answer from cache, origin or admin.
SameAnswer(j, k) == k.served = j.served /\ k.r = j.r /\ k.headers_out = j.headers_out
NoAnswer(k) == k.served = "nothing" /\ k.headers_out = NoHeaders
SaysWhy(w, j, k) ==
    /\ k.served = j.served /\ k.r = j.r /\ j.pc = "handle"
    /\ \E x \in {"DYNAMIC", "EXCLUDED", "BYPASS", "MISS"} : k.headers_out = set_status(w, j.headers_out, x)
FromCache(w, j, k) ==
    /\ k.served = "cache" /\ j.pc = "handle"
    /\ \E block, age : k.headers_out =
         SetHeader(set_status(w, Replay(j.headers_out, block), "HIT"), "Age", age)
FromOrigin(j, k) ==
    /\ k.served = "origin" /\ j.pc = "declined"
    /\ \E a \in Responses : \E type :
         LET table == AddHeaders(j.headers_out, a.headers)
         IN  k.headers_out \in {table, SetHeader(table, "Content-Type", type)}
ByAdmin(w, j, k) ==
    AdminHandle(w) /\ k.served = "admin" /\ k.r = j.r /\ k.headers_out = j.headers_out

\* There are no other ways.
LEMMA Answers ==
    ASSUME SiteInv, [Next]_vars, NEW u \in Workers
    PROVE  \/ SameAnswer(job[u], job'[u]) \/ NoAnswer(job'[u]) \/ SaysWhy(u, job[u], job'[u])
           \/ FromCache(u, job[u], job'[u]) \/ FromOrigin(job[u], job'[u])
           \/ ByAdmin(u, job[u], job'[u])
<1>0. DOMAIN job = Workers /\ DOMAIN job[u] = Fields
  BY RequestOf
<1>2. ASSUME job' = job PROVE SameAnswer(job[u], job'[u])
  BY <1>2 DEF SameAnswer
<1>3. ASSUME NEW q \in Requests, Arrive(u, q) PROVE NoAnswer(job'[u])
  BY <1>0, <1>3, IdleFields DEF Arrive, NoAnswer, Idle
<1>4. ASSUME Finish(u) PROVE NoAnswer(job'[u])
  BY <1>0, <1>4 DEF Finish, NoAnswer, Idle
<1>5. ASSUME Redirect(u) PROVE NoAnswer(job'[u])
  <2>1. job[u].pc = "declined" /\ job[u].served = "nothing"
    BY <1>5, RequestOf DEF Redirect, JobInv
  <2>. QED
    BY <1>0, <1>5, <2>1 DEF Redirect, NoAnswer, Fields
<1>6. ASSUME Refuse(u) \/ AdminForbidden(u) PROVE SameAnswer(job[u], job'[u])
  BY <1>0, <1>6 DEF Refuse, AdminForbidden, SameAnswer, Fields
<1>7. ASSUME HandleSubrequest(u) \/ HandleInactive(u) \/ Publish(u) \/ Abandon(u)
      PROVE  SameAnswer(job[u], job'[u])
  BY <1>0, <1>7 DEF HandleSubrequest, HandleInactive, Decline, Publish, Abandon, SameAnswer, Fields
<1>8. ASSUME NEW x \in {"DYNAMIC", "EXCLUDED", "BYPASS"}, NEW no, Active(u), DeclineAs(u, x, no)
      PROVE  SaysWhy(u, job[u], job'[u])
  <2>1. job[u].pc = "handle"
    BY <1>8 DEF Active, Ordinary, Handling
  <2>. QED
    BY <1>0, <1>8, <2>1 DEF DeclineAs, SaysWhy, Fields
<1>9. ASSUME HandleMiss(u) PROVE SaysWhy(u, job[u], job'[u])
  <2>1. job[u].pc = "handle"
    BY <1>9, LookingRule DEF HandleMiss
  <2>. QED
    BY <1>0, <1>9, <2>1 DEF HandleMiss, SaysWhy, Fields
<1>10. ASSUME HandleHit(u) PROVE FromCache(u, job[u], job'[u])
  <2>1. job[u].pc = "handle"
    BY <1>10, LookingRule DEF HandleHit
  <2>2. /\ job'[u].served = "cache"
        /\ \E e \in Fresh(u) : job'[u].headers_out =
             SetHeader(set_status(u, Replay(job[u].headers_out, e.block), "HIT"), "Age", now - e.created)
    BY <1>0, <1>10 DEF HandleHit, Fields
  <2>. QED
    BY <2>1, <2>2 DEF FromCache
<1>11. ASSUME NEW a \in Responses, NEW flushed \in BOOLEAN, Generate(u, a, flushed)
       PROVE  FromOrigin(job[u], job'[u])
  <2>. DEFINE table == AddHeaders(job[u].headers_out, a.headers)
  <2>1. job[u].pc = "declined" /\ job'[u].served = "origin"
    BY <1>0, <1>11 DEF Generate, Fields
  <2>2. job'[u].headers_out = IF flushed /\ a.type # NULL
                              THEN SetHeader(table, "Content-Type", a.type) ELSE table
    BY <1>0, <1>11 DEF Generate, Fields
  <2>. QED
    BY <2>1, <2>2 DEF FromOrigin
<1>12. ASSUME AdminHandle(u) PROVE ByAdmin(u, job[u], job'[u])
  BY <1>0, <1>12 DEF AdminHandle, ByAdmin, Fields
<1>13. ASSUME NEW w \in Workers, w # u, (\E q \in Requests : Arrive(w, q)) \/ Step(w)
       PROVE  SameAnswer(job[u], job'[u])
  <2>1. ASSUME \E q \in Requests : Arrive(w, q) PROVE job'[u] = job[u]
    BY <1>0, <1>13, <2>1 DEF Arrive
  <2>2. ASSUME Refuse(w) \/ AdminForbidden(w) \/ AdminHandle(w) PROVE job'[u] = job[u]
    BY <1>0, <1>13, <2>2 DEF Refuse, AdminForbidden, AdminHandle
  <2>3. ASSUME HandleSubrequest(w) \/ HandleInactive(w) PROVE job'[u] = job[u]
    BY <1>0, <1>13, <2>3 DEF HandleSubrequest, HandleInactive, Decline
  <2>4. ASSUME HandleDynamic(w) \/ HandleExcluded(w) \/ HandleBypass(w) PROVE job'[u] = job[u]
    BY <1>0, <1>13, <2>4 DEF HandleDynamic, HandleExcluded, HandleBypass, DeclineAs
  <2>5. ASSUME HandleHit(w) \/ HandleMiss(w) PROVE job'[u] = job[u]
    BY <1>0, <1>13, <2>5 DEF HandleHit, HandleMiss
  <2>6. ASSUME Redirect(w) \/ Publish(w) \/ Abandon(w) \/ Finish(w) PROVE job'[u] = job[u]
    BY <1>0, <1>13, <2>6 DEF Redirect, Publish, Abandon, Finish
  <2>7. ASSUME NEW a \in Responses, NEW flushed \in BOOLEAN, Generate(w, a, flushed)
        PROVE  job'[u] = job[u]
    BY <1>0, <1>13, <2>7 DEF Generate
  <2>8. job'[u] = job[u]
    BY <1>13, <2>1, <2>2, <2>3, <2>4, <2>5, <2>6, <2>7, Zenon DEF Step
  <2>. QED
    BY <2>8 DEF SameAnswer
<1>14. ASSUME Step(u)
       PROVE  \/ SameAnswer(job[u], job'[u]) \/ NoAnswer(job'[u]) \/ SaysWhy(u, job[u], job'[u])
              \/ FromCache(u, job[u], job'[u]) \/ FromOrigin(job[u], job'[u])
              \/ ByAdmin(u, job[u], job'[u])
  <2>1. ASSUME HandleDynamic(u) \/ HandleExcluded(u) \/ HandleBypass(u)
        PROVE  SaysWhy(u, job[u], job'[u])
    BY <1>8, <2>1 DEF HandleDynamic, HandleExcluded, HandleBypass, Matched
  <2>. QED
    BY <1>14, <2>1, <1>4, <1>5, <1>6, <1>7, <1>9, <1>10, <1>11, <1>12, Zenon DEF Step
<1>15. \/ \E w \in Workers : (\E q \in Requests : Arrive(w, q)) \/ Step(w)
       \/ job' = job
  BY DEF Next, EditHtaccess, EditFile, Tick, Quiescent, vars
<1>. QED
  BY <1>2, <1>3, <1>13, <1>14, <1>15, Zenon

\* Setting one header leaves the others and the names alone.
LEMMA OneHeader ==
    ASSUME NEW table, DOMAIN table = HeaderNames, NEW name \in HeaderNames, NEW value
    PROVE  /\ DOMAIN SetHeader(table, name, value) = HeaderNames
           /\ SetHeader(table, name, value)[name] = <<value>>
           /\ \A n \in HeaderNames : n # name => SetHeader(table, name, value)[n] = table[n]
  BY DEF SetHeader

\* The outcome is put into X-Cacher, or nothing is.
LEMMA StatusHeader ==
    ASSUME NEW w, NEW x, NEW table, DOMAIN table = HeaderNames
    PROVE  /\ DOMAIN set_status(w, table, x) = HeaderNames
           /\ set_status(w, table, x)["X-Cacher"] \in {table["X-Cacher"], <<x>>}
<1>1. set_status(w, table, x) = SetHeader(table, "X-Cacher", x) \/ set_status(w, table, x) = table
  BY Zenon DEF set_status
<1>2. "X-Cacher" \in HeaderNames
  BY HeaderNamesAssumption
<1>3. DOMAIN SetHeader(table, "X-Cacher", x) = HeaderNames /\ SetHeader(table, "X-Cacher", x)["X-Cacher"] = <<x>>
  BY <1>2, OneHeader
<1>. QED
  BY <1>1, <1>3, Zenon

\* Every step keeps X-Cacher to what the outcome allows.
LEMMA StatusStep ==
    ASSUME OriginSilent, SiteInv, StatusInv, [Next]_vars
    PROVE  StatusInv'
<1>. SUFFICES ASSUME NEW u \in Workers PROVE Tells(job'[u])
  BY DEF StatusInv
<1>. DEFINE j == job[u]
            k == job'[u]
            X == "X-Cacher"
            Other == {<<>>, <<"DYNAMIC">>, <<"EXCLUDED">>, <<"BYPASS">>, <<"MISS">>}
<1>0. Tells(j) /\ JobInv(j)
  BY RequestOf DEF StatusInv
<1>1. X \in HeaderNames /\ "Age" \in HeaderNames /\ "Content-Type" \in HeaderNames
      /\ X # "Age" /\ X # "Content-Type"
  BY HeaderNamesAssumption
<1>2. DOMAIN NoHeaders = HeaderNames /\ NoHeaders[X] = <<>>
  BY <1>1 DEF NoHeaders
<1>3. j.pc \in {"handle", "declined"} => j.served = "nothing"
  BY <1>0 DEF JobInv
<1>4. j.pc = "handle" => j.headers_out = NoHeaders
  BY <1>0 DEF JobInv
<1>5. DOMAIN j.headers_out = HeaderNames /\ (j.served # "cache" => j.headers_out[X] \in Other)
  BY <1>0 DEF Tells
<1>. HIDE DEF j, k
<1>6. ASSUME SameAnswer(j, k) PROVE Tells(k)
  BY <1>0, <1>6 DEF SameAnswer, Tells
<1>7. ASSUME NoAnswer(k) PROVE Tells(k)
  BY <1>2, <1>7 DEF NoAnswer, Tells
<1>8. ASSUME SaysWhy(u, j, k) PROVE Tells(k)
  <2>1. PICK x \in {"DYNAMIC", "EXCLUDED", "BYPASS", "MISS"} : k.headers_out = set_status(u, NoHeaders, x)
    BY <1>4, <1>8 DEF SaysWhy
  <2>2. DOMAIN k.headers_out = HeaderNames /\ k.headers_out[X] \in {<<>>, <<x>>}
    BY <1>2, <2>1, StatusHeader
  <2>3. k.served # "cache"
    BY <1>3, <1>8 DEF SaysWhy
  <2>. QED
    BY <2>1, <2>2, <2>3 DEF Tells
<1>9. ASSUME FromCache(u, j, k) PROVE Tells(k)
  <2>1. PICK block, age :
          k.headers_out = SetHeader(set_status(u, Replay(NoHeaders, block), "HIT"), "Age", age)
    BY <1>4, <1>9 DEF FromCache
  <2>. DEFINE one == Replay(NoHeaders, block)
              two == set_status(u, one, "HIT")
  <2>2. DOMAIN one = HeaderNames /\ one[X] = <<>>
    BY <1>1, <1>2 DEF Replay, is_uncacheable_header
  <2>. HIDE DEF one
  <2>3. DOMAIN two = HeaderNames /\ two[X] \in {<<>>, <<"HIT">>}
    BY <2>2, StatusHeader
  <2>. HIDE DEF two
  <2>4. k.headers_out = SetHeader(two, "Age", age)
    BY <2>1 DEF one, two
  <2>5. DOMAIN k.headers_out = HeaderNames /\ k.headers_out[X] = two[X]
    BY <1>1, <2>3, <2>4, OneHeader
  <2>. QED
    BY <1>9, <2>3, <2>5 DEF FromCache, Tells
<1>10. ASSUME FromOrigin(j, k) PROVE Tells(k)
  <2>0. PICK a \in Responses : \E type :
          k.headers_out \in {AddHeaders(j.headers_out, a.headers),
                             SetHeader(AddHeaders(j.headers_out, a.headers), "Content-Type", type)}
    BY <1>10 DEF FromOrigin
  <2>1. PICK type :
          k.headers_out \in {AddHeaders(j.headers_out, a.headers),
                             SetHeader(AddHeaders(j.headers_out, a.headers), "Content-Type", type)}
    BY <2>0
  <2>. DEFINE table == AddHeaders(j.headers_out, a.headers)
  <2>2. DOMAIN table = HeaderNames /\ table[X] = j.headers_out[X] \o <<>>
    BY <1>1 DEF AddHeaders, OriginSilent
  <2>3. j.headers_out[X] \in Other
    BY <1>3, <1>5, <1>10 DEF FromOrigin
  <2>4. \A s \in Other : s \o <<>> = s
    <3>1. \A s \in Seq(STRING) : s \o <<>> = s
      OBVIOUS
    <3>. QED
      BY <3>1
  <2>5. table[X] \in Other
    BY <2>2, <2>3, <2>4
  <2>. HIDE DEF table
  <2>6. DOMAIN k.headers_out = HeaderNames /\ k.headers_out[X] \in Other
    BY <1>1, <2>1, <2>2, <2>5, OneHeader DEF table
  <2>. QED
    BY <1>10, <2>6 DEF FromOrigin, Tells
<1>11. ASSUME ByAdmin(u, j, k) PROVE Tells(k)
  <2>1. j.served = "nothing" /\ k.served = "admin" /\ k.headers_out = j.headers_out
    BY <1>3, <1>11 DEF ByAdmin, AdminHandle, AtAdmin, Handling, j
  <2>. QED
    BY <1>5, <2>1 DEF Tells
<1>. QED
  BY <1>6, <1>7, <1>8, <1>9, <1>10, <1>11, Answers DEF j, k

\* With a site that leaves the header alone, X-Cacher is at all times nothing
\* but what set_status wrote for the outcome so far.
THEOREM StatusInvariant ==
    ASSUME OriginSilent
    PROVE  Spec => []StatusInv
<1>1. Init => StatusInv
  <2>. SUFFICES ASSUME Init, NEW w \in Workers PROVE Tells(job[w])
    BY DEF StatusInv
  <2>1. job[w] = Idle
    BY DEF Init
  <2>2. "X-Cacher" \in HeaderNames
    BY HeaderNamesAssumption
  <2>. QED
    BY <2>1, <2>2 DEF Tells, Idle, NoHeaders
<1>2. SiteInv /\ StatusInv /\ [Next]_vars => StatusInv'
  BY StatusStep
<1>. QED
  BY <1>1, <1>2, SiteInvariant, PTL DEF Spec

\* So X-Cacher says HIT of hits only, and of a hit nothing else.
THEOREM StatusIsTrue ==
    ASSUME OriginSilent
    PROVE  Spec => []StatusTellsOutcome
<1>1. StatusInv => StatusTellsOutcome
  <2>. SUFFICES ASSUME StatusInv, NEW w \in Workers
                PROVE  /\ job[w].headers_out["X-Cacher"] = <<"HIT">> => Hit(w)
                       /\ Hit(w) => job[w].headers_out["X-Cacher"] \in {<<>>, <<"HIT">>}
    BY DEF StatusTellsOutcome
  <2>. QED
    BY DEF StatusInv, Tells, Hit
<1>. QED
  BY <1>1, StatusInvariant, PTL

\* As long as the paths of an admin endpoint that asks for no user are behind
\* a <Location>, nothing administrative is done for a client that Apache does not
\* know, by rewriting or otherwise.
THEOREM AdminNeedsCredentials == Spec /\ []AdminProtected => []AdminBehindLocation
<1>1. Init => AdminBehindLocation
  <2>1. \A w \in Workers : Init => job[w].served = "nothing"
    BY DEF Init, Idle
  <2>. QED
    BY <2>1 DEF AdminBehindLocation
<1>2. SiteInv /\ AdminProtected /\ AdminBehindLocation /\ [Next]_vars => AdminBehindLocation'
  <2>. SUFFICES ASSUME SiteInv, AdminProtected, AdminBehindLocation, [Next]_vars,
                       NEW u \in Workers, job'[u].served = "admin"
                PROVE  Current(job'[u].r).uri \in Guarded /\ job'[u].r.login
    BY DEF AdminBehindLocation, Uri, r_
  <2>1. CASE SameAnswer(job[u], job'[u])
    BY <2>1 DEF SameAnswer, AdminBehindLocation, Uri, r_
  <2>2. CASE SaysWhy(u, job[u], job'[u])
    <3>1. job[u].served = "nothing" /\ job[u].served = "admin"
      BY <2>2, RequestOf DEF SaysWhy, JobInv
    <3>. QED
      BY <3>1
  <2>3. CASE ByAdmin(u, job[u], job'[u])
    <3>1. /\ AdminHandle(u) /\ job'[u].r = job[u].r
          /\ Admitted(u) /\ UnderAdmin(u, Uri(u))
          /\ dconf(u).admin_require_user = 0 \/ user(u)
      BY <2>3 DEF ByAdmin, AdminHandle, AtAdmin, Handling, AdminURI
    <3>2. Uri(u) \in DOMAIN Chain
      BY RequestOf, Hops DEF JobInv, Uri, r_, Targets
    <3>3. CASE dconf(u).admin_require_user = 0
      <4>1. Uri(u) \in Guarded
        BY <3>1, <3>2, <3>3 DEF AdminProtected, dconf, UnderAdmin
      <4>. QED
        BY <3>1, <4>1 DEF Admitted, Uri, r_
    <3>4. CASE user(u)
      BY <3>1, <3>4 DEF user, Uri, r_
    <3>. QED
      BY <3>1, <3>3, <3>4
  <2>. QED
    BY <2>1, <2>2, <2>3, Answers DEF NoAnswer, FromCache, FromOrigin
<1>. QED
  BY <1>1, <1>2, SiteInvariant, PTL DEF Spec

-----------------------------------------------------------------------------
(* Inheritance of settings.                                                *)

\* One step of the definition of Merged.
Level(m, levels, settings, i) ==
    IF i = 1 THEN settings[levels[1]]
    ELSE IF levels[i] \in DOMAIN settings
         THEN cacher_merge_dir_config(m[i - 1], settings[levels[i]]) ELSE m[i - 1]

\* The settings m after each of the first n levels.
Solves(m, levels, settings, n) == m = [i \in 1..n |-> Level(m, levels, settings, i)]

\* The definition of Merged has a solution, up to any level.
LEMMA MergeExists ==
    ASSUME NEW levels, NEW settings, NEW len \in Nat
    PROVE  \E m : Solves(m, levels, settings, len)
<1>. USE DEF Solves
<1>. DEFINE T == {n \in Nat : \E m : m = [i \in 1..n |-> Level(m, levels, settings, i)]}
<1>1. 0 \in T
  <2>. DEFINE m == [i \in 1..0 |-> 0]
  <2>1. m = [i \in 1..0 |-> Level(m, levels, settings, i)]
    OBVIOUS
  <2>. QED
    BY <2>1
<1>2. ASSUME NEW n \in Nat, n \in T PROVE n + 1 \in T
  <2>1. PICK m : m = [i \in 1..n |-> Level(m, levels, settings, i)]
    BY <1>2
  <2>. DEFINE g == [i \in 1..n + 1 |-> IF i = n + 1 THEN Level(m, levels, settings, i) ELSE m[i]]
  <2>2. ASSUME NEW i \in 1..n + 1 PROVE g[i] = Level(g, levels, settings, i)
    <3>1. g[i] = Level(m, levels, settings, i)
      <4>1. CASE i = n + 1
        BY <4>1
      <4>2. CASE i # n + 1
        <5>1. i \in 1..n /\ g[i] = m[i]
          BY <4>2
        <5>. QED
          BY <2>1, <5>1
      <4>. QED
        BY <4>1, <4>2
    <3>2. i # 1 => g[i - 1] = m[i - 1]
      OBVIOUS
    <3>. HIDE DEF g
    <3>. QED
      BY <3>1, <3>2, Zenon DEF Level
  <2>3. DOMAIN g = 1..n + 1 /\ g = [i \in 1..n + 1 |-> g[i]]
    OBVIOUS
  <2>. HIDE DEF g
  <2>4. g = [i \in 1..n + 1 |-> Level(g, levels, settings, i)]
    BY <2>2, <2>3
  <2>. QED
    BY <2>4
<1>3. Nat \subseteq T
  <2>. HIDE DEF T
  <2>. QED
    BY <1>1, <1>2, SetInduction
<1>. QED
  BY <1>3

\* What v is to a field after the levels up to i: the value of the last of
\* them that sets it, if there is one.
LastSet(levels, settings, i, field, unset, v) ==
    LET sets(k) == levels[k] \in DOMAIN settings /\ settings[levels[k]][field] # unset
    IN  \/ v = unset /\ \A k \in 1..i : ~sets(k)
        \/ \E k \in 1..i : /\ sets(k) /\ v = settings[levels[k]][field]
                            /\ \A l \in k + 1..i : ~sets(l)

\* The outermost level has what it sets.
LEMMA LastSetFirst ==
    ASSUME NEW levels, NEW settings, NEW field, NEW unset, levels[1] \in DOMAIN settings
    PROVE  LastSet(levels, settings, 1, field, unset, settings[levels[1]][field])
<1>1. 1..1 = {1} /\ 1 + 1..1 = {}
  OBVIOUS
<1>. QED
  BY <1>1, Zenon DEF LastSet

\* A further level changes what it sets.
LEMMA LastSetNext ==
    ASSUME NEW levels, NEW settings, NEW field, NEW unset, NEW i \in Nat, NEW v,
           LastSet(levels, settings, i, field, unset, v)
    PROVE  /\ levels[i + 1] \notin DOMAIN settings =>
                LastSet(levels, settings, i + 1, field, unset, v)
           /\ levels[i + 1] \in DOMAIN settings =>
                LastSet(levels, settings, i + 1, field, unset,
                        Inner(v, settings[levels[i + 1]][field], unset))
<1>. DEFINE sets(k) == levels[k] \in DOMAIN settings /\ settings[levels[k]][field] # unset
<1>1. /\ 1..i + 1 = 1..i \cup {i + 1} /\ i + 1 \in 1..i + 1 /\ (i + 1 + 1)..i + 1 = {}
      /\ \A k \in 1..i : (k + 1)..i + 1 = (k + 1)..i \cup {i + 1}
  OBVIOUS
<1>2. CASE ~sets(i + 1)
  <2>1. LastSet(levels, settings, i + 1, field, unset, v)
    BY <1>1, <1>2, Zenon DEF LastSet
  <2>2. levels[i + 1] \in DOMAIN settings => Inner(v, settings[levels[i + 1]][field], unset) = v
    BY <1>2, Zenon DEF Inner
  <2>. QED
    BY <2>1, <2>2, Zenon
<1>3. CASE sets(i + 1)
  <2>1. Inner(v, settings[levels[i + 1]][field], unset) = settings[levels[i + 1]][field]
    BY <1>3, Zenon DEF Inner
  <2>2. LastSet(levels, settings, i + 1, field, unset, settings[levels[i + 1]][field])
    BY <1>1, <1>3, Zenon DEF LastSet
  <2>. QED
    BY <1>3, <2>1, <2>2, Zenon
<1>. QED
  BY <1>2, <1>3

\* The fields of settings c after the levels up to i.
Inherits(levels, settings, i, c) ==
    /\ LastSet(levels, settings, i, "enabled", UNSET, c["enabled"])
    /\ LastSet(levels, settings, i, "admin_require_user", UNSET, c["admin_require_user"])
    /\ LastSet(levels, settings, i, "status_header", UNSET, c["status_header"])
    /\ LastSet(levels, settings, i, "admin_path", NoText, c["admin_path"])
    /\ LastSet(levels, settings, i, "config_dir", NoText, c["config_dir"])
    /\ LastSet(levels, settings, i, "rules_file", NoFile, c["rules_file"])
    /\ c["rules_file"] = NoFile => LastSet(levels, settings, i, "rules_json", NoText, c["rules_json"])

\* A further level is merged.
LEMMA InheritsNext ==
    ASSUME NEW levels, NEW settings, NEW i \in Nat, NEW c, Inherits(levels, settings, i, c),
           levels[i + 1] \in DOMAIN settings
    PROVE  Inherits(levels, settings, i + 1, cacher_merge_dir_config(c, settings[levels[i + 1]]))
<1>. DEFINE a == settings[levels[i + 1]]
            d == cacher_merge_dir_config(c, a)
<1>1. /\ d["enabled"] = Inner(c["enabled"], a["enabled"], UNSET)
      /\ d["admin_require_user"] = Inner(c["admin_require_user"], a["admin_require_user"], UNSET)
      /\ d["status_header"] = Inner(c["status_header"], a["status_header"], UNSET)
      /\ d["admin_path"] = Inner(c["admin_path"], a["admin_path"], NoText)
      /\ d["config_dir"] = Inner(c["config_dir"], a["config_dir"], NoText)
      /\ d["rules_file"] = Inner(c["rules_file"], a["rules_file"], NoFile)
      /\ d["rules_file"] = NoFile => d["rules_json"] = Inner(c["rules_json"], a["rules_json"], NoText)
  BY DEF cacher_merge_dir_config, InheritedFile
<1>2. d["rules_file"] = NoFile => c["rules_file"] = NoFile
  BY <1>1 DEF Inner
<1>. HIDE DEF d
<1>3. /\ LastSet(levels, settings, i + 1, "enabled", UNSET, d["enabled"])
      /\ LastSet(levels, settings, i + 1, "admin_require_user", UNSET, d["admin_require_user"])
      /\ LastSet(levels, settings, i + 1, "status_header", UNSET, d["status_header"])
  BY <1>1, LastSetNext DEF Inherits
<1>4. /\ LastSet(levels, settings, i + 1, "admin_path", NoText, d["admin_path"])
      /\ LastSet(levels, settings, i + 1, "config_dir", NoText, d["config_dir"])
      /\ LastSet(levels, settings, i + 1, "rules_file", NoFile, d["rules_file"])
  BY <1>1, LastSetNext DEF Inherits
<1>5. d["rules_file"] = NoFile => LastSet(levels, settings, i + 1, "rules_json", NoText, d["rules_json"])
  BY <1>1, <1>2, LastSetNext DEF Inherits
<1>6. Inherits(levels, settings, i + 1, d)
  BY <1>3, <1>4, <1>5 DEF Inherits
<1>. QED
  BY <1>6 DEF d

\* Merging all levels gives each field its last setting.
LEMMA MergedInherits ==
    ASSUME NEW levels, NEW settings, Len(levels) \in Nat, Len(levels) > 0,
           levels[1] \in DOMAIN settings
    PROVE  Inherits(levels, settings, Len(levels), Merged(levels, settings))
<1>. DEFINE len == Len(levels)
            f == CHOOSE m : Solves(m, levels, settings, len)
<1>1. Merged(levels, settings) = f[len]
  BY DEF Merged, Level, Solves
<1>2. f = [i \in 1..len |-> Level(f, levels, settings, i)]
  <2>1. len \in Nat
    OBVIOUS
  <2>. HIDE DEF len
  <2>2. \E m : Solves(m, levels, settings, len)
    BY <2>1, MergeExists
  <2>3. Solves(f, levels, settings, len)
    BY <2>2
  <2>. QED
    BY <2>3 DEF Solves
<1>. HIDE DEF f
<1>3. \A i \in 1..len : f[i] = Level(f, levels, settings, i)
  BY <1>2
<1>. DEFINE T == {n \in Nat : n + 1 <= len => Inherits(levels, settings, n + 1, f[n + 1])}
<1>4. 0 \in T
  <2>1. f[1] = settings[levels[1]]
    BY <1>3 DEF Level
  <2>2. Inherits(levels, settings, 1, f[1])
    BY <2>1, LastSetFirst DEF Inherits
  <2>. QED
    BY <2>2
<1>5. ASSUME NEW n \in Nat, n \in T PROVE n + 1 \in T
  <2>. SUFFICES ASSUME n + 1 + 1 <= len PROVE Inherits(levels, settings, n + 1 + 1, f[n + 1 + 1])
    OBVIOUS
  <2>. DEFINE i == n + 1
  <2>1. i \in Nat /\ i + 1 \in 1..len /\ i + 1 # 1 /\ i + 1 - 1 = i /\ i <= len
    OBVIOUS
  <2>2. Inherits(levels, settings, i, f[i])
    BY <1>5, <2>1
  <2>. HIDE DEF i
  <2>3. f[i + 1] = IF levels[i + 1] \in DOMAIN settings
                   THEN cacher_merge_dir_config(f[i], settings[levels[i + 1]]) ELSE f[i]
    BY <1>3, <2>1 DEF Level
  <2>4. CASE levels[i + 1] \in DOMAIN settings
    BY <2>1, <2>2, <2>3, <2>4, InheritsNext DEF i
  <2>5. CASE levels[i + 1] \notin DOMAIN settings
    <3>1. Inherits(levels, settings, i + 1, f[i])
      BY <2>1, <2>2, <2>5, LastSetNext DEF Inherits
    <3>. QED
      BY <2>3, <2>5, <3>1 DEF i
  <2>. QED
    BY <2>4, <2>5
<1>6. Nat \subseteq T
  <2>. HIDE DEF T
  <2>. QED
    BY <1>4, <1>5, SetInduction
<1>7. len - 1 \in T /\ len - 1 + 1 = len
  <2>1. len - 1 \in Nat /\ len - 1 + 1 = len
    OBVIOUS
  <2>. HIDE DEF T, len
  <2>. QED
    BY <1>6, <2>1
<1>8. Inherits(levels, settings, len, f[len])
  BY <1>7
<1>. QED
  BY <1>1, <1>8

\* The last setting is the nearest one.
LEMMA LastIsNearest ==
    ASSUME NEW uri, NEW field, NEW unset, NEW v, Len(Chain[uri]) \in Nat,
           LastSet(Chain[uri], conf, Len(Chain[uri]), field, unset, v)
    PROVE  v = Nearest(uri, field, unset)
<1>. DEFINE len == Len(Chain[uri])
            set == {i \in 1..len : Chain[uri][i] \in DOMAIN conf /\ conf[Chain[uri][i]][field] # unset}
            best == CHOOSE i \in set : \A j \in set : j <= i
<1>0. Nearest(uri, field, unset) = IF set = {} THEN unset ELSE conf[Chain[uri][best]][field]
  BY DEF Nearest
<1>1. CASE set = {}
  <2>1. v = unset
    BY <1>1 DEF LastSet
  <2>. QED
    BY <1>0, <1>1, <2>1
<1>2. CASE set # {}
  <2>1. PICK k \in set : v = conf[Chain[uri][k]][field] /\ \A l \in k + 1..len : l \notin set
    BY <1>2 DEF LastSet
  <2>2. k \in 1..len /\ \A j \in set : j \in 1..len
    OBVIOUS
  <2>. HIDE DEF set
  <2>3. \A j \in set : j <= k
    BY <2>1, <2>2
  <2>4. best \in set /\ \A j \in set : j <= best
    BY <2>3
  <2>. HIDE DEF best
  <2>5. best = k
    BY <2>2, <2>3, <2>4
  <2>. QED
    BY <1>0, <1>2, <2>1, <2>5
<1>. QED
  BY <1>1, <1>2

\* A request gets every setting from the nearest level that has it, through
\* any number of levels and edits of any of them but the server's.
THEOREM NearestSettings == Spec => []SettingsInherited
<1>1. SiteInv => SettingsInherited
  <2>. SUFFICES ASSUME SiteInv, NEW w \in Workers
                PROVE  LET uri == Uri(w)
                           c   == DirConf(uri)
                       IN  /\ \A f \in {"enabled", "admin_require_user", "status_header"} :
                                c[f] = Nearest(uri, f, UNSET)
                           /\ \A f \in {"admin_path", "config_dir"} : c[f] = Nearest(uri, f, NoText)
                           /\ c.rules_file = Nearest(uri, "rules_file", NoFile)
                           /\ c.rules_file = NoFile => c.rules_json = Nearest(uri, "rules_json", NoText)
    BY DEF SettingsInherited
  <2>. DEFINE uri == Uri(w)
              c == DirConf(uri)
  <2>1. uri \in DOMAIN Chain
    BY RequestOf, Hops DEF JobInv, Uri, r_, Targets
  <2>. HIDE DEF uri
  <2>2. Chain[uri] \in Seq(DOMAIN DirOf) /\ Chain[uri] # <<>> /\ Chain[uri][1] \in DOMAIN conf
    BY <2>1, SiteAssumption DEF SiteInv
  <2>3. Len(Chain[uri]) \in Nat /\ Len(Chain[uri]) > 0
    BY <2>2
  <2>4. Inherits(Chain[uri], conf, Len(Chain[uri]), c)
    BY <2>2, <2>3, MergedInherits DEF DirConf
  <2>. HIDE DEF c
  <2>5. /\ c["enabled"] = Nearest(uri, "enabled", UNSET)
        /\ c["admin_require_user"] = Nearest(uri, "admin_require_user", UNSET)
        /\ c["status_header"] = Nearest(uri, "status_header", UNSET)
    BY <2>3, <2>4, LastIsNearest DEF Inherits
  <2>6. /\ c["admin_path"] = Nearest(uri, "admin_path", NoText)
        /\ c["config_dir"] = Nearest(uri, "config_dir", NoText)
        /\ c["rules_file"] = Nearest(uri, "rules_file", NoFile)
        /\ c["rules_file"] = NoFile => c["rules_json"] = Nearest(uri, "rules_json", NoText)
    BY <2>3, <2>4, LastIsNearest DEF Inherits
  <2>. QED
    BY <2>5, <2>6 DEF uri, c
<1>. QED
  BY <1>1, SiteInvariant, PTL
=============================================================================
