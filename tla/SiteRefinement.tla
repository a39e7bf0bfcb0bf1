--------------------------- MODULE SiteRefinement ---------------------------
(***************************************************************************)
(* The server implements SharedCache: for any rules, settings, rewriting,  *)
(* responses and edits, clients and administrators see no more of the      *)
(* module than a cache that keeps the promises made there.                 *)
(***************************************************************************)
EXTENDS SiteProofs

Clients == [u \in Workers |-> ClientOf(job[u])]
Cached  == {CachedAs(e) : e \in store}

\* The record of one worker is what its client sees.
LEMMA ClientStep ==
    ASSUME SiteInv, NEW w \in Workers, NEW k, job' = [job EXCEPT ![w] = k]
    PROVE  /\ Clients[w] = ClientOf(job[w])
           /\ Clients' = [Clients EXCEPT ![w] = ClientOf(k)]
<1>1. DOMAIN job = Workers
  BY DEF SiteInv
<1>2. \A u \in Workers : job'[u] = IF u = w THEN k ELSE job[u]
  BY <1>1
<1>3. \A u \in Workers : ClientOf(job'[u]) = IF u = w THEN ClientOf(k) ELSE ClientOf(job[u])
  <2>. TAKE u \in Workers
  <2>1. CASE u = w
    BY <1>2, <2>1
  <2>2. CASE u # w
    BY <1>2, <2>2
  <2>. QED
    BY <2>1, <2>2
<1>4. Clients' = [u \in Workers |-> ClientOf(job'[u])]
  BY DEF Clients
<1>5. Clients' = [u \in Workers |-> IF u = w THEN ClientOf(k) ELSE ClientOf(job[u])]
  BY <1>3, <1>4
<1>. QED
  BY <1>5 DEF Clients

\* A step of a worker that keeps its request is a turn of its client.
LEMMA ClientTurns ==
    ASSUME SiteInv, NEW w \in Workers, NEW k, job' = [job EXCEPT ![w] = k],
           VisitOf(k.r) = VisitOf(job[w].r), now' = now
    PROVE  Shared!Turn(w, Phase(job[w]), Phase(k), k.status)
<1>. DEFINE c == ClientOf(job[w])
<1>1. c.visit = VisitOf(job[w].r) /\ c.phase = Phase(job[w])
  BY DEF ClientOf
<1>2. ClientOf(k) = [visit |-> c.visit, phase |-> Phase(k), status |-> k.status]
  BY <1>1 DEF ClientOf
<1>. HIDE DEF c
<1>3. Clients[w] = c /\ Clients' = [Clients EXCEPT ![w] = ClientOf(k)]
  BY ClientStep DEF c
<1>. QED
  BY <1>1, <1>2, <1>3 DEF Shared!Turn, Shared!Visit, Clients

\* A step that changes nothing a client sees.
LEMMA ClientStutters ==
    ASSUME SiteInv, NEW w \in Workers, NEW k, job' = [job EXCEPT ![w] = k],
           ClientOf(k) = ClientOf(job[w]), UNCHANGED <<store, now>>
    PROVE  UNCHANGED Shared!vars
<1>1. Clients' = [Clients EXCEPT ![w] = Clients[w]]
  BY ClientStep
<1>2. Clients' = Clients
  BY <1>1 DEF Clients
<1>. QED
  BY <1>2 DEF Shared!vars, Clients

\* What the client of a worker's request asked for.
LEMMA VisitsOf ==
    ASSUME NEW w \in Workers
    PROVE  /\ Shared!Visit(w) = VisitOf(job[w].r)
           /\ Shared!Visit(w).host = job[w].r.host
           /\ Shared!Visit(w).target = Url(Asked(job[w].r))
           /\ Shared!Visit(w).login = job[w].r.login
           /\ Shared!Visit(w).credentials = (Authorization(job[w].r) # NULL)
  BY DEF Shared!Visit, ClientOf, VisitOf

\* The fields by which an entry is known outside.
LEMMA CachedFields ==
    ASSUME NEW e
    PROVE  /\ CachedAs(e).host = e.by.host /\ CachedAs(e).target = Url(Asked(e.by))
           /\ CachedAs(e).status = e.status /\ CachedAs(e).until = e.expires
  BY DEF CachedAs

-----------------------------------------------------------------------------
(* One lemma for each way a step can look to clients.                      *)

\* A request comes or goes.
LEMMA ArriveRefines ==
    ASSUME SiteInv, NEW w \in Workers, NEW q \in Requests, Arrive(w, q)
    PROVE  Shared!Arrive(w)
<1>. DEFINE k == [Idle EXCEPT !.pc = "handle", !.r = q]
<1>1. job[w].pc = "idle" /\ job' = [job EXCEPT ![w] = k] /\ UNCHANGED <<store, now>>
  BY DEF Arrive
<1>2. k.pc = "handle" /\ k.r = q /\ k.status = 0
  BY DEF Idle
<1>. HIDE DEF k
<1>3. ClientOf(k) = [visit |-> VisitOf(q), phase |-> "open", status |-> 0]
  BY <1>2 DEF ClientOf, Phase
<1>4. ClientOf(job[w]).phase = "idle"
  BY <1>1 DEF ClientOf, Phase
<1>5. Clients[w] = ClientOf(job[w]) /\ Clients' = [Clients EXCEPT ![w] = ClientOf(k)]
  BY <1>1, ClientStep
<1>6. VisitOf(q) \in AllVisits
  BY DEF AllVisits
<1>. QED
  BY <1>1, <1>3, <1>4, <1>5, <1>6 DEF Shared!Arrive, Clients

LEMMA FinishRefines ==
    ASSUME SiteInv, NEW w \in Workers, Finish(w)
    PROVE  Shared!Leave(w)
<1>1. job[w].pc = "done" /\ job' = [job EXCEPT ![w] = Idle] /\ UNCHANGED <<store, now>>
  BY DEF Finish
<1>2. Idle.pc = "idle" /\ Idle.status = 0
  BY DEF Idle
<1>3. ClientOf(Idle) = Shared!Waiting
  BY <1>2 DEF ClientOf, Phase, Shared!Waiting
<1>4. ClientOf(job[w]).phase \in {"nothing", "cache", "origin", "admin"}
  BY <1>1, RequestOf DEF ClientOf, Phase, JobInv
<1>5. Clients[w] = ClientOf(job[w]) /\ Clients' = [Clients EXCEPT ![w] = ClientOf(Idle)]
  BY <1>1, ClientStep
<1>. QED
  BY <1>1, <1>3, <1>4, <1>5 DEF Shared!Leave, Clients

\* Apache refuses the request, or the admin endpoint does.
LEMMA RefuseRefines ==
    ASSUME SiteInv, NEW w \in Workers, Refuse(w) \/ AdminForbidden(w)
    PROVE  \E code \in {401, 403} : Shared!Refuse(w, code)
<1>1. job[w].pc = "handle" /\ UNCHANGED <<store, now>>
  BY DEF Refuse, AdminForbidden, AtAdmin, Handling
<1>2. PICK code : /\ job' = [job EXCEPT ![w].pc = "done", ![w].status = code]
                  /\ code \in {401, 403} /\ (code = 401 => ~job[w].r.login)
  BY DEF Refuse, AdminForbidden, Admitted, r_
<1>. DEFINE k == [job[w] EXCEPT !.pc = "done", !.status = code]
<1>3. job' = [job EXCEPT ![w] = k]
  <2>1. job' = [job EXCEPT ![w].pc = "done", ![w].status = code]
    BY <1>2
  <2>. QED
    BY <2>1
<1>4. k.pc = "done" /\ k.status = code /\ k.r = job[w].r /\ k.served = job[w].served
  BY RequestOf DEF Fields
<1>. HIDE DEF k
<1>5. Phase(job[w]) = "open" /\ Phase(k) = "nothing"
  BY <1>1, <1>4, RequestOf DEF Phase, JobInv
<1>6. Shared!Turn(w, "open", "nothing", code)
  BY <1>1, <1>3, <1>4, <1>5, ClientTurns
<1>7. code \in {401, 403} /\ (code = 401 => ~Shared!Visit(w).login)
  BY <1>2, VisitsOf
<1>8. Cached' = Cached
  BY <1>1 DEF Cached
<1>. QED
  BY <1>6, <1>7, <1>8 DEF Shared!Refuse, Cached

\* The handler declines, or a redirect starts it over.
LEMMA DeclineStutters ==
    ASSUME SiteInv, NEW w \in Workers,
           \/ HandleSubrequest(w) \/ HandleInactive(w) \/ HandleDynamic(w)
           \/ HandleExcluded(w) \/ HandleBypass(w) \/ HandleMiss(w)
    PROVE  UNCHANGED Shared!vars
<1>1. job[w].pc = "handle" /\ UNCHANGED <<store, now>>
  <2>1. Active(w) => job[w].pc = "handle"
    BY DEF Active, Ordinary, Handling
  <2>. QED
    BY <2>1 DEF HandleSubrequest, HandleInactive, WasAdmin, Ordinary, Handling, Decline, HandleDynamic,
                HandleExcluded, HandleBypass, HandleMiss, Looking, Matched, DeclineAs
<1>2. PICK k : /\ job' = [job EXCEPT ![w] = k]
               /\ k.pc = "declined" /\ k.r = job[w].r /\ k.status = job[w].status
  <2>0. DOMAIN job[w] = Fields
    BY RequestOf
  <2>1. CASE HandleSubrequest(w) \/ HandleInactive(w)
    <3>. DEFINE k == [job[w] EXCEPT !.pc = "declined"]
    <3>1. job' = [job EXCEPT ![w] = k]
      BY <2>1 DEF HandleSubrequest, HandleInactive, Decline
    <3>2. k.pc = "declined" /\ k.r = job[w].r /\ k.status = job[w].status
      BY <2>0 DEF Fields
    <3>. QED
      BY <3>1, <3>2
  <2>2. CASE HandleDynamic(w) \/ HandleExcluded(w) \/ HandleBypass(w)
    <3>1. PICK x, no : DeclineAs(w, x, no)
      BY <2>2 DEF HandleDynamic, HandleExcluded, HandleBypass
    <3>. DEFINE k == [job[w] EXCEPT !.pc = "declined", !.rs = Ruleset(w),
                                    !.headers_out = set_status(w, @, x), !.denied = @ \/ no]
    <3>2. job' = [job EXCEPT ![w] = k]
      BY <3>1 DEF DeclineAs
    <3>3. k.pc = "declined" /\ k.r = job[w].r /\ k.status = job[w].status
      BY <2>0 DEF Fields
    <3>. QED
      BY <3>2, <3>3
  <2>3. CASE HandleMiss(w)
    <3>. DEFINE k == [job[w] EXCEPT !.pc = "declined", !.rs = Ruleset(w), !.rule = Rule(w),
                                    !.headers_out = set_status(w, @, "MISS"),
                                    !.filter = Capturable(w)]
    <3>1. job' = [job EXCEPT ![w] = k]
      BY <2>3 DEF HandleMiss
    <3>2. k.pc = "declined" /\ k.r = job[w].r /\ k.status = job[w].status
      BY <2>0 DEF Fields
    <3>. QED
      BY <3>1, <3>2
  <2>. QED
    BY <2>1, <2>2, <2>3
<1>3. ClientOf(k) = ClientOf(job[w])
  BY <1>1, <1>2 DEF ClientOf, Phase
<1>. QED
  BY <1>1, <1>2, <1>3, ClientStutters

LEMMA RedirectStutters ==
    ASSUME SiteInv, NEW w \in Workers, Redirect(w)
    PROVE  UNCHANGED Shared!vars
<1>. DEFINE x == Redirected(job[w].r)
            k == [job[w] EXCEPT !.pc = "handle", !.filter = FALSE, !.rs = NoRuleset,
                                !.rule = NoRule, !.headers_out = NoHeaders, !.r = x]
<1>1. job[w].pc = "declined" /\ job' = [job EXCEPT ![w] = k] /\ UNCHANGED <<store, now>>
  BY DEF Redirect
<1>2. k.pc = "handle" /\ k.r = x /\ k.status = job[w].status
  BY RequestOf DEF Fields
<1>3. /\ DOMAIN job[w].r = {"hops", "main", "method", "host", "cookies", "headers", "login"}
      /\ job[w].r.hops \in Seq(Targets) /\ job[w].r.hops # <<>>
  BY RequestOf DEF JobInv, IsRequest
<1>4. /\ x.host = job[w].r.host /\ x.login = job[w].r.login /\ x.headers = job[w].r.headers
      /\ \E y : x.hops = Append(job[w].r.hops, y)
  BY <1>3 DEF Redirected
<1>5. x.hops[1] = job[w].r.hops[1]
  <2>. DEFINE s == job[w].r.hops
  <2>1. PICK y : x.hops = Append(s, y)
    BY <1>4
  <2>2. s \in Seq(Targets) /\ s # <<>>
    BY <1>3
  <2>. HIDE DEF s
  <2>3. Append(s, y)[1] = s[1]
    BY <2>2
  <2>. QED
    BY <2>1, <2>3 DEF s
<1>. HIDE DEF k, x
<1>6. Authorization(x) = Authorization(job[w].r)
  BY <1>4 DEF Authorization, Header
<1>7. VisitOf(x) = VisitOf(job[w].r)
  BY <1>4, <1>5, <1>6 DEF VisitOf, Asked
<1>8. ClientOf(k) = ClientOf(job[w])
  BY <1>1, <1>2, <1>7 DEF ClientOf, Phase
<1>. QED
  BY <1>1, <1>8, ClientStutters

\* A hit: the key vouches for host and address.
LEMMA HitRefines ==
    ASSUME SiteInv, NEW w \in Workers, HandleHit(w)
    PROVE  Shared!Hit(w)
<1>1. Looking(w) /\ job[w].pc = "handle" /\ UNCHANGED <<store, now>>
  BY LookingRule DEF HandleHit
<1>2. PICK e \in Fresh(w) :
        job' = [job EXCEPT
                  ![w].pc = "done", ![w].served = "cache", ![w].entry = e,
                  ![w].rs = Ruleset(w), ![w].rule = Rule(w), ![w].status = e.status,
                  ![w].content_type = ReplayContentType(job[w].content_type, e.block),
                  ![w].headers_out =
                      SetHeader(set_status(w, Replay(job[w].headers_out, e.block), "HIT"), "Age",
                                now - e.created)]
  BY Zenon DEF HandleHit
<1>. DEFINE type == ReplayContentType(job[w].content_type, e.block)
            headers == SetHeader(set_status(w, Replay(job[w].headers_out, e.block), "HIT"), "Age",
                                 now - e.created)
<1>. DEFINE k == [job[w] EXCEPT !.pc = "done", !.served = "cache", !.entry = e,
                                !.rs = Ruleset(w), !.rule = Rule(w), !.status = e.status,
                                !.content_type = type, !.headers_out = headers]
<1>. HIDE DEF type, headers
<1>4. job' = [job EXCEPT ![w] = k]
  BY <1>2 DEF type, headers
<1>5. k.pc = "done" /\ k.served = "cache" /\ k.status = e.status /\ k.r = job[w].r
  BY RequestOf DEF Fields
<1>. HIDE DEF k
<1>6. Phase(job[w]) = "open" /\ Phase(k) = "cache"
  BY <1>1, <1>5 DEF Phase
<1>7. Shared!Turn(w, "open", "cache", e.status)
  BY <1>1, <1>4, <1>5, <1>6, ClientTurns
<1>8. e \in store /\ EntryInv(e) /\ e.name = cache_key_paths(w, Rule(w)) /\ e.expires > now
  BY DEF Fresh, SiteInv
<1>9. Alike(e.by, job[w].r, Rule(w))
  <2>1. build_cache_key_string(e.by, e.rule) = build_cache_key_string(job[w].r, Rule(w))
    BY <1>8 DEF EntryInv, cache_key_paths, r_
  <2>2. IsRequest(e.by) /\ IsRequest(job[w].r)
    BY <1>8, RequestOf DEF EntryInv, JobInv
  <2>. QED
    BY <2>1, <2>2, SameKey
<1>10. Shared!SameTarget(CachedAs(e), Shared!Visit(w))
  BY <1>9, VisitsOf, CachedFields DEF Alike, Shared!SameTarget
<1>11. CachedAs(e) \in Cached /\ Cached' = Cached
  BY <1>1, <1>8 DEF Cached
<1>12. CachedAs(e).until > now /\ CachedAs(e).status = e.status
  BY <1>8, CachedFields
<1>. QED
  BY <1>7, <1>10, <1>11, <1>12 DEF Shared!Hit, Cached

\* The generator answers; only a visitor without credentials is captured.
LEMMA GenerateRefines ==
    ASSUME SiteInv, NEW w \in Workers, NEW a \in Responses, NEW flushed \in BOOLEAN,
           Generate(w, a, flushed)
    PROVE  Shared!Answer(w, a.status) \/ Shared!Capture(w, a.status)
<1>1. PICK type, headers :
        job' = [job EXCEPT ![w].pc = IF Cacheable(w, a, type) THEN "capture" ELSE "done",
                           ![w].served = "origin", ![w].status = a.status,
                           ![w].content_type = a.type, ![w].headers_out = headers]
  BY DEF Generate
<1>2. job[w].pc = "declined" /\ UNCHANGED <<store, now>>
  BY DEF Generate
<1>. DEFINE k == [job[w] EXCEPT !.pc = IF Cacheable(w, a, type) THEN "capture" ELSE "done",
                                !.served = "origin", !.status = a.status,
                                !.content_type = a.type, !.headers_out = headers]
<1>3. job' = [job EXCEPT ![w] = k]
  BY <1>1
<1>4. /\ k.pc = IF Cacheable(w, a, type) THEN "capture" ELSE "done"
      /\ k.r = job[w].r /\ k.served = "origin" /\ k.status = a.status
  BY RequestOf DEF Fields
<1>. HIDE DEF k
<1>5. Phase(job[w]) = "open"
  BY <1>2 DEF Phase
<1>6. Shared!Turn(w, "open", Phase(k), a.status)
  BY <1>2, <1>3, <1>4, <1>5, ClientTurns
<1>7. Cached' = Cached
  BY <1>2 DEF Cached
<1>8. CASE Cacheable(w, a, type)
  <2>1. Phase(k) = "capture"
    BY <1>4, <1>8 DEF Phase
  <2>2. ~Shared!Visit(w).credentials
    BY <1>8, VisitsOf DEF Cacheable, r_
  <2>. QED
    BY <1>6, <1>7, <2>1, <2>2 DEF Shared!Capture, Cached
<1>9. CASE ~Cacheable(w, a, type)
  <2>1. Phase(k) = "origin"
    BY <1>4, <1>9 DEF Phase
  <2>. QED
    BY <1>6, <1>7, <2>1 DEF Shared!Answer, Cached
<1>. QED
  BY <1>8, <1>9

\* The end of a capture, for the client.
LEMMA CaptureTurns ==
    ASSUME SiteInv, NEW w \in Workers, Publish(w) \/ Abandon(w)
    PROVE  Shared!Turn(w, "capture", "origin", job[w].status) /\ job[w].served = "origin"
<1>. DEFINE k == [job[w] EXCEPT !.pc = "done"]
<1>1. job[w].pc = "capture" /\ job' = [job EXCEPT ![w] = k] /\ now' = now
  BY DEF Publish, Abandon
<1>2. k.pc = "done" /\ k.r = job[w].r /\ k.served = job[w].served /\ k.status = job[w].status
  BY RequestOf DEF Fields
<1>. HIDE DEF k
<1>3. job[w].served = "origin"
  BY <1>1, RequestOf DEF JobInv
<1>4. Phase(job[w]) = "capture" /\ Phase(k) = "origin"
  BY <1>1, <1>2, <1>3 DEF Phase
<1>. QED
  BY <1>1, <1>2, <1>3, <1>4, ClientTurns

LEMMA AbandonRefines ==
    ASSUME SiteInv, NEW w \in Workers, Abandon(w)
    PROVE  Shared!Abandon(w)
<1>1. Shared!Turn(w, "capture", "origin", job[w].status)
  BY CaptureTurns
<1>2. Cached' = Cached
  BY DEF Abandon, Cached
<1>3. Clients[w].status = job[w].status
  BY DEF Clients, ClientOf
<1>. QED
  BY <1>1, <1>2, <1>3 DEF Shared!Abandon, Cached, Clients

\* A publication adds one entry, and whatever had its name was for the same
\* request.
LEMMA PublishRefines ==
    ASSUME SiteInv, SiteInv', NEW w \in Workers, Publish(w)
    PROVE  Shared!Store(w)
<1>. DEFINE n == NewEntry(w)
<1>1. Shared!Turn(w, "capture", "origin", job[w].status)
  BY CaptureTurns
<1>2. store' = {e \in store : e.name # n.name} \cup {n} /\ now' = now
  BY DEF Publish
<1>3. n.by = job[w].r /\ n.status = job[w].status /\ n.created = now
  BY DEF NewEntry, r_
<1>. HIDE DEF n
<1>4. EntryInv(n) /\ \A e \in store : EntryInv(e)
  BY <1>2 DEF SiteInv
<1>5. Shared!SameTarget(CachedAs(n), Shared!Visit(w))
  BY <1>3, VisitsOf, CachedFields DEF Shared!SameTarget
<1>6. CachedAs(n).status = job[w].status /\ CachedAs(n).until > now
  BY <1>3, <1>4, CachedFields DEF EntryInv
<1>7. CachedAs(n) \in Cached' /\ Cached' \subseteq Cached \cup {CachedAs(n)}
  BY <1>2 DEF Cached
<1>8. ASSUME NEW c \in Cached \ Cached'
      PROVE  Shared!SameTarget(c, Shared!Visit(w))
  <2>1. PICK e \in store : c = CachedAs(e)
    BY DEF Cached
  <2>2. e \notin store'
    BY <2>1 DEF Cached
  <2>3. e.name = n.name
    BY <1>2, <2>2
  <2>4. build_cache_key_string(e.by, e.rule) = build_cache_key_string(n.by, n.rule)
    BY <1>4, <2>3 DEF EntryInv
  <2>5. Alike(e.by, n.by, n.rule)
    BY <1>4, <2>4, SameKey DEF EntryInv
  <2>. QED
    BY <1>3, <2>1, <2>5, VisitsOf, CachedFields DEF Alike, Shared!SameTarget
<1>9. Clients[w].status = job[w].status
  BY DEF Clients, ClientOf
<1>. QED
  BY <1>1, <1>5, <1>6, <1>7, <1>8, <1>9 DEF Shared!Store, Cached, Clients

\* visit_entry takes the entries of the requesting host, whatever they vary on.
LEMMA SelectedEntries ==
    ASSUME SiteInv, NEW w \in Workers, NEW action, NEW e \in store
    PROVE  e \in Selected(w, action) <=>
             /\ CachedAs(e).host = job[w].r.host
             /\ \/ action.op = "full-reset"
                \/ action.op = "purge" /\ CachedAs(e).target \in action.targets
<1>1. EntryInv(e)
  BY DEF SiteInv
<1>2. e.by.host = job[w].r.host => e.name.root = CacheRoot(w)
  BY <1>1 DEF EntryInv, CacheRoot, r_
<1>3. e.url.host = CachedAs(e).host /\ e.url.target = CachedAs(e).target /\ e.by.host = e.url.host
  BY <1>1, CachedFields DEF EntryInv
<1>. QED
  BY <1>2, <1>3 DEF Selected, r_

\* An administrative action, with the admin paths protected: who may do it, and
\* what it takes.
LEMMA AdminRefines ==
    ASSUME SiteInv, AdminProtected, NEW w \in Workers, AdminHandle(w)
    PROVE  Shared!Next
<1>. DEFINE x == <<dconf(w).admin_path, AdminURI(w)>>
            action == AdminAction[x]
            host == job[w].r.host
<1>1. /\ job[w].pc = "handle" /\ Admitted(w) /\ x \in DOMAIN AdminAction
      /\ dconf(w).admin_require_user = 0 \/ user(w)
      /\ store' = store \ Selected(w, action) /\ now' = now
  BY DEF AdminHandle, AtAdmin, Handling, UnderAdmin
<1>2. Shared!Visit(w).login
  <2>1. Uri(w) \in DOMAIN Chain
    BY RequestOf, Hops DEF Uri, r_, JobInv, Targets
  <2>2. dconf(w).admin_require_user = 0 => Uri(w) \in Guarded
    BY <1>1, <2>1 DEF AdminProtected, dconf, AdminURI
  <2>3. job[w].r.login
    BY <1>1, <2>2 DEF Admitted, user, r_
  <2>. QED
    BY <2>3, VisitsOf
<1>3. PICK code : /\ job' = [job EXCEPT ![w].pc = "done", ![w].served = "admin", ![w].status = code]
                  /\ code \in {200, 400, 404}
                  /\ code # 200 => Selected(w, action) = {}
  <2>. DEFINE code == IF CacheRoot(w) = NoText THEN 200
                      ELSE IF action.op = "purge" /\ action.targets = {} THEN 400
                      ELSE IF action.op = "purge" /\ Selected(w, action) = {} THEN 404
                      ELSE 200
  <2>1. job' = [job EXCEPT ![w].pc = "done", ![w].served = "admin", ![w].status = code]
    BY DEF AdminHandle
  <2>2. action.op = "purge" /\ action.targets = {} => Selected(w, action) = {}
    BY DEF Selected
  <2>3. code \in {200, 400, 404} /\ (code # 200 => Selected(w, action) = {})
    <3>. HIDE DEF action
    <3>. QED
      BY <2>2
  <2>. QED
    BY <2>1, <2>3
<1>. HIDE DEF action
<1>4. Shared!Turn(w, "open", "admin", code)
  <2>. DEFINE k == [job[w] EXCEPT !.pc = "done", !.served = "admin", !.status = code]
  <2>0. job' = [job EXCEPT ![w].pc = "done", ![w].served = "admin", ![w].status = code]
    BY <1>3
  <2>1. job' = [job EXCEPT ![w] = k]
    BY <2>0
  <2>2. k.pc = "done" /\ k.served = "admin" /\ k.status = code /\ k.r = job[w].r
    BY RequestOf DEF Fields
  <2>. HIDE DEF k
  <2>3. Phase(job[w]) = "open" /\ Phase(k) = "admin"
    BY <1>1, <2>2 DEF Phase
  <2>. QED
    BY <1>1, <2>1, <2>2, <2>3, ClientTurns
<1>5. code # 200 => Cached' = Cached
  <2>. SUFFICES ASSUME code # 200 PROVE Cached' = Cached
    OBVIOUS
  <2>1. store' = store
    BY <1>1, <1>3
  <2>. QED
    BY <2>1 DEF Cached
<1>6. Cached' = {c \in Cached : c.host = host =>
                   ~(action.op = "full-reset" \/ (action.op = "purge" /\ c.target \in action.targets))}
  <2>1. ASSUME NEW e \in store
        PROVE  e \in store' <=>
                 (CachedAs(e).host = host =>
                    ~(action.op = "full-reset"
                      \/ (action.op = "purge" /\ CachedAs(e).target \in action.targets)))
    BY <1>1, SelectedEntries
  <2>2. store' \subseteq store
    BY <1>1
  <2>. QED
    BY <2>1, <2>2, Zenon DEF Cached
<1>7. Shared!Visit(w).host = host
  BY VisitsOf
<1>. HIDE DEF host
<1>8. ASSUME NEW gone, Cached' = {c \in Cached : c.host = host => c \notin gone}
      PROVE  Shared!Drop(w, gone)
  BY <1>2, <1>3, <1>4, <1>5, <1>7, <1>8, Zenon DEF Shared!Drop, Cached
<1>9. CASE action.op = "full-reset"
  <2>1. Cached' = {c \in Cached : c.host = host => c \notin Cached}
    BY <1>6, <1>9
  <2>2. Shared!Reset(w)
    BY <1>8, <2>1 DEF Shared!Reset, Cached
  <2>. QED
    BY <2>2 DEF Shared!Next
<1>10. ASSUME NEW targets \in Purgeable,
              Cached' = {c \in Cached : c.host = host => c.target \notin targets}
       PROVE  Shared!Next
  <2>1. Cached' = {c \in Cached : c.host = host => c \notin {d \in Cached : d.target \in targets}}
    BY <1>10
  <2>2. Shared!Purge(w, targets)
    BY <1>8, <2>1 DEF Shared!Purge, Cached
  <2>. QED
    BY <1>10, <2>2 DEF Shared!Next
<1>11. CASE action.op = "purge"
  <2>1. Cached' = {c \in Cached : c.host = host => c.target \notin action.targets}
    BY <1>6, <1>11
  <2>2. action.targets \in Purgeable
    BY <1>1 DEF action, Purgeable
  <2>. QED
    BY <1>10, <2>1, <2>2
<1>12. CASE action.op \notin {"full-reset", "purge"}
  <2>1. Cached' = {c \in Cached : c.host = host => c.target \notin {}}
    BY <1>6, <1>12
  <2>2. {} \in Purgeable
    BY DEF Purgeable
  <2>. QED
    BY <1>10, <2>1, <2>2, Zenon
<1>. QED
  BY <1>9, <1>11, <1>12

-----------------------------------------------------------------------------
(* The refinement.                                                         *)

\* Every step of the server is a step of SharedCache or changes nothing in it.
LEMMA StepRefines ==
    ASSUME SiteInv, SiteInv', AdminProtected, [Next]_vars
    PROVE  [Shared!Next]_(Shared!vars)
<1>1. ASSUME NEW w \in Workers, NEW q \in Requests, Arrive(w, q)
      PROVE  Shared!Next
  <2>1. Shared!Arrive(w)
    BY <1>1, ArriveRefines
  <2>. QED
    BY <2>1 DEF Shared!Next
<1>2. ASSUME NEW w \in Workers, Step(w)
      PROVE  [Shared!Next]_(Shared!vars)
  <2>1. CASE Refuse(w) \/ AdminForbidden(w)
    BY <2>1, RefuseRefines DEF Shared!Next
  <2>2. CASE \/ HandleSubrequest(w) \/ HandleInactive(w) \/ HandleDynamic(w)
             \/ HandleExcluded(w) \/ HandleBypass(w) \/ HandleMiss(w)
    BY <2>2, DeclineStutters
  <2>3. CASE AdminHandle(w)
    BY <2>3, AdminRefines
  <2>4. CASE HandleHit(w)
    BY <2>4, HitRefines DEF Shared!Next
  <2>5. CASE Redirect(w)
    BY <2>5, RedirectStutters
  <2>6. CASE Publish(w)
    BY <2>6, PublishRefines DEF Shared!Next
  <2>7. CASE Abandon(w)
    BY <2>7, AbandonRefines DEF Shared!Next
  <2>8. CASE Finish(w)
    BY <2>8, FinishRefines DEF Shared!Next
  <2>9. ASSUME NEW a \in Responses, NEW flushed \in BOOLEAN, Generate(w, a, flushed)
        PROVE  Shared!Next
    <3>1. Shared!Answer(w, a.status) \/ Shared!Capture(w, a.status)
      BY <2>9, GenerateRefines
    <3>2. a.status \in Statuses
      BY DEF Statuses
    <3>. QED
      BY <3>1, <3>2 DEF Shared!Next
  <2>. QED
    BY <1>2, <2>1, <2>2, <2>3, <2>4, <2>5, <2>6, <2>7, <2>8, <2>9, Zenon DEF Step
<1>3. CASE Tick
  <2>1. Shared!Tick
    BY <1>3 DEF Tick, Shared!Tick
  <2>. QED
    BY <2>1 DEF Shared!Next
<1>4. CASE \/ \E l \in DOMAIN Htaccess : \E ds \in Htaccess[l] : EditHtaccess(l, ds)
           \/ \E f \in DOMAIN Contents : \E text \in Contents[f] : EditFile(f, text)
           \/ UNCHANGED vars
  <2>1. UNCHANGED <<store, job, now>>
    BY <1>4 DEF EditHtaccess, EditFile, vars
  <2>. QED
    BY <2>1 DEF Shared!vars
<1>. QED
  BY <1>1, <1>2, <1>3, <1>4, Zenon DEF Next, Quiescent

\* A server that starts is an empty SharedCache.
LEMMA InitRefines == Init => Shared!Init
<1>. SUFFICES ASSUME Init PROVE Shared!Init
  OBVIOUS
<1>1. ClientOf(Idle) = Shared!Waiting
  BY DEF ClientOf, Phase, Shared!Waiting, Idle
<1>2. Clients = [u \in Workers |-> Shared!Waiting]
  BY <1>1 DEF Init, Clients
<1>. QED
  BY <1>2 DEF Init, Shared!Init, Clients

\* cacher_handler, the capture filter and the admin endpoint together, with
\* whatever rules, settings and rewriting the operator gives them and changes
\* under way, implement SharedCache, as long as an admin endpoint that asks for
\* no user is behind a <Location>.
THEOREM SiteIsSharedCache == Spec /\ []AdminProtected => KeepsPromise
<1>1. Init => Shared!Init
  BY InitRefines
<1>2. SiteInv /\ SiteInv' /\ AdminProtected /\ [Next]_vars => [Shared!Next]_(Shared!vars)
  BY StepRefines
<1>. QED
  BY <1>1, <1>2, SiteInvariant, PTL DEF Spec, KeepsPromise, Shared!Spec
=============================================================================
