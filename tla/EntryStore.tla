----------------------------- MODULE EntryStore -----------------------------
(***************************************************************************)
(* The on-disk entry store under CacherCacheRoot and everything that       *)
(* touches it at the same time: Apache workers that look an entry up and   *)
(* capture a response on a miss (cacher_cache.c), purges through the admin *)
(* endpoint (cacher_admin.c) and the command-line tool (tools/cacher).     *)
(*                                                                         *)
(* An entry is two files, <hash>.header and <hash>.body.  Each generated   *)
(* response has a number, its generation; a file's content is the          *)
(* generation it came from, and 0 stands for "no file".  Every system call *)
(* that reads or changes a shared file is a step of its own.               *)
(***************************************************************************)
EXTENDS Naturals, FiniteSets

CONSTANTS
    Keys,        \* cache keys (the MD5 of method, host, url and vary values)
    Hosts,       \* the sites that share the cache root
    HostOf,      \* the host on a key's url line
    AnyHost,     \* a command line without --host
    Workers,     \* requests that can be in progress at once
    Walkers,     \* purge commands that can be in progress at once
    Commands,    \* the purges that may be issued
    TTL,         \* rule->ttl_seconds
    MaxTime, MaxGen, MaxWalks, MaxCrashes,   \* bounds of the instance
    IOFaults     \* whether renames and opens may fail

CommandType == [kind : {"admin", "cli_purge", "cli_reset"},
                host : Hosts \cup {AnyHost},
                urls : SUBSET Keys]

ASSUME KeysAssumption == Keys # {}
ASSUME HostAssumption == HostOf \in [Keys -> Hosts] /\ AnyHost \notin Hosts
ASSUME CommandAssumption == Commands \subseteq CommandType
ASSUME BoundsAssumption ==
    /\ TTL \in Nat \ {0}
    /\ MaxTime \in Nat /\ MaxGen \in Nat /\ MaxWalks \in Nat /\ MaxCrashes \in Nat
    /\ IOFaults \in BOOLEAN

VARIABLES
    header,      \* <hash>.header per key
    body,        \* <hash>.body per key
    tmp_body,    \* generations whose <hash>.body.?????? exists
    tmp_header,  \* the <hash>.header.?????? files
    now,         \* the wall clock, in TTL units
    lastGen,     \* the last generation produced
    pc,          \* where each worker is in its request
    rkey,        \* the key of its request
    header_only, \* r->header_only: the request is a HEAD
    rgen,        \* the generation its content generator produced
    rbody,       \* the body it opened for a hit
    headers_out, \* generations whose headers are in r->headers_out
    wpc,         \* where each purge is
    cmd,         \* its command
    seen,        \* the keys its directory walk has returned
    snap,        \* what its walk found on disk when it began
    cur,         \* the entry it is deleting
    done,        \* history: the walks that have completed
    leaked,      \* history: generations whose writer died holding temp files
    made,        \* history: the generations produced for each key
    walks, crashes

files   == <<header, body, tmp_body, tmp_header>>
request == <<rkey, header_only>>
worker  == <<pc, rkey, header_only, rgen, rbody, headers_out>>
walker  == <<wpc, cmd, seen, snap, cur>>
history == <<done, leaked, made, walks, crashes>>
vars    == <<files, now, lastGen, worker, walker, history>>

-----------------------------------------------------------------------------
HeaderType == [gen : Nat, expires : Nat, from : SUBSET Nat]
NoHeader   == [gen |-> 0, expires |-> 0, from |-> {}]
TempType   == [gen : Nat, key : Keys, expires : Nat, from : SUBSET Nat]
DoneType   == [file : {"header", "body"}, gone : [Keys -> Nat]]

AnyKey == CHOOSE k \in Keys : TRUE
NoCmd  == [kind |-> "cli_purge", host |-> AnyHost, urls |-> {}]

\* A worker that has a temporary file on disk.
Holding == {"capture", "publish", "rename"}
\* A worker whose request may still need a generation.
Deciding == {"lookup", "open", "declined"}

\* Every variable has its type; what the files hold was generated.
TypeOK ==
    /\ header \in [Keys -> HeaderType]
    /\ body \in [Keys -> Nat]
    /\ tmp_body \subseteq Nat
    /\ tmp_header \subseteq TempType
    /\ now \in Nat /\ lastGen \in Nat
    /\ pc \in [Workers -> {"idle", "lookup", "open", "hit", "declined",
                           "capture", "publish", "rename", "sent"}]
    /\ rkey \in [Workers -> Keys]
    /\ header_only \in [Workers -> BOOLEAN]
    /\ rgen \in [Workers -> Nat]
    /\ rbody \in [Workers -> Nat]
    /\ headers_out \in [Workers -> SUBSET Nat]
    /\ wpc \in [Walkers -> {"idle", "walk", "delbody", "delhdr", "sweep"}]
    /\ cmd \in [Walkers -> CommandType]
    /\ seen \in [Walkers -> SUBSET Keys]
    /\ snap \in [Walkers -> [Keys -> Nat]]
    /\ cur \in [Walkers -> Keys]
    /\ done \subseteq DoneType
    /\ leaked \subseteq Nat
    /\ made \in [Keys -> SUBSET Nat]
    /\ walks \in Nat /\ crashes \in Nat

Init ==
    /\ header = [k \in Keys |-> NoHeader]
    /\ body = [k \in Keys |-> 0]
    /\ tmp_body = {} /\ tmp_header = {}
    /\ now = 0 /\ lastGen = 0
    /\ pc = [w \in Workers |-> "idle"]
    /\ rkey = [w \in Workers |-> AnyKey]
    /\ header_only = [w \in Workers |-> FALSE]
    /\ rgen = [w \in Workers |-> 0]
    /\ rbody = [w \in Workers |-> 0]
    /\ headers_out = [w \in Workers |-> {}]
    /\ wpc = [v \in Walkers |-> "idle"]
    /\ cmd = [v \in Walkers |-> NoCmd]
    /\ seen = [v \in Walkers |-> {}]
    /\ snap = [v \in Walkers |-> [k \in Keys |-> 0]]
    /\ cur = [v \in Walkers |-> AnyKey]
    /\ done = {} /\ leaked = {} /\ made = [k \in Keys |-> {}]
    /\ walks = 0 /\ crashes = 0

-----------------------------------------------------------------------------
(* Requests.                                                               *)

\* Every request in progress can still produce its generation: a bound of
\* the instance, not of the code.
RoomForRequest ==
    lastGen + Cardinality({w \in Workers : pc[w] \in Deciding}) < MaxGen

\* A GET or HEAD that the handler lets through to the cache.
StartRequest(w, k, head) ==
    /\ pc[w] = "idle"
    /\ RoomForRequest
    /\ pc' = [pc EXCEPT ![w] = "lookup"]
    /\ rkey' = [rkey EXCEPT ![w] = k]
    /\ header_only' = [header_only EXCEPT ![w] = head]
    /\ UNCHANGED <<files, now, lastGen, rgen, rbody, headers_out, walker, history>>

\* read_meta succeeds and the entry has not expired.
Fresh(k) == header[k].gen # 0 /\ header[k].expires > now

\* The stored headers go into r->headers_out before the body is opened.
LookupReplay(w) ==
    /\ pc[w] = "lookup"
    /\ Fresh(rkey[w])
    /\ headers_out' = [headers_out EXCEPT ![w] = header[rkey[w]].from]
    /\ pc' = [pc EXCEPT ![w] = "open"]
    /\ UNCHANGED <<files, now, lastGen, request, rgen, rbody, walker, history>>

\* No entry, an expired one, or one whose header cannot be read.
LookupMiss(w) ==
    /\ pc[w] = "lookup"
    /\ ~Fresh(rkey[w]) \/ IOFaults
    /\ pc' = [pc EXCEPT ![w] = "declined"]
    /\ UNCHANGED <<files, now, lastGen, request, rgen, rbody, headers_out, walker, history>>

\* The open file survives a later unlink or rename of its name.
LookupOpenBody(w) ==
    /\ pc[w] = "open"
    /\ body[rkey[w]] # 0
    /\ rbody' = [rbody EXCEPT ![w] = body[rkey[w]]]
    /\ pc' = [pc EXCEPT ![w] = "hit"]
    /\ UNCHANGED <<files, now, lastGen, request, rgen, headers_out, walker, history>>

\* A miss after all; r->headers_out keeps what was replayed.
LookupNoBody(w) ==
    /\ pc[w] = "open"
    /\ body[rkey[w]] = 0 \/ IOFaults
    /\ pc' = [pc EXCEPT ![w] = "declined"]
    /\ UNCHANGED <<files, now, lastGen, request, rgen, rbody, headers_out, walker, history>>

\* The content generator runs and adds its headers to r->headers_out.
Generate(w) ==
    /\ pc[w] = "declined"
    /\ lastGen' = lastGen + 1
    /\ rgen' = [rgen EXCEPT ![w] = lastGen + 1]
    /\ headers_out' = [headers_out EXCEPT ![w] = @ \cup {lastGen + 1}]
    /\ made' = [made EXCEPT ![rkey[w]] = @ \cup {lastGen + 1}]
    /\ UNCHANGED <<done, leaked, walks, crashes>>

\* No filter was inserted (HEAD, ttl 0), or its first call finds the response
\* not cacheable or cannot create its temporary file.
GenerateUncaptured(w) ==
    /\ Generate(w)
    /\ pc' = [pc EXCEPT ![w] = "sent"]
    /\ UNCHANGED <<files, now, request, rbody, walker>>

OutputFilterStart(w) ==
    /\ ~header_only[w]
    /\ Generate(w)
    /\ tmp_body' = tmp_body \cup {lastGen + 1}
    /\ pc' = [pc EXCEPT ![w] = "capture"]
    /\ UNCHANGED <<header, body, tmp_header, now, request, rbody, walker>>

\* Mutant: the early returns forget the temporary body.
FilterAbandonKeepsTemp(w) ==
    /\ pc[w] = "capture"
    /\ pc' = [pc EXCEPT ![w] = "sent"]
    /\ UNCHANGED <<files, now, lastGen, request, rgen, rbody, headers_out, walker, history>>

\* Mutant: the early returns share the cleanup of a failed rename.
FilterAbandonRemovesBody(w) ==
    /\ pc[w] = "capture"
    /\ tmp_body' = tmp_body \ {rgen[w]}
    /\ body' = [body EXCEPT ![rkey[w]] = 0]
    /\ pc' = [pc EXCEPT ![w] = "sent"]
    /\ UNCHANGED <<header, tmp_header, now, lastGen, request, rgen, rbody,
                   headers_out, walker, history>>

\* A failed write, an aborted client, a body shorter or longer than its
\* Content-Length, or no temporary header: the entry is given up.
FilterAbandon(w) ==
    /\ pc[w] = "capture"
    /\ tmp_body' = tmp_body \ {rgen[w]}
    /\ pc' = [pc EXCEPT ![w] = "sent"]
    /\ UNCHANGED <<header, body, tmp_header, now, lastGen, request, rgen, rbody,
                   headers_out, walker, history>>

\* Mutant: the header is written under its final name at once.
WriteHeaderInPlace(w) ==
    /\ pc[w] = "capture"
    /\ header' = [header EXCEPT ![rkey[w]] =
                    [gen |-> rgen[w], expires |-> now + TTL, from |-> headers_out[w]]]
    /\ pc' = [pc EXCEPT ![w] = "publish"]
    /\ UNCHANGED <<body, tmp_body, tmp_header, now, lastGen, request, rgen, rbody,
                   headers_out, walker, history>>

\* Mutant: the lifetime is taken off the time of the request.
WriteHeaderExpired(w) ==
    /\ pc[w] = "capture"
    /\ tmp_header' = tmp_header \cup
         {[gen |-> rgen[w], key |-> rkey[w],
           expires |-> now - TTL, from |-> headers_out[w]]}
    /\ pc' = [pc EXCEPT ![w] = "publish"]
    /\ UNCHANGED <<header, body, tmp_body, now, lastGen, request, rgen, rbody,
                   headers_out, walker, history>>

FinalizeWriteHeader(w) ==
    /\ pc[w] = "capture"
    /\ tmp_header' = tmp_header \cup
         {[gen |-> rgen[w], key |-> rkey[w],
           expires |-> now + TTL, from |-> headers_out[w]]}
    /\ pc' = [pc EXCEPT ![w] = "publish"]
    /\ UNCHANGED <<header, body, tmp_body, now, lastGen, request, rgen, rbody,
                   headers_out, walker, history>>

\* Mutant: apr_file_copy in place of the first apr_file_rename.
CopyBody(w) ==
    /\ pc[w] = "publish"
    /\ body' = [body EXCEPT ![rkey[w]] = rgen[w]]
    /\ pc' = [pc EXCEPT ![w] = "rename"]
    /\ UNCHANGED <<header, tmp_body, tmp_header, now, lastGen, request, rgen, rbody,
                   headers_out, walker, history>>

FinalizeRenameBody(w) ==
    /\ pc[w] = "publish"
    /\ body' = [body EXCEPT ![rkey[w]] = rgen[w]]
    /\ tmp_body' = tmp_body \ {rgen[w]}
    /\ pc' = [pc EXCEPT ![w] = "rename"]
    /\ UNCHANGED <<header, tmp_header, now, lastGen, request, rgen, rbody,
                   headers_out, walker, history>>

\* Mutant: one temporary header name for all workers.
AnyTempHeader(w) == tmp_header

TempHeaders(w) == {t \in tmp_header : t.gen = rgen[w]}

FinalizeRenameHeader(w) ==
    /\ pc[w] = "rename"
    /\ \E t \in TempHeaders(w) :
         header' = [header EXCEPT ![rkey[w]] =
                      [gen |-> t.gen, expires |-> t.expires, from |-> t.from]]
    /\ tmp_header' = tmp_header \ TempHeaders(w)
    /\ pc' = [pc EXCEPT ![w] = "sent"]
    /\ UNCHANGED <<body, tmp_body, now, lastGen, request, rgen, rbody,
                   headers_out, walker, history>>

\* Mutant: a failed rename starts both of them over.
RetryRenames(w) ==
    /\ \/ pc[w] \in {"publish", "rename"} /\ IOFaults
       \/ pc[w] = "rename" /\ TempHeaders(w) = {}
    /\ pc' = [pc EXCEPT ![w] = "publish"]
    /\ UNCHANGED <<files, now, lastGen, request, rgen, rbody, headers_out, walker, history>>

\* Either rename fails.  The cleanup removes both temporary files and
\* whatever body now has the final name.
FinalizeFail(w) ==
    /\ \/ pc[w] \in {"publish", "rename"} /\ IOFaults
       \/ pc[w] = "rename" /\ TempHeaders(w) = {}
    /\ tmp_body' = tmp_body \ {rgen[w]}
    /\ tmp_header' = tmp_header \ TempHeaders(w)
    /\ body' = [body EXCEPT ![rkey[w]] = 0]
    /\ pc' = [pc EXCEPT ![w] = "sent"]
    /\ UNCHANGED <<header, now, lastGen, request, rgen, rbody, headers_out,
                   walker, history>>

\* The request pool goes away with everything the worker kept.
Release(w) ==
    /\ pc' = [pc EXCEPT ![w] = "idle"]
    /\ rkey' = [rkey EXCEPT ![w] = AnyKey]
    /\ header_only' = [header_only EXCEPT ![w] = FALSE]
    /\ rgen' = [rgen EXCEPT ![w] = 0]
    /\ rbody' = [rbody EXCEPT ![w] = 0]
    /\ headers_out' = [headers_out EXCEPT ![w] = {}]

FinishRequest(w) ==
    /\ pc[w] \in {"hit", "sent"}
    /\ Release(w)
    /\ UNCHANGED <<files, now, lastGen, walker, history>>

\* The process dies; its files stay.
CrashWorker(w) ==
    /\ pc[w] # "idle"
    /\ crashes < MaxCrashes
    /\ crashes' = crashes + 1
    /\ leaked' = IF pc[w] \in Holding THEN leaked \cup {rgen[w]} ELSE leaked
    /\ Release(w)
    /\ UNCHANGED <<files, now, lastGen, walker, done, made, walks>>

-----------------------------------------------------------------------------
(* Purges.                                                                 *)

\* Mutant: visit_entry does not compare the host.
ScopeIgnoresHost(c) == c.urls

\* The entries a command selects: its pattern, and its host unless it is a
\* command line without --host.
Scope(c) == {k \in c.urls : c.host \in {HostOf[k], AnyHost}}

\* Only a full-reset without --host sweeps the shards for leftover bodies.
Sweeps(c) == c.kind = "cli_reset" /\ c.host = AnyHost

StartWalk(v, c) ==
    /\ wpc[v] = "idle"
    /\ walks < MaxWalks
    /\ walks' = walks + 1
    /\ wpc' = [wpc EXCEPT ![v] = "walk"]
    /\ cmd' = [cmd EXCEPT ![v] = c]
    /\ seen' = [seen EXCEPT ![v] = {}]
    /\ snap' = [snap EXCEPT ![v] =
                  [k \in Keys |-> IF k \in Scope(c) THEN header[k].gen ELSE 0]]
    /\ UNCHANGED <<files, now, lastGen, worker, cur, done, leaked, made, crashes>>

\* The walk returns a header whose url line is in scope.
VisitEntry(v, k) ==
    /\ wpc[v] = "walk"
    /\ k \in Scope(cmd[v]) \ seen[v]
    /\ header[k].gen # 0
    /\ cur' = [cur EXCEPT ![v] = k]
    /\ seen' = [seen EXCEPT ![v] = @ \cup {k}]
    /\ wpc' = [wpc EXCEPT ![v] = "delbody"]
    /\ UNCHANGED <<files, now, lastGen, worker, cmd, snap, history>>

\* The endpoint's walk takes a name that merely contains ".header", so it
\* also returns temporary headers; the body path it derives from one names
\* no file.  The command line asks for names that end in ".header".
VisitTempHeader(v) ==
    /\ wpc[v] = "walk"
    /\ cmd[v].kind = "admin"
    /\ \E t \in tmp_header : t.key \in Scope(cmd[v]) /\ tmp_header' = tmp_header \ {t}
    /\ UNCHANGED <<header, body, tmp_body, now, lastGen, worker, walker, history>>

DeleteEntryBody(v) ==
    /\ wpc[v] = "delbody"
    /\ body' = [body EXCEPT ![cur[v]] = 0]
    /\ wpc' = [wpc EXCEPT ![v] = "delhdr"]
    /\ UNCHANGED <<header, tmp_body, tmp_header, now, lastGen, worker,
                   cmd, seen, snap, cur, history>>

\* Mutant: delete_entry stops after the body.
DeleteBodyOnly(v) ==
    /\ wpc[v] = "delhdr"
    /\ wpc' = [wpc EXCEPT ![v] = "walk"]
    /\ cur' = [cur EXCEPT ![v] = AnyKey]
    /\ UNCHANGED <<files, now, lastGen, worker, cmd, seen, snap, history>>

\* Mutant: the header stays as well, and the walk starts over.
RescanAfterDelete(v) ==
    /\ wpc[v] = "delhdr"
    /\ wpc' = [wpc EXCEPT ![v] = "walk"]
    /\ seen' = [seen EXCEPT ![v] = {}]
    /\ UNCHANGED <<files, now, lastGen, worker, cmd, snap, cur, history>>

DeleteEntryHeader(v) ==
    /\ wpc[v] = "delhdr"
    /\ header' = [header EXCEPT ![cur[v]] = NoHeader]
    /\ wpc' = [wpc EXCEPT ![v] = "walk"]
    /\ cur' = [cur EXCEPT ![v] = AnyKey]
    /\ UNCHANGED <<body, tmp_body, tmp_header, now, lastGen, worker,
                   cmd, seen, snap, history>>

\* readdir returns every file that was there when the walk began and still
\* is; whether it returns one that appeared or was replaced is open.
WalkedAll(v) == \A k \in Keys : snap[v][k] # 0 /\ header[k].gen = snap[v][k] => k \in seen[v]

Completed(v, f) == [file |-> f, gone |-> snap[v]]

\* The command is over and reports what it removed.
EndCommand(v) ==
    /\ wpc' = [wpc EXCEPT ![v] = "idle"]
    /\ cmd' = [cmd EXCEPT ![v] = NoCmd]
    /\ seen' = [seen EXCEPT ![v] = {}]
    /\ snap' = [snap EXCEPT ![v] = [k \in Keys |-> 0]]
    /\ cur' = [cur EXCEPT ![v] = AnyKey]

EndWalk(v) ==
    /\ wpc[v] = "walk"
    /\ ~Sweeps(cmd[v])
    /\ WalkedAll(v)
    /\ done' = done \cup {Completed(v, "header")}
    /\ EndCommand(v)
    /\ UNCHANGED <<files, now, lastGen, worker, leaked, made, walks, crashes>>

StartSweep(v) ==
    /\ wpc[v] = "walk"
    /\ Sweeps(cmd[v])
    /\ WalkedAll(v)
    /\ done' = done \cup {Completed(v, "header")}
    /\ wpc' = [wpc EXCEPT ![v] = "sweep"]
    /\ seen' = [seen EXCEPT ![v] = {}]
    /\ snap' = [snap EXCEPT ![v] = body]
    /\ UNCHANGED <<files, now, lastGen, worker, cmd, cur, leaked, made, walks,
                   crashes>>

\* Any name that ends in ".body" goes, whether or not it has a header.  The
\* names mktemp made end in neither ".body" nor "XXXXXX" and stay.
SweepBody(v, k) ==
    /\ wpc[v] = "sweep"
    /\ k \notin seen[v]
    /\ body[k] # 0
    /\ body' = [body EXCEPT ![k] = 0]
    /\ seen' = [seen EXCEPT ![v] = @ \cup {k}]
    /\ UNCHANGED <<header, tmp_body, tmp_header, now, lastGen, worker,
                   wpc, cmd, snap, cur, history>>

SweptAll(v) == \A k \in Keys : snap[v][k] # 0 /\ body[k] = snap[v][k] => k \in seen[v]

EndSweep(v) ==
    /\ wpc[v] = "sweep"
    /\ SweptAll(v)
    /\ done' = done \cup {Completed(v, "body")}
    /\ EndCommand(v)
    /\ UNCHANGED <<files, now, lastGen, worker, leaked, made, walks, crashes>>

CrashWalker(v) ==
    /\ wpc[v] # "idle"
    /\ crashes < MaxCrashes
    /\ crashes' = crashes + 1
    /\ EndCommand(v)
    /\ UNCHANGED <<files, now, lastGen, worker, done, leaked, made, walks>>

-----------------------------------------------------------------------------
Tick ==
    /\ now < MaxTime
    /\ now' = now + 1
    /\ UNCHANGED <<files, lastGen, worker, walker, history>>

\* The bounds are used up and nothing is in progress.
Quiescent ==
    /\ \A w \in Workers : pc[w] = "idle"
    /\ \A v \in Walkers : wpc[v] = "idle"
    /\ UNCHANGED vars

WorkerStep(w) ==
    \/ LookupReplay(w) \/ LookupMiss(w) \/ LookupOpenBody(w) \/ LookupNoBody(w)
    \/ GenerateUncaptured(w) \/ OutputFilterStart(w) \/ FilterAbandon(w)
    \/ FinalizeWriteHeader(w) \/ FinalizeRenameBody(w) \/ FinalizeRenameHeader(w)
    \/ FinalizeFail(w) \/ FinishRequest(w)

WalkerStep(v) ==
    \/ \E k \in Keys : VisitEntry(v, k) \/ SweepBody(v, k)
    \/ VisitTempHeader(v) \/ DeleteEntryBody(v) \/ DeleteEntryHeader(v)
    \/ EndWalk(v) \/ StartSweep(v) \/ EndSweep(v)

Next ==
    \/ \E w \in Workers :
         \/ \E k \in Keys, head \in BOOLEAN : StartRequest(w, k, head)
         \/ WorkerStep(w)
         \/ CrashWorker(w)
    \/ \E v \in Walkers :
         \/ \E c \in Commands : StartWalk(v, c)
         \/ WalkerStep(v)
         \/ CrashWalker(v)
    \/ Tick
    \/ Quiescent

Spec == Init /\ [][Next]_vars

\* A request and a purge that are in progress keep being scheduled; nothing
\* obliges a client to send one or a process to crash.
FairSpec ==
    /\ Spec
    /\ \A w \in Workers : WF_vars(WorkerStep(w))
    /\ \A v \in Walkers : WF_vars(WalkerStep(v))

-----------------------------------------------------------------------------
(* Properties.                                                             *)

\* "Body first, header last": a header that readers can find never describes
\* a response whose body is still being captured.
HeaderAfterBody == \A k \in Keys : header[k].gen \notin tmp_body

\* Whichever way a capture ends, its temporary files go with it; only a
\* process that died leaves any.
TempsAccounted ==
    \A g \in tmp_body \cup {t.gen : t \in tmp_header} :
        g \in leaked \/ \E w \in Workers : pc[w] \in Holding /\ rgen[w] = g

\* What a purge found in its scope, and what a full-reset's sweep found on
\* disk, is never seen again under its name once the command has passed it,
\* whatever publishes meanwhile.
PurgedStaysGone ==
    \A d \in done, k \in Keys :
        d.gone[k] # 0 =>
            /\ d.file = "header" => header[k].gen # d.gone[k]
            /\ d.file = "body" => body[k] # d.gone[k]

\* No purge of one site takes away another site's entry: a header disappears
\* only under a command that names its host or names none.
PurgeKeepsOtherHosts ==
    [][\A k \in Keys : header[k].gen # 0 /\ header'[k].gen = 0 =>
          \E v \in Walkers : wpc[v] = "delhdr" /\ cmd[v].host \in {HostOf[k], AnyHost}]_vars

Paired == \A k \in Keys : header[k].gen # 0 => body[k] # 0

\* The two renames never leave a header without a body until a purge begins or
\* a rename fails, however many workers publish one key.
NoStranded == walks = 0 /\ ~IOFaults => Paired

\* Sharing stays within a key: whatever purges, failed opens, lost races and
\* crashes leave behind, a client is only ever sent headers and a body that
\* were generated for the key of its own request.
NoCrossTalk ==
    \A w \in Workers : pc[w] \in {"hit", "sent"} =>
        /\ headers_out[w] \subseteq made[rkey[w]]
        /\ pc[w] = "hit" => rbody[w] \in made[rkey[w]]

\* Every request gets through the cache code.
RequestsEnd == \A w \in Workers : pc[w] # "idle" ~> pc[w] = "idle"

\* Every purge ends although workers keep publishing behind it.
WalksEnd == \A v \in Walkers : wpc[v] # "idle" ~> wpc[v] = "idle"

-----------------------------------------------------------------------------
(* The inductive invariant behind the safety properties.                   *)

Held(g, S) == \E w \in Workers : pc[w] \in S /\ rgen[w] = g

\* Generations are handed out once, and a worker's files are its own.
OwnGeneration ==
    /\ \A w \in Workers : rgen[w] <= lastGen
    /\ \A w \in Workers : pc[w] \in Holding => rgen[w] # 0
    /\ \A w, x \in Workers :
         pc[w] \in Holding /\ pc[x] \in Holding /\ rgen[w] = rgen[x] => w = x
    /\ \A g \in tmp_body : g # 0 /\ g <= lastGen
    /\ \A t \in tmp_header : t.gen <= lastGen
    /\ \A k \in Keys : header[k].gen <= lastGen /\ body[k] <= lastGen

\* Which temporary files a worker can have at each point of a capture.
TempsMatchStep ==
    /\ \A w \in Workers : pc[w] = "capture" => TempHeaders(w) = {}
    /\ \A w \in Workers : pc[w] = "rename" => rgen[w] \notin tmp_body

\* A generation that has been seen under a final name is no longer on its
\* way there.
PublishedNotHeld ==
    /\ \A k \in Keys : ~Held(header[k].gen, Holding)
    /\ \A k \in Keys : ~Held(body[k], {"capture", "publish"})

\* The same for what a walk or a sweep remembers.
RememberedNotHeld ==
    /\ \A v \in Walkers, k \in Keys :
         /\ snap[v][k] <= lastGen
         /\ wpc[v] = "sweep" => ~Held(snap[v][k], {"capture", "publish"})
         /\ wpc[v] # "sweep" => ~Held(snap[v][k], Holding)
    /\ \A d \in done, k \in Keys :
         /\ d.gone[k] <= lastGen
         /\ d.file = "body" => ~Held(d.gone[k], {"capture", "publish"})
         /\ d.file = "header" => ~Held(d.gone[k], Holding)

\* What a walk has passed is gone, except the entry it is deleting.
SeenIsGone ==
    \A v \in Walkers : \A k \in seen[v] :
        snap[v][k] # 0 =>
            /\ wpc[v] = "walk" => header[k].gen # snap[v][k]
            /\ wpc[v] \in {"delbody", "delhdr"} /\ k # cur[v] => header[k].gen # snap[v][k]
            /\ wpc[v] = "sweep" => body[k] # snap[v][k]

\* An entry about to be deleted was selected by the command.
DeletesInScope ==
    \A v \in Walkers : wpc[v] \in {"delbody", "delhdr"} => cur[v] \in Scope(cmd[v])

\* With no purge and no failing rename: a worker that has installed its body
\* keeps the header to go with it, and nothing takes a body away.
PublishersInv ==
    /\ \A v \in Walkers : wpc[v] = "idle"
    /\ \A w \in Workers : pc[w] \in {"publish", "rename"} => TempHeaders(w) # {}
    /\ \A w \in Workers : pc[w] = "rename" => body[rkey[w]] # 0
    /\ Paired

\* What a worker or a file of a key holds was made for that key.
OwnKey ==
    /\ \A w \in Workers :
         /\ headers_out[w] \subseteq made[rkey[w]]
         /\ rbody[w] \in made[rkey[w]] \cup {0}
         /\ pc[w] = "hit" => rbody[w] # 0
         /\ pc[w] = "idle" => headers_out[w] = {} /\ rbody[w] = 0
         /\ pc[w] \in Holding => rgen[w] \in made[rkey[w]]
    /\ \A k \in Keys :
         header[k].from \subseteq made[k] /\ body[k] \in made[k] \cup {0}
    /\ \A t \in tmp_header : t.from \subseteq made[t.key] /\ t.gen \in made[t.key]
    /\ \A k \in Keys : \A g \in made[k] : g \in 1..lastGen
    /\ \A j, k \in Keys : j # k => made[j] \cap made[k] = {}

\* Together with the properties, preserved by every step.
StoreInv ==
    /\ TypeOK
    /\ OwnGeneration
    /\ TempsMatchStep
    /\ PublishedNotHeld
    /\ RememberedNotHeld
    /\ SeenIsGone
    /\ DeletesInScope
    /\ HeaderAfterBody
    /\ TempsAccounted
    /\ PurgedStaysGone

-----------------------------------------------------------------------------
(* What the documentation says of the store and the code does not do.      *)

\* README.md: concurrent requests leave "no corruption".  A hit pairs the
\* headers and the body of one and the same response.
HitIsOneResponse ==
    \A w \in Workers : pc[w] = "hit" => headers_out[w] = {rbody[w]}

\* README.md: "a purge mid-request neither corrupts the response nor errors".
\* A response generated on a miss carries its own headers and no others.
MissIsClean ==
    \A w \in Workers : pc[w] \in Holding \cup {"sent"} => headers_out[w] = {rgen[w]}

\* cacher_admin.c: the walk calls visit_entry "for every .header" and means
\* to skip mktemp's names.  A worker that has installed its body still has
\* the header to install after it.
WalkSparesTemporaries ==
    \A w \in Workers : pc[w] = "rename" => TempHeaders(w) # {}
=============================================================================
