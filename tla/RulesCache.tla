----------------------------- MODULE RulesCache -----------------------------
(***************************************************************************)
(* The per-process cache of parsed CacherRulesFile contents                *)
(* (cacher_config.c): a linked list behind one mutex, an entry per path    *)
(* with the (mtime, size) the file had when it was looked at.  Threads     *)
(* call get_ruleset_from_file while an operator edits the files.           *)
(*                                                                         *)
(* A file holds the first len bytes of a version; a version is its number, *)
(* and 0 stands for no file or, as a ruleset, for NULL.                    *)
(***************************************************************************)
EXTENDS Naturals, Sequences, FiniteSets

CONSTANTS
    Threads,        \* request threads of the process
    Paths,          \* resolved rules file paths
    Versions,       \* contents an operator may write
    Size,           \* length of each, in bytes
    Broken,         \* the contents cacher_ruleset_parse rejects
    NoThread,       \* the mutex is free
    MaxEdits,       \* bound of the instance
    DistinctStamps  \* whether every edit changes the file's mtime

ASSUME VersionAssumption ==
    /\ Versions \subseteq Nat \ {0}
    /\ Size \in [Versions -> Nat]
    /\ Broken \subseteq Versions
ASSUME ThreadAssumption == NoThread \notin Threads
ASSUME PathAssumption == Paths # {}
ASSUME EditAssumption == MaxEdits \in Nat /\ DistinctStamps \in BOOLEAN

VARIABLES
    file,       \* what is at each path
    clock,      \* the file system's clock, at the grain of an mtime
    mutex,      \* holder of rules_cache_mutex
    cache,      \* the entries; rules_cache_head is the last
    pc,         \* where each thread is in get_ruleset_from_file
    path,       \* the path it resolved
    st,         \* its apr_stat result
    fresh,      \* what it parsed
    result,     \* what it returned
    window,     \* history: what reading the file could give during the call
    edits

vars == <<file, clock, mutex, cache, pc, path, st, fresh, result, window, edits>>
call == <<path, st, fresh, result>>

-----------------------------------------------------------------------------
Ruleset   == Versions \cup {0}
FileType  == [ver : Ruleset, len : Nat, mtime : Nat]
StatType  == [mtime : Nat, size : Nat]
EntryType == [path : Paths, mtime : Nat, size : Nat, ruleset : Ruleset]
Missing(m) == [ver |-> 0, len |-> 0, mtime |-> m]
NoStat    == [mtime |-> 0, size |-> 0]
AnyPath   == CHOOSE p \in Paths : TRUE

\* cacher_ruleset_parse on the first n bytes of version v: JSON cut short
\* does not parse.
Parse(v, n) == IF v \in Versions \ Broken /\ n = Size[v] THEN v ELSE 0

\* The ruleset the file stands for.
Meaning(f) == IF f.ver = 0 THEN 0 ELSE Parse(f.ver, f.len)

\* Every variable has its type.
TypeOK ==
    /\ file \in [Paths -> FileType]
    /\ clock \in Nat
    /\ mutex \in Threads \cup {NoThread}
    /\ cache \in Seq(EntryType)
    /\ pc \in [Threads -> {"idle", "stat", "lock", "scan", "read", "reading", "install", "done"}]
    /\ path \in [Threads -> Paths]
    /\ st \in [Threads -> StatType]
    /\ fresh \in [Threads -> Ruleset]
    /\ result \in [Threads -> Ruleset]
    /\ window \in [Threads -> SUBSET Ruleset]
    /\ edits \in Nat

Init ==
    /\ file \in [Paths -> {Missing(0)} \cup {[ver |-> v, len |-> Size[v], mtime |-> 0] : v \in Versions}]
    /\ clock = 0
    /\ mutex = NoThread
    /\ cache = <<>>
    /\ pc = [t \in Threads |-> "idle"]
    /\ path = [t \in Threads |-> AnyPath]
    /\ st = [t \in Threads |-> NoStat]
    /\ fresh = [t \in Threads |-> 0]
    /\ result = [t \in Threads |-> 0]
    /\ window = [t \in Threads |-> {}]
    /\ edits = 0

-----------------------------------------------------------------------------
(* get_ruleset_from_file.                                                  *)

Call(t, p) ==
    /\ pc[t] = "idle"
    /\ pc' = [pc EXCEPT ![t] = "stat"]
    /\ path' = [path EXCEPT ![t] = p]
    /\ window' = [window EXCEPT ![t] = {Meaning(file[p])}]
    /\ UNCHANGED <<file, clock, mutex, cache, st, fresh, result, edits>>

\* The function's locals are gone.
Return(t, r) ==
    /\ pc' = [pc EXCEPT ![t] = "done"]
    /\ result' = [result EXCEPT ![t] = r]
    /\ st' = [st EXCEPT ![t] = NoStat]
    /\ fresh' = [fresh EXCEPT ![t] = 0]

\* Mutant: the failed stat's apr_status_t is handed on.
StatFailsStatus(t) ==
    /\ pc[t] = "stat"
    /\ file[path[t]].ver = 0
    /\ Return(t, 20000)
    /\ UNCHANGED <<file, clock, mutex, cache, path, window, edits>>

StatFails(t) ==
    /\ pc[t] = "stat"
    /\ file[path[t]].ver = 0
    /\ Return(t, 0)
    /\ UNCHANGED <<file, clock, mutex, cache, path, window, edits>>

Stat(t) ==
    /\ pc[t] = "stat"
    /\ file[path[t]].ver # 0
    /\ st' = [st EXCEPT ![t] = [mtime |-> file[path[t]].mtime, size |-> file[path[t]].len]]
    /\ pc' = [pc EXCEPT ![t] = "lock"]
    /\ UNCHANGED <<file, clock, mutex, cache, path, fresh, result, window, edits>>

\* Both critical sections are entered the same way.
Lock(t) ==
    /\ pc[t] \in {"lock", "reading"}
    /\ mutex = NoThread
    /\ mutex' = t
    /\ pc' = [pc EXCEPT ![t] = IF @ = "lock" THEN "scan" ELSE "install"]
    /\ UNCHANGED <<file, clock, cache, call, window, edits>>

\* The list positions that hold the path; the scan stops at the one nearest
\* the head.
Matches(p) == {i \in DOMAIN cache : cache[i].path = p}
Nearest(i) == \A j \in Matches(cache[i].path) : j <= i

\* Mutant: only the size is compared.
ScanHitBySize(t) ==
    /\ pc[t] = "scan"
    /\ \E i \in Matches(path[t]) :
         /\ Nearest(i)
         /\ cache[i].size = st[t].size
         /\ Return(t, cache[i].ruleset)
    /\ mutex' = NoThread
    /\ UNCHANGED <<file, clock, cache, path, window, edits>>

ScanHit(t) ==
    /\ pc[t] = "scan"
    /\ \E i \in Matches(path[t]) :
         /\ Nearest(i)
         /\ cache[i].mtime = st[t].mtime /\ cache[i].size = st[t].size
         /\ Return(t, cache[i].ruleset)
    /\ mutex' = NoThread
    /\ UNCHANGED <<file, clock, cache, path, window, edits>>

ScanMiss(t) ==
    /\ pc[t] = "scan"
    /\ \A i \in Matches(path[t]) :
         Nearest(i) => cache[i].mtime # st[t].mtime \/ cache[i].size # st[t].size
    /\ mutex' = NoThread
    /\ pc' = [pc EXCEPT ![t] = "read"]
    /\ UNCHANGED <<file, clock, cache, call, window, edits>>

\* The file is gone or shorter than it was; once it is open, only a write in
\* place, which leaves it half written, can cut it short.
ShortRead(t) ==
    LET f == file[path[t]] IN
        \/ pc[t] = "read" /\ (f.ver = 0 \/ f.len < st[t].size)
        \/ pc[t] = "reading" /\ f.ver # 0 /\ f.len < Size[f.ver] /\ f.len < st[t].size

\* Mutant: a failed read is tried again under the stat at hand.
ReadFailsRetry(t) ==
    /\ ShortRead(t)
    /\ pc' = [pc EXCEPT ![t] = "lock"]
    /\ UNCHANGED <<file, clock, mutex, cache, call, window, edits>>

\* Nothing is recorded.
ReadFails(t) ==
    /\ ShortRead(t)
    /\ Return(t, 0)
    /\ UNCHANGED <<file, clock, mutex, cache, path, window, edits>>

\* The file is open and its first st.size bytes are being read and parsed, until
\* the thread takes the mutex again: edits in place may change what it gets.
Read(t) ==
    /\ pc[t] = "read"
    /\ file[path[t]].ver # 0 /\ file[path[t]].len >= st[t].size
    /\ fresh' = [fresh EXCEPT ![t] = Parse(file[path[t]].ver, st[t].size)]
    /\ pc' = [pc EXCEPT ![t] = "reading"]
    /\ UNCHANGED <<file, clock, mutex, cache, path, st, result, window, edits>>

\* apr_stat, apr_file_open or apr_file_read_full fails although the file is
\* there: no permission, no descriptor left, a bad disk.
IOError(t) ==
    /\ pc[t] \in {"stat", "read", "reading"}
    /\ Return(t, 0)
    /\ window' = [window EXCEPT ![t] = @ \cup {0}]
    /\ UNCHANGED <<file, clock, mutex, cache, path, edits>>

Loaded(t) == [path |-> path[t], mtime |-> st[t].mtime, size |-> st[t].size, ruleset |-> fresh[t]]

\* Mutant: the list is not scanned again under the second lock.
InstallUnscanned(t) ==
    /\ pc[t] = "install"
    /\ cache' = Append(cache, Loaded(t))
    /\ mutex' = NoThread
    /\ Return(t, fresh[t])
    /\ UNCHANGED <<file, clock, path, window, edits>>

\* Mutant: the entry is stamped with the file as it is now, not as stat saw it.
InstallRestamped(t) ==
    /\ pc[t] = "install"
    /\ cache' = Append(SelectSeq(cache, LAMBDA e : e.path # path[t]),
                       [Loaded(t) EXCEPT !.mtime = file[path[t]].mtime,
                                         !.size = file[path[t]].len])
    /\ mutex' = NoThread
    /\ Return(t, fresh[t])
    /\ UNCHANGED <<file, clock, path, window, edits>>

\* Mutant: a ruleset that failed to parse is not recorded.
InstallParsedOnly(t) ==
    /\ pc[t] = "install"
    /\ cache' = IF fresh[t] = 0 THEN cache
                ELSE Append(SelectSeq(cache, LAMBDA e : e.path # path[t]), Loaded(t))
    /\ mutex' = NoThread
    /\ Return(t, fresh[t])
    /\ UNCHANGED <<file, clock, path, window, edits>>

\* The path's entry is overwritten, or a new one becomes the head.  A ruleset
\* that is replaced is never freed, so no caller is left with a dead pointer.
Install(t) ==
    /\ pc[t] = "install"
    /\ \/ Matches(path[t]) = {} /\ cache' = Append(cache, Loaded(t))
       \/ \E i \in Matches(path[t]) : Nearest(i) /\ cache' = [cache EXCEPT ![i] = Loaded(t)]
    /\ mutex' = NoThread
    /\ Return(t, fresh[t])
    /\ UNCHANGED <<file, clock, path, window, edits>>

\* The request goes on with its ruleset and ends.
Finish(t) ==
    /\ pc[t] = "done"
    /\ pc' = [pc EXCEPT ![t] = "idle"]
    /\ path' = [path EXCEPT ![t] = AnyPath]
    /\ result' = [result EXCEPT ![t] = 0]
    /\ window' = [window EXCEPT ![t] = {}]
    /\ UNCHANGED <<file, clock, mutex, cache, st, fresh, edits>>

-----------------------------------------------------------------------------
(* The operator.                                                           *)

\* An edit's mtime.  A coarse clock, or a copy that preserves times, may
\* repeat one.
NewStamp == IF DistinctStamps THEN {clock + 1} ELSE {clock, clock + 1}

\* The threads that have the file open.
Reading(p) == {t \in Threads : pc[t] = "reading" /\ path[t] = p}

\* A call in progress may see the file before or after, or nothing usable.
\* The readers in R get a mixture of old and new bytes: it parses as anything.
Edit(p, f, R) ==
    /\ edits < MaxEdits
    /\ edits' = edits + 1
    /\ file' = [file EXCEPT ![p] = f]
    /\ clock' = f.mtime
    /\ \E torn \in [R -> Ruleset] :
         /\ fresh' = [t \in Threads |-> IF t \in R THEN torn[t] ELSE fresh[t]]
         /\ window' = [t \in Threads |->
                          IF pc[t] # "idle" /\ path[t] = p
                          THEN window[t] \cup {0, Meaning(f)} \cup {torn[u] : u \in R}
                          ELSE window[t]]
    /\ UNCHANGED <<mutex, cache, pc, path, st, result>>

\* Written elsewhere and renamed into place: an open file stays what it was.
Replace(p, v) ==
    \E m \in NewStamp : Edit(p, [ver |-> v, len |-> Size[v], mtime |-> m], {})

\* Written in place, and found half written.
WriteSome(p, v) ==
    \E m \in NewStamp, n \in 0..Size[v], R \in SUBSET Reading(p) :
        n < Size[v] /\ Edit(p, [ver |-> v, len |-> n, mtime |-> m], R)

WriteRest(p) ==
    /\ file[p].ver # 0
    /\ file[p].len < Size[file[p].ver]
    /\ \E m \in NewStamp, R \in SUBSET Reading(p) :
         Edit(p, [ver |-> file[p].ver, len |-> Size[file[p].ver], mtime |-> m], R)

Remove(p) ==
    /\ file[p].ver # 0
    /\ \E m \in NewStamp : Edit(p, Missing(m), {})

-----------------------------------------------------------------------------
ThreadStep(t) ==
    \/ StatFails(t) \/ Stat(t) \/ Lock(t) \/ ScanHit(t) \/ ScanMiss(t)
    \/ ReadFails(t) \/ Read(t) \/ IOError(t) \/ Install(t) \/ Finish(t)

Operator ==
    \E p \in Paths :
        \/ \E v \in Versions : Replace(p, v) \/ WriteSome(p, v)
        \/ WriteRest(p)
        \/ Remove(p)

Next ==
    \/ \E t \in Threads : (\E p \in Paths : Call(t, p)) \/ ThreadStep(t)
    \/ Operator

Spec == Init /\ [][Next]_vars

\* A thread inside the function keeps running, and one that waits for the mutex
\* while it is free again and again is let in at last.
FairSpec == Spec /\ \A t \in Threads : WF_vars(ThreadStep(t))
                                    /\ SF_vars(Lock(t))

-----------------------------------------------------------------------------
(* Properties.                                                             *)

\* Two threads that both miss on a path leave one entry for it.
OneEntryPerPath ==
    \A i, j \in DOMAIN cache : cache[i].path = cache[j].path => i = j

\* cacher_config.h: the file "is only re-read/re-parsed when it actually
\* changes on disk".  An entry whose stamp is the file's holds what the file
\* says, although the file was read after it was stamped and without the lock.
CacheIsCurrent ==
    \A i \in DOMAIN cache :
        LET f == file[cache[i].path] IN
            f.ver # 0 /\ cache[i].mtime = f.mtime /\ cache[i].size = f.len
                => cache[i].ruleset = Meaning(f)

\* A call returns what reading the file gave at some moment of the call: NULL
\* also when an edit or an I/O error got in its way, a mixture of two contents
\* only if somebody was reading while it was written in place.
ResultIsRecent == \A t \in Threads : pc[t] = "done" => result[t] \in window[t]

\* The cache cannot be told from none at all: every behaviour of it, seen
\* through what the files mean and what calls return, is one of RulesFile.
Phase(t) == IF pc[t] \in {"idle", "done"} THEN pc[t] ELSE "busy"
Uncached == INSTANCE RulesFile WITH
                Rulesets <- Ruleset, None <- 0,
                meaning  <- [p \in Paths |-> Meaning(file[p])],
                phase    <- [t \in Threads |-> Phase(t)],
                asked    <- path,
                possible <- window,
                answer   <- result
CacheIsInvisible == Uncached!Spec

-----------------------------------------------------------------------------
(* The inductive invariant, for edits that never repeat a stamp.           *)

AfterStat == {"lock", "scan", "read", "reading", "install"}
AfterRead == {"reading", "install"}

\* An mtime is never in the future, and in-place writes stop at the end.
StampsInOrder ==
    /\ \A p \in Paths :
         /\ file[p].mtime <= clock
         /\ file[p].ver # 0 => file[p].len <= Size[file[p].ver]
    /\ \A i \in DOMAIN cache : cache[i].mtime <= file[cache[i].path].mtime
    /\ \A t \in Threads : pc[t] \in AfterStat => st[t].mtime <= file[path[t]].mtime

\* A stamp that is still the file's vouches for what was seen under it.
StampVouches ==
    /\ \A i \in DOMAIN cache :
         cache[i].mtime = file[cache[i].path].mtime => cache[i].ruleset = Meaning(file[cache[i].path])
    /\ \A t \in Threads :
         pc[t] \in AfterStat /\ st[t].mtime = file[path[t]].mtime =>
            /\ file[path[t]].ver # 0
            /\ st[t].size = file[path[t]].len
            /\ pc[t] \in AfterRead => fresh[t] = Meaning(file[path[t]])

\* A call's window has the file's present meaning, and NULL once an edit has
\* overtaken its stat.
WindowOpen ==
    \A t \in Threads :
        /\ pc[t] # "idle" => Meaning(file[path[t]]) \in window[t]
        /\ pc[t] \in AfterStat /\ st[t].mtime < file[path[t]].mtime => 0 \in window[t]

\* Whatever was or will be recorded under a stamp no older than a call's own
\* lies in that call's window.
NewerIsInWindow ==
    \A t \in Threads : pc[t] \in AfterStat =>
        /\ \A i \in DOMAIN cache :
             cache[i].path = path[t] /\ cache[i].mtime >= st[t].mtime
                => cache[i].ruleset \in window[t]
        /\ \A u \in Threads :
             pc[u] \in AfterRead /\ path[u] = path[t] /\ st[u].mtime >= st[t].mtime
                => fresh[u] \in window[t]

RulesInv ==
    /\ TypeOK
    /\ OneEntryPerPath
    /\ StampsInOrder
    /\ StampVouches
    /\ WindowOpen
    /\ NewerIsInWindow
    /\ ResultIsRecent

-----------------------------------------------------------------------------
(* Liveness.                                                               *)

\* Every call returns.
CallsReturn == \A t \in Threads : pc[t] # "idle" ~> pc[t] = "idle"

\* Once edits and I/O errors stop, reading and parsing stop as well, even for
\* a file that does not parse and after threads overwrote one another's
\* entries.  (A file that can never be opened is tried again by every call.)
NoMoreErrors == <>[][\A t \in Threads : ~IOError(t)]_vars
ParsingSettles == NoMoreErrors => <>[](\A t \in Threads : pc[t] \notin {"read", "reading", "install"})
=============================================================================
