# A TLA+ verification project for mod_cacher

mod_cacher (`src/`) is an Apache module that stores whole responses on disk and
serves them again, with rules per directory. This directory models the parts of
it where concurrency, failure and odd inputs decide whether it is right, checks
the models with TLC on small instances and proves the main safety properties
with TLAPS for instances of any size.

## 1. The system

| Part | Source | State it keeps | Operations |
|---|---|---|---|
| request handler | `src/src/mod_cacher.c` | none of its own | `cacher_handler`: decide, look up, serve a HIT or attach the filter on a MISS |
| entry store | `src/src/cacher_cache.c` | `<root>/ab/cd/<hash>.header` and `.body`, temporary files beside them | `cacher_cache_lookup`, `finalize_cache_entry`, `cacher_cache_read_meta` |
| capture filter | `src/src/cacher_cache.c` | a `cacher_out_ctx` per request, one temporary body | `cacher_cache_insert_filter`, `cacher_output_filter` |
| admin endpoint | `src/src/cacher_admin.c` | none | list, purge, full-reset of the requesting host |
| command-line tool | `src/tools/cacher` | none | list, purge, full-reset, of one host or of all |
| rules-file cache | `src/src/cacher_config.c` | a list per child process, behind a mutex | `get_ruleset_from_file` |
| directory configuration | `src/src/cacher_config.c` | settings per directory | create, merge, precedence of file over inline rules |
| rules | `src/src/cacher_rules.c` | parsed rules, never changed | parse, match, glob, status/type/cookie tests |
| cookies, key | `src/src/cacher_util.c`, `cacher_cache.c` | none | cookie scan, key string |

**Interactions.** All child processes, all sites and all purges share one
directory tree and nothing else: there is no lock on it, only the atomicity of
`rename`. A purge is an ordinary request in another worker, or another process
altogether. Inside a process the threads share the rules list. The operator
edits rules files under the running server. A request calls, in order, the rules
cache, the matcher, the lookup and, on a miss, the generator through the capture
filter, which publishes at the end of the response.

**What is hard here.** Two workers publishing one key; a lookup overtaken by a
publication or a purge between its read of the header and its open of the body;
a purge racing a capture; a process dying with temporary files; a write that
fails in the middle of a brigade; a client hanging up; a rules file edited
between `stat`, the two critical sections and the unlocked read; a matcher that
backtracks; a request that passes the handler once per internal redirect, each
time under another directory's settings; settings and rules edited between the
storing of an entry and its use. `PROJECT.json` lists them as hazards, each at its line.

**What makes each part correct.** Store: a header is never visible before its
body, temporary files do not accumulate, a hit is one response, a purge is
complete and stays on its site. Filter: only whole responses are published.
Rules cache: a caller gets the rules that are in the file. Matcher: it decides
the glob language. Handler, rules, key, headers and configuration together: a hit
answers a request equivalent to the one it was stored for, with its headers and
nobody's cookies; what may not be shared is not stored; an exclusion holds for
the path the client asked for; settings come from the nearest directory.

## 2. The modules

`EntryStore` - the disk store and everyone on it. `header[k]`, `body[k]`,
`tmp_body` and `tmp_header` are the files; their content is the *generation* (the
number of the response) they came from, a header also has its expiry and the set
of responses whose headers it lists. A worker is a program counter over the system
calls of one request: `StartRequest`; `LookupReplay`/`LookupMiss` (read the header,
test the expiry, replay; a header that cannot be read is a miss); `LookupOpenBody`/`LookupNoBody`; `GenerateUncaptured` or
`OutputFilterStart` (the generator runs, the temporary body exists); `FilterAbandon`
(every early return of the filter and of `finalize_cache_entry`);
`FinalizeWriteHeader`, `FinalizeRenameBody`, `FinalizeRenameHeader`,
`FinalizeFail`; `FinishRequest`. A purge walks: `VisitEntry`, `VisitTempHeader`
(the endpoint only), `DeleteEntryBody`, `DeleteEntryHeader`, then `EndWalk`, or
for a full-reset of everything `StartSweep`, `SweepBody`, `EndSweep`. Either may
crash between any two steps. `done`, `leaked`, `made` (which responses were generated
for each key) and the counters are history.

`CaptureFilter` - one response through `cacher_output_filter`, a bucket per step.
`Generate` fills brigades with data, empty data, flush and EOS buckets;
`FirstCall` decides and creates the file; `Capture`, `PassOver`, `GiveUp`,
`LoseBucket` are the loop body; `Check` (the completeness checks, after which the
response is `trusted`), `Publish` and `Discard` are `finalize_cache_entry`, and the
client may hang up between them. `cut` is history: the client had gone when the
generator ended the response. `len` is uninitialised when `apr_bucket_read` fails, so a
failed read is either `GiveUp` (len was not 0) or `LoseBucket` (it was).

`RulesCache` - `get_ruleset_from_file`: `Call`, `Stat`, `Lock` (twice), `ScanHit`
or `ScanMiss`, `Read`, `Install`, with the failures of each: the file is gone or has
become shorter (`ReadFails`), or a system call fails on an intact file (`IOError`). The
operator replaces a file by rename, writes it in place and is seen half-way, or
removes it. Between `Read` and the second `Lock` the file is open (`Reading`), and an
edit in place gives any of its readers a mixture of old and new bytes, which parses as
anything. `window[t]` is history: what reading the file could give during t's call.

`RulesFile` - what `cacher_config.h` promises of the above, without a cache: a call
is answered with a meaning the file has had since the call began, with nothing
usable if an edit came in between or the file cannot be read (`Fail`), or with a
mixture that somebody read while the file was rewritten in place (`Change`).
`RulesCache` instantiates it
(`Uncached == INSTANCE RulesFile WITH ...`: `meaning` is what the file stands for,
`phase` folds the program counter into idle, busy and done, `possible` is `window`,
`answer` the result) and `CacheIsInvisible` says that every behaviour of the cache
is one of it.

`GlobMatch` - `cacher_glob_match`, one iteration per step, and `Language`, what the
glob language says, as a recursive function over the two positions (`Matches` is it
for the strings being matched). Characters are the members of two sets; the
terminating NUL is none of them (`NoNul`).

`Site` - a running server with two requests in progress. It composes four modules
of pure definitions:

- `Rules` (`cacher_rules.c`): a JSON value to a rule with its defaults
  (`parse_rule`, `cacher_ruleset_parse`), first match (`cacher_ruleset_match`),
  the status, type and cookie tests. A pattern stands for the values it matches
  (`Globs`); how they are matched is `GlobMatch`'s subject.
- `RequestKey` (`cacher_util.c`, `build_cache_key_string`): a request as its
  *hops* (the target the client asked for, then one per internal redirect),
  method, host, cookie pieces, headers and whether Apache can tell who the client is
  (`login`, by an `Authorization` header, a session or a certificate; the filter looks
  at the header only). A target has the path rules are matched on
  (`parsed_uri.path`), the uri (`r->uri`, which a pass-through rewrite may have
  changed) and the query, each decoded and cut at its question marks. The cookie scan,
  the bypass test, and the key as the lines of the key string: the address in it is
  text (`Url`, the uri, '?' and the query), so `/page%3Fx` and `/page?x` have one key.
- `HeaderBlock` (`cacher_cache.c`): a table gives each name the values added under
  it; `Dump` is what an entry keeps and `Replay` what a hit puts back.
- `DirConfig` (`cacher_config.c`): the directives, create and merge of the settings
  along nested directories (`Merged`: Apache walks the levels of a path outermost
  first and merges those that have settings), the trimming and unquoting of `CacherRules`, and
  `cacher_config_get_ruleset`.

`Site`'s variables are the settings at each level (`conf`), the rules files, the
published entries (`store`), the request in each worker (`job`) and the clock.
The handler has one action per way out of it: `HandleSubrequest`,
`AdminForbidden`, `AdminHandle`, `HandleInactive` (a rewritten admin request, not
enabled, no usable rules), `HandleDynamic`, `HandleExcluded`, `HandleBypass`,
`HandleHit`, `HandleMiss`. After a DECLINED, `Redirect` is the site's rewriting,
which runs the handler again on a new request record, or `Generate` is the content
generator with the filter's first call; then `Publish` or `Abandon`. `EditHtaccess`
and `EditFile` are the operator. Apache (authorisation, redirects, merging order,
header tables) and the generator are external. A lookup and a publication are one
step each: `EntryStore` splits them. `by`, `rule` and `sent` of an entry and
`denied` of a job are history.

`SharedCache` - what the above promises, without handler passes, settings, tables or
filters: a client's visit (host, address as text, known to Apache or not, with an
`Authorization` header or not) is answered from the cache, by the generator, by the
administration or with a refusal; a response may be stored under the host and address
it was asked for, until its expiry; an entry is dropped only by being
replaced, or by an administrator, and then only for that administrator's host. `Site`
instantiates it (`Shared == INSTANCE SharedCache WITH ...`: `cached` is what is known
of each entry from outside, `client` the visit, phase and status of each job, `clock`
is `now`). A DECLINED, an internal redirect and an edit of the settings are stutters.
`KeepsPromise` says that every behaviour of the server is one of it.

`EntryStoreProofs`, `RulesCacheProofs`, `CaptureFilterProofs`, `GlobMatchProofs`,
`SiteProofs`, `SiteRefinement` - theorems. `Induction` - induction over the naturals for them. `MC*` - instances for TLC.
Operators commented "Mutant" are plausible mistakes in the definition that
follows; no specification uses them. `PROJECT.json` pairs each with the property
that rules it out.

Abstractions shared by the modules: the text of a header file is its meaning; a
header file is read in one step (it appears by rename, so a reader never sees a
part of one, and an open descriptor survives a rename); creating and writing a
temporary header is one step (a half-written one has no blank line and is
ignored by everyone); unlinking does not fail; a directory walk returns every
file that was there when it began and still is, and may or may not return what
appears meanwhile; every response that gets as far as the filter ends with EOS,
which Apache sends when it finishes a request; shard directories always exist
(a full-reset that removes an empty one makes `mktemp` fail, which
`GenerateUncaptured` covers). The mutex is always available and every call has a
path to resolve: otherwise the function returns NULL before touching any state.

## 3. The runs

| Run | Shows | Bounds |
|---|---|---|
| `store` | `HeaderAfterBody`, `TempsAccounted`, `PurgedStaysGone` and the inductive invariant | 1 key, 2 workers, an admin purge or a full-reset, 3 responses, 1 crash, failing renames and opens, one expiry |
| `store_live` | `NoStranded`, `NoCrossTalk`, `PurgeKeepsOtherHosts`, `RequestsEnd`, `WalksEnd` | 2 sites with a page each, 2 workers, 3 responses, a purge of either site |
| `rules_cache` | `OneEntryPerPath`, `CacheIsCurrent`, `ResultIsRecent`, the refinement `CacheIsInvisible`, `CallsReturn`, `ParsingSettles` and the inductive invariant | 2 threads, 1 path, 2 contents (half of the longer one is as long as the other, and does not parse), 2 edits, any failing system call |
| `capture` | `NoTempLeft`, `PublishedIsWhole`, `PublishedAsDeclared`, `CutShortNotPublished` and the inductive invariant | 4 bytes, brigades of 3 buckets of 0 to 2 bytes |
| `glob` | `GlobIsCorrect`, `LastStarSuffices`, the action property `TurnsGoForward`, `GlobReturns` and the loop invariant | patterns and values of up to 4 characters |
| `site` | `HitIsEquivalent`, `StoredIsShareable`, `ExclusionShields`, `HitHeaders`, `StatusTellsOutcome`, `AdminBehindLocation`, `SettingsInherited`, the refinement `KeepsPromise` and the inductive invariant | 2 workers, 2 of 16 requests (2 sites, 7 uris, an escaped `?`, a passed-through path, cookies, known clients with and without an `Authorization` header, HEAD, POST, a subrequest, admin), 2 responses, 3 levels of settings, 1 edit, 1 tick |

Why the bounds are enough: two workers and a purge exhibit every pairwise race of
the store, and three responses let one be published, purged and published again;
one crash suffices because the files of a dead process are never touched by
anyone else until a sweep. The proofs remove the bounds for the safety properties.
Two edits put two versions between any two steps of a call. Two stars with
characters between and after them are the smallest patterns where remembering
only the last star could go wrong, and four characters hold them. In `site` one
request stores and the other hits (or is refused), with the edit and the tick
before, between or after any of their steps; the requests differ pairwise in one
of the things the key, the rules or the filter look at, and the rewritten ones
pass the handler twice.

`PublishedIsWhole` says what the length check is worth: a published body is all
of the response, unless a bucket could not be read and the response had no (or a
wrong) declared length. That exception is real, and is the uninitialised `len`.

**Fairness.** A request, a purge or a call in progress keeps taking steps: threads
and processes are scheduled by the kernel and no step of theirs waits for another
(weak fairness). The rules mutex is held for a scan of a short list only, and a
waiter that finds it free again and again is let in (strong fairness on `Lock`).
Nothing obliges a client to send a request, an operator to edit, or a process to
crash. Requests and purges that are bounded by the instance stop; `Quiescent`,
`Ended` and `Returned` stutter there so that a deadlock anywhere else is an error.

**Runs that must fail.** Six runs show a disagreement between the code and what
the repository says of it (findings in `PROJECT.json`):

- `store_torn` / `HitIsOneResponse`: body A, body B, header B, header A. The
  entry has A's headers and B's body until it expires; a reader can also catch
  two publications in the middle.
- `store_polluted` / `MissIsClean`: the stored headers are replayed before the
  body is opened; if a purge removes it first, the generated response carries
  (and is stored with) the purged entry's headers.
- `store_temp_walk` / `WalkSparesTemporaries`: for the same reason the admin
  walk deletes the temporary header of a capture about to be published; the
  publication fails and removes the body that has the final name.
- `glob_star_in_value` / `GlobIsCorrect`: `*` does not match `**`, because the
  literal comparison comes first.
- `site_redirect` / `RefusalIsFinal`: `/shop/.htaccess` excludes `/shop/cart`; the
  front controller it is rewritten to lies under the root's rules, which match the
  original path too and do not exclude it, so the response is captured.
- `site_login` / `AuthenticatedNotStored`: `/page` is behind `Require valid-user` and
  the client is known by a session; the filter finds no `Authorization` header and the
  response enters the shared cache (README.md: "an authenticated request must never be
  captured into the shared cache").

Other limits the models have because the code has them, without a run of their own:

- a response being captured while a purge runs is published after it;
- `cacher full-reset` looks for `.XXXXXX` in names from which `mktemp` has removed
  it, so temporary files of dead processes stay;
- an edit that keeps both mtime and size of a rules file is not noticed (the proofs
  and the run assume `DistinctStamps`);
- `r->content_type` is in `headers_out` only once Apache's header filter has seen a
  brigade, so a response that ends in its first brigade is stored without its type
  (`Generate`'s `flushed`; `HitHeaders` is about the table that was written);
- `X-Cacher: MISS` is set before it is known whether the response will be stored;
- an entry outlives an edit of the rule it was stored under, until it expires;
- a relative rules file is looked up in the innermost directory that has a directive of
  this module, not in the one that names the file (`SettingsInherited` says so of
  `config_dir`; README.md says "relative to the directory it's set in");
- two targets that decode to one address share a key, a url line and a purge pattern;
  `HitIsEquivalent` therefore speaks of the address as text, and of uri and query where
  neither uri contains a `?`;
- the cleanup after a failed rename removes the body under the final name, also if it
  is another worker's; its header is left without a body, which is a later miss.

## 4. The theorems

`EntryStoreProofs`, for any keys, hosts, workers, purges, clocks, crashes and
faults, from the assumptions named in `EntryStore` (there is a key, every key has
a host, commands are well formed, bounds are numbers):

- `TypeCorrect`; `StoreInvariant : Spec => []StoreInv`;
- `NoHeaderBeforeItsBody`, `NoTemporaryIsForgotten`, `PurgedNeverReturns`;
- `PurgesStayOnTheirHost`, an action property;
- `PublishersNeverStrand`: before any purge and without failing renames, a header
  always has a body;
- `KeysKeepTheirOwn : Spec => []OwnKey` and `NoMixing : Spec => []NoCrossTalk`: nothing
  made for one key is ever sent to a request for another.

None of the three invariants is inductive alone. That a header never precedes its
body needs that no worker is still on its way to publish a generation that is
already visible (`PublishedNotHeld`), which needs that two workers never hold
one generation and that generations are never reused (`OwnGeneration`) and that
the body has left its temporary name by the time the header is renamed
(`TempsMatchStep`). That a purged entry never returns needs the same for
everything a walk remembers (`RememberedNotHeld`) and that what a walk has passed
is gone (`SeenIsGone`). `DeletesInScope` carries the host test to the unlink.
`PublishersInv` is the separate, conditional invariant of `PublishersNeverStrand`.
`OwnKey` follows every file and every request back to the key it was made for. The one
place where keys could meet is a worker that picks up its temporary header by its
generation: since the generations of two keys are disjoint, the header it finds is of
its own key. The torn and polluted answers of `store_torn` and `store_polluted` are
therefore mixtures of responses of one key, never of two.

`RulesCacheProofs`, for any threads, paths, contents and edits:

- `TypeCorrect` and `NoDuplicateEntries`, without further assumptions;
- `RulesInvariant`, `CallsSeeTheFile`, `CacheNeverStale`, assuming
  `DistinctStamps` (an edit always gives the file a new mtime). The assumption is
  needed: an edit that repeats mtime and size leaves the old rules in the cache;
- `CacheRefinesFile`: under the same assumption `Spec => CacheIsInvisible`, that is,
  the cache implements `RulesFile`. `InitRefines` maps the initial states; each
  action maps to one abstract step or to a stutter (`CallAsks`, `ReturnAnswers`,
  `FinishLeaves`, `EditChanges`, `InnerStutters`), where only an answer needs the
  invariant: what is returned is in the window.

The argument: stamps only grow (`StampsInOrder`), so a stamp that is still the
file's vouches for what was read under it (`StampVouches`); a stamp that is not
belongs to a call whose window is already open to what the file has meant since
(`WindowOpen`, `NewerIsInWindow`).

`CaptureFilterProofs`, for responses of any length in brigades of any size, with any
failing read or write and a client that may hang up anywhere (assuming that lengths
are naturals):

- `TypeCorrect`; `FilterInvariant : Spec => []FilterInv`;
- `NoTemporaryBodyLeft`, `OnlyWholeResponses`, `LengthAsDeclared`,
  `CountsWhatItWrote`;
- `NothingCutShort`: what was ended after the client had gone is not published.

What is published at the end says nothing of how it came together, so the invariant
is about the brigade in the middle of the loop: what is in the file and what is
still in the brigade add up to what the generator has sent, unless a bucket was lost
(`AddsUp`, in `WhileCapturing`), and the end of the response is still ahead of every
file that is not finalised (`EndAhead`). `Finalizing` is about the time between the
checks and the renames: what the checks found stays true, whatever the client does. `AddsUp` says it without a recursive sum,
with a running total for each place in the brigade.

`GlobMatchProofs`, for patterns and values of any length over any characters:

- `TypeCorrect` (the cursors never leave the strings); `GlobInvariant`;
- `OneStarIsEnough : Spec => [](StarFree => LastStarSuffices)`;
- `GlobCorrect : Spec => [](StarFree => GlobIsCorrect)`;
- `GoesForward : Spec => TurnsGoForward`, an action property: every turn returns, or
  finds a later star, or lets the last star begin later, or goes on in the value, and
  never undoes a more important one. This is the variant behind `GlobReturns`, for any
  strings; only the step from it to "the loop ends" is left to TLC.

`StarFree` (no '*' in the value) is needed: `glob_star_in_value` is the
counterexample. `LastStarSuffices` is not inductive. When the loop meets a new star
it forgets the old one, and that is right only because the text between the last
star and the cursor is *rigid*: it has no star, so wherever it matches it takes the
same number of characters (`SinceStar`, `Rigid`), and a match from a later start of
the old star can be turned into one from the new star, which matches from any place
before it (`StarReaches`). The proofs first show that
`Language` satisfies its recursive definition: `Divides` says without recursion what
a match is, and `DivisibleStar`, `DivisibleOne`, `DivisibleEnd` that it is a solution.

`SiteProofs`, for any rules, settings, patterns, rewriting, authorisation, responses
and requests, any number of workers and levels, and any edits in between:

- `TypeCorrect`; `SiteInvariant : Spec => []SiteInv`;
- `OnlyEquivalentHits`, `OnlyShareableStored`, `ExclusionsHold`, `HitsRepeatHeaders`;
- `StatusInvariant : Spec => []StatusInv` and `StatusIsTrue : Spec =>
  []StatusTellsOutcome` for a site that sends no `X-Cacher` of its own (`OriginSilent`;
  a generator can say anything in any header);
- `AdminNeedsCredentials : Spec /\ []AdminProtected => []AdminBehindLocation`, where
  `AdminProtected` is what README.md tells the operator to do: wherever
  `CacherAdminRequireUser` is Off, the admin paths lie behind a `<Location>`. It speaks
  of the settings, which may be edited, so it is assumed at every moment;
- `NearestSettings : Spec => []SettingsInherited`.

`SiteInv` makes each request and each entry safe by itself (`JobInv`, `EntryInv`), so
that no fact relates two workers: whatever others store, and whatever the operator
edits between two hops or between a store and a hit, an entry carries the key of the
request and rule it was made for. Equal keys agree on host, address and vary values
(`SameKey`), which gives `HitIsEquivalent` even when the rule has changed since; that
equal addresses also have the same uri and query where no `?` is hidden in a uri is
`PlainUrl`: the first piece of the text is then the uri. What
the handler found out when it attached the filter (`MayCapture`) stays true until the
filter publishes, because a redirect makes a new request record without the filter;
`HopsAdmitted` keeps that a uri behind a `<Location>` on an earlier hop means that
Apache knows the client. `Answers` lists what a step can do to an answer, and `StatusInv` follows
from it. `NearestSettings` is an induction over the levels of `Merged`
(`MergeExists`, `InheritsNext`, `MergedInherits`).

`SiteRefinement`: `SiteIsSharedCache : Spec /\ []AdminProtected => KeepsPromise`, the
server implements `SharedCache`. `InitRefines` maps the initial states, and there is
one lemma per kind of step: `ArriveRefines`, `RefuseRefines`, `HitRefines`,
`GenerateRefines`, `PublishRefines`, `AbandonRefines`, `AdminRefines`, `FinishRefines`;
`DeclineStutters`, `RedirectStutters` and the edits map to stutters. A hit needs
`SameKey` (the entry found has the host and address of this visit); a publication, that
a captured response came from the generator (`JobInv`) and that what it replaces has
its name; an administrative removal, that an entry's root and host are those of the
site it was stored for (`EntryInv`) and, for the login, `AdminProtected`.

The assumptions: `SiteAssumption` (requests are well formed and start with one hop,
no uri is empty, rewriting maps uris to uris, every uri has a chain of levels whose
first one, the server's, is always configured and is no `.htaccess`), `HeaderNamesAssumption` (the
names the code mentions are header names), `DocsAssumption` (a ttl is an integer).
They, `AdminProtected` and `OriginSilent` hold on the instance of `site`.

Induction: the library's induction rules take a predicate, which the provers cannot
instantiate. `Induction` states the rule with a set instead (`SetInduction`, from the
library's `NatLessThanWellFounded` and `WFMin`), and recursive functions are reasoned
about through it, after a proof that their definition has a solution.

Only model-checked: the liveness properties (`RequestsEnd`, `WalksEnd`, `CallsReturn`,
`ParsingSettles`, `GlobReturns`), which are out of the prover's reach, and the six
runs that must fail. Every safety property of a passing run is a theorem.

## 5. What is not modelled, and the plan

Not modelled: hook and filter registration and the creation of the cache root at
startup (declarative, before any request), `/list`, the usage page, `--dry-run` and
argument parsing (they only print), logging, running out of memory, the MD5 of the
key (taken to be injective), the text of the header file and the cookie header
(records and sequences of their parts), the key string beyond its lines and its
address (decoded targets are taken to have no line breaks and vary entries no `=`, so
that the lines can be told apart), vendored cJSON (a document is the
value it parses to, or an error), the removal of empty shard directories.

The plan is carried out. What could still be done: the purges' measure as an action
property, like the matcher's (a walk is bounded by what it has not yet passed); a
refinement of `SharedCache` by `EntryStore`, which would fail as it stands, because of
the two disagreements `store_torn` and `store_polluted` show; and liveness proofs, when
the prover has them.
