# Formal models of keyproofs

keyproofs is an HTTP service that shows who owns an OpenPGP key: it fetches
the key of an address or a fingerprint, checks the proofs the key carries
against the accounts they name, and renders a page. The same process serves a
web key directory (WKD), avatars, a DNS and a vCard endpoint. This directory
holds TLA+ models of the parts where order, failure and concurrency matter,
TLC configurations that check them on small instances, and TLAPS proofs of
some of the results for all instances.

Run, in this directory:

    tlc -workers 2 -config PromiseSafety.cfg MCPromise     # any cfg below
    tlapm PromiseProofs.tla                                # any *Proofs.tla

## 1. The system

| Component (source) | State | Operations | Interacts with |
|---|---|---|---|
| Task runner (`pkg/promise`) | `Runner.queue`; per task `done`, `result`, `err` | `Run`, `Resolve`, `Reject`, `finish`, `After`, `Await` | one goroutine per task and per `After`; rate limiter; cache |
| Result cache (`pkg/cache`) | an ARC of items with an expiry time | `Get` (may remove), `Add`, `Remove` | shared by all tasks and all page handlers |
| Identity page (`pkg/app/keyproofs/app.go`) | per request: id, task, deadline, page | `getProofs`; two `After` callbacks; reads of the cache | runner, cache, key fetch, style, proofs |
| Proof resolvers (`proofs.go`) | per task: `Proof.Status` | `NewProof`, `Resolve` of each provider | remote services; the task stores what comes of it |
| Key fetch and parsing (`pkg/opgp`) | per task: the entity being built | `GetKey`, `ReadKey`, `GetOne` | remote key servers |
| Style (`pkg/style`) | none | `GetStyle` | DNS |
| WKD (`pkg/app/wkd`) | files `keys/*`, links `.links/*` | startup walk, watcher, `POST /pks/add`, GET | file system, other handlers, restarts |
| Avatars (`pkg/app/avatar`) | files and links | startup walk, watcher, GET | file system |
| Graceful shutdown (`pkg/graceful`) | `wgContext.wg`, `.err`; the interrupt context | `WithInterupt`, `Go`, `Wait` | every worker, `main` |
| HTTP server (`pkg/httpsrv`) | listener, open requests | `Run`, shutdown worker | `main`, wait group |
| vCard (`pkg/app/vcard`) | one XMPP client | query and answer | wait group |
| Page templates (`keyproofs/template.go`) | none | an incomplete page carries a refresh of one second | the browser, which asks for the page again |
| DNS, configuration, wiring | none, or set before serving | | |

What is hard about it:

* *Concurrency without locks.* A `qTask` is read and written by its goroutine,
  by callbacks and by handlers; only `Runner.queue` has a lock, and `Run`
  releases it between looking and inserting. `wgContext.err` and the WKD files
  have none.
* *Nil channels.* `finish` sets `t.done` to nil, and `Await` returns whatever
  `t.done` is at the time.
* *Order.* Callbacks are registered after the task has been started; Go maps
  are visited in any order; file events are handled after the fact.
* *Failure and time.* A page waits two seconds, a task thirty, a cache entry
  twenty minutes, the shutdown five (and the server inside it ten); remote calls
  fail; the process dies between truncating and writing a key file.
* *Retries.* A key is looked for at up to three sources that share the time of one
  task; the browser reloads a page until it is complete.
* *Limits.* The queue of file events overflows, the cache evicts.

What makes each part right:

| Part | Properties |
|---|---|
| Runner and cache | callers get a task for their key; a task settles once; only successes of the right key are cached; keys become free again; callbacks that were in time are called |
| Page | it is about the id asked for; it shows what was found for its own entity; every request gets one; a page is loaded again only for what can come |
| Proofs | a verdict was true during its check; a failure is no verdict; the shape of a URI harms nothing |
| Key | what is read of a ring does not depend on its order; a source is passed over only when it gave no key or the time was up; the search ends |
| Links | files have their links, links have their files; a calm file is served |
| Posts | a key gives way only to one of its owner, and to a newer one where that can be told; what is broken has a cause |
| Process | open requests are finished, errors reported, an interrupt ends it |

## 2. The modules

| Module | Code | Lines it rests on |
|---|---|---|
| `Cache` | the ARC and `Get`/`Add`/`Remove`, no next-state relation of its own | `cache.go` |
| `Promise` (EXTENDS `Cache`) | runner, task goroutine with `WithCache`, `After` goroutines | `promise.go`, `with-cache.go` |
| `Future` | *abstract*: write-once cells with subscribers, who may also give up (`ImpatientSpec`) | |
| `PromiseFuture` | the mapping from `Promise` to `Future` | |
| `KeyProofs` (EXTENDS `Promise`) | `getProofs` on top of runner and cache, and the browser that reloads | `keyproofs/app.go`, `template.go` |
| `PageService` | *abstract*: a browser asks, gets one answer, and reloads it or not | |
| `KeyProofsService` | the mapping from `KeyProofs` to `PageService` | |
| `ProofCheck` | `NewProof` and the resolvers | `keyproofs/proofs.go` |
| `Entity` | `GetOne` | `opgp/entity/entity.go` |
| `KeyFetch` (EXTENDS `Entity`) | `GetKey`, `getEntityHTTP`, `ReadKey` around `GetOne` | `opgp/util.go` |
| `WkdPost` | `POST /pks/add` | `wkd/app.go` |
| `Links` | walk, watcher and links of WKD and avatars | `wkd/app.go`, `avatar/avatar.go` |
| `LinkGet` (EXTENDS `Links`) | GET of a file by its link while the links change | `avatar/avatar.go`, `wkd/app.go` |
| `Shutdown` | `main`, wait group, HTTP server, interrupts | `main.go`, `graceful`, `httpsrv`, `vcard/xmpp.go` |
| `PromiseProofs`, `KeyProofsProofs`, `EntityProofs`, `KeyFetchProofs`, `WkdPostProofs`, `LinkGetProofs`, `ShutdownProofs`, `ProofCheckProofs` | theorems | |
| `MC*` | values of the constants for TLC | |

In each module a section *Faults* holds slips the code might have had (a guard
dropped, two steps swapped, a file opened with the wrong flag). No
specification uses them. They exist to show that the properties can fail: with
one of them in place of the definition it imitates, TLC finds the property
violated.

### Promise

`pc[c]`, `key[c]`, `handle[c]` are the caller's side of one `Run`; the task that
it makes has the same name, and `phase`, `cached`, `done`, `result`, `err` are
the goroutine and the fields of `qTask`. `wstate`, `wtask` are the goroutines of
`After`. A step ends wherever another goroutine can interfere: lookup under the
read lock (`RunLookup`), insert under the write lock (`RunInsert`), the limiter
(`RunTake`), each access to the cache (`ProbeHit`, `ProbeMiss`, `ProbeEvict`,
`Store`), the end of the function (`Resolve`, `Reject`), `close(t.done)` and
`t.done = nil` (`FinishClose`, `FinishClear`), and the deferred delete
(`Retire`). `Release` is the garbage collector: it lets a name be used again when
nobody holds the task, so that runs are unbounded with a bounded number of names.

`t.done` is read with no lock. Without the memory model's guarantees a reader
may see the old channel instead of nil; that is the same as reading earlier,
before `FinishClear`, and the old channel is open or closed as it would have been
seen then. So the interleavings of single reads and writes cover the race.
`t.err` and `t.result` are written before the close and read after it.

### KeyProofs

A handler `h` goes through `run`, the two `After` calls, `select`, `wait`, then
`lookup` (deadline) or `page`, and is `shown`. `chan[h]` is what `Await` gave
when the `select` evaluated its cases: the channel, or nil. The two callbacks
are watchers of `Promise` whose `fired` state does the `Run` calls of the
style and of each proof. `found[h]` is what the page took from the cache.
`ProofKeys[e]` are the cache keys of the proofs of `e`, which are the URIs
alone.

A handler is a request, not a browser. A page that is not complete (`IsComplete`)
leaves its request in `reload`, and one second later the browser asks for the same id
again: `Refresh(h, g)` starts a request `g` for it, while the tasks and callbacks of `h`
go on for up to thirty seconds. The new request joins them, by their keys in the
queue, or makes duplicates of them. A name is used for another request only when
nothing of its last one is left but callbacks that wait for ever (`Free`), which is
what the garbage collector makes of it. Two constants bound what TLC has to
explore: `Visitors`, how many browsers have a page on its way at a time, and
`Callbacks`, which of the two callbacks run. The proofs hold for any values of both.

### PageService and KeyProofsService

What a browser may rely on, without tasks, callbacks, cache and clock: `Ask` for
an id, one `Answer`, `Close`, and then `AskAgain` under another name or
`GiveUp`. The answer is an error, a page without entity, or a page about the
entity of the id with what the checks of some of its accounts have found
(`PagesAbout`). A page is loaded again exactly when it is not an error and
something of it is missing (`Complete`). `KeyProofsService` says which part of
the handler's state the browser sees: nothing before `shown`, and then
(`Written`) the entity, whether it is styled, and the verdicts `found` has for
its proofs.

### ProofCheck

One task checks one proof, described by what `NewProof` looks at: whether the
URI parses, its scheme, host and form of path, and the number of parts. The
owner may publish or withdraw the fingerprint at any time. `was` and `heard` are
history: what was true during the check, and how the requests went.

### Entity

`GetOne` visits `left` in any order. `Primary`, `Emails`, `SelfSignature` and
`Proofs` are as in the code, the proofs named by the identity they came from. A
flagged identity that is visited later replaces the primary address, and the
replaced one is put nowhere: `LostWasPrimary` says that this is the only loss.

### KeyFetch

`Sources` lists, for each kind of id, whom `GetKey` asks, and `at` whose turn it
is. A request is sent (`Send`) only while the context of the task lasts. A
source may refuse, answer with something that is no key ring, break off, hang
until the context ends (`late`), or give a ring, which `Entity` then reads.
Every error leads to the next source (`NextSource`); with the context over that
is the end, since the client sends nothing any more (`Expired`). `sent` and
`refused` are history: who was sent a request, and who gave no key. A source
that hangs is in `sent` and not in `refused`, and those behind it are in
neither. A ring without keys is found, and gives the entity "Nobody": the
sources after it are not asked.

### WkdPost

A handler opens, reads, compares, creates (and thereby truncates), and writes in
two steps. What it posts is a key with what `GetOne` made of it (`Entities`):
the address is that of the first identity or of the last one flagged, the time
that of the last one with notations, in the random order of a map, so that
`AddrOf[k]` and `Made[k]` are sets, and two readings of one key may differ
(`Views`). A file is `NoFile`, one key whole, or parts of some keys. What a
reader makes of parts is any of the outcomes the parser has for them. `torn[p]`
says that p's file was being written when p opened it, or has changed since; a
torn reader may see anything of its address and a torn writer may leave a
mixture. `kept[a]` is the last key that was in the file whole, `hurt[a]` that a
write failed, a crash hit a writer, or two wrote at once, `mixed[a]` that a torn
handler has written to the file: from then on nothing is known about the order
of the keys in it. A crash takes all handlers and leaves the files.

### Links

`app` is the application a behaviour is about, WKD or avatars; their directories
are apart. `files` change at any time; the watcher gets an event for each change
from `Watch` on, and `Take`s them in order. Making and removing links is done
link by link (`job`). `doubt` holds the names that changed while nobody was to
notice (before the watch, or while the process was down), whose walk was broken
off, or of which a link could not be made or removed, until a later event of the
name is handled without an error. When `os.Symlink` or `os.Remove` fails
(`JobFails`), the rest of the job is dropped: the watcher writes a log and takes
the next event, while the walk ends with the error, and with it the process.
When `os.Readlink` fails for another reason than a missing link, no link is made
and no error returned (`PassOver`). `lost` holds those whose last event found the
queue full, of which the program learns nothing but an error that it logs. The
walk of an application that is not in `Walking` finds no file, which is what the
walk of the avatar directory does: it skips its own root. `WKD_PATH` and
`AVATAR_PATH` have the same default, "pub"; the names of links begin with the
kind of file, so that the links of the two are apart even there.

### LinkGet

One request beside everything `Links` does. The avatar handler tests for the file
(`Test`) and opens it later (`Open`); the WKD handler opens at once (`Look`).
`LooksFor` are the names they look for: a WKD request always puts a domain into
the name (`wkd/app.go:166-173`), which no link has (`208`), so that it never finds a
key. `calm` is history: the files that had the link asked for and that nothing has
happened to since.

### Shutdown

`main` starts the workers, listens, serves, and then waits for the workers or
the grace period. `err` is `wgContext.err`; every append is a read and a write,
`raced` records that two were in between. The last worker is the one of
`httpsrv` that calls `Shutdown`, and it has a deadline of its own.

## 3. The runs

| Run | What it asks, and what it shows |
|---|---|
| `promise_safety` | `QueueHoldsLiveTasks`, `HandleIsForKey`, `FiresOnSuccess`, `CacheIsComputed`, `SettlesOnce` hold with duplicate tasks for a key, failures, expiry and eviction. `FreshLossNeedsDuplicate`: the remove in `cache.Get` takes away a fresh item only when two tasks for one key overlap. |
| `promise_live` | `QueueDrains`, `EarlyWatchersWake`, and that the runner implements `Future` (`ImplementsFuture`, also proved). |
| `promise_late_after` | *violated*: `AfterRuns`. See 6. |
| `keyproofs_pages` | `ProofsAreOfEntity`, and that the handlers implement `PageService` (`ImplementsService`), for people who name different accounts. |
| `keyproofs_fills` | A browser reloads while the tasks and callbacks of the request before still run. `RequestAnswered`: every request is answered although `select` may wait on nil, whether it started the task of its entity or joined one. `MissingIsOnItsWay`: what a page misses is in the cache by then, or a task for it is under way, perhaps one of the request before; it is for good reason that the page is loaded again, unless the callback got a nil channel. |
| `keyproofs_shared` | *violated*: `ProofsAreOfEntity`, for two people who name one account. |
| `proofcheck_status` | A verdict is about the time of its check; a failed request is told from a missing fingerprint except for two providers; `Checking` is final only for unsupported URIs; only dev.to indexes a path beyond its end, which ends the process. |
| `proofcheck_urls` | *violated*: `OwnEndpointsConfigured`. |
| `key_fetch` | What does not depend on the order of the identities: the flagged primary, the proofs, which address may get lost (`PrimaryIsFlagged`, `ProofsAreAll`, `LostWasPrimary`), also after sources whose ring was read in part. `SourcesHaveTheirSay`: a source is passed over only when it gave no key, or the time was up, and then nobody behind it is asked. `FetchEnds`: it ends whatever a source withholds. |
| `wkdpost` | Until a handler writes that was overtaken, a stored key gives way only to a signed key of its owner, and to a newer one if the keys of that owner have one time each, whatever crashes and failed writes leave (`KeysMoveForward`); refused posts leave no trace (`BrokenNeedsCause`); an empty file blocks its address for good (`EmptyIsForGood`). |
| `links` | Files whose changes were noticed and handled have their links (`FilesAreLinked`) and no link dangles (`NoDanglingLink`; names that share several links excepted: `removeLinks` stops at the first it misses, and a restart in the middle of a relink leaves one missing), through restarts, a queue that overflows and system calls that fail over other files; a file loses a link only by its removal or to a name that clashes with it (`OnlyClashesSteal`); a file the watcher is to notice gets its links, unless a system call fails over it (`FileGetsLinks`); a request gets a file that nothing happens to meanwhile (`CalmFileIsServed`). |
| `shutdown` | No request is cut off unless the grace period or a deadline ended; every error is reported, unless two appends raced; an interrupt ends the process at whatever point it comes. |

Deadlock is checked in all of them except `key_fetch`, which models one call
that ends.

### Bounds, and why they are enough

* `promise_*`: three calls for two keys and one watcher with a cache of one
  entry. Two tasks for one key are the most that two callers
  can race into, and the third call comes after one of them has retired. One
  entry is the smallest cache, so that every `Add` of another key evicts. Two
  calls with one watcher suffice for the temporal properties, each of which is
  about one call or one watcher and the tasks in its way; the refinement, checked
  there too, is proved for any number.
* `keyproofs_pages`, `keyproofs_shared`: one request at a time, for two people with
  a style in common and a proof each, and a cache of one entry that may expire or be
  evicted at any moment. A request begins when nothing of the last one is left but
  the cache, so these runs have no requests that overlap; that the same holds of
  any number of requests at once is proved (4).
* `keyproofs_fills`: requests that overlap. One browser that reloads, and two names
  for its requests, so that each meets the tasks and callbacks of the one before:
  it joins them, duplicates them, or finds them settled. To make this small enough
  there is one person, and of the two callbacks only that of the style, which is
  registered and run like the other. Each person is fetched under one id and
  has one key; a value is what determines a page.
* `proofcheck_*`: every form that `NewProof` distinguishes, with up to seven
  parts in a path; the largest index in the code is 6.
* `key_fetch`: every kind of id with all its sources, and all keys with up to three
  identities: one to be primary first, one to replace it, one to be in between.
* `wkdpost`: two posters and two addresses; an older and a newer key of one owner, who
  signs once; two keys of another owner, one of them with identities signed before
  and after the other key, which has two addresses; and a ring without a key. So
  the comparison meets every order of times, readings that differ, and one key at
  both addresses.
* `links`: in each directory two names: with one link, clashing or not, or with two
  links each, apart or, where the names differ only in case, the same. The queue
  of events (`MaxEvents`) has room for two, so that a file can come and go again
  before the watcher looks and the third change is lost; for avatars for one. One
  request at a time, since requests change nothing, and none where all names
  clash, of which `CalmFileIsServed` says nothing.
* `shutdown`: a worker that only waits, one that may fail by itself, the HTTP
  worker, two requests.

Symmetry is used only in `promise_safety`, over the calls, none of which any
formula there names.

### Fairness

Goroutines are scheduled by Go: each step a goroutine can take is weakly fair.
The functions of tasks end because `Timeout` gives them a context of thirty
seconds; the limiter admits waiting callers in turn, ten a second; the deadline of
a page, the grace period and the deadline of `Shutdown` are timers. Unfair, since
nobody has to do them: requests, interrupts, file changes, crashes, failures, the
passing of time that makes cache entries stale, and the garbage collector.
In `KeyFetch` the client goes on and the timer of the task fires, but no source
owes an answer. In `LinkGet` the goroutine of the watcher goes on. `RequestAnswered`
states what it needs itself: the goroutine that serves the request is scheduled and the
deadline of its page passes (`AnswerStep`); no task, callback or other request has
to go on at all. `WkdPost` and the other
safety runs need no fairness.
`keyproofs_fills` has no expiry and no eviction of what a page needs
(`SteadyKeyProofs`, capacity for all its keys): with them a page may never be
complete.

## 4. What is proved

All theorems hold for every value of the constants that satisfies the named
assumption of the module.

**`PromiseProofs`.** `IInv` is inductive (`RunnerInvariant`). Type correctness
and the three state invariants are not enough: one also needs how the state
of a channel follows from the progress of its task (`ChannelFollowsPhase`), that
a task has an outcome exactly from when it begins to finish
(`OutcomeFollowsPhase`), which calls own a task (`CallsAndTasks`) and what a
watcher has already learned (`WatchersHoldTasks`). From it: `TypeCorrect`,
`QueueSound`, `HandleSound`, `AfterSound`, `CacheSound`, the action property
`SettledForGood`, and `RunnerImplementsFuture`: every step of the runner maps to
a step or a stutter of `Future`.

`FreshLossSound` is the action property about the remove in `cache.Get`. `IInv` says
nothing of what a task knows of the cache, so it takes a second invariant over it,
`LoneEvictorIsStale`: a task that is queued and alone for its key, and about to
remove a stale item, still finds no fresh one. It is inductive because only a task
for the key makes its item fresh (`FreshComes`), and because a task that is queued
and alone was so before, but for the step with which it was inserted (`LoneBefore`).

**`KeyProofsProofs`.** `HInv` carries `IInv` over to the handlers. Two kinds of
steps are not steps of `Promise`, a page that removes a stale item and a callback
that waits for ever being forgotten, and they keep `IInv` by themselves; every other step
of a handler is a step of `Promise` or leaves it alone (`StepsOfRunner`), for which
`ValueForOK` shows that the functions of the page keep to `ValuesOf`. The
rest of `HInv` says that calls are for keys of the page of their handler
(`CallsOfPage`), callbacks watch a task for its entity (`WatchersOfPage`), a handler
that waits holds a task (`HoldsTask`), and what a page has found was computed for
its key (`FoundIsComputed`). With `ResultIsEntity`, that a settled task for an id
has the entity of it, these give `PageTypeCorrect` and `PageSound` for any number of
handlers, ids and proofs. `ProofsSound` assumes that no two entities name the same
account (`AccountsApart`), and spells out that what the check of an account may find
is found with the fingerprint of an entity that names it (`ChecksAreOfOwners`); run
`keyproofs_shared` shows that `AccountsApart` has to be assumed.

The specification of the pages is not an instance of that of the runner, since its
callbacks may give up and its reads of the cache remove items. So the results about
the runner are proved again for the server: `RunnerKeepsPromises` for the five
properties, `ServerImplementsFuture` with `ImpatientSpec`, and `FreshLossOfServer`,
in which one more excuse appears: a page that had found the item stale before a task
stored it anew.

`PagesImplementService` is the refinement of `PageService`, under the two
assumptions of `ProofsSound`. Beyond `HInv` it needs to know of a page in the making
(`PagesInMaking`) that a handler that still waits, or that had an error, has no entity
of an earlier request left. Then what is written is one of the answers of the service
(`WrittenIsAnswer`), and only the step that writes it is seen by the browser
(`SameToBrowser`); that the page is loaded again exactly when something is missing
comes down to `IsComplete` and `Complete` saying the same of what was found.

**`EntityProofs`, `KeyFetchProofs`.** `LoopInvariant` says of a loop over the
identities what has been built from those visited, and of the order only which
identity was the first. `FInv` keeps it while sources come and go: every
ring starts the loop anew (`BeginInv`). From them: `ErrorSound`,
`FetchTypeCorrect`, `SourcesSound`, `FetchedFlagSound`, `FetchedProofsSound`,
`FetchedLossSound`, for any number of identities.

**`WkdPostProofs`.** `IInv` adds to type correctness: a missing file was never
written; a reader whose file is not torn has it for itself; a file without a
writer and without harm is its last whole key; every
part in a file in which nobody torn has written is its last whole key or
supersedes it (`KeptOrNewer`), which is what a failed write leaves to be compared
with; and whoever is past the comparison supersedes all of them, or is torn, or
the file is mixed (`WritersAhead`). The steps fall in two kinds with a lemma
each: those that only look (`LooksInv`) and those that change the file, after
which everybody else who has it open is torn (`TouchesInv`). From it:
`TypeCorrect`, `BrokenSound`, `EmptySound`, and `ForwardSound` for any number of
posters; it needs that what is accepted supersedes some part of the file
(`AcceptedIsNewer`). To supersede is to have the same owner and a signature, and to be
newer provided that the keys of that owner have one time each (`Settled`). Without the
proviso it is not even transitive, and the code does accept an older key (6).

**`LinkGetProofs`.** `GetInv` rests on an invariant of `Links`: the last event of a
name tells whether its file is there, unless a later one was lost
(`LastEventTells`); so does the job at work, if no event is left (`JobTells`); a
job that makes links keeps those it has made (`JobMakes`); and a file whose changes
are not lost is linked, at work, queued, or to be visited (`FilesAreSeen`). From it:
`TypeCorrect`, `FilesLinked`, `CalmFilesServed` and the action property `LinksKept`,
for any names, links and length of the queue. A second invariant over it, `Tidy`, is
about removal: a name that clashes with none has all of its links or none
(`FilesAreWhole`), so that `removeLinks` stops at its first link or not at all
(`JobIsWhole`), and a link to a file that is gone waits for a removal that is queued
or at work (`RemovalComes`); hence `NothingDangles`. It needs that the links of a name
differ (`LinksAssumption`), as MD5 and SHA-256 do. A failed system call leaves its
name in doubt (`FailsHow`), and breaks nothing that is known of any other
(`DropsJobInv`, `PassOverInv`, `FailTidy`).

**`ShutdownProofs`.** `IInv` adds to the properties that `Shutdown` returns early
only at its deadline (`ServerDrains`), that who is in the middle of an
append is alone unless `raced` (`AppendsAlone`), and which errors are in the list
by now (`ErrorsSoFar`). From it: `TypeCorrect`, `RequestsFinish`, `ErrorsSound`, for
any number of workers and requests.

**`ProofCheckProofs`.** `IInv` adds what a resolver has heard so far (`Resolver`), that
every verdict under way has a moment at which it was true (`Witnessed`), and what
follows from the status stored (`Outcome`). From it: `TypeCorrect`,
`VerdictSound`, `FailureSound`, `CheckingSound`, `OverrunSound`, for any bound on
the parts of a path.

**Progress.** Liveness under fairness is beyond TLAPS: the six temporal properties
`QueueDrains`, `EarlyWatchersWake`, `RequestAnswered`, `FetchEnds`,
`FileGetsLinks`, `EndsAfterInterrupt` are only model-checked. Of each of them the
part that does not need fairness is proved, for all instances: that what is to
happen is never lost sight of, and that no step leads back.

| Checked with fairness | Proved without |
|---|---|
| `QueueDrains` | `QueueMovesOn`: tasks never fall back (`Advances`), and an entry of the queue goes only by the deferred delete of a task for its key, or for a duplicate. |
| `EarlyWatchersWake` | `WatchersMoveOn`: a callback that got the channel in time is between a task that has still to close it and a channel that stays closed, and hears the answer of that task. |
| `RequestAnswered` | `HandlersMoveOn`: a handler keeps its request and goes from place to place (`HPlace`), with ever fewer keys to look up, so that the list of proofs bounds its steps. |
| `FetchEnds` | `SearchOnlyAdvances`: each step uses up the time of the task, or goes to the next source, or further with this one, or leaves less of its ring. |
| `FileGetsLinks` | `FilesMoveOn`: a noticed file is queued, at work, or settled (`Known`); each step of the watcher brings its events nearer to the head of the queue or shortens the job before it; once settled it stays so, unless a system call fails over it. |
| `EndsAfterInterrupt` | `ProcessOnlyGoesOn`: until a restart nobody goes back. `NothingHoldsMain`: after the cancellation the guard of one of the steps that `FairSpec` grants holds (`WayOut`), wherever main was; it needs to know that the listener is shut by the HTTP worker only and that main passes it only then (`ListensUntilDone`), and that the HTTP worker has been started when main serves (`StartsInOrder`), for which the workers in `Order` have to differ. |

That finitely many reloads suffice is neither checked nor proved: nothing but fairness
brings the callbacks of one of them in time, and under fairness two names for requests
have too many states for a temporal property of that kind. `MissingIsOnItsWay` is the
safety half of it, as an invariant of the run; it has no theorem.

What else is out of reach: `ENABLED`, for which the guards are spelled out instead;
and what a recursive definition computes for every input, of which there is none here.
All other invariants, action properties and refinements that a run checks and that
hold are stated by a theorem.

## 5. What is not modelled, and why

* `Cancel`, `Stop`, `List`, `Len` of the runner: nothing calls them.
* A panic of a callback: the callbacks panic only on results of a wrong type. (That
  of a task, over a dev.to address, is the `Crash` of `ProofCheck`.)
* The redirects of WKD and avatars, the policy of WKD, the sizes and colours of
  pictures: computed from the request alone.
* `LinkGet` composed with `WkdPost`: a GET that reads a file while it is written gets
  part of a key. The handlers share no lock and there is nothing to hold.
* Style, DNS, QR code, landing page, templates, middleware, logging: no state, or
  layout.
* The contents of keys, signatures and pages: a key is an owner, an address and a
  time; what a parser makes of a broken file is a choice.
* SIGTERM, which the service file leaves as systemd's way to stop, is not
  caught; it is the crash of `WkdPost` and the restart of `Links`.

## 6. Where the code and its documents disagree

* `promise_late_after` - `promise.go:59` says of `After` that it "runs on
  successful completion of the task". When the task has finished before the new
  goroutine reads `t.done` (`promise.go:77`), it gets nil and waits for ever.
* `keyproofs_shared` - a proof is cached under its URI (`app.go:131`, `189`), so that
  the page of one key may show what was found out with the fingerprint of another
  key that names the same account.
* `proofcheck_urls` - `DNS_URL` and `XMPP_URL` of `example.env` are read
  (`main.go`) but the addresses are built from `base-url` (`proofs.go:93`, `99`).

Seen while reading, and not in a model: `example.env` calls the switch
`DISABLE_KEYPROOFS`, `main.go:112` reads `DISABLE_KEYPROOF`; the GET handler of
WKD opens `keys-<domain>-<hash>` with the configured domain if the request names none
(`wkd/app.go:166-173`), a name that no link is given (`208`: `keys-<hash>`), so that
it serves no key (the model has this: `LooksFor`). A key server that answers
with an empty ring ends the search with the entity "Nobody" (`entity.go:84`). `app.go:155` says "Wait for either entity to
resolve or timeout", yet for a task that has finished `Await` gives nil, so that
a page whose entity is there already takes the full two seconds (the model has
this: `SelectDeadline` is the only way on). `entity.go:48` says "Pick first
identity"; the map has no first, and a key without a flagged identity may get
another primary address each time it is read. For the same reason a key whose
identities were signed at different times has no one time of its own
(`entity.go:73`): `postKey` may take an older key for newer than the one it has, or
refuse a newer one as "out of date" (`wkd/app.go:366`), with no other request about.
`createLinks` and `removeLinks` end with the first system call that fails, which the
watcher logs and then forgets (`wkd/app.go:69`): nothing tries again until the file
changes or the program restarts, for avatars not even then. A key source that hangs uses up the time of the
sources after it, which are never asked (`util.go:47`).

## 7. Plan

The order was: the runner with its cache, since every page depends on it; its
abstract form; the page on top; then the file-based parts and the life of the
process; then parsing and checking; then the search for keys, the GET of linked
files, reloading, and the proofs of everything but liveness. There is one run for
each question, and a new module shares a configuration where its question allows it.
The two abstract specifications, `Future` and `PageService`, are implemented, by TLC's
runs and by proof. What is left:

1. An abstract specification of a proof check: one look at the account at a moment
   between its start and its end. `VerdictIsOfItsCheck` says this by history variables;
   `ProofCheck` would implement it with the moment as a prophecy.
2. One of the directories of links: a map from names to files that follows the files
   with a delay, implemented by `Links` as long as names do not clash.
3. That reloading ends: a reduction that leaves of the requests before only what a new
   one can meet, small enough to check under fairness, and `MissingIsOnItsWay` as a
   theorem.
4. Two browsers at once in `keyproofs_fills`, and the callback of the proofs.
