# Verification of openwebui-ollama-proxy

TLA+ specifications of the proxy, the TLC runs that check them on small instances and the
TLAPS proofs that carry their main properties to every instance. Line numbers are those of
this commit; paths are relative to the repository.

## 1. Inventory

The program is one Go process. It speaks the Ollama API to its clients and the
OpenAI-compatible API of Open WebUI ("upstream") to the other side. `net/http` runs one
goroutine per request; a streaming answer has a second one, and a timer. Three kinds of file
under the cache directory outlive the process.

| Component | State | Operations | Hard behaviour | What makes it correct |
|---|---|---|---|---|
| Model list cache (`handler_models.go` `handleTags`, `fetchModels`; `server.go` `NewServer`; `cache/tags.go`) | `modelsCache`, `modelsCacheAt` under `modelsMu`; `tagsFetchMu`; `tags.bin` | check memory, lock, recheck, read disk, fetch, store, write disk, reply; preload at start | herd at the lock, publish before write, torn or failed writes, restarts under other flags | one fetch per lease; nothing served beyond the lease; no client is taken back in time; every request is answered |
| Authorization (`auth/auth.go`, `cache/session.go`) | `token`, `tokenExpiry` under `mu`; `session.bin` | `EnsureToken`: load session, check, login, save; called by `main` once and by every handler | callers queue behind a 30 s login; expiry against use; crash between login and save; other account after restart; revoked tokens | own account, token outlives its use, one login for all callers, session reused, every call returns |
| Streaming (`stream.go`, `streamChatResponse`, `streamGenerateResponse`) | channel of 16 events, idle timer, scanner, response body, connection to the client | scan, send, receive, write, final chunk; timer fires, closes the body | five actors, two bounded buffers, cut at any point | order, completeness, no leaked goroutine, termination |
| Rate limiter and `ServeHTTP` (`server.go` 108-196) | `tokens`, `lastTime` under `mu` | preflight, allow, refuse, route | long mixed sequences of bursts, refusals and pauses | bound on every window, nothing refused without need |
| Model metadata (`handleShow`, `cache/show.go`) | `show_<hash>.bin` | read, build, write, remove; no lock | concurrent read, truncate, write and removal of one file | the file is whole once its writers are done, survives removals, heals after damage; nothing of another build is served |
| Encrypted cache files (`cache/cache.go`) | the files | `Read` (removes what it cannot verify), `Write` (truncate, write) | torn files, removal racing a writer, files of another build | a torn file is never a record |
| Request life cycle (`handleChat`, `handleGenerate`) | none shared | validate, token, request, status, stream or not | client without timeout for non-streaming answers, disconnects, shutdown | every request ends, no lock is held over an unbounded wait |
| Process (`main.go`) | flags, listener | start, verify, serve, graceful shutdown | cached session hides a dead upstream; shutdown cuts streams | serves only what it can |
| Conversion (`util.go`, `openai/`, `ollama/`) | none | options, formats, images, messages; streamed and whole answers; the model list | width of numbers, absent and null values, two copies of everything | nothing lost or reordered; the copies agree |
| Stubs, health, version, `/api/ps` | none | constant answers | - | - |
| Build and release tooling (`_run/`, `.github/`, `gen.go`) | repository, tags, releases | scripts and workflows | - | - |

Interactions: every handler passes `ServeHTTP` (limiter first). `handleTags`, `handleChat` and
`handleGenerate` call `EnsureToken`; `handleTags` does so while it holds `tagsFetchMu`, so the
lock order is `tagsFetchMu`, then `auth.mu`, then (elsewhere, never nested) `modelsMu`. The
streaming handlers own a body that the timer and the client's disconnect may close under them.
All three caches go through `cache.Read` and `cache.Write`.

`PROJECT.json` lists every hazard at its line under `hazards`, with the properties that guard
it or the reason why none does.

## 2. Modules

| Module | Models | Rests on |
|---|---|---|
| `TagsRegister` | what `/api/tags` promises: reads that never go back | - |
| `TagsCache` | `handleTags`, `fetchModels`, the preload, `tags.bin`, stop and restart | refines `TagsRegister` |
| `TokenStore` | what `EnsureToken` promises: one token that all callers share | - |
| `Auth` | `auth.Obj`, `session.bin`, `main`'s first call, restart under other flags | refines `TokenStore` |
| `Relay` | what a streaming answer promises: lines passed on one by one, and when and how it may end | - |
| `Stream` | `readSSEStream` and the two streaming writers | refines `Relay` |
| `SlidingWindow` | a rate limit stated over all windows of time | - |
| `RateLimiter` | `ServeHTTP` and the token bucket | refines `SlidingWindow` |
| `Requests` | requests of every kind beside each other over both locks, silent upstream, clients that leave or do not read, shutdown | abstracts `TagsCache`, `Auth`, `Stream` |
| `ShowCache` | `handleShow`, `cache.Read`, `removeInvalid`, `cache.Write` over one file without a lock, restart under another build or lease | - |
| `Loops` | what a loop keeps that appends some elements of a slice | - |
| `Convert` | the pure functions: requests, answers and the model list from one API to the other | `Loops` |
| `MCTagsCache`, `MCAuth`, `MCStream`, `MCRequests`, `MCShowCache`, `MCConvert` | model values, symmetry, scripts for TLC | the module they are named after |
| `TagsCacheProofs`, `AuthProofs`, `StreamProofs`, `RateLimiterProofs`, `RequestsProofs`, `ShowCacheProofs`, `ConvertProofs` | theorems | the module they are named after |
| `LoopProofs` | induction over numbers and sequences, and the lemmas of `Keep` | `Loops`; used by `ConvertProofs` |

Definitions whose name has an underscore (`Recheck_Skipped`, `Valid_NoExpiry`) are plausible
bugs: each stands beside the definition it alters, and is used in no specification. Replacing
the original by it makes TLC refute the property named under `mutants` in `PROJECT.json`.

### TagsCache

State and code: `modelsCache`, `modelsCacheAt`, `tagsFetchMu`, `tagsBin` are the fields and the
file; `pc[r]` is where request `r` is in `handleTags`, `got[r]` the list in its hand. A step is
one stretch of the handler between two points where something else can get in:

    idle -Arrive-> check -CheckMemory-> reply
                     `-> lock -Acquire-> recheck -Recheck-> reply
                           `-> disk -LoadDisk-> reply
                                `-MissDisk-> fetch -UpstreamAnswers-> store -StoreMemory-> write -WriteTags-> reply
                                               `-FetchFails-> fail          (reply, fail) -Finish-> idle

`modelsMu` protects two-field reads and writes that are single steps here. The reply is written
before the deferred unlock, so `Finish` releases the lock. A write of the file ends whole, torn
(`NoFile`: `cache.Read` rejects and removes it) or not at all; `Stop` during the write may tear
it. `Boot` chooses the lease anew. `Decoded` is what gob does to an empty list. `Tick` keeps the
time from upstream's answer to the write below `Lag`, which the code bounds by
`httpClientShort`'s timeout; the wait for the lock is not bounded. A client may leave its reply
unread as long as it likes: `Finish` is under no fairness.

A list is `[ver, at]`: the version of the catalog and the time upstream composed it. Which
upstream that was is left out, as `tags.bin` leaves it out (section 6); versions count the
changes of all catalogs together. `newest`,
`floor` and `lastFetch` are history for the properties.

### Auth

`pc[c]` runs `lock, load, check, signin, save, use` through `EnsureToken`, with `mu` held from
`load` on. `Main` is `main`'s own call: `Serve` or `ExitAtStart` follows it. `Finish` is the
request that the caller makes with its token; upstream may refuse any token, `refused` notes
that it has refused the one in memory. `ExpiryOf` is `parseJWTExpiry` with the fallback, `Opaque`
a token without a readable `exp`. The file is torn, lost or kept as in `TagsCache`; a read of it
may fail although it is there, which `misread` notes.

`IssueLag` bounds the time from upstream's signing to `EnsureToken`'s return (the rest of the
login and a file write), `UseLag` the time from there to upstream's check. The assumption
`UseLag <= Grace` is what the 30 s are for; without it no code could keep the promise.

`TokenStore` has no mutex, file or queue: a current token, and for each caller whether it has
asked, has renewed the token, has been given one or was refused. `phase` maps the labels of `pc`
to that; `conf`, `token` and `tokenExpiry` are its account, token and expiry. `LoadSession` is its
`Adopt`, `SigninAnswers` its `Renew`, `ReturnCached` and `SaveSession` its `Answer`, `SigninFails` its
`Refuse`; the lock, the check and the failed read are invisible.

### Stream

`script` is what upstream has to say, line kinds in order; `sent`, `avail` and `scanned` are how
far it has got. `body` is `resp.Body`: closing it (timer, client's departure through the request
context, the handler's deferred `Close`) leaves only what the scanner has buffered, whichever
part that is. A line cut in two by the end of the body yields no chunk (its JSON does not parse)
and is left out. The reader goroutine scans, emits and sends (`SendEvent` blocks at `Cap`), the
handler receives and writes (`WriteChunk` blocks while the client's connection holds `Socket`
unread chunks). `timer` fires after `Idle` ticks, and its function closes the body in a later
step: a `Reset` in between does not call it back. `Spec` lets goroutines be arbitrarily slow;
`PromptSpec`, for the run that is to be refuted, lets time pass only when every goroutine waits
for somebody and no timer is due, so that a counterexample owes nothing to a lazy scheduler.
`streamGenerateResponse` is line for line the same control flow as `streamChatResponse`;
`Stream` stands for either.

`Relay` has neither reader nor channel, timer or buffer. A line goes from upstream to the client in
one step, `Pass`, which takes the first one due; `Finish` is possible when upstream has come to its
end and nothing is pending, or when something broke the answer. `Stream` implements it with
`passed` being `written`, `broken` being `cut`, and the final chunk carrying upstream's reason exactly
if `finish` holds; scanning, sending and receiving are invisible. `Ready` says who can go on by
himself, for `NeverStuck`: that not everybody waits for somebody else.

### RateLimiter

Time and tokens are integers: with `Second` ticks to the second, a tick earns `Rate` units and a
request costs `Second`. Where the code adds `float64` the model is exact, so an admission at an
exact boundary may in the program fall one call later. `Allow` is one step because it holds
`mu` from reading the clock to its return. `--rate-limit 0` builds no limiter and has no model.

### Requests

Where the other modules follow one component in detail, `Requests` puts whole requests beside
each other. What happens between two waits is one step:

    tags:        memory -CheckMemory-> lock -LockFetch-> recheck -Recheck-> token
    chat, generate:                                               -Arrive-> token
    both:        token -LockAuth-> auth -HaveToken-> call, or -NeedsLogin-> login -LoginAnswers-> call
    tags:        call -FetchEnds-> reply
    chat, generate: call -ChatAnswers-> body | errorBody -BodyEnds-> reply
    every early answer, refusal and failure goes to reply, and -Return-> idle

`kind` is `tags`, `stream` or `whole` (`"stream": false`); chat and generate are the same
control flow. Of the data there is only `fresh` (memory holds a list within its lease) and
`token` (one that outlives the grace); `Expire` takes either away at any time. A client's
departure cancels the call it waits for, but not the wait for a mutex. A client may also go
`deaf`: it stays connected and reads no more, and its handler may hang in the reply.
`handleTags` holds `tagsFetchMu` through `EnsureToken` and until it returns; `auth.mu` is free
again before the call. `Timed` are the steps that end a call which has a timeout (login 30 s,
model fetch `--timeout`), `Untimed` those that end one which has none. `WaitsFor(r)` is the
request that holds the lock which `r` waits for; `NoCircularWait` says that these waits never
close a circle. `Signal`, `Drained` and `ShutdownTimesOut` are the graceful shutdown; `Boot` is
the next process after `main`'s check. The request body has been read when `Arrive` happens.

### ShowCache

The file system is part of the state: `file` is the inode the path names, `content` what is in
each inode, `fd[r]` the inode a handler has opened. Removing the path does not take the inode
from those who have it open, and opening for writing truncates the inode that is there:

    idle -Arrive-> open -OpenFile-> read -Served-> reply
                     `-NotExist-> build  `-Expired-> build
                                         `-Invalid-> remove -RemoveInvalid-> build
    build -BuildShowResponse-> create -Create-> write -WriteFile-> reply -Reply-> idle

`ReadFails`, `CreateFails`, `WriteFails` and a removal that fails are the faults, each of which
the code logs and passes over. `seen[r]` collects the contents the inode has
had since `r` began to read it: if there was more than one, the read returns any of them, or a
mixture that fails a check (`ReadResults`). Two writers of one inode write the same
number of bytes at offset 0, because two records of one model differ only in two times of fixed
length; so the later write wins whole. A record carries the `build` whose hash salts its key: no
other build can read it. `made`, `solo` and `cut` are history: whether this process has begun a
file and had no failed write since, who has been alone from its arrival without a fault, and which
inodes a failed or cut write left.

### Convert

No state: `call` is one input with the operation it is for, `result` what the code makes of it,
and TLC goes through all small inputs. Chat and generate are modelled as the two copies they
are, messages and payload each with its own definition (`System` and `ChatPayload`,
`GenerateMessages` and `GeneratePayload`); they share what they share in the code, the helpers
of `util.go`. For their answers one copy stands for both, as they are line for line the same. A
JSON number is counted in halves, so fractions exist; `Float64` rounds it to the floats, which
are spaced 1 up to `Mantissa` and wider above, and `Int64` is Go's `int(f)`, whose result beyond
the width of `int` is any integer (`wild`), as the language leaves it open. That width belongs
to the build: `maxInt` is one of `MaxInts`, and not related to `Mantissa` in any way, as the
release has builds whose `int` is narrower than the 53 bits of a float and builds whose `int` is
wider. A message's content is a sequence of parts, of which a plain string is the case of one.
An item of the `stop` list may be something else than a string (`Mistyped`). `Keep(s, wanted)`,
in `Loops`, is the loop over a slice that appends what is in `wanted`; stops, chunks and choices
are selected by it. An answer is a sequence of chunks; the whole answer is what the same
upstream would have sent in one piece.

## 3. Runs

| Run | Checks | Bounds and why they are enough |
|---|---|---|
| `tags_safety` | `Inv`, `FetchGap`, `MonotoneReads`, `ServedInLease`, `RegisterSpec` | 2 requests: one holds the lock, one waits or reads memory. Leases 2 and 3: each can be the longer one across a restart. 7 instants: a lease, its end, a second lease. 3 versions, one of them empty. |
| `tags_progress` | `FetchGap` with `ReadFaults`, and `Answered` (on `RepliesRead`) under `FairSpec` | 2 requests, one lease, 6 instants; no symmetry, liveness is checked. |
| `auth_safety` | `Inv`, `OwnAccount`, `UsableToken`, `OneLoginPerToken`, `SessionReused`, `TokenSpec` | main and one more caller (main becomes a handler after the start, so two compete), 2 upstreams, lives 1 (always within the grace) and 4, opaque tokens, 6 instants: two logins in sequence; reads of the file may fail. |
| `stream` | `InOrder`, `Complete`, `NoLeak`, `NeverStuck`, `Inv`, `RelaySpec`, and `Terminates` under `FairSpec` | 4 finite scripts that hold every kind of line, without `[DONE]`, with it, and with more behind it; channel of 2, connection of 1: both fill up; idle timeout of 2 ticks. |
| `rate_limiter` | `TypeOK`, `Inv`, `WindowBound`, `WindowSpec` | 2 requests per second, 5 ticks to the second, 13 instants: a tick earns less than a request, so the bucket empties, refuses, refills in part and to the cap. |
| `requests` | `Inv`, `FreeWhileUnbounded`, `NoCircularWait`, and `TokenReturns`, `TagsReturn`, `AbandonedReturn` under `FairSpec` | 2 requests of any kind, again and again: one holds a lock, one waits for it, in both roles for both locks; a third adds only one more waiter (for `NoCircularWait` the chain of a waiter for `tagsFetchMu`, its holder waiting for `auth.mu`, and that one's holder), and the proofs have any number. Idle timeout on. |
| `show_cache` | `Inv`, `WholeAtRest`, `FileSurvives`, `SoloLeavesAnswer` | 2 requests in any interleaving, 2 inodes (one under the path, one that was removed and is still open), 2 builds, leases 1 and 2, 4 instants: a lease ends and a later one begins. The proofs have any number of each. |
| `convert` | `NothingLost`, `OptionsKept`, `GenerateIsChat`, `SameAnswer`, `ModelsListed` | up to 2 messages with up to 2 images, up to 3 stops, 3 chunks, 2 models; numbers -10 to 10 by halves with floats exact to 2, and one build with integers from -4 to 3, one with -8 to 7: the limits are crossed, on both sides. |
| `tags_empty_list` | violates `HolderFillsMemory` | see section 6 |
| `auth_revoked` | violates `NoRejectedJWT` | |
| `stream_slow_client` | violates `ClosedOnlyWhenIdle` | `PromptSpec`; channel and connection of 1, idle timeout of 2 ticks |
| `requests_timeout` | violates `WholeReturns` | 1 request; `FairSpec`, so the process and every timeout it has do run |

`Inv` contains `TypeOK` in every module that has an `Inv`; `rate_limiter` checks it by name as well.
Deadlock is checked in every run. `MaxTime` and `MaxVersion` are the only bounds of state that
are not the code's; they stand in the guards of `Tick` and `CatalogChanges`, and the proofs hold
for all their values. In `Convert` the `Max...` constants bound the inputs, in the proofs by any
numbers; `Mantissa` scales 2^53 down and `MaxInts` 2^31 - 1 and 2^63 - 1.

Symmetry is used in safety runs only: requests, upstreams (of `Auth`), e-mails, the callers other
than `Main`, inodes and builds are interchangeable.

### Fairness

* Weak fairness of each goroutine's steps: Go's scheduler is preemptive and fair, and each
  blocking call returns: the upstream call in `TagsCache` by the timeout of `httpClientShort`,
  file operations by the system. In `TagsCache` the reply is left out of it: no timeout of this
  server ends a write (`http.Server` is built without one), and `handleTags` replies under
  `tagsFetchMu`. `Answered` therefore has the condition `RepliesRead`, that no reply under the
  lock stays unread for ever; a client that was answered from memory holds nothing and owes
  nothing. `Auth`, `ShowCache` and `Convert` state safety only; that `EnsureToken` returns is
  `TokenReturns` of `Requests`.
* Strong fairness of `Acquire`: `sync.Mutex` goes into starvation mode and hands itself to a
  waiter that has waited for a millisecond.
* In `Stream`: the reader, the timer, the handler and the clock. A client that has chunks to
  read reads one: a client that stays connected and never reads blocks the handler in its write,
  which no timeout of this server ends (`http.Server` is built without one); `Terminates` is
  claimed of other clients. Upstream may fall silent at any point, and owes nothing; but it has a
  finite script, and one that sends lines for ever is never idle and is not covered.
* In `Requests`: as above, with strong fairness of both mutexes; calls that have a timeout end;
  a call ends once its client has left, because it carries the request's context; a streaming
  body ends if there is an idle timeout (`Stream`'s `Terminates`); a reply gets out to a client
  that is not deaf. `TokenReturns` needs no more, because nothing holds `auth.mu` over a reply;
  `TagsReturn` and `AbandonedReturn` have the condition `RepliesRead`, that no reply stays unread
  for ever, since `handleTags` writes its reply under `tagsFetchMu`; `Shutdown` gives up after
  `--shutdown-timeout`. Calls without a timeout need not end.
* Nothing is assumed of arrivals, the clock (elsewhere), upstream's catalog or secret, crashes.

## 4. Proofs

Each proof module shows `Spec => []Inv` for an inductive invariant and draws the properties
from it. All constants are arbitrary within the named assumptions; TLC checks the same `Inv`
first, in the safety run.

* **TagsCache.** `Inv` = `TypeOK`, `MutexInv` (between lock and unlock a request is alone),
  `StaleInv` (what the holder has found stale stays stale: only the holder changes memory or the
  file), `LeaseInv` (what is kept expires within a lease of its fetch), `FetchInv` (the last
  fetch is what memory holds until its lease ends) and, when reads do not fail, `VersionInv`
  (memory and an unexpired file are no older than anything given out, and the file is not behind
  memory). `FetchGap` needs `StaleInv` with `FetchInv`; `ServedInLease` needs `LeaseInv`;
  `MonotoneReads` and the refinement of `TagsRegister` need `VersionInv`. The point of
  `VersionInv` is the failed write: an old file can only be left behind when it has expired, as
  it was read, and found expired, before the fetch. That is where `~ReadFaults` is needed: after
  one failed read of a good file the fetched list can be newer than the file, and if its write
  fails too, a restart goes back to the older one.
* **Auth.** `Inv` = `TypeOK`, `MutexInv`, `KeptInv` (a token is kept with its own account and
  expiry, in memory and on disk), `LoginInv` (what login returned is still in memory; a caller
  at `signin` has seen nothing that would do), `UseInv` (what a caller carries outlives its
  `due`) and, unless this process has failed to read the file, `SessionInv` (a good session of
  this account is what memory holds, or is yet to be read). The first three are mutually
  dependent: `OwnAccount` follows only because the file is compared with the flags before it
  enters memory. `TokenSpec`: that a step maps to one of `TokenStore`'s or to a stutter needs
  `MutexInv`, by which whoever holds the mutex finds nobody else between a renewal and its
  answer (`OthersSettled`), and `LoginInv`, by which nothing good is there when a caller signs
  in. Hence a login may replace only a token that would not do, and nobody but its caller sees
  the new one before the file has been written.
* **Stream.** `Inv` = `TypeOK`, `EndInv` (an event that ends the stream is in the channel only
  after the reader is past its last send), `ScanInv` (where the reader has stopped, and after
  which line), `OrderInv` (what is written, in the handler's hand, in the channel and in the
  reader's hand are lines in that order, none of them twice), `FlowInv` (every line scanned so
  far that makes a chunk is in one of these places), `NoLeak` and `TimerInv` (with an idle
  timeout the timer is off only when the body is closed or the reader gone). `InOrder` follows
  from `OrderInv` and `Complete` from `FlowInv` with `ScanInv`. `NeverStuck` follows from
  `TimerInv`, `EndInv` and the types: a reader that waits for upstream has its timer set; one
  that waits for the channel has a handler before it that has not left its loop, and so an event
  to receive; a handler that waits for the client has filled its connection. `RelaySpec`: a
  write is `Pass` because what the handler holds is the first line due (`NextPassed`, from
  `OrderInv` and `FlowInv`), and the final chunk is `Finish` because an answer nobody cut leaves
  nothing pending (`NothingPending`, from `ScanInv` and `FlowInv`); all else is invisible
  (`Invisible`).
* **RateLimiter.** `Inv` = `TypeOK` and `RoomInv`: the bucket is at most the room left in each
  window and equal to the room of one of them. The inequality gives `WindowBound`, the equality
  gives the other direction of the refinement: a refusal has a window to justify it.

* **Requests.** `Inv` = `TypeOK`, `LockInv` (each mutex is held exactly where the code holds it,
  `tagsFetchMu` by tags requests only and before `auth.mu`) and `NoSilence` (a handler that
  returns without a word has lost its client). `FreeWhileUnbounded` follows from `LockInv`, and so does
  `NoCircularWait`: the holder of `auth.mu` is in the login or about to decide on it and waits for no
  lock; the holder of `tagsFetchMu` waits at most for `auth.mu`.
* **ShowCache.** `Inv` = `TypeOK`, `HandlerInv` (what a handler carries and has open, by where it
  is), `MadeInv` (as long as no write has failed since this process began a file: a record under the
  path is of this build, what is no record is on its way, and when there is no file somebody is about
  to make one) and `SoloInv` (the others of a lone request are idle, and it knows what is in the
  file), with the three safety invariants themselves, which are inductive together with them.
  `FileSurvives` needs `MadeInv` because a request may remove the path at any time, also the inode
  that another is about to write: who removed it has yet to make it anew.
* **Convert.** All five properties, for texts, formats, numbers and lengths without bound, for
  every precision of floats and every width of `int`, wider or narrower than that precision.
  Nothing is carried from one state to the next, so the proofs go by the operation: a message
  can be read back from its parts (`MessageKept`), a system prompt shifts what follows by one
  (`Prefix`), each decoding of a body excludes the others. That `int` keeps its width from one
  call to the next is `SameBuild`, and that what chat would send does not depend on the call is
  `ChatOfBuild`, for `GenerateIsChat`. `OptionsKept` rests on what `Float64` and `Int64` do to a
  number: the float is within half a spacing (`FloatIsNear`), exact as far as floats are
  (`FloatIsExact`), and `int` cuts it towards zero if it is in the range of the build's `int`
  (`IntIsTruncated`). `SameAnswer` and the stops rest on `LoopProofs`.
* **Loops.** What a loop keeps needs an induction over its slice, and the library's induction
  theorems cannot be used with a predicate here. `NumbersByInduction` states induction of a set of
  numbers instead, from `NatLessThanWellFounded` and `WFMin` of the library, and
  `SequencesByInduction` that of a set of sequences. `Keep` is a recursive function; that there is
  exactly one such function is proved by the first (`LoopExists`, `LoopUnique`), which gives what `Keep`
  makes of an empty and of a longer slice (`KeepEmpty`, `KeepAppend`). By the second there are
  places in the slice, growing, from which each kept element comes and which leave out none
  that was wanted (`KeepsInOrder`).

Assumed: the named `ASSUME`s of the modules (types of the constants, `UseLag <= Grace`; of `Convert`,
that spacings are positive and every number has one, `NumberAssumption` and `RangeAssumption`) and, in
`ReadsNeverGoBack` and TagsCache's `Refinement`, that reads of an existing file do not fail.

Only model-checked: liveness (`Answered`, `Terminates`, `TokenReturns`, `TagsReturn`,
`AbandonedReturn`), which rests on fairness and ENABLED, out of the prover's reach. `NeverStuck` and
`NoCircularWait` are the safety half of it, and proved. Every other property of a passing run
is a theorem.

## 5. What is not modelled

* AES-GCM, SHA-256, gob: a file that fails any check is no file. Hash collisions of
  `show_<hash>.bin` are left out, and so is that gob gives the empty `families` of a cached
  `/api/show` answer back as `null` (the empty model list, where it matters, is modelled).
* Steps of the wall clock: Go's `time.Since` is monotonic within a process, but `ExpiresAt` read
  from a file is wall time; a clock set back would prolong a lease.
* Two processes that share a cache directory.
* An upstream that sends lines for ever; the answer then has no end, and none is promised.
* In `Convert`: time stamps, durations, `keep_alive` and `raw` (which the code ignores), and the
  passing on of a schema's inside.
* HTTP routing, wording of errors, logging, info output, flag parsing, build tooling.

## 6. Where the code and its documents differ

Each is a run that TLC refutes, with the quotation under `findings` in `PROJECT.json`.

1. `tags_empty_list`: an empty list comes back from disk as nil, which memory takes for a miss.
   Until the file expires every request takes the lock and reads the file, and clients get
   `"models": null`.
2. `auth_revoked`: a token that upstream refuses with 401 is returned again by `EnsureToken`
   until its own expiry, across restarts.
3. `stream_slow_client`: the idle timer runs on while the reader waits at a channel that is full
   behind a client that does not read, and closes a body on which a line younger than the idle
   timeout is waiting.
4. `requests_timeout`: `--timeout` is documented as the timeout of non-streaming requests, but
   non-streaming chat and generate use the client that has none. Only the client's departure or
   the end of the process ends such a request when upstream is silent.

More that no run is spent on:

* The check of upstream and credentials at start (`main.go` 132) asks nobody when `session.bin`
  holds an unexpired token.
* `tags.bin` is not tied to the upstream it came from, so that after a restart with another
  `--openwebui-url` the proxy lists the old upstream's models until the file expires.
* A list written under a longer `--tags-ttl` is served beyond a shorter one after a restart; the
  bound of `ServedInLease` is therefore the longest lease of any process. The same holds of
  `/api/show`, where the test of the lease stands at the one place that reads the file, and a
  property would only repeat it.
* The final chunk `"done": true` is sent after a cut answer as after a whole one.
* `cache.go` 47 says of `Read` "On any error: logs, removes the file"; an error of `os.ReadFile`
  leaves it (the model follows the code, and no property depends on it). `cache.go` 37 says
  "removes a corrupted cache file"; after a race it may be a good one, which costs one rebuild.
* `handler_models.go` 168 says "response can be {data: [...]} or [...]"; `{"data": []}` is
  answered 502. `ModelsListed` leaves this one case open, so that it neither fails on the code nor
  takes the code's answer for the right one.
* The builds for 386, arm and mips (`README.md` 487-495) have an `int` of 32 bits: an integer option
  beyond it, a `seed` of 3000000000 for instance, becomes whatever `int()` gives there (`util.go` 67).
* A whole answer has `done_reason` `stop` whatever upstream's finish reason, where a streamed one
  passes it on (the exception in `SameAnswer`); an empty or malformed answer is an error when
  whole and an empty stream when streamed.
* Chat forwards a conversation without a message where generate answers 400 (the exception in
  `GenerateIsChat`); a `stop` that is one string is dropped.

## 7. Plan

Done: the model list cache, authorization, streaming, the rate limiter, the request life cycle,
the metadata cache and the conversions, with their proofs.

Open: the abstraction of `TagsCache` and `Auth` that `Requests` makes (`fresh`, `token`) as a
refinement. `TokenStore` is one half of the way, as it says of a call of `EnsureToken` what `Requests`
assumes; that `Requests` needs no more is an argument in section 2 only.
