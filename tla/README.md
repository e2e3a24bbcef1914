# A TLA+ verification of yNet

yNet is a C++20 HTTP/HTTPS framework: one thread runs an epoll loop, a thread
pool runs the requests, and middlewares, sessions, a file cache, templates,
uploads and a few guards hang off each request. This directory models the
program from the configuration file to the last destructor, checks it with TLC
and proves its safety properties, wherever no recursion over data stands in the
way, with TLAPS.

Sources are named relative to the repository: `src/core/server.cpp`,
`include/ynet/core/server.h`, `docs/README_en.md`.

## 1. Inventory

| Part | State | Operations | What is hard | Correct means |
|---|---|---|---|---|
| Thread pool (`net/thread_pool`) | queue `tasks`, flag `stop`, mutex, condition variable | submit, worker loop, destructor | wake-ups sent after the unlock, spurious wake-ups, destruction with work queued | nothing lost, doubled or reordered; no sleeper beside a waiting task; drained on destruction |
| Event loop and workers (`core/server`) | `connections`, `running`, epoll set, descriptors | `start`, `handleRequest`, `handleWebSocket`, `stop` | level-triggered epoll shared by loop and workers, descriptor reuse, `shared_ptr` lifetimes, `stop()` from another thread | one worker per connection, each under its own descriptor, none forgotten, none closed without cause |
| Connection, listener, epoll wrapper (`net/`) | `client_fd`, `ssl`, `server_fd`, `epfd` | accept, read, write, close, handshake | a descriptor number outlives its connection | see above |
| Request and response (`core/request`, `core/response`) | the bytes read so far | the read loops, limits, `parse`, `send` | non-blocking reads, limits that meet at boundaries | what is handled is complete and within limits |
| Middleware chain (`core/server`, `core/router`, `app`) | `middlewares`, `error_handlers`, `static_files`, `res` | `next()`, 404 and 500 handling | effects of middlewares on each other, exceptions half-way | no write without a token, errors reported as errors |
| Sessions (`security/session`) | `storage`, `expires_at`, reader-writer lock, cleanup thread | look-up, refresh, replace, sweep, shutdown | look-up and erasure in two critical sections, lost notification, starvation | live sessions stay, expired ones go |
| File cache (`cache/`) | entries with mtime and last access | `loadFile`, `clear`, eviction | files change while they are read | hits are fresh, size is bounded, eviction is LRU |
| Rate limiter (`security/rate_limiter`) | buckets | one middleware | arithmetic of refill, cap and cost; unsynchronised buckets | burst plus refill, no refusal within the limit |
| PathGuard (`security/path_guard`) | patterns, whitelist, blacklist | `check`, set-up | test and insertion in separate critical sections | an offender stays out, nobody else does |
| Upload storage (`util/file_saver`) | a directory | `saveFile` | test and creation are separate | stored files stay |
| WebSocket (`net/websocket`) | a connection | `run`, `readFrame`, `sendFrame` | closes descriptors under the server | frames are whole |
| Router (`core/router`) | `routes` | `addRoute`, `resolve` | overlapping routes, arbitrary table order, ends of paths | the handler fits the path, parameters give it back |
| URL (`util/url`) | none | encode, decode, normalise, queries | order of decoding and checking; ends of texts | no spelling evades a check, fields arrive |
| Multipart (`util/multipart_parser`) | the body, `parts_` | `parse` | bytes skipped unread around delimiters; views that outlive the body | the parts sent are the parts received |
| Templates and JSON (`util/template_engine`, `util/json`) | a call stack, the cache | `render`, `parse`, `stringify` | files change between loads; truncated texts | the page is what its template describes |
| Configuration and life of the process (`util/config_parser`, `app`, `core/server.h`) | the file, `Config`, the members | `loadConfig`, construction, `start`, `stop`, destruction | two lists of defaults; members die while tasks run | unedited means default; tasks see live members |
| TLS context, crypto, net utilities, TCP client, CLI | none | set-up, wrappers | – | – |

How they interact: `Server::start` accepts connections, registers them with
epoll and in `connections`, and on input removes the descriptor from epoll and
submits a closure `[this, fd, conn_ptr]` to the pool. A worker runs
`handleRequest`: TLS handshake, read, parse, middleware chain, handler,
`Response::send`, and then either `connections.erase(fd)` or `ev.add(fd)`. The
middlewares share static or captured state (sessions, buckets, blacklist)
between workers; `Route::file` and templates share the cache. An upgrade hands
the worker to `WebSocket::run` until the client leaves; a form goes through the
multipart parser to the handler, which stores its files.

PROJECT.json lists the hazards, each at its line.

## 2. Modules and what they stand for

| Module | Models | Configurations |
|---|---|---|
| `Executor` | what the pool promises: one FIFO queue, one task per worker | (refined by `ThreadPool`, used by `Server`) |
| `ThreadPool` | `src/net/thread_pool.cpp` | `Lifecycle` |
| `ConfigParser` | `src/util/config_parser.cpp`, `include/ynet/core/config.h` | `Lifecycle` |
| `Lifecycle`, `Lifecycle_proof` | `ThreadPool` and `ConfigParser` composed: the life of a process; theorems about it and about the pool | `Lifecycle`, `Lifecycle_documented` |
| `Server`, `Server_proof` | `src/core/server.cpp` with connection, listener and epoll wrapper, and its theorems | `Server_safety`, `Server_liveness`, `Server_ws_keepalive` |
| `HttpExchange` | one `handleRequest` as bytes: read loops, limits, `Request::parse`, `Response::send` | `Exchange` |
| `WebSocket` | `src/net/websocket.cpp` | `Exchange` |
| `Multipart` | `src/util/multipart_parser.cpp` | `Exchange` |
| `FileSaver` | `src/util/file_saver.cpp` | `Exchange` |
| `Upload` | `Multipart` and `FileSaver` composed by the documented handler, beside other handlers | `Exchange`, `Upload_views`, `Upload_collision` |
| `Exchange`, `Exchange_proof` | `HttpExchange`, `WebSocket` and `Upload` composed: one request on its worker; theorems about all three | `Exchange`, `Exchange_lowercase`, `Upload_views`, `Upload_collision` |
| `Pipeline`, `Pipeline_proof` | the middleware chain, handlers and error handlers, and their theorems | `Pipeline_chains` |
| `Session`, `Session_proof` | `src/security/session.cpp` and its theorems | `Session_store`, `Session_sliding_race` |
| `Cache`, `Cache_proof` | `src/cache/` and its theorems | `Render` |
| `Disk` | what `Loads` promises: files read without a cache | |
| `Loads` | a page's loads over `Cache`, whatever its files say; implements `Disk` | `Render` |
| `Json` | `src/util/json.cpp` | `Render` |
| `Template` | `src/util/template_engine.cpp` | `Render` |
| `Render` | `Json`, `Template` and `Loads` composed: `res.render(file, parse(body))` | `Render` |
| `RateLimiter`, `RateLimiter_proof` | `src/security/rate_limiter.cpp` and its theorems | `RateLimiter_bucket`, `RateLimiter_window` |
| `PathGuard` | `src/security/path_guard.cpp` | `Gateway` |
| `Url` | `src/util/url.cpp` and the path's part of `Request::parse` | `Gateway` |
| `Router` | `src/core/router.cpp` | `Gateway` |
| `Gateway`, `Gateway_proof` | `Url`, `PathGuard` and `Router` composed: from the bytes of a request line to its handler; theorems about all three | `Gateway`, `Gateway_websocket` |
| `MC*` | symmetry sets and defined constants of the runs | |

Definitions marked `\* mutant` are deliberately wrong variants of a definition
that follows them; no specification uses them. Each property is known to fail
when one of them takes the place of the original.

**ThreadPool.** A step is a critical section of `mtx`, a notification, or the
beginning or end of a task. `Sleep` releases the mutex and sleeps atomically, as
`cv.wait` does; `SpuriousWakeup` is always possible. A task may throw, which
ends the process (`Terminated`), since nothing in the thread function catches.
The tasks of `Lasting` serve WebSockets: they last as long as their clients
like, and `Kept` are the workers that they occupy.
`submitted`, `started` and `finished` are history.

**ConfigParser.** A line is a key and a text, a text a leading number and a
word. The quirks of the code are kept: a line without `=` is its own value,
`std::stoi` and `std::stoul` throw (the set of results is empty), an unknown unit
means bytes, products and the port wrap.

**Lifecycle.** The owner of the pool is the thread that constructs the `Server`,
runs `start()` and destroys it, with the members in the order the headers
declare. `Init` ranges over what earlier lives have left of the file: nothing,
an empty file (killed between creating and writing), the generated one, an
edited one; `place` over where the program is started. A call of the file system
in `loadConfig` that throws (`create_directories` for one) ends the process
before anything is read ("refused"); an exception of the parser, the constructor
or `start()` ends it later ("aborted"). `stop()` exists only for a `Server` that
stands alone: an `App` has no way to call it.

**Server.** A member of `Conns` is a TCP connection and the Connection object
made for it; `fdOf` is its `client_fd`. Objects die when the map, the queued and
running closures and the loop's local have dropped them (`Held`, `Release`);
closing takes the descriptor out of epoll. The pool is the module `Executor`, so
that the refinement shown for `ThreadPool` carries over. A request arrives whole
and is one of `Kinds`. `stop()` runs in another thread in its three visible
steps. The listener's event that finds the listener closed is taken for a
client's event with no entry (`AcceptFails`).

**HttpExchange.** Lengths only, and how the length of the body is written: as
`handleRequest` looks for it (`Content-Length: n`), without the space, which only
`Request::parse` finds, in a way that neither finds (lower case, chunked, none at
all), or as no number. `whole` records whether all bytes had arrived
when the worker began. A read that finds nothing returns -1 on the non-blocking
socket and ends the loop it is in; a write into a full kernel buffer likewise.

**WebSocket.** A frame is a row of fields of two units each; the network delivers
any number of units at a time, so that each read may find nothing, a part or all
of its field. Lengths are real (125, 126, 65536, 16 MiB + 1). After a short read
(`~insync`), which the code does not notice, any outcome of `readFrame` is
allowed. `RfcHeader` is the reference for the format. As history, a sent frame
remembers where in the stream it ends (`end`), and a reply which frame it answers
(`to`).

**Multipart, FileSaver, Upload.** A body is a sequence of tokens; line breaks and
dashes inside data are tokens too, so that data may look like the parser's own
syntax. A file is a name and the number inserted before its extension; `exists`,
the creating open, and the write are separate steps. `Upload` keeps the one bit
that matters of the body's copy: alive until `Request::parse` returns. Then the
data of all parts dangle (`Dangle`); a write from freed memory stores the upload
or something else (`overwritten`, history). To know which upload a write is
about, `todo` keeps the parts as they were parsed. `Elsewhere` are handlers of
other requests that store files in the same directory at the same time;
`crossed` notes the uploads whose call met another one of the same name.

**Pipeline.** `chain` is the list given to `Server::use`, `pages` the codes with
a registered error page. A "plain" middleware is the logger or the
application's own; it may throw before or after its `next()`.

**Session.** The shared lock is held from `Found` to `Refresh`; steps under the
unique lock (`Replace`, `Sweep`) need it free. The clock moves between any two
steps. `Replace` erases what the cookie names, whatever has become of it since
the look-up. Ids are never repeated.

**Cache.** `mtx` is held for a whole call, so a call's steps interleave only with
other programs' edits and deletions. Modification time and contents are one
stamp; two edits within the resolution of the file system's clock, which no
mtime-based cache can tell apart, are excluded.

**Loads, Disk.** `Loads` has the steps in which a page touches files: a load
that hits, one that misses and returns later, an include, the end. `Render` takes
these steps and adds to each what becomes of the text, so that what is proved of
`Loads` needs none of the recursive definitions of Json and Template. `Disk` has
the same handler and no cache.

**Json, Template, Render.** Texts are sequences of characters or tokens. The
recursion of `renderString` is a stack of frames, so that loads of included
files are steps between which files change. `Meaning` says what a template
describes, as a function of its syntax tree and of the files; `TextOf` is its
text. Others' calls and edits interleave with the loads; between them the
handler touches nothing shared.

**RateLimiter.** Tokens are counted in units of 1/period, which makes the
arithmetic exact. The clock is read, the level computed and the bucket written
in three steps, so that two workers lose updates. `raced` notes the clients of
whose buckets nothing is known any more: one of whom two requests were in the
middleware at once, and everybody if a bucket was put into the map while another
request used the map, which has no lock. `admitted` lists when the requests of
the other clients passed.

**Url, Router, PathGuard, Gateway.** Paths are bytes. Clients mean a path and
spell it in every way that escapes each byte once or not, all of them twice, or
takes a detour over `.`, `..`, empty segments and a final slash. `isBlocked` and
the insertion into the blacklist are separate steps. A request for an upgrade is
served from `ws_routes`, and one to a server without a router answered with 404,
before any middleware runs (`Upgrade`, `NoRouter`); the others come to PathGuard
(`Arrive`). `Router::resolve`, which runs before the middlewares and changes
nothing but the request, is taken together with the handler. Patterns, whitelist
and routes change only before the server starts. `StandsFor` and `Substituted` say
what a route means, without splitting the request's path.

## 3. Runs

All runs finish within three minutes on two cores. Those that are expected to fail
are explained in section 6.

- **Lifecycle** (2 workers, 2 tasks, one of them a WebSocket's, 3 submissions,
  seven edited files; 146 900 states). The pool: `FifoExactlyOnce`,
  `WorkConserving` (no lost wake-up), `DrainedOnDestroy`, the refinement
  `ImplementsExecutor`, and the liveness properties `EverySubmittedTaskStarts` and
  `ShutdownCompletes`. The process: `UneditedIsDefault`, `TasksSeeTheServer`.
  Three submissions on two workers suffice for a task queued while both run and
  for one submitted while one runs and one is about to sleep. Sizes are scaled (1
  KB is 16 bytes, 2^64 is 2^20), so that one of the edited sizes wraps. Two
  submissions of the WebSocket's task occupy both workers.
- **Server_safety** (3 TLS clients, 2 descriptors, 2 workers, keep-alive and
  WebSocket requests, one request each, `stop()`; 1.2 million states up to
  symmetry). Three connections on two descriptors force reuse while old closures
  are queued. `ExclusiveService`, `ServedIsOpen`, `NoneStranded`.
- **Server_liveness** (2 plain clients, 1 worker, keep-alive and close, two
  requests each; 250 000 states). `EveryRequestIsRead`, `FinishedIsClosed`, and
  `KeepAliveHonoured`, which holds without WebSockets. Two requests per connection
  make re-arming matter; one worker makes it the scarce resource.
- **Server_ws_keepalive** is expected to fail.
- **Session_store** (2 requests at a time, 2 ids, TTL 2, clock to 3; 165 000
  states). `RefreshingIsStored`, `ExpiredIsSwept`, `ShutdownReturns`. The clock
  passes an expiry and one more second.
- **Session_sliding_race** is expected to fail.
- **Render** (3 files, 2 cache entries, 2 edits, 5 cache accesses, nesting to
  depth 3 in place of 64; 3.2 million states). The cache: `HitIsFresh`,
  `LruKeepsRecent` (before the first edit). JSON: `ReadsWhatItWrites`, for every
  value and each prefix of its text. Pages: `LoadsAreCurrent`, `PageAsDeclared`.
  Two entries for three files force eviction between the page's own loads; the
  values lie on both sides of the depth limit, of truth and of emptiness.
- **RateLimiter_bucket** (2 requests per 3 seconds, clock to 5, 2 workers, 2
  clients; 3 467 772 states up to symmetry). `BurstPlusRefill`,
  `RefusedOnlyOverLimit`. A period that does not divide the refill exercises
  fractions of tokens; five seconds let a bucket be emptied, refilled in part and
  emptied again across the end of a period. Two workers and two clients suffice
  for requests of one client that race or follow each other on different workers,
  and for ones that interleave on different buckets.
- **Exchange** (buffers and limits scaled to about ten bytes, every fragmentation;
  two frames per WebSocket; forms of up to five parts with two files of two names,
  one without an extension, in a directory that holds any of the names already; a
  second worker that stores a file; 555 026 states). `WithinLimitsIsHandled`,
  `HandledIsComplete`, `FramesInOrder`, `WholeFramesAreServed`, `PartsRecovered`,
  `StoredIsKept`, and the liveness properties `WorkerFinishes` and
  `NothingSleptOver`. Sizes lie on and next to each limit, and every spelling of
  the length is tried with every body. Three uploads of two names let the other
  worker's calls overlap with a call for the same name and with one for the other.
- **Upload_views** is expected to fail.
- **Pipeline_chains** (every chain of up to three of the six kinds of middlewares;
  450 000 states). `CrashOnlyUnordered`, `WritesNeedToken`,
  `NewSessionIsAnnounced`. The properties relate at most two middlewares and the
  end of the chain.
- **Gateway** (2 workers, 2 clients, the paths `/.e` and `/.e/a` in all spellings,
  up to 2 of 5 overlapping routes, a WebSocket's route, with and without a router,
  patterns of each kind; 290 774 states up to symmetry). `RefusedStaysOut`,
  `OnlyOffendersRefused`, `NoSpellingGetsThrough`, `HandlerFitsPath`,
  `FieldsArrive`. Two segments are the least for which prefix, exact and parameter
  routes differ.

## 4. Fairness

- Lifecycle: a worker that can take a step does, a task ends unless it serves a
  WebSocket (nothing makes its client leave, not even `stop()`), the loop finishes
  the `submit()` it is in, and the destructors run. The properties say so: a task
  starts unless WebSockets keep all workers for ever, and the destructors get done
  unless one is kept for ever. Nothing makes a request arrive or somebody call
  `stop()`, and nothing causes spurious wake-ups.
- Server: the loop, each worker and a `stop()` that has begun go on; handlers
  return. Clients owe nothing. (A WebSocket handler that never returns occupies
  its worker; `Server_liveness` has no WebSocket requests for that reason.)
- Session: strong fairness of the cleanup thread (`wait_for` times out, and it
  gets a lock that is free again and again), weak fairness of requests in progress
  and of a shutdown in progress, and `QuietMoments`: the load leaves moments at
  which no request holds the shared lock. Without the last, `std::shared_mutex`,
  which admits readers while a writer waits, lets the cleanup thread starve, and
  TLC shows it.
- Exchange: the worker runs. The client sends, reads and leaves when it likes, or
  never; other workers owe nothing.

## 5. Proofs

TLAPS checks these theorems for every value of the constants (any number of
workers, connections, descriptors, clients, files, frames, any sizes and limits,
any length of a chain), from the named assumptions of the modules: bounds are
natural numbers, "no value" is none of the values, sets that are counted are
finite. Further hypotheses stand in the theorem and are named below. Each proof
has one step per action; each inductive invariant was checked with TLC first.

**Lifecycle_proof**: the pool. `TypeCorrect`, `Fifo`, `NoLostWakeup`, `Drained`,
`Refinement`. `Drained` needs at least one worker, which the code leaves to
`std::thread::hardware_concurrency()` (it may return 0, and then nothing is ever
run). `FifoExactlyOnce` is inductive with the types. `WorkConserving` is not: it
speaks of the moments outside `submit()`, so the invariant also says that while
the owner is between its push and its notification at most one task lacks a
worker that is on its way; `Take` lowers both sides, and a worker falls asleep
only when the queue is empty. `Drained` needs that a worker exits only once
`stop` is set and the queue empty, that nothing is pushed afterwards, and that
the number of finished tasks, plus those being run, is the number started.
`Refinement` maps `queue` to `tasks` and `running` to `cur`.

**Lifecycle_proof**: the process. `LifeUsesThePool` (every step of a process is
one of its pool or leaves the pool alone) carries those theorems over to the
composition: `RequestsAreNotLost`, `DestroyedIsDrained`. `TasksOutlivedByServer`
says what a task can find destroyed: nothing in an `App`, whose server is
destroyed only if it has never served, so that no task is there; in a `Server` by
itself at most the members declared after `tp` (some of which tasks do use,
section 6), since the pool counts as destroyed only when all workers have exited.
It would not go through with another order of the members. `UneditedConfig`
assumes that the calls of the file system return. It is about what `loadConfig`
writes and reads in a later life, line by line: every value is that of `Config{}`,
although sizes pass through units and paths through the directory the process was
started in. Its invariant says what a file that nobody has edited can hold. It
assumes that the generated sizes are below the modulus (`SizesFit`; 10 MB and 2^64
in the code).

**Server_proof.** `OneWorkerPerConnection`, `WorkersServeTheirOwn`,
`NoConnectionIsStranded`. None is inductive alone. The invariant says where a
connection can be: open connections have distinct descriptors; the map's entry for
a descriptor is the connection open under it, or a closed one that only the
connection the loop is about to insert can follow; the connection of a descriptor
that epoll watches or has reported is in nobody's closure; every open connection
is held by the map, a closure or the loop; and one that is held by the map alone
is watched. Descriptor reuse is what each part is for: `accept` may return the
number of a connection whose closure has just gone. `KeepAliveWithoutWebSockets`
assumes requests without upgrades and no TLS (with a WebSocket the property fails,
section 6). Its invariant adds, as long as the server runs: every open connection
is in the map, an event that is being handled is one of a client that has sent
something or left, and what a worker is about to erase is a connection that it may
close. `ServerUsesThePool`: the loop and the workers touch the pool only in the
steps of `Executor`, with closures over a descriptor and a connection.
`Refinement` says that `ThreadPool` implements the same `Executor`.

**Exchange_proof**, over the composition `Exchange`: each lemma `...Steps` says
that a step of the composition is a step of the part or leaves it alone.
- `HandlersSeeWholeRequests`: the header is complete, and the body if
  `Request::parse` knows its length (without that it need not be, section 6). A
  request whose `Content-Length` makes `std::stoul` throw gets past the limits
  only while its header is incomplete; and `raw` is always a prefix of the
  request.
- `LegalRequestsAreHandled` assumes `MaxBody <= MaxUpload`, as in `Config{}`: the
  code applies the limit of uploads to every body.
- `StoredFilesStay`, for any number of workers, of the uploads whose call met no
  other one of the same name (of those that did it fails, section 6). The
  invariant follows the name a handler has found free until it has written it: no
  call under way has found the file of such an upload free, because a call for its
  name began before or after and not during it.
- `FormRoundTrip` is about the multipart parser alone, by induction over the body:
  for forms of any length it returns the parts sent, in order, except files
  without data. `FormsRecovered` takes it to the composition: what the parser
  recovers, and that of this the handler is left with the names and the values of
  fields, while the parts' data dangle. What is assumed is what a client ensures:
  the boundary is not in the data.
- `MessagesInOrder`, `WholeFramesKeepTheConnection`: the reader's place in the
  stream. While no read was short, the bytes consumed are the frames before the
  current one and the fields already read of it, and the local variables of
  `readFrame` are that frame's fields; if frames arrive whole, whatever is to be
  read next has arrived.

**Session_proof.** `IteratorStaysValid`: the entry under a shared lock stays,
because every erasure needs the unique lock. `OneWorkerKeepsSessions`: with one
worker `LiveIsStored` holds, which the run `Session_sliding_race` refutes for two;
the id a request is about to replace is still expired, as nobody else could
refresh it.

**Pipeline_proof.** `OrderedChainsNeverCrash`, `HandlersAreProtected`,
`NewSessionsReachTheClient`, for chains of every length and make-up. The invariant
says what the middlewares behind the current position have established:
behind `session()` there is a session, behind `csrf()` a writing request has the
session's token, the handler is entered only at the chain's end, and a cookie
that was set is in the response until something throws.

**Cache_proof.** `TypeCorrect`, `Fresh`, `Capacity`, `RecentlyUsedStay`. The
strengthening for `Fresh` says that stamps are used once, so contents read after
the modification time was taken are never older than it: an entry either holds
what its mtime says or has an mtime the file will never have again. `Capacity`
uses that between `Miss` and `Store` there is room for one more entry.
`RecentlyUsedStay`: of a file that is not cached any more, at least
`max_entries` files have been used later; during a miss the file being read
counts as one of them.
`LoadsUseTheCache`: pages and other handlers use the cache in its own steps, so
the above holds while pages are rendered. `CacheIsTransparent`: `Loads`
implements `Disk`. A load that misses has read its file once `ReadFile` is done;
a hit reads the file at that moment, which is where `Fresh` is needed: the stamp
it compares is the file's, so the contents it returns are those on the disk.
`PagesAreCurrent` follows from the same invariant, with the history of what was
on the disk when rendering began.

**RateLimiter_proof.** `BurstIsBounded`, `OnlyExcessIsRefused`, for every limit,
period and number of workers, of the clients that have not raced. (The buckets
have no lock, and of two requests of one client at once both may take the same
token.) Such a client has one request under way at most, whose worker is the only
one to touch its bucket. A bucket's level is tied to the history of its client
from both sides: `Spent` (since each earlier request, what has passed and what is
left is at most a full bucket and the refill) and `Drawn` (a bucket that is not
full lacks no more than what has passed since some request, less the refill). The
second theorem needs both: if the Max-th last request were older than a period,
then what `Drawn` says has been taken would exceed what the first theorem allows.

**Gateway_proof.** `ShutOut`, `NoInnocents` of PathGuard alone. The invariant adds
what each program point of `check()` knows: behind the whitelist test the client
is not whitelisted, at the insertion the path matches, whoever is on record is on
the blacklist, and the lists of the set-up no longer change. `GuardedGateway`
takes them to the composition, whose steps are PathGuard's or leave it alone
(`GuardSteps`): a refused client gets no answer but 400 and 403 any more, except
to requests for upgrades, which no middleware sees (section 6). Its invariant adds
that without a router nobody is refused. It assumes that what `Request::parse`
makes of the requests is in `Paths` (`Closed`), which says only that `Paths` is
large enough. `SpellingsUndone` is about `Url` alone: whatever escapes and detours
a client spells a path with, decoding and normalisation give the path meant, or
the request is rejected. `QueryRoundTrip` says the same of the fields of a form in
the query. `BlockedStaysBlocked`, `RightHandler` and `FormsArrive` carry them over
to the composition: nothing is lost between parsing, the guard, the table of
routes and the handler, however workers interleave and the blacklist grows. They
assume that the paths meant are normalised and have no byte with a meaning of its
own in an escape (`AsksMean`), that a registered path has no empty segment and no
parameter twice (`RoutesMean`), and that a form has no field twice; the instance
of the run `Gateway` satisfies all of them.

Recursion over texts, bodies and files is by recursive functions, and a proof
by induction over them states the set of lengths for which the claim holds and
shows that it is all of `Nat` (lemmas `Least`, `Induction`, `SeqInduction`, from
the well-foundedness of `<`): the library's induction theorems have an operator
for a parameter, which the provers cannot instantiate.

The theorems named `TypeCorrect`, `Capacity` and `ShutOut` state facts that no run
checks any more.

Only model-checked, and why:
- liveness (`EverySubmittedTaskStarts`, `ShutdownCompletes`, `EveryRequestIsRead`,
  `FinishedIsClosed`, `ExpiredIsSwept`, `ShutdownReturns`, `WorkerFinishes`,
  `NothingSleptOver`): temporal reasoning under fairness is out of the prover's
  reach;
- `ReadsWhatItWrites`, `PageAsDeclared`: values and templates are nested, and
  reading them is mutually recursive (`RECURSIVE` operators in Json, Template and
  Render), for which tlapm has no backend. For the same reason that `Render`
  takes the steps of `Loads` is read off its actions, which are conjunctions
  with those of `Loads`, and not a theorem.

## 6. Where code and documentation disagree

Three runs show it as counterexamples:

- `Server_ws_keepalive`: a WebSocket handler closes its connection; the kernel
  gives the number to a new client; `connections.erase(fd)` of the old request
  (`src/core/server.cpp:100`) then destroys the new client's connection.
- `Session_sliding_race`: a request that saw a session expired erases it
  (`src/security/session.cpp:107`) after another one has refreshed it.
- `Upload_views`: the parts of a form refer to a copy of the body that only the
  local parser in `Request::parse` owns (`src/core/request.cpp:158-166`); what
  `saveFile` then stores are the bytes of freed memory.

Five more configurations have a counterexample each to a sentence of the
documentation. What holds in its place is a property of a run, which names the
exception; `tlc -config X.cfg M` shows it.

- `Upload_collision` (MCExchange, `StoredApart`; `StoredIsKept` holds): two
  handlers find the same name free before either creates the file
  (`src/util/file_saver.cpp:17`, `:30`), and the second truncates what the first
  has reported as stored; `docs/README_en.md:67` promises collision avoidance.
- `Exchange_lowercase` (MCExchange, `BodyIsWhole`; `HandledIsComplete` holds):
  `Content-Length` is looked for case-sensitively and, in
  `src/core/server.cpp:45`, with one space behind the colon. In lower case neither
  look-up finds it: the handler gets what came with the header for the body. (In
  the right case without the space, the body is not waited for either, and the
  request is refused if it is longer than what came.)
- `Gateway_websocket` (MCGateway, `BlockedOnAllRequests`; `RefusedStaysOut`
  holds): `handleRequest` serves upgrades before it runs any middleware
  (`src/core/server.cpp:97-102`): PathGuard does not see them, nor does any other
  middleware, and a blacklisted client still gets its WebSockets, although it is
  to be "blocked on all subsequent requests" (`docs/README_en.md:472`).
- `RateLimiter_window` (MCRateLimiter, `WithinLimit`; `BurstPlusRefill` holds): a
  full bucket is refilled while it is being emptied, so that nearly twice
  `max_requests` pass in the first period of a burst, not the "100 requests per 60
  seconds" of `docs/README_en.md:383`.
- `Lifecycle_documented` (MCLifecycle, `FirstRunAsDocumented`; `UneditedIsDefault`
  holds): the generated file says `tls=off` (`src/util/config_parser.cpp:28`), the
  one that `docs/README_en.md:250` shows `tls=on`.

The models show more, which the properties state as exceptions and which larger
or other instances of the same modules exhibit: a request that arrives in pieces
is refused because a read that finds nothing ends it (`header_timeout` and
`body_timeout` are not used); a TLS client whose first request comes after the
handshake is dropped for the same reason; a body between `max_body` and
`max_upload` is refused; a response that does not fit the kernel's buffer is cut
off; `csrf()` before `session()`, the order in which the documentation lists
them, dereferences a null pointer; pages of `onError` are sent with status 200;
the cookie of a session created in a request that ends in 404 or 500 is lost; a
stale reload evicts an entry it does not need to; a rate limit is exceeded by
lost updates when two workers serve one client at once; a taken name without an
extension throws; and a `Server` that is destroyed while a WebSocket is open waits
in `join()` until the client leaves.

In the composed models also: a short read on a WebSocket shifts all later
fields; empty frames, close frames without a payload among them, end the loop
unanswered; pings are also given to `on_message`; a request for an upgrade
without a key runs the WebSocket handler without a handshake. If parameters
follow the boundary in a form's `Content-Type`, no part is found. An unclosed tag
makes the text before it appear twice; a block ends at the first end tag of its
kind, so that blocks do not nest in their own kind; a blank tag, a list that is
not an array and items that are not objects throw. `true`, `false` and `null`
are known by their first letter. Of two routes that fit a path the hash table's
order decides. A configuration value that is no number ends the process,
`max_connections=0` makes the loop spin and a negative one throws. A stand-alone
`Server` that is destroyed while requests are queued loses `conn_mtx`,
`ws_routes`, `static_files` and `error_handlers` before the pool has drained,
because they are declared after it; in an `App`, which never stops its server,
this happens only if `start()` fails, when nothing is queued.

Met on the way and outside the models: the GUID in `src/net/websocket.cpp:23` is
not the one of RFC 6455; `sendFrame` ignores partial writes; `saveFile` looks at
`ofs.fail()` before the data is flushed; `max_cache=0` makes the policy erase
`end()`; doubles lose precision in `std::to_string`; a template that includes
itself recurses without end.

## 7. Not modelled, and why

TLS set-up, crypto, the TCP client and the command-line tool keep no state of
their own. The bytes that OpenSSL has read but not delivered, which a WebSocket's
epoll does not see, would need a model of OpenSSL. Names, values and number of
headers, the contents of responses and sessions, MIME types and the resolution
of static files' paths are abstracted. Rounding of doubles, torn reads of files,
corruption of unsynchronised hash tables and the exit of the process behind
`main` are outside the models.

## 8. Plan

Done, in this order: Executor and ThreadPool; Server over Executor; Session;
Cache; RateLimiter; HttpExchange; Pipeline; PathGuard; FileSaver; the proofs of
ThreadPool, Cache and PathGuard; then Url and Router, joined to PathGuard in
Gateway; WebSocket, Multipart and Upload, joined to HttpExchange in Exchange;
Json and Template, joined to Cache in Render; ConfigParser and the members'
destruction, joined to ThreadPool in Lifecycle; then the proofs of Session,
Pipeline, Server, Exchange, Lifecycle, RateLimiter and Gateway; then Loads and
Disk, and the proofs by induction over texts: Url, Router, Multipart and
ConfigParser.

Then, wherever a property was weaker than what it was named for, the cases that
it left out: WebSockets that outlast `stop()`, a file system that throws, the
spellings of `Content-Length`, dangling parts, several workers that store files or
share buckets, and upgrades that pass by the middlewares.

Next:

1. Server: the connections that a WebSocket does not touch, so that
   `KeepAliveWithoutWebSockets` also covers TLS.
2. Json: `parse` and `stringify` as functions on texts with an explicit stack in
   place of recursive operators, so that `ReadsWhatItWrites` can be proved.
