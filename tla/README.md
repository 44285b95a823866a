# Verification of claudemote

This directory holds TLA+ models of claudemote, a remote controller for the
`claude` command line tool: a Go backend that queues jobs in SQLite, runs each
of them as a subprocess and streams its output, a Next.js frontend that submits
and watches jobs, and `start.sh`, which installs, deploys and checks the two.
TLC checks the models on small instances; TLAPS proves every invariant and every
action property of them for every value of the constants.

Paths below are relative to the repository, `worker/`, `sse/`, `handler/`,
`service/`, `repository/`, `middleware/`, `config/`, `database/` and `model/` to
`backend/internal/`; `app/`, `components/`, `lib/` and `providers/` to
`frontend/src/`.

## 1. The system

### Components

| Component | State it keeps | Operations | Talks to |
|---|---|---|---|
| Job service (`service/job_service.go`) | none of its own | `Enqueue` (insert, send, delete again when the channel is full), `Cancel`, `List`, `Get` | job repository, pool |
| Job repository (`repository/job_repository.go`) | table `jobs` | `Create`, `FindByID`, `Update` (GORM `Save`: the whole row, an upsert), `Delete`, `ListRecoverable`, `List` | SQLite |
| Worker pool (`worker/pool.go`) | the channel `Pool.jobs` (100 places) | `Enqueue` (never blocks), `Start` (N goroutines), `Recover`, `Cancel` | runner, registry |
| Registry (`worker/registry.go`) | map from job to cancel function, one mutex | `Set`, `Cancel`, `Remove` | job contexts |
| Runner (`worker/runner.go`, `runner_helpers.go`) | a goroutine's position in `runJob`, the job row it loaded | load and guard, mark running, register, start, read both pipes, resolve the outcome, finish, release | repository, registry, OS, log writer |
| Log writer and parser (`worker/log_writer.go`, `stream_parser.go`) | next sequence number, buffer of lines | `Append` (number, buffer, publish, flush at 50), `Flush` | `job_logs`, hub |
| SSE hub (`sse/hub.go`) | channels of every job's subscribers | `Subscribe`, `Publish` (skips full channels), unsub | log writer, stream handlers |
| Stream handler (`handler/stream_handler.go`) | status snapshot, `lastID`, `maxHistorySeq`, event count | subscribe, replay, drain, forward, recheck every 20 events | hub, repositories, HTTP connection |
| Log viewer (`components/jobs/job-log-viewer.tsx`) | last event id, retry count, banner; lines, scroll position, `isAtBottomRef` | connect, receive, back off, give up after 5, retry; render, scroll, follow | stream handler, browser |
| Server process (`cmd/server/main.go`) | root context | boot, recover, start, serve; SIGINT/SIGTERM | everything in the backend, pm2 |
| Login rate limiter (`middleware/rate_limit.go`) | one bucket per client IP | `check`: find or store the bucket, `allow` | login handler |
| Deployment (`start.sh`, `ecosystem.config.cjs`, `cmd/create-admin`) | env files, admin user, pm2 processes | bootstrap in three phases, deploy, local mode, smoke test | config, SQLite, pm2 |
| Database and migrations (`database/`) | `schema_migrations` | `RunMigrations` at every boot and from `create-admin` | SQLite |
| Authentication (`auth_service.go`, `token.go`, JWT middlewares) | none (stateless checks) | login, validate | users table |
| Job pages (`lib/hooks`, `lib/client-api.ts`, `lib/query-client.ts`, `components/jobs`, `app/(dashboard)`) | one query cache per tab, with an entry for the list and one per job; mutations | load, poll, retry, invalidate, submit, cancel, navigate | HTTP API, React Query, App Router |
| Session (`lib/auth.ts`, `lib/actions/auth.ts`, `app/(auth)/login`, layout guard, `providers/session-provider.tsx`) | the session cookie of the browser, the token each tab was given | login, guard, renew, focus, logout | login endpoint, job pages, viewer |
| Router, responses, server-side API client (never called), UI components | static or presentational | | |

### What is hard about it

* **Whole-row saves of stale copies.** `Cancel` and `runJob` read a row, decide,
  and later save the whole row. Between the two, the other may have written it.
* **Two places for one fact.** A pending job is a row *and* an element of a
  channel that does not survive the process; a running job is a row *and* a
  goroutine *and* a registry entry *and* a process.
* **Crashes and stops.** The rows and the subprocesses (in process groups of
  their own) survive the server. `Recover` has to tell from the rows alone what
  may be run again.
* **Two sources for one stream.** A line is published at once and stored up to
  49 lines later. A viewer that connects reads the table and then the channel.
* **Lossy steps by design.** A full subscriber channel drops events, a full job
  channel refuses jobs, a failing statement is logged and passed over.
* **Answers that come late.** A tab polls what it also invalidates, cancels and
  creates. Every answer is a snapshot of some earlier moment, and the cache
  replaces what it has by what arrives.
* **One cookie, many tabs.** The cookie is shared, the token a page uses is not,
  the two expire at different times, and an answer renews the session its
  request was sent with, not the one of the moment it arrives.
* **Three clocks of one page.** Messages, renders and scroll events are
  separate tasks of the browser.
* **Interrupted installation.** `start.sh` is stopped at any failing step
  (`set -e`) and meant to be run again; what it left on disk decides what the
  next run does.

### What makes each part correct

* Execution: a job is executed at most once; it ends, for good; a cancel ends
  the run it was meant for; no live row is forgotten; a refused job never runs;
  no more subprocesses than workers.
* Streaming: lines arrive in order and once; what is lacking is explained by a
  known gap; the worker never waits for a viewer; a finished job is replayed to
  its end; nothing is sent on a closed channel; streams end.
* Job pages: no page goes back in time; the end of a job and the effect of a
  cancel come to be shown; failed polls are recovered from; what was created
  is listed.
* Session: it holds the token of the last login as long as no older request
  replaces it; a logout reaches every tab.
* Viewer: a reader is left alone, a follower does not fall behind.
* Rate limit: a bound on attempts in any span of time; no unjustified refusal.
* Migrations: what is recorded is what exists; each takes effect once and in
  order; nobody uses tables that are missing; a server gets past them.
* Deployment: a completed bootstrap is usable; secrets survive; nothing is
  started unconfigured; the API port goes to the API that was started last.

## 2. The modules

| Module | Models |
|---|---|
| `JobEngine` | job service, repository, pool, registry, runner, server process |
| `JobEngineProofs` | theorems about `JobEngine`, with the one that it implements `JobLifecycle` |
| `JobLifecycle` | abstract specification: a job as a reader of its row sees it |
| `LogStream`, `LogStreamProofs` | log writer, hub, stream handler, `job_logs`, viewer: one job, one viewer; and theorems about it |
| `LogTail`, `LogTailProofs` | how the viewer follows the output on the page, and theorems about it |
| `JobPages`, `JobPagesProofs` | list, form and job page in one tab, over their query cache and over `JobLifecycle` as the backend, and theorems about it |
| `Session`, `SessionProofs` | login, cookie and token in the tabs of one browser, and theorems about it |
| `RateLimit`, `RateLimitProofs` | the login limiter for one address, and theorems about it |
| `Migrations`, `MigrationsProofs` | `RunMigrations` in several processes on one file, and theorems about it |
| `Bootstrap`, `BootstrapProofs` | `start.sh`, create-admin, the env files, pm2, and theorems about it |
| `MC…` | a module each for TLC (symmetry sets); constants are in the `.cfg` files |

An action is what happens between two points at which somebody else can
intervene: one database statement, one channel operation, one call under a
mutex, one event of the operating system. Every statement that can fail has a
second action for its error path (`…Fails`), limited by `MaxFaults`.
`PROJECT.json` names for every definition the lines it stands for. An operator
whose comment begins with "A mutant" is not part of the specification; it is a
plausible bug, kept to show that a property would notice it.

### JobEngine

State and code:

* `row`, `born` are the columns `status` and `created_at` of `jobs`;
  `"absent"` means there is no row.
* `queue` is `Pool.jobs`. `Offer` is the non-blocking send of `Pool.Enqueue`.
* `wpc`, `wjob`, `wctx`, `wend` are a worker's position in the loop of
  `Pool.Start` and in `runJob`: idle, `fetched` (received an ID), `loaded`
  (`FindByID`, status guard), `marked` (row saved as running), `registered`
  (`reg.Set`), `spawned` (`cmd.Start`), `resolved` (`cmd.Wait`,
  `resolveOutcome`), `saved` (`finishJob`), and back to idle with the deferred
  `reg.Remove` (`Release`). `wctx` is live, cancelled or past its deadline.
* `registry` maps a job to the worker whose context its entry cancels.
* `submit` and `csaw`/`cjob` are the positions of submit and cancel handlers,
  with the status the cancel handler read.
* `phase`: down, recovering (`Recover`, before workers and listener), up,
  draining (after SIGTERM: workers leave the loop, but `r.Run` is not tied to
  the root context, so requests are still served until the process manager
  kills the process; in the local mode nobody does, see `Bootstrap`).
* `stranded` is a history variable: rows that are not terminal and that
  nothing in this process will touch again, each put there by the error path
  that causes it.

`CancelPending` writes what it decided on the status it *read*, and `Mark`
what it decided on the row it *loaded*: the lost updates of whole-row saves are
in the model. Listing and reading jobs change nothing and are left out, as are
cancels of absent or terminal rows, which are answered with an error. If
`ListRecoverable` fails the process exits and is started again, which is no
step of the model. A SIGTERM before `signal.NotifyContext` ends the process
like a crash. The output, its buffers and the pipes are left to `LogStream`;
here a subprocess is something that exists (`alive`) until it exits.

`JobLifecycle` is what the engine promises: the statuses of the rows and the
number of executions, without channel, handlers, workers, registry or restarts.
Its variables have the names of the engine's, so the refinement mapping is the
identity on `row` and `spawns` (`Lifecycle == INSTANCE JobLifecycle WITH ...`), and
`LifecycleKept` is the abstract `Spec`. It is as weak as the code makes it:
`Cancel` may overwrite any status and `Begin` a `cancelled` one, the two lost
updates of whole-row saves. It still says that a job is marked running before
it is executed, is executed once, is `done` only if it was executed, and that
only a job never executed disappears.

### LogStream

A line is its sequence number. Since a failed batch is kept and sent again with
the next one, the rows in `job_logs` are `0 .. stored - 1` and the writer's
buffer is `stored .. seq - 1`; the two are numbers. `LogWriter.mu` serialises
the stdout and the stderr reader, so there is one writer. `Publish` is atomic
because `Hub.mu` keeps `Subscribe` and `unsub` out of it, and receives from the
individual channels commute with it.

`hpc` follows `Stream`: found (status snapshot, `lastID`), subscribed, history
(`ListAfterSeq`, one write per row), drain (without blocking, comparing with
`maxHistorySeq`), live (without comparing), recheck, leaving, closing, over.
`FinishJobFails` and `RestartFails` are the two places where the row cannot be
saved and the code only logs it: the writer is gone and the job stays active. A
crash may also come after the end of the job. The write of an event belongs to
the receive that precedes it; `WireCap` stands
for the socket buffer together with the event a blocked handler holds.
`status` tells only terminal from not terminal, as the handler does. The viewer
is `connect`, `onmessage`, `onerror`, `handleRetry`; `Disconnect` may happen at
any time and loses what is on the wire.

`missed` is a history variable: the lines in one of the two known gaps
(published before the subscription and not stored at the query; dropped because
the channel was full).

### LogTail

`pending` are the lines in React's state that are not on the page yet, `shown`
those that are, `top` is `scrollTop`, `scrolled` says that the browser has a
scroll event to dispatch, `atBottom` is `isAtBottomRef`. Heights are counted in
lines of 20 pixels (`leading-5`), so the threshold of 40 pixels is `Slack` = 2.
`Line` is `onmessage` with `appendLines`: it scrolls to the height of what is
rendered *by then*. One event with escaped line breaks is several lines rendered
together. `user` is a history variable: where the user's own last scroll ended.

### JobPages

One tab in the foreground. `cache` is the query cache: `data`, `failed` and
`old` (invalidated) of an entry and the attempt under way, whose `answer` is the
snapshot the server read. `Reads` and `Delivered` are the two ends of a fetch,
so a row may change, the user navigate and an invalidation come in between. A
status is kept with `at`, the version of its row, to compare what was read when.
`Polled` are the two functions `refetchInterval`, `Mounted` and `Focus` the
refetch of stale data (whose age is left open), `Invalidated` is what
`onSuccess` asks for. `post` and `cancel` are the mutations, `push` a
navigation `router.push` has begun. `Reload` is also the first load of a page.

React Query is external and modelled as far as the pages rely on it: one fetch
at a time per key; retries with the query function of that moment, so a token
that arrives late is used; `invalidateQueries` gives up a fetch under way for a
new one if the entry is on show and has data, joins it if it has none, and only
marks what nobody shows, a mark that the next delivery clears; an interval goes
on after errors.

The backend is `JobLifecycle`, the specification `JobEngine` is proved to
implement (`Backend == INSTANCE JobLifecycle WITH ...`): every change of a row
in this module is one of its steps. A row is there from the insert; from the
moment the job is in the channel (`Queued`) workers do whatever the lifecycle
allows, the late writes of stale copies and an end over `cancelled` included,
and another client may cancel the job from the insert on, also before the send
or after the withdrawal (`CancelledElsewhere`). A withdrawal whose delete fails,
with the run that follows at the next boot, is left to `JobEngine`. In the tab
one cancel per job is under way at a time: the mutation belongs to the header
component, so a user who leaves the page and comes back while the first cancel
is pending could send a second. On the server's side the other clients' cancels
stand for it.

### Session

`cookie` is the session of the browser: the backend's token, by its expiry (24
hours), and until when the cookie holds (30 days from when it was last read).
`known` is the token `useSession` gives the pages of a tab.

`asked` are the requests of the session endpoint that are under way. Request
and answer are two steps, and anything may happen in between: `Read` is what
the `jwt` callback makes of the cookie the request was sent with, which is
settled when it goes out (`Focus`, `Visit`, and the `getSession` at the end of
`signIn`, `SignedIn`); the renewed cookie is set when the answer arrives
(`Told`), whatever the cookie is by then. A request that fails (`Untold`) is
taken for no session, and the tab stays without one until it is loaded again or
logs in: a tab without a session does not ask when it is focused. `Visit` gives
up what its tab had under way.

`Decided` is the answer of the login endpoint; a denial stands for a wrong
password, the limiter and a backend that cannot be reached, which `authorize`
and the form do not tell apart. `Logout` is a server action: it clears the
cookie and redirects its own tab, no other tab hears of it before it is focused,
and no request under way is stopped. `Call` is a request of a page and what
`JWTAuth` answers.

`signed` and `late` are history variables: the token of the last login, or
`None` since a logout, and whether the answer to a request from before it
(`old`) has set the cookie since.

### RateLimit

`Resolve` is `check` up to the bucket (`LoadOrStore` under concurrent first
requests), `Allow` is `allow` under its mutex. A request that was answered may
be followed by another (`pc` is that of a slot). `passed` is the history of
attempts let through. Buckets of two addresses share nothing.

### Migrations

`pc` follows a process through `Connect` and `RunMigrations`: connected, check
(the `SELECT COUNT`, outside of any transaction), missing, applied and stored
(the two statements of `db.Transaction`), and back to check with the commit;
then ready. `Write` and `Wrote` are the writes that come after: the user of
create-admin, with which it ends, and the jobs and logs of the server. They
take the lock other processes' migrations need, and are refused like them. A
migration is its position in the sorted list; `release` is the number of files
embedded in the binary, chosen anew at each start because a deploy may come
between, in either direction. SQLite is external: `writer` is its write lock,
taken by the first statement that writes; what a process has written and not
committed follows from its `pc` and `at`, and is gone when it ends. A statement
that meets another writer either waits (no step) or is refused (`Refused`), as
the driver's busy timeout decides; a duplicate version is refused by the
primary key. The `CREATE ... IF NOT EXISTS` of a file that is there already
writes nothing and takes no lock, so two processes that both found a version
missing meet at the `INSERT`. The three files only create tables and indexes,
so nothing more of their contents is modelled.

### Bootstrap

`Script` is the list of steps of each mode. `Stop` ends a run before any step:
a command that fails under `set -e`, `fail_phase`, an abort at the prompt,
Ctrl+C. The local mode ends by `StopDev` instead: the trap sends SIGTERM and
waits, but the server catches SIGTERM and goes on serving
(`cmd/server/main.go:59-72`), so what ends is the script, with the second Ctrl+C,
and the API stays. `port` tells who listens on the API port: a process of pm2
under its present or a legacy name, the local API of this run, or one that was
`left` by an earlier run until somebody kills it (`DevDies`). A server that
finds the port taken exits (`Pm2Listens`, `StartDev`), and `Verify` is content
with whoever answers the health check. `pm2 delete ... || true` may fail and the
run goes on (`Deleted`); `undeleted` is the history of that. The smoke test
gives up when the login fails, for a wrong password or because nobody answers
(`Login`), and when the job cannot be created (`Submit`).

An env file is the run that made it and the set of keys that were
written, one `sed` at a time. `api` is what the process under pm2 was started
with: pm2's own environment (`WORK_DIR` and `DB_PATH` out of
`system.cfg.json`) wins over `backend/.env`, because `godotenv` does not
override. The template's `JWT_SECRET` is long enough for `validate`, so a
server started with it comes up (`secret` 0). Tool installation, directories,
the Caddyfile and variables exported in the operator's shell are left out.

## 3. What is model-checked

`CHECK_DEADLOCK FALSE` everywhere but in `LogTail`: the systems may have nothing
left to do (jobs finished and bounds used up, the viewer gone, the clock at its
bound, no run left, the server up).

| Run | Instance | Shows |
|---|---|---|
| `engine` | 2 jobs, 2 workers, 1 cancel handler, channel of 1, a crash, a signal, a fault; 1 808 135 states up to symmetry | `TypeOK`, `AtMostOnce`, `RegistryExact`, `LiveRowsOwned`, `RejectedNeverRuns`, `CancelledWasAsked`, `SettledIsFinal`, `LifecycleKept` |
| `live` | 2 jobs, 1 worker, channel of 2, a crash, a signal; 310 778 states | `EventuallySettled`, `ConcurrentJobsBounded` |
| `viewer` | 1 handler slot, 4 lines, flush at 2, channels of 2, a crash, a fault; 743 503 states | `InOrder`, `OnlyKnownGaps`, `TerminalReplayComplete`, `NeverBlocked`, `TerminalStreamEnds` |
| `hub` | 2 handlers, 2 lines, channels of 1, a crash, a fault; 3 010 866 states up to symmetry | `TypeOK`, `NoSendOnClosed` |
| `polls` | 1 job, 1 retry, rows that change 3 times, 1 fault; 1 109 188 states | `TypeOK`, `NeverBack`, `FreshAfterCancel`, `EndShown`, `PanelGoes`, `CreatedListed` |
| `logins` | 2 tabs with a session request each besides their logins', token for 1 tick, cookie for 2, 1 tick; 478 296 states | `TypeOK`, `SessionKeepsToken`, `LogoutReaches` |
| `tail` | 3 lines in view, 10 kept, threshold 2, bursts of 3; 739 states | `Paused`, `BehindByARender` |
| `window` | 2 requests at a time, limit 2, window 3, 9 ticks | `SlidingBound`, `RefusedOnlyAtLimit` |
| `boots` | server and 2 create-admin, 3 starts of the latter, releases with 2 and 3 migrations, 2 crashes; 272 067 states | `TypeOK`, `RecordedIffApplied`, `InOrderOnce`, `ReadyMeansMigrated`, `ServerStarts` |
| `reruns` | 4 runs of `start.sh`, 2 passwords, 2 directories, 2 polls; 236 868 states up to symmetry | `TypeOK`, `ReadyMeansUsable`, `StartedGetsPort`, `SecretsPreserved`, `NeverStartedUnconfigured` |
| `ackedcancel`, `follow` | 1 job, worker and cancel handler; the instance of `tail` | what the code does not do, see below |

### Why the bounds are enough

* Two jobs and a channel of one reach the full channel, the withdrawal, a place
  held by a cancelled job and a boot with more rows than places. Two workers
  are what it takes for a cancel to hit the wrong run. One crash already
  separates every two steps of every handler; it is followed by a boot, so a
  job can be executed, crash, be recovered and be looked at again. One fault
  and one signal combine with it. `live` uses a channel that holds every row,
  the condition under which `Recover` skips nothing.
* Four lines with a threshold of two give two batches, a line between them, and
  a last batch that waits for the final flush; the channel of two overflows and
  does not. A recheck every two events happens with and without further ones.
* One job is submitted, run and ended, or cancelled, in three changes of its row;
  a `cancelled` that a worker writes over with `running` is among them, a fourth
  change of a row that is `done` is not. Entries
  of two jobs share nothing, and the list's entry is a second one of another
  kind. One fault may use up all attempts of a fetch, the longest outage.
* Two tabs are the one that acts and the one that is not told. Each may have one
  session request under way besides the one that ends its login, so an answer
  can be late for a login, for a logout and for both. One tick lets the token run
  out before the cookie, as in the code; that the cookie runs out as well is not
  reached (it gives the tabs what a logout gives them), but covered by the
  theorems.
* Bursts of three lines exceed the threshold, and ten lines are three views.
* Four runs of `start.sh` are a bootstrap, a local run or a disturbed bootstrap,
  the one that has to cope, and a deploy or a local run in between.
* Three processes are two that meet at a version and one that holds the lock;
  three migrations are a first, a middle and one an older release does not
  know. Two crashes stop the server and the process it raced with.
* Nine ticks are three windows; the limit of two needs five attempts to refute
  `SlidingBound`.

### Fairness

`JobEngine!Fairness`: the goroutines of workers and submit handlers run (Go's
scheduler); a live context ends by its deadline (`JobTimeoutMin`, at least as a
timer); a subprocess whose context is over is terminated (SIGTERM by
`cmd.Cancel`, then `WaitDelay`); a server that is down is started and a
draining one is killed by pm2. Nothing makes a user submit or cancel, or a
subprocess end by itself.

`LogStream!WriterFairness`: the writer and the restart only, so `NeverBlocked`
is shown without any progress of a handler or of a viewer (`MaxLines` stands
for the timeout that ends the output). Its goal is that the worker is done with
the job, not that the row is terminal: when the save of the final row fails it
stays as it was. `TerminalStreamEnds` adds, as a premise,
that handlers run and that the viewer reads (`StreamFairness`).

`Migrations!Fairness`: a process that was started runs, and pm2 starts the
server again. `ServerStarts` needs no fairness for the start of create-admin;
the bounds on its starts and on crashes say that the disturbances end.

`JobPages!Fairness`: the session loads; an attempt under way is answered or
fails, retries and polls come, and a fetch is given up at last. The user, a
mutation, the focus and the backend's jobs need not move. `Session!FairSpec`:
a session request is answered or fails, every tab with a session is focused
again and again, and its page polls; a tab that is never focused may use its
token until it expires.

`RateLimit`, `LogTail` and `Bootstrap` have safety properties only.

### Where the code does not do what the repository says

A run that TLC must find violated, and a finding that quotes the line:

* `ackedcancel`: a cancel that reads `running` between the save of it and
  `reg.Set` finds no entry in the registry, is answered with `ok`, and the job is
  executed and ends as `done`. The property is about cancels that were answered
  before the job was executed (`halted`), since what has just ended cannot be
  cancelled; it does not cover cancels of pending jobs, whose lost updates are
  the business of `SettledIsFinal` and `LifecycleKept`.
* `follow`: two lines that are rendered between the viewer's scroll and the
  scroll event switch the following off, although the user never scrolled. Every
  replay of a history does it. `BehindByARender` is what holds: while it
  follows, the viewer lags by what the last render brought.

The models show further disagreements that have no run of their own. They
appear as the premises of the properties above, and a reader can see each by
removing the premise:

* A terminal status is overwritten, by a cancel or by a worker with an older copy
  of the row, against `model/job.go:6`: `SettledIsFinal` is about rows nobody
  holds a copy of, and `Begin` and `Cancel` of `JobLifecycle` say what else may
  happen.
* The answer to a session request that went out before a logout sets the cookie
  again, and the browser is logged in as before: the `jwt` callback renews
  whatever session a request came with (`auth.ts:43`), and `signOut` revokes
  nothing, where phase-05 says "Logout clears session." In the same way a renewal
  that is under way during a login puts the former token back.
  `SessionKeepsToken` needs `~late`: nothing but such an answer does it.
* The API of the local mode outlives its run, where `start.sh:84` says "Press
  Ctrl+C to stop." and `start.sh:258` calls it a clean shutdown. What starts
  next does not get the port, and the health check is answered by the old API:
  `StartedGetsPort` excludes `port = "left"`.
* A viewer that reconnects between two flushes skips the lines in the writer's
  buffer, where phase-04 has it resume with the next one: `OnlyKnownGaps` allows
  that gap.
* A stream that waits for an event when its job ends stays open, since the
  status is checked after every 20th event only (`stream_handler.go:146`):
  `TerminalStreamEnds` is about handlers that found the job terminal.
* A run of `start.sh` that is stopped in the middle of an env file leaves one
  that every later run takes for complete: `ReadyMeansUsable` needs `~torn`.
* `docs/codebase-summary.md:380` has the frontend redirect to the login on a
  401. Nothing does: the cookie outlives the token and is renewed without it, so
  a page goes on showing the backend's message (`Call` of `Session`).
* `new-job-form.tsx:37` says "immediately": a fetch of the list that read the
  rows before the insert and is delivered after the invalidation clears it, so
  the list may lack the job until its next poll, up to 30 seconds later.
  `CreatedListed` is therefore a liveness property.
* `EndShown` and `PanelGoes` are about pages with data: a job page whose first
  load failed, or whose job was deleted, never polls (`use-job.ts:16`).
* The submit button is enabled between the success of the mutation and the
  navigation, so a second click submits the job again (`Submit` of `JobPages`).
* The form says "Invalid username or password" also when the limiter answered
  429 or the backend is down (`ServerError` of `Session`).
* `OnlyKnownGaps` begins at line 1: line 0 is never replayed, since "nothing
  seen" and "seen up to line 0" are both `lastID` 0, although
  `stream_handler.go:157` says that 0 sends all.
* `Migrations` allows several processes, where `migrations.go:4` demands one
  at a time and nothing enforces it (`create-admin` runs while pm2 restarts the
  server). The properties hold nevertheless; what it costs is a start that is
  refused.
* `RejectedNeverRuns` needs `faults = 0`: the error of `Delete`
  (`job_service.go:79`) is discarded, and the next boot runs a job that was
  answered with 503.
* `CancelledWasAsked` needs `signals = 0`: a stop of the server ends running
  jobs as `cancelled`, where phase-02 expects `failed`.
* `ConcurrentJobsBounded` needs `crashes = 0 /\ signals = 0`: subprocesses of a
  server that died run beside those of the next one.
* `LiveRowsOwned` excludes `stranded`: `Recover` runs before the workers and
  skips pending rows that do not fit the channel.
* After SIGTERM a worker's `select` may still take a job, whose context is
  already cancelled, and end it as `failed` (`pool.go:65`).
* The limiter's windows are fixed: `2 * limit` attempts can fall into one
  window length (`SlidingBound` is the exact bound).
* The answer to the `WORK_DIR` prompt is written to `backend/.env`, where pm2's
  environment wins over it.
* The smoke test waits for `canceled` (`start.sh:801`), the backend writes
  `cancelled`, so a cancelled job is reported as not completed.

## 4. What is proved

`tlapm` checks every step; nothing is assumed but the named ASSUMEs on the
constants:

* `JobEngine`: `None` is no job and no worker, the capacity is positive, the
  bounds are naturals, jobs and workers are finite sets.
* `LogStream`: `None` is no connection; threshold, capacities and the interval
  of the recheck are positive; the bounds are naturals.
* `JobPages`: retries and bounds are naturals. Nothing is assumed of the jobs.
* `Bootstrap`: the default of `system.cfg.json` is a directory, the bounds are
  naturals, `None` is neither a password nor an env file.
* `RateLimit`: limit and window are positive, the clock's bound is a natural.
  `Migrations`: the server is no tool, `None` is no process and releases are
  naturals. `Session`: the token expires before the cookie and the bounds are
  naturals. `LogTail`: the page is lower than what the viewer keeps.

`JobEngineProofs`, for any number of jobs, workers, cancel handlers, crashes,
signals and faults:

* `TypeCorrect`: `TypeOK`. The invariant adds `HandsTyped`: who is inside
  `runJob` or a cancel has a job.
* `ExecutedAtMostOnce` (`AtMostOnce`) and `CancelsTheRightRun`
  (`RegistryExact`), from the inductive invariant `IInv`. `AtMostOnce` alone is
  not inductive: from a state with `spawns[j] = 1` and a worker `registered`
  for `j` one step violates it. What excludes such states is that a job is in
  one place only (`QueueDistinct`, `OneHolder`), is nowhere before its submit
  handler has offered it (`NotYetOffered`), and once started is never again
  `pending` nor between `loaded` and `registered` (`StartedOnce`). Crashes are
  covered because `Recover` works alone (`BootAlone`) on rows whose status says
  which side of `Mark` they were on: a started job's row is `running` or
  terminal, and `Recover` makes the former `failed`.
* `NoRowForgotten` (`LiveRowsOwned`): `IInv` and, while `Recover` is at work,
  `RecoveredRowsOwned` (a live row is in the channel again or still on the
  list).
* `SettledForGood` (`SettledIsFinal`): a step from a state of `IInv` that
  changes a settled row would need one of the stale writers `Settled` excludes,
  or a worker with the job in its hands before `Load`, which `Load`'s guard
  turns away.
* `ConcurrencyLimited` (`ConcurrentJobsBounded`): while nothing has died every
  subprocess has a worker waiting for it (`AliveAttended`), and no worker waits
  for two.
* `RefusedJobsNeverRun` (`RejectedNeverRuns`): `RefusedNowhere` follows a
  refused job to the end. While no statement has failed it is in no channel and
  with no worker, and its row is gone or was saved again as `cancelled` by a
  cancel handler that had read it before the withdrawal; neither is a row
  `Recover` puts back into the channel.
* `CancelledOnlyIfAsked` (`CancelledWasAsked`): `AskedFor` traces `cancelled`
  back from the row to the worker's outcome, to its context and to the registry
  entry through which the context was cancelled. The last step needs
  `RegistryExact`: an entry that cancelled another job's run would end that one
  as `cancelled` without anybody having asked.
* `ImplementsLifecycle` (`LifecycleKept`): each step of the engine is a step of
  `JobLifecycle` for the job it concerns, or leaves `row` and `spawns` alone.
  `IInv` does not suffice: that `Mark` saves over a row that is `pending` or
  `cancelled` and that `Spawn` and `Finish` find it `running` or `cancelled`
  is `RowsHeld`, an invariant of its own proved on top of `IInv`.

`LogStreamProofs`, for any number of handlers, lines, retries, crashes and
faults, and for every threshold and capacity:

* `TypeCorrect` (`TypeOK`), which includes that channels and connections stay
  within their capacities.
* `HubNeverPanics` (`NoSendOnClosed`): a handler is subscribed exactly from
  `Subscribe` to `unsub` (`HubInv`), so it cannot subscribe on a channel it has
  closed.
* `ViewerInOrder` (`InOrder`): `cursor` is behind everything on the open
  connection, that is behind everything its handler may still write, and each
  of the three rises (`OrderInv`). What a handler may still write depends on
  where it is: the history from `hnext` on; of the channel, before the live
  loop, only what is above `hmax`. The proof shows why the drain has to compare
  with `hmax` and why the live loop does not: what is received after the drain
  found the channel empty is newer than the history (`ChannelInv`).
* `ViewerGaps` (`OnlyKnownGaps`): for a handler that has queried, each line
  below `seq` is a known gap, with the viewer, on the connection, in the channel
  or still ahead in the history (`GapInv`). It takes `OrderInv` to conclude
  from a line received that nothing below it is still ahead.
* `ReplayComplete` (`TerminalReplayComplete`): without faults and crashes the
  row turns terminal only when everything is stored (`Flushed`), so a handler
  that found it terminal has the last line in its history or behind it
  (`ReplayAt`), and never gets to the drain.

`JobPagesProofs`, for any set of jobs and any number of retries, changes and
faults:

* `TypeCorrect` (`TypeOK`), one lemma for each group of steps: those of the
  backend, of the cache and of the tab.
* `PagesNeverBack` (`NeverBack`): what an entry holds is no newer than the rows,
  and an answer under way is no older than the data it will replace
  (`Versions`). `Moved` classifies how a step may change an entry, so the proof
  is one about six kinds of change instead of all actions. It is the fetch of
  the cache that matters here: one at a time per key, and an invalidation gives
  up the one under way.
* `PageFreshAfterCancel` (`FreshAfterCancel`): on the page of the job an answer
  under way, and data that no fetch will replace, are not older than the
  accepted cancel (`Marks`).

`BootstrapProofs`, for any number of runs, passwords, directories and polls:

* `TypeCorrect` (`TypeOK`). The invariant adds that a file that is being set
  has the first keys of its template and no others (`Incomplete`), and `Places`
  says where in the script each step stands.
* `SecretsSurvive` (`SecretsPreserved`): keys are set only in a file that lacks
  some, since a file that is there is skipped and one that was just copied has
  none; and only `Discover` of a forced run removes one.
* `StartsOnlyConfigured` (`NeverStartedUnconfigured`): a run that has come as far
  as to start something has found or written both files (`Configured`), and
  nobody else removes them.
* `StartedApiListens` (`StartedGetsPort`): `Owned` says who can hold the port at
  which step. A local API of the run in the foreground exists in the last step
  of the local mode only, and is `left` after it; past `StopPm2` pm2's process
  does not have the port, and past `Orphans` no legacy one does, unless a delete
  of this run failed.
* `CompletedIsUsable` (`ReadyMeansUsable`): unless a run was stopped inside a
  file, `backend/.env` is whole when nobody is setting it, so create-admin and
  the server read the same database and a generated secret from it
  (`WholeFile`), whichever run wrote it; `Usable` carries that from the step of
  create-admin to the end of the run.

`MigrationsProofs`, for any number of processes, releases, starts and crashes:

* `TypeCorrect`, `LedgerIsTrue` (`RecordedIffApplied`), `AppliedInOrderOnce`
  (`InOrderOnce`), `SchemaBeforeUse` (`ReadyMeansMigrated`), from one invariant:
  the four properties with `StoredAlone` (who has written both statements holds
  the lock and its version is recorded by nobody, so one commit cannot undo
  what another was decided on) and `Passed` (every version below the one a
  process is at is recorded, whoever recorded it). The check outside of the
  transaction is harmless because `Record` decides again, under the lock.

`RateLimitProofs`, for any limit, window and number of requests:

* `TwiceTheLimit` (`SlidingBound`): the inductive invariant assigns each
  attempt the window it fell in; windows do not overlap (`Windows`) and hold at
  most the limit (`Counted`). Of `2 * Limit + 1` consecutive attempts the first,
  the middle and the last are in three different windows, so the whole middle
  window lies between the outer two.
* `RefusalsJustified` (`RefusedOnlyAtLimit`): a refusal leaves the window in
  force, and `count` says that the last `Limit` attempts are in it.

`SessionProofs`, for any number of tabs and any lifetimes:

* `TypeCorrect` (`TypeOK`) and `TokenOfLastLogin` (`SessionKeepsToken`), which
  are inductive together with `RequestsFresh`: as long as no late answer has set
  the cookie, a request under way that does not date from before the last login
  or logout (`~old`) carries the token of that login. A login and a logout make
  all requests of the moment `old` (`Outdated`); the answer to one of them either
  has no session and changes nothing, or makes `late` true.

`LogTailProofs`, for any page, threshold and burst:

* `ReaderLeftAlone` (`Paused`) and `LagBounded` (`BehindByARender`). The
  invariant adds that where a user went away to is beyond the threshold
  (`AwayIsFar`), that lines not on the page yet came after the last scroll to
  the end (`ScrolledFirst`), and that a viewer that stopped by itself waits for
  no scroll event of its own (`StoppedForGood`).

Only model-checked are the liveness properties, since fairness and `ENABLED`
are beyond the prover: `EventuallySettled` (`live`), `NeverBlocked` and
`TerminalStreamEnds` (`viewer`), `EndShown`, `PanelGoes` and `CreatedListed`
(`polls`), `LogoutReaches` (`logins`), `ServerStarts` (`boots`). The remaining
properties of the passing runs are all theorems.

## 5. What is not modelled, and the plan

Not modelled: passwords, signatures and claims (stateless checks), router and
response formatting, the validation of forms and the formatting of fields, the
presentational components, `lib/api-client.ts` and log retention
(`DeleteOlderThan` and `Delete` by age), which are never called, background tabs
(whose intervals the browser throttles), and the pipes of a subprocess: the 4 MB
limit of the scanner leaves a pipe unread and the child blocked until its
deadline, and a grandchild that keeps a pipe open holds the worker, since
`cmd.Wait` comes after both readers.

Planned: an abstract specification of what the stream promises (a viewer that
receives a rising sequence of lines, below which only known gaps are lacking),
with the refinement proved from `OrderInv` and `GapInv`; and a model of a
subprocess and its pipes, for the two hazards named above.
