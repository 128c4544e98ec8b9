# A verification project for litecode-cpp

TLA+ models of litecode-cpp (an online judge: a C++ HTTP server, docker containers
that compile and run submissions, a MySQL database and a browser client), the TLC
configurations that check them on small instances, and TLAPS proofs of the main
safety properties for every instance.

`PROJECT.json` maps every definition to the lines it models, and lists the runs,
the mutants, the hazards and the theorems. Paths below are relative to the
repository; headers are under `src/`.

## 1. The system

| part | files | modelled by |
|---|---|---|
| judge scheduler: bounded queue, worker threads, the task body | `judge/judge_scheduler.h` | `JudgeScheduler` |
| submission table | `db/submission_repo.h` | `SubmissionLifecycle` (what it promises), `JudgeScheduler` (its statements) |
| submission routes | `routes/submission_routes.h` | `JudgeScheduler` (POST), `JudgeNotifier` (SSE), `SampleRunner` (run-samples), `Statistics` (list) |
| judge notifier: one-shot publish/subscribe | `judge/judge_notifier.h` | `JudgeNotifier` |
| warm pool of containers and its refill thread | `judge/warm_pool.h` | `WarmPool` |
| the script inside the container, the host's watchdog and parser | `judge/judge.sh`, `judge/lib/{common,cgroup,spj}.sh`, steps 6-8 of run_one_task | `JudgeScript` |
| output comparators | `judge/lib/compare.sh` | `JudgeCompare` |
| sample runner | `judge/sample_runner.h` | `SampleRunner` |
| request frame and connection pool | `server.h`, `routes/error_handler.h`, `db/connection_pool.h` | `Requests` |
| sessions: refresh rotation, blacklist, logout | `auth/refresh_token.h`, `auth/jwt_utils.h`, `routes/auth_routes.h` | `Tokens` |
| accounts: registration, profile, avatar, rename, lookup | `db/user_repo.h`, `routes/auth_routes.h`, `middleware/auth_middleware.h` | `Accounts` |
| login and its lockout | `routes/auth_routes.h` | `Lockout` |
| rate limiter | `middleware/rate_limit.h` | `RateLimiter` |
| user administration | `routes/admin_user_routes.h` | `AdminUsers` |
| audit log | `db/audit_log_repo.h`, `routes/admin_audit_log_routes.h` | `AuditLog`, `Statistics` |
| problem editing, revisions, tags, test cases | `routes/admin_problem_routes.h`, `db/{problem,problem_revisions,tag,test_case}_repo.h` | `Problems` |
| special judges, reading problems and tags | `db/special_judge_repo.h`, `routes/{problem,tag}_routes.h` | `Catalogue` |
| bulk import | `routes/admin_bulk_import_routes.h` | `BulkImport` |
| discussions, solutions, comments, likes | `routes/{discussion,solution}_routes.h`, `db/{discussion,solution,solution_comment}_repo.h` | `Discussions`, `Solutions`, `Likes` |
| notifications: table, bell, stream, broadcaster | `routes/notification_routes.h`, `db/notification_repo.h` | `Notifications` |
| daily check-in | `db/checkin_repo.h`, `routes/checkin_routes.h` | `Checkin` |
| statistics, ranking, dashboard, queue view | `routes/{stats,admin_stats,admin_queue}_routes.h` | `Statistics` |
| docker client | `judge/docker_client.h` | the environment of four modules: a call succeeds, or fails having or not having had its effect |

How the parts meet. A POST inserts a row as `pending`, loads the test cases and
calls `enqueue()`. A worker pops the task, claims the row (`pending` to `running`,
a conditional UPDATE), writes a directory, creates, starts and awaits a container
that runs `judge.sh`, parses the one line of JSON the script prints, stores it
(`running` to a verdict, again conditional), counts it, checks the user in when it
was accepted, and publishes it. An SSE request reads the row and, if it is not
final, waits on the notifier for that publication or its deadline. The warm pool
keeps created containers ready; the worker that is given one removes it and
creates its own (the task's mount is fixed at creation). Everything else is a
handler on a server thread that runs SQL statements, each committed by itself,
over a small pool of connections.

## 2. Modules

### The judge

**`SubmissionLifecycle`** is the abstract specification: a row moves `none`,
`pending`, `running`, verdict, back from `running` to `pending` only by the sweep,
and never out of a verdict; the event of a row is announced at most once, after
the verdict is stored and with that verdict. The seven verdicts about a program
that the pipeline treats alike are one value, `"wa"`.

**`JudgeScheduler`** has one process per worker, one per HTTP request, the main
thread, an operator and a fault environment. `queue_`, `running_`,
`shutting_down_` and `running_count_` are variables of those names. A worker's
program counter names the step of `run_one_task` it takes next. The condition
variable is modelled as the standard defines it: the test of the predicate and
the going to sleep are two steps, between which `queue_mu_` is held ("parking"),
and a notification reaches threads asleep at that moment. Critical sections
otherwise are one step. A SQL statement is atomic; when it ends in an exception
it may have been applied or not. A crash resets everything but the database.
`hist`, `late`, `acked` and `litter` are history variables; `counted` and
`checkins` stand for the metric and the check-in table, and are kept across a
crash, so that the properties are about everything that was ever counted.
`RefinesLifecycle` instantiates `SubmissionLifecycle` with its rows and events.

**`JudgeNotifier`** models `subs_` (callbacks per submission, in order), the
snapshot `publish()` invokes outside `mu_`, and one request per client through
both reads, the subscription, the wait and the return. Its environment is any
judge that follows `SubmissionLifecycle`, which is exactly what is proved of
`JudgeScheduler`: the two modules compose through that specification. A callback
refers to the stack frame of `wait_for()`; invoking it after the return is
undefined behaviour, modelled as setting `dangling` with the publisher going on
or not.

**`WarmPool`** counts containers: the pool's are interchangeable. `alive` is what
the daemon has, `excused` what a failed call left behind. Main starts the pool
before the scheduler and stops it after the scheduler (`main.cpp`), which is why
no worker is busy at `ShutdownFlag`. A second `shutdown()`, from the destructor,
finds nothing to do and is left out.

**`JudgeScript`** follows `judge.sh` section by section: parse, compile the special
judge, compile, loop, emit. The program, the compiler and the special judge are
arbitrary; `elapsed` is the script's clock, `spent` the container's. A special judge
that rejects, fails or does not compile ends the script where it stands
(`ErrorExit`): `spj.sh` turns `set -e` on again before it returns its code. The
host's side is `docker wait` with its timeout, `docker logs` and the parser.

**`JudgeCompare`** writes `sed`, `tr` and `awk` of the comparators as folds over
sequences of characters. Its state is a pair of texts, extended one character at
a time, so TLC evaluates the comparators against reference definitions on all
pairs up to the bound. The alphabet has a letter in both cases, a digit, blank,
tab, CR and newline; the byte order mark, signs, decimal points and exponents are
left out.

### The handlers

**`Requests`** is the frame of all of them. A thread takes a request (`Receives`,
`Starts`), runs one statement per step (`Queries`, `Acquires`, `Goes`, `Releases`,
named for what happens to the pooled connection), and answers. `task[c]` holds the
label of the next statement, the connections held and the handler's locals. Any
statement may throw (`Throws`) and any acquisition time out when the pool is empty
(`TimesOut`); both unwind the handler and give back what it holds. Two handlers
therefore interleave between any two statements, which is where the code, having
no transaction across them, can go wrong.

The component modules extend `Requests` with their tables and one action per
statement. Ids are indices of sequences, texts are replaced by who wrote them.

* `Tokens`: tokens are their ids, with the expiry in whole seconds; the store's
  `is_revoked` and `revoke` are separate critical sections, as in the code.
  `Accounts` and `Lockout` add the user table, the names given up and the failure
  tracker; `AdminUsers` the roles and the audit record. The database compares names
  without regard to case (`utf8mb4_unicode_ci`), the tracker compares bytes: `Fold`
  maps a name to what the database takes it for.
* `RateLimiter`: `consume()` is one step. Time is in ticks, several to the
  millisecond to which elapsed time is cut; a token is counted in parts of
  1/window, so the refill of a millisecond is a whole number of parts where the
  code uses `double`.
* `Problems`: a problem is spread over rows, tags, samples and hidden tests, each
  tagged with the edit that wrote it. `BulkImport` and `Catalogue` act on the same
  tables.
* `Discussions`, `Solutions` and `Likes`: rows and the counters beside them.
  `Notifications`: the bell, and the broadcaster with the global mutex that `pop()`
  keeps while it sleeps.
* `Checkin`: the five statements of `try_checkin`, each with the date of its moment.
* `SampleRunner`: permits, containers and directories named after the microsecond.
* `Statistics`: answers put together from several statements while submissions come
  and finish and problems are created, deleted and restored.

Properties of these parts are stated up to history variables that name the one
event which may break them (`drifted`, `cut`, `raced`, `lost`, `late`, `clobbered`,
`unaudited`, `forgotten`): the model records when a statement failed part way or
two edits overlapped, and the property says everything is exact otherwise. That
makes the exact condition under which the code is right part of what is checked.

`MC...` modules instantiate these for TLC. `MCAccounts`, `MCCommunity` and
`MCContent` compose several components; a variable `focus`, chosen in the initial
state, says which group of handlers a behaviour exercises, with a budget of
requests of its own, so that a run is the sum and not the product of their state
spaces. Components that touch the same tables are in one group (imports beside
edits, replies beside streams). The modules of the proofs are in section 5.

## 3. Runs

| run | instance | what it shows |
|---|---|---|
| `sched_queue` | 2 workers, 2 submissions enqueued at most twice each, queue of 1, no docker client | at shutdown the queue is drained but for what was pushed late; accepted work is judged; shutdown returns unless the wakeup is missed |
| `sched_task` | 2 workers, 1 submission, the whole task body, faults of file system, thread creation, database and docker start, one sweep | every exit path of `run_one_task` gives back directory and container; accepted work is judged |
| `sched_faults` | 2 workers, 1 submission enqueued twice, every fault, one sweep, one crash and restart | refinement of `SubmissionLifecycle`; counters and check-ins agree with the table; nothing acknowledged is lost except by a database error or crash |
| `sse` | 2 clients, 2 submissions (same or different), failing reads | the verdict sent is the verdict stored; no callback leaks; every request is answered |
| `sse_dangling` | 1 client, 1 submission | violation, see 6 |
| `pool` | 2 workers, K = 2, 4 tasks, 3 failing docker calls, 1 retry | no container lost, none left after shutdown; refilled after a burst and shut down unless a wakeup is missed |
| `script` | up to 3 cases of 4 judge types, 3 kinds of special judge, hard timeout of 1 tick, steps of up to 1 tick | "ac" means one accepted line per case; a failure names its case; every task is answered |
| `community` | 2 threads, 2 connections, 2 users, 1 failing statement; 2 requests over posts, solutions or streams, or 4 check-ins over 3 days | connections accounted for; counters, announcements and streaks exact; every request answered although handlers hold one connection and wait for another |
| `stream` | the stream and a reply | violation, see 6 |
| `accounts` | 2 threads, 1 connection, 4 names of which two differ in case only, 1 failing statement; a store of 1 entry, a tracker of 2, 3 clients of a limiter that tracks 2 | revoked tokens stay refused; exchanges are bounded, and password checks under a name as the row spells it; names given up resolve; role changes are audited; the limiter keeps its rate and its Retry-After |
| `content` | 2 threads, 2 connections, 2 slugs, 1 failing statement; 3 edits, reads or sample runs, or 2 imports, or 1 answer of the statistics beside 2 submissions and 2 problems that come and go; texts of up to 3 and 2 characters | edits are whole, revisions numbered, acts audited, `skip` keeps problems; sample runs own their verdict and leave nothing; counts agree; comparators meet their references |
| `compare_case` | texts of up to 2 characters | violation, see 6 |

Why the bounds are enough: two threads, workers or clients are what it takes for
any race between equals; one failing statement can fall between any two others. A
duplicate enqueue gives both workers the same row; a queue of one makes handlers
race for the last place; with one sweep, one crash and a second judging, a late
result meets a requeued row. In `pool` four tasks empty and refill the pool twice
and three faults exhaust the retries. In `script` three cases give a case before,
at and after the failure, and steps of one tick cross both timeouts. In `accounts`
the store, the tracker and the limiter overflow with the second and third entry,
time runs past expiry, locks and windows, and a window of 7 ms with a capacity of 2
and 2 ticks to the millisecond makes every rounding of the limiter happen. In
`community` four check-ins span three days. In `content` three edits let one edit
repair what two others left mixed, and some connections are held by the server's
other handlers so that acquisitions time out. In the texts three characters hold a
line with a blank in the middle, two lines, or a CR LF pair after a letter;
`float_epsilon` is 10/11, chosen so that 1 and 11 are just within it.

Symmetry (of threads, slugs and problems) is used only in runs that check no liveness.
Deadlock checking is off in all runs: each system may stop (a scheduler that was
shut down, requests that were answered, a text that has reached its bound).

## 4. Fairness

Each thread that can step eventually does (weak fairness per thread: the operating
system schedules it, every docker call has a timeout in the client, every statement
returns or times out). Strong fairness is assumed where a thread needs a mutex that
others take and release for ever: `queue_mu_` in `JudgeScheduler`, the
broadcaster's global mutex in `MCCommunity`. `std::mutex` does not promise it; the
platform's implementation does not starve a waiter for ever. `docker wait` returns
at its timeout. Nothing is assumed about requests arriving, the judge finishing in
`JudgeNotifier`, failing statements, browsers disconnecting, spurious wakeups, the
operator, crashes, midnight, or the main thread deciding to stop.

## 5. Proofs

The theorems hold for every value of the constants: any number of threads, workers,
submissions, tokens, slugs and test cases, any queue or pool size, any limits, and any
number of failures, sweeps and crashes. None of the properties is inductive alone; what
follows names the strengthening of each.

**The scheduler** (`JudgeSchedulerInvariant`, `JudgeSchedulerProofs`).
`InvariantHolds` gives `EventsMatch`, `JudgingIsExclusive` and `AccountingHolds`. The
invariant says who owns a row: the worker whose `mark_finished` flipped it is unique
(`OneWinner`), the row holds its verdict and no event yet (`WinnerOwnsRow`), the verdict
has not been counted (`CountedByWinner`); a worker past the claim has a row that is
neither absent nor pending unless a sweep touched it (`JudgedIsClaimed`); a worker past
the log has a verdict (`VerdictKnown`); and a submission whose request has not arrived
is in nobody's hands (`FreshIsUnknown`). On top of it:

* `LifecycleRefined`: one step per action. Claims map to `MarkRunning`, flips to
  `MarkFinished`, `Publish` to `Announce`, a sweep to `Requeue`, the rest to a stutter.
* `NothingIsLost` (`LossInv`): a submission that no error, crash or sweep has troubled
  is queued or pursued by a worker while it is pending, and settled by one while it is
  running.
* `QueueIsDrained` (`DrainInv`): the flags follow the phase of the main thread, whoever
  is past the test in `enqueue()` has workers, and after a worker has left every push is
  late.
* `LitterHolds`, by the label at which a worker still has its directory and container;
  `QueueHolds`; `RunningCountHolds`, by counting the workers inside the task body.

**Notifier and sessions** (`ClientProofs`).

* `AnswersAgree`, `EntriesPaidFor`: what a client read or was handed is the stored
  verdict (verdicts are final); callbacks are filed under the submission their client
  watches, and each is paid for by a waiting request or a snapshot.
* `RevocationHolds`: a blacklist entry lapses less than a second before the token
  expires (`Outlives`), and what left the store had lapsed or was evicted (`Kept`).
* `ExchangesHold` (`ExchangeInv`): the exchanges of a token and the threads that are past
  its `is_revoked` are together no more than the threads. In both the other handlers
  are an action that issues tokens.

**Pool and script** (`ContainerProofs`).

* `ContainersOwned`, `PoolNeverOverfull`, `NothingAfterShutdown`: the invariant adds who
  may be at work in which phase of the main thread.
* `ScriptInvariant`, `Accepted`, `Blamed`: FINAL_STATUS and FAILED_CASE_INDEX summarise
  the lines written so far, and what was printed and what the host took is supported by
  the lines.

**Limiter and sample runs** (`RunProofs`).

* `RateHolds`, `RetryHolds`: the invariant is a balance (`Covered`): what a client was
  granted since any of its grants, with what its bucket holds, is paid for by a full
  bucket and the time since. Elapsed time is cut to whole milliseconds but
  `last_refill` moves to the finer now, so a grant may lie after the last refill by a
  part of a millisecond; then the bucket is at least one token short of full, and that
  token covers the part (`RefillAfter`). This is where the quota must be at most one
  request per millisecond (`QuotaAssumption`; the server's quotas are requests per
  minute). `Hinted` says that the whole milliseconds up to a refused client's hint fill
  its bucket to a token.
* `RunsCleanUp`, `SamplesAreOwn`: permits and the threads that hold one add up
  (`PermitsCounted`); every container and directory has a thread that will remove it or
  is behind a failed call (`Owned`); threads that share a directory are known to clash,
  and one that does not finds its own task there (`ClashesKnown`, `TaskIsThere`).

**Problems, special judges and imports** (`ContentEffects`, `ContentWriters`,
`ContentSteps`, `ContentProofs`): `SkipsKeep`, `RevisionsCount`, `AuditComplete` and
`EditsStayWhole`. The handlers have some forty steps but few effects on the tables:
`ContentEffects` lists these (a row inserted, rewritten, patched, a revision stored or
lost, an act begun or closed...), `ContentWriters` shows that every step of every
handler is one of them (`StepEffect`), and `ContentSteps` and `ContentProofs` show what
each preserves. `ContentInv` says which locals a thread has at which label, that slugs
and the numbers of edits differ, and that the revisions of a problem are numbered up to
the last, with the number a thread has read not beyond the next. To this `SkipInv` adds
what an import saw, `AuditInv` the entries still owed by threads under way, and
`WholeInv` that a problem which was neither left half nor written by two at once is as
far as the one thread at work on it, or whole.

`FiniteCounts` collects what the counting lemmas use of finite sets (`Counting`), as a
hypothesis; each module that needs it proves it from `FiniteSetTheorems`
(`CountingHolds`), so no theorem depends on it.

The assumptions on constants are those named in the modules (`SchedulerAssumption`,
`NotifierAssumption`, `PoolAssumption`, `ScriptAssumption`, `RequestsAssumption`,
`TokensAssumption`, `RateAssumption`, `QuotaAssumption`, `ImportAssumption`,
`RunnerAssumption`): finite sets of threads, natural numbers for bounds, the range of
the fault kinds, lists of slugs for imports. Model checking evaluates them on each
instance.

Only model-checked: liveness (fairness and ENABLED are outside this prover); the
comparators (what a fold computes needs induction over the text); `WrongPasswordsBounded`
and `AliasesResolve`, and `ActsAudited` of user administration (`AuditComplete` is the
one of the content handlers); the properties of the community modules, and `CountsAgree`,
which compare sums over sets or lengths of runs of days.

## 6. Disagreements between code and comments

With a run that exhibits it:

* `sse_dangling`: a publication that took its snapshot before a request timed out
  calls into the frame of a function that has returned.
* `compare_case`: `tr` swaps letter case in both texts instead of folding it.
* `stream`: the handler leaves the user's channel before httplib first calls the
  content provider, so what is pushed never reaches the open stream.

Visible in the models, as the exception a property names:

* `shutdown()` stores its flag and notifies without `queue_mu_`
  (`judge_scheduler.h:507`, against "joins every worker", line 85): a worker that has
  tested the predicate and is not yet asleep misses both, and `join()` waits for ever.
  `ShutdownReturnsUnlessMissed` shows this is the only way. The refill thread and
  `WarmPool::shutdown()` have the same (`warm_pool.h:271`, `:376`).
* `enqueue()` tests `running_` before it takes the lock, and `running_` stays true
  until the workers are joined: a task pushed meanwhile is answered 201 and judged by
  nobody (`judge_scheduler.h:533`, against line 523). `DrainedAtShutdown` excepts it.
* The hard timeout is tested before the skip, so a case that would be skipped
  replaces the verdict and index of the one that failed (`judge.sh:331`, against
  `judge/README.md:107`). `FailureIsLocated` is stated for verdicts about the program.
* `finish_se` stores a result and does not publish it; SSE clients of such a row get
  their timeout event (`judge_scheduler.h:1021`). A verdict stored between the second
  read and the subscription is not delivered either (`submission_routes.h:1188`).
* A claim that fails with a database error drops the task while the row is pending,
  which the sweep does not select (`judge_scheduler.h:700`, `submission_repo.h:692`).
* When the test cases fail to load, the task goes out empty and is accepted
  (`submission_routes.h:602`, `judge.sh:187`).
* `unsubscribe()` removes the newest callback, not the caller's
  (`judge_notifier.h:237`). `run_spj` has no timeout, although `spj.sh:39` speaks of one.
* A refresh token can be exchanged again by a request that passed `is_revoked` before
  the first exchange revoked it, after an eviction, or in its last second
  (`refresh_token.h:441-443` says never). `ExchangesBounded` and `RevokedIsRefused` say
  how far this goes.
* `old_username` is UNIQUE among aliases only, so anybody can register a name that was
  given up (`V014:79-80` says nobody can), and a user who returns to an old name cannot
  rename again (409). `AliasesResolve` holds while nobody bears the name.
* The counters of likes, replies and comments drift when a statement fails between row
  and counter or two deletions race; nothing ever recomputes them.
* Two edits of one problem at the same time leave parts of both (`EditsAreWhole`); a
  bulk import records no revision; `skip` looks for the slug before it writes.
* A current streak is reset by the next check-in only, not by a missed day
  (`checkin_repo.h:9` and `V019` say it is).

* The login lock is asked about the name as it was typed (`auth_routes.h:1083`) and
  counts failures under the name in the row (`:1185`), which the database finds under
  any spelling (`V001`, `utf8mb4_unicode_ci`); `SPEC.md:1133` speaks of the user name.
  `WrongPasswordsBounded` is therefore stated for the spelling of the row.
* A sample run's directory is named after the constant 0 and the microsecond
  (`sample_runner.h:364`; lines 120-121 and 198-200 say concurrent runs cannot
  collide). Two that start in the same microsecond share it, and one may be answered
  for the other's program. `SampleIsOwn` excepts exactly these (`clashed`).
* `on_duplicate=skip` overwrites and revives a soft-deleted problem: the look excludes
  deleted rows and the code goes on to `upsert`
  (`admin_bulk_import_routes.h:782`; lines 776-779 say the tombstone stays, 815-820
  that this is never reached). `SkipKeepsProblems` is about live problems.
* A special judge that answers anything but "accepted", and one that does not compile,
  ends `judge.sh` without its line of JSON, and the host stores a system error:
  `spj.sh:169` and `:114` return nonzero after `set -e`, outside any condition
  (`judge.sh:545` says 1 is a wrong answer, `spj.sh:44-49` that the cases become SE).
* Edits without a revision: beside a failed statement, and a second collision of
  numbers, the validation of `record()` refuses an entry after the edit was committed
  (`problem_revisions_repo.h:644-705`), and the handler goes on. `RevisionsNumbered`
  excepts them (`lost`).

Met while reading, without an effect on a property:

* `ignore_all_whitespace` folds trailing blanks to one and keeps it, so "hello" and
  "hello" with two blanks after it differ (`compare.sh:98-100` says they are equal).
  `LenientKeepsWords` states what it forgives.

* The ranking orders by the unaliased aggregate, which is NULL for users without
  submissions (`stats_routes.h:541-542` and `:563` promise another order).
* `admin_user_routes.h:478` allows an administrator to demote themselves; line 575
  refuses. Setting the same avatar, or a profile to what it is, is answered 404 or 409
  because no row is affected.
* `handle_mark_read` takes the id from the last path segment, which is "read", and
  always answers 400.
* `recent_24h_ac` may exceed `recent_24h`, and live and deleted problems may add up to
  more or to less than their total: they are counted by different statements, and a
  problem may be created, deleted or restored in between. `CountsAgree` bounds the
  second by what came and went.
* The first pass of `prune_if_needed_locked` (`rate_limit.h:545-547`) never drops
  anything: refill is lazy, so no stored bucket is full. The proof has this as the lemma
  `NoneIsFull`.

## 7. Not modelled, and why

* Docker client: building command lines and parsing their output. What its callers can
  observe is the environment of the four modules that use it.
* The MySQL connector below `ConnectionPool`, JWT signatures, bcrypt and cookie syntax:
  libraries and formats. A statement is atomic and may fail; a token is one that was
  issued; a password matches or does not.
* A statement of a handler that fails has had no effect (`Throws`). A connection that
  breaks after the server applied the statement is modelled only where the judge stores
  its results (`JudgeScheduler`) and for docker calls.
* Validation of texts, filters, paging, list orders, serialisation and messages: a
  request may be refused with the code's status at the place where the code refuses.
* Health probes and metrics (`system_routes.h`, `metrics.h`): they read, or bump atomic
  counters. The counters that the scheduler feeds are in `JudgeScheduler`.
* Configuration, logging, dispatch tables, wiring of the context objects, the schema,
  command line tools and the empty placeholder headers: no behaviour of their own.
* The browser client: for the server it is the environment, any request with any token
  it was given.
* A sample runner without docker client, which answers before it does anything, and
  `SubscriberScope`, which nothing uses.
