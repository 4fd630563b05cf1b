# DevTrack in TLA+

DevTrack is an issue tracker: a FastAPI application over PostgreSQL and Redis, a
Celery worker for CSV exports, and a WebSocket for notifications. This directory
models the parts of it in which several processes or requests act on shared
state, checks them with TLC on small instances, and proves the main safety
properties for instances of any size with TLAPS. Paths below are relative to
`backend/app/`.

    tlc -workers 2 -config exports_faults.cfg MCExportJobs.tla
    tlapm ExportJobs_proofs.tla

## 1. The system

| Part | State | Operations | Meets |
|---|---|---|---|
| Export jobs: `services/export_service.py`, `tasks/export_tasks.py`, `core/celery_app.py`, `api/exports.py` | `export_jobs` rows, CSV files, messages in the broker | request, run, retry, give up, sweep at API start, poll, download | projects and users (cascade), dead letters, Redis |
| Dead letters: `utils/dead_letter.py` | a capped Redis list | push, peek, count, clear | the worker |
| Issues: `services/issue_service.py`, `api/issues.py` | `issues`, `activity_logs` | create, update, assign, change status, delete, list | notifications, dashboard cache |
| Comments: `services/comment_service.py` | `comments` | add, delete, list | issues, notifications |
| Notifications: `services/notification_service.py`, `services/realtime.py` | `notifications`, coroutines on the event loop | create and push, list, mark read | sockets, issues (cascade) |
| Socket registry: `core/ws_manager.py`, `api/ws.py` | sockets per user | connect, backlog, push, disconnect | notifications |
| Dashboard: `services/dashboard_service.py`, `utils/cache.py` | one Redis key per owner | get, compute and set, delete | issues, projects |
| Projects: `services/project_service.py` | `projects` | create, update, delete | everything that cascades from them |
| Rate limiting: `utils/rate_limit.py`, `core/rate_limit_dep.py` | one Redis counter per caller and window | is_allowed | auth, issue, comment and export routes |
| Accounts: `services/auth_service.py`, `core/security.py`, `core/dependencies.py`, `api/users.py` | `users`, stateless tokens | register, log in, refresh, change password, delete user | everything a user owns |
| Sessions: `database/session.py` | a connection pool; per request the rows it has loaded | get_db, commit, refresh | all of the above |
| Start-up and configuration: `main.py`, `core/config.py`, `core/cors.py` | settings | on_startup, resolve_cors_origins | export recovery, event loop |
| Deployment: `backend/docker-compose.yml`, `scripts/check_config_consistency.py` | containers and their health, the database volume | up, down, probes, restarts; the check of the file | start-up |

Handlers are synchronous functions run in a thread pool; each has one session,
which commits several times. Sockets and pushes run as coroutines on one event
loop. The Celery worker is a process of its own. They share the database, Redis
and the export directory.

What is hard here, and where:

- *Several commits in one handler.* A row is loaded, checked, changed and
  committed, then read again for the log, the notification or the cache; other
  requests act in between. There are no row locks and no version columns.
- *What a session writes.* SQLAlchemy writes the columns that differ from what
  was loaded, and nothing else. Whether two requests overwrite each other's work
  hangs on that (`OrmSession.tla`).
- *Two stores.* Postgres and Redis (broker, cache, dead letters) are updated one
  after the other, and Redis operations may be lost silently.
- *Crashes.* Celery acknowledges a message before running it, so a dying worker
  loses the job; only the sweep at the next API start ends it.
- *Retries and the clock.* A failed export is retried with a delay, while the
  sweep judges a row by its age.
- *Threads and the event loop.* A notification is committed in a thread and
  pushed by a coroutine, while sockets come and go.
- *Waiting for each other.* A session keeps its connection while it waits for a
  thread or the event loop, and those who have these may wait for a connection.
- *Tokens outlive accounts*, and accounts are deleted under requests in flight.
- *Start order.* `depends_on` orders what `up` starts and nothing after it.

The properties that make each part correct are named with its module below.
`PROJECT.json` lists the hazards with their lines and the properties aimed at
them.

## 2. Modules

| Module | Models |
|---|---|
| `OrmSession` | what a commit of a stale row does |
| `ExportContract` | abstract: what a client polling an export may see |
| `ExportJobs` | the whole life of an export |
| `ExportInvariant` | the inductive invariant of `ExportJobs` |
| `ExportJobs_proofs` | theorems about it, and that it implements `ExportContract` |
| `IssueBoard` | abstract: the changes of issues and what is said of them, one at a time |
| `IssueWorkflow` | issue and comment requests that overlap |
| `IssueWorkflow_proofs` | theorems about it, and that it implements `IssueBoard` |
| `Inbox` | abstract: which notifications a tab owes its client, and shows |
| `NotificationFeed` | notifications and the sockets of a user |
| `NotificationFeed_proofs` | theorems about it, and that it implements `Inbox` |
| `DashboardCache`, `DashboardCache_proofs` | the cached summary of an owner |
| `RateLimiter`, `RateLimiter_proofs` | the calls counted for one caller and action |
| `AccountBook` | abstract: accounts, activity and credentials, one operation at a time |
| `Accounts` | users, tokens, the activity log, deletion of users |
| `Accounts_proofs` | theorems about it, and that it implements `AccountBook` |
| `ConnectionPool` | connections, threads and the event loop of one API process |
| `DeadLetters`, `DeadLetters_proofs` | the dead-letter list as its operator sees it |
| `Stack` | the containers, the order they start in, and the check of their file |
| `Platform_proofs` | theorems about `Stack` and `ConnectionPool` |
| `MC...` | the instances TLC runs |

### Exports

A *delivery* is a message and then the task that runs it. Its `pc` follows
`generate_project_export`: `unsent`, `queued`, `fetched`, `loaded` (line 82),
`started` (RUNNING committed, line 100), `reloaded` (line 102), `writing`,
`written`, `ended`; after an exception `except`, and from there back to `queued`
(`self.retry`) or `giveup`, `bury` (dead letter), `ended`. `api` follows
`request_export`: the row is committed, the message sent, and when that fails the
row is loaded again and marked failed. `boot` is the sweep in `on_startup`: it
loads the stranded rows and commits a verdict on all of them. `seen`, `apiSeen`
and `reap` are the rows as those sessions loaded them; `Commit` (external, from
`OrmSession`) merges a session's changes into the row of the moment, and fails if
the row has gone. What happened to a job is kept in `runs`, a history variable.

Abstractions: error texts are classes; `row_count` goes with `file`. Age is a
flag, set by `Age`; without the disturbance `slow` no job that is still alive
becomes stale. A parent's deletion removes the job's row in one step, by
`delete_project` or `delete_user` alike; the CSV file stays, as in the code. Rows
are not deleted between the two steps of the sweep.

`Disturbances` says what the environment may do in an instance: eleven kinds,
from `workerCrash` to `delete`. The properties divide accordingly.

Of *undisputed* instances only (no `slow`, `duplicate`, `lostReply`: each job has
one runner, and it is done before the sweep may think it stranded) hold
`NotSettledWhileLive`, `WholeFile`, `AttemptsCountRuns`, `DeadLetterMatchesRow` and
the contract (`ContractHolds`, from which a deleted job stays deleted).
`RowTellsOneStory` is a conjunct of their invariant. With a competing writer each of
these is false of the code, and section 3 says how.

In every instance, competing writers or not, hold:

- `EndsLeaveTraces`: whoever writes last, and over whichever columns, a completed
  row has its path, a failed one a reason or the path of the completion it was
  written over, and a row with any of these has its time. A row may well show
  FAILED and a path, or COMPLETED and a reason.
- `SettledIsFinal`: a settled row changes no more, but while `Overlapping` names
  who may still write it: the sweep and a runner that outlasts the grace period,
  a second delivery, or a request that was refused although its message got
  through. All else, late steps, retries and later sweeps, leave it alone.
- `DeadLetterIsEarned`, and `DeletedStaysDeleted`, of which there is only a proof.
- `SettlesForGood`: in the end a job has one end and keeps it, whatever died or
  competed, provided the API is started again and again.

`EverySettles` and `GivenUpIsDeadLettered` are about instances without crashes.

`ExportContract` knows a status and an attempt counter per job: requested, begun
(the counter never falls), succeeded or failed by the worker, failed by the
sweep or the broker, removed. `ExportJobs` maps the row to them, and "deleted" to
a row that was there and is gone.

### Issues and comments

Each request carries one command and moves `idle`, `loaded`, `stored`,
`refreshed`, `logged`, `reloaded`, `ok`, one step per commit or re-read of its
handler; `refused` is a 403, 404 or 400, `failed` a 500 because its row has gone or
before anything was committed, `cut` the end of a request after its commit, by the
death of the process (`Crash`) or an error of the database (`DatabaseError`, at
any statement). A request that ends closes its session and forgets `seen`. Users and
projects are fixed. An update names no user who does not exist. Deleting a row
that is gone already ends in 204, as a DELETE without a row does; refreshing,
updating or commenting on such a row fails. The log is a transaction of its own,
whose row refers to the user only: between the refresh and it the issue may be
deleted, and is logged all the same.

`BoardKept` says that the requests implement `IssueBoard`, in which an issue is
opened, reassigned, moved on, removed, commented on, logged and told about by
single steps: never back to TODO nor from TODO to DONE at once, one column at a
time, and no comment or notification on an issue that is gone (it may still be
logged). From DONE the board allows the way back to IN_PROGRESS, which the check of
the handler does not: `issues_forward` shows that the code does it. The rows are the
board's, `Remarks` and `ToldOf` sort comments and notifications by issue. A request
is several steps, of which each is one of the board's or none; it holds because an
update of other columns does not write the status it loaded, and because a
notification or a comment needs its issue (a foreign key) and goes with it (the
cascade).
`StatusPath` is the part of it about the workflow. `AuditTrail` and
`AssigneeTold` relate the final row to the log and the notifications of requests
that overtook each other, when none of them was cut off between its commits: a
request that died or met an error there is `cut`, and excused. `ToldUnlessReassigned` holds
whatever dies. Updating, deleting and commenting write no log, and creating or
updating an issue with an assignee notifies nobody (`issue_service.py:51-56`,
`:96-101`): the two properties ask for the commands that do.

### Notifications

One user; users share nothing here. A note goes from `committed` in a thread to
`scheduled` on the loop to `pushing`, and then to the sockets that were registered
when the coroutine started, one after the other in whatever order the copy of the
set has (`sending` is the one being awaited). The push is best effort: when reading
the row back after the commit fails, for want of a connection or because the row
has gone, or when the loop cannot be had, it is `skipped`, and the unread row waits
for the next tab's backlog. Registering a socket and reading its backlog is one
step: there is no await between them on the loop (`ws.py:82-84` up to the first
send). A client may leave, or stop reading (`stuck`); a send to one that does
not read, and with it every send after it, waits until the server's ping timeout
gives the client up. A send to one that has left raises, and the loop drops the
socket. Threads commit whenever they like. Duplicates (in the backlog and pushed)
are possible and allowed.

`DebtsArePaid` says that this implements `Inbox`, an account per tab: a tab owes
every note that is unread when it opens and every note stored while it is open,
and a debt ends by showing the note, by leaving, or when the push of the note is
withheld as a whole, which can happen between its commit and its hand-over only.
Owed (`Owed`) is what is committed or scheduled, being pushed to the tab, or in its
backlog frame, and has not been shown there. What a tab may count on is
`Promised`: its backlog, and every note whose push was not skipped. `FeedInv` holds
`NothingMissed`, `RegistryExact` and `ShownIsStored`; progress is `EventuallyShown`
(of what is promised, though another tab may stall) and `EventuallyUnregistered`.
Several API processes would each push to their own sockets only, as
`core/ws_manager.py` says; the model has one.

### Dashboard cache

One owner. A summary is represented by the database version its first SELECT
saw. A writer commits, refreshes its row and finds the owner of its project (one
step: the row's existence at the reload decides both), and deletes the key. If
the row or the project has gone, nothing is deleted. `Needs` and `Deletes` say
which rows a writer reads again and which it removes; creating an issue or a
project, changing a status or a priority, and the two deletions differ in these
only. Assignments and comments do not invalidate, as the summary does not show
them. `late` and `latest` are history. A DELETE may be lost, and a writer may
die before it; an exception of the database between commit and DELETE leaves what a
lost DELETE leaves, and is not told apart from it.

`StaleHasReason`: an outdated summary is cached only while the DELETE is still to
come, or if it came before the SET or was lost. In particular a writer that finds
its owner gone can keep silent, because whoever deleted the row comes after it.
`EventuallyCurrent`: it does not stay.

### Rate limiter

One caller and one action, that is, one key and a counter per window of the
clock. A call reads the clock (`timed`), increments the counter of the window it
read and renews its lifetime in one MULTI (`allowed` or `full`), and if `full`
reads the clock again for `retry_after` (`denied`). Redis may fail instead
(`open`), having counted the call or not, and such calls are let through uncounted;
or restart without its counters (`LoseCounters`). `Alive` computes from the last EXPIRE
whether the key is still there. The clock is a window number and the seconds
gone in it; all processes read one clock, which does not go back, and keys expire
by the second. A call is at most one border late when it reaches Redis
(`Straddle`), since the client's timeouts are one second and the windows a
minute or more; it may take as long as it likes between its two readings.

`Quota`: of the calls Redis answers no counter lets more than the limit through
while the clock is in one window (once more for each time the counters were lost
in it), and none but that window's own or, with late calls, the one before, so that
a window of the clock sees at most twice the limit. It depends on EXPIRE
being renewed with each INCR: with a lifetime set once, a late call could find
its counter gone and start again. Two adjacent windows together may see more than
the "~2x the limit" of `rate_limit.py:8` if calls straddle both borders.
`WaitIsEnough`: waiting `retry_after` leads out of the window the denied call was
counted in, although it was computed from another reading.

### Accounts

Each request moves through the statements of its endpoint: authentication (a
token and the row it names), a lookup, the change and its commit, a re-read of
the expired row, the activity log and its own commit, the answer. `users` has the
unique index on the address, `activity_logs` the foreign key to the user: a log
row for a user who has gone is refused, and a deletion takes the log rows its
session loaded and fails if others came since. `logout` stands for any request
that adds a row with a foreign key to its user; the address stands for the
profile's fields. Founders are accounts there from the start. A token is its type
and user id; that it may have expired is a request turned away.

`AccountsInv` is checked as a whole and proved part by part. `UniqueEmails` in it:
two registrations or changes of address pass the lookup together,
and the index decides. `IdentityKept`: no token and no request in flight ever
reaches an account registered after its own was deleted. It rests on the sequence
of PostgreSQL, which never gives an id twice; SQLite without AUTOINCREMENT would.
`ColumnsIndependent`: changes of password and address by overlapping requests
both survive, since each writes only its columns. `NoOrphanLogs` and
`AnsweredIsLogged` relate the log to the accounts under deletions and crashes.

`AsIfAlone` says that the requests implement `AccountBook`, where enrolling, moving
to another address, a new password, an activity, a grant of credentials and
closing are done at once: what the overlapping requests make of accounts, activity
and credentials, such operations one after the other could have made. The ids
given out (`Spent`) include those whose registration the index refused (`Waste`).
The book says what an operation may do to the accounts and not who may ask for it:
that a changed password was proved by the old one, or that the user who deletes
another is still an admin, are checks on a row loaded earlier, which `Accounts`
makes and `AsIfAlone` does not ask for. A deletion that finds the admin's own
account deleted meanwhile has committed, and answers 500.

### Connection pool

A session takes a connection at its first statement and gives it back at a commit or
when `get_db` closes it. A REST request visits the thread pool once for each
synchronous dependency, for its endpoint and for the serialisation of its answer,
and keeps the connection in between; a socket queries on the event loop itself, so
while it waits for a connection nothing else runs there (`loop`), and it keeps the
connection until the client leaves. The end of `get_db` has a thread limiter of its
own and needs the loop only. What unties these is the timeout of the pool, which
here may happen whenever one waits. The database may go down; `pool_pre_ping`
replaces a dead connection at checkout. Which connection one gets does not matter;
connections beyond the pool's size, which are closed on return, are not told apart
from the others.

`PoolInv`: no connection is lost or in two hands, and (`BrokenWereHit`) a statement
breaks only for a session that held its connection when the database went down.
`EveryRequestEnds`, `EverySocketSettles`: nobody waits for ever. To end by the
timeout is to end: that requests are answered with an error when sockets keep all
connections is how the code is, not an error of the model. That someone can
always go on is proved as well (`SomeoneMayGo`).

### Dead letters

A push is one transaction of LPUSH, LTRIM and EXPIRE, whose answer may be lost;
`peek` returns the newest up to its limit, `clear` deletes the key, and nothing
keeps an operator from clearing what he has not looked at. Time is the clock of
Redis; a key goes when its lifetime has passed. A restarted Redis keeps its data or
has lost all of it. A peek without Redis, or whose answer is lost, reads like an
empty list; only `dead_letter_count` tells the difference, by its -1.

`FreshLettersSurvive`: a stored letter is in the list until it is old, as many
newer ones as the list holds have come, or the list was cleared.
`BacklogIsCurrent`, which is immediate from `LettersInv`: what can be read has had
a letter within the lifetime.
`CountConfirmsLook`: an operator who counts as many letters as he has read has
read all there were when he looked; what is unread has come since, and a clearing
costs him only that. Without the count there is no such promise. `ExportJobs` keeps
a set of letters, which the list is as long as it is not cut or expired.

### Containers

`file` is a compose file: edges of `depends_on` with their conditions, the
services with a healthcheck, and those with a restart policy. Deployed are the
repository's file and edits of one line of it: an edge dropped or weakened to
`service_started`, the API made to wait for `db` to complete, a healthcheck dropped,
`migrate` restarted like the others; of which `Init` admits those that pass the compose part of
`check_config_consistency.py` (`Accepted`). The semantics of `up`, probes and
restarts are those of docker compose and are external: `up` starts a container
when its edges are satisfied, gives up when a dependency has failed, and starts
`migrate` again each time; a restart policy starts what died without a look at
`depends_on`. The API reads its settings and CORS at import and exits if they are
refused, or else serves, having run the recovery of exports if the database
answers (`sweep`). A missing secret key makes compose refuse the file and so does
not occur. The worker's edges are those of the API and are not edited.

`StartedOnSchema` and `SkippedHasReason` are about services whose edges are those
of the repository (`Kept`): the script demands an edge for each host in an
environment, but neither the edge to `migrate`, whose name is in no environment,
nor a condition, so that edits of these pass it. `HostsExist` holds
for every file it accepts. `ComesUp` does not: the script also accepts files that can
never come up, such as an API that waits for `db` to complete, or migrations that
are restarted for ever. It is about the accepted ones among those deployed which
ask for nothing impossible (`Attainable`): there no edge waits for a healthcheck
that does not exist. `ServesSafely` is about the settings; it
and `HostsExist` are parts of `StackInv`, which adds what one container's state
tells of another's: what `up` is done with exists (`Begun`), and an API started
with all its edges has database and tables at hand until something fails
(`Undisturbed`).

## 3. Runs

| Run | Instance | Distinct states | Shows |
|---|---|---|---|
| `exports_faults` | 2 jobs, 2 attempts, 2 parents, every fault of one runner | 100,502 | the inductive invariant, the safety properties, the contract |
| `exports_settle` | 2 jobs, 3 attempts, no crash | 29,334 | every export ends, and every job given up on has its letter |
| `exports_disputed` | 1 job, 2 deliveries, duplicates, slow tasks, lost answers, crashes | 551,666 | letters are earned, ends leave their traces, a settled row is final but for a competing writer, and settles for good if the API keeps restarting |
| `issues_overlap` | 1 issue, 2 users, 3 requests of every kind, errors, crashes | 1,813,089 | that requests keep the board; log and notifications |
| `feed` | 1 note, 3 sockets of which one may stall, skipped pushes, crash | 227,321 | every debt to a tab is paid, registry exact; shown and unregistered in the end |
| `cache` | 2 readers, 4 writers, Redis failing, crash | 44,958 | the only reasons for an outdated summary, and that it does not stay |
| `limiter` | 5 calls, limit 2, 3 windows of 2 seconds, outages, a loss per window | 431,437 | the quota, and that `retry_after` is long enough |
| `accounts` | 3 requests of every kind, 2 accounts, 3 addresses, crashes | 197,069 | unique addresses, tokens that keep to their account, the log, all as if each operation ran alone |
| `pool` | 2 requests, 1 socket, 2 connections, 1 thread, 1 outage | 142,770 | no connection lost, every request and socket gets an answer or the pool's timeout |
| `letters` | 4 letters, a list of 2, lifetime 2, a look at 1 | 1,780,232 | when a letter may be gone, and what a look confirmed by a count has missed |
| `stack` | the file and its accepted edits, 6 settings, 2 faults | 623,655 | what is started on what, and that the stack comes up |

The bounds. Two exports suffice because jobs meet only in the sweep, in the
dead-letter list and through common parents, which two do. Two attempts have a
first, a retried and a last one; three are used where the number matters. Three
requests are the fewest with which a check made on a loaded status can be overtaken
twice (see `issues_forward`). The two users are an owner and an admin, so that the
check of permissions refuses nobody there. Three sockets let one be closed, stalled
or dead, and one live on each side of it in the order of a push. In the cache two
readers can overtake each other and the four writers are the kinds that differ in
what they need. In the limiter five calls exceed the limit in one window, or fill it
twice with late calls and start a third; after two seconds a counter that was not
renewed is gone, and the third window is one in which a late call meets a counter
from the second. Three account requests are two that overlap and a third to delete
or replace the account under them; five ids are two founders and a registration
each. In the pool the requests outnumber the threads and, with the socket, the
connections; one commit gives a connection back and takes another, and each may come
back to a thread once more than FastAPI's first two visits. Four letters overfill a
list of two and then replace it; the limit of one is below the cap, and a lifetime
of two within a clock of three lets a renewed list outlive its first letter. Two
faults of the containers are a crash and another before `up` has repaired the first,
or a `down` and a crash of what came after it. Nothing else is bounded: readers go
round for ever, and sockets, notes, requests, writers, calls and letters are used
once. Deadlock is checked for the cache; elsewhere a finite set of jobs, requests,
sockets or calls really ends, or the containers stay as they are. Symmetry is used
in safety runs only.

One run shows a disagreement, which TLC must find:

| Run | Statement | What happens |
|---|---|---|
| `issues_forward` | "Allowed forward transitions" (`issue_service.py:14`) | two moves on a status loaded earlier take DONE back to IN_PROGRESS |

Read off the code while modelling it, and not run here:

- The completion of a job must not leave "a stale error message"
  (`export_tasks.py:128`). If the sweep commits between load and completion, the
  row stays COMPLETED with the sweep's message: setting the attribute to the None
  that was loaded writes nothing (`:130`).
- A job refused with 503 is left in a "terminal" state
  (`export_service.py:43`). If the broker took the message and only its answer
  was lost, the job runs, and may be marked FAILED over its completion or complete
  over the FAILED: a FAILED row may come to have a path, and with a path even no
  reason. `EndsLeaveTraces` says how far this goes.
- A summary is dropped "after something changed" the counts
  (`dashboard_service.py:18`), but one computed before the change and stored after
  the DELETE (`:87`) stays until it expires; `StaleHasReason` names the case.
- "A recovered job is terminal" (`export_tasks.py:207`), but one reaped while its
  message waits is picked up and run again (`:97`); `Overlapping` names these cases.
- A service gated on a health that never comes "would never start"
  (`docker-compose.yml:122`). The check of the file sees to the healthcheck
  (`check_config_consistency.py:218`) and to no other condition: it accepts an API
  that waits for `db` to complete, and `up` then waits for ever.
- A peek at the dead letters during an outage reads like an empty list
  (`dead_letter.py:104-106`), and nothing ties a clearing to a look (`:130`): one
  that follows when Redis is back deletes letters nobody has read.
- A notification whose row cannot be read back after its commit is never pushed
  (`notification_service.py:35`), though tabs are open; they show it when they are
  loaded again.

`test_export_reliability.py` and the cache tests exercise one process at a time,
and so reach none of the interleavings.

## 4. Fairness

- Exports: a request under way, each step of a task that a living worker has, a
  restarting API, and the ageing of a row go on (weak fairness, one condition per
  actor). No crash, error, or deletion is ever obliged to happen or not to
  happen; `SettlesForGood` assumes in the property itself that the API is
  restarted again and again and each time gets to serve: what restarts it is
  `restart: unless-stopped` in `backend/docker-compose.yml`, not the code.
- Notifications: a thread that committed goes on, to schedule or to skip; the loop
  runs its coroutines; a handler gets its backlog out or answers its socket's end,
  and the server's ping timeout (uvicorn's, 20 s) gives up a client that does not
  read. Clients need not do anything.
- Pool: whoever has what its next step needs takes it, and a wait for a connection
  times out or ends (`pool_timeout`, 30 s). Clients need not come or leave, and
  the database need not come back.
- Containers: compose, Docker's probes and restart policies and the processes go
  on, and the operator repeats `up` until it returns, as whoever deploys does.
  Nothing has to fail. The fairness of probes and of becoming ready excludes a
  service that is given up on each time.
- Cache: Redis expires keys, a reader that missed goes on to its SET. Requests
  need not come.

## 5. Proofs

All for any number of jobs, requests, users, sockets, readers, writers, calls,
connections, letters, faults and accepted compose files, from the named assumptions on
the constants alone. TLC checks the same properties on the instances above; each
safety property of a run is proved.

Four components implement an abstract specification (`ImplementsContract`,
`RequestsKeepBoard`, `FeedPaysDebts`, `ImplementsBook`): under the component's
inductive invariant each action is one of the abstract steps, or leaves the
mapped variables alone. What a reader may conclude from an abstract specification
is proved from it alone, without the component (`ContractMakesSense`,
`SilentOnTheGone`, `AccountAddsUp`, `BookIsOrderly`).

*Exports.* `IInv` (module `ExportInvariant`) is inductive under `Undisputed`. None
of the safety properties is inductive by itself: that a settled row is not
written needs that no session holding an open copy of it is left (`WriterGone`),
that the copies agree with the row needs to know who owns it (`RequestOwns`,
`SnapshotsHold`), and the attempts column needs the retry counter at each `pc`
(`AttemptsFollowRuns`). From `IInv` follow `NotSettledEarly`, `FilesWhole`,
`AttemptsCounted`, `LettersMatch`, and step by step `ImplementsContract`, the
refinement; from the contract `ContractMakesSense`: of two polls the later one never
shows fewer attempts, another end or a job that had disappeared. All of these say
`Undisputed` in their statements, and so do the lesser `OneStory` and `SettledOnce`.

`TypeCorrect`, `DeletedFinal`, `LettersEarned`, `TracesKept` and `SettledFinal` assume
nothing about the environment. With two runners of a job little is known of the
row, but `BudgetInv` still is, namely that no session holds a row that could revive
a deleted one (`NoRevival`), and that the retry counter a delivery carries is
covered by runs (`RunsCover`). `DisputeInv` adds what a session may not know: the
row it loaded may be behind the row of the moment in certain columns only
(`Behind`), because a path and a time stay once they are there and a reason stays or
gives way to a path. From that no merge of a stale copy leaves an end without its
columns, which is `TracesKept`. And it says who may still write a settled row when
nobody competes (`SettlerInv`): the request that finds no broker or the last step of
the runner has settled it, and neither writes again, from which `SettledFinal`.
`GivenUpLettered` assumes that Redis answers and that no handler dies or loses the
database between giving up and the push.

*Issues.* `IInv` of `IssueWorkflow` says that a request past its check loaded a
status it may leave, and that the row has not returned to TODO since; from it
`StatusPathHolds`. `AuditTrailHolds`, `AssigneeToldHolds` and `ToldHolds`
follow from it as well, with any mixture of commands, errors and crashes. `RequestsKeepBoard`
has a lemma for each request step that changes the board. It needs two more facts:
what a commit makes of the two columns of the row of the moment
(`WrittenPath`), and that whoever has a comment or has told somebody did so for an
issue that is still there (`SaidInv`), without which deleting an issue twice, or
taking a new command, could change what was said. `SilentOnTheGone`: no comment
or notification of a deleted issue is left.

*Notifications.* `FeedInv`: that nothing is missed needs the targets of a push to
be what was registered when it started, the registry to be exact, and what is
pushed to be committed. From the last of these, `ShownIsStoredHolds`. What is not
missed is what was promised: a skipped push is in all of them. `FeedPaysDebts` needs
besides that a push goes to sockets that were opened, one at a time, and that one
that was not has nothing to do with any note; `AccountAddsUp` derives again from the
account alone that an open tab has shown or owes each unread note whose push was
not withheld.

*Cache.* `CacheInv`: the writer that committed last has all the rows it needs,
because it deletes none of them, and is therefore the one to remove whatever its
change outdated. `StaleHasReasonHolds` follows, whatever fails.

*Rate limiter.* `LimiterInv` adds to `Quota` why it holds (`CountersLast`): a
counter that let a call through in this window since Redis last lost the counters
was renewed in it and so lives to its end, and it has counted at least what it let
through since. `WaitIsEnoughHolds`
needs only that no call is ahead of the clock.

*Accounts.* `AccountsInv` says of each request in flight that the row it loaded is
one its account had, that ids given out lie below the sequence and addresses
differ. `AddressesUnique`, `TokensKeepTheirAccount`, `ChangesIndependent`,
`LogFollowsAccounts` and `AnswersLogged` follow for any endpoints, founders and crashes.
In `ImplementsBook` a change is the book's `Move` or `SetPassword` because the commit
leaves the other columns of the row of the moment as they are, a log row is an
`Act` because its foreign key needs the account, and a token names the origin of
the row its request loaded, which `IdentityKept` makes that of the row there now.
`BookIsOrderly`: addresses differ, ids are given out once, and a credential is good
for no other account than its own.

*Pool.* `PoolInv`: idle and held connections part the pool, nobody shares one, and
the loop waits for one socket at most. `OutageHitsHolders` needs besides that a
session which holds a dead connection held it at an outage (`DeadWereHeld`).
`SomeoneMayGo`: whenever a request or socket is under way, the guard of a step of
one of them holds. Whoever waits for the loop waits for a socket at a statement,
whoever waits for a thread for requests at theirs, and a statement always gets on:
with a connection, without a database, or by the timeout of the pool. The guards
are written out (`MayGo`), since the prover does not know ENABLED.

*Containers.* `StackInv` is inductive for every compose file the script accepts,
every setting, and any number of crashes, restarts, repeated `up`s and `down`s.
`OnSchema` needs that finished migrations made the tables and that what `up` has
passed exists; `SkipHasReason` needs `Undisturbed`: while nothing has failed since the
API was started, the database is ready, so that only a failure makes it skip the
recovery.

*Dead letters.* `LettersInv`: the list is the newest letters since it was last
emptied, newest first, as many as the cap allows, with the lifetime of the newest.
`FreshLetters` and `CurrentBacklog` are read off it. `CountThenClear` needs how deep a
look reached (`LookReach`) and, since the list is without gaps, that whoever counts
as many as he read has none below that. All hold for every cap, lifetime and limit,
a limit of zero included.

Only model-checked: the progress properties (`EverySettles`,
`SettlesForGood`, `EventuallyShown`, `EventuallyUnregistered`,
`EventuallyCurrent`, `EveryRequestEnds`, `EverySocketSettles`, `ComesUp`), which
rest on fairness and so are outside what the prover does.

## 6. Not modelled

- Request validation (`schemas/`), logging, the mapping of exceptions to status
  codes: no state.
- The migrations' DDL; `check_images.py` and the smoke test, which call registries
  and a running stack; the checks of Kubernetes and Prometheus files, of which
  there are none, and the comparison of Python versions, which is textual.
- An update of a project's title or description, which no other part reads.
- A parent deleted between the load and the flush of the deletion of another row
  (foreign-key races of the cascade): deletions are atomic, other than that of a
  user in `Accounts`.
- PostgreSQL itself: commits are atomic and durable, reads see what is committed.
- Passwords, token signatures.

## 7. Plan

Done, in this order: exports with their contract, issues and comments,
notifications, the dashboard cache, the rate limiter; accounts, the connection
pool, dead letters, the containers; proofs of each; the abstract board, inbox and
account book, and the proofs that they are implemented.

Next:

1. An abstract bag of failed jobs that `DeadLetters` implements while its cap is
   not met, and an abstract limiter whose windows are counted exactly once.
2. A composition of `IssueWorkflow` and `NotificationFeed` through `IssueBoard` and
   `Inbox`: a status change seen by the assignee's tab; and of `IssueWorkflow` and
   `Accounts`, whose users may then be deleted while their requests run.
