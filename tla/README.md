# Verification of Cog-Log

TLA+ models of Cog-Log - its backend (`src/backend/src`), the cloud's ingest handler and the screens that keep
state of their own -, TLC configurations that check them on small
instances, and TLAPS proofs of their main invariants for every instance. Paths below are relative to
`src/backend/src` unless they start with `frontend/` or `cloud-dashboard/`; "the specification" is
`vision-inspection-log-program-spec.md`.

1. The system and its parts
2. What is modelled, and how it corresponds to the code
3. What the runs check
4. What is proved
5. Where the code and its documents disagree
6. What is not modelled
7. Plan

## 1. The system and its parts

Cog-Log runs on one PC. It holds one TCP connection to a vision inspection device, as server or as
client, cuts the byte stream into messages, stores every message in SQLite under a daily number,
appends it to TXT and XLSX files, copies it to a cloud database and shows it live in browsers.

    device --bytes--> adapter --> framer --message--> TcpManager.recordLog --> SQLite
                        |                                 |   |   |
              connection.status --> session row           |   |   +--> cloudSync --HTTP--> cloud D1
                        |                                 |   +------> exportQueue --> TXT, XLSX
                        +-------------> realtimeHub <-----+
                                            | WebSocket
                                         browsers --HTTP--> api/* --> TcpManager, settings, users

Every handler runs on one JavaScript thread and SQLite is called synchronously. Handlers therefore
interleave only at an `await`, a timer or an event; the thread is otherwise in the middle of exactly
one of them. Four things break this order: a crash, which may come between any two statements; a statement that throws
(the database is busy or the disk full), since nothing between a socket's event and the event loop catches; other
processes (a second instance by mistake, Excel holding a file, the network); and the event loop, which decides in which
order the callbacks of sockets, timers and files run. After an error that nothing catches the packaged program asks for a
key and meanwhile goes on with the next event (`index.ts:27-52`); otherwise it exits, which the models have as a crash.

| Component | State | Operations | What is hard | What makes it correct |
|---|---|---|---|---|
| Message framing (`tcp/framer.ts`) | the bytes not yet cut | `push` for each packet | delimiters split over packets, many messages in one, a delimiter that overlaps itself, the size limit, a message handler that throws | no byte lost or moved; the cuts depend on the stream, not the packets; bounded buffer |
| TCP adapters (`tcp/serverAdapter.ts`, `tcp/clientAdapter.ts`) | server, socket, reconnect timer, status, last error | start, stop, send; connection, data, error, close, timeout and timer events | late events after a stop, one client at a time, every failure path must schedule the next attempt, a report that throws | a stopped adapter is quiet; a started client never gives up silently |
| TCP manager (`tcp/manager.ts`, `api/connection.ts`) | current adapter, current session | start, stop, send, `handleStatusChange`, `recordLog` | events of an adapter it has left; `recordLog` after an `await`; an id that is set before its INSERT and cleared after its UPDATE | a session for each connection; a row names its own session |
| Numbering (`tcp/manager.ts`, `db/dailySequence.ts`) | `daily_sequences`, `log_records` | `recordLog`, `issueDailySequence` | two connections to the file, busy locks, a crash between two transactions, the clock | unique numbers, explained gaps |
| File export (`export/*.ts`, `api/file-jobs.ts`) | `file_write_results`, the files, `writeQueues` | `enqueueForRecord`, retry timer, `retryNow`, append, read-modify-write of a workbook | rewriting a whole file with awaits inside, locks, retries of what was done, changed settings, crashes | no row lost; SAVED means written; no double write without a cause; failed ones made good |
| Cloud synchronisation (`cloud/sync.ts`, `cloud-dashboard/src/index.ts`) | `cloud_sync_results`, the cloud's `log_records` | enqueue, timed retry, request, upsert | lost answers, delayed requests, crashes, a switch | each record once, its newest value, in the end |
| Accounts and login (`auth/*.ts`, `api/auth.ts`, `api/users.ts`) | `users`, `sessions` | login, logout, change and reset of passwords, user CRUD, bootstrap | long sequences by several admins, idle time, locks that expire, crashes | an active admin remains; a withdrawn account has no session |
| Migrations and start (`db/runMigrations.ts`, `index.ts`) | `schema_migrations`, the schema | apply at start, start the queues, listen, fatalError | a crash between a migration and its mark, two instances | no marked migration is incomplete; the queues run on a complete schema; a later start fails only for a reason |
| Realtime and monitor (`realtime/hub.ts`, `frontend/src/lib/realtime.ts`, `frontend/src/pages/MonitorPage.tsx`) | sockets, subscribers, the records on screen | broadcast, subscribe, reconnect, load | snapshots that overtake events, a reconnect across two screens, rows ordered by a clock that can be set | the screen follows the database |
| Hidden start (`tray/hiddenLauncher.ts`, `tray/tray.ts`) | child process, its output, the verdict | spawn, ready mark, exit, timeout, quit | the verdict's causes race each other; a hidden process cannot ask its user | the verdict comes, is true and stays |
| Settings (`api/settings.ts`, `api/connection.ts`, `db/connectionProfile.ts`, `db/storageSettings.ts`, `frontend/src/pages/ConnectionSettingsPage.tsx`, `StorageSettingsPage.tsx`) | one row each; the form, hint and notice of every open screen | load, type, save, restart | forms hold copies of the whole row; answers in any order; two users | a form shows the row; a save changes what was typed; running with old settings is told |
| Read-only APIs, static site, other screens, packaging | - | query | sequential | - |

`PROJECT.json` lists the hazards of all of them, each at its line, with the properties that watch it or
the reason why none does.

## 2. What is modelled, and how it corresponds to the code

In every module an action is one step that nothing can interrupt at the grain the properties need. A
definition named `X_Y` is `X` with the plausible bug `Y`; no specification uses it, it is there to show
which property would notice the bug.

### Framer (with MCFramer, TcpProofs)

`DelimiterFramer`. `buffer` is `this.buffer`; `Push` is the first statement of `push`, `Deliver` one iteration of its
loop, `Finish` the check of the limit and the return. The handler that `Deliver` calls is `recordLog`, and when it
throws (`throws`), `push` ends there: the message is gone from the buffer, the rest of the buffer waits for the next
packet and the limit is not tested. `cutShort` is history: did the last `push` end so? A throw of the error handler
changes nothing, since the buffer is emptied before it is called. A packet whose report to the manager throws before
`push` is called (`setInfo`, `clientAdapter.ts:74`) never reaches the framer; `rx` is what did. Bytes are CR, LF and a
set of text bytes; decoding is left out, since `output` keeps the bytes as they are handed over. `rx` is history:
everything received. Its specification is `FramerSpec`, its types `FramerTypeOK`, so that TcpProofs can extend it
beside TcpManager. `output` records the places of `rx` a message or a dropped run came from, so that properties can
compare it with the stream. `reset` is never called by the program.

### LogPipeline, Register (with MCLogPipeline, LogPipelineProofs)

`recordLog` with `issueDailySequence`, one action for each statement that reaches the database: `Begin` (BEGIN
IMMEDIATE), `Issue` (upsert and SELECT), `Commit`, `InsertRow`. The call then gives the row its jobs, one for each
copy - TXT, XLSX, cloud - as `enqueueForRecord` of the two queues does (`Enqueue`); a job whose INSERT throws rejects
a promise nobody waits for (`EnqueueFails`), and nothing looks for it later. `jobs` are the rows of
`file_write_results` and `cloud_sync_results`, which ExportQueue and CloudSync take from there; `missing` is history.
`thread[p]` is where process `p` is in the call. There may be several processes on the file: the program opens SQLite
without a busy timeout, so a statement that finds the lock taken throws (`Throw`), and in `send` the catch block then
records the request once more (`AfterThrow`). `Crash` loses the call and rolls back the transaction. `SetClock` is
midnight or a correction of the clock, in either direction.

`Register` is the abstract specification. A number of a day is given out in turn (`GiveOut`) and is open until it is
in a row (`Enter`) or lost (`Lose`); rows are only added. A row owes a job for each copy, and each ends by being
written (`Write`) or missing (`Drop`). Nothing leaves one of these ends. LogPipeline implements it with `given` the
counters, `open` the numbers of the calls between COMMIT and the row (`Pending`), `rows` the numbers in `log`, and
`owed` what the calls behind their row have still to write (`Promised`). Processes, the lock, the calendar and the
operations are not in it.

### ExportQueue, Archive (with MCExportQueue, ExportQueueProofs)

`file_write_results` (`job`), the files on disk (`file`: how often each record has a row, and is the file
readable), `writeQueues` of `xlsxWriter.ts` (`chain`) and the JavaScript thread (`thread`).
`enqueueForRecord`, `processDueRetries` and `retryNow` start an attempt: `StartTxt` or `StartXlsx`, the
synchronous part of `attempt`. A TXT attempt goes on without a pause (`AppendTxtRow`, then `Save` or
`Fail`). An XLSX attempt is a task in its file's chain: `LoadWorkbook`, `OpenForWrite` (which empties the
file), `FinishWrite` or `WriteBreaks`, then `Save` or `Fail` on the thread. `SaveFaults` and `FailFaults`
are the database errors at the two outcomes. The retry delays 1, 5, 15, 30, 60 s are one moment,
`RetryDelayPasses`; `attempt_count` only selects the delay and is left out. A file is one directory, one
format and one day.

What goes wrong is chosen by `Allowed` (retries by hand, changed settings, locks, errors, crashes) and
bounded by `MaxMishaps`. `manual`, `excused`, `written` and `lost` are history.

`Archive` is the abstract specification: files to which rows are added one at a time. A file is whole, open while it
is written anew, or broken for good; an item, a record in a format, is owed a number of rows, is shown as saved or
not, and somebody may have asked to have it added again. `Add` pays one row of those owed; `Confirm` shows what was
added, `Forget` owes it once more because nobody learnt of it, `Ask` owes one more on request, and only after that may
`Withdraw` take back what is shown. ExportQueue implements it with `state` read from the heads of the chains and the
files, and `owed` the rows a job may have less those it has. Tasks, retry times, target paths, locks and settings are
not in it: whatever they do is one of these steps or none.

### TcpCore, TcpServerAdapter, TcpClientAdapter, TcpManager (with MCTcpManager, TcpProofs)

`TcpCore` holds the variables, `HandleStatusChange` (the manager's callback), and what both adapters do
alike: socket events and `send`. The two adapter modules add their own events, and `TcpManager` composes
them with `start`, `stop` and a crash. `adapter` keeps every adapter created, since an adapter the manager
has left still receives events; `current` is `TcpManager.adapter`.

One action is one turn of the event loop with the `nextTick` and promise callbacks it leads to: `stop()`
always finishes within its turn (an idle server closes at once), so `Stop` and `Start` are atomic. Two facts
of Node.js matter and are named: `TurnEnds` (a `listen` on an IP address is done at the end of its turn,
one on a host name waits for the resolver) and `Swept` (the close event of a socket destroyed by `stop()`
runs at the end of that turn, before an event of any later socket). A destroyed socket's pending writes
may report success or failure, and do so before its close event.

Each action that reports to the manager has a parameter `ok`: it is FALSE when the statement of `handleStatusChange`
throws, which `MaxFaults` bounds. Nothing catches it before the event loop or, in `stop()`, before the promise of the
request, so what stands behind the report is skipped, and the order of the lines matters. `setInfo` has kept the new
state by then. An INSERT that throws leaves an id in `sessionId` (`stored` FALSE in `sessions`); every row of that
connection then fails on its foreign key, so `RecordLog` writes none. An UPDATE that throws leaves the session to
whoever connects next (`unended`, history). `ScheduleReconnect` reports RECONNECTING before it sets the timer,
`Connecting` CONNECTING before it makes the socket, `HandleConnection` CONNECTED before it registers the listeners
(`handled`): a socket whose report threw is one the server never hears of again. `stop()` has destroyed its socket
before the report; when that throws the manager keeps the adapter, stopped as it is. The throws of `recordLog`'s own
statements are a row that is not written (`RecordLog`'s first disjunct) here; LogPipeline has them one by one, and
Framer what they do to `push`. The length of the reconnect delay, `lastRxAt` and `lastTxAt` are left out; the connect
timeout is one of the ways a socket fails. The row's number is LogPipeline's concern; here a row only carries its
session.

### CloudSync, Mirror (with MCCloudSync, CloudSyncProofs)

`cloud_sync_results` (`job`), the cloud's `log_records` (`cloud`), and between them the network: `requests`
not handled by the cloud yet and `answers` whose attempt has not gone on. `Attempt` is the synchronous part of
`attempt()` up to `fetch`, started by `EnqueueForRecord` or `ProcessDueRetry`; `Settle` is the rest of it, with
`SyncedFaults` and `FailedFaults` for the database errors at the two outcomes. `Ingest` is the cloud's handler;
it is atomic, since all it does is one upsert. `FetchRejects` and `AnswerIsLost` are the network's part: a
request whose fetch is given up stays in `requests` and may be handled at any later time or never, and a death
of the process (`Crash`) leaves its requests there too. An error that nothing catches reaches `fatalError`,
which waits for a key in the packaged program and ends the process otherwise; the model has both, as the fault
alone and the fault followed by `Crash`. A record's content never changes; what may differ between two attempts
is the `site_id` of the settings, so that is what a request carries. `sent`, `offline` and `lost` are history.
A database error while a setting is read, before `fetch`, is covered as a request that never arrives.

`Mirror` is the abstract specification: a copy that only grows, and a set of records known to be copied, each
of which was. CloudSync implements it with `copied` the cloud's rows and `known` the SYNCED jobs.

### Accounts (with MCAccounts, AccountsProofs)

`users` and `sessions`. Every handler runs from `attachSession` to its response without a pause, so one action
is one request; only a death of the process (`Dies`) comes between two statements, in `Login`, `DeleteUser` and
`ResetPassword`. A user is known by its login id: rows are never removed, and the id is unique, a deleted user's
too. `session[b]` is the row that browser `b`'s cookie names; no other row is read again. Of a password matters
whether a login has the right one (`Login`) or not (`WrongPassword`). Times are what remains of them - a lock, a
cookie - or the time since `last_seen_at`, and `Tick` is the clock, which does not go back. `failed` stops at the
threshold, which is all the code compares it with. `Start` is what `main` does to the tables
(`ensureBootstrapAdmin`); the bootstrap id is assumed to be normalised, which the code leaves to the
configuration. `Request` stands for every other request: it touches or removes the session's row. `guesses`,
`old` and `cutOff` are history. The CSRF check turns a request away after the session was touched, and is
such a `Request`.

### Startup (with MCStartup, StartupProofs)

`main`, `fatalError` and `runMigrations`, and the launcher. `proc[i]` is a process, in the phase `begin` (nothing read
yet), `migrating`, `listening` (queues started, the port not answered), `up` or `fatal` (waiting for the Enter key).
`main` never pauses before `listen`, but other processes and a death can come between two SQL statements, so one
action is one statement: `ReadApplied`, `ExecStatement` (`exec` commits each statement of a file on its own),
`MarkApplied`; `ExecThrows` and `MarkThrows` are the statements that fail because they were executed before, and
`DatabaseFails` any other error, of which a write by another process is one. `Script` gives each migration a number of
statements and says whether it may run twice: 0001 to 0003 only create what does not exist, 0004 is two ALTER TABLEs.
A process is hidden (a double click: launcher and child), in a console (`NO_TRAY=1`) or started by Node.js, and
`Fatal` differs: the last one exits, the others wait. Nobody can press a key for the hidden one, which ends when
nothing keeps its event loop (`Drain`). The launcher reads its child's output (`ReadOutput`), sees its exit
(`SeeExit`) in either order, or gives up (`TimeOut`); the first verdict counts. The line of output that tells that the
child listens is read whole. `cut`, `met` and `listened` (has the server of the present or last child come up?) are
history.

### Monitor (with MCMonitor, MonitorProofs)

The log's way to a browser. `events` is what the server did to the log, in order; the database is what the first k
events make of it, so the answer to GET /logs is a number k (`AnswerLogs`) until it arrives (`LogsArrive`). A socket
is a place in `events`: what is behind it was delivered, and what is ahead is lost when it ends (`Breaks`,
`ServerDies`, `Leave`). `ws`, `timer` and `stray` are the fields of `RealtimeClient`, `stray` the timers whose number
in `reconnectTimer` has been overwritten; `OnClose` is the close event of any socket, the one the client names or an
older one. `records` is the list on the screen, with one file status per record (TXT and XLSX are updated alike);
`Kept` is the cut to `MAX_DISPLAY`. The server may die after inserting a row and before it tells anybody. `rank` is
the order of `GET /logs` (`occurred_at`, then `daily_sequence`): the wall clock writes `occurred_at`, so a new record
takes any place in it (`Ranked`), the last one unless the clock was set back, and the query takes the last `Limit` of
them by that order (`Rows`), not by insertion. `writing` counts the attempts in flight for a record's file: one may be
taken up for a SAVED or WRITING job too, and its end is told whatever another attempt has made of the job meanwhile.
`missed`, `givenUp` (records a full screen has dropped since its answer came) and `hasty` are history. Limits are
small: `Limit` stands for 200, `MaxDisplay` for 1000; the latter is not 1, for `slice(-0)` would keep every row.

### Settings (with MCSettings, SettingsProofs)

`page[p]` is a screen: the connection settings, the storage settings, or the monitor for its start and stop
buttons. A row has two fields, of which a user types one (`Edit`); typed values are all different. `Opened` asks for
the row, and the form has the program's defaults until the answer; the folder of the storage form is blank, the one
value that validation refuses. `Submit` sends the whole form; `AnswerPut` is the handler, `PutArrives` the answer,
which replaces the form and what was typed meanwhile. Requests are handled and answered in any order, and may fail
or lose their answer (`GetFails`, `PutFails`, `CommandFails`). `Press` begins a restart (stop, then start, each
awaited) or a single command; a screen that is left keeps its requests, and its restart goes on. `running` is what a
save asks the manager, `active` the version of the profile it was started with. Stop and start are one turn each,
as in TcpManager. In `page`, `touched`, `stale`, `crossed`, `raced`, `seen` and `pressed` are history.

## 3. What the runs check

| Run | Question | Instance |
|---|---|---|
| `framer_stream` | is framing exact for every cutting into packets? | every stream of up to 6 bytes over text, CR, LF; a delimiter of two equal bytes; limit 2; every call of the handler may throw |
| `log_two` | numbers with two processes on the file; does the pipeline implement the register? | 2 processes, 2 days, 1 message, 1 request, 2 errors, 2 crashes; refinement |
| `export_mixed` | the export under everything that goes wrong | 2 records, 2 directories, 3 mishaps of any kind |
| `export_live` | does the queue implement the archive, and are failed rows made good? | 2 records, 1 directory, 2 mishaps of any kind; refinement, liveness |
| `tcp_ip` | sessions, stops, reconnects | 2 starts in either mode, 3 sockets, 1 send, 1 crash, 1 statement that throws |
| `cloud_all` | does the cloud queue implement the mirror, and is every record synced in the end? | 2 records, 2 site ids, 4 mishaps of any kind; safety, refinement, liveness |
| `accounts_all` | who may log in and stay logged in, and who is left to administer | 2 login ids, 2 browsers, 2 roles, threshold 2, lock and idle time 2 ticks, 1 death half-way |
| `startup_all` | starting, migrating, failing and watching | 2 processes, 3 starts of any kind, 1 death, a repeatable and an unrepeatable migration; safety, liveness |
| `monitor_all` | does the screen follow the log? | 3 records, 4 events, a snapshot and a screen of 2, a clock set in any way, 2 visits, 3 sockets, 1 break or server death; safety, liveness |
| `settings_all` | forms, saves and restarts of several screens | 2 screens, 2 edits, 2 saves, 2 commands |
| `export_restart`, `tcp_hostname` | two disagreements of section 5 | the smallest instance that shows each |

**framer_stream.** `StreamAccounted`: messages, delimiters, dropped runs and buffer tile the received stream, and the
handler gets the bytes of that place. `NothingOverlooked`: a message ends at the first delimiter behind its start, and
when `push` returns the buffer is within the limit and holds no complete message, whatever an earlier throw left in
it. `ChunkingIndependent`: once `push` has returned and nothing was dropped, the messages equal those of a reference
definition computed from the whole stream, whichever calls of the handler threw. Six bytes are enough for two messages
around an overlapping pair of delimiters and for an oversize run in any position; a delimiter that can overlap itself
is the harder case, and the other kinds are covered by the proofs.

**log_two.** `UniqueNumbers`; `NumbersAccounted` (the numbers given out are those in a row, on their way into one, or
lost to an error or a crash: no other gap); `NumbersFollowArrival` (also when the clock goes back); `RowsPerOperation`
(at most one row of each status for an operation, COMPLETED only if the write succeeded); `JobsAccounted` (a row has
its three jobs, or its call is about to write them, or an error or a crash kept those and no others from being
written; no job is without its row). `ImplementsRegister`: each number is given out once and in turn, and neither a
number, nor a row, nor a job that has ended goes on in another way. Two days and a clock that goes back let one day's
counter be left and taken up again. A message and a request make up to three calls, since a failed request is recorded
twice: two of one process with another's in between. Two errors and two crashes let two numbers be lost, in either
way. Processes and days are interchangeable (symmetry). No liveness is claimed: the program opens the file without a
busy timeout, so with a second process on it a message may be refused.

**export_mixed.** `NoLostRow`: a readable file has exactly the rows of its completed writes - no rewrite of
a workbook works from an old copy. `SavedIsAtTarget`: SAVED means written, and
to the file the job names. `OneAttemptAtATime`: without a retry by hand a job has one attempt in flight.
`DuplicatesAreExcused`: a row appears more than once only for a retry by hand or for a write whose success
the database did not take. `StuckIsExplained`: a WRITING job without an attempt lost it to a crash or to an
error. Two records are needed for two tasks in one chain; three mishaps allow, for example, an error, a
retry and a move of the directory for one job. Records are interchangeable (symmetry); no liveness is
checked under symmetry.

**export_live.** `ImplementsArchive`: no concurrent rewrite, retry, error or crash takes a row away, adds one that is
not owed, mends a broken workbook or withdraws what was saved unasked. `FailedIsMadeGood`: if the file of a format
that the settings name is in the end writable, and readable again and again, every failed job of the format becomes
SAVED, whatever the other format's file does, unless its attempt is lost. Two records keep each other's jobs waiting;
a second directory would make the graph too large for the liveness, and the refinement is proved for any number of
them.

**tcp_ip.** `SessionsAccounted`: while it shows CONNECTED the manager has a session; at another time it has one only
if the UPDATE that was to end that very session threw; the table has no other open session but those a crash cut off.
So no late event of an adapter it has left begins or ends one. `RowsOfTheirSession`: a row names the session of the
socket its data went over, and no other socket shares that session unless its UPDATE threw; only a write whose
callback runs after a stop is recorded without one. `StoppedIsQuiet`. `BreakIsTheReason`: a broken connection's
session says why it ended, unless an UPDATE of it threw. `NeverAbandoned`: a started client has a socket or a timer,
or shows ERROR, and a listening server is free or has a socket that will close - unless the session the client still
has is one whose UPDATE threw, or the session of the server one whose INSERT did. Each exception is needed: without it
TLC finds the case. Two starts give an adapter that has been left and its successor; three sockets give one
connection, one late socket and one more attempt; one throw is enough for each of the four consequences, which a later
report makes up for or not.

**cloud_all.** `ImplementsMirror`: the cloud never loses a record, and a record that is SYNCED here is there.
`AttemptMatchesJob`: a record has one attempt at a time, an answer that comes late settles no later one, and a SYNCING
job without an attempt lost it to a crash or a database error. `TakenUpIsSynced`: if the switch stays on, every record
with a job is SYNCED in the end, unless its attempt is lost. `NewestUnlessLate`: no request that an attempt still
waits for puts an older site id over a newer one; only one that was given up can. Records share no state but the
switch and the site id, so two of them show what one could do to another; four mishaps allow, for one record, a lost
answer, a changed setting, a refused retry and a crash.

**accounts_all.** `AdminRemains`: once the program has started there is an active administrator, whatever
administrators do to each other and to themselves. `SessionsAreCurrent`: a browser's session is of an account that is
not deleted, and was opened with a password no administrator has reset since, unless the process died between the two
statements. `GuessesAreLimited`: between a login, a reset and the end of a lock there are no more wrong passwords than
the threshold. `CookieEndsFirst`: a browser's cookie is gone before `last_seen_at` is too old, so that a session never
ends by being idle (section 5). Two ids and two browsers are two administrators working against each other, and one
user logged in twice; the two roles are the one the rules name and another; with a threshold and times of two, a first
wrong password, the one that locks, the one after a lock and a session at its limit differ. The deaths do not change
`AdminRemains`, since one statement writes it. Browsers are interchangeable (symmetry). A session of a deactivated
user is refused when it is used; if the user is activated again before that, within the idle time, it goes on. No
document says whether it may, and no property does.

**startup_all.** `SchemaAccounted`: no start takes a half-executed migration for applied, and an object without its
migration's mark has a process in the middle of it, or one that ended there. `RestartIsSafe`: a start fails on a
statement executed before only if another process migrated at the same time, or an earlier one ended in the middle of
that migration; after the latter every start fails, as 0004 has no way to run twice. `SuccessIsTrue`: the launcher
reports success only of a child whose server has come to listen (`listened`), so neither its exit nor any other line
counts. `HiddenStartEnds`: a verdict always comes, and a hidden process that fails before its queues run ends by
itself. Two processes and three starts are two that migrate at once and one that comes after both; one death and one
fault per process let a migration be cut between and in the middle of its statements; an unrepeatable migration of two
statements is 0004.

**monitor_all.** `ScreenIsDatabase`: a record is on the screen once, although two sockets may deliver every event and
the answer to GET /logs overlaps them; and when the log is loaded and nothing is on its way, each row shows the state
of its file and the screen has the last records, but for those of which news came without a socket, was lost with one,
came between the query and its answer, or was cleared away: after a reconnection nothing is loaded again. The last
records are those that fewer than `Limit` others are ahead of, by number or by time (`Ahead`): one logged with the
clock set back is behind older ones of a later time, and the answer leaves it out. Where a forgotten socket may be
open (`hasty`), or the clock was set back (`~InTime`), a full screen can also have given up a record for an older one
that came late (`givenUp`); TLC finds both cases. `ForgetsInHaste`: the client loses a socket that is still open only
when the screen was opened again before the close event of an old one. `Reconnects`: while the screen stays open and
the server runs, there is an open socket again. Two visits make one socket of each visit, and a third by the timer;
three records, and a snapshot and a screen of two, make one scroll away from either, and put one anywhere among the
others by its time; four events are enough for a record's file to fail and be retried.

**settings_all.** `FormIsRow`: a form at rest shows the row, unless another screen saved since, or two answers with
the row were on their way at once. `OldProfileIsHinted`: a screen that has saved knows while the connection runs with
older settings, unless the save was handled between a start and its answer, or two answers came in the
wrong order; and after the notice that it has restarted the connection was started with what the screen had saved
when it asked, or newer. `SavesWhatIsTyped`: a save changes only fields that were typed, unless the
form was older than the row or not loaded. Each exception is needed: without it TLC finds the case. Two screens are
two users, or one on two screens; two saves cross; two commands are a start and a restart, or two restarts. Screens
are interchangeable (symmetry).

**Fairness.** `Startup`, `FairSpec`: an empty event loop ends its process and the launcher's events and timer come
(WF); nothing is assumed of the user, of how fast `main` gets on, or of the port. `Monitor`, `FairSpec`: the browser
goes on while a timer is due, a close event waits or a socket connects, and which of them comes first is left open
(one WF for all of them); neither the server's start nor its events are fair. `CloudSync`, `FairSpec`: a delay passes
and the timer takes up a due job, the cloud handles a request somebody still waits for, and an attempt whose fetch has
settled goes on (all WF: nothing else can disable them for good while the switch is on). A request that was given up
has no fairness. `ExportQueue`, `FairSpec`: the thread goes on and a delay passes (WF); tasks of a chain and due
retries are SF, because a ready callback cannot run while the thread is busy, so that it is not continuously enabled,
but Node.js queues it and it gets its turn. Nothing promises that a locked file is let go: `Unlock` has no fairness,
and `FailedIsMadeGood` has it as a hypothesis. The other specifications check safety only and state none.

**Deadlock** is not checked: each bounded instance really ends, when its messages, mishaps or sockets are
used up.

Every property of a passing run has a mutant of the code (`PROJECT.json`, "mutants") under which the same
run finds it violated.

## 4. What is proved

TLAPS proves these for every value of the constants - any delimiter and limit, any number of processes,
days, records, directories, sockets, screens, errors, statements that throw and crashes:

| Theorem | Establishes |
|---|---|
| `TcpProofs!FramerTypeCorrect, StreamIsAccounted, NothingIsOverlooked` | every property of `framer_stream` but the comparison with the reference |
| `TcpProofs!LoopAlwaysProgresses` | each iteration of `push` consumes input |
| `LogPipelineProofs!TypeCorrect, NumbersAreUnique, GapsAreExplained` | unique and accounted numbers |
| `LogPipelineProofs!NumbersKeepOrder` | a process numbers its messages of a day in the order of their arrival |
| `LogPipelineProofs!RowsAreJustified` | one row of each status for an operation, COMPLETED only if it was |
| `LogPipelineProofs!JobsAreAccounted` | every row has its jobs, but for those an error or a crash kept from being written |
| `LogPipelineProofs!ImplementsTheRegister` | refinement: LogPipeline implements Register |
| `ExportQueueProofs!TypeCorrect, NoRowIsLost` | no row of a readable file is lost |
| `ExportQueueProofs!OneAttempt, NoStuckJob, SavedIsWritten, RowsAreExcused` | the other invariants of `export_mixed` |
| `ExportQueueProofs!ImplementsTheArchive` | refinement: ExportQueue implements Archive |
| `ExportQueueProofs!NoDuplicateRow` | a record nobody asked to write again has one row at most, if the database took every success |
| `CloudSyncProofs!TypeCorrect, AttemptsMatch` | the invariant of `cloud_all` |
| `CloudSyncProofs!NewestRemains` | action property: only a request that was given up puts an older value over a newer one |
| `CloudSyncProofs!OfflineStays` | a record logged while the switch is off is never sent, nor when it is switched on |
| `AccountsProofs!TypeCorrect, AdminAlwaysRemains, SessionsStayCurrent, LockLimitsGuesses, CookieIsFirst` | every property of `accounts_all`, for any number of users, browsers and roles |
| `AccountsProofs!RestartIsHarmless` | only the first start creates the bootstrap administrator; later ones change no account, so nothing revives that user with its published password |
| `StartupProofs!TypeCorrect, SchemaIsAccounted, RestartStaysSafe, SuccessStaysTrue` | every invariant of `startup_all`, for any list of migrations and any number of processes, starts and deaths |
| `StartupProofs!QueuesHaveSchema, VerdictStays` | export, cloud synchronisation and server run on a complete schema only; a failure that the launcher shows stays (`docs/native-exe-packaging.md:51-53`) |
| `TcpProofs!TypeCorrect` | types and indices of adapters, sockets and sessions, for either kind of bind address |
| `TcpProofs!SessionsAreAccounted, RowsNameTheirSession, LeftIsQuiet, BreaksAreReported, ClientKeepsTrying` | every property of `tcp_ip`, if the bind address is an IP address, for any number of statements that throw |
| `SettingsProofs!TypeCorrect, FormsShowTheRow, OldProfilesAreHinted, SavesChangeWhatIsTyped` | types, no folder is blank in the database, and every property of `settings_all`, for any number of screens, edits, saves and commands |
| `MonitorProofs!TypeCorrect, ForgetsOnlyInHaste, ScreenMatchesDatabase` | every invariant of `monitor_all`, for any number of sockets, records, events and visits, any snapshot, any screen and any clock |
| `CloudSyncProofs!ImplementsTheMirror` | refinement: CloudSync implements Mirror |

Assumptions are the named ASSUMEs of the modules: in Framer, that a custom delimiter is a non-empty sequence of bytes,
that `DelimiterKind` is one of the four, and that limit and bound are natural numbers, the limit not zero; in
LogPipeline, that requests and messages differ, that `None` is no process, and that the bounds are natural numbers; in
ExportQueue and CloudSync, that `Allowed` contains only the kinds of mishaps and that their bound is a natural number;
in Startup, that the script is a sequence of migrations of at least one statement and the bounds are natural numbers;
in Accounts, that the bootstrap id is a login id, ADMIN a role, and threshold, lock and idle time are natural numbers,
not zero; in TcpManager and Settings, that the bounds are natural numbers, and `SlowLookup` a boolean; in Monitor,
that the snapshot is not empty and not larger than the screen, and the bounds are natural numbers. Nothing else is
assumed, finiteness included.

*Framer.* The inductive invariant is FramerTypeOK, Tiling and ExactContents together: `Deliver` cuts the buffer, and
only Tiling says which place of the stream that is. A throw leaves `scanning` FALSE and none of the three changes.
CutsLeftmost and BufferStaysQuiet build on them, with the lemma that an occurrence of the delimiter in the buffer is
one in the stream and stays one.

*LogPipeline.* `UniqueNumbers` is not inductive: two calls could be on their way with the same number. The
strengthening says who holds the lock (`LockHeld`: the process between Begin and Commit, and no other), that a number
about to be committed is the counter's next (`NextNumber`), and that a number on the way into a row is in no row, lost
to nobody and nobody else's (`PendingIsNew`); with `NumbersAccounted` the next number of a day is then above all that
are in use. It rests on the lock alone. For `JobsAccounted`, two calls on their way from copy to copy have different
rows (`OwnRows`), which follows from unique numbers, and what a call still owes is neither written nor missing
(`OwedIsNew`). `NumbersFollowArrival` needs that what is on its way into a row came after all the rows its process has
written (`OrderInv`), and `RowsPerOperation` which rows an operation can have at each point of its call (`RowsInv`):
one that reports a success finds none, one that reports a failure at most the row of a success. The refinement of
Register needs no more: by `NextNumber`, `Commit` is GiveOut; by `PendingIsNew` the number a call ends (`InsertRow`,
or `Throw` and `Crash` before it) is no other call's, and by `OwnRows` the jobs it ends (`Enqueue`, `EnqueueFails`, or
`Throw` and `Crash` behind the row) are its own, so that nothing else leaves `open` or `owed` with them. The other
steps change nothing of it.

*ExportQueue.* `NoLostRow` needs three more facts: tasks behind the head of a chain have not started
and the rows the head has read are those of all writes completed so far, which is what a second writer would
break (both in `Serial`); and a workbook is changed by its chain only, a TXT file by the thread only
(`TxtOnThread`). Type
correctness needs that a job under way has its row in `file_write_results`, since the outcome is stored into
a row that must be there.

`OneAttemptAtATime`, `StuckIsExplained` and `SavedIsAtTarget` rest on what a task, the thread and a job's row say of
each other (`Single`): while nobody asked for a retry, an attempt under way is the only one of its job and has a
WRITING row that names its file. `WriteDone` then says that the success the thread is about to store was written.
`DuplicatesAreExcused` is a budget (`Budget`): the rows a job has, its attempts waiting in the chains, the one on the
thread if it has not written, and the one that needs nobody to ask for it (of a job without a row in the table, or
FAILED) are together no more than one, the retries by hand and the refused successes. Every step moves one of these to
the next or drops it; that a settled task leaves a chain while the others move up is an injection of the waiting
attempts. `NoDuplicateRow` is the case without an excuse: at most one row, in one file.

The refinement of Archive rests on all of these, and on what a file is while it is written (`FilesFit`): it has the
rows of its completed writes even when it is damaged, a workbook that its chain has open is damaged, and a TXT file
never is. Each action is then one step of the archive or none: a successful `AppendTxtRow` and `FinishWrite` are Add,
which the budget allows since the attempt was still to write; `OpenForWrite` is Open, `WriteBreaks` and `Crash` are
Break; `Save` is Confirm by `WriteDone`, `SaveFaults` is Forget, `RetryNow` is Ask, and `Fail` is Withdraw if the job
was SAVED - by `Single` somebody then asked - and no step otherwise.

*CloudSync.* An answer must belong to an attempt that waits for it, the only one of its record, and a success to a
record the cloud has (`AnswersAreDue`); with `OneAttemptAtATime` the outcome is then stored into the right job and
SYNCED is true (`SyncedIsInCloud`). `FreshIsUntouched` and `NoOfflineRequest` say that a record that was not enqueued,
or was enqueued while the switch was off, has no request that could still make a row. Lemmas on `Attempt`, on the
steps of the network (`NetworkInv`, `ReplyInv`) and on the end of an attempt (`SettledInv`) are shared by the actions.
`NewestUnlessLate` needs that a request carries the site its attempt was sent with, and that a job's attempts are
counted (`SentInv`). For the refinement each step copies one record, learns of one, or changes neither set.

*Accounts.* `AdminRemains` is strengthened to `AdminEver`: an active administrator exists as soon as any user
does, running or not, so that a start finds either one or an empty table; `RestartIsHarmless` follows. The check
of the last administrator is exact: the users that remain active administrators without `u` do so after the
change of `u`. `GuessesFollow` says that the guesses on record are no more than the count, that a lock is held
at the threshold only, and that a user at the threshold without a lock has no guesses left on record.
`SessionsAreCurrent` is inductive with the lemma that a request changes no more of a session than its idle time
(`AttachedTypes`). `CookieEndsFirst` is inductive by itself: what is left
of the cookie and the session's idle time are never more than the limit together.

*Startup.* The strengthening says what a process knows at the point `main` has reached (`Good`): while it migrates,
what it does not have to do is marked, the statements it has behind it are in the schema, and a mark on what it
still has to do was made by a process it has met; from the queues on everything is marked. `Meetings` is that two
which migrate have met, and it is why a statement found executed without a cut is one of a process met
(`ClashIsExplained`). `Heard` gives the launcher's part: a ready line, read or not, is of a child that has listened.
`ProcessStep` and `LauncherStep` reduce each action to the process or the launcher it changes.

*TcpManager.* The five theorems share one invariant (`ManagerInv`). `AdaptersFit` says what the fields of an adapter
say of each other (`Fits`), that the current one is trying, or has a session left over (`Tries`), or was stopped by a
`stop()` that threw, and that every other has nothing left (`Left`). `SocketsFit` says that only the current adapter
has a live socket, that a dying one goes with the session there is, and that a socket without listeners has a session
without a row; `CurrentSocket` (`Joined`) that the socket the adapter names has the session the manager names, knows
its error, and is closed only if the adapter could not hear it. A session that two sockets share is one whose UPDATE
threw (`SharedFits`), and the manager's own is never one that was cut off (`CutOffFits`); `RowFits` says what a row's socket may be.
`handleStatusChange` has four outcomes (it begins a session, ends one, throws at the end of one, or leaves all as it
is), and a lemma for each says what they do to an invariant, so that an action only has to say which ones it can have.
They need `~SlowLookup`: with an IP address `listen` binds in its own turn, so a stop or a start leaves no adapter
that will listen later. With a host name it may leave one, as `tcp_hostname` shows; only `TypeCorrect` is proved for
both.

*Settings.* All of it is about one screen and the row (`Good`, for each screen). `PutsFit` gives the saves of a screen
that had no two answers with the row on their way at most one, after the answer to GET; `FormFits` then says where the
row is on a screen nobody else saved over: in that answer, in the form but for what was typed, and in the save.
`VersionsFit` is that a save answered while the connection was stopped is not newer than the profile started since,
and `HintFits` what the hint is before and after the answer to the start that takes it away. Each part has its own
lemma for each action.

*Monitor.* The log is a list of events in which records are numbered as they come (`LogFits`, with the lemmas on
counting and on the last event of a record), and `rank` gives each a place of its own by its time (`OrderType`): a new
one moves others up and changes the order of no two. `HasteInv` is a budget: sockets the client has forgotten, stray
timers, and those it may still forget on an open page are no more than the visits opened in haste; after a visit there
is one more. So without haste one socket is open and it delivers in order (`OneIsOpen`). `ScreenInv` says that a row
is right or news of it is due (on its way, or missed), and a wanted record is on the screen or due, or was given up in
a `Disorder`: after haste, or with a clock that was set back. The answer to GET /logs leaves out only what a full
answer is ahead of. What makes `ScreenInv` inductive is which row a full screen gives up. With `Disorder`, `givenUp`
has it. Without, order by time is order by number, and the answer is the last `Limit` numbers: the first row is the
oldest while rows are in order, but records that wait for delivery while the snapshot is taken come after it and are
older. `InOrder` says how they lie then: `Plain`, or `Layout(q, m, c)`, q rows left of the answer from number c on and
m older ones behind them; if those are more than there is room for beyond a snapshot, the rows of the answer are still
due. `GivenUp` then counts distinct numbers: what a full screen gives up is not among the last `Limit`, or is due.

Model-checked only: liveness (`FailedIsMadeGood`, `TakenUpIsSynced`, `HiddenStartEnds`, `Reconnects`), which is out of
the provers' reach; `ChunkingIndependent`, whose reference definition is recursive;
and the two runs that expect a violation, whose properties are false.

## 5. Where the code and its documents disagree

The first two are shown by a run that finds the documented property violated.

- `export_restart`: a job that was WRITING when the process died stays so (chapter 12: recovered on restart).
- `tcp_hostname`: with a host name as bind address, a stop during the name's resolution finds no server to
  close; the server listens later, unknown to the manager (chapter 5.1: STOPPED).

The others follow from what the models have, and are named in the exceptions of the properties that hold:

- Framing: after an oversize run is dropped, the bytes up to its delimiter are delivered as a message of their own
  (TCP-04: split exactly). `ChunkingIndependent` therefore asks that nothing was dropped.
- Framing: a message handler that throws ends `push`, and complete messages of the same packet wait for the next one,
  however late it comes (chapter 4.2: receive, check, store); see `NothingOverlooked`.
- Sessions of the connection: a statement on `connection_sessions` that throws has consequences beyond its row. Its
  INSERT leaves an id without a row, and no message of that connection is stored, since each names it; its UPDATE
  leaves a session that the next connection goes on with, so rows of two connections have one session; see
  `SessionsAccounted`, `RowsOfTheirSession`.
- Reconnection: when that UPDATE throws in `scheduleReconnect`, the screen shows RECONNECTING and there is no timer,
  so no attempt follows (chapter 6.4: reconnection by itself); when the INSERT throws in `handleConnection`, the
  server never hears that this socket closed and refuses every other; both last until a stop and a start. See
  `NeverAbandoned`.
- Cloud: the upsert takes what comes last, so a request that was given up and arrives after its retry puts the older
  site id back (`cloud-dashboard/src/index.ts:82`: always the newest value remains); see `NewestUnlessLate`.
- Sessions: the cookies get their life at the login and are not set again, so the browser drops a session 30 minutes
  after the login although it is in use (chapter 14 and `db/migrations/0002_sessions.sql:2`: a session ends by being
  idle, measured by `last_seen_at`); see `CookieEndsFirst`.
- Settings: the second of two users who save overwrites the first one's change and is not told (chapter 12: versions
  and a notice of the conflict); see the exception of `SavesWhatIsTyped`. The answer to a restart takes the hint away
  although a save was handled since (TCP-05, line 170); see `OldProfileIsHinted`.
- Hidden start: `fatalError` is said to end by `process.exit` always (`index.ts:22`), but a hidden process whose
  `listen` fails waits for a key that nobody can press, with its queues running; `HiddenStartEnds` therefore speaks of
  failures before that.
- Monitor: the page is to show the recent records again when one comes back to it (`MonitorPage.tsx:84`), but the
  answer is ordered by the wall clock: after the clock was set back, the newest records are behind up to 200 older
  ones and not in it; see `ScreenIsDatabase`.
- Start: a death in the middle of migration 0004 makes every later start fail; see `RestartIsSafe`.

## 6. What is not modelled

Left out: the read-only and audit APIs, which are single statements; which values of a setting are valid, but for one;
the text of file names, cell formats and escaping; the tray icon and binary, log file, static site, packaging and the
other screens, which hold no state that a later step of another component depends on. On the monitor screen, the
connection state and the form that sends are left out: like the log, the state shown is replaced by the answer to a
start or a stop although a newer event may have come. Within the modelled parts: retry and reconnect delays are
moments rather than lengths, so a reconnect delay above 2^31-1 ms, which `setTimeout` turns into 1 ms
(`settings.ts:26` sets no bound), is not seen; `createFramer` does not throw - it does for a custom delimiter whose
encoding `Buffer` does not know, which `settings.ts:21-23` lets through, and would then leave a server's socket
without listeners (`serverAdapter.ts:59`) and a client's without a report (`clientAdapter.ts:58`) each time; a throw
of `recordLog` is modelled where it matters, in LogPipeline and Framer, and is a missing row in TcpManager; a second
instance of the program is modelled for the numbering and the migrations and not for the export; a directory has one
spelling; the window of a hostname's resolution is modelled in TcpManager and not in Settings.

## 7. Plan

What remains, in the order of importance to the data the program keeps:

1. **Composition**: ExportQueue with two instances of the program on one database and disk, where two rewrites of a
   workbook are no longer serialised.
2. **Monitor**: the connection state on the screen.

Passing runs that ask their question on the same instance are merged as modules are added, so that each
new module has one run for safety and, where it has a liveness property, one for that.
