----------------------------- MODULE ExportQueue -----------------------------
(***************************************************************************)
(* ExportQueue: each log record is appended to a TXT and an XLSX file, as  *)
(* the storage settings say, and file_write_results keeps one job per      *)
(* record and format: WRITING, then SAVED or FAILED, with timed retries of *)
(* the FAILED ones and retries by hand.                                    *)
(*                                                                         *)
(* A TXT attempt runs on the JavaScript thread without a pause.  An XLSX   *)
(* attempt reads the workbook, adds a row and writes the whole file again, *)
(* with an await on both sides; writeQueues lets one such task of a path   *)
(* run at a time.  A crash may come between any two steps.                 *)
(*                                                                         *)
(* The retry delays are abstracted to a moment at which a FAILED job is    *)
(* due; attempt_count only selects the delay and is left out.              *)
(*                                                                         *)
(* A definition named X_Y is X with the plausible bug Y.  No specification *)
(* uses it: it shows which property would notice the bug.                  *)
(***************************************************************************)
EXTENDS Integers, Sequences, FiniteSets

CONSTANTS
  Record,      \* log records
  Root,        \* directories the settings may name (allowedRootPath)
  Allowed,     \* the mishaps that may happen
  MaxMishaps   \* bound: how many of them

\* Retries by hand, changes of the settings, files that become unwritable,
\* database errors and writes that break off, and process deaths.
Mishap == {"retry", "move", "lock", "fault", "crash"}

ASSUME MishapAssumption == Allowed \subseteq Mishap /\ MaxMishaps \in Nat

Format == {"TXT", "XLSX"}
Job == Record \X Format
File == Root \X Format   \* the files of one day
Settings == [root: Root, txt: BOOLEAN, xlsx: BOOLEAN]
Rows == [Record -> Nat]

VARIABLES
  settings,  \* storage_settings
  enqueued,  \* the records enqueueForRecord was called for
  job,       \* file_write_results: status, target_path, next_retry_at is past
  file,      \* on disk: how often each record has a row, and is it readable
  chain,     \* writeQueues: the unsettled tasks of each XLSX file, oldest first
  thread,    \* what the JavaScript thread is in the middle of
  locked,    \* files the operating system refuses to write
  written,   \* history: completed writes of a record to a file
  manual,    \* history: retries by hand of each job
  excused,   \* history: database errors after a completed write, per job
  lost,      \* history: jobs whose attempt was cut off and nobody knows
  used       \* how many mishaps there were

database == <<settings, enqueued, job>>
disk == <<file, locked, written>>
vars == <<database, disk, chain, thread, manual, excused, lost, used>>

NoJob == [status |-> "NONE"]
JobRow == [status: {"WRITING", "SAVED", "FAILED"}, target: File, due: BOOLEAN]

Task == [rec: Record, pc: {"queued", "loaded", "writing"}, rows: Rows]
NoRows == [r \in Record |-> 0]
PlusOne(rows, r) == [rows EXCEPT ![r] = @ + 1]

Idle == [pc |-> "idle"]
Attempt == [pc: {"append", "save", "fail"}, rec: Record, file: File, more: BOOLEAN]
SecondFormat == [pc: {"xlsx"}, rec: Record]

\* buildFilename and path.join: one file per directory, format and day.
TargetOf(fmt) == <<settings.root, fmt>>

Spend(k) ==
  /\ k \in Allowed
  /\ used < MaxMishaps
  /\ used' = used + 1

\* The attempts of job j = <<record, format>> whose write has not settled.
Waiting(j) ==
  {p \in UNION {{f} \X DOMAIN chain[f] : f \in Root \X {j[2]}} :
     chain[p[1]][p[2]].rec = j[1]}

InThread(j, pcs) ==
  thread.pc \in pcs /\ thread.rec = j[1] /\ thread.file[2] = j[2]

InFlight(j) == Waiting(j) # {} \/ InThread(j, {"append", "save", "fail"})

-----------------------------------------------------------------------------

Init ==
  /\ settings \in [root: Root, txt: {TRUE}, xlsx: BOOLEAN]
  /\ enqueued = {}
  /\ job = [j \in Job |-> NoJob]
  /\ file = [f \in File |-> [rows |-> NoRows, damaged |-> FALSE]]
  /\ chain = [f \in File |-> <<>>]
  /\ thread = Idle
  /\ locked = {}
  /\ written = [f \in File |-> NoRows]
  /\ manual = [j \in Job |-> 0]
  /\ excused = [j \in Job |-> 0]
  /\ lost = {}
  /\ used = 0

-----------------------------------------------------------------------------
(* The synchronous part of attempt(): the job row becomes WRITING, and the *)
(* write starts (TXT) or is put at the end of its file's chain (XLSX).     *)

Writing_KeepsTarget(j) ==
  job' = [job EXCEPT ![j] =
            IF @ = NoJob THEN [status |-> "WRITING", target |-> TargetOf(j[2]), due |-> FALSE]
                         ELSE [@ EXCEPT !.status = "WRITING", !.due = FALSE]]
Writing(j) ==
  job' = [job EXCEPT ![j] = [status |-> "WRITING", target |-> TargetOf(j[2]), due |-> FALSE]]

StartTxt(r, more) ==
  /\ Writing(<<r, "TXT">>)
  /\ thread' = [pc |-> "append", rec |-> r, file |-> TargetOf("TXT"), more |-> more]
  /\ UNCHANGED chain

StartXlsx(r) ==
  /\ Writing(<<r, "XLSX">>)
  /\ chain' = [chain EXCEPT ![TargetOf("XLSX")] =
                 Append(@, [rec |-> r, pc |-> "queued", rows |-> NoRows])]
  /\ thread' = Idle

StartAttempt(j) ==
  IF j[2] = "TXT" THEN StartTxt(j[1], FALSE) ELSE StartXlsx(j[1])

\* enqueueForRecord, called once for every record: TXT first, then XLSX.
EnqueueForRecord(r) ==
  /\ thread = Idle
  /\ r \notin enqueued
  /\ enqueued' = enqueued \cup {r}
  /\ CASE settings.txt                   -> StartTxt(r, settings.xlsx)
       [] ~settings.txt /\ settings.xlsx -> StartXlsx(r)
       [] OTHER                          -> UNCHANGED <<job, chain, thread>>
  /\ UNCHANGED <<settings, disk, manual, excused, lost, used>>

\* The second half of enqueueForRecord, after the TXT attempt.
EnqueueXlsx ==
  /\ thread.pc = "xlsx"
  /\ StartXlsx(thread.rec)
  /\ UNCHANGED <<settings, enqueued, disk, manual, excused, lost, used>>

\* processDueRetries: the timer finds a FAILED job whose next_retry_at is past.
IsDue_AnyStatus(j) ==
  \/ job[j].status = "FAILED" /\ job[j].due
  \/ job[j].status = "WRITING"
IsDue_XlsxFirst(j) ==
  /\ job[j].status = "FAILED" /\ job[j].due
  /\ j[2] = "TXT" => \A r \in Record : job[<<r, "XLSX">>].status # "FAILED"
IsDue(j) == job[j].status = "FAILED" /\ job[j].due

ProcessDueRetry(j) ==
  /\ thread = Idle
  /\ IsDue(j)
  /\ StartAttempt(j)
  /\ UNCHANGED <<settings, enqueued, disk, manual, excused, lost, used>>

\* retryNow: any job that exists, whatever its status.
RetryNow(j) ==
  /\ thread = Idle
  /\ job[j] # NoJob
  /\ Spend("retry")
  /\ manual' = [manual EXCEPT ![j] = @ + 1]
  /\ StartAttempt(j)
  /\ UNCHANGED <<settings, enqueued, disk, excused, lost>>

RetryDelayPasses(j) ==
  /\ job[j].status = "FAILED" /\ ~job[j].due
  /\ job' = [job EXCEPT ![j].due = TRUE]
  /\ UNCHANGED <<settings, enqueued, disk, chain, thread, manual, excused, lost, used>>

-----------------------------------------------------------------------------
(* The asynchronous part of attempt(), up to the settled write.            *)

Settle(r, f, pc) ==
  thread' = [pc |-> pc, rec |-> r, file |-> f, more |-> FALSE]

\* appendTxtRow.
AppendTxtRow ==
  /\ thread.pc = "append"
  /\ IF thread.file \in locked
     THEN /\ thread' = [thread EXCEPT !.pc = "fail"]
          /\ UNCHANGED <<file, written>>
     ELSE /\ thread' = [thread EXCEPT !.pc = "save"]
          /\ file' = [file EXCEPT ![thread.file].rows = PlusOne(@, thread.rec)]
          /\ written' = [written EXCEPT ![thread.file] = PlusOne(@, thread.rec)]
  /\ UNCHANGED <<database, locked, chain, manual, excused, lost, used>>

\* enqueue() of xlsxWriter: a task starts when the one before it has settled.
Without(tasks, i) == SubSeq(tasks, 1, i - 1) \o SubSeq(tasks, i + 1, Len(tasks))

Ready_NoChain(f, i) == i \in 1..Len(chain[f])
Ready(f, i) == i = 1 /\ chain[f] # <<>>

\* readFile: the workbook as it is on disk; an unreadable one rejects the task.
LoadWorkbook_Swallows(f, i) ==
  /\ thread = Idle
  /\ Ready(f, i)
  /\ chain[f][i].pc = "queued"
  /\ chain' = IF file[f].damaged
              THEN [chain EXCEPT ![f] = Without(@, i)]
              ELSE [chain EXCEPT ![f][i].pc = "loaded", ![f][i].rows = file[f].rows]
  /\ UNCHANGED <<database, disk, thread, manual, excused, lost, used>>
LoadWorkbook(f, i) ==
  /\ thread = Idle
  /\ Ready(f, i)
  /\ chain[f][i].pc = "queued"
  /\ IF file[f].damaged
     THEN /\ Settle(chain[f][i].rec, f, "fail")
          /\ chain' = [chain EXCEPT ![f] = Without(@, i)]
     ELSE /\ chain' = [chain EXCEPT ![f][i].pc = "loaded", ![f][i].rows = file[f].rows]
          /\ UNCHANGED thread
  /\ UNCHANGED <<database, disk, manual, excused, lost, used>>

\* writeFile opens the file, which empties it; or the file is locked.
OpenForWrite(f, i) ==
  /\ thread = Idle
  /\ Ready(f, i)
  /\ chain[f][i].pc = "loaded"
  /\ IF f \in locked
     THEN /\ Settle(chain[f][i].rec, f, "fail")
          /\ chain' = [chain EXCEPT ![f] = Without(@, i)]
          /\ UNCHANGED file
     ELSE /\ chain' = [chain EXCEPT ![f][i].pc = "writing"]
          /\ file' = [file EXCEPT ![f].damaged = TRUE]
          /\ UNCHANGED thread
  /\ UNCHANGED <<database, locked, written, manual, excused, lost, used>>

\* writeFile resolves: the file holds the rows read before and the new one.
FinishWrite(f, i) ==
  /\ thread = Idle
  /\ Ready(f, i)
  /\ chain[f][i].pc = "writing"
  /\ file' = [file EXCEPT ![f] = [rows |-> PlusOne(chain[f][i].rows, chain[f][i].rec),
                                  damaged |-> FALSE]]
  /\ written' = [written EXCEPT ![f] = PlusOne(@, chain[f][i].rec)]
  /\ Settle(chain[f][i].rec, f, "save")
  /\ chain' = [chain EXCEPT ![f] = Without(@, i)]
  /\ UNCHANGED <<database, locked, manual, excused, lost, used>>

\* writeFile rejects half-way (disk full, share gone): the file stays damaged.
WriteBreaks(f, i) ==
  /\ thread = Idle
  /\ Ready(f, i)
  /\ chain[f][i].pc = "writing"
  /\ Spend("fault")
  /\ Settle(chain[f][i].rec, f, "fail")
  /\ chain' = [chain EXCEPT ![f] = Without(@, i)]
  /\ UNCHANGED <<database, disk, manual, excused, lost>>

-----------------------------------------------------------------------------
(* The end of attempt(): the outcome is stored; enqueueForRecord goes on.  *)

GoOn ==
  thread' = IF thread.more THEN [pc |-> "xlsx", rec |-> thread.rec] ELSE Idle

Current == <<thread.rec, thread.file[2]>>

Save ==
  /\ thread.pc = "save"
  /\ job' = [job EXCEPT ![Current] = [@ EXCEPT !.status = "SAVED", !.due = FALSE]]
  /\ GoOn
  /\ UNCHANGED <<settings, enqueued, disk, chain, manual, excused, lost, used>>

\* The UPDATE to SAVED throws: the catch block takes the write for failed.
SaveFaults ==
  /\ thread.pc = "save"
  /\ Spend("fault")
  /\ thread' = [thread EXCEPT !.pc = "fail"]
  /\ excused' = [excused EXCEPT ![Current] = @ + 1]
  /\ UNCHANGED <<database, disk, chain, manual, lost>>

Fail ==
  /\ thread.pc = "fail"
  /\ job' = [job EXCEPT ![Current] = [@ EXCEPT !.status = "FAILED", !.due = FALSE]]
  /\ GoOn
  /\ UNCHANGED <<settings, enqueued, disk, chain, manual, excused, lost, used>>

\* The UPDATE to FAILED throws too: an unhandled rejection.  fatalError ends
\* the process (Crash), or the packaged program runs on behind its prompt.
FailFaults ==
  /\ thread.pc = "fail"
  /\ Spend("fault")
  /\ lost' = lost \cup {Current}
  /\ GoOn
  /\ UNCHANGED <<database, disk, chain, manual, excused>>

-----------------------------------------------------------------------------
(* The surroundings: settings, other programs, process deaths.             *)

\* saveStorageSettings, from PUT /settings/storage.
SaveStorageSettings ==
  /\ thread = Idle
  /\ Spend("move")
  /\ settings' \in Settings \ {settings}
  /\ UNCHANGED <<enqueued, job, disk, chain, thread, manual, excused, lost>>

\* Another program opens a file, or its share goes away; and lets go again.
Lock(f) ==
  /\ thread = Idle
  /\ f \notin locked
  /\ Spend("lock")
  /\ locked' = locked \cup {f}
  /\ UNCHANGED <<database, file, written, chain, thread, manual, excused, lost>>

Unlock(f) ==
  /\ thread = Idle
  /\ f \in locked
  /\ locked' = locked \ {f}
  /\ UNCHANGED <<database, file, written, chain, thread, manual, excused, lost, used>>

\* The process dies and is started again: start() only sets the timer, and
\* nothing looks at the jobs that were WRITING.
Crash ==
  /\ Spend("crash")
  /\ chain' = [f \in File |-> <<>>]
  /\ thread' = Idle
  /\ lost' = lost \cup {j \in Job :
                 \/ InFlight(j)
                 \/ thread.pc = "xlsx" /\ j = <<thread.rec, "XLSX">>
                 \/ thread.pc \in {"append", "save", "fail"} /\ thread.more
                      /\ j = <<thread.rec, "XLSX">>}
  /\ UNCHANGED <<database, disk, manual, excused>>

-----------------------------------------------------------------------------

ThreadStep == AppendTxtRow \/ Save \/ Fail \/ EnqueueXlsx

ChainStep(f) ==
  \E i \in DOMAIN chain[f] :
    LoadWorkbook(f, i) \/ OpenForWrite(f, i) \/ FinishWrite(f, i)

Next ==
  \/ \E r \in Record : EnqueueForRecord(r)
  \/ \E j \in Job : ProcessDueRetry(j)
  \/ \E j \in Job : RetryNow(j)
  \/ \E j \in Job : RetryDelayPasses(j)
  \/ AppendTxtRow
  \/ EnqueueXlsx
  \/ \E f \in File : \E i \in DOMAIN chain[f] : LoadWorkbook(f, i)
  \/ \E f \in File : \E i \in DOMAIN chain[f] : OpenForWrite(f, i)
  \/ \E f \in File : \E i \in DOMAIN chain[f] : FinishWrite(f, i)
  \/ \E f \in File : \E i \in DOMAIN chain[f] : WriteBreaks(f, i)
  \/ Save
  \/ SaveFaults
  \/ Fail
  \/ FailFaults
  \/ SaveStorageSettings
  \/ \E f \in File : Lock(f)
  \/ \E f \in File : Unlock(f)
  \/ Crash

\* The event loop runs on, I/O completes, clocks and setInterval advance.
\* A callback that is ready waits while the thread is busy but gets its turn
\* (SF).  Nobody promises that a locked file is let go.
Fairness ==
  /\ WF_vars(ThreadStep)
  /\ \A f \in File : SF_vars(ChainStep(f))
  /\ \A j \in Job : WF_vars(RetryDelayPasses(j)) /\ SF_vars(ProcessDueRetry(j))

Spec == Init /\ [][Next]_vars
FairSpec == Spec /\ Fairness

-----------------------------------------------------------------------------

\* Every variable holds what the code can put there; of the five statuses of
\* the schema, PENDING and DISABLED are never stored.
TypeOK ==
  /\ settings \in Settings
  /\ enqueued \subseteq Record
  /\ job \in [Job -> JobRow \cup {NoJob}]
  /\ file \in [File -> [rows: Rows, damaged: BOOLEAN]]
  /\ chain \in [File -> Seq(Task)]
  /\ thread \in Attempt \cup SecondFormat \cup {Idle}
  /\ locked \subseteq File
  /\ written \in [File -> Rows]
  /\ manual \in [Job -> Nat]
  /\ excused \in [Job -> Nat]
  /\ lost \subseteq Job
  /\ used \in Nat

\* "Writes of one file are serialised" (xlsxWriter.ts:17): a readable file has
\* exactly the rows of the completed writes; no rewrite of the workbook drops
\* a row that another attempt added between its read and its write.
NoLostRow == \A f \in File : ~file[f].damaged => file[f].rows = written[f]

\* A record shown as SAVED was written to some file of its format; without a
\* retry by hand to the one that target_path names, however often the settings
\* moved between the attempts.
SavedIsAtTarget ==
  \A j \in Job : job[j].status = "SAVED" =>
    /\ \E f \in File : f[2] = j[2] /\ written[f][j[1]] > 0
    /\ manual[j] = 0 => job[j].target[2] = j[2] /\ written[job[j].target][j[1]] > 0

\* A job shown as WRITING is being written, or its process died, or the
\* database refused to store its outcome.
StuckIsExplained ==
  \A j \in Job : job[j].status = "WRITING" => InFlight(j) \/ j \in lost

\* A record is enqueued once, and while an attempt is under way no timer starts
\* another: only a retry by hand puts two attempts of a job in flight.
OneAttemptAtATime ==
  \A j \in Job : manual[j] = 0 =>
    Cardinality(Waiting(j)) + (IF InThread(j, {"append", "save", "fail"}) THEN 1 ELSE 0) <= 1

\* The writes of a job's record, numbered in each file of its format.
RowsOf(j) == UNION {{f} \X (1..written[f][j[1]]) : f \in Root \X {j[2]}}

\* A record is written once for each format, over all directories, but for the
\* retries by hand and for the writes whose success the database did not take.
DuplicatesAreExcused ==
  \A j \in Job : Cardinality(RowsOf(j)) <= 1 + manual[j] + excused[j]

\* The attempts of the queue implement an archive to which rows are added one
\* by one: no concurrent rewrite, retry, error or crash takes a row away, adds one
\* that is not owed, mends a broken workbook or withdraws what was saved unasked.
OnDisk == [f \in File |-> file[f].rows]
WriteOpen(f) == chain[f] # <<>> /\ chain[f][1].pc = "writing"
State ==
  [f \in File |->
     IF WriteOpen(f) THEN "open" ELSE IF file[f].damaged THEN "broken" ELSE "whole"]
Owed == [j \in Job |-> 1 + manual[j] + excused[j] - Cardinality(RowsOf(j))]
Saved == {j \in Job : job[j].status = "SAVED"}
Asked == {j \in Job : manual[j] > 0}
A == INSTANCE Archive WITH
  rows <- OnDisk, state <- State, owed <- Owed, saved <- Saved, asked <- Asked
ImplementsArchive == A!Spec
=============================================================================
