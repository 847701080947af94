----------------------------- MODULE LogPipeline -----------------------------
(***************************************************************************)
(* How a message becomes a numbered row of log_records: TcpManager's       *)
(* recordLog with issueDailySequence, called for every received message    *)
(* and, with the outcome of the write, for every send request, and how the *)
(* row gets its jobs in the queues of the copies: TXT, XLSX and the cloud. *)
(*                                                                         *)
(* A process runs recordLog on its one JavaScript thread without a pause,  *)
(* so its steps interleave only with a crash, with the calendar and with   *)
(* the other connections to the database file.  node:sqlite is opened with *)
(* no busy timeout: a statement that needs the write lock while another    *)
(* connection has it throws at once.                                       *)
(*                                                                         *)
(* A definition named X_Y is X with the plausible bug Y.  No specification *)
(* uses it: it shows which property would notice the bug.                  *)
(***************************************************************************)
EXTENDS Integers, Sequences, FiniteSets

CONSTANTS
  Process,    \* processes with a connection to the database file
  Date,       \* calendar days
  Received,   \* messages the framers deliver
  Request,    \* texts posted to /api/connection/send
  None,       \* nobody holds the write lock
  MaxFaults,  \* bound: database errors other than a busy lock
  MaxCrashes  \* bound: process deaths

ASSUME OpsAssumption == Received \cap Request = {}
ASSUME NoneAssumption == None \notin Process
ASSUME BoundAssumption == MaxFaults \in Nat /\ MaxCrashes \in Nat

VARIABLES
  today,    \* the day currentDateInTimezone returns
  counter,  \* daily_sequences: the last number of each day, 0 without a row
  log,      \* log_records in the order of insertion
  lock,     \* the process inside BEGIN IMMEDIATE ... COMMIT
  thread,   \* the recordLog call each process is executing
  waiting,  \* <<p, t>>: request t awaits adapter.send in process p
  used,     \* history: the messages and requests taken up
  sent,     \* history: the requests whose write succeeded
  skipped,  \* history: numbers whose row was lost to an error or a crash
  jobs,     \* the rows of file_write_results and cloud_sync_results: <<number, copy>>
  missing,  \* history: jobs that an error or a crash kept from being written
  faults,
  crashes

vars == <<today, counter, log, lock, thread, waiting, used, sent, skipped, jobs, missing, faults, crashes>>
history == <<used, sent, faults, crashes>>

Op == Received \cup Request
Status == {"COMPLETED", "FAILED"}
Idle == [pc |-> "idle"]
Copy == {"txt", "xlsx", "cloud"}
Phase == {"begin", "issue", "commit", "insert"} \cup Copy

Call == [pc: Phase, op: Op, status: Status, date: Date, seq: Nat]
Row  == [op: Op, status: Status, date: Date, seq: Nat, by: Process]
Number(call) == <<call.date, call.seq>>

\* The numbers that are in a row, and those on the way into one.
Logged == {<<log[i].date, log[i].seq>> : i \in 1..Len(log)}
Pending == {<<thread[p].date, thread[p].seq>> :
              p \in {q \in Process : thread[q].pc = "insert"}}

\* The jobs that the call of process p has still to write for its row.
Ahead == [txt |-> Copy, xlsx |-> {"xlsx", "cloud"}, cloud |-> {"cloud"}]
Owed(p) ==
  IF thread[p].pc \in DOMAIN Ahead THEN {Number(thread[p])} \X Ahead[thread[p].pc] ELSE {}

-----------------------------------------------------------------------------

Init ==
  /\ today \in Date
  /\ counter = [d \in Date |-> 0]
  /\ log = <<>>
  /\ lock = None
  /\ thread = [p \in Process |-> Idle]
  /\ waiting = {}
  /\ used = {}
  /\ sent = {}
  /\ skipped = {} /\ jobs = {} /\ missing = {}
  /\ faults = 0
  /\ crashes = 0

\* Entering recordLog.  The date is read when the call starts.
NewCall(op, status) ==
  [pc |-> "begin", op |-> op, status |-> status, date |-> today, seq |-> 0]

\* handleMessage: a framer of process p has delivered m.
HandleMessage(p, m) ==
  /\ thread[p] = Idle
  /\ m \notin used
  /\ used' = used \cup {m}
  /\ thread' = [thread EXCEPT ![p] = NewCall(m, "COMPLETED")]
  /\ UNCHANGED <<today, counter, log, lock, waiting, sent, skipped, jobs, missing, faults, crashes>>

\* send: the request passes the not_started check and awaits the adapter.
Send(p, t) ==
  /\ thread[p] = Idle
  /\ t \notin used
  /\ used' = used \cup {t}
  /\ waiting' = waiting \cup {<<p, t>>}
  /\ UNCHANGED <<today, counter, log, lock, thread, sent, skipped, jobs, missing, faults, crashes>>

\* The write callback: recordLog in the try block, or in the catch block.
SendSettled(p, t) ==
  /\ thread[p] = Idle
  /\ <<p, t>> \in waiting
  /\ waiting' = waiting \ {<<p, t>>}
  /\ \/ /\ sent' = sent \cup {t}
        /\ thread' = [thread EXCEPT ![p] = NewCall(t, "COMPLETED")]
     \/ /\ sent' = sent
        /\ thread' = [thread EXCEPT ![p] = NewCall(t, "FAILED")]
  /\ UNCHANGED <<today, counter, log, lock, used, skipped, jobs, missing, faults, crashes>>

\* BEGIN IMMEDIATE takes the write lock.
Begin_Deferred(p) ==
  /\ thread[p].pc = "begin"
  /\ thread' = [thread EXCEPT ![p].pc = "issue"]
  /\ UNCHANGED <<today, counter, log, lock, waiting, skipped, jobs, missing, history>>

Begin(p) ==
  /\ thread[p].pc = "begin"
  /\ lock = None
  /\ lock' = p
  /\ thread' = [thread EXCEPT ![p].pc = "issue"]
  /\ UNCHANGED <<today, counter, log, waiting, skipped, jobs, missing, history>>

\* The upsert and the SELECT inside the transaction.

Issue(p) ==
  /\ thread[p].pc = "issue"
  /\ thread' = [thread EXCEPT ![p].pc = "commit", ![p].seq = counter[thread[p].date] + 1]
  /\ UNCHANGED <<today, counter, log, lock, waiting, skipped, jobs, missing, history>>

\* COMMIT publishes the counter and frees the lock.
Commit_Today(p) ==
  /\ thread[p].pc = "commit"
  /\ counter' = [counter EXCEPT ![today] = thread[p].seq]
  /\ lock' = None
  /\ thread' = [thread EXCEPT ![p].pc = "insert"]
  /\ UNCHANGED <<today, log, waiting, skipped, jobs, missing, history>>

Commit(p) ==
  /\ thread[p].pc = "commit"
  /\ counter' = [counter EXCEPT ![thread[p].date] = thread[p].seq]
  /\ lock' = None
  /\ thread' = [thread EXCEPT ![p].pc = "insert"]
  /\ UNCHANGED <<today, log, waiting, skipped, jobs, missing, history>>

\* INSERT INTO log_records, a transaction of its own.  The UNIQUE constraints
\* of the table are left out: UniqueNumbers says that no insert needs them.
InsertRow(p) ==
  /\ thread[p].pc = "insert"
  /\ lock = None
  /\ log' = Append(log, [op |-> thread[p].op, status |-> thread[p].status,
                         date |-> thread[p].date, seq |-> thread[p].seq, by |-> p])
  /\ thread' = [thread EXCEPT ![p].pc = "txt"]
  /\ UNCHANGED <<today, counter, lock, waiting, skipped, jobs, missing, history>>

\* The call goes on with the next copy, or recordLog returns.  Both file formats
\* and the cloud are switched on.
Following(p) ==
  CASE thread[p].pc = "txt"   -> [thread[p] EXCEPT !.pc = "xlsx"]
    [] thread[p].pc = "xlsx"  -> [thread[p] EXCEPT !.pc = "cloud"]
    [] thread[p].pc = "cloud" -> Idle

\* attempt of either queue, up to the INSERT of its job.
Enqueue(p) ==
  /\ thread[p].pc \in Copy
  /\ lock = None
  /\ jobs' = jobs \cup {<<Number(thread[p]), thread[p].pc>>}
  /\ thread' = [thread EXCEPT ![p] = Following(p)]
  /\ UNCHANGED <<today, counter, log, lock, waiting, skipped, missing, history>>

\* What follows when recordLog throws.  In the try block of send the catch block
\* records the request again, as FAILED.  Anywhere else the exception reaches
\* the process's last handler, which may end the process (Crash) or, in the
\* packaged executable, only waits for a key.
AfterThrow_Always(call) ==
  IF call.status = "COMPLETED" THEN NewCall(call.op, "FAILED") ELSE Idle

AfterThrow(call) ==
  IF call.op \in Request /\ call.status = "COMPLETED"
  THEN NewCall(call.op, "FAILED")
  ELSE Idle

Abandoned(p) ==
  IF thread[p].pc = "insert" THEN {<<thread[p].date, thread[p].seq>>} ELSE {}

\* The INSERT of a job throws: the promise of attempt is rejected, for which
\* nobody waits, and the call goes on.
Unnoticed_Thrown(p) == AfterThrow(thread[p])
Unnoticed(p) == Following(p)
EnqueueFails(p) ==
  /\ thread[p].pc \in Copy
  /\ \/ lock # None /\ faults' = faults
     \/ faults < MaxFaults /\ faults' = faults + 1
  /\ missing' = missing \cup {<<Number(thread[p]), thread[p].pc>>}
  /\ thread' = [thread EXCEPT ![p] = Unnoticed(p)]
  /\ UNCHANGED <<today, counter, log, lock, waiting, skipped, jobs, used, sent, crashes>>

\* A statement of recordLog throws: the lock is somebody else's, or the database
\* fails (a bounded number of times).  The transaction is rolled back.  After the
\* row recordLog only starts attempt, which throws nothing; what throws there is
\* the reading of the storage settings, or of the cloud's switch.
Throw(p) ==
  /\ thread[p].pc \in Phase \ {"xlsx"}
  /\ \/ /\ thread[p].pc \in {"begin", "insert"}
        /\ lock # None
        /\ faults' = faults
     \/ /\ faults < MaxFaults
        /\ faults' = faults + 1
  /\ lock' = IF lock = p THEN None ELSE lock
  /\ skipped' = skipped \cup Abandoned(p)
  /\ missing' = missing \cup Owed(p)
  /\ thread' = [thread EXCEPT ![p] = AfterThrow(thread[p])]
  /\ UNCHANGED <<today, counter, log, jobs, waiting, used, sent, crashes>>

\* The process dies and is started again; SQLite drops its open transaction.
Crash(p) ==
  /\ crashes < MaxCrashes
  /\ crashes' = crashes + 1
  /\ lock' = IF lock = p THEN None ELSE lock
  /\ skipped' = skipped \cup Abandoned(p)
  /\ missing' = missing \cup Owed(p)
  /\ thread' = [thread EXCEPT ![p] = Idle]
  /\ waiting' = {w \in waiting : w[1] # p}
  /\ UNCHANGED <<today, counter, log, jobs, used, sent, faults>>

SetClock_Restarts(d) ==
  /\ today' = d
  /\ counter' = [counter EXCEPT ![d] = 0]
  /\ UNCHANGED <<log, lock, thread, waiting, skipped, jobs, missing, history>>

\* Midnight, or a correction of the system clock, which may go back.
SetClock(d) ==
  /\ today' = d
  /\ UNCHANGED <<counter, log, lock, thread, waiting, skipped, jobs, missing, history>>

Step(p) == Begin(p) \/ Issue(p) \/ Commit(p) \/ InsertRow(p)
           \/ Enqueue(p) \/ EnqueueFails(p) \/ Throw(p)

Next ==
  \/ \E p \in Process :
       \/ \E m \in Received : HandleMessage(p, m)
       \/ \E t \in Request : Send(p, t) \/ SendSettled(p, t)
       \/ Step(p)
       \/ Crash(p)
  \/ \E d \in Date : SetClock(d)

Spec == Init /\ [][Next]_vars

-----------------------------------------------------------------------------

\* Every variable has its type.
TypeOK ==
  /\ today \in Date
  /\ counter \in [Date -> Nat]
  /\ log \in Seq(Row)
  /\ lock \in Process \cup {None}
  /\ thread \in [Process -> Call \cup {Idle}]
  /\ waiting \subseteq Process \X Request
  /\ used \subseteq Op
  /\ sent \subseteq Request
  /\ skipped \subseteq Date \X Nat
  /\ jobs \subseteq (Date \X Nat) \X Copy
  /\ missing \subseteq (Date \X Nat) \X Copy
  /\ faults \in Nat
  /\ crashes \in Nat

\* No two rows have the same day and number, with any number of processes on
\* the file, clock corrections, errors and crashes (spec LOG-01 and 10.3).
UniqueNumbers ==
  \A i, j \in 1..Len(log) :
    log[i].date = log[j].date /\ log[i].seq = log[j].seq => i = j

\* The numbers a day's counter has given out are exactly those in a row, on their
\* way into one, or lost to an error or a crash after their COMMIT: no row has a
\* number the counter does not cover, and nothing else leaves a gap.
NumbersAccounted ==
  \A d \in Date :
    {x \in Logged \cup Pending \cup skipped : x[1] = d} = {d} \X (1..counter[d])

\* A row has its jobs, or its call is about to write them, or an error or a crash
\* kept those and no others from being written: what befalls one copy costs no
\* other, and no job is without its row.  Nothing writes a missing job later.
JobsAccounted ==
  /\ jobs \cup missing \cup UNION {Owed(p) : p \in Process} = Logged \X Copy
  /\ jobs \cap missing = {}

\* The rows one process writes on one day are numbered in the order in which it
\* took up their messages, also when the clock was set back in between.
NumbersFollowArrival ==
  \A i, j \in 1..Len(log) :
    i < j /\ log[i].by = log[j].by /\ log[i].date = log[j].date
      => log[i].seq < log[j].seq

RowsOf(op) == {i \in 1..Len(log) : log[i].op = op}

\* A received message is logged at most once and never as FAILED.  A request may
\* have a COMPLETED row only if its write succeeded, and at most one row of each
\* status, the COMPLETED one first.
RowsPerOperation ==
  /\ \A m \in Received :
       Cardinality(RowsOf(m)) <= 1 /\ \A i \in RowsOf(m) : log[i].status = "COMPLETED"
  /\ \A t \in Request : \A i \in RowsOf(t) :
       /\ log[i].status = "COMPLETED" => t \in sent
       /\ \A j \in RowsOf(t) : i < j => log[i].status = "COMPLETED" /\ log[j].status = "FAILED"

\* recordLog implements a register: whatever interleaving, error or crash, a
\* number is given out once and ends in one row or nowhere, and a row that lost a
\* job never gets it back.
Entered == [i \in 1..Len(log) |-> Number(log[i])]
Promised == UNION {Owed(p) : p \in Process}
R == INSTANCE Register WITH
  given <- counter, open <- Pending, rows <- Entered, lost <- skipped, owed <- Promised
ImplementsRegister == R!Spec
=============================================================================
