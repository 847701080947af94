-------------------------------- MODULE Startup --------------------------------
(***************************************************************************)
(* How the program starts: main and fatalError of index.ts, runMigrations, *)
(* and the launcher of tray/hiddenLauncher.ts that watches a hidden child. *)
(*                                                                         *)
(* main runs without a pause up to listen, but another process may come    *)
(* between two of its SQL statements, and the process may die there: one   *)
(* action is one statement.  A process is started hidden (a double click:  *)
(* a launcher and its child), in a console (NO_TRAY=1), or by Node.js      *)
(* ("dev").  fatalError ends only the last at once; the others ask for the *)
(* Enter key, and a hidden process has nobody to press it.                 *)
(*                                                                         *)
(* A definition named X_Y is X with the plausible bug Y.  No specification *)
(* uses it: it shows which property would notice the bug.                  *)
(***************************************************************************)
EXTENDS Integers, Sequences, FiniteSetsExt

CONSTANTS
  Instance,     \* processes that can run at the same time
  Script,       \* the migrations in the order of their names: how many statements
                \* each has, and may it run twice (CREATE ... IF NOT EXISTS)?
  MaxStarts,    \* bound: starts of the program
  MaxKills      \* bound: deaths of a process, at any statement

ASSUME StartupAssumption ==
  /\ Script \in Seq([statements: Nat \ {0}, repeatable: BOOLEAN])
  /\ MaxStarts \in Nat /\ MaxKills \in Nat

VARIABLES
  marked,    \* schema_migrations
  schema,    \* the tables and columns that exist: <<migration, statement>>
  proc,      \* the processes
  launcher,  \* the launcher of each hidden process, and the output it has not read
  cut,       \* history: migrations a process left half done
  listened,  \* history: is the server of the present or the last start up, or was it?
  starts, kills

vars == <<marked, schema, proc, launcher, cut, listened, starts, kills>>

Migration == DOMAIN Script
Objects(m) == {m} \X (1..Script[m].statements)

\* todo: the migrations found not applied, the done ones removed; stmt: the next
\* statement of the first of them; why: what fatalError was called for (a
\* statement executed before, any other error, the port); queues: do exportQueue
\* and cloudSync have their timers; serving: does it hold the port; met (history):
\* did another process migrate at the same time?
Process ==
  [phase: {"off", "begin", "migrating", "listening", "up", "fatal"},
   kind: {"hidden", "console", "dev"},
   todo: SUBSET Migration, stmt: Nat \ {0},
   why: {"none", "again", "fault", "port"},
   queues: BOOLEAN, serving: BOOLEAN, met: BOOLEAN]
New(kind) == [phase |-> "begin", kind |-> kind, todo |-> {}, stmt |-> 1, why |-> "none",
              queues |-> FALSE, serving |-> FALSE, met |-> FALSE]
Exited(p) == [p EXCEPT !.phase = "off", !.queues = FALSE, !.serving = FALSE]
Off == Exited(New("dev"))

Launcher == [state: {"none", "watching", "success", "failed"}, unread: SUBSET {"text", "ready"}]
Watching == [state |-> "watching", unread |-> {}]
NoLauncher == [state |-> "none", unread |-> {}]

Migrating(i) == proc[i].phase = "migrating"
At(i) == Min(proc[i].todo)
AtObject(i) == <<At(i), proc[i].stmt>>

Init ==
  /\ marked = {} /\ schema = {} /\ cut = {} /\ listened = {}
  /\ proc = [i \in Instance |-> Off]
  /\ launcher = [i \in Instance |-> NoLauncher]
  /\ starts = 0 /\ kills = 0

-----------------------------------------------------------------------------
(* How a process starts and ends.                                          *)

CanStart(i) ==
  /\ proc[i].phase = "off" /\ launcher[i].state \in {"none", "success"}
  /\ starts < MaxStarts /\ starts' = starts + 1

Start(i, kind) ==
  /\ CanStart(i)
  /\ proc' = [proc EXCEPT ![i] = New(kind)]
  /\ launcher' = [launcher EXCEPT ![i] = IF kind = "hidden" THEN Watching ELSE NoLauncher]
  /\ listened' = listened \ {i}
  /\ UNCHANGED <<marked, schema, cut, kills>>

\* The operating system does not let the launcher create its child.
SpawnFails(i) ==
  /\ CanStart(i)
  /\ launcher' = [launcher EXCEPT ![i].state = "failed"]
  /\ UNCHANGED <<marked, schema, proc, cut, listened, kills>>

\* The process ends, or goes into fatalError, in the middle of a migration that is
\* not marked yet.
CutAt(i) ==
  IF Migrating(i) /\ proc[i].todo # {} /\ proc[i].stmt > 1 THEN {At(i)} \ marked ELSE {}

\* fatalError: queues and server of a process that asks for the Enter key go on.
Fatal(i, reason) ==
  /\ LET told == [proc[i] EXCEPT !.why = reason]
     IN proc' = [proc EXCEPT ![i] = IF @.kind = "dev" THEN Exited(told)
                                    ELSE [told EXCEPT !.phase = "fatal"]]
  /\ cut' = cut \cup CutAt(i)
  /\ UNCHANGED <<marked, schema, launcher, listened, starts, kills>>

Ends(i) ==
  /\ proc' = [proc EXCEPT ![i] = Off]
  /\ UNCHANGED <<marked, schema, launcher, listened, starts>>

\* The Enter key, or the end of the console.
PressEnter(i) ==
  /\ proc[i].kind = "console" /\ proc[i].phase = "fatal"
  /\ Ends(i) /\ UNCHANGED <<cut, kills>>

\* The input of a hidden process is at its end: its question is never answered.
\* It ends when nothing keeps its event loop, which the timers of the queues do.
Drain(i) ==
  /\ proc[i].kind = "hidden" /\ proc[i].phase = "fatal"
  /\ ~proc[i].queues /\ ~proc[i].serving
  /\ Ends(i) /\ UNCHANGED <<cut, kills>>

\* "Quit" in the tray menu, or Ctrl-C.
Quit(i) == proc[i].serving /\ Ends(i) /\ UNCHANGED <<cut, kills>>

Kill(i) ==
  /\ proc[i].phase # "off" /\ kills < MaxKills /\ kills' = kills + 1
  /\ Ends(i) /\ cut' = cut \cup CutAt(i)

-----------------------------------------------------------------------------
(* main.                                                                   *)

\* A line of output, which nobody but a launcher reads.
Says(i, line) ==
  launcher' = [launcher EXCEPT ![i].unread =
                 IF launcher[i].state \in {"watching", "failed"} THEN @ \cup {line} ELSE @]

Unapplied_All == Migration
Unapplied == Migration \ marked

\* runMigrations reads schema_migrations, once.
BeginsMigrating_QueuesFirst(i) ==
  [proc EXCEPT ![i].phase = "migrating", ![i].todo = Unapplied, ![i].queues = TRUE]
BeginsMigrating(i) ==
  [j \in Instance |->
     IF j = i THEN [proc[i] EXCEPT !.phase = "migrating", !.todo = Unapplied,
                                   !.met = \E k \in Instance : Migrating(k)]
     ELSE [proc[j] EXCEPT !.met = @ \/ Migrating(j)]]
ReadApplied(i) ==
  /\ proc[i].phase = "begin"
  /\ proc' = BeginsMigrating(i)
  /\ Says(i, "text")
  /\ UNCHANGED <<marked, schema, cut, listened, starts, kills>>

MoreStatements_OneTooFew(i) == proc[i].stmt < Script[At(i)].statements
MoreStatements(i) == proc[i].stmt <= Script[At(i)].statements

Executing(i) == Migrating(i) /\ proc[i].todo # {} /\ MoreStatements(i)
AtMark(i) == Migrating(i) /\ proc[i].todo # {} /\ ~MoreStatements(i)
Clashes(i) == AtObject(i) \in schema /\ ~Script[At(i)].repeatable

\* exec runs the statements of a file one by one, each with its own commit.
ExecStatement(i) ==
  /\ Executing(i) /\ ~Clashes(i)
  /\ schema' = schema \cup {AtObject(i)}
  /\ proc' = [proc EXCEPT ![i].stmt = @ + 1]
  /\ UNCHANGED <<marked, launcher, cut, listened, starts, kills>>

\* ALTER TABLE throws when the column is there.
ExecThrows(i) == Executing(i) /\ Clashes(i) /\ Fatal(i, "again")

MarkedWith(i) == marked \cup {At(i)}
MarkApplied(i) ==
  /\ AtMark(i) /\ At(i) \notin marked
  /\ marked' = MarkedWith(i)
  /\ proc' = [proc EXCEPT ![i].todo = @ \ {At(i)}, ![i].stmt = 1]
  /\ UNCHANGED <<schema, launcher, cut, listened, starts, kills>>

\* The name is the key of schema_migrations: a second mark throws.
MarkThrows(i) == AtMark(i) /\ At(i) \in marked /\ Fatal(i, "again")

\* Any other error of a statement: another process writes at this moment (there
\* is no busy timeout), or the disk is full.
DatabaseFails(i) == proc[i].phase \in {"begin", "migrating"} /\ Fatal(i, "fault")

\* ensureBootstrapAdmin, exportQueue.start, cloudSync.start, listen.
StartQueues(i) ==
  /\ Migrating(i) /\ proc[i].todo = {}
  /\ proc' = [proc EXCEPT ![i].queues = TRUE, ![i].phase = "listening"]
  /\ UNCHANGED <<marked, schema, launcher, cut, listened, starts, kills>>

ListenSucceeds(i) ==
  /\ proc[i].phase = "listening"
  /\ \A j \in Instance : ~proc[j].serving
  /\ proc' = [proc EXCEPT ![i].serving = TRUE, ![i].phase = "up"]
  /\ Says(i, "ready")
  /\ listened' = listened \cup {i}
  /\ UNCHANGED <<marked, schema, cut, starts, kills>>

\* The port is taken, by another process of the program or another program.
ListenFails(i) == proc[i].phase = "listening" /\ Fatal(i, "port")

\* uncaughtException and unhandledRejection.
UncaughtError(i) == proc[i].phase = "up" /\ Fatal(i, "fault")

-----------------------------------------------------------------------------
(* The launcher: relaunchHiddenAndExit.                                    *)

Decides(i, verdict) ==
  /\ launcher' = [launcher EXCEPT ![i].state = verdict]
  /\ UNCHANGED <<marked, schema, proc, cut, listened, starts, kills>>

\* The data event, which comes while a failure is on the screen too; "settled"
\* lets the first verdict count.
Verdict_AnyOutput(l) == IF l.state = "watching" THEN "success" ELSE l.state
Verdict(l) == IF l.state = "watching" /\ "ready" \in l.unread THEN "success" ELSE l.state
ReadOutput(i) ==
  /\ launcher[i].state \in {"watching", "failed"} /\ launcher[i].unread # {}
  /\ launcher' = [launcher EXCEPT ![i] = [state |-> Verdict(launcher[i]), unread |-> {}]]
  /\ UNCHANGED <<marked, schema, proc, cut, listened, starts, kills>>

\* The exit event, before or after the last output is read.
SeeExit(i) == launcher[i].state = "watching" /\ proc[i].phase = "off" /\ Decides(i, "failed")

\* STARTUP_TIMEOUT_MS have passed.
TimeOut_IfEnded(i) ==
  launcher[i].state = "watching" /\ proc[i].phase = "off" /\ Decides(i, "failed")
TimeOut(i) == launcher[i].state = "watching" /\ Decides(i, "failed")

\* The user presses Enter; the child is not the launcher's any more.
CloseLauncher(i) ==
  /\ launcher[i].state = "failed"
  /\ launcher' = [launcher EXCEPT ![i] = NoLauncher]
  /\ UNCHANGED <<marked, schema, proc, cut, listened, starts, kills>>

-----------------------------------------------------------------------------

Next == \E i \in Instance :
  \/ \E kind \in {"hidden", "console", "dev"} : Start(i, kind)
  \/ SpawnFails(i) \/ PressEnter(i) \/ Drain(i) \/ Quit(i) \/ Kill(i)
  \/ ReadApplied(i) \/ ExecStatement(i) \/ ExecThrows(i)
  \/ MarkApplied(i) \/ MarkThrows(i) \/ DatabaseFails(i)
  \/ StartQueues(i) \/ ListenSucceeds(i) \/ ListenFails(i) \/ UncaughtError(i)
  \/ ReadOutput(i) \/ SeeExit(i) \/ TimeOut(i) \/ CloseLauncher(i)

Spec == Init /\ [][Next]_vars

\* An empty event loop ends its process; events and timers of the launcher are
\* delivered.  Nothing is assumed of the user, nor of how fast main gets on.
FairSpec ==
  /\ Spec
  /\ \A i \in Instance :
       WF_vars(Drain(i)) /\ WF_vars(ReadOutput(i)) /\ WF_vars(SeeExit(i)) /\ WF_vars(TimeOut(i))

-----------------------------------------------------------------------------

\* Every variable holds what the code can put there.
TypeOK ==
  /\ marked \subseteq Migration /\ cut \subseteq Migration /\ listened \subseteq Instance
  /\ schema \subseteq UNION {Objects(m) : m \in Migration}
  /\ proc \in [Instance -> Process]
  /\ launcher \in [Instance -> Launcher]
  /\ starts \in Nat /\ kills \in Nat

\* A migration that is marked is complete, whoever ran it and whatever ended in
\* the middle of it: no start skips one that lacks a column.
MarkedIsComplete == \A m \in marked : Objects(m) \subseteq schema

\* Export, cloud synchronisation and server run on a complete schema only.
QueuesNeedSchema ==
  \A i \in Instance : proc[i].queues \/ proc[i].serving =>
    marked = Migration /\ \A m \in Migration : Objects(m) \subseteq schema

\* An object without the mark of its migration: a process is in the middle of it
\* now, or one ended there.
HalfDoneIsExplained ==
  \A o \in schema : o[1] \notin marked =>
    \/ o[1] \in cut
    \/ \E i \in Instance :
         Migrating(i) /\ proc[i].todo # {} /\ At(i) = o[1] /\ proc[i].stmt > o[2]

\* What schema_migrations says of the schema, and what it leaves out, is explained
\* whenever a process looks at it, or dies.
SchemaAccounted == MarkedIsComplete /\ HalfDoneIsExplained

\* A start that nothing else migrates with fails on a statement executed before
\* only if an earlier process ended in the middle of that migration: starting the
\* program again is otherwise always safe.
RestartIsSafe ==
  \A i \in Instance : proc[i].why = "again" => proc[i].met \/ At(i) \in cut

\* The launcher reports success only of a child that has come to listen, however
\* output, exit and timer follow each other; what the child did later is not said.
SuccessIsTrue == \A i \in Instance : launcher[i].state = "success" => i \in listened

\* A failure stays on the screen until the user presses Enter: output that comes
\* later does not end the launcher (docs/native-exe-packaging.md:51-53).
FailureStays ==
  [][\A i \in Instance : launcher[i].state = "failed" => launcher'[i].state # "success"]_vars

\* A hidden start has an end that its user can see: the launcher comes to a verdict,
\* even when its child neither ends nor listens, and a child whose migrations failed
\* ends by itself, although nobody can answer its question.
HiddenStartEnds ==
  \A i \in Instance :
    /\ launcher[i].state = "watching" ~> launcher[i].state # "watching"
    /\ /\ proc[i].kind = "hidden" /\ proc[i].phase = "fatal"
       /\ ~proc[i].serving /\ proc[i].why # "port"
       ~> proc[i].phase = "off"

=============================================================================
