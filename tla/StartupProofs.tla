----------------------------- MODULE StartupProofs -----------------------------
(***************************************************************************)
(* Theorems about Startup, for any number of processes and migrations, any *)
(* number of statements in each, and any number of starts and deaths.      *)
(***************************************************************************)
EXTENDS Startup, WellFoundedInduction, TLAPS

\* What a process knows of the tables at the point main has reached.
Good(i) ==
  /\ proc[i].phase = "begin" => proc[i].stmt = 1
  /\ Migrating(i) => Migration \ proc[i].todo \subseteq marked
  /\ Migrating(i) /\ proc[i].todo # {} =>
       \A k \in Nat \ {0} : k < proc[i].stmt => <<At(i), k>> \in schema
  /\ Migrating(i) /\ proc[i].todo \cap marked # {} => proc[i].met
  /\ proc[i].phase \in {"listening", "up"} \/ proc[i].queues \/ proc[i].serving =>
       marked = Migration
  /\ proc[i].serving => proc[i].phase \in {"up", "fatal"}
  /\ proc[i].phase = "up" => proc[i].serving
  /\ proc[i].phase \in {"begin", "migrating", "listening", "up"} => proc[i].why = "none"

\* Two processes that migrate at the same time have met.
Meetings ==
  \A i, j \in Instance : i # j /\ Migrating(i) /\ Migrating(j) => proc[i].met

\* The ready line is written, and so success reported, only after listen.
Heard(i) ==
  launcher[i].state = "success" \/ "ready" \in launcher[i].unread => i \in listened

IInv ==
  /\ TypeOK /\ MarkedIsComplete /\ HalfDoneIsExplained /\ RestartIsSafe
  /\ Meetings
  /\ \A i \in Instance : Good(i)
  /\ \A i \in Instance : Heard(i)

-----------------------------------------------------------------------------

\* The least element of a set of natural numbers.
LEMMA MinIn ==
  ASSUME NEW S, S \subseteq Nat, S # {}
  PROVE  Min(S) \in S
<1>1. PICK x \in S : \A y \in S : ~(<<y, x>> \in OpToRel(<, Nat))
  BY NatLessThanWellFounded, WFMin, Zenon
<1>2. OpToRel(<, Nat) = {ss \in Nat \X Nat : ss[1] < ss[2]}
  BY Zenon DEF OpToRel
<1>3. \A y \in S : ~(<<y, x>> \in {ss \in Nat \X Nat : ss[1] < ss[2]})
  BY <1>1, <1>2, Zenon
<1>4. ASSUME NEW y \in S PROVE x =< y
  <2>1. x \in Nat /\ y \in Nat
    OBVIOUS
  <2>2. ~(<<y, x>>[1] < <<y, x>>[2])
    BY <1>3, <2>1
  <2> QED
    BY <2>1, <2>2
<1> QED
  BY <1>4 DEF Min

LEMMA ScriptTypes ==
  /\ Migration \subseteq Nat
  /\ \A m \in Migration : Script[m].statements \in Nat \ {0}
<1> DEFINE File == [statements: Nat \ {0}, repeatable: BOOLEAN]
<1>1. Script \in Seq(File)
  BY StartupAssumption DEF StartupAssumption
<1>2. \A e \in File : e.statements \in Nat \ {0}
  OBVIOUS
<1> HIDE DEF File
<1>3. DOMAIN Script = 1..Len(Script) /\ Len(Script) \in Nat
  BY <1>1
<1>4. \A m \in DOMAIN Script : Script[m] \in File
  BY <1>1, <1>3
<1> QED
  BY <1>2, <1>3, <1>4 DEF Migration

LEMMA AtTypes ==
  ASSUME TypeOK, NEW i \in Instance, proc[i].todo # {}
  PROVE  At(i) \in proc[i].todo /\ At(i) \in Migration
<1>1. proc[i].todo \subseteq Migration
  BY DEF TypeOK, Process
<1> QED
  BY <1>1, ScriptTypes, MinIn DEF At

LEMMA SchemaTypes ==
  ASSUME TypeOK, NEW o \in schema
  PROVE  /\ o = <<o[1], o[2]>>
         /\ o[1] \in Migration /\ o[2] \in 1..Script[o[1]].statements
         /\ o[2] \in Nat \ {0}
<1>1. PICK m \in Migration : o \in Objects(m)
  BY DEF TypeOK
<1> QED
  BY <1>1, ScriptTypes DEF Objects

LEMMA SameAt ==
  ASSUME NEW i \in Instance, proc'[i].todo = proc[i].todo
  PROVE  At(i)' = At(i)
BY DEF At

\* Process i explains the object o of a migration without its mark.
Explains(i, o) ==
  Migrating(i) /\ proc[i].todo # {} /\ At(i) = o[1] /\ proc[i].stmt > o[2]

LEMMA Explained ==
  HalfDoneIsExplained <=>
    \A o \in schema : o[1] \notin marked =>
      o[1] \in cut \/ \E i \in Instance : Explains(i, o)
BY DEF HalfDoneIsExplained, Explains

\* Process j stays as it is, but that it may meet another.
Stays(j) ==
  /\ proc'[j].phase = proc[j].phase /\ proc'[j].todo = proc[j].todo
  /\ proc'[j].stmt = proc[j].stmt /\ proc'[j].why = proc[j].why
  /\ proc'[j].queues = proc[j].queues /\ proc'[j].serving = proc[j].serving
  /\ proc[j].met => proc'[j].met

LEMMA StaysGood ==
  ASSUME IInv, NEW j \in Instance, Stays(j), marked' \subseteq Migration,
         marked \subseteq marked', schema \subseteq schema',
         Migrating(j) /\ proc[j].todo \cap (marked' \ marked) # {} => proc[j].met
  PROVE  Good(j)'
<1>1. Good(j) /\ At(j)' = At(j)
  BY SameAt DEF IInv, Stays
<1>2. marked = Migration => marked' = Migration
  OBVIOUS
<1>3. Migrating(j)' = Migrating(j)
  BY DEF Stays, Migrating
<1>4. Migrating(j) /\ proc[j].todo \cap marked' # {} => proc'[j].met
  BY <1>1 DEF Good, Stays
<1> QED
  BY <1>1, <1>2, <1>3, <1>4 DEF Good, Stays

LEMMA StaysExplaining ==
  ASSUME NEW j \in Instance, Stays(j), NEW o, Explains(j, o)
  PROVE  Explains(j, o)'
BY SameAt DEF Explains, Stays, Migrating

\* A step of process i that touches neither schema nor marks.
LEMMA ProcessStep ==
  ASSUME IInv, NEW i \in Instance, proc' \in [Instance -> Process],
         \A j \in Instance : j # i => Stays(j),
         UNCHANGED <<marked, schema>>, cut \subseteq cut', cut' \subseteq Migration, listened' \subseteq Instance,
         launcher' \in [Instance -> Launcher], starts' \in Nat, kills' \in Nat,
         Good(i)', Meetings', \A j \in Instance : Heard(j)',
         proc'[i].why = "again" => proc'[i].met \/ At(i)' \in cut',
         \A o \in schema : Explains(i, o) => o[1] \in cut' \/ o[1] \in marked \/ Explains(i, o)'
  PROVE  IInv'
<1>1. TypeOK' /\ MarkedIsComplete'
  BY DEF IInv, TypeOK, MarkedIsComplete
<1>2. HalfDoneIsExplained'
  <2> SUFFICES ASSUME NEW o \in schema, o[1] \notin marked
               PROVE  o[1] \in cut' \/ \E j \in Instance : Explains(j, o)'
    BY DEF HalfDoneIsExplained, Explains
  <2>1. CASE o[1] \in cut
    BY <2>1
  <2>2. ASSUME NEW j \in Instance, Explains(j, o)
        PROVE  o[1] \in cut' \/ Explains(j, o)'
    <3>1. CASE j = i
      BY <2>2, <3>1
    <3>2. CASE j # i
      BY <2>2, <3>2, StaysExplaining
    <3> QED
      BY <3>1, <3>2
  <2> QED
    BY <2>1, <2>2, Explained DEF IInv
<1>3. RestartIsSafe'
  <2> SUFFICES ASSUME NEW j \in Instance, proc'[j].why = "again"
               PROVE  proc'[j].met \/ At(j)' \in cut'
    BY DEF RestartIsSafe
  <2>1. CASE j # i
    BY <2>1, SameAt DEF IInv, RestartIsSafe, Stays
  <2> QED
    BY <2>1
<1>4. \A j \in Instance : Good(j)'
  <2> SUFFICES ASSUME NEW j \in Instance, j # i PROVE Good(j)'
    OBVIOUS
  <2> QED
    BY StaysGood DEF IInv, TypeOK
<1> QED
  BY <1>1, <1>2, <1>3, <1>4 DEF IInv

\* A step in which no process begins to migrate.
LEMMA MeetingsKept ==
  ASSUME IInv,
         \A j \in Instance : Migrating(j)' => Migrating(j) /\ (proc[j].met => proc'[j].met)
  PROVE  Meetings'
BY DEF IInv, Meetings

LEMMA OthersStay ==
  ASSUME TypeOK, NEW i \in Instance, NEW p \in Process, proc' = [proc EXCEPT ![i] = p]
  PROVE  /\ proc' \in [Instance -> Process] /\ proc'[i] = p
         /\ \A j \in Instance : j # i => Stays(j) /\ proc'[j] = proc[j]
BY DEF TypeOK, Stays

\* A step of a launcher.
LEMMA LauncherStep ==
  ASSUME IInv, UNCHANGED <<marked, schema, proc, cut, listened>>,
         launcher' \in [Instance -> Launcher], starts' \in Nat, kills' \in Nat,
         \A i \in Instance : Heard(i)'
  PROVE  IInv'
<1>1. TypeOK' /\ MarkedIsComplete' /\ HalfDoneIsExplained' /\ RestartIsSafe'
  BY DEF IInv, TypeOK, MarkedIsComplete, HalfDoneIsExplained, RestartIsSafe, Migrating, At
<1>2. Meetings' /\ \A i \in Instance : Good(i)'
  BY DEF IInv, Meetings, Good, Migrating, At
<1> QED
  BY <1>1, <1>2 DEF IInv

-----------------------------------------------------------------------------
(* The processes.                                                          *)

LEMMA NewTypes ==
  \A kind \in {"hidden", "console", "dev"} :
    /\ New(kind) \in Process
    /\ New(kind).phase = "begin" /\ New(kind).why = "none"
    /\ New(kind).stmt = 1 /\ ~New(kind).queues /\ ~New(kind).serving
BY DEF New, Process

LEMMA ExitedTypes ==
  ASSUME NEW p \in Process
  PROVE  /\ Exited(p) \in Process /\ Exited(p).phase = "off"
         /\ Exited(p).why = p.why /\ Exited(p).todo = p.todo /\ Exited(p).met = p.met
         /\ ~Exited(p).queues /\ ~Exited(p).serving
BY DEF Exited, Process

LEMMA OffTypes ==
  /\ Off \in Process /\ Off.phase = "off" /\ Off.why = "none" /\ ~Off.queues /\ ~Off.serving
<1>1. New("dev") \in Process /\ New("dev").why = "none"
  BY NewTypes
<1> QED
  BY <1>1, ExitedTypes DEF Off

LEMMA InitInv == Init => IInv
<1> SUFFICES ASSUME Init PROVE IInv
  OBVIOUS
<1>1. /\ Off \in Process /\ Off.phase = "off" /\ Off.why = "none" /\ ~Off.queues /\ ~Off.serving
  BY OffTypes
<1>2. NoLauncher \in Launcher /\ NoLauncher.state = "none" /\ NoLauncher.unread = {}
  BY DEF NoLauncher, Launcher
<1> HIDE DEF NoLauncher
<1>3. \A i \in Instance : proc[i] = Off /\ launcher[i] = NoLauncher
  BY DEF Init
<1>4. TypeOK
  BY <1>1, <1>2 DEF Init, TypeOK
<1>5. MarkedIsComplete /\ HalfDoneIsExplained
  BY DEF Init, MarkedIsComplete, HalfDoneIsExplained
<1>6. RestartIsSafe /\ Meetings /\ \A i \in Instance : Good(i)
  BY <1>1, <1>3 DEF RestartIsSafe, Meetings, Good, Migrating
<1>7. \A i \in Instance : Heard(i)
  BY <1>2, <1>3 DEF Heard
<1> QED
  BY <1>4, <1>5, <1>6, <1>7 DEF IInv

LEMMA StartInv ==
  ASSUME IInv, NEW i \in Instance, NEW kind \in {"hidden", "console", "dev"}, Start(i, kind)
  PROVE  IInv'
<1> DEFINE p == New(kind)
<1> DEFINE l == IF kind = "hidden" THEN Watching ELSE NoLauncher
<1>1. /\ p \in Process /\ p.phase = "begin" /\ p.why = "none" /\ p.stmt = 1
      /\ ~p.queues /\ ~p.serving
  BY NewTypes
<1>2. l \in Launcher /\ l.state # "success" /\ l.unread = {}
  BY DEF Watching, NoLauncher, Launcher
<1>3. /\ proc' = [proc EXCEPT ![i] = p] /\ launcher' = [launcher EXCEPT ![i] = l]
      /\ UNCHANGED <<marked, schema, cut, kills>> /\ starts' = starts + 1
      /\ listened' = listened \ {i} /\ proc[i].phase = "off"
  BY DEF Start, CanStart
<1> HIDE DEF p, l
<1> USE DEF IInv
<1>4. /\ proc' \in [Instance -> Process] /\ proc'[i] = p
      /\ \A j \in Instance : j # i => Stays(j) /\ proc'[j] = proc[j]
  BY <1>1, <1>3, OthersStay
<1>5. /\ launcher' \in [Instance -> Launcher] /\ launcher'[i] = l
      /\ \A j \in Instance : j # i => launcher'[j] = launcher[j]
  BY <1>2, <1>3 DEF TypeOK
<1>6. \A j \in Instance : Heard(j)'
  BY <1>2, <1>3, <1>5 DEF Heard
<1>7. Good(i)'
  BY <1>1, <1>4 DEF Good, Migrating
<1>8. Meetings'
  BY <1>1, <1>4, MeetingsKept DEF Migrating
<1>9. \A o : ~Explains(i, o)
  BY <1>3 DEF Explains, Migrating
<1>10. /\ starts' \in Nat /\ kills' \in Nat /\ cut' \subseteq Migration
       /\ listened' \subseteq Instance
  BY <1>3 DEF TypeOK
<1> QED
  BY <1>1, <1>3, <1>4, <1>5, <1>6, <1>7, <1>8, <1>9, <1>10, ProcessStep

\* What cut names of process i is a migration, and all that i explains.
LEMMA CutTypes ==
  ASSUME TypeOK, NEW i \in Instance
  PROVE  /\ CutAt(i) \subseteq Migration
         /\ \A o \in schema : Explains(i, o) => o[1] \in CutAt(i) \/ o[1] \in marked
<1>1. CutAt(i) \subseteq Migration
  BY AtTypes DEF CutAt
<1>2. ASSUME NEW o \in schema, Explains(i, o) PROVE o[1] \in CutAt(i) \/ o[1] \in marked
  <2>1. o[2] \in Nat \ {0} /\ proc[i].stmt \in Nat
    BY SchemaTypes DEF TypeOK, Process
  <2> QED
    BY <1>2, <2>1 DEF Explains, CutAt
<1> QED
  BY <1>1, <1>2

LEMMA EndInv ==
  ASSUME IInv, NEW i \in Instance, Ends(i), kills' \in Nat, cut \subseteq cut', cut' \subseteq Migration,
         \A o \in schema : Explains(i, o) => o[1] \in cut' \/ o[1] \in marked
  PROVE  IInv'
<1>1. /\ Off \in Process /\ Off.phase = "off" /\ Off.why = "none" /\ ~Off.queues /\ ~Off.serving
  BY OffTypes
<1>2. proc' = [proc EXCEPT ![i] = Off] /\ UNCHANGED <<marked, schema, launcher, listened, starts>>
  BY DEF Ends
<1> USE DEF IInv
<1>3. /\ proc' \in [Instance -> Process] /\ proc'[i] = Off
      /\ \A j \in Instance : j # i => Stays(j) /\ proc'[j] = proc[j]
  BY <1>1, <1>2, OthersStay
<1>4. \A j \in Instance : Heard(j)'
  BY <1>2 DEF Heard
<1>5. Good(i)'
  BY <1>1, <1>3 DEF Good, Migrating
<1>6. Meetings'
  BY <1>1, <1>3, MeetingsKept DEF Migrating
<1>7. launcher' \in [Instance -> Launcher] /\ starts' \in Nat /\ listened' \subseteq Instance
  BY <1>2 DEF TypeOK
<1> QED
  BY <1>1, <1>2, <1>3, <1>4, <1>5, <1>6, <1>7, ProcessStep

LEMMA EndsInv ==
  ASSUME IInv, NEW i \in Instance, PressEnter(i) \/ Drain(i) \/ Quit(i) \/ Kill(i)
  PROVE  IInv'
<1> USE DEF IInv
<1>1. CASE PressEnter(i) \/ Drain(i) \/ Quit(i)
  <2>1. ~Migrating(i)
    BY <1>1 DEF PressEnter, Drain, Quit, Good, Migrating
  <2>2. Ends(i) /\ UNCHANGED <<cut, kills>>
    BY <1>1 DEF PressEnter, Drain, Quit
  <2> QED
    BY <2>1, <2>2, EndInv DEF Explains, TypeOK
<1>2. CASE Kill(i)
  <2>1. Ends(i) /\ cut' = cut \cup CutAt(i) /\ kills' = kills + 1
    BY <1>2 DEF Kill
  <2>2. kills' \in Nat
    BY <2>1 DEF TypeOK
  <2> QED
    BY <2>1, <2>2, CutTypes, EndInv DEF TypeOK
<1> QED
  BY <1>1, <1>2

LEMMA FatalInv ==
  ASSUME IInv, NEW i \in Instance, NEW reason \in {"again", "fault", "port"}, Fatal(i, reason),
         proc[i].phase \in {"begin", "migrating", "listening", "up"},
         reason = "again" => proc[i].met \/ At(i) \in cut
  PROVE  IInv'
<1> DEFINE told == [proc[i] EXCEPT !.why = reason]
<1> DEFINE p == IF proc[i].kind = "dev" THEN Exited(told) ELSE [told EXCEPT !.phase = "fatal"]
<1> USE DEF IInv
<1>1. proc[i] \in Process
  BY DEF TypeOK
<1>2. /\ p \in Process /\ p.todo = proc[i].todo /\ p.met = proc[i].met /\ p.why = reason
      /\ \/ p.phase = "off" /\ ~p.serving /\ ~p.queues
         \/ p.phase = "fatal" /\ p.serving = proc[i].serving /\ p.queues = proc[i].queues
  BY <1>1 DEF Process, Exited
<1>3. /\ proc' = [proc EXCEPT ![i] = p] /\ cut' = cut \cup CutAt(i)
      /\ UNCHANGED <<marked, schema, launcher, listened, starts, kills>>
  BY <1>1 DEF Fatal, TypeOK
<1> HIDE DEF p
<1>4. /\ proc' \in [Instance -> Process] /\ proc'[i] = p
      /\ \A j \in Instance : j # i => Stays(j) /\ proc'[j] = proc[j]
  BY <1>2, <1>3, OthersStay
<1>5. \A j \in Instance : Heard(j)'
  BY <1>3 DEF Heard
<1>6. Good(i)'
  <2>1. Good(i)
    OBVIOUS
  <2> QED
    BY <1>2, <1>3, <1>4, <2>1 DEF Good, Migrating
<1>7. Meetings'
  BY <1>2, <1>4, MeetingsKept DEF Migrating
<1>8. /\ launcher' \in [Instance -> Launcher] /\ starts' \in Nat /\ kills' \in Nat
      /\ listened' \subseteq Instance
  BY <1>3 DEF TypeOK
<1>9. proc'[i].why = "again" => proc'[i].met \/ At(i)' \in cut'
  BY <1>2, <1>3, <1>4, SameAt
<1>10. cut' \subseteq Migration
  BY <1>3, CutTypes DEF TypeOK
<1>11. \A o \in schema : Explains(i, o) => o[1] \in cut' \/ o[1] \in marked
  BY <1>3, CutTypes
<1> QED
  BY <1>3, <1>4, <1>5, <1>6, <1>7, <1>8, <1>9, <1>10, <1>11, ProcessStep

\* A statement was executed before: by a process that ended there, or that
\* migrates now.
LEMMA ClashIsExplained ==
  ASSUME IInv, NEW i \in Instance, Executing(i), Clashes(i)
  PROVE  proc[i].met \/ At(i) \in cut
<1> USE DEF IInv
<1>1. At(i) \in proc[i].todo
  BY AtTypes DEF Executing
<1>2. CASE At(i) \in marked
  <2>1. Good(i)
    OBVIOUS
  <2> QED
    BY <1>1, <1>2, <2>1 DEF Good, Executing
<1>3. CASE At(i) \notin marked
  <2> DEFINE o == AtObject(i)
  <2>1. o \in schema /\ o[1] = At(i) /\ o[2] = proc[i].stmt
    BY DEF Clashes, AtObject
  <2>2. CASE o[1] \in cut
    BY <2>1, <2>2
  <2>3. ASSUME NEW j \in Instance, Explains(j, o) PROVE proc[i].met
    <3>1. j # i
      BY <2>1, <2>3 DEF Explains, TypeOK, Process
    <3> QED
      BY <2>3, <3>1 DEF Explains, Executing, Meetings
  <2> QED
    BY <1>3, <2>1, <2>2, <2>3, Explained
<1> QED
  BY <1>2, <1>3

LEMMA FailuresInv ==
  ASSUME IInv, NEW i \in Instance,
         ExecThrows(i) \/ MarkThrows(i) \/ DatabaseFails(i) \/ ListenFails(i) \/ UncaughtError(i)
  PROVE  IInv'
<1>1. CASE ExecThrows(i)
  BY <1>1, ClashIsExplained, FatalInv DEF ExecThrows, Executing, Migrating
<1>2. CASE MarkThrows(i)
  <2>1. At(i) \in proc[i].todo /\ At(i) \in marked /\ Migrating(i) /\ Fatal(i, "again")
    BY <1>2, AtTypes DEF MarkThrows, AtMark, IInv
  <2>2. Good(i)
    BY DEF IInv
  <2>3. proc[i].met
    BY <2>1, <2>2 DEF Good
  <2> QED
    BY <2>1, <2>3, FatalInv DEF Migrating
<1>3. CASE DatabaseFails(i) \/ ListenFails(i) \/ UncaughtError(i)
  BY <1>3, FatalInv DEF DatabaseFails, ListenFails, UncaughtError
<1> QED
  BY <1>1, <1>2, <1>3

LEMMA SaysTypes ==
  ASSUME TypeOK, NEW i \in Instance, NEW line \in {"text", "ready"}, Says(i, line)
  PROVE  /\ launcher' \in [Instance -> Launcher]
         /\ \A j \in Instance : j # i => launcher'[j] = launcher[j]
         /\ launcher'[i].state = launcher[i].state
         /\ "ready" \in launcher'[i].unread => line = "ready" \/ "ready" \in launcher[i].unread
<1> DEFINE u == IF launcher[i].state \in {"watching", "failed"}
                THEN launcher[i].unread \cup {line} ELSE launcher[i].unread
<1> DEFINE l == [launcher[i] EXCEPT !.unread = u]
<1>1. launcher[i] \in Launcher
  BY DEF TypeOK
<1>2. /\ u \in SUBSET {"text", "ready"}
      /\ "ready" \in u => line = "ready" \/ "ready" \in launcher[i].unread
  BY <1>1 DEF Launcher
<1>3. launcher' = [launcher EXCEPT ![i] = l]
  BY <1>1 DEF Says, TypeOK
<1> HIDE DEF u
<1>4. l \in Launcher /\ l.state = launcher[i].state /\ l.unread = u
  BY <1>1, <1>2 DEF Launcher
<1> HIDE DEF l
<1> QED
  BY <1>2, <1>3, <1>4 DEF TypeOK

LEMMA ReadAppliedInv ==
  ASSUME IInv, NEW i \in Instance, ReadApplied(i)
  PROVE  IInv'
<1> DEFINE met == \E k \in Instance : Migrating(k)
<1> DEFINE p == [proc[i] EXCEPT !.phase = "migrating", !.todo = Unapplied, !.met = met]
<1> DEFINE q(j) == [proc[j] EXCEPT !.met = proc[j].met \/ Migrating(j)]
<1> USE DEF IInv
<1>1. /\ proc' = [j \in Instance |-> IF j = i THEN p ELSE q(j)]
      /\ Says(i, "text") /\ proc[i].phase = "begin"
      /\ UNCHANGED <<marked, schema, cut, listened, starts, kills>>
  BY DEF ReadApplied, BeginsMigrating
<1>2. \A j \in Instance : proc[j] \in Process
  BY DEF TypeOK
<1>3. met \in BOOLEAN /\ \A j \in Instance : (proc[j].met \/ Migrating(j)) \in BOOLEAN
  OBVIOUS
<1>4. Unapplied \in SUBSET Migration
  BY DEF Unapplied
<1> HIDE DEF met
<1>5. /\ p \in Process /\ p.phase = "migrating" /\ p.todo = Unapplied /\ p.met = met
      /\ p.stmt = proc[i].stmt /\ p.why = proc[i].why
      /\ p.queues = proc[i].queues /\ p.serving = proc[i].serving
  BY <1>2, <1>3, <1>4 DEF Process
<1>6. ASSUME NEW j \in Instance
      PROVE  /\ q(j) \in Process /\ q(j).phase = proc[j].phase /\ q(j).todo = proc[j].todo
             /\ q(j).stmt = proc[j].stmt /\ q(j).why = proc[j].why
             /\ q(j).queues = proc[j].queues /\ q(j).serving = proc[j].serving
             /\ proc[j].met \/ Migrating(j) => q(j).met
  BY <1>2, <1>3 DEF Process
<1> HIDE DEF p, q
<1>7. /\ proc' \in [Instance -> Process] /\ proc'[i] = p
      /\ \A j \in Instance : j # i => proc'[j] = q(j)
  BY <1>1, <1>5, <1>6
<1>8. \A j \in Instance : j # i => Stays(j) /\ (Migrating(j) => proc'[j].met)
  BY <1>6, <1>7 DEF Stays
<1>9. Good(i)'
  <2>1. Good(i)
    OBVIOUS
  <2>2. p.stmt = 1 /\ p.why = "none" /\ ~p.serving /\ (p.queues => marked = Migration)
    BY <1>1, <1>5, <2>1 DEF Good
  <2> QED
    BY <1>1, <1>5, <1>7, <2>2 DEF Good, Migrating, Unapplied
<1>10. Meetings'
  <2> SUFFICES ASSUME NEW a \in Instance, NEW b \in Instance, a # b, Migrating(a)', Migrating(b)'
               PROVE  proc'[a].met
    BY DEF Meetings
  <2>1. CASE a = i
    <3>1. Migrating(b)
      BY <1>8, <2>1 DEF Migrating, Stays
    <3>2. met
      BY <3>1 DEF met
    <3> QED
      BY <1>5, <1>7, <2>1, <3>2
  <2>2. CASE a # i
    BY <1>8, <2>2 DEF Migrating, Stays
  <2> QED
    BY <2>1, <2>2
<1>11. launcher' \in [Instance -> Launcher]
  BY <1>1, SaysTypes
<1>12. \A j \in Instance : Heard(j)'
  BY <1>1, SaysTypes DEF Heard
<1>13. proc'[i].why # "again"
  <2>1. Good(i)
    OBVIOUS
  <2> QED
    BY <1>1, <1>5, <1>7, <2>1 DEF Good
<1>14. \A o : ~Explains(i, o)
  BY <1>1 DEF Explains, Migrating
<1>15. cut' \subseteq Migration /\ listened' \subseteq Instance /\ starts' \in Nat /\ kills' \in Nat
  BY <1>1 DEF TypeOK
<1> QED
  BY <1>1, <1>7, <1>8, <1>9, <1>10, <1>11, <1>12, <1>13, <1>14, <1>15, ProcessStep

LEMMA ExecInv ==
  ASSUME IInv, NEW i \in Instance, ExecStatement(i)
  PROVE  IInv'
<1> DEFINE p == [proc[i] EXCEPT !.stmt = proc[i].stmt + 1]
<1> USE DEF IInv
<1>1. /\ proc' = [proc EXCEPT ![i] = p] /\ schema' = schema \cup {<<At(i), proc[i].stmt>>}
      /\ UNCHANGED <<marked, launcher, cut, listened, starts, kills>>
      /\ Migrating(i) /\ proc[i].todo # {} /\ proc[i].stmt <= Script[At(i)].statements
  BY DEF ExecStatement, Executing, MoreStatements, AtObject, TypeOK
<1>2. proc[i] \in Process /\ proc[i].stmt \in Nat \ {0}
  BY DEF TypeOK, Process
<1>3. /\ p \in Process /\ p.phase = proc[i].phase /\ p.todo = proc[i].todo
      /\ p.why = proc[i].why /\ p.queues = proc[i].queues /\ p.serving = proc[i].serving
      /\ p.met = proc[i].met /\ p.stmt = proc[i].stmt + 1
  BY <1>2 DEF Process
<1> HIDE DEF p
<1>4. /\ proc' \in [Instance -> Process] /\ proc'[i] = p
      /\ \A j \in Instance : j # i => Stays(j) /\ proc'[j] = proc[j]
  BY <1>1, <1>3, OthersStay
<1>5. At(i)' = At(i) /\ At(i) \in Migration
  BY <1>1, <1>3, <1>4, SameAt, AtTypes
<1>6. TypeOK'
  <2>1. <<At(i), proc[i].stmt>> \in Objects(At(i))
    BY <1>1, <1>2, <1>5, ScriptTypes DEF Objects
  <2> QED
    BY <1>1, <1>4, <1>5, <2>1 DEF TypeOK
<1>7. MarkedIsComplete'
  BY <1>1 DEF MarkedIsComplete, Objects
<1>8. HalfDoneIsExplained'
  <2> SUFFICES ASSUME NEW o \in schema', o[1] \notin marked
               PROVE  o[1] \in cut \/ \E j \in Instance : Explains(j, o)'
    BY <1>1 DEF HalfDoneIsExplained, Explains
  <2>1. CASE o = <<At(i), proc[i].stmt>>
    <3>1. o[1] = At(i) /\ o[2] = proc[i].stmt
      BY <2>1
    <3> QED
      BY <1>1, <1>2, <1>3, <1>4, <1>5, <3>1 DEF Explains, Migrating
  <2>2. CASE o \in schema /\ o[1] \in cut
    BY <2>2
  <2>3. ASSUME o \in schema, NEW j \in Instance, Explains(j, o) PROVE Explains(j, o)'
    <3>1. CASE j = i
      <4>1. o[2] \in Nat
        BY <2>3, SchemaTypes
      <4> QED
        BY <1>2, <1>3, <1>4, <1>5, <2>3, <3>1, <4>1 DEF Explains, Migrating
    <3>2. CASE j # i
      BY <1>4, <2>3, <3>2, StaysExplaining
    <3> QED
      BY <3>1, <3>2
  <2> QED
    BY <1>1, <2>1, <2>2, <2>3, Explained
<1>9. RestartIsSafe'
  <2> SUFFICES ASSUME NEW j \in Instance, proc'[j].why = "again"
               PROVE  proc'[j].met \/ At(j)' \in cut'
    BY DEF RestartIsSafe
  <2>1. proc'[j].why = proc[j].why /\ proc'[j].met = proc[j].met /\ proc'[j].todo = proc[j].todo
    BY <1>3, <1>4
  <2> QED
    BY <1>1, <2>1, SameAt DEF RestartIsSafe
<1>10. Meetings'
  BY <1>3, <1>4, MeetingsKept DEF Migrating
<1>11. Good(i)'
  <2>1. Good(i)
    OBVIOUS
  <2>2. \A k \in Nat \ {0} : k < proc[i].stmt + 1 => k < proc[i].stmt \/ k = proc[i].stmt
    BY <1>2
  <2>3. \A k \in Nat \ {0} : k < p.stmt => <<At(i), k>> \in schema'
    BY <1>1, <1>3, <2>1, <2>2 DEF Good
  <2> QED
    BY <1>1, <1>3, <1>4, <1>5, <2>1, <2>3 DEF Good, Migrating
<1>12. \A j \in Instance : j # i => Good(j)'
  BY <1>1, <1>4, StaysGood DEF TypeOK
<1>13. \A j \in Instance : Heard(j)'
  BY <1>1 DEF Heard
<1> QED
  BY <1>6, <1>7, <1>8, <1>9, <1>10, <1>11, <1>12, <1>13

LEMMA NextMigration ==
  ASSUME NEW r \in Process, NEW t \in SUBSET Migration
  PROVE  LET p == [r EXCEPT !.todo = t, !.stmt = 1]
         IN  /\ p \in Process /\ p.phase = r.phase /\ p.todo = t
             /\ p.why = r.why /\ p.queues = r.queues /\ p.serving = r.serving
             /\ p.met = r.met /\ p.stmt = 1
<1> DEFINE q == [r EXCEPT !.todo = t]
<1>1. /\ q \in Process /\ q.phase = r.phase /\ q.todo = t
      /\ q.why = r.why /\ q.queues = r.queues /\ q.serving = r.serving /\ q.met = r.met
  BY DEF Process
<1>2. [r EXCEPT !.todo = t, !.stmt = 1] = [q EXCEPT !.stmt = 1]
  OBVIOUS
<1> HIDE DEF q
<1>3. LET p == [q EXCEPT !.stmt = 1]
      IN  /\ p \in Process /\ p.phase = q.phase /\ p.todo = q.todo
          /\ p.why = q.why /\ p.queues = q.queues /\ p.serving = q.serving
          /\ p.met = q.met /\ p.stmt = 1
  BY <1>1 DEF Process
<1> QED
  BY <1>1, <1>2, <1>3

LEMMA MarkInv ==
  ASSUME IInv, NEW i \in Instance, MarkApplied(i)
  PROVE  IInv'
<1> DEFINE m == At(i)
<1> DEFINE p == [proc[i] EXCEPT !.todo = proc[i].todo \ {m}, !.stmt = 1]
<1> USE DEF IInv
<1>1. /\ proc' = [proc EXCEPT ![i] = p] /\ marked' = marked \cup {m}
      /\ UNCHANGED <<schema, launcher, cut, listened, starts, kills>>
      /\ Migrating(i) /\ proc[i].todo # {} /\ ~(proc[i].stmt <= Script[m].statements)
      /\ m \notin marked
  BY DEF MarkApplied, AtMark, MoreStatements, MarkedWith, TypeOK
<1>2. proc[i] \in Process /\ proc[i].stmt \in Nat \ {0} /\ proc[i].todo \subseteq Migration
  BY DEF TypeOK, Process
<1>3. m \in Migration /\ m \in proc[i].todo /\ Script[m].statements \in Nat
  BY <1>1, AtTypes, ScriptTypes
<1>4. /\ p \in Process /\ p.phase = proc[i].phase /\ p.todo = proc[i].todo \ {m}
      /\ p.why = proc[i].why /\ p.queues = proc[i].queues /\ p.serving = proc[i].serving
      /\ p.met = proc[i].met /\ p.stmt = 1
  <2>1. proc[i].todo \ {m} \in SUBSET Migration
    BY <1>2
  <2> QED
    BY <1>2, <2>1, NextMigration
<1> HIDE DEF p
<1>5. /\ proc' \in [Instance -> Process] /\ proc'[i] = p
      /\ \A j \in Instance : j # i => Stays(j) /\ proc'[j] = proc[j]
  BY <1>1, <1>4, OthersStay
<1>6. TypeOK'
  BY <1>1, <1>3, <1>5 DEF TypeOK
<1>7. MarkedIsComplete'
  <2>1. Objects(m) \subseteq schema
    <3> SUFFICES ASSUME NEW k \in 1..Script[m].statements PROVE <<m, k>> \in schema
      BY DEF Objects
    <3>1. k \in Nat \ {0} /\ k < proc[i].stmt
      BY <1>1, <1>2, <1>3
    <3>2. Good(i)
      OBVIOUS
    <3> QED
      BY <1>1, <3>1, <3>2 DEF Good
  <2> QED
    BY <1>1, <2>1 DEF MarkedIsComplete, Objects
<1>8. HalfDoneIsExplained'
  <2> SUFFICES ASSUME NEW o \in schema, o[1] \notin marked, o[1] # m
               PROVE  o[1] \in cut \/ \E j \in Instance : Explains(j, o)'
    BY <1>1 DEF HalfDoneIsExplained, Explains
  <2>1. ASSUME NEW j \in Instance, Explains(j, o) PROVE Explains(j, o)'
    <3>1. j # i
      BY <2>1 DEF Explains
    <3> QED
      BY <1>5, <2>1, <3>1, StaysExplaining
  <2> QED
    BY <2>1, Explained
<1>9. Good(i)
  OBVIOUS
<1>10. RestartIsSafe'
  <2> SUFFICES ASSUME NEW j \in Instance, proc'[j].why = "again"
               PROVE  proc'[j].met \/ At(j)' \in cut'
    BY DEF RestartIsSafe
  <2>1. CASE j = i
    BY <1>1, <1>4, <1>5, <1>9, <2>1 DEF Good, Migrating
  <2>2. CASE j # i
    BY <1>1, <1>5, <2>2, SameAt DEF RestartIsSafe
  <2> QED
    BY <2>1, <2>2
<1>11. Meetings'
  BY <1>4, <1>5, MeetingsKept DEF Migrating
<1>12. Good(i)'
  <2>1. marked = Migration => marked' = Migration
    BY <1>1, <1>3
  <2>2. p.todo \cap marked' # {} => p.met
    BY <1>1, <1>4, <1>9 DEF Good
  <2>3. Migration \ p.todo \subseteq marked'
    BY <1>1, <1>4, <1>9 DEF Good
  <2> QED
    BY <1>1, <1>4, <1>5, <1>9, <2>1, <2>2, <2>3 DEF Good, Migrating
<1>13. \A j \in Instance : j # i => Good(j)'
  <2> SUFFICES ASSUME NEW j \in Instance, j # i PROVE Good(j)'
    OBVIOUS
  <2>1. Migrating(j) => proc[j].met
    BY <1>1 DEF Meetings
  <2> QED
    BY <1>1, <1>5, <1>6, <2>1, StaysGood DEF TypeOK
<1>14. \A j \in Instance : Heard(j)'
  BY <1>1 DEF Heard
<1> QED
  BY <1>6, <1>7, <1>8, <1>10, <1>11, <1>12, <1>13, <1>14

LEMMA StartQueuesInv ==
  ASSUME IInv, NEW i \in Instance, StartQueues(i)
  PROVE  IInv'
<1> DEFINE p == [proc[i] EXCEPT !.queues = TRUE, !.phase = "listening"]
<1> USE DEF IInv
<1>1. /\ proc' = [proc EXCEPT ![i] = p]
      /\ UNCHANGED <<marked, schema, launcher, cut, listened, starts, kills>>
      /\ proc[i].phase = "migrating" /\ proc[i].todo = {}
  BY DEF StartQueues, Migrating, TypeOK
<1>2. proc[i] \in Process /\ Good(i)
  BY DEF TypeOK
<1>3. /\ p \in Process /\ p.phase = "listening" /\ p.todo = proc[i].todo
      /\ p.why = proc[i].why /\ p.queues /\ p.serving = proc[i].serving
      /\ p.met = proc[i].met
  BY <1>2 DEF Process
<1> HIDE DEF p
<1>4. /\ proc' \in [Instance -> Process] /\ proc'[i] = p
      /\ \A j \in Instance : j # i => Stays(j) /\ proc'[j] = proc[j]
  BY <1>1, <1>3, OthersStay
<1>5. ~proc[i].serving /\ proc[i].why = "none" /\ marked = Migration
  BY <1>1, <1>2 DEF Good, Migrating, TypeOK
<1>6. Good(i)'
  BY <1>1, <1>3, <1>4, <1>5 DEF Good, Migrating
<1>7. Meetings'
  BY <1>3, <1>4, MeetingsKept DEF Migrating
<1>8. \A j \in Instance : Heard(j)'
  BY <1>1 DEF Heard
<1>9. \A o : ~Explains(i, o)
  BY <1>1 DEF Explains
<1>10. /\ launcher' \in [Instance -> Launcher] /\ cut' \subseteq Migration
       /\ listened' \subseteq Instance /\ starts' \in Nat /\ kills' \in Nat /\ proc'[i].why # "again"
  BY <1>1, <1>3, <1>4, <1>5 DEF TypeOK
<1> QED
  BY <1>1, <1>4, <1>6, <1>7, <1>8, <1>9, <1>10, ProcessStep

LEMMA ListenInv ==
  ASSUME IInv, NEW i \in Instance, ListenSucceeds(i)
  PROVE  IInv'
<1> DEFINE p == [proc[i] EXCEPT !.serving = TRUE, !.phase = "up"]
<1> USE DEF IInv
<1>1. /\ proc' = [proc EXCEPT ![i] = p] /\ Says(i, "ready")
      /\ UNCHANGED <<marked, schema, cut, starts, kills>>
      /\ listened' = listened \cup {i} /\ proc[i].phase = "listening"
  BY DEF ListenSucceeds, TypeOK
<1>2. proc[i] \in Process /\ Good(i)
  BY DEF TypeOK
<1>3. /\ p \in Process /\ p.phase = "up" /\ p.todo = proc[i].todo
      /\ p.why = proc[i].why /\ p.queues = proc[i].queues /\ p.serving
      /\ p.met = proc[i].met
  BY <1>2 DEF Process
<1> HIDE DEF p
<1>4. /\ proc' \in [Instance -> Process] /\ proc'[i] = p
      /\ \A j \in Instance : j # i => Stays(j) /\ proc'[j] = proc[j]
  BY <1>1, <1>3, OthersStay
<1>5. proc[i].why = "none" /\ marked = Migration
  BY <1>1, <1>2 DEF Good
<1>6. Good(i)'
  BY <1>1, <1>3, <1>4, <1>5 DEF Good, Migrating
<1>7. Meetings'
  BY <1>3, <1>4, MeetingsKept DEF Migrating
<1>8. \A j \in Instance : Heard(j)'
  <2> SUFFICES ASSUME NEW j \in Instance PROVE Heard(j)'
    OBVIOUS
  <2>1. Heard(j)
    OBVIOUS
  <2>2. CASE j = i
    BY <1>1, <2>2 DEF Heard
  <2>3. CASE j # i
    BY <1>1, <1>4, <2>1, <2>3, SaysTypes DEF Heard
  <2> QED
    BY <2>2, <2>3
<1>9. \A o : ~Explains(i, o)
  BY <1>1 DEF Explains, Migrating
<1>10. launcher' \in [Instance -> Launcher]
  BY <1>1, SaysTypes
<1>11. /\ cut' \subseteq Migration /\ listened' \subseteq Instance
       /\ starts' \in Nat /\ kills' \in Nat /\ proc'[i].why # "again"
  BY <1>1, <1>3, <1>4, <1>5 DEF TypeOK
<1> QED
  BY <1>1, <1>4, <1>6, <1>7, <1>8, <1>9, <1>10, <1>11, ProcessStep

-----------------------------------------------------------------------------
(* The launchers.                                                          *)

\* A step that sets the launcher of process i to l.
LEMMA LauncherBecomes ==
  ASSUME IInv, NEW i \in Instance, NEW l \in Launcher, launcher' = [launcher EXCEPT ![i] = l],
         UNCHANGED <<marked, schema, proc, cut, listened>>, starts' \in Nat, kills' \in Nat,
         l.state = "success" \/ "ready" \in l.unread =>
           launcher[i].state = "success" \/ "ready" \in launcher[i].unread
  PROVE  IInv'
<1>1. /\ launcher' \in [Instance -> Launcher] /\ launcher'[i] = l
      /\ \A j \in Instance : j # i => launcher'[j] = launcher[j]
  BY DEF IInv, TypeOK
<1>2. \A j \in Instance : Heard(j)'
  <2> SUFFICES ASSUME NEW j \in Instance PROVE Heard(j)'
    OBVIOUS
  <2>1. Heard(j)
    BY DEF IInv
  <2>2. CASE j = i
    BY <1>1, <2>1, <2>2 DEF Heard
  <2>3. CASE j # i
    BY <1>1, <2>1, <2>3 DEF Heard
  <2> QED
    BY <2>2, <2>3
<1> QED
  BY <1>1, <1>2, LauncherStep

LEMMA DecidesInv ==
  ASSUME IInv, NEW i \in Instance,
         SpawnFails(i) \/ ReadOutput(i) \/ SeeExit(i) \/ TimeOut(i) \/ CloseLauncher(i)
  PROVE  IInv'
<1> DEFINE f == [launcher[i] EXCEPT !.state = "failed"]
<1>1. launcher[i] \in Launcher /\ starts \in Nat /\ kills \in Nat
  BY DEF IInv, TypeOK
<1>2. f \in Launcher /\ f.state = "failed" /\ f.unread = launcher[i].unread
  BY <1>1 DEF Launcher
<1>3. CASE SpawnFails(i) \/ SeeExit(i) \/ TimeOut(i)
  <2>1. /\ launcher' = [launcher EXCEPT ![i] = f] /\ UNCHANGED <<marked, schema, proc, cut, listened, kills>>
        /\ starts' \in Nat
    BY <1>1, <1>3 DEF SpawnFails, CanStart, SeeExit, TimeOut, Decides, IInv, TypeOK
  <2> HIDE DEF f
  <2> QED
    BY <1>1, <1>2, <2>1, LauncherBecomes
<1>4. CASE ReadOutput(i)
  <2> DEFINE l == [state |-> Verdict(launcher[i]), unread |-> {}]
  <2>1. l \in Launcher /\ l.unread = {}
    BY <1>1 DEF Launcher, Verdict
  <2>2. l.state = "success" => launcher[i].state = "success" \/ "ready" \in launcher[i].unread
    BY DEF Verdict
  <2>3. /\ launcher' = [launcher EXCEPT ![i] = l]
        /\ UNCHANGED <<marked, schema, proc, cut, listened, starts, kills>>
    BY <1>4 DEF ReadOutput
  <2> HIDE DEF l
  <2> QED
    BY <1>1, <2>1, <2>2, <2>3, LauncherBecomes
<1>5. CASE CloseLauncher(i)
  <2>1. NoLauncher \in Launcher /\ NoLauncher.state # "success" /\ NoLauncher.unread = {}
    BY DEF NoLauncher, Launcher
  <2>2. /\ launcher' = [launcher EXCEPT ![i] = NoLauncher]
        /\ UNCHANGED <<marked, schema, proc, cut, listened, starts, kills>>
    BY <1>5 DEF CloseLauncher
  <2> QED
    BY <1>1, <2>1, <2>2, LauncherBecomes
<1> QED
  BY <1>3, <1>4, <1>5

-----------------------------------------------------------------------------

LEMMA NextInv == IInv /\ [Next]_vars => IInv'
<1> SUFFICES ASSUME IInv, [Next]_vars PROVE IInv'
  OBVIOUS
<1>1. CASE Next
  <2>1. PICK i \in Instance :
          \/ \E kind \in {"hidden", "console", "dev"} : Start(i, kind)
          \/ SpawnFails(i) \/ PressEnter(i) \/ Drain(i) \/ Quit(i) \/ Kill(i)
          \/ ReadApplied(i) \/ ExecStatement(i) \/ ExecThrows(i)
          \/ MarkApplied(i) \/ MarkThrows(i) \/ DatabaseFails(i)
          \/ StartQueues(i) \/ ListenSucceeds(i) \/ ListenFails(i) \/ UncaughtError(i)
          \/ ReadOutput(i) \/ SeeExit(i) \/ TimeOut(i) \/ CloseLauncher(i)
    BY <1>1 DEF Next
  <2>2. CASE \E kind \in {"hidden", "console", "dev"} : Start(i, kind)
    BY <2>2, StartInv
  <2>3. CASE PressEnter(i) \/ Drain(i) \/ Quit(i) \/ Kill(i)
    BY <2>3, EndsInv
  <2>4. CASE ExecThrows(i) \/ MarkThrows(i) \/ DatabaseFails(i) \/ ListenFails(i) \/ UncaughtError(i)
    BY <2>4, FailuresInv
  <2>5. CASE ReadApplied(i)
    BY <2>5, ReadAppliedInv
  <2>6. CASE ExecStatement(i)
    BY <2>6, ExecInv
  <2>7. CASE MarkApplied(i)
    BY <2>7, MarkInv
  <2>8. CASE StartQueues(i)
    BY <2>8, StartQueuesInv
  <2>9. CASE ListenSucceeds(i)
    BY <2>9, ListenInv
  <2>10. CASE SpawnFails(i) \/ ReadOutput(i) \/ SeeExit(i) \/ TimeOut(i) \/ CloseLauncher(i)
    BY <2>10, DecidesInv
  <2> QED
    BY <2>1, <2>2, <2>3, <2>4, <2>5, <2>6, <2>7, <2>8, <2>9, <2>10
<1>2. CASE UNCHANGED vars
  <2>1. launcher' \in [Instance -> Launcher] /\ starts' \in Nat /\ kills' \in Nat
    BY <1>2 DEF vars, IInv, TypeOK
  <2>2. \A i \in Instance : Heard(i)'
    BY <1>2 DEF vars, IInv, Heard
  <2> QED
    BY <1>2, <2>1, <2>2, LauncherStep DEF vars
<1> QED
  BY <1>1, <1>2

LEMMA Invariance == Spec => []IInv
<1> QED
  BY InitInv, NextInv, PTL DEF Spec

-----------------------------------------------------------------------------
(* The theorems.                                                           *)

\* Tables, processes and launchers only ever hold what the code can put there.
THEOREM TypeCorrect == Spec => []TypeOK
<1>1. IInv => TypeOK
  BY DEF IInv
<1> QED
  BY <1>1, Invariance, PTL

\* Every mark in schema_migrations is true, and what the schema has without a mark
\* is explained by a process at work or by one that died there.
THEOREM SchemaIsAccounted == Spec => []SchemaAccounted
<1>1. IInv => SchemaAccounted
  BY DEF IInv, SchemaAccounted
<1> QED
  BY <1>1, Invariance, PTL

\* A start fails on a statement executed before only where another process
\* migrated at the same time or one ended in the middle of the same migration.
THEOREM RestartStaysSafe == Spec => []RestartIsSafe
<1>1. IInv => RestartIsSafe
  BY DEF IInv
<1> QED
  BY <1>1, Invariance, PTL

\* The launcher's success is that of a child which has come to listen, whatever
\* became of the child since.
THEOREM SuccessStaysTrue == Spec => []SuccessIsTrue
<1>1. IInv => SuccessIsTrue
  BY DEF IInv, Heard, SuccessIsTrue
<1> QED
  BY <1>1, Invariance, PTL

\* The queues and the server run on the complete schema of this version only.
THEOREM QueuesHaveSchema == Spec => []QueuesNeedSchema
<1>1. IInv => QueuesNeedSchema
  BY DEF IInv, Good, MarkedIsComplete, QueuesNeedSchema
<1> QED
  BY <1>1, Invariance, PTL

\* A failure on the screen is never taken back by output that comes later.
THEOREM VerdictStays == Spec => FailureStays
<1> DEFINE Stay == \A i \in Instance : launcher[i].state = "failed" => launcher'[i].state # "success"
<1>1. ASSUME TypeOK, [Next]_vars PROVE Stay
  <2> SUFFICES ASSUME NEW i \in Instance, launcher[i].state = "failed"
               PROVE  launcher'[i].state # "success"
    OBVIOUS
  <2>1. CASE UNCHANGED launcher
    BY <2>1
  <2>2. ASSUME NEW j \in Instance,
               Decides(j, "failed") \/ SpawnFails(j) \/ CloseLauncher(j)
        PROVE  launcher'[i].state # "success"
    <3>1. CASE j = i
      <4>1. CASE CloseLauncher(j)
        BY <1>1, <3>1, <4>1 DEF CloseLauncher, NoLauncher, TypeOK
      <4>2. CASE Decides(j, "failed") \/ SpawnFails(j)
        <5>1. launcher'[i] = [launcher[i] EXCEPT !.state = "failed"] /\ launcher[i] \in Launcher
          BY <1>1, <3>1, <4>2 DEF Decides, SpawnFails, TypeOK
        <5> QED
          BY <5>1 DEF Launcher
      <4> QED
        BY <2>2, <4>1, <4>2
    <3>2. CASE j # i
      BY <1>1, <2>2, <3>2 DEF Decides, SpawnFails, CloseLauncher, TypeOK
    <3> QED
      BY <3>1, <3>2
  <2>3. ASSUME NEW j \in Instance, ReadOutput(j) PROVE launcher'[i].state # "success"
    BY <1>1, <2>3 DEF ReadOutput, Verdict, TypeOK
  <2>4. ASSUME NEW j \in Instance, NEW kind \in {"hidden", "console", "dev"}, Start(j, kind)
        PROVE  launcher'[i].state # "success"
    BY <1>1, <2>4 DEF Start, CanStart, Watching, NoLauncher, TypeOK
  <2>5. ASSUME NEW j \in Instance, NEW line \in {"text", "ready"}, Says(j, line)
        PROVE  launcher'[i].state # "success"
    <3>1. CASE j = i
      <4>1. launcher'[j].state = launcher[j].state
        BY <1>1, <2>5, SaysTypes
      <4> QED
        BY <3>1, <4>1
    <3>2. CASE j # i
      <4>1. launcher'[i] = launcher[i]
        BY <1>1, <2>5, <3>2, SaysTypes
      <4> QED
        BY <4>1
    <3> QED
      BY <3>1, <3>2
  <2> QED
    BY <1>1, <2>1, <2>2, <2>3, <2>4, <2>5
    DEF Next, vars, PressEnter, Drain, Quit, Kill, Ends, ReadApplied, ExecStatement, ExecThrows,
        MarkApplied, MarkThrows, DatabaseFails, StartQueues, ListenSucceeds, ListenFails,
        UncaughtError, Fatal, SeeExit, TimeOut
<1>2. TypeOK /\ [Next]_vars => [Stay]_vars
  BY <1>1
<1> QED
  BY <1>2, TypeCorrect, PTL DEF Spec, FailureStays
=============================================================================
