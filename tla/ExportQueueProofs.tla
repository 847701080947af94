-------------------------- MODULE ExportQueueProofs --------------------------
(***************************************************************************)
(* Theorems about ExportQueue, for all sets of records and directories and *)
(* any number of mishaps of every kind.                                    *)
(***************************************************************************)
EXTENDS ExportQueue, SequenceTheorems, FiniteSetTheorems, TLAPS

\* A job under way has its row in file_write_results.
JobsExist ==
  /\ \A f \in File : \A i \in DOMAIN chain[f] :
       job[<<chain[f][i].rec, f[2]>>] \in JobRow
  /\ thread.pc \in {"append", "save", "fail"} => job[Current] \in JobRow

TypeInv == TypeOK /\ JobsExist

-----------------------------------------------------------------------------
(* Sequences of tasks.                                                     *)

\* What is left of a chain when its first task has settled.
LEMMA WithoutFirst ==
  ASSUME NEW S, NEW s \in Seq(S), s # <<>>
  PROVE  /\ Without(s, 1) \in Seq(S)
         /\ Len(Without(s, 1)) = Len(s) - 1
         /\ \A i \in 1..(Len(s) - 1) : Without(s, 1)[i] = s[i + 1]
<1> DEFINE rest == SubSeq(s, 1 + 1, Len(s))
<1> HIDE DEF rest
<1>1. Len(s) \in Nat /\ Len(s) >= 1
  OBVIOUS
<1>2. SubSeq(s, 1, 1 - 1) = <<>>
  BY SubSeqEmpty
<1>3. \A i \in (1 + 1)..Len(s) : s[i] \in S
  BY <1>1, ElementOfSeq
<1>4. /\ rest \in Seq(S)
      /\ Len(rest) = Len(s) - 1
      /\ \A i \in 1..(Len(s) - 1) : rest[i] = s[i + 1]
  <2>1. 1 + 1 \in Int /\ Len(s) \in Int
    BY <1>1
  <2>2. /\ rest \in Seq(S)
        /\ Len(rest) = IF 1 + 1 <= Len(s) THEN Len(s) - (1 + 1) + 1 ELSE 0
        /\ \A i \in 1..(Len(s) - (1 + 1) + 1) : rest[i] = s[1 + 1 + i - 1]
    BY <1>3, <2>1, SubSeqProperties DEF rest
  <2>3. Len(rest) = Len(s) - 1
    <3>1. \A n \in Nat : n >= 1 => (IF 1 + 1 <= n THEN n - (1 + 1) + 1 ELSE 0) = n - 1
      OBVIOUS
    <3>2. Len(rest) = IF 1 + 1 <= Len(s) THEN Len(s) - (1 + 1) + 1 ELSE 0
      BY <2>2
    <3> QED
      BY <1>1, <3>1, <3>2, Zenon
  <2>4. ASSUME NEW i \in 1..(Len(s) - 1)
        PROVE  rest[i] = s[i + 1]
    <3>1. i \in 1..(Len(s) - (1 + 1) + 1)
      BY <1>1
    <3>2. 1 + 1 + i - 1 = i + 1
      OBVIOUS
    <3> QED
      BY <2>2, <3>1, <3>2
  <2> QED
    BY <2>2, <2>3, <2>4
<1>5. Without(s, 1) = <<>> \o rest
  BY <1>2 DEF Without, rest
<1>6. <<>> \o rest = rest
  BY <1>4, ConcatEmptySeq
<1> QED
  BY <1>4, <1>5, <1>6

\* A chain to which a task was added.
LEMMA AppendTask ==
  ASSUME NEW S, NEW s \in Seq(S), NEW e \in S
  PROVE  /\ Append(s, e) \in Seq(S)
         /\ Len(Append(s, e)) = Len(s) + 1
         /\ \A i \in 1..Len(s) : Append(s, e)[i] = s[i]
         /\ Append(s, e)[Len(s) + 1] = e
  OBVIOUS

-----------------------------------------------------------------------------
(* Type correctness.                                                       *)

\* Starting a TXT attempt keeps the types.
LEMMA StartTxtTypes ==
  ASSUME TypeInv, NEW r \in Record, NEW more \in BOOLEAN, StartTxt(r, more)
  PROVE  /\ job' \in [Job -> JobRow \cup {NoJob}]
         /\ thread' \in Attempt
         /\ chain' = chain
         /\ \A j \in Job : job[j] \in JobRow => job'[j] \in JobRow
         /\ thread'.pc = "append"
         /\ thread'.rec = r /\ thread'.file[2] = "TXT"
         /\ job'[<<r, "TXT">>] \in JobRow
<1>1. TargetOf("TXT") \in File /\ TargetOf("TXT")[2] = "TXT" /\ <<r, "TXT">> \in Job
  BY DEF TypeInv, TypeOK, TargetOf, File, Format, Settings, Job
<1>2. [status |-> "WRITING", target |-> TargetOf("TXT"), due |-> FALSE] \in JobRow
  BY <1>1 DEF JobRow
<1>3. job' = [job EXCEPT ![<<r, "TXT">>] =
                [status |-> "WRITING", target |-> TargetOf("TXT"), due |-> FALSE]]
  BY DEF StartTxt, Writing
<1>4. job \in [Job -> JobRow \cup {NoJob}]
  BY DEF TypeInv, TypeOK
<1>5. thread' = [pc |-> "append", rec |-> r, file |-> TargetOf("TXT"), more |-> more]
  BY DEF StartTxt
<1>6. chain' = chain
  BY DEF StartTxt
<1>7. thread' \in Attempt
  BY <1>1, <1>5 DEF Attempt
<1> HIDE DEF TargetOf, JobRow, Job
<1> QED
  BY <1>1, <1>2, <1>3, <1>4, <1>5, <1>6, <1>7

\* Starting an XLSX attempt keeps the types.
LEMMA StartXlsxTypes ==
  ASSUME TypeInv, NEW r \in Record, StartXlsx(r)
  PROVE  /\ job' \in [Job -> JobRow \cup {NoJob}]
         /\ thread' = Idle
         /\ chain' \in [File -> Seq(Task)]
         /\ \A j \in Job : job[j] \in JobRow => job'[j] \in JobRow
         /\ job'[<<r, "XLSX">>] \in JobRow
         /\ TargetOf("XLSX") \in File /\ TargetOf("XLSX")[2] = "XLSX"
         /\ [rec |-> r, pc |-> "queued", rows |-> NoRows] \in Task
         /\ chain' = [chain EXCEPT ![TargetOf("XLSX")] =
                        Append(@, [rec |-> r, pc |-> "queued", rows |-> NoRows])]
<1>1. TargetOf("XLSX") \in File /\ TargetOf("XLSX")[2] = "XLSX" /\ <<r, "XLSX">> \in Job
  BY DEF TypeInv, TypeOK, TargetOf, File, Format, Settings, Job
<1>2. [status |-> "WRITING", target |-> TargetOf("XLSX"), due |-> FALSE] \in JobRow
  BY <1>1 DEF JobRow
<1>3. job' = [job EXCEPT ![<<r, "XLSX">>] =
                [status |-> "WRITING", target |-> TargetOf("XLSX"), due |-> FALSE]]
  BY DEF StartXlsx, Writing
<1>4. job \in [Job -> JobRow \cup {NoJob}] /\ chain \in [File -> Seq(Task)]
  BY DEF TypeInv, TypeOK
<1>5. NoRows \in Rows
  BY DEF NoRows, Rows
<1>6. [rec |-> r, pc |-> "queued", rows |-> NoRows] \in Task
  BY <1>5 DEF Task
<1>7. /\ thread' = Idle
      /\ chain' = [chain EXCEPT ![TargetOf("XLSX")] =
                     Append(@, [rec |-> r, pc |-> "queued", rows |-> NoRows])]
  BY DEF StartXlsx
<1> HIDE DEF TargetOf, JobRow, Job, Task, File
<1>8. chain' \in [File -> Seq(Task)]
  BY <1>1, <1>4, <1>6, <1>7, AppendTask
<1> QED
  BY <1>1, <1>2, <1>3, <1>4, <1>6, <1>7, <1>8

\* What the thread is in the middle of, by its pc.
LEMMA ThreadTypes ==
  ASSUME TypeOK
  PROVE  /\ thread.pc \in {"append", "save", "fail"} <=> thread \in Attempt
         /\ thread.pc = "xlsx" <=> thread \in SecondFormat
         /\ thread.pc \in {"append", "save", "fail", "xlsx", "idle"}
         /\ thread \in Attempt => Current \in Job
  BY DEF TypeOK, Attempt, SecondFormat, Idle, Current, Job, File

\* A task of a chain, and the job it belongs to.
LEMMA TaskTypes ==
  ASSUME TypeOK, NEW f \in File, NEW i \in DOMAIN chain[f]
  PROVE  /\ chain[f] \in Seq(Task) /\ chain[f] # <<>>
         /\ i \in 1..Len(chain[f])
         /\ chain[f][i] \in Task
         /\ chain[f][i].rec \in Record
         /\ <<chain[f][i].rec, f[2]>> \in Job
<1>1. chain[f] \in Seq(Task)
  BY DEF TypeOK
<1>2. DOMAIN chain[f] = 1..Len(chain[f])
  BY <1>1, LenProperties
<1>3. chain[f][i] \in Task /\ chain[f] # <<>>
  BY <1>1, <1>2, ElementOfSeq
<1>4. chain[f][i].rec \in Record
  BY <1>3 DEF Task
<1>5. f[2] \in Format
  BY DEF File
<1> QED
  BY <1>1, <1>2, <1>3, <1>4, <1>5 DEF Job

\* The attempts of the chains keep their jobs when no task is added and no
\* job is deleted.
LEMMA ChainStays ==
  ASSUME TypeInv, chain' = chain,
         \A j \in Job : job[j] \in JobRow => job'[j] \in JobRow
  PROVE  JobsExist!1'
  BY TaskTypes DEF TypeInv, JobsExist

\* The tasks left when the first task of a chain has settled.
LEMMA TasksLeft ==
  ASSUME TypeOK, NEW f \in File, chain[f] # <<>>,
         chain' = [chain EXCEPT ![f] = Without(@, 1)]
  PROVE  /\ chain' \in [File -> Seq(Task)]
         /\ \A g \in File : \A i \in DOMAIN chain'[g] :
              \/ g # f /\ i \in DOMAIN chain[g] /\ chain'[g][i] = chain[g][i]
              \/ /\ g = f /\ i + 1 \in DOMAIN chain[g] /\ i + 1 # 1
                 /\ chain'[g][i] = chain[g][i + 1]
<1>1. chain \in [File -> Seq(Task)]
  BY DEF TypeOK
<1>2. /\ Without(chain[f], 1) \in Seq(Task)
      /\ Len(Without(chain[f], 1)) = Len(chain[f]) - 1
      /\ \A i \in 1..(Len(chain[f]) - 1) : Without(chain[f], 1)[i] = chain[f][i + 1]
  BY <1>1, WithoutFirst
<1>3. chain' \in [File -> Seq(Task)]
  BY <1>1, <1>2
<1>4. DOMAIN chain[f] = 1..Len(chain[f]) /\ Len(chain[f]) \in Nat \ {0}
  BY <1>1, LenProperties, EmptySeq
<1>5. ASSUME NEW i \in DOMAIN chain'[f]
      PROVE  /\ i + 1 \in DOMAIN chain[f] /\ i + 1 # 1
             /\ chain'[f][i] = chain[f][i + 1]
  <2>1. i \in 1..(Len(chain[f]) - 1)
    BY <1>1, <1>2, LenProperties
  <2> QED
    BY <1>1, <1>2, <1>4, <2>1
<1>6. ASSUME NEW g \in File, g # f PROVE chain'[g] = chain[g]
  BY <1>1, <1>6
<1> QED
  BY <1>3, <1>5, <1>6

\* The tasks after the first task of a chain went on.
LEMMA TasksAfterHead ==
  ASSUME TypeOK, NEW f \in File, chain[f] # <<>>, NEW t \in Task,
         chain' = [chain EXCEPT ![f] = [@ EXCEPT ![1] = t]]
  PROVE  /\ chain' \in [File -> Seq(Task)]
         /\ \A g \in File : \A i \in DOMAIN chain'[g] :
              /\ i \in DOMAIN chain[g]
              /\ chain'[g][i] = IF g = f /\ i = 1 THEN t ELSE chain[g][i]
<1>1. chain \in [File -> Seq(Task)]
  BY DEF TypeOK
<1>2. 1 \in 1..Len(chain[f]) /\ DOMAIN chain[f] = 1..Len(chain[f])
  BY <1>1, LenProperties, EmptySeq
<1>3. /\ [chain[f] EXCEPT ![1] = t] \in Seq(Task)
      /\ Len([chain[f] EXCEPT ![1] = t]) = Len(chain[f])
      /\ \A i \in 1..Len(chain[f]) :
           [chain[f] EXCEPT ![1] = t][i] = IF i = 1 THEN t ELSE chain[f][i]
  BY <1>1, <1>2, ExceptSeq
<1>4. chain' \in [File -> Seq(Task)] /\ chain'[f] = [chain[f] EXCEPT ![1] = t]
  BY <1>1, <1>3
<1>5. ASSUME NEW i \in DOMAIN chain'[f]
      PROVE  i \in DOMAIN chain[f] /\ chain'[f][i] = IF i = 1 THEN t ELSE chain[f][i]
  <2>1. i \in 1..Len(chain[f])
    BY <1>1, <1>3, <1>4, LenProperties
  <2> QED
    BY <1>2, <1>3, <1>4, <2>1
<1>6. ASSUME NEW g \in File, g # f PROVE chain'[g] = chain[g]
  BY <1>1, <1>6
<1> QED
  BY <1>4, <1>5, <1>6

\* The tasks after an attempt was put at the end of its chain.
LEMMA TasksAfterAppend ==
  ASSUME TypeOK, NEW x \in File, NEW e \in Task,
         chain' = [chain EXCEPT ![x] = Append(@, e)]
  PROVE  /\ chain' \in [File -> Seq(Task)]
         /\ \A g \in File : \A i \in DOMAIN chain'[g] :
              \/ i \in DOMAIN chain[g] /\ chain'[g][i] = chain[g][i]
              \/ g = x /\ i = Len(chain[x]) + 1 /\ chain'[g][i] = e
         /\ \A g \in File : \A i \in DOMAIN chain[g] :
              i \in DOMAIN chain'[g] /\ chain'[g][i] = chain[g][i]
         /\ Len(chain[x]) + 1 \in DOMAIN chain'[x]
         /\ chain'[x][Len(chain[x]) + 1] = e
<1>1. chain \in [File -> Seq(Task)]
  BY DEF TypeOK
<1>2. /\ Append(chain[x], e) \in Seq(Task)
      /\ Len(Append(chain[x], e)) = Len(chain[x]) + 1
      /\ \A i \in 1..Len(chain[x]) : Append(chain[x], e)[i] = chain[x][i]
      /\ Append(chain[x], e)[Len(chain[x]) + 1] = e
      /\ Len(chain[x]) \in Nat
  BY <1>1, AppendTask, LenProperties
<1>3. chain' \in [File -> Seq(Task)] /\ chain'[x] = Append(chain[x], e)
  BY <1>1, <1>2
<1>4. /\ DOMAIN chain[x] = 1..Len(chain[x])
      /\ DOMAIN chain'[x] = 1..(Len(chain[x]) + 1)
  BY <1>1, <1>2, <1>3, LenProperties
<1>5. ASSUME NEW i \in DOMAIN chain'[x]
      PROVE  \/ i \in DOMAIN chain[x] /\ chain'[x][i] = chain[x][i]
             \/ i = Len(chain[x]) + 1 /\ chain'[x][i] = e
  <2>1. i \in 1..Len(chain[x]) \/ i = Len(chain[x]) + 1
    BY <1>2, <1>4
  <2> QED
    BY <1>2, <1>3, <1>4, <2>1
<1>6. ASSUME NEW i \in DOMAIN chain[x]
      PROVE  i \in DOMAIN chain'[x] /\ chain'[x][i] = chain[x][i]
  BY <1>2, <1>3, <1>4
<1>7. Len(chain[x]) + 1 \in DOMAIN chain'[x]
  BY <1>2, <1>4
<1>8. ASSUME NEW g \in File, g # x PROVE chain'[g] = chain[g]
  BY <1>1, <1>8
<1> QED
  BY <1>2, <1>3, <1>5, <1>6, <1>7, <1>8

\* The first task of a chain is a task.
LEMMA HeadTask ==
  ASSUME TypeOK, NEW f \in File, chain[f] # <<>>
  PROVE  1 \in DOMAIN chain[f] /\ chain[f][1] \in Task /\ chain[f][1].rec \in Record
<1>1. chain[f] \in Seq(Task)
  BY DEF TypeOK
<1>2. 1 \in DOMAIN chain[f]
  BY <1>1, LenProperties, EmptySeq
<1> QED
  BY <1>2, TaskTypes

\* The first task of a chain settles, and the thread takes over its attempt.
LEMMA HeadSettles ==
  ASSUME TypeInv, NEW f \in File, chain[f] # <<>>, NEW pc \in {"save", "fail"},
         Settle(chain[f][1].rec, f, pc),
         chain' = [chain EXCEPT ![f] = Without(@, 1)],
         job' = job
  PROVE  /\ chain' \in [File -> Seq(Task)]
         /\ thread' \in Attempt
         /\ thread'.pc = pc /\ thread'.file = f /\ thread'.rec = chain[f][1].rec
         /\ JobsExist'
<1>1. TypeOK
  BY DEF TypeInv
<1>2. 1 \in DOMAIN chain[f] /\ chain[f][1].rec \in Record
  BY <1>1, HeadTask
<1>3. /\ thread' \in Attempt
      /\ thread' = [pc |-> pc, rec |-> chain[f][1].rec, file |-> f, more |-> FALSE]
  BY <1>2 DEF Settle, Attempt
<1> HIDE DEF Task, File
<1>4. ASSUME NEW g \in File, NEW i \in DOMAIN chain'[g]
      PROVE  job'[<<chain'[g][i].rec, g[2]>>] \in JobRow
  <2>1. \A h \in File : \A k \in DOMAIN chain'[h] :
          \/ h # f /\ k \in DOMAIN chain[h] /\ chain'[h][k] = chain[h][k]
          \/ /\ h = f /\ k + 1 \in DOMAIN chain[h] /\ k + 1 # 1
             /\ chain'[h][k] = chain[h][k + 1]
    BY <1>1, TasksLeft
  <2>2. \/ i \in DOMAIN chain[g] /\ chain'[g][i] = chain[g][i]
        \/ i + 1 \in DOMAIN chain[g] /\ chain'[g][i] = chain[g][i + 1]
    BY <2>1
  <2> QED
    BY <2>2 DEF TypeInv, JobsExist
<1>5. job'[Current'] \in JobRow
  <2>1. Current' = <<chain[f][1].rec, f[2]>>
    BY <1>3 DEF Current
  <2> QED
    BY <1>2, <2>1 DEF TypeInv, JobsExist
<1> QED
  BY <1>1, <1>3, <1>4, <1>5, TasksLeft DEF JobsExist

\* The first task of a chain goes on; its record stays.
LEMMA HeadGoesOn ==
  ASSUME TypeInv, NEW f \in File, chain[f] # <<>>, NEW t \in Task,
         t.rec = chain[f][1].rec,
         chain' = [chain EXCEPT ![f] = [@ EXCEPT ![1] = t]],
         job' = job, thread' = thread
  PROVE  chain' \in [File -> Seq(Task)] /\ JobsExist'
<1>1. TypeOK
  BY DEF TypeInv
<1>2. chain' \in [File -> Seq(Task)]
  BY <1>1, TasksAfterHead
<1>3. ASSUME NEW g \in File, NEW i \in DOMAIN chain'[g]
      PROVE  i \in DOMAIN chain[g] /\ chain'[g][i].rec = chain[g][i].rec
  <2>1. /\ i \in DOMAIN chain[g]
        /\ chain'[g][i] = IF g = f /\ i = 1 THEN t ELSE chain[g][i]
    BY <1>1, TasksAfterHead
  <2> QED
    BY <2>1
<1>4. Current' = Current
  BY DEF Current
<1> QED
  BY <1>2, <1>3, <1>4 DEF TypeInv, JobsExist

\* A task is added to a chain whose job was just stored.
LEMMA TaskAdded ==
  ASSUME TypeInv, NEW r \in Record, StartXlsx(r)
  PROVE  JobsExist'
<1> DEFINE e == [rec |-> r, pc |-> "queued", rows |-> NoRows]
           x == TargetOf("XLSX")
<1>1. /\ e \in Task /\ x \in File /\ x[2] = "XLSX"
      /\ chain' = [chain EXCEPT ![x] = Append(@, e)]
      /\ thread' = Idle
      /\ \A j \in Job : job[j] \in JobRow => job'[j] \in JobRow
      /\ job'[<<r, "XLSX">>] \in JobRow
      /\ e.rec = r
  BY StartXlsxTypes
<1>2. TypeOK
  BY DEF TypeInv
<1> HIDE DEF e, x
<1>3. ASSUME NEW g \in File, NEW i \in DOMAIN chain'[g]
      PROVE  job'[<<chain'[g][i].rec, g[2]>>] \in JobRow
  <2>1. CASE i \in DOMAIN chain[g] /\ chain'[g][i] = chain[g][i]
    <3>1. <<chain[g][i].rec, g[2]>> \in Job
      BY <1>2, <2>1, TaskTypes
    <3> QED
      BY <1>1, <2>1, <3>1 DEF TypeInv, JobsExist
  <2>2. CASE g = x /\ chain'[g][i] = e
    BY <1>1, <2>2
  <2>3. \/ i \in DOMAIN chain[g] /\ chain'[g][i] = chain[g][i]
        \/ g = x /\ chain'[g][i] = e
    BY <1>1, <1>2, TasksAfterAppend
  <2> QED
    BY <2>1, <2>2, <2>3
<1> QED
  BY <1>1, <1>3 DEF JobsExist, Idle

\* Storing the outcome of the attempt on the thread, and going on from it.
LEMMA OutcomeStored ==
  ASSUME TypeInv, thread \in Attempt, GoOn, chain' = chain,
         NEW status \in {"SAVED", "FAILED"},
         job' = [job EXCEPT ![Current] = [@ EXCEPT !.status = status, !.due = FALSE]]
  PROVE  /\ job' \in [Job -> JobRow \cup {NoJob}]
         /\ \A j \in Job : job[j] \in JobRow => job'[j] \in JobRow
<1>1. thread.pc \in {"append", "save", "fail"} /\ Current \in Job /\ TypeOK
  BY ThreadTypes DEF TypeInv
<1>2. job[Current] \in JobRow /\ job \in [Job -> JobRow \cup {NoJob}]
  BY <1>1 DEF TypeInv, TypeOK, JobsExist
<1>3. [job[Current] EXCEPT !.status = status, !.due = FALSE] \in JobRow
  BY <1>2 DEF JobRow
<1> HIDE DEF JobRow, Job, Current
<1> QED
  BY <1>1, <1>2, <1>3

\* Where the thread goes when an attempt has ended.
LEMMA GoOnTypes ==
  ASSUME thread \in Attempt, GoOn
  PROVE  thread' \in SecondFormat \cup {Idle} /\ thread'.pc \in {"xlsx", "idle"}
  BY DEF GoOn, Attempt, SecondFormat, Idle

\* An attempt starts.
LEMMA StartTypes ==
  ASSUME TypeInv, NEW r \in Record, NEW more \in BOOLEAN,
         StartTxt(r, more) \/ StartXlsx(r)
  PROVE  /\ job' \in [Job -> JobRow \cup {NoJob}]
         /\ chain' \in [File -> Seq(Task)]
         /\ thread' \in Attempt \cup SecondFormat \cup {Idle}
         /\ JobsExist'
<1>1. CASE StartTxt(r, more)
  <2>1. /\ job' \in [Job -> JobRow \cup {NoJob}]
        /\ thread' \in Attempt
        /\ chain' = chain
        /\ \A j \in Job : job[j] \in JobRow => job'[j] \in JobRow
        /\ thread'.rec = r /\ thread'.file[2] = "TXT"
        /\ job'[<<r, "TXT">>] \in JobRow
    BY <1>1, StartTxtTypes
  <2>2. chain' \in [File -> Seq(Task)]
    BY <2>1 DEF TypeInv, TypeOK
  <2>3. JobsExist!1'
    BY <2>1, ChainStays
  <2>4. job'[Current'] \in JobRow
    BY <2>1 DEF Current
  <2> QED
    BY <2>1, <2>2, <2>3, <2>4 DEF JobsExist
<1>2. CASE StartXlsx(r)
  BY <1>2, StartXlsxTypes, TaskAdded
<1> QED
  BY <1>1, <1>2

LEMMA StartAttemptTypes ==
  ASSUME TypeInv, NEW j \in Job, StartAttempt(j)
  PROVE  /\ job' \in [Job -> JobRow \cup {NoJob}]
         /\ chain' \in [File -> Seq(Task)]
         /\ thread' \in Attempt \cup SecondFormat \cup {Idle}
         /\ JobsExist'
<1>1. j[1] \in Record /\ FALSE \in BOOLEAN
  BY DEF Job
<1>2. StartTxt(j[1], FALSE) \/ StartXlsx(j[1])
  BY DEF StartAttempt
<1> QED
  BY <1>1, <1>2, StartTypes

LEMMA TypeInit == Init => TypeInv
<1> SUFFICES ASSUME Init PROVE TypeInv
  OBVIOUS
<1>1. /\ job \in [Job -> JobRow \cup {NoJob}]
      /\ file \in [File -> [rows: Rows, damaged: BOOLEAN]]
      /\ written \in [File -> Rows]
      /\ manual \in [Job -> Nat] /\ excused \in [Job -> Nat]
  BY DEF Init, NoRows, Rows
<1>2. settings \in Settings
  BY DEF Init, Settings
<1>3. chain \in [File -> Seq(Task)] /\ \A f \in File : DOMAIN chain[f] = {}
  BY EmptySeq DEF Init
<1>4. thread = Idle /\ thread.pc = "idle"
  BY DEF Init, Idle
<1>5. enqueued = {} /\ locked = {} /\ lost = {} /\ used = 0
  BY DEF Init
<1>6. TypeOK
  BY <1>1, <1>2, <1>3, <1>4, <1>5 DEF TypeOK
<1> QED
  BY <1>3, <1>4, <1>6 DEF TypeInv, JobsExist

\* Every step keeps the types.
LEMMA TypeStep == TypeInv /\ [Next]_vars => TypeInv'
<1> SUFFICES ASSUME TypeInv, [Next]_vars PROVE TypeInv'
  OBVIOUS
<1> USE DEF database, disk
<1>t. TypeOK /\ JobsExist
  BY DEF TypeInv
<1>1. ASSUME NEW r \in Record, EnqueueForRecord(r) PROVE TypeInv'
  <2>1. CASE UNCHANGED <<job, chain, thread>>
    <3>1. JobsExist'
      BY <1>t, <2>1 DEF JobsExist, Current
    <3> QED
      BY <1>1, <1>t, <2>1, <3>1 DEF TypeInv, TypeOK, EnqueueForRecord
  <2>2. CASE StartTxt(r, settings.xlsx) \/ StartXlsx(r)
    <3>1. settings.xlsx \in BOOLEAN
      BY <1>t DEF TypeOK, Settings
    <3>2. /\ job' \in [Job -> JobRow \cup {NoJob}]
          /\ chain' \in [File -> Seq(Task)]
          /\ thread' \in Attempt \cup SecondFormat \cup {Idle}
          /\ JobsExist'
      BY <2>2, <3>1, StartTypes
    <3> QED
      BY <1>1, <1>t, <3>2 DEF TypeInv, TypeOK, EnqueueForRecord
  <2> QED
    BY <1>1, <2>1, <2>2 DEF EnqueueForRecord
<1>2. ASSUME NEW j \in Job, ProcessDueRetry(j) PROVE TypeInv'
  <2>1. StartAttempt(j)
    BY <1>2 DEF ProcessDueRetry
  <2> QED
    BY <1>2, <1>t, <2>1, StartAttemptTypes DEF TypeInv, TypeOK, ProcessDueRetry
<1>3. ASSUME NEW j \in Job, RetryNow(j) PROVE TypeInv'
  <2>1. StartAttempt(j)
    BY <1>3 DEF RetryNow
  <2>2. manual' \in [Job -> Nat] /\ used' \in Nat
    BY <1>3, <1>t DEF TypeOK, RetryNow, Spend
  <2> QED
    BY <1>3, <1>t, <2>1, <2>2, StartAttemptTypes DEF TypeInv, TypeOK, RetryNow
<1>4. ASSUME NEW j \in Job, RetryDelayPasses(j) PROVE TypeInv'
  <2>1. job[j] \in JobRow \cup {NoJob} /\ job[j].status = "FAILED"
    BY <1>4, <1>t DEF TypeOK, RetryDelayPasses
  <2>2. job[j] \in JobRow
    BY <2>1 DEF NoJob
  <2>3. [job[j] EXCEPT !.due = TRUE] \in JobRow
    BY <2>2 DEF JobRow
  <2>4. job' = [job EXCEPT ![j] = [job[j] EXCEPT !.due = TRUE]]
    BY <1>4 DEF RetryDelayPasses
  <2>5. /\ job' \in [Job -> JobRow \cup {NoJob}]
        /\ \A k \in Job : job[k] \in JobRow => job'[k] \in JobRow
    BY <1>t, <2>3, <2>4 DEF TypeOK
  <2>6. JobsExist'
    <3>1. JobsExist!1'
      BY <1>4, <2>5, ChainStays DEF RetryDelayPasses
    <3>2. thread' = thread /\ Current' = Current
      BY <1>4 DEF RetryDelayPasses, Current
    <3>3. JobsExist!2'
      BY <1>t, <2>5, <3>2, ThreadTypes DEF JobsExist
    <3> QED
      BY <3>1, <3>3 DEF JobsExist
  <2> QED
    BY <1>4, <1>t, <2>5, <2>6 DEF TypeInv, TypeOK, RetryDelayPasses
<1>5. ASSUME AppendTxtRow PROVE TypeInv'
  <2>1. thread \in Attempt /\ thread.pc = "append"
    BY <1>5, <1>t, ThreadTypes DEF AppendTxtRow
  <2>2. /\ thread' \in Attempt
        /\ thread'.rec = thread.rec /\ thread'.file = thread.file
    BY <1>5, <2>1 DEF AppendTxtRow, Attempt
  <2>3. thread.file \in File /\ thread.rec \in Record
    BY <2>1 DEF Attempt
  <2>4. /\ PlusOne(file[thread.file].rows, thread.rec) \in Rows
        /\ PlusOne(written[thread.file], thread.rec) \in Rows
    BY <1>t, <2>3 DEF TypeOK, PlusOne, Rows
  <2>5. /\ file' \in [File -> [rows: Rows, damaged: BOOLEAN]]
        /\ written' \in [File -> Rows]
    <3>1. CASE thread.file \in locked
      BY <1>5, <1>t, <3>1 DEF TypeOK, AppendTxtRow
    <3>2. CASE thread.file \notin locked
      <4>1. file' = [file EXCEPT ![thread.file] =
                       [file[thread.file] EXCEPT !.rows = PlusOne(@, thread.rec)]]
        BY <1>5, <3>2 DEF AppendTxtRow
      <4>2. written' = [written EXCEPT ![thread.file] = PlusOne(@, thread.rec)]
        BY <1>5, <3>2 DEF AppendTxtRow
      <4>3. [file[thread.file] EXCEPT !.rows = PlusOne(@, thread.rec)]
               \in [rows: Rows, damaged: BOOLEAN]
        BY <1>t, <2>3, <2>4 DEF TypeOK
      <4> HIDE DEF PlusOne, Rows, File
      <4> QED
        BY <1>t, <2>3, <2>4, <4>1, <4>2, <4>3 DEF TypeOK
    <3> QED
      BY <3>1, <3>2
  <2>6. JobsExist'
    <3>1. job' = job /\ chain' = chain /\ Current' = Current
      BY <1>5, <2>2 DEF AppendTxtRow, Current
    <3> QED
      BY <1>t, <2>1, <3>1 DEF JobsExist
  <2> QED
    BY <1>5, <1>t, <2>2, <2>5, <2>6 DEF TypeInv, TypeOK, AppendTxtRow
<1>6. ASSUME EnqueueXlsx PROVE TypeInv'
  <2>1. thread.rec \in Record /\ StartXlsx(thread.rec)
    BY <1>6, <1>t, ThreadTypes DEF EnqueueXlsx, SecondFormat
  <2>2. /\ job' \in [Job -> JobRow \cup {NoJob}]
        /\ chain' \in [File -> Seq(Task)]
        /\ thread' \in Attempt \cup SecondFormat \cup {Idle}
        /\ JobsExist'
    <3>1. FALSE \in BOOLEAN
      OBVIOUS
    <3> QED
      BY <2>1, <3>1, StartTypes
  <2> QED
    BY <1>6, <1>t, <2>2 DEF TypeInv, TypeOK, EnqueueXlsx
<1>7. ASSUME NEW f \in File, NEW i \in DOMAIN chain[f], LoadWorkbook(f, i)
      PROVE  TypeInv'
  <2>1. i = 1 /\ chain[f] # <<>> /\ chain[f][1] \in Task
    BY <1>7, <1>t, TaskTypes DEF LoadWorkbook, Ready
  <2>2. CASE file[f].damaged
    <3>1. Settle(chain[f][1].rec, f, "fail") /\ chain' = [chain EXCEPT ![f] = Without(@, 1)]
      BY <1>7, <2>1, <2>2 DEF LoadWorkbook
    <3>2. job' = job /\ "fail" \in {"save", "fail"}
      BY <1>7 DEF LoadWorkbook
    <3>3. chain' \in [File -> Seq(Task)] /\ thread' \in Attempt /\ JobsExist'
      BY <2>1, <3>1, <3>2, HeadSettles
    <3> QED
      BY <1>7, <1>t, <3>3 DEF TypeInv, TypeOK, LoadWorkbook
  <2>3. CASE ~file[f].damaged
    <3> DEFINE t == [[chain[f][1] EXCEPT !.pc = "loaded"] EXCEPT !.rows = file[f].rows]
    <3>1. file[f].rows \in Rows
      BY <1>t DEF TypeOK
    <3>2. t \in Task /\ t.rec = chain[f][1].rec
      BY <2>1, <3>1 DEF Task
    <3>3. chain' = [chain EXCEPT ![f] = [@ EXCEPT ![1] = t]]
      <4>1. chain' = [chain EXCEPT ![f][1].pc = "loaded", ![f][1].rows = file[f].rows]
        BY <1>7, <2>1, <2>3 DEF LoadWorkbook
      <4>2. chain \in [File -> Seq(Task)] /\ 1 \in DOMAIN chain[f]
        BY <1>7, <1>t, <2>1 DEF TypeOK
      <4> QED
        BY <4>1, <4>2
    <3>4. job' = job /\ thread' = thread
      BY <1>7, <2>3 DEF LoadWorkbook
    <3> HIDE DEF t
    <3>5. chain' \in [File -> Seq(Task)] /\ JobsExist'
      BY <2>1, <3>2, <3>3, <3>4, HeadGoesOn
    <3> QED
      BY <1>7, <1>t, <3>4, <3>5 DEF TypeInv, TypeOK, LoadWorkbook
  <2> QED
    BY <2>2, <2>3
<1>8. ASSUME NEW f \in File, NEW i \in DOMAIN chain[f], OpenForWrite(f, i)
      PROVE  TypeInv'
  <2>1. i = 1 /\ chain[f] # <<>> /\ chain[f][1] \in Task
    BY <1>8, <1>t, TaskTypes DEF OpenForWrite, Ready
  <2>2. CASE f \in locked
    <3>1. Settle(chain[f][1].rec, f, "fail") /\ chain' = [chain EXCEPT ![f] = Without(@, 1)]
      BY <1>8, <2>1, <2>2 DEF OpenForWrite
    <3>2. job' = job /\ "fail" \in {"save", "fail"}
      BY <1>8 DEF OpenForWrite
    <3>3. chain' \in [File -> Seq(Task)] /\ thread' \in Attempt /\ JobsExist'
      BY <2>1, <3>1, <3>2, HeadSettles
    <3> QED
      BY <1>8, <1>t, <2>2, <3>3 DEF TypeInv, TypeOK, OpenForWrite
  <2>3. CASE f \notin locked
    <3> DEFINE t == [chain[f][1] EXCEPT !.pc = "writing"]
    <3>1. t \in Task /\ t.rec = chain[f][1].rec
      BY <2>1 DEF Task
    <3>2. chain' = [chain EXCEPT ![f] = [@ EXCEPT ![1] = t]]
      BY <1>8, <2>1, <2>3 DEF OpenForWrite
    <3>3. job' = job /\ thread' = thread
      BY <1>8, <2>3 DEF OpenForWrite
    <3> HIDE DEF t
    <3>4. chain' \in [File -> Seq(Task)] /\ JobsExist'
      BY <2>1, <3>1, <3>2, <3>3, HeadGoesOn
    <3>5. file' \in [File -> [rows: Rows, damaged: BOOLEAN]]
      <4>1. file' = [file EXCEPT ![f] = [file[f] EXCEPT !.damaged = TRUE]]
        BY <1>8, <2>3 DEF OpenForWrite
      <4>2. [file[f] EXCEPT !.damaged = TRUE] \in [rows: Rows, damaged: BOOLEAN]
        BY <1>t DEF TypeOK
      <4> QED
        BY <1>t, <4>1, <4>2 DEF TypeOK
    <3> QED
      BY <1>8, <1>t, <3>3, <3>4, <3>5 DEF TypeInv, TypeOK, OpenForWrite
  <2> QED
    BY <2>2, <2>3
<1>9. ASSUME NEW f \in File, NEW i \in DOMAIN chain[f], FinishWrite(f, i)
      PROVE  TypeInv'
  <2>1. i = 1 /\ chain[f] # <<>> /\ chain[f][1] \in Task
    BY <1>9, <1>t, TaskTypes DEF FinishWrite, Ready
  <2>2. Settle(chain[f][1].rec, f, "save") /\ chain' = [chain EXCEPT ![f] = Without(@, 1)]
    BY <1>9, <2>1 DEF FinishWrite
  <2>3. job' = job /\ "save" \in {"save", "fail"}
    BY <1>9 DEF FinishWrite
  <2>4. chain' \in [File -> Seq(Task)] /\ thread' \in Attempt /\ JobsExist'
    BY <2>1, <2>2, <2>3, HeadSettles
  <2>5. /\ PlusOne(chain[f][1].rows, chain[f][1].rec) \in Rows
        /\ PlusOne(written[f], chain[f][1].rec) \in Rows
    BY <1>t, <2>1, SMTT(30) DEF TypeOK, PlusOne, Rows, Task
  <2>6. /\ file' \in [File -> [rows: Rows, damaged: BOOLEAN]]
        /\ written' \in [File -> Rows]
    BY <1>9, <1>t, <2>1, <2>5 DEF TypeOK, FinishWrite
  <2> QED
    BY <1>9, <1>t, <2>4, <2>6 DEF TypeInv, TypeOK, FinishWrite
<1>10. ASSUME NEW f \in File, NEW i \in DOMAIN chain[f], WriteBreaks(f, i)
       PROVE  TypeInv'
  <2>1. i = 1 /\ chain[f] # <<>>
    BY <1>10, <1>t, TaskTypes DEF WriteBreaks, Ready
  <2>2. Settle(chain[f][1].rec, f, "fail") /\ chain' = [chain EXCEPT ![f] = Without(@, 1)]
    BY <1>10, <2>1 DEF WriteBreaks
  <2>3. job' = job /\ "fail" \in {"save", "fail"}
    BY <1>10 DEF WriteBreaks
  <2>4. chain' \in [File -> Seq(Task)] /\ thread' \in Attempt /\ JobsExist'
    BY <2>1, <2>2, <2>3, HeadSettles
  <2>5. used' \in Nat
    BY <1>10, <1>t DEF TypeOK, WriteBreaks, Spend
  <2> QED
    BY <1>10, <1>t, <2>4, <2>5 DEF TypeInv, TypeOK, WriteBreaks
<1>11. ASSUME Save \/ Fail PROVE TypeInv'
  <2>1. thread \in Attempt /\ GoOn /\ chain' = chain
    BY <1>11, <1>t, ThreadTypes DEF Save, Fail
  <2>2. /\ job' \in [Job -> JobRow \cup {NoJob}]
        /\ \A j \in Job : job[j] \in JobRow => job'[j] \in JobRow
    <3>1. CASE Save
      BY <2>1, <3>1, OutcomeStored DEF Save
    <3>2. CASE Fail
      BY <2>1, <3>2, OutcomeStored DEF Fail
    <3> QED
      BY <1>11, <3>1, <3>2
  <2>3. thread' \in SecondFormat \cup {Idle} /\ thread'.pc \in {"xlsx", "idle"}
    BY <2>1, GoOnTypes
  <2>4. JobsExist'
    BY <2>1, <2>2, <2>3, ChainStays DEF JobsExist
  <2> QED
    BY <1>11, <1>t, <2>1, <2>2, <2>3, <2>4 DEF TypeInv, TypeOK, Save, Fail
<1>12. ASSUME SaveFaults PROVE TypeInv'
  <2>1. thread \in Attempt /\ Current \in Job
    BY <1>12, <1>t, ThreadTypes DEF SaveFaults
  <2>2. thread' \in Attempt /\ Current' = Current
    BY <1>12, <2>1 DEF SaveFaults, Attempt, Current
  <2>3. excused' \in [Job -> Nat] /\ used' \in Nat
    BY <1>12, <1>t, <2>1 DEF TypeOK, SaveFaults, Spend
  <2>4. JobsExist'
    BY <1>12, <1>t, <2>2 DEF JobsExist, SaveFaults
  <2> QED
    BY <1>12, <1>t, <2>2, <2>3, <2>4 DEF TypeInv, TypeOK, SaveFaults
<1>13. ASSUME FailFaults PROVE TypeInv'
  <2>1. thread \in Attempt /\ Current \in Job /\ GoOn
    BY <1>13, <1>t, ThreadTypes DEF FailFaults
  <2>2. thread' \in SecondFormat \cup {Idle} /\ thread'.pc \in {"xlsx", "idle"}
    BY <2>1, GoOnTypes
  <2>3. lost' \subseteq Job /\ used' \in Nat
    BY <1>13, <1>t, <2>1 DEF TypeOK, FailFaults, Spend
  <2>4. JobsExist'
    BY <1>13, <1>t, <2>2 DEF JobsExist, FailFaults
  <2> QED
    BY <1>13, <1>t, <2>2, <2>3, <2>4 DEF TypeInv, TypeOK, FailFaults
<1>14. ASSUME SaveStorageSettings PROVE TypeInv'
  <2>1. JobsExist'
    BY <1>14, <1>t DEF JobsExist, SaveStorageSettings, Current
  <2>2. settings' \in Settings /\ used' \in Nat
    BY <1>14, <1>t DEF TypeOK, SaveStorageSettings, Spend
  <2> QED
    BY <1>14, <1>t, <2>1, <2>2 DEF TypeInv, TypeOK, SaveStorageSettings
<1>15. ASSUME NEW f \in File, Lock(f) \/ Unlock(f) PROVE TypeInv'
  <2>1. JobsExist'
    BY <1>15, <1>t DEF JobsExist, Lock, Unlock, Current
  <2>2. locked' \subseteq File /\ used' \in Nat
    BY <1>15, <1>t DEF TypeOK, Lock, Unlock, Spend
  <2> QED
    BY <1>15, <1>t, <2>1, <2>2 DEF TypeInv, TypeOK, Lock, Unlock
<1>16. ASSUME Crash PROVE TypeInv'
  <2>1. chain' \in [File -> Seq(Task)] /\ \A f \in File : DOMAIN chain'[f] = {}
    BY <1>16, EmptySeq DEF Crash
  <2>2. thread' = Idle /\ thread'.pc = "idle"
    BY <1>16 DEF Crash, Idle
  <2>3. JobsExist'
    BY <2>1, <2>2 DEF JobsExist
  <2>4. lost' \subseteq Job /\ used' \in Nat
    BY <1>16, <1>t DEF TypeOK, Crash, Spend
  <2> QED
    BY <1>16, <1>t, <2>1, <2>2, <2>3, <2>4 DEF TypeInv, TypeOK, Crash
<1>17. CASE UNCHANGED vars
  <2>1. JobsExist'
    BY <1>17, <1>t DEF vars, JobsExist, Current
  <2> QED
    BY <1>17, <1>t, <2>1 DEF vars, TypeInv, TypeOK
<1> QED
  BY <1>1, <1>2, <1>3, <1>4, <1>5, <1>6, <1>7, <1>8, <1>9, <1>10, <1>11, <1>12,
     <1>13, <1>14, <1>15, <1>16, <1>17 DEF Next

LEMMA TypeInvariant == Spec => []TypeInv
<1> QED
  BY TypeInit, TypeStep, PTL DEF Spec

\* Every variable of the export queue holds what the code can put there, in
\* every reachable state, for all records, directories and mishaps.
THEOREM TypeCorrect == Spec => []TypeOK
<1>1. TypeInv => TypeOK
  BY DEF TypeInv
<1> QED
  BY <1>1, TypeInvariant, PTL

-----------------------------------------------------------------------------
(* No row is lost.                                                         *)

\* Only workbooks have chains, only the first task of a chain is active, and
\* from its reading to its writing the file has the rows it read.
Serial ==
  \A f \in File : \A i \in DOMAIN chain[f] :
    /\ f[2] = "XLSX"
    /\ i # 1 => chain[f][i].pc = "queued"
    /\ chain[f][i].pc # "queued" => chain[f][i].rows = written[f]
    /\ chain[f][i].pc = "loaded" => ~file[f].damaged

TxtOnThread == thread.pc = "append" => thread.file[2] = "TXT"

RowInv == TypeInv /\ Serial /\ TxtOnThread /\ NoLostRow

\* An attempt that starts is at the end of its chain, or alone on the thread.
LEMMA StartRows ==
  ASSUME RowInv, NEW r \in Record, NEW more \in BOOLEAN,
         StartTxt(r, more) \/ StartXlsx(r), file' = file, written' = written
  PROVE  Serial' /\ TxtOnThread'
<1>1. TypeInv /\ TypeOK
  BY DEF RowInv, TypeInv
<1>2. CASE StartTxt(r, more)
  <2>1. chain' = chain /\ thread'.file[2] = "TXT"
    BY <1>1, <1>2, StartTxtTypes
  <2> QED
    BY <2>1 DEF RowInv, Serial, TxtOnThread
<1>3. CASE StartXlsx(r)
  <2> DEFINE e == [rec |-> r, pc |-> "queued", rows |-> NoRows]
             x == TargetOf("XLSX")
  <2>1. /\ e \in Task /\ x \in File /\ x[2] = "XLSX"
        /\ chain' = [chain EXCEPT ![x] = Append(@, e)]
        /\ thread' = Idle
        /\ e.pc = "queued"
    BY <1>1, <1>3, StartXlsxTypes
  <2> HIDE DEF e, x
  <2>2. \A g \in File : \A i \in DOMAIN chain'[g] :
          \/ i \in DOMAIN chain[g] /\ chain'[g][i] = chain[g][i]
          \/ g = x /\ chain'[g][i] = e
    BY <1>1, <2>1, TasksAfterAppend
  <2>3. Serial'
    BY <2>1, <2>2 DEF RowInv, Serial
  <2> QED
    BY <2>1, <2>3 DEF TxtOnThread, Idle
<1> QED
  BY <1>2, <1>3

\* A task that settles leaves only tasks that have not started.
LEMMA SettleRows ==
  ASSUME RowInv, NEW f \in File, chain[f] # <<>>,
         chain' = [chain EXCEPT ![f] = Without(@, 1)],
         \A g \in File : g # f => file'[g] = file[g] /\ written'[g] = written[g]
  PROVE  Serial'
<1>1. TypeOK
  BY DEF RowInv, TypeInv
<1>2. \A g \in File : \A i \in DOMAIN chain'[g] :
        \/ g # f /\ i \in DOMAIN chain[g] /\ chain'[g][i] = chain[g][i]
        \/ /\ g = f /\ i + 1 \in DOMAIN chain[g] /\ i + 1 # 1
           /\ chain'[g][i] = chain[g][i + 1]
  BY <1>1, TasksLeft
<1>3. ASSUME NEW g \in File, NEW i \in DOMAIN chain'[g]
      PROVE  /\ g[2] = "XLSX"
             /\ i # 1 => chain'[g][i].pc = "queued"
             /\ chain'[g][i].pc # "queued" => chain'[g][i].rows = written'[g]
             /\ chain'[g][i].pc = "loaded" => ~file'[g].damaged
  <2>1. CASE g # f /\ i \in DOMAIN chain[g] /\ chain'[g][i] = chain[g][i]
    BY <2>1 DEF RowInv, Serial
  <2>2. CASE /\ g = f /\ i + 1 \in DOMAIN chain[g] /\ i + 1 # 1
             /\ chain'[g][i] = chain[g][i + 1]
    <3>1. g[2] = "XLSX" /\ chain'[g][i].pc = "queued"
      BY <2>2 DEF RowInv, Serial
    <3> QED
      BY <3>1
  <2> QED
    BY <1>2, <2>1, <2>2
<1> QED
  BY <1>3 DEF Serial

LEMMA RowInit == Init => RowInv
<1> SUFFICES ASSUME Init PROVE RowInv
  OBVIOUS
<1>1. TypeInv /\ \A f \in File : DOMAIN chain[f] = {}
  BY TypeInit, EmptySeq DEF Init
<1>2. NoLostRow /\ TxtOnThread
  BY DEF Init, NoLostRow, TxtOnThread, Idle
<1> QED
  BY <1>1, <1>2 DEF RowInv, Serial

\* Every step keeps the rows.
LEMMA RowStep == RowInv /\ [Next]_vars => RowInv'
<1> SUFFICES ASSUME RowInv, [Next]_vars PROVE RowInv'
  OBVIOUS
<1> USE DEF database, disk
<1>t. TypeInv /\ TypeOK /\ Serial /\ TxtOnThread /\ NoLostRow /\ TypeInv'
  BY TypeStep DEF RowInv, TypeInv
<1>1. ASSUME UNCHANGED <<file, written, chain>>, thread' = thread \/ thread'.pc # "append"
      PROVE  RowInv'
  BY <1>1, <1>t DEF RowInv, Serial, TxtOnThread, NoLostRow
<1>2. ASSUME NEW r \in Record, EnqueueForRecord(r) PROVE RowInv'
  <2>1. CASE UNCHANGED <<job, chain, thread>>
    BY <1>1, <1>2, <2>1 DEF EnqueueForRecord
  <2>2. CASE StartTxt(r, settings.xlsx) \/ StartXlsx(r)
    <3>1. settings.xlsx \in BOOLEAN /\ file' = file /\ written' = written
      BY <1>2, <1>t DEF TypeOK, Settings, EnqueueForRecord
    <3>2. Serial' /\ TxtOnThread'
      BY <2>2, <3>1, StartRows
    <3> QED
      BY <1>t, <3>1, <3>2 DEF RowInv, NoLostRow
  <2> QED
    BY <1>2, <2>1, <2>2 DEF EnqueueForRecord
<1>3. ASSUME NEW j \in Job, ProcessDueRetry(j) \/ RetryNow(j) PROVE RowInv'
  <2>1. /\ StartTxt(j[1], FALSE) \/ StartXlsx(j[1])
        /\ file' = file /\ written' = written
    BY <1>3 DEF ProcessDueRetry, RetryNow, StartAttempt
  <2>2. j[1] \in Record /\ FALSE \in BOOLEAN
    BY DEF Job
  <2>3. Serial' /\ TxtOnThread'
    BY <2>1, <2>2, StartRows
  <2> QED
    BY <1>t, <2>1, <2>3 DEF RowInv, NoLostRow
<1>4. ASSUME AppendTxtRow PROVE RowInv'
  <2>1. thread.file[2] = "TXT" /\ thread \in Attempt /\ thread.file \in File
    BY <1>4, <1>t, ThreadTypes DEF AppendTxtRow, TxtOnThread, Attempt
  <2>2. thread'.pc # "append" /\ chain' = chain
    BY <1>4, <2>1 DEF AppendTxtRow, Attempt
  <2>3. CASE UNCHANGED <<file, written>>
    BY <1>1, <2>2, <2>3
  <2>4. CASE /\ file' = [file EXCEPT ![thread.file].rows = PlusOne(@, thread.rec)]
             /\ written' = [written EXCEPT ![thread.file] = PlusOne(@, thread.rec)]
    <3>1. \A g \in File : g # thread.file => file'[g] = file[g] /\ written'[g] = written[g]
      BY <1>t, <2>4 DEF TypeOK
    <3>2. /\ file'[thread.file].damaged = file[thread.file].damaged
          /\ file'[thread.file].rows = PlusOne(file[thread.file].rows, thread.rec)
          /\ written'[thread.file] = PlusOne(written[thread.file], thread.rec)
      BY <1>t, <2>1, <2>4 DEF TypeOK
    <3>3. NoLostRow'
      BY <1>t, <3>1, <3>2 DEF NoLostRow
    <3>4. Serial'
      BY <1>t, <2>1, <2>2, <3>1 DEF Serial
    <3> QED
      BY <1>t, <2>2, <3>3, <3>4 DEF RowInv, TxtOnThread
  <2> QED
    BY <1>4, <2>3, <2>4 DEF AppendTxtRow
<1>5. ASSUME EnqueueXlsx PROVE RowInv'
  <2>1. thread.rec \in Record /\ StartXlsx(thread.rec) /\ file' = file /\ written' = written
    BY <1>5, <1>t, ThreadTypes DEF EnqueueXlsx, SecondFormat
  <2>2. Serial' /\ TxtOnThread'
    <3>1. FALSE \in BOOLEAN
      OBVIOUS
    <3> QED
      BY <2>1, <3>1, StartRows
  <2> QED
    BY <1>t, <2>1, <2>2 DEF RowInv, NoLostRow
<1>6. ASSUME NEW f \in File, chain[f] # <<>>, NEW pc \in {"save", "fail"},
             Settle(chain[f][1].rec, f, pc),
             chain' = [chain EXCEPT ![f] = Without(@, 1)],
             UNCHANGED <<file, written>>
      PROVE  RowInv'
  <2>1. Serial'
    BY <1>6, SettleRows
  <2>2. TxtOnThread'
    BY <1>6 DEF TxtOnThread, Settle
  <2> QED
    BY <1>6, <1>t, <2>1, <2>2 DEF RowInv, NoLostRow
<1>7. ASSUME NEW f \in File, NEW i \in DOMAIN chain[f], LoadWorkbook(f, i)
      PROVE  RowInv'
  <2>1. i = 1 /\ chain[f] # <<>> /\ chain[f][1] \in Task
    BY <1>7, <1>t, TaskTypes DEF LoadWorkbook, Ready
  <2>2. CASE file[f].damaged
    <3>1. /\ Settle(chain[f][1].rec, f, "fail")
          /\ chain' = [chain EXCEPT ![f] = Without(@, 1)]
          /\ UNCHANGED <<file, written>>
      BY <1>7, <2>1, <2>2 DEF LoadWorkbook
    <3> QED
      BY <1>6, <2>1, <3>1
  <2>3. CASE ~file[f].damaged
    <3> DEFINE t == [[chain[f][1] EXCEPT !.pc = "loaded"] EXCEPT !.rows = file[f].rows]
    <3>1. file[f].rows \in Rows /\ file[f].rows = written[f]
      BY <1>t, <2>3 DEF TypeOK, NoLostRow
    <3>2. t \in Task /\ t.rows = written[f]
      BY <2>1, <3>1 DEF Task
    <3>3. chain' = [chain EXCEPT ![f] = [@ EXCEPT ![1] = t]]
      <4>1. chain' = [chain EXCEPT ![f][1].pc = "loaded", ![f][1].rows = file[f].rows]
        BY <1>7, <2>1, <2>3 DEF LoadWorkbook
      <4>2. chain \in [File -> Seq(Task)] /\ 1 \in DOMAIN chain[f]
        BY <1>7, <1>t, <2>1 DEF TypeOK
      <4> QED
        BY <4>1, <4>2
    <3>4. UNCHANGED <<file, written, thread>>
      BY <1>7, <2>3 DEF LoadWorkbook
    <3> HIDE DEF t
    <3>5. \A g \in File : \A k \in DOMAIN chain'[g] :
            /\ k \in DOMAIN chain[g]
            /\ chain'[g][k] = IF g = f /\ k = 1 THEN t ELSE chain[g][k]
      BY <1>t, <2>1, <3>2, <3>3, TasksAfterHead
    <3>6. Serial'
      BY <1>7, <1>t, <2>1, <2>3, <3>2, <3>4, <3>5 DEF Serial
    <3> QED
      BY <1>t, <3>4, <3>6 DEF RowInv, TxtOnThread, NoLostRow
  <2> QED
    BY <2>2, <2>3
<1>8. ASSUME NEW f \in File, NEW i \in DOMAIN chain[f], OpenForWrite(f, i)
      PROVE  RowInv'
  <2>1. i = 1 /\ chain[f] # <<>> /\ chain[f][1] \in Task /\ chain[f][1].pc = "loaded"
    BY <1>8, <1>t, TaskTypes DEF OpenForWrite, Ready
  <2>2. CASE f \in locked
    <3>1. /\ Settle(chain[f][1].rec, f, "fail")
          /\ chain' = [chain EXCEPT ![f] = Without(@, 1)]
          /\ UNCHANGED <<file, written>>
      BY <1>8, <2>1, <2>2 DEF OpenForWrite
    <3> QED
      BY <1>6, <2>1, <3>1
  <2>3. CASE f \notin locked
    <3> DEFINE t == [chain[f][1] EXCEPT !.pc = "writing"]
    <3>1. t \in Task /\ t.pc = "writing" /\ t.rows = chain[f][1].rows
      BY <2>1 DEF Task
    <3>2. chain' = [chain EXCEPT ![f] = [@ EXCEPT ![1] = t]]
      BY <1>8, <2>1, <2>3 DEF OpenForWrite
    <3>3. UNCHANGED <<written, thread>> /\ file' = [file EXCEPT ![f].damaged = TRUE]
      BY <1>8, <2>3 DEF OpenForWrite
    <3> HIDE DEF t
    <3>4. \A g \in File : \A k \in DOMAIN chain'[g] :
            /\ k \in DOMAIN chain[g]
            /\ chain'[g][k] = IF g = f /\ k = 1 THEN t ELSE chain[g][k]
      BY <1>t, <2>1, <3>1, <3>2, TasksAfterHead
    <3>5. /\ \A g \in File : g # f => file'[g] = file[g]
          /\ file'[f].damaged
      BY <1>t, <3>3 DEF TypeOK
    <3>6. Serial'
      BY <1>8, <1>t, <2>1, <3>1, <3>3, <3>4, <3>5 DEF Serial
    <3>7. NoLostRow'
      BY <1>t, <3>3, <3>5 DEF NoLostRow
    <3> QED
      BY <1>t, <3>3, <3>6, <3>7 DEF RowInv, TxtOnThread
  <2> QED
    BY <2>2, <2>3
<1>9. ASSUME NEW f \in File, NEW i \in DOMAIN chain[f], FinishWrite(f, i)
      PROVE  RowInv'
  <2>1. /\ i = 1 /\ chain[f] # <<>>
        /\ chain[f][1].pc = "writing" /\ chain[f][1].rows = written[f]
    BY <1>9, <1>t, TaskTypes DEF FinishWrite, Ready, Serial
  <2>2. /\ chain' = [chain EXCEPT ![f] = Without(@, 1)]
        /\ file' = [file EXCEPT ![f] = [rows |-> PlusOne(chain[f][1].rows, chain[f][1].rec),
                                       damaged |-> FALSE]]
        /\ written' = [written EXCEPT ![f] = PlusOne(@, chain[f][1].rec)]
        /\ thread'.pc = "save"
    BY <1>9, <2>1 DEF FinishWrite, Settle
  <2>3. /\ \A g \in File : g # f => file'[g] = file[g] /\ written'[g] = written[g]
        /\ file'[f].rows = written'[f]
    BY <1>t, <2>1, <2>2 DEF TypeOK
  <2>4. Serial'
    BY <2>1, <2>2, <2>3, SettleRows
  <2> QED
    BY <1>t, <2>2, <2>3, <2>4 DEF RowInv, NoLostRow, TxtOnThread
<1>10. ASSUME NEW f \in File, NEW i \in DOMAIN chain[f], WriteBreaks(f, i)
       PROVE  RowInv'
  <2>1. i = 1 /\ chain[f] # <<>>
    BY <1>10, <1>t, TaskTypes DEF WriteBreaks, Ready
  <2>2. /\ Settle(chain[f][1].rec, f, "fail")
        /\ chain' = [chain EXCEPT ![f] = Without(@, 1)]
        /\ UNCHANGED <<file, written>>
    BY <1>10, <2>1 DEF WriteBreaks
  <2> QED
    BY <1>6, <2>1, <2>2
<1>11. ASSUME Save \/ Fail \/ FailFaults PROVE RowInv'
  <2>1. thread \in Attempt /\ GoOn /\ UNCHANGED <<file, written, chain>>
    BY <1>11, <1>t, ThreadTypes DEF Save, Fail, FailFaults
  <2>2. thread'.pc # "append"
    BY <2>1, GoOnTypes
  <2> QED
    BY <1>1, <2>1, <2>2
<1>12. ASSUME SaveFaults PROVE RowInv'
  <2>1. thread'.pc # "append" /\ UNCHANGED <<file, written, chain>>
    BY <1>12, <1>t, ThreadTypes DEF SaveFaults, Attempt
  <2> QED
    BY <1>1, <2>1
<1>13. ASSUME Crash PROVE RowInv'
  <2>1. \A f \in File : DOMAIN chain'[f] = {}
    BY <1>13, EmptySeq DEF Crash
  <2>2. thread'.pc # "append" /\ UNCHANGED <<file, written>>
    BY <1>13 DEF Crash, Idle
  <2> QED
    BY <1>t, <2>1, <2>2 DEF RowInv, Serial, TxtOnThread, NoLostRow
<1>14. ASSUME \/ SaveStorageSettings
              \/ \E j \in Job : RetryDelayPasses(j)
              \/ \E f \in File : Lock(f) \/ Unlock(f)
              \/ UNCHANGED vars
       PROVE  RowInv'
  <2>1. UNCHANGED <<file, written, chain, thread>>
    BY <1>14 DEF SaveStorageSettings, RetryDelayPasses, Lock, Unlock, vars
  <2> QED
    BY <1>1, <2>1
<1> QED
  BY <1>2, <1>3, <1>4, <1>5, <1>7, <1>8, <1>9, <1>10, <1>11, <1>12, <1>13, <1>14 DEF Next

\* A readable file has exactly the rows of the completed writes: no rewrite of
\* a workbook drops a row of another attempt, whatever was locked, broke off,
\* was retried or crashed.
THEOREM NoRowIsLost == Spec => []NoLostRow
<1>1. RowInv => NoLostRow
  BY DEF RowInv
<1> QED
  BY <1>1, RowInit, RowStep, PTL DEF Spec

-----------------------------------------------------------------------------
(* One attempt at a time.                                                  *)

OnThread == thread.pc \in {"append", "save", "fail"}

TaskJob(f, i) == <<chain[f][i].rec, f[2]>>

\* Two attempts of a job are under way only if somebody asked for a retry.
OneTask ==
  \A f, g \in File : \A i \in DOMAIN chain[f], k \in DOMAIN chain[g] :
    TaskJob(f, i) = TaskJob(g, k) /\ manual[TaskJob(f, i)] = 0 => f = g /\ i = k

NotBoth ==
  OnThread /\ manual[Current] = 0 =>
    \A f \in File : \A i \in DOMAIN chain[f] : TaskJob(f, i) # Current

\* Until then the row of a job names the file of its attempt.
TaskStored ==
  \A f \in File : \A i \in DOMAIN chain[f] :
    manual[TaskJob(f, i)] = 0 =>
      job[TaskJob(f, i)].status = "WRITING" /\ job[TaskJob(f, i)].target = f

ThreadStored ==
  OnThread /\ manual[Current] = 0 =>
    job[Current].status = "WRITING" /\ job[Current].target = thread.file

\* Jobs belong to enqueued records; one whose first attempt the thread has
\* yet to start has no row.
JobsEnqueued == \A j \in Job : job[j] # NoJob => j[1] \in enqueued

SecondToCome == thread.pc = "xlsx" \/ (OnThread /\ thread.more)

SecondIsNew ==
  SecondToCome => thread.rec \in enqueued /\ job[<<thread.rec, "XLSX">>] = NoJob

Single == OneTask /\ NotBoth /\ TaskStored /\ ThreadStored /\ JobsEnqueued /\ SecondIsNew

AttemptInv == TypeInv /\ Single

LEMMA NoJobIsNoRow == NoJob \notin JobRow
  BY DEF NoJob, JobRow

\* A job that a timer, or enqueueForRecord, starts has no other attempt.
LEMMA StartKeepsSingle ==
  ASSUME AttemptInv, ~OnThread, NEW r \in Record, NEW more \in BOOLEAN, NEW fmt \in Format,
         \/ fmt = "TXT" /\ StartTxt(r, more)
         \/ fmt = "XLSX" /\ StartXlsx(r),
         r \in enqueued', enqueued \subseteq enqueued',
         \A j \in Job : manual'[j] = 0 => manual[j] = 0,
         manual'[<<r, fmt>>] = 0 =>
           \A f \in File : \A i \in DOMAIN chain[f] : TaskJob(f, i) # <<r, fmt>>,
         fmt = "TXT" /\ more => job[<<r, "XLSX">>] = NoJob
  PROVE  Single'
<1>1. TypeInv /\ TypeOK /\ Single
  BY DEF AttemptInv, TypeInv
<1> DEFINE j == <<r, fmt>>
<1>2. /\ j \in Job /\ j[1] = r
      /\ \A k \in Job : k # j => job'[k] = job[k]
      /\ job'[j] # NoJob
      /\ job'[j].status = "WRITING" /\ job'[j].target = TargetOf(fmt)
  <2>1. j \in Job
    BY DEF Job
  <2>2. job' = [job EXCEPT ![j] = [status |-> "WRITING", target |-> TargetOf(fmt), due |-> FALSE]]
    BY DEF StartTxt, StartXlsx, Writing
  <2>3. DOMAIN job = Job
    BY <1>1 DEF TypeOK
  <2>4. job'[j] = [status |-> "WRITING", target |-> TargetOf(fmt), due |-> FALSE]
    BY <2>1, <2>2, <2>3
  <2>5. job'[j].status = "WRITING" /\ NoJob.status # "WRITING"
    BY <2>4 DEF NoJob
  <2> QED
    BY <2>1, <2>2, <2>3, <2>4, <2>5
<1>3. JobsEnqueued'
  BY <1>1, <1>2 DEF Single, JobsEnqueued
<1>4. ASSUME NEW f \in File, NEW i \in DOMAIN chain[f], manual'[TaskJob(f, i)] = 0
      PROVE  /\ TaskJob(f, i) \in Job /\ TaskJob(f, i) # j
             /\ job'[TaskJob(f, i)].status = "WRITING" /\ job'[TaskJob(f, i)].target = f
  <2>1. TaskJob(f, i) \in Job
    BY <1>1, TaskTypes DEF TaskJob
  <2>2. TaskJob(f, i) # j
    BY <1>4
  <2>3. manual[TaskJob(f, i)] = 0
    BY <1>4, <2>1
  <2> QED
    BY <1>1, <1>2, <2>1, <2>2, <2>3 DEF Single, TaskStored
<1>5. CASE fmt = "TXT" /\ StartTxt(r, more)
  <2>1. /\ chain' = chain
        /\ thread' = [pc |-> "append", rec |-> r, file |-> TargetOf("TXT"), more |-> more]
    BY <1>5 DEF StartTxt
  <2>2. TargetOf("TXT")[2] = "TXT"
    BY DEF TargetOf
  <2>3. Current' = j
    BY <1>5, <2>1, <2>2 DEF Current
  <2>4. /\ thread'.pc = "append" /\ thread'.rec = r /\ thread'.more = more
        /\ thread'.file = TargetOf(fmt)
    BY <1>5, <2>1
  <2>5. \A f, i : TaskJob(f, i)' = TaskJob(f, i)
    BY <2>1 DEF TaskJob
  <2> HIDE DEF j
  <2>6. OneTask'
    <3> SUFFICES ASSUME NEW f \in File, NEW g \in File,
                        NEW i \in DOMAIN chain[f], NEW k \in DOMAIN chain[g],
                        TaskJob(f, i) = TaskJob(g, k), manual'[TaskJob(f, i)] = 0
                 PROVE  f = g /\ i = k
      BY <2>1, <2>5 DEF OneTask
    <3>1. manual[TaskJob(f, i)] = 0
      BY <1>1, <1>4
    <3> QED
      BY <1>1, <3>1 DEF Single, OneTask
  <2>7. NotBoth' /\ TaskStored'
    BY <1>4, <2>1, <2>3, <2>5 DEF NotBoth, TaskStored
  <2>8. ThreadStored'
    BY <1>2, <2>3, <2>4 DEF ThreadStored
  <2>9. SecondIsNew'
    <3>1. <<r, "XLSX">> \in Job /\ <<r, "XLSX">> # j
      BY <1>5 DEF Job, Format, j
    <3>2. more => job'[<<r, "XLSX">>] = NoJob
      BY <1>2, <1>5, <3>1
    <3> QED
      BY <2>4, <3>2 DEF SecondIsNew, SecondToCome
  <2> QED
    BY <1>3, <2>6, <2>7, <2>8, <2>9 DEF Single
<1>6. CASE fmt = "XLSX" /\ StartXlsx(r)
  <2> DEFINE e == [rec |-> r, pc |-> "queued", rows |-> NoRows]
             x == TargetOf("XLSX")
  <2>1. /\ e \in Task /\ x \in File /\ x[2] = "XLSX"
        /\ chain' = [chain EXCEPT ![x] = Append(@, e)]
        /\ thread' = Idle
        /\ e.rec = r
    BY <1>1, <1>6, StartXlsxTypes
  <2>2. <<e.rec, x[2]>> = j
    BY <1>6, <2>1
  <2>3. ~OnThread' /\ ~SecondToCome'
    BY <2>1 DEF OnThread, SecondToCome, Idle
  <2>4. job'[j].status = "WRITING" /\ job'[j].target = x
    BY <1>2, <1>6
  <2> HIDE DEF e, x, j
  <2>5. \A g \in File : \A i \in DOMAIN chain'[g] :
          \/ i \in DOMAIN chain[g] /\ chain'[g][i] = chain[g][i]
          \/ g = x /\ i = Len(chain[x]) + 1 /\ chain'[g][i] = e
    BY <1>1, <2>1, TasksAfterAppend
  <2>6. ASSUME NEW g \in File, NEW i \in DOMAIN chain'[g]
        PROVE  \/ i \in DOMAIN chain[g] /\ TaskJob(g, i)' = TaskJob(g, i)
               \/ g = x /\ i = Len(chain[x]) + 1 /\ TaskJob(g, i)' = j
    BY <2>2, <2>5 DEF TaskJob
  <2>7. OneTask'
    <3> SUFFICES ASSUME NEW f \in File, NEW g \in File,
                        NEW i \in DOMAIN chain'[f], NEW k \in DOMAIN chain'[g],
                        TaskJob(f, i)' = TaskJob(g, k)', manual'[TaskJob(f, i)'] = 0
                 PROVE  f = g /\ i = k
      BY DEF OneTask
    <3>1. CASE /\ i \in DOMAIN chain[f] /\ TaskJob(f, i)' = TaskJob(f, i)
               /\ k \in DOMAIN chain[g] /\ TaskJob(g, k)' = TaskJob(g, k)
      <4>1. manual[TaskJob(f, i)] = 0
        BY <1>1, <1>4, <3>1
      <4> QED
        BY <1>1, <3>1, <4>1 DEF Single, OneTask
    <3>2. CASE i \in DOMAIN chain[f] /\ TaskJob(f, i)' = TaskJob(f, i) /\ TaskJob(g, k)' = j
      BY <1>4, <3>2
    <3>3. CASE k \in DOMAIN chain[g] /\ TaskJob(g, k)' = TaskJob(g, k) /\ TaskJob(f, i)' = j
      BY <1>4, <3>3
    <3> QED
      BY <2>6, <3>1, <3>2, <3>3
  <2>8. TaskStored'
    BY <1>4, <2>4, <2>6 DEF TaskStored
  <2> QED
    BY <1>3, <2>3, <2>7, <2>8 DEF Single, NotBoth, ThreadStored, SecondIsNew
<1> QED
  BY <1>5, <1>6

\* A task that settles hands its attempt over to the thread.
LEMMA SettleKeepsSingle ==
  ASSUME AttemptInv, NEW f \in File, chain[f] # <<>>, NEW pc \in {"save", "fail"},
         Settle(chain[f][1].rec, f, pc),
         chain' = [chain EXCEPT ![f] = Without(@, 1)],
         UNCHANGED <<job, manual, enqueued>>
  PROVE  Single'
<1>1. TypeOK /\ Single
  BY DEF AttemptInv, TypeInv
<1>2. 1 \in DOMAIN chain[f]
  BY <1>1, HeadTask
<1>3. /\ Current' = TaskJob(f, 1) /\ thread'.file = f
      /\ thread'.more = FALSE /\ thread'.pc # "xlsx"
  BY DEF Settle, Current, TaskJob
<1>4. \A g \in File : \A i \in DOMAIN chain'[g] :
        \/ g # f /\ i \in DOMAIN chain[g] /\ chain'[g][i] = chain[g][i]
        \/ /\ g = f /\ i + 1 \in DOMAIN chain[g] /\ i + 1 # 1
           /\ chain'[g][i] = chain[g][i + 1]
  BY <1>1, TasksLeft
<1>5. ASSUME NEW g \in File, NEW i \in DOMAIN chain'[g]
      PROVE  \/ g # f /\ i \in DOMAIN chain[g] /\ TaskJob(g, i)' = TaskJob(g, i)
             \/ /\ g = f /\ i + 1 \in DOMAIN chain[f] /\ i + 1 # 1
                /\ TaskJob(g, i)' = TaskJob(f, i + 1)
  BY <1>4 DEF TaskJob
<1>6. \A g \in File : \A i \in DOMAIN chain'[g] : i \in Int
  <2>1. chain' \in [File -> Seq(Task)]
    BY <1>1, TasksLeft
  <2> QED
    BY <2>1, LenProperties
<1>7. OneTask'
  <2> SUFFICES ASSUME NEW g \in File, NEW h \in File,
                      NEW i \in DOMAIN chain'[g], NEW k \in DOMAIN chain'[h],
                      TaskJob(g, i)' = TaskJob(h, k)', manual[TaskJob(g, i)'] = 0
               PROVE  g = h /\ i = k
    BY DEF OneTask
  <2>1. CASE g = f /\ h = f
    <3>1. /\ i + 1 \in DOMAIN chain[f] /\ TaskJob(g, i)' = TaskJob(f, i + 1)
          /\ k + 1 \in DOMAIN chain[f] /\ TaskJob(h, k)' = TaskJob(f, k + 1)
      BY <1>5, <2>1
    <3>2. TaskJob(f, i + 1) = TaskJob(f, k + 1) /\ manual[TaskJob(f, i + 1)] = 0
      BY <3>1
    <3>3. \A a, b \in DOMAIN chain[f] :
            TaskJob(f, a) = TaskJob(f, b) /\ manual[TaskJob(f, a)] = 0 => a = b
      BY <1>1 DEF Single, OneTask
    <3>4. i + 1 = k + 1
      BY <3>1, <3>2, <3>3, Zenon
    <3> QED
      BY <1>6, <2>1, <3>4
  <2>2. CASE g = f /\ h # f
    <3>1. /\ i + 1 \in DOMAIN chain[f] /\ TaskJob(g, i)' = TaskJob(f, i + 1)
          /\ k \in DOMAIN chain[h] /\ TaskJob(h, k)' = TaskJob(h, k)
      BY <1>5, <2>2
    <3> QED
      BY <1>1, <2>2, <3>1, ZenonT(30) DEF Single, OneTask
  <2>3. CASE g # f /\ h = f
    <3>1. /\ i \in DOMAIN chain[g] /\ TaskJob(g, i)' = TaskJob(g, i)
          /\ k + 1 \in DOMAIN chain[f] /\ TaskJob(h, k)' = TaskJob(f, k + 1)
      BY <1>5, <2>3
    <3> QED
      BY <1>1, <2>3, <3>1 DEF Single, OneTask
  <2>4. CASE g # f /\ h # f
    <3>1. /\ i \in DOMAIN chain[g] /\ TaskJob(g, i)' = TaskJob(g, i)
          /\ k \in DOMAIN chain[h] /\ TaskJob(h, k)' = TaskJob(h, k)
      BY <1>5, <2>4
    <3>2. TaskJob(g, i) = TaskJob(h, k) /\ manual[TaskJob(g, i)] = 0
      BY <3>1
    <3>3. \A a \in DOMAIN chain[g], b \in DOMAIN chain[h] :
            TaskJob(g, a) = TaskJob(h, b) /\ manual[TaskJob(g, a)] = 0 => g = h /\ a = b
      BY <1>1 DEF Single, OneTask
    <3> QED
      BY <3>1, <3>2, <3>3
  <2> QED
    BY <2>1, <2>2, <2>3, <2>4
<1>8. NotBoth'
  <2> SUFFICES ASSUME NEW g \in File, NEW i \in DOMAIN chain'[g],
                      TaskJob(g, i)' = TaskJob(f, 1), manual[TaskJob(f, 1)] = 0
               PROVE  FALSE
    BY <1>3 DEF NotBoth
  <2> QED
    BY <1>1, <1>2, <1>5 DEF Single, OneTask
<1>9. TaskStored'
  BY <1>1, <1>5 DEF Single, TaskStored
<1>10. ThreadStored'
  BY <1>1, <1>2, <1>3 DEF Single, ThreadStored, TaskStored
<1> QED
  BY <1>1, <1>3, <1>7, <1>8, <1>9, <1>10
     DEF Single, JobsEnqueued, SecondIsNew, SecondToCome

\* A step that starts no attempt, ends one at most, and stores no outcome.
LEMMA QuietKeepsSingle ==
  ASSUME AttemptInv,
         \A f \in File : \A i \in DOMAIN chain'[f] :
           i \in DOMAIN chain[f] /\ chain'[f][i].rec = chain[f][i].rec,
         UNCHANGED <<manual, enqueued>>,
         \A j \in Job : /\ job'[j].status = job[j].status
                        /\ job'[j] = NoJob <=> job[j] = NoJob
                        /\ job[j] # NoJob => job'[j].target = job[j].target,
         OnThread' => /\ OnThread
                      /\ thread'.rec = thread.rec /\ thread'.file = thread.file
                      /\ thread'.more = thread.more,
         thread'.pc = "xlsx" => SecondToCome /\ thread'.rec = thread.rec
  PROVE  Single'
<1>1. TypeOK /\ Single /\ JobsExist
  BY DEF AttemptInv, TypeInv
<1>2. ASSUME NEW f \in File, NEW i \in DOMAIN chain'[f]
      PROVE  /\ i \in DOMAIN chain[f] /\ TaskJob(f, i)' = TaskJob(f, i)
             /\ TaskJob(f, i) \in Job /\ job[TaskJob(f, i)] # NoJob
  <2>1. i \in DOMAIN chain[f] /\ TaskJob(f, i)' = TaskJob(f, i)
    BY DEF TaskJob
  <2> QED
    BY <1>1, <2>1, TaskTypes, NoJobIsNoRow DEF JobsExist, TaskJob
<1>3. ASSUME OnThread'
      PROVE  OnThread /\ Current' = Current /\ Current \in Job /\ job[Current] # NoJob
  <2>1. OnThread /\ Current' = Current
    BY <1>3 DEF Current
  <2> QED
    BY <1>1, <2>1, ThreadTypes, NoJobIsNoRow DEF JobsExist, OnThread
<1>4. OneTask'
  BY <1>1, <1>2 DEF Single, OneTask
<1>5. NotBoth'
  BY <1>1, <1>2, <1>3 DEF Single, NotBoth
<1>6. TaskStored'
  BY <1>1, <1>2 DEF Single, TaskStored
<1>7. ThreadStored'
  BY <1>1, <1>3 DEF Single, ThreadStored
<1>8. JobsEnqueued'
  BY <1>1 DEF Single, JobsEnqueued
<1>9. SecondIsNew'
  <2> SUFFICES ASSUME SecondToCome'
               PROVE  thread'.rec \in enqueued' /\ job'[<<thread'.rec, "XLSX">>] = NoJob
    BY DEF SecondIsNew
  <2>1. SecondToCome /\ thread'.rec = thread.rec
    BY DEF SecondToCome
  <2>2. thread.rec \in Record
    BY <1>1, <2>1, ThreadTypes DEF SecondToCome, OnThread, Attempt, SecondFormat
  <2>3. <<thread.rec, "XLSX">> \in Job
    BY <2>2 DEF Job, Format
  <2> QED
    BY <1>1, <2>1, <2>3 DEF Single, SecondIsNew
<1> QED
  BY <1>4, <1>5, <1>6, <1>7, <1>8, <1>9 DEF Single

\* An attempt ends and its outcome is stored.
LEMMA EndKeepsSingle ==
  ASSUME AttemptInv, OnThread, GoOn, UNCHANGED <<chain, manual, enqueued>>,
         NEW status \in {"SAVED", "FAILED"},
         job' = [job EXCEPT ![Current] = [@ EXCEPT !.status = status, !.due = FALSE]]
  PROVE  Single'
<1>1. TypeOK /\ Single /\ JobsExist
  BY DEF AttemptInv, TypeInv
<1>2. thread \in Attempt /\ Current \in Job /\ job[Current] \in JobRow
  BY <1>1, ThreadTypes DEF OnThread, JobsExist
<1>3. \A j \in Job : j # Current => job'[j] = job[j]
  BY <1>1 DEF TypeOK
<1>4. ~OnThread' /\ (thread'.pc = "xlsx" => thread.more /\ thread'.rec = thread.rec)
  BY <1>2 DEF GoOn, OnThread, Idle
<1>5. \A f \in File : \A i \in DOMAIN chain[f] :
        TaskJob(f, i)' = TaskJob(f, i) /\ TaskJob(f, i) \in Job
  BY <1>1, TaskTypes DEF TaskJob
<1>6. OneTask'
  BY <1>1, <1>5 DEF Single, OneTask
<1>7. TaskStored'
  <2> SUFFICES ASSUME NEW f \in File, NEW i \in DOMAIN chain[f], manual[TaskJob(f, i)] = 0
               PROVE  job'[TaskJob(f, i)].status = "WRITING" /\ job'[TaskJob(f, i)].target = f
    BY <1>5 DEF TaskStored
  <2>1. TaskJob(f, i) # Current
    BY <1>1 DEF Single, NotBoth
  <2> QED
    BY <1>1, <1>3, <1>5, <2>1 DEF Single, TaskStored
<1>8. JobsEnqueued'
  BY <1>1, <1>2, <1>3, NoJobIsNoRow DEF Single, JobsEnqueued
<1>9. SecondIsNew'
  <2> SUFFICES ASSUME SecondToCome'
               PROVE  thread'.rec \in enqueued' /\ job'[<<thread'.rec, "XLSX">>] = NoJob
    BY DEF SecondIsNew
  <2>1. SecondToCome /\ thread'.rec = thread.rec
    BY <1>4 DEF SecondToCome
  <2>2. thread.rec \in enqueued /\ job[<<thread.rec, "XLSX">>] = NoJob
    BY <1>1, <2>1 DEF Single, SecondIsNew
  <2>3. <<thread.rec, "XLSX">> \in Job /\ <<thread.rec, "XLSX">> # Current
    BY <1>2, <2>2, NoJobIsNoRow DEF Attempt, Job, Format
  <2> QED
    BY <1>3, <2>1, <2>2, <2>3
<1> QED
  BY <1>4, <1>6, <1>7, <1>8, <1>9 DEF Single, NotBoth, ThreadStored

LEMMA AttemptInit == Init => AttemptInv
<1> SUFFICES ASSUME Init PROVE AttemptInv
  OBVIOUS
<1>1. TypeInv /\ \A f \in File : DOMAIN chain[f] = {}
  BY TypeInit, EmptySeq DEF Init
<1>2. ~OnThread /\ ~SecondToCome
  BY DEF Init, OnThread, SecondToCome, Idle
<1>3. \A j \in Job : job[j] = NoJob
  BY DEF Init
<1> QED
  BY <1>1, <1>2, <1>3
     DEF AttemptInv, Single, OneTask, NotBoth, TaskStored, ThreadStored,
         JobsEnqueued, SecondIsNew

\* Every step keeps the attempts apart.
LEMMA AttemptStep == AttemptInv /\ [Next]_vars => AttemptInv'
<1> SUFFICES ASSUME AttemptInv, [Next]_vars PROVE Single'
  BY TypeStep DEF AttemptInv
<1> USE DEF database, disk
<1>t. TypeInv /\ TypeOK /\ Single /\ JobsExist
  BY DEF AttemptInv, TypeInv
\* A job without a row, or with a FAILED one, has no attempt under way.
<1>n. ASSUME NEW j \in Job, job[j] = NoJob \/ (manual[j] = 0 /\ job[j].status = "FAILED"),
             NEW f \in File, NEW i \in DOMAIN chain[f]
      PROVE  TaskJob(f, i) # j
  <2>1. job[TaskJob(f, i)] # NoJob
    BY <1>t, NoJobIsNoRow DEF JobsExist, TaskJob
  <2>2. manual[TaskJob(f, i)] = 0 => job[TaskJob(f, i)].status = "WRITING"
    BY <1>t DEF Single, TaskStored
  <2> QED
    BY <1>n, <2>1, <2>2
<1>m. \A j \in Job : job[j] = NoJob =>
        \A f \in File : \A i \in DOMAIN chain[f] : TaskJob(f, i) # j
  BY <1>n
<1>q. ASSUME UNCHANGED <<manual, enqueued, job, chain>>,
             OnThread' => /\ OnThread
                          /\ thread'.rec = thread.rec /\ thread'.file = thread.file
                          /\ thread'.more = thread.more,
             thread'.pc = "xlsx" => SecondToCome /\ thread'.rec = thread.rec
      PROVE  Single'
  BY <1>q, QuietKeepsSingle
<1>1. ASSUME NEW r \in Record, EnqueueForRecord(r) PROVE Single'
  <2>1. ~OnThread /\ ~SecondToCome /\ r \notin enqueued
    BY <1>1 DEF EnqueueForRecord, OnThread, SecondToCome, Idle
  <2>2. enqueued' = enqueued \cup {r} /\ manual' = manual
    BY <1>1 DEF EnqueueForRecord
  <2>3. CASE UNCHANGED <<job, chain, thread>>
    <3>1. ~OnThread' /\ ~SecondToCome' /\ \A f, i : TaskJob(f, i)' = TaskJob(f, i)
      BY <2>1, <2>3 DEF OnThread, SecondToCome, TaskJob
    <3> QED
      BY <1>t, <2>2, <2>3, <3>1
         DEF Single, OneTask, NotBoth, TaskStored, ThreadStored, JobsEnqueued, SecondIsNew
  <2>4. ASSUME NEW fmt \in Format
        PROVE  <<r, fmt>> \in Job /\ job[<<r, fmt>>] = NoJob
    BY <1>t, <2>1 DEF Single, JobsEnqueued, Job
  <2>5. settings.xlsx \in BOOLEAN /\ "TXT" \in Format /\ "XLSX" \in Format
    BY <1>t DEF TypeOK, Settings, Format
  <2>6. \A fmt \in Format : \A f \in File : \A i \in DOMAIN chain[f] :
          TaskJob(f, i) # <<r, fmt>>
    BY <1>m, <2>4
  <2>7. CASE StartTxt(r, settings.xlsx)
    BY <2>1, <2>2, <2>4, <2>5, <2>6, <2>7, StartKeepsSingle
  <2>8. CASE StartXlsx(r)
    BY <2>1, <2>2, <2>4, <2>5, <2>6, <2>8, StartKeepsSingle
  <2> QED
    BY <1>1, <2>3, <2>7, <2>8 DEF EnqueueForRecord
<1>2. ASSUME NEW j \in Job, ~OnThread, StartAttempt(j), job[j] # NoJob,
             enqueued' = enqueued,
             \A k \in Job : manual'[k] = 0 => manual[k] = 0,
             manual'[j] = 0 => \A f \in File : \A i \in DOMAIN chain[f] : TaskJob(f, i) # j
      PROVE  Single'
  <2>1. j[1] \in Record /\ j[2] \in Format /\ j = <<j[1], j[2]>> /\ FALSE \in BOOLEAN
    BY DEF Job
  <2>2. j[1] \in enqueued'
    BY <1>t, <1>2 DEF Single, JobsEnqueued
  <2>3. \/ j[2] = "TXT" /\ StartTxt(j[1], FALSE)
        \/ j[2] = "XLSX" /\ StartXlsx(j[1])
    BY <1>2, <2>1 DEF StartAttempt, Format
  <2>4. manual'[<<j[1], j[2]>>] = 0 =>
          \A f \in File : \A i \in DOMAIN chain[f] : TaskJob(f, i) # <<j[1], j[2]>>
    BY <1>2, <2>1
  <2> HIDE DEF StartAttempt
  <2> QED
    BY <1>2, <2>1, <2>2, <2>3, <2>4, StartKeepsSingle
<1>3. ASSUME NEW j \in Job, ProcessDueRetry(j) PROVE Single'
  <2>1. /\ ~OnThread /\ StartAttempt(j) /\ manual' = manual /\ enqueued' = enqueued
        /\ job[j].status = "FAILED"
    BY <1>3 DEF ProcessDueRetry, IsDue, OnThread, Idle
  <2>2. job[j] # NoJob
    BY <2>1 DEF NoJob
  <2>3. manual'[j] = 0 => \A f \in File : \A i \in DOMAIN chain[f] : TaskJob(f, i) # j
    BY <1>n, <2>1
  <2> QED
    BY <1>2, <2>1, <2>2, <2>3
<1>4. ASSUME NEW j \in Job, RetryNow(j) PROVE Single'
  <2>1. /\ ~OnThread /\ StartAttempt(j) /\ enqueued' = enqueued
        /\ manual' = [manual EXCEPT ![j] = @ + 1]
        /\ job[j] # NoJob
    BY <1>4 DEF RetryNow, OnThread, Idle
  <2>2. manual'[j] # 0 /\ \A k \in Job : manual'[k] = 0 => manual[k] = 0
    BY <1>t, <2>1 DEF TypeOK
  <2> QED
    BY <1>2, <2>1, <2>2
<1>5. ASSUME NEW j \in Job, RetryDelayPasses(j) PROVE Single'
  <2>1. UNCHANGED <<manual, enqueued, chain, thread>>
    BY <1>5 DEF RetryDelayPasses
  <2>2. /\ job[j] \in JobRow \cup {NoJob} /\ job[j].status = "FAILED"
        /\ job' = [job EXCEPT ![j] = [job[j] EXCEPT !.due = TRUE]]
    BY <1>5, <1>t DEF TypeOK, RetryDelayPasses
  <2>3. job[j] \in JobRow /\ job[j] # NoJob
    BY <2>2 DEF NoJob
  <2>4. /\ job'[j] = [job[j] EXCEPT !.due = TRUE]
        /\ \A k \in Job : k # j => job'[k] = job[k]
    BY <1>t, <2>2 DEF TypeOK
  <2>5. job'[j].status = job[j].status /\ job'[j].target = job[j].target /\ job'[j] # NoJob
    BY <2>2, <2>3, <2>4 DEF JobRow, NoJob
  <2>6. \A k \in Job : /\ job'[k].status = job[k].status
                       /\ job'[k] = NoJob <=> job[k] = NoJob
                       /\ job[k] # NoJob => job'[k].target = job[k].target
    BY <2>3, <2>4, <2>5
  <2> QED
    BY <2>1, <2>6, QuietKeepsSingle DEF OnThread, SecondToCome
<1>6. ASSUME AppendTxtRow PROVE Single'
  <2>1. thread \in Attempt /\ OnThread
    BY <1>6, <1>t, ThreadTypes DEF AppendTxtRow, OnThread
  <2>2. /\ thread'.rec = thread.rec /\ thread'.file = thread.file
        /\ thread'.more = thread.more /\ thread'.pc # "xlsx"
    BY <1>6, <2>1 DEF AppendTxtRow, Attempt
  <2> QED
    BY <1>6, <1>q, <2>1, <2>2 DEF AppendTxtRow
<1>7. ASSUME EnqueueXlsx PROVE Single'
  <2>1. thread.rec \in Record /\ StartXlsx(thread.rec) /\ ~OnThread /\ SecondToCome
    BY <1>7, <1>t, ThreadTypes DEF EnqueueXlsx, SecondFormat, OnThread, SecondToCome
  <2>2. thread.rec \in enqueued /\ job[<<thread.rec, "XLSX">>] = NoJob
    BY <1>t, <2>1 DEF Single, SecondIsNew
  <2>3. "XLSX" \in Format /\ <<thread.rec, "XLSX">> \in Job /\ FALSE \in BOOLEAN
    BY <2>1 DEF Format, Job
  <2>4. \A f \in File : \A i \in DOMAIN chain[f] : TaskJob(f, i) # <<thread.rec, "XLSX">>
    BY <1>m, <2>2, <2>3
  <2>5. manual' = manual /\ enqueued' = enqueued
    BY <1>7 DEF EnqueueXlsx
  <2> QED
    BY <2>1, <2>2, <2>3, <2>4, <2>5, StartKeepsSingle
<1>8. ASSUME NEW f \in File, chain[f] # <<>>, NEW pc \in {"save", "fail"},
             Settle(chain[f][1].rec, f, pc),
             chain' = [chain EXCEPT ![f] = Without(@, 1)],
             UNCHANGED <<job, manual, enqueued>>
      PROVE  Single'
  BY <1>8, SettleKeepsSingle
<1>9. ASSUME NEW f \in File, NEW t \in Task, chain[f] # <<>>, t.rec = chain[f][1].rec,
             chain' = [chain EXCEPT ![f] = [@ EXCEPT ![1] = t]],
             UNCHANGED <<job, manual, enqueued, thread>>
      PROVE  Single'
  <2>1. \A g \in File : \A i \in DOMAIN chain'[g] :
          /\ i \in DOMAIN chain[g]
          /\ chain'[g][i] = IF g = f /\ i = 1 THEN t ELSE chain[g][i]
    BY <1>9, <1>t, TasksAfterHead
  <2>2. \A g \in File : \A i \in DOMAIN chain'[g] :
          i \in DOMAIN chain[g] /\ chain'[g][i].rec = chain[g][i].rec
    BY <1>9, <2>1
  <2> QED
    BY <1>9, <2>2, QuietKeepsSingle DEF OnThread, SecondToCome
<1>10. ASSUME NEW f \in File, NEW i \in DOMAIN chain[f], LoadWorkbook(f, i)
       PROVE  Single'
  <2>1. i = 1 /\ chain[f] # <<>> /\ chain[f][1] \in Task
    BY <1>10, <1>t, TaskTypes DEF LoadWorkbook, Ready
  <2>2. CASE file[f].damaged
    <3>1. /\ Settle(chain[f][1].rec, f, "fail")
          /\ chain' = [chain EXCEPT ![f] = Without(@, 1)]
          /\ UNCHANGED <<job, manual, enqueued>>
      BY <1>10, <2>1, <2>2 DEF LoadWorkbook
    <3> QED
      BY <1>8, <2>1, <3>1
  <2>3. CASE ~file[f].damaged
    <3> DEFINE t == [[chain[f][1] EXCEPT !.pc = "loaded"] EXCEPT !.rows = file[f].rows]
    <3>1. file[f].rows \in Rows
      BY <1>t DEF TypeOK
    <3>2. t \in Task /\ t.rec = chain[f][1].rec
      BY <2>1, <3>1 DEF Task
    <3>3. chain' = [chain EXCEPT ![f] = [@ EXCEPT ![1] = t]]
      <4>1. chain' = [chain EXCEPT ![f][1].pc = "loaded", ![f][1].rows = file[f].rows]
        BY <1>10, <2>1, <2>3 DEF LoadWorkbook
      <4>2. chain \in [File -> Seq(Task)] /\ 1 \in DOMAIN chain[f]
        BY <1>10, <1>t, <2>1 DEF TypeOK
      <4> QED
        BY <4>1, <4>2
    <3>4. UNCHANGED <<job, manual, enqueued, thread>>
      BY <1>10, <2>3 DEF LoadWorkbook
    <3> HIDE DEF t
    <3> QED
      BY <1>9, <2>1, <3>2, <3>3, <3>4
  <2> QED
    BY <2>2, <2>3
<1>11. ASSUME NEW f \in File, NEW i \in DOMAIN chain[f], OpenForWrite(f, i)
       PROVE  Single'
  <2>1. i = 1 /\ chain[f] # <<>> /\ chain[f][1] \in Task
    BY <1>11, <1>t, TaskTypes DEF OpenForWrite, Ready
  <2>2. CASE f \in locked
    <3>1. /\ Settle(chain[f][1].rec, f, "fail")
          /\ chain' = [chain EXCEPT ![f] = Without(@, 1)]
          /\ UNCHANGED <<job, manual, enqueued>>
      BY <1>11, <2>1, <2>2 DEF OpenForWrite
    <3> QED
      BY <1>8, <2>1, <3>1
  <2>3. CASE f \notin locked
    <3> DEFINE t == [chain[f][1] EXCEPT !.pc = "writing"]
    <3>1. t \in Task /\ t.rec = chain[f][1].rec
      BY <2>1 DEF Task
    <3>2. /\ chain' = [chain EXCEPT ![f] = [@ EXCEPT ![1] = t]]
          /\ UNCHANGED <<job, manual, enqueued, thread>>
      BY <1>11, <2>1, <2>3 DEF OpenForWrite
    <3> HIDE DEF t
    <3> QED
      BY <1>9, <2>1, <3>1, <3>2
  <2> QED
    BY <2>2, <2>3
<1>12. ASSUME NEW f \in File, NEW i \in DOMAIN chain[f],
              FinishWrite(f, i) \/ WriteBreaks(f, i)
       PROVE  Single'
  <2>1. i = 1 /\ chain[f] # <<>>
    BY <1>12, <1>t, TaskTypes DEF FinishWrite, WriteBreaks, Ready
  <2>2. /\ Settle(chain[f][1].rec, f, "save") \/ Settle(chain[f][1].rec, f, "fail")
        /\ chain' = [chain EXCEPT ![f] = Without(@, 1)]
        /\ UNCHANGED <<job, manual, enqueued>>
    BY <1>12, <2>1 DEF FinishWrite, WriteBreaks
  <2> QED
    BY <1>8, <2>1, <2>2
<1>13. ASSUME Save \/ Fail PROVE Single'
  <2>1. OnThread /\ GoOn /\ UNCHANGED <<chain, manual, enqueued>>
    BY <1>13 DEF Save, Fail, OnThread
  <2>2. CASE Save
    BY <2>1, <2>2, EndKeepsSingle DEF Save
  <2>3. CASE Fail
    BY <2>1, <2>3, EndKeepsSingle DEF Fail
  <2> QED
    BY <1>13, <2>2, <2>3
<1>14. ASSUME SaveFaults PROVE Single'
  <2>1. thread \in Attempt /\ OnThread
    BY <1>14, <1>t, ThreadTypes DEF SaveFaults, OnThread
  <2>2. /\ thread'.rec = thread.rec /\ thread'.file = thread.file
        /\ thread'.more = thread.more /\ thread'.pc # "xlsx"
    BY <1>14, <2>1 DEF SaveFaults, Attempt
  <2> QED
    BY <1>14, <1>q, <2>1, <2>2 DEF SaveFaults
<1>15. ASSUME FailFaults PROVE Single'
  <2>1. thread \in Attempt /\ OnThread /\ GoOn
    BY <1>15, <1>t, ThreadTypes DEF FailFaults, OnThread
  <2>2. ~OnThread' /\ (thread'.pc = "xlsx" => SecondToCome /\ thread'.rec = thread.rec)
    BY <2>1 DEF GoOn, OnThread, SecondToCome, Idle
  <2> QED
    BY <1>15, <1>q, <2>2 DEF FailFaults
<1>16. ASSUME \/ SaveStorageSettings
              \/ \E f \in File : Lock(f) \/ Unlock(f)
              \/ UNCHANGED vars
       PROVE  Single'
  <2>1. UNCHANGED <<manual, enqueued, job, chain, thread>>
    BY <1>16 DEF SaveStorageSettings, Lock, Unlock, vars
  <2> QED
    BY <1>q, <2>1 DEF OnThread, SecondToCome
<1>17. ASSUME Crash PROVE Single'
  <2>1. \A f \in File : DOMAIN chain'[f] = {}
    BY <1>17, EmptySeq DEF Crash
  <2>2. ~OnThread' /\ thread'.pc # "xlsx" /\ UNCHANGED <<manual, enqueued, job>>
    BY <1>17 DEF Crash, OnThread, Idle
  <2> QED
    BY <2>1, <2>2, QuietKeepsSingle
<1> QED
  BY <1>1, <1>3, <1>4, <1>5, <1>6, <1>7, <1>10, <1>11, <1>12, <1>13, <1>14, <1>15,
     <1>16, <1>17 DEF Next

LEMMA AttemptInvariant == Spec => []AttemptInv
<1> QED
  BY AttemptInit, AttemptStep, PTL DEF Spec

\* The attempts Waiting counts are the tasks of the chains.
LEMMA WaitingTasks ==
  ASSUME NEW j \in Job
  PROVE  /\ \A p \in Waiting(j) :
              \E f \in File : \E i \in DOMAIN chain[f] : p = <<f, i>> /\ TaskJob(f, i) = j
         /\ \A f \in File : \A i \in DOMAIN chain[f] :
              TaskJob(f, i) = j => <<f, i>> \in Waiting(j)
<1>1. j[1] \in Record /\ j[2] \in Format /\ j = <<j[1], j[2]>>
  BY DEF Job
<1>2. ASSUME NEW p \in Waiting(j)
      PROVE  \E f \in File : \E i \in DOMAIN chain[f] : p = <<f, i>> /\ TaskJob(f, i) = j
  <2>1. PICK f \in Root \X {j[2]} : p \in {f} \X DOMAIN chain[f]
    BY DEF Waiting
  <2>2. f \in File /\ f[2] = j[2]
    BY <1>1, <2>1 DEF File
  <2>3. PICK i \in DOMAIN chain[f] : p = <<f, i>>
    BY <2>1
  <2>4. chain[f][i].rec = j[1]
    BY <2>3 DEF Waiting
  <2> QED
    BY <1>1, <2>2, <2>3, <2>4 DEF TaskJob
<1>3. ASSUME NEW f \in File, NEW i \in DOMAIN chain[f], TaskJob(f, i) = j
      PROVE  <<f, i>> \in Waiting(j)
  <2>1. chain[f][i].rec = j[1] /\ f[2] = j[2]
    BY <1>3 DEF TaskJob
  <2>2. f \in Root \X {j[2]}
    BY <2>1 DEF File
  <2>3. <<f, i>> \in UNION {{g} \X DOMAIN chain[g] : g \in Root \X {j[2]}}
    <3>1. <<f, i>> \in {f} \X DOMAIN chain[f]
      OBVIOUS
    <3> QED
      BY <2>2, <3>1
  <2> QED
    BY <2>1, <2>3 DEF Waiting
<1> QED
  BY <1>2, <1>3

\* The attempt on the thread is the one InThread asks for.
LEMMA ThreadJob ==
  ASSUME TypeOK, NEW j \in Job
  PROVE  InThread(j, {"append", "save", "fail"}) <=> OnThread /\ Current = j
  BY DEF InThread, OnThread, Current, Job

LEMMA InFlightTasks ==
  ASSUME TypeOK, NEW j \in Job
  PROVE  InFlight(j) <=> \/ \E f \in File : \E i \in DOMAIN chain[f] : TaskJob(f, i) = j
                         \/ OnThread /\ Current = j
<1>1. /\ \A p \in Waiting(j) :
           \E f \in File : \E i \in DOMAIN chain[f] : p = <<f, i>> /\ TaskJob(f, i) = j
      /\ \A f \in File : \A i \in DOMAIN chain[f] :
           TaskJob(f, i) = j => <<f, i>> \in Waiting(j)
  BY WaitingTasks
<1>2. Waiting(j) # {} <=> \E f \in File : \E i \in DOMAIN chain[f] : TaskJob(f, i) = j
  BY <1>1
<1> QED
  BY <1>2, ThreadJob DEF InFlight

\* No timer and no second call starts an attempt of a job while another one is
\* under way: two of them need a retry by hand, in every reachable state.
THEOREM OneAttempt == Spec => []OneAttemptAtATime
<1>1. ASSUME AttemptInv, NEW j \in Job, manual[j] = 0
      PROVE  Cardinality(Waiting(j))
               + (IF InThread(j, {"append", "save", "fail"}) THEN 1 ELSE 0) <= 1
  <2>1. TypeOK /\ Single
    BY <1>1 DEF AttemptInv, TypeInv
  <2>2. \A p, q \in Waiting(j) : p = q
    <3> SUFFICES ASSUME NEW p \in Waiting(j), NEW q \in Waiting(j) PROVE p = q
      OBVIOUS
    <3>1. PICK f \in File : \E i \in DOMAIN chain[f] : p = <<f, i>> /\ TaskJob(f, i) = j
      BY <2>1, WaitingTasks
    <3>2. PICK i \in DOMAIN chain[f] : p = <<f, i>> /\ TaskJob(f, i) = j
      BY <3>1
    <3>3. PICK g \in File : \E k \in DOMAIN chain[g] : q = <<g, k>> /\ TaskJob(g, k) = j
      BY <2>1, WaitingTasks
    <3>4. PICK k \in DOMAIN chain[g] : q = <<g, k>> /\ TaskJob(g, k) = j
      BY <3>3
    <3>5. f = g /\ i = k
      BY <1>1, <2>1, <3>2, <3>4 DEF Single, OneTask
    <3> QED
      BY <3>2, <3>4, <3>5
  <2>3. CASE Waiting(j) = {}
    <3>1. Cardinality(Waiting(j)) = 0
      BY <2>3, FS_EmptySet
    <3> QED
      BY <3>1
  <2>4. CASE Waiting(j) # {}
    <3>1. PICK p : Waiting(j) = {p}
      BY <2>2, <2>4
    <3>2. Cardinality(Waiting(j)) = 1
      BY <3>1, FS_Singleton
    <3>3. ~InThread(j, {"append", "save", "fail"})
      BY <1>1, <2>1, <2>4, WaitingTasks, ThreadJob DEF Single, NotBoth
    <3> QED
      BY <3>2, <3>3
  <2> QED
    BY <2>3, <2>4
<1>2. AttemptInv => OneAttemptAtATime
  BY <1>1 DEF OneAttemptAtATime
<1> QED
  BY <1>2, AttemptInvariant, PTL

-----------------------------------------------------------------------------
(* No job is stuck without a reason.                                       *)

UnderWay(j) ==
  \/ \E f \in File : \E i \in DOMAIN chain[f] : TaskJob(f, i) = j
  \/ OnThread /\ Current = j

StuckInv == TypeInv /\ \A j \in Job : job[j].status = "WRITING" => UnderWay(j) \/ j \in lost

\* The tasks that have not settled are all still there.
LEMMA TasksRemain ==
  ASSUME TypeOK, NEW f \in File, chain[f] # <<>>,
         chain' = [chain EXCEPT ![f] = Without(@, 1)]
  PROVE  \A g \in File : \A i \in DOMAIN chain[g] :
           \/ g = f /\ i = 1
           \/ \E k \in DOMAIN chain'[g] : TaskJob(g, k)' = TaskJob(g, i)
<1>1. chain \in [File -> Seq(Task)]
  BY DEF TypeOK
<1>2. /\ Without(chain[f], 1) \in Seq(Task)
      /\ Len(Without(chain[f], 1)) = Len(chain[f]) - 1
      /\ \A i \in 1..(Len(chain[f]) - 1) : Without(chain[f], 1)[i] = chain[f][i + 1]
  BY <1>1, WithoutFirst
<1>3. ASSUME NEW i \in DOMAIN chain[f], i # 1
      PROVE  \E k \in DOMAIN chain'[f] : TaskJob(f, k)' = TaskJob(f, i)
  <2>1. i \in 2..Len(chain[f]) /\ Len(chain[f]) \in Nat
    BY <1>1, <1>3, LenProperties
  <2>2. i - 1 \in 1..(Len(chain[f]) - 1) /\ (i - 1) + 1 = i
    BY <2>1
  <2>3. chain'[f] = Without(chain[f], 1)
    BY <1>1
  <2>4. i - 1 \in DOMAIN chain'[f]
    BY <1>2, <2>2, <2>3, LenProperties
  <2>5. chain'[f][i - 1] = chain[f][i]
    BY <1>2, <2>2, <2>3
  <2> QED
    BY <2>4, <2>5 DEF TaskJob
<1>4. ASSUME NEW g \in File, g # f, NEW i \in DOMAIN chain[g]
      PROVE  i \in DOMAIN chain'[g] /\ TaskJob(g, i)' = TaskJob(g, i)
  BY <1>1, <1>4 DEF TaskJob
<1> QED
  BY <1>3, <1>4

\* No attempt ends, so no job gets stuck.
LEMMA UnderWayStays ==
  ASSUME StuckInv, lost \subseteq lost',
         \A f \in File : \A i \in DOMAIN chain[f] :
           i \in DOMAIN chain'[f] /\ chain'[f][i].rec = chain[f][i].rec,
         OnThread => \/ OnThread' /\ Current' = Current
                     \/ Current \in lost'
                     \/ Current \in Job => job'[Current].status # "WRITING",
         NEW j \in Job, job'[j].status = "WRITING", job[j].status = "WRITING"
  PROVE  UnderWay(j)' \/ j \in lost'
<1>1. CASE j \in lost
  BY <1>1
<1>2. ASSUME NEW f \in File, NEW i \in DOMAIN chain[f], TaskJob(f, i) = j
      PROVE  UnderWay(j)'
  <2>1. i \in DOMAIN chain'[f] /\ TaskJob(f, i)' = j
    BY <1>2 DEF TaskJob
  <2> QED
    BY <2>1 DEF UnderWay
<1>3. CASE OnThread /\ Current = j
  BY <1>3 DEF UnderWay
<1> QED
  BY <1>1, <1>2, <1>3 DEF StuckInv, UnderWay

\* An attempt that starts is under way, and ends no other.
LEMMA StartUnderWay ==
  ASSUME StuckInv, ~OnThread, lost' = lost, NEW r \in Record, NEW more \in BOOLEAN,
         StartTxt(r, more) \/ StartXlsx(r),
         NEW j \in Job, job'[j].status = "WRITING"
  PROVE  UnderWay(j)' \/ j \in lost'
<1>1. TypeInv /\ TypeOK
  BY DEF StuckInv, TypeInv
<1>2. CASE StartTxt(r, more)
  <2>1. /\ chain' = chain /\ thread'.pc = "append"
        /\ thread'.rec = r /\ thread'.file[2] = "TXT"
        /\ thread' \in Attempt
    BY <1>1, <1>2, StartTxtTypes
  <2>2. Current' = <<r, "TXT">> /\ OnThread'
    BY <2>1 DEF Current, OnThread
  <2>3. CASE j = <<r, "TXT">>
    BY <2>2, <2>3 DEF UnderWay
  <2>4. CASE j # <<r, "TXT">>
    <3>1. job'[j] = job[j]
      BY <1>1, <1>2, <2>4 DEF TypeOK, StartTxt, Writing
    <3> QED
      BY <2>1, <3>1, UnderWayStays
  <2> QED
    BY <2>3, <2>4
<1>3. CASE StartXlsx(r)
  <2> DEFINE e == [rec |-> r, pc |-> "queued", rows |-> NoRows]
             x == TargetOf("XLSX")
  <2>1. /\ e \in Task /\ x \in File /\ x[2] = "XLSX"
        /\ chain' = [chain EXCEPT ![x] = Append(@, e)]
        /\ e.rec = r
    BY <1>1, <1>3, StartXlsxTypes
  <2> HIDE DEF e, x
  <2>2. /\ Len(chain[x]) + 1 \in DOMAIN chain'[x]
        /\ chain'[x][Len(chain[x]) + 1] = e
        /\ \A g \in File : \A i \in DOMAIN chain[g] :
             i \in DOMAIN chain'[g] /\ chain'[g][i] = chain[g][i]
    BY <1>1, <2>1, TasksAfterAppend
  <2>3. CASE j = <<r, "XLSX">>
    <3>1. PICK g \in File : \E k \in DOMAIN chain'[g] : <<chain'[g][k].rec, g[2]>> = j
      BY <2>1, <2>2, <2>3
    <3>2. PICK k \in DOMAIN chain'[g] : <<chain'[g][k].rec, g[2]>> = j
      BY <3>1
    <3>3. TaskJob(g, k)' = j
      BY <3>2 DEF TaskJob
    <3> QED
      BY <3>3 DEF UnderWay
  <2>4. CASE j # <<r, "XLSX">>
    <3>1. job'[j] = job[j]
      BY <1>1, <1>3, <2>4 DEF TypeOK, StartXlsx, Writing
    <3> QED
      BY <2>2, <3>1, UnderWayStays
  <2> QED
    BY <2>3, <2>4
<1> QED
  BY <1>2, <1>3

\* The thread takes over the attempt of a task that settles.
LEMMA SettleUnderWay ==
  ASSUME StuckInv, thread = Idle, NEW f \in File, chain[f] # <<>>,
         NEW pc \in {"save", "fail"}, Settle(chain[f][1].rec, f, pc),
         chain' = [chain EXCEPT ![f] = Without(@, 1)], UNCHANGED <<job, lost>>,
         NEW j \in Job, job[j].status = "WRITING"
  PROVE  UnderWay(j)' \/ j \in lost'
<1>1. TypeOK /\ ~OnThread
  BY DEF StuckInv, TypeInv, OnThread, Idle
<1>2. OnThread' /\ Current' = TaskJob(f, 1)
  BY DEF Settle, OnThread, Current, TaskJob
<1>3. CASE j \in lost
  BY <1>3
<1>4. ASSUME NEW g \in File, NEW i \in DOMAIN chain[g], TaskJob(g, i) = j
      PROVE  UnderWay(j)'
  <2>1. CASE g = f /\ i = 1
    BY <1>2, <1>4, <2>1 DEF UnderWay
  <2>2. CASE \E k \in DOMAIN chain'[g] : TaskJob(g, k)' = TaskJob(g, i)
    BY <1>4, <2>2 DEF UnderWay
  <2> QED
    BY <1>1, <2>1, <2>2, TasksRemain
<1> QED
  BY <1>1, <1>3, <1>4 DEF StuckInv, UnderWay

LEMMA StuckInit == Init => StuckInv
<1> SUFFICES ASSUME Init PROVE StuckInv
  OBVIOUS
<1>1. TypeInv /\ \A j \in Job : job[j].status # "WRITING"
  BY TypeInit DEF Init, NoJob
<1> QED
  BY <1>1 DEF StuckInv

\* Every step keeps each job that is WRITING under way, or accounts for it.
LEMMA StuckStep == StuckInv /\ [Next]_vars => StuckInv'
<1> SUFFICES ASSUME StuckInv, [Next]_vars, NEW j \in Job, job'[j].status = "WRITING"
             PROVE  UnderWay(j)' \/ j \in lost'
  BY TypeStep DEF StuckInv
<1> USE DEF database, disk
<1>t. TypeInv /\ TypeOK
  BY DEF StuckInv, TypeInv
<1>q. ASSUME UNCHANGED chain, lost \subseteq lost', job'[j].status = job[j].status,
             OnThread => OnThread' /\ Current' = Current
      PROVE  UnderWay(j)' \/ j \in lost'
  BY <1>q, UnderWayStays
<1>1. ASSUME NEW r \in Record, EnqueueForRecord(r) PROVE UnderWay(j)' \/ j \in lost'
  <2>1. ~OnThread /\ lost' = lost /\ settings.xlsx \in BOOLEAN
    BY <1>1, <1>t DEF EnqueueForRecord, OnThread, Idle, TypeOK, Settings
  <2>2. CASE UNCHANGED <<job, chain, thread>>
    BY <1>q, <2>1, <2>2
  <2>3. CASE StartTxt(r, settings.xlsx) \/ StartXlsx(r)
    BY <2>1, <2>3, StartUnderWay
  <2> QED
    BY <1>1, <2>2, <2>3 DEF EnqueueForRecord
<1>2. ASSUME NEW k \in Job, ProcessDueRetry(k) \/ RetryNow(k)
      PROVE  UnderWay(j)' \/ j \in lost'
  <2>1. StartTxt(k[1], FALSE) \/ StartXlsx(k[1])
    BY <1>2 DEF ProcessDueRetry, RetryNow, StartAttempt
  <2>2. lost' = lost /\ thread = Idle
    BY <1>2 DEF ProcessDueRetry, RetryNow
  <2>3. ~OnThread
    BY <2>2 DEF OnThread, Idle
  <2>4. k[1] \in Record /\ FALSE \in BOOLEAN
    BY DEF Job
  <2> QED
    BY <2>1, <2>2, <2>3, <2>4, StartUnderWay
<1>3. ASSUME NEW k \in Job, RetryDelayPasses(k) PROVE UnderWay(j)' \/ j \in lost'
  <2>1. /\ UNCHANGED <<chain, thread, lost>>
        /\ job[k].status = "FAILED" /\ job[k] \in JobRow \cup {NoJob}
        /\ job' = [job EXCEPT ![k] = [job[k] EXCEPT !.due = TRUE]]
    BY <1>3, <1>t DEF RetryDelayPasses, TypeOK
  <2>2. job[k] \in JobRow
    BY <2>1 DEF NoJob
  <2>3. [job[k] EXCEPT !.due = TRUE].status = "FAILED"
    BY <2>1, <2>2 DEF JobRow
  <2>4. job'[j] = job[j]
    BY <1>t, <2>1, <2>3 DEF TypeOK
  <2> QED
    BY <1>q, <2>1, <2>4 DEF OnThread, Current
<1>4. ASSUME AppendTxtRow \/ SaveFaults PROVE UnderWay(j)' \/ j \in lost'
  <2>1. thread \in Attempt
    BY <1>4, <1>t, ThreadTypes DEF AppendTxtRow, SaveFaults
  <2>2. OnThread' /\ Current' = Current /\ UNCHANGED <<chain, job, lost>>
    BY <1>4, <2>1 DEF AppendTxtRow, SaveFaults, OnThread, Attempt, Current
  <2> QED
    BY <1>q, <2>2
<1>5. ASSUME EnqueueXlsx PROVE UnderWay(j)' \/ j \in lost'
  <2>1. thread.rec \in Record /\ StartXlsx(thread.rec) /\ ~OnThread /\ lost' = lost
    BY <1>5, <1>t, ThreadTypes DEF EnqueueXlsx, SecondFormat, OnThread
  <2>2. FALSE \in BOOLEAN
    OBVIOUS
  <2> QED
    BY <2>1, <2>2, StartUnderWay
<1>6. ASSUME NEW f \in File, NEW i \in DOMAIN chain[f], chain[f] # <<>>,
             NEW pc \in {"save", "fail"}, Settle(chain[f][1].rec, f, pc), thread = Idle,
             chain' = [chain EXCEPT ![f] = Without(@, 1)], UNCHANGED <<job, lost>>
      PROVE  UnderWay(j)' \/ j \in lost'
  <2>1. job[j].status = "WRITING"
    BY <1>6
  <2> QED
    BY <1>6, <2>1, SettleUnderWay
<1>7. ASSUME NEW f \in File, NEW i \in DOMAIN chain[f], LoadWorkbook(f, i)
      PROVE  UnderWay(j)' \/ j \in lost'
  <2>1. i = 1 /\ chain[f] # <<>> /\ chain[f][1] \in Task /\ thread = Idle
    BY <1>7, <1>t, TaskTypes DEF LoadWorkbook, Ready
  <2>2. CASE file[f].damaged
    <3>1. /\ Settle(chain[f][1].rec, f, "fail")
          /\ chain' = [chain EXCEPT ![f] = Without(@, 1)]
          /\ UNCHANGED <<job, lost>>
      BY <1>7, <2>1, <2>2 DEF LoadWorkbook
    <3> QED
      BY <1>6, <2>1, <3>1
  <2>3. CASE ~file[f].damaged
    <3>1. /\ chain' = [chain EXCEPT ![f][1].pc = "loaded", ![f][1].rows = file[f].rows]
          /\ UNCHANGED <<job, lost, thread>>
      BY <1>7, <2>1, <2>3 DEF LoadWorkbook
    <3>2. chain \in [File -> Seq(Task)] /\ 1 \in DOMAIN chain[f]
      BY <1>7, <1>t, <2>1 DEF TypeOK
    <3>3. chain' = [chain EXCEPT ![f] = [@ EXCEPT ![1] =
                      [[chain[f][1] EXCEPT !.pc = "loaded"] EXCEPT !.rows = file[f].rows]]]
      BY <3>1, <3>2
    <3>4. \A g \in File : DOMAIN chain'[g] = DOMAIN chain[g]
      BY <3>2, <3>3
    <3>5. chain'[f][1].rec = chain[f][1].rec
      BY <2>1, <3>2, <3>3 DEF Task
    <3>6. \A g \in File : \A k \in DOMAIN chain[g] :
            g # f \/ k # 1 => chain'[g][k] = chain[g][k]
      BY <3>2, <3>3
    <3> QED
      BY <2>1, <3>1, <3>4, <3>5, <3>6, UnderWayStays DEF OnThread, Idle
  <2> QED
    BY <2>2, <2>3
<1>8. ASSUME NEW f \in File, NEW i \in DOMAIN chain[f], OpenForWrite(f, i)
      PROVE  UnderWay(j)' \/ j \in lost'
  <2>1. i = 1 /\ chain[f] # <<>> /\ chain[f][1] \in Task /\ thread = Idle
    BY <1>8, <1>t, TaskTypes DEF OpenForWrite, Ready
  <2>2. CASE f \in locked
    <3>1. /\ Settle(chain[f][1].rec, f, "fail")
          /\ chain' = [chain EXCEPT ![f] = Without(@, 1)]
          /\ UNCHANGED <<job, lost>>
      BY <1>8, <2>1, <2>2 DEF OpenForWrite
    <3> QED
      BY <1>6, <2>1, <3>1
  <2>3. CASE f \notin locked
    <3>1. /\ chain' = [chain EXCEPT ![f] = [@ EXCEPT ![1] =
                         [chain[f][1] EXCEPT !.pc = "writing"]]]
          /\ UNCHANGED <<job, lost, thread>>
      BY <1>8, <2>1, <2>3 DEF OpenForWrite
    <3>2. chain \in [File -> Seq(Task)] /\ 1 \in DOMAIN chain[f]
      BY <1>8, <1>t, <2>1 DEF TypeOK
    <3>3. \A g \in File : DOMAIN chain'[g] = DOMAIN chain[g]
      BY <3>1, <3>2
    <3>4. chain'[f][1].rec = chain[f][1].rec
      BY <2>1, <3>1, <3>2 DEF Task
    <3>5. \A g \in File : \A k \in DOMAIN chain[g] :
            g # f \/ k # 1 => chain'[g][k] = chain[g][k]
      BY <3>1, <3>2
    <3> QED
      BY <2>1, <3>1, <3>3, <3>4, <3>5, UnderWayStays DEF OnThread, Idle
  <2> QED
    BY <2>2, <2>3
<1>9. ASSUME NEW f \in File, NEW i \in DOMAIN chain[f], FinishWrite(f, i) \/ WriteBreaks(f, i)
      PROVE  UnderWay(j)' \/ j \in lost'
  <2>1. i = 1 /\ chain[f] # <<>> /\ thread = Idle
    BY <1>9, <1>t, TaskTypes DEF FinishWrite, WriteBreaks, Ready
  <2>2. /\ Settle(chain[f][1].rec, f, "save") \/ Settle(chain[f][1].rec, f, "fail")
        /\ chain' = [chain EXCEPT ![f] = Without(@, 1)]
        /\ UNCHANGED <<job, lost>>
    BY <1>9, <2>1 DEF FinishWrite, WriteBreaks
  <2> QED
    BY <1>6, <2>1, <2>2
<1>10. ASSUME Save \/ Fail PROVE UnderWay(j)' \/ j \in lost'
  <2>1. Current \in Job /\ UNCHANGED <<chain, lost>>
    BY <1>10, <1>t, ThreadTypes DEF Save, Fail
  <2>2. job[Current] \in JobRow
    BY <1>10, <1>t DEF TypeInv, JobsExist, Save, Fail
  <2>3. \/ job' = [job EXCEPT ![Current] = [@ EXCEPT !.status = "SAVED", !.due = FALSE]]
        \/ job' = [job EXCEPT ![Current] = [@ EXCEPT !.status = "FAILED", !.due = FALSE]]
    BY <1>10 DEF Save, Fail
  <2>4. job'[Current].status # "WRITING" /\ (j # Current => job'[j] = job[j])
    <3>1. DOMAIN job = Job
      BY <1>t DEF TypeOK
    <3>2. \/ job'[Current] = [job[Current] EXCEPT !.status = "SAVED", !.due = FALSE]
          \/ job'[Current] = [job[Current] EXCEPT !.status = "FAILED", !.due = FALSE]
      BY <2>1, <2>3, <3>1
    <3>3. job'[Current].status # "WRITING"
      BY <2>2, <3>2 DEF JobRow
    <3> QED
      BY <2>1, <2>3, <3>1, <3>3
  <2>5. job[j].status = "WRITING"
    BY <2>4
  <2> QED
    BY <2>1, <2>4, <2>5, UnderWayStays
<1>11. ASSUME FailFaults PROVE UnderWay(j)' \/ j \in lost'
  <2>1. UNCHANGED <<chain, job>> /\ lost \subseteq lost' /\ Current \in lost'
    BY <1>11 DEF FailFaults
  <2> QED
    BY <2>1, UnderWayStays
<1>12. ASSUME \/ SaveStorageSettings
              \/ \E f \in File : Lock(f) \/ Unlock(f)
              \/ UNCHANGED vars
       PROVE  UnderWay(j)' \/ j \in lost'
  <2>1. UNCHANGED <<job, chain, thread, lost>>
    BY <1>12 DEF SaveStorageSettings, Lock, Unlock, vars
  <2> QED
    BY <1>q, <2>1 DEF OnThread, Current
<1>13. ASSUME Crash PROVE UnderWay(j)' \/ j \in lost'
  <2>1. job[j].status = "WRITING" /\ lost \subseteq lost' /\ (InFlight(j) => j \in lost')
    BY <1>13 DEF Crash
  <2> QED
    BY <1>t, <2>1, InFlightTasks DEF StuckInv, UnderWay
<1> QED
  BY <1>1, <1>2, <1>3, <1>4, <1>5, <1>7, <1>8, <1>9, <1>10, <1>11, <1>12, <1>13 DEF Next

\* A job shown as WRITING is being written, or a process death or a refused
\* update of the database explains it, in every reachable state.
THEOREM NoStuckJob == Spec => []StuckIsExplained
<1>1. StuckInv => StuckIsExplained
  BY InFlightTasks DEF StuckInv, TypeInv, StuckIsExplained, UnderWay
<1> QED
  BY <1>1, StuckInit, StuckStep, PTL DEF Spec

-----------------------------------------------------------------------------
(* What is shown as SAVED was written.                                     *)

\* The thread stores a success after a write of that record to that file.
WriteDone == thread.pc = "save" => written[thread.file][thread.rec] > 0

SavedInv == AttemptInv /\ WriteDone /\ SavedIsAtTarget

WrittenStays ==
  \A f \in File : \A r \in Record : written[f][r] > 0 => written'[f][r] > 0

\* One more row leaves the others where they were.
LEMMA OneMoreRow ==
  ASSUME TypeOK, NEW f \in File, NEW r \in Record,
         written' = [written EXCEPT ![f] = PlusOne(@, r)]
  PROVE  WrittenStays /\ written'[f][r] > 0
<1>1. written[f] \in [Record -> Nat] /\ written \in [File -> Rows]
  BY DEF TypeOK, Rows
<1>2. PlusOne(written[f], r) = [written[f] EXCEPT ![r] = @ + 1]
  BY DEF PlusOne
<1>3. written'[f] = [written[f] EXCEPT ![r] = @ + 1] /\ \A g \in File : g # f => written'[g] = written[g]
  BY <1>1, <1>2
<1>4. written'[f][r] = written[f][r] + 1 /\ \A q \in Record : q # r => written'[f][q] = written[f][q]
  BY <1>1, <1>3
<1>5. written[f][r] \in Nat
  BY <1>1
<1>6. \A g \in File : \A q \in Record :
        (g = f /\ q = r) \/ written'[g][q] = written[g][q]
  BY <1>3, <1>4
<1>7. written'[f][r] > 0
  BY <1>4, <1>5
<1> QED
  BY <1>6, <1>7 DEF WrittenStays

\* A step that stores no success keeps the stored ones true.
LEMMA SavedStays ==
  ASSUME SavedInv, WrittenStays, TypeOK',
         \A j \in Job : manual'[j] = 0 => manual[j] = 0,
         \A j \in Job : job'[j].status = "SAVED" =>
           job[j].status = "SAVED" /\ job'[j].target = job[j].target
  PROVE  SavedIsAtTarget'
<1> SUFFICES ASSUME NEW j \in Job, job'[j].status = "SAVED"
             PROVE  /\ \E f \in File : f[2] = j[2] /\ written'[f][j[1]] > 0
                    /\ manual'[j] = 0 =>
                         job'[j].target[2] = j[2] /\ written'[job'[j].target][j[1]] > 0
  BY DEF SavedIsAtTarget
<1>1. job[j].status = "SAVED" /\ job'[j].target = job[j].target /\ j[1] \in Record
  BY DEF Job
<1>2. /\ \E f \in File : f[2] = j[2] /\ written[f][j[1]] > 0
      /\ manual[j] = 0 => job[j].target[2] = j[2] /\ written[job[j].target][j[1]] > 0
  BY <1>1 DEF SavedInv, SavedIsAtTarget
<1>3. \E f \in File : f[2] = j[2] /\ written'[f][j[1]] > 0
  BY <1>1, <1>2 DEF WrittenStays
<1>4. job[j].target \in File
  <2>1. job[j] \in JobRow \cup {NoJob}
    BY DEF SavedInv, AttemptInv, TypeInv, TypeOK
  <2>2. job[j] \in JobRow
    BY <1>1, <2>1 DEF NoJob
  <2> QED
    BY <2>2 DEF JobRow
<1>5. manual'[j] = 0 => job'[j].target[2] = j[2] /\ written'[job'[j].target][j[1]] > 0
  BY <1>1, <1>2, <1>4 DEF WrittenStays
<1> QED
  BY <1>3, <1>5

LEMMA SavedInit == Init => SavedInv
<1> SUFFICES ASSUME Init PROVE SavedInv
  OBVIOUS
<1>1. \A j \in Job : job[j].status # "SAVED"
  BY DEF Init, NoJob
<1>2. thread.pc # "save"
  BY DEF Init, Idle
<1> QED
  BY <1>1, <1>2, AttemptInit DEF SavedInv, WriteDone, SavedIsAtTarget

\* Every step keeps the files of the SAVED jobs.
LEMMA SavedStep == SavedInv /\ [Next]_vars => SavedInv'
<1> SUFFICES ASSUME SavedInv, [Next]_vars PROVE WriteDone' /\ SavedIsAtTarget'
  BY AttemptStep DEF SavedInv
<1> USE DEF database, disk
<1>t. /\ AttemptInv /\ TypeInv /\ TypeOK /\ Single /\ WriteDone /\ SavedIsAtTarget
      /\ AttemptInv' /\ TypeOK'
  BY AttemptStep DEF SavedInv, AttemptInv, TypeInv
\* The thread is not about to store a success, or was before.
<1>p. ASSUME WrittenStays, thread'.pc # "save" \/ thread' = thread PROVE WriteDone'
  <2>1. CASE thread'.pc # "save"
    BY <2>1 DEF WriteDone
  <2>2. CASE thread' = thread /\ thread.pc = "save"
    <3>1. thread.file \in File /\ thread.rec \in Record
      BY <1>t, <2>2, ThreadTypes DEF Attempt
    <3> QED
      BY <1>p, <1>t, <2>2, <3>1 DEF WriteDone, WrittenStays
  <2> QED
    BY <1>p, <2>1, <2>2
<1>s. ASSUME UNCHANGED written PROVE WrittenStays
  BY <1>s DEF WrittenStays
<1>q. ASSUME WrittenStays, UNCHANGED <<job, manual>> PROVE SavedIsAtTarget'
  BY <1>q, <1>t, SavedStays
<1>1. ASSUME NEW r \in Record, NEW more \in BOOLEAN, StartTxt(r, more) \/ StartXlsx(r),
             UNCHANGED written, \A j \in Job : manual'[j] = 0 => manual[j] = 0
      PROVE  WriteDone' /\ SavedIsAtTarget'
  <2>1. PICK fmt \in Format :
          job' = [job EXCEPT ![<<r, fmt>>] =
                    [status |-> "WRITING", target |-> TargetOf(fmt), due |-> FALSE]]
    BY <1>1 DEF StartTxt, StartXlsx, Writing, Format
  <2>2. \A j \in Job : job'[j].status = "SAVED" =>
          job[j].status = "SAVED" /\ job'[j].target = job[j].target
    BY <1>t, <2>1 DEF TypeOK
  <2>3. thread'.pc # "save"
    BY <1>1 DEF StartTxt, StartXlsx, Idle
  <2> QED
    BY <1>1, <1>p, <1>s, <1>t, <2>2, <2>3, SavedStays
<1>2. ASSUME NEW r \in Record, EnqueueForRecord(r) PROVE WriteDone' /\ SavedIsAtTarget'
  <2>1. UNCHANGED <<written, manual>> /\ settings.xlsx \in BOOLEAN
    BY <1>2, <1>t DEF EnqueueForRecord, TypeOK, Settings
  <2>2. CASE UNCHANGED <<job, chain, thread>>
    BY <1>p, <1>q, <1>s, <2>1, <2>2
  <2>3. CASE StartTxt(r, settings.xlsx) \/ StartXlsx(r)
    BY <1>1, <2>1, <2>3
  <2> QED
    BY <1>2, <2>2, <2>3 DEF EnqueueForRecord
<1>3. ASSUME NEW k \in Job, ProcessDueRetry(k) \/ RetryNow(k)
      PROVE  WriteDone' /\ SavedIsAtTarget'
  <2>1. StartTxt(k[1], FALSE) \/ StartXlsx(k[1])
    BY <1>3 DEF ProcessDueRetry, RetryNow, StartAttempt
  <2>2. written' = written /\ (manual' = manual \/ manual' = [manual EXCEPT ![k] = @ + 1])
    BY <1>3 DEF ProcessDueRetry, RetryNow
  <2>3. manual \in [Job -> Nat]
    BY <1>t DEF TypeOK
  <2>4. \A j \in Job : manual'[j] = 0 => manual[j] = 0
    BY <2>2, <2>3
  <2>5. k[1] \in Record /\ FALSE \in BOOLEAN
    BY DEF Job
  <2> QED
    BY <1>1, <2>1, <2>2, <2>4, <2>5
<1>4. ASSUME NEW k \in Job, RetryDelayPasses(k) PROVE WriteDone' /\ SavedIsAtTarget'
  <2>1. /\ UNCHANGED <<thread, written, manual>>
        /\ job[k].status = "FAILED" /\ job[k] \in JobRow \cup {NoJob}
        /\ job' = [job EXCEPT ![k] = [job[k] EXCEPT !.due = TRUE]]
    BY <1>4, <1>t DEF RetryDelayPasses, TypeOK
  <2>2. job[k] \in JobRow
    BY <2>1 DEF NoJob
  <2>3. [job[k] EXCEPT !.due = TRUE].status = "FAILED"
    BY <2>1, <2>2 DEF JobRow
  <2>4. \A j \in Job : job'[j].status = "SAVED" => job'[j] = job[j]
    BY <1>t, <2>1, <2>3 DEF TypeOK
  <2>5. SavedIsAtTarget'
    BY <1>s, <1>t, <2>1, <2>4, SavedStays
  <2> QED
    BY <1>p, <1>s, <2>1, <2>5
<1>5. ASSUME AppendTxtRow PROVE WriteDone' /\ SavedIsAtTarget'
  <2>1. thread \in Attempt /\ thread.file \in File /\ thread.rec \in Record
    BY <1>5, <1>t, ThreadTypes DEF AppendTxtRow, Attempt
  <2>2. UNCHANGED <<job, manual>>
    BY <1>5 DEF AppendTxtRow
  <2>3. CASE thread' = [thread EXCEPT !.pc = "fail"] /\ UNCHANGED <<file, written>>
    <3>1. thread'.pc # "save"
      BY <2>1, <2>3 DEF Attempt
    <3> QED
      BY <1>p, <1>q, <1>s, <2>2, <2>3, <3>1
  <2>4. CASE /\ thread' = [thread EXCEPT !.pc = "save"]
             /\ written' = [written EXCEPT ![thread.file] = PlusOne(@, thread.rec)]
    <3>1. WrittenStays /\ written'[thread.file][thread.rec] > 0
      BY <1>t, <2>1, <2>4, OneMoreRow
    <3>2. thread'.file = thread.file /\ thread'.rec = thread.rec
      BY <2>1, <2>4 DEF Attempt
    <3> QED
      BY <1>q, <2>2, <3>1, <3>2 DEF WriteDone
  <2> QED
    BY <1>5, <2>3, <2>4 DEF AppendTxtRow
<1>6. ASSUME EnqueueXlsx PROVE WriteDone' /\ SavedIsAtTarget'
  <2>1. thread.rec \in Record /\ StartXlsx(thread.rec) /\ UNCHANGED <<written, manual>>
    BY <1>6, <1>t, ThreadTypes DEF EnqueueXlsx, SecondFormat
  <2>2. FALSE \in BOOLEAN
    OBVIOUS
  <2> QED
    BY <1>1, <2>1, <2>2
<1>7. ASSUME NEW f \in File, NEW i \in DOMAIN chain[f],
             LoadWorkbook(f, i) \/ OpenForWrite(f, i) \/ WriteBreaks(f, i)
      PROVE  WriteDone' /\ SavedIsAtTarget'
  <2>1. UNCHANGED <<job, manual, written>>
    BY <1>7 DEF LoadWorkbook, OpenForWrite, WriteBreaks
  <2>2. thread' = thread \/ Settle(chain[f][i].rec, f, "fail")
    BY <1>7 DEF LoadWorkbook, OpenForWrite, WriteBreaks
  <2>3. thread' = thread \/ thread'.pc # "save"
    BY <2>2 DEF Settle
  <2> QED
    BY <1>p, <1>q, <1>s, <2>1, <2>3
<1>8. ASSUME NEW f \in File, NEW i \in DOMAIN chain[f], FinishWrite(f, i)
      PROVE  WriteDone' /\ SavedIsAtTarget'
  <2>1. chain[f][i].rec \in Record
    BY <1>t, TaskTypes
  <2>2. /\ written' = [written EXCEPT ![f] = PlusOne(@, chain[f][i].rec)]
        /\ thread'.file = f /\ thread'.rec = chain[f][i].rec
        /\ UNCHANGED <<job, manual>>
    BY <1>8 DEF FinishWrite, Settle
  <2>3. WrittenStays /\ written'[f][chain[f][i].rec] > 0
    BY <1>t, <2>1, <2>2, OneMoreRow
  <2> QED
    BY <1>q, <2>2, <2>3 DEF WriteDone
<1>9. ASSUME Save PROVE WriteDone' /\ SavedIsAtTarget'
  <2>1. /\ thread \in Attempt /\ thread.pc = "save" /\ OnThread /\ GoOn
        /\ UNCHANGED <<written, manual>>
        /\ job' = [job EXCEPT ![Current] = [@ EXCEPT !.status = "SAVED", !.due = FALSE]]
    BY <1>9, <1>t, ThreadTypes DEF Save, OnThread
  <2>2. /\ Current \in Job /\ job[Current] \in JobRow
        /\ thread.file \in File /\ Current = <<thread.rec, thread.file[2]>>
    BY <1>t, <2>1, ThreadTypes DEF TypeInv, JobsExist, Current, Attempt
  <2>3. WriteDone'
    BY <2>1, GoOnTypes DEF WriteDone
  <2>4. written[thread.file][thread.rec] > 0
    BY <1>t, <2>1 DEF WriteDone
  <2>5. job'[Current].target = job[Current].target
    <3>1. DOMAIN job = Job
      BY <1>t DEF TypeOK
    <3>2. job'[Current] = [job[Current] EXCEPT !.status = "SAVED", !.due = FALSE]
      BY <2>1, <2>2, <3>1
    <3> QED
      BY <2>2, <3>2 DEF JobRow
  <2>6. manual[Current] = 0 => job[Current].target = thread.file
    BY <1>t, <2>1 DEF Single, ThreadStored
  <2>7. ASSUME NEW j \in Job, j # Current PROVE job'[j] = job[j]
    BY <1>t, <2>1, <2>7 DEF TypeOK
  <2>8. Current[1] = thread.rec /\ Current[2] = thread.file[2]
    BY <2>2
  <2>9. SavedIsAtTarget'
    <3> SUFFICES ASSUME NEW j \in Job, job'[j].status = "SAVED"
                 PROVE  /\ \E f \in File : f[2] = j[2] /\ written[f][j[1]] > 0
                        /\ manual[j] = 0 =>
                             job'[j].target[2] = j[2] /\ written[job'[j].target][j[1]] > 0
      BY <2>1 DEF SavedIsAtTarget
    <3>1. CASE j = Current
      BY <2>2, <2>4, <2>5, <2>6, <2>8, <3>1
    <3>2. CASE j # Current
      BY <1>t, <2>7, <3>2 DEF SavedIsAtTarget
    <3> QED
      BY <3>1, <3>2
  <2> QED
    BY <2>3, <2>9
<1>10. ASSUME Fail PROVE WriteDone' /\ SavedIsAtTarget'
  <2>1. /\ thread \in Attempt /\ GoOn /\ UNCHANGED <<written, manual>>
        /\ job' = [job EXCEPT ![Current] = [@ EXCEPT !.status = "FAILED", !.due = FALSE]]
    BY <1>10, <1>t, ThreadTypes DEF Fail
  <2>2. thread'.pc # "save"
    BY <2>1, GoOnTypes
  <2>3. Current \in Job /\ job[Current] \in JobRow
    BY <1>10, <1>t, ThreadTypes DEF TypeInv, JobsExist, Fail
  <2>4. job'[Current].status # "SAVED"
    <3>1. DOMAIN job = Job
      BY <1>t DEF TypeOK
    <3>2. job'[Current] = [job[Current] EXCEPT !.status = "FAILED", !.due = FALSE]
      BY <2>1, <2>3, <3>1
    <3> QED
      BY <2>3, <3>2 DEF JobRow
  <2>5. \A j \in Job : j # Current => job'[j] = job[j]
    BY <1>t, <2>1 DEF TypeOK
  <2>6. SavedIsAtTarget'
    BY <1>s, <1>t, <2>1, <2>4, <2>5, SavedStays
  <2> QED
    BY <1>p, <1>s, <2>1, <2>2, <2>6
<1>11. ASSUME SaveFaults \/ FailFaults \/ Crash PROVE WriteDone' /\ SavedIsAtTarget'
  <2>1. UNCHANGED <<job, manual, written>>
    BY <1>11 DEF SaveFaults, FailFaults, Crash
  <2>2. thread'.pc # "save"
    <3>1. CASE SaveFaults
      BY <1>t, <3>1, ThreadTypes DEF SaveFaults, Attempt
    <3>2. CASE FailFaults
      BY <1>t, <3>2, ThreadTypes, GoOnTypes DEF FailFaults
    <3>3. CASE Crash
      BY <3>3 DEF Crash, Idle
    <3> QED
      BY <1>11, <3>1, <3>2, <3>3
  <2> QED
    BY <1>p, <1>q, <1>s, <2>1, <2>2
<1>12. ASSUME \/ SaveStorageSettings
              \/ \E f \in File : Lock(f) \/ Unlock(f)
              \/ UNCHANGED vars
       PROVE  WriteDone' /\ SavedIsAtTarget'
  <2>1. UNCHANGED <<job, manual, written, thread>>
    BY <1>12 DEF SaveStorageSettings, Lock, Unlock, vars
  <2> QED
    BY <1>p, <1>q, <1>s, <2>1
<1> QED
  BY <1>2, <1>3, <1>4, <1>5, <1>6, <1>7, <1>8, <1>9, <1>10, <1>11, <1>12 DEF Next

\* A record shown as SAVED was written to a file of its format; without a retry
\* by hand to the very file its row names, in every reachable state.
THEOREM SavedIsWritten == Spec => []SavedIsAtTarget
<1>1. SavedInv => SavedIsAtTarget
  BY DEF SavedInv
<1> QED
  BY <1>1, SavedInit, SavedStep, PTL DEF Spec

-----------------------------------------------------------------------------
(* What may still be written of a record.                                  *)

\* The attempt on the thread has not written.
OnTurn(j) == IF thread.pc \in {"append", "fail"} /\ Current = j THEN 1 ELSE 0

\* One more attempt starts, and nobody has to ask for it.
Pending(j) == IF job[j].status \in {"NONE", "FAILED"} THEN 1 ELSE 0

\* The writes done and the writes that may come are accounted for.
Budget(j) ==
  /\ IsFiniteSet(RowsOf(j))
  /\ IsFiniteSet(Waiting(j))
  /\ Cardinality(RowsOf(j)) + Cardinality(Waiting(j)) + OnTurn(j) + Pending(j)
       <= 1 + manual[j] + excused[j]

BudgetInv == AttemptInv /\ \A j \in Job : Budget(j)

LEMMA BudgetTypes ==
  ASSUME BudgetInv, NEW j \in Job
  PROVE  /\ TypeOK /\ IsFiniteSet(RowsOf(j)) /\ IsFiniteSet(Waiting(j))
         /\ Cardinality(RowsOf(j)) \in Nat /\ Cardinality(Waiting(j)) \in Nat
         /\ OnTurn(j) \in {0, 1} /\ Pending(j) \in {0, 1}
         /\ manual[j] \in Nat /\ excused[j] \in Nat
<1>1. TypeOK /\ IsFiniteSet(RowsOf(j)) /\ IsFiniteSet(Waiting(j))
  BY DEF BudgetInv, Budget, AttemptInv, TypeInv
<1>2. Cardinality(RowsOf(j)) \in Nat /\ Cardinality(Waiting(j)) \in Nat
  BY <1>1, FS_CardinalityType
<1>3. manual[j] \in Nat /\ excused[j] \in Nat
  BY <1>1 DEF TypeOK
<1> QED
  BY <1>1, <1>2, <1>3 DEF OnTurn, Pending

\* The rows of a job are the numbered writes to the files of its format.
LEMMA RowElements ==
  ASSUME NEW w, NEW j \in Job
  PROVE  \A p : p \in UNION {{f} \X (1..w[f][j[1]]) : f \in Root \X {j[2]}} <=>
           \E f \in File : \E n \in 1..w[f][j[1]] : f[2] = j[2] /\ p = <<f, n>>
<1> DEFINE rows == UNION {{f} \X (1..w[f][j[1]]) : f \in Root \X {j[2]}}
<1>1. j[1] \in Record /\ j[2] \in Format
  BY DEF Job
<1>2. ASSUME NEW p, p \in rows
      PROVE  \E f \in File : \E n \in 1..w[f][j[1]] : f[2] = j[2] /\ p = <<f, n>>
  <2>1. PICK f \in Root \X {j[2]} : p \in {f} \X (1..w[f][j[1]])
    BY <1>2
  <2>2. f \in File /\ f[2] = j[2]
    BY <1>1, <2>1 DEF File
  <2>3. PICK n \in 1..w[f][j[1]] : p = <<f, n>>
    BY <2>1
  <2> QED
    BY <2>2, <2>3
<1>3. ASSUME NEW f \in File, NEW n \in 1..w[f][j[1]], f[2] = j[2]
      PROVE  <<f, n>> \in rows
  <2>1. f \in Root \X {j[2]}
    BY <1>3 DEF File
  <2>2. <<f, n>> \in {f} \X (1..w[f][j[1]])
    OBVIOUS
  <2> QED
    BY <2>1, <2>2
<1> HIDE DEF rows
<1>4. \A p : p \in rows <=>
        \E f \in File : \E n \in 1..w[f][j[1]] : f[2] = j[2] /\ p = <<f, n>>
  BY <1>2, <1>3
<1> QED
  BY <1>4 DEF rows

\* A write that completes is one row more of its job, and none of another.
LEMMA RowAdded ==
  ASSUME TypeOK, NEW f \in File, NEW r \in Record,
         written' = [written EXCEPT ![f] = PlusOne(@, r)],
         NEW j \in Job, IsFiniteSet(RowsOf(j))
  PROVE  /\ j # <<r, f[2]>> => RowsOf(j)' = RowsOf(j)
         /\ j = <<r, f[2]>> => /\ IsFiniteSet(RowsOf(j)')
                               /\ Cardinality(RowsOf(j)') = Cardinality(RowsOf(j)) + 1
<1>1. /\ written \in [File -> Rows] /\ written[f] \in [Record -> Nat]
      /\ j[1] \in Record /\ j = <<j[1], j[2]>>
  BY DEF TypeOK, Rows, Job
<1>2. /\ written'[f] = [written[f] EXCEPT ![r] = @ + 1]
      /\ \A g \in File : g # f => written'[g] = written[g]
  BY <1>1 DEF PlusOne
<1>3. /\ written'[f][r] = written[f][r] + 1 /\ written[f][r] \in Nat
      /\ \A q \in Record : q # r => written'[f][q] = written[f][q]
  BY <1>1, <1>2
<1>4. CASE j # <<r, f[2]>>
  <2>1. ASSUME NEW g \in File, g[2] = j[2] PROVE written'[g][j[1]] = written[g][j[1]]
    <3>1. CASE g = f
      BY <1>1, <1>3, <1>4, <2>1, <3>1
    <3>2. CASE g # f
      BY <1>2, <3>2
    <3> QED
      BY <3>1, <3>2
  <2>2. \A g \in Root \X {j[2]} : g \in File /\ g[2] = j[2]
    BY DEF File, Job
  <2>3. RowsOf(j)' = UNION {{g} \X (1..written'[g][j[1]]) : g \in Root \X {j[2]}}
    BY DEF RowsOf
  <2>4. \A g \in Root \X {j[2]} :
          {g} \X (1..written'[g][j[1]]) = {g} \X (1..written[g][j[1]])
    BY <2>1, <2>2
  <2>5. {{g} \X (1..written'[g][j[1]]) : g \in Root \X {j[2]}}
          = {{g} \X (1..written[g][j[1]]) : g \in Root \X {j[2]}}
    BY <2>4, Zenon
  <2> QED
    BY <1>4, <2>3, <2>5 DEF RowsOf
<1>5. CASE j = <<r, f[2]>>
  <2> DEFINE new == <<f, written[f][r] + 1>>
  <2>1. j[1] = r /\ j[2] = f[2]
    BY <1>5
  <2>2. ASSUME NEW p PROVE p \in RowsOf(j)' <=> p \in RowsOf(j) \cup {new}
    <3>1. p \in RowsOf(j) <=>
            \E g \in File : \E n \in 1..written[g][r] : g[2] = f[2] /\ p = <<g, n>>
      BY <2>1, RowElements DEF RowsOf
    <3>2. p \in RowsOf(j)' <=>
            \E g \in File : \E n \in 1..written'[g][r] : g[2] = f[2] /\ p = <<g, n>>
      BY <2>1, RowElements DEF RowsOf
    <3>3. ASSUME NEW g \in File, NEW n
          PROVE  n \in 1..written'[g][r] <=>
                   n \in 1..written[g][r] \/ (g = f /\ n = written[f][r] + 1)
      <4>1. CASE g = f
        BY <1>3, <4>1
      <4>2. CASE g # f
        BY <1>2, <4>2
      <4> QED
        BY <4>1, <4>2
    <3>4. p \in RowsOf(j)' => p \in RowsOf(j) \cup {new}
      BY <3>1, <3>2, <3>3
    <3>5. p \in RowsOf(j) => p \in RowsOf(j)'
      BY <3>1, <3>2, <3>3
    <3>6. p = new => p \in RowsOf(j)'
      <4>1. written[f][r] + 1 \in 1..written'[f][r]
        BY <1>3
      <4> QED
        BY <3>2, <4>1
    <3> QED
      BY <3>4, <3>5, <3>6
  <2>3. RowsOf(j)' = RowsOf(j) \cup {new}
    BY <2>2
  <2>4. new \notin RowsOf(j)
    <3>1. \A n \in 1..written[f][r] : n # written[f][r] + 1
      BY <1>3
    <3> QED
      BY <2>1, <3>1, RowElements DEF RowsOf
  <2> HIDE DEF new
  <2> QED
    BY <1>5, <2>3, <2>4, FS_AddElement
<1> QED
  BY <1>4, <1>5

\* The same of the attempts Waiting counts after a step.
WaitingIsTasks(j) ==
  /\ \A p \in Waiting(j) :
       \E f \in File : \E i \in DOMAIN chain[f] : p = <<f, i>> /\ TaskJob(f, i) = j
  /\ \A f \in File : \A i \in DOMAIN chain[f] :
       TaskJob(f, i) = j => <<f, i>> \in Waiting(j)

LEMMA NextWaitingTasks ==
  ASSUME NEW j \in Job
  PROVE  WaitingIsTasks(j)'
<1>1. WaitingIsTasks(j)
  BY WaitingTasks DEF WaitingIsTasks
<1> QED
  BY <1>1, PTL

\* An attempt that joins a chain is one more waiting attempt of its job.
LEMMA WaitingAppended ==
  ASSUME TypeOK, TypeOK', NEW x \in File, NEW e \in Task,
         chain' = [chain EXCEPT ![x] = Append(@, e)],
         NEW j \in Job, IsFiniteSet(Waiting(j))
  PROVE  /\ j # <<e.rec, x[2]>> => Waiting(j)' = Waiting(j)
         /\ j = <<e.rec, x[2]>> => /\ IsFiniteSet(Waiting(j)')
                                   /\ Cardinality(Waiting(j)') <= Cardinality(Waiting(j)) + 1
<1> DEFINE new == <<x, Len(chain[x]) + 1>>
<1>1. /\ \A g \in File : \A i \in DOMAIN chain'[g] :
           \/ i \in DOMAIN chain[g] /\ chain'[g][i] = chain[g][i]
           \/ g = x /\ i = Len(chain[x]) + 1 /\ chain'[g][i] = e
      /\ \A g \in File : \A i \in DOMAIN chain[g] :
           i \in DOMAIN chain'[g] /\ chain'[g][i] = chain[g][i]
  BY TasksAfterAppend
<1>2. /\ \A p \in Waiting(j) :
           \E f \in File : \E i \in DOMAIN chain[f] : p = <<f, i>> /\ TaskJob(f, i) = j
      /\ \A f \in File : \A i \in DOMAIN chain[f] :
           TaskJob(f, i) = j => <<f, i>> \in Waiting(j)
  BY WaitingTasks
<1>3. /\ \A p \in Waiting(j)' :
           \E f \in File : \E i \in DOMAIN chain'[f] : p = <<f, i>> /\ TaskJob(f, i)' = j
      /\ \A f \in File : \A i \in DOMAIN chain'[f] :
           TaskJob(f, i)' = j => <<f, i>> \in Waiting(j)'
  BY NextWaitingTasks DEF WaitingIsTasks
<1>4. ASSUME NEW p \in Waiting(j) PROVE p \in Waiting(j)'
  <2>1. PICK f \in File : \E i \in DOMAIN chain[f] : p = <<f, i>> /\ TaskJob(f, i) = j
    BY <1>2
  <2>2. PICK i \in DOMAIN chain[f] : p = <<f, i>> /\ TaskJob(f, i) = j
    BY <2>1
  <2>3. i \in DOMAIN chain'[f] /\ TaskJob(f, i)' = j
    BY <1>1, <2>2 DEF TaskJob
  <2> QED
    BY <1>3, <2>2, <2>3
<1>5. ASSUME NEW p \in Waiting(j)'
      PROVE  p \in Waiting(j) \/ (p = new /\ j = <<e.rec, x[2]>>)
  <2>1. PICK f \in File : \E i \in DOMAIN chain'[f] : p = <<f, i>> /\ TaskJob(f, i)' = j
    BY <1>3
  <2>2. PICK i \in DOMAIN chain'[f] : p = <<f, i>> /\ TaskJob(f, i)' = j
    BY <2>1
  <2>3. CASE i \in DOMAIN chain[f] /\ chain'[f][i] = chain[f][i]
    <3>1. TaskJob(f, i) = j
      BY <2>2, <2>3 DEF TaskJob
    <3> QED
      BY <1>2, <2>2, <2>3, <3>1
  <2>4. CASE f = x /\ i = Len(chain[x]) + 1 /\ chain'[f][i] = e
    BY <2>2, <2>4 DEF TaskJob
  <2> QED
    BY <1>1, <2>2, <2>3, <2>4
<1>6. CASE j # <<e.rec, x[2]>>
  BY <1>4, <1>5, <1>6
<1>7. CASE j = <<e.rec, x[2]>>
  <2> HIDE DEF new
  <2>1. /\ IsFiniteSet(Waiting(j) \cup {new})
        /\ Cardinality(Waiting(j) \cup {new}) <= Cardinality(Waiting(j)) + 1
    <3>1. PICK n \in Nat : n = Cardinality(Waiting(j))
      BY FS_CardinalityType
    <3>2. /\ IsFiniteSet(Waiting(j) \cup {new})
          /\ Cardinality(Waiting(j) \cup {new}) \in {n, n + 1}
      BY <3>1, FS_AddElement
    <3>3. Cardinality(Waiting(j) \cup {new}) <= n + 1
      BY <3>1, <3>2
    <3> QED
      BY <3>1, <3>2, <3>3
  <2>2. Waiting(j)' \in SUBSET (Waiting(j) \cup {new})
    BY <1>5
  <2>3. /\ IsFiniteSet(Waiting(j)')
        /\ Cardinality(Waiting(j)') <= Cardinality(Waiting(j) \cup {new})
    BY <2>1, <2>2, FS_Subset
  <2>4. /\ Cardinality(Waiting(j)') \in Nat /\ Cardinality(Waiting(j) \cup {new}) \in Nat
        /\ Cardinality(Waiting(j)) \in Nat
    BY <2>1, <2>3, FS_CardinalityType
  <2> QED
    BY <1>7, <2>1, <2>3, <2>4
<1> QED
  BY <1>6, <1>7

\* A settled attempt leaves its chain: its job has one waiting attempt less,
\* and no job has one more, although the others move up.
LEMMA WaitingLeft ==
  ASSUME TypeOK, TypeOK', NEW f \in File, chain[f] # <<>>,
         chain' = [chain EXCEPT ![f] = Without(@, 1)],
         NEW j \in Job, IsFiniteSet(Waiting(j))
  PROVE  /\ IsFiniteSet(Waiting(j)')
         /\ Cardinality(Waiting(j)') <= Cardinality(Waiting(j))
         /\ j = TaskJob(f, 1) => Cardinality(Waiting(j)') + 1 <= Cardinality(Waiting(j))
<1>1. \A g \in File : \A i \in DOMAIN chain'[g] :
        \/ g # f /\ i \in DOMAIN chain[g] /\ chain'[g][i] = chain[g][i]
        \/ /\ g = f /\ i + 1 \in DOMAIN chain[g] /\ i + 1 # 1
           /\ chain'[g][i] = chain[g][i + 1]
  BY TasksLeft
<1>2. /\ \A p \in Waiting(j) :
           \E g \in File : \E i \in DOMAIN chain[g] : p = <<g, i>> /\ TaskJob(g, i) = j
      /\ \A g \in File : \A i \in DOMAIN chain[g] :
           TaskJob(g, i) = j => <<g, i>> \in Waiting(j)
  BY WaitingTasks
<1>3. \A p \in Waiting(j)' :
        \E g \in File : \E i \in DOMAIN chain'[g] : p = <<g, i>> /\ TaskJob(g, i)' = j
  BY NextWaitingTasks DEF WaitingIsTasks
<1>4. \A g \in File : \A i \in DOMAIN chain'[g] : i \in Nat
  <2>1. chain' \in [File -> Seq(Task)]
    BY DEF TypeOK
  <2>2. \A g \in File : DOMAIN chain'[g] = 1..Len(chain'[g])
    BY <2>1, LenProperties
  <2> QED
    BY <2>2
<1> DEFINE before == [p \in Waiting(j)' |-> IF p[1] = f THEN <<p[1], p[2] + 1>> ELSE p]
           rest == Waiting(j) \ {<<f, 1>>}
<1>5. ASSUME NEW p \in Waiting(j)'
      PROVE  /\ before[p] \in rest
             /\ p[2] \in Nat /\ p = <<p[1], p[2]>>
  <2>1. PICK g \in File : \E i \in DOMAIN chain'[g] : p = <<g, i>> /\ TaskJob(g, i)' = j
    BY <1>3
  <2>2. PICK i \in DOMAIN chain'[g] : p = <<g, i>> /\ TaskJob(g, i)' = j
    BY <2>1
  <2>3. i \in Nat
    BY <1>4
  <2>4. CASE g # f /\ i \in DOMAIN chain[g] /\ chain'[g][i] = chain[g][i]
    <3>1. TaskJob(g, i) = j
      BY <2>2, <2>4 DEF TaskJob
    <3>2. <<g, i>> \in rest
      BY <1>2, <2>4, <3>1
    <3> QED
      BY <2>2, <2>3, <2>4, <3>2
  <2>5. CASE /\ g = f /\ i + 1 \in DOMAIN chain[g] /\ i + 1 # 1
             /\ chain'[g][i] = chain[g][i + 1]
    <3>1. TaskJob(g, i + 1) = j
      BY <2>2, <2>5 DEF TaskJob
    <3>2. <<g, i + 1>> \in rest
      BY <1>2, <2>5, <3>1
    <3> QED
      BY <2>2, <2>3, <2>5, <3>2
  <2> QED
    BY <1>1, <2>4, <2>5
<1>6. before \in Injection(Waiting(j)', rest)
  <2>1. before \in [Waiting(j)' -> rest]
    BY <1>5
  <2>2. ASSUME NEW p \in Waiting(j)', NEW q \in Waiting(j)', before[p] = before[q]
        PROVE  p = q
    <3>1. /\ p[2] \in Nat /\ p = <<p[1], p[2]>>
          /\ q[2] \in Nat /\ q = <<q[1], q[2]>>
      BY <1>5
    <3>2. /\ before[p] = IF p[1] = f THEN <<p[1], p[2] + 1>> ELSE p
          /\ before[q] = IF q[1] = f THEN <<q[1], q[2] + 1>> ELSE q
      OBVIOUS
    <3>3. before[p][1] = p[1] /\ before[q][1] = q[1]
      BY <3>1, <3>2
    <3>4. p[1] = q[1]
      BY <2>2, <3>3
    <3> HIDE DEF before
    <3>5. CASE p[1] = f
      <4>1. <<p[1], p[2] + 1>> = <<q[1], q[2] + 1>>
        BY <2>2, <3>2, <3>4, <3>5
      <4>2. p[2] + 1 = q[2] + 1
        BY <4>1
      <4> QED
        BY <3>1, <3>4, <4>2
    <3>6. CASE p[1] # f
      BY <2>2, <3>2, <3>4, <3>6
    <3> QED
      BY <3>5, <3>6
  <2> HIDE DEF before, rest
  <2> QED
    BY <2>1, <2>2 DEF Injection, IsInjective
<1> HIDE DEF before
<1>7. /\ IsFiniteSet(rest) /\ Cardinality(Waiting(j)) \in Nat
      /\ Cardinality(rest) <= Cardinality(Waiting(j))
      /\ <<f, 1>> \in Waiting(j) => Cardinality(rest) = Cardinality(Waiting(j)) - 1
  <2> HIDE DEF before, rest
  <2>1. PICK n \in Nat : n = Cardinality(Waiting(j))
    BY FS_CardinalityType
  <2>2. /\ IsFiniteSet(rest) /\ Cardinality(rest) \in {n, n - 1}
        /\ <<f, 1>> \in Waiting(j) => Cardinality(rest) = n - 1
    BY <2>1, FS_RemoveElement DEF rest
  <2>3. Cardinality(rest) <= n
    BY <2>1, <2>2
  <2> QED
    BY <2>1, <2>2, <2>3
<1> HIDE DEF rest
<1>8. IsFiniteSet(Waiting(j)') /\ Cardinality(Waiting(j)') <= Cardinality(rest)
  BY <1>6, <1>7, FS_Injection
<1>9. j = TaskJob(f, 1) => <<f, 1>> \in Waiting(j)
  BY <1>2, HeadTask
<1>10. Cardinality(Waiting(j)') \in Nat /\ Cardinality(rest) \in Nat
  BY <1>7, <1>8, FS_CardinalityType
<1> QED
  BY <1>7, <1>8, <1>9, <1>10

\* The attempt at the head of a chain goes on: no job has one more waiting.
LEMMA WaitingGoesOn ==
  ASSUME TypeOK, TypeOK', NEW f \in File, chain[f] # <<>>, NEW t \in Task,
         t.rec = chain[f][1].rec, chain' = [chain EXCEPT ![f] = [@ EXCEPT ![1] = t]],
         NEW j \in Job, IsFiniteSet(Waiting(j))
  PROVE  IsFiniteSet(Waiting(j)') /\ Cardinality(Waiting(j)') <= Cardinality(Waiting(j))
<1>1. \A g \in File : \A i \in DOMAIN chain'[g] :
        /\ i \in DOMAIN chain[g]
        /\ chain'[g][i] = IF g = f /\ i = 1 THEN t ELSE chain[g][i]
  BY TasksAfterHead
<1>2. \A g \in File : \A i \in DOMAIN chain[g] :
        TaskJob(g, i) = j => <<g, i>> \in Waiting(j)
  BY WaitingTasks
<1>3. \A p \in Waiting(j)' :
        \E g \in File : \E i \in DOMAIN chain'[g] : p = <<g, i>> /\ TaskJob(g, i)' = j
  BY NextWaitingTasks DEF WaitingIsTasks
<1>4. \A g \in File : \A i \in DOMAIN chain'[g] :
        i \in DOMAIN chain[g] /\ TaskJob(g, i)' = TaskJob(g, i)
  BY <1>1 DEF TaskJob
<1>5. Waiting(j)' \in SUBSET Waiting(j)
  BY <1>2, <1>3, <1>4
<1> QED
  BY <1>5, FS_Subset

\* A step that writes nothing and leaves no more to be written.
LEMMA BudgetKept ==
  ASSUME BudgetInv, TypeOK', UNCHANGED written, NEW j \in Job,
         IsFiniteSet(Waiting(j)'), Cardinality(Waiting(j)') <= Cardinality(Waiting(j)),
         OnTurn(j)' <= OnTurn(j), Pending(j)' <= Pending(j),
         manual'[j] >= manual[j], excused'[j] >= excused[j]
  PROVE  Budget(j)'
<1>1. RowsOf(j)' = RowsOf(j)
  BY DEF RowsOf
<1>2. Cardinality(Waiting(j)') \in Nat /\ manual'[j] \in Nat /\ excused'[j] \in Nat
  BY FS_CardinalityType DEF TypeOK
<1>3. OnTurn(j)' \in {0, 1} /\ Pending(j)' \in {0, 1}
  BY DEF OnTurn, Pending
<1> QED
  BY <1>1, <1>2, <1>3, BudgetTypes, SMTT(30) DEF BudgetInv, Budget

\* The numbers of a job before and after a step that writes nothing.
LEMMA BudgetPaid ==
  ASSUME BudgetInv, TypeOK', UNCHANGED written, NEW j \in Job, NEW w \in Int,
         IsFiniteSet(Waiting(j)'), Cardinality(Waiting(j)') <= Cardinality(Waiting(j)) + w,
         w + OnTurn(j)' + Pending(j)' + manual[j] + excused[j]
           <= OnTurn(j) + Pending(j) + manual'[j] + excused'[j]
  PROVE  Budget(j)'
<1>1. RowsOf(j)' = RowsOf(j)
  BY DEF RowsOf
<1>2. Cardinality(Waiting(j)') \in Nat /\ manual'[j] \in Nat /\ excused'[j] \in Nat
  BY FS_CardinalityType DEF TypeOK
<1>3. OnTurn(j)' \in {0, 1} /\ Pending(j)' \in {0, 1}
  BY DEF OnTurn, Pending
<1> QED
  BY <1>1, <1>2, <1>3, BudgetTypes, SMTT(30) DEF BudgetInv, Budget

LEMMA BudgetInit == Init => BudgetInv
<1> SUFFICES ASSUME Init, NEW j \in Job PROVE Budget(j)
  BY AttemptInit DEF BudgetInv
<1>1. j[1] \in Record
  BY DEF Job
<1>2. RowsOf(j) = {}
  <2>1. \A f \in File : written[f][j[1]] = 0
    BY <1>1 DEF Init, NoRows
  <2>2. \A f \in File : 1..written[f][j[1]] = {}
    BY <2>1
  <2> QED
    BY <2>2, RowElements DEF RowsOf
<1>3. Waiting(j) = {}
  <2>1. \A f \in File : DOMAIN chain[f] = {}
    BY EmptySeq DEF Init
  <2> QED
    BY <2>1, WaitingTasks
<1>4. OnTurn(j) = 0 /\ Pending(j) \in {0, 1} /\ manual[j] = 0 /\ excused[j] = 0
  BY DEF Init, OnTurn, Pending, Idle
<1> QED
  BY <1>2, <1>3, <1>4, FS_EmptySet DEF Budget

\* Every step keeps to what is left to be written.
LEMMA BudgetStep == BudgetInv /\ [Next]_vars => BudgetInv'
<1> SUFFICES ASSUME BudgetInv, [Next]_vars, NEW j \in Job PROVE Budget(j)'
  BY AttemptStep DEF BudgetInv
<1> USE DEF database, disk
<1>t. AttemptInv /\ AttemptInv' /\ TypeInv /\ TypeOK /\ TypeOK' /\ Single /\ JobsExist
  BY AttemptStep DEF BudgetInv, AttemptInv, TypeInv
<1>n. /\ IsFiniteSet(RowsOf(j)) /\ IsFiniteSet(Waiting(j))
      /\ Cardinality(RowsOf(j)) \in Nat /\ Cardinality(Waiting(j)) \in Nat
      /\ OnTurn(j) \in {0, 1} /\ Pending(j) \in {0, 1}
      /\ manual[j] \in Nat /\ excused[j] \in Nat
  BY BudgetTypes
<1>w. UNCHANGED chain => Waiting(j)' = Waiting(j)
  BY DEF Waiting
<1>q. ASSUME UNCHANGED <<written, manual, excused, chain>>, Pending(j)' <= Pending(j),
             OnTurn(j)' <= OnTurn(j)
      PROVE  Budget(j)'
  BY <1>q, <1>t, <1>n, <1>w, BudgetKept
<1>z. thread'.pc \notin {"append", "fail"} => OnTurn(j)' = 0
  BY DEF OnTurn
<1>1. ASSUME NEW r \in Record, NEW more \in BOOLEAN, NEW fmt \in Format, ~OnThread,
             (fmt = "TXT" /\ StartTxt(r, more)) \/ (fmt = "XLSX" /\ StartXlsx(r)),
             UNCHANGED <<written, excused>>,
             j # <<r, fmt>> => manual'[j] = manual[j],
             j = <<r, fmt>> => \/ manual'[j] = manual[j] /\ Pending(j) = 1
                               \/ manual'[j] = manual[j] + 1
      PROVE  Budget(j)'
  <2>1. OnTurn(j) = 0
    BY <1>1 DEF OnTurn, OnThread
  <2>2. job' = [job EXCEPT ![<<r, fmt>>] =
                  [status |-> "WRITING", target |-> TargetOf(fmt), due |-> FALSE]]
    BY <1>1 DEF StartTxt, StartXlsx, Writing
  <2>3. /\ j # <<r, fmt>> => Pending(j)' = Pending(j)
        /\ j = <<r, fmt>> => Pending(j)' = 0
    BY <1>t, <2>2 DEF TypeOK, Pending
  <2>4. CASE fmt = "TXT" /\ StartTxt(r, more)
    <3>1. /\ chain' = chain /\ thread'.rec = r /\ thread'.file[2] = "TXT"
      BY <1>t, <2>4, StartTxtTypes
    <3>2. OnTurn(j)' \in {0, 1} /\ (j # <<r, fmt>> => OnTurn(j)' = 0)
      BY <2>4, <3>1 DEF OnTurn, Current
    <3>3. /\ IsFiniteSet(Waiting(j)')
          /\ Cardinality(Waiting(j)') <= Cardinality(Waiting(j)) + 0
      BY <1>n, <1>w, <3>1
    <3>4. 0 + OnTurn(j)' + Pending(j)' + manual[j] + excused[j]
            <= OnTurn(j) + Pending(j) + manual'[j] + excused'[j]
      <4>1. excused'[j] = excused[j]
        BY <1>1
      <4>2. CASE j = <<r, fmt>>
        BY <1>1, <1>n, <2>1, <2>3, <3>2, <4>1, <4>2
      <4>3. CASE j # <<r, fmt>>
        BY <1>1, <1>n, <2>1, <2>3, <3>2, <4>1, <4>3
      <4> QED
        BY <4>2, <4>3
    <3>5. 0 \in Int
      OBVIOUS
    <3> QED
      BY <1>1, <1>t, <3>3, <3>4, <3>5, BudgetPaid
  <2>5. CASE fmt = "XLSX" /\ StartXlsx(r)
    <3> DEFINE e == [rec |-> r, pc |-> "queued", rows |-> NoRows]
               x == TargetOf("XLSX")
    <3>1. /\ e \in Task /\ x \in File /\ x[2] = "XLSX" /\ e.rec = r
          /\ chain' = [chain EXCEPT ![x] = Append(@, e)] /\ thread' = Idle
      BY <1>t, <2>5, StartXlsxTypes
    <3> HIDE DEF e, x
    <3>2. OnTurn(j)' = 0
      BY <1>z, <3>1 DEF Idle
    <3>3. PICK w \in {0, 1} :
            /\ IsFiniteSet(Waiting(j)')
            /\ Cardinality(Waiting(j)') <= Cardinality(Waiting(j)) + w
            /\ j # <<r, fmt>> => w = 0
      <4>1. <<e.rec, x[2]>> = <<r, fmt>>
        BY <2>5, <3>1
      <4>2. CASE j = <<r, fmt>>
        <5>1. /\ IsFiniteSet(Waiting(j)')
              /\ Cardinality(Waiting(j)') <= Cardinality(Waiting(j)) + 1
          BY <1>t, <1>n, <3>1, <4>1, <4>2, WaitingAppended
        <5> QED
          BY <4>2, <5>1
      <4>3. CASE j # <<r, fmt>>
        <5>1. Waiting(j)' = Waiting(j)
          BY <1>t, <1>n, <3>1, <4>1, <4>3, WaitingAppended
        <5>2. Cardinality(Waiting(j)') <= Cardinality(Waiting(j)) + 0
          BY <1>n, <5>1
        <5> QED
          BY <1>n, <5>1, <5>2
      <4> QED
        BY <4>2, <4>3
    <3>4. w + OnTurn(j)' + Pending(j)' + manual[j] + excused[j]
            <= OnTurn(j) + Pending(j) + manual'[j] + excused'[j]
      <4>1. excused'[j] = excused[j]
        BY <1>1
      <4>2. CASE j = <<r, fmt>>
        BY <1>1, <1>n, <2>1, <2>3, <3>2, <3>3, <4>1, <4>2
      <4>3. CASE j # <<r, fmt>>
        BY <1>1, <1>n, <2>1, <2>3, <3>2, <3>3, <4>1, <4>3
      <4> QED
        BY <4>2, <4>3
    <3>5. w \in Int
      OBVIOUS
    <3> QED
      BY <1>1, <1>t, <3>3, <3>4, <3>5, BudgetPaid
  <2> QED
    BY <1>1, <2>4, <2>5
<1>2. ASSUME NEW r \in Record, EnqueueForRecord(r) PROVE Budget(j)'
  <2>1. /\ UNCHANGED <<written, manual, excused>> /\ thread = Idle /\ r \notin enqueued
        /\ settings.xlsx \in BOOLEAN
    BY <1>2, <1>t DEF EnqueueForRecord, TypeOK, Settings
  <2>2. ~OnThread
    BY <2>1 DEF OnThread, Idle
  <2>3. \A fmt \in Format : j = <<r, fmt>> => Pending(j) = 1
    <3>1. j[1] = r => job[j] = NoJob
      BY <1>t, <2>1 DEF Single, JobsEnqueued
    <3> QED
      BY <3>1 DEF Pending, NoJob
  <2>4. CASE UNCHANGED <<job, chain, thread>>
    <3>1. Pending(j)' = Pending(j) /\ OnTurn(j)' = OnTurn(j)
      BY <2>4 DEF Pending, OnTurn, Current
    <3> QED
      BY <1>n, <1>q, <2>1, <2>4, <3>1
  <2>5. "TXT" \in Format /\ "XLSX" \in Format
    BY DEF Format
  <2>6. CASE StartTxt(r, settings.xlsx)
    BY <1>1, <2>1, <2>2, <2>3, <2>5, <2>6
  <2>7. CASE StartXlsx(r)
    BY <1>1, <2>1, <2>2, <2>3, <2>5, <2>7
  <2> QED
    BY <1>2, <2>4, <2>6, <2>7 DEF EnqueueForRecord
<1>3. ASSUME NEW k \in Job, ProcessDueRetry(k) \/ RetryNow(k) PROVE Budget(j)'
  <2>1. StartAttempt(k) /\ thread = Idle /\ UNCHANGED <<written, excused>>
    BY <1>3 DEF ProcessDueRetry, RetryNow
  <2>2. ~OnThread
    BY <2>1 DEF OnThread, Idle
  <2>3. k[1] \in Record /\ k[2] \in Format /\ k = <<k[1], k[2]>> /\ FALSE \in BOOLEAN
    BY DEF Job
  <2>4. \/ k[2] = "TXT" /\ StartTxt(k[1], FALSE)
        \/ k[2] = "XLSX" /\ StartXlsx(k[1])
    BY <2>1, <2>3 DEF StartAttempt, Format
  <2>5. /\ j # k => manual'[j] = manual[j]
        /\ j = k => \/ manual'[j] = manual[j] /\ Pending(j) = 1
                    \/ manual'[j] = manual[j] + 1
    <3>1. CASE ProcessDueRetry(k)
      BY <3>1 DEF ProcessDueRetry, IsDue, Pending
    <3>2. CASE RetryNow(k)
      <4>1. manual' = [manual EXCEPT ![k] = @ + 1] /\ manual \in [Job -> Nat]
        BY <1>t, <3>2 DEF RetryNow, TypeOK
      <4> QED
        BY <4>1
    <3> QED
      BY <1>3, <3>1, <3>2
  <2> HIDE DEF StartAttempt
  <2>6. /\ j # <<k[1], k[2]>> => manual'[j] = manual[j]
        /\ j = <<k[1], k[2]>> => \/ manual'[j] = manual[j] /\ Pending(j) = 1
                                 \/ manual'[j] = manual[j] + 1
    BY <2>3, <2>5, Zenon
  <2> QED
    BY <1>1, <2>1, <2>2, <2>3, <2>4, <2>6
<1>4. ASSUME NEW k \in Job, RetryDelayPasses(k) PROVE Budget(j)'
  <2>1. /\ UNCHANGED <<written, manual, excused, chain, thread>>
        /\ job[k].status = "FAILED" /\ job[k] \in JobRow \cup {NoJob}
        /\ job' = [job EXCEPT ![k] = [job[k] EXCEPT !.due = TRUE]]
    BY <1>4, <1>t DEF RetryDelayPasses, TypeOK
  <2>2. j = k => Pending(j) = 1
    BY <2>1 DEF Pending
  <2>3. j # k => job'[j] = job[j]
    BY <1>t, <2>1 DEF TypeOK
  <2>4. Pending(j)' <= Pending(j)
    <3>1. Pending(j)' \in {0, 1}
      BY DEF Pending
    <3>2. j # k => Pending(j)' = Pending(j)
      BY <2>3 DEF Pending
    <3> QED
      BY <1>n, <2>2, <3>1, <3>2
  <2>5. OnTurn(j)' = OnTurn(j)
    BY <2>1 DEF OnTurn, Current
  <2> QED
    BY <1>n, <1>q, <2>1, <2>4, <2>5
<1>5. ASSUME AppendTxtRow PROVE Budget(j)'
  <2>1. /\ thread \in Attempt /\ thread.file \in File /\ thread.rec \in Record
        /\ thread.pc = "append" /\ Current = <<thread.rec, thread.file[2]>>
    BY <1>5, <1>t, ThreadTypes DEF AppendTxtRow, Attempt, Current
  <2>2. UNCHANGED <<job, manual, excused, chain>>
    BY <1>5 DEF AppendTxtRow
  <2>3. Pending(j)' = Pending(j) /\ Waiting(j)' = Waiting(j)
    BY <1>w, <2>2 DEF Pending
  <2>4. CASE thread' = [thread EXCEPT !.pc = "fail"] /\ written' = written
    <3>1. OnTurn(j)' = OnTurn(j)
      BY <2>1, <2>4 DEF OnTurn, Current, Attempt
    <3> QED
      BY <1>n, <1>q, <2>2, <2>3, <2>4, <3>1
  <2>5. CASE /\ thread' = [thread EXCEPT !.pc = "save"]
             /\ written' = [written EXCEPT ![thread.file] = PlusOne(@, thread.rec)]
    <3>1. PICK f \in File, r \in Record : f = thread.file /\ r = thread.rec
      BY <2>1
    <3>2. written' = [written EXCEPT ![f] = PlusOne(@, r)] /\ Current = <<r, f[2]>>
      BY <2>1, <2>5, <3>1
    <3>3. OnTurn(j)' = 0
      BY <1>z, <2>1, <2>5 DEF Attempt
    <3>4. CASE j = <<r, f[2]>>
      <4>1. OnTurn(j) = 1
        BY <2>1, <3>2, <3>4 DEF OnTurn
      <4>2. /\ IsFiniteSet(RowsOf(j)')
            /\ Cardinality(RowsOf(j)') = Cardinality(RowsOf(j)) + 1
        BY <1>t, <1>n, <3>2, <3>4, RowAdded
      <4> QED
        BY <1>n, <2>2, <2>3, <3>3, <4>1, <4>2, SMTT(30) DEF BudgetInv, Budget
    <3>5. CASE j # <<r, f[2]>>
      <4>1. RowsOf(j)' = RowsOf(j)
        BY <1>t, <1>n, <3>2, <3>5, RowAdded
      <4> QED
        BY <1>n, <2>2, <2>3, <3>3, <4>1, SMTT(30) DEF BudgetInv, Budget
    <3> QED
      BY <3>4, <3>5
  <2> QED
    BY <1>5, <2>4, <2>5 DEF AppendTxtRow
<1>6. ASSUME EnqueueXlsx PROVE Budget(j)'
  <2>1. /\ thread.rec \in Record /\ StartXlsx(thread.rec) /\ ~OnThread /\ SecondToCome
        /\ UNCHANGED <<written, manual, excused>>
    BY <1>6, <1>t, ThreadTypes DEF EnqueueXlsx, SecondFormat, OnThread, SecondToCome
  <2>2. job[<<thread.rec, "XLSX">>] = NoJob
    BY <1>t, <2>1 DEF Single, SecondIsNew
  <2>3. j = <<thread.rec, "XLSX">> => Pending(j) = 1
    BY <2>2 DEF Pending, NoJob
  <2>4. "XLSX" \in Format /\ FALSE \in BOOLEAN
    BY DEF Format
  <2> QED
    BY <1>1, <2>1, <2>3, <2>4
<1>7. ASSUME NEW f \in File, chain[f] # <<>>, NEW pc \in {"save", "fail"},
             Settle(chain[f][1].rec, f, pc), thread = Idle,
             chain' = [chain EXCEPT ![f] = Without(@, 1)],
             UNCHANGED <<job, manual, excused>>
      PROVE  /\ IsFiniteSet(Waiting(j)') /\ Cardinality(Waiting(j)') \in Nat
             /\ Cardinality(Waiting(j)') + OnTurn(j)' <= Cardinality(Waiting(j)) + OnTurn(j)
             /\ pc = "save" /\ j = TaskJob(f, 1) =>
                  Cardinality(Waiting(j)') + OnTurn(j)' + 1 <= Cardinality(Waiting(j)) + OnTurn(j)
             /\ Pending(j)' = Pending(j)
  <2>1. /\ IsFiniteSet(Waiting(j)')
        /\ Cardinality(Waiting(j)') <= Cardinality(Waiting(j))
        /\ j = TaskJob(f, 1) => Cardinality(Waiting(j)') + 1 <= Cardinality(Waiting(j))
    BY <1>7, <1>t, <1>n, WaitingLeft
  <2>2. Cardinality(Waiting(j)') \in Nat
    BY <2>1, FS_CardinalityType
  <2>3. OnTurn(j) = 0
    BY <1>7 DEF OnTurn, Idle
  <2>4. /\ OnTurn(j)' \in {0, 1} /\ (pc = "save" => OnTurn(j)' = 0)
        /\ j # TaskJob(f, 1) => OnTurn(j)' = 0
    BY <1>7 DEF Settle, OnTurn, Current, TaskJob
  <2>5. Pending(j)' = Pending(j)
    BY <1>7 DEF Pending
  <2>6. PICK a \in Nat, b \in Nat : a = Cardinality(Waiting(j)') /\ b = Cardinality(Waiting(j))
    BY <1>n, <2>2
  <2>7. CASE j = TaskJob(f, 1)
    BY <2>1, <2>2, <2>3, <2>4, <2>5, <2>6, <2>7
  <2>8. CASE j # TaskJob(f, 1)
    BY <2>1, <2>2, <2>3, <2>4, <2>5, <2>6, <2>8
  <2> QED
    BY <2>7, <2>8
<1>s. ASSUME NEW f \in File, chain[f] # <<>>, thread = Idle,
             Settle(chain[f][1].rec, f, "fail"),
             chain' = [chain EXCEPT ![f] = Without(@, 1)],
             UNCHANGED <<written, job, manual, excused>>
      PROVE  Budget(j)'
  <2>1. /\ IsFiniteSet(Waiting(j)') /\ Cardinality(Waiting(j)') \in Nat
        /\ Cardinality(Waiting(j)') + OnTurn(j)' <= Cardinality(Waiting(j)) + OnTurn(j)
        /\ Pending(j)' = Pending(j)
    BY <1>7, <1>s
  <2>2. RowsOf(j)' = RowsOf(j)
    BY <1>s DEF RowsOf
  <2>3. OnTurn(j)' \in {0, 1}
    BY DEF OnTurn
  <2> QED
    BY <1>n, <1>s, <2>1, <2>2, <2>3, SMTT(30) DEF BudgetInv, Budget
<1>8. ASSUME NEW f \in File, NEW t \in Task, chain[f] # <<>>, t.rec = chain[f][1].rec,
             chain' = [chain EXCEPT ![f] = [@ EXCEPT ![1] = t]],
             UNCHANGED <<written, job, manual, excused, thread>>
      PROVE  Budget(j)'
  <2>1. IsFiniteSet(Waiting(j)') /\ Cardinality(Waiting(j)') <= Cardinality(Waiting(j))
    BY <1>8, <1>t, <1>n, WaitingGoesOn
  <2>2. Pending(j)' = Pending(j) /\ OnTurn(j)' = OnTurn(j)
    BY <1>8 DEF Pending, OnTurn, Current
  <2> QED
    BY <1>8, <1>t, <1>n, <2>1, <2>2, BudgetKept
<1>9. ASSUME NEW f \in File, NEW i \in DOMAIN chain[f], LoadWorkbook(f, i) PROVE Budget(j)'
  <2>1. i = 1 /\ chain[f] # <<>> /\ chain[f][1] \in Task /\ thread = Idle
    BY <1>9, <1>t, TaskTypes DEF LoadWorkbook, Ready
  <2>2. CASE file[f].damaged
    <3>1. /\ Settle(chain[f][1].rec, f, "fail")
          /\ chain' = [chain EXCEPT ![f] = Without(@, 1)]
          /\ UNCHANGED <<written, job, manual, excused>>
      BY <1>9, <2>1, <2>2 DEF LoadWorkbook
    <3> QED
      BY <1>s, <2>1, <3>1
  <2>3. CASE ~file[f].damaged
    <3> DEFINE t == [[chain[f][1] EXCEPT !.pc = "loaded"] EXCEPT !.rows = file[f].rows]
    <3>1. file[f].rows \in Rows
      BY <1>t DEF TypeOK
    <3>2. t \in Task /\ t.rec = chain[f][1].rec
      BY <2>1, <3>1 DEF Task
    <3>3. chain' = [chain EXCEPT ![f] = [@ EXCEPT ![1] = t]]
      <4>1. chain' = [chain EXCEPT ![f][1].pc = "loaded", ![f][1].rows = file[f].rows]
        BY <1>9, <2>1, <2>3 DEF LoadWorkbook
      <4>2. chain \in [File -> Seq(Task)] /\ 1 \in DOMAIN chain[f]
        BY <1>9, <1>t, <2>1 DEF TypeOK
      <4> QED
        BY <4>1, <4>2
    <3>4. UNCHANGED <<written, job, manual, excused, thread>>
      BY <1>9, <2>3 DEF LoadWorkbook
    <3> HIDE DEF t
    <3> QED
      BY <1>8, <2>1, <3>2, <3>3, <3>4
  <2> QED
    BY <2>2, <2>3
<1>10. ASSUME NEW f \in File, NEW i \in DOMAIN chain[f], OpenForWrite(f, i) PROVE Budget(j)'
  <2>1. i = 1 /\ chain[f] # <<>> /\ chain[f][1] \in Task /\ thread = Idle
    BY <1>10, <1>t, TaskTypes DEF OpenForWrite, Ready
  <2>2. CASE f \in locked
    <3>1. /\ Settle(chain[f][1].rec, f, "fail")
          /\ chain' = [chain EXCEPT ![f] = Without(@, 1)]
          /\ UNCHANGED <<written, job, manual, excused>>
      BY <1>10, <2>1, <2>2 DEF OpenForWrite
    <3> QED
      BY <1>s, <2>1, <3>1
  <2>3. CASE f \notin locked
    <3> DEFINE t == [chain[f][1] EXCEPT !.pc = "writing"]
    <3>1. t \in Task /\ t.rec = chain[f][1].rec
      BY <2>1 DEF Task
    <3>2. /\ chain' = [chain EXCEPT ![f] = [@ EXCEPT ![1] = t]]
          /\ UNCHANGED <<written, job, manual, excused, thread>>
      BY <1>10, <2>1, <2>3 DEF OpenForWrite
    <3> HIDE DEF t
    <3> QED
      BY <1>8, <2>1, <3>1, <3>2
  <2> QED
    BY <2>2, <2>3
<1>11. ASSUME NEW f \in File, NEW i \in DOMAIN chain[f], FinishWrite(f, i) PROVE Budget(j)'
  <2>1. i = 1 /\ chain[f] # <<>> /\ chain[f][1].rec \in Record /\ thread = Idle
    BY <1>11, <1>t, TaskTypes DEF FinishWrite, Ready
  <2>2. /\ Settle(chain[f][1].rec, f, "save")
        /\ chain' = [chain EXCEPT ![f] = Without(@, 1)]
        /\ written' = [written EXCEPT ![f] = PlusOne(@, chain[f][1].rec)]
        /\ UNCHANGED <<job, manual, excused>>
    BY <1>11, <2>1 DEF FinishWrite
  <2>3. PICK r \in Record : r = chain[f][1].rec
    BY <2>1
  <2>4. TaskJob(f, 1) = <<r, f[2]>> /\ written' = [written EXCEPT ![f] = PlusOne(@, r)]
    BY <2>2, <2>3 DEF TaskJob
  <2>5. /\ IsFiniteSet(Waiting(j)') /\ Cardinality(Waiting(j)') \in Nat
        /\ Cardinality(Waiting(j)') + OnTurn(j)' <= Cardinality(Waiting(j)) + OnTurn(j)
        /\ j = TaskJob(f, 1) =>
             Cardinality(Waiting(j)') + OnTurn(j)' + 1 <= Cardinality(Waiting(j)) + OnTurn(j)
        /\ Pending(j)' = Pending(j)
    BY <1>7, <2>1, <2>2
  <2>6. OnTurn(j)' \in {0, 1}
    BY DEF OnTurn
  <2>7. CASE j = TaskJob(f, 1)
    <3>1. /\ IsFiniteSet(RowsOf(j)')
          /\ Cardinality(RowsOf(j)') = Cardinality(RowsOf(j)) + 1
      BY <1>t, <1>n, <2>4, <2>7, RowAdded
    <3> QED
      BY <1>n, <2>2, <2>5, <2>6, <2>7, <3>1, SMTT(30) DEF BudgetInv, Budget
  <2>8. CASE j # TaskJob(f, 1)
    <3>1. RowsOf(j)' = RowsOf(j)
      BY <1>t, <1>n, <2>4, <2>8, RowAdded
    <3> QED
      BY <1>n, <2>2, <2>5, <2>6, <3>1, SMTT(30) DEF BudgetInv, Budget
  <2> QED
    BY <2>7, <2>8
<1>12. ASSUME NEW f \in File, NEW i \in DOMAIN chain[f], WriteBreaks(f, i) PROVE Budget(j)'
  <2>1. i = 1 /\ chain[f] # <<>> /\ thread = Idle
    BY <1>12, <1>t, TaskTypes DEF WriteBreaks, Ready
  <2>2. /\ Settle(chain[f][1].rec, f, "fail")
        /\ chain' = [chain EXCEPT ![f] = Without(@, 1)]
        /\ UNCHANGED <<written, job, manual, excused>>
    BY <1>12, <2>1 DEF WriteBreaks
  <2> QED
    BY <1>s, <2>1, <2>2
<1>13. ASSUME Save \/ Fail PROVE Budget(j)'
  <2>1. /\ thread \in Attempt /\ Current \in Job /\ GoOn
        /\ UNCHANGED <<written, manual, excused, chain>>
        /\ Fail => thread.pc = "fail"
    BY <1>13, <1>t, ThreadTypes DEF Save, Fail
  <2>2. job[Current] \in JobRow /\ DOMAIN job = Job
    BY <1>t, <2>1, ThreadTypes DEF JobsExist, TypeOK
  <2>3. OnTurn(j)' = 0
    BY <1>z, <2>1, GoOnTypes
  <2>4. j # Current => Pending(j)' = Pending(j)
    BY <1>13, <1>t DEF TypeOK, Save, Fail, Pending
  <2>5. CASE Save
    <3>1. j = Current => Pending(j)' = 0
      BY <2>2, <2>5 DEF Save, Pending, JobRow
    <3>2. Pending(j)' <= Pending(j) /\ OnTurn(j)' <= OnTurn(j)
      BY <1>n, <2>3, <2>4, <3>1
    <3> QED
      BY <1>q, <2>1, <3>2
  <2>6. CASE Fail
    <3>1. j = Current => OnTurn(j) = 1
      BY <2>1, <2>6 DEF OnTurn
    <3>2. Pending(j)' \in {0, 1}
      BY DEF Pending
    <3>3. 0 + OnTurn(j)' + Pending(j)' + manual[j] + excused[j]
            <= OnTurn(j) + Pending(j) + manual'[j] + excused'[j]
      <4>1. manual'[j] = manual[j] /\ excused'[j] = excused[j]
        BY <2>1
      <4>2. CASE j = Current
        BY <1>n, <2>3, <3>1, <3>2, <4>1, <4>2
      <4>3. CASE j # Current
        BY <1>n, <2>3, <2>4, <4>1, <4>3
      <4> QED
        BY <4>2, <4>3
    <3>4. /\ IsFiniteSet(Waiting(j)')
          /\ Cardinality(Waiting(j)') <= Cardinality(Waiting(j)) + 0 /\ 0 \in Int
      BY <1>n, <1>w, <2>1
    <3> QED
      BY <1>t, <2>1, <3>3, <3>4, BudgetPaid
  <2> QED
    BY <1>13, <2>5, <2>6
<1>14. ASSUME SaveFaults PROVE Budget(j)'
  <2>1. /\ thread \in Attempt /\ Current \in Job /\ excused \in [Job -> Nat]
        /\ excused' = [excused EXCEPT ![Current] = @ + 1]
        /\ UNCHANGED <<written, manual, job, chain>> /\ thread.pc = "save"
    BY <1>14, <1>t, ThreadTypes DEF SaveFaults, TypeOK
  <2>2. Current' = Current
    BY <1>14, <2>1 DEF SaveFaults, Attempt, Current
  <2>3. Pending(j)' = Pending(j) /\ manual'[j] = manual[j]
    BY <2>1 DEF Pending
  <2>4. /\ OnTurn(j) = 0 /\ OnTurn(j)' \in {0, 1}
        /\ j # Current => OnTurn(j)' = 0
    BY <2>1, <2>2 DEF OnTurn
  <2>5. /\ j = Current => excused'[j] = excused[j] + 1
        /\ j # Current => excused'[j] = excused[j]
    BY <2>1
  <2>6. 0 + OnTurn(j)' + Pending(j)' + manual[j] + excused[j]
          <= OnTurn(j) + Pending(j) + manual'[j] + excused'[j]
    <3>1. CASE j = Current
      BY <1>n, <2>3, <2>4, <2>5, <3>1
    <3>2. CASE j # Current
      BY <1>n, <2>3, <2>4, <2>5, <3>2
    <3> QED
      BY <3>1, <3>2
  <2>7. /\ IsFiniteSet(Waiting(j)')
        /\ Cardinality(Waiting(j)') <= Cardinality(Waiting(j)) + 0 /\ 0 \in Int
    BY <1>n, <1>w, <2>1
  <2> QED
    BY <1>t, <2>1, <2>6, <2>7, BudgetPaid
<1>15. ASSUME FailFaults PROVE Budget(j)'
  <2>1. thread \in Attempt /\ GoOn /\ UNCHANGED <<written, job, manual, excused, chain>>
    BY <1>15, <1>t, ThreadTypes DEF FailFaults
  <2>2. OnTurn(j)' = 0 /\ Pending(j)' = Pending(j)
    BY <1>z, <2>1, GoOnTypes DEF Pending
  <2>3. Pending(j)' <= Pending(j) /\ OnTurn(j)' <= OnTurn(j)
    BY <1>n, <2>2
  <2> QED
    BY <1>q, <2>1, <2>3
<1>16. ASSUME \/ SaveStorageSettings
              \/ \E f \in File : Lock(f) \/ Unlock(f)
              \/ UNCHANGED vars
       PROVE  Budget(j)'
  <2>1. UNCHANGED <<written, job, manual, excused, chain, thread>>
    BY <1>16 DEF SaveStorageSettings, Lock, Unlock, vars
  <2>2. OnTurn(j)' = OnTurn(j) /\ Pending(j)' = Pending(j)
    BY <2>1 DEF OnTurn, Pending, Current
  <2>3. Pending(j)' <= Pending(j) /\ OnTurn(j)' <= OnTurn(j)
    BY <1>n, <2>2
  <2> QED
    BY <1>q, <2>1, <2>3
<1>17. ASSUME Crash PROVE Budget(j)'
  <2>1. UNCHANGED <<written, job, manual, excused>> /\ thread'.pc \notin {"append", "fail"}
    BY <1>17 DEF Crash, Idle
  <2>2. \A f \in File : DOMAIN chain'[f] = {}
    BY <1>17, EmptySeq DEF Crash
  <2>3. Waiting(j)' = {}
    BY <2>2, NextWaitingTasks DEF WaitingIsTasks
  <2>4. IsFiniteSet(Waiting(j)') /\ Cardinality(Waiting(j)') <= Cardinality(Waiting(j))
    BY <1>n, <2>3, FS_EmptySet
  <2>5. OnTurn(j)' = 0 /\ Pending(j)' = Pending(j)
    BY <1>z, <2>1 DEF Pending
  <2>6. /\ OnTurn(j)' <= OnTurn(j) /\ Pending(j)' <= Pending(j)
        /\ manual'[j] >= manual[j] /\ excused'[j] >= excused[j]
    BY <1>n, <2>1, <2>5
  <2> QED
    BY <1>t, <2>1, <2>4, <2>6, BudgetKept
<1> QED
  BY <1>2, <1>3, <1>4, <1>5, <1>6, <1>9, <1>10, <1>11, <1>12, <1>13, <1>14, <1>15,
     <1>16, <1>17 DEF Next

LEMMA BudgetInvariant == Spec => []BudgetInv
<1> QED
  BY BudgetInit, BudgetStep, PTL DEF Spec

LEMMA BudgetExcuses == BudgetInv => DuplicatesAreExcused
<1> SUFFICES ASSUME BudgetInv, NEW j \in Job
             PROVE  Cardinality(RowsOf(j)) <= 1 + manual[j] + excused[j]
  BY DEF DuplicatesAreExcused
<1> QED
  BY BudgetTypes, SMTT(30) DEF BudgetInv, Budget

\* A record has one row more than asked for only where the database did not take
\* a success, over all directories and whatever was locked, moved, broke off or
\* crashed, in every reachable state.
THEOREM RowsAreExcused == Spec => []DuplicatesAreExcused
<1> QED
  BY BudgetInvariant, BudgetExcuses, PTL

\* Nobody asked for another write, and the database took every success.
NoExcuse(j) == manual[j] = 0 /\ excused[j] = 0

\* A record has at most one row in all files of a format together.
WrittenOnce ==
  \A j \in Job : NoExcuse(j) =>
    \A f, g \in File :
      f[2] = j[2] /\ g[2] = j[2] /\ written[f][j[1]] > 0 /\ written[g][j[1]] > 0 =>
        f = g /\ written[f][j[1]] = 1

\* Nobody asked for another write and the database took every success: then the
\* record has at most one row in all files of a format together.
THEOREM NoDuplicateRow == Spec => []WrittenOnce
<1>1. ASSUME BudgetInv, NEW j \in Job, NoExcuse(j), NEW f \in File, NEW g \in File,
             f[2] = j[2], g[2] = j[2], written[f][j[1]] > 0, written[g][j[1]] > 0
      PROVE  f = g /\ written[f][j[1]] = 1
  <2>1. TypeOK /\ IsFiniteSet(RowsOf(j)) /\ Cardinality(RowsOf(j)) \in Nat
    BY <1>1, BudgetTypes
  <2>2. Cardinality(RowsOf(j)) <= 1
    BY <1>1, <2>1, BudgetExcuses DEF DuplicatesAreExcused, NoExcuse
  <2>3. \A p, q \in RowsOf(j) : p = q
    <3>1. CASE Cardinality(RowsOf(j)) = 0
      BY <2>1, <3>1, FS_EmptySet
    <3>2. CASE Cardinality(RowsOf(j)) = 1
      <4>1. PICK x : RowsOf(j) = {x}
        BY <2>1, <3>2, FS_Singleton
      <4> QED
        BY <4>1
    <3> QED
      BY <2>1, <2>2, <3>1, <3>2
  <2>4. written[f][j[1]] \in Nat /\ written[g][j[1]] \in Nat
    BY <2>1 DEF TypeOK, Rows, Job
  <2>5. <<f, 1>> \in RowsOf(j) /\ <<g, 1>> \in RowsOf(j)
    BY <1>1, <2>4, RowElements DEF RowsOf
  <2>6. written[f][j[1]] > 1 => <<f, 2>> \in RowsOf(j)
    BY <1>1, <2>4, RowElements DEF RowsOf
  <2>7. f = g
    BY <2>3, <2>5
  <2>8. ~(written[f][j[1]] > 1)
    BY <2>3, <2>5, <2>6
  <2> QED
    BY <1>1, <2>4, <2>7, <2>8
<1>2. BudgetInv => WrittenOnce
  BY <1>1 DEF WrittenOnce
<1> QED
  BY <1>2, BudgetInvariant, PTL
-----------------------------------------------------------------------------
(* The archive.  A workbook is open exactly while the first task of its    *)
(* chain writes it; then, and after a write that broke off, it is damaged. *)

FilesFit ==
  \A f \in File :
    /\ file[f].rows = written[f]
    /\ WriteOpen(f) => file[f].damaged
    /\ f[2] = "TXT" => ~file[f].damaged

FileInv == RowInv /\ FilesFit

\* When the first task of a chain has settled, the next one has not begun.
LEMMA HeadLeft ==
  ASSUME RowInv, NEW f \in File, chain[f] # <<>>,
         chain' = [chain EXCEPT ![f] = Without(@, 1)]
  PROVE  \A g \in File : WriteOpen(g)' <=> g # f /\ WriteOpen(g)
<1>1. TypeOK /\ Serial /\ DOMAIN chain = File
  BY DEF RowInv, TypeInv, TypeOK
<1>2. /\ chain' \in [File -> Seq(Task)]
      /\ \A i \in DOMAIN chain'[f] :
           i + 1 \in DOMAIN chain[f] /\ i + 1 # 1 /\ chain'[f][i] = chain[f][i + 1]
  <2>1. /\ chain' \in [File -> Seq(Task)]
        /\ \A g \in File : \A i \in DOMAIN chain'[g] :
             \/ g # f /\ i \in DOMAIN chain[g] /\ chain'[g][i] = chain[g][i]
             \/ /\ g = f /\ i + 1 \in DOMAIN chain[g] /\ i + 1 # 1
                /\ chain'[g][i] = chain[g][i + 1]
    BY <1>1, TasksLeft
  <2> QED
    BY <2>1
<1>3. ASSUME chain'[f] # <<>> PROVE chain'[f][1].pc = "queued"
  <2>1. chain'[f] \in Seq(Task)
    BY <1>2
  <2>2. 1 \in DOMAIN chain'[f]
    BY <1>3, <2>1, EmptySeq, LenProperties
  <2> QED
    BY <1>1, <1>2, <2>2 DEF Serial
<1>4. \A g \in File : g # f => chain'[g] = chain[g]
  BY <1>1
<1> QED
  BY <1>3, <1>4 DEF WriteOpen

\* The first task of a chain goes on.
LEMMA HeadWrites ==
  ASSUME RowInv, NEW f \in File, chain[f] # <<>>, NEW t \in Task,
         chain' = [chain EXCEPT ![f] = [@ EXCEPT ![1] = t]]
  PROVE  \A g \in File :
           WriteOpen(g)' <=> IF g = f THEN t.pc = "writing" ELSE WriteOpen(g)
<1>1. TypeOK /\ chain \in [File -> Seq(Task)]
  BY DEF RowInv, TypeInv, TypeOK
<1>2. chain[f] \in Seq(Task) /\ 1 \in DOMAIN chain[f]
  BY <1>1, HeadTask
<1>3. chain'[f] = [chain[f] EXCEPT ![1] = t]
  BY <1>1
<1>4. chain'[f][1] = t /\ DOMAIN chain'[f] = DOMAIN chain[f]
  BY <1>2, <1>3
<1>5. chain'[f] # <<>>
  BY <1>2, <1>4, EmptySeq
<1>6. \A g \in File : g # f => chain'[g] = chain[g]
  BY <1>1
<1> QED
  BY <1>4, <1>5, <1>6 DEF WriteOpen

\* A task that joins a chain opens nothing.
LEMMA HeadWaits ==
  ASSUME RowInv, NEW x \in File, NEW e \in Task, e.pc = "queued",
         chain' = [chain EXCEPT ![x] = Append(@, e)]
  PROVE  \A g \in File : WriteOpen(g)' <=> WriteOpen(g)
<1>1. TypeOK /\ chain \in [File -> Seq(Task)]
  BY DEF RowInv, TypeInv, TypeOK
<1>2. chain'[x] = Append(chain[x], e) /\ chain[x] \in Seq(Task)
  BY <1>1
<1>3. chain'[x] # <<>>
  BY <1>2, AppendProperties
<1>4. CASE chain[x] = <<>>
  <2>1. chain'[x][1] = e
    BY <1>2, <1>4
  <2>2. ~WriteOpen(x)' /\ ~WriteOpen(x)
    BY <1>4, <2>1 DEF WriteOpen
  <2> QED
    BY <1>1, <2>2 DEF WriteOpen
<1>5. CASE chain[x] # <<>>
  <2>1. chain'[x][1] = chain[x][1]
    BY <1>1, <1>5, HeadTask, TasksAfterAppend
  <2>2. WriteOpen(x)' <=> WriteOpen(x)
    BY <1>3, <1>5, <2>1 DEF WriteOpen
  <2> QED
    BY <1>1, <2>2 DEF WriteOpen
<1> QED
  BY <1>4, <1>5

\* An attempt that starts opens nothing.
LEMMA StartOpensNothing ==
  ASSUME RowInv, NEW r \in Record, NEW more \in BOOLEAN,
         StartTxt(r, more) \/ StartXlsx(r)
  PROVE  \A g \in File : WriteOpen(g)' <=> WriteOpen(g)
<1>1. TypeInv
  BY DEF RowInv
<1>2. CASE StartTxt(r, more)
  BY <1>1, <1>2, StartTxtTypes DEF WriteOpen
<1>3. CASE StartXlsx(r)
  <2> DEFINE e == [rec |-> r, pc |-> "queued", rows |-> NoRows]
             x == TargetOf("XLSX")
  <2>1. e \in Task /\ x \in File /\ chain' = [chain EXCEPT ![x] = Append(@, e)]
    BY <1>1, <1>3, StartXlsxTypes
  <2>2. e.pc = "queued"
    OBVIOUS
  <2> HIDE DEF e, x
  <2> QED
    BY <2>1, <2>2, HeadWaits
<1> QED
  BY <1>2, <1>3

LEMMA StartAttemptOpensNothing ==
  ASSUME RowInv, NEW j \in Job, StartAttempt(j)
  PROVE  \A g \in File : WriteOpen(g)' <=> WriteOpen(g)
<1>1. j[1] \in Record /\ FALSE \in BOOLEAN
  BY DEF Job
<1>2. StartTxt(j[1], FALSE) \/ StartXlsx(j[1])
  BY DEF StartAttempt
<1> QED
  BY <1>1, <1>2, StartOpensNothing

\* A TXT file is never open for longer than a step.
LEMMA TxtIsNotOpen ==
  ASSUME RowInv, NEW f \in File, f[2] = "TXT"
  PROVE  ~WriteOpen(f)
<1>1. TypeOK /\ Serial
  BY DEF RowInv, TypeInv
<1>2. CASE chain[f] # <<>>
  <2>1. 1 \in DOMAIN chain[f]
    BY <1>1, <1>2, HeadTask
  <2> QED
    BY <1>1, <2>1 DEF Serial
<1> QED
  BY <1>2 DEF WriteOpen

LEMMA FileInit == Init => FileInv
<1> SUFFICES ASSUME Init PROVE FileInv
  OBVIOUS
<1>1. \A f \in File : ~WriteOpen(f)
  BY DEF Init, WriteOpen
<1>2. FilesFit
  BY <1>1 DEF Init, FilesFit
<1> QED
  BY <1>2, RowInit DEF FileInv

\* Every step keeps the files with their rows, and damages an open one only.
LEMMA FileStep == FileInv /\ [Next]_vars => FileInv'
<1> SUFFICES ASSUME FileInv, [Next]_vars PROVE FilesFit'
  BY RowStep DEF FileInv
<1> USE DEF database, disk
<1>t. RowInv /\ FilesFit /\ TypeInv /\ TypeOK /\ Serial /\ TxtOnThread /\ DOMAIN file = File
  BY DEF FileInv, RowInv, TypeInv, TypeOK
<1>1. ASSUME UNCHANGED <<file, written>>, \A f \in File : WriteOpen(f)' => WriteOpen(f)
      PROVE  FilesFit'
  BY <1>1, <1>t DEF FilesFit
<1>2. ASSUME UNCHANGED <<file, written, chain>> PROVE FilesFit'
  <2>1. \A f \in File : WriteOpen(f)' => WriteOpen(f)
    BY <1>2 DEF WriteOpen
  <2> QED
    BY <1>1, <1>2, <2>1
<1>3. ASSUME NEW r \in Record, EnqueueForRecord(r) PROVE FilesFit'
  <2>1. CASE UNCHANGED <<job, chain, thread>>
    BY <1>2, <1>3, <2>1 DEF EnqueueForRecord
  <2>2. CASE StartTxt(r, settings.xlsx) \/ StartXlsx(r)
    <3>1. settings.xlsx \in BOOLEAN /\ file' = file /\ written' = written
      BY <1>3, <1>t DEF TypeOK, Settings, EnqueueForRecord
    <3> QED
      BY <1>1, <1>t, <2>2, <3>1, StartOpensNothing
  <2> QED
    BY <1>3, <2>1, <2>2 DEF EnqueueForRecord
<1>4. ASSUME NEW j \in Job, ProcessDueRetry(j) \/ RetryNow(j) PROVE FilesFit'
  <2>1. StartAttempt(j) /\ file' = file /\ written' = written
    BY <1>4 DEF ProcessDueRetry, RetryNow
  <2> QED
    BY <1>1, <1>t, <2>1, StartAttemptOpensNothing
<1>5. ASSUME EnqueueXlsx PROVE FilesFit'
  <2>1. thread.rec \in Record /\ StartXlsx(thread.rec) /\ file' = file /\ written' = written
    BY <1>5, <1>t, ThreadTypes DEF EnqueueXlsx, SecondFormat
  <2>2. FALSE \in BOOLEAN
    OBVIOUS
  <2> QED
    BY <1>1, <1>t, <2>1, <2>2, StartOpensNothing
<1>6. ASSUME AppendTxtRow PROVE FilesFit'
  <2>1. thread \in Attempt /\ thread.file \in File /\ chain' = chain
    BY <1>6, <1>t, ThreadTypes DEF AppendTxtRow, Attempt
  <2>2. CASE UNCHANGED <<file, written>>
    BY <1>2, <2>1, <2>2
  <2>3. CASE /\ file' = [file EXCEPT ![thread.file].rows = PlusOne(@, thread.rec)]
             /\ written' = [written EXCEPT ![thread.file] = PlusOne(@, thread.rec)]
    <3>1. \A g \in File : g # thread.file => file'[g] = file[g] /\ written'[g] = written[g]
      BY <1>t, <2>3 DEF TypeOK
    <3>2. /\ file'[thread.file].damaged = file[thread.file].damaged
          /\ file'[thread.file].rows = PlusOne(file[thread.file].rows, thread.rec)
          /\ written'[thread.file] = PlusOne(written[thread.file], thread.rec)
      BY <1>t, <2>1, <2>3 DEF TypeOK
    <3>3. \A g \in File : WriteOpen(g)' <=> WriteOpen(g)
      BY <2>1 DEF WriteOpen
    <3> QED
      BY <1>t, <3>1, <3>2, <3>3 DEF FilesFit
  <2> QED
    BY <1>6, <2>2, <2>3 DEF AppendTxtRow
<1>7. ASSUME NEW f \in File, chain[f] # <<>>,
             chain' = [chain EXCEPT ![f] = Without(@, 1)], UNCHANGED <<file, written>>
      PROVE  FilesFit'
  BY <1>1, <1>7, <1>t, HeadLeft
<1>8. ASSUME NEW f \in File, NEW i \in DOMAIN chain[f], LoadWorkbook(f, i) PROVE FilesFit'
  <2>1. i = 1 /\ chain[f] # <<>> /\ chain[f][1] \in Task /\ UNCHANGED <<file, written>>
    BY <1>8, <1>t, TaskTypes DEF LoadWorkbook, Ready
  <2>2. CASE file[f].damaged
    <3>1. chain' = [chain EXCEPT ![f] = Without(@, 1)]
      BY <1>8, <2>1, <2>2 DEF LoadWorkbook
    <3> QED
      BY <1>7, <2>1, <3>1
  <2>3. CASE ~file[f].damaged
    <3> DEFINE t == [[chain[f][1] EXCEPT !.pc = "loaded"] EXCEPT !.rows = file[f].rows]
    <3>1. file[f].rows \in Rows
      BY <1>t DEF TypeOK
    <3>2. t \in Task /\ t.pc = "loaded"
      BY <2>1, <3>1 DEF Task
    <3>3. chain' = [chain EXCEPT ![f] = [@ EXCEPT ![1] = t]]
      <4>1. chain' = [chain EXCEPT ![f][1].pc = "loaded", ![f][1].rows = file[f].rows]
        BY <1>8, <2>1, <2>3 DEF LoadWorkbook
      <4>2. chain \in [File -> Seq(Task)] /\ 1 \in DOMAIN chain[f]
        BY <1>8, <1>t, <2>1 DEF TypeOK
      <4> QED
        BY <4>1, <4>2
    <3> HIDE DEF t
    <3>4. \A g \in File : WriteOpen(g)' <=> IF g = f THEN t.pc = "writing" ELSE WriteOpen(g)
      BY <1>t, <2>1, <3>2, <3>3, HeadWrites
    <3> QED
      BY <1>1, <2>1, <3>2, <3>4
  <2> QED
    BY <2>2, <2>3
<1>9. ASSUME NEW f \in File, NEW i \in DOMAIN chain[f], OpenForWrite(f, i) PROVE FilesFit'
  <2>1. i = 1 /\ chain[f] # <<>> /\ chain[f][1] \in Task
    BY <1>9, <1>t, TaskTypes DEF OpenForWrite, Ready
  <2>2. CASE f \in locked
    <3>1. chain' = [chain EXCEPT ![f] = Without(@, 1)] /\ UNCHANGED <<file, written>>
      BY <1>9, <2>1, <2>2 DEF OpenForWrite
    <3> QED
      BY <1>7, <2>1, <3>1
  <2>3. CASE f \notin locked
    <3> DEFINE t == [chain[f][1] EXCEPT !.pc = "writing"]
    <3>1. t \in Task /\ t.pc = "writing"
      BY <2>1 DEF Task
    <3>2. chain' = [chain EXCEPT ![f] = [@ EXCEPT ![1] = t]]
      BY <1>9, <2>1, <2>3 DEF OpenForWrite
    <3> HIDE DEF t
    <3>3. written' = written /\ file' = [file EXCEPT ![f].damaged = TRUE]
      BY <1>9, <2>3 DEF OpenForWrite
    <3>4. \A g \in File : WriteOpen(g)' <=> IF g = f THEN t.pc = "writing" ELSE WriteOpen(g)
      BY <1>t, <2>1, <3>1, <3>2, HeadWrites
    <3>5. /\ \A g \in File : g # f => file'[g] = file[g]
          /\ file'[f].damaged /\ file'[f].rows = file[f].rows
      BY <1>t, <3>3 DEF TypeOK
    <3>6. f[2] = "XLSX" /\ "XLSX" # "TXT"
      BY <1>t DEF Serial
    <3> QED
      BY <1>t, <3>3, <3>4, <3>5, <3>6 DEF FilesFit
  <2> QED
    BY <2>2, <2>3
<1>10. ASSUME NEW f \in File, NEW i \in DOMAIN chain[f], FinishWrite(f, i) PROVE FilesFit'
  <2>1. /\ i = 1 /\ chain[f] # <<>>
        /\ chain[f][1].pc = "writing" /\ chain[f][1].rows = written[f]
    BY <1>10, <1>t, TaskTypes DEF FinishWrite, Ready, Serial
  <2>2. /\ chain' = [chain EXCEPT ![f] = Without(@, 1)]
        /\ file' = [file EXCEPT ![f] = [rows |-> PlusOne(chain[f][1].rows, chain[f][1].rec),
                                       damaged |-> FALSE]]
        /\ written' = [written EXCEPT ![f] = PlusOne(@, chain[f][1].rec)]
    BY <1>10, <2>1 DEF FinishWrite
  <2>3. \A g \in File : WriteOpen(g)' <=> g # f /\ WriteOpen(g)
    BY <1>t, <2>1, <2>2, HeadLeft
  <2>4. /\ \A g \in File : g # f => file'[g] = file[g] /\ written'[g] = written[g]
        /\ file'[f].rows = written'[f] /\ ~file'[f].damaged
    BY <1>t, <2>1, <2>2 DEF TypeOK
  <2> QED
    BY <1>t, <2>3, <2>4 DEF FilesFit
<1>11. ASSUME NEW f \in File, NEW i \in DOMAIN chain[f], WriteBreaks(f, i) PROVE FilesFit'
  <2>1. i = 1 /\ chain[f] # <<>>
    BY <1>11, <1>t, TaskTypes DEF WriteBreaks, Ready
  <2>2. chain' = [chain EXCEPT ![f] = Without(@, 1)] /\ UNCHANGED <<file, written>>
    BY <1>11, <2>1 DEF WriteBreaks
  <2> QED
    BY <1>7, <2>1, <2>2
<1>12. ASSUME Crash PROVE FilesFit'
  <2>1. UNCHANGED <<file, written>> /\ \A f \in File : ~WriteOpen(f)'
    BY <1>12 DEF Crash, WriteOpen
  <2> QED
    BY <1>1, <2>1
<1>13. ASSUME \/ Save \/ SaveFaults \/ Fail \/ FailFaults \/ SaveStorageSettings
              \/ \E j \in Job : RetryDelayPasses(j)
              \/ \E f \in File : Lock(f) \/ Unlock(f)
              \/ UNCHANGED vars
       PROVE  FilesFit'
  <2>1. UNCHANGED <<file, written, chain>>
    BY <1>13 DEF Save, SaveFaults, Fail, FailFaults, SaveStorageSettings,
       RetryDelayPasses, Lock, Unlock, vars
  <2> QED
    BY <1>2, <2>1
<1> QED
  BY <1>3, <1>4, <1>5, <1>6, <1>8, <1>9, <1>10, <1>11, <1>12, <1>13 DEF Next

\* What the mapping to the archive rests on.
ArchiveInv == FileInv /\ SavedInv /\ BudgetInv

LEMMA ArchiveInvariant == Spec => []ArchiveInv
<1>1. Init => ArchiveInv
  BY FileInit, SavedInit, BudgetInit DEF ArchiveInv
<1>2. ArchiveInv /\ [Next]_vars => ArchiveInv'
  BY FileStep, SavedStep, BudgetStep DEF ArchiveInv
<1> QED
  BY <1>1, <1>2, PTL DEF Spec

LEMMA ArchiveTypes ==
  ASSUME ArchiveInv
  PROVE  /\ TypeInv /\ TypeOK /\ RowInv /\ Serial /\ FilesFit /\ Single /\ WriteDone
         /\ BudgetInv /\ JobsExist /\ TxtOnThread
  BY DEF ArchiveInv, FileInv, SavedInv, BudgetInv, AttemptInv, RowInv, TypeInv

LEMMA SameNames == A!File = File /\ A!Item = Job
  BY DEF A!File, A!Item, A!Format, File, Job, Format

\* What a step leaves alone.
LEMMA FilesStay ==
  ASSUME UNCHANGED file, \A g \in File : WriteOpen(g)' <=> WriteOpen(g)
  PROVE  UNCHANGED <<OnDisk, State>>
<1>1. \A g \in File : file'[g] = file[g]
  OBVIOUS
<1>2. OnDisk' = OnDisk
  BY <1>1 DEF OnDisk
<1>3. State' = State
  BY <1>1 DEF State
<1> QED
  BY <1>2, <1>3

LEMMA DebtsStay ==
  ASSUME UNCHANGED <<written, manual, excused>>
  PROVE  UNCHANGED <<Owed, Asked>>
  BY DEF Owed, Asked, RowsOf

LEMMA ShownStays ==
  ASSUME \A j \in Job : job'[j].status = "SAVED" <=> job[j].status = "SAVED"
  PROVE  Saved' = Saved
  BY DEF Saved

\* An attempt that starts takes back what is shown of its job.
LEMMA StartShows ==
  ASSUME TypeOK, NEW j \in Job, Writing(j)
  PROVE  Saved' = Saved \ {j}
<1>1. /\ job'[j].status = "WRITING"
      /\ \A k \in Job : k # j => job'[k] = job[k]
  BY DEF Writing, TypeOK
<1> QED
  BY <1>1 DEF Saved

\* The end of an attempt shows its outcome.
LEMMA EndShows ==
  ASSUME ArchiveInv, OnThread, NEW status \in {"SAVED", "FAILED"},
         job' = [job EXCEPT ![Current] = [@ EXCEPT !.status = status, !.due = FALSE]]
  PROVE  /\ Current \in Job
         /\ Saved' = IF status = "SAVED" THEN Saved \cup {Current} ELSE Saved \ {Current}
<1>1. TypeOK /\ JobsExist /\ Current \in Job
  BY ArchiveTypes, ThreadTypes DEF OnThread
<1>2. job[Current] \in JobRow /\ job \in [Job -> JobRow \cup {NoJob}]
  BY <1>1 DEF JobsExist, OnThread, TypeOK
<1>3. job'[Current].status = status
  BY <1>1, <1>2 DEF JobRow
<1>4. \A k \in Job : k # Current => job'[k] = job[k]
  BY <1>2
<1> QED
  BY <1>1, <1>3, <1>4 DEF Saved

\* A job with an attempt under way that has not written is owed a row.
LEMMA OwesOne ==
  ASSUME BudgetInv, NEW j \in Job, Cardinality(Waiting(j)) + OnTurn(j) >= 1
  PROVE  Owed[j] > 0
<1>1. Owed[j] = 1 + manual[j] + excused[j] - Cardinality(RowsOf(j))
  BY DEF Owed
<1>2. Cardinality(RowsOf(j)) + Cardinality(Waiting(j)) + OnTurn(j) + Pending(j)
        <= 1 + manual[j] + excused[j]
  BY DEF BudgetInv, Budget
<1>3. /\ Cardinality(RowsOf(j)) \in Nat /\ Cardinality(Waiting(j)) \in Nat
      /\ OnTurn(j) \in {0, 1} /\ Pending(j) \in {0, 1}
      /\ manual[j] \in Nat /\ excused[j] \in Nat
  BY BudgetTypes
<1>4. PICK a \in Nat, b \in Nat :
        a = Cardinality(RowsOf(j)) /\ b = Cardinality(Waiting(j))
  BY <1>3
<1> QED
  BY <1>1, <1>2, <1>3, <1>4

\* A completed write pays one of the rows that are owed.
LEMMA OnePaid ==
  ASSUME BudgetInv, NEW f \in File, NEW r \in Record,
         written' = [written EXCEPT ![f] = PlusOne(@, r)], UNCHANGED <<manual, excused>>
  PROVE  /\ <<r, f[2]>> \in Job
         /\ Owed' = [Owed EXCEPT ![<<r, f[2]>>] = @ - 1]
<1> DEFINE i == <<r, f[2]>>
<1>1. i \in Job
  BY DEF File, Job
<1>2. ASSUME NEW j \in Job
      PROVE  Owed'[j] = IF j = i THEN Owed[j] - 1 ELSE Owed[j]
  <2>1. /\ TypeOK /\ IsFiniteSet(RowsOf(j)) /\ Cardinality(RowsOf(j)) \in Nat
        /\ manual[j] \in Nat /\ excused[j] \in Nat
    BY BudgetTypes
  <2>2. /\ Owed[j] = 1 + manual[j] + excused[j] - Cardinality(RowsOf(j))
        /\ Owed'[j] = 1 + manual[j] + excused[j] - Cardinality(RowsOf(j)')
    BY DEF Owed
  <2>3. CASE j = i
    <3>1. Cardinality(RowsOf(j)') = Cardinality(RowsOf(j)) + 1
      BY <2>1, <2>3, RowAdded
    <3>2. PICK a \in Nat : a = Cardinality(RowsOf(j))
      BY <2>1
    <3> QED
      BY <2>1, <2>2, <2>3, <3>1, <3>2
  <2>4. CASE j # i
    <3>1. RowsOf(j)' = RowsOf(j)
      BY <2>1, <2>4, RowAdded
    <3> QED
      BY <2>2, <2>4, <3>1
  <2> QED
    BY <2>3, <2>4
<1>3. Owed' = [j \in Job |-> Owed'[j]] /\ Owed = [j \in Job |-> Owed[j]]
  BY DEF Owed
<1> QED
  BY <1>1, <1>2, <1>3

\* A retry by hand, or a success that is not taken, owes one row more.
LEMMA OneMoreOwed ==
  ASSUME BudgetInv, NEW i \in Job, UNCHANGED written,
         \/ manual' = [manual EXCEPT ![i] = @ + 1] /\ excused' = excused
         \/ excused' = [excused EXCEPT ![i] = @ + 1] /\ manual' = manual
  PROVE  Owed' = [Owed EXCEPT ![i] = @ + 1]
<1>1. ASSUME NEW j \in Job
      PROVE  Owed'[j] = 1 + manual'[j] + excused'[j] - Cardinality(RowsOf(j))
  BY DEF Owed, RowsOf
<1>2. ASSUME NEW j \in Job
      PROVE  Owed'[j] = IF j = i THEN Owed[j] + 1 ELSE Owed[j]
  <2> DEFINE c == Cardinality(RowsOf(j))
  <2>1. Owed[j] = 1 + manual[j] + excused[j] - c
    BY DEF Owed
  <2>2. Owed'[j] = 1 + manual'[j] + excused'[j] - c
    BY <1>1
  <2>3. TypeOK /\ manual[j] \in Nat /\ excused[j] \in Nat
    BY BudgetTypes
  <2>4. \/ /\ manual'[j] = IF j = i THEN manual[j] + 1 ELSE manual[j]
           /\ excused'[j] = excused[j]
        \/ /\ excused'[j] = IF j = i THEN excused[j] + 1 ELSE excused[j]
           /\ manual'[j] = manual[j]
    BY <2>3 DEF TypeOK
  <2>5. PICK n \in Nat : n = c
    BY BudgetTypes
  <2> HIDE DEF c
  <2>6. Owed[j] = 1 + manual[j] + excused[j] - n /\ Owed'[j] = 1 + manual'[j] + excused'[j] - n
    BY <2>1, <2>2, <2>5
  <2> QED
    BY <2>3, <2>4, <2>6
<1>3. Owed' = [j \in Job |-> Owed'[j]] /\ Owed = [j \in Job |-> Owed[j]]
  BY DEF Owed
<1> QED
  BY <1>2, <1>3

\* A completed write adds a row to the archive.
LEMMA WriteAdds ==
  ASSUME ArchiveInv, NEW f \in File, NEW r \in Record,
         written' = [written EXCEPT ![f] = PlusOne(@, r)],
         UNCHANGED <<manual, excused, job>>,
         file'[f].rows = PlusOne(file[f].rows, r), ~file'[f].damaged,
         \A g \in File : g # f => file'[g] = file[g],
         \A g \in File : WriteOpen(g)' <=> g # f /\ WriteOpen(g),
         State[f] = IF f[2] = "TXT" THEN "whole" ELSE "open",
         Owed[<<r, f[2]>>] > 0
  PROVE  A!Next
<1>1. Owed' = [Owed EXCEPT ![<<r, f[2]>>] = @ - 1] /\ BudgetInv /\ TypeOK
  BY ArchiveTypes, OnePaid
<1>2. OnDisk' = [OnDisk EXCEPT ![f][r] = @ + 1]
  <2>1. /\ OnDisk[f] = file[f].rows
        /\ \A g \in File : OnDisk'[g] = IF g = f THEN PlusOne(file[f].rows, r) ELSE OnDisk[g]
    BY DEF OnDisk
  <2>2. PlusOne(file[f].rows, r) = [OnDisk[f] EXCEPT ![r] = @ + 1]
    BY <2>1 DEF PlusOne
  <2>3. OnDisk' = [g \in File |-> OnDisk'[g]] /\ OnDisk = [g \in File |-> OnDisk[g]]
    BY DEF OnDisk
  <2> QED
    BY <2>1, <2>2, <2>3
<1>3. State' = [State EXCEPT ![f] = "whole"]
  <2>1. \A g \in File : State'[g] = IF g = f THEN "whole" ELSE State[g]
    BY DEF State
  <2>2. State' = [g \in File |-> State'[g]] /\ State = [g \in File |-> State[g]]
    BY DEF State
  <2> QED
    BY <2>1, <2>2
<1>4. UNCHANGED <<Saved, Asked>>
  BY DEF Saved, Asked
<1>5. A!Add(f, r)
  BY <1>1, <1>2, <1>3, <1>4 DEF A!Add
<1> QED
  BY <1>5, SameNames DEF A!Next

\* Workbooks that are open stay damaged when they are closed without a result.
LEMMA WriteLost ==
  ASSUME ArchiveInv, NEW files \in SUBSET {f \in File : WriteOpen(f)},
         UNCHANGED <<file, written, job, manual, excused>>,
         \A g \in File : WriteOpen(g)' <=> WriteOpen(g) /\ g \notin files
  PROVE  A!Next
<1>1. \A g \in File : State'[g] = IF g \in files THEN "broken" ELSE State[g]
  BY ArchiveTypes DEF State, FilesFit
<1>2. State' = [g \in File |-> IF g \in files THEN "broken" ELSE State[g]]
  <2>1. State' = [g \in File |-> State'[g]]
    BY DEF State
  <2> QED
    BY <1>1, <2>1
<1>3. UNCHANGED <<OnDisk, Owed, Saved, Asked>>
  BY DebtsStay DEF OnDisk, Saved
<1>4. A!Break(files)
  BY <1>2, <1>3, SameNames DEF A!Break
<1>5. files \in SUBSET {f \in A!File : State[f] = "open"}
  BY SameNames DEF State
<1> QED
  BY <1>4, <1>5 DEF A!Next

\* The thread has written the record it is about to show as saved.
LEMMA ThreadAdded ==
  ASSUME ArchiveInv, thread.pc = "save"
  PROVE  Current \in Job /\ A!Added(Current) /\ OnThread
<1>1. /\ TypeOK /\ FilesFit /\ WriteDone /\ OnThread
      /\ thread \in Attempt /\ Current \in Job
  BY ArchiveTypes, ThreadTypes DEF OnThread
<1>2. thread.file \in File /\ thread.rec \in Record /\ written[thread.file][thread.rec] > 0
  BY <1>1 DEF Attempt, WriteDone
<1>3. OnDisk[thread.file][thread.rec] > 0
  BY <1>1, <1>2 DEF OnDisk, FilesFit
<1> QED
  BY <1>1, <1>2, <1>3, SameNames DEF A!Added, Current

LEMMA ArchiveInit == Init => A!Init
<1> SUFFICES ASSUME Init PROVE A!Init
  OBVIOUS
<1>1. ArchiveInv
  BY FileInit, SavedInit, BudgetInit DEF ArchiveInv
<1>2. OnDisk = [f \in File |-> [r \in Record |-> 0]]
  BY DEF Init, OnDisk, NoRows
<1>3. State = [f \in File |-> "whole"]
  BY DEF Init, State, WriteOpen
<1>4. Owed = [j \in Job |-> 1]
  <2>1. ASSUME NEW j \in Job PROVE Cardinality(RowsOf(j)) = 0
    <3>1. j[1] \in Record
      BY DEF Job
    <3>2. \A f \in File : 1..written[f][j[1]] = {}
      BY <3>1 DEF Init, NoRows
    <3>3. RowsOf(j) = {}
      BY <3>2, RowElements DEF RowsOf
    <3> QED
      BY <3>3, FS_EmptySet
  <2>2. \A j \in Job : manual[j] = 0 /\ excused[j] = 0
    BY DEF Init
  <2>3. \A j \in Job : 1 + manual[j] + excused[j] - Cardinality(RowsOf(j)) = 1
    BY <2>1, <2>2
  <2> QED
    BY <2>3 DEF Owed
<1>5. Saved = {} /\ Asked = {}
  BY DEF Init, Saved, Asked, NoJob
<1> QED
  BY <1>2, <1>3, <1>4, <1>5, SameNames DEF A!Init

LEMMA ArchiveNext ==
  ArchiveInv /\ [Next]_vars => [A!Next]_<<OnDisk, State, Owed, Saved, Asked>>
<1> SUFFICES ASSUME ArchiveInv, [Next]_vars
             PROVE  A!Next \/ UNCHANGED <<OnDisk, State, Owed, Saved, Asked>>
  OBVIOUS
<1> USE DEF database, disk
<1>t. /\ TypeInv /\ TypeOK /\ TypeOK' /\ RowInv /\ Serial /\ FilesFit /\ Single
      /\ BudgetInv /\ JobsExist /\ TxtOnThread
  BY ArchiveTypes, TypeStep DEF TypeInv
\* Steps that neither write, open nor close a file, and show what was shown.
<1>q. ASSUME UNCHANGED <<file, written, manual, excused>>, Saved' = Saved,
             \A g \in File : WriteOpen(g)' <=> WriteOpen(g)
      PROVE  UNCHANGED <<OnDisk, State, Owed, Saved, Asked>>
  BY <1>q, FilesStay, DebtsStay
<1>o. chain' = chain => \A g \in File : WriteOpen(g)' <=> WriteOpen(g)
  BY DEF WriteOpen
<1>s. job' = job => Saved' = Saved
  BY DEF Saved
\* An attempt starts of a job that is not shown as saved.
<1>a. ASSUME NEW r \in Record, NEW more \in BOOLEAN, NEW fmt \in Format,
             \/ fmt = "TXT" /\ StartTxt(r, more)
             \/ fmt = "XLSX" /\ StartXlsx(r),
             job[<<r, fmt>>].status # "SAVED", UNCHANGED <<file, written, manual, excused>>
      PROVE  UNCHANGED <<OnDisk, State, Owed, Saved, Asked>>
  <2>1. \A g \in File : WriteOpen(g)' <=> WriteOpen(g)
    BY <1>a, <1>t, StartOpensNothing
  <2>2. <<r, fmt>> \in Job /\ Writing(<<r, fmt>>)
    BY <1>a DEF StartTxt, StartXlsx, Job
  <2>3. Saved' = Saved \ {<<r, fmt>>}
    BY <1>t, <2>2, StartShows
  <2>4. <<r, fmt>> \notin Saved
    BY <1>a DEF Saved
  <2> QED
    BY <1>a, <1>q, <2>1, <2>3, <2>4
<1>1. ASSUME NEW r \in Record, EnqueueForRecord(r)
      PROVE  UNCHANGED <<OnDisk, State, Owed, Saved, Asked>>
  <2>1. UNCHANGED <<file, written, manual, excused>> /\ settings.xlsx \in BOOLEAN
    BY <1>1, <1>t DEF EnqueueForRecord, TypeOK, Settings
  <2>2. \A fmt \in Format : job[<<r, fmt>>].status # "SAVED"
    BY <1>1, <1>t DEF EnqueueForRecord, Single, JobsEnqueued, NoJob, Job
  <2>3. CASE UNCHANGED <<job, chain, thread>>
    BY <1>q, <1>o, <1>s, <2>1, <2>3
  <2>4. CASE StartTxt(r, settings.xlsx) \/ StartXlsx(r)
    <3>1. "TXT" \in Format /\ "XLSX" \in Format
      BY DEF Format
    <3> QED
      BY <1>a, <2>1, <2>2, <2>4, <3>1
  <2> QED
    BY <1>1, <2>3, <2>4 DEF EnqueueForRecord
<1>2. ASSUME NEW j \in Job, ProcessDueRetry(j)
      PROVE  UNCHANGED <<OnDisk, State, Owed, Saved, Asked>>
  <2>1. /\ StartAttempt(j) /\ UNCHANGED <<file, written, manual, excused>>
        /\ job[j].status # "SAVED"
    BY <1>2 DEF ProcessDueRetry, IsDue
  <2>2. j[1] \in Record /\ j[2] \in Format /\ j = <<j[1], j[2]>> /\ FALSE \in BOOLEAN
    BY DEF Job
  <2>3. \/ j[2] = "TXT" /\ StartTxt(j[1], FALSE)
        \/ j[2] = "XLSX" /\ StartXlsx(j[1])
    BY <2>1, <2>2 DEF StartAttempt, Format
  <2>4. PICK r \in Record, fmt \in Format : r = j[1] /\ fmt = j[2]
    BY <2>2
  <2>5. job[<<r, fmt>>].status # "SAVED"
    BY <2>1, <2>2, <2>4
  <2>6. \/ fmt = "TXT" /\ StartTxt(r, FALSE)
        \/ fmt = "XLSX" /\ StartXlsx(r)
    BY <2>3, <2>4
  <2> QED
    BY <1>a, <2>1, <2>2, <2>5, <2>6
<1>3. ASSUME NEW j \in Job, RetryNow(j) PROVE A!Next
  <2>1. /\ StartAttempt(j) /\ UNCHANGED <<file, written, excused>>
        /\ manual' = [manual EXCEPT ![j] = @ + 1]
    BY <1>3 DEF RetryNow
  <2>2. Writing(j)
    <3>1. j = <<j[1], j[2]>> /\ j[2] \in {"TXT", "XLSX"}
      BY DEF Job, Format
    <3>2. CASE j[2] = "TXT"
      <4>1. Writing(<<j[1], "TXT">>)
        BY <2>1, <3>2 DEF StartAttempt, StartTxt
      <4> QED
        BY <3>1, <3>2, <4>1
    <3>3. CASE j[2] = "XLSX"
      <4>1. Writing(<<j[1], "XLSX">>)
        BY <2>1, <3>3 DEF StartAttempt, StartXlsx
      <4> QED
        BY <3>1, <3>3, <4>1
    <3> QED
      BY <3>1, <3>2, <3>3
  <2>3. Saved' = Saved \ {j}
    BY <1>t, <2>2, StartShows
  <2>4. Owed' = [Owed EXCEPT ![j] = @ + 1]
    BY <1>t, <2>1, OneMoreOwed
  <2>5. Asked' = Asked \cup {j}
    BY <1>t, <2>1 DEF Asked, TypeOK
  <2>6. UNCHANGED <<OnDisk, State>>
    BY <1>t, <2>1, StartAttemptOpensNothing, FilesStay
  <2>7. A!Ask(j)
    BY <2>3, <2>4, <2>5, <2>6 DEF A!Ask
  <2> QED
    BY <2>7, SameNames DEF A!Next
<1>4. ASSUME NEW j \in Job, RetryDelayPasses(j)
      PROVE  UNCHANGED <<OnDisk, State, Owed, Saved, Asked>>
  <2>1. /\ UNCHANGED <<file, written, manual, excused, chain>>
        /\ job[j].status = "FAILED" /\ job' = [job EXCEPT ![j].due = TRUE]
    BY <1>4 DEF RetryDelayPasses
  <2>2. job[j] \in JobRow
    BY <1>t, <2>1 DEF TypeOK, NoJob
  <2>3. job'[j].status = "FAILED" /\ \A k \in Job : k # j => job'[k] = job[k]
    BY <1>t, <2>1, <2>2 DEF TypeOK, JobRow
  <2>4. \A k \in Job : job'[k].status = "SAVED" <=> job[k].status = "SAVED"
    BY <2>1, <2>3
  <2> QED
    BY <1>q, <1>o, <2>1, <2>4, ShownStays
<1>5. ASSUME AppendTxtRow PROVE A!Next \/ UNCHANGED <<OnDisk, State, Owed, Saved, Asked>>
  <2>1. /\ thread \in Attempt /\ thread.file \in File /\ thread.rec \in Record
        /\ thread.file[2] = "TXT" /\ thread.pc = "append" /\ Current \in Job
        /\ UNCHANGED <<job, chain, manual, excused>>
    BY <1>5, <1>t, ThreadTypes DEF AppendTxtRow, Attempt, TxtOnThread
  <2>2. CASE UNCHANGED <<file, written>>
    BY <1>q, <1>o, <1>s, <2>1, <2>2
  <2>3. CASE /\ file' = [file EXCEPT ![thread.file].rows = PlusOne(@, thread.rec)]
             /\ written' = [written EXCEPT ![thread.file] = PlusOne(@, thread.rec)]
    <3>1. ~WriteOpen(thread.file) /\ ~file[thread.file].damaged
      BY <1>t, <2>1, TxtIsNotOpen DEF FilesFit
    <3>2. /\ file'[thread.file].rows = PlusOne(file[thread.file].rows, thread.rec)
          /\ ~file'[thread.file].damaged
          /\ \A g \in File : g # thread.file => file'[g] = file[g]
      BY <1>t, <2>1, <2>3, <3>1 DEF TypeOK
    <3>3. \A g \in File : WriteOpen(g)' <=> g # thread.file /\ WriteOpen(g)
      BY <1>o, <2>1, <3>1
    <3>4. State[thread.file] = "whole"
      BY <2>1, <3>1 DEF State
    <3>5. Owed[<<thread.rec, thread.file[2]>>] > 0
      <4>1. OnTurn(Current) = 1
        BY <2>1 DEF OnTurn
      <4>2. Cardinality(Waiting(Current)) \in Nat
        BY <1>t, <2>1, BudgetTypes
      <4>3. Owed[Current] > 0
        BY <1>t, <2>1, <4>1, <4>2, OwesOne
      <4> QED
        BY <4>3 DEF Current
    <3> QED
      BY <2>1, <2>3, <3>2, <3>3, <3>4, <3>5, WriteAdds
  <2> QED
    BY <1>5, <2>2, <2>3 DEF AppendTxtRow
<1>6. ASSUME EnqueueXlsx PROVE UNCHANGED <<OnDisk, State, Owed, Saved, Asked>>
  <2>1. /\ thread.rec \in Record /\ StartXlsx(thread.rec) /\ thread.pc = "xlsx"
        /\ UNCHANGED <<file, written, manual, excused>>
    BY <1>6, <1>t, ThreadTypes DEF EnqueueXlsx, SecondFormat
  <2>2. job[<<thread.rec, "XLSX">>].status # "SAVED"
    BY <1>t, <2>1 DEF Single, SecondIsNew, SecondToCome, NoJob
  <2>3. "XLSX" \in Format /\ FALSE \in BOOLEAN
    BY DEF Format
  <2> QED
    BY <1>a, <2>1, <2>2, <2>3
\* A task settles without a write, or the workbook it had opened stays broken.
<1>7. ASSUME NEW f \in File, chain[f] # <<>>, ~WriteOpen(f),
             chain' = [chain EXCEPT ![f] = Without(@, 1)],
             UNCHANGED <<file, written, job, manual, excused>>
      PROVE  UNCHANGED <<OnDisk, State, Owed, Saved, Asked>>
  <2>1. \A g \in File : WriteOpen(g)' <=> WriteOpen(g)
    BY <1>7, <1>t, HeadLeft
  <2> QED
    BY <1>7, <1>q, <1>s, <2>1
<1>8. ASSUME NEW f \in File, NEW i \in DOMAIN chain[f], LoadWorkbook(f, i)
      PROVE  UNCHANGED <<OnDisk, State, Owed, Saved, Asked>>
  <2>1. /\ i = 1 /\ chain[f] # <<>> /\ chain[f][1] \in Task /\ chain[f][1].pc = "queued"
        /\ UNCHANGED <<file, written, job, manual, excused>>
    BY <1>8, <1>t, TaskTypes DEF LoadWorkbook, Ready
  <2>2. ~WriteOpen(f)
    BY <2>1 DEF WriteOpen
  <2>3. CASE file[f].damaged
    <3>1. chain' = [chain EXCEPT ![f] = Without(@, 1)]
      BY <1>8, <2>1, <2>3 DEF LoadWorkbook
    <3> QED
      BY <1>7, <2>1, <2>2, <3>1
  <2>4. CASE ~file[f].damaged
    <3> DEFINE t == [[chain[f][1] EXCEPT !.pc = "loaded"] EXCEPT !.rows = file[f].rows]
    <3>1. file[f].rows \in Rows
      BY <1>t DEF TypeOK
    <3>2. t \in Task /\ t.pc = "loaded"
      BY <2>1, <3>1 DEF Task
    <3>3. chain' = [chain EXCEPT ![f] = [@ EXCEPT ![1] = t]]
      <4>1. chain' = [chain EXCEPT ![f][1].pc = "loaded", ![f][1].rows = file[f].rows]
        BY <1>8, <2>1, <2>4 DEF LoadWorkbook
      <4>2. chain \in [File -> Seq(Task)] /\ 1 \in DOMAIN chain[f]
        BY <1>8, <1>t, <2>1 DEF TypeOK
      <4> QED
        BY <4>1, <4>2
    <3> HIDE DEF t
    <3>4. \A g \in File : WriteOpen(g)' <=> IF g = f THEN t.pc = "writing" ELSE WriteOpen(g)
      BY <1>t, <2>1, <3>2, <3>3, HeadWrites
    <3>5. \A g \in File : WriteOpen(g)' <=> WriteOpen(g)
      BY <2>2, <3>2, <3>4
    <3> QED
      BY <1>q, <1>s, <2>1, <3>5
  <2> QED
    BY <2>3, <2>4
<1>9. ASSUME NEW f \in File, NEW i \in DOMAIN chain[f], OpenForWrite(f, i)
      PROVE  A!Next \/ UNCHANGED <<OnDisk, State, Owed, Saved, Asked>>
  <2>1. /\ i = 1 /\ chain[f] # <<>> /\ chain[f][1] \in Task /\ chain[f][1].pc = "loaded"
        /\ UNCHANGED <<written, job, manual, excused>>
    BY <1>9, <1>t, TaskTypes DEF OpenForWrite, Ready
  <2>2. ~WriteOpen(f) /\ ~file[f].damaged
    BY <1>9, <1>t, <2>1 DEF WriteOpen, Serial
  <2>3. CASE f \in locked
    <3>1. chain' = [chain EXCEPT ![f] = Without(@, 1)] /\ UNCHANGED file
      BY <1>9, <2>1, <2>3 DEF OpenForWrite
    <3> QED
      BY <1>7, <2>1, <2>2, <3>1
  <2>4. CASE f \notin locked
    <3> DEFINE t == [chain[f][1] EXCEPT !.pc = "writing"]
    <3>1. t \in Task /\ t.pc = "writing"
      BY <2>1 DEF Task
    <3>2. chain' = [chain EXCEPT ![f] = [@ EXCEPT ![1] = t]]
      BY <1>9, <2>1, <2>4 DEF OpenForWrite
    <3> HIDE DEF t
    <3>3. \A g \in File : WriteOpen(g)' <=> g = f \/ WriteOpen(g)
      BY <1>t, <2>1, <3>1, <3>2, HeadWrites
    <3>4. /\ \A g \in File : g # f => file'[g] = file[g]
          /\ file'[f].rows = file[f].rows
      BY <1>9, <1>t, <2>4 DEF OpenForWrite, TypeOK
    <3>5. OnDisk' = OnDisk
      BY <3>4 DEF OnDisk
    <3>6. \A g \in File : State'[g] = IF g = f THEN "open" ELSE State[g]
      BY <3>3, <3>4 DEF State
    <3>7. State' = [State EXCEPT ![f] = "open"]
      <4>1. State' = [g \in File |-> State'[g]] /\ State = [g \in File |-> State[g]]
        BY DEF State
      <4> QED
        BY <3>6, <4>1
    <3>8. State[f] = "whole"
      BY <2>2 DEF State
    <3>9. UNCHANGED <<Owed, Saved, Asked>>
      BY <1>s, <2>1, DebtsStay
    <3>10. A!Open(f)
      BY <3>5, <3>7, <3>8, <3>9 DEF A!Open
    <3> QED
      BY <3>10, SameNames DEF A!Next
  <2> QED
    BY <2>3, <2>4
<1>10. ASSUME NEW f \in File, NEW i \in DOMAIN chain[f], FinishWrite(f, i) PROVE A!Next
  <2>1. /\ i = 1 /\ chain[f] # <<>> /\ chain[f][1].rec \in Record /\ f[2] = "XLSX"
        /\ chain[f][1].pc = "writing" /\ chain[f][1].rows = written[f]
        /\ UNCHANGED <<job, manual, excused>>
    BY <1>10, <1>t, TaskTypes DEF FinishWrite, Ready, Serial
  <2>2. PICK r \in Record : r = chain[f][1].rec
    BY <2>1
  <2>3. /\ chain' = [chain EXCEPT ![f] = Without(@, 1)]
        /\ file' = [file EXCEPT ![f] = [rows |-> PlusOne(written[f], r), damaged |-> FALSE]]
        /\ written' = [written EXCEPT ![f] = PlusOne(@, r)]
    BY <1>10, <2>1, <2>2 DEF FinishWrite
  <2>4. \A g \in File : WriteOpen(g)' <=> g # f /\ WriteOpen(g)
    BY <1>t, <2>1, <2>3, HeadLeft
  <2>5. /\ file'[f].rows = PlusOne(file[f].rows, r) /\ ~file'[f].damaged
        /\ \A g \in File : g # f => file'[g] = file[g]
    BY <1>t, <2>3 DEF TypeOK, FilesFit
  <2>6. State[f] = "open"
    BY <2>1 DEF State, WriteOpen
  <2>7. Owed[<<r, f[2]>>] > 0
    <3>1. <<r, f[2]>> \in Job /\ TaskJob(f, 1) = <<r, f[2]>>
      BY <2>2 DEF Job, File, TaskJob
    <3> DEFINE j == <<r, f[2]>>
    <3>2. IsFiniteSet(Waiting(j)) /\ Cardinality(Waiting(j)) \in Nat /\ OnTurn(j) \in {0, 1}
      BY <1>t, <3>1, BudgetTypes
    <3>3. Waiting(j) # {}
      BY <1>t, <2>1, <3>1, HeadTask, WaitingTasks
    <3>4. Cardinality(Waiting(j)) # 0
      BY <3>2, <3>3, FS_EmptySet
    <3> HIDE DEF j
    <3>5. Cardinality(Waiting(j)) + OnTurn(j) >= 1
      <4>1. PICK n \in Nat : n = Cardinality(Waiting(j))
        BY <3>2
      <4> QED
        BY <3>2, <3>4, <4>1
    <3>6. j \in Job
      BY <3>1 DEF j
    <3>7. Owed[j] > 0
      BY <1>t, <3>5, <3>6, OwesOne
    <3> QED
      BY <3>7 DEF j
  <2> QED
    BY <2>1, <2>3, <2>4, <2>5, <2>6, <2>7, WriteAdds
<1>11. ASSUME NEW f \in File, NEW i \in DOMAIN chain[f], WriteBreaks(f, i) PROVE A!Next
  <2>1. /\ i = 1 /\ chain[f] # <<>> /\ chain[f][1].pc = "writing"
        /\ UNCHANGED <<file, written, job, manual, excused>>
    BY <1>11, <1>t, TaskTypes DEF WriteBreaks, Ready
  <2>2. chain' = [chain EXCEPT ![f] = Without(@, 1)]
    BY <1>11, <2>1 DEF WriteBreaks
  <2>3. \A g \in File : WriteOpen(g)' <=> WriteOpen(g) /\ g \notin {f}
    BY <1>t, <2>1, <2>2, HeadLeft
  <2>4. {f} \in SUBSET {g \in File : WriteOpen(g)}
    BY <2>1 DEF WriteOpen
  <2> QED
    BY <2>1, <2>3, <2>4, WriteLost
<1>12. ASSUME Crash PROVE A!Next
  <2> DEFINE files == {g \in File : WriteOpen(g)}
  <2>1. UNCHANGED <<file, written, job, manual, excused>> /\ files \in SUBSET files
    BY <1>12 DEF Crash
  <2>2. \A g \in File : WriteOpen(g)' <=> WriteOpen(g) /\ g \notin files
    BY <1>12 DEF Crash, WriteOpen
  <2> QED
    BY <2>1, <2>2, WriteLost
<1>13. ASSUME Save PROVE A!Next
  <2>1. /\ thread.pc = "save" /\ UNCHANGED <<file, written, manual, excused, chain>>
        /\ job' = [job EXCEPT ![Current] = [@ EXCEPT !.status = "SAVED", !.due = FALSE]]
    BY <1>13 DEF Save
  <2>2. Current \in Job /\ A!Added(Current) /\ OnThread
    BY <2>1, ThreadAdded
  <2>3. Saved' = Saved \cup {Current}
    BY <2>1, <2>2, EndShows
  <2>4. UNCHANGED <<OnDisk, State, Owed, Asked>>
    BY <1>o, <2>1, FilesStay, DebtsStay
  <2>5. A!Confirm(Current)
    BY <2>2, <2>3, <2>4 DEF A!Confirm
  <2> QED
    BY <2>2, <2>5, SameNames DEF A!Next
<1>14. ASSUME SaveFaults PROVE A!Next
  <2>1. /\ thread.pc = "save" /\ UNCHANGED <<file, written, manual, chain, job>>
        /\ excused' = [excused EXCEPT ![Current] = @ + 1]
    BY <1>14 DEF SaveFaults
  <2>2. Current \in Job /\ A!Added(Current)
    BY <2>1, ThreadAdded
  <2>3. Owed' = [Owed EXCEPT ![Current] = @ + 1]
    BY <1>t, <2>1, <2>2, OneMoreOwed
  <2>4. UNCHANGED <<OnDisk, State, Saved, Asked>>
    BY <1>o, <2>1, FilesStay DEF Saved, Asked
  <2>5. A!Forget(Current)
    BY <2>2, <2>3, <2>4 DEF A!Forget
  <2> QED
    BY <2>2, <2>5, SameNames DEF A!Next
<1>15. ASSUME Fail PROVE A!Next \/ UNCHANGED <<OnDisk, State, Owed, Saved, Asked>>
  <2>1. /\ OnThread /\ UNCHANGED <<file, written, manual, excused, chain>>
        /\ job' = [job EXCEPT ![Current] = [@ EXCEPT !.status = "FAILED", !.due = FALSE]]
    BY <1>15 DEF Fail, OnThread
  <2>2. Current \in Job /\ Saved' = Saved \ {Current}
    BY <2>1, EndShows
  <2>3. UNCHANGED <<OnDisk, State, Owed, Asked>>
    BY <1>o, <2>1, FilesStay, DebtsStay
  <2>4. CASE Current \in Saved
    <3>1. manual[Current] # 0 /\ manual[Current] \in Nat
      BY <1>t, <2>1, <2>2, <2>4 DEF Single, ThreadStored, Saved, TypeOK
    <3>2. Current \in Asked
      BY <2>2, <3>1 DEF Asked
    <3>3. A!Withdraw(Current)
      BY <2>2, <2>3, <3>2 DEF A!Withdraw
    <3> QED
      BY <2>2, <3>3, SameNames DEF A!Next
  <2>5. CASE Current \notin Saved
    BY <2>2, <2>3, <2>5
  <2> QED
    BY <2>4, <2>5
<1>16. ASSUME \/ FailFaults \/ SaveStorageSettings
              \/ \E f \in File : Lock(f) \/ Unlock(f)
              \/ UNCHANGED vars
       PROVE  UNCHANGED <<OnDisk, State, Owed, Saved, Asked>>
  <2>1. UNCHANGED <<file, written, job, manual, excused, chain>>
    BY <1>16 DEF FailFaults, SaveStorageSettings, Lock, Unlock, vars
  <2> QED
    BY <1>q, <1>o, <1>s, <2>1
<1> QED
  BY <1>1, <1>2, <1>3, <1>4, <1>5, <1>6, <1>8, <1>9, <1>10, <1>11, <1>12, <1>13,
     <1>14, <1>15, <1>16 DEF Next

\* The export queue implements the archive: rows are added one by one, none is
\* taken away or added unowed, nothing mends a broken workbook, and what was
\* saved is withdrawn only when somebody asked for another row.
THEOREM ImplementsTheArchive == Spec => ImplementsArchive
<1>1. ArchiveInv /\ [Next]_vars => [A!Next]_A!vars
  BY ArchiveNext DEF A!vars
<1> QED
  BY <1>1, ArchiveInit, ArchiveInvariant, PTL DEF Spec, ImplementsArchive, A!Spec
=============================================================================
