-------------------------- MODULE LogPipelineProofs --------------------------
(***************************************************************************)
(* Proofs about LogPipeline, for any set of processes, days, messages and  *)
(* requests and any number of errors and crashes.                          *)
(*                                                                         *)
(* UniqueNumbers is not inductive by itself.  IInv adds why it holds: only *)
(* the lock holder is between BEGIN and COMMIT, the number it is about to  *)
(* commit follows the counter, and the numbers on their way into a row are *)
(* new and pairwise different.                                             *)
(***************************************************************************)
EXTENDS LogPipeline, SequenceTheorems, FiniteSetTheorems, TLAPS

LockHeld ==
  \A p \in Process : thread[p].pc \in {"issue", "commit"} <=> lock = p

NextNumber ==
  \A p \in Process :
    thread[p].pc = "commit" => thread[p].seq = counter[thread[p].date] + 1

PendingIsNew ==
  \A p \in Process : thread[p].pc = "insert" =>
    /\ Number(thread[p]) \notin Logged \cup skipped
    /\ \A q \in Process :
         thread[q].pc = "insert" /\ Number(thread[q]) = Number(thread[p]) => q = p

IInv ==
  /\ TypeOK
  /\ LockHeld
  /\ NextNumber
  /\ PendingIsNew
  /\ UniqueNumbers
  /\ NumbersAccounted

Given == Logged \cup Pending \cup skipped

\* A call that has not ended is a Call; Idle is in no phase.
LEMMA ThreadType ==
  ASSUME TypeOK, NEW p \in Process
  PROVE  /\ thread[p] \in Call \cup {Idle}
         /\ thread[p].pc \in Phase <=> thread[p] \in Call
         /\ thread[p] \notin Call => thread[p] = Idle
  BY DEF TypeOK, Call, Idle, Phase, Copy

LEMMA NewCallType ==
  ASSUME TypeOK, NEW op \in Op, NEW s \in Status
  PROVE  NewCall(op, s) \in Call /\ NewCall(op, s).pc = "begin"
  BY DEF TypeOK, NewCall, Call, Phase, Copy

LEMMA AfterThrowType ==
  ASSUME TypeOK, NEW call \in Call
  PROVE  /\ AfterThrow(call) \in Call \cup {Idle}
         /\ AfterThrow(call).pc \in {"begin", "idle"}
<1>1. call.op \in Op
  BY DEF Call
<1>2. NewCall(call.op, "FAILED") \in Call /\ NewCall(call.op, "FAILED").pc = "begin"
  BY <1>1, NewCallType DEF Status
<1> QED
  BY <1>2 DEF AfterThrow, Idle

THEOREM InitInv == Init => IInv
<1> SUFFICES ASSUME Init PROVE IInv
  OBVIOUS
<1>1. TypeOK
  <2>1. log \in Seq(Row)
    BY EmptySeq DEF Init
  <2> QED
    BY <2>1 DEF Init, TypeOK
<1>2. \A p \in Process : thread[p].pc = "idle"
  BY DEF Init, Idle
<1>3. LockHeld
  BY <1>2, NoneAssumption DEF Init, LockHeld, NoneAssumption
<1>4. Logged = {} /\ Pending = {} /\ skipped = {} /\ Len(log) = 0
  BY <1>2 DEF Init, Logged, Pending
<1>5. NumbersAccounted
  <2>1. \A d \in Date : counter[d] = 0
    BY DEF Init
  <2>2. 1..0 = {}
    OBVIOUS
  <2> QED
    BY <1>4, <2>1, <2>2 DEF NumbersAccounted
<1> QED
  BY <1>1, <1>2, <1>3, <1>4, <1>5 DEF IInv, NextNumber, PendingIsNew, UniqueNumbers

-----------------------------------------------------------------------------

\* Steps of one thread that neither commit a number nor use one.
LEMMA QuietInv ==
  ASSUME IInv, TypeOK', LockHeld',
         NEW p \in Process, NEW c \in Call \cup {Idle},
         thread' = [thread EXCEPT ![p] = c],
         thread[p].pc # "insert", c.pc # "insert",
         c.pc = "commit" => c.seq = counter[c.date] + 1,
         log' = log, skipped' = skipped, counter' = counter
  PROVE  IInv'
<1> USE DEF IInv
<1>1. thread'[p] = c /\ \A q \in Process \ {p} : thread'[q] = thread[q]
  BY DEF TypeOK
<1>2. NextNumber'
  BY <1>1 DEF NextNumber
<1>3. Logged' = Logged
  BY DEF Logged
<1>4. PendingIsNew'
  BY <1>1, <1>3 DEF PendingIsNew, Number
<1>5. Pending' = Pending
  BY <1>1 DEF Pending
<1>6. UniqueNumbers'
  BY DEF UniqueNumbers
<1>7. NumbersAccounted'
  BY <1>3, <1>5 DEF NumbersAccounted
<1> QED
  BY <1>2, <1>4, <1>6, <1>7

\* Steps that change no call, no row and no number.
LEMMA SameInv ==
  ASSUME IInv, TypeOK', thread' = thread, lock' = lock,
         log' = log, skipped' = skipped, counter' = counter
  PROVE  IInv'
  BY DEF IInv, LockHeld, NextNumber, PendingIsNew, UniqueNumbers, NumbersAccounted,
         Logged, Pending, Number

LEMMA CommitInv ==
  ASSUME IInv, NEW p \in Process, Commit(p)
  PROVE  IInv'
<1> USE DEF IInv
<1> DEFINE d == thread[p].date
           n == thread[p].seq
<1>1. /\ thread[p] \in Call /\ thread[p].pc = "commit" /\ d \in Date /\ n \in Nat
      /\ counter \in [Date -> Nat]
      /\ n = counter[d] + 1 /\ lock = p
  BY ThreadType DEF Commit, Phase, Copy, NextNumber, LockHeld, Call, TypeOK
<1>2. /\ thread'[p].pc = "insert" /\ thread'[p].date = d /\ thread'[p].seq = n
      /\ thread'[p] \in Call
      /\ \A q \in Process \ {p} : thread'[q] = thread[q]
  BY <1>1 DEF Commit, TypeOK, Call, Phase, Copy
<1>3. /\ counter' = [counter EXCEPT ![d] = n]
      /\ log' = log /\ skipped' = skipped /\ Logged' = Logged /\ lock' = None
  BY DEF Commit, Logged
<1>4. TypeOK'
  <2>1. thread' \in [Process -> Call \cup {Idle}]
    BY <1>2 DEF Commit, TypeOK
  <2> QED
    BY <1>1, <1>3, <2>1 DEF Commit, TypeOK, history
<1>5. LockHeld'
  BY <1>1, <1>2, <1>3, NoneAssumption DEF LockHeld, NoneAssumption
<1>6. \A q \in Process \ {p} : thread[q].pc # "commit"
  BY <1>1 DEF LockHeld
<1>7. NextNumber'
  BY <1>2, <1>6 DEF NextNumber
<1>8. <<d, n>> \notin Given
  <2>1. \A x \in Given : x[1] = d => x \in {d} \X (1..counter[d])
    BY <1>1 DEF NumbersAccounted, Given
  <2> QED
    BY <1>1, <2>1
<1>9. Pending' = Pending \cup {<<d, n>>}
  BY <1>1, <1>2 DEF Pending
<1>10. PendingIsNew'
  <2>1. \A q \in Process \ {p} : thread[q].pc = "insert" => Number(thread[q]) # <<d, n>>
    BY <1>8 DEF Given, Pending, Number
  <2> QED
    BY <2>1, <1>2, <1>3, <1>8 DEF PendingIsNew, Number, Given
<1>11. UniqueNumbers'
  BY <1>3 DEF UniqueNumbers
<1>12. NumbersAccounted'
  <2>1. Given' = Given \cup {<<d, n>>}
    BY <1>3, <1>9 DEF Given
  <2> SUFFICES ASSUME NEW e \in Date
               PROVE  {x \in Given' : x[1] = e} = {e} \X (1..counter'[e])
    BY DEF NumbersAccounted, Given
  <2>2. {x \in Given : x[1] = e} = {e} \X (1..counter[e])
    BY DEF NumbersAccounted, Given
  <2>3. CASE e # d
    <3>1. counter'[e] = counter[e]
      BY <1>1, <1>3, <2>3
    <3>2. {x \in Given' : x[1] = e} = {x \in Given : x[1] = e}
      BY <2>1, <2>3
    <3> QED BY <3>1, <3>2, <2>2
  <2>4. CASE e = d
    <3>1. counter'[e] = counter[d] + 1 /\ counter[d] \in Nat
      BY <1>1, <1>3, <2>4
    <3>2. {x \in Given' : x[1] = e} = {x \in Given : x[1] = e} \cup {<<d, n>>}
      BY <2>1, <2>4
    <3>3. 1..counter'[e] = (1..counter[d]) \cup {n}
      BY <1>1, <3>1
    <3> QED
      BY <3>2, <3>3, <2>2, <2>4
  <2> QED BY <2>3, <2>4
<1> QED
  BY <1>4, <1>5, <1>7, <1>10, <1>11, <1>12

\* The number of p's call leaves Pending; it went to a row or to skipped.
LEMMA UsedInv ==
  ASSUME IInv, TypeOK', LockHeld', UniqueNumbers',
         NEW p \in Process, NEW c \in Call \cup {Idle},
         thread' = [thread EXCEPT ![p] = c],
         thread[p].pc = "insert", c.pc # "insert", c.pc # "commit",
         counter' = counter,
         Logged' \cup skipped' = Logged \cup skipped \cup {Number(thread[p])}
  PROVE  IInv'
<1> USE DEF IInv
<1>1. thread'[p] = c /\ \A q \in Process \ {p} : thread'[q] = thread[q]
  BY DEF TypeOK
<1>2. NextNumber'
  BY <1>1 DEF NextNumber
<1>3. PendingIsNew'
  <2> SUFFICES ASSUME NEW q \in Process, thread'[q].pc = "insert"
               PROVE  /\ Number(thread'[q]) \notin Logged' \cup skipped'
                      /\ \A r \in Process :
                           thread'[r].pc = "insert" /\ Number(thread'[r]) = Number(thread'[q])
                             => r = q
    BY DEF PendingIsNew, Number
  <2>1. q # p /\ thread'[q] = thread[q]
    BY <1>1
  <2>2. Number(thread[q]) # Number(thread[p])
    BY <2>1 DEF PendingIsNew
  <2>3. Number(thread[q]) \notin Logged' \cup skipped'
    BY <2>1, <2>2 DEF PendingIsNew
  <2>4. ASSUME NEW r \in Process, thread'[r].pc = "insert",
               Number(thread'[r]) = Number(thread'[q])
        PROVE  r = q
    <3>1. r # p /\ thread'[r] = thread[r]
      BY <1>1, <2>4
    <3> QED
      BY <2>1, <2>4, <3>1 DEF PendingIsNew
  <2> QED
    BY <2>1, <2>3, <2>4
<1>4. Pending = Pending' \cup {Number(thread[p])}
  BY <1>1 DEF Pending, Number
<1>5. Given' = Given
  BY <1>4 DEF Given
<1>6. NumbersAccounted'
  BY <1>5 DEF NumbersAccounted, Given
<1> QED
  BY <1>2, <1>3, <1>6

LEMMA InsertInv ==
  ASSUME IInv, NEW p \in Process, InsertRow(p)
  PROVE  IInv'
<1> DEFINE row == [op |-> thread[p].op, status |-> thread[p].status,
                   date |-> thread[p].date, seq |-> thread[p].seq, by |-> p]
           c == [thread[p] EXCEPT !.pc = "txt"]
<1>1. /\ thread[p] \in Call /\ thread[p].pc = "insert" /\ log \in Seq(Row)
      /\ TypeOK /\ LockHeld
  BY ThreadType DEF InsertRow, Phase, Copy, IInv, TypeOK
<1>2. row \in Row /\ c \in Call /\ c.pc = "txt"
  BY <1>1 DEF Call, Row, Phase, Copy
<1>3. /\ log' = Append(log, row)
      /\ thread' = [thread EXCEPT ![p] = c]
      /\ counter' = counter /\ lock' = lock /\ skipped' = skipped
  BY <1>1 DEF InsertRow, TypeOK
<1>4. /\ Len(log') = Len(log) + 1 /\ Len(log) \in Nat
      /\ \A i \in 1..Len(log) : log'[i] = log[i]
      /\ log'[Len(log) + 1] = row
  <2> HIDE DEF row
  <2> QED
    BY <1>1, <1>2, <1>3
<1>5. TypeOK'
  <2>1. log' \in Seq(Row)
    BY <1>1, <1>2, <1>3
  <2>2. thread' \in [Process -> Call \cup {Idle}]
    BY <1>1, <1>2, <1>3 DEF TypeOK
  <2> QED
    BY <1>1, <2>1, <2>2 DEF TypeOK, InsertRow, history
<1>6. LockHeld'
  <2>1. thread'[p] = c /\ \A q \in Process \ {p} : thread'[q] = thread[q]
    BY <1>1, <1>3 DEF TypeOK
  <2> QED
    BY <1>1, <1>2, <1>3, <2>1 DEF LockHeld
<1>7. Number(thread[p]) = <<row.date, row.seq>>
  BY DEF Number
<1>8. Logged' = Logged \cup {Number(thread[p])}
  <2> HIDE DEF row
  <2>1. 1..Len(log') = 1..Len(log) \cup {Len(log) + 1}
    BY <1>4
  <2> QED
    BY <1>4, <1>7, <2>1 DEF Logged
<1>9. UniqueNumbers'
  <2> HIDE DEF row
  <2>1. <<row.date, row.seq>> \notin Logged
    BY <1>1, <1>7 DEF IInv, PendingIsNew
  <2>2. \A i \in 1..Len(log) : ~(log[i].date = row.date /\ log[i].seq = row.seq)
    BY <2>1 DEF Logged
  <2>3. \A i \in 1..Len(log') : i \in 1..Len(log) \/ i = Len(log) + 1
    BY <1>4
  <2> QED
    BY <1>4, <2>2, <2>3 DEF UniqueNumbers, IInv
<1> HIDE DEF row, c
<1> QED
  BY <1>1, <1>2, <1>3, <1>5, <1>6, <1>8, <1>9, UsedInv

-----------------------------------------------------------------------------

\* A call ends early, with an error or with its process.
LEMMA EndInv ==
  ASSUME IInv, TypeOK',
         NEW p \in Process, NEW c \in Call \cup {Idle},
         c.pc \in {"begin", "idle"},
         thread' = [thread EXCEPT ![p] = c],
         lock' = (IF lock = p THEN None ELSE lock),
         skipped' = skipped \cup Abandoned(p),
         log' = log, counter' = counter
  PROVE  IInv'
<1>1. TypeOK /\ LockHeld /\ UniqueNumbers
  BY DEF IInv
<1>2. thread'[p] = c /\ \A q \in Process \ {p} : thread'[q] = thread[q]
  BY <1>1 DEF TypeOK
<1>3. LockHeld'
  BY <1>1, <1>2, NoneAssumption DEF LockHeld, NoneAssumption
<1>4. CASE thread[p].pc = "insert"
  <2>1. Logged' \cup skipped' = Logged \cup skipped \cup {Number(thread[p])}
    BY <1>4 DEF Abandoned, Number, Logged
  <2>2. UniqueNumbers'
    BY <1>1 DEF UniqueNumbers
  <2> QED
    BY <1>3, <1>4, <2>1, <2>2, UsedInv
<1>5. CASE thread[p].pc # "insert"
  <2>1. skipped' = skipped
    BY <1>5 DEF Abandoned
  <2> QED
    BY <1>3, <1>5, <2>1, QuietInv
<1> QED BY <1>4, <1>5

LEMMA AbandonedType ==
  ASSUME TypeOK, NEW p \in Process
  PROVE  Abandoned(p) \subseteq Date \X Nat
<1>1. thread[p].pc = "insert" => thread[p].date \in Date /\ thread[p].seq \in Nat
  BY ThreadType DEF Phase, Copy, Call
<1> QED
  BY <1>1 DEF Abandoned

LEMMA OwedType ==
  ASSUME TypeOK, NEW p \in Process
  PROVE  Owed(p) \subseteq (Date \X Nat) \X Copy
<1>1. thread[p].pc \in Copy => Number(thread[p]) \in Date \X Nat
  BY ThreadType DEF Phase, Call, Number
<1>2. DOMAIN Ahead = Copy /\ \A k \in Copy : Ahead[k] \subseteq Copy
  BY DEF Ahead, Copy
<1> QED
  BY <1>1, <1>2 DEF Owed

LEMMA ThrowInv ==
  ASSUME IInv, NEW p \in Process, Throw(p)
  PROVE  IInv'
<1>1. TypeOK /\ thread[p] \in Call
  BY ThreadType DEF IInv, Throw
<1> DEFINE c == AfterThrow(thread[p])
<1>2. c \in Call \cup {Idle} /\ c.pc \in {"begin", "idle"}
  BY <1>1, AfterThrowType
<1>3. thread' = [thread EXCEPT ![p] = c]
  BY DEF Throw
<1> HIDE DEF c
<1>4. TypeOK'
  <2>1. thread' \in [Process -> Call \cup {Idle}]
    BY <1>1, <1>2, <1>3 DEF TypeOK
  <2>2. faults' \in Nat
    BY <1>1 DEF Throw, TypeOK
  <2>3. skipped' \subseteq Date \X Nat
    BY <1>1, AbandonedType DEF Throw, TypeOK
  <2>4. lock' \in Process \cup {None}
    BY <1>1 DEF Throw, TypeOK
  <2>5. missing' \subseteq (Date \X Nat) \X Copy
    BY <1>1, OwedType DEF Throw, TypeOK
  <2> QED
    BY <1>1, <2>1, <2>2, <2>3, <2>4, <2>5 DEF Throw, TypeOK
<1> QED
  BY <1>2, <1>3, <1>4, EndInv DEF Throw

LEMMA CrashInv ==
  ASSUME IInv, NEW p \in Process, Crash(p)
  PROVE  IInv'
<1>1. TypeOK /\ Idle \in Call \cup {Idle} /\ Idle.pc = "idle"
  BY DEF IInv, Idle
<1>2. TypeOK'
  <2>1. skipped' \subseteq Date \X Nat
    BY <1>1, AbandonedType DEF Crash, TypeOK
  <2>2. thread' \in [Process -> Call \cup {Idle}]
    BY <1>1 DEF Crash, TypeOK
  <2>3. missing' \subseteq (Date \X Nat) \X Copy
    BY <1>1, OwedType DEF Crash, TypeOK
  <2> QED
    BY <1>1, <2>1, <2>2, <2>3 DEF Crash, TypeOK
<1> QED
  BY <1>1, <1>2, EndInv DEF Crash

\* A call starts: the thread was idle.
LEMMA StartInv ==
  ASSUME IInv, TypeOK', NEW p \in Process, NEW op \in Op, NEW s \in Status,
         thread[p] = Idle,
         thread' = [thread EXCEPT ![p] = NewCall(op, s)],
         lock' = lock, log' = log, skipped' = skipped, counter' = counter
  PROVE  IInv'
<1>1. TypeOK /\ LockHeld /\ thread[p].pc = "idle"
  BY DEF IInv, Idle
<1>2. NewCall(op, s) \in Call /\ NewCall(op, s).pc = "begin"
  BY <1>1, NewCallType
<1>3. thread'[p] = NewCall(op, s) /\ \A q \in Process \ {p} : thread'[q] = thread[q]
  BY <1>1 DEF TypeOK
<1>4. LockHeld'
  BY <1>1, <1>2, <1>3 DEF LockHeld
<1> QED
  BY <1>1, <1>2, <1>4, QuietInv

LEMMA HandleMessageInv ==
  ASSUME IInv, NEW p \in Process, NEW m \in Received, HandleMessage(p, m)
  PROVE  IInv'
<1>1. m \in Op /\ "COMPLETED" \in Status /\ TypeOK
  BY DEF Op, Status, IInv
<1>2. TypeOK'
  <2>1. thread' \in [Process -> Call \cup {Idle}]
    BY <1>1, NewCallType DEF HandleMessage, TypeOK
  <2> QED
    BY <1>1, <2>1 DEF HandleMessage, TypeOK
<1> QED
  BY <1>1, <1>2, StartInv DEF HandleMessage

LEMMA SendSettledInv ==
  ASSUME IInv, NEW p \in Process, NEW t \in Request, SendSettled(p, t)
  PROVE  IInv'
<1>1. /\ t \in Op /\ "COMPLETED" \in Status /\ "FAILED" \in Status /\ TypeOK
      /\ thread[p] = Idle
  BY DEF Op, Status, IInv, SendSettled
<1>2. PICK s \in Status : thread' = [thread EXCEPT ![p] = NewCall(t, s)]
  BY <1>1 DEF SendSettled
<1>3. TypeOK'
  <2>1. thread' \in [Process -> Call \cup {Idle}]
    BY <1>1, <1>2, NewCallType DEF TypeOK
  <2> QED
    BY <1>1, <2>1 DEF SendSettled, TypeOK
<1> QED
  BY <1>1, <1>2, <1>3, StartInv DEF SendSettled

LEMMA BeginInv ==
  ASSUME IInv, NEW p \in Process, Begin(p)
  PROVE  IInv'
<1> DEFINE c == [thread[p] EXCEPT !.pc = "issue"]
<1>1. TypeOK /\ LockHeld /\ thread[p] \in Call /\ thread[p].pc = "begin" /\ lock = None
  BY ThreadType DEF IInv, Begin, Phase, Copy
<1>2. c \in Call /\ c.pc = "issue"
  BY <1>1 DEF Call, Phase, Copy
<1>3. thread' = [thread EXCEPT ![p] = c]
  BY <1>1 DEF Begin, TypeOK
<1> HIDE DEF c
<1>4. thread'[p] = c /\ \A q \in Process \ {p} : thread'[q] = thread[q]
  BY <1>1, <1>3 DEF TypeOK
<1>5. TypeOK'
  BY <1>1, <1>2, <1>3 DEF Begin, TypeOK, history
<1>6. LockHeld'
  BY <1>1, <1>2, <1>4, NoneAssumption DEF LockHeld, Begin, NoneAssumption
<1> QED
  BY <1>1, <1>2, <1>3, <1>5, <1>6, QuietInv DEF Begin

LEMMA IssueInv ==
  ASSUME IInv, NEW p \in Process, Issue(p)
  PROVE  IInv'
<1> DEFINE n == counter[thread[p].date] + 1
           c == [thread[p] EXCEPT !.pc = "commit", !.seq = n]
<1>1. /\ TypeOK /\ LockHeld /\ thread[p] \in Call /\ thread[p].pc = "issue"
      /\ thread[p].date \in Date /\ counter[thread[p].date] \in Nat
  BY ThreadType DEF IInv, Issue, Phase, Copy, Call, TypeOK
<1>2. /\ c \in Call /\ c.pc = "commit" /\ c.date = thread[p].date
      /\ c.seq = counter[c.date] + 1
  <2>1. n \in Nat /\ "commit" \in Phase
    BY <1>1 DEF Phase, Copy
  <2> HIDE DEF n
  <2>2. c \in Call /\ c.pc = "commit" /\ c.date = thread[p].date /\ c.seq = n
    BY <1>1, <2>1 DEF Call
  <2> HIDE DEF c
  <2> QED
    BY <2>2 DEF n
<1>3. thread' = [thread EXCEPT ![p] = c]
  BY <1>1 DEF Issue, TypeOK
<1> HIDE DEF c
<1>4. thread'[p] = c /\ \A q \in Process \ {p} : thread'[q] = thread[q]
  BY <1>1, <1>3 DEF TypeOK
<1>5. TypeOK'
  BY <1>1, <1>2, <1>3 DEF Issue, TypeOK, history
<1>6. LockHeld'
  BY <1>1, <1>2, <1>4 DEF LockHeld, Issue
<1> QED
  BY <1>1, <1>2, <1>3, <1>5, <1>6, QuietInv DEF Issue

\* After the row the call goes from copy to copy.
LEMMA FollowingType ==
  ASSUME TypeOK, NEW p \in Process, thread[p].pc \in Copy
  PROVE  /\ thread[p] \in Call /\ Following(p) \in Call \cup {Idle}
         /\ Following(p).pc \in {"xlsx", "cloud", "idle"}
         /\ <<Number(thread[p]), thread[p].pc>> \in (Date \X Nat) \X Copy
<1>1. thread[p] \in Call
  BY ThreadType DEF Phase
<1>2. /\ [thread[p] EXCEPT !.pc = "xlsx"] \in Call
      /\ [thread[p] EXCEPT !.pc = "cloud"] \in Call
      /\ [thread[p] EXCEPT !.pc = "xlsx"].pc = "xlsx"
      /\ [thread[p] EXCEPT !.pc = "cloud"].pc = "cloud"
  BY <1>1 DEF Call, Phase, Copy
<1>3. \/ Following(p) = [thread[p] EXCEPT !.pc = "xlsx"]
      \/ Following(p) = [thread[p] EXCEPT !.pc = "cloud"]
      \/ Following(p) = Idle
  BY DEF Following, Copy
<1>4. Number(thread[p]) \in Date \X Nat
  BY <1>1 DEF Call, Number
<1>5. Idle.pc = "idle"
  BY DEF Idle
<1>6. CASE Following(p) = Idle
  BY <1>1, <1>4, <1>5, <1>6
<1>7. CASE Following(p) = [thread[p] EXCEPT !.pc = "xlsx"]
  BY <1>1, <1>2, <1>4, <1>7
<1>8. CASE Following(p) = [thread[p] EXCEPT !.pc = "cloud"]
  BY <1>1, <1>2, <1>4, <1>8
<1> QED
  BY <1>3, <1>6, <1>7, <1>8

LEMMA EnqueueInv ==
  ASSUME IInv, NEW p \in Process, Enqueue(p) \/ EnqueueFails(p)
  PROVE  IInv'
<1> DEFINE c == Following(p)
<1>1. TypeOK /\ LockHeld /\ thread[p].pc \in Copy
  BY DEF IInv, Enqueue, EnqueueFails
<1>2. /\ c \in Call \cup {Idle} /\ c.pc \in {"xlsx", "cloud", "idle"}
      /\ <<Number(thread[p]), thread[p].pc>> \in (Date \X Nat) \X Copy
  BY <1>1, FollowingType
<1>3. thread' = [thread EXCEPT ![p] = c]
  BY DEF Enqueue, EnqueueFails, Unnoticed
<1> HIDE DEF c
<1>4. thread'[p] = c /\ \A q \in Process \ {p} : thread'[q] = thread[q]
  BY <1>1, <1>3 DEF TypeOK
<1>5. /\ UNCHANGED <<today, counter, log, lock, waiting, skipped, used, sent, crashes>>
      /\ faults' \in Nat
      /\ jobs' \subseteq (Date \X Nat) \X Copy /\ missing' \subseteq (Date \X Nat) \X Copy
  BY <1>1, <1>2 DEF Enqueue, EnqueueFails, history, TypeOK
<1>6. TypeOK'
  BY <1>1, <1>2, <1>3, <1>5 DEF TypeOK
<1>7. LockHeld'
  BY <1>1, <1>2, <1>4, <1>5 DEF LockHeld, Copy
<1> QED
  BY <1>1, <1>2, <1>3, <1>5, <1>6, <1>7, QuietInv DEF Copy

LEMMA SendInv ==
  ASSUME IInv, NEW p \in Process, NEW t \in Request, Send(p, t)
  PROVE  IInv'
<1>1. TypeOK'
  BY DEF IInv, TypeOK, Send, Op
<1> QED
  BY <1>1, SameInv DEF Send

LEMMA SetClockInv ==
  ASSUME IInv, NEW d \in Date, SetClock(d)
  PROVE  IInv'
<1>1. TypeOK'
  BY DEF IInv, TypeOK, SetClock, history
<1> QED
  BY <1>1, SameInv DEF SetClock

\* Every step keeps the inductive invariant.
LEMMA NextInv == IInv /\ [Next]_vars => IInv'
<1> SUFFICES ASSUME IInv, [Next]_vars PROVE IInv'
  OBVIOUS
<1>1. ASSUME NEW p \in Process, NEW m \in Received, HandleMessage(p, m) PROVE IInv'
  BY <1>1, HandleMessageInv
<1>2. ASSUME NEW p \in Process, NEW t \in Request, Send(p, t) PROVE IInv'
  BY <1>2, SendInv
<1>3. ASSUME NEW p \in Process, NEW t \in Request, SendSettled(p, t) PROVE IInv'
  BY <1>3, SendSettledInv
<1>4. ASSUME NEW p \in Process, Step(p) PROVE IInv'
  BY <1>4, BeginInv, IssueInv, CommitInv, InsertInv, EnqueueInv, ThrowInv DEF Step
<1>5. ASSUME NEW p \in Process, Crash(p) PROVE IInv'
  BY <1>5, CrashInv
<1>6. ASSUME NEW d \in Date, SetClock(d) PROVE IInv'
  BY <1>6, SetClockInv
<1>7. CASE UNCHANGED vars
  <2>1. TypeOK'
    BY <1>7 DEF IInv, TypeOK, vars
  <2> QED
    BY <1>7, <2>1, SameInv DEF vars
<1> QED
  BY <1>1, <1>2, <1>3, <1>4, <1>5, <1>6, <1>7 DEF Next

\* Every variable keeps its type.
THEOREM TypeCorrect == Spec => []TypeOK
  BY InitInv, NextInv, PTL DEF Spec, IInv

\* No two rows of log_records get the same number of the same day, with any number
\* of processes on the file, clock corrections, errors and crashes
\* (dailySequence.ts, manager.ts recordLog).
THEOREM NumbersAreUnique == Spec => []UniqueNumbers
  BY InitInv, NextInv, PTL DEF Spec, IInv

\* A number that is missing from log_records was lost to an error or a crash
\* between the COMMIT of its transaction and the INSERT of its row.
THEOREM GapsAreExplained == Spec => []NumbersAccounted
  BY InitInv, NextInv, PTL DEF Spec, IInv

-----------------------------------------------------------------------------
(* The jobs of the copies.  A job is owed by one call only, and once: two  *)
(* calls on their way from copy to copy have different rows.               *)

OwnRows ==
  \A p, q \in Process :
    thread[p].pc \in Copy /\ thread[q].pc \in Copy /\ Number(thread[p]) = Number(thread[q]) => p = q

OwedIsNew == \A p \in Process : Owed(p) \cap (jobs \cup missing) = {}

JInv == OwnRows /\ OwedIsNew /\ JobsAccounted

LEMMA OwedOf ==
  ASSUME NEW p \in Process
  PROVE  /\ thread[p].pc \in Copy => Owed(p) = {Number(thread[p])} \X Ahead[thread[p].pc]
         /\ thread[p].pc \notin Copy => Owed(p) = {}
<1>1. DOMAIN Ahead = Copy
  BY DEF Ahead, Copy
<1> QED
  BY <1>1 DEF Owed

LEMMA AheadOf ==
  /\ Ahead["txt"] = Copy /\ Ahead["xlsx"] = Copy \ {"txt"} /\ Ahead["cloud"] = {"cloud"}
BY DEF Ahead, Copy

LEMMA SameOwed ==
  ASSUME NEW p \in Process, thread'[p] = thread[p]
  PROVE  Owed(p)' = Owed(p)
BY DEF Owed, Number

\* Two calls owe different jobs.
LEMMA OwedApart ==
  ASSUME OwnRows, NEW p \in Process, NEW q \in Process \ {p}
  PROVE  Owed(q) \cap Owed(p) = {}
<1>1. CASE thread[p].pc \in Copy /\ thread[q].pc \in Copy
  <2>1. Number(thread[p]) # Number(thread[q])
    BY <1>1 DEF OwnRows
  <2>2. /\ Owed(p) = {Number(thread[p])} \X Ahead[thread[p].pc]
        /\ Owed(q) = {Number(thread[q])} \X Ahead[thread[q].pc]
    BY <1>1, OwedOf
  <2> QED
    BY <2>1, <2>2
<1>2. CASE ~(thread[p].pc \in Copy /\ thread[q].pc \in Copy)
  BY <1>2, OwedOf
<1> QED
  BY <1>1, <1>2

\* Process p writes, or is kept from writing, the jobs D of those it owes.
LEMMA SettledJobs ==
  ASSUME JInv, NEW p \in Process, \A q \in Process \ {p} : thread'[q] = thread[q],
         thread'[p].pc \in Copy =>
           thread[p].pc \in Copy /\ Number(thread'[p]) = Number(thread[p]),
         NEW D, Owed(p) = Owed(p)' \cup D, Owed(p)' \cap D = {},
         \/ jobs' = jobs \cup D /\ missing' = missing
         \/ jobs' = jobs /\ missing' = missing \cup D,
         log' = log
  PROVE  JInv'
<1>1. OwnRows'
  BY DEF JInv, OwnRows
<1>2. \A q \in Process \ {p} : Owed(q)' = Owed(q)
  BY SameOwed
<1>3. \A q \in Process \ {p} : Owed(q) \cap Owed(p) = {}
  BY OwedApart DEF JInv
<1>4. OwedIsNew'
  <2> SUFFICES ASSUME NEW q \in Process PROVE Owed(q)' \cap (jobs' \cup missing') = {}
    BY DEF OwedIsNew
  <2>1. Owed(q) \cap (jobs \cup missing) = {}
    BY DEF JInv, OwedIsNew
  <2>2. CASE q = p
    BY <2>1, <2>2
  <2>3. CASE q # p
    BY <1>2, <1>3, <2>1, <2>3
  <2> QED
    BY <2>2, <2>3
<1>5. JobsAccounted'
  <2> DEFINE All == UNION {Owed(q) : q \in Process}
  <2>1. Logged' = Logged
    BY DEF Logged
  <2>2. All = All' \cup D
    BY <1>2
  <2>3. D \cap (jobs \cup missing) = {}
    BY DEF JInv, OwedIsNew
  <2>4. jobs \cup missing \cup All = Logged \X Copy /\ jobs \cap missing = {}
    BY DEF JInv, JobsAccounted
  <2>5. jobs' \cup missing' \cup All' = jobs \cup missing \cup All
    <3> HIDE DEF All
    <3> QED
      BY <2>2
  <2>6. jobs' \cap missing' = {}
    BY <2>3, <2>4
  <2> QED
    BY <2>1, <2>4, <2>5, <2>6 DEF JobsAccounted
<1> QED
  BY <1>1, <1>4, <1>5 DEF JInv

\* A step of a call that is not yet, or not any more, on its way from copy to copy.
LEMMA OtherJobs ==
  ASSUME JInv, TypeOK, NEW p \in Process, NEW c, thread' = [thread EXCEPT ![p] = c],
         thread[p].pc \notin Copy, c.pc \notin Copy, UNCHANGED <<log, jobs, missing>>
  PROVE  JInv'
<1>1. thread'[p] = c /\ \A q \in Process \ {p} : thread'[q] = thread[q]
  BY DEF TypeOK
<1>2. Owed(p) = {}
  BY OwedOf
<1>3. Owed(p)' = {}
  <2>1. DOMAIN Ahead = Copy
    BY DEF Ahead, Copy
  <2> QED
    BY <1>1, <2>1 DEF Owed
<1> QED
  BY <1>1, <1>2, <1>3, SettledJobs

\* A step that changes no call, no row and no job.
LEMMA SameJobs ==
  ASSUME JInv, UNCHANGED <<thread, log, jobs, missing>>
  PROVE  JInv'
BY DEF JInv, OwnRows, OwedIsNew, JobsAccounted, Owed, Number, Logged

\* A call ends early, and leaves what it owes.
LEMMA EndedJobs ==
  ASSUME JInv, TypeOK, NEW p \in Process, NEW c, thread' = [thread EXCEPT ![p] = c],
         c.pc \notin Copy, log' = log, jobs' = jobs, missing' = missing \cup Owed(p)
  PROVE  JInv'
<1>1. thread'[p] = c /\ \A q \in Process \ {p} : thread'[q] = thread[q]
  BY DEF TypeOK
<1>2. Owed(p)' = {}
  <2>1. DOMAIN Ahead = Copy
    BY DEF Ahead, Copy
  <2> QED
    BY <1>1, <2>1 DEF Owed
<1> QED
  BY <1>1, <1>2, SettledJobs

\* The first of the jobs that p's call owes is written, or is given up.
LEMMA Settled ==
  ASSUME TypeOK, NEW p \in Process, Enqueue(p) \/ EnqueueFails(p),
         NEW D, D = {<<Number(thread[p]), thread[p].pc>>}
  PROVE  /\ thread[p].pc \in Copy /\ thread'[p].pc # "insert"
         /\ \A q \in Process \ {p} : thread'[q] = thread[q]
         /\ thread'[p].pc \in Copy => Number(thread'[p]) = Number(thread[p])
         /\ Owed(p) = Owed(p)' \cup D /\ Owed(p)' \cap D = {}
         /\ \/ jobs' = jobs \cup D /\ missing' = missing
            \/ jobs' = jobs /\ missing' = missing \cup D
         /\ log' = log
<1>1. /\ thread[p].pc \in Copy /\ thread' = [thread EXCEPT ![p] = Following(p)] /\ log' = log
      /\ \/ jobs' = jobs \cup D /\ missing' = missing
         \/ jobs' = jobs /\ missing' = missing \cup D
  BY DEF Enqueue, EnqueueFails, Unnoticed
<1>2. thread'[p] = Following(p) /\ \A q \in Process \ {p} : thread'[q] = thread[q]
  BY <1>1 DEF TypeOK
<1>3. thread[p] \in Call /\ Idle.pc = "idle"
  BY <1>1, FollowingType DEF Idle
<1>4. /\ thread[p].pc = "txt" => Following(p) = [thread[p] EXCEPT !.pc = "xlsx"]
      /\ thread[p].pc = "xlsx" => Following(p) = [thread[p] EXCEPT !.pc = "cloud"]
      /\ thread[p].pc = "cloud" => Following(p) = Idle
  BY DEF Following
<1>5. /\ thread[p].pc = "txt" => thread'[p].pc = "xlsx"
      /\ thread[p].pc = "xlsx" => thread'[p].pc = "cloud"
      /\ thread[p].pc = "cloud" => thread'[p].pc = "idle"
  BY <1>2, <1>3, <1>4 DEF Call
<1>6. thread[p].pc \in {"txt", "xlsx"} => Number(thread'[p]) = Number(thread[p])
  BY <1>2, <1>3, <1>4 DEF Call, Number
<1>7. Owed(p) = {Number(thread[p])} \X Ahead[thread[p].pc]
  BY <1>1, OwedOf
<1>8. DOMAIN Ahead = Copy /\ Copy = {"txt", "xlsx", "cloud"}
  BY DEF Ahead, Copy
<1>9. Owed(p)' = IF thread'[p].pc \in Copy THEN {Number(thread'[p])} \X Ahead[thread'[p].pc] ELSE {}
  BY <1>8 DEF Owed, Number
<1>10. Owed(p) = Owed(p)' \cup D /\ Owed(p)' \cap D = {}
  <2>1. CASE thread[p].pc = "txt"
    <3>1. Owed(p)' = {Number(thread[p])} \X (Copy \ {"txt"})
      BY <1>5, <1>6, <1>8, <1>9, <2>1, AheadOf
    <3>2. Owed(p) = {Number(thread[p])} \X Copy /\ D = {<<Number(thread[p]), "txt">>}
      BY <1>7, <2>1, AheadOf
    <3> QED
      BY <1>8, <3>1, <3>2
  <2>2. CASE thread[p].pc = "xlsx"
    <3>1. Owed(p)' = {Number(thread[p])} \X {"cloud"}
      BY <1>5, <1>6, <1>8, <1>9, <2>2, AheadOf
    <3>2. Owed(p) = {Number(thread[p])} \X (Copy \ {"txt"}) /\ D = {<<Number(thread[p]), "xlsx">>}
      BY <1>7, <2>2, AheadOf
    <3> QED
      BY <1>8, <3>1, <3>2
  <2>3. CASE thread[p].pc = "cloud"
    <3>1. Owed(p)' = {}
      BY <1>5, <1>8, <1>9, <2>3
    <3>2. Owed(p) = {Number(thread[p])} \X {"cloud"} /\ D = {<<Number(thread[p]), "cloud">>}
      BY <1>7, <2>3, AheadOf
    <3> QED
      BY <3>1, <3>2
  <2> QED
    BY <1>1, <1>8, <2>1, <2>2, <2>3
<1>11. thread'[p].pc \in Copy => Number(thread'[p]) = Number(thread[p])
  BY <1>1, <1>5, <1>6, <1>8
<1>12. thread'[p].pc # "insert"
  BY <1>1, <1>5, <1>8
<1> QED
  BY <1>1, <1>2, <1>10, <1>11, <1>12

LEMMA EnqueueJobs ==
  ASSUME JInv, TypeOK, NEW p \in Process, Enqueue(p) \/ EnqueueFails(p)
  PROVE  JInv'
<1> PICK D : D = {<<Number(thread[p]), thread[p].pc>>}
  OBVIOUS
<1>1. thread[p].pc \in Copy /\ log' = log
  BY DEF Enqueue, EnqueueFails
<1>2. /\ \A q \in Process \ {p} : thread'[q] = thread[q]
      /\ thread'[p].pc \in Copy => Number(thread'[p]) = Number(thread[p])
  BY Settled
<1>3. Owed(p) = Owed(p)' \cup D /\ Owed(p)' \cap D = {}
  BY Settled
<1>4. CASE Enqueue(p)
  <2>1. jobs' = jobs \cup D /\ missing' = missing
    BY <1>4 DEF Enqueue
  <2> QED
    BY <1>1, <1>2, <1>3, <2>1, SettledJobs
<1>5. CASE EnqueueFails(p)
  <2>1. jobs' = jobs /\ missing' = missing \cup D
    BY <1>5 DEF EnqueueFails
  <2> QED
    BY <1>1, <1>2, <1>3, <2>1, SettledJobs
<1> QED
  BY <1>4, <1>5

\* A new row, whose jobs are all owed.
LEMMA InsertJobs ==
  ASSUME JInv, IInv, NEW p \in Process, InsertRow(p)
  PROVE  JInv'
<1> DEFINE row == [op |-> thread[p].op, status |-> thread[p].status,
                   date |-> thread[p].date, seq |-> thread[p].seq, by |-> p]
           c == [thread[p] EXCEPT !.pc = "txt"]
           n == Number(thread[p])
<1>1. /\ thread[p] \in Call /\ thread[p].pc = "insert" /\ log \in Seq(Row) /\ TypeOK
  BY ThreadType DEF InsertRow, Phase, IInv, TypeOK
<1>2. row \in Row /\ c.pc = "txt" /\ Number(c) = n
  BY <1>1 DEF Call, Row, Number
<1>3. /\ log' = Append(log, row) /\ thread' = [thread EXCEPT ![p] = c]
      /\ UNCHANGED <<jobs, missing>>
  BY <1>1 DEF InsertRow, TypeOK
<1>4. n = <<row.date, row.seq>>
  BY DEF Number
<1>5. n \notin Logged
  BY <1>1 DEF IInv, PendingIsNew
<1>6. Logged' = Logged \cup {n}
  <2> HIDE DEF row, n
  <2>1. /\ Len(log') = Len(log) + 1 /\ Len(log) \in Nat
        /\ \A i \in 1..Len(log) : log'[i] = log[i]
        /\ log'[Len(log) + 1] = row
    BY <1>1, <1>2, <1>3
  <2>2. 1..Len(log') = 1..Len(log) \cup {Len(log) + 1}
    BY <2>1
  <2> QED
    BY <1>4, <2>1, <2>2 DEF Logged
<1> HIDE DEF row, n, c
<1>7. thread'[p] = c /\ \A q \in Process \ {p} : thread'[q] = thread[q]
  BY <1>1, <1>3 DEF TypeOK
<1>8. DOMAIN Ahead = Copy /\ "txt" \in Copy
  BY DEF Ahead, Copy
<1>9. Owed(p) = {} /\ Owed(p)' = {n} \X Copy
  <2>1. Owed(p)' = {Number(thread'[p])} \X Ahead["txt"]
    BY <1>2, <1>7, <1>8 DEF Owed, Number
  <2>2. Number(thread'[p]) = n
    BY <1>2, <1>7
  <2>3. thread[p].pc \notin Copy
    BY <1>1 DEF Copy
  <2> QED
    BY <2>1, <2>2, <2>3, AheadOf, OwedOf
<1>10. \A q \in Process \ {p} : Owed(q)' = Owed(q)
  BY <1>7, SameOwed
<1>11. jobs \cup missing \cup UNION {Owed(q) : q \in Process} = Logged \X Copy
  BY DEF JInv, JobsAccounted
<1>12. OwnRows'
  <2>1. \A q \in Process : thread[q].pc \in Copy => Number(thread[q]) \in Logged
    <3> SUFFICES ASSUME NEW q \in Process, thread[q].pc \in Copy PROVE Number(thread[q]) \in Logged
      OBVIOUS
    <3>1. thread[q].pc \in Ahead[thread[q].pc]
      BY AheadOf DEF Copy
    <3>2. <<Number(thread[q]), thread[q].pc>> \in Owed(q)
      BY <3>1, OwedOf
    <3>3. <<Number(thread[q]), thread[q].pc>> \in Logged \X Copy
      BY <1>11, <3>2
    <3> QED
      BY <3>3
  <2>2. \A q \in Process \ {p} : thread'[q].pc \in Copy => Number(thread'[q]) # Number(thread'[p])
    BY <1>2, <1>5, <1>7, <2>1
  <2>3. \A q, r \in Process \ {p} :
          /\ thread'[q].pc \in Copy /\ thread'[r].pc \in Copy
          /\ Number(thread'[q]) = Number(thread'[r])
          => q = r
    BY <1>7 DEF JInv, OwnRows
  <2> QED
    BY <2>2, <2>3 DEF OwnRows
<1>13. OwedIsNew'
  <2> SUFFICES ASSUME NEW q \in Process PROVE Owed(q)' \cap (jobs \cup missing) = {}
    BY <1>3 DEF OwedIsNew
  <2>1. CASE q = p
    BY <1>5, <1>9, <1>11, <2>1
  <2>2. CASE q # p
    BY <1>10, <2>2 DEF JInv, OwedIsNew
  <2> QED
    BY <2>1, <2>2
<1>14. JobsAccounted'
  <2> DEFINE All == UNION {Owed(q) : q \in Process}
  <2>1. All' = All \cup ({n} \X Copy)
    BY <1>9, <1>10
  <2>2. jobs' \cup missing' \cup All' = Logged' \X Copy
    <3> HIDE DEF All
    <3>1. jobs \cup missing \cup All = Logged \X Copy
      BY <1>11 DEF All
    <3>2. Logged' \X Copy = (Logged \X Copy) \cup ({n} \X Copy)
      BY <1>6
    <3> QED
      BY <1>3, <2>1, <3>1, <3>2
  <2>3. jobs' \cap missing' = {}
    BY <1>3 DEF JInv, JobsAccounted
  <2> QED
    BY <2>2, <2>3 DEF JobsAccounted
<1> QED
  BY <1>12, <1>13, <1>14 DEF JInv

LEMMA InitJobs == Init => JInv
<1> SUFFICES ASSUME Init PROVE JInv
  OBVIOUS
<1>1. \A p \in Process : thread[p].pc \notin Copy
  BY DEF Init, Idle, Copy
<1>2. \A p \in Process : Owed(p) = {}
  BY <1>1, OwedOf
<1>3. Logged = {} /\ jobs = {} /\ missing = {}
  <2>1. Len(log) = 0
    BY DEF Init
  <2> QED
    BY <2>1 DEF Init, Logged
<1> QED
  BY <1>1, <1>2, <1>3 DEF JInv, OwnRows, OwedIsNew, JobsAccounted

LEMMA NextJobs == IInv /\ JInv /\ [Next]_vars => JInv'
<1> SUFFICES ASSUME IInv, JInv, [Next]_vars PROVE JInv'
  OBVIOUS
<1>1. TypeOK
  BY DEF IInv
<1>2. ASSUME NEW p \in Process, NEW m \in Received, HandleMessage(p, m) PROVE JInv'
  <2>1. thread[p].pc \notin Copy /\ NewCall(m, "COMPLETED").pc \notin Copy
    BY <1>2 DEF HandleMessage, Idle, NewCall, Copy
  <2> QED
    BY <1>1, <1>2, <2>1, OtherJobs DEF HandleMessage
<1>3. ASSUME NEW p \in Process, NEW t \in Request, Send(p, t) PROVE JInv'
  BY <1>3, SameJobs DEF Send
<1>4. ASSUME NEW p \in Process, NEW t \in Request, SendSettled(p, t) PROVE JInv'
  <2>1. PICK s \in Status : thread' = [thread EXCEPT ![p] = NewCall(t, s)]
    BY <1>4 DEF SendSettled, Status
  <2>2. thread[p].pc \notin Copy /\ NewCall(t, s).pc \notin Copy
    BY <1>4 DEF SendSettled, Idle, NewCall, Copy
  <2> QED
    BY <1>1, <1>4, <2>1, <2>2, OtherJobs DEF SendSettled
<1>5. ASSUME NEW p \in Process, Begin(p) \/ Issue(p) \/ Commit(p) PROVE JInv'
  <2>1. thread[p] \in Call
    BY <1>1, <1>5, ThreadType DEF Begin, Issue, Commit, Phase
  <2>2. PICK c : thread' = [thread EXCEPT ![p] = c] /\ c.pc \in {"issue", "commit", "insert"}
    <3>1. CASE Begin(p)
      <4>1. thread' = [thread EXCEPT ![p] = [thread[p] EXCEPT !.pc = "issue"]]
        BY <1>1, <3>1 DEF Begin, TypeOK
      <4>2. [thread[p] EXCEPT !.pc = "issue"].pc = "issue"
        BY <2>1 DEF Call
      <4> QED
        BY <4>1, <4>2
    <3>2. CASE Issue(p)
      <4> DEFINE n == counter[thread[p].date] + 1
      <4>1. thread' = [thread EXCEPT ![p] = [thread[p] EXCEPT !.pc = "commit", !.seq = n]]
        BY <1>1, <3>2 DEF Issue, TypeOK
      <4>2. [thread[p] EXCEPT !.pc = "commit", !.seq = n].pc = "commit"
        <5> HIDE DEF n
        <5> QED
          BY <2>1 DEF Call
      <4> HIDE DEF n
      <4> QED
        BY <4>1, <4>2
    <3>3. CASE Commit(p)
      <4>1. thread' = [thread EXCEPT ![p] = [thread[p] EXCEPT !.pc = "insert"]]
        BY <1>1, <3>3 DEF Commit, TypeOK
      <4>2. [thread[p] EXCEPT !.pc = "insert"].pc = "insert"
        BY <2>1 DEF Call
      <4> QED
        BY <4>1, <4>2
    <3> QED
      BY <1>5, <3>1, <3>2, <3>3
  <2>3. thread[p].pc \notin Copy /\ c.pc \notin Copy /\ UNCHANGED <<log, jobs, missing>>
    BY <1>5, <2>2 DEF Begin, Issue, Commit, Copy
  <2> QED
    BY <1>1, <2>2, <2>3, OtherJobs
<1>6. ASSUME NEW p \in Process, InsertRow(p) PROVE JInv'
  BY <1>6, InsertJobs
<1>7. ASSUME NEW p \in Process, Enqueue(p) \/ EnqueueFails(p) PROVE JInv'
  BY <1>1, <1>7, EnqueueJobs
<1>8. ASSUME NEW p \in Process, Throw(p) PROVE JInv'
  <2>1. thread[p] \in Call
    BY <1>1, <1>8, ThreadType DEF Throw
  <2>2. AfterThrow(thread[p]).pc \notin Copy
    BY <1>1, <2>1, AfterThrowType DEF Copy
  <2> QED
    BY <1>1, <1>8, <2>2, EndedJobs DEF Throw
<1>9. ASSUME NEW p \in Process, Crash(p) PROVE JInv'
  BY <1>1, <1>9, EndedJobs DEF Crash, Idle, Copy
<1>10. ASSUME NEW d \in Date, SetClock(d) PROVE JInv'
  BY <1>10, SameJobs DEF SetClock
<1>11. CASE UNCHANGED vars
  BY <1>11, SameJobs DEF vars
<1> QED
  BY <1>2, <1>3, <1>4, <1>5, <1>6, <1>7, <1>8, <1>9, <1>10, <1>11 DEF Next, Step

\* Every row has its three jobs, or its call is about to write them, or an error or
\* a crash kept them from being written: a job that cannot be written costs no
\* other one, and none is without its row.
THEOREM JobsAreAccounted == Spec => []JobsAccounted
<1>1. IInv /\ JInv => JobsAccounted
  BY DEF JInv
<1> QED
  BY <1>1, InitInv, NextInv, InitJobs, NextJobs, PTL DEF Spec
-----------------------------------------------------------------------------
(* The order of a process's rows.  A number on its way into a row exceeds  *)
(* those of the rows the process already has on that day, because COMMIT   *)
(* took it above everything the counter had given out.                     *)

PendingIsLast ==
  \A p \in Process : thread[p].pc = "insert" =>
    \A i \in 1..Len(log) :
      log[i].by = p /\ log[i].date = thread[p].date => log[i].seq < thread[p].seq

OrderInv == NumbersFollowArrival /\ PendingIsLast

\* A row has a number of its day that the counter has given out.
LEMMA LoggedIsCounted ==
  ASSUME IInv, NEW i \in 1..Len(log)
  PROVE  log[i].date \in Date /\ log[i].seq \in Nat /\ log[i].seq <= counter[log[i].date]
<1>1. log[i] \in Row /\ counter \in [Date -> Nat]
  BY DEF IInv, TypeOK
<1>2. log[i].date \in Date /\ log[i].seq \in Nat
  BY <1>1 DEF Row
<1>3. <<log[i].date, log[i].seq>> \in Logged
  BY DEF Logged
<1>4. <<log[i].date, log[i].seq>> \in {x \in Logged \cup Pending \cup skipped : x[1] = log[i].date}
  BY <1>3
<1>5. {x \in Logged \cup Pending \cup skipped : x[1] = log[i].date}
        = {log[i].date} \X (1..counter[log[i].date])
  BY <1>2 DEF IInv, NumbersAccounted
<1>6. <<log[i].date, log[i].seq>> \in {log[i].date} \X (1..counter[log[i].date])
  BY <1>4, <1>5
<1>7. log[i].seq \in 1..counter[log[i].date] /\ counter[log[i].date] \in Nat
  BY <1>1, <1>2, <1>6
<1> QED
  BY <1>2, <1>7

\* A step of one thread that writes no row and brings no number to its row.
LEMMA OtherOrder ==
  ASSUME OrderInv, TypeOK, NEW p \in Process, NEW c, thread' = [thread EXCEPT ![p] = c],
         c.pc # "insert", log' = log
  PROVE  OrderInv'
<1>1. thread'[p] = c /\ \A q \in Process \ {p} : thread'[q] = thread[q]
  BY DEF TypeOK
<1>2. PendingIsLast'
  BY <1>1 DEF OrderInv, PendingIsLast
<1> QED
  BY <1>2 DEF OrderInv, NumbersFollowArrival

LEMMA SameOrder ==
  ASSUME OrderInv, UNCHANGED <<thread, log>>
  PROVE  OrderInv'
BY DEF OrderInv, NumbersFollowArrival, PendingIsLast

LEMMA CommitOrder ==
  ASSUME OrderInv, IInv, NEW p \in Process, Commit(p)
  PROVE  OrderInv'
<1>1. TypeOK /\ thread[p] \in Call /\ thread[p].pc = "commit"
  BY ThreadType DEF IInv, Commit, Phase
<1>2. thread[p].date \in Date /\ thread[p].seq = counter[thread[p].date] + 1
      /\ counter[thread[p].date] \in Nat
  BY <1>1 DEF IInv, NextNumber, Call, TypeOK
<1>3. /\ thread'[p].date = thread[p].date /\ thread'[p].seq = thread[p].seq
      /\ \A q \in Process \ {p} : thread'[q] = thread[q]
      /\ log' = log
  BY <1>1 DEF Commit, TypeOK, Call
<1>4. ASSUME NEW i \in 1..Len(log), log[i].date = thread[p].date
      PROVE  log[i].seq < thread[p].seq
  <2>1. log[i].seq \in Nat /\ log[i].seq <= counter[thread[p].date]
    BY <1>4, LoggedIsCounted
  <2> QED
    BY <1>2, <2>1
<1>5. PendingIsLast'
  <2> SUFFICES ASSUME NEW q \in Process, thread'[q].pc = "insert", NEW i \in 1..Len(log),
                      log[i].by = q, log[i].date = thread'[q].date
               PROVE  log[i].seq < thread'[q].seq
    BY <1>3 DEF PendingIsLast
  <2>1. CASE q = p
    BY <1>3, <1>4, <2>1
  <2>2. CASE q # p
    BY <1>3, <2>2 DEF OrderInv, PendingIsLast
  <2> QED
    BY <2>1, <2>2
<1> QED
  BY <1>3, <1>5 DEF OrderInv, NumbersFollowArrival

\* The row an insert appends.
LEMMA InsertedRow ==
  ASSUME TypeOK, NEW p \in Process, InsertRow(p)
  PROVE  /\ thread[p] \in Call /\ thread[p].pc = "insert"
         /\ Len(log) \in Nat /\ Len(log') = Len(log) + 1
         /\ \A i \in 1..Len(log) : log'[i] = log[i]
         /\ log'[Len(log')].op = thread[p].op /\ log'[Len(log')].status = thread[p].status
         /\ log'[Len(log')].date = thread[p].date /\ log'[Len(log')].seq = thread[p].seq
         /\ log'[Len(log')].by = p
         /\ thread'[p].pc = "txt" /\ thread'[p].op = thread[p].op
         /\ thread'[p].status = thread[p].status
         /\ Number(thread'[p]) = Number(thread[p])
         /\ \A q \in Process \ {p} : thread'[q] = thread[q]
<1> DEFINE row == [op |-> thread[p].op, status |-> thread[p].status,
                   date |-> thread[p].date, seq |-> thread[p].seq, by |-> p]
<1>1. thread[p] \in Call /\ thread[p].pc = "insert" /\ log \in Seq(Row)
  BY ThreadType DEF InsertRow, Phase, TypeOK
<1>2. row \in Row
  BY <1>1 DEF Call, Row
<1>3. log' = Append(log, row)
  BY DEF InsertRow
<1>4. /\ row.op = thread[p].op /\ row.status = thread[p].status
      /\ row.date = thread[p].date /\ row.seq = thread[p].seq /\ row.by = p
  OBVIOUS
<1> HIDE DEF row
<1>5. /\ Len(log) \in Nat /\ Len(log') = Len(log) + 1
      /\ \A i \in 1..Len(log) : log'[i] = log[i]
      /\ log'[Len(log) + 1] = row
  BY <1>1, <1>2, <1>3
<1>6. /\ thread'[p].pc = "txt" /\ thread'[p].op = thread[p].op
      /\ thread'[p].status = thread[p].status
      /\ Number(thread'[p]) = Number(thread[p])
      /\ \A q \in Process \ {p} : thread'[q] = thread[q]
  BY <1>1 DEF InsertRow, TypeOK, Call, Number
<1> QED
  BY <1>1, <1>4, <1>5, <1>6

LEMMA InsertOrder ==
  ASSUME OrderInv, IInv, NEW p \in Process, InsertRow(p)
  PROVE  OrderInv'
<1>1. TypeOK
  BY DEF IInv
<1> DEFINE n == Len(log)
<1>2. /\ thread[p] \in Call /\ thread[p].pc = "insert" /\ n \in Nat /\ Len(log') = n + 1
      /\ \A i \in 1..n : log'[i] = log[i]
      /\ log'[n + 1].by = p
      /\ log'[n + 1].date = thread[p].date /\ log'[n + 1].seq = thread[p].seq
      /\ thread'[p].pc = "txt" /\ \A q \in Process \ {p} : thread'[q] = thread[q]
  BY <1>1, InsertedRow
<1>3. \A i \in 1..Len(log') : i \in 1..n \/ i = n + 1
  BY <1>2
<1>4. \A i \in 1..n : log[i].by = p /\ log[i].date = thread[p].date => log[i].seq < thread[p].seq
  BY <1>2 DEF OrderInv, PendingIsLast
<1>5. NumbersFollowArrival'
  <2> SUFFICES ASSUME NEW i \in 1..Len(log'), NEW j \in 1..Len(log'),
                      i < j, log'[i].by = log'[j].by, log'[i].date = log'[j].date
               PROVE  log'[i].seq < log'[j].seq
    BY DEF NumbersFollowArrival
  <2>1. i \in 1..n
    BY <1>2
  <2>2. CASE j \in 1..n
    <3>1. log'[i] = log[i] /\ log'[j] = log[j]
      BY <1>2, <2>1, <2>2
    <3>2. log[i].seq < log[j].seq
      BY <2>1, <2>2, <3>1 DEF OrderInv, NumbersFollowArrival
    <3> QED
      BY <3>1, <3>2
  <2>3. CASE j = n + 1
    <3>1. log[i].seq < thread[p].seq /\ log'[i] = log[i]
      BY <1>2, <1>4, <2>1, <2>3
    <3> QED
      BY <1>2, <2>3, <3>1
  <2> QED
    BY <1>3, <2>2, <2>3
<1>6. PendingIsLast'
  <2> SUFFICES ASSUME NEW q \in Process, thread'[q].pc = "insert", NEW i \in 1..Len(log'),
                      log'[i].by = q, log'[i].date = thread'[q].date
               PROVE  log'[i].seq < thread'[q].seq
    BY DEF PendingIsLast
  <2>1. q # p /\ thread'[q] = thread[q]
    BY <1>2
  <2>2. i \in 1..n /\ log'[i] = log[i]
    BY <1>2, <1>3, <2>1
  <2> QED
    BY <2>1, <2>2 DEF OrderInv, PendingIsLast
<1> QED
  BY <1>5, <1>6 DEF OrderInv

\* Every step of a thread but COMMIT and the insert leaves the order alone.
LEMMA NextOrder == IInv /\ OrderInv /\ [Next]_vars => OrderInv'
<1> SUFFICES ASSUME IInv, OrderInv, [Next]_vars PROVE OrderInv'
  OBVIOUS
<1>1. TypeOK
  BY DEF IInv
<1>2. ASSUME NEW p \in Process, NEW m \in Received, HandleMessage(p, m) PROVE OrderInv'
  <2>1. NewCall(m, "COMPLETED").pc # "insert"
    BY DEF NewCall
  <2> QED
    BY <1>1, <1>2, <2>1, OtherOrder DEF HandleMessage
<1>3. ASSUME NEW p \in Process, NEW t \in Request, Send(p, t) PROVE OrderInv'
  BY <1>3, SameOrder DEF Send
<1>4. ASSUME NEW p \in Process, NEW t \in Request, SendSettled(p, t) PROVE OrderInv'
  <2>1. PICK s \in Status : thread' = [thread EXCEPT ![p] = NewCall(t, s)]
    BY <1>4 DEF SendSettled, Status
  <2>2. NewCall(t, s).pc # "insert"
    BY DEF NewCall
  <2> QED
    BY <1>1, <1>4, <2>1, <2>2, OtherOrder DEF SendSettled
<1>5. ASSUME NEW p \in Process, Begin(p) PROVE OrderInv'
  <2>1. thread' = [thread EXCEPT ![p] = [thread[p] EXCEPT !.pc = "issue"]] /\ thread[p] \in Call
    BY <1>1, <1>5, ThreadType DEF Begin, TypeOK, Phase
  <2>2. [thread[p] EXCEPT !.pc = "issue"].pc = "issue"
    BY <2>1 DEF Call
  <2> QED
    BY <1>1, <1>5, <2>1, <2>2, OtherOrder DEF Begin
<1>6. ASSUME NEW p \in Process, Issue(p) PROVE OrderInv'
  <2> PICK n : n = counter[thread[p].date] + 1
    OBVIOUS
  <2>1. /\ thread' = [thread EXCEPT ![p] = [thread[p] EXCEPT !.pc = "commit", !.seq = n]]
        /\ thread[p] \in Call
    BY <1>1, <1>6, ThreadType DEF Issue, TypeOK, Phase
  <2>2. [thread[p] EXCEPT !.pc = "commit", !.seq = n].pc = "commit"
    BY <2>1 DEF Call
  <2> QED
    BY <1>1, <1>6, <2>1, <2>2, OtherOrder DEF Issue
<1>7. ASSUME NEW p \in Process, Commit(p) PROVE OrderInv'
  BY <1>7, CommitOrder
<1>8. ASSUME NEW p \in Process, InsertRow(p) PROVE OrderInv'
  BY <1>8, InsertOrder
<1>9. ASSUME NEW p \in Process, Enqueue(p) \/ EnqueueFails(p) PROVE OrderInv'
  <2>1. thread' = [thread EXCEPT ![p] = Following(p)] /\ log' = log /\ thread[p].pc \in Copy
    BY <1>9 DEF Enqueue, EnqueueFails, Unnoticed
  <2>2. Following(p).pc # "insert"
    BY <1>1, <2>1, FollowingType
  <2> QED
    BY <1>1, <2>1, <2>2, OtherOrder
<1>10. ASSUME NEW p \in Process, Throw(p) PROVE OrderInv'
  <2>1. thread[p] \in Call
    BY <1>1, <1>10, ThreadType DEF Throw
  <2>2. AfterThrow(thread[p]).pc # "insert"
    BY <1>1, <2>1, AfterThrowType
  <2> QED
    BY <1>1, <1>10, <2>2, OtherOrder DEF Throw
<1>11. ASSUME NEW p \in Process, Crash(p) PROVE OrderInv'
  <2>1. Idle.pc # "insert"
    BY DEF Idle
  <2> QED
    BY <1>1, <1>11, <2>1, OtherOrder DEF Crash
<1>12. ASSUME NEW d \in Date, SetClock(d) PROVE OrderInv'
  BY <1>12, SameOrder DEF SetClock
<1>13. CASE UNCHANGED vars
  BY <1>13, SameOrder DEF vars
<1> QED
  BY <1>2, <1>3, <1>4, <1>5, <1>6, <1>7, <1>8, <1>9, <1>10, <1>11, <1>12, <1>13 DEF Next, Step

\* The rows one process writes on one day are numbered in the order in which it
\* took up their messages, also when the clock was set back in between: a process
\* handles one message at a time, and a day's counter never goes back.
THEOREM NumbersKeepOrder == Spec => []NumbersFollowArrival
<1>1. Init => OrderInv
  <2> SUFFICES ASSUME Init PROVE OrderInv
    OBVIOUS
  <2>1. Len(log) = 0 /\ \A p \in Process : thread[p].pc = "idle"
    BY DEF Init, Idle
  <2> QED
    BY <2>1 DEF OrderInv, NumbersFollowArrival, PendingIsLast
<1>2. OrderInv => NumbersFollowArrival
  BY DEF OrderInv
<1> QED
  BY <1>1, <1>2, InitInv, NextInv, NextOrder, PTL DEF Spec
-----------------------------------------------------------------------------
(* The rows of one operation.  What a call may still write depends on the  *)
(* rows its operation has, and an operation is awaited or in one call, and *)
(* never in both.                                                          *)

Early == {"begin", "issue", "commit", "insert"}

\* A call before its row has none if it reports success, and none but a success if
\* it reports a failure.
CallFits(call) ==
  call.pc \in Phase =>
    /\ call.op \in used /\ \A q \in Process : <<q, call.op>> \notin waiting
    /\ call.op \in Received => call.status = "COMPLETED"
    /\ call.op \in Request /\ call.status = "COMPLETED" => call.op \in sent
    /\ call.pc \in Early /\ call.status = "COMPLETED" => RowsOf(call.op) = {}
    /\ (call.pc \in Early \/ call.status = "COMPLETED") =>
         \A i \in RowsOf(call.op) : log[i].status = "COMPLETED"

CallsFit == \A p \in Process : CallFits(thread[p])

OneCall ==
  \A p, q \in Process :
    thread[p].pc \in Phase /\ thread[q].pc \in Phase /\ thread[p].op = thread[q].op => p = q

WaitingIsNew ==
  \A w \in waiting :
    /\ w[2] \in used /\ RowsOf(w[2]) = {}
    /\ \A v \in waiting : v[2] = w[2] => v = w

RowsFit ==
  \A i \in 1..Len(log) :
    /\ log[i].op \in used
    /\ log[i].status = "COMPLETED" \/ log[i].op \in Request
    /\ log[i].status = "COMPLETED" /\ log[i].op \in Request => log[i].op \in sent

Repeats ==
  \A i, j \in 1..Len(log) :
    i < j /\ log[i].op = log[j].op =>
      log[i].op \in Request /\ log[i].status = "COMPLETED" /\ log[j].status = "FAILED"

RowsInv == CallsFit /\ OneCall /\ WaitingIsNew /\ RowsFit /\ Repeats

\* The rows of an operation are two at most, and one for a received message.
LEMMA RowsInvGivesRows == RowsInv => RowsPerOperation
<1> SUFFICES ASSUME RowsInv PROVE RowsPerOperation
  OBVIOUS
<1>1. ASSUME NEW m \in Received
      PROVE  Cardinality(RowsOf(m)) <= 1 /\ \A i \in RowsOf(m) : log[i].status = "COMPLETED"
  <2>1. m \notin Request
    BY OpsAssumption DEF OpsAssumption
  <2>2. \A i \in RowsOf(m) : log[i].status = "COMPLETED"
    BY <2>1 DEF RowsOf, RowsInv, RowsFit
  <2>3. \A i, j \in RowsOf(m) : ~(i < j)
    BY <2>1 DEF RowsOf, RowsInv, Repeats
  <2>4. \A i, j \in RowsOf(m) : i = j
    <3>1. RowsOf(m) \subseteq Int
      BY DEF RowsOf
    <3> QED
      BY <2>3, <3>1
  <2>5. CASE RowsOf(m) = {}
    BY <2>2, <2>5, FS_EmptySet
  <2>6. CASE RowsOf(m) # {}
    <3>1. PICK i : RowsOf(m) = {i}
      BY <2>4, <2>6
    <3>2. Cardinality(RowsOf(m)) = 1
      BY <3>1, FS_Singleton
    <3> QED
      BY <2>2, <3>2
  <2> QED
    BY <2>5, <2>6
<1>2. ASSUME NEW t \in Request, NEW i \in RowsOf(t)
      PROVE  /\ log[i].status = "COMPLETED" => t \in sent
             /\ \A j \in RowsOf(t) :
                  i < j => log[i].status = "COMPLETED" /\ log[j].status = "FAILED"
  BY <1>2 DEF RowsOf, RowsInv, RowsFit, Repeats
<1> QED
  BY <1>1, <1>2 DEF RowsPerOperation

\* A call goes on, ends, or starts again as the failure of the same request.
LEMMA OtherRows ==
  ASSUME RowsInv, TypeOK, NEW p \in Process, NEW c, thread' = [thread EXCEPT ![p] = c],
         UNCHANGED <<log, used, sent>>, waiting' \subseteq waiting,
         c.pc \in Phase =>
           /\ thread[p].pc \in Phase /\ c.op = thread[p].op
           /\ c.status = "COMPLETED" => thread[p].status = "COMPLETED"
           /\ c.status = "COMPLETED" /\ c.pc \in Early => thread[p].pc \in Early
           /\ c.pc \in Early => thread[p].pc \in Early \/ thread[p].status = "COMPLETED"
           /\ c.op \in Received => c.status = thread[p].status
  PROVE  RowsInv'
<1>1. thread'[p] = c /\ \A q \in Process \ {p} : thread'[q] = thread[q]
  BY DEF TypeOK
<1>2. \A op : RowsOf(op)' = RowsOf(op)
  BY DEF RowsOf
<1>3. CallsFit'
  <2> SUFFICES ASSUME NEW q \in Process PROVE CallFits(thread[q])'
    BY DEF CallsFit
  <2>1. CallFits(thread[q]) /\ CallFits(thread[p])
    BY DEF RowsInv, CallsFit
  <2>2. CASE q # p
    BY <1>1, <1>2, <2>1, <2>2 DEF CallFits
  <2>3. CASE q = p
    <3> SUFFICES ASSUME c.pc \in Phase PROVE CallFits(thread[q])'
      BY <1>1, <2>3 DEF CallFits
    <3> QED
      BY <1>1, <1>2, <2>1, <2>3 DEF CallFits
  <2> QED
    BY <2>2, <2>3
<1>4. OneCall'
  BY <1>1 DEF RowsInv, OneCall
<1>5. WaitingIsNew'
  BY <1>2 DEF RowsInv, WaitingIsNew
<1>6. RowsFit' /\ Repeats'
  BY DEF RowsInv, RowsFit, Repeats
<1> QED
  BY <1>3, <1>4, <1>5, <1>6 DEF RowsInv

\* The first call of an operation that has no row.
LEMMA FirstRows ==
  ASSUME RowsInv, TypeOK, NEW p \in Process, NEW op, NEW s,
         thread' = [thread EXCEPT ![p] = NewCall(op, s)],
         log' = log, used \subseteq used', sent \subseteq sent', waiting' \subseteq waiting,
         op \in used', RowsOf(op) = {}, \A q \in Process : <<q, op>> \notin waiting',
         \A q \in Process : thread[q].pc \in Phase => thread[q].op # op,
         op \in Received => s = "COMPLETED",
         op \in Request /\ s = "COMPLETED" => op \in sent'
  PROVE  RowsInv'
<1> PICK c : c = NewCall(op, s)
  OBVIOUS
<1>1. /\ thread'[p] = c /\ \A q \in Process \ {p} : thread'[q] = thread[q]
      /\ c.op = op /\ c.status = s
  BY DEF TypeOK, NewCall
<1>2. \A o : RowsOf(o)' = RowsOf(o)
  BY DEF RowsOf
<1>3. CallsFit'
  <2> SUFFICES ASSUME NEW q \in Process PROVE CallFits(thread[q])'
    BY DEF CallsFit
  <2>1. CallFits(thread[q])
    BY DEF RowsInv, CallsFit
  <2>2. CASE q # p
    BY <1>1, <1>2, <2>1, <2>2 DEF CallFits
  <2>3. CASE q = p
    BY <1>1, <1>2, <2>3 DEF CallFits
  <2> QED
    BY <2>2, <2>3
<1>4. OneCall'
  BY <1>1 DEF RowsInv, OneCall
<1>5. WaitingIsNew'
  BY <1>2 DEF RowsInv, WaitingIsNew
<1>6. RowsFit' /\ Repeats'
  BY DEF RowsInv, RowsFit, Repeats
<1> QED
  BY <1>3, <1>4, <1>5, <1>6 DEF RowsInv

LEMMA SameRows ==
  ASSUME RowsInv, UNCHANGED <<thread, log, waiting, used, sent>>
  PROVE  RowsInv'
BY DEF RowsInv, CallsFit, CallFits, OneCall, WaitingIsNew, RowsFit, Repeats, RowsOf

\* An operation that nobody took up has no call and no row.
LEMMA UnusedOp ==
  ASSUME RowsInv, NEW op, op \notin used
  PROVE  /\ RowsOf(op) = {}
         /\ \A q \in Process : thread[q].pc \in Phase => thread[q].op # op
         /\ \A w \in waiting : w[2] # op
BY DEF RowsInv, CallsFit, CallFits, RowsFit, RowsOf, WaitingIsNew

LEMMA SendRows ==
  ASSUME RowsInv, TypeOK, NEW p \in Process, NEW t \in Request, Send(p, t)
  PROVE  RowsInv'
<1>1. /\ waiting' = waiting \cup {<<p, t>>} /\ used' = used \cup {t} /\ t \notin used
      /\ UNCHANGED <<thread, log, sent>>
  BY DEF Send
<1>2. /\ RowsOf(t) = {}
      /\ \A q \in Process : thread[q].pc \in Phase => thread[q].op # t
      /\ \A w \in waiting : w[2] # t
  BY <1>1, UnusedOp
<1>3. \A op : RowsOf(op)' = RowsOf(op)
  BY <1>1 DEF RowsOf
<1>4. CallsFit'
  <2> SUFFICES ASSUME NEW q \in Process, thread[q].pc \in Phase PROVE CallFits(thread[q])'
    BY <1>1 DEF CallsFit, CallFits
  <2>1. CallFits(thread[q]) /\ thread[q].op # t
    BY <1>2 DEF RowsInv, CallsFit
  <2>2. \A r \in Process : <<r, thread[q].op>> \notin waiting'
    BY <1>1, <2>1 DEF CallFits
  <2> QED
    BY <1>1, <1>3, <2>1, <2>2 DEF CallFits
<1>5. WaitingIsNew'
  BY <1>1, <1>2, <1>3 DEF RowsInv, WaitingIsNew
<1>6. OneCall' /\ RowsFit' /\ Repeats'
  BY <1>1 DEF RowsInv, OneCall, RowsFit, Repeats
<1> QED
  BY <1>4, <1>5, <1>6 DEF RowsInv

LEMMA InsertRows ==
  ASSUME RowsInv, TypeOK, NEW p \in Process, InsertRow(p)
  PROVE  RowsInv'
<1> PICK n : n = Len(log)
  OBVIOUS
<1> PICK op : op = thread[p].op
  OBVIOUS
<1> PICK s : s = thread[p].status
  OBVIOUS
<1>1. /\ thread[p] \in Call /\ thread[p].pc = "insert" /\ n \in Nat /\ Len(log') = n + 1
      /\ \A i \in 1..n : log'[i] = log[i]
      /\ log'[n + 1].op = op /\ log'[n + 1].status = s
      /\ thread'[p].pc = "txt" /\ thread'[p].op = op /\ thread'[p].status = s
      /\ \A q \in Process \ {p} : thread'[q] = thread[q]
      /\ UNCHANGED <<waiting, used, sent>>
  <2>1. UNCHANGED <<waiting, used, sent>>
    BY DEF InsertRow, history
  <2>2. /\ thread[p] \in Call /\ thread[p].pc = "insert" /\ n \in Nat /\ Len(log') = n + 1
        /\ \A i \in 1..n : log'[i] = log[i]
        /\ log'[Len(log')].op = op /\ log'[Len(log')].status = s
        /\ thread'[p].pc = "txt" /\ thread'[p].op = op /\ thread'[p].status = s
        /\ \A q \in Process \ {p} : thread'[q] = thread[q]
    BY InsertedRow
  <2> QED
    BY <2>1, <2>2
<1>2. thread[p].pc \in Phase /\ thread[p].pc \in Early /\ op \in Op /\ s \in Status
  BY <1>1 DEF Phase, Early, Call
<1>3. CallFits(thread[p])
  BY DEF RowsInv, CallsFit
<1>4. /\ op \in used /\ \A q \in Process : <<q, op>> \notin waiting
      /\ s = "COMPLETED" => RowsOf(op) = {}
      /\ s = "COMPLETED" /\ op \in Request => op \in sent
      /\ \A i \in RowsOf(op) : log[i].status = "COMPLETED"
      /\ s = "COMPLETED" \/ op \in Request
      /\ s = "COMPLETED" \/ s = "FAILED"
  BY <1>2, <1>3 DEF CallFits, Op, Status
<1>5. \A i \in 1..Len(log') : i \in 1..n \/ i = n + 1
  BY <1>1
<1>6. RowsOf(op)' = RowsOf(op) \cup {n + 1}
  BY <1>1, <1>5 DEF RowsOf
<1>7. \A o : o # op => RowsOf(o)' = RowsOf(o)
  BY <1>1, <1>5 DEF RowsOf
<1>8. CallsFit'
  <2> SUFFICES ASSUME NEW q \in Process, thread'[q].pc \in Phase PROVE CallFits(thread[q])'
    BY DEF CallsFit, CallFits
  <2>1. CASE q # p
    <3>1. CallFits(thread[q]) /\ thread'[q] = thread[q] /\ thread[q].pc \in Phase
      BY <1>1, <2>1 DEF RowsInv, CallsFit
    <3>2. thread[q].op # op
      BY <1>2, <2>1, <3>1 DEF RowsInv, OneCall
    <3>3. RowsOf(thread[q].op)' = RowsOf(thread[q].op)
      BY <1>7, <3>1, <3>2 DEF RowsOf
    <3>4. \A i \in RowsOf(thread[q].op) : log'[i] = log[i]
      BY <1>1 DEF RowsOf
    <3> QED
      BY <1>1, <3>1, <3>3, <3>4 DEF CallFits
  <2>2. CASE q = p
    <3>1. thread'[q].pc \notin Early
      BY <1>1, <2>2 DEF Early
    <3>2. RowsOf(thread[q].op)' = RowsOf(op)'
      BY <1>1, <2>2 DEF RowsOf
    <3>3. s = "COMPLETED" => \A i \in RowsOf(op)' : log'[i].status = "COMPLETED"
      BY <1>1, <1>4, <1>6
    <3>4. op \in Received => s = "COMPLETED"
      BY <1>2, <1>3 DEF CallFits
    <3> QED
      BY <1>1, <1>4, <2>2, <3>1, <3>2, <3>3, <3>4 DEF CallFits
  <2> QED
    BY <2>1, <2>2
<1>9. OneCall'
  BY <1>1, <1>2 DEF RowsInv, OneCall
<1>10. WaitingIsNew'
  <2> SUFFICES ASSUME NEW w \in waiting
               PROVE  /\ w[2] \in used /\ RowsOf(w[2])' = {}
                      /\ \A v \in waiting : v[2] = w[2] => v = w
    BY <1>1 DEF WaitingIsNew
  <2>1. w \in Process \X Request
    BY DEF TypeOK
  <2>2. w[2] # op
    BY <1>4, <2>1
  <2> QED
    BY <1>7, <2>2 DEF RowsInv, WaitingIsNew
<1>11. RowsFit'
  <2> SUFFICES ASSUME NEW i \in 1..Len(log')
               PROVE  /\ log'[i].op \in used
                      /\ log'[i].status = "COMPLETED" \/ log'[i].op \in Request
                      /\ log'[i].status = "COMPLETED" /\ log'[i].op \in Request
                           => log'[i].op \in sent
    BY <1>1 DEF RowsFit
  <2>1. CASE i \in 1..n
    BY <1>1, <2>1 DEF RowsInv, RowsFit
  <2>2. CASE i = n + 1
    BY <1>1, <1>4, <2>2
  <2> QED
    BY <1>5, <2>1, <2>2
<1>12. Repeats'
  <2> SUFFICES ASSUME NEW i \in 1..Len(log'), NEW j \in 1..Len(log'),
                      i < j, log'[i].op = log'[j].op
               PROVE  /\ log'[i].op \in Request
                      /\ log'[i].status = "COMPLETED" /\ log'[j].status = "FAILED"
    BY DEF Repeats
  <2>1. i \in 1..n
    BY <1>1
  <2>2. CASE j \in 1..n
    BY <1>1, <2>1, <2>2 DEF RowsInv, Repeats
  <2>3. CASE j = n + 1
    <3>1. i \in RowsOf(op) /\ log'[i] = log[i] /\ log[i].op = op
      BY <1>1, <2>1, <2>3 DEF RowsOf
    <3>2. s = "FAILED" /\ op \in Request /\ log[i].status = "COMPLETED"
      BY <1>4, <3>1
    <3> QED
      BY <1>1, <2>3, <3>1, <3>2
  <2> QED
    BY <1>5, <2>2, <2>3
<1> QED
  BY <1>8, <1>9, <1>10, <1>11, <1>12 DEF RowsInv

LEMMA NextRows == IInv /\ RowsInv /\ [Next]_vars => RowsInv'
<1> SUFFICES ASSUME IInv, RowsInv, [Next]_vars PROVE RowsInv'
  OBVIOUS
<1>1. TypeOK
  BY DEF IInv
<1>2. ASSUME NEW p \in Process, NEW m \in Received, HandleMessage(p, m) PROVE RowsInv'
  <2>1. /\ m \notin used /\ used' = used \cup {m} /\ sent' = sent /\ waiting' = waiting
        /\ log' = log /\ thread' = [thread EXCEPT ![p] = NewCall(m, "COMPLETED")]
    BY <1>2 DEF HandleMessage
  <2>2. /\ RowsOf(m) = {}
        /\ \A q \in Process : thread[q].pc \in Phase => thread[q].op # m
        /\ \A w \in waiting : w[2] # m
    BY <2>1, UnusedOp
  <2>3. \A q \in Process : <<q, m>> \notin waiting'
    BY <2>1, <2>2
  <2>4. m \notin Request
    BY OpsAssumption DEF OpsAssumption
  <2> QED
    BY <1>1, <2>1, <2>2, <2>3, <2>4, FirstRows
<1>3. ASSUME NEW p \in Process, NEW t \in Request, Send(p, t) PROVE RowsInv'
  BY <1>1, <1>3, SendRows
<1>4. ASSUME NEW p \in Process, NEW t \in Request, SendSettled(p, t) PROVE RowsInv'
  <2>1. PICK s \in Status : /\ thread' = [thread EXCEPT ![p] = NewCall(t, s)]
                            /\ sent \subseteq sent' /\ (s = "COMPLETED" => t \in sent')
    BY <1>4 DEF SendSettled, Status
  <2>2. /\ <<p, t>> \in waiting /\ waiting' = waiting \ {<<p, t>>}
        /\ used' = used /\ log' = log
    BY <1>4 DEF SendSettled
  <2>3. t \in used /\ RowsOf(t) = {} /\ \A v \in waiting : v[2] = t => v = <<p, t>>
    BY <2>2 DEF RowsInv, WaitingIsNew
  <2>4. \A q \in Process : <<q, t>> \notin waiting'
    BY <2>2, <2>3
  <2>5. \A q \in Process : thread[q].pc \in Phase => thread[q].op # t
    BY <2>2 DEF RowsInv, CallsFit, CallFits
  <2>6. t \notin Received
    BY OpsAssumption DEF OpsAssumption
  <2> QED
    BY <1>1, <2>1, <2>2, <2>3, <2>4, <2>5, <2>6, FirstRows
<1>5. ASSUME NEW p \in Process, Begin(p) \/ Issue(p) \/ Commit(p) PROVE RowsInv'
  <2>1. /\ thread[p] \in Call /\ thread[p].pc \in Early /\ Early \subseteq Phase
        /\ UNCHANGED <<log, waiting, used, sent>>
    BY <1>1, <1>5, ThreadType DEF Begin, Issue, Commit, Phase, Early, history
  <2>2. PICK c : /\ thread' = [thread EXCEPT ![p] = c]
                 /\ c.op = thread[p].op /\ c.status = thread[p].status
    <3>1. CASE Begin(p)
      <4>1. thread' = [thread EXCEPT ![p] = [thread[p] EXCEPT !.pc = "issue"]]
        BY <1>1, <3>1 DEF Begin, TypeOK
      <4>2. /\ [thread[p] EXCEPT !.pc = "issue"].op = thread[p].op
            /\ [thread[p] EXCEPT !.pc = "issue"].status = thread[p].status
        BY <2>1 DEF Call
      <4> QED
        BY <4>1, <4>2
    <3>2. CASE Issue(p)
      <4> PICK n : n = counter[thread[p].date] + 1
        OBVIOUS
      <4>1. thread' = [thread EXCEPT ![p] = [thread[p] EXCEPT !.pc = "commit", !.seq = n]]
        BY <1>1, <3>2 DEF Issue, TypeOK
      <4>2. /\ [thread[p] EXCEPT !.pc = "commit", !.seq = n].op = thread[p].op
            /\ [thread[p] EXCEPT !.pc = "commit", !.seq = n].status = thread[p].status
        BY <2>1 DEF Call
      <4> QED
        BY <4>1, <4>2
    <3>3. CASE Commit(p)
      <4>1. thread' = [thread EXCEPT ![p] = [thread[p] EXCEPT !.pc = "insert"]]
        BY <1>1, <3>3 DEF Commit, TypeOK
      <4>2. /\ [thread[p] EXCEPT !.pc = "insert"].op = thread[p].op
            /\ [thread[p] EXCEPT !.pc = "insert"].status = thread[p].status
        BY <2>1 DEF Call
      <4> QED
        BY <4>1, <4>2
    <3> QED
      BY <1>5, <3>1, <3>2, <3>3
  <2> QED
    BY <1>1, <2>1, <2>2, OtherRows
<1>6. ASSUME NEW p \in Process, InsertRow(p) PROVE RowsInv'
  BY <1>1, <1>6, InsertRows
<1>7. ASSUME NEW p \in Process, Enqueue(p) \/ EnqueueFails(p) PROVE RowsInv'
  <2> PICK c : c = Following(p)
    OBVIOUS
  <2>1. /\ thread' = [thread EXCEPT ![p] = c] /\ thread[p].pc \in Copy
        /\ UNCHANGED <<log, waiting, used, sent>>
    BY <1>7 DEF Enqueue, EnqueueFails, Unnoticed, history
  <2>2. thread[p] \in Call /\ thread[p].pc \in Phase /\ c.pc \notin Early
    BY <1>1, <2>1, FollowingType DEF Early, Phase
  <2>3. Idle.pc \notin Phase
    BY DEF Idle, Phase, Copy
  <2>4. c.pc \in Phase => c.op = thread[p].op /\ c.status = thread[p].status
    <3>1. \/ c = [thread[p] EXCEPT !.pc = "xlsx"] \/ c = [thread[p] EXCEPT !.pc = "cloud"]
          \/ c = Idle
      BY <2>1 DEF Following, Copy
    <3>2. \A x : /\ [thread[p] EXCEPT !.pc = x].op = thread[p].op
                 /\ [thread[p] EXCEPT !.pc = x].status = thread[p].status
      BY <2>2 DEF Call
    <3> QED
      BY <2>3, <3>1, <3>2
  <2> QED
    BY <1>1, <2>1, <2>2, <2>4, OtherRows
<1>8. ASSUME NEW p \in Process, Throw(p) PROVE RowsInv'
  <2> PICK c : c = AfterThrow(thread[p])
    OBVIOUS
  <2>1. /\ thread' = [thread EXCEPT ![p] = c] /\ thread[p].pc \in Phase
        /\ UNCHANGED <<log, waiting, used, sent>>
    BY <1>8 DEF Throw
  <2>2. Idle.pc \notin Phase
    BY DEF Idle, Phase, Copy
  <2>3. c.pc \in Phase =>
          /\ c.op = thread[p].op /\ c.status = "FAILED"
          /\ thread[p].op \in Request /\ thread[p].status = "COMPLETED"
    BY <2>2 DEF AfterThrow, NewCall
  <2>4. thread[p].op \in Request => thread[p].op \notin Received
    BY OpsAssumption DEF OpsAssumption
  <2> QED
    BY <1>1, <2>1, <2>3, <2>4, OtherRows
<1>9. ASSUME NEW p \in Process, Crash(p) PROVE RowsInv'
  <2>1. Idle.pc \notin Phase
    BY DEF Idle, Phase, Copy
  <2>2. waiting' \subseteq waiting
    BY <1>9 DEF Crash
  <2> QED
    BY <1>1, <1>9, <2>1, <2>2, OtherRows DEF Crash
<1>10. ASSUME NEW d \in Date, SetClock(d) PROVE RowsInv'
  BY <1>10, SameRows DEF SetClock, history
<1>11. CASE UNCHANGED vars
  BY <1>11, SameRows DEF vars
<1> QED
  BY <1>2, <1>3, <1>4, <1>5, <1>6, <1>7, <1>8, <1>9, <1>10, <1>11 DEF Next, Step

\* A received message has at most one row, which says COMPLETED.  A request has at
\* most one row of each status, a COMPLETED one only if its text was written and
\* never after a FAILED one, whatever statement of recordLog throws
\* (manager.ts send, whose catch block records the request a second time).
THEOREM RowsAreJustified == Spec => []RowsPerOperation
<1>1. Init => RowsInv
  <2> SUFFICES ASSUME Init PROVE RowsInv
    OBVIOUS
  <2>1. Len(log) = 0 /\ waiting = {} /\ \A p \in Process : thread[p].pc \notin Phase
    BY DEF Init, Idle, Phase, Copy
  <2> QED
    BY <2>1 DEF RowsInv, CallsFit, CallFits, OneCall, WaitingIsNew, RowsFit, Repeats
<1> QED
  BY <1>1, RowsInvGivesRows, InitInv, NextInv, NextRows, PTL DEF Spec

-----------------------------------------------------------------------------
(* The refinement of Register.  COMMIT gives a number out; the row, an      *)
(* error or a crash ends it.  Until then the number is that of one call,    *)
(* and until they are written the jobs of a row are owed by one call:       *)
(* PendingIsNew and OwnRows say so, hence one call ends its own only.       *)

LEMMA QuietRegister ==
  ASSUME TypeOK, NEW p \in Process, NEW c, thread' = [thread EXCEPT ![p] = c],
         thread[p].pc \notin Copy \cup {"insert"}, c.pc \notin Copy \cup {"insert"}
  PROVE  Pending' = Pending /\ Promised' = Promised
<1>1. thread'[p] = c /\ \A q \in Process \ {p} : thread'[q] = thread[q]
  BY DEF TypeOK
<1>2. Pending' = Pending
  BY <1>1 DEF Pending
<1>3. Owed(p)' = {} /\ Owed(p) = {}
  <2>1. DOMAIN Ahead = Copy
    BY DEF Ahead, Copy
  <2> QED
    BY <1>1, <2>1 DEF Owed
<1>4. \A q \in Process \ {p} : Owed(q)' = Owed(q)
  BY <1>1, SameOwed
<1> QED
  BY <1>2, <1>3, <1>4 DEF Promised

LEMMA SameRegister ==
  ASSUME UNCHANGED <<counter, thread, log, skipped, jobs, missing>>
  PROVE  UNCHANGED R!vars
BY DEF R!vars, Pending, Entered, Promised, Owed, Number

\* The number of p's call leaves Pending, or joins it.
LEMMA OpenNumbers ==
  ASSUME IInv, NEW p \in Process, \A q \in Process \ {p} : thread'[q] = thread[q]
  PROVE  /\ thread[p].pc = "insert" /\ thread'[p].pc # "insert" =>
              /\ Number(thread[p]) \in Pending
              /\ Pending' = Pending \ {Number(thread[p])}
         /\ thread[p].pc # "insert" /\ thread'[p].pc = "insert" =>
              Pending' = Pending \cup {Number(thread'[p])}
         /\ thread[p].pc # "insert" /\ thread'[p].pc # "insert" => Pending' = Pending
<1> DEFINE Others == {Number(thread[q]) : q \in {q \in Process \ {p} : thread[q].pc = "insert"}}
<1>1. Pending = Others \cup (IF thread[p].pc = "insert" THEN {Number(thread[p])} ELSE {})
  BY DEF Pending, Number
<1>2. Pending' = Others \cup (IF thread'[p].pc = "insert" THEN {Number(thread'[p])} ELSE {})
  BY DEF Pending, Number
<1>3. thread[p].pc = "insert" => Number(thread[p]) \notin Others
  BY DEF IInv, PendingIsNew
<1> HIDE DEF Others
<1> QED
  BY <1>1, <1>2, <1>3

\* What p's call owes leaves Promised, or joins it.
LEMMA PromisedJobs ==
  ASSUME OwnRows, NEW p \in Process, \A q \in Process \ {p} : thread'[q] = thread[q]
  PROVE  /\ Owed(p) \subseteq Promised
         /\ \A D : Owed(p) = Owed(p)' \cup D /\ Owed(p)' \cap D = {} => Promised' = Promised \ D
         /\ Owed(p) = {} => Promised' = Promised \cup Owed(p)'
         /\ Owed(p) = {} /\ Owed(p)' = {} => Promised' = Promised
<1> DEFINE Others == UNION {Owed(q) : q \in Process \ {p}}
<1>1. \A q \in Process \ {p} : Owed(q)' = Owed(q)
  BY SameOwed
<1>2. Others \cap Owed(p) = {}
  BY OwedApart
<1>3. Promised = Others \cup Owed(p)
  BY DEF Promised
<1>4. Promised' = Others \cup Owed(p)'
  BY <1>1 DEF Promised
<1> HIDE DEF Others
<1> QED
  BY <1>2, <1>3, <1>4

LEMMA RowAdded ==
  ASSUME TypeOK, NEW p \in Process, InsertRow(p)
  PROVE  Entered' = Append(Entered, Number(thread[p]))
<1> PICK x : x = Number(thread[p])
  OBVIOUS
<1> PICK n : n = Len(log)
  OBVIOUS
<1>1. /\ n \in Nat /\ Len(log') = n + 1 /\ \A i \in 1..n : log'[i] = log[i]
      /\ Number(log'[n + 1]) = x
  BY InsertedRow DEF Number
<1>2. Entered = [i \in 1..n |-> Number(log[i])]
  BY DEF Entered
<1>3. Entered' = [i \in 1..(n + 1) |-> Number(log'[i])]
  BY <1>1 DEF Entered, Number
<1> PICK S : S = {Number(log[i]) : i \in 1..n} \cup {x}
  OBVIOUS
<1>4. Entered \in Seq(S) /\ Len(Entered) = n
  BY <1>1, <1>2
<1>5. /\ Append(Entered, x) \in Seq(S) /\ Len(Append(Entered, x)) = n + 1
      /\ \A i \in 1..n : Append(Entered, x)[i] = Entered[i]
      /\ Append(Entered, x)[n + 1] = x
  BY <1>4, AppendProperties
<1>6. \A i \in 1..(n + 1) : Number(log'[i]) = Append(Entered, x)[i]
  <2>1. \A i \in 1..n : Number(log'[i]) = Append(Entered, x)[i]
    BY <1>1, <1>2, <1>5 DEF Number
  <2> QED
    BY <1>1, <1>5, <2>1
<1>7. Entered' \in Seq(S) /\ Len(Entered') = n + 1
  <2>1. \A i \in 1..(n + 1) : Number(log'[i]) \in S
    <3>1. \A i \in 1..n : Number(log'[i]) \in S
      BY <1>1 DEF Number
    <3> QED
      BY <1>1, <3>1
  <2> QED
    BY <1>1, <1>3, <2>1
<1> QED
  BY <1>3, <1>5, <1>6, <1>7, SeqEqual

\* A call ends early: its number is lost, or the jobs it owes are given up.
LEMMA EndRegister ==
  ASSUME IInv, JInv, NEW p \in Process, NEW c, c.pc \notin Copy \cup {"insert"},
         thread' = [thread EXCEPT ![p] = c],
         skipped' = skipped \cup Abandoned(p), missing' = missing \cup Owed(p),
         UNCHANGED <<counter, log, jobs>>
  PROVE  R!Next \/ UNCHANGED R!vars
<1>1. TypeOK /\ thread'[p] = c /\ \A q \in Process \ {p} : thread'[q] = thread[q]
  BY DEF IInv, TypeOK
<1>2. Entered' = Entered
  BY DEF Entered, Number
<1>3. CASE thread[p].pc = "insert"
  <2> PICK x : x = Number(thread[p])
    OBVIOUS
  <2>1. Owed(p) = {} /\ Owed(p)' = {}
    <3>1. DOMAIN Ahead = Copy /\ "insert" \notin Copy
      BY DEF Ahead, Copy
    <3> QED
      BY <1>1, <1>3, <3>1 DEF Owed
  <2>2. Promised' = Promised
    BY <1>1, <2>1, PromisedJobs DEF JInv
  <2>3. x \in Pending /\ Pending' = Pending \ {x}
    BY <1>1, <1>3, OpenNumbers
  <2>4. skipped' = skipped \cup {x}
    BY <1>3 DEF Abandoned, Number
  <2>5. R!Lose(x)
    BY <1>2, <2>1, <2>2, <2>3, <2>4 DEF R!Lose
  <2> QED
    BY <2>3, <2>5 DEF R!Next
<1>4. CASE thread[p].pc \in Copy
  <2> PICK x : x = Number(thread[p])
    OBVIOUS
  <2> PICK copies : copies = Ahead[thread[p].pc]
    OBVIOUS
  <2>1. Owed(p) = {x} \X copies
    BY <1>4, OwedOf
  <2>2. thread[p].pc \in copies /\ copies \in SUBSET Copy
    BY <1>4, AheadOf DEF Copy
  <2>3. Owed(p)' = {}
    <3>1. DOMAIN Ahead = Copy
      BY DEF Ahead, Copy
    <3> QED
      BY <1>1, <3>1 DEF Owed
  <2>4. Promised' = Promised \ ({x} \X copies) /\ {x} \X copies \subseteq Promised
    BY <1>1, <2>1, <2>3, PromisedJobs DEF JInv
  <2>5. Pending' = Pending
    BY <1>1, <1>4, OpenNumbers DEF Copy
  <2>6. skipped' = skipped
    BY <1>4 DEF Abandoned, Copy
  <2>7. R!Drop(x, copies)
    BY <1>2, <2>1, <2>4, <2>5, <2>6 DEF R!Drop
  <2>8. <<x, thread[p].pc>> \in Promised /\ <<x, thread[p].pc>>[1] = x
    BY <2>2, <2>4
  <2> QED
    BY <2>2, <2>7, <2>8 DEF R!Next
<1>5. CASE thread[p].pc \notin Copy \cup {"insert"}
  <2>1. Pending' = Pending /\ Promised' = Promised
    BY <1>1, <1>5, QuietRegister
  <2>2. Owed(p) = {} /\ Abandoned(p) = {}
    BY <1>5, OwedOf DEF Abandoned
  <2> QED
    BY <1>2, <2>1, <2>2 DEF R!vars
<1> QED
  BY <1>3, <1>4, <1>5

LEMMA RegisterInit == Init => R!Init
<1> SUFFICES ASSUME Init PROVE R!Init
  OBVIOUS
<1>1. \A p \in Process : thread[p].pc \notin Copy \cup {"insert"}
  BY DEF Init, Idle, Copy
<1>2. Pending = {}
  BY <1>1 DEF Pending
<1>3. Promised = {}
  BY <1>1, OwedOf DEF Promised
<1>4. Entered = <<>>
  BY DEF Init, Entered
<1> QED
  BY <1>2, <1>3, <1>4 DEF Init, R!Init

LEMMA RegisterNext == IInv /\ JInv /\ [Next]_vars => [R!Next]_R!vars
<1> SUFFICES ASSUME IInv, JInv, [Next]_vars PROVE R!Next \/ UNCHANGED R!vars
  OBVIOUS
<1>1. TypeOK /\ OwnRows
  BY DEF IInv, JInv
<1>2. ASSUME NEW p \in Process, NEW op, NEW s, thread[p] = Idle,
             thread' = [thread EXCEPT ![p] = NewCall(op, s)],
             UNCHANGED <<counter, log, skipped, jobs, missing>>
      PROVE  UNCHANGED R!vars
  <2>1. /\ thread[p].pc \notin Copy \cup {"insert"}
        /\ NewCall(op, s).pc \notin Copy \cup {"insert"}
    BY <1>2 DEF Idle, NewCall, Copy
  <2>2. Pending' = Pending /\ Promised' = Promised
    BY <1>1, <1>2, <2>1, QuietRegister
  <2>3. Entered' = Entered
    BY <1>2 DEF Entered, Number
  <2> QED
    BY <1>2, <2>2, <2>3 DEF R!vars
<1>3. ASSUME NEW p \in Process, NEW m \in Received, HandleMessage(p, m)
      PROVE  UNCHANGED R!vars
  BY <1>2, <1>3 DEF HandleMessage
<1>4. ASSUME NEW p \in Process, NEW t \in Request, SendSettled(p, t)
      PROVE  UNCHANGED R!vars
  <2>1. PICK s : thread' = [thread EXCEPT ![p] = NewCall(t, s)]
    BY <1>4 DEF SendSettled
  <2> QED
    BY <1>2, <1>4, <2>1 DEF SendSettled
<1>5. ASSUME NEW p \in Process, Begin(p) \/ Issue(p) PROVE UNCHANGED R!vars
  <2>1. /\ thread[p] \in Call /\ thread[p].pc \notin Copy \cup {"insert"}
        /\ \A q \in Process \ {p} : thread'[q] = thread[q]
        /\ UNCHANGED <<counter, log, skipped, jobs, missing>>
    BY <1>1, <1>5, ThreadType DEF Begin, Issue, Phase, Copy, TypeOK
  <2>2. thread'[p].pc \notin Copy \cup {"insert"}
    <3>1. CASE Begin(p)
      BY <1>1, <2>1, <3>1 DEF Begin, Copy, TypeOK, Call
    <3>2. CASE Issue(p)
      <4> PICK n : n = counter[thread[p].date] + 1
        OBVIOUS
      <4>1. thread'[p].pc = "commit"
        BY <1>1, <2>1, <3>2 DEF Issue, TypeOK, Call
      <4> QED
        BY <4>1 DEF Copy
    <3> QED
      BY <1>5, <3>1, <3>2
  <2>3. Pending' = Pending
    BY <2>1, <2>2, OpenNumbers
  <2>4. Owed(p) = {} /\ Owed(p)' = {}
    <3>1. DOMAIN Ahead = Copy
      BY DEF Ahead, Copy
    <3> QED
      BY <2>1, <2>2, <3>1 DEF Owed
  <2>5. Promised' = Promised
    BY <1>1, <2>1, <2>4, PromisedJobs
  <2>6. Entered' = Entered
    BY <2>1 DEF Entered, Number
  <2> QED
    BY <2>1, <2>3, <2>5, <2>6 DEF R!vars
<1>6. ASSUME NEW p \in Process, Commit(p) PROVE R!Next
  <2> PICK d : d = thread[p].date
    OBVIOUS
  <2> PICK n : n = thread[p].seq
    OBVIOUS
  <2>1. /\ thread[p] \in Call /\ thread[p].pc = "commit" /\ d \in Date
        /\ n = counter[d] + 1
        /\ UNCHANGED <<log, skipped, jobs, missing>>
        /\ counter' = [counter EXCEPT ![d] = n]
        /\ \A q \in Process \ {p} : thread'[q] = thread[q]
    BY <1>1, <1>6, ThreadType DEF Commit, Phase, Call, IInv, NextNumber, TypeOK
  <2>2. thread'[p].pc = "insert" /\ Number(thread'[p]) = <<d, n>>
    BY <1>1, <1>6, <2>1 DEF Commit, TypeOK, Call, Number
  <2>3. Pending' = Pending \cup {<<d, n>>}
    BY <2>1, <2>2, OpenNumbers
  <2>4. Owed(p) = {} /\ Owed(p)' = {}
    <3>1. DOMAIN Ahead = Copy /\ "insert" \notin Copy /\ "commit" \notin Copy
      BY DEF Ahead, Copy
    <3> QED
      BY <2>1, <2>2, <3>1 DEF Owed
  <2>5. Promised' = Promised
    BY <1>1, <2>1, <2>4, PromisedJobs
  <2>6. Entered' = Entered
    BY <2>1 DEF Entered, Number
  <2>7. R!GiveOut(d)
    BY <2>1, <2>3, <2>5, <2>6 DEF R!GiveOut
  <2> QED
    BY <2>1, <2>7 DEF R!Next
<1>7. ASSUME NEW p \in Process, InsertRow(p) PROVE R!Next
  <2> PICK x : x = Number(thread[p])
    OBVIOUS
  <2>1. /\ thread[p].pc = "insert" /\ thread'[p].pc = "txt" /\ Number(thread'[p]) = x
        /\ \A q \in Process \ {p} : thread'[q] = thread[q]
    BY <1>1, <1>7, InsertedRow
  <2>2. UNCHANGED <<counter, skipped, jobs, missing>>
    BY <1>7 DEF InsertRow
  <2>3. x \in Pending /\ Pending' = Pending \ {x}
    BY <2>1, OpenNumbers
  <2>4. Owed(p) = {} /\ Owed(p)' = {x} \X Copy
    <3>1. DOMAIN Ahead = Copy /\ Ahead["txt"] = Copy /\ "txt" \in Copy /\ "insert" \notin Copy
      BY DEF Ahead, Copy
    <3> QED
      BY <2>1, <3>1 DEF Owed, Number
  <2>5. Promised' = Promised \cup ({x} \X Copy)
    BY <1>1, <2>1, <2>4, PromisedJobs
  <2>6. Entered' = Append(Entered, x)
    BY <1>1, <1>7, RowAdded
  <2>7. R!Enter(x)
    BY <2>2, <2>3, <2>5, <2>6 DEF R!Enter
  <2> QED
    BY <2>3, <2>7 DEF R!Next
<1>8. ASSUME NEW p \in Process, Enqueue(p) \/ EnqueueFails(p) PROVE R!Next
  <2> PICK x : x = Number(thread[p])
    OBVIOUS
  <2> PICK k : k = thread[p].pc
    OBVIOUS
  <2> PICK D : D = {<<x, k>>}
    OBVIOUS
  <2>1. /\ k \in Copy /\ thread'[p].pc # "insert"
        /\ \A q \in Process \ {p} : thread'[q] = thread[q]
        /\ Owed(p) = Owed(p)' \cup D /\ Owed(p)' \cap D = {}
        /\ \/ jobs' = jobs \cup D /\ missing' = missing
           \/ jobs' = jobs /\ missing' = missing \cup D
        /\ log' = log
    BY <1>1, <1>8, Settled
  <2>2. UNCHANGED <<counter, skipped>>
    BY <1>8 DEF Enqueue, EnqueueFails
  <2>3. Pending' = Pending
    BY <2>1, OpenNumbers DEF Copy
  <2>4. D \subseteq Promised /\ Promised' = Promised \ D
    BY <1>1, <2>1, PromisedJobs
  <2>5. Entered' = Entered
    BY <2>1 DEF Entered, Number
  <2>6. <<x, k>> \in Promised /\ <<x, k>>[1] = x /\ D = {x} \X {k} /\ {k} \in SUBSET Copy
    BY <2>1, <2>4
  <2>7. CASE jobs' = jobs \cup D /\ missing' = missing
    <3>1. R!Write(<<x, k>>)
      BY <2>2, <2>3, <2>4, <2>5, <2>6, <2>7 DEF R!Write
    <3> QED
      BY <2>6, <3>1 DEF R!Next
  <2>8. CASE jobs' = jobs /\ missing' = missing \cup D
    <3>1. R!Drop(x, {k})
      BY <2>2, <2>3, <2>4, <2>5, <2>6, <2>8 DEF R!Drop
    <3> QED
      BY <2>6, <3>1 DEF R!Next
  <2> QED
    BY <2>1, <2>7, <2>8
<1>9. ASSUME NEW p \in Process, Throw(p) PROVE R!Next \/ UNCHANGED R!vars
  <2>1. thread[p] \in Call
    BY <1>1, <1>9, ThreadType DEF Throw
  <2>2. AfterThrow(thread[p]).pc \notin Copy \cup {"insert"}
    BY <1>1, <2>1, AfterThrowType DEF Copy
  <2> QED
    BY <1>9, <2>2, EndRegister DEF Throw
<1>10. ASSUME NEW p \in Process, Crash(p) PROVE R!Next \/ UNCHANGED R!vars
  <2>1. Idle.pc \notin Copy \cup {"insert"}
    BY DEF Idle, Copy
  <2> QED
    BY <1>10, <2>1, EndRegister DEF Crash
<1>11. ASSUME \/ \E p \in Process, t \in Request : Send(p, t)
              \/ \E d \in Date : SetClock(d)
              \/ UNCHANGED vars
       PROVE  UNCHANGED R!vars
  BY <1>11, SameRegister DEF Send, SetClock, vars
<1> QED
  BY <1>3, <1>4, <1>5, <1>6, <1>7, <1>8, <1>9, <1>10, <1>11 DEF Next, Step

\* recordLog implements a register: a number is given out once and after its
\* predecessor, it ends in one row or is lost for good, no row is taken away, and
\* each job of a row is written or missing for good, whatever the interleaving of
\* the processes, the errors and the crashes.
THEOREM ImplementsTheRegister == Spec => ImplementsRegister
<1>1. Init => R!Init
  BY RegisterInit
<1>2. IInv /\ JInv /\ [Next]_vars => [R!Next]_R!vars
  BY RegisterNext
<1> QED
  BY <1>1, <1>2, InitInv, NextInv, InitJobs, NextJobs, PTL
  DEF Spec, ImplementsRegister, R!Spec
=============================================================================
