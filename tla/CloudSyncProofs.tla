--------------------------- MODULE CloudSyncProofs ---------------------------
(***************************************************************************)
(* Theorems about CloudSync, for all sets of records and sites and any     *)
(* number of mishaps of every kind.                                        *)
(***************************************************************************)
EXTENDS CloudSync, SequenceTheorems, TLAPS

\* A record nobody has enqueued has left no trace.
FreshIsUntouched ==
  \A r \in Record \ logged :
    job[r] = NoJob /\ cloud[r] = NoRow /\ \A q \in requests : q.rec # r

\* An answer belongs to an attempt that waits for it, the only one of its
\* record; a success was one.
AnswersAreDue ==
  /\ \A a \in answers :
       /\ <<a.rec, a.attempt>> \in awaiting
       /\ a.ok => a.rec \in InCloud
  /\ \A a, b \in answers : a.rec = b.rec => a = b

SyncedIsInCloud == Synced \subseteq InCloud

\* What the invariant of the offline records needs of the requests.
NoOfflineRequest == \A q \in requests : q.rec \notin offline

IInv ==
  /\ TypeOK
  /\ FreshIsUntouched
  /\ OneAttemptAtATime
  /\ SyncingIsExplained
  /\ AnswersAreDue
  /\ SyncedIsInCloud
  /\ OfflineStaysHere
  /\ NoOfflineRequest

-----------------------------------------------------------------------------

\* NoJob is no row of the table.
LEMMA JobTypes ==
  ASSUME TypeOK, NEW r \in Record
  PROVE  /\ job[r] \in JobRow \/ job[r] = NoJob
         /\ job[r] \in JobRow => job[r] # NoJob /\ job[r].attempts \in Nat
         /\ job[r] = NoJob => job[r].status \notin {"SYNCING", "SYNCED", "FAILED"}
         /\ NextAttempt(r) \in Nat
<1>1. job[r] \in JobRow \/ job[r] = NoJob
  BY DEF TypeOK
<1>2. job[r] \in JobRow => job[r] # NoJob /\ job[r].attempts \in Nat
  BY DEF JobRow, NoJob
<1>3. job[r] = NoJob => job[r].status \notin {"SYNCING", "SYNCED", "FAILED"}
  BY DEF NoJob
<1> QED
  BY <1>1, <1>2, <1>3 DEF NextAttempt

\* What the synchronous part of an attempt does to the variables.
LEMMA AttemptTypes ==
  ASSUME TypeOK, NEW r \in Record, Attempt(r)
  PROVE  /\ job' \in [Record -> JobRow \cup {NoJob}]
         /\ job'[r].status = "SYNCING" /\ job'[r].attempts = NextAttempt(r)
         /\ job'[r] # NoJob
         /\ \A s \in Record : s # r => job'[s] = job[s]
         /\ awaiting' = awaiting \cup {<<r, NextAttempt(r)>>}
         /\ awaiting' \subseteq Record \X Nat
         /\ requests' \subseteq Request
         /\ \A q \in requests' : q \in requests \/ q.rec = r
         /\ sent' \in [Record -> Seq(Site)]
<1> DEFINE n == NextAttempt(r)
           e == [status |-> "SYNCING", attempts |-> n, due |-> FALSE]
           q0 == [rec |-> r, attempt |-> n, site |-> profile.site]
<1>1. n \in Nat
  BY JobTypes
<1>2. profile.site \in Site
  BY DEF TypeOK, Profile
<1>3. e \in JobRow /\ q0 \in Request /\ q0.rec = r
  BY <1>1, <1>2 DEF JobRow, Request
<1>4. /\ job' = [job EXCEPT ![r] = e]
      /\ awaiting' = awaiting \cup {<<r, n>>}
      /\ requests' = requests \cup {q0}
      /\ sent' = [sent EXCEPT ![r] = Append(@, profile.site)]
  BY DEF Attempt, Syncing
<1>5. e.status = "SYNCING" /\ e.attempts = n /\ e # NoJob
  BY DEF NoJob
<1> HIDE DEF e, q0, n
<1>6. sent' \in [Record -> Seq(Site)]
  <2>1. sent[r] \in Seq(Site)
    BY DEF TypeOK
  <2>2. Append(sent[r], profile.site) \in Seq(Site)
    BY <1>2, <2>1, AppendProperties
  <2> QED
    BY <1>4, <2>2 DEF TypeOK
<1>7. /\ job' \in [Record -> JobRow \cup {NoJob}]
      /\ job'[r] = e
      /\ \A s \in Record : s # r => job'[s] = job[s]
  BY <1>3, <1>4 DEF TypeOK
<1>8. awaiting' \subseteq Record \X Nat /\ requests' \subseteq Request
  BY <1>1, <1>3, <1>4 DEF TypeOK
<1>9. \A q \in requests' : q \in requests \/ q.rec = r
  BY <1>3, <1>4
<1> QED
  BY <1>4, <1>5, <1>6, <1>7, <1>8, <1>9 DEF n

\* An attempt of a record that has none under way keeps the invariant.
LEMMA AttemptInv ==
  ASSUME IInv, NEW r \in Record, Attempt(r),
         job[r].status # "SYNCING", r \notin offline', r \in logged',
         logged \subseteq logged', logged' \subseteq Record,
         offline' \subseteq offline \cup (logged' \ logged), offline' \subseteq logged',
         logged' \subseteq logged \cup {r},
         UNCHANGED <<profile, answers, cloud, lost, used>>
  PROVE  IInv'
<1> USE DEF IInv
<1>1. /\ job' \in [Record -> JobRow \cup {NoJob}]
      /\ job'[r].status = "SYNCING" /\ job'[r].attempts = NextAttempt(r)
      /\ \A s \in Record : s # r => job'[s] = job[s]
      /\ awaiting' = awaiting \cup {<<r, NextAttempt(r)>>}
      /\ awaiting' \subseteq Record \X Nat
      /\ requests' \subseteq Request
      /\ \A q \in requests' : q \in requests \/ q.rec = r
      /\ sent' \in [Record -> Seq(Site)]
  BY AttemptTypes
<1>2. \A x \in awaiting : x \in Record \X Nat /\ x[1] # r
  BY DEF OneAttemptAtATime, TypeOK
<1>3. TypeOK'
  BY <1>1 DEF TypeOK
<1>4. offline' \subseteq offline
  OBVIOUS
<1>5. FreshIsUntouched'
  BY <1>1, SMTT(30) DEF FreshIsUntouched
<1>6. OneAttemptAtATime'
  <2> SUFFICES ASSUME NEW x \in awaiting'
               PROVE  job'[x[1]].status = "SYNCING" /\ job'[x[1]].attempts = x[2]
    BY DEF OneAttemptAtATime
  <2>1. CASE x \in awaiting
    BY <1>1, <1>2, <2>1 DEF OneAttemptAtATime
  <2>2. CASE x = <<r, NextAttempt(r)>>
    BY <1>1, <2>2
  <2> QED
    BY <1>1, <2>1, <2>2
<1>7. SyncingIsExplained'
  BY <1>1 DEF SyncingIsExplained
<1>8. AnswersAreDue'
  BY <1>1 DEF AnswersAreDue, InCloud
<1>9. SyncedIsInCloud'
  BY <1>1 DEF SyncedIsInCloud, Synced, InCloud
<1>10. OfflineStaysHere' /\ NoOfflineRequest'
  <2>1. \A s \in offline' : s \in Record /\ s # r
    BY DEF TypeOK
  <2> QED
    BY <1>1, <1>4, <2>1 DEF OfflineStaysHere, NoOfflineRequest, TypeOK
<1> QED
  BY <1>3, <1>5, <1>6, <1>7, <1>8, <1>9, <1>10

LEMMA InitInv == Init => IInv
<1> SUFFICES ASSUME Init PROVE IInv
  OBVIOUS
<1>1. \A r \in Record : job[r] = NoJob /\ cloud[r] = NoRow /\ sent[r] = <<>>
  BY DEF Init
<1>2. TypeOK
  BY DEF Init, TypeOK
<1>3. NoJob.status \notin {"SYNCING", "SYNCED", "FAILED"}
  BY DEF NoJob
<1>4. FreshIsUntouched /\ OneAttemptAtATime /\ AnswersAreDue
  BY <1>1 DEF Init, FreshIsUntouched, OneAttemptAtATime, AnswersAreDue
<1>5. SyncingIsExplained /\ SyncedIsInCloud
  BY <1>1, <1>3 DEF SyncingIsExplained, SyncedIsInCloud, Synced
<1>6. OfflineStaysHere /\ NoOfflineRequest
  BY DEF Init, OfflineStaysHere, NoOfflineRequest
<1> QED
  BY <1>2, <1>4, <1>5, <1>6 DEF IInv

\* Without the synchronisation a record is logged and nothing else happens.
LEMMA EnqueueInv == \A r \in Record : IInv /\ EnqueueForRecord(r) => IInv'
<1> SUFFICES ASSUME NEW r \in Record, IInv, EnqueueForRecord(r) PROVE IInv'
  OBVIOUS
<1> USE DEF IInv
<1>1. /\ r \notin logged /\ logged' = logged \cup {r}
      /\ offline' = IF profile.enabled THEN offline ELSE offline \cup {r}
      /\ UNCHANGED <<profile, answers, cloud, lost, used>>
  BY DEF EnqueueForRecord
<1>2. job[r] = NoJob /\ cloud[r] = NoRow /\ \A q \in requests : q.rec # r
  BY <1>1 DEF FreshIsUntouched
<1>3. CASE profile.enabled
  <2>1. Attempt(r)
    BY <1>3 DEF EnqueueForRecord, SwitchedOn
  <2>2. job[r].status # "SYNCING"
    BY <1>2, JobTypes
  <2>3. r \notin offline' /\ offline' = offline /\ logged' \subseteq Record
    BY <1>1, <1>3 DEF TypeOK
  <2> QED
    BY <1>1, <2>1, <2>2, <2>3, AttemptInv DEF TypeOK
<1>4. CASE ~profile.enabled
  <2>1. offline' = offline \cup {r} /\ UNCHANGED <<job, awaiting, requests, sent>>
    BY <1>1, <1>4 DEF EnqueueForRecord, SwitchedOn
  <2>2. TypeOK'
    BY <1>1, <2>1 DEF TypeOK
  <2>3. FreshIsUntouched'
    BY <1>1, <2>1 DEF FreshIsUntouched
  <2>4. (OneAttemptAtATime /\ SyncingIsExplained)'
    BY <1>1, <2>1 DEF OneAttemptAtATime, SyncingIsExplained
  <2>5. (AnswersAreDue /\ SyncedIsInCloud)'
    BY <1>1, <2>1 DEF AnswersAreDue, SyncedIsInCloud, Synced, InCloud
  <2>6. (OfflineStaysHere /\ NoOfflineRequest)'
    BY <1>1, <1>2, <2>1 DEF OfflineStaysHere, NoOfflineRequest
  <2> QED
    BY <2>2, <2>3, <2>4, <2>5, <2>6
<1> QED
  BY <1>3, <1>4

LEMMA RetryInv == \A r \in Record : IInv /\ ProcessDueRetry(r) => IInv'
<1> SUFFICES ASSUME NEW r \in Record, IInv, ProcessDueRetry(r) PROVE IInv'
  OBVIOUS
<1> USE DEF IInv
<1>1. /\ job[r].status = "FAILED" /\ Attempt(r)
      /\ UNCHANGED <<profile, logged, answers, cloud, offline, lost, used>>
  BY DEF ProcessDueRetry, IsDue
<1>2. job[r] # NoJob
  BY <1>1, JobTypes
<1>3. r \in logged /\ r \notin offline
  BY <1>2 DEF FreshIsUntouched, OfflineStaysHere
<1> QED
  BY <1>1, <1>3, AttemptInv DEF TypeOK

\* What changes a job without its status or number: the retry delay.
LEMMA DelayInv == \A r \in Record : IInv /\ RetryDelayPasses(r) => IInv'
<1> SUFFICES ASSUME NEW r \in Record, IInv, RetryDelayPasses(r) PROVE IInv'
  OBVIOUS
<1> USE DEF IInv
<1>1. /\ job[r].status = "FAILED" /\ job' = [job EXCEPT ![r].due = TRUE]
      /\ UNCHANGED <<profile, logged, awaiting, requests, answers, cloud, sent, offline, lost, used>>
  BY DEF RetryDelayPasses
<1>2. job[r] \in JobRow /\ job[r] # NoJob
  BY <1>1, JobTypes
<1>3. /\ job' \in [Record -> JobRow \cup {NoJob}]
      /\ job'[r].status = "FAILED"
      /\ \A s \in Record : s # r => job'[s] = job[s]
  BY <1>1, <1>2 DEF TypeOK, JobRow
<1>4. r \in logged /\ r \notin offline
  BY <1>2 DEF FreshIsUntouched, OfflineStaysHere
<1>5. \A x \in awaiting : x[1] \in Record /\ x[1] # r
  BY <1>1 DEF OneAttemptAtATime, TypeOK
<1>6. TypeOK'
  BY <1>1, <1>3 DEF TypeOK
<1>7. FreshIsUntouched' /\ OneAttemptAtATime' /\ SyncingIsExplained'
  BY <1>1, <1>3, <1>4, <1>5 DEF FreshIsUntouched, OneAttemptAtATime, SyncingIsExplained
<1>8. AnswersAreDue'
  BY <1>1 DEF AnswersAreDue, InCloud
<1>9. SyncedIsInCloud'
  BY <1>1, <1>3 DEF SyncedIsInCloud, Synced, InCloud
<1>10. OfflineStaysHere' /\ NoOfflineRequest'
  BY <1>1, <1>3, <1>4 DEF OfflineStaysHere, NoOfflineRequest, TypeOK
<1> QED
  BY <1>6, <1>7, <1>8, <1>9, <1>10

LEMMA EnqueueFaultsInv == \A r \in Record : IInv /\ EnqueueFaults(r) => IInv'
<1> SUFFICES ASSUME NEW r \in Record, IInv, EnqueueFaults(r) PROVE IInv'
  OBVIOUS
<1> USE DEF IInv
<1>1. /\ logged' = logged \cup {r} /\ lost' = lost \cup {r} /\ used' = used + 1
      /\ UNCHANGED <<profile, job, awaiting, requests, answers, cloud, sent, offline>>
  BY DEF EnqueueFaults, Spend
<1>2. TypeOK'
  BY <1>1 DEF TypeOK
<1>3. FreshIsUntouched' /\ OneAttemptAtATime' /\ SyncingIsExplained'
  BY <1>1 DEF FreshIsUntouched, OneAttemptAtATime, SyncingIsExplained
<1>4. AnswersAreDue' /\ SyncedIsInCloud' /\ OfflineStaysHere' /\ NoOfflineRequest'
  BY <1>1 DEF AnswersAreDue, SyncedIsInCloud, Synced, InCloud, OfflineStaysHere, NoOfflineRequest
<1> QED
  BY <1>2, <1>3, <1>4

\* A step of the network or the cloud: the jobs and the attempts stay, the cloud
\* has no fewer records, and the answers stay in order.
LEMMA NetworkInv ==
  ASSUME IInv, TypeOK', AnswersAreDue',
         UNCHANGED <<logged, job, awaiting, sent, offline, lost>>,
         requests' \subseteq requests,
         \A s \in Record : cloud[s] # NoRow => cloud'[s] # NoRow,
         \A s \in Record : cloud'[s] # cloud[s] => \E q \in requests : q.rec = s
  PROVE  IInv'
<1> USE DEF IInv
<1>1. \A s \in Record : s \notin logged \/ s \in offline => cloud'[s] = cloud[s]
  BY DEF FreshIsUntouched, NoOfflineRequest
<1>2. FreshIsUntouched'
  BY <1>1 DEF FreshIsUntouched
<1>3. OneAttemptAtATime' /\ SyncingIsExplained'
  BY DEF OneAttemptAtATime, SyncingIsExplained
<1>4. SyncedIsInCloud'
  BY DEF SyncedIsInCloud, Synced, InCloud
<1>5. \A s \in offline : s \in Record
  BY DEF TypeOK
<1>6. OfflineStaysHere' /\ NoOfflineRequest'
  BY <1>1, <1>5 DEF OfflineStaysHere, NoOfflineRequest
<1> QED
  BY <1>2, <1>3, <1>4, <1>6

\* A reply keeps the answers in order; a success needs the row.
LEMMA ReplyInv ==
  ASSUME IInv, NEW q \in requests, NEW ok \in BOOLEAN, Reply(q, ok),
         UNCHANGED <<awaiting>>,
         InCloud \subseteq InCloud', ok => q.rec \in InCloud'
  PROVE  answers' \subseteq Answer /\ AnswersAreDue'
<1> USE DEF IInv
<1> DEFINE b == [rec |-> q.rec, attempt |-> q.attempt, ok |-> ok]
<1>1. q.rec \in Record /\ q.attempt \in Nat
  BY DEF TypeOK, Request
<1>2. b \in Answer /\ b.rec = q.rec /\ b.attempt = q.attempt /\ b.ok = ok
  BY <1>1 DEF Answer
<1>3. answers' = IF Awaited(q) /\ ~Answered(q.rec, q.attempt) THEN answers \cup {b} ELSE answers
  BY DEF Reply
<1> HIDE DEF b
<1>4. answers' \subseteq Answer
  BY <1>2, <1>3 DEF TypeOK
<1>5. CASE answers' = answers
  BY <1>4, <1>5 DEF AnswersAreDue
<1>6. CASE Awaited(q) /\ ~Answered(q.rec, q.attempt)
  <2>1. answers' = answers \cup {b} /\ <<b.rec, b.attempt>> \in awaiting
    BY <1>2, <1>3, <1>6 DEF Awaited
  <2>2. \A x, y \in awaiting : x[1] = y[1] => x[2] = y[2]
    BY DEF OneAttemptAtATime
  <2>3. \A a \in answers : a.rec # b.rec
    <3> SUFFICES ASSUME NEW a \in answers, a.rec = b.rec PROVE FALSE
      OBVIOUS
    <3>1. <<a.rec, a.attempt>> \in awaiting
      BY DEF AnswersAreDue
    <3>2. a.attempt = b.attempt
      BY <2>1, <2>2, <3>1
    <3> QED
      BY <1>2, <1>6, <3>2 DEF Answered
  <2> QED
    BY <1>2, <1>4, <2>1, <2>3 DEF AnswersAreDue
<1> QED
  BY <1>3, <1>4, <1>5, <1>6

LEMMA IngestInv == \A q \in requests : IInv /\ Ingest(q) => IInv'
<1> SUFFICES ASSUME NEW q \in requests, IInv, Ingest(q) PROVE IInv'
  OBVIOUS
<1> USE DEF IInv
<1>1. /\ requests' = requests \ {q}
      /\ cloud' = [cloud EXCEPT ![q.rec] = [in |-> TRUE, site |-> q.site]]
      /\ Reply(q, TRUE)
      /\ UNCHANGED <<profile, logged, job, awaiting, sent, offline, lost, used>>
  BY DEF Ingest
<1>2. q.rec \in Record /\ q.site \in Site
  BY DEF TypeOK, Request
<1>3. [in |-> TRUE, site |-> q.site] \in Row /\ [in |-> TRUE, site |-> q.site] # NoRow
  BY <1>2 DEF Row, NoRow
<1>4. /\ cloud' \in [Record -> Row \cup {NoRow}]
      /\ cloud'[q.rec] # NoRow
      /\ \A s \in Record : s # q.rec => cloud'[s] = cloud[s]
  BY <1>1, <1>2, <1>3 DEF TypeOK
<1>5. InCloud \subseteq InCloud' /\ q.rec \in InCloud'
  BY <1>2, <1>4 DEF InCloud
<1>6. answers' \subseteq Answer /\ AnswersAreDue'
  BY <1>1, <1>5, ReplyInv
<1>7. TypeOK'
  BY <1>1, <1>4, <1>6 DEF TypeOK
<1> QED
  BY <1>1, <1>4, <1>6, <1>7, NetworkInv

LEMMA RefuseInv == \A q \in requests : IInv /\ Refuse(q) => IInv'
<1> SUFFICES ASSUME NEW q \in requests, IInv, Refuse(q) PROVE IInv'
  OBVIOUS
<1> USE DEF IInv
<1>1. /\ requests' = requests \ {q} /\ Reply(q, FALSE) /\ used' = used + 1
      /\ UNCHANGED <<profile, logged, job, awaiting, cloud, sent, offline, lost>>
  BY DEF Refuse, Spend
<1>2. InCloud \subseteq InCloud'
  BY <1>1 DEF InCloud
<1>3. answers' \subseteq Answer /\ AnswersAreDue'
  BY <1>1, <1>2, ReplyInv
<1>4. TypeOK'
  BY <1>1, <1>3 DEF TypeOK
<1> QED
  BY <1>1, <1>3, <1>4, NetworkInv

LEMMA FetchRejectsInv == \A x \in awaiting : IInv /\ FetchRejects(x[1], x[2]) => IInv'
<1> SUFFICES ASSUME NEW x \in awaiting, IInv, FetchRejects(x[1], x[2]) PROVE IInv'
  OBVIOUS
<1> USE DEF IInv
<1> DEFINE b == [rec |-> x[1], attempt |-> x[2], ok |-> FALSE]
<1>1. /\ ~Answered(x[1], x[2]) /\ used' = used + 1
      /\ answers' = answers \cup {b}
      /\ UNCHANGED <<profile, logged, job, awaiting, requests, cloud, sent, offline, lost>>
  BY DEF FetchRejects, Spend
<1>2. x[1] \in Record /\ x[2] \in Nat /\ x = <<x[1], x[2]>>
  BY DEF TypeOK
<1>3. b \in Answer /\ b.rec = x[1] /\ b.attempt = x[2] /\ ~b.ok
  BY <1>2 DEF Answer
<1> HIDE DEF b
<1>4. TypeOK'
  BY <1>1, <1>3 DEF TypeOK
<1>5. \A y, z \in awaiting : y[1] = z[1] => y[2] = z[2]
  BY DEF OneAttemptAtATime
<1>6. \A a \in answers : a.rec # b.rec
  <2> SUFFICES ASSUME NEW a \in answers, a.rec = b.rec PROVE FALSE
    OBVIOUS
  <2>1. <<a.rec, a.attempt>> \in awaiting
    BY DEF AnswersAreDue
  <2>2. a.attempt = b.attempt
    BY <1>3, <1>5, <2>1
  <2> QED
    BY <1>1, <1>3, <2>2 DEF Answered
<1>7. AnswersAreDue'
  BY <1>1, <1>2, <1>3, <1>6 DEF AnswersAreDue, InCloud
<1> QED
  BY <1>1, <1>4, <1>7, NetworkInv

LEMMA AnswerIsLostInv == \A a \in answers : IInv /\ AnswerIsLost(a) => IInv'
<1> SUFFICES ASSUME NEW a \in answers, IInv, AnswerIsLost(a) PROVE IInv'
  OBVIOUS
<1> USE DEF IInv
<1> DEFINE b == [a EXCEPT !.ok = FALSE]
<1>1. /\ answers' = (answers \ {a}) \cup {b} /\ used' = used + 1
      /\ UNCHANGED <<profile, logged, job, awaiting, requests, cloud, sent, offline, lost>>
  BY DEF AnswerIsLost, Spend
<1>2. b \in Answer /\ b.rec = a.rec /\ b.attempt = a.attempt /\ ~b.ok
  BY DEF TypeOK, Answer
<1> HIDE DEF b
<1>3. TypeOK'
  BY <1>1, <1>2 DEF TypeOK
<1>4. AnswersAreDue'
  BY <1>1, <1>2 DEF AnswersAreDue, InCloud
<1> QED
  BY <1>1, <1>3, <1>4, NetworkInv

-----------------------------------------------------------------------------

\* The end of an attempt frees the record for another one.
LEMMA SettledInv ==
  ASSUME IInv, NEW a \in answers, GoesOn(a),
         NEW status \in {"SYNCED", "FAILED"}, status = "SYNCED" => a.ok,
         Stored(a.rec, status), used' \in Nat,
         UNCHANGED <<profile, logged, requests, cloud, sent, offline, lost>>
  PROVE  IInv'
<1> USE DEF IInv
<1> DEFINE r == a.rec
<1>1. a \in Answer /\ r \in Record
  BY DEF TypeOK, Answer
<1>2. /\ answers' = answers \ {a} /\ awaiting' = awaiting \ {<<r, a.attempt>>}
      /\ <<r, a.attempt>> \in awaiting
  BY DEF GoesOn, AnswersAreDue
<1> HIDE DEF r
<1>3. job[r].status = "SYNCING" /\ job[r].attempts = a.attempt
  BY <1>2 DEF OneAttemptAtATime
<1>4. job[r] \in JobRow /\ job[r] # NoJob
  BY <1>1, <1>3, JobTypes
<1>5. job' = [job EXCEPT ![r].status = status, ![r].due = FALSE]
  BY DEF Stored, r
<1>6. job'[r] = [[job[r] EXCEPT !.status = status] EXCEPT !.due = FALSE]
  BY <1>1, <1>5 DEF TypeOK
<1>7. /\ job'[r] \in JobRow /\ job'[r].status = status
      /\ \A s \in Record : s # r => job'[s] = job[s]
      /\ job' \in [Record -> JobRow \cup {NoJob}]
  <2>1. job'[r] \in JobRow /\ job'[r].status = status
    BY <1>4, <1>6 DEF JobRow
  <2>2. \A s \in Record : s # r => job'[s] = job[s]
    BY <1>5 DEF TypeOK
  <2>3. job' = [s \in Record |-> job'[s]]
    BY <1>5 DEF TypeOK
  <2> QED
    BY <2>1, <2>2, <2>3 DEF TypeOK
<1>8. r \in logged /\ r \notin offline
  BY <1>1, <1>4 DEF FreshIsUntouched, OfflineStaysHere
<1>9. \A x \in awaiting' : x \in awaiting /\ x[1] \in Record /\ x[1] # r
  BY <1>2, <1>3 DEF OneAttemptAtATime, TypeOK
<1>10. TypeOK'
  BY <1>2, <1>7 DEF TypeOK
<1>11. FreshIsUntouched' /\ OneAttemptAtATime'
  BY <1>7, <1>8, <1>9 DEF FreshIsUntouched, OneAttemptAtATime
<1>12. SyncingIsExplained'
  BY <1>2, <1>7 DEF SyncingIsExplained
<1>13. AnswersAreDue'
  <2>1. \A b \in answers' : b \in answers /\ b.rec # r
    BY <1>2 DEF AnswersAreDue, r
  <2> QED
    BY <1>2, <2>1 DEF AnswersAreDue, InCloud
<1>14. SyncedIsInCloud'
  <2>1. status = "SYNCED" => r \in InCloud
    BY DEF AnswersAreDue, r
  <2> QED
    BY <1>7, <2>1 DEF SyncedIsInCloud, Synced, InCloud
<1>15. OfflineStaysHere' /\ NoOfflineRequest'
  BY <1>7, <1>8 DEF OfflineStaysHere, NoOfflineRequest, TypeOK
<1> QED
  BY <1>10, <1>11, <1>12, <1>13, <1>14, <1>15

LEMMA SettleInv ==
  \A a \in answers : IInv /\ (Settle(a) \/ SyncedFaults(a)) => IInv'
<1> SUFFICES ASSUME NEW a \in answers, IInv, Settle(a) \/ SyncedFaults(a) PROVE IInv'
  OBVIOUS
<1>1. used \in Nat
  BY DEF IInv, TypeOK
<1>2. CASE Settle(a)
  BY <1>1, <1>2, SettledInv DEF Settle, Outcome
<1>3. CASE SyncedFaults(a)
  BY <1>1, <1>3, SettledInv DEF SyncedFaults, Spend
<1> QED
  BY <1>2, <1>3

LEMMA FailedFaultsInv == \A a \in answers : IInv /\ FailedFaults(a) => IInv'
<1> SUFFICES ASSUME NEW a \in answers, IInv, FailedFaults(a) PROVE IInv'
  OBVIOUS
<1> USE DEF IInv
<1>1. a.rec \in Record /\ <<a.rec, a.attempt>> \in awaiting
  BY DEF TypeOK, Answer, AnswersAreDue
<1>2. /\ answers' = answers \ {a} /\ awaiting' = awaiting \ {<<a.rec, a.attempt>>}
      /\ lost' = lost \cup {a.rec} /\ used' = used + 1
      /\ UNCHANGED <<profile, logged, job, requests, cloud, sent, offline>>
  BY DEF FailedFaults, GoesOn, Spend
<1>3. a.rec \in logged
  <2>1. job[a.rec].status = "SYNCING"
    BY <1>1 DEF OneAttemptAtATime
  <2> QED
    BY <1>1, <2>1, JobTypes DEF FreshIsUntouched
<1>4. TypeOK'
  BY <1>2, <1>3 DEF TypeOK
<1>5. FreshIsUntouched' /\ OneAttemptAtATime'
  BY <1>2 DEF FreshIsUntouched, OneAttemptAtATime
<1>6. SyncingIsExplained'
  BY <1>2 DEF SyncingIsExplained
<1>7. AnswersAreDue'
  <2>1. \A b \in answers' : b \in answers /\ b.rec # a.rec
    BY <1>2 DEF AnswersAreDue
  <2> QED
    BY <1>2, <2>1 DEF AnswersAreDue, InCloud
<1>8. SyncedIsInCloud' /\ OfflineStaysHere' /\ NoOfflineRequest'
  BY <1>2 DEF SyncedIsInCloud, Synced, InCloud, OfflineStaysHere, NoOfflineRequest
<1> QED
  BY <1>4, <1>5, <1>6, <1>7, <1>8

LEMMA CrashInv == IInv /\ Crash => IInv'
<1> SUFFICES ASSUME IInv, Crash PROVE IInv'
  OBVIOUS
<1> USE DEF IInv
<1>1. /\ awaiting' = {} /\ answers' = {} /\ used' = used + 1
      /\ lost' = lost \cup {r \in Record : job[r].status = "SYNCING"}
      /\ UNCHANGED <<profile, logged, job, requests, cloud, sent, offline>>
  BY DEF Crash, Spend
<1>2. {r \in Record : job[r].status = "SYNCING"} \subseteq logged
  BY JobTypes DEF FreshIsUntouched
<1>3. TypeOK'
  BY <1>1, <1>2 DEF TypeOK
<1>4. FreshIsUntouched' /\ OneAttemptAtATime' /\ AnswersAreDue'
  BY <1>1 DEF FreshIsUntouched, OneAttemptAtATime, AnswersAreDue
<1>5. SyncingIsExplained'
  BY <1>1 DEF SyncingIsExplained
<1>6. SyncedIsInCloud' /\ OfflineStaysHere' /\ NoOfflineRequest'
  BY <1>1 DEF SyncedIsInCloud, Synced, InCloud, OfflineStaysHere, NoOfflineRequest
<1> QED
  BY <1>3, <1>4, <1>5, <1>6

LEMMA SaveInv == IInv /\ SaveConnectionProfile => IInv'
<1> SUFFICES ASSUME IInv, SaveConnectionProfile PROVE IInv'
  OBVIOUS
<1> USE DEF IInv
<1>1. /\ profile' \in Profile /\ used' = used + 1
      /\ UNCHANGED <<logged, job, awaiting, requests, answers, cloud, sent, offline, lost>>
  BY DEF SaveConnectionProfile, Spend
<1>2. TypeOK'
  BY <1>1 DEF TypeOK
<1>3. AnswersAreDue'
  BY <1>1 DEF AnswersAreDue, InCloud
<1> QED
  BY <1>1, <1>2, <1>3, NetworkInv

-----------------------------------------------------------------------------

LEMMA NextInv == IInv /\ [Next]_vars => IInv'
<1> SUFFICES ASSUME IInv, [Next]_vars PROVE IInv'
  OBVIOUS
<1>1. CASE \E r \in Record : EnqueueForRecord(r)
  BY <1>1, EnqueueInv
<1>2. CASE \E r \in Record : EnqueueFaults(r)
  BY <1>2, EnqueueFaultsInv
<1>3. CASE \E r \in Record : ProcessDueRetry(r)
  BY <1>3, RetryInv
<1>4. CASE \E r \in Record : RetryDelayPasses(r)
  BY <1>4, DelayInv
<1>5. CASE \E q \in requests : Ingest(q)
  BY <1>5, IngestInv
<1>6. CASE \E q \in requests : Refuse(q)
  BY <1>6, RefuseInv
<1>7. CASE \E x \in awaiting : FetchRejects(x[1], x[2])
  BY <1>7, FetchRejectsInv
<1>8. CASE \E a \in answers : AnswerIsLost(a)
  BY <1>8, AnswerIsLostInv
<1>9. CASE \E a \in answers : Settle(a) \/ SyncedFaults(a)
  BY <1>9, SettleInv
<1>10. CASE \E a \in answers : FailedFaults(a)
  BY <1>10, FailedFaultsInv
<1>11. CASE SaveConnectionProfile
  BY <1>11, SaveInv
<1>12. CASE Crash
  BY <1>12, CrashInv
<1>13. CASE UNCHANGED vars
  BY <1>13 DEF vars, IInv, TypeOK, FreshIsUntouched, OneAttemptAtATime, SyncingIsExplained,
     AnswersAreDue, SyncedIsInCloud, Synced, InCloud, OfflineStaysHere, NoOfflineRequest
<1> QED
  BY <1>1, <1>2, <1>3, <1>4, <1>5, <1>6, <1>7, <1>8, <1>9, <1>10, <1>11, <1>12, <1>13 DEF Next

LEMMA Invariance == Spec => []IInv
<1> QED
  BY InitInv, NextInv, PTL DEF Spec

\* Every variable holds what the code can put there; PENDING is never stored.
THEOREM TypeCorrect == Spec => []TypeOK
<1>1. IInv => TypeOK
  BY DEF IInv
<1> QED
  BY <1>1, Invariance, PTL

\* The outcome of an attempt is stored into the job it belongs to.
THEOREM OneAttempt == Spec => []OneAttemptAtATime
<1>1. IInv => OneAttemptAtATime
  BY DEF IInv
<1> QED
  BY <1>1, Invariance, PTL

\* Only a crash or an error of the database leaves a job SYNCING for ever.
THEOREM StuckIsExplained == Spec => []SyncingIsExplained
<1>1. IInv => SyncingIsExplained
  BY DEF IInv
<1> QED
  BY <1>1, Invariance, PTL

\* Jobs and attempts agree in both directions.
THEOREM AttemptsMatch == Spec => []AttemptMatchesJob
  BY OneAttempt, StuckIsExplained, PTL DEF AttemptMatchesJob

\* A record logged while the synchronisation is off stays here.
THEOREM OfflineStays == Spec => []OfflineStaysHere
<1>1. IInv => OfflineStaysHere
  BY DEF IInv
<1> QED
  BY <1>1, Invariance, PTL

-----------------------------------------------------------------------------
(* The refinement: every step copies a record, learns that one is copied,  *)
(* or is none of the mirror's.                                             *)

LEMMA InitRefines == Init => M!Init
<1> SUFFICES ASSUME Init PROVE M!Init
  OBVIOUS
<1>1. \A r \in Record : job[r] = NoJob /\ cloud[r] = NoRow
  BY DEF Init
<1>2. NoJob.status # "SYNCED"
  BY DEF NoJob
<1> QED
  BY <1>1, <1>2 DEF M!Init, InCloud, Synced

\* A new attempt of a record that is not SYNCED changes nothing of the mirror.
LEMMA AttemptStutters ==
  ASSUME TypeOK, NEW r \in Record, Attempt(r), r \notin Synced, UNCHANGED cloud
  PROVE  UNCHANGED <<InCloud, Synced>>
<1>1. job'[r].status = "SYNCING" /\ \A s \in Record : s # r => job'[s] = job[s]
  BY AttemptTypes
<1>2. Synced' = Synced
  BY <1>1 DEF Synced
<1> QED
  BY <1>2 DEF InCloud

\* The end of an attempt learns of one record at most.
LEMMA SettledLearns ==
  ASSUME IInv, NEW a \in answers, GoesOn(a),
         NEW status \in {"SYNCED", "FAILED"}, status = "SYNCED" => a.ok,
         Stored(a.rec, status), UNCHANGED cloud
  PROVE  M!Next \/ UNCHANGED <<InCloud, Synced>>
<1> USE DEF IInv
<1>1. a.rec \in Record /\ <<a.rec, a.attempt>> \in awaiting
  BY DEF TypeOK, Answer, AnswersAreDue
<1>2. job[a.rec].status = "SYNCING"
  BY <1>1 DEF OneAttemptAtATime
<1>3. job[a.rec] \in JobRow
  BY <1>1, <1>2, JobTypes
<1>4. job' = [job EXCEPT ![a.rec].status = status, ![a.rec].due = FALSE]
  BY DEF Stored
<1>5. job'[a.rec] = [[job[a.rec] EXCEPT !.status = status] EXCEPT !.due = FALSE]
  BY <1>1, <1>4 DEF TypeOK
<1>6. job'[a.rec].status = status
  BY <1>3, <1>5 DEF JobRow
<1>7. \A s \in Record : s # a.rec => job'[s] = job[s]
  BY <1>4 DEF TypeOK
<1>8. InCloud' = InCloud
  BY DEF InCloud
<1>9. CASE status = "SYNCED"
  <2>1. a.rec \in InCloud
    BY <1>9 DEF AnswersAreDue
  <2>2. Synced' = Synced \cup {a.rec}
    BY <1>1, <1>6, <1>7, <1>9 DEF Synced
  <2> QED
    BY <1>1, <1>8, <2>1, <2>2 DEF M!Next, M!Learn
<1>10. CASE status = "FAILED"
  <2>1. Synced' = Synced
    BY <1>1, <1>2, <1>6, <1>7, <1>10 DEF Synced
  <2> QED
    BY <1>8, <2>1
<1> QED
  BY <1>9, <1>10

LEMMA NextRefines == IInv /\ [Next]_vars => [M!Next]_<<InCloud, Synced>>
<1> SUFFICES ASSUME IInv, [Next]_vars
             PROVE  M!Next \/ UNCHANGED <<InCloud, Synced>>
  OBVIOUS
<1> USE DEF IInv
<1>1. ASSUME UNCHANGED <<job, cloud>> PROVE UNCHANGED <<InCloud, Synced>>
  BY <1>1 DEF InCloud, Synced
<1>2. ASSUME NEW r \in Record, EnqueueForRecord(r)
      PROVE  UNCHANGED <<InCloud, Synced>>
  <2>1. UNCHANGED cloud /\ r \notin Synced /\ (Attempt(r) \/ UNCHANGED job)
    <3>1. r \notin logged /\ UNCHANGED cloud /\ (Attempt(r) \/ UNCHANGED job)
      BY <1>2 DEF EnqueueForRecord
    <3> QED
      BY <3>1, JobTypes DEF FreshIsUntouched, Synced
  <2> QED
    BY <1>1, <2>1, AttemptStutters
<1>3. ASSUME NEW r \in Record, ProcessDueRetry(r)
      PROVE  UNCHANGED <<InCloud, Synced>>
  <2>1. UNCHANGED cloud /\ r \notin Synced /\ Attempt(r)
    BY <1>3 DEF ProcessDueRetry, IsDue, Synced
  <2> QED
    BY <2>1, AttemptStutters
<1>4. ASSUME NEW r \in Record, RetryDelayPasses(r)
      PROVE  UNCHANGED <<InCloud, Synced>>
  <2>1. job[r].status = "FAILED" /\ job' = [job EXCEPT ![r].due = TRUE] /\ UNCHANGED cloud
    BY <1>4 DEF RetryDelayPasses
  <2>2. job[r] \in JobRow
    BY <2>1, JobTypes
  <2>3. job'[r].status = "FAILED" /\ \A s \in Record : s # r => job'[s] = job[s]
    BY <2>1, <2>2 DEF TypeOK, JobRow
  <2>4. Synced' = Synced
    BY <2>1, <2>3 DEF Synced
  <2> QED
    BY <2>1, <2>4 DEF InCloud
<1>5. ASSUME NEW q \in requests, Ingest(q) PROVE M!Next
  <2>1. q.rec \in Record
    BY DEF TypeOK, Request
  <2>2. cloud' = [cloud EXCEPT ![q.rec] = [in |-> TRUE, site |-> q.site]] /\ UNCHANGED job
    BY <1>5 DEF Ingest
  <2>3. [in |-> TRUE, site |-> q.site] # NoRow
    BY DEF NoRow
  <2>4. cloud'[q.rec] # NoRow /\ \A s \in Record : s # q.rec => cloud'[s] = cloud[s]
    BY <2>1, <2>2, <2>3 DEF TypeOK
  <2>5. InCloud' = InCloud \cup {q.rec}
    BY <2>1, <2>4 DEF InCloud
  <2>6. Synced' = Synced
    BY <2>2 DEF Synced
  <2> QED
    BY <2>1, <2>5, <2>6 DEF M!Next, M!Copy
<1>6. ASSUME NEW a \in answers, Settle(a) \/ SyncedFaults(a)
      PROVE  M!Next \/ UNCHANGED <<InCloud, Synced>>
  <2>1. CASE Settle(a)
    BY <2>1, SettledLearns DEF Settle, Outcome
  <2>2. CASE SyncedFaults(a)
    BY <2>2, SettledLearns DEF SyncedFaults
  <2> QED
    BY <1>6, <2>1, <2>2
<1>7. CASE \/ \E r \in Record : EnqueueFaults(r)
           \/ \E q \in requests : Refuse(q)
           \/ \E x \in awaiting : FetchRejects(x[1], x[2])
           \/ \E a \in answers : AnswerIsLost(a) \/ FailedFaults(a)
           \/ SaveConnectionProfile
           \/ Crash
           \/ UNCHANGED vars
  <2>1. UNCHANGED <<job, cloud>>
    BY <1>7 DEF EnqueueFaults, Refuse, FetchRejects, AnswerIsLost, FailedFaults,
       SaveConnectionProfile, Crash, vars
  <2> QED
    BY <1>1, <2>1
<1> QED
  BY <1>2, <1>3, <1>4, <1>5, <1>6, <1>7 DEF Next

\* The queue and the cloud implement the mirror: no record is lost there, and
\* what is SYNCED here is there.
THEOREM ImplementsTheMirror == Spec => ImplementsMirror
<1>1. IInv /\ [Next]_vars => [M!Next]_M!vars
  BY NextRefines DEF M!vars
<1> QED
  BY <1>1, InitRefines, Invariance, PTL DEF Spec, ImplementsMirror, M!Spec
-----------------------------------------------------------------------------
(* The newest value.  The number of an attempt is its place in the history *)
(* of what was sent, so the request that the one attempt under way waits   *)
(* for carries what was sent last.                                         *)

AttemptsCounted ==
  \A r \in Record : Len(sent[r]) = IF job[r] = NoJob THEN 0 ELSE job[r].attempts

RequestsAsSent ==
  \A q \in requests :
    q.attempt \in 1..Len(sent[q.rec]) /\ q.site = sent[q.rec][q.attempt]

SentInv == AttemptsCounted /\ RequestsAsSent

LEMMA AttemptSent ==
  ASSUME IInv, SentInv, NEW r \in Record, Attempt(r)
  PROVE  SentInv'
<1> USE DEF IInv
<1> PICK n : n = NextAttempt(r)
  OBVIOUS
<1> PICK site : site = profile.site
  OBVIOUS
<1>1. /\ job'[r].attempts = n /\ job'[r] # NoJob
      /\ \A s \in Record : s # r => job'[s] = job[s]
  BY AttemptTypes
<1>2. sent \in [Record -> Seq(Site)] /\ site \in Site /\ requests \subseteq Request
  BY DEF TypeOK, Profile
<1>3. n = Len(sent[r]) + 1 /\ Len(sent[r]) \in Nat
  <2>1. Len(sent[r]) \in Nat
    BY <1>2
  <2>2. Len(sent[r]) = IF job[r] = NoJob THEN 0 ELSE job[r].attempts
    BY DEF SentInv, AttemptsCounted
  <2> QED
    BY <2>1, <2>2 DEF NextAttempt
<1>4. /\ requests' = requests \cup {[rec |-> r, attempt |-> n, site |-> site]}
      /\ sent' = [sent EXCEPT ![r] = Append(@, site)]
  BY DEF Attempt
<1>5. /\ sent'[r] = Append(sent[r], site)
      /\ \A s \in Record : s # r => sent'[s] = sent[s]
  BY <1>2, <1>4
<1>6. /\ Len(sent'[r]) = n /\ sent'[r][n] = site
      /\ \A i \in 1..Len(sent[r]) : sent'[r][i] = sent[r][i]
  BY <1>2, <1>3, <1>5
<1>7. AttemptsCounted'
  <2> SUFFICES ASSUME NEW s \in Record
               PROVE  Len(sent'[s]) = IF job'[s] = NoJob THEN 0 ELSE job'[s].attempts
    BY DEF AttemptsCounted
  <2>1. CASE s = r
    BY <1>1, <1>6, <2>1
  <2>2. CASE s # r
    BY <1>1, <1>5, <2>2 DEF SentInv, AttemptsCounted
  <2> QED
    BY <2>1, <2>2
<1>8. RequestsAsSent'
  <2> SUFFICES ASSUME NEW q \in requests'
               PROVE  q.attempt \in 1..Len(sent'[q.rec]) /\ q.site = sent'[q.rec][q.attempt]
    BY DEF RequestsAsSent
  <2>1. CASE q \in requests
    <3>1. /\ q.rec \in Record /\ q.attempt \in 1..Len(sent[q.rec])
          /\ q.site = sent[q.rec][q.attempt]
      BY <1>2, <2>1 DEF Request, SentInv, RequestsAsSent
    <3>2. CASE q.rec = r
      <4>1. q.attempt \in 1..n
        BY <1>3, <3>1, <3>2
      <4> QED
        BY <1>6, <3>1, <3>2, <4>1
    <3>3. CASE q.rec # r
      BY <1>5, <3>1, <3>3
    <3> QED
      BY <3>2, <3>3
  <2>2. CASE q = [rec |-> r, attempt |-> n, site |-> site]
    <3>1. q.rec = r /\ q.attempt = n /\ q.site = site
      BY <2>2
    <3>2. n \in 1..n
      BY <1>3
    <3> QED
      BY <1>6, <3>1, <3>2
  <2> QED
    BY <1>4, <2>1, <2>2
<1> QED
  BY <1>7, <1>8 DEF SentInv

\* A step that starts no attempt: no number and nothing sent changes, and no
\* request is added.
LEMMA OtherSent ==
  ASSUME SentInv, sent' = sent, requests' \subseteq requests,
         \A r \in Record :
           /\ (job'[r] = NoJob) = (job[r] = NoJob)
           /\ job[r] # NoJob => job'[r].attempts = job[r].attempts
  PROVE  SentInv'
BY DEF SentInv, AttemptsCounted, RequestsAsSent

\* The outcome of an attempt leaves its number alone.
LEMMA StoredSent ==
  ASSUME IInv, SentInv, NEW a \in answers, NEW status \in {"SYNCED", "FAILED"},
         Stored(a.rec, status), UNCHANGED <<sent, requests>>
  PROVE  SentInv'
<1> USE DEF IInv
<1> PICK r : r = a.rec
  OBVIOUS
<1>1. r \in Record /\ <<r, a.attempt>> \in awaiting
  BY DEF TypeOK, Answer, AnswersAreDue
<1>2. job[r].status = "SYNCING"
  BY <1>1 DEF OneAttemptAtATime
<1>3. job[r] \in JobRow /\ job[r] # NoJob
  BY <1>1, <1>2, JobTypes
<1>4. job' = [job EXCEPT ![r].status = status, ![r].due = FALSE]
  BY DEF Stored
<1>5. job'[r] = [[job[r] EXCEPT !.status = status] EXCEPT !.due = FALSE]
  BY <1>1, <1>4 DEF TypeOK
<1>6. job'[r] \in JobRow /\ job'[r].attempts = job[r].attempts
  BY <1>3, <1>5 DEF JobRow
<1>7. job'[r] # NoJob
  BY <1>6 DEF JobRow, NoJob
<1>8. \A s \in Record : s # r => job'[s] = job[s]
  BY <1>4 DEF TypeOK
<1> QED
  BY <1>3, <1>6, <1>7, <1>8, OtherSent

LEMMA NextSent == IInv /\ SentInv /\ [Next]_vars => SentInv'
<1> SUFFICES ASSUME IInv, SentInv, [Next]_vars PROVE SentInv'
  OBVIOUS
<1>1. TypeOK
  BY DEF IInv
<1>2. ASSUME NEW r \in Record, EnqueueForRecord(r) PROVE SentInv'
  <2>1. CASE Attempt(r)
    BY <2>1, AttemptSent
  <2>2. CASE UNCHANGED <<job, awaiting, requests, sent>>
    BY <2>2, OtherSent
  <2> QED
    BY <1>2, <2>1, <2>2 DEF EnqueueForRecord
<1>3. ASSUME NEW r \in Record, ProcessDueRetry(r) PROVE SentInv'
  BY <1>3, AttemptSent DEF ProcessDueRetry
<1>4. ASSUME NEW r \in Record, RetryDelayPasses(r) PROVE SentInv'
  <2>1. /\ job[r].status = "FAILED" /\ job' = [job EXCEPT ![r].due = TRUE]
        /\ UNCHANGED <<sent, requests>>
    BY <1>4 DEF RetryDelayPasses
  <2>2. job[r] \in JobRow /\ job[r] # NoJob
    BY <1>1, <2>1, JobTypes
  <2>3. /\ job'[r] \in JobRow /\ job'[r].attempts = job[r].attempts
        /\ \A s \in Record : s # r => job'[s] = job[s]
    BY <1>1, <2>1, <2>2 DEF TypeOK, JobRow
  <2>4. job'[r] # NoJob
    BY <2>3 DEF JobRow, NoJob
  <2> QED
    BY <2>1, <2>2, <2>3, <2>4, OtherSent
<1>5. ASSUME NEW a \in answers, Settle(a) PROVE SentInv'
  <2>1. Stored(a.rec, Outcome(a)) /\ UNCHANGED <<sent, requests>>
    BY <1>5 DEF Settle
  <2>2. Outcome(a) \in {"SYNCED", "FAILED"}
    BY DEF Outcome
  <2> QED
    BY <2>1, <2>2, StoredSent
<1>6. ASSUME NEW a \in answers, SyncedFaults(a) PROVE SentInv'
  BY <1>6, StoredSent DEF SyncedFaults
<1>7. CASE \/ \E r \in Record : EnqueueFaults(r)
           \/ \E q \in requests : Ingest(q) \/ Refuse(q)
           \/ \E x \in awaiting : FetchRejects(x[1], x[2])
           \/ \E a \in answers : AnswerIsLost(a) \/ FailedFaults(a)
           \/ SaveConnectionProfile
           \/ Crash
           \/ UNCHANGED vars
  <2>1. UNCHANGED <<job, sent>> /\ requests' \subseteq requests
    BY <1>7 DEF EnqueueFaults, Ingest, Refuse, FetchRejects, AnswerIsLost, FailedFaults,
       SaveConnectionProfile, Crash, vars
  <2> QED
    BY <2>1, OtherSent
<1> QED
  BY <1>2, <1>3, <1>4, <1>5, <1>6, <1>7 DEF Next

\* The request of the attempt under way carries what was sent last.
LEMMA AwaitedIsNewest ==
  ASSUME IInv, SentInv, NEW q \in requests, Awaited(q)
  PROVE  q.site = sent[q.rec][Len(sent[q.rec])]
<1>1. q.rec \in Record /\ q.attempt \in Nat
  BY DEF IInv, TypeOK, Request
<1>2. job[q.rec].status = "SYNCING" /\ job[q.rec].attempts = q.attempt
  BY DEF IInv, OneAttemptAtATime, Awaited
<1>3. job[q.rec] # NoJob
  BY <1>1, <1>2, JobTypes DEF IInv
<1>4. Len(sent[q.rec]) = q.attempt
  BY <1>1, <1>2, <1>3 DEF SentInv, AttemptsCounted
<1> QED
  BY <1>4 DEF SentInv, RequestsAsSent

\* Only a request that was given up can put an older site_id over a newer one:
\* what an attempt still waits for leaves the cloud with the value sent last
\* (index.ts handleIngest, whose upsert takes the requests as they come).
THEOREM NewestRemains == Spec => NewestUnlessLate
<1>1. Init => SentInv
  <2> SUFFICES ASSUME Init PROVE SentInv
    OBVIOUS
  <2>1. \A r \in Record : Len(sent[r]) = 0 /\ job[r] = NoJob
    BY DEF Init
  <2> QED
    BY <2>1 DEF Init, SentInv, AttemptsCounted, RequestsAsSent
<1>2. IInv /\ SentInv /\ [Next]_vars =>
        [\A q \in requests \ requests' :
           cloud'[q.rec] # cloud[q.rec] /\ Awaited(q) =>
             cloud'[q.rec].site = sent[q.rec][Len(sent[q.rec])]]_vars
  <2> SUFFICES ASSUME IInv, SentInv, Next, NEW q \in requests \ requests',
                      cloud'[q.rec] # cloud[q.rec], Awaited(q)
               PROVE  cloud'[q.rec].site = sent[q.rec][Len(sent[q.rec])]
    OBVIOUS
  <2>1. PICK i \in requests : Ingest(i)
    <3>1. UNCHANGED cloud \/ \E i \in requests : Ingest(i)
      BY DEF Next, EnqueueForRecord, EnqueueFaults, ProcessDueRetry, RetryDelayPasses, Refuse,
         FetchRejects, AnswerIsLost, Settle, SyncedFaults, FailedFaults,
         SaveConnectionProfile, Crash
    <3> QED
      BY <3>1
  <2>2. i = q
    BY <2>1 DEF Ingest
  <2>3. q.rec \in Record /\ cloud \in [Record -> Row \cup {NoRow}]
    BY DEF IInv, TypeOK, Request
  <2>4. cloud'[q.rec].site = q.site
    BY <2>1, <2>2, <2>3 DEF Ingest
  <2> QED
    BY <2>4, AwaitedIsNewest
<1> QED
  BY <1>1, <1>2, Invariance, NextSent, PTL DEF Spec, NewestUnlessLate
=============================================================================
