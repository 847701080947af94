------------------------------ MODULE CloudSync ------------------------------
(***************************************************************************)
(* CloudSyncQueue: each log record is posted to the cloud's /api/ingest,   *)
(* which upserts it by its id, and cloud_sync_results keeps one job per    *)
(* record: SYNCING, then SYNCED or FAILED, with timed retries of the       *)
(* FAILED ones.                                                            *)
(*                                                                         *)
(* A request is on its way or handled when its fetch is given up (a broken *)
(* connection, a timeout, the death of the process): the cloud may take it *)
(* later, or never.  The content of a record does not change, but the      *)
(* site_id it is sent with is that of the settings at the time.            *)
(*                                                                         *)
(* The retry delays are a moment at which a FAILED job is due.             *)
(*                                                                         *)
(* A definition named X_Y is X with the plausible bug Y.  No specification *)
(* uses it: it shows which property would notice the bug.                  *)
(***************************************************************************)
EXTENDS Integers, Sequences

CONSTANTS
  Record,      \* log records
  Site,        \* values of the setting siteId
  Allowed,     \* the mishaps that may happen
  MaxMishaps   \* bound: how many of them

\* Changes of the settings, fetches that are given up, answers that are no
\* success, database errors and process deaths.
Mishap == {"edit", "lose", "refuse", "fault", "crash"}

ASSUME MishapAssumption == Allowed \subseteq Mishap /\ MaxMishaps \in Nat

Profile == [enabled: BOOLEAN, site: Site]

VARIABLES
  profile,   \* connection_profiles: cloud_sync_enabled and site_id
  logged,    \* the records enqueueForRecord was called for
  job,       \* cloud_sync_results: status, attempt_count, next_retry_at is past
  awaiting,  \* <<r, n>>: attempt n of record r awaits its fetch
  requests,  \* requests the cloud has not handled
  answers,   \* settled fetches whose attempt has not gone on
  cloud,     \* the cloud's log_records: the site_id of each record
  sent,      \* history: the site_id of each attempt
  offline,   \* history: records logged while the synchronisation was off
  lost,      \* history: records whose attempt was cut off and nobody knows
  used       \* how many mishaps there were

vars == <<profile, logged, job, awaiting, requests, answers, cloud, sent,
          offline, lost, used>>

NoJob == [status |-> "NONE"]
JobRow == [status: {"SYNCING", "SYNCED", "FAILED"}, attempts: Nat, due: BOOLEAN]

NoRow == [in |-> FALSE]
Row == [in: {TRUE}, site: Site]

Request == [rec: Record, attempt: Nat, site: Site]
Answer == [rec: Record, attempt: Nat, ok: BOOLEAN]

Spend(k) ==
  /\ k \in Allowed
  /\ used < MaxMishaps
  /\ used' = used + 1

-----------------------------------------------------------------------------

Init ==
  /\ profile \in Profile
  /\ logged = {}
  /\ job = [r \in Record |-> NoJob]
  /\ awaiting = {}
  /\ requests = {}
  /\ answers = {}
  /\ cloud = [r \in Record |-> NoRow]
  /\ sent = [r \in Record |-> <<>>]
  /\ offline = {}
  /\ lost = {}
  /\ used = 0

-----------------------------------------------------------------------------
(* The synchronous part of attempt(), up to fetch.                         *)

NextAttempt(r) == IF job[r] = NoJob THEN 1 ELSE job[r].attempts + 1

Syncing(r) ==
  job' = [job EXCEPT ![r] = [status |-> "SYNCING", attempts |-> NextAttempt(r), due |-> FALSE]]

Attempt(r) ==
  /\ Syncing(r)
  /\ awaiting' = awaiting \cup {<<r, NextAttempt(r)>>}
  /\ requests' = requests \cup
       {[rec |-> r, attempt |-> NextAttempt(r), site |-> profile.site]}
  /\ sent' = [sent EXCEPT ![r] = Append(@, profile.site)]

\* enqueueForRecord, called once for every record.
SwitchedOn == profile.enabled

EnqueueForRecord(r) ==
  /\ r \notin logged
  /\ logged' = logged \cup {r}
  /\ offline' = IF profile.enabled THEN offline ELSE offline \cup {r}
  /\ IF SwitchedOn
     THEN Attempt(r)
     ELSE UNCHANGED <<job, awaiting, requests, sent>>
  /\ UNCHANGED <<profile, answers, cloud, lost, used>>

\* The INSERT of the job throws: attempt() rejects, which only fatalError hears.
\* The packaged program waits for a key and goes on; the other one ends (Crash).
EnqueueFaults(r) ==
  /\ r \notin logged
  /\ SwitchedOn
  /\ Spend("fault")
  /\ logged' = logged \cup {r}
  /\ lost' = lost \cup {r}
  /\ UNCHANGED <<profile, job, awaiting, requests, answers, cloud, sent, offline>>

\* processDueRetries: the timer finds a FAILED job whose next_retry_at is past.
\* (When the UPDATE of its job throws, the job stays as it is.)
IsDue_AnyStatus(r) ==
  \/ job[r].status = "FAILED" /\ job[r].due
  \/ job[r].status = "SYNCING"
IsDue_FirstOnly(r) == job[r].status = "FAILED" /\ job[r].due /\ job[r].attempts = 1
IsDue(r) == job[r].status = "FAILED" /\ job[r].due

ProcessDueRetry(r) ==
  /\ SwitchedOn
  /\ IsDue(r)
  /\ Attempt(r)
  /\ UNCHANGED <<profile, logged, answers, cloud, offline, lost, used>>

RetryDelayPasses(r) ==
  /\ job[r].status = "FAILED" /\ ~job[r].due
  /\ job' = [job EXCEPT ![r].due = TRUE]
  /\ UNCHANGED <<profile, logged, awaiting, requests, answers, cloud, sent, offline, lost, used>>

-----------------------------------------------------------------------------
(* The network and the cloud.                                              *)

Awaited(q) == <<q.rec, q.attempt>> \in awaiting
Answered(r, n) == \E a \in answers : a.rec = r /\ a.attempt = n

\* An answer reaches the attempt that still waits for it.
Reply(q, ok) ==
  answers' = IF Awaited(q) /\ ~Answered(q.rec, q.attempt)
             THEN answers \cup {[rec |-> q.rec, attempt |-> q.attempt, ok |-> ok]}
             ELSE answers

\* handleIngest: the upsert, and 204.
Ingest(q) ==
  /\ q \in requests
  /\ requests' = requests \ {q}
  /\ cloud' = [cloud EXCEPT ![q.rec] = [in |-> TRUE, site |-> q.site]]
  /\ Reply(q, TRUE)
  /\ UNCHANGED <<profile, logged, job, awaiting, sent, offline, lost, used>>

\* 401 for the key, 500 for the database: no row.
Refuse(q) ==
  /\ q \in requests
  /\ Spend("refuse")
  /\ requests' = requests \ {q}
  /\ Reply(q, FALSE)
  /\ UNCHANGED <<profile, logged, job, awaiting, cloud, sent, offline, lost>>

\* fetch rejects; the request may still be on its way, or may have been handled.
FetchRejects(r, n) ==
  /\ <<r, n>> \in awaiting
  /\ ~Answered(r, n)
  /\ Spend("lose")
  /\ answers' = answers \cup {[rec |-> r, attempt |-> n, ok |-> FALSE]}
  /\ UNCHANGED <<profile, logged, job, awaiting, requests, cloud, sent, offline, lost>>

\* Its answer is lost on the way back: the cloud has the row.
AnswerIsLost(a) ==
  /\ a \in answers
  /\ a.ok
  /\ Spend("lose")
  /\ answers' = (answers \ {a}) \cup {[a EXCEPT !.ok = FALSE]}
  /\ UNCHANGED <<profile, logged, job, awaiting, requests, cloud, sent, offline, lost>>

-----------------------------------------------------------------------------
(* The end of attempt().                                                   *)

GoesOn(a) ==
  /\ a \in answers
  /\ answers' = answers \ {a}
  /\ awaiting' = awaiting \ {<<a.rec, a.attempt>>}

Stored(r, status) == job' = [job EXCEPT ![r].status = status, ![r].due = FALSE]

\* SYNCED for a 2xx; anything else throws, and the catch block stores FAILED.
Outcome_AnyAnswer(a) == "SYNCED"
Outcome_NotCaught(a) == IF a.ok THEN "SYNCED" ELSE "SYNCING"
Outcome(a) == IF a.ok THEN "SYNCED" ELSE "FAILED"

Settle(a) ==
  /\ GoesOn(a)
  /\ Stored(a.rec, Outcome(a))
  /\ UNCHANGED <<profile, logged, requests, cloud, sent, offline, lost, used>>

\* The UPDATE to SYNCED throws: the catch block takes the attempt for failed.
SyncedFaults(a) ==
  /\ GoesOn(a)
  /\ a.ok
  /\ Spend("fault")
  /\ Stored(a.rec, "FAILED")
  /\ UNCHANGED <<profile, logged, requests, cloud, sent, offline, lost>>

\* The UPDATE to FAILED throws (too): the job stays SYNCING.
FailedFaults(a) ==
  /\ GoesOn(a)
  /\ Spend("fault")
  /\ lost' = lost \cup {a.rec}
  /\ UNCHANGED <<profile, logged, job, requests, cloud, sent, offline>>

-----------------------------------------------------------------------------

\* saveConnectionProfile, from PUT /settings/connection.
SaveConnectionProfile ==
  /\ Spend("edit")
  /\ profile' \in Profile \ {profile}
  /\ UNCHANGED <<logged, job, awaiting, requests, answers, cloud, sent, offline, lost>>

\* The process dies and is started again: start() only sets the timer.
Crash ==
  /\ Spend("crash")
  /\ awaiting' = {}
  /\ answers' = {}
  /\ lost' = lost \cup {r \in Record : job[r].status = "SYNCING"}
  /\ UNCHANGED <<profile, logged, job, requests, cloud, sent, offline>>

Next ==
  \/ \E r \in Record : EnqueueForRecord(r)
  \/ \E r \in Record : EnqueueFaults(r)
  \/ \E r \in Record : ProcessDueRetry(r)
  \/ \E r \in Record : RetryDelayPasses(r)
  \/ \E q \in requests : Ingest(q)
  \/ \E q \in requests : Refuse(q)
  \/ \E x \in awaiting : FetchRejects(x[1], x[2])
  \/ \E a \in answers : AnswerIsLost(a)
  \/ \E a \in answers : Settle(a)
  \/ \E a \in answers : SyncedFaults(a)
  \/ \E a \in answers : FailedFaults(a)
  \/ SaveConnectionProfile
  \/ Crash

\* The clock and setInterval advance; the cloud takes up what reaches it and
\* answers, or the fetch is given up; a settled fetch is gone on with.
Fairness ==
  /\ \A r \in Record : WF_vars(RetryDelayPasses(r)) /\ WF_vars(ProcessDueRetry(r))
  /\ \A r \in Record : WF_vars(\E q \in requests : q.rec = r /\ Awaited(q) /\ Ingest(q))
  /\ \A r \in Record : WF_vars(\E a \in answers : a.rec = r /\ Settle(a))

Spec == Init /\ [][Next]_vars
FairSpec == Spec /\ Fairness

-----------------------------------------------------------------------------

\* Every variable holds what the code can put there; of the four statuses of
\* the schema, PENDING is never stored.
TypeOK ==
  /\ profile \in Profile
  /\ logged \subseteq Record
  /\ job \in [Record -> JobRow \cup {NoJob}]
  /\ awaiting \subseteq Record \X Nat
  /\ requests \subseteq Request
  /\ answers \subseteq Answer
  /\ cloud \in [Record -> Row \cup {NoRow}]
  /\ sent \in [Record -> Seq(Site)]
  /\ offline \subseteq logged
  /\ lost \subseteq logged
  /\ used \in Nat

\* The queue is a mirror: the cloud never loses a record, and one that is SYNCED
\* here is in the cloud, whatever is lost, delayed, repeated or cut off.
InCloud == {r \in Record : cloud[r] # NoRow}
Synced == {r \in Record : job[r].status = "SYNCED"}
M == INSTANCE Mirror WITH copied <- InCloud, known <- Synced
ImplementsMirror == M!Spec

\* The outcome of an attempt is stored into the job it belongs to: a record has
\* one attempt at a time, and no late answer of an earlier one settles it.
OneAttemptAtATime ==
  \A x \in awaiting : job[x[1]].status = "SYNCING" /\ job[x[1]].attempts = x[2]

\* A SYNCING job has its attempt under way, or lost it to a crash or to an error
\* of the database: no other way leads to a job that is never taken up again.
SyncingIsExplained ==
  \A r \in Record : job[r].status = "SYNCING" =>
    <<r, job[r].attempts>> \in awaiting \/ r \in lost

\* Jobs and attempts agree in both directions, whatever is late, lost or dies.
AttemptMatchesJob == OneAttemptAtATime /\ SyncingIsExplained

\* A record logged while the synchronisation is off stays here, also when it is
\* switched on later.
OfflineStaysHere == \A r \in offline : job[r] = NoJob /\ cloud[r] = NoRow

\* "Always the newest value remains" (cloud-dashboard/src/index.ts:82), but for
\* a request that was given up and comes after its retry: no request that an
\* attempt still waits for puts an older site_id over a newer one.
NewestUnlessLate ==
  [][\A q \in requests \ requests' :
       cloud'[q.rec] # cloud[q.rec] /\ Awaited(q) =>
         cloud'[q.rec].site = sent[q.rec][Len(sent[q.rec])]]_vars

\* While the synchronisation stays on, a record that was taken up is SYNCED in
\* the end, however many attempts fail, unless a crash or an error loses it.
TakenUpIsSynced ==
  <>[]profile.enabled =>
    \A r \in Record : job[r] # NoJob ~> r \in Synced \/ r \in lost
=============================================================================
