-------------------------------- MODULE Monitor --------------------------------
(***************************************************************************)
(* What a browser's monitor screen shows of the log: realtime/hub.ts, the  *)
(* client of frontend lib/realtime.ts and MonitorPage.tsx, over GET /logs. *)
(*                                                                         *)
(* The server tells every socket what it does to the log, in the order it  *)
(* does it, and a socket delivers in order; so the database is the list of *)
(* what was told, a socket is a place in that list, and the answer to GET  *)
(* /logs is the place at which the query ran.  A connection that ends loses *)
(* what it has not delivered.  The page asks for the log once, when it is  *)
(* opened; sockets outlive the page when the client forgets them.          *)
(*                                                                         *)
(* GET /logs takes the last rows by the time they bear, which is that of   *)
(* the server's clock.  A clock can be set: a new row may get any rank.    *)
(*                                                                         *)
(* A definition named X_Y is X with the plausible bug Y.  No specification *)
(* uses it: it shows which property would notice the bug.                  *)
(***************************************************************************)
EXTENDS Integers, Sequences, SequencesExt

CONSTANTS
  MaxSockets,   \* sockets the browser can have at a time
  Limit,        \* records GET /logs?limit=200 returns
  MaxDisplay,   \* MAX_DISPLAY of MonitorPage
  MaxRecords, MaxEvents, MaxVisits, MaxBreaks   \* bounds

ASSUME MonitorAssumption ==
  /\ MaxSockets \in Nat /\ Limit \in Nat \ {0} /\ MaxDisplay \in Nat \ {1} /\ Limit <= MaxDisplay
  /\ MaxRecords \in Nat /\ MaxEvents \in Nat /\ MaxVisits \in Nat /\ MaxBreaks \in Nat

VARIABLES
  up,        \* does the server run?
  events,    \* everything the server did to the log, in order
  rank,      \* the place of each record by occurred_at and daily_sequence
  writing,   \* attempts in flight for the files of each record
  socket,    \* the sockets: a state, and the next event to deliver
  ws,        \* RealtimeClient.ws: a socket, or 0
  timer,     \* is the timer that reconnectTimer names pending?
  stray,     \* pending timers that reconnectTimer does not name any more
  mounted,   \* is the monitor page open?  It has the only listener.
  load,      \* GET /logs: Asked, the place in events its answer has, or Done
  records,   \* the records on the screen
  missed,    \* history: records of which this visit may have missed news
  givenUp,   \* history: records that a full screen has given up since it has the answer
  hasty,     \* history: how often the page was opened before the close event of a
             \* socket of an earlier visit had come
  visits, breaks

client == <<ws, timer, stray>>
page == <<mounted, load, records, givenUp>>
log == <<events, rank, writing>>
vars == <<up, log, socket, client, page, missed, hasty, visits, breaks>>

SocketId == 1..MaxSockets
Record == 1..MaxRecords
FileStatus == {"WRITING", "SAVED", "FAILED"}
Event == [type: {"created", "file"}, id: Record, status: FileStatus \cup {"none"}]
Created(r) == [type |-> "created", id |-> r, status |-> "none"]
FileUpdated(r, s) == [type |-> "file", id |-> r, status |-> s]

\* The database after the first k events.
CountAt(k) == Cardinality({i \in 1..k : events[i].type = "created"})
StatusAt(r, k) == events[Max({i \in 1..k : events[i].id = r})].status
Now == Len(events)
Logged == 1..CountAt(Now)

Asked == -1
Done == -2

\* A new record takes a place in that order: the last one, unless the clock was set
\* back, or has put two days into a second.
Ranked(place) ==
  Append([r \in DOMAIN rank |-> IF rank[r] < place THEN rank[r] ELSE rank[r] + 1], place)
Later(q, r) == rank[q] > rank[r]

\* GET /logs?limit=: the last records in that order, oldest first.
Rows(k) ==
  {rows \in [1..Min({Limit, CountAt(k)}) -> 1..CountAt(k)] :
     /\ \A m, n \in DOMAIN rows : m < n => Later(rows[n], rows[m])
     /\ \A r \in (1..CountAt(k)) \ Range(rows), n \in DOMAIN rows : Later(rows[n], r)}
\* Each comes with the state of its file.
Snapshot(rows, k) == [n \in DOMAIN rows |-> [id |-> rows[n], status |-> StatusAt(rows[n], k)]]

Free == [state |-> "none", next |-> 0]
Open(s) == socket[s].state = "open"
Undelivered(s) == IF Open(s) THEN {events[k].id : k \in socket[s].next..Now} ELSE {}
UndeliveredBy(S) == UNION {Undelivered(s) : s \in S}

\* The answer to GET /logs, still to be asked for at the server, will have it all.
Misses(ids) == missed' = IF mounted /\ load # Asked THEN missed \cup ids ELSE missed

Init ==
  /\ up = TRUE /\ events = <<>> /\ rank = <<>> /\ writing = [r \in Record |-> 0]
  /\ socket = [s \in SocketId |-> Free]
  /\ ws = 0 /\ timer = FALSE /\ stray = 0
  /\ mounted = FALSE /\ load = Done /\ records = <<>>
  /\ missed = {} /\ givenUp = {} /\ hasty = 0 /\ visits = 0 /\ breaks = 0

-----------------------------------------------------------------------------
(* The server.                                                             *)

\* broadcast: a client that is not open gets nothing.
Broadcast(es) ==
  /\ Now + Len(es) <= MaxEvents
  /\ events' = events \o es
  /\ IF \E s \in SocketId : Open(s) THEN UNCHANGED missed
     ELSE Misses({es[k].id : k \in DOMAIN es})

\* recordLog: the row, then the job of its file when the settings want one.
RecordLog(exported, place) ==
  LET r == CountAt(Now) + 1
  IN /\ up /\ r <= MaxRecords /\ place <= r
     /\ Broadcast(<<Created(r)>> \o (IF exported THEN <<FileUpdated(r, "WRITING")>> ELSE <<>>))
     /\ rank' = Ranked(place)
     /\ writing' = IF exported THEN [writing EXCEPT ![r] = 1] ELSE writing
     /\ UNCHANGED <<up, socket, client, page, hasty, visits, breaks>>

\* A job is taken up again: a failed one by the timer, any by hand.  Or an attempt
\* ends, whatever another one of the same job has made of it meanwhile.
FileChanges(r, s) ==
  /\ up /\ r \in Logged
  /\ IF s = "WRITING" THEN StatusAt(r, Now) # "none" /\ writing' = [writing EXCEPT ![r] = @ + 1]
     ELSE writing[r] > 0 /\ writing' = [writing EXCEPT ![r] = @ - 1]
  /\ Broadcast(<<FileUpdated(r, s)>>)
  /\ UNCHANGED <<up, rank, socket, client, page, hasty, visits, breaks>>

\* The server dies; a row it has just inserted stays without jobs and is told
\* to nobody.
Closed(S) == [s \in SocketId |-> IF s \in S THEN [socket[s] EXCEPT !.state = "closed"] ELSE socket[s]]
InUse == {s \in SocketId : socket[s].state \in {"connecting", "open"}}
ServerDies(inserted, place) ==
  /\ up /\ breaks < MaxBreaks /\ breaks' = breaks + 1
  /\ up' = FALSE
  /\ inserted => CountAt(Now) < MaxRecords /\ Now < MaxEvents /\ place <= CountAt(Now) + 1
  /\ events' = IF inserted THEN Append(events, Created(CountAt(Now) + 1)) ELSE events
  /\ rank' = IF inserted THEN Ranked(place) ELSE rank
  /\ writing' = [r \in Record |-> 0]
  /\ socket' = Closed(InUse)
  /\ Misses(UndeliveredBy(SocketId) \cup (IF inserted THEN {CountAt(Now) + 1} ELSE {}))
  /\ UNCHANGED <<client, page, hasty, visits>>

ServerStarts ==
  /\ ~up /\ up' = TRUE
  /\ UNCHANGED <<log, socket, client, page, missed, hasty, visits, breaks>>

-----------------------------------------------------------------------------
(* RealtimeClient.                                                         *)

\* connect.
Connecting ==
  IF ws # 0 THEN UNCHANGED <<ws, socket>>
  ELSE LET s == CHOOSE s \in SocketId : socket[s] = Free
       IN /\ \E free \in SocketId : socket[free] = Free
          /\ ws' = s
          /\ socket' = [socket EXCEPT ![s] = [state |-> "connecting", next |-> 0]]

\* The server adds the socket to its clients: it delivers what comes from now on.
Connects(s) ==
  /\ up /\ socket[s].state = "connecting"
  /\ socket' = [socket EXCEPT ![s] = [state |-> "open", next |-> Now + 1]]
  /\ UNCHANGED <<up, log, client, page, missed, hasty, visits, breaks>>

ConnectFails(s) ==
  /\ ~up /\ socket[s].state = "connecting"
  /\ socket' = Closed({s})
  /\ UNCHANGED <<up, log, client, page, missed, hasty, visits, breaks>>

\* The connection breaks although the server runs.
Breaks(s) ==
  /\ Open(s) /\ breaks < MaxBreaks /\ breaks' = breaks + 1
  /\ socket' = Closed({s})
  /\ Misses(Undelivered(s))
  /\ UNCHANGED <<up, log, client, page, hasty, visits>>

\* onclose, of whatever socket.
ForgottenWs_Kept(s) == ws
ForgottenWs(s) == 0
OnClose(s) ==
  /\ socket[s].state = "closed"
  /\ socket' = [socket EXCEPT ![s] = Free]
  /\ ws' = ForgottenWs(s)
  /\ timer' = (timer \/ mounted)
  /\ stray' = IF timer /\ mounted THEN stray + 1 ELSE stray
  /\ UNCHANGED <<up, log, page, missed, hasty, visits, breaks>>

\* The timer fires: the one reconnectTimer names, or one it named before.
TimerFires ==
  /\ \/ timer /\ timer' = FALSE /\ UNCHANGED stray
     \/ stray > 0 /\ stray' = stray - 1 /\ UNCHANGED timer
  /\ Connecting
  /\ UNCHANGED <<up, log, page, missed, hasty, visits, breaks>>

-----------------------------------------------------------------------------
(* MonitorPage.                                                            *)

\* It is opened: GET /logs, then subscribe.
Enter ==
  /\ ~mounted /\ visits < MaxVisits
  /\ visits' = visits + 1
  /\ hasty' = IF \E s \in SocketId : socket[s].state = "closed" THEN hasty + 1 ELSE hasty
  /\ mounted' = TRUE /\ load' = Asked /\ records' = <<>>
  /\ missed' = {} /\ givenUp' = {}
  /\ Connecting
  /\ UNCHANGED <<up, log, timer, stray, breaks>>

Unsubscribed_NoClose == {}
Unsubscribed == {ws} \ {0}

\* It is left: its state is gone, and unsubscribe closes the socket it knows.
Leave ==
  /\ mounted
  /\ mounted' = FALSE /\ load' = Done /\ records' = <<>>
  /\ missed' = {} /\ givenUp' = {}
  /\ socket' = Closed(Unsubscribed)
  /\ ws' = 0 /\ timer' = FALSE
  /\ UNCHANGED <<up, log, stray, hasty, visits, breaks>>

\* The server runs the query of GET /logs.
AnswerLogs ==
  /\ up /\ load = Asked
  /\ load' = Now
  /\ UNCHANGED <<up, log, socket, client, mounted, records, givenUp, missed, hasty, visits, breaks>>

\* The answer replaces what newer events have put on the screen.
LogsArrive ==
  /\ load \in 0..MaxEvents
  /\ \E rows \in Rows(load) : records' = Snapshot(rows, load)
  /\ load' = Done
  /\ UNCHANGED <<up, log, socket, client, mounted, givenUp, missed, hasty, visits, breaks>>

LogsFail ==
  /\ load # Done
  /\ load' = Done
  /\ missed' = Logged
  /\ UNCHANGED <<up, log, socket, client, mounted, records, givenUp, hasty, visits, breaks>>

OnScreen(id) == \E k \in DOMAIN records : records[k].id = id
Kept == SubSeq(records, Max({1, Len(records) - MaxDisplay + 2}), Len(records))

WithCreated(e) == IF OnScreen(e.id) THEN records ELSE Append(Kept, [id |-> e.id, status |-> "none"])
WithStatus_Last(e) ==
  [k \in DOMAIN records |-> IF k = Len(records) THEN [records[k] EXCEPT !.status = e.status] ELSE records[k]]
WithStatus(e) ==
  [k \in DOMAIN records |-> IF records[k].id = e.id THEN [records[k] EXCEPT !.status = e.status] ELSE records[k]]

\* onmessage, for whatever socket it is.  An event that comes between the query
\* and its answer is on the screen until the answer replaces it.
Deliver(s) ==
  LET e == events[socket[s].next]
  IN /\ Open(s) /\ socket[s].next <= Now
     /\ socket' = [socket EXCEPT ![s].next = @ + 1]
     /\ records' = IF ~mounted THEN records
                   ELSE IF e.type = "created" THEN WithCreated(e) ELSE WithStatus(e)
     /\ givenUp' = {id \in Record : load = Done /\ ~OnScreen(id)' /\ (OnScreen(id) \/ id \in givenUp)}
     /\ IF load \in 0..MaxEvents THEN Misses({e.id}) ELSE UNCHANGED missed
     /\ UNCHANGED <<up, log, client, mounted, load, hasty, visits, breaks>>

\* The button that clears the screen.
Clear ==
  /\ mounted /\ records # <<>>
  /\ records' = <<>>
  /\ Misses(Logged)
  /\ UNCHANGED <<up, log, socket, client, mounted, load, givenUp, hasty, visits, breaks>>

-----------------------------------------------------------------------------

Next ==
  \/ \E exported \in BOOLEAN, place \in Record : RecordLog(exported, place)
  \/ \E r \in Record, s \in FileStatus : FileChanges(r, s)
  \/ \E inserted \in BOOLEAN, place \in Record : ServerDies(inserted, place)
  \/ ServerStarts
  \/ \E s \in SocketId : Connects(s) \/ ConnectFails(s) \/ Breaks(s) \/ OnClose(s) \/ Deliver(s)
  \/ TimerFires
  \/ Enter \/ Leave \/ AnswerLogs \/ LogsArrive \/ LogsFail \/ Clear

Spec == Init /\ [][Next]_vars

\* The browser delivers events and timers, the server accepts connections.
FairSpec ==
  /\ Spec
  /\ WF_vars(TimerFires \/ \E s \in SocketId : Connects(s) \/ ConnectFails(s) \/ OnClose(s))

-----------------------------------------------------------------------------

\* Every variable holds what the code can put there: the client names a socket
\* whose close event is still to come, and the screen is bounded.
TypeOK ==
  /\ up \in BOOLEAN /\ events \in Seq(Event)
  /\ rank \in Seq(Record) /\ Len(rank) = CountAt(Now) /\ writing \in [Record -> Nat]
  /\ socket \in [SocketId -> [state: {"none", "connecting", "open", "closed"}, next: Nat]]
  /\ ws \in SocketId \cup {0} /\ timer \in BOOLEAN /\ stray \in Nat
  /\ mounted \in BOOLEAN /\ load \in {Asked, Done} \cup 0..MaxEvents
  /\ records \in Seq([id: Record, status: FileStatus \cup {"none"}])
  /\ ws # 0 => socket[ws] # Free
  /\ Len(records) <= MaxDisplay
  /\ missed \subseteq Record /\ givenUp \subseteq Record /\ hasty \in Nat /\ visits \in Nat /\ breaks \in Nat

\* A record is on the screen once, whichever sockets and answers bring it.
ShownOnce == \A j, k \in DOMAIN records : records[j].id = records[k].id => j = k

Quiet == mounted /\ load = Done /\ \A s \in SocketId : Undelivered(s) = {}

\* The records that came after r, or that the clock has put after r.
Ahead(r) == {q \in Logged : q > r \/ Later(q, r)}
\* The clock was never set back between two records.
InTime == \A q, r \in Logged : q < r => ~Later(q, r)

\* The screen never shows a record twice.  When the log is loaded and nothing is
\* on its way, it has the last records, each with the current state of its file;
\* only a record of which news came without a socket, was lost with one, came
\* between the query and its answer, or was cleared away may lack or lag.  The
\* last records are those with few Ahead: one that was logged with the clock set
\* back is behind the older ones that bear a later time, and the answer is right
\* to leave it out.  (Where a forgotten socket may be open, or the clock was set
\* back, a full screen can also have given a record up for an older one that
\* came late.)
ScreenIsDatabase ==
  /\ ShownOnce
  /\ Quiet =>
    /\ \A k \in DOMAIN records :
         records[k].id \in missed \/ records[k].status = StatusAt(records[k].id, Now)
    /\ \A r \in Logged : Cardinality(Ahead(r)) < Limit =>
         \/ r \in missed \/ OnScreen(r)
         \/ r \in givenUp /\ (hasty > 0 \/ ~InTime)

\* The client forgets a socket that is still open only when the page was opened
\* again before the close event of an old one: that event then clears ws.
ForgetsInHaste == Cardinality(InUse \ {ws}) <= hasty

\* While the page stays open and the server runs, the client gets a socket back.
Reconnects == <>[](up /\ mounted) => <>[](\E s \in SocketId : Open(s))

=============================================================================
