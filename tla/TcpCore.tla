------------------------------- MODULE TcpCore -------------------------------
(***************************************************************************)
(* What the TCP manager and its adapters share: the adapters created so    *)
(* far, their sockets, the manager's session and the rows it writes.       *)
(*                                                                         *)
(* One action is one turn of the event loop, with the nextTick and promise *)
(* callbacks it leads to.  A destroyed socket stays "dying" until the loop *)
(* runs its close event, and other turns may come in between.              *)
(*                                                                         *)
(* A statement of the database may throw (it is busy, the disk is full).   *)
(* No handler of an adapter catches: what follows the statement in it is   *)
(* skipped, and the packaged program goes on with the next event.  `ok' is *)
(* FALSE in a step whose statement on connection_sessions throws.          *)
(*                                                                         *)
(* A definition named X_Y is X with the plausible bug Y.  No specification *)
(* uses it: it shows which property would notice the bug.                  *)
(***************************************************************************)
EXTENDS Integers, Sequences

CONSTANTS
  MaxStarts,   \* bound: adapters created
  MaxSockets,  \* bound: sockets created or accepted
  MaxSends,    \* bound: send requests
  MaxCrashes,  \* bound: process deaths
  MaxFaults,   \* bound: statements on connection_sessions that throw
  SlowLookup   \* bindAddress is a host name: listen() waits for the resolver

ASSUME BoundAssumption ==
  /\ {MaxStarts, MaxSockets, MaxSends, MaxCrashes, MaxFaults} \subseteq Nat
  /\ SlowLookup \in BOOLEAN

Mode == {"SERVER", "CLIENT"}
ConnectionStatus ==
  {"STOPPED", "LISTENING", "CONNECTING", "CONNECTED", "RECONNECTING", "ERROR"}
LastError == {"none", "frame", "net"}

VARIABLES
  adapter,    \* the adapters, in the order of their creation
  socket,     \* the sockets, in the order of their creation
  current,    \* TcpManager.adapter, as an index; 0 is null
  sessionId,  \* TcpManager.sessionId, as an index of sessions; 0 is null
  sessions,   \* the table connection_sessions
  row,        \* the row of log_records written last, and its socket
  writes,     \* send requests whose write callback has not run, by socket
  sends, crashes, faults,
  cutOff,     \* history: sessions whose process died
  unended     \* history: sessions whose UPDATE threw, once at least

vars == <<adapter, socket, current, sessionId, sessions, row, writes, sends, crashes, faults,
          cutOff, unended>>
sessionVars == <<sessionId, sessions, faults, unended>>

Adapter == [mode: Mode, reconnect: BOOLEAN,
            status: ConnectionStatus, lastError: LastError,
            server: {"none", "pending", "listening"},
            socket: Nat, timer: BOOLEAN, manualStop: BOOLEAN]
Socket == [owner: Nat, state: {"connecting", "open", "dying", "closed"},
           failed: BOOLEAN, handled: BOOLEAN, session: Nat]
Session == [stored: BOOLEAN, open: BOOLEAN,
            reason: {"none", "disconnected", "frame", "net"}]
NoRow == [direction |-> "none"]
Row == [direction: {"RX", "TX"}, status: {"COMPLETED", "FAILED"},
        session: Nat, socket: Nat]

-----------------------------------------------------------------------------

\* handleStatusChange begins a session, or ends the one there is.
Begins_NoGuard(info) == info.status = "CONNECTED"
Begins(info) == info.status = "CONNECTED" /\ sessionId = 0
Ends(info) == info.status # "CONNECTED" /\ sessionId # 0

Reason_Plain(info) == "disconnected"
Reason(info) == IF info.lastError = "none" THEN "disconnected" ELSE info.lastError

\* The UPDATE, which finds no row when the INSERT threw.
Ended(session, info) ==
  IF session.stored THEN [session EXCEPT !.open = FALSE, !.reason = Reason(info)] ELSE session

\* handleStatusChange, for the information an adapter reports.  sessionId is set
\* before the INSERT and cleared after the UPDATE: a throw leaves an id without a
\* row, or the id of a session that should be over.
HandleStatusChange(info, ok) ==
  /\ \/ /\ Begins(info)
        /\ sessions' = Append(sessions, [stored |-> ok, open |-> ok, reason |-> "none"])
        /\ sessionId' = Len(sessions')
        /\ UNCHANGED unended
     \/ /\ Ends(info) /\ ok
        /\ sessions' = [sessions EXCEPT ![sessionId] = Ended(sessions[sessionId], info)]
        /\ sessionId' = 0
        /\ UNCHANGED unended
     \/ /\ Ends(info) /\ ~ok
        /\ unended' = unended \cup {sessionId}
        /\ UNCHANGED <<sessionId, sessions>>
     \/ /\ ~Begins(info) /\ ~Ends(info) /\ ok
        /\ UNCHANGED <<sessionId, sessions, unended>>
  /\ ~ok => faults < MaxFaults
  /\ faults' = IF ok THEN faults ELSE faults + 1

\* setInfo: the adapter keeps its new state and reports it to the manager.
SetInfo(a, state, ok) ==
  /\ adapter' = [adapter EXCEPT ![a] = state]
  /\ HandleStatusChange(state, ok)

\* recordLog, for the session the manager has now.  One of its statements may
\* throw; the INSERT does when the session it names has no row (foreign_keys = ON).
RecordLog(direction, status, s) ==
  \/ UNCHANGED row
  \/ /\ sessionId' # 0 => sessions'[sessionId'].stored
     /\ row' = [direction |-> direction, status |-> status,
                session |-> sessionId', socket |-> s]

\* A bindAddress that is an IP address is bound in the turn of listen() itself.
TurnEnds ==
  SlowLookup \/ \A a \in DOMAIN adapter : adapter[a].server # "pending"

\* The loop runs the close event of a socket that stop() destroyed at the end
\* of that turn, before any event of a socket made after it.
Swept ==
  \A s \in DOMAIN socket : socket[s].state = "dying" => socket[s].owner = current

\* handled: are the listeners for data, error and close registered?
NewSocket(a, state, handled, session) ==
  [owner |-> a, state |-> state, failed |-> FALSE, handled |-> handled, session |-> session]

-----------------------------------------------------------------------------
(* Events of a connected socket, the same for both adapters.               *)

\* "data": the framer delivers a message, which the manager records.
Receive(s, ok) ==
  /\ TurnEnds
  /\ socket[s].state = "open" /\ socket[s].handled
  /\ SetInfo(socket[s].owner, adapter[socket[s].owner], ok)
  /\ IF ok THEN RecordLog("RX", "COMPLETED", s) ELSE UNCHANGED row
  /\ UNCHANGED <<socket, current, writes, sends, crashes, cutOff>>

\* The framer reports an oversize message.
FrameError(s, ok) ==
  /\ TurnEnds
  /\ socket[s].state = "open" /\ socket[s].handled
  /\ SetInfo(socket[s].owner, [adapter[socket[s].owner] EXCEPT !.lastError = "frame"], ok)
  /\ UNCHANGED <<socket, current, row, writes, sends, crashes, cutOff>>

\* "error": the connection breaks, or could not be made; "close" will follow.
SocketFails(s, ok) ==
  /\ TurnEnds
  /\ socket[s].state \in {"connecting", "open"}
  /\ socket' = [socket EXCEPT ![s].state = "dying", ![s].failed = TRUE]
  /\ \/ /\ socket[s].handled
        /\ SetInfo(socket[s].owner, [adapter[socket[s].owner] EXCEPT !.lastError = "net"], ok)
     \/ ~socket[s].handled /\ ok /\ UNCHANGED <<adapter, sessionVars>>
  /\ UNCHANGED <<current, row, writes, sends, crashes, cutOff>>

\* The peer ends the connection; "close" will follow.
PeerEnds(s) ==
  /\ TurnEnds
  /\ socket[s].state = "open"
  /\ socket' = [socket EXCEPT ![s].state = "dying"]
  /\ UNCHANGED <<adapter, current, sessionVars, row, writes, sends, crashes, cutOff>>

-----------------------------------------------------------------------------
(* send(): the same in both adapters.                                      *)

CanWrite(a) ==
  /\ adapter[a].socket # 0
  /\ adapter[a].mode = "CLIENT" => adapter[a].status = "CONNECTED"

\* No connection, or one whose socket is already destroyed: recorded at once.
SendFails ==
  /\ TurnEnds
  /\ current # 0
  /\ sends < MaxSends
  /\ sends' = sends + 1
  /\ UNCHANGED <<adapter, socket, current, sessionVars, writes, crashes, cutOff>>
  /\ \/ ~CanWrite(current) /\ RecordLog("TX", "FAILED", 0)
     \/ /\ CanWrite(current)
        /\ socket[adapter[current].socket].state \in {"dying", "closed"}
        /\ RecordLog("TX", "FAILED", adapter[current].socket)

SendStarts ==
  /\ TurnEnds
  /\ current # 0
  /\ sends < MaxSends
  /\ CanWrite(current) /\ socket[adapter[current].socket].state = "open"
  /\ writes' = [writes EXCEPT ![adapter[current].socket] = @ + 1]
  /\ sends' = sends + 1
  /\ UNCHANGED <<adapter, socket, current, sessionVars, row, crashes, cutOff>>

\* The write callback.  For a destroyed socket it may report either outcome.  A
\* record that throws is tried again as a failure; a report that throws leaves
\* send() without an end.
WriteSucceeds(s, ok) ==
  /\ TurnEnds
  /\ writes[s] > 0
  /\ writes' = [writes EXCEPT ![s] = @ - 1]
  /\ SetInfo(socket[s].owner, adapter[socket[s].owner], ok)
  /\ IF ok THEN \E status \in {"COMPLETED", "FAILED"} : RecordLog("TX", status, s)
     ELSE UNCHANGED row
  /\ UNCHANGED <<socket, current, sends, crashes, cutOff>>

WriteFails(s) ==
  /\ TurnEnds
  /\ writes[s] > 0 /\ socket[s].state = "dying"
  /\ writes' = [writes EXCEPT ![s] = @ - 1]
  /\ UNCHANGED <<adapter, socket, current, sessionVars, sends, crashes, cutOff>>
  /\ RecordLog("TX", "FAILED", s)
=============================================================================
