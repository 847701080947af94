--------------------------- MODULE TcpClientAdapter ---------------------------
(***************************************************************************)
(* TcpClientAdapter: one outgoing socket at a time, and a timer for the    *)
(* next attempt.  The connect timeout is one of the ways a socket fails.   *)
(***************************************************************************)
EXTENDS TcpCore

\* The state connect() reports, for socket number s.
Connecting(state, s) ==
  [state EXCEPT !.status = "CONNECTING", !.lastError = "none", !.socket = s]

\* The connect event.  Whether Node.js reads from a socket whose listener threw here
\* is left open.
Connects(s, ok) ==
  /\ TurnEnds /\ Swept
  /\ socket[s].state = "connecting"
  /\ SetInfo(socket[s].owner, [adapter[socket[s].owner] EXCEPT !.status = "CONNECTED",
                                                               !.lastError = "none"], ok)
  /\ socket' = [socket EXCEPT ![s].state = "open", ![s].session = sessionId']
  /\ UNCHANGED <<current, row, writes, sends, crashes, cutOff>>

\* scheduleReconnect: the timer is set after the report.
ScheduleReconnect_CleanOnly(state, ok) ==
  IF state.reconnect
  THEN [state EXCEPT !.status = "RECONNECTING", !.timer = ok /\ state.lastError = "none"]
  ELSE [state EXCEPT !.status = "ERROR"]
ScheduleReconnect(state, ok) ==
  IF state.reconnect
  THEN [state EXCEPT !.status = "RECONNECTING", !.timer = ok]
  ELSE [state EXCEPT !.status = "ERROR"]

\* The close event; its writes have had their callbacks.
ClientSocketCloses(s, ok) ==
  LET a == socket[s].owner
      freed == [adapter[a] EXCEPT !.socket = 0]
  IN /\ TurnEnds
     /\ socket[s].state = "dying" /\ adapter[a].mode = "CLIENT" /\ writes[s] = 0
     /\ socket' = [socket EXCEPT ![s].state = "closed"]
     /\ \/ /\ adapter[a].manualStop /\ ok
           /\ adapter' = [adapter EXCEPT ![a] = freed]
           /\ UNCHANGED sessionVars
        \/ /\ ~adapter[a].manualStop
           /\ SetInfo(a, ScheduleReconnect(freed, ok), ok)
     /\ UNCHANGED <<current, row, writes, sends, crashes, cutOff>>

\* The reconnect timer fires; connect() makes the socket after the report.
Reconnect(a, ok) ==
  LET fired == [adapter[a] EXCEPT !.timer = FALSE]
  IN /\ TurnEnds
     /\ adapter[a].timer
     /\ Len(socket) < MaxSockets
     /\ SetInfo(a, Connecting(fired, IF ok THEN Len(socket) + 1 ELSE fired.socket), ok)
     /\ socket' = IF ok THEN Append(socket, NewSocket(a, "connecting", TRUE, 0)) ELSE socket
     /\ UNCHANGED <<current, row, writes, sends, crashes, cutOff>>

\* The state stop() leaves.
StoppedClient_KeepsTimer(a) ==
  [adapter[a] EXCEPT !.status = "STOPPED", !.socket = 0, !.manualStop = TRUE]
StoppedClient(a) ==
  [adapter[a] EXCEPT !.status = "STOPPED", !.socket = 0, !.manualStop = TRUE,
                     !.timer = FALSE]
=============================================================================
