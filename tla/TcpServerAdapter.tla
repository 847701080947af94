--------------------------- MODULE TcpServerAdapter ---------------------------
(***************************************************************************)
(* TcpServerAdapter: one listening server and at most one client socket.   *)
(***************************************************************************)
EXTENDS TcpCore

PortTaken == \E a \in DOMAIN adapter : adapter[a].server = "listening"

\* The callback of listen().
ListenSucceeds(a, ok) ==
  /\ adapter[a].server = "pending"
  /\ ~PortTaken
  /\ SetInfo(a, [adapter[a] EXCEPT !.server = "listening", !.status = "LISTENING",
                                   !.lastError = "none"], ok)
  /\ UNCHANGED <<socket, current, row, writes, sends, crashes, cutOff>>

\* The error event of the server: the port is taken (by whomever), the address
\* is wrong or permission is missing.
ListenFails(a, ok) ==
  /\ adapter[a].server = "pending"
  /\ SetInfo(a, [adapter[a] EXCEPT !.server = "none", !.status = "ERROR",
                                   !.lastError = "net"], ok)
  /\ UNCHANGED <<socket, current, row, writes, sends, crashes, cutOff>>

\* The single-client policy: another client is refused, and nothing changes.
Free_Always(a) == TRUE
Free(a) == adapter[a].socket = 0

\* handleConnection.  The listeners of the socket are registered after the report.
HandleConnection(a, ok) ==
  /\ TurnEnds /\ Swept
  /\ adapter[a].server = "listening"
  /\ Free(a)
  /\ Len(socket) < MaxSockets
  /\ SetInfo(a, [adapter[a] EXCEPT !.socket = Len(socket) + 1, !.status = "CONNECTED",
                                   !.lastError = "none"], ok)
  /\ socket' = Append(socket, NewSocket(a, "open", ok, sessionId'))
  /\ UNCHANGED <<current, row, writes, sends, crashes, cutOff>>

\* The close event of a client socket; its writes have had their callbacks.  A
\* socket without a listener ends unnoticed.
ServerSocketCloses(s, ok) ==
  LET a == socket[s].owner
      freed == [adapter[a] EXCEPT !.socket = 0]
  IN /\ TurnEnds
     /\ socket[s].state = "dying" /\ adapter[a].mode = "SERVER" /\ writes[s] = 0
     /\ socket' = [socket EXCEPT ![s].state = "closed"]
     /\ \/ /\ socket[s].handled /\ adapter[a].server = "listening"
           /\ SetInfo(a, [freed EXCEPT !.status = "LISTENING"], ok)
        \/ /\ socket[s].handled /\ adapter[a].server # "listening" /\ ok
           /\ adapter' = [adapter EXCEPT ![a] = freed]
           /\ UNCHANGED sessionVars
        \/ ~socket[s].handled /\ ok /\ UNCHANGED <<adapter, sessionVars>>
     /\ UNCHANGED <<current, row, writes, sends, crashes, cutOff>>

\* The state stop() leaves; a listen() that is pending is not closed, because
\* this.server is set only by its callback.
StoppedServer(a) ==
  [adapter[a] EXCEPT !.status = "STOPPED", !.socket = 0,
                     !.server = IF @ = "listening" THEN "none" ELSE @]
=============================================================================
