------------------------------ MODULE TcpManager ------------------------------
(***************************************************************************)
(* TcpManager: start, stop and send of the connection, the session each    *)
(* connection gets in connection_sessions, and the log rows of a session.  *)
(* It composes the server and the client adapter, which report to it.      *)
(***************************************************************************)
EXTENDS TcpServerAdapter, TcpClientAdapter

Init ==
  /\ adapter = <<>>
  /\ socket = <<>>
  /\ current = 0
  /\ sessionId = 0
  /\ sessions = <<>>
  /\ row = NoRow
  /\ writes = [s \in 1..MaxSockets |-> 0]
  /\ sends = 0
  /\ crashes = 0 /\ faults = 0
  /\ cutOff = {} /\ unended = {}

Stopped(a) == IF adapter[a].mode = "SERVER" THEN StoppedServer(a) ELSE StoppedClient(a)

\* stop() destroys the adapter's socket.
Destroyed(a) ==
  [s \in DOMAIN socket |->
     IF adapter[a].socket = s /\ socket[s].state # "closed"
     THEN [socket[s] EXCEPT !.state = "dying"] ELSE socket[s]]

\* stop().  When the report of the adapter throws, the manager keeps the adapter; a
\* start() that called stop() is rejected with it.
Stop(ok) ==
  /\ TurnEnds
  /\ current # 0
  /\ SetInfo(current, Stopped(current), ok)
  /\ socket' = Destroyed(current)
  /\ current' = IF ok THEN 0 ELSE current
  /\ UNCHANGED <<row, writes, sends, crashes, cutOff>>

\* A new adapter; a client connects at once, as socket number s.
Started(mode, reconnect, s) ==
  LET fresh == [mode |-> mode, reconnect |-> reconnect, status |-> "STOPPED",
                lastError |-> "none", server |-> "none", socket |-> 0,
                timer |-> FALSE, manualStop |-> FALSE]
  IN IF mode = "SERVER" THEN [fresh EXCEPT !.server = "pending"] ELSE Connecting(fresh, s)

\* start(): an adapter that is there is stopped first, in the same turn.  A client
\* reports CONNECTING when no session is left to end.
Start(mode, reconnect) ==
  LET new == Len(adapter) + 1
      state == Started(mode, reconnect, Len(socket) + 1)
      stopped == IF current = 0 THEN adapter
                 ELSE [adapter EXCEPT ![current] = Stopped(current)]
      kept == IF current = 0 THEN socket ELSE Destroyed(current)
  IN /\ TurnEnds
     /\ new <= MaxStarts
     /\ mode = "CLIENT" => Len(socket) < MaxSockets
     /\ current # 0 \/ mode = "CLIENT" =>
          HandleStatusChange(IF current = 0 THEN state ELSE stopped[current], TRUE)
     /\ current = 0 /\ mode = "SERVER" => UNCHANGED sessionVars
     /\ adapter' = Append(stopped, state)
     /\ socket' = IF mode = "CLIENT" THEN Append(kept, NewSocket(new, "connecting", TRUE, 0))
                  ELSE kept
     /\ current' = new
     /\ UNCHANGED <<row, writes, sends, crashes, cutOff>>

\* The process dies and is started again; nothing is connected, and the table
\* of sessions stays as it was.
Crash ==
  /\ crashes < MaxCrashes
  /\ adapter' = [a \in DOMAIN adapter |->
       [adapter[a] EXCEPT !.status = "STOPPED", !.server = "none", !.socket = 0,
                          !.timer = FALSE, !.manualStop = TRUE]]
  /\ socket' = [s \in DOMAIN socket |-> [socket[s] EXCEPT !.state = "closed"]]
  /\ current' = 0
  /\ sessionId' = 0
  /\ writes' = [s \in 1..MaxSockets |-> 0]
  /\ crashes' = crashes + 1
  /\ cutOff' = cutOff \cup ({sessionId} \ {0})
  /\ UNCHANGED <<sessions, row, sends, faults, unended>>

Next ==
  \/ Start("SERVER", FALSE)
  \/ \E reconnect \in BOOLEAN : Start("CLIENT", reconnect)
  \/ \E ok \in BOOLEAN : Stop(ok)
  \/ \E a \in DOMAIN adapter, ok \in BOOLEAN : ListenSucceeds(a, ok)
  \/ \E a \in DOMAIN adapter, ok \in BOOLEAN : ListenFails(a, ok)
  \/ \E a \in DOMAIN adapter, ok \in BOOLEAN : HandleConnection(a, ok)
  \/ \E s \in DOMAIN socket, ok \in BOOLEAN : ServerSocketCloses(s, ok)
  \/ \E s \in DOMAIN socket, ok \in BOOLEAN : Connects(s, ok)
  \/ \E s \in DOMAIN socket, ok \in BOOLEAN : ClientSocketCloses(s, ok)
  \/ \E a \in DOMAIN adapter, ok \in BOOLEAN : Reconnect(a, ok)
  \/ \E s \in DOMAIN socket, ok \in BOOLEAN : Receive(s, ok)
  \/ \E s \in DOMAIN socket, ok \in BOOLEAN : FrameError(s, ok)
  \/ \E s \in DOMAIN socket, ok \in BOOLEAN : SocketFails(s, ok)
  \/ \E s \in DOMAIN socket : PeerEnds(s)
  \/ SendFails
  \/ SendStarts
  \/ \E s \in DOMAIN socket, ok \in BOOLEAN : WriteSucceeds(s, ok)
  \/ \E s \in DOMAIN socket : WriteFails(s)
  \/ Crash

Spec == Init /\ [][Next]_vars

-----------------------------------------------------------------------------

\* getInfo().status, what the user is shown.
Shown == IF current = 0 THEN "STOPPED" ELSE adapter[current].status

\* Every variable holds what the code can put there.
TypeOK ==
  /\ adapter \in Seq(Adapter)
  /\ socket \in Seq(Socket)
  /\ current \in 0..Len(adapter)
  /\ sessionId \in 0..Len(sessions)
  /\ sessions \in Seq(Session)
  /\ row \in Row \cup {NoRow}
  /\ writes \in [1..MaxSockets -> Nat]
  /\ sends \in Nat /\ crashes \in Nat /\ faults \in Nat
  /\ cutOff \subseteq DOMAIN sessions /\ unended \subseteq DOMAIN sessions

\* The manager has a session while it shows a connection: no event of an adapter it
\* has left begins or ends one.  It has one at other times only when the UPDATE that
\* was to end that very session threw.  The sessions open in the table are that one,
\* and those of connections that a crash cut off: nobody ends them.
SessionsAccounted ==
  /\ Shown = "CONNECTED" => sessionId # 0
  /\ sessionId # 0 => Shown = "CONNECTED" \/ sessionId \in unended
  /\ \A n \in DOMAIN sessions :
       sessions[n].open <=> sessions[n].stored /\ (n = sessionId \/ n \in cutOff)

\* A row names the session of the socket its data went over, and no other socket has
\* that session, unless the UPDATE of the session threw: the next connection then
\* goes on with it.  Only a write whose callback runs after stop() took the socket
\* from the adapter is recorded without one.
RowsOfTheirSession ==
  row # NoRow =>
    IF row.socket = 0 THEN row.session \in {0} \cup unended
    ELSE \/ /\ row.session = socket[row.socket].session
            /\ \A s \in DOMAIN socket :
                 s # row.socket /\ row.session # 0 /\ socket[s].session = row.session =>
                   row.session \in unended
         \/ /\ row.session = 0 /\ row.direction = "TX"
            /\ adapter[socket[row.socket].owner].socket # row.socket

\* An adapter the manager has left (stop, or start of another) is quiet: it does
\* not listen, connect or receive, and has no reconnect timer (chapter 6.4 of
\* the specification: no reconnection after a stop by the user).
StoppedIsQuiet ==
  \A a \in DOMAIN adapter : a # current =>
    /\ adapter[a].server = "none" /\ ~adapter[a].timer
    /\ \A s \in DOMAIN socket : socket[s].owner = a => socket[s].state \in {"dying", "closed"}

\* When a connection broke, its session tells so once it has ended; one whose UPDATE
\* threw may end later, for another reason.
BreakIsTheReason ==
  \A s \in DOMAIN socket :
    /\ socket[s].failed /\ socket[s].session # 0
    /\ sessions[socket[s].session].stored /\ ~sessions[socket[s].session].open
    => \/ sessions[socket[s].session].reason = "net"
       \/ socket[s].session \in unended

\* A client that was started and not stopped has a socket or a timer that will make
\* the next attempt; without reconnection it shows ERROR instead.  A server that
\* listens is free for the next client, or will be.  Nothing but a statement that
\* threw ends that: the UPDATE of the session a client still has, the INSERT of the
\* session a server has.
NeverAbandoned ==
  current # 0 =>
    LET a == adapter[current]
    IN /\ a.mode = "CLIENT" /\ ~a.manualStop =>
            \/ a.socket # 0
            \/ a.reconnect /\ a.timer
            \/ ~a.reconnect /\ a.status = "ERROR"
            \/ sessionId \in unended
       /\ a.mode = "SERVER" /\ a.server = "listening" =>
            \/ a.socket = 0
            \/ socket[a.socket].state # "closed"
            \/ sessionId # 0 /\ ~sessions[sessionId].stored

-----------------------------------------------------------------------------

\* Chapter 5.1 of the specification: STOPPED is "not started, or stopped by the
\* user".  With a host name to bind to, a stop() during listen() is forgotten.
StoppedMeansStopped ==
  current = 0 => \A a \in DOMAIN adapter : adapter[a].server # "listening"
=============================================================================
