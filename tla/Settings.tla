------------------------------- MODULE Settings -------------------------------
(***************************************************************************)
(* The settings of the connection and of storage: api/settings.ts and      *)
(* api/connection.ts over one row each, and the screens that change them:  *)
(* ConnectionSettingsPage, StorageSettingsPage and the start and stop      *)
(* buttons of MonitorPage.                                                 *)
(*                                                                         *)
(* A screen keeps a copy of the whole row in its form and saves the whole  *)
(* copy.  Its requests are handled one at a time, but arrive, and are      *)
(* answered, in any order; those of a screen that was left go on without   *)
(* it.  The handlers of start and stop run in one turn, as in TcpManager:  *)
(* a bind address is an IP address.                                        *)
(*                                                                         *)
(* A definition named X_Y is X with the plausible bug Y.  No specification *)
(* uses it: it shows which property would notice the bug.                  *)
(***************************************************************************)
EXTENDS Integers, Sequences, SequencesExt

CONSTANTS
  Page,                                            \* screens the browsers can have open
  MaxVisits, MaxEdits, MaxSubmits, MaxCommands     \* bounds

ASSUME SettingsAssumption ==
  MaxVisits \in Nat /\ MaxEdits \in Nat /\ MaxSubmits \in Nat /\ MaxCommands \in Nat

Kind == {"connection", "storage"}

\* A setting has the value of the program's default, 0, or one that a user typed.
\* The form of StorageSettingsPage begins without a folder.
Field == {"place", "rest"}
Blank == -1
Value == -1..MaxEdits
Defaults == [f \in Field |-> 0]
DefaultForm(screen) == IF screen = "storage" THEN [Defaults EXCEPT !["place"] = Blank] ELSE Defaults

VARIABLES
  row,       \* the settings of each kind in the database
  version,   \* history: how often each was saved
  running,   \* does getInfo() show a status other than STOPPED?
  active,    \* the version of the profile the manager was started with last
  page,      \* the screens, see Opened
  visits, edits, submits, commands

server == <<row, version, running, active>>
bounds == <<visits, edits, submits, commands>>
vars == <<server, page, bounds>>

\* form, needsRestart and notice are the screen's state; get, puts and command
\* what it waits for.  The rest is history: the fields typed since the form was
\* last replaced; whether another screen saved since this one read the row;
\* whether it submitted while it waited for another answer with the row; whether
\* its save was handled between a start and the answer to it; the version of the
\* latest save it has the answer to, and the one it had when it asked for a restart.
Opened(s) ==
  [screen |-> s, form |-> DefaultForm(s), needsRestart |-> FALSE, notice |-> "none",
   get |-> IF s \in Kind THEN "sent" ELSE "done", read |-> Defaults,
   puts |-> <<>>, command |-> "none",
   touched |-> {}, stale |-> TRUE, crossed |-> FALSE, raced |-> FALSE, seen |-> 0, pressed |-> 0]
NoPage == Opened("none")

Init ==
  /\ row = [k \in Kind |-> Defaults] /\ version = [k \in Kind |-> 0]
  /\ running = FALSE /\ active = 0
  /\ page = [p \in Page |-> NoPage]
  /\ visits = 0 /\ edits = 0 /\ submits = 0 /\ commands = 0

\* Screen p changes in the fields that new names.
Updated(old, new) == [x \in DOMAIN old |-> IF x \in DOMAIN new THEN new[x] ELSE old[x]]
Becomes(p, new) == page' = [page EXCEPT ![p] = Updated(@, new)]
Idle(p) == page[p].puts = <<>> /\ page[p].command = "none"

-----------------------------------------------------------------------------
(* A screen is opened, and left with what it waits for.                    *)

Open(p, s) ==
  /\ page[p].screen = "none" /\ Idle(p) /\ visits < MaxVisits
  /\ visits' = visits + 1
  /\ Becomes(p, Opened(s))
  /\ UNCHANGED <<server, edits, submits, commands>>

Leave(p) ==
  /\ page[p].screen # "none"
  /\ Becomes(p, [NoPage EXCEPT !.puts = page[p].puts, !.command = page[p].command])
  /\ UNCHANGED <<server, bounds>>

-----------------------------------------------------------------------------
(* The row is read.                                                        *)

AnswerGet(p) ==
  /\ page[p].get = "sent"
  /\ Becomes(p, [get |-> "answered", read |-> row[page[p].screen], stale |-> FALSE])
  /\ UNCHANGED <<server, bounds>>

\* The answer replaces the form, and what was typed meanwhile.
GetArrives(p) ==
  /\ page[p].get = "answered"
  /\ Becomes(p, [get |-> "done", read |-> Defaults, form |-> page[p].read, touched |-> {}])
  /\ UNCHANGED <<server, bounds>>

\* The form stays as it is, and can be submitted.
GetFails(p) ==
  /\ page[p].get # "done"
  /\ Becomes(p, [get |-> "done", read |-> Defaults, stale |-> TRUE])
  /\ UNCHANGED <<server, bounds>>

-----------------------------------------------------------------------------
(* The form is typed in and saved.                                         *)

Edit(p, f) ==
  /\ page[p].screen \in Kind /\ edits < MaxEdits
  /\ edits' = edits + 1
  /\ Becomes(p, [form |-> [page[p].form EXCEPT ![f] = edits + 1], touched |-> page[p].touched \cup {f}])
  /\ UNCHANGED <<server, visits, submits, commands>>

\* Only StorageSettingsPage disables its button while a save is on its way.
CanSubmit_Always(p) == TRUE
CanSubmit(p) == page[p].screen = "storage" => page[p].puts = <<>>

Submit(p) ==
  LET put == [at |-> "sent", kind |-> page[p].screen, values |-> page[p].form,
              typed |-> page[p].touched, version |-> 0, running |-> FALSE]
  IN /\ page[p].screen \in Kind /\ CanSubmit(p) /\ submits < MaxSubmits
     /\ submits' = submits + 1
     /\ Becomes(p, [puts |-> Append(page[p].puts, put), notice |-> "none",
                    crossed |-> \/ page[p].crossed \/ page[p].get # "done"
                                \/ page[p].screen = "connection" /\ page[p].puts # <<>>])
     /\ UNCHANGED <<server, visits, edits, commands>>

StartDue == \E p \in Page : page[p].command \in {"started", "refused"}
Written_OnlyTyped(put) == [f \in Field |-> IF f \in put.typed THEN put.values[f] ELSE 0]
Written(put) == put.values
Saved(put) == [row EXCEPT ![put.kind] = Written(put)]

\* validateInput and validateStorageInput.
Valid(put) == put.values["place"] # Blank

\* The handler of PUT, for the n-th request that screen p waits for: it saves
\* and reads back the whole row.
AnswerPut(p, n) ==
  LET put == page[p].puts[n]
      k == put.kind
      answer == [put EXCEPT !.at = "answered", !.values = Written(put),
                            !.version = version[k] + 1, !.running = running]
  IN /\ put.at = "sent" /\ Valid(put)
     /\ row' = Saved(put)
     /\ version' = [version EXCEPT ![k] = @ + 1]
     /\ page' = [q \in Page |->
          IF q = p THEN [page[q] EXCEPT !.puts[n] = answer, !.stale = page[q].screen = "none",
                                        !.raced = @ \/ (k = "connection" /\ StartDue)]
          ELSE [page[q] EXCEPT !.stale = @ \/ page[q].screen = k]]
     /\ UNCHANGED <<running, active, bounds>>

\* Its answer replaces the form, and what was typed meanwhile.
PutArrives(p, n) ==
  LET put == page[p].puts[n]
      rest == RemoveAt(page[p].puts, n)
  IN /\ put.at = "answered"
     /\ Becomes(p,
          IF page[p].screen = "none" THEN [puts |-> rest]
          ELSE [puts |-> rest, form |-> put.values, touched |-> {},
                seen |-> Max({page[p].seen, put.version}),
                needsRestart |-> page[p].screen = "connection" /\ put.running,
                notice |-> "saved"])
     /\ UNCHANGED <<server, bounds>>

\* It is refused, or it or its answer is lost: the screen only says so.
PutFails(p, n) ==
  /\ Becomes(p, [puts |-> RemoveAt(page[p].puts, n)])
  /\ UNCHANGED <<server, bounds>>

-----------------------------------------------------------------------------
(* The connection is started, stopped and restarted.                       *)

\* The buttons: restart on the connection screen, start and stop on the monitor.
Press(p, c) ==
  /\ page[p].command = "none" /\ commands < MaxCommands
  /\ \/ page[p].screen = "connection" /\ page[p].needsRestart /\ c = "stop"
     \/ page[p].screen = "monitor" /\ c \in {"stop", "start"}
  /\ commands' = commands + 1
  /\ Becomes(p, [command |-> IF page[p].screen = "connection" THEN "restart" ELSE c,
                 pressed |-> page[p].seen])
  /\ UNCHANGED <<server, visits, edits, submits>>

\* POST /connection/stop.
AnswerStop(p) ==
  /\ page[p].command \in {"restart", "stop"}
  /\ running' = FALSE
  /\ Becomes(p, [command |-> IF page[p].command = "restart" THEN "stopped" ELSE "ended"])
  /\ UNCHANGED <<row, version, active, bounds>>

\* restart() goes on, with or without its screen.
StopArrives(p) ==
  /\ page[p].command = "stopped"
  /\ Becomes(p, [command |-> "start"])
  /\ UNCHANGED <<server, bounds>>

\* POST /connection/start reads the row; the manager keeps its profile, and a
\* status other than STOPPED, even when the adapter cannot start.
Profile == version["connection"]
AnswerStart(p, ok) ==
  /\ page[p].command = "start"
  /\ running' = TRUE /\ active' = Profile
  /\ Becomes(p, [command |-> IF ok THEN "started" ELSE "refused"])
  /\ UNCHANGED <<row, version, bounds>>

Hint_Cleared(p) == FALSE
Hint(p) == page[p].needsRestart

\* The last answer: only the connection screen says that it has restarted.
CommandEnds(p) ==
  /\ page[p].command \in {"started", "ended"}
  /\ Becomes(p, IF page[p].screen = "connection"
                THEN [command |-> "none", needsRestart |-> FALSE, notice |-> "restarted"]
                ELSE [command |-> "none"])
  /\ UNCHANGED <<server, bounds>>

\* A call fails, or its answer is lost.
CommandFails(p) ==
  /\ page[p].command # "none"
  /\ Becomes(p, [command |-> "none", needsRestart |-> Hint(p)])
  /\ UNCHANGED <<server, bounds>>

-----------------------------------------------------------------------------

Next ==
  \E p \in Page :
    \/ \E s \in Kind \cup {"monitor"} : Open(p, s)
    \/ Leave(p) \/ AnswerGet(p) \/ GetArrives(p) \/ GetFails(p)
    \/ \E f \in Field : Edit(p, f)
    \/ Submit(p)
    \/ \E n \in DOMAIN page[p].puts : AnswerPut(p, n) \/ PutArrives(p, n) \/ PutFails(p, n)
    \/ \E c \in {"start", "stop"} : Press(p, c)
    \/ AnswerStop(p) \/ StopArrives(p) \/ CommandEnds(p) \/ CommandFails(p)
    \/ \E ok \in BOOLEAN : AnswerStart(p, ok)

Spec == Init /\ [][Next]_vars

-----------------------------------------------------------------------------

Form == [Field -> Value]
Put == [at: {"sent", "answered"}, kind: Kind, values: Form, typed: SUBSET Field,
        version: Nat, running: BOOLEAN]
Commands == {"none", "restart", "stopped", "stop", "start", "started", "refused", "ended"}

\* Every variable holds what the code can put there; the row always has a folder.
TypeOK ==
  /\ row \in [Kind -> [Field -> Value \ {Blank}]] /\ version \in [Kind -> Nat]
  /\ running \in BOOLEAN /\ active \in 0..version["connection"]
  /\ \A p \in Page :
       /\ page[p].screen \in Kind \cup {"monitor", "none"} /\ page[p].form \in Form
       /\ page[p].get \in {"done", "sent", "answered"} /\ page[p].read \in Form
       /\ page[p].puts \in Seq(Put) /\ page[p].command \in Commands
       /\ page[p].notice \in {"none", "saved", "restarted"}
       /\ page[p].touched \subseteq Field
       /\ {page[p].needsRestart, page[p].stale, page[p].crossed, page[p].raced} \subseteq BOOLEAN
       /\ {page[p].seen, page[p].pressed} \subseteq Nat
  /\ {visits, edits, submits, commands} \subseteq Nat

\* A form at rest in which nobody has typed shows the row, if no other screen
\* has saved since and it never had two answers with the row on their way: the
\* one that comes last need not be the newer.
FormIsRow ==
  \A p \in Page :
    /\ page[p].screen \in Kind /\ page[p].get = "done" /\ page[p].puts = <<>>
    /\ page[p].touched = {} /\ ~page[p].stale /\ ~page[p].crossed
    => page[p].form = row[page[p].screen]

\* A screen that has saved knows while the connection runs with older settings
\* (TCP-05): it asks for a restart, or it will when the answer comes.  It does
\* not when the save was handled between a start and the answer to it, or when
\* the answers to two saves came in the wrong order.  After the notice that it has
\* restarted, the connection runs with what the screen had saved when it asked
\* for that, or with something newer, whatever the other screens do meanwhile.
OldProfileIsHinted ==
  \A p \in Page :
    /\ /\ page[p].screen = "connection" /\ page[p].puts = <<>>
       /\ running /\ active < page[p].seen /\ ~page[p].raced /\ ~page[p].crossed
       => page[p].needsRestart
    /\ page[p].notice = "restarted" => page[p].pressed <= active

\* The save in this step, if there is one, changes settings that were not typed.
Overwrites(p, n) ==
  LET put == page[p].puts[n]
  IN /\ version' # version /\ put.at = "sent" /\ page'[p].puts[n].at = "answered"
     /\ \E f \in Field \ put.typed : row'[put.kind][f] # row[put.kind][f]

\* A save changes only what the user has typed, unless its form was older than
\* the row, or not the row at all.
SavesWhatIsTyped ==
  [][\A p \in Page : \A n \in DOMAIN page[p].puts :
       Overwrites(p, n) => page[p].stale \/ page[p].crossed]_vars

=============================================================================
