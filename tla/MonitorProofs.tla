---------------------------- MODULE MonitorProofs ----------------------------
(***************************************************************************)
(* Theorems about Monitor, for any number of sockets, records, events,     *)
(* visits and breaks, and any sizes of the answer to GET /logs and of the  *)
(* screen.                                                                 *)
(*                                                                         *)
(* TypeInv says that the log is a list of events in which the records are  *)
(* numbered as they come, OrderType that each has a place by its time;     *)
(* HasteInv counts the sockets the client may have forgotten or may still  *)
(* forget.  ScreenInv relates the rows to what is on its way (Pending) and *)
(* to what the visit may have missed.  The answer to GET /logs leaves a    *)
(* record out only if a full answer is Ahead of it.  The hard part is which *)
(* row a full screen gives up: InOrder says how the rows of the answer and *)
(* those delivered since lie, while there is one socket at a time and the  *)
(* clock was never set back; otherwise givenUp remembers the row.          *)
(***************************************************************************)
EXTENDS Monitor, SequenceTheorems, FiniteSetTheorems, WellFoundedInduction, TLAPS

-----------------------------------------------------------------------------
(* The log as a list of events.                                            *)

\* The places of the records among the first k events of a list.
News(ev, k) == {i \in 1..k : ev[i].type = "created"}
Count(ev, k) == Cardinality(News(ev, k))

\* The records are numbered as they come, and every event is of a record.
LogFits(ev) ==
  /\ \A i \in 1..Len(ev) :
       ev[i].type = "created" => ev[i].id = Count(ev, i) /\ ev[i].status = "none"
  /\ \A i, j \in 1..Len(ev) : i < j /\ ev[j].type = "created" => ev[i].id < ev[j].id
  /\ \A i \in 1..Len(ev) : ev[i].id \in 1..Count(ev, Len(ev))
  /\ \A r \in 1..Count(ev, Len(ev)) :
       \E i \in 1..Len(ev) : ev[i].type = "created" /\ ev[i].id = r

\* What counting the records among the first events gives.
LEMMA Counting ==
  ASSUME NEW ev
  PROVE  /\ Count(ev, 0) = 0
         /\ \A k \in Nat : Count(ev, k) \in Nat
         /\ \A k \in Nat : Count(ev, k + 1) =
              IF ev[k + 1].type = "created" THEN Count(ev, k) + 1 ELSE Count(ev, k)
         /\ \A j, k \in Nat : j <= k => Count(ev, j) <= Count(ev, k)
<1>1. \A k \in Nat : IsFiniteSet(News(ev, k)) /\ Count(ev, k) \in Nat
  <2> TAKE k \in Nat
  <2>1. IsFiniteSet(1..k) /\ News(ev, k) \in SUBSET (1..k)
    BY FS_Interval DEF News
  <2>2. IsFiniteSet(News(ev, k))
    BY <2>1, FS_Subset
  <2> QED
    BY <2>2, FS_CardinalityType DEF Count
<1>2. Count(ev, 0) = 0
  <2>1. News(ev, 0) = {}
    BY DEF News
  <2> QED
    BY <2>1, FS_EmptySet DEF Count
<1>3. ASSUME NEW k \in Nat
      PROVE  Count(ev, k + 1) =
               IF ev[k + 1].type = "created" THEN Count(ev, k) + 1 ELSE Count(ev, k)
  <2>1. CASE ev[k + 1].type = "created"
    <3>1. News(ev, k + 1) = News(ev, k) \cup {k + 1} /\ k + 1 \notin News(ev, k)
      BY <2>1 DEF News
    <3> QED
      BY <1>1, <2>1, <3>1, FS_AddElement DEF Count
  <2>2. CASE ev[k + 1].type # "created"
    <3>1. News(ev, k + 1) = News(ev, k)
      BY <2>2 DEF News
    <3> QED
      BY <2>2, <3>1 DEF Count
  <2> QED
    BY <2>1, <2>2
<1>4. ASSUME NEW j \in Nat, NEW k \in Nat, j <= k
      PROVE  Count(ev, j) <= Count(ev, k)
  <2>1. News(ev, j) \in SUBSET News(ev, k)
    BY <1>4 DEF News
  <2> QED
    BY <1>1, <2>1, FS_Subset DEF Count
<1> QED
  BY <1>1, <1>2, <1>3, <1>4

\* Two lists that begin alike have counted the same so far.
LEMMA SameCount ==
  ASSUME NEW ev, NEW fv, NEW k \in Nat, \A i \in 1..k : fv[i] = ev[i]
  PROVE  Count(fv, k) = Count(ev, k)
<1>1. News(fv, k) = News(ev, k)
  BY DEF News
<1> QED
  BY <1>1 DEF Count

\* The next record gets the next number; a file is of a record that is there.
Follows(ev, e) ==
  \/ e.type = "created" /\ e.id = Count(ev, Len(ev)) + 1 /\ e.status = "none"
  \/ e.type # "created" /\ e.id \in 1..Count(ev, Len(ev))

More(ev, fv, e) ==
  /\ LogFits(fv) /\ fv \in Seq(Event) /\ Len(fv) = Len(ev) + 1
  /\ \A i \in 1..Len(ev) : fv[i] = ev[i]
  /\ Count(fv, Len(fv)) = IF e.type = "created" THEN Count(ev, Len(ev)) + 1
                          ELSE Count(ev, Len(ev))

\* A list that fits goes on fitting with an event that follows.
LEMMA OneMore ==
  ASSUME NEW ev \in Seq(Event), LogFits(ev), NEW e \in Event, Follows(ev, e)
  PROVE  More(ev, Append(ev, e), e)
<1> PICK fv, c : fv = Append(ev, e) /\ c = Count(ev, Len(ev))
  OBVIOUS
<1>0. \/ e.type = "created" /\ e.id = c + 1 /\ e.status = "none"
      \/ e.type # "created" /\ e.id \in 1..c
  BY DEF Follows
<1> DEFINE n == Len(ev)
<1>1. /\ fv \in Seq(Event) /\ Len(fv) = n + 1 /\ n \in Nat
      /\ \A i \in 1..n : fv[i] = ev[i]
      /\ fv[n + 1] = e
  OBVIOUS
<1> HIDE DEF n
<1>2. c \in Nat /\ c = Count(ev, n) /\ \A i \in 1..n : Count(fv, i) = Count(ev, i)
  <2>1. c \in Nat /\ c = Count(ev, n)
    BY <1>1, Counting DEF n
  <2>2. ASSUME NEW i \in 1..n PROVE Count(fv, i) = Count(ev, i)
    <3>1. \A j \in 1..i : fv[j] = ev[j]
      BY <1>1
    <3>2. i \in Nat
      BY <1>1
    <3> QED
      BY <3>1, <3>2, SameCount
  <2> QED
    BY <2>1, <2>2
<1>3. Count(fv, n + 1) = IF e.type = "created" THEN c + 1 ELSE c
  <2>1. Count(fv, n) = c
    BY <1>1, <1>2, SameCount
  <2> QED
    BY <1>1, <2>1, Counting
<1>4. /\ \A i \in 1..n : ev[i].type = "created" => ev[i].id = Count(ev, i) /\ ev[i].status = "none"
      /\ \A i, j \in 1..n : i < j /\ ev[j].type = "created" => ev[i].id < ev[j].id
      /\ \A i \in 1..n : ev[i].id \in 1..c
      /\ \A r \in 1..c : \E i \in 1..n : ev[i].type = "created" /\ ev[i].id = r
  BY DEF LogFits, n
<1>5. \A i \in 1..(n + 1) : i \in 1..n \/ i = n + 1
  BY <1>1
<1>6. \A i \in 1..(n + 1) : fv[i].type = "created" => fv[i].id = Count(fv, i) /\ fv[i].status = "none"
  BY <1>0, <1>1, <1>2, <1>3, <1>4, <1>5, SMTT(30)
<1>7. \A i, j \in 1..(n + 1) : i < j /\ fv[j].type = "created" => fv[i].id < fv[j].id
  <2> SUFFICES ASSUME NEW i \in 1..(n + 1), NEW j \in 1..(n + 1), i < j, fv[j].type = "created"
               PROVE  fv[i].id < fv[j].id
    OBVIOUS
  <2>1. i \in 1..n
    BY <1>1
  <2>2. CASE j \in 1..n
    BY <1>1, <1>4, <2>1, <2>2
  <2>3. CASE j = n + 1
    BY <1>0, <1>1, <1>2, <1>4, <2>1, <2>3
  <2> QED
    BY <1>5, <2>2, <2>3
<1>8. \A i \in 1..(n + 1) : fv[i].id \in 1..Count(fv, n + 1)
  <2> TAKE i \in 1..(n + 1)
  <2>1. CASE i \in 1..n
    BY <1>1, <1>2, <1>3, <1>4, <2>1
  <2>2. CASE i = n + 1
    BY <1>0, <1>1, <1>2, <1>3, <2>2
  <2> QED
    BY <1>5, <2>1, <2>2
<1>9. \A r \in 1..Count(fv, n + 1) : \E i \in 1..(n + 1) : fv[i].type = "created" /\ fv[i].id = r
  <2> TAKE r \in 1..Count(fv, n + 1)
  <2>1. CASE r \in 1..c
    <3>1. PICK i \in 1..n : ev[i].type = "created" /\ ev[i].id = r
      BY <1>4, <2>1
    <3> QED
      BY <1>1, <3>1
  <2>2. CASE r \notin 1..c
    <3>1. r = c + 1 /\ e.type = "created"
      BY <1>2, <1>3, <2>2
    <3>2. fv[n + 1].type = "created" /\ fv[n + 1].id = r /\ n + 1 \in 1..(n + 1)
      BY <1>0, <1>1, <3>1
    <3> QED
      BY <3>2
  <2> QED
    BY <2>1, <2>2
<1>10. LogFits(fv)
  BY <1>1, <1>6, <1>7, <1>8, <1>9 DEF LogFits
<1> QED
  BY <1>1, <1>3, <1>10 DEF n, More

\* The first records are those that came with the first events.
LEMMA FirstRecords ==
  ASSUME NEW ev, Len(ev) \in Nat, LogFits(ev), NEW k \in 0..Len(ev), NEW r \in 1..Count(ev, k)
  PROVE  \E i \in 1..k : ev[i].type = "created" /\ ev[i].id = r
<1>1. Count(ev, k) \in Nat /\ Count(ev, Len(ev)) \in Nat /\ Count(ev, k) <= Count(ev, Len(ev))
  BY Counting
<1>2. PICK i \in 1..Len(ev) : ev[i].type = "created" /\ ev[i].id = r
  BY <1>1 DEF LogFits
<1>3. CASE i > k
  <2>1. PICK p \in Nat : i = p + 1 /\ k <= p
    BY <1>3
  <2> k \in Nat
    OBVIOUS
  <2>2. Count(ev, i) = Count(ev, p) + 1 /\ Count(ev, k) <= Count(ev, p) /\ Count(ev, p) \in Nat
    BY <1>2, <2>1, Counting
  <2>3. r = Count(ev, i)
    BY <1>2 DEF LogFits
  <2> QED
    BY <1>1, <2>2, <2>3
<1> QED
  BY <1>2, <1>3

\* The last event of a record.
Places(ev, r, k) == {i \in 1..k : ev[i].id = r}

\* The last place of a record is one, and none is later.
LEMMA LastPlace ==
  ASSUME NEW ev, NEW r, NEW k \in Nat, Places(ev, r, k) # {}
  PROVE  /\ Max(Places(ev, r, k)) \in Places(ev, r, k)
         /\ \A i \in Places(ev, r, k) : i <= Max(Places(ev, r, k))
<1> PICK S : S = Places(ev, r, k)
  OBVIOUS
<1>1. S # {} /\ S \subseteq 1..k
  BY DEF Places
<1> DEFINE T == {k - i : i \in S}
<1>2. T \subseteq Nat /\ T # {}
  BY <1>1
<1> HIDE DEF T
<1>3. PICK x \in T : \A y \in T : ~(<<y, x>> \in OpToRel(<, Nat))
  BY <1>2, NatLessThanWellFounded, WFMin, Zenon
<1>4. OpToRel(<, Nat) = {ss \in Nat \X Nat : ss[1] < ss[2]}
  BY Zenon DEF OpToRel
<1>5. \A y \in T : x <= y
  <2> TAKE y \in T
  <2>1. x \in Nat /\ y \in Nat /\ <<y, x>> \in Nat \X Nat
    BY <1>2, <1>3
  <2>2. y < x => <<y, x>> \in OpToRel(<, Nat)
    BY <1>4, <2>1
  <2>3. ~(y < x)
    BY <1>3, <2>2
  <2> QED
    BY <2>1, <2>3
<1>6. PICK m \in S : x = k - m
  BY <1>3 DEF T
<1>7. \A i \in S : m >= i
  <2> TAKE i \in S
  <2>1. k - i \in T
    BY DEF T
  <2>2. x <= k - i
    BY <1>5, <2>1
  <2> QED
    BY <1>1, <1>6, <2>2
<1>8. Max(S) = CHOOSE y \in S : \A z \in S : y >= z
  BY DEF Max
<1>9. Max(S) \in S /\ \A i \in S : Max(S) >= i
  BY <1>6, <1>7, <1>8
<1> QED
  BY <1>1, <1>9

\* The state of a record is that of the last event that speaks of it.
LEMMA StatusIsLast ==
  ASSUME NEW r, NEW k \in Nat, NEW i \in 1..k, events[i].id = r
  PROVE  /\ \E j \in 1..k : events[j].id = r /\ StatusAt(r, k) = events[j].status
         /\ (\A j \in 1..k : j > i => events[j].id # r) => StatusAt(r, k) = events[i].status
<1>1. i \in Places(events, r, k)
  BY DEF Places
<1>2. PICK m : m = Max(Places(events, r, k))
  OBVIOUS
<1>3. m \in Places(events, r, k) /\ i <= m
  BY <1>1, <1>2, LastPlace
<1>4. StatusAt(r, k) = events[m].status
  BY <1>2 DEF StatusAt, Places
<1>5. m \in 1..k /\ events[m].id = r
  BY <1>3 DEF Places
<1> QED
  BY <1>3, <1>4, <1>5

\* What comes after it, and of other records, does not change it.
LEMMA SameStatus ==
  ASSUME NEW ev, NEW fv, NEW r, NEW k \in Nat, NEW n \in Nat, k <= n,
         \A i \in 1..k : fv[i] = ev[i], \A i \in 1..n : i > k => fv[i].id # r
  PROVE  Places(fv, r, n) = Places(ev, r, k)
<1>1. \A i \in 1..n : i \in 1..k \/ i > k
  OBVIOUS
<1>2. \A i \in 1..k : i \in 1..n
  OBVIOUS
<1> QED
  BY <1>1, <1>2 DEF Places

-----------------------------------------------------------------------------
(* Types.                                                                  *)

SocketState == [state: {"none", "connecting", "open", "closed"}, next: Nat]

SocketsType ==
  /\ socket \in [SocketId -> SocketState] /\ ws \in SocketId \cup {0}
  /\ ws # 0 => socket[ws].state # "none"
  /\ \A s \in SocketId : Open(s) => socket[s].next \in 1..(Now + 1)
  /\ timer \in BOOLEAN /\ stray \in Nat

ScreenType ==
  /\ mounted \in BOOLEAN /\ load \in {Asked, Done} \cup 0..Now
  /\ records \in Seq([id: Record, status: FileStatus \cup {"none"}]) /\ Len(records) <= MaxDisplay
  /\ missed \subseteq Record /\ hasty \in Nat
  /\ ~mounted => load = Done /\ records = <<>> /\ ~timer

LogType ==
  /\ events \in Seq(Event) /\ LogFits(events) /\ Now <= MaxEvents /\ CountAt(Now) <= MaxRecords

RestType == up \in BOOLEAN /\ visits \in Nat /\ breaks \in Nat

TypeInv == SocketsType /\ ScreenType /\ LogType /\ RestType

\* The records have the places 1, 2, ... by their time.
OrderType ==
  /\ rank \in [1..CountAt(Now) -> 1..CountAt(Now)]
  /\ writing \in [Record -> Nat] /\ givenUp \subseteq Record

\* The database counts the records so.
LEMMA Counted == \A k : CountAt(k) = Count(events, k)
BY DEF CountAt, Count, News

\* Closed changes the state of the sockets it is given, and nothing else.
LEMMA ClosedFacts ==
  ASSUME SocketsType, NEW S
  PROVE  /\ Closed(S) \in [SocketId -> SocketState]
         /\ \A s \in SocketId :
              /\ s \in S => Closed(S)[s].state = "closed" /\ Closed(S)[s].next = socket[s].next
              /\ s \notin S => Closed(S)[s] = socket[s]
<1>1. socket \in [SocketId -> SocketState]
  BY DEF SocketsType
<1>2. ASSUME NEW s \in SocketId
      PROVE  /\ [socket[s] EXCEPT !.state = "closed"] \in SocketState
             /\ [socket[s] EXCEPT !.state = "closed"].state = "closed"
             /\ [socket[s] EXCEPT !.state = "closed"].next = socket[s].next
  BY <1>1 DEF SocketState
<1> QED
  BY <1>1, <1>2 DEF Closed

\* connect keeps the socket there is, or names one that was free.
LEMMA ConnectingFacts ==
  ASSUME SocketsType, Connecting
  PROVE  /\ ws' \in SocketId /\ socket' \in [SocketId -> SocketState]
         /\ \/ ws # 0 /\ ws' = ws /\ socket' = socket
            \/ /\ ws = 0 /\ socket[ws'].state = "none" /\ socket'[ws'].state = "connecting"
               /\ \A s \in SocketId : s # ws' => socket'[s] = socket[s]
<1>1. socket \in [SocketId -> SocketState] /\ ws \in SocketId \cup {0} /\ 0 \notin SocketId
  BY DEF SocketsType, SocketId
<1>2. CASE ws # 0
  BY <1>1, <1>2 DEF Connecting
<1>3. CASE ws = 0
  <2>1. PICK s : s = CHOOSE x \in SocketId : socket[x] = Free
    OBVIOUS
  <2>2. /\ \E free \in SocketId : socket[free] = Free
        /\ ws' = s /\ socket' = [socket EXCEPT ![s] = [state |-> "connecting", next |-> 0]]
    BY <1>3, <2>1 DEF Connecting
  <2>3. s \in SocketId /\ socket[s] = Free
    BY <2>1, <2>2
  <2>4. [state |-> "connecting", next |-> 0] \in SocketState /\ Free.state = "none"
    BY DEF SocketState, Free
  <2> QED
    BY <1>1, <1>3, <2>2, <2>3, <2>4
<1> QED
  BY <1>2, <1>3

\* What the server does to the log, and what of it every socket has yet to deliver.
Grown ==
  /\ events' \in Seq(Event) /\ LogFits(events')
  /\ Now <= Now' /\ Now' <= MaxEvents
  /\ \A i \in 1..Now : events'[i] = events[i]
  /\ Count(events', Now') <= MaxRecords /\ Count(events, Now) <= Count(events', Now')

\* What the server adds to the log: one event, or a record and an event of it.
LEMMA NewEvents ==
  ASSUME TypeInv, NEW e \in Event, NEW f \in Event, NEW c, c = Count(events, Now),
         \/ e.type = "created" /\ e.id = c + 1 /\ e.status = "none" /\ c + 1 <= MaxRecords
         \/ e.type # "created" /\ e.id \in 1..c
  PROVE  /\ events' = Append(events, e) /\ Now + 1 <= MaxEvents =>
              Grown /\ Count(events', Now') = IF e.type = "created" THEN c + 1 ELSE c
         /\ events' = Append(Append(events, e), f) /\ Now + 2 <= MaxEvents
              /\ e.type = "created" /\ f.type # "created" /\ f.id = c + 1 =>
              Grown /\ Count(events', Now') = c + 1
<1>1. events \in Seq(Event) /\ LogFits(events) /\ Now \in Nat /\ c \in Nat /\ c <= MaxRecords
      /\ MaxRecords \in Nat /\ MaxEvents \in Nat
  <2>1. events \in Seq(Event) /\ LogFits(events) /\ Now \in Nat
    BY DEF TypeInv, LogType, Now
  <2>2. CountAt(Now) = c /\ CountAt(Now) <= MaxRecords
    BY Counted DEF TypeInv, LogType
  <2>3. c \in Nat
    BY <2>1, Counting
  <2> QED
    BY <2>1, <2>2, <2>3, MonitorAssumption DEF MonitorAssumption
<1>2. PICK fv : fv = Append(events, e)
  OBVIOUS
<1>3. /\ LogFits(fv) /\ fv \in Seq(Event) /\ Len(fv) = Now + 1
      /\ \A i \in 1..Now : fv[i] = events[i]
      /\ Count(fv, Len(fv)) = IF e.type = "created" THEN c + 1 ELSE c
  <2>1. Len(events) = Now /\ c = Count(events, Len(events))
    BY DEF Now
  <2>2. \/ e.type = "created" /\ e.id = c + 1 /\ e.status = "none"
        \/ e.type # "created" /\ e.id \in 1..c
    OBVIOUS
  <2>3. /\ LogFits(fv) /\ fv \in Seq(Event) /\ Len(fv) = Len(events) + 1
        /\ \A i \in 1..Len(events) : fv[i] = events[i]
        /\ Count(fv, Len(fv)) = IF e.type = "created" THEN c + 1 ELSE c
    BY <1>1, <1>2, <2>1, <2>2, OneMore DEF Follows, More
  <2> QED
    BY <2>1, <2>3
<1>4. ASSUME events' = fv, Now + 1 <= MaxEvents
      PROVE  Grown /\ Count(events', Now') = IF e.type = "created" THEN c + 1 ELSE c
  <2>1. Now' = Now + 1
    BY <1>3, <1>4 DEF Now
  <2> QED
    BY <1>1, <1>3, <1>4, <2>1 DEF Now, Grown
<1>5. ASSUME events' = Append(fv, f), Now + 2 <= MaxEvents,
             e.type = "created", f.type # "created", f.id = c + 1
      PROVE  Grown /\ Count(events', Now') = c + 1
  <2>1. PICK gv : gv = Append(fv, f)
    OBVIOUS
  <2>2. PICK d : d = Count(fv, Len(fv))
    OBVIOUS
  <2>3. d = c + 1 /\ f.id \in 1..d /\ c + 1 <= MaxRecords
    BY <1>1, <1>3, <1>5, <2>2
  <2>4. /\ LogFits(gv) /\ gv \in Seq(Event) /\ Len(gv) = Len(fv) + 1
        /\ \A i \in 1..Len(fv) : gv[i] = fv[i]
        /\ Count(gv, Len(gv)) = d
    <3>1. f.type # "created" /\ f.id \in 1..d
      BY <1>5, <2>3
    <3>2. /\ LogFits(gv) /\ gv \in Seq(Event) /\ Len(gv) = Len(fv) + 1
          /\ \A i \in 1..Len(fv) : gv[i] = fv[i]
          /\ Count(gv, Len(gv)) = IF f.type = "created" THEN d + 1 ELSE d
      BY <1>3, <2>1, <2>2, <3>1, OneMore DEF Follows, More
    <3> QED
      BY <3>1, <3>2
  <2>5. Now' = Now + 2 /\ events' = gv
    BY <1>1, <1>3, <1>5, <2>1, <2>4 DEF Now
  <2>6. \A i \in 1..Now : gv[i] = events[i]
    BY <1>1, <1>3, <2>4
  <2> QED
    BY <1>1, <1>3, <1>5, <2>3, <2>4, <2>5, <2>6 DEF Now, Grown
<1> QED
  BY <1>2, <1>4, <1>5

\* The three ways the log grows.
LEMMA RecordLogGrows ==
  ASSUME TypeInv, NEW exported \in BOOLEAN, NEW place \in Record, RecordLog(exported, place)
  PROVE  Grown /\ CountAt(Now)' = CountAt(Now) + 1
<1>c. CountAt(Now)' = Count(events', Now')
  BY DEF CountAt, Count, News
<1>1. PICK c : c = Count(events, Now)
  OBVIOUS
<1>2. events \in Seq(Event) /\ Now \in Nat /\ c \in Nat /\ CountAt(Now) = c
  BY <1>1, Counting, Counted DEF TypeInv, LogType, Now
<1>3. c + 1 <= MaxRecords /\ c + 1 \in Record
  BY <1>2, MonitorAssumption DEF RecordLog, Record, MonitorAssumption
<1> DEFINE e == Created(c + 1)
           f == FileUpdated(c + 1, "WRITING")
<1>4. e \in Event /\ f \in Event /\ e.type = "created" /\ e.id = c + 1 /\ e.status = "none"
      /\ f.type # "created" /\ f.id = c + 1
  BY <1>3 DEF Created, FileUpdated, Event, FileStatus
<1>5. Broadcast(<<e>> \o (IF exported THEN <<f>> ELSE <<>>))
  BY <1>2 DEF RecordLog
<1> HIDE DEF e, f
<1>6. CASE exported
  <2>1. <<e>> \in Seq(Event) /\ <<f>> \in Seq(Event) /\ Len(<<e>>) = 1 /\ Len(<<f>>) = 1
    BY <1>4
  <2>2. Len(<<e>> \o <<f>>) = 2
    BY <2>1, ConcatProperties
  <2>3. events' = events \o (<<e>> \o <<f>>) /\ Now + 2 <= MaxEvents
    BY <1>5, <1>6, <2>2 DEF Broadcast
  <2>4. events \o (<<e>> \o <<f>>) = (events \o <<e>>) \o <<f>>
    BY <1>2, <2>1, ConcatAssociative
  <2>5. events \o <<e>> = Append(events, e) /\ Append(events, e) \in Seq(Event)
    BY <1>2, <1>4
  <2>6. Append(events, e) \o <<f>> = Append(Append(events, e), f)
    BY <1>4, <2>5
  <2> QED
    BY <1>c, <1>1, <1>2, <1>3, <1>4, <2>3, <2>4, <2>5, <2>6, NewEvents
<1>7. CASE ~exported
  <2>1. <<e>> \o <<>> = <<e>> /\ Len(<<e>>) = 1
    BY <1>4
  <2>2. events' = events \o <<e>> /\ Now + 1 <= MaxEvents
    BY <1>5, <1>7, <2>1 DEF Broadcast
  <2>3. events \o <<e>> = Append(events, e)
    BY <1>2, <1>4
  <2> QED
    BY <1>c, <1>1, <1>2, <1>3, <1>4, <2>2, <2>3, NewEvents
<1> QED
  BY <1>6, <1>7

LEMMA FileChangesGrows ==
  ASSUME TypeInv, NEW r \in Record, NEW s \in FileStatus, FileChanges(r, s)
  PROVE  Grown /\ CountAt(Now)' = CountAt(Now)
<1>c. CountAt(Now)' = Count(events', Now')
  BY DEF CountAt, Count, News
<1>1. PICK c : c = Count(events, Now)
  OBVIOUS
<1>2. events \in Seq(Event) /\ Now \in Nat /\ c \in Nat /\ CountAt(Now) = c
  BY <1>1, Counting, Counted DEF TypeInv, LogType, Now
<1> DEFINE f == FileUpdated(r, s)
<1>3. f \in Event /\ f.type # "created" /\ f.id \in 1..c /\ Broadcast(<<f>>)
  BY <1>2 DEF FileUpdated, Event, FileStatus, FileChanges, Logged
<1> HIDE DEF f
<1>4. events' = events \o <<f>> /\ Now + 1 <= MaxEvents
  BY <1>3 DEF Broadcast
<1>5. events \o <<f>> = Append(events, f)
  BY <1>2, <1>3
<1> QED
  BY <1>c, <1>1, <1>2, <1>3, <1>4, <1>5, NewEvents

LEMMA ServerDiesGrows ==
  ASSUME TypeInv, NEW inserted \in BOOLEAN, NEW place \in Record, ServerDies(inserted, place)
  PROVE  Grown /\ CountAt(Now)' = IF inserted THEN CountAt(Now) + 1 ELSE CountAt(Now)
<1>c. CountAt(Now)' = Count(events', Now')
  BY DEF CountAt, Count, News
<1>1. PICK c : c = Count(events, Now)
  OBVIOUS
<1>2. /\ events \in Seq(Event) /\ Now \in Nat /\ c \in Nat /\ CountAt(Now) = c
      /\ LogFits(events) /\ Now <= MaxEvents /\ c <= MaxRecords
  BY <1>1, Counting, Counted DEF TypeInv, LogType, Now
<1>3. CASE inserted
  <2> DEFINE e == Created(c + 1)
  <2>1. c + 1 <= MaxRecords /\ c + 1 \in Record /\ Now + 1 <= MaxEvents
    BY <1>2, <1>3, MonitorAssumption DEF ServerDies, Record, MonitorAssumption
  <2>2. e \in Event /\ e.type = "created" /\ e.id = c + 1 /\ e.status = "none"
    BY <2>1 DEF Created, Event
  <2>3. events' = Append(events, e)
    BY <1>2, <1>3 DEF ServerDies
  <2> QED
    BY <1>c, <1>1, <1>2, <1>3, <2>1, <2>2, <2>3, NewEvents
<1>4. CASE ~inserted
  <2>1. events' = events
    BY <1>4 DEF ServerDies
  <2> QED
    BY <1>c, <1>1, <1>2, <1>4, <2>1 DEF Grown, Now
<1> QED
  BY <1>3, <1>4

\* The stronger types are types.
LEMMA TypesHold == TypeInv /\ OrderType => TypeOK
<1> SUFFICES ASSUME TypeInv, OrderType PROVE TypeOK
  OBVIOUS
<1>0. rank \in Seq(Record) /\ Len(rank) = CountAt(Now)
  <2>1. PICK c \in Nat : c = CountAt(Now) /\ c <= MaxRecords
    BY Counting, Counted DEF TypeInv, LogType, Now
  <2>2. rank \in [1..c -> 1..c] /\ 1..c \subseteq Record
    BY <2>1, MonitorAssumption DEF OrderType, Record, MonitorAssumption
  <2>3. rank \in [1..c -> Record]
    BY <2>2
  <2> QED
    BY <2>1, <2>3
<1>1. ws # 0 => socket[ws] # Free
  BY DEF TypeInv, SocketsType, Free
<1>2. load \in {Asked, Done} \cup 0..MaxEvents
  <2>1. Now \in Nat /\ Now <= MaxEvents /\ MaxEvents \in Nat
    BY MonitorAssumption DEF TypeInv, LogType, Now, MonitorAssumption
  <2> QED
    BY <2>1 DEF TypeInv, ScreenType
<1> QED
  BY <1>0, <1>1, <1>2
  DEF TypeInv, SocketsType, ScreenType, LogType, RestType, OrderType, TypeOK, SocketState

LEMMA TypeInitially == Init => TypeInv
<1> SUFFICES ASSUME Init PROVE TypeInv
  OBVIOUS
<1>1. SocketsType
  BY DEF Init, SocketsType, SocketState, Free, Open
<1>2. Now = 0 /\ events = <<>> /\ Len(events) = 0 /\ events \in Seq(Event)
  BY DEF Init, Now
<1>3. Count(events, 0) = 0
  BY Counting
<1>4. LogType
  BY <1>2, <1>3, Counted, MonitorAssumption DEF LogType, LogFits, MonitorAssumption
<1>5. <<>> \in Seq([id: Record, status: FileStatus \cup {"none"}]) /\ Len(<<>>) = 0
  BY EmptySeq
<1>6. 0 <= MaxDisplay
  BY MonitorAssumption DEF MonitorAssumption
<1>7. ScreenType
  BY <1>5, <1>6 DEF Init, ScreenType
<1> QED
  BY <1>1, <1>4, <1>7 DEF Init, TypeInv, RestType

LEMMA LogStays ==
  ASSUME TypeInv, events' = events
  PROVE  LogType' /\ Now' = Now
BY DEF TypeInv, LogType, Now, CountAt

LEMMA LogGrows ==
  ASSUME TypeInv, Grown
  PROVE  LogType' /\ Now \in Nat /\ Now' \in Nat
<1>1. CountAt(Now)' = Count(events', Now')
  BY DEF CountAt, Count, News
<1> QED
  BY <1>1 DEF TypeInv, LogType, Grown, Now

\* Sockets that are as they were, or closed.
LEMMA SocketsClose ==
  ASSUME TypeInv, NEW S, socket' = Closed(S), Now <= Now', Now' \in Nat,
         ws' \in {ws, 0}, timer' \in BOOLEAN, stray' \in Nat
  PROVE  SocketsType'
<1>1. SocketsType /\ Now \in Nat
  BY DEF TypeInv, LogType, Now
<1>2. /\ socket' \in [SocketId -> SocketState]
      /\ \A s \in SocketId : /\ s \in S => socket'[s].state = "closed"
                             /\ s \notin S => socket'[s] = socket[s]
  BY <1>1, ClosedFacts
<1>3. ws' # 0 => socket'[ws'].state # "none"
  BY <1>1, <1>2 DEF SocketsType
<1>4. ASSUME NEW s \in SocketId, Open(s)' PROVE socket'[s].next \in 1..(Now' + 1)
  BY <1>1, <1>2, <1>4 DEF SocketsType, Open
<1> QED
  BY <1>1, <1>2, <1>3, <1>4 DEF SocketsType

LEMMA SocketsStay ==
  ASSUME TypeInv, socket' = socket, Now <= Now', Now' \in Nat,
         ws' \in {ws, 0}, timer' \in BOOLEAN, stray' \in Nat
  PROVE  SocketsType'
<1>1. SocketsType /\ Now \in Nat
  BY DEF TypeInv, LogType, Now
<1>2. ASSUME NEW s \in SocketId, Open(s)' PROVE socket'[s].next \in 1..(Now' + 1)
  BY <1>1, <1>2 DEF SocketsType, Open
<1> QED
  BY <1>1, <1>2 DEF SocketsType

LEMMA ScreenStays ==
  ASSUME TypeInv, UNCHANGED page, missed' \subseteq Record, hasty' \in Nat,
         Now <= Now', Now' \in Nat, mounted \/ ~timer'
  PROVE  ScreenType'
<1>1. Now \in Nat
  BY DEF TypeInv, LogType, Now
<1>2. mounted' = mounted /\ load' = load /\ records' = records
  BY DEF page
<1>3. load' \in {Asked, Done} \cup 0..Now'
  BY <1>1, <1>2 DEF TypeInv, ScreenType
<1> QED
  BY <1>2, <1>3 DEF TypeInv, ScreenType

Shown == [id: Record, status: FileStatus \cup {"none"}]

LEMMA BroadcastMisses ==
  ASSUME TypeInv, NEW es \in Seq(Event), Broadcast(es)
  PROVE  missed' \subseteq Record
<1>1. \A k \in DOMAIN es : es[k] \in Event
  OBVIOUS
<1>2. {es[k].id : k \in DOMAIN es} \subseteq Record
  BY <1>1 DEF Event
<1> QED
  BY <1>2 DEF TypeInv, ScreenType, Broadcast, Misses

LEMMA UndeliveredTyped ==
  ASSUME TypeInv
  PROVE  \A S \in SUBSET SocketId : UndeliveredBy(S) \subseteq Record
<1>1. ASSUME NEW s \in SocketId PROVE Undelivered(s) \subseteq Record
  <2>1. CASE Open(s)
    <3>1. \A k \in socket[s].next..Now : k \in 1..Now
      BY <2>1 DEF TypeInv, SocketsType, LogType, Now
    <3>2. \A k \in 1..Now : events[k] \in Event
      BY DEF TypeInv, LogType, Now
    <3> QED
      BY <3>1, <3>2 DEF Undelivered, Event
  <2> QED
    BY <2>1 DEF Undelivered
<1> QED
  BY <1>1 DEF UndeliveredBy

\* The minimum of two numbers.
LEMMA SmallerOfTwo ==
  ASSUME NEW a \in Int, NEW b \in Int
  PROVE  Min({a, b}) = IF a <= b THEN a ELSE b
<1>1. PICK m : m = IF a <= b THEN a ELSE b
  OBVIOUS
<1>2. m \in {a, b} /\ \A x \in {a, b} : m <= x
  BY <1>1
<1>3. ASSUME NEW n \in {a, b}, \A x \in {a, b} : n <= x PROVE n = m
  BY <1>2, <1>3
<1> QED
  BY <1>1, <1>2, <1>3 DEF Min

\* The answer to GET /logs: the last l of c records by their time, oldest first, as they were.
SnapshotFits(k, rows, view, c, l) ==
  /\ c \in Nat /\ c <= MaxRecords /\ c <= CountAt(Now)
  /\ l \in Nat /\ l <= Limit /\ l <= c /\ rows \in [1..l -> 1..c]
  /\ \A m, n \in 1..l : m < n => Later(rows[n], rows[m])
  /\ \A r \in 1..c, n \in 1..l : (\A m \in 1..l : rows[m] # r) => Later(rows[n], r)
  /\ view \in Seq(Shown) /\ Len(view) = l
  /\ \A n \in 1..l : /\ view[n].id = rows[n] /\ view[n].status = StatusAt(rows[n], k)
                     /\ \E j \in 1..k : events[j].id = rows[n] /\ events[j].status = view[n].status

LEMMA SnapshotFacts ==
  ASSUME TypeInv, NEW k \in 0..Now, NEW c, c = CountAt(k), NEW rows \in Rows(k),
         NEW view, view = Snapshot(rows, k), NEW l, l = IF Limit <= c THEN Limit ELSE c
  PROVE  SnapshotFits(k, rows, view, c, l)
<1>1. Now \in Nat /\ k \in Nat /\ Now = Len(events) /\ LogFits(events) /\ CountAt(Now) <= MaxRecords
  BY DEF TypeInv, LogType, Now
<1>2. c \in Nat /\ c = Count(events, k) /\ c <= CountAt(Now) /\ CountAt(Now) \in Nat
  <2>1. c = Count(events, k) /\ CountAt(Now) = Count(events, Now)
    BY Counted
  <2>2. k <= Now
    OBVIOUS
  <2>3. Count(events, k) \in Nat /\ Count(events, Now) \in Nat /\ Count(events, k) <= Count(events, Now)
    BY <1>1, <2>2, Counting
  <2> QED
    BY <2>1, <2>3
<1>3. c <= MaxRecords /\ l \in Nat /\ l <= Limit /\ l <= c /\ Min({Limit, c}) = l
  <2>1. Limit \in Int /\ Limit \in Nat /\ MaxRecords \in Nat /\ c \in Int
    BY <1>2, MonitorAssumption DEF MonitorAssumption
  <2>2. Min({Limit, c}) = l
    BY <2>1, SmallerOfTwo
  <2> QED
    BY <1>1, <1>2, <2>1, <2>2
<1>4. /\ rows \in [1..l -> 1..c] /\ DOMAIN rows = 1..l
      /\ \A m, n \in 1..l : m < n => Later(rows[n], rows[m])
      /\ \A r \in (1..c) \ Range(rows), n \in 1..l : Later(rows[n], r)
  <2>1. rows \in [1..l -> 1..c]
    BY <1>3 DEF Rows
  <2>2. DOMAIN rows = 1..l
    BY <2>1
  <2> QED
    BY <2>1, <2>2 DEF Rows
<1>5. \A r \in 1..c, n \in 1..l : (\A m \in 1..l : rows[m] # r) => Later(rows[n], r)
  <2> SUFFICES ASSUME NEW r \in 1..c, NEW n \in 1..l, \A m \in 1..l : rows[m] # r
               PROVE  Later(rows[n], r)
    OBVIOUS
  <2>1. r \notin Range(rows)
    BY <1>4 DEF Range
  <2> QED
    BY <1>4, <2>1
<1>6. view = [n \in 1..l |-> [id |-> rows[n], status |-> StatusAt(rows[n], k)]]
  BY <1>4 DEF Snapshot
<1>7. ASSUME NEW n \in 1..l
      PROVE  /\ rows[n] \in Record
             /\ \E j \in 1..k : events[j].id = rows[n] /\ events[j].status = StatusAt(rows[n], k)
             /\ StatusAt(rows[n], k) \in FileStatus \cup {"none"}
  <2> PICK r : r = rows[n]
    OBVIOUS
  <2>1. r \in 1..c /\ r \in Record
    BY <1>2, <1>3, <1>4, MonitorAssumption DEF Record, MonitorAssumption
  <2>2. PICK i \in 1..k : events[i].id = r
    <3>1. r \in 1..Count(events, k)
      BY <1>2, <2>1
    <3>2. Len(events) \in Nat /\ k \in 0..Len(events)
      BY <1>1
    <3>3. \E i \in 1..k : events[i].type = "created" /\ events[i].id = r
      BY <1>1, <3>1, <3>2, FirstRecords
    <3> QED
      BY <3>3
  <2>3. PICK j \in 1..k : events[j].id = r /\ StatusAt(r, k) = events[j].status
    BY <1>1, <2>2, StatusIsLast
  <2>4. events[j] \in Event
    BY <1>1 DEF TypeInv, LogType
  <2> QED
    BY <2>1, <2>3, <2>4 DEF Event
<1>8. view \in Seq(Shown) /\ Len(view) = l
  <2>1. \A n \in 1..l : view[n] \in Shown
    BY <1>6, <1>7 DEF Shown
  <2>2. view \in [1..l -> Shown]
    BY <1>6, <2>1
  <2> QED
    BY <1>3, <2>2
<1>9. ASSUME NEW n \in 1..l
      PROVE  /\ view[n].id = rows[n] /\ view[n].status = StatusAt(rows[n], k)
             /\ \E j \in 1..k : events[j].id = rows[n] /\ events[j].status = view[n].status
  <2>1. view[n].id = rows[n] /\ view[n].status = StatusAt(rows[n], k)
    BY <1>6
  <2> QED
    BY <1>7, <2>1
<1> QED
  BY <1>2, <1>3, <1>4, <1>5, <1>8, <1>9 DEF SnapshotFits

\* The maximum of two numbers.
LEMMA LargerOfTwo ==
  ASSUME NEW a \in Int, NEW b \in Int
  PROVE  Max({a, b}) = IF a >= b THEN a ELSE b
<1>1. PICK m : m = IF a >= b THEN a ELSE b
  OBVIOUS
<1>2. m \in {a, b} /\ \A x \in {a, b} : m >= x
  BY <1>1
<1>3. ASSUME NEW n \in {a, b}, \A x \in {a, b} : n >= x PROVE n = m
  BY <1>2, <1>3
<1> QED
  BY <1>1, <1>2, <1>3 DEF Max

\* A new record is put after those that are kept: all, or all but the first if
\* the screen is full.
LEMMA WithCreatedFacts ==
  ASSUME TypeInv, NEW e \in Event, ~OnScreen(e.id), NEW view, view = WithCreated(e),
         NEW l, l = Len(records), NEW d, d = IF l = MaxDisplay THEN 1 ELSE 0
  PROVE  /\ view \in Seq(Shown) /\ l \in Nat /\ l - d \in Nat /\ Len(view) = l - d + 1
         /\ Len(view) <= MaxDisplay
         /\ \A i \in 1..(l - d) : view[i] = records[i + d]
         /\ view[l - d + 1] = [id |-> e.id, status |-> "none"]
<1>1. records \in Seq(Shown) /\ l \in Nat /\ l <= MaxDisplay /\ MaxDisplay \in Nat /\ MaxDisplay > 1
  BY MonitorAssumption DEF TypeInv, ScreenType, Shown, MonitorAssumption
<1>2. Max({1, l - MaxDisplay + 2}) = d + 1
  <2>1. PICK x : x = l - MaxDisplay + 2
    OBVIOUS
  <2>2. x \in Int /\ (d = 1 => x = 2) /\ (d # 1 => x <= 1) /\ d \in {0, 1}
    BY <1>1, <2>1
  <2>3. Max({1, x}) = IF 1 >= x THEN 1 ELSE x
    BY <2>2, LargerOfTwo
  <2>4. Max({1, x}) = d + 1
    BY <2>2, <2>3
  <2> QED
    BY <2>1, <2>4
<1>3. Kept = SubSeq(records, d + 1, l)
  BY <1>2 DEF Kept
<1>4. d \in {0, 1} /\ l - d \in Nat /\ \A i \in (d + 1)..l : records[i] \in Shown
  BY <1>1
<1>5. /\ Kept \in Seq(Shown) /\ Len(Kept) = l - d
      /\ \A i \in 1..(l - d) : Kept[i] = records[i + d]
  <2>1. PICK m \in Int : m = d + 1
    BY <1>4
  <2>2. /\ Kept \in Seq(Shown) /\ Len(Kept) = IF m <= l THEN l - m + 1 ELSE 0
        /\ \A i \in 1..(l - m + 1) : Kept[i] = records[m + i - 1]
    <3>1. \A i \in m..l : records[i] \in Shown
      BY <1>4, <2>1
    <3>2. Kept = SubSeq(records, m, l) /\ l \in Int
      BY <1>1, <1>3, <2>1
    <3> QED
      BY <3>1, <3>2, SubSeqProperties
  <2>3. l - m + 1 = l - d /\ \A i \in Int : m + i - 1 = i + d
    BY <1>1, <1>4, <2>1
  <2>4. Len(Kept) = l - d
    <3>1. CASE m <= l
      BY <2>2, <2>3, <3>1
    <3>2. CASE ~(m <= l)
      <4>1. l - d = 0
        BY <1>1, <1>4, <2>1, <3>2
      <4> QED
        BY <2>2, <3>2, <4>1
    <3> QED
      BY <3>1, <3>2
  <2>5. \A i \in 1..(l - d) : Kept[i] = records[i + d]
    <3> TAKE i \in 1..(l - d)
    <3>1. i \in 1..(l - m + 1) /\ m + i - 1 = i + d
      BY <1>4, <2>3
    <3> QED
      BY <2>2, <3>1
  <2> QED
    BY <2>2, <2>4, <2>5
<1>6. view = Append(Kept, [id |-> e.id, status |-> "none"])
  BY DEF WithCreated
<1>7. [id |-> e.id, status |-> "none"] \in Shown
  BY DEF Event, Shown
<1> QED
  BY <1>1, <1>4, <1>5, <1>6, <1>7

\* A new state of a file is put into the row of its record.
LEMMA WithStatusFacts ==
  ASSUME TypeInv, NEW e \in Event, NEW view, view = WithStatus(e)
  PROVE  /\ view \in Seq(Shown) /\ Len(view) = Len(records) /\ Len(records) \in Nat
         /\ \A i \in 1..Len(records) :
              /\ view[i].id = records[i].id
              /\ view[i].status = IF records[i].id = e.id THEN e.status ELSE records[i].status
<1>1. records \in Seq(Shown) /\ Len(records) \in Nat /\ DOMAIN records = 1..Len(records)
  BY DEF TypeInv, ScreenType, Shown
<1>2. view = [k \in 1..Len(records) |->
                IF records[k].id = e.id THEN [records[k] EXCEPT !.status = e.status] ELSE records[k]]
  BY <1>1 DEF WithStatus
<1>3. ASSUME NEW k \in 1..Len(records)
      PROVE  /\ view[k] \in Shown /\ view[k].id = records[k].id
             /\ view[k].status = IF records[k].id = e.id THEN e.status ELSE records[k].status
  <2>1. records[k] \in Shown /\ e.status \in FileStatus \cup {"none"}
    BY <1>1 DEF Event
  <2> QED
    BY <1>2, <2>1 DEF Shown
<1>4. view \in Seq(Shown) /\ Len(view) = Len(records)
  BY <1>1, <1>2, <1>3
<1> QED
  BY <1>1, <1>3, <1>4

\* A socket that changes: it connects, delivers, or is forgotten.
LEMMA OneSocketSteps ==
  ASSUME TypeInv, NEW s \in SocketId, NEW x \in SocketState,
         socket' = [socket EXCEPT ![s] = x], Now' = Now,
         x.state = "open" => x.next \in 1..(Now + 1),
         ws' \in {ws, 0}, ws' = s => x.state # "none", timer' \in BOOLEAN, stray' \in Nat
  PROVE  SocketsType'
<1>1. SocketsType /\ Now \in Nat
  BY DEF TypeInv, LogType, Now
<1>2. /\ socket' \in [SocketId -> SocketState] /\ socket'[s] = x
      /\ \A i \in SocketId : i # s => socket'[i] = socket[i]
  BY <1>1 DEF SocketsType
<1>3. ws' # 0 => socket'[ws'].state # "none"
  BY <1>1, <1>2 DEF SocketsType
<1>4. ASSUME NEW i \in SocketId, Open(i)' PROVE socket'[i].next \in 1..(Now' + 1)
  <2>1. CASE i = s
    BY <1>1, <1>2, <1>4, <2>1 DEF Open
  <2>2. CASE i # s
    BY <1>1, <1>2, <1>4, <2>2 DEF SocketsType, Open
  <2> QED
    BY <2>1, <2>2
<1> QED
  BY <1>1, <1>2, <1>3, <1>4 DEF SocketsType

LEMMA ConnectingTypes ==
  ASSUME TypeInv, Connecting, Now' = Now, timer' \in BOOLEAN, stray' \in Nat
  PROVE  SocketsType'
<1>1. SocketsType /\ Now \in Nat
  BY DEF TypeInv, LogType, Now
<1>2. /\ ws' \in SocketId /\ socket' \in [SocketId -> SocketState]
      /\ \/ ws # 0 /\ ws' = ws /\ socket' = socket
         \/ /\ ws = 0 /\ socket[ws'].state = "none" /\ socket'[ws'].state = "connecting"
            /\ \A s \in SocketId : s # ws' => socket'[s] = socket[s]
  BY <1>1, ConnectingFacts
<1>3. ws' # 0 => socket'[ws'].state # "none"
  BY <1>1, <1>2 DEF SocketsType
<1>4. ASSUME NEW i \in SocketId, Open(i)' PROVE socket'[i].next \in 1..(Now' + 1)
  <2>1. socket'[i] = socket[i]
    BY <1>2, <1>4 DEF Open
  <2> QED
    BY <1>1, <1>4, <2>1 DEF SocketsType, Open
<1> QED
  BY <1>1, <1>2, <1>3, <1>4 DEF SocketsType

LEMMA TypeInductive == TypeInv /\ [Next]_vars => TypeInv'
<1> SUFFICES ASSUME TypeInv, [Next]_vars PROVE TypeInv'
  OBVIOUS
<1>1. /\ SocketsType /\ ScreenType /\ LogType /\ RestType /\ Now \in Nat
      /\ missed \subseteq Record /\ hasty \in Nat /\ stray \in Nat /\ timer \in BOOLEAN
      /\ mounted \/ ~timer
  BY DEF TypeInv, LogType, Now, ScreenType, SocketsType
<1>2. ASSUME NEW exported \in BOOLEAN, NEW place \in Record, RecordLog(exported, place) PROVE TypeInv'
  <2>1. Grown /\ LogType' /\ Now' \in Nat /\ Now <= Now'
    BY <1>2, RecordLogGrows, LogGrows DEF Grown
  <2>2. /\ UNCHANGED <<up, socket, client, page, hasty, visits, breaks>>
        /\ CountAt(Now) + 1 \in Record
        /\ Broadcast(<<Created(CountAt(Now) + 1)>> \o
                     (IF exported THEN <<FileUpdated(CountAt(Now) + 1, "WRITING")>> ELSE <<>>))
    <3>1. CountAt(Now) \in Nat
      BY <1>1, Counting, Counted
    <3> QED
      BY <1>2, <3>1, MonitorAssumption DEF RecordLog, Record, MonitorAssumption
  <2>3. <<Created(CountAt(Now) + 1)>> \o
          (IF exported THEN <<FileUpdated(CountAt(Now) + 1, "WRITING")>> ELSE <<>>) \in Seq(Event)
    <3>1. /\ Created(CountAt(Now) + 1) \in Event
          /\ FileUpdated(CountAt(Now) + 1, "WRITING") \in Event
      BY <2>2 DEF Created, FileUpdated, Event, FileStatus
    <3>2. \A a, b \in Event : <<a>> \o <<b>> \in Seq(Event) /\ <<a>> \o <<>> \in Seq(Event)
      OBVIOUS
    <3> QED
      BY <3>1, <3>2
  <2>4. missed' \subseteq Record
    BY <2>2, <2>3, BroadcastMisses
  <2>5. SocketsType'
    BY <1>1, <2>1, <2>2, SocketsStay DEF client
  <2>6. ScreenType'
    BY <1>1, <2>1, <2>2, <2>4, ScreenStays DEF client
  <2> QED
    BY <1>1, <2>1, <2>2, <2>5, <2>6 DEF TypeInv, RestType
<1>3. ASSUME NEW r \in Record, NEW s \in FileStatus, FileChanges(r, s) PROVE TypeInv'
  <2>1. Grown /\ LogType' /\ Now' \in Nat /\ Now <= Now'
    BY <1>3, FileChangesGrows, LogGrows DEF Grown
  <2>2. /\ UNCHANGED <<up, socket, client, page, hasty, visits, breaks>>
        /\ Broadcast(<<FileUpdated(r, s)>>)
    BY <1>3 DEF FileChanges
  <2>3. FileUpdated(r, s) \in Event /\ <<FileUpdated(r, s)>> \in Seq(Event)
    <3>1. FileUpdated(r, s) \in Event
      BY DEF FileUpdated, Event
    <3>2. \A a \in Event : <<a>> \in Seq(Event)
      OBVIOUS
    <3> QED
      BY <3>1, <3>2
  <2>4. missed' \subseteq Record
    BY <2>2, <2>3, BroadcastMisses
  <2>5. SocketsType'
    BY <1>1, <2>1, <2>2, SocketsStay DEF client
  <2>6. ScreenType'
    BY <1>1, <2>1, <2>2, <2>4, ScreenStays DEF client
  <2> QED
    BY <1>1, <2>1, <2>2, <2>5, <2>6 DEF TypeInv, RestType
<1>4. ASSUME NEW inserted \in BOOLEAN, NEW place \in Record, ServerDies(inserted, place) PROVE TypeInv'
  <2>1. Grown /\ LogType' /\ Now' \in Nat /\ Now <= Now'
    BY <1>4, ServerDiesGrows, LogGrows DEF Grown
  <2>2. /\ up' = FALSE /\ breaks' = breaks + 1 /\ socket' = Closed(InUse)
        /\ inserted => CountAt(Now) < MaxRecords
        /\ Misses(UndeliveredBy(SocketId) \cup (IF inserted THEN {CountAt(Now) + 1} ELSE {}))
        /\ UNCHANGED <<client, page, hasty, visits>>
    BY <1>4 DEF ServerDies
  <2>3. missed' \subseteq Record
    <3>1. CountAt(Now) \in Nat
      BY <1>1, Counting, Counted
    <3>2. UndeliveredBy(SocketId) \subseteq Record
      BY UndeliveredTyped
    <3>3. inserted => CountAt(Now) + 1 \in Record
      BY <2>2, <3>1, MonitorAssumption DEF Record, MonitorAssumption
    <3> QED
      BY <1>1, <2>2, <3>2, <3>3 DEF Misses
  <2>4. SocketsType'
    BY <1>1, <2>1, <2>2, SocketsClose DEF client
  <2>5. ScreenType'
    BY <1>1, <2>1, <2>2, <2>3, ScreenStays DEF client
  <2>6. RestType'
    <3>1. up' \in BOOLEAN
      BY <2>2
    <3>2. breaks' \in Nat /\ visits' \in Nat
      BY <1>1, <2>2 DEF RestType
    <3> QED
      BY <3>1, <3>2 DEF RestType
  <2> QED
    BY <2>1, <2>4, <2>5, <2>6 DEF TypeInv
<1>5. ASSUME ServerStarts PROVE TypeInv'
  <2>1. up' = TRUE /\ UNCHANGED <<events, socket, client, page, missed, hasty, visits, breaks>>
    BY <1>5 DEF ServerStarts, log
  <2>2. LogType' /\ Now' = Now
    BY <2>1, LogStays
  <2>3. SocketsType'
    BY <1>1, <2>1, <2>2, SocketsStay DEF client
  <2>4. ScreenType'
    BY <1>1, <2>1, <2>2, ScreenStays DEF client
  <2> QED
    BY <1>1, <2>1, <2>2, <2>3, <2>4 DEF TypeInv, RestType
<1>6. ASSUME NEW s \in SocketId, Connects(s) PROVE TypeInv'
  <2>1. /\ socket' = [socket EXCEPT ![s] = [state |-> "open", next |-> Now + 1]]
        /\ UNCHANGED <<up, events, client, page, missed, hasty, visits, breaks>>
    BY <1>6 DEF Connects, log
  <2>2. LogType' /\ Now' = Now
    BY <2>1, LogStays
  <2>3. /\ [state |-> "open", next |-> Now + 1] \in SocketState
        /\ Now + 1 \in 1..(Now + 1)
    BY <1>1 DEF SocketState
  <2>4. SocketsType'
    BY <1>1, <2>1, <2>2, <2>3, OneSocketSteps DEF client
  <2>5. ScreenType'
    BY <1>1, <2>1, <2>2, ScreenStays DEF client
  <2> QED
    BY <1>1, <2>1, <2>2, <2>4, <2>5 DEF TypeInv, RestType
<1>7. ASSUME NEW s \in SocketId, ConnectFails(s) PROVE TypeInv'
  <2>1. /\ socket' = Closed({s})
        /\ UNCHANGED <<up, events, client, page, missed, hasty, visits, breaks>>
    BY <1>7 DEF ConnectFails, log
  <2>2. LogType' /\ Now' = Now
    BY <2>1, LogStays
  <2>3. SocketsType'
    BY <1>1, <2>1, <2>2, SocketsClose DEF client
  <2>4. ScreenType'
    BY <1>1, <2>1, <2>2, ScreenStays DEF client
  <2> QED
    BY <1>1, <2>1, <2>2, <2>3, <2>4 DEF TypeInv, RestType
<1>8. ASSUME NEW s \in SocketId, Breaks(s) PROVE TypeInv'
  <2>1. /\ breaks' = breaks + 1 /\ socket' = Closed({s}) /\ Misses(Undelivered(s))
        /\ UNCHANGED <<up, events, client, page, hasty, visits>>
    BY <1>8 DEF Breaks, log
  <2>2. LogType' /\ Now' = Now
    BY <2>1, LogStays
  <2>3. missed' \subseteq Record
    <3>1. UndeliveredBy({s}) \subseteq Record
      BY UndeliveredTyped
    <3> QED
      BY <1>1, <2>1, <3>1 DEF Misses, UndeliveredBy
  <2>4. SocketsType'
    BY <1>1, <2>1, <2>2, SocketsClose DEF client
  <2>5. ScreenType'
    BY <1>1, <2>1, <2>2, <2>3, ScreenStays DEF client
  <2> QED
    BY <1>1, <2>1, <2>2, <2>4, <2>5 DEF TypeInv, RestType
<1>9. ASSUME NEW s \in SocketId, OnClose(s) PROVE TypeInv'
  <2>1. /\ socket' = [socket EXCEPT ![s] = Free] /\ ws' = 0 /\ timer' = (timer \/ mounted)
        /\ stray' = IF timer /\ mounted THEN stray + 1 ELSE stray
        /\ UNCHANGED <<up, events, page, missed, hasty, visits, breaks>>
    BY <1>9 DEF OnClose, ForgottenWs, log
  <2>2. LogType' /\ Now' = Now
    BY <2>1, LogStays
  <2>3. mounted \in BOOLEAN /\ timer' \in BOOLEAN /\ stray' \in Nat /\ (mounted \/ ~timer')
    BY <1>1, <2>1 DEF ScreenType
  <2>4. Free \in SocketState /\ Free.state # "open" /\ 0 \notin SocketId
    BY DEF SocketState, Free, SocketId
  <2>5. SocketsType'
    BY <1>1, <2>1, <2>2, <2>3, <2>4, OneSocketSteps
  <2>6. ScreenType'
    BY <1>1, <2>1, <2>2, <2>3, ScreenStays
  <2> QED
    BY <1>1, <2>1, <2>2, <2>5, <2>6 DEF TypeInv, RestType
<1>10. ASSUME TimerFires PROVE TypeInv'
  <2>1. /\ \/ timer' = FALSE /\ stray' = stray
           \/ stray > 0 /\ stray' = stray - 1 /\ timer' = timer
        /\ Connecting
        /\ UNCHANGED <<up, events, page, missed, hasty, visits, breaks>>
    BY <1>10 DEF TimerFires, log
  <2>2. LogType' /\ Now' = Now
    BY <2>1, LogStays
  <2>3. timer' \in BOOLEAN /\ stray' \in Nat /\ (mounted \/ ~timer')
    <3>1. timer' = FALSE \/ timer' = timer
      BY <2>1
    <3>2. stray' = stray \/ (stray > 0 /\ stray' = stray - 1)
      BY <2>1
    <3>3. stray' \in Nat
      BY <1>1, <3>2
    <3>4. CASE timer' = FALSE
      BY <3>3, <3>4
    <3>5. CASE timer' = timer
      BY <1>1, <3>3, <3>5
    <3> QED
      BY <3>1, <3>4, <3>5
  <2>4. SocketsType'
    <3>1. Connecting /\ Now' = Now /\ timer' \in BOOLEAN /\ stray' \in Nat
      BY <2>1, <2>2, <2>3
    <3> QED
      BY <3>1, ConnectingTypes
  <2>5. ScreenType'
    BY <1>1, <2>1, <2>2, <2>3, ScreenStays
  <2> QED
    BY <1>1, <2>1, <2>2, <2>4, <2>5 DEF TypeInv, RestType
<1>t. <<>> \in Seq([id: Record, status: FileStatus \cup {"none"}]) /\ Len(<<>>) = 0 /\ 0 <= MaxDisplay
  BY EmptySeq, MonitorAssumption DEF MonitorAssumption
<1>11. ASSUME Enter PROVE TypeInv'
  <2>1. /\ visits' = visits + 1 /\ hasty' \in {hasty, hasty + 1} /\ mounted' = TRUE
        /\ load' = Asked /\ records' = <<>> /\ missed' = {} /\ Connecting
        /\ UNCHANGED <<up, events, timer, stray, breaks>>
    BY <1>11 DEF Enter, log
  <2>2. LogType' /\ Now' = Now
    BY <2>1, LogStays
  <2>3. SocketsType'
    BY <1>1, <2>1, <2>2, ConnectingTypes
  <2>4. ScreenType'
    BY <1>1, <1>t, <2>1 DEF ScreenType
  <2> QED
    BY <1>1, <2>1, <2>2, <2>3, <2>4 DEF TypeInv, RestType
<1>12. ASSUME Leave PROVE TypeInv'
  <2>1. /\ mounted' = FALSE /\ load' = Done /\ records' = <<>> /\ missed' = {}
        /\ socket' = Closed(Unsubscribed) /\ ws' = 0 /\ timer' = FALSE
        /\ UNCHANGED <<up, events, stray, hasty, visits, breaks>>
    BY <1>12 DEF Leave, log
  <2>2. LogType' /\ Now' = Now
    BY <2>1, LogStays
  <2>3. SocketsType'
    <3>1. Now <= Now' /\ Now' \in Nat /\ ws' \in {ws, 0} /\ stray' \in Nat
      BY <1>1, <2>1, <2>2
    <3>2. timer' \in BOOLEAN /\ socket' = Closed(Unsubscribed)
      BY <2>1
    <3> QED
      BY <3>1, <3>2, SocketsClose
  <2>4. ScreenType'
    BY <1>1, <1>t, <2>1 DEF ScreenType
  <2> QED
    BY <1>1, <2>1, <2>2, <2>3, <2>4 DEF TypeInv, RestType
<1>13. ASSUME AnswerLogs PROVE TypeInv'
  <2>1. /\ load' = Now /\ mounted \in BOOLEAN /\ mounted
        /\ UNCHANGED <<up, events, socket, client, mounted, records, missed, hasty, visits, breaks>>
    BY <1>1, <1>13 DEF AnswerLogs, ScreenType, Asked, Done, log
  <2>2. LogType' /\ Now' = Now
    BY <2>1, LogStays
  <2>3. SocketsType'
    BY <1>1, <2>1, <2>2, SocketsStay DEF client
  <2>4. ScreenType'
    BY <1>1, <2>1, <2>2 DEF ScreenType, client
  <2> QED
    BY <1>1, <2>1, <2>2, <2>3, <2>4 DEF TypeInv, RestType
<1>14. ASSUME LogsArrive PROVE TypeInv'
  <2>1. /\ load \in 0..Now /\ load' = Done /\ mounted
        /\ \E rows \in Rows(load) : records' = Snapshot(rows, load)
        /\ UNCHANGED <<up, events, socket, client, mounted, missed, hasty, visits, breaks>>
    BY <1>1, <1>14 DEF LogsArrive, ScreenType, Asked, Done, log
  <2>2. LogType' /\ Now' = Now
    BY <2>1, LogStays
  <2>3. SocketsType'
    BY <1>1, <2>1, <2>2, SocketsStay DEF client
  <2>4. PICK rows \in Rows(load) : records' = Snapshot(rows, load)
    BY <2>1
  <2>5. PICK c, l : c = CountAt(load) /\ l = IF Limit <= c THEN Limit ELSE c
    OBVIOUS
  <2>6. records' \in Seq(Shown) /\ Len(records') <= MaxDisplay
    <3>1. records' \in Seq(Shown) /\ Len(records') = l /\ l \in Nat /\ l <= Limit
      BY <2>1, <2>4, <2>5, SnapshotFacts DEF SnapshotFits
    <3> QED
      BY <3>1, MonitorAssumption DEF MonitorAssumption
  <2>7. ScreenType'
    BY <1>1, <2>1, <2>2, <2>6 DEF ScreenType, client, Shown
  <2> QED
    BY <1>1, <2>1, <2>2, <2>3, <2>7 DEF TypeInv, RestType
<1>15. ASSUME LogsFail PROVE TypeInv'
  <2>1. /\ load' = Done /\ missed' = Logged /\ mounted
        /\ UNCHANGED <<up, events, socket, client, mounted, records, hasty, visits, breaks>>
    BY <1>1, <1>15 DEF LogsFail, ScreenType, log
  <2>2. LogType' /\ Now' = Now
    BY <2>1, LogStays
  <2>3. SocketsType'
    BY <1>1, <2>1, <2>2, SocketsStay DEF client
  <2>4. Logged \subseteq Record
    <3>1. CountAt(Now) \in Nat
      BY <1>1, Counting, Counted
    <3> QED
      BY <1>1, <3>1, MonitorAssumption DEF Logged, Record, LogType, MonitorAssumption
  <2>5. ScreenType'
    BY <1>1, <2>1, <2>2, <2>4 DEF ScreenType, client
  <2> QED
    BY <1>1, <2>1, <2>2, <2>3, <2>5 DEF TypeInv, RestType
<1>16. ASSUME NEW s \in SocketId, Deliver(s) PROVE TypeInv'
  <2>1. PICK e : e = events[socket[s].next]
    OBVIOUS
  <2>2. /\ Open(s) /\ socket[s].next <= Now
        /\ socket' = [socket EXCEPT ![s].next = @ + 1]
        /\ records' = IF ~mounted THEN records
                      ELSE IF e.type = "created" THEN WithCreated(e) ELSE WithStatus(e)
        /\ IF load \in 0..MaxEvents THEN Misses({e.id}) ELSE UNCHANGED missed
        /\ UNCHANGED <<up, events, client, mounted, load, hasty, visits, breaks>>
    BY <1>16, <2>1 DEF Deliver, log
  <2>3. LogType' /\ Now' = Now
    BY <2>2, LogStays
  <2>4. socket[s].next \in 1..Now /\ socket[s] \in SocketState /\ socket[s].state = "open"
    BY <1>1, <2>2 DEF SocketsType, Open
  <2>5. e \in Event /\ e.id \in Record
    <3>1. e \in Event
      BY <1>1, <2>1, <2>4 DEF LogType, Now
    <3> QED
      BY <3>1 DEF Event
  <2>6. PICK x : x = [socket[s] EXCEPT !.next = socket[s].next + 1]
    OBVIOUS
  <2>7. /\ x \in SocketState /\ x.state = "open" /\ x.next \in 1..(Now + 1)
        /\ socket' = [socket EXCEPT ![s] = x]
    BY <1>1, <2>2, <2>4, <2>6 DEF SocketState
  <2>8. SocketsType'
    BY <1>1, <2>2, <2>3, <2>7, OneSocketSteps DEF client
  <2>9. records' \in Seq(Shown) /\ Len(records') <= MaxDisplay /\ (~mounted => records' = <<>>)
    <3>1. records \in Seq(Shown) /\ Len(records) <= MaxDisplay /\ (~mounted => records = <<>>)
      BY <1>1 DEF ScreenType, Shown
    <3>2. CASE ~mounted \/ records' = records
      BY <2>2, <3>1, <3>2
    <3>3. CASE mounted /\ e.type = "created" /\ ~OnScreen(e.id)
      <4>1. records' = WithCreated(e)
        BY <2>2, <3>3
      <4> QED
        BY <2>5, <3>3, <4>1, WithCreatedFacts
    <3>4. CASE mounted /\ e.type # "created"
      <4>1. records' = WithStatus(e)
        BY <2>2, <3>4
      <4> QED
        BY <2>5, <3>1, <3>4, <4>1, WithStatusFacts
    <3>5. CASE mounted /\ e.type = "created" /\ OnScreen(e.id)
      BY <2>2, <3>1, <3>5 DEF WithCreated
    <3> QED
      BY <3>2, <3>3, <3>4, <3>5
  <2>10. missed' \subseteq Record
    BY <1>1, <2>2, <2>5 DEF Misses
  <2>11. ScreenType'
    BY <1>1, <2>2, <2>3, <2>9, <2>10 DEF ScreenType, client, Shown
  <2> QED
    BY <1>1, <2>2, <2>3, <2>8, <2>11 DEF TypeInv, RestType
<1>17. ASSUME Clear PROVE TypeInv'
  <2>1. /\ mounted /\ records' = <<>> /\ Misses(Logged)
        /\ UNCHANGED <<up, events, socket, client, mounted, load, hasty, visits, breaks>>
    BY <1>17 DEF Clear, log
  <2>2. LogType' /\ Now' = Now
    BY <2>1, LogStays
  <2>3. SocketsType'
    BY <1>1, <2>1, <2>2, SocketsStay DEF client
  <2>4. missed' \subseteq Record
    <3>1. CountAt(Now) \in Nat
      BY <1>1, Counting, Counted
    <3>2. Logged \subseteq Record
      BY <1>1, <3>1, MonitorAssumption DEF Logged, Record, LogType, MonitorAssumption
    <3> QED
      BY <1>1, <2>1, <3>2 DEF Misses
  <2>5. ScreenType'
    BY <1>1, <1>t, <2>1, <2>2, <2>4 DEF ScreenType, client
  <2> QED
    BY <1>1, <2>1, <2>2, <2>3, <2>5 DEF TypeInv, RestType
<1>18. ASSUME UNCHANGED vars PROVE TypeInv'
  <2>1. /\ UNCHANGED <<up, events, socket, ws, timer, stray, mounted, load, records>>
        /\ UNCHANGED <<givenUp, missed, hasty, visits, breaks>>
    BY <1>18 DEF vars, client, page, log
  <2>2. LogType' /\ Now' = Now
    BY <2>1, LogStays
  <2>3. SocketsType'
    BY <1>1, <2>1, <2>2, SocketsStay
  <2>4. ScreenType'
    BY <1>1, <2>1, <2>2, ScreenStays DEF page
  <2> QED
    BY <1>1, <2>1, <2>2, <2>3, <2>4 DEF TypeInv, RestType
<1> QED
  BY <1>2, <1>3, <1>4, <1>5, <1>6, <1>7, <1>8, <1>9, <1>10, <1>11, <1>12, <1>13, <1>14, <1>15,
     <1>16, <1>17, <1>18 DEF Next

-----------------------------------------------------------------------------
(* The order of the records by their time.                                 *)

\* A new record leaves the others in their order.
RanksStay == \A q, r \in Logged : Later(q, r)' <=> Later(q, r)

LEMMA RankedFacts ==
  ASSUME NEW c \in Nat, NEW place \in 1..(c + 1), rank \in [1..c -> 1..c]
  PROVE  /\ Ranked(place) \in [1..(c + 1) -> 1..(c + 1)]
         /\ \A q, r \in 1..c : Ranked(place)[q] > Ranked(place)[r] <=> rank[q] > rank[r]
<1>1. PICK old : old = [r \in 1..c |-> IF rank[r] < place THEN rank[r] ELSE rank[r] + 1]
  OBVIOUS
<1>2. \A r \in 1..c : /\ rank[r] \in 1..c
                      /\ old[r] = IF rank[r] < place THEN rank[r] ELSE rank[r] + 1
  BY <1>1
<1>s. PICK S : S = 1..(c + 1)
  OBVIOUS
<1>3. \A r \in 1..c : (IF rank[r] < place THEN rank[r] ELSE rank[r] + 1) \in S
  BY <1>s
<1>4. old \in [1..c -> S]
  BY <1>1, <1>3
<1>5. old \in Seq(S) /\ Len(old) = c /\ place \in S
  BY <1>4, <1>s
<1>6. Ranked(place) = Append(old, place)
  BY <1>1 DEF Ranked
<1>7. /\ Append(old, place) \in Seq(S) /\ Len(Append(old, place)) = c + 1
      /\ \A r \in 1..c : Append(old, place)[r] = old[r]
  BY <1>5
<1>8. Append(old, place) \in [1..(c + 1) -> 1..(c + 1)]
  <2>1. PICK new : new = Append(old, place)
    OBVIOUS
  <2>2. new \in Seq(S) /\ Len(new) = c + 1
    BY <1>7, <2>1
  <2>3. new \in [1..Len(new) -> S]
    BY <2>2
  <2>4. new \in [1..(c + 1) -> S]
    BY <2>2, <2>3
  <2> QED
    BY <1>s, <2>1, <2>4
<1>9. \A q, r \in 1..c : old[q] > old[r] <=> rank[q] > rank[r]
  <2> SUFFICES ASSUME NEW q \in 1..c, NEW r \in 1..c PROVE old[q] > old[r] <=> rank[q] > rank[r]
    OBVIOUS
  <2>1. PICK a \in Int, b \in Int : a = rank[q] /\ b = rank[r]
    BY <1>2
  <2>2. /\ old[q] = IF a < place THEN a ELSE a + 1
        /\ old[r] = IF b < place THEN b ELSE b + 1
    BY <1>2, <2>1
  <2>3. (IF a < place THEN a ELSE a + 1) > (IF b < place THEN b ELSE b + 1) <=> a > b
    OBVIOUS
  <2> QED
    BY <2>1, <2>2, <2>3
<1> QED
  BY <1>6, <1>7, <1>8, <1>9

LEMMA OrderInductive == TypeInv /\ OrderType /\ [Next]_vars => OrderType' /\ RanksStay
<1> SUFFICES ASSUME TypeInv, OrderType, [Next]_vars PROVE OrderType' /\ RanksStay
  OBVIOUS
<1>1. PICK c \in Nat : c = CountAt(Now) /\ Logged = 1..c /\ c <= MaxRecords
  BY Counting, Counted DEF TypeInv, LogType, Now, Logged
<1>2. rank \in [1..c -> 1..c] /\ writing \in [Record -> Nat] /\ givenUp \subseteq Record
  BY <1>1 DEF OrderType
<1>3. ASSUME NEW place \in Record, place <= c + 1, rank' = Ranked(place), CountAt(Now)' = c + 1
      PROVE  /\ rank' \in [1..CountAt(Now)' -> 1..CountAt(Now)']
             /\ RanksStay
  <2>1. place \in 1..(c + 1)
    BY <1>1, <1>3, MonitorAssumption DEF Record, MonitorAssumption
  <2>2. /\ rank' \in [1..(c + 1) -> 1..(c + 1)]
        /\ \A q, r \in 1..c : rank'[q] > rank'[r] <=> rank[q] > rank[r]
    BY <1>2, <1>3, <2>1, RankedFacts
  <2> QED
    BY <1>1, <1>3, <2>2 DEF RanksStay, Later
<1>4. ASSUME rank' = rank, CountAt(Now)' = c
      PROVE  /\ rank' \in [1..CountAt(Now)' -> 1..CountAt(Now)']
             /\ RanksStay
  BY <1>1, <1>2, <1>4 DEF RanksStay, Later
<1>5. ASSUME NEW exported \in BOOLEAN, NEW place \in Record, RecordLog(exported, place)
      PROVE  OrderType' /\ RanksStay
  <2>1. /\ place <= c + 1 /\ rank' = Ranked(place) /\ givenUp' = givenUp
        /\ writing' = IF exported THEN [writing EXCEPT ![c + 1] = 1] ELSE writing
    BY <1>1, <1>5 DEF RecordLog, page
  <2>2. CountAt(Now)' = c + 1
    BY <1>1, <1>5, RecordLogGrows
  <2>3. writing' \in [Record -> Nat]
    BY <1>2, <2>1
  <2> QED
    BY <1>2, <1>3, <2>1, <2>2, <2>3 DEF OrderType
<1>6. ASSUME NEW r \in Record, NEW s \in FileStatus, FileChanges(r, s)
      PROVE  OrderType' /\ RanksStay
  <2>1. /\ rank' = rank /\ givenUp' = givenUp
        /\ \/ writing' = [writing EXCEPT ![r] = @ + 1]
           \/ writing[r] > 0 /\ writing' = [writing EXCEPT ![r] = @ - 1]
    BY <1>6 DEF FileChanges, page
  <2>2. CountAt(Now)' = c
    BY <1>1, <1>6, FileChangesGrows
  <2>3. writing' \in [Record -> Nat]
    <3>1. writing[r] \in Nat
      BY <1>2
    <3> QED
      BY <1>2, <2>1, <3>1
  <2> QED
    BY <1>2, <1>4, <2>1, <2>2, <2>3 DEF OrderType
<1>7. ASSUME NEW inserted \in BOOLEAN, NEW place \in Record, ServerDies(inserted, place)
      PROVE  OrderType' /\ RanksStay
  <2>1. /\ inserted => place <= c + 1
        /\ rank' = (IF inserted THEN Ranked(place) ELSE rank) /\ givenUp' = givenUp
        /\ writing' = [i \in Record |-> 0]
    BY <1>1, <1>7 DEF ServerDies, page
  <2>2. CountAt(Now)' = IF inserted THEN c + 1 ELSE c
    BY <1>1, <1>7, ServerDiesGrows
  <2>3. writing' \in [Record -> Nat]
    BY <2>1
  <2> QED
    BY <1>2, <1>3, <1>4, <2>1, <2>2, <2>3 DEF OrderType
<1>8. ASSUME UNCHANGED log, givenUp' \subseteq Record PROVE OrderType' /\ RanksStay
  <2>1. CountAt(Now)' = c /\ rank' = rank /\ writing' = writing
    BY <1>1, <1>8 DEF CountAt, Now, log
  <2> QED
    BY <1>2, <1>4, <1>8, <2>1 DEF OrderType
<1>9. CASE ServerStarts \/ AnswerLogs \/ LogsArrive \/ LogsFail \/ Clear \/ TimerFires
  <2>1. UNCHANGED log /\ givenUp' = givenUp
    BY <1>9 DEF ServerStarts, AnswerLogs, LogsArrive, LogsFail, Clear, TimerFires, page
  <2> QED
    BY <1>2, <1>8, <2>1
<1>10. CASE Enter \/ Leave
  <2>1. UNCHANGED log /\ givenUp' = {}
    BY <1>10 DEF Enter, Leave
  <2> QED
    BY <1>8, <2>1
<1>11. ASSUME NEW s \in SocketId, Connects(s) \/ ConnectFails(s) \/ Breaks(s) \/ OnClose(s)
       PROVE  OrderType' /\ RanksStay
  <2>1. UNCHANGED log /\ givenUp' = givenUp
    BY <1>11 DEF Connects, ConnectFails, Breaks, OnClose, page
  <2> QED
    BY <1>2, <1>8, <2>1
<1>12. ASSUME NEW s \in SocketId, Deliver(s) PROVE OrderType' /\ RanksStay
  <2>1. UNCHANGED log /\ givenUp' \subseteq Record
    BY <1>12 DEF Deliver
  <2> QED
    BY <1>8, <2>1
<1>13. CASE UNCHANGED vars
  <2>1. UNCHANGED log /\ givenUp' = givenUp
    BY <1>13 DEF vars, page
  <2> QED
    BY <1>2, <1>8, <2>1
<1> QED
  BY <1>5, <1>6, <1>7, <1>9, <1>10, <1>11, <1>12, <1>13 DEF Next

LEMMA OrderInitially == Init => OrderType
<1> SUFFICES ASSUME Init PROVE OrderType
  OBVIOUS
<1>1. CountAt(Now) = 0
  <2>1. Now = 0
    BY DEF Init, Now
  <2> QED
    BY <2>1, Counting, Counted
<1>2. rank = <<>> /\ writing = [r \in Record |-> 0] /\ givenUp = {}
  BY DEF Init
<1>3. rank \in [1..0 -> 1..0]
  BY <1>2
<1> QED
  BY <1>1, <1>2, <1>3 DEF OrderType

\* A record is before as many others as before, or more.
LEMMA MoreAhead ==
  ASSUME TypeInv, TypeInv', RanksStay, Logged \subseteq Logged'
  PROVE  /\ \A r \in Logged : /\ Cardinality(Ahead(r)) \in Nat /\ Cardinality(Ahead(r)') \in Nat
                              /\ Cardinality(Ahead(r)) <= Cardinality(Ahead(r)')
         /\ InTime' => InTime
<1>1. IsFiniteSet(Logged')
  <2>1. PICK c \in Nat : c = CountAt(Now)' /\ Logged' = 1..c
    <3>1. events' \in Seq(Event) /\ Now' = Len(events') /\ Now' \in Nat
      BY DEF TypeInv, LogType, Now
    <3>2. CountAt(Now)' = Count(events', Now')
      BY DEF CountAt, Count, News
    <3>3. CountAt(Now)' \in Nat /\ Logged' = 1..CountAt(Now)'
      BY <3>1, <3>2, Counting DEF Logged
    <3> QED
      BY <3>3
  <2> QED
    BY <2>1, FS_Interval
<1>2. ASSUME NEW r \in Logged
      PROVE  /\ Cardinality(Ahead(r)) \in Nat /\ Cardinality(Ahead(r)') \in Nat
             /\ Cardinality(Ahead(r)) <= Cardinality(Ahead(r)')
  <2>1. Ahead(r)' \subseteq Logged' /\ Ahead(r) \subseteq Ahead(r)'
    BY <1>2 DEF Ahead, RanksStay
  <2>2. PICK new : new = Ahead(r)'
    OBVIOUS
  <2>3. PICK all : all = Logged'
    OBVIOUS
  <2>4. IsFiniteSet(new)
    BY <1>1, <2>1, <2>2, <2>3, FS_Subset
  <2>5. Cardinality(new) \in Nat
    BY <2>4, FS_CardinalityType
  <2>6. IsFiniteSet(Ahead(r)) /\ Cardinality(Ahead(r)) <= Cardinality(new)
    BY <2>1, <2>2, <2>4, FS_Subset
  <2>7. Cardinality(Ahead(r)) \in Nat
    BY <2>6, FS_CardinalityType
  <2> QED
    BY <2>2, <2>5, <2>6, <2>7
<1>3. InTime' => InTime
  BY DEF InTime, RanksStay
<1> QED
  BY <1>2, <1>3

\* While the clock was never set back, the records after one are those ahead of it.
LEMMA AheadInTime ==
  ASSUME TypeInv, OrderType, InTime, NEW r \in Logged
  PROVE  Cardinality(Ahead(r)) = CountAt(Now) - r
<1>1. PICK c \in Nat : c = CountAt(Now) /\ Logged = 1..c
  BY Counting, Counted DEF TypeInv, LogType, Now, Logged
<1>2. \A q \in 1..c : rank[q] \in Int
  BY <1>1 DEF OrderType
<1>3. ASSUME NEW q \in 1..c, Later(q, r) PROVE q > r
  <2>1. ~(q < r)
    BY <1>1, <1>3 DEF InTime
  <2>2. q # r
    BY <1>2, <1>3 DEF Later
  <2> QED
    BY <1>1, <2>1, <2>2
<1>4. Ahead(r) = (r + 1)..c
  <2>1. \A q \in Ahead(r) : q \in (r + 1)..c
    BY <1>1, <1>3 DEF Ahead
  <2>2. \A q \in (r + 1)..c : q \in Ahead(r)
    BY <1>1 DEF Ahead
  <2> QED
    BY <2>1, <2>2
<1>5. PICK x \in Int : x = r /\ x <= c
  BY <1>1
<1>6. Cardinality((x + 1)..c) = IF x + 1 > c THEN 0 ELSE c - (x + 1) + 1
  BY FS_Interval
<1>7. Cardinality((x + 1)..c) = c - x
  BY <1>5, <1>6
<1> QED
  BY <1>1, <1>4, <1>5, <1>7

-----------------------------------------------------------------------------
(* Sockets the client has forgotten.                                       *)

Held == {s \in SocketId : socket[s].state # "none"}
Forgotten == InUse \ {ws}
Unnamed == Held \ {ws}
One(b) == IF b THEN 1 ELSE 0

\* Every forgotten socket was paid for by a visit that was opened in haste; so is
\* every stray timer, and on an open page every socket that may yet be forgotten.
\* After a visit there is one socket more, which the page has closed.
HasteInv ==
  /\ Cardinality(Forgotten) + stray <= hasty
  /\ mounted => Cardinality(Unnamed) + stray + One(timer /\ ws # 0) <= hasty
  /\ ~mounted => Cardinality(Unnamed) + stray + One(ws # 0) <= hasty + 1

\* Sets of sockets are finite, and a part is no larger.
LEMMA SizesOf ==
  ASSUME NEW S \in SUBSET SocketId, NEW T \in SUBSET S
  PROVE  /\ IsFiniteSet(S) /\ IsFiniteSet(T)
         /\ Cardinality(S) \in Nat /\ Cardinality(T) \in Nat /\ Cardinality(T) <= Cardinality(S)
<1>1. IsFiniteSet(SocketId)
  BY FS_Interval, MonitorAssumption DEF SocketId, MonitorAssumption
<1>2. IsFiniteSet(S)
  BY <1>1, FS_Subset
<1>3. IsFiniteSet(T) /\ Cardinality(T) <= Cardinality(S)
  BY <1>2, FS_Subset
<1> QED
  BY <1>2, <1>3, FS_CardinalityType

LEMMA Sizes ==
  /\ Cardinality(Forgotten) \in Nat /\ Cardinality(Unnamed) \in Nat
  /\ Cardinality(Forgotten) <= Cardinality(Unnamed)
  /\ Cardinality(Forgotten') \in Nat /\ Cardinality(Unnamed') \in Nat
  /\ Cardinality(Forgotten') <= Cardinality(Unnamed')
<1>1. Unnamed \in SUBSET SocketId /\ Forgotten \in SUBSET Unnamed
  BY DEF Unnamed, Held, Forgotten, InUse
<1>2. Unnamed' \in SUBSET SocketId /\ Forgotten' \in SUBSET Unnamed'
  BY DEF Unnamed, Held, Forgotten, InUse
<1> QED
  BY <1>1, <1>2, SizesOf

\* Where the client keeps what it knows, sockets only end.
LEMMA HasteStays ==
  ASSUME HasteInv, UNCHANGED <<ws, timer, stray, mounted, hasty>>, TypeInv,
         InUse' \subseteq InUse, Held' = Held
  PROVE  HasteInv'
<1>1. Unnamed' = Unnamed /\ Forgotten' \in SUBSET Forgotten /\ Forgotten \in SUBSET SocketId
  BY DEF Unnamed, Forgotten, InUse
<1>2. Cardinality(Forgotten') <= Cardinality(Forgotten)
  BY <1>1, SizesOf
<1>3. stray \in Nat /\ hasty \in Nat
  BY DEF TypeInv, SocketsType, ScreenType
<1>4. /\ Cardinality(Forgotten') + stray' <= hasty'
      /\ mounted' => Cardinality(Unnamed') + stray' + One(timer' /\ ws' # 0) <= hasty'
      /\ ~mounted' => Cardinality(Unnamed') + stray' + One(ws' # 0) <= hasty' + 1
  BY <1>1, <1>2, <1>3, Sizes DEF HasteInv
<1> QED
  BY <1>4 DEF HasteInv, One

\* A new connection: the client knows it.
LEMMA HasteConnects ==
  ASSUME TypeInv, Connecting
  PROVE  /\ Forgotten' = Forgotten /\ Unnamed' = Unnamed /\ ws' # 0
         /\ ws # 0 => ws' = ws
<1>1. /\ ws' \in SocketId
      /\ \/ ws # 0 /\ ws' = ws /\ socket' = socket
         \/ /\ ws = 0 /\ socket[ws'].state = "none" /\ socket'[ws'].state = "connecting"
            /\ \A s \in SocketId : s # ws' => socket'[s] = socket[s]
  BY ConnectingFacts DEF TypeInv
<1>2. 0 \notin SocketId
  BY DEF SocketId
<1>3. Forgotten' = Forgotten
  BY <1>1, <1>2 DEF Forgotten, InUse
<1>4. Unnamed' = Unnamed
  BY <1>1, <1>2 DEF Unnamed, Held
<1> QED
  BY <1>1, <1>2, <1>3, <1>4

\* Ended sockets are still held, until their close events come.
LEMMA ClosedHeld ==
  ASSUME TypeInv, NEW S, S \subseteq Held, socket' = Closed(S)
  PROVE  Held' = Held /\ InUse' = InUse \ S
<1>1. \A s \in SocketId : /\ s \in S => socket'[s].state = "closed"
                          /\ s \notin S => socket'[s] = socket[s]
  BY ClosedFacts DEF TypeInv
<1>2. \A s \in SocketId : s \in Held' <=> s \in Held
  BY <1>1 DEF Held
<1>3. \A s \in SocketId : s \in InUse' <=> s \in InUse \ S
  BY <1>1 DEF InUse
<1> QED
  BY <1>2, <1>3 DEF Held, InUse

LEMMA HasteOnClose ==
  ASSUME TypeInv, HasteInv, NEW s \in SocketId, OnClose(s)
  PROVE  HasteInv'
<1>1. /\ socket[s].state = "closed" /\ socket' = [socket EXCEPT ![s] = Free] /\ ws' = 0
      /\ timer' = (timer \/ mounted) /\ stray' = IF timer /\ mounted THEN stray + 1 ELSE stray
      /\ mounted' = mounted /\ hasty' = hasty
  BY DEF OnClose, ForgottenWs, page, log
<1>2. /\ socket \in [SocketId -> SocketState] /\ stray \in Nat /\ hasty \in Nat
      /\ timer \in BOOLEAN /\ mounted \in BOOLEAN
      /\ ws \in SocketId \cup {0} /\ 0 \notin SocketId
      /\ ws # 0 => socket[ws].state # "none"
  BY DEF TypeInv, SocketsType, ScreenType, SocketId
<1>3. ~mounted => ~timer
  BY DEF TypeInv, ScreenType
<1>4. socket'[s].state = "none" /\ \A i \in SocketId : i # s => socket'[i] = socket[i]
  BY <1>1, <1>2 DEF Free
<1>5. Held' = Held \ {s} /\ s \in Held /\ InUse' = InUse /\ s \notin InUse
  BY <1>1, <1>4 DEF Held, InUse
<1>6. Unnamed' = Held \ {s} /\ Forgotten' = InUse
  BY <1>1, <1>2, <1>5 DEF Unnamed, Forgotten, Held, InUse
<1> PICK f \in Nat, u \in Nat, nf \in Nat, nu \in Nat :
         /\ f = Cardinality(Forgotten) /\ u = Cardinality(Unnamed) /\ f <= u
         /\ nf = Cardinality(Forgotten') /\ nu = Cardinality(Unnamed') /\ nf <= nu
  BY Sizes
<1>7. /\ f + stray <= hasty
      /\ mounted => u + stray + One(timer /\ ws # 0) <= hasty
      /\ ~mounted => u + stray + One(ws # 0) <= hasty + 1
  BY DEF HasteInv
<1>8. SUFFICES /\ nf + stray' <= hasty
               /\ mounted => nu + stray' <= hasty
               /\ ~mounted => nu + stray' <= hasty + 1
  BY <1>1, <1>2 DEF HasteInv, One
<1>9. CASE ws = s
  <2>1. Unnamed' = Unnamed /\ Forgotten' = Forgotten
    BY <1>5, <1>6, <1>9 DEF Unnamed, Forgotten
  <2>2. nu = u /\ nf = f
    BY <2>1
  <2>3. One(ws # 0) = 1
    BY <1>2, <1>9 DEF One
  <2>4. CASE mounted
    <3>1. One(timer /\ ws # 0) = IF timer THEN 1 ELSE 0
      BY <1>2, <1>9 DEF One
    <3>2. stray' = IF timer THEN stray + 1 ELSE stray
      BY <1>1, <2>4
    <3> QED
      BY <1>2, <1>7, <2>2, <2>4, <3>1, <3>2
  <2>5. CASE ~mounted
    <3>1. stray' = stray
      BY <1>1, <2>5
    <3> QED
      BY <1>2, <1>7, <2>2, <2>3, <2>5, <3>1
  <2> QED
    BY <2>4, <2>5
<1>10. CASE ws # s
  <2>1. s \in Unnamed /\ IsFiniteSet(Unnamed)
    <3>1. Unnamed \in SUBSET SocketId /\ s \in Unnamed
      BY <1>5, <1>10 DEF Unnamed, Held
    <3> QED
      BY <3>1, SizesOf
  <2>2. PICK R : R = Unnamed \ {s}
    OBVIOUS
  <2>3. IsFiniteSet(R) /\ Cardinality(R) = u - 1
    BY <2>1, <2>2, FS_RemoveElement
  <2>4. nu = u - 1 + One(ws # 0)
    <3>1. CASE ws = 0
      <4>1. Unnamed' = R
        BY <1>2, <1>6, <2>2, <3>1 DEF Unnamed, Held
      <4> QED
        BY <2>3, <3>1, <4>1 DEF One
    <3>2. CASE ws # 0
      <4>1. Unnamed' = R \cup {ws} /\ ws \notin R
        BY <1>2, <1>6, <1>10, <2>2, <3>2 DEF Unnamed, Held
      <4>2. Cardinality(R \cup {ws}) = Cardinality(R) + 1
        BY <2>3, <4>1, FS_AddElement
      <4>3. One(ws # 0) = 1
        BY <3>2 DEF One
      <4> QED
        BY <2>3, <4>1, <4>2, <4>3
    <3> QED
      BY <3>1, <3>2
  <2>5. CASE mounted
    <3>1. stray' = IF timer THEN stray + 1 ELSE stray
      BY <1>1, <2>5
    <3>2. CASE ws = 0
      BY <1>2, <1>7, <2>4, <2>5, <3>1, <3>2 DEF One
    <3>3. CASE ws # 0
      BY <1>2, <1>7, <2>4, <2>5, <3>1, <3>3 DEF One
    <3> QED
      BY <3>2, <3>3
  <2>6. CASE ~mounted
    <3>1. stray' = stray
      BY <1>1, <2>6
    <3>2. One(ws # 0) \in {0, 1}
      BY DEF One
    <3> QED
      BY <1>2, <1>7, <2>4, <2>6, <3>1, <3>2
  <2> QED
    BY <2>5, <2>6
<1> QED
  BY <1>9, <1>10

LEMMA HasteTimerFires ==
  ASSUME TypeInv, HasteInv, TimerFires
  PROVE  HasteInv'
<1>1. /\ \/ timer /\ timer' = FALSE /\ stray' = stray
         \/ stray > 0 /\ stray' = stray - 1 /\ timer' = timer
      /\ mounted' = mounted /\ hasty' = hasty
  BY DEF TimerFires, page, log
<1>2. Connecting
  BY DEF TimerFires, log
<1>3. Forgotten' = Forgotten /\ Unnamed' = Unnamed /\ ws' # 0 /\ (ws # 0 => ws' = ws)
  BY <1>2, HasteConnects
<1>4. stray \in Nat /\ hasty \in Nat /\ timer \in BOOLEAN /\ mounted \in BOOLEAN
  BY DEF TypeInv, SocketsType, ScreenType
<1>5. ~mounted => ~timer
  BY DEF TypeInv, ScreenType
<1> PICK f \in Nat, u \in Nat : f = Cardinality(Forgotten) /\ u = Cardinality(Unnamed)
  BY Sizes
<1>6. /\ f + stray <= hasty
      /\ mounted => u + stray + One(timer /\ ws # 0) <= hasty
      /\ ~mounted => u + stray + One(ws # 0) <= hasty + 1
  BY DEF HasteInv
<1>7. SUFFICES /\ f + stray' <= hasty
               /\ mounted => u + stray' + One(timer' /\ ws' # 0) <= hasty
               /\ ~mounted => u + stray' + One(ws' # 0) <= hasty + 1
  BY <1>1, <1>3 DEF HasteInv, One
<1>8. CASE timer /\ timer' = FALSE /\ stray' = stray
  <2>1. mounted /\ One(timer' /\ ws' # 0) = 0 /\ One(timer /\ ws # 0) \in Nat
    BY <1>5, <1>8 DEF One
  <2> QED
    BY <1>4, <1>6, <1>8, <2>1
<1>9. CASE stray > 0 /\ stray' = stray - 1 /\ timer' = timer
  <2>1. /\ One(timer' /\ ws' # 0) \in {0, 1} /\ One(ws' # 0) \in {0, 1}
        /\ One(timer /\ ws # 0) \in {0, 1} /\ One(ws # 0) \in {0, 1}
    BY DEF One
  <2> QED
    BY <1>4, <1>6, <1>9, <2>1
<1> QED
  BY <1>1, <1>8, <1>9

LEMMA HasteEnter ==
  ASSUME TypeInv, HasteInv, Enter
  PROVE  HasteInv'
<1>1. /\ ~mounted /\ mounted' = TRUE /\ timer' = timer /\ stray' = stray
      /\ hasty' = IF \E s \in SocketId : socket[s].state = "closed" THEN hasty + 1 ELSE hasty
  BY DEF Enter, log
<1>2. Connecting
  BY DEF Enter, log
<1>3. Forgotten' = Forgotten /\ Unnamed' = Unnamed
  BY <1>2, HasteConnects
<1>4. stray \in Nat /\ hasty \in Nat /\ ~timer
  BY <1>1 DEF TypeInv, SocketsType, ScreenType
<1> PICK f \in Nat, u \in Nat : f = Cardinality(Forgotten) /\ u = Cardinality(Unnamed)
  BY Sizes
<1>5. f + stray <= hasty /\ u + stray + One(ws # 0) <= hasty + 1
  BY <1>1 DEF HasteInv
<1>6. SUFFICES f + stray <= hasty' /\ u + stray <= hasty'
  <2>1. One(timer' /\ ws' # 0) = 0
    BY <1>1, <1>4 DEF One
  <2>2. stray' = stray /\ stray + 0 = stray /\ u + stray + 0 = u + stray
    BY <1>1, <1>4
  <2> QED
    BY <1>1, <1>3, <1>4, <2>1, <2>2 DEF HasteInv, One
<1>7. CASE \E s \in SocketId : socket[s].state = "closed"
  <2>1. hasty' = hasty + 1 /\ One(ws # 0) \in {0, 1}
    BY <1>1, <1>7 DEF One
  <2> QED
    BY <1>4, <1>5, <2>1
<1>8. CASE ~\E s \in SocketId : socket[s].state = "closed"
  <2>1. hasty' = hasty
    BY <1>1, <1>8
  <2>2. \A s \in SocketId : socket[s].state \in {"none", "connecting", "open", "closed"}
    BY DEF TypeInv, SocketsType, SocketState
  <2>3. Unnamed = Forgotten
    BY <1>8, <2>2 DEF Unnamed, Forgotten, Held, InUse
  <2> QED
    BY <1>5, <2>1, <2>3
<1> QED
  BY <1>7, <1>8

LEMMA HasteLeave ==
  ASSUME TypeInv, HasteInv, Leave
  PROVE  HasteInv'
<1>1. /\ mounted /\ mounted' = FALSE /\ timer' = FALSE /\ stray' = stray /\ hasty' = hasty
      /\ ws' = 0 /\ socket' = Closed(Unsubscribed)
  BY DEF Leave, log
<1>2. /\ ws \in SocketId \cup {0} /\ 0 \notin SocketId /\ stray \in Nat /\ hasty \in Nat
      /\ ws # 0 => socket[ws].state # "none"
  BY DEF TypeInv, SocketsType, ScreenType, SocketId
<1>3. Unsubscribed \subseteq Held /\ Unsubscribed = {ws} \ {0}
  BY <1>2 DEF Unsubscribed, Held
<1>4. Held' = Held /\ InUse' = InUse \ Unsubscribed
  BY <1>1, <1>3, ClosedHeld
<1>5. Unnamed' = Held /\ Forgotten' = Forgotten
  <2>1. 0 \notin Held /\ 0 \notin InUse
    BY <1>2 DEF Held, InUse
  <2>2. Unnamed' = Held' \ {0} /\ Forgotten' = InUse' \ {0}
    BY <1>1 DEF Unnamed, Forgotten
  <2> QED
    BY <1>3, <1>4, <2>1, <2>2 DEF Forgotten
<1> PICK f \in Nat, u \in Nat : f = Cardinality(Forgotten) /\ u = Cardinality(Unnamed)
  BY Sizes
<1>6. Cardinality(Unnamed') \in Nat /\ Cardinality(Unnamed') <= u + 1
  <2>1. IsFiniteSet(Unnamed)
    <3>1. Unnamed \in SUBSET SocketId
      BY DEF Unnamed, Held
    <3> QED
      BY <3>1, SizesOf
  <2>2. CASE Unnamed' = Unnamed
    BY <2>2
  <2>3. CASE Unnamed' # Unnamed
    <3>1. Unnamed' = Unnamed \cup {ws} /\ ws \notin Unnamed
      BY <1>5, <2>3 DEF Unnamed
    <3>2. Cardinality(Unnamed \cup {ws}) = u + 1
      BY <2>1, <3>1, FS_AddElement
    <3> QED
      BY <3>1, <3>2
  <2> QED
    BY <2>2, <2>3
<1>7. f + stray <= hasty /\ u + stray + One(timer /\ ws # 0) <= hasty /\ One(timer /\ ws # 0) \in {0, 1}
  BY <1>1 DEF HasteInv, One
<1>8. /\ Cardinality(Forgotten') + stray' <= hasty'
      /\ Cardinality(Unnamed') + stray' + 0 <= hasty' + 1
  BY <1>1, <1>2, <1>5, <1>6, <1>7
<1> QED
  BY <1>1, <1>8 DEF HasteInv, One

LEMMA HasteInductive == TypeInv /\ HasteInv /\ [Next]_vars => HasteInv'
<1> SUFFICES ASSUME TypeInv, HasteInv, [Next]_vars PROVE HasteInv'
  OBVIOUS
<1>1. InUse \subseteq Held
  BY DEF InUse, Held
<1>2. ASSUME UNCHANGED <<socket, client, mounted, hasty>> PROVE HasteInv'
  <2>1. Held' = Held /\ InUse' = InUse
    BY <1>2 DEF Held, InUse
  <2> QED
    BY <1>2, <2>1, HasteStays DEF client
<1>3. ASSUME NEW S, S \subseteq InUse, socket' = Closed(S), UNCHANGED <<client, mounted, hasty>>
      PROVE  HasteInv'
  <2>1. Held' = Held /\ InUse' \subseteq InUse
    BY <1>1, <1>3, ClosedHeld
  <2> QED
    BY <1>3, <2>1, HasteStays DEF client
<1>4. ASSUME NEW s \in SocketId, NEW x, socket' = [socket EXCEPT ![s] = x],
             s \in InUse, x.state \in {"connecting", "open"}, UNCHANGED <<client, mounted, hasty>>
      PROVE  HasteInv'
  <2>1. socket \in [SocketId -> SocketState]
    BY DEF TypeInv, SocketsType
  <2>2. socket'[s] = x /\ \A i \in SocketId : i # s => socket'[i] = socket[i]
    BY <1>4, <2>1
  <2>3. Held' = Held /\ InUse' = InUse
    BY <1>1, <1>4, <2>2 DEF Held, InUse
  <2> QED
    BY <1>4, <2>3, HasteStays DEF client
<1>5. ASSUME NEW exported \in BOOLEAN, NEW place \in Record, RecordLog(exported, place) PROVE HasteInv'
  BY <1>2, <1>5 DEF RecordLog, page
<1>6. ASSUME NEW r \in Record, NEW s \in FileStatus, FileChanges(r, s) PROVE HasteInv'
  BY <1>2, <1>6 DEF FileChanges, page
<1>7. ASSUME NEW inserted \in BOOLEAN, NEW place \in Record, ServerDies(inserted, place) PROVE HasteInv'
  BY <1>3, <1>7 DEF ServerDies, page
<1>8. ASSUME ServerStarts PROVE HasteInv'
  BY <1>2, <1>8 DEF ServerStarts, page, log
<1>9. ASSUME NEW s \in SocketId, Connects(s) PROVE HasteInv'
  <2>1. s \in InUse /\ [state |-> "open", next |-> Now + 1].state \in {"connecting", "open"}
    BY <1>9 DEF Connects, InUse, log
  <2> QED
    BY <1>4, <1>9, <2>1 DEF Connects, page, log
<1>10. ASSUME NEW s \in SocketId, ConnectFails(s) PROVE HasteInv'
  <2>1. {s} \subseteq InUse
    BY <1>10 DEF ConnectFails, InUse, log
  <2> QED
    BY <1>3, <1>10, <2>1 DEF ConnectFails, page, log
<1>11. ASSUME NEW s \in SocketId, Breaks(s) PROVE HasteInv'
  <2>1. {s} \subseteq InUse
    BY <1>11 DEF Breaks, InUse, Open, log
  <2> QED
    BY <1>3, <1>11, <2>1 DEF Breaks, page, log
<1>12. ASSUME NEW s \in SocketId, Deliver(s) PROVE HasteInv'
  <2>1. /\ Open(s) /\ socket' = [socket EXCEPT ![s].next = @ + 1]
        /\ UNCHANGED <<client, mounted, hasty>>
    BY <1>12 DEF Deliver, log
  <2>2. PICK x : x = [socket[s] EXCEPT !.next = socket[s].next + 1]
    OBVIOUS
  <2>3. socket[s] \in SocketState
    BY DEF TypeInv, SocketsType
  <2>4. socket' = [socket EXCEPT ![s] = x] /\ x.state = "open" /\ s \in InUse
    BY <2>1, <2>2, <2>3 DEF SocketState, Open, InUse
  <2> QED
    BY <1>4, <2>1, <2>4
<1>13. ASSUME AnswerLogs \/ LogsArrive \/ LogsFail \/ Clear PROVE HasteInv'
  BY <1>2, <1>13 DEF AnswerLogs, LogsArrive, LogsFail, Clear, log
<1>14. ASSUME UNCHANGED vars PROVE HasteInv'
  BY <1>2, <1>14 DEF vars, page, log
<1> QED
  BY <1>5, <1>6, <1>7, <1>8, <1>9, <1>10, <1>11, <1>12, <1>13, <1>14,
     HasteOnClose, HasteTimerFires, HasteEnter, HasteLeave DEF Next

LEMMA HasteInitially == Init => HasteInv
<1> SUFFICES ASSUME Init PROVE HasteInv
  OBVIOUS
<1>1. Forgotten = {} /\ Unnamed = {}
  BY DEF Init, Forgotten, Unnamed, Held, InUse, Free
<1> QED
  BY <1>1, FS_EmptySet DEF Init, HasteInv, One

LEMMA HasteHolds == TypeInv /\ HasteInv => ForgetsInHaste
<1> SUFFICES ASSUME TypeInv, HasteInv PROVE ForgetsInHaste
  OBVIOUS
<1>1. Cardinality(Forgotten) \in Nat /\ stray \in Nat /\ hasty \in Nat
  BY Sizes DEF TypeInv, SocketsType, ScreenType
<1> QED
  BY <1>1 DEF HasteInv, ForgetsInHaste, Forgotten

-----------------------------------------------------------------------------
(* What is on the screen, on its way, or known to be missed.               *)

IsNew(i) == events[i].type = "created"
Pending == {i \in 1..Now : \E s \in SocketId : Open(s) /\ socket[s].next <= i}
Due(i) == i \in Pending \/ events[i].id \in missed
Loaded == mounted /\ load = Done

\* A row is what some event said.
Known ==
  \A k \in 1..Len(records) : \E i \in 1..Now :
    events[i].id = records[k].id /\ events[i].status = records[k].status
\* What came after the query of GET /logs is on its way, or noted.
AnswerFits == load >= 0 => \A i \in (load + 1)..Now : Due(i)
StatusFits ==
  Loaded => \A k \in 1..Len(records) :
    \/ records[k].status = StatusAt(records[k].id, Now)
    \/ \E i \in 1..Now : events[i].id = records[k].id /\ Due(i)
Disorder == hasty > 0 \/ ~InTime
RecordsFit ==
  Loaded => \A r \in Logged : Cardinality(Ahead(r)) < Limit =>
    \/ OnScreen(r) \/ (r \in givenUp /\ Disorder)
    \/ \E i \in 1..Now : IsNew(i) /\ events[i].id = r /\ Due(i)

\* The screen while there was one socket at a time and the clock was never set
\* back.  Either every row was delivered: they are in order and before what is
\* pending.
Plain ==
  /\ \A j, k \in 1..Len(records) : j < k => records[j].id < records[k].id
  /\ \A k \in 1..Len(records), i \in Pending : IsNew(i) => records[k].id < events[i].id
\* Or the first q rows are left of the answer, from number c on; those after them
\* were delivered since, and the first m of these are older than the answer.  A
\* full screen that has lost rows of the answer to older ones still waits for
\* these rows, or has missed them with all the others.
Layout(q, m, c) ==
  /\ Loaded /\ q + m <= Len(records)
  /\ \A k \in 1..q : records[k].id = c + k - 1
  /\ \A j, k \in (q + 1)..Len(records) : j < k => records[j].id < records[k].id
  /\ \A k \in (q + 1)..Len(records) :
       /\ \A i \in Pending : IsNew(i) => records[k].id < events[i].id
       /\ k <= q + m => records[k].id < c
       /\ k > q + m => records[k].id > c + q - 1
  /\ c > 1 => q >= Limit \/ Len(records) = MaxDisplay
  /\ m > MaxDisplay - Limit =>
       \/ \E i \in Pending : IsNew(i) /\ events[i].id < c
       \/ c..(c + q - 1) \subseteq missed
InOrder ==
  ~Disorder =>
    Plain \/ \E q \in 1..Len(records), m \in 0..Len(records), c \in Logged : Layout(q, m, c)

ScreenInv == ShownOnce /\ Known /\ AnswerFits /\ StatusFits /\ RecordsFit /\ InOrder

\* The rows, and how many there can be.
LEMMA RowFacts ==
  ASSUME TypeInv
  PROVE  /\ records \in Seq(Shown) /\ Len(records) \in Nat /\ DOMAIN records = 1..Len(records)
         /\ \A k \in 1..Len(records) : records[k] \in Shown
         /\ Len(records) <= MaxDisplay /\ MaxDisplay \in Nat /\ MaxDisplay > 1
         /\ Limit \in Nat /\ Limit > 0 /\ Limit <= MaxDisplay
<1>1. /\ MaxDisplay \in Nat /\ MaxDisplay > 1
      /\ Limit \in Nat /\ Limit > 0 /\ Limit <= MaxDisplay
  BY MonitorAssumption DEF MonitorAssumption
<1>2. records \in Seq(Shown) /\ Len(records) <= MaxDisplay
  BY DEF TypeInv, ScreenType, Shown
<1>3. /\ Len(records) \in Nat /\ DOMAIN records = 1..Len(records)
      /\ \A k \in 1..Len(records) : records[k] \in Shown
  BY <1>2
<1> QED
  BY <1>1, <1>2, <1>3

\* The events of the log and the numbers of their records.
LEMMA LogFacts ==
  ASSUME TypeInv
  PROVE  /\ Now = Len(events) /\ Now \in Nat /\ events \in Seq(Event)
         /\ CountAt(Now) = Count(events, Now) /\ CountAt(Now) \in Nat /\ Logged = 1..CountAt(Now)
         /\ \A i \in 1..Now : events[i] \in Event /\ events[i].id \in Logged
         /\ \A i \in 1..Now : IsNew(i) => events[i].id = Count(events, i) /\ events[i].status = "none"
         /\ \A i, j \in 1..Now : i < j /\ IsNew(j) => events[i].id < events[j].id
         /\ \A r \in Logged : \E i \in 1..Now : IsNew(i) /\ events[i].id = r
<1>1. events \in Seq(Event) /\ LogFits(events) /\ Now = Len(events) /\ Now \in Nat
  BY DEF TypeInv, LogType, Now
<1>2. CountAt(Now) = Count(events, Now) /\ CountAt(Now) \in Nat /\ Logged = 1..CountAt(Now)
  BY <1>1, Counted, Counting DEF Logged
<1> QED
  BY <1>1, <1>2 DEF LogFits, IsNew

\* The first of two rows is older.
LEMMA OlderIsEarlier ==
  ASSUME TypeInv, NEW i \in 1..Now, NEW j \in 1..Now, IsNew(i), IsNew(j),
         events[i].id < events[j].id
  PROVE  i < j
<1>1. /\ \A a, b \in 1..Now : a < b /\ IsNew(b) => events[a].id < events[b].id
      /\ \A a \in 1..Now : events[a].id \in 1..CountAt(Now)
      /\ CountAt(Now) \in Nat /\ Now \in Nat
  BY LogFacts
<1>2. events[i].id \in Int /\ events[j].id \in Int
  BY <1>1
<1>3. CASE j < i
  BY <1>1, <1>2, <1>3
<1>4. CASE i = j
  BY <1>2, <1>4
<1> QED
  BY <1>1, <1>3, <1>4

\* A row is of a record of the log.
LEMMA KnownIds ==
  ASSUME TypeInv, Known
  PROVE  \A k \in 1..Len(records) : records[k].id \in 1..CountAt(Now)
BY LogFacts DEF Known

\* As many distinct numbers need as much room.
LEMMA Room ==
  ASSUME NEW a \in Nat, NEW x \in Int, NEW b \in Int, NEW f \in [1..a -> (x + 1)..b], a > 0,
         \A j, k \in 1..a : f[j] = f[k] => j = k
  PROVE  a <= b - x
<1>1. IsFiniteSet(1..a) /\ Cardinality(1..a) = a
  BY FS_Interval
<1>2. /\ IsFiniteSet((x + 1)..b)
      /\ Cardinality((x + 1)..b) = IF x + 1 > b THEN 0 ELSE b - (x + 1) + 1
  BY FS_Interval
<1>3. f[1] \in (x + 1)..b
  OBVIOUS
<1>4. Cardinality((x + 1)..b) = b - x
  BY <1>2, <1>3
<1>5. ~(b - x < a)
  BY <1>1, <1>2, <1>4, FS_PigeonHole, SMTT(30)
<1> QED
  BY <1>5

\* The same of any finite set.
LEMMA RoomInSet ==
  ASSUME NEW a \in Nat, NEW T, IsFiniteSet(T), NEW f \in [1..a -> T],
         \A j, k \in 1..a : f[j] = f[k] => j = k
  PROVE  a <= Cardinality(T)
<1>1. IsFiniteSet(1..a) /\ Cardinality(1..a) = a
  BY FS_Interval
<1>2. Cardinality(T) \in Nat
  BY FS_CardinalityType
<1>3. ~(Cardinality(T) < a)
  BY <1>1, FS_PigeonHole, SMTT(30)
<1> QED
  BY <1>2, <1>3

\* The last l of the numbers up to c, in order.
LEMMA LastNumbers ==
  ASSUME NEW c \in Nat, NEW l \in Nat, NEW rows \in [1..l -> 1..c],
         \A m, n \in 1..l : m < n => rows[m] < rows[n],
         \A r \in 1..c, n \in 1..l : (\A m \in 1..l : rows[m] # r) => r < rows[n]
  PROVE  \A n \in 1..l : rows[n] = c - l + n
<1> SUFFICES ASSUME NEW n \in 1..l PROVE rows[n] = c - l + n
  OBVIOUS
<1>1. PICK x \in Int : x = rows[n] /\ x >= 1 /\ x <= c
  OBVIOUS
<1>2. \A j, k \in 1..l : rows[j] = rows[k] => j = k
  <2> SUFFICES ASSUME NEW j \in 1..l, NEW k \in 1..l, rows[j] = rows[k] PROVE j = k
    OBVIOUS
  <2>1. rows[j] \in Int /\ ~(rows[j] < rows[k]) /\ ~(rows[k] < rows[j])
    OBVIOUS
  <2>2. ~(j < k) /\ ~(k < j)
    BY <2>1
  <2> QED
    BY <2>2
\* The rows from n on find room after x.
<1>3. l - n + 1 <= c - (x - 1)
  <2>1. PICK a \in Nat : a = l - n + 1 /\ a > 0
    OBVIOUS
  <2>2. PICK f : f = [i \in 1..a |-> rows[n + i - 1]]
    OBVIOUS
  <2>3. ASSUME NEW i \in 1..a PROVE f[i] \in ((x - 1) + 1)..c /\ f[i] = rows[n + i - 1]
    <3>1. PICK m \in 1..l : m = n + i - 1 /\ n <= m
      BY <2>1
    <3>2. rows[m] \in 1..c /\ (n < m => x < rows[m])
      BY <1>1
    <3> QED
      BY <1>1, <2>2, <3>1, <3>2
  <2>4. f \in [1..a -> ((x - 1) + 1)..c]
    BY <2>2, <2>3
  <2>5. \A j, k \in 1..a : f[j] = f[k] => j = k
    <3> SUFFICES ASSUME NEW j \in 1..a, NEW k \in 1..a, f[j] = f[k] PROVE j = k
      OBVIOUS
    <3>1. n + j - 1 \in 1..l /\ n + k - 1 \in 1..l
      BY <2>1
    <3>2. n + j - 1 = n + k - 1
      BY <1>2, <2>3, <3>1
    <3> QED
      BY <3>2
  <2>6. x - 1 \in Int /\ c \in Int
    BY <1>1
  <2>7. a <= c - (x - 1)
    BY <2>1, <2>4, <2>5, <2>6, Room
  <2> QED
    BY <2>1, <2>7
\* And the numbers from x on are all among these rows.
<1>4. c - x + 1 <= l - (n - 1)
  <2>1. PICK a \in Nat : a = c - x + 1 /\ a > 0
    BY <1>1
  <2>2. ASSUME NEW i \in 1..a
        PROVE  \E m \in ((n - 1) + 1)..l : rows[m] = x + i - 1
    <3>1. PICK r \in 1..c : r = x + i - 1 /\ ~(r < x)
      BY <1>1, <2>1
    <3>2. PICK m \in 1..l : rows[m] = r
      BY <1>1, <3>1
    <3>3. ~(m < n)
      BY <1>1, <3>1, <3>2
    <3> QED
      BY <3>1, <3>2, <3>3
  <2>3. PICK f : f = [i \in 1..a |-> CHOOSE m \in ((n - 1) + 1)..l : rows[m] = x + i - 1]
    OBVIOUS
  <2>4. ASSUME NEW i \in 1..a
        PROVE  f[i] \in ((n - 1) + 1)..l /\ rows[f[i]] = x + i - 1
    BY <2>2, <2>3
  <2>5. f \in [1..a -> ((n - 1) + 1)..l]
    BY <2>3, <2>4
  <2>6. \A j, k \in 1..a : f[j] = f[k] => j = k
    <3> SUFFICES ASSUME NEW j \in 1..a, NEW k \in 1..a, f[j] = f[k] PROVE j = k
      OBVIOUS
    <3>1. x + j - 1 = x + k - 1
      BY <2>4
    <3> QED
      BY <1>1, <3>1
  <2>7. a <= l - (n - 1)
    <3>1. n - 1 \in Int /\ l \in Int
      OBVIOUS
    <3> QED
      BY <2>1, <2>5, <2>6, <3>1, Room
  <2> QED
    BY <2>1, <2>7
<1> QED
  BY <1>1, <1>3, <1>4

LEMMA NoHaste ==
  ASSUME TypeInv, ~Disorder
  PROVE  hasty = 0
BY DEF TypeInv, ScreenType, RestType, Disorder

-----------------------------------------------------------------------------
(* Steps of the server and of the sockets leave the screen as it is.       *)

Carried ==
  /\ UNCHANGED <<mounted, load, records, givenUp, hasty>>
  /\ Now <= Now' /\ \A i \in 1..Now : events'[i] = events[i]
  /\ missed \subseteq missed'
  /\ \A i \in Pending' : i \in Pending \/ i > Now
  /\ mounted /\ load # Asked =>
       /\ \A i \in Pending : i \in Pending' \/ events[i].id \in missed'
       /\ \A i \in (Now + 1)..Now' : i \in Pending' \/ events'[i].id \in missed'
  /\ hasty = 0 => (Pending \subseteq Pending' \/ Pending \cap Pending' = {})

\* What is on its way to any socket stays so for what comes after it.
LEMMA PendingOnwards ==
  ASSUME TypeInv, NEW i \in Pending, NEW j \in 1..Now, i <= j
  PROVE  j \in Pending
<1>1. PICK s \in SocketId : Open(s) /\ socket[s].next <= i
  BY DEF Pending
<1>2. socket[s].next \in Int /\ i \in Int /\ j \in Int
  BY <1>1, LogFacts DEF TypeInv, SocketsType, Pending
<1> QED
  BY <1>1, <1>2 DEF Pending

\* Such a step keeps the invariant.
LEMMA Carrying ==
  ASSUME TypeInv, TypeInv', ScreenInv, RanksStay, Carried
  PROVE  ScreenInv'
<1>1. /\ mounted' = mounted /\ load' = load /\ records' = records
      /\ hasty' = hasty /\ givenUp' = givenUp
      /\ Now <= Now' /\ (\A i \in 1..Now : events'[i] = events[i]) /\ missed \subseteq missed'
  BY DEF Carried
<1>2. /\ Now \in Nat /\ CountAt(Now) = Count(events, Now) /\ CountAt(Now) \in Nat
      /\ Logged = 1..CountAt(Now)
      /\ \A i \in 1..Now : events[i].id \in Logged
      /\ \A i, j \in 1..Now : i < j /\ IsNew(j) => events[i].id < events[j].id
      /\ \A r \in Logged : \E i \in 1..Now : IsNew(i) /\ events[i].id = r
  BY LogFacts
<1>3. /\ Now' \in Nat /\ CountAt(Now)' = Count(events', Now') /\ CountAt(Now)' \in Nat
      /\ Logged' = 1..CountAt(Now)'
      /\ \A i \in 1..Now' : IsNew(i)' => events'[i].id = Count(events', i)
      /\ \A r \in Logged' : \E i \in 1..Now' : IsNew(i)' /\ events'[i].id = r
  <2>1. events' \in Seq(Event) /\ LogFits(events') /\ Now' = Len(events') /\ Now' \in Nat
    BY DEF TypeInv, LogType, Now
  <2>2. CountAt(Now)' = Count(events', Now')
    BY DEF CountAt, Count, News
  <2>3. CountAt(Now)' \in Nat /\ Logged' = 1..CountAt(Now)'
    BY <2>1, <2>2, Counting DEF Logged
  <2> QED
    BY <2>1, <2>2, <2>3 DEF LogFits, IsNew
<1>4. /\ Count(events', Now) = CountAt(Now)
      /\ \A i \in Nat : Count(events', i) \in Nat
      /\ \A i, j \in Nat : i <= j => Count(events', i) <= Count(events', j)
      /\ \A i \in Nat : Count(events', i + 1) =
           IF events'[i + 1].type = "created" THEN Count(events', i) + 1 ELSE Count(events', i)
  <2>1. Count(events', Now) = Count(events, Now)
    BY <1>1, <1>2, SameCount
  <2>2. PICK fv : fv = events'
    OBVIOUS
  <2>3. /\ \A i \in Nat : Count(fv, i) \in Nat
        /\ \A i, j \in Nat : i <= j => Count(fv, i) <= Count(fv, j)
        /\ \A i \in Nat : Count(fv, i + 1) =
             IF fv[i + 1].type = "created" THEN Count(fv, i) + 1 ELSE Count(fv, i)
    BY Counting
  <2> QED
    BY <1>2, <2>1, <2>2, <2>3
<1>5. CountAt(Now) <= CountAt(Now)' /\ Logged \subseteq Logged' /\ \A i \in 1..Now : i \in 1..Now'
  <2>1. Count(events', Now) <= Count(events', Now')
    BY <1>1, <1>2, <1>3, <1>4
  <2>2. CountAt(Now) <= CountAt(Now)'
    BY <1>3, <1>4, <2>1
  <2> QED
    BY <1>1, <1>2, <1>3, <2>2
<1>6. \A i \in 1..Now : /\ IsNew(i)' <=> IsNew(i)
                        /\ events'[i].id = events[i].id /\ events'[i].status = events[i].status
  BY <1>1 DEF IsNew
\* A record that is new in this step has a greater number.
<1>7. ASSUME NEW i \in 1..Now', i > Now, IsNew(i)' PROVE events'[i].id > CountAt(Now)
  <2>1. PICK j \in Nat : i = j + 1 /\ Now <= j
    BY <1>2, <1>3, <1>7
  <2>2. /\ Count(events', i) = Count(events', j) + 1 /\ Count(events', Now) <= Count(events', j)
        /\ Count(events', j) \in Nat
    BY <1>2, <1>4, <1>7, <2>1 DEF IsNew
  <2>3. events'[i].id = Count(events', i)
    BY <1>3, <1>7
  <2> QED
    BY <1>2, <1>4, <2>2, <2>3
<1>8. ASSUME mounted, load # Asked
      PROVE  /\ \A i \in 1..Now : Due(i) => Due(i)'
             /\ \A i \in 1..Now' : i > Now => Due(i)'
  <2>1. ASSUME NEW i \in 1..Now, Due(i) PROVE Due(i)'
    <3>1. CASE i \in Pending
      <4>1. i \in Pending' \/ events[i].id \in missed'
        BY <1>8, <3>1 DEF Carried
      <4> QED
        BY <1>6, <4>1 DEF Due
    <3>2. CASE events[i].id \in missed
      BY <1>1, <1>6, <3>2 DEF Due
    <3> QED
      BY <2>1, <3>1, <3>2 DEF Due
  <2>2. ASSUME NEW i \in 1..Now', i > Now PROVE Due(i)'
    <3>1. i \in (Now + 1)..Now'
      BY <1>2, <1>3, <2>2
    <3>2. i \in Pending' \/ events'[i].id \in missed'
      BY <1>8, <3>1 DEF Carried
    <3> QED
      BY <3>2 DEF Due
  <2> QED
    BY <2>1, <2>2
<1>9. /\ Len(records) \in Nat /\ DOMAIN records = 1..Len(records)
      /\ \A k \in 1..Len(records) : records[k].id \in 1..CountAt(Now)
  BY RowFacts, KnownIds DEF ScreenInv
<1>10. ShownOnce'
  BY <1>1 DEF ScreenInv, ShownOnce
<1>11. Known'
  <2> SUFFICES ASSUME NEW k \in 1..Len(records)
               PROVE  \E i \in 1..Now' : /\ events'[i].id = records[k].id
                                         /\ events'[i].status = records[k].status
    BY <1>1 DEF Known
  <2>1. PICK i \in 1..Now : events[i].id = records[k].id /\ events[i].status = records[k].status
    BY DEF ScreenInv, Known
  <2> QED
    BY <1>5, <1>6, <2>1
<1>12. AnswerFits'
  <2> SUFFICES ASSUME load >= 0, NEW i \in (load + 1)..Now' PROVE Due(i)'
    BY <1>1 DEF AnswerFits
  <2>1. load \in 0..Now /\ mounted /\ load # Asked
    BY <1>2 DEF TypeInv, ScreenType, Asked, Done
  <2>2. i \in 1..Now' /\ (i \in (load + 1)..Now \/ i > Now)
    BY <1>2, <1>3, <2>1
  <2>3. CASE i \in (load + 1)..Now
    <3>1. Due(i) /\ i \in 1..Now
      BY <1>2, <2>1, <2>3 DEF ScreenInv, AnswerFits
    <3> QED
      BY <1>8, <2>1, <3>1
  <2> QED
    BY <1>8, <2>1, <2>2, <2>3
<1>13. StatusFits'
  <2> SUFFICES ASSUME Loaded, NEW k \in 1..Len(records)
               PROVE  \/ records[k].status = StatusAt(records[k].id, Now)'
                      \/ \E i \in 1..Now' : events'[i].id = records[k].id /\ Due(i)'
    BY <1>1 DEF StatusFits, Loaded
  <2>1. mounted /\ load # Asked
    BY DEF Loaded, Done, Asked
  <2>2. CASE \E i \in 1..Now : events[i].id = records[k].id /\ Due(i)
    BY <1>5, <1>6, <1>8, <2>1, <2>2
  <2>3. CASE \E i \in 1..Now' : i > Now /\ events'[i].id = records[k].id
    BY <1>8, <2>1, <2>3
  <2>4. CASE /\ records[k].status = StatusAt(records[k].id, Now)
             /\ \A i \in 1..Now' : i > Now => events'[i].id # records[k].id
    <3>1. PICK r : r = records[k].id
      OBVIOUS
    <3>2. Places(events', r, Now') = Places(events, r, Now)
      <4>1. \A i \in 1..Now' : i > Now => events'[i].id # r
        BY <2>4, <3>1
      <4>2. PICK n, np \in Nat : n = Now /\ np = Now'
        BY <1>2, <1>3
      <4> QED
        BY <1>1, <4>1, <4>2, SameStatus
    <3>3. PICK i0 \in 1..Now : events[i0].id = r
      BY <3>1 DEF ScreenInv, Known
    <3>4. Max(Places(events, r, Now)) \in 1..Now
      <4>1. i0 \in Places(events, r, Now)
        BY <3>3 DEF Places
      <4>2. Max(Places(events, r, Now)) \in Places(events, r, Now)
        BY <1>2, <4>1, LastPlace
      <4> QED
        BY <4>2 DEF Places
    <3>5. StatusAt(r, Now) = events[Max(Places(events, r, Now))].status
      BY DEF StatusAt, Places
    <3>6. StatusAt(r, Now)' = events'[Max(Places(events', r, Now'))].status
      BY DEF StatusAt, Places
    <3> QED
      BY <1>1, <2>4, <3>1, <3>2, <3>4, <3>5, <3>6
  <2> QED
    BY <2>2, <2>3, <2>4 DEF ScreenInv, StatusFits
<1>d. Disorder => Disorder'
  <2>1. InTime' => InTime
    BY <1>5, MoreAhead
  <2> QED
    BY <1>1, <2>1 DEF Disorder
<1>14. RecordsFit'
  <2> SUFFICES ASSUME Loaded, NEW r \in Logged', Cardinality(Ahead(r)') < Limit
               PROVE  \/ OnScreen(r) \/ (r \in givenUp /\ Disorder')
                      \/ \E i \in 1..Now' : IsNew(i)' /\ events'[i].id = r /\ Due(i)'
    BY <1>1 DEF RecordsFit, Loaded, OnScreen
  <2>1. mounted /\ load # Asked
    BY DEF Loaded, Done, Asked
  <2>2. CASE r \in Logged
    <3>1. Cardinality(Ahead(r)) < Limit
      <4>1. /\ Cardinality(Ahead(r)) \in Nat /\ Cardinality(Ahead(r)') \in Nat
            /\ Cardinality(Ahead(r)) <= Cardinality(Ahead(r)')
        BY <1>5, <2>2, MoreAhead
      <4>2. Limit \in Nat
        BY RowFacts
      <4> QED
        BY <4>1, <4>2
    <3>2. \/ OnScreen(r) \/ (r \in givenUp /\ Disorder)
          \/ \E i \in 1..Now : IsNew(i) /\ events[i].id = r /\ Due(i)
      BY <2>2, <3>1 DEF ScreenInv, RecordsFit
    <3>3. CASE \E i \in 1..Now : IsNew(i) /\ events[i].id = r /\ Due(i)
      BY <1>5, <1>6, <1>8, <2>1, <3>3
    <3> QED
      BY <1>d, <3>2, <3>3
  <2>3. CASE r \notin Logged
    <3>1. PICK i \in 1..Now' : IsNew(i)' /\ events'[i].id = r
      BY <1>3
    <3>2. i > Now
      <4>1. CASE i \in 1..Now
        <5>1. events'[i].id = events[i].id /\ events[i].id \in Logged
          BY <1>2, <1>6, <4>1
        <5> QED
          BY <2>3, <3>1, <5>1
      <4> QED
        BY <1>2, <1>3, <4>1
    <3> QED
      BY <1>8, <2>1, <3>1, <3>2
  <2> QED
    BY <2>2, <2>3
<1>15. InOrder'
  <2> SUFFICES ASSUME ~Disorder, hasty = 0
               PROVE  Plain' \/ \E q \in 1..Len(records), m \in 0..Len(records), c \in Logged' :
                                  Layout(q, m, c)'
    BY <1>1, <1>d, NoHaste DEF InOrder
  <2>1. ASSUME NEW k \in 1..Len(records),
               \A i \in Pending : IsNew(i) => records[k].id < events[i].id
        PROVE  \A i \in Pending' : IsNew(i)' => records[k].id < events'[i].id
    <3> TAKE i \in Pending'
    <3>1. i \in 1..Now'
      BY DEF Pending
    <3>2. CASE i > Now
      <4>1. ASSUME IsNew(i)' PROVE records[k].id < events'[i].id
        <5>1. events'[i].id > CountAt(Now)
          BY <1>7, <3>1, <3>2, <4>1
        <5>2. events'[i].id \in Nat
          <6>1. events'[i].id = Count(events', i) /\ i \in Nat
            BY <1>3, <3>1, <4>1
          <6> QED
            BY <1>4, <6>1
        <5> QED
          BY <1>2, <1>9, <5>1, <5>2
      <4> QED
        BY <4>1
    <3>3. CASE i \in Pending
      <4>1. i \in 1..Now
        BY <3>3 DEF Pending
      <4> QED
        BY <1>6, <2>1, <3>3, <4>1
    <3> QED
      BY <3>2, <3>3 DEF Carried
  <2>2. CASE Plain
    <3>1. Plain'
      BY <1>1, <2>1, <2>2 DEF Plain
    <3> QED
      BY <3>1
  <2>3. CASE ~Plain
    <3>1. PICK q \in 1..Len(records), m \in 0..Len(records), c \in Logged : Layout(q, m, c)
      BY <2>3 DEF ScreenInv, InOrder
    <3>2. q \in Nat /\ m \in Nat /\ c \in Nat /\ q >= 1 /\ q + m <= Len(records)
      BY <1>2, <1>9, <3>1 DEF Layout
    <3>3. mounted /\ load # Asked /\ Loaded /\ Loaded'
      BY <1>1, <3>1 DEF Layout, Loaded, Asked, Done
    <3>4. ASSUME m > MaxDisplay - Limit
          PROVE  \/ \E i \in Pending' : IsNew(i)' /\ events'[i].id < c
                 \/ c..(c + q - 1) \subseteq missed'
      <4>1. CASE c..(c + q - 1) \subseteq missed
        BY <1>1, <4>1
      <4>2. CASE \E i \in Pending : IsNew(i) /\ events[i].id < c
        <5>1. PICK i \in Pending : IsNew(i) /\ events[i].id < c
          BY <4>2
        <5>2. i \in 1..Now
          BY DEF Pending
        <5>3. CASE i \in Pending'
          BY <1>6, <5>1, <5>2, <5>3
        <5>4. CASE i \notin Pending'
          <6>1. Pending \cap Pending' = {}
            BY <5>4 DEF Carried
          <6>2. ASSUME NEW r \in c..(c + q - 1) PROVE r \in missed'
            <7>1. r \in Logged /\ r >= c
              <8>1. PICK k \in 1..q : k = r - c + 1
                BY <3>2
              <8>2. records[k].id = r /\ k \in 1..Len(records)
                BY <3>1, <3>2, <8>1 DEF Layout
              <8> QED
                BY <1>2, <1>9, <8>2
            <7>2. PICK j \in 1..Now : IsNew(j) /\ events[j].id = r
              BY <1>2, <7>1
            <7>3. events[i].id < events[j].id
              BY <1>2, <3>2, <5>1, <5>2, <7>1, <7>2, SMTT(30)
            <7>4. i < j
              BY <5>1, <5>2, <7>2, <7>3, OlderIsEarlier
            <7>5. j \in Pending
              BY <1>2, <5>2, <7>4, PendingOnwards
            <7>6. j \in Pending' \/ events[j].id \in missed'
              BY <3>3, <7>5 DEF Carried
            <7> QED
              BY <6>1, <7>2, <7>5, <7>6
          <6> QED
            BY <6>2
        <5> QED
          BY <5>3, <5>4
      <4> QED
        BY <3>1, <3>4, <4>1, <4>2 DEF Layout
    <3>5. \A k \in (q + 1)..Len(records) : \A i \in Pending' : IsNew(i)' => records[k].id < events'[i].id
      <4> TAKE k \in (q + 1)..Len(records)
      <4>1. k \in 1..Len(records)
        BY <3>2
      <4>2. \A i \in Pending : IsNew(i) => records[k].id < events[i].id
        BY <3>1 DEF Layout
      <4> QED
        BY <2>1, <4>1, <4>2
    <3>6. /\ q + m <= Len(records)
          /\ \A k \in 1..q : records[k].id = c + k - 1
          /\ \A j, k \in (q + 1)..Len(records) : j < k => records[j].id < records[k].id
          /\ \A k \in (q + 1)..Len(records) : /\ k <= q + m => records[k].id < c
                                              /\ k > q + m => records[k].id > c + q - 1
          /\ c > 1 => q >= Limit \/ Len(records) = MaxDisplay
      BY <3>1 DEF Layout
    <3>7. Layout(q, m, c)'
      BY <1>1, <3>3, <3>4, <3>5, <3>6 DEF Layout
    <3> QED
      BY <1>5, <3>1, <3>7
  <2> QED
    BY <2>2, <2>3
<1> QED
  BY <1>10, <1>11, <1>12, <1>13, <1>14, <1>15 DEF ScreenInv

LEMMA BroadcastCarries ==
  ASSUME TypeInv, NEW es \in Seq(Event), Broadcast(es), UNCHANGED <<socket, client, page, hasty>>
  PROVE  Carried
<1>1. /\ events' = events \o es /\ socket' = socket
      /\ mounted' = mounted /\ load' = load /\ records' = records
      /\ hasty' = hasty /\ givenUp' = givenUp
  BY DEF Broadcast, page
<1>2. events \in Seq(Event) /\ Now = Len(events) /\ Now \in Nat /\ Len(es) \in Nat
  BY LogFacts
<1>3. /\ Now' = Now + Len(es) /\ Now' \in Nat
      /\ \A i \in 1..Now : events'[i] = events[i]
      /\ \A i \in (Now + 1)..Now' : events'[i] = es[i - Now] /\ i - Now \in DOMAIN es
  <2>1. PICK ev : ev = events \o es
    OBVIOUS
  <2>2. /\ Len(ev) = Len(events) + Len(es)
        /\ \A i \in 1..(Len(events) + Len(es)) :
             ev[i] = IF i <= Len(events) THEN events[i] ELSE es[i - Len(events)]
    BY <1>2, <2>1, ConcatProperties
  <2>3. Now' = Now + Len(es) /\ Now' \in Nat
    BY <1>1, <1>2, <2>1, <2>2 DEF Now
  <2>4. \A i \in 1..Now : events'[i] = events[i]
    BY <1>1, <1>2, <2>1, <2>2
  <2>5. ASSUME NEW i \in (Now + 1)..Now'
        PROVE  events'[i] = es[i - Now] /\ i - Now \in DOMAIN es
    <3>1. i \in 1..(Len(events) + Len(es)) /\ ~(i <= Len(events)) /\ i - Now \in 1..Len(es)
      BY <1>2, <2>3
    <3>2. DOMAIN es = 1..Len(es)
      OBVIOUS
    <3> QED
      BY <1>1, <1>2, <2>1, <2>2, <3>1, <3>2
  <2> QED
    BY <2>3, <2>4, <2>5
<1>4. \A s \in SocketId : Open(s)' <=> Open(s)
  BY <1>1 DEF Open
<1>5. \A s \in SocketId : Open(s) => socket[s].next \in 1..(Now + 1)
  BY DEF TypeInv, SocketsType
<1>6. \A i \in Pending' : i \in Pending \/ i > Now
  BY <1>1, <1>2, <1>3, <1>4 DEF Pending
<1>7. Pending \subseteq Pending'
  BY <1>1, <1>2, <1>3, <1>4 DEF Pending
<1>8. missed \subseteq missed'
  BY DEF Broadcast, Misses
<1>9. ASSUME mounted, load # Asked, NEW i \in (Now + 1)..Now'
      PROVE  i \in Pending' \/ events'[i].id \in missed'
  <2>1. CASE \E s \in SocketId : Open(s)
    <3>1. PICK s \in SocketId : Open(s)
      BY <2>1
    <3>2. i \in 1..Now' /\ socket[s].next <= i
      BY <1>2, <1>3, <1>5, <3>1
    <3>3. Open(s)' /\ socket'[s].next <= i
      BY <1>1, <1>4, <3>1, <3>2
    <3>4. i \in Pending'
      BY <3>2, <3>3 DEF Pending
    <3> QED
      BY <3>4
  <2>2. CASE ~\E s \in SocketId : Open(s)
    <3>1. missed' = missed \cup {es[k].id : k \in DOMAIN es}
      BY <1>9, <2>2 DEF Broadcast, Misses
    <3>2. events'[i] = es[i - Now] /\ i - Now \in DOMAIN es
      BY <1>3, <1>9
    <3> QED
      BY <3>1, <3>2
  <2> QED
    BY <2>1, <2>2
<1> QED
  BY <1>1, <1>2, <1>3, <1>6, <1>7, <1>8, <1>9 DEF Carried

LEMMA RecordLogCarries ==
  ASSUME TypeInv, NEW exported \in BOOLEAN, NEW place \in Record, RecordLog(exported, place)
  PROVE  Carried
<1>1. CountAt(Now) \in Nat
  BY LogFacts
<1>2. PICK es : es = <<Created(CountAt(Now) + 1)>> \o
                (IF exported THEN <<FileUpdated(CountAt(Now) + 1, "WRITING")>> ELSE <<>>)
  OBVIOUS
<1>3. CountAt(Now) + 1 \in Record
  BY <1>1, MonitorAssumption DEF RecordLog, Record, MonitorAssumption
<1>4. /\ Created(CountAt(Now) + 1) \in Event
      /\ FileUpdated(CountAt(Now) + 1, "WRITING") \in Event
  BY <1>3 DEF Created, FileUpdated, Event, FileStatus
<1>5. \A a, b \in Event : <<a>> \o <<b>> \in Seq(Event) /\ <<a>> \o <<>> \in Seq(Event)
  OBVIOUS
<1>6. es \in Seq(Event)
  BY <1>2, <1>4, <1>5
<1>7. Broadcast(es) /\ UNCHANGED <<socket, client, page, hasty>>
  BY <1>2 DEF RecordLog
<1> QED
  BY <1>6, <1>7, BroadcastCarries

LEMMA FileChangesCarries ==
  ASSUME TypeInv, NEW r \in Record, NEW s \in FileStatus, FileChanges(r, s)
  PROVE  Carried
<1>1. FileUpdated(r, s) \in Event
  BY DEF FileUpdated, Event
<1>2. \A a \in Event : <<a>> \in Seq(Event)
  OBVIOUS
<1>3. PICK es \in Seq(Event) : es = <<FileUpdated(r, s)>>
  BY <1>1, <1>2
<1>4. Broadcast(es) /\ UNCHANGED <<socket, client, page, hasty>>
  BY <1>3 DEF FileChanges
<1> QED
  BY <1>4, BroadcastCarries

\* A socket that is not open has nothing on its way, nor has one that opens.
LEMMA PendingStays ==
  ASSUME TypeInv, events' = events, UNCHANGED <<page, missed, hasty>>,
         \A s \in SocketId : Open(s) => socket'[s] = socket[s],
         \A s \in SocketId : Open(s)' /\ ~Open(s) => socket'[s].next = Now + 1
  PROVE  Carried
<1>1. /\ Now' = Now /\ Now \in Nat
      /\ mounted' = mounted /\ load' = load /\ records' = records
      /\ hasty' = hasty /\ missed' = missed /\ givenUp' = givenUp
  BY LogFacts DEF Now, page
<1>2. \A s \in SocketId : Open(s) => Open(s)'
  BY DEF Open
<1>3. ASSUME NEW i \in 1..Now PROVE i \in Pending <=> i \in Pending'
  <2>1. ASSUME NEW s \in SocketId, Open(s)', socket'[s].next <= i
        PROVE  Open(s) /\ socket[s].next <= i
    BY <1>1, <2>1
  <2>2. ASSUME NEW s \in SocketId, Open(s), socket[s].next <= i
        PROVE  Open(s)' /\ socket'[s].next <= i
    BY <1>2, <2>2
  <2> QED
    BY <1>1, <2>1, <2>2 DEF Pending
<1>4. Pending' = Pending
  BY <1>1, <1>3 DEF Pending
<1>5. \A i \in (Now + 1)..Now' : FALSE
  BY <1>1
<1> QED
  BY <1>1, <1>4, <1>5 DEF Carried

\* Without haste, only the socket the client knows can be open.
LEMMA OneIsOpen ==
  ASSUME TypeInv, HasteInv, hasty = 0
  PROVE  \A s \in SocketId : Open(s) => s = ws
<1>1. Cardinality(Forgotten) \in Nat /\ stray \in Nat
  BY Sizes DEF TypeInv, SocketsType
<1>2. Cardinality(Forgotten) = 0
  BY <1>1 DEF HasteInv
<1>3. Unnamed \in SUBSET SocketId /\ Forgotten \in SUBSET Unnamed
  BY DEF Unnamed, Held, Forgotten, InUse
<1>4. IsFiniteSet(Forgotten)
  BY <1>3, SizesOf
<1>5. Forgotten = {}
  BY <1>2, <1>4, FS_EmptySet
<1> QED
  BY <1>5 DEF Forgotten, InUse, Open

LEMMA BreaksCarries ==
  ASSUME TypeInv, HasteInv, NEW s \in SocketId, Breaks(s)
  PROVE  Carried
<1>1. /\ Open(s) /\ socket' = Closed({s}) /\ Misses(Undelivered(s)) /\ events' = events
      /\ mounted' = mounted /\ load' = load /\ records' = records
      /\ hasty' = hasty /\ givenUp' = givenUp
  BY DEF Breaks, page, log
<1>2. Now' = Now /\ Now \in Nat
  BY <1>1, LogFacts DEF Now
<1>3. \A t \in SocketId : /\ t = s => socket'[t].state = "closed"
                          /\ t # s => socket'[t] = socket[t]
  BY <1>1, ClosedFacts DEF TypeInv
<1>4. \A t \in SocketId : (Open(t)' <=> Open(t) /\ t # s)
  BY <1>3 DEF Open
<1>5. \A i \in Pending' : i \in Pending
  BY <1>2, <1>3, <1>4 DEF Pending
<1>6. ASSUME NEW i \in Pending, mounted, load # Asked PROVE i \in Pending' \/ events[i].id \in missed'
  <2>1. PICK t \in SocketId : Open(t) /\ socket[t].next <= i /\ i \in 1..Now
    BY DEF Pending
  <2>2. CASE t = s
    <3>1. i \in socket[s].next..Now
      BY <1>2, <2>1, <2>2 DEF TypeInv, SocketsType
    <3>2. events[i].id \in Undelivered(s)
      BY <1>1, <3>1 DEF Undelivered
    <3> QED
      BY <1>1, <1>6, <3>2 DEF Misses
  <2>3. CASE t # s
    <3>1. i \in Pending'
      BY <1>2, <1>3, <1>4, <2>1, <2>3 DEF Pending
    <3> QED
      BY <3>1
  <2> QED
    BY <2>2, <2>3
<1>7. hasty = 0 => Pending \cap Pending' = {}
  <2> SUFFICES ASSUME hasty = 0 PROVE Pending' = {}
    OBVIOUS
  <2>1. \A t \in SocketId : ~Open(t)'
    BY <1>1, <1>4, OneIsOpen
  <2> QED
    BY <2>1 DEF Pending
<1>8. missed \subseteq missed'
  BY <1>1 DEF Misses
<1>9. \A i \in (Now + 1)..Now' : FALSE
  BY <1>2
<1> QED
  BY <1>1, <1>2, <1>5, <1>6, <1>7, <1>8, <1>9 DEF Carried

LEMMA ServerDiesCarries ==
  ASSUME TypeInv, NEW inserted \in BOOLEAN, NEW place \in Record, ServerDies(inserted, place)
  PROVE  Carried
<1>1. /\ socket' = Closed(InUse)
      /\ events' = IF inserted THEN Append(events, Created(CountAt(Now) + 1)) ELSE events
      /\ Misses(UndeliveredBy(SocketId) \cup (IF inserted THEN {CountAt(Now) + 1} ELSE {}))
      /\ mounted' = mounted /\ load' = load /\ records' = records
      /\ hasty' = hasty /\ givenUp' = givenUp
  BY DEF ServerDies, page
<1>2. Now \in Nat /\ Now = Len(events) /\ events \in Seq(Event)
  BY LogFacts
<1>3. /\ Now' = IF inserted THEN Now + 1 ELSE Now
      /\ \A i \in 1..Now : events'[i] = events[i]
      /\ inserted => events'[Now + 1].id = CountAt(Now) + 1
  <2>1. CASE inserted
    <3>1. PICK e : e = Created(CountAt(Now) + 1)
      OBVIOUS
    <3>2. e.id = CountAt(Now) + 1
      BY <3>1 DEF Created
    <3>3. events' = Append(events, e)
      BY <1>1, <2>1, <3>1
    <3>4. /\ Len(events') = Now + 1 /\ events'[Now + 1] = e
          /\ \A i \in 1..Now : events'[i] = events[i]
      BY <1>2, <3>3
    <3> QED
      BY <2>1, <3>2, <3>4 DEF Now
  <2>2. CASE ~inserted
    BY <1>1, <2>2 DEF Now
  <2> QED
    BY <2>1, <2>2
<1>4. \A t \in SocketId : ~Open(t)'
  <2>1. \A t \in SocketId : /\ t \in InUse => socket'[t].state = "closed"
                            /\ t \notin InUse => socket'[t] = socket[t]
    BY <1>1, ClosedFacts DEF TypeInv
  <2> QED
    BY <2>1 DEF Open, InUse
<1>5. Pending' = {}
  BY <1>4 DEF Pending
<1>6. ASSUME NEW i \in Pending, mounted, load # Asked PROVE events[i].id \in missed'
  <2>1. PICK t \in SocketId : Open(t) /\ socket[t].next <= i /\ i \in 1..Now
    BY DEF Pending
  <2>2. i \in socket[t].next..Now
    BY <1>2, <2>1 DEF TypeInv, SocketsType
  <2>3. events[i].id \in UndeliveredBy(SocketId)
    BY <2>1, <2>2 DEF Undelivered, UndeliveredBy
  <2> QED
    BY <1>1, <1>6, <2>3 DEF Misses
<1>7. ASSUME mounted, load # Asked, NEW i \in (Now + 1)..Now' PROVE events'[i].id \in missed'
  <2>1. inserted /\ i = Now + 1
    BY <1>2, <1>3
  <2> QED
    BY <1>1, <1>3, <1>7, <2>1 DEF Misses
<1>8. missed \subseteq missed'
  BY <1>1 DEF Misses
<1>9. Now <= Now'
  BY <1>2, <1>3
<1> QED
  BY <1>1, <1>3, <1>5, <1>6, <1>7, <1>8, <1>9 DEF Carried

\* The other steps that leave the screen as it is.
LEMMA OthersCarry ==
  ASSUME TypeInv,
         \/ ServerStarts \/ TimerFires \/ UNCHANGED vars
         \/ \E s \in SocketId : Connects(s) \/ ConnectFails(s) \/ OnClose(s)
  PROVE  Carried
<1>0. socket \in [SocketId -> SocketState]
  BY DEF TypeInv, SocketsType
<1>1. ASSUME UNCHANGED <<events, socket, page, missed, hasty>> PROVE Carried
  BY <1>1, PendingStays DEF Open
<1>2. CASE ServerStarts
  BY <1>1, <1>2 DEF ServerStarts, log
<1>3. CASE UNCHANGED vars
  BY <1>1, <1>3 DEF vars, log
<1>4. CASE TimerFires
  <2>1. Connecting /\ UNCHANGED <<events, page, missed, hasty>>
    BY <1>4 DEF TimerFires, log
  <2>2. /\ ws' \in SocketId
        /\ \/ socket' = socket
           \/ /\ socket[ws'].state = "none" /\ socket'[ws'].state = "connecting"
              /\ \A s \in SocketId : s # ws' => socket'[s] = socket[s]
    BY <2>1, ConnectingFacts DEF TypeInv
  <2>3. \A s \in SocketId : (Open(s) => socket'[s] = socket[s]) /\ ~(Open(s)' /\ ~Open(s))
    BY <2>2 DEF Open
  <2> QED
    BY <2>1, <2>3, PendingStays
<1>5. ASSUME NEW s \in SocketId, Connects(s) \/ ConnectFails(s) \/ OnClose(s) PROVE Carried
  <2>1. UNCHANGED <<events, page, missed, hasty>>
    BY <1>5 DEF Connects, ConnectFails, OnClose, log
  <2>2. ~Open(s) /\ (Open(s)' => socket'[s].next = Now + 1)
        /\ \A t \in SocketId : t # s => socket'[t] = socket[t]
    <3>1. CASE Connects(s)
      BY <1>0, <3>1 DEF Connects, Open, log
    <3>2. CASE ConnectFails(s)
      <4>1. socket' = Closed({s}) /\ socket[s].state = "connecting"
        BY <3>2 DEF ConnectFails, log
      <4>2. socket'[s].state = "closed" /\ \A t \in SocketId : t # s => socket'[t] = socket[t]
        BY <4>1, ClosedFacts DEF TypeInv
      <4> QED
        BY <4>1, <4>2 DEF Open
    <3>3. CASE OnClose(s)
      BY <1>0, <3>3 DEF OnClose, Open, Free, log
    <3> QED
      BY <1>5, <3>1, <3>2, <3>3
  <2>3. \A t \in SocketId : (Open(t)' <=> socket'[t].state = "open") /\ (Open(t) <=> socket[t].state = "open")
    BY DEF Open
  <2>4. \A t \in SocketId : /\ Open(t) => socket'[t] = socket[t]
                            /\ Open(t)' /\ ~Open(t) => socket'[t].next = Now + 1
    BY <2>2, <2>3
  <2> QED
    BY <2>1, <2>4, PendingStays
<1> QED
  BY <1>2, <1>3, <1>4, <1>5

-----------------------------------------------------------------------------
(* Steps of the page that replace the screen.                              *)

\* What is said of the log stays while the log does.
LEMMA SameLog ==
  ASSUME events' = events
  PROVE  /\ Now' = Now /\ Logged' = Logged /\ CountAt(Now)' = CountAt(Now)
         /\ \A i : IsNew(i)' <=> IsNew(i)
         /\ \A r : StatusAt(r, Now)' = StatusAt(r, Now)
BY DEF Now, Logged, CountAt, IsNew, StatusAt

LEMMA SameOrder ==
  ASSUME events' = events, rank' = rank, hasty' = hasty
  PROVE  /\ \A r : Ahead(r)' = Ahead(r)
         /\ Disorder' <=> Disorder
<1>1. /\ Logged' = Logged
      /\ \A q, r : Later(q, r)' <=> Later(q, r)
  BY SameLog DEF Later
<1>2. \A r : Ahead(r)' = Ahead(r)
  BY <1>1 DEF Ahead
<1>3. InTime' <=> InTime
  BY <1>1 DEF InTime
<1> QED
  BY <1>2, <1>3 DEF Disorder

LEMMA SamePending ==
  ASSUME events' = events, socket' = socket
  PROVE  Pending' = Pending
BY DEF Pending, Now, Open

\* An empty screen whose records are still to come, or known to be missed.
LEMMA Blank ==
  ASSUME TypeInv, TypeInv', events' = events, records' = <<>>,
         mounted' /\ load' # Asked => \A i \in 1..Now : Due(i)'
  PROVE  ScreenInv'
<1>1. /\ Now' = Now /\ Logged' = Logged /\ \A i : IsNew(i)' <=> IsNew(i)
      /\ Now \in Nat /\ \A r \in Logged : \E i \in 1..Now : IsNew(i) /\ events[i].id = r
  BY SameLog, LogFacts
<1>2. Len(<<>>) = 0 /\ DOMAIN <<>> = {} /\ 1..0 = {}
  OBVIOUS
<1>3. ShownOnce' /\ Known' /\ StatusFits'
  BY <1>2 DEF ShownOnce, Known, StatusFits
<1>4. AnswerFits'
  <2> SUFFICES ASSUME load' >= 0, NEW i, i \in (load' + 1)..Now PROVE Due(i)'
    BY <1>1 DEF AnswerFits
  <2>1. load' \in 0..Now /\ mounted' /\ load' # Asked
    BY <1>1 DEF TypeInv, ScreenType, Asked, Done
  <2>2. i \in 1..Now
    <3>1. PICK a \in Nat : a = load'
      BY <1>1, <2>1
    <3>2. \A b \in Nat : \A j \in (a + 1)..b : j \in 1..b
      OBVIOUS
    <3>3. Now \in Nat /\ i \in (a + 1)..Now
      BY <1>1, <3>1
    <3> QED
      BY <3>2, <3>3
  <2> QED
    BY <2>1, <2>2
<1>5. RecordsFit'
  <2> SUFFICES ASSUME Loaded', NEW r \in Logged
               PROVE  \E i \in 1..Now : IsNew(i)' /\ events'[i].id = r /\ Due(i)'
    BY <1>1 DEF RecordsFit
  <2>1. mounted' /\ load' # Asked
    BY DEF Loaded, Done, Asked
  <2>2. PICK i \in 1..Now : IsNew(i) /\ events[i].id = r
    BY <1>1
  <2> QED
    BY <1>1, <2>1, <2>2
<1>6. InOrder'
  <2>1. Plain'
    BY <1>2 DEF Plain
  <2> QED
    BY <2>1 DEF InOrder
<1> QED
  BY <1>3, <1>4, <1>5, <1>6 DEF ScreenInv

LEMMA BlankSteps ==
  ASSUME TypeInv, TypeInv', Enter \/ Leave \/ Clear
  PROVE  ScreenInv'
<1>1. CASE Enter
  <2>1. events' = events /\ records' = <<>> /\ load' = Asked
    BY <1>1 DEF Enter, log
  <2> QED
    BY <2>1, Blank
<1>2. CASE Leave
  <2>1. events' = events /\ records' = <<>> /\ mounted' = FALSE
    BY <1>2 DEF Leave, log
  <2> QED
    BY <2>1, Blank
<1>3. CASE Clear
  <2>1. events' = events /\ records' = <<>> /\ mounted' = mounted /\ load' = load /\ Misses(Logged)
    BY <1>3 DEF Clear, log
  <2>2. \A i \in 1..Now : events[i].id \in Logged
    BY LogFacts
  <2>3. ASSUME mounted', load' # Asked, NEW i \in 1..Now PROVE Due(i)'
    BY <2>1, <2>2, <2>3 DEF Misses, Due
  <2> QED
    BY <2>1, <2>3, Blank
<1> QED
  BY <1>1, <1>2, <1>3

LEMMA AnswerStep ==
  ASSUME TypeInv, ScreenInv, AnswerLogs
  PROVE  ScreenInv'
<1>1. load = Asked /\ load' = Now /\ UNCHANGED <<events, rank, socket, mounted, records, missed, hasty>>
  BY DEF AnswerLogs, log
<1>2. /\ Now' = Now /\ Pending' = Pending /\ Now \in Nat
      /\ \A i : IsNew(i)' <=> IsNew(i)
  BY <1>1, SameLog, SamePending, LogFacts
<1>3. ~Loaded /\ ~Loaded'
  BY <1>1, <1>2 DEF Loaded, Asked, Done
<1>4. ShownOnce' /\ Known' /\ StatusFits' /\ RecordsFit'
  BY <1>1, <1>2, <1>3 DEF ScreenInv, ShownOnce, Known, StatusFits, RecordsFit
<1>5. \A i \in (load' + 1)..Now' : FALSE
  BY <1>1, <1>2
<1>6. AnswerFits'
  BY <1>5 DEF AnswerFits
<1>7. InOrder'
  <2>1. ~Disorder => Plain
    BY <1>3 DEF ScreenInv, InOrder, Layout
  <2>2. Plain => Plain'
    BY <1>1, <1>2 DEF Plain
  <2>3. Disorder' <=> Disorder
    BY <1>1, SameOrder
  <2> QED
    BY <2>1, <2>2, <2>3 DEF InOrder
<1> QED
  BY <1>4, <1>6, <1>7 DEF ScreenInv

LEMMA FailStep ==
  ASSUME TypeInv, ScreenInv, LogsFail
  PROVE  ScreenInv'
<1>1. /\ load # Done /\ load' = Done /\ missed' = Logged
      /\ UNCHANGED <<events, rank, socket, mounted, records, hasty>>
  BY DEF LogsFail, log
<1>2. /\ Now' = Now /\ Pending' = Pending /\ Now \in Nat /\ Logged' = Logged
      /\ \A i : IsNew(i)' <=> IsNew(i)
      /\ \A i \in 1..Now : events[i].id \in Logged
      /\ \A r \in Logged : \E i \in 1..Now : IsNew(i) /\ events[i].id = r
  BY <1>1, SameLog, SamePending, LogFacts
<1>3. \A i \in 1..Now : Due(i)'
  BY <1>1, <1>2 DEF Due
<1>4. ShownOnce' /\ Known'
  BY <1>1, <1>2 DEF ScreenInv, ShownOnce, Known
<1>5. AnswerFits'
  BY <1>1 DEF AnswerFits, Done
<1>6. StatusFits'
  BY <1>1, <1>2, <1>3 DEF ScreenInv, Known, StatusFits
<1>7. RecordsFit'
  BY <1>1, <1>2, <1>3 DEF RecordsFit
<1>8. InOrder'
  <2>1. ~Disorder => Plain
    BY <1>1 DEF ScreenInv, InOrder, Layout, Loaded
  <2>2. Plain => Plain'
    BY <1>1, <1>2 DEF Plain
  <2>3. Disorder' <=> Disorder
    BY <1>1, SameOrder
  <2> QED
    BY <2>1, <2>2, <2>3 DEF InOrder
<1> QED
  BY <1>4, <1>5, <1>6, <1>7, <1>8 DEF ScreenInv

LEMMA ArriveStep ==
  ASSUME TypeInv, OrderType, ScreenInv, LogsArrive
  PROVE  ScreenInv'
<1>1. /\ \E rows \in Rows(load) : records' = Snapshot(rows, load)
      /\ load' = Done /\ UNCHANGED <<events, rank, socket, mounted, missed, hasty>>
  BY DEF LogsArrive, log
<1>2. /\ Now' = Now /\ Pending' = Pending /\ Now \in Nat /\ Logged' = Logged
      /\ CountAt(Now)' = CountAt(Now)
      /\ \A i : IsNew(i)' <=> IsNew(i)
      /\ \A r : StatusAt(r, Now)' = StatusAt(r, Now)
  BY <1>1, SameLog, SamePending, LogFacts
<1>3. load \in 0..Now /\ mounted
  BY <1>2 DEF LogsArrive, TypeInv, ScreenType, Asked, Done, log
<1>k. PICK k \in 0..Now : k = load
  BY <1>3
<1>c. PICK c : c = CountAt(k)
  OBVIOUS
<1>l. PICK l : l = IF Limit <= c THEN Limit ELSE c
  OBVIOUS
<1>r. PICK rows \in Rows(k) : records' = Snapshot(rows, k)
  BY <1>1, <1>k
<1>v. PICK view : view = records'
  OBVIOUS
<1>4. /\ c \in Nat /\ c <= CountAt(Now) /\ l \in Nat /\ l <= Limit /\ l <= c
      /\ rows \in [1..l -> 1..c]
      /\ \A m, n \in 1..l : m < n => Later(rows[n], rows[m])
      /\ \A r \in 1..c, n \in 1..l : (\A m \in 1..l : rows[m] # r) => Later(rows[n], r)
      /\ view \in Seq(Shown) /\ Len(view) = l
      /\ \A n \in 1..l : /\ view[n].id = rows[n] /\ view[n].status = StatusAt(rows[n], k)
                         /\ \E j \in 1..k : /\ events[j].id = rows[n]
                                            /\ events[j].status = view[n].status
  <2>1. view = Snapshot(rows, k)
    BY <1>r, <1>v
  <2>2. SnapshotFits(k, rows, view, c, l)
    BY <1>c, <1>l, <2>1, SnapshotFacts
  <2> QED
    BY <2>2 DEF SnapshotFits
<1>5. Len(view) \in Nat /\ DOMAIN view = 1..Len(view) /\ k \in Nat /\ \A j \in 1..k : j \in 1..Now
  BY <1>2, <1>4
<1>6. \A i : Due(i)' <=> Due(i)
  BY <1>1, <1>2 DEF Due
<1>7. \A i \in (k + 1)..Now : Due(i) /\ i \in 1..Now
  BY <1>2, <1>3, <1>k DEF ScreenInv, AnswerFits
<1>8. /\ CountAt(Now) \in Nat /\ Logged = 1..CountAt(Now) /\ c = Count(events, k)
      /\ \A r \in Logged : \E i \in 1..Now : IsNew(i) /\ events[i].id = r
      /\ \A i \in 1..Now : IsNew(i) => events[i].id = Count(events, i)
      /\ Limit \in Nat /\ Limit > 0 /\ Limit <= MaxDisplay /\ MaxDisplay \in Nat
  BY <1>c, LogFacts, RowFacts, Counted
<1>o. \A q \in 1..c : rank[q] \in Int /\ ~Later(q, q)
  <2> SUFFICES ASSUME NEW q \in 1..c PROVE rank[q] \in Int /\ ~Later(q, q)
    OBVIOUS
  <2>1. q \in 1..CountAt(Now) /\ CountAt(Now) \in Nat
    BY <1>4, <1>8
  <2>2. rank[q] \in Int
    BY <2>1 DEF OrderType
  <2> QED
    BY <2>2 DEF Later
<1>u. \A i, j \in 1..l : rows[i] = rows[j] => i = j
  <2> SUFFICES ASSUME NEW i \in 1..l, NEW j \in 1..l, rows[i] = rows[j] PROVE i = j
    OBVIOUS
  <2>1. ~Later(rows[i], rows[j]) /\ ~Later(rows[j], rows[i])
    BY <1>4, <1>o
  <2>2. ~(i < j) /\ ~(j < i)
    BY <1>4, <2>1
  <2> QED
    BY <2>2
<1>9. ShownOnce'
  BY <1>v, <1>4, <1>5, <1>u DEF ShownOnce
<1>10. Known'
  <2> SUFFICES ASSUME NEW n \in 1..Len(view)
               PROVE  \E i \in 1..Now : events[i].id = view[n].id /\ events[i].status = view[n].status
    BY <1>v, <1>1, <1>2 DEF Known
  <2>1. PICK j \in 1..k : events[j].id = rows[n] /\ events[j].status = view[n].status
    BY <1>4
  <2> QED
    BY <1>4, <1>5, <2>1
<1>11. AnswerFits'
  BY <1>1 DEF AnswerFits, Done
<1>12. StatusFits'
  <2> SUFFICES ASSUME NEW n \in 1..Len(view)
               PROVE  \/ view[n].status = StatusAt(view[n].id, Now)
                      \/ \E i \in 1..Now : events[i].id = view[n].id /\ Due(i)
    BY <1>v, <1>1, <1>2, <1>6 DEF StatusFits
  <2>1. PICK r : r = rows[n]
    OBVIOUS
  <2>2. view[n].id = r /\ view[n].status = StatusAt(r, k)
    BY <1>4, <2>1
  <2>3. CASE \E i \in (k + 1)..Now : events[i].id = r
    BY <1>7, <2>2, <2>3
  <2>4. CASE ~\E i \in (k + 1)..Now : events[i].id = r
    <3>1. \A i \in 1..Now : i > k => events[i].id # r
      BY <1>2, <1>5, <2>4
    <3>2. PICK n1 \in Nat : n1 = Now
      BY <1>2
    <3> PICK ev : ev = events
      OBVIOUS
    <3>3. Places(ev, r, n1) = Places(ev, r, k)
      <4>1. k <= n1 /\ k \in Nat /\ \A i \in 1..k : ev[i] = ev[i]
        BY <1>5, <3>2
      <4>2. \A i \in 1..n1 : i > k => ev[i].id # r
        BY <3>1, <3>2
      <4> QED
        BY <4>1, <4>2, SameStatus
    <3>4. StatusAt(r, Now) = ev[Max(Places(ev, r, n1))].status
      BY <3>2 DEF StatusAt, Places
    <3>5. StatusAt(r, k) = ev[Max(Places(ev, r, k))].status
      BY <3>2 DEF StatusAt, Places
    <3> QED
      BY <2>2, <3>3, <3>4, <3>5
  <2> QED
    BY <2>3, <2>4
<1>13. RecordsFit'
  <2> SUFFICES ASSUME NEW r \in Logged, Cardinality(Ahead(r)) < Limit
               PROVE  \/ \E n \in 1..Len(view) : view[n].id = r
                      \/ \E i \in 1..Now : IsNew(i) /\ events[i].id = r /\ Due(i)
    <3>1. \A q : Ahead(q)' = Ahead(q)
      BY <1>1, SameOrder
    <3> QED
      BY <1>v, <1>1, <1>2, <1>5, <1>6, <3>1 DEF RecordsFit, OnScreen
  <2>1. CASE r <= c
    <3> SUFFICES ASSUME \A n \in 1..l : rows[n] # r PROVE FALSE
      BY <1>4
    <3>1. r \in 1..c
      BY <1>4, <1>8, <2>1
    \* All the rows are later than r, and there are as many as there can be.
    <3>2. \A n \in 1..l : rows[n] \in Ahead(r)
      BY <1>4, <1>8, <3>1 DEF Ahead
    <3>3. PICK S : S = Ahead(r)
      OBVIOUS
    <3>4. IsFiniteSet(S) /\ Cardinality(S) \in Nat
      <4>1. PICK z \in Int : Logged = 1..z
        BY <1>8
      <4>2. S \subseteq Logged
        BY <3>3 DEF Ahead
      <4>3. IsFiniteSet(1..z)
        BY FS_Interval
      <4>4. IsFiniteSet(S)
        BY <4>1, <4>2, <4>3, FS_Subset
      <4> QED
        BY <4>4, FS_CardinalityType
    <3>5. l <= Cardinality(S)
      <4>1. rows \in [1..l -> S]
        BY <1>4, <3>2, <3>3
      <4> QED
        BY <1>4, <1>u, <3>4, <4>1, RoomInSet
    <3>6. l = c /\ c > 0
      <4>1. l \in Nat /\ c \in Nat /\ c >= 1 /\ Limit \in Nat
        BY <1>4, <1>8, <3>1
      <4>2. Cardinality(S) < Limit
        BY <3>3
      <4> QED
        BY <1>l, <3>4, <3>5, <4>1, <4>2
    \* So they are all the records there were.
    <3>7. PICK T : T = (1..c) \ {r}
      OBVIOUS
    <3>8. IsFiniteSet(T) /\ Cardinality(T) = c - 1
      <4>1. PICK S2 : S2 = 1..c
        OBVIOUS
      <4>2. IsFiniteSet(S2) /\ Cardinality(S2) = c
        <5>1. c \in Int /\ c \in Nat /\ 1 \in Int
          BY <1>4
        <5> QED
          BY <4>1, <5>1, FS_Interval
      <4>3. IsFiniteSet(S2 \ {r}) /\ Cardinality(S2 \ {r}) = Cardinality(S2) - 1
        BY <3>1, <4>1, <4>2, FS_RemoveElement
      <4> QED
        BY <3>7, <4>1, <4>2, <4>3
    <3>9. rows \in [1..l -> T]
      BY <1>4, <3>7
    <3>10. l <= Cardinality(T)
      BY <1>4, <1>u, <3>8, <3>9, RoomInSet
    <3> QED
      BY <1>4, <3>6, <3>8, <3>10
  <2>2. CASE ~(r <= c)
    <3>1. PICK i \in 1..Now : IsNew(i) /\ events[i].id = r
      BY <1>8
    <3>2. r = Count(events, i)
      BY <1>8, <3>1
    <3>3. ~(i <= k)
      <4>1. i <= k => Count(events, i) <= Count(events, k) /\ Count(events, i) \in Nat
        <5>1. i \in Nat
          BY <1>2
        <5> QED
          BY <1>5, <5>1, Counting
      <4> QED
        BY <1>8, <2>2, <3>2, <4>1
    <3>4. i \in (k + 1)..Now
      BY <1>2, <1>5, <3>3
    <3> QED
      BY <1>7, <3>1, <3>4
  <2> QED
    BY <2>1, <2>2
<1>14. ASSUME ~Disorder PROVE \A n \in 1..l : rows[n] = c - l + n
  <2>1. ASSUME NEW q \in 1..c, NEW r \in 1..c, Later(q, r) PROVE r < q
    <3>1. ~(q < r)
      BY <1>4, <1>8, <1>14, <2>1 DEF Disorder, InTime
    <3>2. q # r
      BY <1>o, <2>1
    <3> QED
      BY <1>4, <3>1, <3>2
  <2>2. \A m, n \in 1..l : m < n => rows[m] < rows[n]
    BY <1>4, <2>1
  <2>3. \A r \in 1..c, n \in 1..l : (\A m \in 1..l : rows[m] # r) => r < rows[n]
    BY <1>4, <2>1
  <2> QED
    BY <1>4, <2>2, <2>3, LastNumbers
<1>15. InOrder'
  <2> SUFFICES ASSUME ~Disorder
               PROVE  \/ Plain'
                      \/ \E q \in 1..Len(view), m \in 0..Len(view), x \in Logged : Layout(q, m, x)'
    <3>1. Disorder' <=> Disorder
      BY <1>1, SameOrder
    <3> QED
      BY <1>v, <1>2, <3>1 DEF InOrder
  <2>1. CASE Len(view) = 0
    <3>1. Plain'
      BY <1>v, <2>1 DEF Plain
    <3> QED
      BY <3>1
  <2>2. CASE Len(view) # 0
    <3>1. PICK q \in 1..Len(view), x \in Logged : q = Len(view) /\ x = c - l + 1
      <4>1. l \in Nat /\ c \in Nat /\ l <= c /\ l = Len(view) /\ l # 0
        BY <1>4, <2>2
      <4>2. l \in 1..l /\ c - l + 1 \in 1..c
        BY <4>1
      <4>3. c - l + 1 \in Logged
        <5>1. CountAt(Now) \in Nat /\ c <= CountAt(Now) /\ Logged = 1..CountAt(Now)
          BY <1>4, <1>8
        <5> QED
          BY <4>1, <4>2, <5>1
      <4> QED
        BY <4>1, <4>2, <4>3
    <3>2. Loaded' /\ q + 0 <= Len(view)
      <4>1. q \in Nat /\ Len(view) \in Nat
        BY <1>5, <3>1
      <4> QED
        BY <1>1, <1>3, <3>1, <4>1 DEF Loaded
    <3>3. \A n \in 1..q : view[n].id = x + n - 1
      <4> TAKE n \in 1..q
      <4>1. n \in 1..l
        BY <1>4, <3>1
      <4>2. view[n].id = rows[n] /\ rows[n] = c - l + n
        BY <1>4, <1>14, <4>1
      <4>3. n \in Int /\ c \in Int /\ l \in Int /\ x = c - l + 1
        BY <1>4, <3>1
      <4> QED
        BY <4>2, <4>3
    <3>4. \A n \in (q + 1)..Len(view) : FALSE
      BY <1>5, <3>1
    <3>5. x > 1 => q >= Limit
      BY <1>4, <1>8, <1>l, <3>1
    <3>6. ~(0 > MaxDisplay - Limit)
      BY <1>8
    <3>7. Layout(q, 0, x)'
      BY <1>v, <3>2, <3>3, <3>4, <3>5, <3>6 DEF Layout
    <3>8. 0 \in 0..Len(view)
      BY <1>5
    <3> QED
      BY <3>7, <3>8
  <2> QED
    BY <2>1, <2>2
<1> QED
  BY <1>9, <1>10, <1>11, <1>12, <1>13, <1>15 DEF ScreenInv

-----------------------------------------------------------------------------
(* A socket delivers an event.                                             *)

Puts(n) == mounted /\ IsNew(n) /\ ~OnScreen(events[n].id) /\ records' = WithCreated(events[n])
Sets(n) == mounted /\ ~IsNew(n) /\ records' = WithStatus(events[n])
Keeps(n) == records' = records /\ (mounted => IsNew(n) /\ OnScreen(events[n].id))

Delivered(n) ==
  /\ UNCHANGED <<events, rank, mounted, load, hasty>>
  /\ Loaded => \A r \in Logged : OnScreen(r) \/ r \in givenUp => OnScreen(r)' \/ r \in givenUp'
  /\ n \in Pending /\ \A i \in Pending' : i \in Pending
  /\ \A i \in Pending : i = n \/ i \in Pending'
  /\ \A i \in 1..Now : i > n => i \in Pending'
  /\ hasty = 0 => n \notin Pending' /\ \A i \in Pending : n <= i
  /\ missed \subseteq missed' /\ (load >= 0 => events[n].id \in missed')
  /\ Keeps(n) \/ Puts(n) \/ Sets(n)

\* A delivery is of one event, with at most one effect on the rows.
LEMMA DeliverFacts ==
  ASSUME TypeInv, HasteInv, NEW s \in SocketId, Deliver(s)
  PROVE  \E n \in 1..Now : Delivered(n)
<1>1. PICK e : e = events[socket[s].next]
  OBVIOUS
<1>2. /\ Open(s) /\ socket[s].next <= Now
      /\ socket' = [socket EXCEPT ![s].next = @ + 1]
      /\ records' = IF ~mounted THEN records
                    ELSE IF e.type = "created" THEN WithCreated(e) ELSE WithStatus(e)
      /\ IF load \in 0..MaxEvents THEN Misses({e.id}) ELSE UNCHANGED missed
      /\ UNCHANGED <<events, rank, mounted, load, hasty>>
  BY <1>1 DEF Deliver, log
<1>3. Now \in Nat /\ Now <= MaxEvents /\ MaxEvents \in Nat /\ Now' = Now
  BY <1>2, LogFacts, MonitorAssumption DEF TypeInv, LogType, Now, MonitorAssumption
<1>4. /\ socket \in [SocketId -> SocketState]
      /\ \A t \in SocketId : Open(t) => socket[t].next \in 1..(Now + 1)
  BY DEF TypeInv, SocketsType
<1>5. socket[s].next \in 1..Now
  BY <1>2, <1>3, <1>4
<1>6. PICK n \in 1..Now : n = socket[s].next
  BY <1>5
<1>7. /\ socket'[s].state = socket[s].state /\ socket'[s].next = n + 1
      /\ \A t \in SocketId : t # s => socket'[t] = socket[t]
  BY <1>2, <1>4, <1>6 DEF SocketState
<1>8. /\ Open(s)'
      /\ \A t \in SocketId : t # s => (Open(t)' <=> Open(t))
  BY <1>2, <1>7 DEF Open
<1>9. n \in Pending
  BY <1>2, <1>6 DEF Pending
<1>10. ASSUME NEW i \in Pending' PROVE i \in Pending
  <2>1. PICK t \in SocketId : Open(t)' /\ socket'[t].next <= i /\ i \in 1..Now
    BY <1>3 DEF Pending
  <2>2. Open(t) /\ socket[t].next <= i
    <3>1. CASE t = s
      BY <1>2, <1>6, <1>7, <2>1, <3>1
    <3>2. CASE t # s
      BY <1>7, <1>8, <2>1, <3>2
    <3> QED
      BY <3>1, <3>2
  <2> QED
    BY <2>1, <2>2 DEF Pending
<1>11. ASSUME NEW i \in Pending, i # n PROVE i \in Pending'
  <2>1. PICK t \in SocketId : Open(t) /\ socket[t].next <= i /\ i \in 1..Now
    BY DEF Pending
  <2>2. Open(t)' /\ socket'[t].next <= i
    <3>1. CASE t = s
      BY <1>6, <1>7, <1>8, <1>11, <2>1, <3>1
    <3>2. CASE t # s
      BY <1>7, <1>8, <2>1, <3>2
    <3> QED
      BY <3>1, <3>2
  <2> QED
    BY <1>3, <2>1, <2>2 DEF Pending
<1>12. \A i \in 1..Now : i > n => i \in Pending'
  <2> TAKE i \in 1..Now
  <2>1. i > n => socket'[s].next <= i
    BY <1>7
  <2> QED
    BY <1>3, <1>8, <2>1 DEF Pending
<1>13. ASSUME hasty = 0 PROVE n \notin Pending' /\ \A i \in Pending : n <= i
  <2>1. \A t \in SocketId : Open(t) => t = s
    BY <1>2, <1>13, OneIsOpen
  <2>2. \A i \in Pending : n <= i
    BY <1>6, <2>1 DEF Pending
  <2>3. ASSUME n \in Pending' PROVE FALSE
    <3>1. PICK t \in SocketId : Open(t)' /\ socket'[t].next <= n
      BY <2>3 DEF Pending
    <3>2. t = s
      BY <1>8, <2>1, <3>1
    <3> QED
      BY <1>7, <3>1, <3>2
  <2> QED
    BY <2>2, <2>3
<1>14. missed \subseteq missed' /\ (load >= 0 => e.id \in missed')
  <2>1. missed \subseteq missed'
    BY <1>2 DEF Misses
  <2>2. ASSUME load >= 0 PROVE e.id \in missed'
    <3>1. load \in 0..Now /\ mounted /\ load # Asked
      BY <1>3, <2>2 DEF TypeInv, ScreenType, Asked, Done
    <3>2. load \in 0..MaxEvents
      BY <1>3, <3>1
    <3> QED
      BY <1>2, <3>1, <3>2 DEF Misses
  <2> QED
    BY <2>1, <2>2
<1>15. e = events[n] /\ (e.type = "created" <=> IsNew(n))
  BY <1>1, <1>6 DEF IsNew
<1>16. Keeps(n) \/ Puts(n) \/ Sets(n)
  <2>1. CASE ~mounted
    BY <1>2, <2>1 DEF Keeps
  <2>2. CASE mounted /\ IsNew(n) /\ OnScreen(e.id)
    BY <1>2, <1>15, <2>2 DEF Keeps, WithCreated
  <2>3. CASE mounted /\ IsNew(n) /\ ~OnScreen(e.id)
    BY <1>2, <1>15, <2>3 DEF Puts
  <2>4. CASE mounted /\ ~IsNew(n)
    BY <1>2, <1>15, <2>4 DEF Sets
  <2> QED
    BY <2>1, <2>2, <2>3, <2>4
<1>17. ASSUME Loaded, NEW r \in Logged, OnScreen(r) \/ r \in givenUp
       PROVE  OnScreen(r)' \/ r \in givenUp'
  <2>1. r \in Record
    BY LogFacts, MonitorAssumption DEF TypeInv, LogType, Record, MonitorAssumption
  <2>2. load = Done
    BY <1>17 DEF Loaded
  <2> QED
    BY <1>17, <2>1, <2>2 DEF Deliver
<1> QED
  BY <1>2, <1>9, <1>10, <1>11, <1>12, <1>13, <1>14, <1>15, <1>16, <1>17 DEF Delivered

\* Only the delivered event is not due any more; and it is the last of its record,
\* or the last is due.
LEMMA DueStays ==
  ASSUME TypeInv, NEW n \in 1..Now, Delivered(n)
  PROVE  /\ \A i \in 1..Now : Due(i) => i = n \/ Due(i)'
         /\ AnswerFits => AnswerFits'
         /\ \/ \E i \in 1..Now : events[i].id = events[n].id /\ Due(i)'
            \/ /\ StatusAt(events[n].id, Now) = events[n].status
               /\ \A i \in 1..Now : i > n => events[i].id # events[n].id
<1>1. /\ Now' = Now /\ Now \in Nat /\ events' = events
      /\ load' = load /\ mounted' = mounted /\ missed \subseteq missed'
      /\ load >= 0 => events[n].id \in missed'
  BY LogFacts DEF Delivered, Now
<1>2. /\ \A i \in Pending : i = n \/ i \in Pending'
      /\ \A i \in 1..Now : i > n => i \in Pending'
  BY DEF Delivered
<1>3. \A i \in 1..Now : Due(i) => i = n \/ Due(i)'
  BY <1>1, <1>2 DEF Due
<1>4. ASSUME AnswerFits PROVE AnswerFits'
  <2> SUFFICES ASSUME load >= 0, NEW i \in (load + 1)..Now PROVE Due(i)'
    BY <1>1 DEF AnswerFits
  <2>1. Due(i) /\ i \in 1..Now
    <3>1. load \in Int
      BY <1>1 DEF TypeInv, ScreenType, Asked, Done
    <3> QED
      BY <1>1, <1>4, <3>1 DEF AnswerFits
  <2>2. CASE i = n
    BY <1>1, <2>2 DEF Due
  <2>3. CASE i # n
    BY <1>3, <2>1, <2>3
  <2> QED
    BY <2>2, <2>3
<1>5. CASE \E i \in 1..Now : i > n /\ events[i].id = events[n].id
  <2>1. PICK i \in 1..Now : i > n /\ events[i].id = events[n].id
    BY <1>5
  <2>2. Due(i)'
    BY <1>2, <2>1 DEF Due
  <2> QED
    BY <1>3, <1>4, <2>1, <2>2
<1>6. CASE \A i \in 1..Now : i > n => events[i].id # events[n].id
  <2>1. StatusAt(events[n].id, Now) = events[n].status
    BY <1>1, <1>6, StatusIsLast
  <2> QED
    BY <1>3, <1>4, <1>6, <2>1
<1> QED
  BY <1>5, <1>6

\* The event of a record that is on the screen, or a screen that is closed.
LEMMA KeepsStep ==
  ASSUME TypeInv, ScreenInv, NEW n \in 1..Now, Delivered(n), Keeps(n)
  PROVE  ScreenInv'
<1>1. /\ events' = events /\ mounted' = mounted /\ load' = load /\ hasty' = hasty /\ records' = records
      /\ missed \subseteq missed' /\ (mounted => IsNew(n) /\ OnScreen(events[n].id))
      /\ n \in Pending /\ (\A i \in Pending' : i \in Pending)
      /\ \A i \in Pending : i = n \/ i \in Pending'
  BY DEF Delivered, Keeps
<1>2. /\ Now' = Now /\ Logged' = Logged /\ CountAt(Now)' = CountAt(Now)
      /\ \A i : IsNew(i)' <=> IsNew(i)
      /\ \A r : StatusAt(r, Now)' = StatusAt(r, Now)
  BY <1>1, SameLog
<1>d. /\ \A r : Ahead(r)' = Ahead(r)
      /\ Disorder' <=> Disorder
  BY SameOrder DEF Delivered
<1>g. Loaded => \A r \in Logged : r \in givenUp => OnScreen(r)' \/ r \in givenUp'
  BY DEF Delivered
<1>3. /\ Now \in Nat /\ Logged = 1..CountAt(Now) /\ CountAt(Now) \in Nat
      /\ \A i, j \in 1..Now : i < j /\ IsNew(j) => events[i].id < events[j].id
      /\ \A i \in 1..Now : events[i].id \in Logged
  BY LogFacts
<1>4. /\ \A i \in 1..Now : Due(i) => i = n \/ Due(i)'
      /\ AnswerFits'
      /\ \/ \E i \in 1..Now : events[i].id = events[n].id /\ Due(i)'
         \/ /\ StatusAt(events[n].id, Now) = events[n].status
            /\ \A i \in 1..Now : i > n => events[i].id # events[n].id
  BY DueStays DEF ScreenInv
<1>5. Len(records) \in Nat /\ DOMAIN records = 1..Len(records)
  BY RowFacts
<1>6. ShownOnce' /\ Known'
  BY <1>1, <1>2 DEF ScreenInv, ShownOnce, Known
<1>7. StatusFits'
  <2> SUFFICES ASSUME Loaded, NEW k \in 1..Len(records)
               PROVE  \/ records[k].status = StatusAt(records[k].id, Now)
                      \/ \E i \in 1..Now : events[i].id = records[k].id /\ Due(i)'
    BY <1>1, <1>2 DEF StatusFits, Loaded
  <2>1. \/ records[k].status = StatusAt(records[k].id, Now)
        \/ \E i \in 1..Now : events[i].id = records[k].id /\ Due(i)
    BY DEF ScreenInv, StatusFits
  <2>2. CASE \E i \in 1..Now : i # n /\ events[i].id = records[k].id /\ Due(i)
    BY <1>4, <2>2
  <2>3. CASE events[n].id = records[k].id
    <3>1. CASE \E i \in 1..Now : events[i].id = events[n].id /\ Due(i)'
      BY <2>3, <3>1
    <3>2. CASE /\ StatusAt(events[n].id, Now) = events[n].status
               /\ \A i \in 1..Now : i > n => events[i].id # events[n].id
      <4>1. PICK i \in 1..Now : events[i].id = records[k].id /\ events[i].status = records[k].status
        BY DEF ScreenInv, Known
      <4>2. ~(i > n)
        BY <2>3, <3>2, <4>1
      <4>3. ~(i < n)
        <5>1. IsNew(n)
          BY <1>1 DEF Loaded
        <5>2. i < n => events[i].id < events[n].id
          BY <1>3, <5>1
        <5>3. events[n].id \in Int /\ events[i].id = events[n].id
          BY <1>3, <2>3, <4>1
        <5> QED
          BY <5>2, <5>3
      <4>4. i = n
        BY <1>3, <4>2, <4>3
      <4> QED
        BY <2>3, <3>2, <4>1, <4>4
    <3> QED
      BY <1>4, <3>1, <3>2
  <2> QED
    BY <2>1, <2>2, <2>3
<1>8. RecordsFit'
  <2> SUFFICES ASSUME Loaded, NEW r \in Logged, Cardinality(Ahead(r)) < Limit
               PROVE  \/ OnScreen(r)' \/ (r \in givenUp' /\ Disorder)
                      \/ \E i \in 1..Now : IsNew(i) /\ events[i].id = r /\ Due(i)'
    BY <1>1, <1>2, <1>d DEF RecordsFit, Loaded
  <2>0. OnScreen(r)' <=> OnScreen(r)
    BY <1>1 DEF OnScreen
  <2>1. \/ OnScreen(r) \/ (r \in givenUp /\ Disorder)
        \/ \E i \in 1..Now : IsNew(i) /\ events[i].id = r /\ Due(i)
    BY DEF ScreenInv, RecordsFit
  <2>2. ASSUME NEW i \in 1..Now, IsNew(i), events[i].id = r, Due(i) PROVE OnScreen(r) \/ Due(i)'
    BY <1>1, <1>4, <2>2 DEF Loaded
  <2> QED
    BY <1>g, <2>0, <2>1, <2>2
<1>9. InOrder'
  <2> SUFFICES ASSUME ~Disorder
               PROVE  Plain' \/ \E q \in 1..Len(records), m \in 0..Len(records), c \in Logged :
                                  Layout(q, m, c)'
    BY <1>1, <1>2, <1>d DEF InOrder
  <2>1. CASE Plain
    <3>1. Plain'
      BY <1>1, <1>2, <2>1 DEF Plain
    <3> QED
      BY <3>1
  <2>2. CASE ~Plain
    <3>1. PICK q \in 1..Len(records), m \in 0..Len(records), c \in Logged : Layout(q, m, c)
      BY <2>2 DEF ScreenInv, InOrder
    <3>2. q \in Nat /\ m \in Nat /\ c \in Nat
      BY <1>3, <1>5
    <3>3. mounted /\ Loaded /\ Loaded'
      BY <1>1, <3>1 DEF Layout, Loaded
    <3>4. ASSUME NEW i \in Pending, IsNew(i), events[i].id < c PROVE i \in Pending'
      <4>1. CASE i = n
        <5>1. PICK k \in 1..Len(records) : records[k].id = events[n].id
          BY <1>1, <1>5, <3>3 DEF OnScreen
        <5>2. CASE k <= q
          <6>1. records[k].id = c + k - 1 /\ k \in Int /\ k >= 1
            BY <1>5, <3>1, <3>2, <5>2 DEF Layout
          <6> QED
            BY <3>2, <3>4, <4>1, <5>1, <6>1
        <5>3. CASE ~(k <= q)
          <6>1. k \in (q + 1)..Len(records)
            BY <1>5, <3>2, <5>3
          <6>2. records[k].id < events[i].id
            BY <3>1, <3>4, <6>1 DEF Layout
          <6>3. events[i].id \in Int
            BY <1>3, <4>1
          <6> QED
            BY <4>1, <5>1, <6>2, <6>3
        <5> QED
          BY <5>2, <5>3
      <4>2. CASE i # n
        BY <1>1, <4>2
      <4> QED
        BY <4>1, <4>2
    <3>5. m > MaxDisplay - Limit =>
            \/ \E i \in Pending' : IsNew(i) /\ events[i].id < c
            \/ c..(c + q - 1) \subseteq missed'
      BY <1>1, <3>1, <3>4 DEF Layout
    <3>6. \A k \in (q + 1)..Len(records) : \A i \in Pending' : IsNew(i) => records[k].id < events[i].id
      BY <1>1, <3>1 DEF Layout
    <3>7. /\ q + m <= Len(records)
          /\ \A k \in 1..q : records[k].id = c + k - 1
          /\ \A j, k \in (q + 1)..Len(records) : j < k => records[j].id < records[k].id
          /\ \A k \in (q + 1)..Len(records) : /\ k <= q + m => records[k].id < c
                                              /\ k > q + m => records[k].id > c + q - 1
          /\ c > 1 => q >= Limit \/ Len(records) = MaxDisplay
      BY <3>1 DEF Layout
    <3>8. Layout(q, m, c)'
      BY <1>1, <1>2, <3>3, <3>5, <3>6, <3>7 DEF Layout
    <3> QED
      BY <3>8
  <2> QED
    BY <2>1, <2>2
<1> QED
  BY <1>4, <1>6, <1>7, <1>8, <1>9 DEF ScreenInv

\* The event sets the state of a file.
LEMMA SetsStep ==
  ASSUME TypeInv, ScreenInv, NEW n \in 1..Now, Delivered(n), Sets(n)
  PROVE  ScreenInv'
<1>1. /\ events' = events /\ mounted' = mounted /\ load' = load /\ hasty' = hasty
      /\ missed \subseteq missed' /\ ~IsNew(n)
      /\ n \in Pending /\ (\A i \in Pending' : i \in Pending)
      /\ \A i \in Pending : i = n \/ i \in Pending'
  BY DEF Delivered, Sets
<1>2. /\ Now' = Now /\ Logged' = Logged /\ CountAt(Now)' = CountAt(Now)
      /\ \A i : IsNew(i)' <=> IsNew(i)
      /\ \A r : StatusAt(r, Now)' = StatusAt(r, Now)
  BY <1>1, SameLog
<1>d. /\ \A r : Ahead(r)' = Ahead(r)
      /\ Disorder' <=> Disorder
  BY SameOrder DEF Delivered
<1>g. Loaded => \A r \in Logged : r \in givenUp => OnScreen(r)' \/ r \in givenUp'
  BY DEF Delivered
<1>3. Now \in Nat /\ \A i \in 1..Now : events[i] \in Event
  BY LogFacts
<1>4. /\ \A i \in 1..Now : Due(i) => i = n \/ Due(i)'
      /\ AnswerFits'
      /\ \/ \E i \in 1..Now : events[i].id = events[n].id /\ Due(i)'
         \/ StatusAt(events[n].id, Now) = events[n].status
  BY DueStays DEF ScreenInv
<1>5. Len(records) \in Nat /\ DOMAIN records = 1..Len(records)
  BY RowFacts
<1>v. PICK view : view = records'
  OBVIOUS
<1>6. /\ view \in Seq(Shown) /\ Len(view) = Len(records) /\ DOMAIN view = 1..Len(records)
      /\ \A k \in 1..Len(records) :
           /\ view[k].id = records[k].id
           /\ view[k].status = IF records[k].id = events[n].id THEN events[n].status ELSE records[k].status
  BY <1>3, <1>v, WithStatusFacts DEF Sets
<1>7. ShownOnce'
  BY <1>5, <1>6, <1>v DEF ScreenInv, ShownOnce
<1>8. Known'
  <2> SUFFICES ASSUME NEW k \in 1..Len(records)
               PROVE  \E i \in 1..Now : events[i].id = view[k].id /\ events[i].status = view[k].status
    BY <1>1, <1>2, <1>6, <1>v DEF Known
  <2>1. PICK i \in 1..Now : events[i].id = records[k].id /\ events[i].status = records[k].status
    BY DEF ScreenInv, Known
  <2>2. CASE records[k].id = events[n].id
    BY <1>6, <2>2
  <2>3. CASE records[k].id # events[n].id
    BY <1>6, <2>1, <2>3
  <2> QED
    BY <2>2, <2>3
<1>9. StatusFits'
  <2> SUFFICES ASSUME Loaded, NEW k \in 1..Len(records)
               PROVE  \/ view[k].status = StatusAt(view[k].id, Now)
                      \/ \E i \in 1..Now : events[i].id = view[k].id /\ Due(i)'
    BY <1>1, <1>2, <1>6, <1>v DEF StatusFits, Loaded
  <2>1. CASE records[k].id = events[n].id
    BY <1>4, <1>6, <2>1
  <2>2. CASE records[k].id # events[n].id
    <3>1. view[k].id = records[k].id /\ view[k].status = records[k].status
      BY <1>6, <2>2
    <3>2. \/ records[k].status = StatusAt(records[k].id, Now)
          \/ \E i \in 1..Now : events[i].id = records[k].id /\ Due(i)
      BY DEF ScreenInv, StatusFits
    <3> QED
      BY <1>4, <2>2, <3>1, <3>2
  <2> QED
    BY <2>1, <2>2
<1>10. RecordsFit'
  <2> SUFFICES ASSUME Loaded, NEW r \in Logged, Cardinality(Ahead(r)) < Limit
               PROVE  \/ OnScreen(r)' \/ (r \in givenUp' /\ Disorder)
                      \/ \E i \in 1..Now : IsNew(i) /\ events[i].id = r /\ Due(i)'
    BY <1>1, <1>2, <1>d DEF RecordsFit, Loaded
  <2>1. \/ OnScreen(r) \/ (r \in givenUp /\ Disorder)
        \/ \E i \in 1..Now : IsNew(i) /\ events[i].id = r /\ Due(i)
    BY DEF ScreenInv, RecordsFit
  <2>2. OnScreen(r) => OnScreen(r)'
    BY <1>5, <1>6, <1>v DEF OnScreen
  <2>3. ASSUME NEW i \in 1..Now, IsNew(i), Due(i) PROVE Due(i)'
    BY <1>1, <1>4, <2>3
  <2> QED
    BY <1>g, <2>1, <2>2, <2>3
<1>11. InOrder'
  <2> SUFFICES ASSUME ~Disorder
               PROVE  Plain' \/ \E q \in 1..Len(records), m \in 0..Len(records), c \in Logged :
                                  Layout(q, m, c)'
    BY <1>1, <1>2, <1>d, <1>6, <1>v DEF InOrder
  <2>1. CASE Plain
    <3>1. Plain'
      BY <1>1, <1>2, <1>6, <1>v, <2>1 DEF Plain
    <3> QED
      BY <3>1
  <2>2. CASE ~Plain
    <3>1. PICK q \in 1..Len(records), m \in 0..Len(records), c \in Logged : Layout(q, m, c)
      BY <2>2 DEF ScreenInv, InOrder
    <3>2. q \in Nat /\ m \in Nat /\ Loaded'
      BY <1>1, <1>5, <3>1 DEF Layout, Loaded
    <3>3. m > MaxDisplay - Limit =>
            \/ \E i \in Pending' : IsNew(i) /\ events[i].id < c
            \/ c..(c + q - 1) \subseteq missed'
      BY <1>1, <3>1 DEF Layout
    <3>4. \A k \in (q + 1)..Len(records) : k \in 1..Len(records)
      BY <1>5, <3>2
    <3>5. \A k \in 1..q : k \in 1..Len(records)
      BY <1>5, <3>2
    <3>6. \A k \in (q + 1)..Len(records) : \A i \in Pending' : IsNew(i) => view[k].id < events[i].id
      BY <1>1, <1>6, <3>1, <3>4 DEF Layout
    <3>7. /\ q + m <= Len(view)
          /\ \A k \in 1..q : view[k].id = c + k - 1
      BY <1>6, <3>1, <3>5 DEF Layout
    <3>8. /\ \A j, k \in (q + 1)..Len(view) : j < k => view[j].id < view[k].id
          /\ \A k \in (q + 1)..Len(view) : /\ k <= q + m => view[k].id < c
                                           /\ k > q + m => view[k].id > c + q - 1
          /\ c > 1 => q >= Limit \/ Len(view) = MaxDisplay
      BY <1>6, <3>1, <3>4 DEF Layout
    <3>9. Layout(q, m, c)'
      BY <1>1, <1>2, <1>6, <1>v, <3>2, <3>3, <3>6, <3>7, <3>8 DEF Layout
    <3> QED
      BY <3>9
  <2> QED
    BY <2>1, <2>2
<1> QED
  BY <1>4, <1>7, <1>8, <1>9, <1>10, <1>11 DEF ScreenInv

\* A new record goes to the end of the rows; d is 1 if the first row goes for it.
PutFits(n, view, l, d) ==
  /\ view \in Seq(Shown) /\ view = records' /\ l = Len(records) /\ l \in Nat /\ l <= MaxDisplay
  /\ d = (IF l = MaxDisplay THEN 1 ELSE 0) /\ d \in {0, 1} /\ l - d \in Nat
  /\ Len(view) = l - d + 1 /\ Len(view) <= MaxDisplay /\ DOMAIN view = 1..(l - d + 1)
  /\ \A i \in 1..(l - d) : view[i] = records[i + d] /\ i + d \in 1..l
  /\ view[l - d + 1].id = events[n].id /\ view[l - d + 1].status = "none"

\* There are such rows.
LEMMA PutFacts ==
  ASSUME TypeInv, NEW n \in 1..Now, Puts(n)
  PROVE  \E view, l, d : PutFits(n, view, l, d)
<1>1. records' = WithCreated(events[n]) /\ ~OnScreen(events[n].id) /\ events[n] \in Event
  BY LogFacts DEF Puts
<1>2. PICK view : view = records'
  OBVIOUS
<1>3. PICK l \in Nat : l = Len(records)
  BY RowFacts
<1>4. PICK d : d = IF l = MaxDisplay THEN 1 ELSE 0
  OBVIOUS
<1>d. d \in {0, 1}
  BY <1>4
<1>5. /\ view \in Seq(Shown) /\ l - d \in Nat /\ Len(view) = l - d + 1
      /\ Len(view) <= MaxDisplay
      /\ \A i \in 1..(l - d) : view[i] = records[i + d]
      /\ view[l - d + 1] = [id |-> events[n].id, status |-> "none"]
  <2>1. PICK e \in Event : e = events[n]
    BY <1>1
  <2>2. ~OnScreen(e.id) /\ view = WithCreated(e)
    BY <1>1, <1>2, <2>1
  <2>3. /\ view \in Seq(Shown) /\ l - d \in Nat /\ Len(view) = l - d + 1
        /\ Len(view) <= MaxDisplay
        /\ \A i \in 1..(l - d) : view[i] = records[i + d]
        /\ view[l - d + 1] = [id |-> e.id, status |-> "none"]
    <3>1. l = Len(records)
      BY <1>3
    <3> QED
      BY <1>4, <2>2, <3>1, WithCreatedFacts
  <2> QED
    BY <2>1, <2>3
<1>6. DOMAIN view = 1..(l - d + 1)
  BY <1>5
<1>7. l <= MaxDisplay
  BY <1>3, RowFacts
<1>8. \A i \in 1..(l - d) : i + d \in 1..l
  BY <1>3, <1>d
<1>9. view[l - d + 1].id = events[n].id /\ view[l - d + 1].status = "none"
  BY <1>5
<1>10. PutFits(n, view, l, d)
  BY <1>2, <1>3, <1>4, <1>d, <1>5, <1>6, <1>7, <1>8, <1>9 DEF PutFits
<1> QED
  BY <1>10

\* The new row is of no record that has one.
LEMMA PutShown ==
  ASSUME TypeInv, ShownOnce, Known, NEW n \in 1..Now, Delivered(n), Puts(n)
  PROVE  ShownOnce' /\ Known'
<1>1. PICK view, l, d : PutFits(n, view, l, d)
  BY PutFacts
<1>2. events' = events /\ Now' = Now /\ IsNew(n) /\ ~OnScreen(events[n].id)
  BY DEF Delivered, Puts, Now
<1>3. events[n].status = "none"
  BY <1>2, LogFacts
<1>4. DOMAIN records = 1..l
  BY <1>1, RowFacts DEF PutFits
<1>5. \A k \in 1..l : records[k].id # events[n].id
  BY <1>2, <1>4 DEF OnScreen
<1>6. ShownOnce'
  <2> SUFFICES ASSUME NEW i \in 1..(l - d + 1), NEW j \in 1..(l - d + 1), view[i].id = view[j].id
               PROVE  i = j
    BY <1>1 DEF PutFits, ShownOnce
  <2>1. l - d \in Nat
    BY <1>1 DEF PutFits
  <2>2. CASE i = l - d + 1 /\ j = l - d + 1
    BY <2>2
  <2>3. CASE i = l - d + 1 /\ j # l - d + 1
    <3>1. j \in 1..(l - d)
      BY <2>1, <2>3
    <3> QED
      BY <1>1, <1>5, <2>3, <3>1 DEF PutFits
  <2>4. CASE i # l - d + 1 /\ j = l - d + 1
    <3>1. i \in 1..(l - d)
      BY <2>1, <2>4
    <3> QED
      BY <1>1, <1>5, <2>4, <3>1 DEF PutFits
  <2>5. CASE i # l - d + 1 /\ j # l - d + 1
    <3>1. i \in 1..(l - d) /\ j \in 1..(l - d)
      BY <2>1, <2>5
    <3>2. i + d = j + d
      <4>1. /\ view[i] = records[i + d] /\ i + d \in 1..l
            /\ view[j] = records[j + d] /\ j + d \in 1..l
        BY <1>1, <3>1 DEF PutFits
      <4>2. \A a, b \in 1..l : records[a].id = records[b].id => a = b
        BY <1>4 DEF ShownOnce
      <4> QED
        BY <4>1, <4>2
    <3>3. i \in Int /\ j \in Int /\ d \in Int
      BY <1>1 DEF PutFits
    <3> QED
      BY <3>2, <3>3
  <2> QED
    BY <2>2, <2>3, <2>4, <2>5
<1>7. Known'
  <2> SUFFICES ASSUME NEW k \in 1..(l - d + 1)
               PROVE  \E i \in 1..Now : events[i].id = view[k].id /\ events[i].status = view[k].status
    BY <1>1, <1>2 DEF PutFits, Known
  <2>1. l - d \in Nat
    BY <1>1 DEF PutFits
  <2>2. CASE k = l - d + 1
    BY <1>1, <1>3, <2>2 DEF PutFits
  <2>3. CASE k # l - d + 1
    <3>1. k \in 1..(l - d)
      BY <2>1, <2>3
    <3>2. view[k] = records[k + d] /\ k + d \in 1..Len(records)
      BY <1>1, <3>1 DEF PutFits
    <3> QED
      BY <3>2 DEF Known
  <2> QED
    BY <2>2, <2>3
<1> QED
  BY <1>6, <1>7

\* The rows that stay were right, or will be; so is the new one.
LEMMA PutStatus ==
  ASSUME TypeInv, ScreenInv, NEW n \in 1..Now, Delivered(n), Puts(n)
  PROVE  StatusFits'
<1>1. PICK view, l, d : PutFits(n, view, l, d)
  BY PutFacts
<1>2. /\ events' = events /\ mounted' = mounted /\ load' = load
      /\ IsNew(n) /\ ~OnScreen(events[n].id)
  BY DEF Delivered, Puts
<1>3. Now' = Now /\ \A r : StatusAt(r, Now)' = StatusAt(r, Now)
  BY <1>2, SameLog
<1>4. events[n].status = "none"
  BY <1>2, LogFacts
<1>5. /\ \A i \in 1..Now : Due(i) => i = n \/ Due(i)'
      /\ \/ \E i \in 1..Now : events[i].id = events[n].id /\ Due(i)'
         \/ StatusAt(events[n].id, Now) = events[n].status
  BY DueStays
<1> SUFFICES ASSUME Loaded, NEW k \in 1..(l - d + 1)
             PROVE  \/ view[k].status = StatusAt(view[k].id, Now)
                    \/ \E i \in 1..Now : events[i].id = view[k].id /\ Due(i)'
  BY <1>1, <1>2, <1>3 DEF PutFits, StatusFits, Loaded
<1>6. CASE k = l - d + 1
  BY <1>1, <1>4, <1>5, <1>6 DEF PutFits
<1>7. CASE k # l - d + 1
  <2>1. k \in 1..(l - d)
    BY <1>1, <1>7 DEF PutFits
  <2>2. view[k] = records[k + d] /\ k + d \in 1..Len(records)
    BY <1>1, <2>1 DEF PutFits
  <2>3. records[k + d].id # events[n].id
    BY <1>2, <2>2, RowFacts DEF OnScreen
  <2>4. \/ records[k + d].status = StatusAt(records[k + d].id, Now)
        \/ \E i \in 1..Now : events[i].id = records[k + d].id /\ Due(i)
    BY <2>2 DEF ScreenInv, StatusFits
  <2> QED
    BY <1>5, <2>2, <2>3, <2>4
<1> QED
  BY <1>6, <1>7

\* The row that a full screen gives up is too old to be wanted, or news of it is due.
LEMMA GivenUp ==
  ASSUME TypeInv, ScreenInv, NEW n \in 1..Now, Delivered(n), Puts(n), Loaded, ~Disorder,
         NEW view, NEW l, PutFits(n, view, l, 1), NEW x, x = records[1].id
  PROVE  \/ x <= CountAt(Now) - Limit
         \/ \E i \in 1..Now : IsNew(i) /\ events[i].id = x /\ Due(i)'
<1>1. /\ l = MaxDisplay /\ l = Len(records) /\ l \in Nat /\ l > 1 /\ Len(view) = l
      /\ DOMAIN view = 1..l /\ view = records'
      /\ \A i \in 1..(l - 1) : view[i] = records[i + 1] /\ i + 1 \in 1..l
      /\ view[l].id = events[n].id
  <2>1. l = MaxDisplay /\ l = Len(records) /\ l \in Nat /\ l > 1
    BY RowFacts DEF PutFits
  <2>2. l - 1 + 1 = l
    BY <2>1
  <2> QED
    BY <2>1, <2>2 DEF PutFits
<1>2. IsNew(n) /\ ~OnScreen(events[n].id) /\ n \in Pending /\ missed \subseteq missed'
  BY DEF Delivered, Puts
<1>h. hasty = 0
  BY NoHaste
<1>3. (\A i \in 1..Now : i > n => i \in Pending') /\ \A i \in Pending : n <= i
  BY <1>h DEF Delivered
<1>4. /\ Now \in Nat /\ Logged = 1..CountAt(Now) /\ CountAt(Now) \in Nat
      /\ \A i, j \in 1..Now : i < j /\ IsNew(j) => events[i].id < events[j].id
      /\ \A i \in 1..Now : events[i].id \in Logged
      /\ \A r \in Logged : \E i \in 1..Now : IsNew(i) /\ events[i].id = r
  BY LogFacts
<1>5. /\ Limit \in Nat /\ Limit <= MaxDisplay /\ MaxDisplay \in Nat
      /\ \A k \in 1..l : records[k].id \in 1..CountAt(Now) /\ records[k].id # events[n].id
  BY <1>1, <1>2, RowFacts, KnownIds DEF ScreenInv, OnScreen
<1>6. \A i, j \in 1..l : view[i].id = view[j].id => i = j
  BY <1>1, PutShown DEF ScreenInv, ShownOnce
<1>7. \A k \in 1..l : view[k].id \in 1..CountAt(Now)
  <2> TAKE k \in 1..l
  <2>1. CASE k = l
    BY <1>1, <1>4, <2>1
  <2>2. CASE k # l
    <3>1. k \in 1..(l - 1)
      BY <1>1, <2>2
    <3> QED
      BY <1>1, <1>5, <3>1
  <2> QED
    BY <2>1, <2>2
<1>8. x \in 1..CountAt(Now) /\ events[n].id \in 1..CountAt(Now)
  BY <1>1, <1>4, <1>5
<1>9. CASE Plain
  <2>1. ASSUME NEW k \in 1..l PROVE view[k].id \in (x + 1)..CountAt(Now)
    <3>1. CASE k = l
      <4>1. records[1].id < events[n].id
        BY <1>1, <1>2, <1>9 DEF Plain
      <4> QED
        BY <1>1, <1>4, <1>8, <3>1, <4>1
    <3>2. CASE k # l
      <4>1. k \in 1..(l - 1) /\ 1 < k + 1
        BY <1>1, <3>2
      <4>2. view[k] = records[k + 1] /\ k + 1 \in 1..l
        BY <1>1, <4>1
      <4>3. records[1].id < records[k + 1].id
        BY <1>1, <1>9, <4>1, <4>2 DEF Plain
      <4>4. view[k].id \in 1..CountAt(Now) /\ x < view[k].id
        BY <1>7, <4>2, <4>3
      <4> QED
        BY <1>4, <1>8, <4>4
    <3> QED
      BY <3>1, <3>2
  <2>2. PICK f : f = [k \in 1..l |-> view[k].id]
    OBVIOUS
  <2>3. f \in [1..l -> (x + 1)..CountAt(Now)] /\ \A j, k \in 1..l : f[j] = f[k] => j = k
    BY <1>6, <2>1, <2>2
  <2>4. l <= CountAt(Now) - x
    <3>1. PICK b \in Int : b = CountAt(Now)
      BY <1>4
    <3>2. x \in Int /\ l \in Nat /\ l > 0 /\ f \in [1..l -> (x + 1)..b]
      BY <1>1, <1>8, <2>3, <3>1
    <3>3. l <= b - x
      BY <2>3, <3>2, Room
    <3> QED
      BY <3>1, <3>3
  <2> QED
    BY <1>1, <1>4, <1>5, <1>8, <2>4
<1>10. CASE ~Plain
  <2>1. PICK q \in 1..Len(records), m \in 0..Len(records), c \in Logged : Layout(q, m, c)
    BY <1>10 DEF ScreenInv, InOrder
  <2>2. q \in Nat /\ q >= 1 /\ m \in Nat /\ q + m <= l /\ c \in Nat
    BY <1>1, <1>4, <2>1 DEF Layout
  <2>3. x = c
    <3>1. 1 \in 1..q
      BY <2>2
    <3>2. records[1].id = c + 1 - 1
      BY <2>1, <3>1 DEF Layout
    <3> QED
      BY <2>2, <3>2
  <2>4. PICK j \in 1..Now : IsNew(j) /\ events[j].id = c
    BY <1>4
  <2>5. CASE events[n].id < c
    <3>1. n < j
      BY <1>2, <2>4, <2>5, OlderIsEarlier
    <3>2. Due(j)'
      BY <1>3, <3>1 DEF Due
    <3> QED
      BY <2>3, <2>4, <3>2
  <2>6. CASE c < events[n].id /\ m > MaxDisplay - Limit
    <3>1. \/ \E i \in Pending : IsNew(i) /\ events[i].id < c
          \/ c..(c + q - 1) \subseteq missed
      BY <2>1, <2>6 DEF Layout
    <3>2. ~\E i \in Pending : IsNew(i) /\ events[i].id < c
      <4> SUFFICES ASSUME NEW i \in Pending, IsNew(i), events[i].id < c PROVE FALSE
        OBVIOUS
      <4>1. i \in 1..Now /\ n <= i
        BY <1>3 DEF Pending
      <4>2. events[i].id \in Int /\ events[n].id \in Int /\ events[i].id < events[n].id
        <5>1. events[i].id \in Int /\ events[n].id \in Int
          BY <1>4, <1>8, <4>1
        <5>2. c < events[n].id
          BY <2>6
        <5> QED
          BY <2>2, <5>1, <5>2
      <4>3. ~(n < i)
        BY <1>4, <4>1, <4>2
      <4>4. n # i
        BY <4>2
      <4> QED
        BY <1>4, <4>1, <4>3, <4>4
    <3>3. c \in c..(c + q - 1)
      BY <2>2
    <3>4. events'[j].id = c
      BY <2>4 DEF Delivered
    <3>5. Due(j)'
      BY <1>2, <3>1, <3>2, <3>3, <3>4 DEF Due
    <3> QED
      BY <2>3, <2>4, <3>5
  <2>7. CASE c < events[n].id /\ ~(m > MaxDisplay - Limit)
    <3>0. l - m \in Nat /\ l - m >= q
      BY <1>1, <2>2
    <3>1. PICK a \in Nat : a = l - m /\ a >= q
      BY <3>0
    <3>2. PICK g : g = [k \in 1..a |-> IF k <= q - 1 THEN k ELSE k + m]
      OBVIOUS
    <3>3. /\ \A k \in 1..a : g[k] \in 1..l
          /\ \A k \in 1..a : g[k] = IF k <= q - 1 THEN k ELSE k + m
      BY <1>1, <2>2, <3>1, <3>2
    <3>4. \A i, k \in 1..a : g[i] = g[k] => i = k
      BY <2>2, <3>1, <3>3, SMTT(30)
    <3>5. ASSUME NEW k \in 1..a PROVE view[g[k]].id > c
      <4>1. CASE k <= q - 1
        <5>1. g[k] = k /\ k \in 1..(l - 1) /\ k + 1 \in 1..q
          BY <1>1, <2>2, <3>1, <3>3, <4>1
        <5>2. view[k] = records[k + 1] /\ records[k + 1].id = c + (k + 1) - 1
          BY <1>1, <2>1, <5>1 DEF Layout
        <5> QED
          BY <2>2, <5>1, <5>2
      <4>2. CASE ~(k <= q - 1) /\ k + m = l
        BY <1>1, <2>7, <3>3, <4>2
      <4>3. CASE ~(k <= q - 1) /\ k + m # l
        <5>1. /\ g[k] = k + m /\ k + m \in 1..(l - 1)
              /\ k + m + 1 \in (q + 1)..Len(records) /\ k + m + 1 > q + m
          BY <1>1, <2>2, <3>1, <3>3, <4>3
        <5>2. view[k + m] = records[k + m + 1] /\ records[k + m + 1].id > c + q - 1
          BY <1>1, <2>1, <5>1 DEF Layout
        <5>3. records[k + m + 1].id \in Int
          BY <1>1, <1>5, <5>1, SMTT(30)
        <5>4. view[g[k]].id = records[k + m + 1].id
          BY <5>1, <5>2
        <5> QED
          BY <2>2, <5>2, <5>3, <5>4, SMTT(30)
      <4> QED
        BY <4>1, <4>2, <4>3
    <3>6. PICK f : f = [k \in 1..a |-> view[g[k]].id]
      OBVIOUS
    <3>7. \A k \in 1..a : view[g[k]].id \in (c + 1)..CountAt(Now)
      BY <1>4, <1>7, <2>2, <3>3, <3>5, SMTT(30)
    <3>8. f \in [1..a -> (c + 1)..CountAt(Now)] /\ \A i, k \in 1..a : f[i] = f[k] => i = k
      BY <1>6, <3>3, <3>4, <3>6, <3>7
    <3>9. a <= CountAt(Now) - c
      <4>1. PICK b \in Int : b = CountAt(Now)
        BY <1>4
      <4>2. c \in Int /\ a > 0 /\ f \in [1..a -> (c + 1)..b]
        BY <2>2, <3>1, <3>8, <4>1
      <4>3. a <= b - c
        BY <3>8, <4>2, Room
      <4> QED
        BY <4>1, <4>3
    <3> QED
      BY <1>1, <1>4, <1>5, <2>2, <2>3, <2>7, <3>1, <3>9, SMTT(30)
  <2>8. events[n].id # c
    <3>1. 1 \in 1..l
      BY <1>1
    <3> QED
      BY <1>5, <2>3, <3>1
  <2> QED
    BY <1>8, <2>2, <2>5, <2>6, <2>7, <2>8
<1> QED
  BY <1>9, <1>10

\* No record that is wanted is given up unless news of it is due.
LEMMA PutRecords ==
  ASSUME TypeInv, OrderType, ScreenInv, NEW n \in 1..Now, Delivered(n), Puts(n)
  PROVE  RecordsFit'
<1>1. PICK view, l, d : PutFits(n, view, l, d)
  BY PutFacts
<1>2. /\ events' = events /\ mounted' = mounted /\ load' = load /\ hasty' = hasty
  BY DEF Delivered
<1>3. /\ Now' = Now /\ Logged' = Logged /\ CountAt(Now)' = CountAt(Now)
      /\ \A i : IsNew(i)' <=> IsNew(i)
  BY <1>2, SameLog
<1>4. \A i \in 1..Now : Due(i) => i = n \/ Due(i)'
  BY DueStays
<1>5. CountAt(Now) \in Nat /\ Limit \in Nat /\ Logged = 1..CountAt(Now) /\ hasty \in Nat
  BY LogFacts, RowFacts DEF TypeInv, ScreenType
<1>o. /\ \A r : Ahead(r)' = Ahead(r)
      /\ Disorder' <=> Disorder
  BY SameOrder DEF Delivered
<1> SUFFICES ASSUME Loaded, NEW r \in Logged, Cardinality(Ahead(r)) < Limit
             PROVE  \/ OnScreen(r)' \/ (r \in givenUp' /\ Disorder)
                    \/ \E i \in 1..Now : IsNew(i) /\ events[i].id = r /\ Due(i)'
  BY <1>2, <1>3, <1>o DEF RecordsFit, Loaded
<1>6. \/ OnScreen(r) \/ (r \in givenUp /\ Disorder)
      \/ \E i \in 1..Now : IsNew(i) /\ events[i].id = r /\ Due(i)
  BY DEF ScreenInv, RecordsFit
<1>7. \A k \in 1..(l - d + 1) : view[k].id = r => OnScreen(r)'
  BY <1>1 DEF PutFits, OnScreen
<1>8. CASE \E i \in 1..Now : IsNew(i) /\ events[i].id = r /\ Due(i)
  <2>1. PICK i \in 1..Now : IsNew(i) /\ events[i].id = r /\ Due(i)
    BY <1>8
  <2>2. CASE i = n
    <3>1. l - d + 1 \in 1..(l - d + 1) /\ view[l - d + 1].id = r
      BY <1>1, <2>1, <2>2 DEF PutFits
    <3> QED
      BY <1>7, <3>1
  <2> QED
    BY <1>4, <2>1, <2>2
<1>10. CASE Disorder /\ (OnScreen(r) \/ r \in givenUp)
  BY <1>10 DEF Delivered
<1>9. CASE ~Disorder /\ OnScreen(r)
  <2>1. PICK k \in 1..l : records[k].id = r
    BY <1>1, <1>9, RowFacts DEF OnScreen, PutFits
  <2>2. CASE k > d
    <3>1. k - d \in 1..(l - d) /\ k - d + d = k /\ k - d \in 1..(l - d + 1)
      BY <1>1, <2>2 DEF PutFits
    <3>2. view[k - d] = records[k]
      BY <1>1, <3>1 DEF PutFits
    <3> QED
      BY <1>7, <2>1, <3>1, <3>2
  <2>3. CASE ~(k > d)
    <3>1. d = 1 /\ k = 1
      BY <1>1, <2>3 DEF PutFits
    <3>2. \/ r <= CountAt(Now) - Limit
          \/ \E i \in 1..Now : IsNew(i) /\ events[i].id = r /\ Due(i)'
      BY <1>1, <1>9, <2>1, <3>1, GivenUp
    <3>3. ~(r <= CountAt(Now) - Limit)
      <4>1. Cardinality(Ahead(r)) = CountAt(Now) - r
        BY <1>9, AheadInTime DEF Disorder
      <4> QED
        BY <1>5, <4>1
    <3> QED
      BY <3>2, <3>3
  <2> QED
    BY <2>2, <2>3
<1> QED
  BY <1>6, <1>8, <1>9, <1>10

\* What remains on its way is new to the screen with the record put last, too.
LEMMA PutLast ==
  ASSUME TypeInv, NEW n \in 1..Now, Delivered(n), Puts(n), hasty = 0
  PROVE  \A i \in Pending' : IsNew(i) => events[n].id < events[i].id
<1>1. /\ n \notin Pending' /\ (\A i \in Pending' : i \in Pending)
      /\ \A i \in Pending : n <= i
  BY DEF Delivered
<1>2. \A i, j \in 1..Now : i < j /\ IsNew(j) => events[i].id < events[j].id
  BY LogFacts
<1> SUFFICES ASSUME NEW i \in Pending', IsNew(i) PROVE events[n].id < events[i].id
  OBVIOUS
<1>3. i \in Pending /\ i # n /\ n <= i
  BY <1>1
<1>4. i \in 1..Now /\ n < i
  BY <1>3, LogFacts DEF Pending
<1> QED
  BY <1>2, <1>4

\* The first q rows of the answer and the m older rows after them, when a row is
\* put: the first row may go, and the new one may be older than the answer.
LEMMA PutLayout ==
  ASSUME TypeInv, ScreenInv, NEW n \in 1..Now, Delivered(n), Puts(n), hasty = 0,
         NEW view, NEW l, NEW d, PutFits(n, view, l, d),
         NEW q \in 1..Len(records), NEW m \in 0..Len(records), NEW c \in Logged, Layout(q, m, c),
         NEW a, NEW b, NEW x,
         a = q - d, x = c + d, a > 0,
         b = (IF events[n].id < c THEN m + 1 ELSE m)
  PROVE  /\ a \in 1..Len(view) /\ b \in 0..Len(view) /\ x \in Logged
         /\ Layout(a, b, x)'
<1>1. /\ view = records' /\ l = Len(records) /\ l \in Nat /\ l <= MaxDisplay
      /\ d = (IF l = MaxDisplay THEN 1 ELSE 0) /\ d \in {0, 1} /\ l - d \in Nat
      /\ Len(view) = l - d + 1 /\ Len(view) <= MaxDisplay
      /\ \A i \in 1..(l - d) : view[i] = records[i + d] /\ i + d \in 1..l
      /\ view[l - d + 1].id = events[n].id
  BY DEF PutFits
<1>2. /\ events' = events /\ mounted' = mounted /\ load' = load /\ IsNew(n)
      /\ ~OnScreen(events[n].id) /\ n \in Pending /\ missed \subseteq missed'
      /\ (\A i \in Pending' : i \in Pending) /\ (\A i \in 1..Now : i > n => i \in Pending')
      /\ (\A i \in Pending : i = n \/ i \in Pending')
      /\ \A i \in Pending : n <= i
  BY DEF Delivered, Puts
<1>3. /\ Now' = Now /\ Logged' = Logged /\ \A i : IsNew(i)' <=> IsNew(i)
  BY <1>2, SameLog
<1>4. /\ Now \in Nat /\ Logged = 1..CountAt(Now) /\ CountAt(Now) \in Nat
      /\ \A i, j \in 1..Now : i < j /\ IsNew(j) => events[i].id < events[j].id
      /\ \A i \in 1..Now : events[i].id \in Logged
      /\ \A r \in Logged : \E i \in 1..Now : IsNew(i) /\ events[i].id = r
  BY LogFacts
<1>5. /\ MaxDisplay \in Nat /\ Limit \in Nat /\ Limit > 0 /\ Limit <= MaxDisplay
      /\ DOMAIN records = 1..l /\ \A k \in 1..l : records[k].id \in 1..CountAt(Now)
  BY <1>1, RowFacts, KnownIds DEF ScreenInv
<1>6. /\ Loaded /\ q + m <= l
      /\ \A k \in 1..q : records[k].id = c + k - 1
      /\ \A j, k \in (q + 1)..l : j < k => records[j].id < records[k].id
      /\ \A k \in (q + 1)..l :
           /\ \A i \in Pending : IsNew(i) => records[k].id < events[i].id
           /\ k <= q + m => records[k].id < c
           /\ k > q + m => records[k].id > c + q - 1
      /\ c > 1 => q >= Limit \/ l = MaxDisplay
      /\ m > MaxDisplay - Limit =>
           \/ \E i \in Pending : IsNew(i) /\ events[i].id < c
           \/ c..(c + q - 1) \subseteq missed
  BY <1>1 DEF Layout
<1>7. /\ q \in Nat /\ q >= 1 /\ m \in Nat /\ c \in Nat /\ c >= 1 /\ q <= l
      /\ events[n].id \in 1..CountAt(Now)
  BY <1>1, <1>4, SMTT(30)
<1>8. \A k \in 1..l : records[k].id # events[n].id
  BY <1>2, <1>5 DEF OnScreen
<1>a. events[n].id \in Int /\ q \in Int /\ m \in Int /\ c \in Int /\ l \in Int /\ d \in Int
  BY <1>1, <1>4, <1>7
<1>b. a = q - d /\ x = c + d /\ a \in Int /\ x \in Int /\ a > 0 /\ Len(view) \in Int
  BY <1>1, <1>a
<1>c. /\ b \in Int /\ (events[n].id < c => b = m + 1) /\ (~(events[n].id < c) => b = m)
  BY <1>a
\* The new row is not among the answer's.
<1>9. events[n].id < c \/ events[n].id > c + q - 1
  <2> SUFFICES ASSUME ~(events[n].id < c), ~(events[n].id > c + q - 1) PROVE FALSE
    OBVIOUS
  <2>1. PICK y \in Int : y = events[n].id
    BY <1>a
  <2>2. y >= c /\ y <= c + q - 1
    BY <1>a, <2>1
  <2>3. PICK k \in Int : k = y - c + 1
    BY <1>a, <2>1
  <2>4. k \in 1..q /\ k \in 1..l /\ c + k - 1 = y
    BY <1>7, <1>a, <2>2, <2>3
  <2> QED
    BY <1>6, <1>8, <2>1, <2>4
\* Rows of the answer are older than those that came later, unless they are newer.
<1>10. ASSUME events[n].id < c PROVE l = q + m
  <2> SUFFICES ASSUME q + m < l PROVE FALSE
    BY <1>1, <1>6, <1>7, <1>a, <1>b, <1>c
  <2>1. l \in (q + 1)..l /\ l > q + m /\ l \in 1..l
    BY <1>1, <1>7, <1>a, <1>b, <1>c
  <2>2. records[l].id > c + q - 1 /\ records[l].id < events[n].id
    BY <1>2, <1>6, <2>1
  <2> QED
    <3>0. records[l].id \in Int
      BY <1>4, <1>5, <2>1, SMTT(30)
    <3>1. PICK y \in Int, z \in Int : y = events[n].id /\ z = records[l].id
      BY <1>a, <3>0
    <3>2. z > c + q - 1 /\ z < y /\ y < c /\ q >= 1
      BY <1>7, <1>10, <2>2, <3>1
    <3> QED
      BY <1>a, <3>2, SMTT(30)
<1>11. a \in 1..Len(view) /\ b \in 0..Len(view) /\ a + b <= Len(view)
  <2>1. CASE events[n].id < c
    <3>1. l = q + m /\ b = m + 1
      BY <1>10, <1>c, <2>1
    <3>2. PICK v \in Int : v = Len(view)
      BY <1>b
    <3>3. v = l - d + 1 /\ d \in {0, 1} /\ m >= 0
      BY <1>1, <1>7, <3>2
    <3>4. a \in 1..v /\ b \in 0..v /\ a + b <= v
      BY <1>a, <1>b, <3>1, <3>3
    <3> QED
      BY <3>2, <3>4
  <2>2. CASE ~(events[n].id < c)
    BY <1>1, <1>6, <1>7, <1>a, <1>b, <1>c, <2>2
  <2> QED
    BY <2>1, <2>2
<1>12. x \in Logged
  <2>1. CASE d = 0
    BY <1>4, <2>1
  <2>2. CASE d = 1
    <3>1. 2 \in 1..q /\ 2 \in 1..l
      BY <1>7, <1>a, <1>b, <1>c, <2>2
    <3>2. records[2].id = c + 2 - 1
      BY <1>6, <3>1
    <3>3. x = records[2].id
      BY <1>7, <1>a, <1>b, <1>c, <2>2, <3>2
    <3> QED
      BY <1>4, <1>5, <3>1, <3>3
  <2> QED
    BY <1>1, <2>1, <2>2
<1>13. Loaded'
  BY <1>2, <1>6 DEF Loaded
<1>14. \A k \in 1..a : view[k].id = x + k - 1
  <2> TAKE k \in 1..a
  <2>0. k \in Int /\ 1 <= k /\ k <= a
    BY <1>b
  <2>1. k \in 1..(l - d) /\ k + d \in 1..q /\ c + (k + d) - 1 = x + k - 1
    <3>1. k + d <= q /\ k + d >= 1 /\ k <= l - d
      BY <1>1, <1>7, <1>a, <1>b, <2>0
    <3>2. c + (k + d) - 1 = x + k - 1
      BY <1>a, <1>b, <2>0
    <3> QED
      BY <1>a, <2>0, <3>1, <3>2
  <2> QED
    BY <1>1, <1>6, <2>1
\* A row after those of the answer is the new one, or one of those there were.
<1>15. ASSUME NEW k \in (a + 1)..Len(view), k # l - d + 1
       PROVE  /\ k + d \in (q + 1)..l /\ k + d \in 1..l /\ view[k] = records[k + d]
              /\ k \in Int /\ view[k].id \in 1..CountAt(Now)
  <2>1. k \in 1..(l - d) /\ k + d \in (q + 1)..l /\ k + d \in 1..l /\ k \in Int
    BY <1>1, <1>7, <1>a, <1>b, <1>c, <1>15
  <2> QED
    BY <1>1, <1>5, <2>1
<1>16. \A i \in Pending' : IsNew(i) => events[n].id < events[i].id
  BY PutLast
<1>17. \A j, k \in (a + 1)..Len(view) : j < k => view[j].id < view[k].id
  <2> SUFFICES ASSUME NEW j \in (a + 1)..Len(view), NEW k \in (a + 1)..Len(view), j < k
               PROVE  view[j].id < view[k].id
    OBVIOUS
  <2>1. j # l - d + 1 /\ j \in Int /\ k \in Int
    BY <1>1, <1>7, <1>a, <1>b, <1>c
  <2>2. /\ j + d \in (q + 1)..l /\ view[j] = records[j + d]
    BY <1>15, <2>1
  <2>3. CASE k = l - d + 1
    <3>1. records[j + d].id < events[n].id
      BY <1>2, <1>6, <2>2
    <3> QED
      BY <1>1, <2>2, <2>3, <3>1
  <2>4. CASE k # l - d + 1
    <3>1. k + d \in (q + 1)..l /\ view[k] = records[k + d]
      BY <1>15, <2>4
    <3>2. j + d < k + d
      BY <1>1, <2>1
    <3> QED
      BY <1>6, <2>2, <3>1, <3>2
  <2> QED
    BY <2>3, <2>4
<1>18. ASSUME NEW k \in (a + 1)..Len(view), NEW i \in Pending', IsNew(i)
       PROVE  view[k].id < events[i].id
  <2>1. CASE k = l - d + 1
    BY <1>1, <1>16, <1>18, <2>1
  <2>2. CASE k # l - d + 1
    BY <1>2, <1>6, <1>15, <1>18, <2>2
  <2> QED
    BY <2>1, <2>2
<1>19. ASSUME NEW k \in (a + 1)..Len(view)
       PROVE  /\ k <= a + b => view[k].id < x
              /\ k > a + b => view[k].id > x + a - 1
  <2>0. x + a - 1 = c + q - 1 /\ c <= x /\ k \in Int /\ a \in Int /\ b \in Int
    BY <1>1, <1>7, <1>a, <1>b, <1>c
  <2>1. CASE k = l - d + 1
    <3>1. CASE events[n].id < c
      BY <1>1, <1>7, <1>a, <1>b, <1>c, <1>10, <2>0, <2>1, <3>1, SMTT(30)
    <3>2. CASE ~(events[n].id < c)
      BY <1>1, <1>6, <1>7, <1>a, <1>b, <1>c, <1>9, <2>0, <2>1, <3>2
    <3> QED
      BY <3>1, <3>2
  <2>2. CASE k # l - d + 1
    <3>1. k + d \in (q + 1)..l /\ view[k] = records[k + d] /\ view[k].id \in 1..CountAt(Now)
      BY <1>15, <2>2
    <3>2. /\ k + d <= q + m => view[k].id < c
          /\ k + d > q + m => view[k].id > c + q - 1
      BY <1>6, <3>1
    <3>3. view[k].id \in Int /\ k + d \in Int
      BY <1>4, <3>1, SMTT(30)
    <3>z. PICK z \in Int : z = view[k].id
      BY <3>3
    <3>4. CASE events[n].id < c
      <4>1. k + d <= q + m
        BY <1>1, <1>7, <1>a, <1>b, <1>c, <1>10, <3>1, <3>4
      <4>c. view[k].id < c
        BY <3>2, <4>1
      <4>2. view[k].id < x
        BY <1>a, <1>b, <2>0, <3>z, <4>c
      <4>3. k <= a + b
        BY <1>1, <1>7, <1>a, <1>b, <1>c, <2>0, <3>4, <4>1
      <4> QED
        BY <1>b, <2>0, <4>2, <4>3, SMTT(30)
    <3>5. CASE ~(events[n].id < c)
      <4>1. (k <= a + b <=> k + d <= q + m) /\ (k > a + b <=> k + d > q + m)
        <5>1. b = m
          BY <1>c, <3>5
        <5>2. PICK u \in Int, w \in Int : u = k /\ w = q
          BY <1>a, <2>0
        <5>3. a + b = w - d + m /\ k + d = u + d
          BY <1>b, <5>1, <5>2
        <5>4. /\ u <= w - d + m <=> u + d <= w + m
              /\ u > w - d + m <=> u + d > w + m
          BY <1>a
        <5> QED
          BY <5>2, <5>3, <5>4
      <4>2. view[k].id < c => view[k].id < x
        <5>1. z < c => z < x
          BY <1>a, <1>b, <2>0
        <5> QED
          BY <3>z, <5>1
      <4>3. view[k].id > c + q - 1 => view[k].id > x + a - 1
        BY <2>0
      <4> QED
        BY <3>2, <4>1, <4>2, <4>3
    <3> QED
      BY <3>4, <3>5
  <2> QED
    BY <2>1, <2>2
<1>20. x > 1 => a >= Limit \/ Len(view) = MaxDisplay
  <2>1. CASE d = 0
    <3>1. a = q /\ x = c /\ (c > 1 => q >= Limit)
      BY <1>1, <1>6, <1>7, <1>a, <1>b, <1>c, <2>1
    <3> QED
      BY <3>1
  <2>2. CASE d = 1
    BY <1>1, <2>2
  <2> QED
    BY <1>1, <2>1, <2>2
<1>21. b > MaxDisplay - Limit =>
         \/ \E i \in Pending' : IsNew(i) /\ events[i].id < x
         \/ x..(x + a - 1) \subseteq missed'
  <2> SUFFICES ASSUME b > MaxDisplay - Limit
               PROVE  \/ \E i \in Pending' : IsNew(i) /\ events[i].id < x
                      \/ x..(x + a - 1) \subseteq missed'
    OBVIOUS
  <2>1. CASE events[n].id < c /\ d = 0
    <3>1. c > 1 /\ l # MaxDisplay /\ q >= Limit /\ l = q + m /\ b = m + 1
      BY <1>1, <1>6, <1>7, <1>a, <1>b, <1>c, <1>10, <2>1
    <3> QED
      BY <1>1, <1>5, <1>7, <3>1
  <2>2. CASE events[n].id < c /\ d = 1
    <3>1. PICK j \in 1..Now : IsNew(j) /\ events[j].id = c
      BY <1>4
    <3>2. n < j
      BY <1>2, <2>2, <3>1, OlderIsEarlier
    <3>3. j \in Pending' /\ c < x
      BY <1>2, <1>7, <2>2, <3>1, <3>2
    <3> QED
      BY <3>1, <3>3
  <2>3. CASE ~(events[n].id < c)
    <3>1. \/ \E i \in Pending : IsNew(i) /\ events[i].id < c
          \/ c..(c + q - 1) \subseteq missed
      BY <1>6, <2>3
    <3>2. CASE \E i \in Pending : IsNew(i) /\ events[i].id < c
      <4>1. PICK i \in Pending : IsNew(i) /\ events[i].id < c
        BY <3>2
      <4>2. i \in Pending' /\ events[i].id \in Int
        <5>1. i \in 1..Now
          BY <1>4 DEF Pending
        <5>2. events[i].id \in Int
          BY <1>4, <5>1
        <5>3. i # n
          BY <2>3, <4>1
        <5> QED
          BY <1>2, <5>2, <5>3
      <4>3. events[i].id < x
        BY <1>1, <1>7, <1>a, <1>b, <1>c, <4>1, <4>2
      <4> QED
        BY <4>1, <4>2, <4>3
    <3>3. CASE c..(c + q - 1) \subseteq missed
      <4>1. x..(x + a - 1) \subseteq c..(c + q - 1)
        BY <1>1, <1>7, <1>a, <1>b, <1>c, SMTT(30)
      <4> QED
        BY <1>2, <3>3, <4>1
    <3> QED
      BY <3>1, <3>2, <3>3
  <2> QED
    BY <1>1, <2>1, <2>2, <2>3
<1>22. Layout(a, b, x)'
  BY <1>1, <1>2, <1>3, <1>11, <1>13, <1>14, <1>17, <1>18, <1>19, <1>20, <1>21, SMTT(30) DEF Layout
<1> QED
  BY <1>11, <1>12, <1>22

\* Rows in order stay so.
LEMMA PutPlain ==
  ASSUME TypeInv, NEW n \in 1..Now, Delivered(n), Puts(n), hasty = 0, Plain
  PROVE  Plain'
<1>1. PICK view, l, d : PutFits(n, view, l, d)
  BY PutFacts
<1>2. /\ view = records' /\ l = Len(records) /\ l \in Nat
      /\ d \in {0, 1} /\ l - d \in Nat /\ Len(view) = l - d + 1
      /\ \A i \in 1..(l - d) : view[i] = records[i + d] /\ i + d \in 1..l
      /\ view[l - d + 1].id = events[n].id
  BY <1>1 DEF PutFits
<1>3. /\ events' = events /\ IsNew(n) /\ n \in Pending /\ \A i \in Pending' : i \in Pending
  BY DEF Delivered, Puts
<1>4. Now' = Now /\ \A i : IsNew(i)' <=> IsNew(i)
  BY <1>3, SameLog
<1>5. \A i \in Pending' : IsNew(i) => events[n].id < events[i].id
  BY PutLast
<1>6. /\ \A j, k \in 1..l : j < k => records[j].id < records[k].id
      /\ \A k \in 1..l, i \in Pending : IsNew(i) => records[k].id < events[i].id
  BY <1>2 DEF Plain
<1>7. ASSUME NEW k \in 1..Len(view), k # l - d + 1
      PROVE  k \in 1..(l - d) /\ view[k] = records[k + d] /\ k + d \in 1..l
  <2>1. k \in 1..(l - d)
    BY <1>2, <1>7
  <2> QED
    BY <1>2, <2>1
<1>8. \A j, k \in 1..Len(view) : j < k => view[j].id < view[k].id
  <2> SUFFICES ASSUME NEW j \in 1..Len(view), NEW k \in 1..Len(view), j < k
               PROVE  view[j].id < view[k].id
    OBVIOUS
  <2>1. j # l - d + 1 /\ j \in Int /\ k \in Int
    BY <1>2
  <2>2. view[j] = records[j + d] /\ j + d \in 1..l
    BY <1>7, <2>1
  <2>3. CASE k = l - d + 1
    <3>1. records[j + d].id < events[n].id
      BY <1>3, <1>6, <2>2
    <3> QED
      BY <1>2, <2>2, <2>3, <3>1
  <2>4. CASE k # l - d + 1
    <3>1. view[k] = records[k + d] /\ k + d \in 1..l
      BY <1>7, <2>4
    <3>2. j + d < k + d
      BY <1>2, <2>1
    <3> QED
      BY <1>6, <2>2, <3>1, <3>2
  <2> QED
    BY <2>3, <2>4
<1>9. ASSUME NEW k \in 1..Len(view), NEW i \in Pending', IsNew(i)
      PROVE  view[k].id < events[i].id
  <2>1. CASE k = l - d + 1
    BY <1>2, <1>5, <1>9, <2>1
  <2>2. CASE k # l - d + 1
    BY <1>3, <1>6, <1>7, <1>9, <2>2
  <2> QED
    BY <2>1, <2>2
<1> QED
  BY <1>2, <1>3, <1>4, <1>8, <1>9 DEF Plain

\* When the last row of the answer goes for the new one, those that remain were
\* delivered.
LEMMA PutAfterAnswer ==
  ASSUME TypeInv, ScreenInv, NEW n \in 1..Now, Delivered(n), Puts(n), hasty = 0,
         NEW view, NEW l, PutFits(n, view, l, 1),
         NEW m \in 0..Len(records), NEW c \in Logged, Layout(1, m, c)
  PROVE  Plain'
<1>1. /\ view = records' /\ l = Len(records) /\ l \in Nat /\ l - 1 \in Nat
      /\ \A i \in 1..(l - 1) : view[i] = records[i + 1] /\ i + 1 \in 1..l
      /\ view[l - 1 + 1].id = events[n].id /\ Len(view) = l - 1 + 1
  BY DEF PutFits
<1>2. Len(view) = l /\ view[l].id = events[n].id /\ l \in Int
  <2>1. l - 1 + 1 = l
    BY <1>1
  <2> QED
    BY <1>1, <2>1
<1>3. /\ events' = events /\ IsNew(n) /\ n \in Pending /\ \A i \in Pending' : i \in Pending
  BY DEF Delivered, Puts
<1>4. Now' = Now /\ \A i : IsNew(i)' <=> IsNew(i)
  BY <1>3, SameLog
<1>5. \A i \in Pending' : IsNew(i) => events[n].id < events[i].id
  BY PutLast
<1>6. /\ \A j, k \in 2..l : j < k => records[j].id < records[k].id
      /\ \A k \in 2..l, i \in Pending : IsNew(i) => records[k].id < events[i].id
  <2>1. 1 + 1 = 2
    OBVIOUS
  <2> QED
    BY <1>1, <2>1 DEF Layout
<1>7. ASSUME NEW k \in 1..l, k # l PROVE view[k] = records[k + 1] /\ k + 1 \in 2..l
  <2>1. k \in 1..(l - 1) /\ k + 1 \in 2..l
    BY <1>1, <1>7
  <2> QED
    BY <1>1, <2>1
<1>8. \A j, k \in 1..l : j < k => view[j].id < view[k].id
  <2> SUFFICES ASSUME NEW j \in 1..l, NEW k \in 1..l, j < k PROVE view[j].id < view[k].id
    OBVIOUS
  <2>1. j # l /\ j \in Int /\ k \in Int
    BY <1>1
  <2>2. view[j] = records[j + 1] /\ j + 1 \in 2..l
    BY <1>7, <2>1
  <2>3. CASE k = l
    <3>1. records[j + 1].id < events[n].id
      BY <1>3, <1>6, <2>2
    <3> QED
      BY <1>2, <2>2, <2>3, <3>1
  <2>4. CASE k # l
    <3>1. view[k] = records[k + 1] /\ k + 1 \in 2..l
      BY <1>7, <2>4
    <3>2. j + 1 < k + 1
      BY <2>1
    <3> QED
      BY <1>6, <2>2, <3>1, <3>2
  <2> QED
    BY <2>3, <2>4
<1>9. ASSUME NEW k \in 1..l, NEW i \in Pending', IsNew(i) PROVE view[k].id < events[i].id
  <2>1. CASE k = l
    BY <1>2, <1>5, <1>9, <2>1
  <2>2. CASE k # l
    BY <1>3, <1>6, <1>7, <1>9, <2>2
  <2> QED
    BY <2>1, <2>2
<1> QED
  BY <1>1, <1>2, <1>3, <1>4, <1>8, <1>9 DEF Plain

LEMMA PutsStep ==
  ASSUME TypeInv, OrderType, ScreenInv, NEW n \in 1..Now, Delivered(n), Puts(n)
  PROVE  ScreenInv'
<1>1. ShownOnce' /\ Known'
  BY PutShown DEF ScreenInv
<1>2. AnswerFits'
  BY DueStays DEF ScreenInv
<1>3. StatusFits'
  BY PutStatus
<1>4. RecordsFit'
  BY PutRecords
<1>5. InOrder'
  <2>1. PICK view, l, d : PutFits(n, view, l, d)
    BY PutFacts
  <2>2. /\ view = records' /\ l = Len(records) /\ d \in {0, 1} /\ hasty' = hasty
    BY <2>1 DEF PutFits, Delivered
  <2> SUFFICES ASSUME ~Disorder, hasty = 0
               PROVE  Plain' \/ \E a \in 1..Len(view), b \in 0..Len(view), x \in Logged' :
                                  Layout(a, b, x)'
    <3>1. Disorder' <=> Disorder
      BY SameOrder DEF Delivered
    <3> QED
      BY <2>2, <3>1, NoHaste DEF InOrder
  <2>3. CASE Plain
    <3>1. Plain'
      BY <2>3, PutPlain
    <3> QED
      BY <3>1
  <2>4. CASE ~Plain
    <3>1. PICK q \in 1..Len(records), m \in 0..Len(records), c \in Logged : Layout(q, m, c)
      BY <2>4 DEF ScreenInv, InOrder
    <3>2. q \in Nat /\ q >= 1
      BY RowFacts
    <3>3. Logged' = Logged
      BY SameLog DEF Delivered
    <3>4. CASE q = 1 /\ d = 1
      <4>1. PutFits(n, view, l, 1) /\ Layout(1, m, c)
        BY <2>1, <3>1, <3>4
      <4>2. Plain'
        BY <4>1, PutAfterAnswer
      <4> QED
        BY <4>2
    <3>5. CASE ~(q = 1 /\ d = 1)
      <4>1. q - d > 0
        BY <2>2, <3>2, <3>5
      <4>2. PICK a, x, b : a = q - d /\ x = c + d /\ b = IF events[n].id < c THEN m + 1 ELSE m
        OBVIOUS
      <4>3. a > 0
        BY <4>1, <4>2
      <4>4. a \in 1..Len(view) /\ b \in 0..Len(view) /\ x \in Logged /\ Layout(a, b, x)'
        BY <2>1, <3>1, <4>2, <4>3, PutLayout
      <4> QED
        BY <3>3, <4>4
    <3> QED
      BY <3>4, <3>5
  <2> QED
    BY <2>3, <2>4
<1> QED
  BY <1>1, <1>2, <1>3, <1>4, <1>5 DEF ScreenInv

LEMMA ScreenInductive ==
  TypeInv /\ TypeInv' /\ OrderType /\ HasteInv /\ ScreenInv /\ [Next]_vars => ScreenInv'
<1> SUFFICES ASSUME TypeInv, TypeInv', OrderType, HasteInv, ScreenInv, [Next]_vars PROVE ScreenInv'
  OBVIOUS
<1>0. RanksStay
  BY OrderInductive
<1>1. ASSUME NEW exported \in BOOLEAN, NEW place \in Record, RecordLog(exported, place) PROVE ScreenInv'
  <2>1. Carried
    BY <1>1, RecordLogCarries
  <2> QED
    BY <1>0, <2>1, Carrying
<1>2. ASSUME NEW r \in Record, NEW s \in FileStatus, FileChanges(r, s) PROVE ScreenInv'
  <2>1. Carried
    BY <1>2, FileChangesCarries
  <2> QED
    BY <1>0, <2>1, Carrying
<1>3. ASSUME NEW inserted \in BOOLEAN, NEW place \in Record, ServerDies(inserted, place) PROVE ScreenInv'
  <2>1. Carried
    BY <1>3, ServerDiesCarries
  <2> QED
    BY <1>0, <2>1, Carrying
<1>4. ASSUME \/ ServerStarts \/ TimerFires \/ UNCHANGED vars
             \/ \E s \in SocketId : Connects(s) \/ ConnectFails(s) \/ OnClose(s)
      PROVE  ScreenInv'
  <2>1. Carried
    BY <1>4, OthersCarry
  <2> QED
    BY <1>0, <2>1, Carrying
<1>5. ASSUME NEW s \in SocketId, Breaks(s) PROVE ScreenInv'
  <2>1. Carried
    BY <1>5, BreaksCarries
  <2> QED
    BY <1>0, <2>1, Carrying
<1>6. ASSUME NEW s \in SocketId, Deliver(s) PROVE ScreenInv'
  <2>1. PICK n \in 1..Now : Delivered(n)
    BY <1>6, DeliverFacts
  <2>2. Keeps(n) \/ Puts(n) \/ Sets(n)
    BY <2>1 DEF Delivered
  <2> QED
    BY <2>1, <2>2, KeepsStep, PutsStep, SetsStep
<1>7. CASE Enter \/ Leave \/ Clear
  BY <1>7, BlankSteps
<1>8. CASE AnswerLogs
  BY <1>8, AnswerStep
<1>9. CASE LogsArrive
  BY <1>9, ArriveStep
<1>10. CASE LogsFail
  BY <1>10, FailStep
<1> QED
  BY <1>1, <1>2, <1>3, <1>4, <1>5, <1>6, <1>7, <1>8, <1>9, <1>10 DEF Next

LEMMA ScreenInitially == Init => ScreenInv
<1> SUFFICES ASSUME Init PROVE ScreenInv
  OBVIOUS
<1>1. mounted = FALSE /\ load = -2 /\ records = <<>> /\ Len(records) = 0
  BY DEF Init, Done
<1>2. ShownOnce /\ Known /\ AnswerFits /\ StatusFits /\ RecordsFit
  BY <1>1 DEF ShownOnce, Known, AnswerFits, StatusFits, RecordsFit, Loaded
<1>3. Plain
  BY <1>1 DEF Plain
<1> QED
  BY <1>2, <1>3 DEF ScreenInv, InOrder

\* A quiet screen: nothing is due any more but what was missed.
LEMMA ScreenHolds == TypeInv /\ ScreenInv => ScreenIsDatabase
<1> SUFFICES ASSUME TypeInv, ScreenInv PROVE ScreenIsDatabase
  OBVIOUS
<1>1. ShownOnce
  BY DEF ScreenInv
<1> SUFFICES ASSUME Quiet
             PROVE  /\ \A k \in DOMAIN records :
                         records[k].id \in missed \/ records[k].status = StatusAt(records[k].id, Now)
                    /\ \A r \in Logged : Cardinality(Ahead(r)) < Limit =>
                         \/ r \in missed \/ OnScreen(r)
                         \/ r \in givenUp /\ Disorder
  BY <1>1 DEF ScreenIsDatabase, Disorder
<1>2. Loaded
  BY DEF Quiet, Loaded
<1>3. Pending = {}
  <2> SUFFICES ASSUME NEW i \in Pending PROVE FALSE
    OBVIOUS
  <2>1. PICK s \in SocketId : Open(s) /\ socket[s].next <= i /\ i \in 1..Now
    BY DEF Pending
  <2>2. socket[s].next \in Int /\ Now \in Nat
    BY <2>1, LogFacts DEF TypeInv, SocketsType
  <2>3. i \in socket[s].next..Now
    BY <2>1, <2>2
  <2>4. events[i].id \in Undelivered(s)
    BY <2>1, <2>3 DEF Undelivered
  <2> QED
    BY <2>4 DEF Quiet
<1>4. \A i \in 1..Now : Due(i) => events[i].id \in missed
  BY <1>3 DEF Due
<1>5. DOMAIN records = 1..Len(records)
  BY RowFacts
<1>6. \A k \in 1..Len(records) :
        records[k].id \in missed \/ records[k].status = StatusAt(records[k].id, Now)
  BY <1>2, <1>4 DEF ScreenInv, StatusFits
<1>7. \A r \in Logged : Cardinality(Ahead(r)) < Limit =>
        \/ r \in missed \/ OnScreen(r) \/ (r \in givenUp /\ Disorder)
  BY <1>2, <1>4 DEF ScreenInv, RecordsFit
<1> QED
  BY <1>5, <1>6, <1>7

-----------------------------------------------------------------------------

\* Every variable holds what the code can put there: the client names a socket
\* whose close event is still to come, and the screen is bounded.
THEOREM TypeCorrect == Spec => []TypeOK
<1>1. Spec => [](TypeInv /\ OrderType)
  BY TypeInitially, TypeInductive, OrderInitially, OrderInductive, PTL DEF Spec
<1> QED
  BY <1>1, TypesHold, PTL

\* The client forgets a socket that is still open only when the page was opened
\* again before the close event of an old one.
THEOREM ForgetsOnlyInHaste == Spec => []ForgetsInHaste
<1>1. Spec => [](TypeInv /\ HasteInv)
  BY TypeInitially, TypeInductive, HasteInitially, HasteInductive, PTL DEF Spec
<1> QED
  BY <1>1, HasteHolds, PTL

\* The screen never shows a record twice; and when the log is loaded and nothing is
\* on its way, it has the last records, those with few Ahead by number or by time,
\* each with the current state of its file, but for those of which the visit may
\* have missed news.
THEOREM ScreenMatchesDatabase == Spec => []ScreenIsDatabase
<1>1. Spec => [](TypeInv /\ OrderType /\ HasteInv /\ ScreenInv)
  <2>1. Init => TypeInv /\ OrderType /\ HasteInv /\ ScreenInv
    BY TypeInitially, OrderInitially, HasteInitially, ScreenInitially
  <2>2. TypeInv /\ OrderType /\ HasteInv /\ ScreenInv /\ [Next]_vars
          => TypeInv' /\ OrderType' /\ HasteInv' /\ ScreenInv'
    BY TypeInductive, OrderInductive, HasteInductive, ScreenInductive
  <2> QED
    BY <2>1, <2>2, PTL DEF Spec
<1> QED
  BY <1>1, ScreenHolds, PTL

=============================================================================
